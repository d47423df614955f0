------------------------------ MODULE PageFlags ------------------------------
(***************************************************************************)
(* The access bits of page tables (src/kernel/memory/vmm.c).  A page can be*)
(* used from user mode only if its entry and the entries of all tables on  *)
(* the way to it say so, and cannot be executed if any of them says NX.    *)
(* Tables are shared by pages that were mapped with different flags, so    *)
(* each mapping adjusts entries that others depend on.  One level of       *)
(* tables stands for the three, which are treated alike.                   *)
(***************************************************************************)
EXTENDS Naturals, FiniteSetsExt

CONSTANTS
    VirtPage,   \* page numbers
    TablePages, \* pages that one table maps
    HigherHalf  \* the tables of the kernel's half

ASSUME PageAssumption == VirtPage \subseteq Nat /\ TablePages \in Nat \ {0}

VARIABLES
    pt,     \* flags of each page's entry, {} when it is not present
    pd,     \* flags of each table's entry, {} when it is not present
    asked   \* what the last mapping of a page was asked for

pageVars == <<pt, pd, asked>>

TableOf(p) == p \div TablePages
Table == {TableOf(p) : p \in VirtPage}
\* PRESENT, USER_ACCESIBLE, EXECUTABLE (a request, bit 9) and NO_EXECUTE.
Requests == {{"P"} \cup f : f \in SUBSET {"U", "X"}}

IsHigherHalf(p) == TableOf(p) \in HigherHalf

NormalizeLeafFlags(p, flags) ==
    LET leaf == flags \ ({"X"} \cup IF IsHigherHalf(p) THEN {"U"} ELSE {})
    IN  IF IsHigherHalf(p) /\ "X" \notin flags THEN leaf \cup {"NX"}
        ELSE IF "X" \in flags THEN leaf \ {"NX"}
        ELSE leaf

NormalizeTableFlags(p, flags) ==
    {"P"} \cup (IF "U" \in flags /\ ~IsHigherHalf(p) THEN {"U"} ELSE {})
          \cup (IF IsHigherHalf(p) /\ "X" \notin flags THEN {"NX"} ELSE {})

\* An entry that exists keeps its NX bit.
BugClearNx(entry, flags) == entry

ClearNx(entry, flags) == IF "X" \in flags THEN entry \ {"NX"} ELSE entry

SetUserAccess(entry, p, flags) ==
    IF "U" \in flags /\ ~IsHigherHalf(p) THEN entry \cup {"U"} ELSE entry

\* walk_to_child_table with create.
WalkToChildTable(entry, p, flags) ==
    IF entry = {} THEN NormalizeTableFlags(p, flags)
    ELSE SetUserAccess(ClearNx(entry, flags), p, flags)

FlagsToMappingRequest(flags) == IF "NX" \in flags THEN flags ELSE flags \cup {"X"}

PageInit ==
    /\ pt = [p \in VirtPage |-> {}]
    /\ pd = [t \in Table |-> {}]
    /\ asked = [p \in VirtPage |-> {}]

\* map_at_paddr_internal, the same for the kernel's vmm and for others.
MapAtPaddr(p, flags) ==
    /\ pd' = [pd EXCEPT ![TableOf(p)] = WalkToChildTable(@, p, flags)]
    /\ pt' = [pt EXCEPT ![p] = NormalizeLeafFlags(p, flags)]
    /\ asked' = [asked EXCEPT ![p] = flags]

Unmap(p) ==
    /\ pd[TableOf(p)] # {}
    /\ pt' = [pt EXCEPT ![p] = {}]
    /\ asked' = [asked EXCEPT ![p] = {}]
    /\ UNCHANGED pd

PageNext == \E p \in VirtPage : Unmap(p) \/ \E flags \in Requests : MapAtPaddr(p, flags)

PageSpec == PageInit /\ [][PageNext]_pageVars
-----------------------------------------------------------------------------
UserCan(entry, table) == "U" \in entry /\ "U" \in table
CanExecute(entry, table) == "NX" \notin entry /\ "NX" \notin table

\* Whatever was mapped next to it before or since, a page of the kernel's half
\* can be executed exactly when that was asked for it, and a page of the lower
\* half always.
ExecutableWhenAsked ==
    \A p \in VirtPage : asked[p] # {} =>
        CanExecute(pt[p], pd[TableOf(p)]) = ("X" \in asked[p] \/ ~IsHigherHalf(p))

\* A page is open to user mode exactly when that was asked for it and it lies
\* in the lower half; no neighbour opens or closes it.
UserWhenAsked ==
    \A p \in VirtPage : UserCan(pt[p], pd[TableOf(p)]) = ("U" \in asked[p] /\ ~IsHigherHalf(p))

\* Each page has the rights it was asked for, whatever is mapped next to it.
RightsAsAsked == ExecutableWhenAsked /\ UserWhenAsked

\* vmm_copy: mapping the leaves of the lower half again in empty tables with
\* map_at_paddr_with_leaf_flags gives every page the rights it had.
CopyKeepsRights ==
    LET lower(t) == {p \in VirtPage : TableOf(p) = t /\ pt[p] # {}}
        walk(p, entry) == WalkToChildTable(entry, p, FlagsToMappingRequest(pt[p]))
        copied(t) == FoldSet(walk, {}, lower(t))
    IN  \A t \in Table \ HigherHalf : \A p \in lower(t) :
            /\ UserCan(pt[p], copied(t)) = UserCan(pt[p], pd[t])
            /\ CanExecute(pt[p], copied(t)) = CanExecute(pt[p], pd[t])

=============================================================================
