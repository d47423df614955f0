------------------------------ MODULE VmaCalls ------------------------------
(***************************************************************************)
(* One list of areas under any sequence of calls, with memory running out  *)
(* at any of them, shown to implement PageMap.                             *)
(***************************************************************************)
EXTENDS Vma

CONSTANTS Free, MaxAreas    \* bound: areas in the list when a call may add one

VARIABLE list   \* vmm->vma_list

Init == list = <<>>

InsertRange(start, end, a, mem) ==
    /\ Len(list) < MaxAreas
    /\ list' = VmaInsert(list, start, end, a, mem)

RemoveRange(start, end, mem) ==
    /\ Len(list) < MaxAreas
    /\ list' = VmaRemove(list, start, end, mem).list

\* vma_clear
Clear == list' = <<>>

\* vmm_copy: from here on the behaviour follows the list of the child.
CopyList(n) ==
    /\ VmaCopyList(list, n).ok
    /\ list' = VmaCopyList(list, n).list

\* Every range of whole pages, and one of each kind that is rejected.
Ranges == {r \in Addr \X Addr : RangeValid(r[1], r[2])} \cup {<<1, 2>>, <<0, 2>>, <<PageSize, 0>>}

Next ==
    \/ \E r \in Ranges, mem \in BOOLEAN :
          \/ \E a \in Attr : InsertRange(r[1], r[2], a, mem)
          \/ RemoveRange(r[1], r[2], mem)
    \/ Clear
    \/ \E n \in 0 .. MaxAreas : CopyList(n)

Spec == Init /\ [][Next]_list
-----------------------------------------------------------------------------
TypeOK == list \in Seq(Area)

\* Areas are whole pages, in ascending order, and do not overlap, whatever trims
\* and splits made them: First and the searches depend on it.
SortedDisjoint(l) ==
    /\ \A i \in 1 .. Len(l) : RangeValid(l[i].start, l[i].end)
    /\ \A i, j \in 1 .. Len(l) : i < j => l[i].end < l[j].start

\* The list of areas stays sorted and free of overlaps.
AreasDisjoint == SortedDisjoint(list)

Page == 0 .. LastAddr \div PageSize

Rights(l) ==
    [p \in Page |->
        LET s == {i \in 1 .. Len(l) : l[i].start <= p * PageSize /\ p * PageSize <= l[i].end}
        IN  IF s = {} THEN Free ELSE l[CHOOSE i \in s : TRUE].attr]

Abstract == INSTANCE PageMap WITH rights <- Rights(list)

\* To its callers the list is a map from pages to rights: vma_insert changes free
\* pages only, and vma_remove changes no page outside the range it was given,
\* also when it runs out of memory in a split; the copy for a child is complete.
ImplementsPageMap == Abstract!Spec

FreeAt(a, length) ==
    \A i \in 1 .. Len(list) : ~Overlaps(list[i], a, a + length - 1)

Candidates(min, max, length) ==
    {a \in Addr : a % PageSize = 0 /\ RangeFits(a, min, max, length) /\ FreeAt(a, length)}

\* The searches are exact: forward returns the lowest free range from the
\* hint on, backward the highest up to the hint, fixed the range asked for;
\* they fail only when there is none.
SearchesExact ==
    \A hint \in Addr, min \in {0, PageSize}, max \in {LastAddr, LastAddr - PageSize - 1},
       n \in 1 .. LastAddr \div PageSize :
        LET length == n * PageSize
            C == Candidates(min, max, length)
            above == {a \in C : a >= hint}
            below == {a \in C : hint = 0 \/ a <= hint}
            f == FindFreeForward(list, hint, min, max, length)
            b == FindFreeBackward(list, hint, min, max, length)
            x == FindFreeFixed(list, hint, min, max, length)
        IN  /\ IF above = {} THEN f = NotFound ELSE f \in above /\ \A a \in above : f <= a
            /\ IF below = {} THEN b = NotFound ELSE b \in below /\ \A a \in below : b >= a
            /\ x = IF hint \in C THEN hint ELSE NotFound
=============================================================================
