------------------------------ MODULE DirRead ------------------------------
(***************************************************************************)
(* Listing a directory of the initrd (fs/initrd.c) or of devfs (fs/devfs.c) *)
(* with getdents and lseek while other processes add and remove entries.    *)
(*                                                                         *)
(* A handle keeps a pointer to the next entry and an offset.  Entries are   *)
(* linked through `next`; initrd adds at the end, devfs at the front.  A    *)
(* removed entry is freed unless it is open; its memory keeps what detach   *)
(* left in it until a new entry reuses it.  Each call is one step: it runs  *)
(* with interrupts off.                                                     *)
(***************************************************************************)
EXTENDS Integers, FiniteSets, FiniteSetsExt, Sequences, SequencesExt

CONSTANTS Node, Handle,
          LongNames,    \* nodes whose record takes two units, the others one
          Prepend,      \* TRUE for devfs
          MaxCount,     \* the largest buffer given to getdents, in units
          MaxOffset     \* no handle reads on past this offset

NULL == "NULL"

VARIABLES dir,      \* first, next, len; live: in use; open: held by a handle
          handle,   \* [cursor, offset] of each handle
          seen,     \* history: what a handle listed since it was at the start
          due,      \* history: entries that were there at that time
          exact     \* history: no entry was removed since, no other seek made
vars == <<dir, handle, seen, due, exact>>

RECURSIVE ListFrom(_, _)
ListFrom(d, n) == IF n = NULL THEN <<>> ELSE <<n>> \o ListFrom(d, d.next[n])

Entries(d) == ListFrom(d, d.first)

-----------------------------------------------------------------------------
(* The list.                                                               *)

AddChild(d, n) ==
  IF d.first = NULL
  THEN [d EXCEPT !.first = n, !.next[n] = NULL, !.len = @ + 1, !.live = @ \cup {n}]
  ELSE [d EXCEPT !.next = [@ EXCEPT ![n] = NULL, ![Last(Entries(d))] = n],
                 !.len = @ + 1, !.live = @ \cup {n}]

BugCreateChild(d, n) ==
  [d EXCEPT !.next[n] = d.first, !.first = n, !.live = @ \cup {n}]

CreateChild(d, n) ==
  [d EXCEPT !.next[n] = d.first, !.first = n, !.len = @ + 1, !.live = @ \cup {n}]

DetachChild(d, n) ==
  LET prev == {m \in ToSet(Entries(d)) : d.next[m] = n}
  IN  [d EXCEPT !.first = IF @ = n THEN d.next[n] ELSE @,
                !.next = [m \in Node |-> IF m = n THEN NULL
                                         ELSE IF m \in prev THEN d.next[n] ELSE @[m]],
                !.len = @ - 1]

\* The last link and the last handle are gone.
ReleaseNode(d, n) == IF n \in d.open THEN d ELSE [d EXCEPT !.live = @ \ {n}]

-----------------------------------------------------------------------------
(* A handle.                                                               *)

Reader(d, cursor, offset) == [d |-> d, cursor |-> cursor, offset |-> offset]

InitrdReaddir(r) ==
  IF r.cursor = NULL THEN [r |-> r, out |-> NULL]
  ELSE [r |-> [r EXCEPT !.cursor = r.d.next[@], !.offset = @ + 1], out |-> r.cursor]

DevfsReaddir(r) == InitrdReaddir(r)

VfsReaddir(r) == IF Prepend THEN DevfsReaddir(r) ELSE InitrdReaddir(r)

RECURSIVE Forward(_, _, _)
Forward(d, n, i) == IF i = 0 \/ n = NULL THEN n ELSE Forward(d, d.next[n], i - 1)

Clamp(r, offset) == IF offset < 0 THEN 0 ELSE IF offset > r.d.len THEN r.d.len ELSE offset

BugDirSeek(r, offset) == [r EXCEPT !.offset = Clamp(r, offset)]

\* initrd_seek and devfs's dir_seek, the same on a directory.
DirSeek(r, offset) ==
  LET pos == Clamp(r, offset)
  IN  [r EXCEPT !.offset = pos, !.cursor = Forward(r.d, r.d.first, pos)]

RecordLen(n) == IF n \in LongNames THEN 2 ELSE 1

\* The loop of syscall_getdents: an entry that does not fit is put back.
RECURSIVE GetdentsLoop(_, _, _)
GetdentsLoop(r, out, room) ==
  LET e == VfsReaddir(r)
  IN  IF room = 0 \/ e.out = NULL THEN [r |-> r, out |-> out]
      ELSE IF RecordLen(e.out) > room
           THEN [r |-> DirSeek(e.r, e.r.offset - 1), out |-> out]
      ELSE GetdentsLoop(e.r, Append(out, e.out), room - RecordLen(e.out))

SyscallGetdents(r, count) ==
  IF count = 0 THEN [r |-> r, out |-> <<>>] ELSE GetdentsLoop(r, <<>>, count)

-----------------------------------------------------------------------------
(* The calls.                                                              *)

Of(h) == Reader(dir, handle[h].cursor, handle[h].offset)

Put(h, r) == handle' = [handle EXCEPT ![h] = [cursor |-> r.cursor, offset |-> r.offset]]

Restart(h) ==
  /\ seen' = [seen EXCEPT ![h] = <<>>]
  /\ due' = [due EXCEPT ![h] = ToSet(Entries(dir))]
  /\ exact' = [exact EXCEPT ![h] = TRUE]

Forget(H) ==
  /\ seen' = [h \in Handle |-> IF h \in H THEN <<>> ELSE seen[h]]
  /\ due' = [h \in Handle |-> IF h \in H THEN {} ELSE due[h]]
  /\ exact' = [h \in Handle |-> exact[h] /\ h \notin H]

Getdents(h) ==
  \E count \in 0 .. MaxCount :
    LET g == SyscallGetdents(Of(h), count)
    IN  /\ Put(h, g.r)
        /\ seen' = IF exact[h] THEN [seen EXCEPT ![h] = @ \o g.out] ELSE seen
        /\ g.r.offset <= MaxOffset
        /\ UNCHANGED <<dir, due, exact>>

\* Closing the handle and opening the directory again.
Open(h) ==
  /\ Put(h, Reader(dir, dir.first, 0))
  /\ Restart(h)
  /\ UNCHANGED dir

Seek(h) ==
  \E offset \in 0 .. Cardinality(Node) :
    /\ Put(h, DirSeek(Of(h), offset))
    /\ IF offset = 0 THEN Restart(h) ELSE Forget({h})
    /\ UNCHANGED dir

Create(n) ==
  /\ n \notin dir.live
  /\ dir' = IF Prepend THEN CreateChild(dir, n) ELSE AddChild(dir, n)
  /\ UNCHANGED <<handle, seen, due, exact>>

\* unlink or rmdir.
Unlink(n) ==
  /\ n \in ToSet(Entries(dir))
  /\ dir' = ReleaseNode(DetachChild(dir, n), n)
  /\ Forget(Handle)
  /\ UNCHANGED handle

\* Some other process opens the entry, or closes it again.
HoldEntry(n) ==
  /\ n \in ToSet(Entries(dir)) \ dir.open
  /\ dir' = [dir EXCEPT !.open = @ \cup {n}]
  /\ UNCHANGED <<handle, seen, due, exact>>

DropEntry(n) ==
  /\ n \in dir.open
  /\ dir' = [dir EXCEPT !.open = @ \ {n},
                        !.live = IF n \in ToSet(Entries(dir)) THEN @ ELSE @ \ {n}]
  /\ UNCHANGED <<handle, seen, due, exact>>

Init ==
  /\ dir = [first |-> NULL, next |-> [n \in Node |-> NULL], len |-> 0, live |-> {}, open |-> {}]
  /\ handle = [h \in Handle |-> [cursor |-> NULL, offset |-> 0]]
  /\ seen = [h \in Handle |-> <<>>]
  /\ due = [h \in Handle |-> {}]
  /\ exact = [h \in Handle |-> TRUE]

Next == \/ \E h \in Handle : Getdents(h) \/ Open(h) \/ Seek(h)
        \/ \E n \in Node : Create(n) \/ Unlink(n) \/ HoldEntry(n) \/ DropEntry(n)

Spec == Init /\ [][Next]_vars

-----------------------------------------------------------------------------

\* The length that seeks are clamped to is the number of entries, and each
\* entry is memory in use.
LenExact ==
  /\ dir.len = Len(Entries(dir))
  /\ ToSet(Entries(dir)) \subseteq dir.live

\* A listing that reaches the end has shown every entry that was there when it
\* began, however the caller's buffers cut it up and whatever was added
\* meanwhile, unless entries were removed.
ListingComplete ==
  \A h \in Handle : exact[h] /\ handle[h].cursor = NULL => due[h] \subseteq ToSet(seen[h])

\* In the initrd no entry is shown twice.  (In devfs an entry added at the
\* front shifts the offsets, and an entry put back may come after one that was
\* shown before.)
ListedOnce == \A h \in Handle : exact[h] => IsInjective(seen[h])
=============================================================================
