-------------------------------- MODULE Vma ---------------------------------
(***************************************************************************)
(* The list of virtual memory areas of an address space                    *)
(* (src/kernel/memory/vma.c).  The doubly linked list is a sequence of     *)
(* records; ends are inclusive.  access, flags and offset of an area are   *)
(* one attribute, which trims and splits keep.                             *)
(***************************************************************************)
EXTENDS Integers, SequencesExt

CONSTANTS
    PageSize,   \* VMA_PAGE_SIZE
    LastAddr,   \* (haddr_t)-1
    Attr        \* access rights

Addr == 0 .. LastAddr
Area == [start : Addr, end : Addr, attr : Attr]
NotFound == -1

AlignUp(a) == ((a + PageSize - 1) \div PageSize) * PageSize
AlignDown(a) == (a \div PageSize) * PageSize
Overlaps(v, start, end) == v.start <= end /\ start <= v.end

\* end + 1 wraps to 0 at the last address, which is aligned.
RangeValid(start, end) ==
    start <= end /\ start % PageSize = 0 /\ (end + 1) % PageSize = 0

\* The loop that leaves behind the areas that end before start.
First(l, start) ==
    CHOOSE i \in 1 .. Len(l) + 1 :
        /\ i <= Len(l) => l[i].end >= start
        /\ \A j \in 1 .. i - 1 : l[j].end < start

\* vma_link_before
LinkBefore(l, i, v) ==
    [j \in 1 .. Len(l) + 1 |-> IF j < i THEN l[j] ELSE IF j = i THEN v ELSE l[j - 1]]

\* vma_unlink
UnlinkAt(l, i) == [j \in 1 .. Len(l) - 1 |-> IF j < i THEN l[j] ELSE l[j + 1]]

Insertable(l, start, end) ==
    /\ RangeValid(start, end)
    /\ LET i == First(l, start) IN i <= Len(l) => ~Overlaps(l[i], start, end)

\* vma_insert; mem says whether slab_calloc has memory.
VmaInsert(l, start, end, attr, mem) ==
    IF mem /\ Insertable(l, start, end)
    THEN LinkBefore(l, First(l, start), [start |-> start, end |-> end, attr |-> attr])
    ELSE l

Split(l, i, start, end) ==
    LET v == l[i]
    IN  LinkBefore([l EXCEPT ![i].end = start - 1], i + 1, [v EXCEPT !.start = end + 1])

\* vma_remove reaches into one area only, the first that ends at or after start.
\* It fails for an invalid range and when a split finds no memory.
VmaRemove(l, start, end, mem) ==
    LET i  == First(l, start)
        v  == l[i]
        to == IF end < v.end THEN end ELSE v.end
    IN  CASE ~RangeValid(start, end)            -> [ok |-> FALSE, list |-> l]
          [] i > Len(l)                         -> [ok |-> TRUE, list |-> l]
          [] v.start > start                    -> [ok |-> TRUE, list |-> l]
          [] v.start = start /\ to = v.end      -> [ok |-> TRUE, list |-> UnlinkAt(l, i)]
          [] v.start = start /\ to < v.end      -> [ok |-> TRUE, list |-> [l EXCEPT ![i].start = to + 1]]
          [] v.start < start /\ to = v.end      -> [ok |-> TRUE, list |-> [l EXCEPT ![i].end = start - 1]]
          [] v.start < start /\ to < v.end /\ mem  -> [ok |-> TRUE, list |-> Split(l, i, start, to)]
          [] v.start < start /\ to < v.end /\ ~mem -> [ok |-> FALSE, list |-> l]

\* The rights of the first area are given to all.
BugCopyList(l, n) ==
    LET step(d, v) == VmaInsert(d, v.start, v.end, l[1].attr, Len(d) + 1 # n)
        copy == FoldLeft(step, <<>>, l)
    IN  IF Len(copy) = Len(l) THEN [ok |-> TRUE, list |-> copy] ELSE [ok |-> FALSE, list |-> <<>>]

\* vma_copy_list into an empty list; memory runs out before area n, if at all.
VmaCopyList(l, n) ==
    LET step(d, v) == VmaInsert(d, v.start, v.end, v.attr, Len(d) + 1 # n)
        copy == FoldLeft(step, <<>>, l)
    IN  IF Len(copy) = Len(l) THEN [ok |-> TRUE, list |-> copy] ELSE [ok |-> FALSE, list |-> <<>>]

RangeFits(start, min, max, length) ==
    min <= start /\ start <= max /\ length - 1 <= LastAddr - start /\ start + length - 1 <= max

\* The search resumes at the end of an area, not behind it.
BugForwardStep(c, v, min, max, length) ==
    IF c.done \/ v.end < c.at THEN c
    ELSE IF c.at + length - 1 < v.start THEN [c EXCEPT !.done = TRUE]
    ELSE [at |-> v.end, done |-> ~RangeFits(v.end, min, max, length)]

\* One area of the loop of vma_find_free_forward; done with at = NotFound is failure.
ForwardStep(c, v, min, max, length) ==
    IF c.done \/ v.end < c.at THEN c
    ELSE IF c.at + length - 1 < v.start THEN [c EXCEPT !.done = TRUE]
    ELSE IF v.end # LastAddr /\ RangeFits(v.end + 1, min, max, length) THEN [c EXCEPT !.at = v.end + 1]
    ELSE [at |-> NotFound, done |-> TRUE]

FindFreeForward(l, hint, min, max, length) ==
    LET wish == IF hint = 0 THEN min ELSE AlignUp(hint)
        from == IF wish < min THEN min ELSE wish
        step(c, v) == ForwardStep(c, v, min, max, length)
    IN  IF \/ length = 0 \/ max < min \/ length % PageSize # 0
           \/ hint % PageSize # 0 /\ hint > LastAddr - (PageSize - 1)
           \/ ~RangeFits(from, min, max, length)
        THEN NotFound
        ELSE FoldLeft(step, [at |-> from, done |-> FALSE], l).at

\* One area, from the last to the first, of vma_find_free_backward.
BackwardStep(v, c, min, max, length) ==
    IF c.done \/ v.start > c.at + length - 1 THEN c
    ELSE IF v.end < c.at THEN [c EXCEPT !.done = TRUE]
    ELSE IF v.start <= min \/ length > v.start - min THEN [at |-> NotFound, done |-> TRUE]
    ELSE LET at == AlignDown(v.start - length)
         IN  IF RangeFits(at, min, max, length) THEN [c EXCEPT !.at = at]
             ELSE [at |-> NotFound, done |-> TRUE]

FindFreeBackward(l, hint, min, max, length) ==
    LET highest == AlignDown(max - length + 1)
        wish == IF hint = 0 THEN highest ELSE AlignDown(hint)
        from == IF wish > highest THEN highest ELSE wish
        step(v, c) == BackwardStep(v, c, min, max, length)
    IN  IF \/ length = 0 \/ max < min \/ length % PageSize # 0
           \/ length - 1 > max - min
           \/ ~RangeFits(from, min, max, length)
        THEN NotFound
        ELSE FoldRight(step, l, [at |-> from, done |-> FALSE]).at

FindFreeFixed(l, addr, min, max, length) ==
    IF \/ length = 0 \/ max < min \/ addr % PageSize # 0 \/ length % PageSize # 0
       \/ ~RangeFits(addr, min, max, length)
       \/ \E i \in 1 .. Len(l) : Overlaps(l[i], addr, addr + length - 1)
    THEN NotFound ELSE addr
=============================================================================
