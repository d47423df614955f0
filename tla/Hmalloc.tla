------------------------------- MODULE Hmalloc -------------------------------
(***************************************************************************)
(* The heap of src/libc/hmalloc/hmalloc.c, used by the kernel and by user  *)
(* programs: blocks with a header and a footer, laid end to end, and a     *)
(* list of the free ones through their headers.  Every call runs with      *)
(* interrupts off in the kernel and in one thread in user programs.        *)
(***************************************************************************)
EXTENDS Integers, FiniteSets, SequencesExt

CONSTANTS
    Header, Footer, \* sizes of header and footer, SIZEOF_HEADER and SIZEOF_FOOTER
    PageSize,
    InitialPages,   \* first size of the heap
    MaxPages,       \* bound: pages the heap may get
    MaxBlocks,      \* bound: blocks in use
    MaxGrow,        \* bound: heap_grow_size, which every growth raises
    Sizes           \* sizes asked for

VARIABLES
    heap,   \* headers, footers, free_regions, last_footer, heap_grow_size
    owned   \* pointer -> size asked for, of the blocks in use

vars == <<heap, owned>>

Null == 0
Overhead == Header + Footer
HeapStart == PageSize

\* Memory holds headers and footers at addresses.
With(f, a, v) == [x \in DOMAIN f \cup {a} |-> IF x = a THEN v ELSE f[x]]
Without(f, a) == [x \in DOMAIN f \ {a} |-> f[x]]
PutHeader(h, b, v) == [h EXCEPT !.hdr = With(@, b, v)]

FreeList(h) ==
    LET step(w, i) == IF w.at = Null THEN w ELSE [at |-> h.hdr[w.at].next, seen |-> Append(w.seen, w.at)]
    IN  FoldLeft(step, [at |-> h.first, seen |-> <<>>], [i \in 1 .. Cardinality(DOMAIN h.hdr) |-> i]).seen

AlignUp(addr) == ((addr + PageSize - 1) \div PageSize) * PageSize
BytesToPages(size) == (size + Overhead + PageSize - 1) \div PageSize

IsBlockHeaderInHeap(h, b) == b # Null /\ b >= HeapStart /\ b + Header <= h.last
IsFooterInHeap(h, f) == f # Null /\ f >= HeapStart /\ f <= h.last

\* A block of `size` bytes at b with a footer behind it, free, in no list.
MakeBlock(h, b, size) ==
    LET f == b + Header + size
    IN  [PutHeader(h, b, [free |-> TRUE, size |-> size, next |-> Null, footer |-> f])
            EXCEPT !.ftr = With(@, f, b)]

\* The last block of list l in front of b.
Before(l, b) ==
    l[CHOOSE j \in 1 .. Len(l) : /\ j = Len(l) \/ l[j + 1] >= b
                                 /\ \A k \in 1 .. j - 1 : l[k + 1] < b]

InsertFreeBlock(h, b) ==
    LET h1 == [h EXCEPT !.hdr[b].free = TRUE]
        Behind(p) == [h1 EXCEPT !.hdr[b].next = h.hdr[p].next, !.hdr[p].next = b]
    IN  IF h.first = Null \/ b < h.first
        THEN [h1 EXCEPT !.hdr[b].next = h.first, !.first = b]
        ELSE Behind(Before(FreeList(h), b))

RemoveFromFreeList(h, b) ==
    LET prev == {p \in ToSet(FreeList(h)) : h.hdr[p].next = b}
    IN  IF h.first = b THEN [h EXCEPT !.first = h.hdr[b].next, !.hdr[b].next = Null]
        ELSE IF prev = {} THEN h
        ELSE [h EXCEPT !.hdr[CHOOSE p \in prev : TRUE].next = h.hdr[b].next, !.hdr[b].next = Null]

ReplaceFreeListBlock(h, old, new) ==
    LET prev == {p \in ToSet(FreeList(h)) : h.hdr[p].next = old}
    IN  IF h.first = old
        THEN [h EXCEPT !.hdr[new].next = h.hdr[old].next, !.first = new, !.hdr[old].next = Null]
        ELSE IF prev # {}
        THEN [h EXCEPT !.hdr[new].next = h.hdr[old].next, !.hdr[CHOOSE p \in prev : TRUE].next = new,
                       !.hdr[old].next = Null]
        ELSE [InsertFreeBlock(h, new) EXCEPT !.hdr[old].next = Null]

\* The old footer of the first block and the header of the second are cleared.
MergeBlocks(h, a, b) ==
    LET f == h.hdr[b].footer
    IN  [h EXCEPT
            !.hdr = Without(With(h.hdr, a, [h.hdr[a] EXCEPT
                        !.footer = f, !.next = h.hdr[b].next, !.size = @ + h.hdr[b].size + Overhead]), b),
            !.ftr = With(Without(@, h.hdr[a].footer), f, a)]

\* The footer of the first part is not counted.
BugSplitRegion(h, b, size) ==
    LET left == b + Overhead + size
        f    == h.hdr[b].footer
    IN  [h EXCEPT
            !.hdr = With(With(@, left, [free |-> TRUE, size |-> h.hdr[b].size - size - Header,
                                        next |-> h.hdr[b].next, footer |-> f]),
                         b, [h.hdr[b] EXCEPT !.footer = left - Footer]),
            !.ftr = With(With(@, f, left), left - Footer, b)]

SplitRegion(h, b, size) ==
    LET left == b + Overhead + size
        f    == h.hdr[b].footer
    IN  [h EXCEPT
            !.hdr = With(With(@, left, [free |-> TRUE, size |-> h.hdr[b].size - size - Overhead,
                                        next |-> h.hdr[b].next, footer |-> f]),
                         b, [h.hdr[b] EXCEPT !.footer = left - Footer]),
            !.ftr = With(With(@, f, left), left - Footer, b)]

OccupyBlock(h, b, size) ==
    LET h1 == [h EXCEPT !.hdr[b].free = FALSE]
        h2 == SplitRegion(h1, b, size)
        h3 == IF h.hdr[b].size <= size + Overhead THEN RemoveFromFreeList(h1, b)
              ELSE ReplaceFreeListBlock([h2 EXCEPT !.hdr[b].size = size], b, b + Overhead + size)
    IN  [h3 EXCEPT !.hdr[b].next = Null]

FindFirstFitBlock(h, size) ==
    LET fits == SelectSeq(FreeList(h), LAMBDA b : h.hdr[b].size >= size /\ h.hdr[b].free)
    IN  IF fits = <<>> THEN Null ELSE Head(fits)

GetNext(h, b) ==
    LET n == h.hdr[b].footer + Footer
    IN  IF /\ IsBlockHeaderInHeap(h, b) /\ IsFooterInHeap(h, h.hdr[b].footer)
           /\ n < h.last /\ n \in DOMAIN h.hdr
           /\ IsFooterInHeap(h, h.hdr[n].footer) /\ h.ftr[h.hdr[n].footer] = n
        THEN n ELSE Null

GetPrevious(h, b) ==
    LET f == b - Footer
    IN  IF /\ IsBlockHeaderInHeap(h, b) /\ b >= HeapStart + Overhead
           /\ f \in DOMAIN h.ftr
           /\ IsBlockHeaderInHeap(h, h.ftr[f]) /\ h.ftr[f] < b /\ h.hdr[h.ftr[f]].footer = f
        THEN h.ftr[f] ELSE Null

\* The new pages continue the heap: last_footer ends a page.
GrowHeapBy(h, pages) ==
    LET b    == h.last + Footer
        at   == AlignUp(b)
        size == pages * PageSize + (at - b) - Overhead
        h1   == [MakeBlock(h, b, size) EXCEPT !.last = b + Header + size]
        prev == h.ftr[h.last]
    IN  IF h.hdr[prev].free
        THEN [heap |-> InsertFreeBlock(MergeBlocks(RemoveFromFreeList(h1, prev), prev, b), prev), block |-> prev]
        ELSE [heap |-> InsertFreeBlock(h1, b), block |-> b]

\* initialize_heap_region
InitialHeap ==
    LET size == InitialPages * PageSize - Overhead
        h == [hdr |-> <<>>, ftr |-> <<>>, first |-> HeapStart,
              last |-> HeapStart + Header + size, grow |-> 2 * InitialPages]
    IN  MakeBlock([h EXCEPT !.hdr = [x \in {} |-> 0], !.ftr = [x \in {} |-> 0]], HeapStart, size)

Pages(h) == (h.last + Footer - HeapStart) \div PageSize
CanMap(h, pages) == Pages(h) + pages <= MaxPages

\* hmalloc(size): the heap afterwards and the block, or none; `map` says
\* whether pages can be had.
HmallocOp(h, size, map) ==
    LET pages == BytesToPages(size)
        fit   == FindFirstFitBlock(h, size)
        n     == IF pages > h.grow THEN pages ELSE h.grow
        h1    == IF pages > h.grow THEN h ELSE [h EXCEPT !.grow = @ + 1]
        Take(g) == [heap |-> OccupyBlock(g.heap, g.block, size), block |-> g.block]
    IN  IF pages <= h.grow /\ fit # Null THEN Take([heap |-> h, block |-> fit])
        ELSE IF ~(map /\ CanMap(h, n)) THEN [heap |-> h1, block |-> Null]
        ELSE Take(GrowHeapBy(h1, n))

\* What hfree and hmalloc_usable_size test before they believe a pointer.
Valid(h, b) ==
    /\ b >= HeapStart /\ b < h.last
    /\ b \in DOMAIN h.hdr
    /\ IsFooterInHeap(h, h.hdr[b].footer) /\ h.ftr[h.hdr[b].footer] = b
    /\ ~h.hdr[b].free

\* Only the block before is merged with.
BugHfreeOp(h, ptr) ==
    LET b  == ptr - Header
        h1 == [h EXCEPT !.hdr[b].free = TRUE, !.hdr[b].next = Null]
        p  == GetPrevious(h1, b)
    IN  IF ~Valid(h, b) THEN h
        ELSE IF p # Null /\ h1.hdr[p].free
        THEN InsertFreeBlock(MergeBlocks(RemoveFromFreeList(h1, p), p, b), p)
        ELSE InsertFreeBlock(h1, b)

MergeBack(h, b) ==
    LET p == GetPrevious(h, b)
    IN  IF p # Null /\ h.hdr[p].free
        THEN [heap |-> MergeBlocks(RemoveFromFreeList(h, p), p, b), block |-> p]
        ELSE [heap |-> h, block |-> b]

MergeForward(h, b) ==
    LET n == GetNext(h, b)
    IN  IF n # Null /\ h.hdr[n].free THEN MergeBlocks(RemoveFromFreeList(h, n), b, n) ELSE h

HfreeOp(h, ptr) ==
    LET b == ptr - Header
        Give(r) == InsertFreeBlock(MergeForward(r.heap, r.block), r.block)
    IN  IF Valid(h, b)
        THEN Give(MergeBack([h EXCEPT !.hdr[b].free = TRUE, !.hdr[b].next = Null], b))
        ELSE h

HmallocUsableSize(h, ptr) == IF Valid(h, ptr - Header) THEN h.hdr[ptr - Header].size ELSE 0
-----------------------------------------------------------------------------
Init ==
    /\ heap = InitialHeap
    /\ owned = [x \in {} |-> 0]

Malloc(size, map) ==
    \E r \in {HmallocOp(heap, size, map)} :
        /\ Cardinality(DOMAIN owned) < MaxBlocks /\ r.heap.grow <= MaxGrow
        /\ heap' = r.heap
        /\ owned' = IF r.block = Null THEN owned ELSE With(owned, r.block + Header, size)

Free(ptr) ==
    /\ heap' = HfreeOp(heap, ptr)
    /\ owned' = Without(owned, ptr)

\* The old block is freed before the new one is found.
BugRealloc(ptr, size, map) ==
    LET r == HmallocOp(HfreeOp(heap, ptr), size, map)
    IN  /\ size > 0 /\ r.heap.grow <= MaxGrow
        /\ HmallocUsableSize(heap, ptr) < size /\ r.block # Null
        /\ heap' = r.heap
        /\ owned' = With(Without(owned, ptr), r.block + Header, size)

\* realloc to a positive size: in place when the block is large enough, otherwise a new block
\* and then the old one freed.
Realloc(ptr, size, map) ==
    \E r \in {HmallocOp(heap, size, map)} :
        /\ size > 0 /\ r.heap.grow <= MaxGrow
        /\ IF HmallocUsableSize(heap, ptr) >= size
           THEN owned' = [owned EXCEPT ![ptr] = size] /\ UNCHANGED heap
           ELSE IF r.block = Null THEN heap' = r.heap /\ UNCHANGED owned
           ELSE /\ heap' = HfreeOp(r.heap, ptr)
                /\ owned' = Without(With(owned, r.block + Header, size), ptr)

Next ==
    \/ \E size \in Sizes, map \in BOOLEAN : Malloc(size, map)
    \/ \E ptr \in DOMAIN owned : Free(ptr)
    \/ \E ptr \in DOMAIN owned, size \in Sizes, map \in BOOLEAN : Realloc(ptr, size, map)

Spec == Init /\ [][Next]_vars
-----------------------------------------------------------------------------
Block(ptr) == ptr - Header .. heap.hdr[ptr - Header].footer + Footer - 1

\* hmalloc, hfree and realloc behave like an ideal allocator: the blocks in
\* use, with header and footer, never overlap, and what realloc copies to is
\* not what it copies from.
Abstract == INSTANCE Allocator WITH live <- {Block(ptr) : ptr \in DOMAIN owned}
ImplementsAllocator == Abstract!Spec

\* Every block in use is inside the heap, not marked free, and as large as
\* asked for, also after neighbours were split, merged and moved.
BlocksHonest ==
    \A p \in DOMAIN owned :
        /\ ~heap.hdr[p - Header].free
        /\ heap.hdr[p - Header].size >= owned[p]
        /\ Block(p) \subseteq HeapStart .. heap.last + Footer - 1

\* The blocks lie end to end from the start of the heap to last_footer, each
\* with a footer that leads back to its header; no other header or footer is
\* left in memory.
BlocksTile ==
    LET H == heap.hdr
    IN  /\ \A b \in DOMAIN H :
            /\ H[b].footer = b + Header + H[b].size
            /\ heap.ftr[H[b].footer] = b
            /\ H[b].footer = heap.last \/ H[b].footer + Footer \in DOMAIN H
        /\ HeapStart \in DOMAIN H
        /\ Cardinality(DOMAIN H) = Cardinality(DOMAIN heap.ftr)

\* free_regions lists the free blocks, each once and by address.
FreeListExact ==
    LET l == FreeList(heap)
    IN  /\ \A i \in 1 .. Len(l) - 1 : l[i] < l[i + 1]
        /\ ToSet(l) = {b \in DOMAIN heap.hdr : heap.hdr[b].free}
        /\ l # <<>> => heap.hdr[Last(l)].next = Null

\* Two free blocks are never neighbours: splitting, freeing and growing always
\* merge what can be merged.
Coalesced ==
    \A b \in DOMAIN heap.hdr : heap.hdr[b].free /\ GetNext(heap, b) # Null =>
        ~heap.hdr[GetNext(heap, b)].free

\* Freeing a pointer again changes nothing, as long as its memory has not
\* become part of a block in use, and neither does freeing one outside.
SecondFreeIgnored ==
    \A p \in Header .. heap.last + PageSize :
        (\A q \in DOMAIN owned : p - Header \notin Block(q)) => HfreeOp(heap, p) = heap
=============================================================================
