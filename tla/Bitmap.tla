------------------------------- MODULE Bitmap -------------------------------
(***************************************************************************)
(* bitmap_t (src/kernel/utils/bitmap.c): bits with a cached lowest and     *)
(* highest clear index, searched byte by byte under masks.  The operators  *)
(* are functions from bitmap to bitmap; Pmm and Slab use them.             *)
(***************************************************************************)
EXTENDS Integers

ByteBits == 8
None == -1      \* a search that returns false and leaves *out alone

\* ones: the bits set in storage, whose last byte may reach past count.
Bitmaps(n) == [ones : SUBSET (0 .. n + ByteBits), count : {n}, lowest : 0..n, highest : 0..n]

BitmapStorageSize(n) == (n + ByteBits - 1) \div ByteBits

BitmapInit(n, defaultSet) ==
    [ones    |-> IF defaultSet THEN 0 .. ByteBits * BitmapStorageSize(n) - 1 ELSE {},
     count   |-> n,
     lowest  |-> IF defaultSet THEN n ELSE 0,
     highest |-> IF defaultSet \/ n = 0 THEN n ELSE n - 1]

BitmapGet(b, i) == i < b.count /\ i \in b.ones

\* The zero bits of one byte once the bits outside start..end are masked.
ZeroBits(b, byte, start, end) ==
    {i \in 0 .. ByteBits - 1 :
        /\ byte * ByteBits + i \notin b.ones
        /\ byte = start \div ByteBits => i >= start % ByteBits
        /\ byte = end \div ByteBits => i <= end % ByteBits}

Lowest(S) == CHOOSE i \in S : \A j \in S : i <= j
Highest(S) == CHOOSE i \in S : \A j \in S : i >= j

FindClearForward(b, start, end) ==
    LET last == IF end >= b.count THEN b.count - 1 ELSE end
        bytes == {y \in start \div ByteBits .. last \div ByteBits :
                    ZeroBits(b, y, start, last) # {}}
        byte == Lowest(bytes)
    IN  IF start > end \/ start >= b.count \/ bytes = {} THEN None
        ELSE byte * ByteBits + Lowest(ZeroBits(b, byte, start, last))

FindClearBackward(b, start, end) ==
    LET first == IF start >= b.count THEN b.count - 1 ELSE start
        bytes == {y \in end \div ByteBits .. first \div ByteBits :
                    ZeroBits(b, y, end, first) # {}}
        byte == Highest(bytes)
    IN  IF start < end \/ end >= b.count \/ bytes = {} THEN None
        ELSE byte * ByteBits + Highest(ZeroBits(b, byte, end, first))

NoneClear(b) == b.lowest >= b.count \/ b.highest >= b.count
Forget(b) == [b EXCEPT !.lowest = b.count, !.highest = b.count]

\* bitmap_refresh_bounds_after_set: first the lower bound, then, with the new
\* lower bound, the upper one.
RefreshBoundsAfterSet(b, i) ==
    LET next == FindClearForward(b, i + 1, b.highest)
        low  == IF i = b.lowest THEN [b EXCEPT !.lowest = next] ELSE b
        prev == IF i > 0 THEN FindClearBackward(b, i - 1, low.lowest) ELSE None
    IN  IF NoneClear(b) THEN b
        ELSE IF i = b.lowest /\ next = None THEN Forget(b)
        ELSE IF i # b.highest THEN low
        ELSE IF prev = None THEN Forget(b)
        ELSE [low EXCEPT !.highest = prev]

BitmapSet(b, i) ==
    IF i >= b.count \/ BitmapGet(b, i) THEN b
    ELSE RefreshBoundsAfterSet([b EXCEPT !.ones = @ \cup {i}], i)

BitmapClear(b, i) ==
    IF i >= b.count \/ ~BitmapGet(b, i) THEN b
    ELSE LET c == [b EXCEPT !.ones = @ \ {i}]
         IN  IF NoneClear(b) THEN [c EXCEPT !.lowest = i, !.highest = i]
             ELSE [c EXCEPT !.lowest  = IF i < @ THEN i ELSE @,
                            !.highest = IF i > @ THEN i ELSE @]

\* The search starts after the lower bound.
BugFindClear(b) == IF NoneClear(b) THEN None ELSE FindClearForward(b, b.lowest + 1, b.highest)

BitmapFindClear(b) == IF NoneClear(b) THEN None ELSE FindClearForward(b, b.lowest, b.highest)

ClearBits(b) == {i \in 0 .. b.count - 1 : i \notin b.ones}

\* The cached bounds of b are exactly its lowest and highest clear bit, or
\* bit_count when every bit is set.
Tight(b) ==
    IF ClearBits(b) = {} THEN b.lowest = b.count /\ b.highest = b.count
    ELSE /\ {b.lowest, b.highest} \subseteq ClearBits(b)
         /\ \A i \in ClearBits(b) : b.lowest <= i /\ i <= b.highest
=============================================================================
