---------------------------- MODULE StorageProofs ----------------------------
(***************************************************************************)
(* Proofs about three structures of the kernel, for every size: bitmaps    *)
(* (BitmapCalls), the framebuffer as a file (Framebuffer) and the access   *)
(* bits of page tables (PageFlags).                                        *)
(***************************************************************************)
EXTENDS BitmapCalls, Framebuffer, PageFlags, WellFoundedInduction, TLAPS

(* Bitmaps *)

Typed(m) ==
    /\ m = [ones |-> m.ones, count |-> m.count, lowest |-> m.lowest, highest |-> m.highest]
    /\ m.count \in Nat /\ m.lowest \in 0 .. m.count /\ m.highest \in 0 .. m.count

\* The clear bits of m from `from` to `to`.
ClearBetween(m, from, to) == {i \in ClearBits(m) : from <= i /\ i <= to}

-----------------------------------------------------------------------------
\* A set of numbers that is not empty has a lowest member.
LEMMA LowestIsLeast ==
    ASSUME NEW S \in SUBSET Nat, S # {}
    PROVE  Lowest(S) \in S /\ \A j \in S : Lowest(S) <= j
  <1>1. PICK m \in S : \A y \in S : ~(<<y, m>> \in OpToRel(<, Nat))
    BY WFMin, NatLessThanWellFounded
  <1>2. \A y \in S : m <= y
    <2>1. ASSUME NEW y \in S, y < m
          PROVE  <<y, m>> \in OpToRel(<, Nat)
      BY <2>1 DEF OpToRel
    <2>2. \A y \in S : ~(y < m)
      BY <1>1, <2>1
    <2> QED
      BY <2>2
  <1> QED
    BY <1>2 DEF Lowest

\* A set of numbers up to n that is not empty has a highest member.
LEMMA HighestIsGreatest ==
    ASSUME NEW n \in Nat, NEW S \in SUBSET (0 .. n), S # {}
    PROVE  Highest(S) \in S /\ \A j \in S : Highest(S) >= j
  <1> DEFINE T == {n - i : i \in S}
  <1>1. T \in SUBSET Nat /\ T # {}
    <2>1. PICK i \in S : TRUE
      OBVIOUS
    <2>2. n - i \in T
      OBVIOUS
    <2>3. \A t \in T : t \in Nat
      OBVIOUS
    <2> QED
      BY <2>2, <2>3
  <1>2. PICK t \in T : \A u \in T : t <= u
    <2> HIDE DEF T
    <2> QED
      BY <1>1, LowestIsLeast
  <1>3. PICK m \in S : t = n - m
    OBVIOUS
  <1>4. \A j \in S : m >= j
    BY <1>2, <1>3
  <1> QED
    BY <1>4 DEF Highest

\* A bit index is a byte and a bit in it.
LEMMA ByteAndBit ==
    ASSUME NEW i \in Nat
    PROVE  /\ i \div ByteBits \in Nat /\ i % ByteBits \in 0 .. ByteBits - 1
           /\ i = (i \div ByteBits) * ByteBits + (i % ByteBits)
  BY DEF ByteBits

\* The masks of the first and the last byte leave exactly the bits of the range.
LEMMA MasksExact ==
    ASSUME NEW m, NEW start \in Nat, NEW last \in Nat,
           NEW y \in start \div ByteBits .. last \div ByteBits, NEW i \in 0 .. ByteBits - 1
    PROVE  i \in ZeroBits(m, y, start, last)
             <=> /\ y * ByteBits + i \notin m.ones
                 /\ start <= y * ByteBits + i /\ y * ByteBits + i <= last
  <1>1. y \in Nat
    BY DEF ByteBits
  <1>2. (y = start \div ByteBits => i >= start % ByteBits) <=> start <= y * ByteBits + i
    BY <1>1 DEF ByteBits
  <1>3. (y = last \div ByteBits => i <= last % ByteBits) <=> y * ByteBits + i <= last
    BY <1>1 DEF ByteBits
  <1> QED
    BY <1>2, <1>3 DEF ZeroBits

\* bitmap_find_clear_forward returns the first clear bit of its range.
LEMMA ForwardFinds ==
    ASSUME NEW m, m.count \in Nat, NEW start \in Nat, NEW end \in Nat
    PROVE  /\ ClearBetween(m, start, end) = {} => FindClearForward(m, start, end) = None
           /\ ClearBetween(m, start, end) # {} =>
                /\ FindClearForward(m, start, end) \in ClearBetween(m, start, end)
                /\ \A j \in ClearBetween(m, start, end) : FindClearForward(m, start, end) <= j
  <1> DEFINE last == IF end >= m.count THEN m.count - 1 ELSE end
             bytes == {y \in start \div ByteBits .. last \div ByteBits : ZeroBits(m, y, start, last) # {}}
             R == ClearBetween(m, start, end)
  <1>1. CASE start > end \/ start >= m.count
    <2>1. ClearBetween(m, start, end) = {}
      BY <1>1 DEF ClearBetween, ClearBits
    <2>2. FindClearForward(m, start, end) = None
      BY <1>1 DEF FindClearForward
    <2> QED
      BY <2>1, <2>2
  <1>2. CASE ~(start > end \/ start >= m.count)
    <2>1. last \in Nat /\ start <= last /\ last <= end /\ last < m.count
      BY <1>2
    <2>2. \A j : j \in R <=> j \in Nat /\ start <= j /\ j <= last /\ j \notin m.ones
      BY <1>2 DEF ClearBetween, ClearBits
    <2> HIDE DEF last, R
    <2>3. ASSUME NEW j \in R
          PROVE  j \div ByteBits \in bytes /\ j % ByteBits \in ZeroBits(m, j \div ByteBits, start, last)
      <3>1. j \div ByteBits \in start \div ByteBits .. last \div ByteBits
        BY <2>1, <2>2 DEF ByteBits
      <3>2. j % ByteBits \in 0 .. ByteBits - 1 /\ (j \div ByteBits) * ByteBits + (j % ByteBits) = j
        BY <2>2, ByteAndBit
      <3>3. j % ByteBits \in ZeroBits(m, j \div ByteBits, start, last)
        BY <2>1, <2>2, <3>1, <3>2, MasksExact
      <3> QED
        BY <3>1, <3>3
    <2>4. ASSUME NEW y \in bytes, NEW i \in ZeroBits(m, y, start, last)
          PROVE  y \in Nat /\ i \in 0 .. ByteBits - 1 /\ y * ByteBits + i \in R
      <3>1. i \in 0 .. ByteBits - 1
        BY DEF ZeroBits
      <3>2. y \in Nat
        BY <2>1 DEF ByteBits
      <3>3. y * ByteBits + i \in Nat
        BY <3>1, <3>2 DEF ByteBits
      <3> QED
        BY <2>1, <2>2, <3>1, <3>2, <3>3, MasksExact
    <2>5. CASE R = {}
      <3>1. bytes = {}
        BY <2>4, <2>5
      <3> QED
        BY <3>1, <2>5 DEF FindClearForward, last, R
    <2>6. CASE R # {}
      <3> DEFINE byte == Lowest(bytes)
                 Z == ZeroBits(m, byte, start, last)
                 f == byte * ByteBits + Lowest(Z)
      <3>1. bytes # {} /\ bytes \in SUBSET Nat
        BY <2>3, <2>6, <2>4
      <3>2. byte \in bytes /\ \A y \in bytes : byte <= y
        <4> HIDE DEF bytes
        <4> QED
          BY <3>1, LowestIsLeast
      <3>3. Z # {} /\ Z \in SUBSET Nat
        <4>1. Z # {}
          BY <3>2
        <4>2. Z \in SUBSET (0 .. ByteBits - 1)
          BY DEF ZeroBits
        <4> HIDE DEF Z
        <4> QED
          BY <4>1, <4>2 DEF ByteBits
      <3>4. Lowest(Z) \in Z /\ \A i \in Z : Lowest(Z) <= i
        <4> HIDE DEF Z
        <4> QED
          BY <3>3, LowestIsLeast
      <3>5. f \in R
        <4> HIDE DEF bytes, byte
        <4> QED
          BY <3>2, <3>4, <2>4
      <3>6. ASSUME NEW j \in R
            PROVE  f <= j
        <4>1. byte <= j \div ByteBits /\ j \in Nat /\ byte \in Nat
          <5>1. byte \in Nat
            <6> HIDE DEF byte, bytes
            <6> QED
              BY <3>1, <3>2
          <5> HIDE DEF byte
          <5> QED
            BY <2>2, <2>3, <3>2, <5>1
        <4>2. Lowest(Z) \in 0 .. ByteBits - 1
          BY <3>4 DEF ZeroBits
        <4>3. CASE byte = j \div ByteBits
          <5>1. Lowest(Z) <= j % ByteBits
            BY <2>3, <3>4, <4>3
          <5> HIDE DEF byte, Z
          <5> QED
            BY <4>1, <4>2, <4>3, <5>1 DEF ByteBits
        <4>4. CASE byte < j \div ByteBits
          <5> HIDE DEF byte, Z
          <5> QED
            BY <4>1, <4>2, <4>4 DEF ByteBits
        <4> HIDE DEF byte, Z
        <4> QED
          BY <4>1, <4>3, <4>4, ByteAndBit
      <3>7. FindClearForward(m, start, end) = f
        <4> HIDE DEF R
        <4> QED
        BY <1>2, <3>1 DEF FindClearForward, last
      <3> HIDE DEF f
      <3> QED
        BY <2>6, <3>5, <3>6, <3>7 DEF R
    <2> QED
      BY <2>5, <2>6
  <1> QED
    BY <1>1, <1>2
\* bitmap_find_clear_backward returns the last clear bit of its range.
LEMMA BackwardFinds ==
    ASSUME NEW m, m.count \in Nat, NEW start \in Nat, NEW end \in Nat
    PROVE  /\ ClearBetween(m, start, end) = {} => FindClearBackward(m, end, start) = None
           /\ ClearBetween(m, start, end) # {} =>
                /\ FindClearBackward(m, end, start) \in ClearBetween(m, start, end)
                /\ \A j \in ClearBetween(m, start, end) : FindClearBackward(m, end, start) >= j
  <1> DEFINE last == IF end >= m.count THEN m.count - 1 ELSE end
             bytes == {y \in start \div ByteBits .. last \div ByteBits : ZeroBits(m, y, start, last) # {}}
             R == ClearBetween(m, start, end)
  <1>1. CASE start > end \/ start >= m.count
    <2>1. ClearBetween(m, start, end) = {}
      BY <1>1 DEF ClearBetween, ClearBits
    <2>2. FindClearBackward(m, end, start) = None
      BY <1>1 DEF FindClearBackward
    <2> QED
      BY <2>1, <2>2
  <1>2. CASE ~(start > end \/ start >= m.count)
    <2>1. last \in Nat /\ start <= last /\ last <= end /\ last < m.count
      BY <1>2
    <2>2. \A j : j \in R <=> j \in Nat /\ start <= j /\ j <= last /\ j \notin m.ones
      BY <1>2 DEF ClearBetween, ClearBits
    <2> HIDE DEF last, R
    <2>3. ASSUME NEW j \in R
          PROVE  j \div ByteBits \in bytes /\ j % ByteBits \in ZeroBits(m, j \div ByteBits, start, last)
      <3>1. j \div ByteBits \in start \div ByteBits .. last \div ByteBits
        BY <2>1, <2>2 DEF ByteBits
      <3>2. j % ByteBits \in 0 .. ByteBits - 1 /\ (j \div ByteBits) * ByteBits + (j % ByteBits) = j
        BY <2>2, ByteAndBit
      <3>3. j % ByteBits \in ZeroBits(m, j \div ByteBits, start, last)
        BY <2>1, <2>2, <3>1, <3>2, MasksExact
      <3> QED
        BY <3>1, <3>3
    <2>4. ASSUME NEW y \in bytes, NEW i \in ZeroBits(m, y, start, last)
          PROVE  y \in Nat /\ i \in 0 .. ByteBits - 1 /\ y * ByteBits + i \in R
      <3>1. i \in 0 .. ByteBits - 1
        BY DEF ZeroBits
      <3>2. y \in Nat
        BY <2>1 DEF ByteBits
      <3>3. y * ByteBits + i \in Nat
        BY <3>1, <3>2 DEF ByteBits
      <3> QED
        BY <2>1, <2>2, <3>1, <3>2, <3>3, MasksExact
    <2>5. CASE R = {}
      <3>1. bytes = {}
        BY <2>4, <2>5
      <3> QED
        BY <3>1, <2>5 DEF FindClearBackward, last, R
    <2>6. CASE R # {}
      <3> DEFINE byte == Highest(bytes)
                 Z == ZeroBits(m, byte, start, last)
                 f == byte * ByteBits + Highest(Z)
      <3>1. bytes # {} /\ bytes \in SUBSET (0 .. last \div ByteBits) /\ last \div ByteBits \in Nat
        BY <2>1, <2>3, <2>6, <2>4 DEF ByteBits
      <3>2. byte \in bytes /\ \A y \in bytes : byte >= y
        <4> HIDE DEF bytes
        <4> QED
          BY <3>1, HighestIsGreatest
      <3>3. Z # {} /\ Z \in SUBSET (0 .. 7)
        <4>1. Z # {}
          BY <3>2
        <4>2. Z \in SUBSET (0 .. ByteBits - 1)
          BY DEF ZeroBits
        <4> HIDE DEF Z
        <4> QED
          BY <4>1, <4>2 DEF ByteBits
      <3>4. Highest(Z) \in Z /\ \A i \in Z : Highest(Z) >= i
        <4> HIDE DEF Z
        <4> QED
          BY <3>3, HighestIsGreatest
      <3>5. f \in R
        <4> HIDE DEF bytes, byte
        <4> QED
          BY <3>2, <3>4, <2>4
      <3>6. ASSUME NEW j \in R
            PROVE  f >= j
        <4>1. byte >= j \div ByteBits /\ j \in Nat /\ byte \in Nat
          <5>1. byte \in Nat
            <6> HIDE DEF byte, bytes
            <6> QED
              BY <3>1, <3>2
          <5> HIDE DEF byte
          <5> QED
            BY <2>2, <2>3, <3>2, <5>1
        <4>2. Highest(Z) \in 0 .. ByteBits - 1
          BY <3>4 DEF ZeroBits
        <4>3. CASE byte = j \div ByteBits
          <5>1. Highest(Z) >= j % ByteBits
            BY <2>3, <3>4, <4>3
          <5> HIDE DEF byte, Z
          <5> QED
            BY <4>1, <4>2, <4>3, <5>1 DEF ByteBits
        <4>4. CASE byte > j \div ByteBits
          <5> HIDE DEF byte, Z
          <5> QED
            BY <4>1, <4>2, <4>4 DEF ByteBits
        <4> HIDE DEF byte, Z
        <4> QED
          BY <4>1, <4>3, <4>4, ByteAndBit
      <3>7. FindClearBackward(m, end, start) = f
        <4> HIDE DEF R
        <4> QED
        BY <1>2, <3>1 DEF FindClearBackward, last
      <3> HIDE DEF f
      <3> QED
        BY <2>6, <3>5, <3>6, <3>7 DEF R
    <2> QED
      BY <2>5, <2>6
  <1> QED
    BY <1>1, <1>2
-----------------------------------------------------------------------------
(* The operations keep the cached bounds *)

\* A new bitmap has exact bounds.
LEMMA InitTight ==
    ASSUME NEW n \in Nat, NEW d \in BOOLEAN
    PROVE  Typed(BitmapInit(n, d)) /\ Tight(BitmapInit(n, d))
  <1> DEFINE m == BitmapInit(n, d)
  <1>1. Typed(m)
    BY DEF Typed, BitmapInit
  <1>2. CASE d
    <2>1. ClearBits(m) = {}
      BY <1>2 DEF ClearBits, BitmapInit, BitmapStorageSize, ByteBits
    <2> QED
      BY <1>1, <1>2, <2>1 DEF Tight, BitmapInit
  <1>3. CASE ~d
    <2>1. ClearBits(m) = 0 .. n - 1
      BY <1>3 DEF ClearBits, BitmapInit
    <2>2. m.count = n /\ m.lowest = 0 /\ m.highest = IF n = 0 THEN n ELSE n - 1
      BY <1>3 DEF BitmapInit
    <2> HIDE DEF m
    <2>3. Tight(m)
      BY <2>1, <2>2 DEF Tight
    <2> QED
      BY <1>1, <2>3 DEF m
  <1> QED
    BY <1>2, <1>3

\* What is left when no bit is clear.
LEMMA ForgetFields ==
    ASSUME NEW m, Typed(m)
    PROVE  Forget(m) = [ones |-> m.ones, count |-> m.count, lowest |-> m.count, highest |-> m.count]
  <1> DEFINE low == [m EXCEPT !.lowest = m.count]
  <1>1. Forget(m) = [low EXCEPT !.highest = m.count]
    BY DEF Forget
  <1>2. low = [ones |-> m.ones, count |-> m.count, lowest |-> m.count, highest |-> m.highest]
    BY DEF Typed
  <1> HIDE DEF low
  <1> QED
    BY <1>1, <1>2

\* bitmap_set, with the bounds it refreshes.
LEMMA SetTight ==
    ASSUME NEW m, Typed(m), Tight(m), NEW i \in Nat
    PROVE  Typed(BitmapSet(m, i)) /\ Tight(BitmapSet(m, i)) /\ BitmapSet(m, i).count = m.count
  <1>1. CASE i >= m.count \/ BitmapGet(m, i)
    BY <1>1 DEF BitmapSet
  <1>2. CASE ~(i >= m.count \/ BitmapGet(m, i))
    <2> DEFINE c == [m EXCEPT !.ones = @ \cup {i}]
               C == ClearBits(c)
    <2>1. /\ Typed(c) /\ c.count = m.count /\ c.lowest = m.lowest /\ c.highest = m.highest
          /\ c.ones = m.ones \cup {i}
      BY DEF Typed
    <2>2. i \in ClearBits(m) /\ C = ClearBits(m) \ {i}
      BY <1>2, <2>1 DEF ClearBits, BitmapGet, Typed
    <2>3. /\ m.lowest \in ClearBits(m) /\ m.highest \in ClearBits(m)
          /\ \A j \in ClearBits(m) : m.lowest <= j /\ j <= m.highest
      BY <2>2 DEF Tight
    <2>4. ~NoneClear(c) /\ BitmapSet(m, i) = RefreshBoundsAfterSet(c, i)
      BY <1>2, <2>1, <2>3 DEF NoneClear, BitmapSet, ClearBits, Typed
    <2>5. /\ m.count \in Nat /\ C \in SUBSET (0 .. m.count - 1)
          /\ c.lowest \in 0 .. m.count - 1 /\ c.highest \in 0 .. m.count - 1
          /\ \A j \in C : j # i /\ c.lowest <= j /\ j <= c.highest
          /\ i # c.lowest => c.lowest \in C
          /\ i # c.highest => c.highest \in C
          /\ c.lowest <= i /\ i <= c.highest
      BY <2>1, <2>2, <2>3 DEF ClearBits, Typed
    <2> HIDE DEF c, C
    <2> DEFINE next == FindClearForward(c, i + 1, c.highest)
               low == IF i = c.lowest THEN [c EXCEPT !.lowest = next] ELSE c
               prev == IF i > 0 THEN FindClearBackward(c, i - 1, low.lowest) ELSE None
    <2>6. /\ ClearBetween(c, i + 1, c.highest) = {} => next = None
          /\ ClearBetween(c, i + 1, c.highest) # {} =>
               /\ next \in ClearBetween(c, i + 1, c.highest)
               /\ \A j \in ClearBetween(c, i + 1, c.highest) : next <= j
      BY <2>1, <2>5, ForwardFinds
    <2>7. BitmapSet(m, i) = IF i = c.lowest /\ next = None THEN Forget(c)
                            ELSE IF i # c.highest THEN low
                            ELSE IF prev = None THEN Forget(c)
                            ELSE [low EXCEPT !.highest = prev]
      BY <2>4 DEF RefreshBoundsAfterSet
    <2> HIDE DEF next
    <2>8. C = {} => Typed(Forget(c)) /\ Tight(Forget(c)) /\ Forget(c).count = m.count
      <3> DEFINE r == Forget(c)
      <3>1. Typed(r) /\ r.count = m.count /\ r.ones = c.ones /\ r.lowest = m.count /\ r.highest = m.count
        <4>1. r = [ones |-> c.ones, count |-> c.count, lowest |-> c.count, highest |-> c.count]
          BY <2>1, ForgetFields
        <4>2. c.count \in Nat
          BY <2>1 DEF Typed
        <4> HIDE DEF r
        <4> QED
          BY <2>1, <4>1, <4>2 DEF Typed
      <3>2. ClearBits(r) = C
        BY <2>1, <3>1 DEF ClearBits, C
      <3> HIDE DEF r
      <3>3. C = {} => Tight(r)
        BY <3>1, <3>2 DEF Tight
      <3> QED
        BY <3>1, <3>3 DEF r
    <2>9. CASE i = c.lowest /\ next = None
      <3>1. C = {}
        BY <2>5, <2>6, <2>9 DEF ClearBetween, C, None
      <3> QED
        BY <2>7, <2>8, <2>9, <3>1
    <2>10. CASE ~(i = c.lowest /\ next = None)
      <3>1. /\ Typed(low) /\ low.count = m.count /\ low.ones = c.ones /\ low.highest = c.highest
            /\ low.lowest \in C /\ \A j \in C : low.lowest <= j
        <4>1. CASE i = c.lowest
          <5>1. next \in C /\ \A j \in C : next <= j
            BY <2>5, <2>6, <2>10, <4>1 DEF ClearBetween, C
          <5> QED
            BY <2>1, <2>5, <4>1, <5>1 DEF Typed
        <4>2. CASE i # c.lowest
          BY <2>1, <2>5, <4>2
        <4> QED
          BY <4>1, <4>2
      <3>2. ClearBits(low) = C
        BY <2>1, <3>1 DEF ClearBits, C
      <3> HIDE DEF low
      <3>3. CASE i # c.highest
        <4>1. BitmapSet(m, i) = low
          BY <2>7, <2>10, <3>3
        <4>2. Tight(low)
          BY <2>5, <3>1, <3>2, <3>3 DEF Tight
        <4> QED
          BY <3>1, <4>1, <4>2
      <3>4. CASE i = c.highest
        <4>1. low.lowest < i /\ low.lowest \in Nat /\ i > 0 /\ i - 1 \in Nat
          <5>1. low.lowest \in 0 .. m.count - 1 /\ low.lowest # i /\ low.lowest <= c.highest
            BY <2>5, <3>1
          <5> QED
            BY <2>5, <3>4, <5>1
        <4>2. prev = FindClearBackward(c, i - 1, low.lowest)
          BY <4>1
        <4>3. C = ClearBetween(c, low.lowest, i - 1) /\ C # {}
          BY <2>5, <3>1, <3>4, <4>1 DEF ClearBetween, C
        <4>4. prev \in C /\ \A j \in C : prev >= j
          BY <2>1, <2>5, <4>1, <4>2, <4>3, BackwardFinds
        <4> HIDE DEF prev
        <4>5. prev # None
          BY <2>5, <4>4 DEF None
        <4> DEFINE r == [low EXCEPT !.highest = prev]
        <4>6. BitmapSet(m, i) = r
          BY <2>7, <2>10, <3>4, <4>5
        <4>7. /\ Typed(r) /\ r.count = m.count /\ r.ones = c.ones
              /\ r.lowest = low.lowest /\ r.highest = prev
          BY <2>5, <3>1, <4>4 DEF Typed
        <4>8. ClearBits(r) = C
          BY <2>1, <4>7 DEF ClearBits, C
        <4> HIDE DEF r
        <4>9. Tight(r)
          BY <3>1, <4>3, <4>4, <4>7, <4>8 DEF Tight
        <4> QED
          BY <4>6, <4>7, <4>9
      <3> QED
        BY <3>3, <3>4
    <2> QED
      BY <2>9, <2>10
  <1> QED
    BY <1>1, <1>2

\* bitmap_clear widens the bounds by the bit it clears.
LEMMA ClearTight ==
    ASSUME NEW m, Typed(m), Tight(m), NEW i \in Nat
    PROVE  Typed(BitmapClear(m, i)) /\ Tight(BitmapClear(m, i)) /\ BitmapClear(m, i).count = m.count
  <1>1. CASE i >= m.count \/ ~BitmapGet(m, i)
    BY <1>1 DEF BitmapClear
  <1>2. CASE ~(i >= m.count \/ ~BitmapGet(m, i))
    <2> DEFINE low == IF NoneClear(m) \/ i < m.lowest THEN i ELSE m.lowest
               high == IF NoneClear(m) \/ i > m.highest THEN i ELSE m.highest
               r == [ones |-> m.ones \ {i}, count |-> m.count, lowest |-> low, highest |-> high]
    <2>1. BitmapClear(m, i) = r
      BY <1>2 DEF BitmapClear, Typed
    <2>2. ClearBits(r) = ClearBits(m) \cup {i} /\ i \in 0 .. m.count - 1 /\ m.count \in Nat
      BY <1>2 DEF ClearBits, Typed
    <2>3. NoneClear(m) <=> ClearBits(m) = {}
      BY DEF NoneClear, Tight, ClearBits, Typed
    <2>4. Typed(r)
      BY <2>2 DEF Typed
    <2>5. Tight(r)
      <3>1. low \in ClearBits(r) /\ high \in ClearBits(r)
        BY <2>2, <2>3 DEF Tight
      <3>2. \A j \in ClearBits(r) : low <= j /\ j <= high
        BY <2>2, <2>3 DEF Tight, ClearBits, Typed
      <3> QED
        BY <3>1, <3>2 DEF Tight
    <2> QED
      BY <2>1, <2>4, <2>5
  <1> QED
    BY <1>1, <1>2

-----------------------------------------------------------------------------
Exact == Typed(b) /\ Tight(b)

\* The bounds are exact from the start, and each call keeps them so.
LEMMA ExactInvariant == Spec => []Exact
  <1>1. Init => Exact
    BY InitTight, SizesAssumption DEF Init, Exact
  <1>2. Exact /\ [Next]_b => Exact'
    <2> SUFFICES ASSUME Exact, [Next]_b PROVE Exact'
      OBVIOUS
    <2>1. ASSUME NEW i \in 0 .. b.count, Set(i) \/ Clear(i)
          PROVE  Exact'
      BY <2>1, SetTight, ClearTight DEF Set, Clear, Exact
    <2>2. CASE UNCHANGED b
      BY <2>2 DEF Exact, Typed, Tight, ClearBits
    <2> QED
      BY <2>1, <2>2 DEF Next
  <1> QED
    BY <1>1, <1>2, PTL DEF Spec

\* For bitmaps of every size: after any sequence of bitmap_set and bitmap_clear,
\* lowest_clear_idx and highest_clear_idx are exact.
THEOREM BoundsStayTight == Spec => []BoundsTight
  <1>1. Exact => BoundsTight
    BY DEF Exact, BoundsTight
  <1> QED
    BY <1>1, ExactInvariant, PTL

\* For bitmaps of every size: bitmap_find_clear, which looks only between the
\* cached bounds and a byte at a time, returns the first clear bit of all, and
\* fails only when there is none.
THEOREM AlwaysFindsFirstClear == Spec => []FindsFirstClear
  <1>1. Exact => FindsFirstClear
    <2> SUFFICES ASSUME Typed(b), Tight(b) PROVE FindsFirstClear
      BY DEF Exact
    <2>1. CASE ClearBits(b) = {}
      BY <2>1 DEF FindsFirstClear, BitmapFindClear, NoneClear, Tight, Typed
    <2>2. CASE ClearBits(b) # {}
      <3>1. /\ b.lowest \in ClearBits(b) /\ b.highest \in ClearBits(b)
            /\ \A j \in ClearBits(b) : b.lowest <= j /\ j <= b.highest
            /\ b.count \in Nat /\ b.lowest \in Nat /\ b.highest \in Nat
        BY <2>2 DEF Tight, Typed
      <3>2. ClearBits(b) = ClearBetween(b, b.lowest, b.highest)
        BY <3>1 DEF ClearBetween
      <3>3. BitmapFindClear(b) = FindClearForward(b, b.lowest, b.highest)
        BY <3>1 DEF BitmapFindClear, NoneClear, ClearBits
      <3> QED
        BY <2>2, <3>1, <3>2, <3>3, ForwardFinds DEF FindsFirstClear
    <2> QED
      BY <2>1, <2>2
  <1> QED
    BY <1>1, ExactInvariant, PTL

-----------------------------------------------------------------------------
(* The framebuffer *)

\* A number below the modulus is its own remainder.
LEMMA SmallMod ==
    ASSUME NEW m \in Nat \ {0}, NEW n \in 0 .. m - 1
    PROVE  n % m = n
  OBVIOUS

\* seek_offset is the sum of origin and distance, kept between 0 and the end of
\* the screen, although it is computed with wrapping unsigned numbers.
LEMMA SeekOffsetClamps ==
    ASSUME NEW o \in 0 .. Size, NEW d \in Signed
    PROVE  SeekOffset(o, d, Size) = Clamp(o + d)
  <1> USE FbAssumption DEF Signed, SeekOffset, Clamp
  <1>1. CASE d < 0
    BY <1>1
  <1>2. CASE d >= 0 /\ d > 2 * Half - 1 - o
    BY <1>2
  <1>3. CASE d >= 0 /\ ~(d > 2 * Half - 1 - o)
    <2>1. o + d \in 0 .. 2 * Half - 1 /\ 2 * Half \in Nat \ {0}
      BY <1>3
    <2>2. (o + d) % (2 * Half) = o + d
      BY <2>1, SmallMod
    <2> QED
      BY <1>3, <2>2
  <1> QED
    BY <1>1, <1>2, <1>3

\* The origin of a seek lies on the screen or at its end.
LEMMA OriginRange ==
    ASSUME FbTypeOK, NEW f \in File, NEW w \in Whence
    PROVE  Origin(f, w) \in 0 .. Size
  BY FbAssumption DEF FbTypeOK, Origin

\* A transfer does not go past the end of the screen.
LEMMA CountRange ==
    ASSUME FbTypeOK, NEW f \in File, NEW len \in 0 .. MaxLen
    PROVE  Count(f, len) \in Nat /\ Count(f, len) <= len /\ offset[f] + Count(f, len) \in 0 .. Size
  <1>1. offset[f] \in 0 .. Size
    BY DEF FbTypeOK
  <1> QED
    BY <1>1, FbAssumption DEF Count

\* One step of any operation keeps the offsets within the screen.
LEMMA StepTypeOK ==
    ASSUME FbTypeOK, [FbNext]_fbVars
    PROVE  FbTypeOK'
  <1> USE FbAssumption
  <1>1. ASSUME NEW f \in File, NEW w \in Whence, NEW d \in Signed, Seek(f, w, d)
        PROVE  FbTypeOK'
    <2>1. SeekOffset(Origin(f, w), d, Size) = Clamp(Origin(f, w) + d)
      BY OriginRange, SeekOffsetClamps
    <2>2. Clamp(Origin(f, w) + d) \in 0 .. Size
      BY OriginRange DEF Clamp, Signed
    <2> QED
      BY <1>1, <2>1, <2>2 DEF Seek, FbTypeOK
  <1>2. ASSUME NEW f \in File, NEW len \in 0 .. MaxLen, Read(f, len)
        PROVE  FbTypeOK'
    BY <1>2, CountRange DEF Read, FbTypeOK
  <1>3. ASSUME NEW f \in File, NEW len \in 0 .. MaxLen,
               NEW data \in [0 .. MaxLen -> Pixel], Write(f, len, data)
        PROVE  FbTypeOK'
    <2>1. offset' \in [File -> 0 .. Size]
      BY <1>3, CountRange DEF Write, FbTypeOK
    <2>2. ASSUME NEW c \in Cell, offset[f] <= c, c < offset[f] + Count(f, len)
          PROVE  data[c - offset[f]] \in Pixel
      <3>1. offset[f] \in 0 .. Size /\ Count(f, len) \in Nat /\ Count(f, len) <= len
        BY CountRange DEF FbTypeOK
      <3>2. c - offset[f] \in 0 .. MaxLen
        BY <2>2, <3>1 DEF Cell
      <3> QED
        BY <3>2
    <2>3. screen' \in [Cell -> Pixel]
      BY <1>3, <2>2 DEF Write, FbTypeOK
    <2> QED
      BY <2>1, <2>3 DEF FbTypeOK
  <1>4. ASSUME NEW f \in File, Reopen(f)
        PROVE  FbTypeOK'
    BY <1>4 DEF Reopen, FbTypeOK
  <1>5. CASE UNCHANGED fbVars
    BY <1>5 DEF fbVars, FbTypeOK
  <1> QED
    BY <1>1, <1>2, <1>3, <1>4, <1>5 DEF FbNext

\* No sequence of reads, writes and seeks moves an offset of fb.c past the end of
\* the screen.
THEOREM OffsetsOnScreen == FbSpec => []FbTypeOK
  <1>1. FbInit => FbTypeOK
    BY FbAssumption DEF FbInit, FbTypeOK
  <1>2. FbTypeOK /\ [FbNext]_fbVars => FbTypeOK'
    BY StepTypeOK
  <1> QED
    BY <1>1, <1>2, PTL DEF FbSpec

\* fb_seek is exact for every width and every distance.
THEOREM SeeksExact == FbSpec => []SeekExact
  <1>1. FbTypeOK => SeekExact
    <2> SUFFICES ASSUME FbTypeOK, NEW f \in File, NEW w \in Whence, NEW d \in Signed
                 PROVE  SeekOffset(Origin(f, w), d, Size) = Clamp(Origin(f, w) + d)
      BY DEF SeekExact
    <2> QED
      BY OriginRange, SeekOffsetClamps
  <1> QED
    BY <1>1, OffsetsOnScreen, PTL

\* fb_write changes no cell that its file's offset does not pass over.
THEOREM WritesStayInside == FbSpec => WritesInside
  <1> DEFINE Inside == \A c \in Cell : screen'[c] # screen[c]
                           => \E f \in File : offset[f] <= c /\ c < offset'[f]
  <1>1. FbTypeOK /\ [FbNext]_fbVars => [Inside]_fbVars
    <2> SUFFICES ASSUME FbTypeOK, FbNext
                 PROVE  Inside
      OBVIOUS
    <2>1. CASE UNCHANGED screen
      BY <2>1
    <2>2. ASSUME NEW f \in File, NEW len \in 0 .. MaxLen,
                 NEW data \in [0 .. MaxLen -> Pixel], Write(f, len, data)
          PROVE  Inside
      <3>1. offset'[f] = offset[f] + Count(f, len)
        BY <2>2 DEF Write, FbTypeOK
      <3>2. ASSUME NEW c \in Cell, screen'[c] # screen[c]
            PROVE  offset[f] <= c /\ c < offset[f] + Count(f, len)
        BY <2>2, <3>2 DEF Write
      <3> QED
        BY <3>1, <3>2
    <2> QED
      BY <2>1, <2>2 DEF FbNext, Seek, Read, Reopen
  <1> QED
    BY <1>1, OffsetsOnScreen, PTL DEF FbSpec, WritesInside

-----------------------------------------------------------------------------
(* RightsAsAsked for every layout of pages and tables.  Inductively, an entry *)
(* of a page is what its own request makes it, and the table above it allows  *)
(* at least what the requests of all its pages need.                          *)

RightsInv ==
    /\ pt \in [VirtPage -> SUBSET {"P", "U", "NX"}]
    /\ pd \in [Table -> SUBSET {"P", "U", "NX"}]
    /\ asked \in [VirtPage -> Requests \cup {{}}]
    /\ \A t \in Table : pd[t] = {} \/ "P" \in pd[t]
    /\ \A p \in VirtPage :
         pt[p] = IF asked[p] = {} THEN {} ELSE NormalizeLeafFlags(p, asked[p])
    /\ \A p \in VirtPage : asked[p] # {} => pd[TableOf(p)] # {}
    /\ \A p \in VirtPage : "X" \in asked[p] \/ ~IsHigherHalf(p) => "NX" \notin pd[TableOf(p)]
    /\ \A p \in VirtPage : "U" \in asked[p] /\ ~IsHigherHalf(p) => "U" \in pd[TableOf(p)]

\* The invariant gives each page the rights it was asked for.
LEMMA RightsInvImplies == RightsInv => RightsAsAsked
<1> SUFFICES ASSUME RightsInv PROVE RightsAsAsked
    OBVIOUS
<1>1. \A p \in VirtPage : asked[p] \in Requests \cup {{}}
    BY DEF RightsInv
<1>2. ExecutableWhenAsked
    BY <1>1 DEF RightsInv, ExecutableWhenAsked, CanExecute, NormalizeLeafFlags, Requests
<1>3. UserWhenAsked
    BY <1>1 DEF RightsInv, UserWhenAsked, UserCan, NormalizeLeafFlags, Requests
<1> QED  BY <1>2, <1>3 DEF RightsAsAsked

\* It holds while nothing is mapped.
LEMMA RightsInvInit == PageInit => RightsInv
BY DEF PageInit, RightsInv, IsHigherHalf, Table

\* What walk_to_child_table leaves in the entry of a table.
LEMMA WalkGrants ==
    ASSUME NEW e \in SUBSET {"P", "U", "NX"}, NEW p \in VirtPage, NEW flags \in Requests,
           e = {} \/ "P" \in e
    PROVE  LET w == WalkToChildTable(e, p, flags)
           IN  /\ w \in SUBSET {"P", "U", "NX"} /\ "P" \in w
               /\ ~IsHigherHalf(p) /\ "NX" \notin e => "NX" \notin w
               /\ "X" \in flags => "NX" \notin w
               /\ e # {} /\ "NX" \notin e => "NX" \notin w
               /\ "U" \in e => "U" \in w
               /\ "U" \in flags /\ ~IsHigherHalf(p) => "U" \in w
<1>1. CASE e = {}
    BY <1>1 DEF WalkToChildTable, NormalizeTableFlags, Requests
<1>2. CASE e # {}
    BY <1>2 DEF WalkToChildTable, SetUserAccess, ClearNx, Requests
<1> QED  BY <1>1, <1>2

\* map_at_paddr_internal preserves the invariant.
LEMMA MapKeepsRights ==
    ASSUME RightsInv, NEW p \in VirtPage, NEW flags \in Requests, MapAtPaddr(p, flags)
    PROVE  RightsInv'
<1> DEFINE t == TableOf(p)
           w == WalkToChildTable(pd[t], p, flags)
<1>1. /\ pd' = [pd EXCEPT ![t] = w] /\ pt' = [pt EXCEPT ![p] = NormalizeLeafFlags(p, flags)]
      /\ asked' = [asked EXCEPT ![p] = flags]
    BY DEF MapAtPaddr
<1>2. /\ t \in Table /\ pd[t] \in SUBSET {"P", "U", "NX"} /\ (pd[t] = {} \/ "P" \in pd[t])
      /\ flags # {}
    BY DEF RightsInv, Table, Requests
<1>3. /\ w \in SUBSET {"P", "U", "NX"} /\ "P" \in w
      /\ ~IsHigherHalf(p) /\ "NX" \notin pd[t] => "NX" \notin w
      /\ "X" \in flags => "NX" \notin w
      /\ pd[t] # {} /\ "NX" \notin pd[t] => "NX" \notin w
      /\ "U" \in pd[t] => "U" \in w
      /\ "U" \in flags /\ ~IsHigherHalf(p) => "U" \in w
    BY <1>2, WalkGrants
<1> HIDE DEF w
<1>4. NormalizeLeafFlags(p, flags) \in SUBSET {"P", "U", "NX"}
    BY DEF NormalizeLeafFlags, Requests
<1>5. /\ pt' \in [VirtPage -> SUBSET {"P", "U", "NX"}]
      /\ pd' \in [Table -> SUBSET {"P", "U", "NX"}]
      /\ asked' \in [VirtPage -> Requests \cup {{}}]
    BY <1>1, <1>2, <1>3, <1>4 DEF RightsInv
<1>6. \A u \in Table : pd'[u] = IF u = t THEN w ELSE pd[u]
    BY <1>1, <1>2 DEF RightsInv
<1>7. \A q \in VirtPage : /\ asked'[q] = IF q = p THEN flags ELSE asked[q]
                          /\ pt'[q] = IF q = p THEN NormalizeLeafFlags(p, flags) ELSE pt[q]
    BY <1>1 DEF RightsInv
<1> HIDE DEF t
<1>8. \A q \in VirtPage : /\ TableOf(q) \in Table
                          /\ TableOf(q) = t => (IsHigherHalf(q) <=> IsHigherHalf(p))
    BY DEF Table, IsHigherHalf, t
<1>9. \A u \in Table : pd'[u] = {} \/ "P" \in pd'[u]
    BY <1>3, <1>6 DEF RightsInv
<1>10. \A q \in VirtPage : asked'[q] # {} => pd'[TableOf(q)] # {}
    <2> SUFFICES ASSUME NEW q \in VirtPage, asked'[q] # {} PROVE pd'[TableOf(q)] # {}
        OBVIOUS
    <2>1. CASE TableOf(q) = t
        BY <1>3, <1>6, <1>8, <2>1
    <2>2. CASE TableOf(q) # t
        BY <1>6, <1>7, <1>8, <2>2 DEF RightsInv, t
    <2> QED  BY <2>1, <2>2
<1>11. ASSUME NEW q \in VirtPage, "X" \in asked'[q] \/ ~IsHigherHalf(q)
       PROVE  "NX" \notin pd'[TableOf(q)]
    <2>1. CASE q = p
        <3>1. ~IsHigherHalf(p) => "NX" \notin pd[t]
            BY DEF RightsInv, t
        <3> QED  BY <1>3, <1>6, <1>7, <1>8, <1>11, <2>1, <3>1 DEF t
    <2>2. CASE q # p
        <3>1. "X" \in asked[q] \/ ~IsHigherHalf(q)
            BY <1>7, <1>11, <2>2
        <3>2. "NX" \notin pd[TableOf(q)] /\ ("X" \in asked[q] => pd[TableOf(q)] # {})
            BY <3>1 DEF RightsInv
        <3> QED  BY <1>3, <1>6, <1>8, <3>1, <3>2
    <2> QED  BY <2>1, <2>2
<1>12. ASSUME NEW q \in VirtPage, "U" \in asked'[q], ~IsHigherHalf(q)
       PROVE  "U" \in pd'[TableOf(q)]
    <2>1. CASE q = p
        BY <1>3, <1>6, <1>7, <1>8, <1>12, <2>1 DEF t
    <2>2. CASE q # p
        <3>1. "U" \in pd[TableOf(q)]
            BY <1>7, <1>12, <2>2 DEF RightsInv
        <3> QED  BY <1>3, <1>6, <1>8, <3>1
    <2> QED  BY <2>1, <2>2
<1>13. \A q \in VirtPage :
          pt'[q] = IF asked'[q] = {} THEN {} ELSE NormalizeLeafFlags(q, asked'[q])
    BY <1>2, <1>7 DEF RightsInv
<1> QED
    BY <1>5, <1>9, <1>10, <1>11, <1>12, <1>13
    DEF RightsInv, NormalizeLeafFlags, IsHigherHalf

\* For every layout of pages and tables and every sequence of mappings: each page
\* can be executed and used from user mode as its own mapping asked for, although
\* map_at_paddr_internal changes the entries of tables it shares with others.
THEOREM RightsAlwaysAsAsked == PageSpec => []RightsAsAsked
<1>1. RightsInv /\ [PageNext]_pageVars => RightsInv'
    <2> SUFFICES ASSUME RightsInv, [PageNext]_pageVars PROVE RightsInv'
        OBVIOUS
    <2>1. ASSUME NEW p \in VirtPage, Unmap(p) PROVE RightsInv'
        BY <2>1 DEF Unmap, RightsInv, NormalizeLeafFlags, IsHigherHalf
    <2>2. CASE UNCHANGED pageVars
        BY <2>2 DEF pageVars, RightsInv, NormalizeLeafFlags, IsHigherHalf
    <2> QED  BY <2>1, <2>2, MapKeepsRights DEF PageNext
<1> QED  BY <1>1, RightsInvInit, RightsInvImplies, PTL DEF PageSpec
==============================================================================
