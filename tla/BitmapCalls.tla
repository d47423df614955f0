---------------------------- MODULE BitmapCalls -----------------------------
(* One bitmap under any sequence of bitmap_set and bitmap_clear. *)
EXTENDS Bitmap

CONSTANT Sizes  \* bit counts to start with

VARIABLE b

ASSUME SizesAssumption == Sizes \subseteq Nat

Init == \E n \in Sizes, d \in BOOLEAN : b = BitmapInit(n, d)

Set(i) == b' = BitmapSet(b, i)
Clear(i) == b' = BitmapClear(b, i)

\* An index may be one past the end: the code ignores it.
Next == \E i \in 0 .. b.count : Set(i) \/ Clear(i)

Spec == Init /\ [][Next]_b

TypeOK == b \in Bitmaps(b.count) /\ b.count \in Nat

\* bitmap_find_clear never scans the whole map: it trusts lowest_clear_idx and
\* highest_clear_idx, which every set and clear must keep exact.
BoundsTight == Tight(b)

\* bitmap_find_clear fails only when every bit is set, and otherwise returns
\* the first clear bit; padding bits of the last byte are never returned.
FindsFirstClear ==
    LET f == BitmapFindClear(b)
    IN  IF ClearBits(b) = {} THEN f = None
        ELSE f \in ClearBits(b) /\ \A i \in ClearBits(b) : f <= i
=============================================================================
