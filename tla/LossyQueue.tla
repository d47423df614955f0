----------------------------- MODULE LossyQueue -----------------------------
(***************************************************************************)
(* What the callers of the ring buffer may rely on.  It is a queue as long *)
(* as it holds fewer than Size - 1 values; a write beyond that may keep    *)
(* everything, or drop all but the new value, or drop that as well.        *)
(* Nothing is ever reordered, repeated or made up.                         *)
(***************************************************************************)
EXTENDS Integers, Sequences

CONSTANTS Value, None, Size
VARIABLES
    q,      \* the values to be read
    out     \* the value last read, None if there was none to read

Init == q = <<>> /\ out = None

Write(v) ==
    /\ \/ q' = Append(q, v)
       \/ Len(q) >= Size - 1 /\ q' \in {<<v>>, <<>>}
    /\ UNCHANGED out

Read ==
    \/ q = <<>> /\ out' = None /\ UNCHANGED q
    \/ q # <<>> /\ out' = Head(q) /\ q' = Tail(q)

Next == Read \/ \E v \in Value : Write(v)

Spec == Init /\ [][Next]_<<q, out>>
=============================================================================
