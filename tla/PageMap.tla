------------------------------- MODULE PageMap ------------------------------
(***************************************************************************)
(* What a list of areas promises: each page is free or carries the rights  *)
(* it was reserved with.                                                   *)
(***************************************************************************)
EXTENDS Integers

CONSTANTS Page, Attr, Free

VARIABLE rights     \* of each page, or Free

Init == rights = [p \in Page |-> Free]

\* A range is reserved only when all of it is free.
Reserve(S, a) ==
    /\ \A p \in S : rights[p] = Free
    /\ rights' = [p \in Page |-> IF p \in S THEN a ELSE rights[p]]

\* Part of a range is released, all of it reserved with the same rights.
Release(S) ==
    /\ \E a \in Attr : \A p \in S : rights[p] = a
    /\ rights' = [p \in Page |-> IF p \in S THEN Free ELSE rights[p]]

ReleaseAll == rights' = [p \in Page |-> Free]

Run(lo, hi) == {p \in Page : lo <= p /\ p <= hi}

Next ==
    \/ \E lo, hi \in Page, a \in Attr : lo <= hi /\ Reserve(Run(lo, hi), a)
    \/ \E lo, hi \in Page : lo <= hi /\ Release(Run(lo, hi))
    \/ ReleaseAll

Spec == Init /\ [][Next]_rights
=============================================================================
