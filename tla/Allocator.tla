------------------------------ MODULE Allocator ------------------------------
(***************************************************************************)
(* What an allocator promises: each block it hands out is memory that no   *)
(* block still in use has, and a block goes only by being freed.           *)
(***************************************************************************)
EXTENDS Naturals

VARIABLE live   \* the blocks in use, each a set of cells

Init == live = {}

Malloc ==
    \E b \in live' \ live :
        /\ b # {}
        /\ b \cap UNION live = {}
        /\ live' = live \cup {b}

Free == \E b \in live \ live' : live' = live \ {b}

\* realloc: a new block that does not touch the old one, which goes.
Move ==
    \E b \in live \ live', c \in live' \ live :
        /\ c # {}
        /\ c \cap UNION live = {}
        /\ live' = (live \ {b}) \cup {c}

Next == Malloc \/ Free \/ Move

Spec == Init /\ [][Next]_live
=============================================================================
