------------------------------ MODULE RingCalls ------------------------------
(* Reads and writes of one ring buffer in any order, without locks. *)
EXTENDS Ringbuffer

CONSTANTS
    Value, None,
    Size        \* the size ringbuffer_new is called with

ASSUME SizeAssumption == Size \in Nat \ {0} /\ None \notin Value

VARIABLES r, out
ringVars == <<r, out>>

RingInit == r = RingbufferNew(Size, None) /\ out = None

Write(v) == r' = RingbufferWrite(r, v) /\ UNCHANGED out

Read ==
    \/ ~HasValue(r) /\ out' = None /\ UNCHANGED r
    \/ HasValue(r) /\ out' = NextValue(r) /\ r' = RingbufferRead(r)

RingNext == Read \/ \E v \in Value : Write(v)

RingSpec == RingInit /\ [][RingNext]_ringVars

-----------------------------------------------------------------------------
Queue == INSTANCE LossyQueue WITH q <- Unread(r)

\* Writing and reading over any number of wraps, from the start where the
\* positions are 0 through overruns, gives values back in the order of writing,
\* once each, and drops none while fewer than size - 1 are waiting.
ImplementsQueue == Queue!Spec
=============================================================================
