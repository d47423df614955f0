----------------------------- MODULE QueueSpec ------------------------------
(***************************************************************************)
(* What the process queues of the kernel promise: each is a sequence, a    *)
(* process is in one of them at most, and an operation changes the         *)
(* sequences it is called for and nothing else.                            *)
(***************************************************************************)
EXTENDS Naturals, Sequences, SequencesExt

CONSTANTS Proc, Queue

VARIABLE queues

Free == Proc \ UNION {ToSet(queues[q]) : q \in Queue}

Init == queues = [q \in Queue |-> <<>>]

\* The length of the longest prefix of queue q with members in S only.
Prefix(q, S) ==
    CHOOSE n \in 0..Len(queues[q]) :
        /\ \A i \in 1..n : queues[q][i] \in S
        /\ n < Len(queues[q]) => queues[q][n + 1] \notin S

\* A process enters a queue in front, at the end, or behind a prefix ...
Prepend(q, p) == p \in Free /\ queues' = [queues EXCEPT ![q] = <<p>> \o @]

Add(q, p) == p \in Free /\ queues' = [queues EXCEPT ![q] = Append(@, p)]

InsertBehind(q, p, n) ==
    p \in Free /\ queues' = [queues EXCEPT ![q] = InsertAt(@, n + 1, p)]

Insert(q, p, S) == InsertBehind(q, p, Prefix(q, S))

\* ... and leaves it from the front or from anywhere.
Take(q) == queues[q] # <<>> /\ queues' = [queues EXCEPT ![q] = Tail(@)]

Leave(q, p) ==
    /\ p \in ToSet(queues[q])
    /\ queues' = [queues EXCEPT ![q] = RemoveFirst(@, p)]

\* The first n processes of a queue go to the end of another, in their order.
Move(q, r, n) ==
    /\ q # r
    /\ queues' = [queues EXCEPT ![q] = SubSeq(@, n + 1, Len(@)),
                                ![r] = @ \o SubSeq(queues[q], 1, n)]

MoveDue(q, r, S) == Prefix(q, S) > 0 /\ Move(q, r, Prefix(q, S))

Next ==
    \/ \E q \in Queue, p \in Proc :
         \/ Prepend(q, p) \/ Add(q, p) \/ Leave(q, p)
         \/ \E n \in 0..Len(queues[q]) : InsertBehind(q, p, n)
    \/ \E q \in Queue : Take(q)
    \/ \E q, r \in Queue : \E n \in 1..Len(queues[q]) : Move(q, r, n)

Spec == Init /\ [][Next]_queues
=============================================================================
