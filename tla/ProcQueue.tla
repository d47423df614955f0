----------------------------- MODULE ProcQueue ------------------------------
(***************************************************************************)
(* The linked lists of src/kernel/mp/proc_queue.c and wait_queue.c: every  *)
(* queue is a head and a tail pointer, and every process has one link,     *)
(* proc->next, that all queues share.                                      *)
(*                                                                         *)
(* A list state l is a record of the links and of both pointers of every   *)
(* queue.  The operators below are the C functions; the actions are the    *)
(* calls the kernel makes, with the rule its callers follow: a process     *)
(* that is put into a queue is in none (module Processes shows that they   *)
(* do).  The lists are shown to implement QueueSpec.                       *)
(***************************************************************************)
EXTENDS Naturals, FiniteSets, Sequences, SequencesExt

CONSTANTS
    Proc,     \* process control blocks
    NoProc,   \* NULL
    Queue     \* proc_queue_t and wait_queue_t objects

VARIABLE l

Init == l = [next |-> [p \in Proc |-> NoProc],
             head |-> [q \in Queue |-> NoProc],
             tail |-> [q \in Queue |-> NoProc]]

\* The processes reached from p by following the links; a longer chain than
\* there are processes is a cycle, and is cut.
RECURSIVE Chain(_, _)
Chain(p, n) ==
    IF p = NoProc \/ n = 0 THEN <<>> ELSE <<p>> \o Chain(l.next[p], n - 1)

Walk(q) == Chain(l.head[q], Cardinality(Proc) + 1)

Linked == UNION {ToSet(Walk(q)) : q \in Queue}

-----------------------------------------------------------------------------
(* proc_queue.c *)

PushHead(s, q, p) ==
    [s EXCEPT !.next[p] = s.head[q],
              !.head[q] = p,
              !.tail[q] = IF @ = NoProc THEN p ELSE @]

PushTail(s, q, p) ==
    IF s.head[q] = NoProc
    THEN [s EXCEPT !.next[p] = NoProc, !.head[q] = p, !.tail[q] = p]
    ELSE [s EXCEPT !.next = [@ EXCEPT ![p] = NoProc, ![s.tail[q]] = p],
                   !.tail[q] = p]

PopHead(s, q) ==
    LET p == s.head[q]
    IN  [s EXCEPT !.head[q] = s.next[p],
                  !.tail[q] = IF s.next[p] = NoProc THEN NoProc ELSE @,
                  !.next[p] = NoProc]

InsertAfter(s, q, after, p) ==
    [s EXCEPT !.next = [@ EXCEPT ![p] = s.next[after], ![after] = p],
              !.tail[q] = IF @ = after THEN p ELSE @]

\* The tail pointer is left at the removed process.
BugRemove(s, q, p, prev) ==
    [s EXCEPT !.head[q] = IF prev = NoProc THEN s.next[p] ELSE @,
              !.next = [x \in Proc |-> IF x = p THEN NoProc
                                       ELSE IF x = prev THEN s.next[p] ELSE @[x]]]

\* proc_queue_remove; prev is what the search leaves there when it gets to p.
RemoveFrom(s, q, p, prev) ==
    [s EXCEPT !.head[q] = IF prev = NoProc THEN s.next[p] ELSE @,
              !.next = [x \in Proc |-> IF x = p THEN NoProc
                                       ELSE IF x = prev THEN s.next[p] ELSE @[x]],
              !.tail[q] = IF @ = p THEN prev ELSE @]

SplicePrefixTail(s, dst, src, last) ==
    [s EXCEPT !.head = [@ EXCEPT ![src] = s.next[last],
                                 ![dst] = IF @ = NoProc THEN s.head[src] ELSE @],
              !.tail = [@ EXCEPT ![src] = IF @ = last THEN NoProc ELSE @,
                                 ![dst] = last],
              !.next = [x \in Proc |->
                          IF s.head[dst] # NoProc /\ x = s.tail[dst] THEN s.head[src]
                          ELSE IF x = last THEN NoProc ELSE @[x]]]

\* proc_queue_find_last_prefix: the last of the leading processes in S.
RECURSIVE FindLastPrefix(_, _, _)
FindLastPrefix(p, last, S) ==
    IF p = NoProc \/ p \notin S THEN last ELSE FindLastPrefix(l.next[p], p, S)

-----------------------------------------------------------------------------
(* wait_queue.c; wake_proc appends to the ready queue *)

\* The caller goes to the front of the wait queue.
BugEnqueue(s, q, p) == PushHead(s, q, p)

EnqueueCurrent(s, q, p) ==
    [s EXCEPT !.next = [x \in Proc |->
                          IF s.head[q] # NoProc /\ x = s.tail[q] THEN p
                          ELSE IF x = p THEN NoProc ELSE @[x]],
              !.head[q] = IF @ = NoProc THEN p ELSE @,
              !.tail[q] = p]

\* The woken process goes to the front of the ready queue.
BugWakeOne(s, q, ready) == PushHead(PopHead(s, q), ready, s.head[q])

WakeOne(s, q, ready) == PushTail(PopHead(s, q), ready, s.head[q])

\* wait_queue_wake_all resets the tail only after the last waiter has gone.
RECURSIVE WakeAll(_, _, _)
WakeAll(s, q, ready) ==
    IF s.head[q] = NoProc THEN [s EXCEPT !.tail[q] = NoProc]
    ELSE LET p == s.head[q]
             a == [s EXCEPT !.head[q] = s.next[p], !.next[p] = NoProc]
         IN  WakeAll(PushTail(a, ready, p), q, ready)

-----------------------------------------------------------------------------
(* The calls *)

\* proc_exit and terminator.
PushFront(q, p) == p \notin Linked /\ l' = PushHead(l, q, p)

\* mp_enqueue_ready, wake_proc and terminator.
PushBack(q, p) == p \notin Linked /\ l' = PushTail(l, q, p)

\* wait_queue_sleep and wait_queue_sleep_postponed.
Enqueue(q, p) == p \notin Linked /\ l' = EnqueueCurrent(l, q, p)

\* schedule_advance and terminator.
Pop(q) == l.head[q] # NoProc /\ l' = PopHead(l, q)

\* sleep_proc_until, where S are the processes that wake no later than p.
InsertSorted(q, p, S) ==
    /\ p \notin Linked
    /\ LET last == FindLastPrefix(l.head[q], NoProc, S)
       IN  l' = IF last = NoProc THEN PushHead(l, q, p)
                ELSE InsertAfter(l, q, last, p)

\* mp_remove_proc and process_wait_collect.
Unlink(q, p) ==
    /\ p \in ToSet(Walk(q))
    /\ l' = RemoveFrom(l, q, p, FindLastPrefix(l.head[q], NoProc, Proc \ {p}))

\* wake_procs_before_timestamp, where S are the processes that are due.
WakeDue(ready, q, S) ==
    /\ q # ready
    /\ LET last == FindLastPrefix(l.head[q], NoProc, S)
       IN  last # NoProc /\ l' = SplicePrefixTail(l, ready, q, last)

\* wait_queue_wake_one and wait_queue_wake_all with a waiter.
WakeFirst(ready, q) ==
    q # ready /\ l.head[q] # NoProc /\ l' = WakeOne(l, q, ready)

WakeEvery(ready, q) ==
    q # ready /\ l.head[q] # NoProc /\ l' = WakeAll(l, q, ready)

Next ==
    \/ \E q \in Queue, p \in Proc :
         \/ PushFront(q, p) \/ PushBack(q, p) \/ Enqueue(q, p) \/ Unlink(q, p)
         \/ \E S \in SUBSET Proc : InsertSorted(q, p, S)
    \/ \E q \in Queue : Pop(q)
    \/ \E q, r \in Queue :
         \/ WakeFirst(r, q) \/ WakeEvery(r, q)
         \/ \E S \in SUBSET Proc : WakeDue(r, q, S)

Spec == Init /\ [][Next]_l

-----------------------------------------------------------------------------
\* Links and pointers have their types, and no chain of links is a cycle.
TypeOK ==
    /\ l \in [next : [Proc -> Proc \cup {NoProc}],
              head : [Queue -> Proc \cup {NoProc}],
              tail : [Queue -> Proc \cup {NoProc}]]
    /\ \A q \in Queue : Len(Walk(q)) <= Cardinality(Proc)

\* The tail pointer, which push_tail, enqueue_current and splice_prefix_tail
\* write through, is the end of the chain that starts at the head, in every
\* queue, and NULL in an empty one.
TailIsLast ==
    \A q \in Queue : l.tail[q] = IF Walk(q) = <<>> THEN NoProc ELSE Last(Walk(q))

\* A process that has left its queue keeps no link into it: a stale link would
\* join two queues when the process is queued again.
NoStaleLink == \A p \in Proc \ Linked : l.next[p] = NoProc

Abstract == INSTANCE QueueSpec WITH queues <- [q \in Queue |-> Walk(q)]

\* The lists behave as sequences: whatever calls are made in whatever order, no
\* process is lost, duplicated or seen in two queues.
ImplementsQueues == Abstract!Spec

\* Every function does to the sequences what its name says, at the right end of
\* the right queue, and leaves every other queue alone.
CallDoesItsJob ==
    \A q, r \in Queue, p \in Proc, S \in SUBSET Proc :
        /\ PushFront(q, p) => Abstract!Prepend(q, p)
        /\ PushBack(q, p) \/ Enqueue(q, p) => Abstract!Add(q, p)
        /\ InsertSorted(q, p, S) => Abstract!Insert(q, p, S)
        /\ Pop(q) => Abstract!Take(q)
        /\ Unlink(q, p) => Abstract!Leave(q, p)
        /\ WakeDue(r, q, S) => Abstract!MoveDue(q, r, S)
        /\ WakeFirst(r, q) => Abstract!Move(q, r, 1)
        /\ WakeEvery(r, q) => Abstract!Move(q, r, Len(Walk(q)))
=============================================================================
