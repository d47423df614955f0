----------------------------- MODULE Semaphore ------------------------------
(***************************************************************************)
(* semaphore_t and mutex_t (src/kernel/mp/semaphore.c, mutex.c) used by    *)
(* kernel tasks that the timer may preempt anywhere.  The tasks do what    *)
(* those of scheduler_ast.c do, again and again: sleep, take the semaphore *)
(* or try to, perhaps sleep while holding it, release it.  A mutex is a    *)
(* semaphore with limit 1.                                                 *)
(***************************************************************************)
EXTENDS SchedState, FiniteSets

CONSTANTS
    Kernel,     \* the boot process in its hlt loop
    Limit,      \* semaphore->limit
    MaxSleep,   \* bound: longest sleep, in ticks
    MaxFrames   \* bound: unreturned switches on one kernel stack

VARIABLES
    k,      \* the scheduler
    locks,  \* semaphore->current_locks, a uint8_t
    pc      \* where each task is, when it owes no unwinding

vars == <<k, locks, pc>>

Task == Proc \ {Kernel}
Waiters == "waiters"

ASSUME SemAssumption ==
    /\ Kernel \in Proc
    /\ Waiters \in WaitQueue
    /\ Limit \in 1..255 /\ MaxSleep \in Nat /\ MaxFrames \in Nat \ {0}

\* kernel_main on its way to the hlt loop; no quantum has been handed out yet.
Init ==
    /\ k = [current  |-> Kernel,
            status   |-> [p \in Proc |-> IF p = Kernel THEN "RUNNING" ELSE "UNUSED"],
            ready    |-> <<>>,
            sleeping |-> <<>>,
            dying    |-> <<>>,
            waitq    |-> [q \in WaitQueue |-> <<>>],
            left     |-> [p \in Proc |-> 0],
            irq      |-> 0,
            sw       |-> 0,
            flag     |-> FALSE,
            quantum  |-> FALSE,
            ints     |-> TRUE,
            frames   |-> [p \in Proc |-> 0]]
    /\ locks = 0
    /\ pc = [p \in Proc |-> IF p = Kernel THEN "boot" ELSE "rest"]

Running(p) == k.current = p /\ k.status[p] = "RUNNING"
At(p, at) == Running(p) /\ k.frames[p] = 0 /\ pc[p] = at
Goto(p, at) == pc' = [pc EXCEPT ![p] = at]

-----------------------------------------------------------------------------
(* The machine: timer, unwinding, first run, the boot process *)

TickReady == k.ints /\ k.frames[k.current] < MaxFrames

AfterTick ==
    LET s == HandleTimer([k EXCEPT !.ints = FALSE])
    IN  IF Returned(k, s) THEN [s EXCEPT !.ints = TRUE] ELSE s

Tick ==
    /\ TickReady
    /\ k' = AfterTick
    /\ UNCHANGED <<locks, pc>>

UnwindStep(p) ==
    /\ Running(p)
    /\ k.frames[p] > 0
    /\ k' = Unwind(k)
    /\ UNCHANGED <<locks, pc>>

Prelude(p) ==
    /\ k.current = p
    /\ k.status[p] = "UNINITIALIZED"
    /\ k' = SchedUnlock([k EXCEPT !.status[p] = "RUNNING"])
    /\ UNCHANGED <<locks, pc>>

\* ast_scheduler_add: proc_new_kernel and sched_add_proc.
AddTask(p) ==
    /\ At(Kernel, "boot")
    /\ k.status[p] = "UNUSED"
    /\ k' = SchedAddProc([k EXCEPT !.status[p] = "UNINITIALIZED"], p)
    /\ UNCHANGED <<locks, pc>>

KernelYield ==
    /\ At(Kernel, "boot")
    /\ \A p \in Task : k.status[p] # "UNUSED"
    /\ k' = SchedYield(k)
    /\ Goto(Kernel, "hlt")
    /\ UNCHANGED locks

-----------------------------------------------------------------------------
(* semaphore.c *)

\* semaphore_lock: with all permits taken the caller queues up.  The switch that
\* wait_queue_sleep asks for is made by the outer sched_resume; whoever wakes
\* the caller has handed it the permit.
SemaphoreLock(s) ==
    LET a == SchedPostpone(s)
    IN  SchedResume(IF locks < Limit THEN a ELSE WaitQueueSleep(a, Waiters))

Locked == IF locks < Limit THEN locks + 1 ELSE locks

Lock(p) ==
    /\ At(p, "out")
    /\ k' = SemaphoreLock(k)
    /\ locks' = Locked
    /\ Goto(p, "in")

\* semaphore_try_lock: the nested semaphore_lock runs in the postponed section.
TryLock(p) ==
    /\ At(p, "out")
    /\ LET a == SchedPostpone(k)
       IN  k' = SchedResume(IF locks < Limit THEN SemaphoreLock(a) ELSE a)
    /\ locks' = Locked
    /\ Goto(p, IF locks < Limit THEN "in" ELSE "rest")

\* No waiter is woken.
BugUnlock(s) == SchedResume(SchedPostpone(s))

\* semaphore_unlock: a permit goes to the first waiter, or back.
SemaphoreUnlock(s) ==
    LET a == SchedPostpone(s)
    IN  SchedResume(IF s.waitq[Waiters] # <<>> THEN WaitQueueWakeOne(a, Waiters)
                    ELSE a)

\* The count goes down also when the permit is handed to a waiter.
BugUnlocked == (locks - 1) % 256

Unlocked == IF k.waitq[Waiters] # <<>> THEN locks ELSE (locks - 1) % 256

Unlock(p) ==
    /\ At(p, "in")
    /\ k' = SemaphoreUnlock(k)
    /\ locks' = Unlocked
    /\ Goto(p, "rest")

\* sleep_current, before the semaphore is asked for or while it is held.
Sleep(p, n) ==
    /\ \/ At(p, "rest") /\ Goto(p, "out")
       \/ At(p, "in") /\ UNCHANGED pc
    /\ k' = SleepCurrentNs(k, n)
    /\ UNCHANGED locks

-----------------------------------------------------------------------------
KernelCode(p) ==
    \/ UnwindStep(p) \/ Prelude(p)
    \/ p = Kernel /\ (KernelYield \/ \E t \in Task : AddTask(t))

TaskStep(p) ==
    Lock(p) \/ TryLock(p) \/ Unlock(p) \/ \E n \in 0..MaxSleep : Sleep(p, n)

Next ==
    \/ Tick
    \/ \E p \in Proc : KernelCode(p)
    \/ \E p \in Task : TaskStep(p)

Spec == Init /\ [][Next]_vars

CodeReady(p) ==
    k.current = p /\ (k.status[p] = "UNINITIALIZED" \/ k.frames[p] > 0 \/ pc[p] = "boot")

\* The machine runs as in Processes; a task that has the CPU does not compute for
\* ever, and one that holds the semaphore does not sleep for ever.
Fairness ==
    /\ []<>~(TickReady /\ AfterTick # k) \/ []<><<Tick>>_vars
    /\ \A p \in Proc, n \in 0..MaxFrames :
         \/ <>[]~(CodeReady(p) /\ k.frames[p] = n)
         \/ []<><<KernelCode(p) /\ k.frames[p] = n>>_vars
    /\ \A p \in Task :
         /\ \/ <>[]~(At(p, "rest") \/ At(p, "out"))
            \/ []<><<TaskStep(p) /\ pc[p] # "in">>_vars
         /\ <>[]~At(p, "in") \/ []<><<Unlock(p)>>_vars

FairSpec == Spec /\ Fairness

-----------------------------------------------------------------------------
Blocked == {p \in Task : k.status[p] = "BLOCKED"}

\* The tasks that own the semaphore, also those it was handed to that have not
\* run since.
Holders == {p \in Task : pc[p] = "in"} \ Blocked

\* Every variable keeps its type.
TypeOK ==
    /\ k \in State
    /\ locks \in 0..255
    /\ pc \in [Proc -> {"boot", "hlt", "rest", "out", "in"}]

\* At most `limit` processes own the semaphore (semaphore.h), whatever switches
\* happen inside semaphore_lock and semaphore_unlock.
AtMostLimit == Cardinality(Holders) <= Limit

\* current_locks counts the owners exactly, so that no permit is lost when one is
\* handed from an owner to a waiter, and none is given twice.
LocksCountOwners == locks = Cardinality(Holders)

\* A process waits only as long as all permits are taken, and a BLOCKED process
\* is in the queue from which semaphore_unlock will wake it.
WaitersQueued ==
    /\ Range(k.waitq[Waiters]) = Blocked
    /\ Blocked # {} => locks = Limit

\* The scheduler's queues stay consistent under the calls made here.
SchedulerIntact == QueuesOK(k, <<>>) /\ WaitQueuesOK(k) /\ CurrentOK(k)

\* At most `limit` tasks own the semaphore, current_locks counts them exactly,
\* and tasks wait in its queue only while all permits are taken, whatever
\* switches happen inside semaphore_lock and semaphore_unlock.
PermitsExact == AtMostLimit /\ LocksCountOwners /\ WaitersQueued /\ SchedulerIntact

\* The inductive form of PermitsExact.  Every call ends with the switch lock
\* free; the boot process never sleeps, so that somebody is always ready when a
\* task gives up the CPU; interrupts are off until a new task has begun to run;
\* nobody waits in another queue, and a waiter is inside semaphore_lock.
SemInv ==
    /\ TypeOK /\ PermitsExact
    /\ k.sw = 0 /\ k.flag = FALSE
    /\ k.status[Kernel] \in {"RUNNING", "READY_TO_RUN"}
    /\ k.status[k.current] = "UNINITIALIZED" => k.ints = FALSE
    /\ \A q \in WaitQueue \ {Waiters} : k.waitq[q] = <<>>
    /\ \A p \in Blocked : pc[p] = "in"
    /\ IsFiniteSet(Holders)

\* Permits are handed over in the order of arrival: nobody becomes an owner while
\* others wait but the one that has waited longest.
FirstComeFirstServed ==
    [][\A p \in Task :
         p \in Holders' \ Holders /\ k.waitq[Waiters] # <<>>
         => p = Head(k.waitq[Waiters])]_vars

\* sched_add_proc adds a process "in a `READY_TO_RUN` state" (scheduler.h).
AddedReady ==
    [][\A p \in Task : p \in Range(k'.ready) \ Range(k.ready)
                      => k'.status[p] = "READY_TO_RUN"]_vars

\* Every process that waits for the semaphore gets it and runs.
WaiterEnters == \A p \in Task : p \in Blocked ~> At(p, "in")

\* The tasks run the same code and are added in every order.
Symmetry == {f : f \in Injection(Task, Task)}
=============================================================================
