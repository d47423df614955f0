----------------------------- MODULE Acceptance -----------------------------
(***************************************************************************)
(* The tasks of the scheduler's acceptance test                            *)
(* (src/kernel/mp/scheduler_ast.c) together with the terminator: tasks     *)
(* that sleep, wait and wake each other, tasks that spin, and one that     *)
(* terminates those.  Those that use the semaphore are in Semaphore.       *)
(*                                                                         *)
(* A task is a script of calls; the seconds it sleeps are any number of    *)
(* ticks up to MaxSleep.  All tasks are kernel tasks: interrupts are on    *)
(* only where the locks leave them on.                                     *)
(***************************************************************************)
EXTENDS SchedState, FiniteSets

CONSTANTS
    Kernel, Terminator,
    MaxSleep,   \* bound: longest sleep, in ticks
    MaxFrames   \* bound: unreturned switches on one kernel stack

VARIABLES
    k,      \* the scheduler
    pc      \* the call of its script that a task makes next

vars == <<k, pc>>

Sleep == [do |-> "sleep"]
On(do, what) == [do |-> do, what |-> what]

WatchScript == <<[do |-> "spin"]>>
SleepOnceScript == <<Sleep>>
WaiterScript == <<On("wait", "queue")>>
WakerScript == <<Sleep, On("wake_one", "queue"), Sleep, On("wake_all", "queue")>>
PostponedWaiterScript == <<On("wait_postponed", "postponed"), [do |-> "pass"]>>
PostponedWakerScript == <<Sleep, On("wake_all", "postponed"), Sleep>>
MonitorScript ==
    <<Sleep, On("terminate", "watch_2"), Sleep, On("terminate", "watch_1"), Sleep, [do |-> "pass"]>>

\* The tasks that ast_scheduler adds, in its order, and what they run.
Scripts == <<
    <<"watch_1", WatchScript>>, <<"watch_2", WatchScript>>,
    <<"sleep_1", SleepOnceScript>>,
    <<"waiter_1", WaiterScript>>, <<"waiter_2", WaiterScript>>, <<"waker", WakerScript>>,
    <<"postponed_waiter", PostponedWaiterScript>>, <<"postponed_waker", PostponedWakerScript>>,
    <<"monitor", MonitorScript>>>>

Task == Proc \ {Kernel, Terminator}
Tasks == SelectSeq([i \in DOMAIN Scripts |-> Scripts[i][1]], LAMBDA t : t \in Task)
Script(t) == LET i == CHOOSE j \in DOMAIN Scripts : Scripts[j][1] = t IN Scripts[i][2]
Watch == {"watch_1", "watch_2"} \cap Task

ASSUME AcceptanceAssumption ==
    /\ Kernel # Terminator /\ {Kernel, Terminator} \subseteq Proc
    /\ "monitor" \in Proc => {"watch_1", "watch_2"} \subseteq Proc
    /\ Task = Range(Tasks)
    /\ WaitQueue = {"queue", "postponed"}
    /\ MaxSleep \in Nat /\ MaxFrames \in Nat \ {0}

\* The scheduler after tasks have been added behind the terminator, before any
\* quantum has been handed out.
Added(tasks) ==
    [current  |-> Kernel,
     status   |-> [p \in Proc |-> IF p = Kernel THEN "RUNNING" ELSE "UNINITIALIZED"],
     ready    |-> <<Terminator>> \o tasks,
     sleeping |-> <<>>,
     dying    |-> <<>>,
     waitq    |-> [q \in WaitQueue |-> <<>>],
     left     |-> [p \in Proc |-> 0],
     irq      |-> 0,
     sw       |-> 0,
     flag     |-> FALSE,
     quantum  |-> FALSE,
     ints     |-> TRUE,
     frames   |-> [p \in Proc |-> 0]]

\* ast_scheduler has added its tasks and kernel_main is about to call sched_yield.
Init == k = Added(Tasks) /\ pc = [p \in Proc |-> 1]

Running(p) == k.current = p /\ k.status[p] = "RUNNING"
Free(p) == Running(p) /\ k.frames[p] = 0
Goto(p, at) == pc' = [pc EXCEPT ![p] = at]

-----------------------------------------------------------------------------
(* The machine, the boot process and the terminator *)

TickReady == k.ints /\ k.current # NoProc /\ k.frames[k.current] < MaxFrames

AfterTick ==
    LET s == HandleTimer([k EXCEPT !.ints = FALSE])
    IN  IF Returned(k, s) THEN [s EXCEPT !.ints = TRUE] ELSE s

Tick == TickReady /\ k' = AfterTick /\ UNCHANGED pc

UnwindStep(p) == Running(p) /\ k.frames[p] > 0 /\ k' = Unwind(k) /\ UNCHANGED pc

\* A new task does not give back the lock of the switch that started it.
BugPrelude(p) ==
    /\ k.current = p /\ k.status[p] = "UNINITIALIZED"
    /\ k' = [k EXCEPT !.status[p] = "RUNNING"]
    /\ UNCHANGED pc

Prelude(p) ==
    /\ k.current = p /\ k.status[p] = "UNINITIALIZED"
    /\ k' = SchedUnlock([k EXCEPT !.status[p] = "RUNNING"])
    /\ UNCHANGED pc

\* The boot process halts from then on.
KernelYield == Free(Kernel) /\ pc[Kernel] = 1 /\ k' = SchedYield(k) /\ Goto(Kernel, 2)

\* 1 is the unlocked test of the queue, 2 the yield, 3 the locked part.
TerminatorCheck ==
    /\ Free(Terminator) /\ pc[Terminator] = 1
    /\ Goto(Terminator, IF k.dying = <<>> THEN 2 ELSE 3)
    /\ UNCHANGED k

TerminatorYield == Free(Terminator) /\ pc[Terminator] = 2 /\ k' = SchedYield(k) /\ Goto(Terminator, 1)

\* None of these tasks has a parent, so all the dead are freed.
TerminatorReap ==
    /\ Free(Terminator) /\ pc[Terminator] = 3
    /\ LET s == SchedPostpone(k)
       IN  k' = SchedResume(
                  [s EXCEPT !.dying = <<>>,
                            !.status = [p \in Proc |-> IF p \in Range(k.dying) THEN "FREED" ELSE @[p]]])
    /\ Goto(Terminator, IF k.dying = <<>> THEN 2 ELSE 1)

-----------------------------------------------------------------------------
(* The tasks *)

\* t makes a call of the kind `do`, and its script goes on after it.
Calls(t, do) ==
    /\ Free(t)
    /\ pc[t] <= Len(Script(t)) /\ Script(t)[pc[t]].do = do
    /\ Goto(t, pc[t] + 1)

What(t) == Script(t)[pc[t]].what

SleepCurrent(t, n) == Calls(t, "sleep") /\ k' = SleepCurrentNs(k, n)

Wait(t) == Calls(t, "wait") /\ k' = WaitQueueSleep(k, What(t))

\* The task's own postponed section swallows the sleep.
BugWaitPostponed(t) ==
    /\ Calls(t, "wait_postponed")
    /\ k' = LET s == SchedPostpone(k)
            IN  SchedResume([s EXCEPT !.waitq[What(t)] = Append(@, t)])

\* The task blocks in a section that it has postponed itself.
WaitPostponed(t) ==
    /\ Calls(t, "wait_postponed")
    /\ k' = WaitQueueSleepPostponed(SchedPostpone(k), What(t))

\* All waiters are woken.
BugWakeOne(t) == Calls(t, "wake_one") /\ k' = WaitQueueWakeAll(k, What(t))

WakeOne(t) == Calls(t, "wake_one") /\ k' = WaitQueueWakeOne(k, What(t))

WakeAll(t) == Calls(t, "wake_all") /\ k' = WaitQueueWakeAll(k, What(t))

\* A postponed section in which nothing changes: the end of a postponed wait,
\* the monitor's walk over the queues.
Pass(t) == Calls(t, "pass") /\ k' = SchedResume(SchedPostpone(k))

\* The victim stays in the queue it is in.
BugTerminate(t) ==
    /\ Calls(t, "terminate")
    /\ LET a == SchedPostpone(k)
       IN  k' = SchedResume(MpBlockProc([a EXCEPT !.dying = <<What(t)>> \o @], What(t), "READY_TO_DIE"))

\* proc_terminate of another task.
Terminate(t) == Calls(t, "terminate") /\ k' = ProcExit(k, What(t), {})

\* The entry function returns to proc_prelude.
End(t) == Free(t) /\ pc[t] > Len(Script(t)) /\ k' = ProcExit(k, t, {}) /\ UNCHANGED pc

-----------------------------------------------------------------------------
Code(p) ==
    \/ UnwindStep(p) \/ Prelude(p)
    \/ p = Kernel /\ KernelYield
    \/ p = Terminator /\ (TerminatorCheck \/ TerminatorYield \/ TerminatorReap)
    \/ /\ p \in Task
       /\ \/ \E n \in 1..MaxSleep : SleepCurrent(p, n)
          \/ Wait(p) \/ WaitPostponed(p) \/ WakeOne(p) \/ WakeAll(p)
          \/ Pass(p) \/ Terminate(p) \/ End(p)

Next == Tick \/ \E p \in Proc : Code(p)

Spec == Init /\ [][Next]_vars

Spins(t) == t \in Watch /\ Free(t)

CodeReady(p) ==
    /\ k.current = p
    /\ ~ Spins(p)
    /\ p = Kernel => k.frames[p] > 0 \/ pc[p] = 1

\* The PIT keeps interrupting, and a process that keeps getting the CPU gets on
\* with its code; see Processes.
Fairness ==
    /\ []<>~(TickReady /\ AfterTick # k) \/ []<><<Tick>>_vars
    /\ \A p \in Proc, n \in 0..MaxFrames :
         \/ <>[]~(CodeReady(p) /\ k.frames[p] = n)
         \/ []<><<Code(p) /\ k.frames[p] = n>>_vars

FairSpec == Spec /\ Fairness

-----------------------------------------------------------------------------
(* Properties *)

\* Every variable keeps its type.
TypeOK == k \in State /\ pc \in [Proc -> 1..7]

\* The scheduler's queues stay consistent when a task removes another one from
\* the middle of whatever queue it is in (mp_remove_proc).
SchedulerIntact == QueuesOK(k, <<>>) /\ WaitQueuesOK(k) /\ CurrentOK(k)

\* A task that spins can be interrupted.  Its prelude turns interrupts on only if
\* no other process owes a lock at that moment, and a terminated task leaves its
\* locks behind for good.
SpinnersInterruptible == \A t \in Task : Spins(t) => k.ints

Passed(do, q) ==
    {<<t, i>> \in Task \X (1..6) : i < pc[t] /\ Script(t)[i].do = do /\ Script(t)[i].what = q}
Woken(q) ==
    {t \in Task : k.status[t] # "BLOCKED" /\ \E i \in 1..pc[t] - 1 : Script(t)[i].do \in {"wait", "wait_postponed"}
                                                                    /\ Script(t)[i].what = q}

\* A waiter goes on only when it was woken, and wake_one wakes no more than one:
\* "postponed wait_queue waiter continued before being woken" and "wait_queue
\* wake_one woke more than one waiter" are failures for verify_scheduler_ast.py.
WokenByWake ==
    \A q \in WaitQueue :
        Passed("wake_all", q) = {} => Cardinality(Woken(q)) <= Cardinality(Passed("wake_one", q))

\* A terminated task never runs again, whatever was about to wake or resume it
\* ("watch_2 woke after termination" in verify_scheduler_ast.py).
DeadStayDead ==
    \A p \in Proc : /\ k.status[p] = "READY_TO_DIE" => k'.status[p] \in {"READY_TO_DIE", "FREED"}
                    /\ k.status[p] = "FREED" => k'.status[p] = "FREED"

\* The monitor gets to terminate the tasks that spin, and they are freed: they
\* cannot keep the CPU from it or from the terminator.
WatchesFreed == <>[](\A t \in Watch : k.status[t] = "FREED")
=============================================================================
