----------------------------- MODULE SchedState -----------------------------
(***************************************************************************)
(* The scheduler's data and the functions of src/kernel/mp that change it, *)
(* as operators from one scheduler state to the next.  Modules that model  *)
(* the code which runs on the scheduler compose these operators in the     *)
(* order in which that code makes the calls.                               *)
(*                                                                         *)
(* A state k is a record:                                                  *)
(*   current    g_kernel.current_process, NoProc when the CPU idles        *)
(*   status     proc->status of every process                              *)
(*   ready, sleeping, dying                                                *)
(*              mt.ready_to_run, mt.sleeping, mt.ready_to_die              *)
(*   waitq      every wait_queue_t, by name                                *)
(*   left       ticks until proc->sleep_until (the timestamp itself grows  *)
(*              without bound; only its distance to now matters)           *)
(*   irq        mt.irq_lock_count                                          *)
(*   sw, flag   mt.switch_lock_count and mt.switch_lock_flag               *)
(*   quantum    mt.quantum_remaining # 0 (a tick is longer than a quantum, *)
(*              so a running quantum always expires at the next tick)      *)
(*   ints       the interrupt flag of the CPU is set                       *)
(*   frames     the calls of multitask_switch on every kernel stack that   *)
(*              have not returned to their callers yet                     *)
(*                                                                         *)
(* The queues are sequences here; module ProcQueue shows that the linked   *)
(* lists of proc_queue.c and wait_queue.c implement them.                  *)
(*                                                                         *)
(* There is one CPU and every function below runs with interrupts off, so  *)
(* it is atomic until it switches to another process.  Each real switch is *)
(* made by the outermost of sched_yield and sched_resume, whose only work  *)
(* left is to lower irq_lock_count: frames counts the times a process owes *)
(* that (operator Unwind), and an operator that switches ends there.       *)
(*                                                                         *)
(* A definition Bug... is the definition after it with a plausible mistake *)
(* made in the code; every property is seen to fail for one of them.       *)
(***************************************************************************)
EXTENDS Integers, Sequences, Functions

CONSTANTS
    Proc,       \* process control blocks
    NoProc,     \* the NULL proc_t*
    WaitQueue   \* wait_queue_t objects

ASSUME NoProcAssumption == NoProc \notin Proc

Status == {"UNUSED", "UNINITIALIZED", "RUNNING", "READY_TO_RUN",
           "SLEEPING_TIMER", "BLOCKED", "READY_TO_DIE", "FREED"}

State == [current  : Proc \cup {NoProc},
          status   : [Proc -> Status],
          ready    : Seq(Proc),
          sleeping : Seq(Proc),
          dying    : Seq(Proc),
          waitq    : [WaitQueue -> Seq(Proc)],
          left     : [Proc -> Nat],
          irq      : Nat,
          sw       : Nat,
          flag     : BOOLEAN,
          quantum  : BOOLEAN,
          ints     : BOOLEAN,
          frames   : [Proc -> Nat]]

Dec(n) == IF n > 0 THEN n - 1 ELSE 0

-----------------------------------------------------------------------------
(* The context switch and the locks of scheduler.c *)

\* multitask_switch and switch_to: `next` runs from here on.  The process
\* that is left owes one unwinding.  A process that ran before returns from
\* multitask_switch, whose last instruction is sti; a forked child returns
\* through make_fork_kstack to user mode; an UNINITIALIZED process enters
\* proc_prelude with interrupts still off.
MultitaskSwitch(k, next) ==
    [k EXCEPT !.current = next,
              !.status[next] = IF @ = "UNINITIALIZED" THEN @ ELSE "RUNNING",
              !.ints = (k.status[next] # "UNINITIALIZED"),
              !.frames[k.current] = @ + 1]

\* A process that is still RUNNING is preempted and goes to the ready queue.
Preempted(k) ==
    IF k.status[k.current] = "RUNNING"
    THEN [k EXCEPT !.status[k.current] = "READY_TO_RUN",
                   !.ready = Append(@, k.current)]
    ELSE k

PickNext(k) ==
    MultitaskSwitch([k EXCEPT !.quantum = TRUE, !.ready = Tail(@)],
                    Head(k.ready))

\* What schedule_advance does when no process is ready and the current one
\* cannot go on: the CPU halts with no current process.
Idle(k) == [k EXCEPT !.current = NoProc, !.ints = TRUE]

ScheduleAdvance(k) ==
    IF k.sw > 0 THEN [k EXCEPT !.flag = TRUE]
    ELSE IF k.ready # <<>> THEN PickNext(Preempted(k))
    ELSE IF k.status[k.current] # "RUNNING" THEN Idle(k)
    ELSE k

\* The call of schedule_advance that took a to b came back to its caller.
Returned(a, b) == b.frames = a.frames /\ b.current = a.current

SchedLock(k) == [k EXCEPT !.ints = FALSE, !.irq = @ + 1]

SchedUnlock(k) ==
    [k EXCEPT !.irq = Dec(@), !.ints = @ \/ Dec(k.irq) = 0]

SchedPostpone(k) == [k EXCEPT !.ints = FALSE, !.irq = @ + 1, !.sw = @ + 1]

SchedResume(k) ==
    LET a == [k EXCEPT !.sw = Dec(@)]
        b == IF a.sw = 0 /\ a.flag
             THEN ScheduleAdvance([a EXCEPT !.flag = FALSE])
             ELSE a
    IN  IF Returned(a, b) THEN SchedUnlock(b) ELSE b

SchedYield(k) ==
    LET a == SchedLock(k)
        b == ScheduleAdvance(a)
    IN  IF Returned(a, b) THEN SchedUnlock(b) ELSE b

\* The lock count taken before the switch is not given back after it.
BugUnwind(k) == [k EXCEPT !.frames[k.current] = @ - 1]

\* The current process has been switched back in and finishes the sched_yield
\* or sched_resume it was switched out in.
Unwind(k) == SchedUnlock([k EXCEPT !.frames[k.current] = @ - 1])

\* The lock, schedule_advance, unlock sequence of a function that runs inside
\* a postponed section, where the switch itself is put off to sched_resume.
AdvanceLater(k) == SchedUnlock(ScheduleAdvance(SchedLock(k)))

-----------------------------------------------------------------------------
(* mp_utils.c, sleep.c and wait_queue.c *)

MpBlockProc(k, p, reason) == AdvanceLater([k EXCEPT !.status[p] = reason])

SchedAddProc(k, p) ==
    SchedResume([SchedPostpone(k) EXCEPT !.ready = Append(@, p)])

\* Strictly before instead of before.
BugDuePrefix(k, n) ==
    CHOOSE m \in 0..Len(k.sleeping) :
        /\ \A i \in 1..m : k.left[k.sleeping[i]] < n
        /\ m < Len(k.sleeping) => k.left[k.sleeping[m + 1]] >= n

\* The length of the longest prefix of the sleeping queue that is due within
\* n ticks (proc_queue_find_last_prefix).
DuePrefix(k, n) ==
    CHOOSE m \in 0..Len(k.sleeping) :
        /\ \A i \in 1..m : k.left[k.sleeping[i]] <= n
        /\ m < Len(k.sleeping) => k.left[k.sleeping[m + 1]] > n

\* The sequence s with e behind its first m elements.
InsertBehind(s, m, e) ==
    SubSeq(s, 1, m) \o <<e>> \o SubSeq(s, m + 1, Len(s))

\* sleep_proc_until for the current process: it goes behind every process
\* that is to wake no later than it.
SleepCurrentNs(k, n) ==
    LET a == SchedPostpone(k)
        b == [a EXCEPT !.left[k.current] = n,
                       !.status[k.current] = "SLEEPING_TIMER",
                       !.sleeping = InsertBehind(@, DuePrefix(a, n), k.current)]
    IN  SchedResume(AdvanceLater(b))

\* wake_procs_before_timestamp: the due prefix of the sleeping queue is spliced
\* to the end of the ready queue.
WakeProcsBeforeTimestamp(k) ==
    LET m == DuePrefix(k, 0)
        due == SubSeq(k.sleeping, 1, m)
    IN  [k EXCEPT !.status = [p \in Proc |-> IF p \in Range(due)
                                             THEN "READY_TO_RUN" ELSE @[p]],
                  !.ready = @ \o due,
                  !.sleeping = SubSeq(@, m + 1, Len(@))]

\* The current process is never preempted.
BugTimer(k) ==
    SchedResume(WakeProcsBeforeTimestamp(
        SchedPostpone([k EXCEPT !.left = [p \in Proc |-> Dec(@[p])]])))

\* A tick of the PIT: time advances by one tick for every sleeper, and
\* handle_timer preempts the current process once quanta are being handed out.
HandleTimer(k) ==
    LET a == SchedPostpone([k EXCEPT !.left = [p \in Proc |-> Dec(@[p])]])
        b == WakeProcsBeforeTimestamp(a)
        c == IF b.quantum THEN AdvanceLater(b) ELSE b
    IN  SchedResume(c)

\* wait_queue_sleep_postponed up to the switch; the sched_postpone that follows
\* is the first thing the process does when it runs again.
WaitQueueSleepPostponed(k, q) ==
    SchedResume(MpBlockProc([k EXCEPT !.waitq[q] = Append(@, k.current)],
                            k.current, "BLOCKED"))

WaitQueueSleep(k, q) == WaitQueueSleepPostponed(SchedPostpone(k), q)

\* The waiters are marked ready but are not put into the ready queue.
BugWakeAllLost(k, q) ==
    SchedResume(
        [SchedPostpone(k) EXCEPT
            !.status = [p \in Proc |-> IF p \in Range(k.waitq[q])
                                       THEN "READY_TO_RUN" ELSE @[p]],
            !.waitq[q] = <<>>])

\* Each waiter in turn goes from the wait queue to the ready queue
\* (wait_queue_wake_all calling wake_proc).
WaitQueueWakeAll(k, q) ==
    SchedResume(
        [SchedPostpone(k) EXCEPT
            !.status = [p \in Proc |-> IF p \in Range(k.waitq[q])
                                       THEN "READY_TO_RUN" ELSE @[p]],
            !.ready = @ \o k.waitq[q],
            !.waitq[q] = <<>>])

\* The last waiter is woken instead of the first.
BugWakeOneLast(k, q) ==
    LET a == SchedPostpone(k)
    IN  SchedResume(
            IF k.waitq[q] = <<>> THEN a
            ELSE [a EXCEPT !.status[k.waitq[q][Len(k.waitq[q])]] = "READY_TO_RUN",
                           !.ready = Append(@, k.waitq[q][Len(k.waitq[q])]),
                           !.waitq[q] = SubSeq(@, 1, Len(@) - 1)])

\* wait_queue_wake_one: the same for the first waiter, if there is one.
WaitQueueWakeOne(k, q) ==
    LET a == SchedPostpone(k)
    IN  SchedResume(
            IF k.waitq[q] = <<>> THEN a
            ELSE [a EXCEPT !.status[Head(k.waitq[q])] = "READY_TO_RUN",
                           !.ready = Append(@, Head(k.waitq[q])),
                           !.waitq[q] = Tail(@)])

-----------------------------------------------------------------------------
(* proc_exit *)

\* The queue q without p (proc_queue_remove).
Without(q, p) ==
    IF p \notin Range(q) THEN q
    ELSE LET m == CHOOSE i \in DOMAIN q : q[i] = p
         IN  SubSeq(q, 1, m - 1) \o SubSeq(q, m + 1, Len(q))

\* mp_remove_proc: a process that is not running leaves the queue its status
\* names; a BLOCKED one stays in its wait queue.
MpRemoveProc(k, p) ==
    IF k.status[p] \in {"READY_TO_RUN", "UNINITIALIZED"}
    THEN [k EXCEPT !.ready = Without(@, p)]
    ELSE IF k.status[p] = "SLEEPING_TIMER"
    THEN [k EXCEPT !.sleeping = Without(@, p)]
    ELSE k

\* proc_exit(p) where parentq is {} for a process without a parent, and else
\* holds the pair <<p->exit_waiters, p->parent->child_waiters>>.
ProcExit(k, p, parentq) ==
    LET a == SchedPostpone(k)
        b == IF p # a.current THEN MpRemoveProc(a, p) ELSE a
        c == MpBlockProc([b EXCEPT !.dying = <<p>> \o @], p, "READY_TO_DIE")
        Wake(w) == WaitQueueWakeAll(WaitQueueWakeAll(c, w[1]), w[2])
    IN  IF k.status[p] = "READY_TO_DIE" THEN SchedResume(a)
        ELSE SchedResume(IF parentq = {} THEN c
                         ELSE Wake(CHOOSE w \in parentq : TRUE))

-----------------------------------------------------------------------------
(* Consistency of a scheduler state *)

WithStatus(k, S) == {p \in Proc : k.status[p] \in S}

\* Every queue holds, once each, exactly the processes whose status says they
\* are in it; `aside` are dead processes that the terminator has taken out.
QueuesOK(k, aside) ==
    /\ IsInjective(k.ready)
    /\ IsInjective(k.sleeping)
    /\ IsInjective(k.dying \o aside)
    /\ Range(k.ready) =
         WithStatus(k, {"READY_TO_RUN", "UNINITIALIZED"}) \ {k.current}
    /\ Range(k.sleeping) = WithStatus(k, {"SLEEPING_TIMER"})
    /\ Range(k.dying \o aside) = WithStatus(k, {"READY_TO_DIE"})

\* The same for the wait queues and the BLOCKED processes.
WaitQueuesOK(k) ==
    /\ \A q \in WaitQueue : IsInjective(k.waitq[q])
    /\ \A q, r \in WaitQueue :
         q # r => Range(k.waitq[q]) \cap Range(k.waitq[r]) = {}
    /\ \A p \in Proc : k.status[p] = "BLOCKED" <=>
                        \E q \in WaitQueue : p \in Range(k.waitq[q])

\* There is a process on the CPU and it is the only one marked RUNNING.
CurrentOK(k) ==
    /\ k.current \in Proc
    /\ k.status[k.current] \in {"RUNNING", "UNINITIALIZED"}
    /\ WithStatus(k, {"RUNNING"}) \subseteq {k.current}

\* The unreturned switches on kernel stacks, one by one, when process p has f[p].
Unreturned(f) == UNION {{p} \X (1..f[p]) : p \in Proc}
=============================================================================
