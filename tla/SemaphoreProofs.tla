-------------------------- MODULE SemaphoreProofs ---------------------------
(***************************************************************************)
(* The semaphore hands out its permits exactly, for every number of tasks, *)
(* every limit and every schedule: SemInv is an inductive invariant of     *)
(* Semaphore.  Each action is shown to leave the scheduler sound (Sound)   *)
(* with the lemmas of SchedProofs, and the semaphore's books in order      *)
(* (Books) by counting the owners.                                         *)
(***************************************************************************)
EXTENDS Semaphore, SchedProofs, FiniteSetTheorems

\* The scheduler's half of SemInv.
Sound(j) ==
    /\ Consistent(j, <<>>) /\ CurrentOK(j)
    /\ j.sw = 0 /\ j.flag = FALSE
    /\ j.status[Kernel] \in {"RUNNING", "READY_TO_RUN"}
    /\ j.status[j.current] = "UNINITIALIZED" => j.ints = FALSE

Waiting(j) == {p \in Task : j.status[p] = "BLOCKED"}
Inside(c) == {p \in Task : c[p] = "in"}
Owners(j, c) == Inside(c) \ Waiting(j)

\* The semaphore's half of SemInv, in scheduler state j with l permits taken
\* and the tasks at c.
Books(j, l, c) ==
    /\ c \in [Proc -> {"boot", "hlt", "rest", "out", "in"}]
    /\ l \in 0..Limit
    /\ IsFiniteSet(Owners(j, c)) /\ l = Cardinality(Owners(j, c))
    /\ Range(j.waitq[Waiters]) = Waiting(j)
    /\ Waiting(j) # {} => l = Limit
    /\ Waiting(j) \subseteq Inside(c)
    /\ \A q \in WaitQueue \ {Waiters} : j.waitq[q] = <<>>

LEMMA Parts ==
    SemInv <=> Sound(k) /\ Books(k, locks, pc)
<1>1. Blocked = Waiting(k) /\ Holders = Owners(k, pc)
    BY DEF Blocked, Waiting, Holders, Owners, Inside
<1>2. Range(<<>>) = {} /\ <<>> \in Seq(Proc)
    BY DEF Range
<1>3. ASSUME SemInv PROVE Sound(k)
    BY <1>2, <1>3 DEF SemInv, TypeOK, PermitsExact, SchedulerIntact, Sound, Consistent,
        CurrentOK
<1>4. ASSUME SemInv PROVE Books(k, locks, pc)
    <2>1. locks \in 0..255 /\ locks <= Limit
        BY <1>4 DEF SemInv, TypeOK, PermitsExact, AtMostLimit, LocksCountOwners
    <2>2. locks \in 0..Limit
        BY <2>1, SemAssumption
    <2>3. Waiting(k) \subseteq Inside(pc)
        BY <1>1, <1>4 DEF SemInv, Waiting, Inside
    <2> QED
        BY <1>1, <1>4, <2>2, <2>3
        DEF SemInv, TypeOK, PermitsExact, LocksCountOwners, WaitersQueued, Books
<1>5. ASSUME Sound(k), Books(k, locks, pc) PROVE SemInv
    <2>1. locks \in 0..255 /\ locks <= Limit
        <3>1. locks \in 0..Limit /\ Limit \in 1..255
            BY <1>5, SemAssumption DEF Books
        <3> QED  BY <3>1
    <2>2. TypeOK
        BY <1>5, <2>1 DEF Sound, Consistent, Books, TypeOK
    <2>3. SchedulerIntact
        BY <1>5 DEF Sound, Consistent, SchedulerIntact
    <2>4. AtMostLimit /\ LocksCountOwners /\ WaitersQueued /\ IsFiniteSet(Holders)
        BY <1>1, <1>5, <2>1 DEF Books, AtMostLimit, LocksCountOwners, WaitersQueued
    <2>5. \A p \in Blocked : pc[p] = "in"
        BY <1>1, <1>5 DEF Books, Inside
    <2> QED
        BY <1>5, <2>2, <2>3, <2>4, <2>5 DEF SemInv, PermitsExact, Sound, Books
<1> QED  BY <1>3, <1>4, <1>5

\* A permit goes to the longest waiter (what FirstComeFirstServed says of a step).
InTurn ==
    \A p \in Task :
        p \in Holders' \ Holders /\ k.waitq[Waiters] # <<>>
        => p = Head(k.waitq[Waiters])

\* The books are in order after a step to j, l and c, and permits went in turn.
Kept(j, l, c) ==
    /\ Books(j, l, c)
    /\ \A p \in Owners(j, c) \ Owners(k, pc) :
         k.waitq[Waiters] # <<>> => p = Head(k.waitq[Waiters])

\* What the lemma on each action has to show.
LEMMA PartsNext ==
    Sound(k') /\ Kept(k', locks', pc') => SemInv' /\ InTurn
<1>1. (Sound(k) /\ Books(k, locks, pc))' => SemInv'
    BY Parts, PTL
<1>2. Holders' = Owners(k', pc') /\ Holders = Owners(k, pc)
    BY DEF Holders, Blocked, Owners, Waiting, Inside
<1> QED  BY <1>1, <1>2 DEF Kept, InTurn

-----------------------------------------------------------------------------
(* The scheduler under the calls that are made here *)

\* Whoever runs may be interrupted, and a task that runs finds the boot process
\* ready to take the CPU.
LEMMA Runs ==
    ASSUME Sound(k), k.status[k.current] = "RUNNING"
    PROVE  Steady(k, <<>>) /\ (k.current # Kernel => Calling(k, <<>>))
<1>1. Steady(k, <<>>)
    BY DEF Sound, Steady, CurrentOK
<1>2. ASSUME k.current # Kernel PROVE k.ready # <<>>
    <2>1. k.status[Kernel] = "READY_TO_RUN"
        BY <1>2, SemAssumption DEF Sound, CurrentOK, WithStatus
    <2>2. Kernel \in Range(k.ready)
        BY <1>2, <2>1, SemAssumption DEF Sound, Consistent, QueuesOK, WithStatus
    <2> QED  BY <2>2 DEF Range
<1> QED  BY <1>1, <1>2, CallingSteady

\* A call that came back to its caller.
LEMMA StaysSound ==
    ASSUME Sound(k), NEW j, Steady(j, <<>>),
           j.status[Kernel] \in {"RUNNING", "READY_TO_RUN"}
    PROVE  Sound(j)
BY DEF Sound, Steady, CurrentOK, Consistent

\* A call that gave the CPU to somebody else.
LEMMA LeavesSound ==
    ASSUME Sound(k), k.current # Kernel, NEW j, NEW reason, GaveUp(k, j, <<>>, reason)
    PROVE  Sound(j)
<1>1. j.status[Kernel] \in {"RUNNING", "READY_TO_RUN"}
    BY SemAssumption DEF Sound, GaveUp
<1>2. Consistent(j, <<>>) /\ CurrentOK(j) /\ j.sw = 0 /\ j.flag = FALSE
      /\ j.ints = (j.status[j.current] # "UNINITIALIZED")
    BY DEF GaveUp
<1> QED  BY <1>1, <1>2 DEF Sound

\* A postponed section in which nothing asks for a switch.
LEMMA ShortSection ==
    ASSUME NEW w, Steady(k, w)
    PROVE  /\ Steady(SchedResume(SchedPostpone(k)), w)
           /\ SameQueues(k, SchedResume(SchedPostpone(k)))
<1> DEFINE a == SchedPostpone(k)
           j == SchedResume(a)
<1>1. k \in State /\ k.sw = 0 /\ k.flag = FALSE
    BY DEF Steady, Consistent
<1>2. a \in State /\ SameQueues(k, a) /\ a.sw = 1 /\ a.flag = FALSE
    BY <1>1, PostponeEffect
<1> HIDE DEF a
<1>3. j \in State /\ SameQueues(a, j) /\ j.sw = 0 /\ j.flag = FALSE
    <2>1. j \in State /\ SameQueues(a, j) /\ j.sw = Dec(a.sw) /\ j.flag = FALSE
        BY <1>2, ResumeReturn
    <2>2. Dec(1) = 0
        BY DEF Dec
    <2> QED  BY <1>2, <2>1, <2>2
<1> HIDE DEF j
<1>4. SameQueues(k, j)
    BY <1>2, <1>3 DEF SameQueues
<1>5. Consistent(j, w)
    BY <1>3, <1>4, Frame DEF Steady
<1>6. Steady(j, w)
    BY <1>3, <1>4, <1>5 DEF Steady, SameQueues, WithStatus
<1> QED  BY <1>4, <1>6 DEF a, j

\* The same with a second section inside (semaphore_try_lock).
LEMMA NestedSection ==
    ASSUME NEW w, Steady(k, w)
    PROVE  /\ Steady(SchedResume(SchedResume(SchedPostpone(SchedPostpone(k)))), w)
           /\ SameQueues(k, SchedResume(SchedResume(SchedPostpone(SchedPostpone(k)))))
<1> DEFINE a == SchedPostpone(k)
           b == SchedPostpone(a)
           c == SchedResume(b)
           j == SchedResume(c)
<1>1. k \in State /\ k.sw = 0 /\ k.flag = FALSE
    BY DEF Steady, Consistent
<1>2. a \in State /\ SameQueues(k, a) /\ a.sw = 1 /\ a.flag = FALSE
    BY <1>1, PostponeEffect
<1> HIDE DEF a
<1>3. b \in State /\ SameQueues(a, b) /\ b.sw = 2 /\ b.flag = FALSE
    BY <1>2, PostponeEffect
<1> HIDE DEF b
<1>4. c \in State /\ SameQueues(b, c) /\ c.sw = 1 /\ c.flag = FALSE
    <2>1. c \in State /\ SameQueues(b, c) /\ c.sw = Dec(b.sw) /\ c.flag = FALSE
        BY <1>3, ResumeReturn
    <2>2. Dec(2) = 1
        BY DEF Dec
    <2> QED  BY <1>3, <2>1, <2>2
<1> HIDE DEF c
<1>5. j \in State /\ SameQueues(c, j) /\ j.sw = 0 /\ j.flag = FALSE
    <2>1. j \in State /\ SameQueues(c, j) /\ j.sw = Dec(c.sw) /\ j.flag = FALSE
        BY <1>4, ResumeReturn
    <2>2. Dec(1) = 0
        BY DEF Dec
    <2> QED  BY <1>4, <2>1, <2>2
<1> HIDE DEF j
<1>6. SameQueues(k, j)
    BY <1>2, <1>3, <1>4, <1>5 DEF SameQueues
<1>7. Consistent(j, w)
    BY <1>5, <1>6, Frame DEF Steady
<1>8. Steady(j, w)
    BY <1>5, <1>6, <1>7 DEF Steady, SameQueues, WithStatus
<1> QED  BY <1>6, <1>8 DEF a, b, c, j

-----------------------------------------------------------------------------
(* The steps that leave the semaphore alone *)

\* Nobody enters, leaves or is moved between the semaphore's queues.
LEMMA SameBooks ==
    ASSUME Books(k, locks, pc), NEW j, NEW c, j.waitq = k.waitq,
           \A p \in Task : j.status[p] = "BLOCKED" <=> k.status[p] = "BLOCKED",
           c \in [Proc -> {"boot", "hlt", "rest", "out", "in"}], Inside(c) = Inside(pc)
    PROVE  Kept(j, locks, c)
<1>1. Waiting(j) = Waiting(k)
    BY DEF Waiting
<1>2. Owners(j, c) = Owners(k, pc)
    BY <1>1 DEF Owners
<1> QED  BY <1>1, <1>2 DEF Books, Kept

\* The timer interrupt.
LEMMA TickInv ==
    ASSUME SemInv, Tick
    PROVE  SemInv' /\ InTurn
<1> DEFINE e == [k EXCEPT !.ints = FALSE]
           s == HandleTimer(e)
<1>1. Sound(k) /\ Books(k, locks, pc)
    BY Parts
<1>2. k.ints /\ k.status[k.current] = "RUNNING" /\ k \in State
    BY <1>1 DEF Tick, TickReady, Sound, CurrentOK, Consistent
<1>3. e \in State /\ SameQueues(k, e) /\ e.frames = k.frames /\ e.sw = 0 /\ e.flag = FALSE
    BY <1>1, <1>2 DEF State, SameQueues, Sound
<1>4. k' = IF Returned(k, s) THEN [s EXCEPT !.ints = TRUE] ELSE s
    BY DEF Tick, AfterTick
<1> HIDE DEF e
<1>5. Steady(e, <<>>)
    <2>1. Consistent(e, <<>>)
        BY <1>1, <1>3, Frame DEF Sound
    <2> QED  BY <1>1, <1>2, <1>3, <2>1 DEF Steady, SameQueues, Sound, CurrentOK, WithStatus
<1>6. Ticked(e, s, <<>>)
    BY <1>5, TimerOK
<1> HIDE DEF s
<1>7. s \in State /\ s.status[Kernel] \in {"RUNNING", "READY_TO_RUN"}
    BY <1>1, <1>3, <1>6, SemAssumption DEF Ticked, SameQueues, Consistent, Sound
<1>8. /\ k' \in State /\ SameQueues(s, k') /\ k'.sw = 0 /\ k'.flag = FALSE
      /\ k'.status[k'.current] = "UNINITIALIZED" => k'.ints = FALSE
    <2>1. CASE Returned(k, s)
        <3>1. s.status[s.current] = "RUNNING"
            BY <1>3, <1>6, <2>1 DEF Ticked, SameQueues, Returned
        <3>2. k' \in State /\ SameQueues(s, k') /\ k'.sw = s.sw /\ k'.flag = s.flag
            BY <1>4, <1>7, <2>1 DEF State, SameQueues
        <3> QED  BY <1>6, <3>1, <3>2 DEF Ticked, SameQueues
    <2>2. CASE ~Returned(k, s)
        <3>1. s.ints = (s.status[s.current] # "UNINITIALIZED")
            BY <1>3, <1>6, <2>2 DEF Ticked, SameQueues, Returned
        <3> QED  BY <1>4, <1>6, <1>7, <2>2, <3>1 DEF Ticked, SameQueues
    <2> QED  BY <2>1, <2>2
<1>9. Consistent(k', <<>>) /\ CurrentOK(k')
    <2>1. Consistent(k', <<>>)
        BY <1>6, <1>8, Frame DEF Ticked
    <2> QED  BY <1>6, <1>8, <2>1 DEF Ticked, CurrentOK, SameQueues, WithStatus
<1>10. Sound(k')
    BY <1>7, <1>8, <1>9 DEF Sound, SameQueues
<1>11. /\ k'.waitq = k.waitq
       /\ \A p \in Task : k'.status[p] = "BLOCKED" <=> k.status[p] = "BLOCKED"
    BY <1>3, <1>6, <1>8 DEF Ticked, SameQueues, Task
<1>12. Kept(k', locks, pc)
    BY <1>1, <1>11, SameBooks DEF Books
<1> QED  BY <1>10, <1>12, PartsNext DEF Tick

\* The tail of a call that was switched out.
LEMMA UnwindInv ==
    ASSUME SemInv, NEW p \in Proc, UnwindStep(p)
    PROVE  SemInv' /\ InTurn
<1> DEFINE a == [k EXCEPT !.frames[k.current] = @ - 1]
<1>1. Sound(k) /\ Books(k, locks, pc)
    BY Parts
<1>2. /\ k.current = p /\ k.status[p] = "RUNNING" /\ k.frames[p] > 0
      /\ UNCHANGED <<locks, pc>> /\ k' = SchedUnlock(a) /\ k \in State
    BY <1>1 DEF UnwindStep, Running, Unwind, Sound, Consistent
<1>3. a \in State /\ SameQueues(k, a) /\ a.sw = 0 /\ a.flag = FALSE
    <2>1. k.frames \in [Proc -> Nat]
        BY <1>2 DEF State
    <2>2. k.frames[p] - 1 \in Nat
        BY <1>2, <2>1
    <2>3. [k.frames EXCEPT ![p] = @ - 1] \in [Proc -> Nat]
        BY <2>1, <2>2
    <2> QED  BY <1>1, <1>2, <2>3 DEF State, SameQueues, Sound
<1> HIDE DEF a
<1>4. k' \in State /\ SameQueues(a, k')
    BY <1>2, <1>3, LockTypes
<1>5. k'.sw = 0 /\ k'.flag = FALSE
    BY <1>2, <1>3 DEF SchedUnlock, State
<1>6. SameQueues(k, k')
    BY <1>3, <1>4 DEF SameQueues
<1>7. Consistent(k', <<>>)
    BY <1>1, <1>4, <1>6, Frame DEF Sound
<1>8. Sound(k')
    BY <1>1, <1>2, <1>5, <1>6, <1>7 DEF Sound, SameQueues, CurrentOK, WithStatus
<1>9. Kept(k', locks, pc)
    BY <1>1, <1>6, SameBooks DEF Books, SameQueues
<1> QED  BY <1>2, <1>8, <1>9, PartsNext

\* The first steps of a new task.
LEMMA PreludeInv ==
    ASSUME SemInv, NEW p \in Proc, Prelude(p)
    PROVE  SemInv' /\ InTurn
<1> DEFINE a == [k EXCEPT !.status[p] = "RUNNING"]
<1>1. Sound(k) /\ Books(k, locks, pc)
    BY Parts
<1>2. /\ k.current = p /\ k.status[p] = "UNINITIALIZED" /\ p # Kernel
      /\ UNCHANGED <<locks, pc>> /\ k' = SchedUnlock(a) /\ k \in State
      /\ k.status \in [Proc -> Status]
    BY <1>1 DEF Prelude, Sound, Consistent, State
<1>3. /\ a \in State /\ a.sw = 0 /\ a.flag = FALSE /\ a.current = p
      /\ a.ready = k.ready /\ a.sleeping = k.sleeping /\ a.dying = k.dying
      /\ a.waitq = k.waitq
      /\ a.status = [k.status EXCEPT ![p] = "RUNNING"]
    <2>1. [k.status EXCEPT ![p] = "RUNNING"] \in [Proc -> Status]
        BY <1>2 DEF Status
    <2> QED  BY <1>1, <1>2, <2>1 DEF State, Sound
<1> HIDE DEF a
<1>4. a.status[p] = "RUNNING" /\ \A q \in Proc \ {p} : a.status[q] = k.status[q]
    BY <1>2, <1>3
<1>5. /\ WithStatus(a, {"READY_TO_RUN", "UNINITIALIZED"}) \ {p}
           = WithStatus(k, {"READY_TO_RUN", "UNINITIALIZED"}) \ {p}
      /\ WithStatus(a, {"SLEEPING_TIMER"}) = WithStatus(k, {"SLEEPING_TIMER"})
      /\ WithStatus(a, {"READY_TO_DIE"}) = WithStatus(k, {"READY_TO_DIE"})
      /\ \A q \in Proc : a.status[q] = "BLOCKED" <=> k.status[q] = "BLOCKED"
    BY <1>2, <1>4 DEF WithStatus
<1>6. Consistent(a, <<>>)
    BY <1>1, <1>2, <1>3, <1>5 DEF Sound, Consistent, QueuesOK, WaitQueuesOK
<1>7. CurrentOK(a)
    BY <1>1, <1>2, <1>3, <1>4 DEF CurrentOK, Sound, WithStatus
<1>8. k' \in State /\ SameQueues(a, k')
    BY <1>2, <1>3, LockTypes
<1>9. k'.sw = 0 /\ k'.flag = FALSE
    BY <1>2, <1>3 DEF SchedUnlock, State
<1>10. Consistent(k', <<>>)
    BY <1>6, <1>8, Frame
<1>11. CurrentOK(k') /\ k'.current = p /\ k'.status[p] = "RUNNING"
    BY <1>3, <1>4, <1>7, <1>8 DEF CurrentOK, SameQueues, WithStatus
<1>12. k'.status[Kernel] \in {"RUNNING", "READY_TO_RUN"}
    BY <1>1, <1>2, <1>4, <1>8, SemAssumption DEF Sound, SameQueues
<1>13. Sound(k')
    BY <1>9, <1>10, <1>11, <1>12 DEF Sound
<1>14. /\ k'.waitq = k.waitq
       /\ \A t \in Task : k'.status[t] = "BLOCKED" <=> k.status[t] = "BLOCKED"
    BY <1>3, <1>5, <1>8 DEF SameQueues, Task
<1>15. Kept(k', locks, pc)
    BY <1>1, <1>14, SameBooks DEF Books
<1> QED  BY <1>2, <1>13, <1>15, PartsNext

\* ast_scheduler_add.
LEMMA AddInv ==
    ASSUME SemInv, NEW p \in Task, AddTask(p)
    PROVE  SemInv' /\ InTurn
<1>1. Sound(k) /\ Books(k, locks, pc)
    BY Parts
<1>2. /\ p \in Proc /\ p # Kernel /\ k.status[p] = "UNUSED"
      /\ k.status[k.current] = "RUNNING" /\ UNCHANGED <<locks, pc>>
      /\ k' = SchedAddProc([k EXCEPT !.status[p] = "UNINITIALIZED"], p)
    BY DEF AddTask, At, Running, Task
<1>3. Steady(k, <<>>)
    BY <1>1, <1>2, Runs
<1>4. /\ Steady(k', <<>>) /\ k'.waitq = k.waitq
      /\ k'.status = [k.status EXCEPT ![p] = "UNINITIALIZED"]
    BY <1>2, <1>3, AddOK
<1>5. k.status \in [Proc -> Status]
    BY <1>3 DEF Steady, Consistent, State
<1>6. /\ k'.status[Kernel] = k.status[Kernel]
      /\ \A t \in Task : k'.status[t] = "BLOCKED" <=> k.status[t] = "BLOCKED"
    BY <1>2, <1>4, <1>5, SemAssumption DEF Task
<1>7. k'.status[Kernel] \in {"RUNNING", "READY_TO_RUN"}
    BY <1>1, <1>6 DEF Sound
<1>8. Sound(k')
    BY <1>1, <1>4, <1>7, StaysSound
<1>9. Kept(k', locks, pc)
    BY <1>1, <1>4, <1>6, SameBooks DEF Books
<1> QED  BY <1>2, <1>8, <1>9, PartsNext

\* The end of kernel_main: a switch, unless no task was added.
LEMMA YieldInv ==
    ASSUME SemInv, KernelYield
    PROVE  SemInv' /\ InTurn
<1>1. Sound(k) /\ Books(k, locks, pc)
    BY Parts
<1>2. /\ k.current = Kernel /\ k.status[k.current] = "RUNNING" /\ UNCHANGED locks
      /\ k' = SchedYield(k) /\ pc' = [pc EXCEPT ![Kernel] = "hlt"]
    BY DEF KernelYield, At, Running, Goto
<1>3. Steady(k, <<>>)
    BY <1>1, <1>2, Runs
<1>4. /\ Sound(k') /\ k'.waitq = k.waitq
      /\ \A t \in Task : k'.status[t] = "BLOCKED" <=> k.status[t] = "BLOCKED"
    <2>1. CASE k.ready # <<>>
        <3>1. MaySwitch(k, <<>>) /\ k.sw = 0 /\ k.flag = FALSE
            BY <1>3, <2>1, CallingSteady DEF Calling
        <3>2. SwitchedAway(k, k', <<>>)
            BY <1>2, <3>1, YieldOK
        <3>3. Quiet(k, k') /\ k'.waitq = k.waitq
            BY <3>2 DEF SwitchedAway
        <3>4. k'.status[Kernel] \in {"RUNNING", "READY_TO_RUN"}
            BY <1>1, <3>3, SemAssumption DEF Sound, Quiet
        <3>5. Sound(k')
            BY <3>2, <3>4 DEF SwitchedAway, Sound
        <3> QED  BY <3>3, <3>5 DEF Quiet, Task
    <2>2. CASE k.ready = <<>>
        <3>1. k \in State /\ k.sw = 0 /\ k.flag = FALSE
            BY <1>3 DEF Steady, Consistent
        <3>2. k' \in State /\ SameQueues(k, k') /\ k'.sw = 0 /\ k'.flag = k.flag
            BY <1>2, <2>2, <3>1, YieldStay
        <3>3. Consistent(k', <<>>)
            BY <1>3, <3>2, Frame DEF Steady
        <3>4. Steady(k', <<>>)
            BY <1>3, <3>1, <3>2, <3>3 DEF Steady, SameQueues, WithStatus
        <3>5. k'.status[Kernel] \in {"RUNNING", "READY_TO_RUN"}
            BY <1>1, <3>2 DEF Sound, SameQueues
        <3>6. Sound(k')
            BY <1>1, <3>4, <3>5, StaysSound
        <3> QED  BY <3>2, <3>6 DEF SameQueues
    <2> QED  BY <2>1, <2>2
<1>5. /\ pc' \in [Proc -> {"boot", "hlt", "rest", "out", "in"}]
      /\ Inside(pc') = Inside(pc)
    BY <1>1, <1>2, SemAssumption DEF Books, Inside, Task
<1>6. Kept(k', locks, pc')
    BY <1>1, <1>4, <1>5, SameBooks
<1> QED  BY <1>2, <1>4, <1>6, PartsNext

\* sleep_current, with or without a permit.
LEMMA SleepInv ==
    ASSUME SemInv, NEW p \in Task, NEW n \in 0..MaxSleep, Sleep(p, n)
    PROVE  SemInv' /\ InTurn
<1>1. Sound(k) /\ Books(k, locks, pc)
    BY Parts
<1>2. /\ p \in Proc /\ p # Kernel /\ n \in Nat /\ UNCHANGED locks
      /\ k.current = p /\ k.status[k.current] = "RUNNING"
      /\ k' = SleepCurrentNs(k, n)
    BY SemAssumption DEF Sleep, At, Running, Task
<1>3. Calling(k, <<>>)
    BY <1>1, <1>2, Runs
<1>4. GaveUp(k, k', <<>>, "SLEEPING_TIMER") /\ k'.waitq = k.waitq
    BY <1>2, <1>3, SleepOK
<1>5. Sound(k')
    BY <1>1, <1>2, <1>4, LeavesSound
<1>6. \A t \in Task : k'.status[t] = "BLOCKED" <=> k.status[t] = "BLOCKED"
    BY <1>2, <1>4 DEF GaveUp, Task
<1>7. pc \in [Proc -> {"boot", "hlt", "rest", "out", "in"}]
    BY <1>1 DEF Books
<1>8. /\ pc' \in [Proc -> {"boot", "hlt", "rest", "out", "in"}]
      /\ Inside(pc') = Inside(pc)
    <2>1. CASE pc' = pc
        BY <1>7, <2>1
    <2>2. CASE pc[p] = "rest" /\ pc' = [pc EXCEPT ![p] = "out"]
        BY <1>2, <1>7, <2>2 DEF Inside, Task
    <2> QED  BY <2>1, <2>2 DEF Sleep, At, Goto
<1>9. Kept(k', locks, pc')
    BY <1>1, <1>4, <1>6, <1>8, SameBooks
<1> QED  BY <1>2, <1>5, <1>9, PartsNext

-----------------------------------------------------------------------------
(* semaphore_lock and semaphore_try_lock *)

\* An empty queue is one nobody is in.
LEMMA NobodyWaits ==
    ASSUME Sound(k), Books(k, locks, pc)
    PROVE  /\ k.waitq \in [WaitQueue -> Seq(Proc)] /\ k.waitq[Waiters] \in Seq(Proc)
           /\ k.waitq[Waiters] = <<>> <=> Waiting(k) = {}
<1>1. k.waitq \in [WaitQueue -> Seq(Proc)]
    BY DEF Sound, Consistent, State
<1>2. k.waitq[Waiters] \in Seq(Proc)
    BY <1>1, SemAssumption
<1>3. Range(k.waitq[Waiters]) = Waiting(k)
    BY DEF Books
<1>4. ASSUME k.waitq[Waiters] = <<>> PROVE Waiting(k) = {}
    BY <1>3, <1>4 DEF Range
<1>5. ASSUME k.waitq[Waiters] # <<>> PROVE Waiting(k) # {}
    <2>1. Head(k.waitq[Waiters]) \in Range(k.waitq[Waiters])
        BY <1>2, <1>5, PopHead
    <2> QED  BY <1>3, <2>1
<1> QED  BY <1>1, <1>2, <1>4, <1>5

\* A free permit goes to the caller.
LEMMA GrantBooks ==
    ASSUME Sound(k), Books(k, locks, pc), NEW p \in Task, pc[p] = "out", locks < Limit,
           NEW j, j.waitq = k.waitq, j.status = k.status
    PROVE  Kept(j, locks + 1, [pc EXCEPT ![p] = "in"])
<1> DEFINE c == [pc EXCEPT ![p] = "in"]
<1>1. /\ pc \in [Proc -> {"boot", "hlt", "rest", "out", "in"}] /\ locks \in 0..Limit
      /\ p \in Proc /\ Limit \in 1..255
    BY SemAssumption DEF Books, Task
<1>2. Waiting(k) = {} /\ Waiting(j) = {}
    <2>1. locks # Limit
        BY <1>1
    <2>2. Waiting(k) = {}
        BY <2>1 DEF Books
    <2> QED  BY <2>2 DEF Waiting
<1>3. k.waitq[Waiters] = <<>>
    BY <1>2, NobodyWaits
<1>4. /\ c \in [Proc -> {"boot", "hlt", "rest", "out", "in"}]
      /\ Inside(c) = Inside(pc) \cup {p} /\ p \notin Inside(pc)
    BY <1>1 DEF Inside, Task
<1> HIDE DEF c
<1>5. Owners(j, c) = Owners(k, pc) \cup {p} /\ p \notin Owners(k, pc)
    BY <1>2, <1>4 DEF Owners
<1>6. IsFiniteSet(Owners(k, pc)) /\ locks = Cardinality(Owners(k, pc))
    BY DEF Books
<1>7. /\ IsFiniteSet(Owners(k, pc) \cup {p})
      /\ Cardinality(Owners(k, pc) \cup {p}) = Cardinality(Owners(k, pc)) + 1
    BY <1>5, <1>6, FS_AddElement
<1>8. locks + 1 \in 0..Limit
    BY <1>1
<1>9. IsFiniteSet(Owners(j, c)) /\ locks + 1 = Cardinality(Owners(j, c))
    BY <1>5, <1>6, <1>7
<1>10. Range(j.waitq[Waiters]) = Waiting(j)
    BY <1>2 DEF Books
<1>11. Books(j, locks + 1, c)
    BY <1>2, <1>4, <1>8, <1>9, <1>10 DEF Books
<1> QED  BY <1>3, <1>11 DEF Kept, c

\* With all permits taken the caller queues up behind the other waiters.
LEMMA QueueBooks ==
    ASSUME Sound(k), Books(k, locks, pc), NEW p \in Task, pc[p] = "out",
           ~(locks < Limit), k.current = p, k.status[p] = "RUNNING",
           NEW j, GaveUp(k, j, <<>>, "BLOCKED"), Queued(k, j, Waiters)
    PROVE  Kept(j, locks, [pc EXCEPT ![p] = "in"])
<1> DEFINE c == [pc EXCEPT ![p] = "in"]
<1>1. /\ pc \in [Proc -> {"boot", "hlt", "rest", "out", "in"}] /\ locks \in 0..Limit
      /\ p \in Proc /\ Limit \in 1..255
    BY SemAssumption DEF Books, Task
<1>2. locks = Limit
    BY <1>1
<1>3. Waiting(j) = Waiting(k) \cup {p}
    BY DEF Waiting, GaveUp, Task
<1>4. /\ c \in [Proc -> {"boot", "hlt", "rest", "out", "in"}]
      /\ Inside(c) = Inside(pc) \cup {p} /\ p \notin Inside(pc)
    BY <1>1 DEF Inside, Task
<1> HIDE DEF c
<1>5. Owners(j, c) = Owners(k, pc)
    BY <1>3, <1>4 DEF Owners
<1>6. k.waitq \in [WaitQueue -> Seq(Proc)] /\ k.waitq[Waiters] \in Seq(Proc)
    BY NobodyWaits
<1>7. /\ j.waitq[Waiters] = Append(k.waitq[Waiters], p)
      /\ \A q \in WaitQueue \ {Waiters} : j.waitq[q] = k.waitq[q]
    BY <1>6, SemAssumption DEF Queued
<1>8. Range(Append(k.waitq[Waiters], p)) = Range(k.waitq[Waiters]) \cup {p}
    BY <1>1, <1>6, PushTail
<1>9. Range(j.waitq[Waiters]) = Waiting(j)
    BY <1>3, <1>7, <1>8 DEF Books
<1>10. Waiting(j) \subseteq Inside(c)
    BY <1>3, <1>4 DEF Books
<1>11. Books(j, locks, c)
    BY <1>1, <1>2, <1>4, <1>5, <1>7, <1>9, <1>10 DEF Books
<1> QED  BY <1>5, <1>11 DEF Kept, c

\* What the running task may rely on when it makes a call.
LEMMA TaskCalls ==
    ASSUME SemInv, NEW p \in Task, NEW at, At(p, at)
    PROVE  /\ Sound(k) /\ Books(k, locks, pc) /\ pc[p] = at
           /\ k.current = p /\ k.status[p] = "RUNNING" /\ p # Kernel /\ p \in Proc
           /\ Steady(k, <<>>) /\ Calling(k, <<>>)
<1>1. Sound(k) /\ Books(k, locks, pc)
    BY Parts
<1>2. /\ pc[p] = at /\ k.current = p /\ k.status[p] = "RUNNING" /\ p # Kernel
      /\ p \in Proc
    BY DEF At, Running, Task
<1> QED  BY <1>1, <1>2, Runs

\* A call that returned and left the queues as they were.
LEMMA ReturnsSound ==
    ASSUME Sound(k), NEW j, Steady(j, <<>>), SameQueues(k, j)
    PROVE  Sound(j) /\ j.waitq = k.waitq /\ j.status = k.status
BY StaysSound DEF SameQueues, Sound

\* semaphore_lock.
LEMMA LockInv ==
    ASSUME SemInv, NEW p \in Task, Lock(p)
    PROVE  SemInv' /\ InTurn
<1>1. At(p, "out") /\ k' = SemaphoreLock(k) /\ locks' = Locked
      /\ pc' = [pc EXCEPT ![p] = "in"]
    BY DEF Lock, Goto
<1>2. /\ Sound(k) /\ Books(k, locks, pc) /\ pc[p] = "out"
      /\ k.current = p /\ k.status[p] = "RUNNING" /\ p # Kernel /\ p \in Proc
      /\ Steady(k, <<>>) /\ Calling(k, <<>>)
    BY <1>1, TaskCalls
<1>3. CASE locks < Limit
    <2>1. k' = SchedResume(SchedPostpone(k)) /\ locks' = locks + 1
        BY <1>1, <1>3 DEF SemaphoreLock, Locked
    <2>2. Steady(k', <<>>) /\ SameQueues(k, k')
        BY <1>2, <2>1, ShortSection
    <2>3. Sound(k') /\ k'.waitq = k.waitq /\ k'.status = k.status
        BY <1>2, <2>2, ReturnsSound
    <2>4. Kept(k', locks + 1, [pc EXCEPT ![p] = "in"])
        BY <1>2, <1>3, <2>3, GrantBooks
    <2> QED  BY <1>1, <2>1, <2>3, <2>4, PartsNext
<1>4. CASE ~(locks < Limit)
    <2>1. k' = SchedResume(WaitQueueSleep(SchedPostpone(k), Waiters)) /\ locks' = locks
        BY <1>1, <1>4 DEF SemaphoreLock, Locked
    <2>2. Waiters \in WaitQueue
        BY SemAssumption
    <2>3. GaveUp(k, k', <<>>, "BLOCKED") /\ Queued(k, k', Waiters)
        BY <1>2, <2>1, <2>2, BlockNested
    <2>4. Sound(k')
        BY <1>2, <2>3, LeavesSound
    <2>5. Kept(k', locks, [pc EXCEPT ![p] = "in"])
        BY <1>2, <1>4, <2>3, QueueBooks
    <2> QED  BY <1>1, <2>1, <2>4, <2>5, PartsNext
<1> QED  BY <1>3, <1>4

\* semaphore_try_lock.
LEMMA TryLockInv ==
    ASSUME SemInv, NEW p \in Task, TryLock(p)
    PROVE  SemInv' /\ InTurn
<1>1. At(p, "out") /\ locks' = Locked
      /\ pc' = [pc EXCEPT ![p] = IF locks < Limit THEN "in" ELSE "rest"]
      /\ k' = SchedResume(IF locks < Limit THEN SemaphoreLock(SchedPostpone(k))
                          ELSE SchedPostpone(k))
    BY DEF TryLock, Goto
<1>2. /\ Sound(k) /\ Books(k, locks, pc) /\ pc[p] = "out"
      /\ k.current = p /\ k.status[p] = "RUNNING" /\ p # Kernel /\ p \in Proc
      /\ Steady(k, <<>>) /\ Calling(k, <<>>)
    BY <1>1, TaskCalls
<1>3. CASE locks < Limit
    <2>1. /\ k' = SchedResume(SchedResume(SchedPostpone(SchedPostpone(k))))
          /\ locks' = locks + 1 /\ pc' = [pc EXCEPT ![p] = "in"]
        BY <1>1, <1>3 DEF SemaphoreLock, Locked
    <2>2. Steady(k', <<>>) /\ SameQueues(k, k')
        BY <1>2, <2>1, NestedSection
    <2>3. Sound(k') /\ k'.waitq = k.waitq /\ k'.status = k.status
        BY <1>2, <2>2, ReturnsSound
    <2>4. Kept(k', locks + 1, [pc EXCEPT ![p] = "in"])
        BY <1>2, <1>3, <2>3, GrantBooks
    <2> QED  BY <2>1, <2>3, <2>4, PartsNext
<1>4. CASE ~(locks < Limit)
    <2>1. /\ k' = SchedResume(SchedPostpone(k))
          /\ locks' = locks /\ pc' = [pc EXCEPT ![p] = "rest"]
        BY <1>1, <1>4 DEF Locked
    <2>2. Steady(k', <<>>) /\ SameQueues(k, k')
        BY <1>2, <2>1, ShortSection
    <2>3. Sound(k') /\ k'.waitq = k.waitq /\ k'.status = k.status
        BY <1>2, <2>2, ReturnsSound
    <2>4. pc \in [Proc -> {"boot", "hlt", "rest", "out", "in"}]
        BY <1>2 DEF Books
    <2>5. /\ pc' \in [Proc -> {"boot", "hlt", "rest", "out", "in"}]
          /\ Inside(pc') = Inside(pc)
        BY <1>2, <2>1, <2>4 DEF Inside, Task
    <2>6. Kept(k', locks, pc')
        BY <1>2, <2>3, <2>5, SameBooks
    <2> QED  BY <2>1, <2>3, <2>6, PartsNext
<1> QED  BY <1>3, <1>4

-----------------------------------------------------------------------------
(* semaphore_unlock *)

\* current_locks is a uint8_t, which a count within limit fits.
LEMMA NoWrap ==
    ASSUME NEW n \in 0..255 PROVE n % 256 = n
OBVIOUS

\* A returned permit nobody waits for goes back to the semaphore.
LEMMA ReturnBooks ==
    ASSUME Sound(k), Books(k, locks, pc), NEW p \in Task, pc[p] = "in",
           k.status[p] = "RUNNING", k.waitq[Waiters] = <<>>,
           NEW j, j.waitq = k.waitq, j.status = k.status
    PROVE  Kept(j, (locks - 1) % 256, [pc EXCEPT ![p] = "rest"])
<1> DEFINE c == [pc EXCEPT ![p] = "rest"]
<1>1. /\ pc \in [Proc -> {"boot", "hlt", "rest", "out", "in"}] /\ locks \in 0..Limit
      /\ p \in Proc /\ Limit \in 1..255
    BY SemAssumption DEF Books, Task
<1>2. Waiting(k) = {} /\ Waiting(j) = {}
    <2>1. Waiting(k) = {}
        BY NobodyWaits
    <2> QED  BY <2>1 DEF Waiting
<1>3. /\ c \in [Proc -> {"boot", "hlt", "rest", "out", "in"}]
      /\ Inside(c) = Inside(pc) \ {p} /\ p \in Inside(pc)
    BY <1>1 DEF Inside, Task
<1> HIDE DEF c
<1>4. Owners(j, c) = Owners(k, pc) \ {p} /\ p \in Owners(k, pc)
    BY <1>2, <1>3 DEF Owners
<1>5. IsFiniteSet(Owners(k, pc)) /\ locks = Cardinality(Owners(k, pc))
    BY DEF Books
<1>6. /\ IsFiniteSet(Owners(k, pc) \ {p})
      /\ Cardinality(Owners(k, pc) \ {p}) = Cardinality(Owners(k, pc)) - 1
    BY <1>4, <1>5, FS_RemoveElement
<1>7. Cardinality(Owners(k, pc) \ {p}) \in Nat
    BY <1>6, FS_CardinalityType
<1>8. IsFiniteSet(Owners(j, c)) /\ locks - 1 = Cardinality(Owners(j, c)) /\ locks - 1 \in Nat
    BY <1>4, <1>5, <1>6, <1>7
<1>9. (locks - 1) % 256 = locks - 1 /\ locks - 1 \in 0..Limit
    <2>1. locks - 1 \in 0..255
        BY <1>1, <1>8
    <2>2. (locks - 1) % 256 = locks - 1
        BY <2>1, NoWrap
    <2> QED  BY <1>1, <1>8, <2>2
<1>10. Range(j.waitq[Waiters]) = Waiting(j)
    BY <1>2 DEF Books
<1>11. Books(j, (locks - 1) % 256, c)
    BY <1>2, <1>3, <1>8, <1>9, <1>10 DEF Books
<1> QED  BY <1>11 DEF Kept, c

\* A returned permit goes to the longest waiter, if there is one.
LEMMA HandOverBooks ==
    ASSUME Sound(k), Books(k, locks, pc), NEW p \in Task, pc[p] = "in",
           k.status[p] = "RUNNING", k.waitq[Waiters] # <<>>,
           NEW j, j.waitq = [k.waitq EXCEPT ![Waiters] = Tail(@)],
           \A t \in Proc : j.status[t] = IF t = Head(k.waitq[Waiters])
                                         THEN "READY_TO_RUN" ELSE k.status[t]
    PROVE  Kept(j, locks, [pc EXCEPT ![p] = "rest"])
<1> DEFINE c == [pc EXCEPT ![p] = "rest"]
           h == Head(k.waitq[Waiters])
<1>1. /\ pc \in [Proc -> {"boot", "hlt", "rest", "out", "in"}] /\ locks \in 0..Limit
      /\ p \in Proc /\ Limit \in 1..255
    BY SemAssumption DEF Books, Task
<1>2. k.waitq \in [WaitQueue -> Seq(Proc)] /\ k.waitq[Waiters] \in Seq(Proc)
    BY NobodyWaits
<1>3. IsInjective(k.waitq[Waiters])
    BY SemAssumption DEF Sound, Consistent, WaitQueuesOK
<1>4. /\ Range(k.waitq[Waiters]) = {h} \cup Range(Tail(k.waitq[Waiters]))
      /\ h \notin Range(Tail(k.waitq[Waiters]))
    BY <1>2, <1>3, PopHead
<1>5. Waiting(k) = {h} \cup Range(Tail(k.waitq[Waiters]))
    BY <1>4 DEF Books
<1>6. h \in Task /\ k.status[h] = "BLOCKED" /\ pc[h] = "in" /\ h # p
    <2>1. h \in Waiting(k)
        BY <1>5
    <2>2. h \in Inside(pc)
        BY <2>1 DEF Books
    <2> QED  BY <2>1, <2>2 DEF Waiting, Inside
<1>7. \A t \in Proc : j.status[t] = IF t = h THEN "READY_TO_RUN" ELSE k.status[t]
    OBVIOUS
<1>8. /\ c \in [Proc -> {"boot", "hlt", "rest", "out", "in"}]
      /\ Inside(c) = Inside(pc) \ {p} /\ p \in Inside(pc)
    BY <1>1 DEF Inside, Task
<1>9. /\ j.waitq[Waiters] = Tail(k.waitq[Waiters])
      /\ \A q \in WaitQueue \ {Waiters} : j.waitq[q] = k.waitq[q]
    BY <1>2, SemAssumption
<1>10. k.waitq[Waiters] # <<>> /\ h = Head(k.waitq[Waiters])
    OBVIOUS
<1> HIDE DEF c, h
<1>11. Waiting(j) = Waiting(k) \ {h}
    BY <1>6, <1>7 DEF Waiting, Task
<1>12. /\ Owners(j, c) = (Owners(k, pc) \ {p}) \cup {h}
       /\ p \in Owners(k, pc) /\ h \notin Owners(k, pc) \ {p}
    <2>1. p \notin Waiting(k) /\ h \in Inside(pc) /\ h \in Waiting(k)
        BY <1>6 DEF Waiting, Inside
    <2> QED  BY <1>6, <1>8, <1>11, <2>1 DEF Owners
<1>13. IsFiniteSet(Owners(k, pc)) /\ locks = Cardinality(Owners(k, pc))
    BY DEF Books
<1>14. /\ IsFiniteSet(Owners(k, pc) \ {p})
       /\ Cardinality(Owners(k, pc) \ {p}) = Cardinality(Owners(k, pc)) - 1
    BY <1>12, <1>13, FS_RemoveElement
<1>15. /\ IsFiniteSet((Owners(k, pc) \ {p}) \cup {h})
       /\ Cardinality((Owners(k, pc) \ {p}) \cup {h})
            = Cardinality(Owners(k, pc) \ {p}) + 1
    BY <1>12, <1>14, FS_AddElement
<1>16. IsFiniteSet(Owners(j, c)) /\ locks = Cardinality(Owners(j, c))
    BY <1>1, <1>12, <1>13, <1>14, <1>15
<1>17. locks = Limit
    BY <1>5 DEF Books
<1>18. Range(j.waitq[Waiters]) = Waiting(j)
    BY <1>4, <1>5, <1>9, <1>11
<1>19. Waiting(j) \subseteq Inside(c)
    <2>1. p \notin Waiting(k)
        BY DEF Waiting
    <2> QED  BY <1>8, <1>11, <2>1 DEF Books
<1>20. Books(j, locks, c)
    BY <1>1, <1>8, <1>9, <1>16, <1>17, <1>18, <1>19 DEF Books
<1>21. \A t \in Owners(j, c) \ Owners(k, pc) : t = h
    BY <1>12
<1> QED  BY <1>10, <1>20, <1>21 DEF Kept, c

\* semaphore_unlock.
LEMMA UnlockInv ==
    ASSUME SemInv, NEW p \in Task, Unlock(p)
    PROVE  SemInv' /\ InTurn
<1> DEFINE a == SchedPostpone(k)
           b == WaitQueueWakeOne(a, Waiters)
<1>1. At(p, "in") /\ k' = SemaphoreUnlock(k) /\ locks' = Unlocked
      /\ pc' = [pc EXCEPT ![p] = "rest"]
    BY DEF Unlock, Goto
<1>2. /\ Sound(k) /\ Books(k, locks, pc) /\ pc[p] = "in"
      /\ k.current = p /\ k.status[p] = "RUNNING" /\ p # Kernel /\ p \in Proc
      /\ Steady(k, <<>>) /\ Calling(k, <<>>)
    BY <1>1, TaskCalls
<1>3. CASE k.waitq[Waiters] = <<>>
    <2>1. k' = SchedResume(SchedPostpone(k)) /\ locks' = (locks - 1) % 256
        BY <1>1, <1>3 DEF SemaphoreUnlock, Unlocked
    <2>2. Steady(k', <<>>) /\ SameQueues(k, k')
        BY <1>2, <2>1, ShortSection
    <2>3. Sound(k') /\ k'.waitq = k.waitq /\ k'.status = k.status
        BY <1>2, <2>2, ReturnsSound
    <2>4. Kept(k', (locks - 1) % 256, [pc EXCEPT ![p] = "rest"])
        BY <1>2, <1>3, <2>3, ReturnBooks
    <2> QED  BY <1>1, <2>1, <2>3, <2>4, PartsNext
<1>4. CASE k.waitq[Waiters] # <<>>
    <2>1. k' = SchedResume(b) /\ locks' = locks
        BY <1>1, <1>4 DEF SemaphoreUnlock, Unlocked
    <2>2. Waiters \in WaitQueue /\ k \in State /\ k.sw = 0 /\ k.flag = FALSE
        BY <1>2, SemAssumption DEF Steady, Consistent
    <2>3. a \in State /\ SameQueues(k, a) /\ a.sw = 1 /\ a.flag = FALSE
        BY <2>2, PostponeEffect
    <2> HIDE DEF a
    <2>4. Consistent(a, <<>>)
        BY <1>2, <2>3, Frame DEF Steady
    <2>5. a.waitq = k.waitq /\ a.status = k.status /\ a.current = p
        BY <1>2, <2>3 DEF SameQueues
    <2>6. a.status[a.current] # "BLOCKED" /\ a.waitq[Waiters] # <<>> /\ a.sw > 0
        BY <1>2, <1>4, <2>3, <2>5
    <2>7. Roused(a, b, <<>>, Waiters, <<Head(a.waitq[Waiters])>>, Tail(a.waitq[Waiters]))
        BY <2>2, <2>4, <2>6, WakeOneOK
    <2> HIDE DEF b
    <2>8. /\ Consistent(b, <<>>) /\ b.current = p /\ b.sw = 1 /\ b.flag = FALSE
          /\ b.waitq = [k.waitq EXCEPT ![Waiters] = Tail(@)]
          /\ \A t \in Proc : b.status[t] = IF t \in Range(<<Head(k.waitq[Waiters])>>)
                                           THEN "READY_TO_RUN" ELSE k.status[t]
        BY <2>3, <2>5, <2>7 DEF Roused
    <2>9. Head(k.waitq[Waiters]) \in Proc
        BY <1>2, <1>4, NobodyWaits, PopHead
    <2>10. \A t \in Proc : b.status[t] = IF t = Head(k.waitq[Waiters])
                                         THEN "READY_TO_RUN" ELSE k.status[t]
        BY <2>8, <2>9, Singleton
    <2>11. b \in State
        BY <2>8 DEF Consistent
    <2>12. k' \in State /\ SameQueues(b, k') /\ k'.sw = 0 /\ k'.flag = FALSE
        <3>1. k' \in State /\ SameQueues(b, k') /\ k'.sw = Dec(b.sw) /\ k'.flag = FALSE
            BY <2>1, <2>8, <2>11, ResumeReturn
        <3>2. Dec(1) = 0
            BY DEF Dec
        <3> QED  BY <2>8, <3>1, <3>2
    <2>13. Consistent(k', <<>>)
        BY <2>8, <2>12, Frame
    <2>14. k'.waitq = b.waitq /\ k'.status = b.status /\ k'.current = p
        BY <2>8, <2>12 DEF SameQueues
    <2>15. /\ p # Head(k.waitq[Waiters]) /\ Kernel # Head(k.waitq[Waiters])
        <3>1. Head(k.waitq[Waiters]) \in Waiting(k)
            <4>1. k.waitq[Waiters] \in Seq(Proc) /\ Range(k.waitq[Waiters]) = Waiting(k)
                BY <1>2, NobodyWaits DEF Books
            <4> QED  BY <1>4, <4>1, PopHead
        <3> QED  BY <1>2, <3>1 DEF Waiting, Task
    <2>16. k'.status[p] = "RUNNING" /\ k'.status[Kernel] \in {"RUNNING", "READY_TO_RUN"}
        BY <1>2, <2>10, <2>14, <2>15, SemAssumption DEF Sound
    <2>17. WithStatus(k', {"RUNNING"}) \subseteq {p}
        BY <1>2, <2>10, <2>14 DEF Steady, WithStatus
    <2>18. Steady(k', <<>>)
        BY <2>12, <2>13, <2>14, <2>16, <2>17 DEF Steady
    <2>19. Sound(k')
        BY <1>2, <2>16, <2>18, StaysSound
    <2>20. /\ k'.waitq = [k.waitq EXCEPT ![Waiters] = Tail(@)]
           /\ \A t \in Proc : k'.status[t] = IF t = Head(k.waitq[Waiters])
                                             THEN "READY_TO_RUN" ELSE k.status[t]
        BY <2>8, <2>10, <2>14
    <2>21. Kept(k', locks, [pc EXCEPT ![p] = "rest"])
        BY <1>2, <1>4, <2>20, HandOverBooks
    <2> QED  BY <1>1, <2>1, <2>19, <2>21, PartsNext
<1> QED  BY <1>3, <1>4

-----------------------------------------------------------------------------
(* The theorems *)

\* kernel_main starts with a free semaphore.
LEMMA InitInv ==
    Init => SemInv
<1> SUFFICES ASSUME Init PROVE SemInv
    OBVIOUS
<1>1. <<>> \in Seq(Proc) /\ Range(<<>>) = {} /\ IsInjective(<<>>) /\ <<>> \o <<>> = <<>>
    BY DEF Range, IsInjective
<1>2. /\ k.current = Kernel /\ k.sw = 0 /\ k.flag = FALSE
      /\ k.status = [p \in Proc |-> IF p = Kernel THEN "RUNNING" ELSE "UNUSED"]
      /\ k.ready = <<>> /\ k.sleeping = <<>> /\ k.dying = <<>>
      /\ k.waitq = [q \in WaitQueue |-> <<>>]
    BY DEF Init
<1>3. k \in State
    <2>1. [p \in Proc |-> IF p = Kernel THEN "RUNNING" ELSE "UNUSED"] \in [Proc -> Status]
        BY DEF Status
    <2>2. /\ [q \in WaitQueue |-> <<>>] \in [WaitQueue -> Seq(Proc)]
          /\ [p \in Proc |-> 0] \in [Proc -> Nat]
        BY <1>1
    <2> QED  BY <1>1, <2>1, <2>2, SemAssumption DEF Init, State
<1>4. /\ k.status[Kernel] = "RUNNING" /\ \A p \in Proc \ {Kernel} : k.status[p] = "UNUSED"
      /\ \A q \in WaitQueue : k.waitq[q] = <<>>
    BY <1>2, SemAssumption
<1>5. QueuesOK(k, <<>>)
    <2>1. /\ WithStatus(k, {"READY_TO_RUN", "UNINITIALIZED"}) = {}
          /\ WithStatus(k, {"SLEEPING_TIMER"}) = {} /\ WithStatus(k, {"READY_TO_DIE"}) = {}
        BY <1>4 DEF WithStatus
    <2> QED  BY <1>1, <1>2, <2>1 DEF QueuesOK
<1>6. WaitQueuesOK(k)
    <2>1. \A p \in Proc : k.status[p] # "BLOCKED"
        BY <1>4
    <2> QED  BY <1>1, <1>4, <2>1 DEF WaitQueuesOK
<1>7. CurrentOK(k)
    BY <1>2, <1>4, SemAssumption DEF CurrentOK, WithStatus
<1>8. Sound(k)
    BY <1>1, <1>2, <1>3, <1>4, <1>5, <1>6, <1>7, SemAssumption DEF Sound, Consistent
<1>9. /\ locks = 0 /\ pc \in [Proc -> {"boot", "hlt", "rest", "out", "in"}]
      /\ Inside(pc) = {}
    BY DEF Init, Inside, Task
<1>10. Waiting(k) = {}
    BY <1>4 DEF Waiting, Task
<1>11. Owners(k, pc) = {}
    BY <1>9 DEF Owners
<1>12. 0 \in 0..Limit
    BY SemAssumption
<1>13. Books(k, locks, pc)
    BY <1>1, <1>4, <1>9, <1>10, <1>11, <1>12, FS_EmptySet, SemAssumption DEF Books
<1> QED  BY <1>8, <1>13, Parts

\* Every step keeps the invariant and hands permits over in turn.
LEMMA StepInv ==
    SemInv /\ [Next]_vars => SemInv' /\ (Next => InTurn)
<1> SUFFICES ASSUME SemInv, [Next]_vars PROVE SemInv' /\ (Next => InTurn)
    OBVIOUS
<1>1. CASE Tick
    BY <1>1, TickInv
<1>2. ASSUME NEW p \in Proc, KernelCode(p) PROVE SemInv' /\ InTurn
    BY <1>2, UnwindInv, PreludeInv, YieldInv, AddInv DEF KernelCode
<1>3. ASSUME NEW p \in Task, TaskStep(p) PROVE SemInv' /\ InTurn
    BY <1>3, LockInv, TryLockInv, UnlockInv, SleepInv DEF TaskStep
<1>4. ASSUME Next PROVE SemInv' /\ InTurn
    BY <1>1, <1>2, <1>3, <1>4, TickInv DEF Next
<1>5. ASSUME UNCHANGED vars PROVE SemInv'
    BY <1>5 DEF vars, SemInv, TypeOK, PermitsExact, AtMostLimit, LocksCountOwners,
        WaitersQueued, SchedulerIntact, Holders, Blocked
<1> QED  BY <1>4, <1>5

\* For every set of tasks, every limit and every schedule: at most `limit` tasks
\* own the semaphore, current_locks counts them exactly, tasks wait only while
\* all permits are taken, and the scheduler's queues stay consistent, although
\* semaphore_lock and semaphore_unlock switch in the middle.
THEOREM PermitsAlwaysExact == Spec => []PermitsExact
<1>1. SemInv => PermitsExact
    BY DEF SemInv
<1> QED  BY <1>1, InitInv, StepInv, PTL DEF Spec

\* For every set of tasks, every limit and every schedule: while tasks wait, the
\* permit that semaphore_unlock frees goes to the one that has waited longest,
\* and no call of semaphore_lock or semaphore_try_lock overtakes it.
THEOREM PermitsInTurn == Spec => FirstComeFirstServed
<1>1. SemInv /\ [Next]_vars => SemInv'
    BY StepInv
<1>2. SemInv /\ [Next]_vars =>
        [\A p \in Task : p \in Holders' \ Holders /\ k.waitq[Waiters] # <<>>
                         => p = Head(k.waitq[Waiters])]_vars
    BY StepInv DEF InTurn
<1> QED  BY <1>1, <1>2, InitInv, PTL DEF Spec, FirstComeFirstServed
=============================================================================
