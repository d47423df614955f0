--------------------------- MODULE HandlerProofs ----------------------------
(***************************************************************************)
(* The scheduler under the keyboard's interrupt handler and the readers of *)
(* TtyInput: what each of their calls does to its queues, and that the     *)
(* count of its lock never is 0.                                           *)
(***************************************************************************)
EXTENDS TtyInput, SchedProofs, FiniteSetTheorems

\* Whoever runs is the process on the CPU, and a reader that runs finds the boot
\* process ready to take over.
LEMMA Runs ==
    ASSUME NEW s, Settled(s)
    PROVE  /\ Consistent(s, <<>>) /\ s.status[s.current] = "RUNNING" /\ s.current \in Proc
           /\ Steady(s, <<>>)
           /\ s.frames \in [Proc -> Nat] /\ s.irq \in Nat
           /\ s.current # Kernel => Calling(s, <<>>)
<1>1. <<>> \in Seq(Proc) /\ s \in State /\ s.current \in Proc
    BY DEF Settled, CurrentOK
<1>2. Consistent(s, <<>>) /\ s.status[s.current] = "RUNNING"
    BY <1>1 DEF Settled, Consistent, CurrentOK
<1>3. Steady(s, <<>>)
    BY <1>2 DEF Settled, Steady, CurrentOK
<1>4. ASSUME s.current # Kernel PROVE s.ready # <<>>
    <2>1. s.status[Kernel] = "READY_TO_RUN"
        BY <1>4, InputAssumption DEF Settled, CurrentOK, WithStatus
    <2>2. Kernel \in Range(s.ready)
        BY <1>4, <2>1, InputAssumption DEF Settled, QueuesOK, WithStatus
    <2> QED  BY <2>2 DEF Range
<1>5. s.frames \in [Proc -> Nat] /\ s.irq \in Nat
    BY <1>1 DEF State
<1> QED  BY <1>1, <1>2, <1>3, <1>4, <1>5, CallingSteady

\* The lock is held all the time: a forked child has run.
LEMMA Locked ==
    ASSUME NEW s, Settled(s)
    PROVE  s.irq > 0
<1>1. Cardinality(Unreturned(s.frames)) \in Nat
    BY FS_CardinalityType DEF Settled
<1> QED  BY <1>1, InputAssumption DEF Settled

\* Nothing but the interrupt flag has changed.
LEMMA SameSettled ==
    ASSUME NEW s, NEW j \in State, Settled(s), SameQueues(s, j), j.sw = 0, j.flag = FALSE,
           j.irq = s.irq, j.frames = s.frames
    PROVE  Settled(j)
<1>1. Consistent(j, <<>>)
    BY Runs, Frame
<1> QED  BY <1>1 DEF Settled, Consistent, SameQueues, CurrentOK, WithStatus

\* The interrupt flag on entry and on return.
LEMMA SetInts ==
    ASSUME NEW s, NEW b \in BOOLEAN, Settled(s)
    PROVE  LET j == [s EXCEPT !.ints = b]
           IN  /\ Settled(j) /\ SameQueues(s, j) /\ j.frames = s.frames /\ j.irq = s.irq
               /\ j.ints = b /\ j.sw = 0 /\ j.flag = FALSE
<1> DEFINE j == [s EXCEPT !.ints = b]
<1>1. s \in State /\ s.sw = 0 /\ s.flag = FALSE
    BY DEF Settled
<1>2. j \in State
    BY <1>1, Zenon DEF State
<1>3. /\ SameQueues(s, j) /\ j.frames = s.frames /\ j.irq = s.irq
      /\ j.ints = b /\ j.sw = 0 /\ j.flag = FALSE
    BY <1>1 DEF State, SameQueues
<1> HIDE DEF j
<1>4. Settled(j)
    BY <1>2, <1>3, SameSettled
<1> QED  BY <1>3, <1>4 DEF j

\* A switch away takes one more count of the lock.
LEMMA OneMore ==
    ASSUME NEW s, NEW e, NEW j, Settled(s), e.frames = s.frames, e.irq = s.irq,
           e.current = s.current, Owing(e, j)
    PROVE  /\ IsFiniteSet(Unreturned(j.frames))
           /\ j.irq = Forked + Cardinality(Unreturned(j.frames))
<1> DEFINE f == s.frames
           c == s.current
<1>1. f \in [Proc -> Nat] /\ c \in Proc
    BY Runs
<1>2. j.frames = [f EXCEPT ![c] = @ + 1] /\ j.irq = s.irq + 1
    BY DEF Owing
<1>3. IsFiniteSet(Unreturned(f)) /\ s.irq = Forked + Cardinality(Unreturned(f))
    BY DEF Settled
<1> HIDE DEF f, c
<1>4. /\ Unreturned(j.frames) = Unreturned(f) \cup {<<c, f[c] + 1>>}
      /\ <<c, f[c] + 1>> \notin Unreturned(f)
    BY <1>1, <1>2, CallsUp
<1>5. /\ IsFiniteSet(Unreturned(j.frames))
      /\ Cardinality(Unreturned(j.frames)) = Cardinality(Unreturned(f)) + 1
    BY <1>3, <1>4, FS_AddElement
<1>6. Cardinality(Unreturned(f)) \in Nat /\ Forked \in Nat
    BY <1>3, FS_CardinalityType, InputAssumption
<1> QED  BY <1>2, <1>3, <1>5, <1>6

\* A reader that went to sleep.
LEMMA SleepSettled ==
    ASSUME NEW s, NEW j, Settled(s), s.current # Kernel, GaveUp(s, j, <<>>, "BLOCKED"),
           j.waitq[InputLock] = <<>>
    PROVE  Settled(j)
<1>1. /\ Consistent(j, <<>>) /\ CurrentOK(j) /\ j.sw = 0 /\ j.flag = FALSE
      /\ j.status[s.current] = "BLOCKED"
    BY DEF GaveUp
<1>2. \A p \in Proc : j.status[p] \in {"RUNNING", "READY_TO_RUN", "BLOCKED"}
    BY <1>1 DEF GaveUp, Settled
<1>3. j.status[Kernel] # "BLOCKED"
    BY InputAssumption DEF GaveUp, Settled
<1>4. /\ IsFiniteSet(Unreturned(j.frames))
      /\ j.irq = Forked + Cardinality(Unreturned(j.frames))
    <2>1. Owing(s, j)
        BY DEF GaveUp
    <2> QED  BY <2>1, OneMore
<1> QED  BY <1>1, <1>2, <1>3, <1>4 DEF Settled, Consistent

\* A wake-up: the sleepers of q become ready, and interrupts stay off.
LEMMA WakeSettled ==
    ASSUME NEW s, NEW q \in {"readers", "events"}, Settled(s)
    PROVE  LET j == WaitQueueWakeAll(s, q)
           IN  /\ Settled(j) /\ j.waitq = [s.waitq EXCEPT ![q] = <<>>]
               /\ j.current = s.current /\ j.frames = s.frames /\ j.ints = FALSE
<1> DEFINE j == WaitQueueWakeAll(s, q)
<1>1. /\ Consistent(s, <<>>) /\ s.status[s.current] = "RUNNING" /\ s.current \in Proc
      /\ s.flag = FALSE /\ s.sw = 0 /\ s.irq > 0
    BY Runs, Locked DEF Settled
<1>2. q \in WaitQueue /\ q # InputLock /\ InputLock \in WaitQueue
    BY InputAssumption DEF InputLock
<1>3. Woken(s, j, <<>>, q)
    BY <1>1, <1>2, WakeAllOK
<1>4. j.ints = FALSE
    BY <1>1, <1>2, WakeAllInts
<1> HIDE DEF j
<1>5. /\ Consistent(j, <<>>) /\ j.current = s.current /\ j.sw = 0 /\ j.flag = FALSE
      /\ j.irq = s.irq /\ j.frames = s.frames /\ j.waitq = [s.waitq EXCEPT ![q] = <<>>]
    BY <1>1, <1>3 DEF Woken
<1>6. \A p \in Proc : \/ j.status[p] = s.status[p]
                      \/ s.status[p] = "BLOCKED" /\ j.status[p] = "READY_TO_RUN"
    BY <1>2, <1>3 DEF Woken, Settled, WaitQueuesOK
<1>7. CurrentOK(j)
    BY <1>1, <1>5, <1>6 DEF CurrentOK, Settled, WithStatus
<1>8. j.waitq[InputLock] = <<>>
    BY <1>2, <1>5 DEF Settled, State
<1>9. /\ \A p \in Proc : j.status[p] \in {"RUNNING", "READY_TO_RUN", "BLOCKED"}
      /\ j.status[Kernel] # "BLOCKED"
    BY <1>6, InputAssumption DEF Settled
<1>10. Settled(j)
    BY <1>5, <1>7, <1>8, <1>9 DEF Settled, Consistent
<1> QED  BY <1>4, <1>5, <1>10 DEF j

\* A section that nothing disturbs, in the handler or in a system call.
LEMMA SectionSettled ==
    ASSUME NEW s, Settled(s)
    PROVE  LET j == SchedResume(SchedPostpone(s))
           IN  /\ Settled(j) /\ j.waitq = s.waitq /\ j.ints = FALSE
               /\ j.current = s.current /\ j.frames = s.frames
<1> DEFINE j == SchedResume(SchedPostpone(s))
<1>1. s \in State /\ s.flag = FALSE /\ s.sw = 0 /\ s.irq > 0
    BY Locked DEF Settled
<1>2. Passed(s, j) /\ j.ints = FALSE
    BY <1>1, SectionPassed, SectionInts
<1> HIDE DEF j
<1>3. Settled(j)
    BY <1>1, <1>2, SameSettled DEF Passed
<1> QED  BY <1>2, <1>3 DEF j, Passed, SameQueues

\* The scheduler that the mutex is made of is the scheduler of the readers.
LEMMA OneScheduler ==
    /\ \A x : Mutex!SchedPostpone(x) = SchedPostpone(x)
    /\ \A x : Mutex!SchedResume(x) = SchedResume(x)
    /\ \A x : Mutex!HandleTimer(x) = HandleTimer(x)
<1>1. \A x : Mutex!SchedPostpone(x) = SchedPostpone(x)
    BY DEF SchedPostpone, Mutex!SchedPostpone
<1>2. \A x : Mutex!ScheduleAdvance(x) = ScheduleAdvance(x)
    BY DEF ScheduleAdvance, Mutex!ScheduleAdvance, MultitaskSwitch, Mutex!MultitaskSwitch,
           Preempted, Mutex!Preempted, PickNext, Mutex!PickNext, Idle, Mutex!Idle
<1>3. \A x : Mutex!Dec(x) = Dec(x)
    BY DEF Dec, Mutex!Dec
<1>4. \A x : Mutex!SchedUnlock(x) = SchedUnlock(x)
    BY DEF SchedUnlock, Mutex!SchedUnlock, Dec, Mutex!Dec
<1>5. ASSUME NEW x PROVE Mutex!SchedResume(x) = SchedResume(x)
    BY <1>2, <1>4 DEF SchedResume, Mutex!SchedResume, Dec, Mutex!Dec, Returned,
           Mutex!Returned
<1>6. \A x : Mutex!SchedLock(x) = SchedLock(x)
    BY DEF SchedLock, Mutex!SchedLock
<1>7. \A x : Mutex!AdvanceLater(x) = AdvanceLater(x)
    BY <1>2, <1>4, <1>6 DEF AdvanceLater, Mutex!AdvanceLater
<1>8. \A x : Mutex!WakeProcsBeforeTimestamp(x) = WakeProcsBeforeTimestamp(x)
    BY DEF WakeProcsBeforeTimestamp, Mutex!WakeProcsBeforeTimestamp, DuePrefix,
           Mutex!DuePrefix, Range, Mutex!Range
<1>9. ASSUME NEW x PROVE Mutex!HandleTimer(x) = HandleTimer(x)
    <2> DEFINE e == [x EXCEPT !.left = [p \in Proc |-> Dec(@[p])]]
               a == SchedPostpone(e)
               b == WakeProcsBeforeTimestamp(a)
               c == IF b.quantum THEN AdvanceLater(b) ELSE b
               e2 == [x EXCEPT !.left = [p \in Proc |-> Mutex!Dec(@[p])]]
               a2 == Mutex!SchedPostpone(e2)
               b2 == Mutex!WakeProcsBeforeTimestamp(a2)
               c2 == IF b2.quantum THEN Mutex!AdvanceLater(b2) ELSE b2
    <2>1. HandleTimer(x) = SchedResume(c) /\ Mutex!HandleTimer(x) = Mutex!SchedResume(c2)
        BY DEF HandleTimer, Mutex!HandleTimer
    <2>2. e2 = e
        BY DEF Dec, Mutex!Dec
    <2> HIDE DEF e, e2
    <2>3. a2 = a
        BY <1>1, <2>2
    <2> HIDE DEF a, a2
    <2>4. b2 = b
        BY <1>8, <2>3
    <2> HIDE DEF b, b2
    <2>5. c2 = c
        BY <1>7, <2>4
    <2> HIDE DEF c, c2
    <2> QED  BY <1>5, <2>1, <2>5
<1> QED  BY <1>1, <1>5, <1>9

\* The mutex is free and nobody waits for it.
LEMMA MutexFree ==
    ASSUME NEW s, t.locks = 0, s.waitq[InputLock] = <<>>
    PROVE  /\ Mutex!SemaphoreLock(s) = SchedResume(SchedPostpone(s))
           /\ Mutex!SemaphoreUnlock(s) = SchedResume(SchedPostpone(s))
<1>1. /\ Mutex!SemaphoreLock(s) = Mutex!SchedResume(Mutex!SchedPostpone(s))
      /\ Mutex!SemaphoreUnlock(s) = Mutex!SchedResume(Mutex!SchedPostpone(s))
    BY DEF Mutex!SemaphoreLock, Mutex!SemaphoreUnlock, Mutex!Waiters, InputLock
<1> QED  BY <1>1, OneScheduler

\* The read of the ring inside tty_read's section.
LEMMA AroundPassed ==
    ASSUME NEW s, Settled(s), t.locks = 0
    PROVE  LET e == MutexAround(SchedPostpone(s))
           IN  Postponed(s, e) /\ e.flag = FALSE /\ e.left = s.left
<1> DEFINE a == SchedPostpone(s)
           b == SchedResume(SchedPostpone(a))
           e == SchedResume(SchedPostpone(b))
<1>1. s \in State /\ s.sw = 0 /\ s.flag = FALSE /\ s.waitq[InputLock] = <<>>
    BY DEF Settled
<1>2. /\ a \in State /\ SameQueues(s, a) /\ a.sw = 1 /\ a.flag = FALSE
      /\ a.irq = s.irq + 1 /\ a.frames = s.frames /\ a.left = s.left
    BY <1>1, PostponeEffect
<1> HIDE DEF a
<1>3. Passed(a, b)
    BY <1>2, SectionPassed
<1> HIDE DEF b
<1>4. b \in State /\ b.flag = FALSE
    BY <1>3 DEF Passed
<1>5. Passed(b, e)
    BY <1>4, SectionPassed
<1>6. a.waitq[InputLock] = <<>> /\ b.waitq[InputLock] = <<>>
    BY <1>1, <1>2, <1>3 DEF Passed, SameQueues
<1>7. MutexAround(a) = e
    <2>1. Mutex!SemaphoreLock(a) = b
        BY <1>6, MutexFree DEF b
    <2>2. Mutex!SemaphoreUnlock(b) = e
        BY <1>6, MutexFree
    <2> QED  BY <2>1, <2>2 DEF MutexAround
<1> HIDE DEF e
<1>8. Postponed(s, e) /\ e.flag = FALSE /\ e.left = s.left
    BY <1>2, <1>3, <1>5 DEF Passed, Postponed, SameQueues
<1> QED  BY <1>7, <1>8 DEF a

\* tty_read's section when it does not sleep.
LEMMA ReadSettled ==
    ASSUME NEW s, Settled(s), t.locks = 0
    PROVE  LET j == SchedResume(MutexAround(SchedPostpone(s)))
           IN  Settled(j) /\ j.waitq = s.waitq
<1> DEFINE e == MutexAround(SchedPostpone(s))
           j == SchedResume(e)
<1>1. Postponed(s, e) /\ e.flag = FALSE
    BY AroundPassed
<1> HIDE DEF e
<1>2. e \in State /\ e.sw = 1 /\ e.irq = s.irq + 1 /\ e.frames = s.frames /\ SameQueues(s, e)
    BY <1>1 DEF Postponed
<1>3. /\ j \in State /\ SameQueues(e, j) /\ j.sw = Dec(e.sw) /\ j.flag = FALSE
      /\ j.frames = e.frames /\ j.irq = Dec(e.irq)
    BY <1>1, <1>2, ResumeReturn
<1>4. Dec(1) = 0 /\ Dec(s.irq + 1) = s.irq
    <2>1. s.irq \in Nat
        BY Runs
    <2> QED  BY <2>1 DEF Dec
<1> HIDE DEF j
<1>5. SameQueues(s, j) /\ j.sw = 0 /\ j.irq = s.irq /\ j.frames = s.frames
    BY <1>2, <1>3, <1>4 DEF SameQueues
<1>6. Settled(j)
    BY <1>3, <1>5, SameSettled
<1> QED  BY <1>5, <1>6 DEF e, j, SameQueues

\* A reader that sleeps for input, in tty_read's section.
LEMMA TtySleeps ==
    ASSUME NEW s, NEW j, Settled(s), s.current # Kernel, t.locks = 0,
           j = SchedResume(WaitQueueSleep(MutexAround(SchedPostpone(s)), "readers"))
    PROVE  Settled(j) /\ Queued(s, j, "readers")
<1> DEFINE e == MutexAround(SchedPostpone(s))
<1>1. /\ Calling(s, <<>>) /\ "readers" \in WaitQueue /\ InputLock \in WaitQueue
      /\ InputLock # "readers"
    BY Runs, InputAssumption DEF InputLock
<1>2. Postponed(s, e)
    BY AroundPassed
<1>3. j = SchedResume(WaitQueueSleep(e, "readers"))
    OBVIOUS
<1> HIDE DEF e
<1>4. GaveUp(s, j, <<>>, "BLOCKED") /\ Queued(s, j, "readers")
    BY <1>1, <1>2, <1>3, BlockInside
<1>5. j.waitq[InputLock] = <<>>
    BY <1>1, <1>4 DEF Queued, Settled, State
<1> QED  BY <1>4, <1>5, SleepSettled

\* A reader that sleeps for an event.
LEMMA EventSleeps ==
    ASSUME NEW s, NEW j, Settled(s), s.current # Kernel,
           j = WaitQueueSleepPostponed(SchedPostpone(s), "events")
    PROVE  Settled(j) /\ Queued(s, j, "events")
<1>1. /\ Calling(s, <<>>) /\ "events" \in WaitQueue /\ InputLock \in WaitQueue
      /\ InputLock # "events"
    BY Runs, InputAssumption DEF InputLock
<1>2. GaveUp(s, j, <<>>, "BLOCKED") /\ Queued(s, j, "events")
    BY <1>1, BlockOK
<1>3. j.waitq[InputLock] = <<>>
    BY <1>1, <1>2 DEF Queued, Settled, State
<1> QED  BY <1>2, <1>3, SleepSettled

\* The timer interrupt.
LEMMA TickSettled ==
    ASSUME Settled(k), Mutex!TickReady
    PROVE  Settled(Mutex!AfterTick) /\ Mutex!AfterTick.waitq = k.waitq
<1> DEFINE e == [k EXCEPT !.ints = FALSE]
           s == HandleTimer(e)
           j == IF Returned(k, s) THEN [s EXCEPT !.ints = TRUE] ELSE s
<1>1. j = Mutex!AfterTick
    BY OneScheduler DEF Mutex!AfterTick, Returned, Mutex!Returned
<1>2. Settled(e) /\ SameQueues(k, e) /\ e.frames = k.frames /\ e.irq = k.irq
    BY SetInts
<1> HIDE DEF e
<1>3. Ticked(e, s, <<>>)
    BY <1>2, Runs, TimerOK
<1> HIDE DEF s
<1>4. /\ Consistent(s, <<>>) /\ CurrentOK(s) /\ s \in State /\ s.sw = 0 /\ s.flag = FALSE
      /\ s.waitq = k.waitq
    BY <1>2, <1>3 DEF Ticked, SameQueues, Consistent
<1>5. /\ \A p \in Proc : s.status[p] \in {"RUNNING", "READY_TO_RUN", "BLOCKED"}
      /\ s.status[Kernel] # "BLOCKED"
    BY <1>2, <1>3, InputAssumption DEF Ticked, Settled
<1>6. /\ IsFiniteSet(Unreturned(s.frames))
      /\ s.irq = Forked + Cardinality(Unreturned(s.frames))
    <2>1. CASE s.frames = e.frames /\ s.irq = e.irq
        BY <1>2, <2>1 DEF Settled
    <2>2. CASE Owing(e, s)
        BY <1>2, <2>2, OneMore
    <2> QED  BY <1>3, <2>1, <2>2 DEF Ticked
<1>7. Settled(s)
    BY <1>4, <1>5, <1>6 DEF Settled, Consistent
<1>8. Settled(j) /\ j.waitq = s.waitq
    <2>1. CASE Returned(k, s)
        <3>1. j = [s EXCEPT !.ints = TRUE]
            BY <2>1
        <3> HIDE DEF j
        <3> QED  BY <1>7, <3>1, SetInts DEF SameQueues
    <2>2. CASE ~Returned(k, s)
        BY <1>7, <2>2
    <2> QED  BY <2>1, <2>2
<1> QED  BY <1>1, <1>4, <1>8

\* The tail of a call that was switched out.
LEMMA UnwindSettled ==
    ASSUME Settled(k), k.frames[k.current] > 0
    PROVE  Settled(Unwind(k)) /\ Unwind(k).waitq = k.waitq
<1> DEFINE f == k.frames
           c == k.current
           a == [k EXCEPT !.frames[k.current] = @ - 1]
           j == SchedUnlock(a)
<1>1. k \in State /\ f \in [Proc -> Nat] /\ c \in Proc /\ f[c] > 0 /\ k.irq \in Nat
    BY Runs DEF Settled
<1>2. [f EXCEPT ![c] = @ - 1] \in [Proc -> Nat]
    <2>1. f[c] - 1 \in Nat
        BY <1>1
    <2> QED  BY <1>1, <2>1
<1>3. a = [k EXCEPT !.frames = [f EXCEPT ![c] = @ - 1]]
    BY <1>1 DEF State
<1> HIDE DEF f, c, a
<1>4. a \in State
    BY <1>1, <1>2, <1>3, Zenon DEF State
<1>5. /\ SameQueues(k, a) /\ a.sw = k.sw /\ a.flag = k.flag /\ a.irq = k.irq
      /\ a.frames = [f EXCEPT ![c] = @ - 1]
    BY <1>1, <1>3 DEF State, SameQueues
<1>6. j \in State /\ SameQueues(a, j)
    BY <1>4, LockTypes
<1>7. j.sw = a.sw /\ j.flag = a.flag /\ j.irq = Dec(a.irq) /\ j.frames = a.frames
    BY <1>4 DEF SchedUnlock, State
<1> HIDE DEF j
<1>8. /\ Unreturned(j.frames) = Unreturned(f) \ {<<c, f[c]>>}
      /\ <<c, f[c]>> \in Unreturned(f)
    <2>1. j.frames = [f EXCEPT ![c] = @ - 1]
        BY <1>5, <1>7
    <2> QED  BY <1>1, <2>1, CallsDown
<1>9. IsFiniteSet(Unreturned(f)) /\ k.irq = Forked + Cardinality(Unreturned(f))
    BY DEF Settled, f
<1>10. /\ IsFiniteSet(Unreturned(j.frames))
       /\ Cardinality(Unreturned(j.frames)) = Cardinality(Unreturned(f)) - 1
    BY <1>8, <1>9, FS_RemoveElement
<1>11. Cardinality(Unreturned(f)) \in Nat /\ Forked \in Nat \ {0} /\ k.irq > 0
    BY <1>9, Locked, FS_CardinalityType, InputAssumption
<1>12. Dec(k.irq) = k.irq - 1
    BY <1>1, <1>11 DEF Dec
<1>13. j.irq = Forked + Cardinality(Unreturned(j.frames))
    BY <1>5, <1>7, <1>9, <1>10, <1>11, <1>12
<1>14. SameQueues(k, j) /\ j.sw = 0 /\ j.flag = FALSE
    BY <1>5, <1>6, <1>7 DEF SameQueues, Settled
<1>15. Consistent(j, <<>>)
    BY <1>6, <1>14, Runs, Frame
<1>16. Settled(j)
    BY <1>10, <1>13, <1>14, <1>15 DEF Settled, Consistent, SameQueues, CurrentOK, WithStatus
<1>17. j = Unwind(k)
    BY DEF j, a, Unwind
<1> QED  BY <1>14, <1>16, <1>17 DEF SameQueues

\* The scheduler when the readers have been forked.
LEMMA InitSettled ==
    ASSUME Init
    PROVE  Settled(k)
<1>1. /\ k.current = Kernel /\ k.ready = Order /\ k.sleeping = <<>> /\ k.dying = <<>>
      /\ k.status = [p \in Proc |-> IF p = Kernel THEN "RUNNING" ELSE "READY_TO_RUN"]
      /\ k.waitq = [q \in WaitQueue |-> <<>>] /\ k.left = [p \in Proc |-> 0]
      /\ k.irq = Forked /\ k.sw = 0 /\ k.flag = FALSE /\ k.quantum = TRUE /\ k.ints = TRUE
      /\ k.frames = [p \in Proc |-> 0]
    BY DEF Init
<1>2. /\ Kernel \in Proc /\ Order \in Seq(Reader) /\ Order \in Seq(Proc) /\ Forked \in Nat
      /\ InputLock \in WaitQueue
    BY InputAssumption DEF Reader
<1>3. /\ IsInjective(Order) /\ Range(Order) = Reader
    <2>1. /\ \A x : x \in Range(Order) <=> \E i \in 1..Len(Order) : x = Order[i]
          /\ IsInjective(Order) <=> \A i, j \in 1..Len(Order) : Order[i] = Order[j] => i = j
          /\ Range(Order) \subseteq Reader
        BY <1>2, ByIndex
    <2> QED  BY <2>1, InputAssumption
<1>4. IsInjective(<<>>) /\ Range(<<>>) = {} /\ <<>> \o <<>> = <<>> /\ <<>> \in Seq(Proc)
    BY DEF IsInjective, Range
<1>5. k \in State
    <2>1. k = [current |-> k.current, status |-> k.status, ready |-> k.ready,
               sleeping |-> k.sleeping, dying |-> k.dying, waitq |-> k.waitq,
               left |-> k.left, irq |-> k.irq, sw |-> k.sw, flag |-> k.flag,
               quantum |-> k.quantum, ints |-> k.ints, frames |-> k.frames]
        BY DEF Init
    <2>2. /\ k.status \in [Proc -> Status] /\ k.waitq \in [WaitQueue -> Seq(Proc)]
          /\ k.left \in [Proc -> Nat] /\ k.frames \in [Proc -> Nat]
        BY <1>1, <1>4 DEF Status
    <2> QED  BY <1>1, <1>2, <1>4, <2>1, <2>2 DEF State
<1>6. QueuesOK(k, <<>>)
    BY <1>1, <1>3, <1>4 DEF QueuesOK, WithStatus, Reader
<1>7. WaitQueuesOK(k)
    BY <1>1, <1>4 DEF WaitQueuesOK
<1>8. CurrentOK(k)
    BY <1>1, <1>2 DEF CurrentOK, WithStatus
<1>9. Unreturned(k.frames) = {}
    BY <1>1 DEF Unreturned
<1>10. IsFiniteSet(Unreturned(k.frames)) /\ k.irq = Forked + Cardinality(Unreturned(k.frames))
    <2>1. IsFiniteSet({}) /\ Cardinality({}) = 0
        BY FS_EmptySet
    <2>2. Forked = Forked + 0
        BY <1>2
    <2> QED  BY <1>1, <1>9, <2>1, <2>2
<1>11. /\ \A p \in Proc : k.status[p] \in {"RUNNING", "READY_TO_RUN", "BLOCKED"}
       /\ k.status[Kernel] # "BLOCKED" /\ k.waitq[InputLock] = <<>>
    BY <1>1, <1>2
<1> QED  BY <1>1, <1>5, <1>6, <1>7, <1>8, <1>10, <1>11 DEF Settled
=============================================================================
