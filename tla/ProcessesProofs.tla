-------------------------- MODULE ProcessesProofs ---------------------------
(***************************************************************************)
(* Theorems about Processes, for any number of processes, children and     *)
(* nested interrupts: the scheduler's queues, statuses and locks stay      *)
(* consistent, and sleepers are woken on time.                             *)
(***************************************************************************)
EXTENDS Processes, SchedProofs

\* The three processes of the boot are different processes.
LEMMA Distinct ==
    /\ Kernel \in Proc /\ Terminator \in Proc /\ InitProc \in Proc
    /\ Kernel # Terminator /\ Kernel # InitProc /\ Terminator # InitProc
BY ProcAssumption

\* What SchedInv says in the vocabulary of the scheduler lemmas.
LEMMA Basics ==
    ASSUME SchedInv
    PROVE  /\ Consistent(k, reap.waiting)
           /\ k.status \in [Proc -> Status] /\ k.frames \in [Proc -> Nat]
           /\ k.irq \in Nat /\ k.sw \in Nat /\ k.ints \in BOOLEAN /\ k.flag \in BOOLEAN
           /\ k.dying \in Seq(Proc) /\ k.ready \in Seq(Proc)
           /\ k.waitq \in [WaitQueue -> Seq(Proc)]
           /\ reap.waiting \in Seq(Proc) /\ reap.freed \in BOOLEAN
<1>1. k \in State /\ reap \in [waiting : Seq(Proc), freed : BOOLEAN]
    BY DEF SchedInv, TypeOK
<1>2. /\ k.status \in [Proc -> Status] /\ k.frames \in [Proc -> Nat]
      /\ k.irq \in Nat /\ k.sw \in Nat /\ k.ints \in BOOLEAN /\ k.flag \in BOOLEAN
      /\ k.dying \in Seq(Proc) /\ k.ready \in Seq(Proc)
      /\ k.waitq \in [WaitQueue -> Seq(Proc)]
    BY <1>1 DEF State
<1>3. reap.waiting \in Seq(Proc) /\ reap.freed \in BOOLEAN
    BY <1>1
<1>4. Consistent(k, reap.waiting)
    BY <1>1, <1>3 DEF SchedInv, Consistent, QueuesMatchStatus,
                      WaitQueuesMatchStatus, CurrentRuns, CurrentOK
<1> QED  BY <1>2, <1>3, <1>4

\* One of the two daemons is always ready when another process runs, so
\* schedule_advance never finds the ready queue empty.
LEMMA SomeoneReady ==
    ASSUME SchedInv
    PROVE  k.ready # <<>>
<1>1. /\ Range(k.ready) =
           WithStatus(k, {"READY_TO_RUN", "UNINITIALIZED"}) \ {k.current}
      /\ WithStatus(k, {"RUNNING"}) \subseteq {k.current}
      /\ k.status[Kernel] \in {"RUNNING", "READY_TO_RUN"}
      /\ k.status[Terminator] \in {"UNINITIALIZED", "RUNNING", "READY_TO_RUN"}
    BY DEF SchedInv, QueuesMatchStatus, QueuesOK, CurrentRuns, CurrentOK, ControlOK
<1>2. Kernel \in Range(k.ready) \/ Terminator \in Range(k.ready)
    BY <1>1, Distinct DEF WithStatus
<1>3. Range(<<>>) = {}
    BY DEF Range
<1> QED  BY <1>2, <1>3

\* A running process outside the terminator's loop may call the scheduler, and
\* so may the handler of a system call or interrupt it enters.
LEMMA MayCall ==
    ASSUME SchedInv, k.status[k.current] = "RUNNING", pc[Terminator] # "reap"
    PROVE  /\ Calling(k, <<>>)
           /\ Calling(Entry, <<>>)
           /\ SameQueues(k, Entry) /\ Entry.frames = k.frames
           /\ reap.waiting = <<>>
<1>1. Consistent(k, reap.waiting) /\ k \in State
    BY Basics DEF Consistent
<1>2. k.sw = 0 /\ k.flag = FALSE /\ reap.waiting = <<>>
    BY Basics DEF SchedInv, ControlOK
<1>3. k.ready # <<>> /\ WithStatus(k, {"RUNNING"}) \subseteq {k.current}
    BY SomeoneReady DEF SchedInv, CurrentRuns, CurrentOK
<1>4. Calling(k, <<>>)
    BY <1>1, <1>2, <1>3 DEF Calling, MaySwitch
<1>5. /\ Entry \in State /\ SameQueues(k, Entry) /\ Entry.sw = 0 /\ Entry.flag = FALSE
      /\ Entry.frames = k.frames
    BY <1>1, <1>2 DEF Entry, State, SameQueues
<1>6. Consistent(Entry, <<>>)
    BY <1>1, <1>2, <1>5, Frame
<1>7. Calling(Entry, <<>>)
    BY <1>3, <1>4, <1>5, <1>6 DEF Calling, MaySwitch, SameQueues, WithStatus
<1> QED  BY <1>2, <1>4, <1>5, <1>7

-----------------------------------------------------------------------------
(* The steps, one lemma per action *)

\* The part of SchedInv that is about the variables other than k.
Shape ==
    /\ parent \in [Proc -> Proc \cup {NoProc}]
    /\ children \in [Proc -> SUBSET Proc]
    /\ pc \in [Proc -> Label]
    /\ target \in [Proc -> Proc \cup {NoProc}]
    /\ reap \in [waiting : Seq(Proc), freed : BOOLEAN]
    /\ pc[Kernel] \in {"boot", "hlt"}
    /\ pc[Terminator] \in {"loop", "yield", "begin", "reap"}
    /\ \A p \in Users : pc[p] \in {"user", "wait_child", "wait_any", "dead"}

\* What a state must satisfy when the switch lock is free.
Unlocked ==
    /\ Shape
    /\ pc[Terminator] # "reap" /\ reap.waiting = <<>>
    /\ Consistent(k, <<>>) /\ CurrentOK(k)
    /\ k.sw = 0 /\ k.flag = FALSE
    /\ k.status[Kernel] \in {"RUNNING", "READY_TO_RUN"}
    /\ k.status[Terminator] \in {"UNINITIALIZED", "RUNNING", "READY_TO_RUN"}
    /\ k.ints => k.status[k.current] # "UNINITIALIZED"
    /\ k.current # Terminator /\ k.status[k.current] = "RUNNING" => k.ints

\* Unlocked is SchedInv while the terminator is outside its locked section.
LEMMA UnlockedInv ==
    /\ Unlocked => SchedInv
    /\ SchedInv => Shape
BY DEF Unlocked, Shape, SchedInv, TypeOK, QueuesMatchStatus, WaitQueuesMatchStatus,
       CurrentRuns, ControlOK, Consistent

\* The same in the next state.
LEMMA UnlockedNext ==
    Unlocked' => SchedInv'
BY UnlockedInv, PTL

\* kernel_main hands over a consistent scheduler.
LEMMA InitOK ==
    Init => SchedInv
<1> SUFFICES ASSUME Init PROVE Unlocked
    BY UnlockedInv
<1>1. Shape
    BY Distinct, ProcAssumption DEF Init, Shape, Label, Users, Daemons
<1>2. k \in State
    <2>1. /\ <<Terminator, InitProc>> \in Seq(Proc) /\ <<>> \in Seq(Proc)
          /\ 0 \in Nat /\ Kernel \in Proc \cup {NoProc}
          /\ TRUE \in BOOLEAN /\ FALSE \in BOOLEAN
        BY Distinct
    <2>2. /\ [p \in Proc |-> IF p = Kernel THEN "RUNNING"
                             ELSE IF p \in {Terminator, InitProc}
                             THEN "UNINITIALIZED" ELSE "UNUSED"] \in [Proc -> Status]
          /\ [q \in WaitQueue |-> <<>>] \in [WaitQueue -> Seq(Proc)]
          /\ [p \in Proc |-> 0] \in [Proc -> Nat]
        BY DEF Status
    <2> QED  BY <2>1, <2>2, Zenon DEF Init, State
<1>3. /\ k.current = Kernel /\ k.ready = <<Terminator, InitProc>> /\ k.sleeping = <<>>
      /\ k.dying = <<>> /\ k.sw = 0 /\ k.flag = FALSE /\ k.ints = TRUE
      /\ \A q \in WaitQueue : k.waitq[q] = <<>>
      /\ \A p \in Proc : k.status[p] = IF p = Kernel THEN "RUNNING"
                                       ELSE IF p \in {Terminator, InitProc}
                                       THEN "UNINITIALIZED" ELSE "UNUSED"
    BY DEF Init
<1>4. /\ Range(<<>>) = {} /\ IsInjective(<<>>) /\ <<>> \o <<>> = <<>>
      /\ <<>> \in Seq(Proc)
    BY DEF Range, IsInjective
<1>5. /\ Range(<<Terminator, InitProc>>) = {Terminator, InitProc}
      /\ IsInjective(<<Terminator, InitProc>>)
    <2>1. <<Terminator>> \in Seq(Proc) /\ Range(<<Terminator>>) = {Terminator}
          /\ IsInjective(<<Terminator>>)
        BY Distinct, Singleton
    <2> DEFINE t == <<Terminator>>
    <2>2. <<Terminator, InitProc>> = Append(t, InitProc)
        OBVIOUS
    <2>3. t \in Seq(Proc) /\ Range(t) = {Terminator} /\ IsInjective(t)
        BY <2>1
    <2> HIDE DEF t
    <2>4. InitProc \in Proc /\ InitProc \notin Range(t)
        BY <2>3, Distinct
    <2>5. /\ Range(Append(t, InitProc)) = Range(t) \cup {InitProc}
          /\ IsInjective(Append(t, InitProc))
        BY <2>3, <2>4, PushTail
    <2> QED  BY <2>2, <2>3, <2>5
<1>6. QueuesOK(k, <<>>)
    <2>1. /\ WithStatus(k, {"READY_TO_RUN", "UNINITIALIZED"}) = {Terminator, InitProc}
          /\ WithStatus(k, {"SLEEPING_TIMER"}) = {} /\ WithStatus(k, {"READY_TO_DIE"}) = {}
        BY <1>3, Distinct DEF WithStatus
    <2>2. {Terminator, InitProc} \ {Kernel} = {Terminator, InitProc}
        BY Distinct
    <2> QED  BY <1>3, <1>4, <1>5, <2>1, <2>2 DEF QueuesOK
<1>7. WaitQueuesOK(k)
    BY <1>3, <1>4 DEF WaitQueuesOK
<1>8. CurrentOK(k)
    BY <1>3, Distinct DEF CurrentOK, WithStatus
<1>9. Consistent(k, <<>>)
    BY <1>2, <1>3, <1>4, <1>6, <1>7, Distinct DEF Consistent
<1>10. pc[Terminator] # "reap" /\ reap.waiting = <<>>
    BY Distinct DEF Init
<1> QED  BY <1>1, <1>3, <1>8, <1>9, <1>10, Distinct DEF Unlocked

\* The timer interrupt.
LEMMA TickOK ==
    ASSUME SchedInv, Tick
    PROVE  SchedInv'
<1> DEFINE s == HandleTimer(Entry)
<1>1. /\ k.ints /\ pc[Terminator] # "reap" /\ k.status[k.current] = "RUNNING"
      /\ k.status[Kernel] \in {"RUNNING", "READY_TO_RUN"}
      /\ k.status[Terminator] \in {"UNINITIALIZED", "RUNNING", "READY_TO_RUN"}
    BY DEF Tick, TickReady, SchedInv, ControlOK, CurrentRuns, CurrentOK
<1>2. /\ Calling(Entry, <<>>) /\ SameQueues(k, Entry) /\ Entry.frames = k.frames
      /\ reap.waiting = <<>>
    BY <1>1, MayCall
<1>3. Ticked(Entry, s, <<>>)
    BY <1>2, CallingSteady, TimerOK
<1>4. k' = IF Returned(k, s) THEN Iret(s) ELSE s
    BY DEF Tick, AfterTick
<1>5. UNCHANGED <<parent, children, pc, target, reap>>
    BY DEF Tick
<1> HIDE DEF s
<1>6. /\ s \in State /\ s.status[Kernel] \in {"RUNNING", "READY_TO_RUN"}
      /\ s.status[Terminator] \in {"UNINITIALIZED", "RUNNING", "READY_TO_RUN"}
    BY <1>1, <1>2, <1>3, Distinct DEF Ticked, SameQueues, Consistent
<1>7. Shape'
    BY <1>5, UnlockedInv DEF Shape
<1>8. CASE Returned(k, s)
    <2>1. k'.ints = TRUE /\ k' \in State /\ SameQueues(s, k') /\ k'.sw = s.sw
          /\ k'.flag = s.flag
        BY <1>4, <1>6, <1>8 DEF Iret, State, SameQueues
    <2>2. Consistent(k', <<>>)
        BY <1>3, <2>1, Frame DEF Ticked
    <2>3. s.current = k.current
        BY <1>8 DEF Returned
    <2>4. k'.status[k'.current] = "RUNNING"
        BY <1>2, <1>3, <2>1, <2>3 DEF Ticked, SameQueues
    <2>5. CurrentOK(k')
        BY <1>3, <2>1 DEF Ticked, CurrentOK, SameQueues, WithStatus
    <2>6. Unlocked'
        BY <1>1, <1>2, <1>3, <1>5, <1>6, <1>7, <2>1, <2>2, <2>4, <2>5
           DEF Unlocked, Ticked, SameQueues
    <2> QED  BY <2>6, UnlockedNext
<1>9. CASE ~Returned(k, s)
    <2>1. k' = s
        BY <1>4, <1>9
    <2>2. s.ints = (s.status[s.current] # "UNINITIALIZED")
        BY <1>2, <1>3, <1>9 DEF Ticked, SameQueues, Returned
    <2>3. Unlocked'
        BY <1>1, <1>2, <1>3, <1>5, <1>6, <1>7, <2>1, <2>2 DEF Unlocked, Ticked
    <2> QED  BY <2>3, UnlockedNext
<1> QED  BY <1>8, <1>9

\* The tail of a call that was switched out.
LEMMA UnwindOK ==
    ASSUME SchedInv, NEW p \in Proc, UnwindStep(p)
    PROVE  SchedInv'
<1> DEFINE a == [k EXCEPT !.frames[k.current] = @ - 1]
<1>1. /\ k.current = p /\ k.status[p] = "RUNNING" /\ k.frames[p] > 0
      /\ UNCHANGED <<parent, children, pc, target, reap>> /\ k' = SchedUnlock(a)
    BY DEF UnwindStep, Running, Unwind
<1>2. pc[Terminator] # "reap"
    BY <1>1 DEF SchedInv, ControlOK, Running
<1>3. /\ k \in State /\ Consistent(k, <<>>) /\ k.sw = 0 /\ k.flag = FALSE
      /\ reap.waiting = <<>>
    BY <1>1, <1>2, MayCall DEF Calling, MaySwitch, Consistent
<1>4. /\ a \in State /\ SameQueues(k, a) /\ a.sw = 0 /\ a.flag = FALSE /\ a.ints = k.ints
    <2>1. k.frames \in [Proc -> Nat] /\ k.frames[p] - 1 \in Nat
        <3>1. k.frames \in [Proc -> Nat]
            BY Basics
        <3> QED  BY <1>1, <3>1
    <2>2. [k.frames EXCEPT ![p] = @ - 1] \in [Proc -> Nat]
        BY <2>1
    <2> QED  BY <1>1, <1>3, <2>2 DEF State, SameQueues
<1> HIDE DEF a
<1>5. SchedUnlock(a) \in State /\ SameQueues(a, SchedUnlock(a))
    BY <1>4, LockTypes
<1>6. k'.sw = 0 /\ k'.flag = FALSE /\ (k.ints => k'.ints)
    BY <1>1, <1>4 DEF SchedUnlock, State
<1>7. SameQueues(k, k') /\ k' \in State
    BY <1>1, <1>4, <1>5 DEF SameQueues
<1>8. Consistent(k', <<>>)
    BY <1>3, <1>7, Frame
<1>9. Shape'
    BY <1>1, UnlockedInv DEF Shape
<1>10. CurrentOK(k')
    BY <1>7 DEF SameQueues, SchedInv, CurrentRuns, CurrentOK, WithStatus
<1>11. Unlocked'
    BY <1>1, <1>2, <1>3, <1>6, <1>7, <1>8, <1>9, <1>10
       DEF Unlocked, SameQueues, SchedInv, ControlOK
<1> QED  BY <1>11, UnlockedNext

\* The first steps of a new process.
LEMMA PreludeOK ==
    ASSUME SchedInv, NEW p \in Proc, Prelude(p)
    PROVE  SchedInv'
<1> DEFINE a == [k EXCEPT !.status[p] = "RUNNING"]
           s == SchedUnlock(a)
<1>1. /\ k.current = p /\ k.status[p] = "UNINITIALIZED"
      /\ UNCHANGED <<parent, children, pc, target, reap>>
      /\ k' = IF p \in Users THEN Iret(s) ELSE s
    BY DEF Prelude
<1>2. /\ pc[Terminator] # "reap" /\ k.sw = 0 /\ k.flag = FALSE /\ reap.waiting = <<>>
      /\ k.status[Kernel] \in {"RUNNING", "READY_TO_RUN"} /\ p # Kernel
      /\ k.status[Terminator] \in {"UNINITIALIZED", "RUNNING", "READY_TO_RUN"}
    BY <1>1, Basics DEF SchedInv, ControlOK, Running
<1>3. /\ k \in State /\ Consistent(k, <<>>) /\ k.status \in [Proc -> Status]
    BY <1>2, Basics DEF Consistent
<1>4. /\ a \in State /\ a.sw = 0 /\ a.flag = FALSE /\ a.current = p
      /\ a.ready = k.ready /\ a.sleeping = k.sleeping /\ a.dying = k.dying
      /\ a.waitq = k.waitq
      /\ a.status = [k.status EXCEPT ![p] = "RUNNING"]
    <2>1. [k.status EXCEPT ![p] = "RUNNING"] \in [Proc -> Status]
        BY <1>3 DEF Status
    <2> QED  BY <1>1, <1>2, <1>3, <2>1 DEF State
<1> HIDE DEF a
<1>5. a.status[p] = "RUNNING" /\ \A q \in Proc \ {p} : a.status[q] = k.status[q]
    BY <1>3, <1>4
<1>6. /\ WithStatus(a, {"READY_TO_RUN", "UNINITIALIZED"}) \ {p}
           = WithStatus(k, {"READY_TO_RUN", "UNINITIALIZED"}) \ {p}
      /\ WithStatus(a, {"SLEEPING_TIMER"}) = WithStatus(k, {"SLEEPING_TIMER"})
      /\ WithStatus(a, {"READY_TO_DIE"}) = WithStatus(k, {"READY_TO_DIE"})
      /\ \A q \in Proc : a.status[q] = "BLOCKED" <=> k.status[q] = "BLOCKED"
    BY <1>1, <1>5 DEF WithStatus
<1>7. Consistent(a, <<>>)
    BY <1>1, <1>3, <1>4, <1>6 DEF Consistent, QueuesOK, WaitQueuesOK
<1>8. CurrentOK(a)
    BY <1>1, <1>4, <1>5 DEF CurrentOK, SchedInv, CurrentRuns, WithStatus
<1>9. s \in State /\ SameQueues(a, s) /\ s.sw = 0 /\ s.flag = FALSE
    <2>1. s.sw = a.sw /\ s.flag = a.flag
        BY <1>4 DEF SchedUnlock, State
    <2> QED  BY <1>4, <2>1, LockTypes
<1> HIDE DEF s
<1>10. /\ k' \in State /\ SameQueues(a, k') /\ k'.sw = 0 /\ k'.flag = FALSE
       /\ p \in Users => k'.ints
    <2>1. CASE p \in Users
        BY <1>1, <1>9, <2>1 DEF Iret, State, SameQueues
    <2>2. CASE p \notin Users
        BY <1>1, <1>9, <2>2
    <2> QED  BY <2>1, <2>2
<1>11. Consistent(k', <<>>)
    BY <1>7, <1>10, Frame
<1>12. CurrentOK(k')
    BY <1>8, <1>10 DEF CurrentOK, SameQueues, WithStatus
<1>13. Shape'
    BY <1>1, UnlockedInv DEF Shape
<1>14. p # Terminator => k'.ints
    BY <1>2, <1>10 DEF Users, Daemons
<1>15. /\ k'.current = p /\ k'.status[p] = "RUNNING"
       /\ k'.status[Kernel] = k.status[Kernel]
       /\ Terminator # p => k'.status[Terminator] = k.status[Terminator]
    BY <1>2, <1>4, <1>5, <1>10, Distinct DEF SameQueues
<1>16. Unlocked'
    BY <1>1, <1>2, <1>10, <1>11, <1>12, <1>13, <1>14, <1>15 DEF Unlocked
<1> QED  BY <1>16, UnlockedNext

\* The end of kernel_main, and the terminator when nobody is dying.
LEMMA DaemonYieldOK ==
    ASSUME SchedInv, KernelYield \/ TerminatorYield
    PROVE  SchedInv'
<1>1. /\ k.status[k.current] = "RUNNING" /\ pc[Terminator] # "reap"
      /\ k' = SchedYield(k) /\ UNCHANGED <<parent, children, target, reap>>
      /\ \/ Goto(Kernel, "hlt")
         \/ Goto(Terminator, "loop")
    BY Distinct DEF KernelYield, TerminatorYield, At, Running, SchedInv, ControlOK
<1>2. Calling(k, <<>>) /\ reap.waiting = <<>>
    BY <1>1, MayCall
<1>3. SwitchedAway(k, k', <<>>)
    BY <1>1, <1>2, YieldOK DEF Calling
<1>4. Shape' /\ pc'[Terminator] # "reap"
    BY <1>1, UnlockedInv, Distinct DEF Shape, Goto, Label, Users, Daemons
<1>5. /\ k'.status[Kernel] \in {"RUNNING", "READY_TO_RUN"}
      /\ k'.status[Terminator] \in {"UNINITIALIZED", "RUNNING", "READY_TO_RUN"}
    BY <1>3, Distinct DEF SwitchedAway, Quiet, SchedInv, ControlOK
<1>6. Unlocked'
    BY <1>1, <1>2, <1>3, <1>4, <1>5 DEF Unlocked, SwitchedAway
<1> QED  BY <1>6, UnlockedNext

\* What holds inside the terminator's postponed section.
Locked ==
    /\ Shape
    /\ pc[Terminator] = "reap"
    /\ Consistent(k, reap.waiting) /\ CurrentOK(k)
    /\ k.sw = 1 /\ k.flag = FALSE /\ ~k.ints
    /\ k.status[Kernel] \in {"RUNNING", "READY_TO_RUN"}
    /\ k.current = Terminator /\ k.status[Terminator] = "RUNNING"
    /\ k.frames[Terminator] = 0

\* Locked is SchedInv while the terminator sorts out the dead.
LEMMA LockedInv ==
    /\ Locked => SchedInv
    /\ SchedInv /\ pc[Terminator] = "reap" => Locked
<1>1. Locked => SchedInv
    BY DEF Locked, Shape, SchedInv, TypeOK, QueuesMatchStatus, WaitQueuesMatchStatus,
           CurrentRuns, ControlOK, Consistent, Running
<1>2. ASSUME SchedInv, pc[Terminator] = "reap" PROVE Locked
    BY <1>2, Basics, UnlockedInv DEF Locked, SchedInv, CurrentRuns, ControlOK, Running
<1> QED  BY <1>1, <1>2

\* The same in the next state.
LEMMA LockedNext ==
    Locked' => SchedInv'
BY LockedInv, PTL

\* The test of the ready_to_die queue changes nothing but the terminator's pc.
LEMMA TerminatorCheckOK ==
    ASSUME SchedInv, TerminatorCheck
    PROVE  SchedInv'
<1>1. /\ pc[Terminator] = "loop" /\ UNCHANGED <<k, parent, children, target, reap>>
      /\ pc' = [pc EXCEPT ![Terminator] = IF k.dying = <<>> THEN "yield" ELSE "begin"]
    BY DEF TerminatorCheck, At, Goto
<1>2. Shape' /\ pc'[Terminator] # "reap"
    BY <1>1, UnlockedInv, Distinct DEF Shape, Label, Users, Daemons
<1>3. Consistent(k, reap.waiting) /\ k.flag = FALSE
    BY Basics DEF SchedInv, ControlOK
<1>4. Unlocked'
    BY <1>1, <1>2, <1>3 DEF Unlocked, SchedInv, CurrentRuns, ControlOK
<1> QED  BY <1>4, UnlockedNext

\* sched_postpone opens the terminator's section, with interrupts off.
LEMMA TerminatorBeginOK ==
    ASSUME SchedInv, TerminatorBegin
    PROVE  SchedInv'
<1>1. /\ pc[Terminator] = "begin" /\ k.current = Terminator /\ k.frames[Terminator] = 0
      /\ k.status[Terminator] = "RUNNING" /\ k' = SchedPostpone(k)
      /\ pc' = [pc EXCEPT ![Terminator] = "reap"]
      /\ reap' = [waiting |-> <<>>, freed |-> FALSE]
      /\ UNCHANGED <<parent, children, target>>
    BY DEF TerminatorBegin, At, Running, Goto
<1>2. k \in State /\ Calling(k, <<>>)
    BY <1>1, MayCall DEF Calling, MaySwitch, Consistent
<1>3. /\ k' \in State /\ SameQueues(k, k') /\ k'.sw = 1 /\ k'.flag = FALSE
    BY <1>1, <1>2, PostponeEffect DEF Calling
<1>4. ~k'.ints /\ k'.frames = k.frames
    BY <1>1, <1>2 DEF SchedPostpone, State
<1>5. Consistent(k', <<>>)
    BY <1>2, <1>3, Frame DEF Calling, MaySwitch
<1>6. Shape' /\ pc'[Terminator] = "reap"
    <2>1. reap' \in [waiting : Seq(Proc), freed : BOOLEAN]
        BY <1>1
    <2> QED  BY <1>1, <2>1, UnlockedInv, Distinct DEF Shape, Label, Users, Daemons
<1>7. CurrentOK(k')
    BY <1>3 DEF CurrentOK, SameQueues, SchedInv, CurrentRuns, WithStatus
<1>8. Locked'
    BY <1>1, <1>3, <1>4, <1>5, <1>6, <1>7
       DEF Locked, SameQueues, SchedInv, ControlOK
<1> QED  BY <1>8, LockedNext

\* Moving the head of the ready_to_die queue to the waiting list.
LEMMA TerminatorKeepOK ==
    ASSUME SchedInv, TerminatorKeep
    PROVE  SchedInv'
<1> DEFINE h == Head(k.dying)
           t == Tail(k.dying)
           w == reap.waiting
<1>1. /\ pc[Terminator] = "reap" /\ k.dying # <<>>
      /\ k' = [k EXCEPT !.dying = t]
      /\ reap' = [reap EXCEPT !.waiting = <<h>> \o w]
      /\ UNCHANGED <<parent, children, pc, target>>
    BY DEF TerminatorKeep, At
<1>2. Locked
    BY <1>1, LockedInv
<1>3. /\ k \in State /\ k.dying \in Seq(Proc) /\ w \in Seq(Proc)
      /\ QueuesOK(k, w) /\ WaitQueuesOK(k) /\ reap \in [waiting : Seq(Proc), freed : BOOLEAN]
    BY <1>2, Basics DEF Locked, Consistent, Shape
<1>4. /\ h \in Proc /\ t \in Seq(Proc) /\ Range(k.dying) = {h} \cup Range(t)
      /\ IsInjective(k.dying) => IsInjective(t) /\ h \notin Range(t)
    BY <1>1, <1>3, PopHead
<1> HIDE DEF h, t, w
<1>5. /\ IsInjective(k.dying) /\ IsInjective(w) /\ Range(k.dying) \cap Range(w) = {}
      /\ Range(k.dying \o w) = Range(k.dying) \cup Range(w)
    <2>1. IsInjective(k.dying \o w)
        BY <1>3 DEF QueuesOK
    <2> QED  BY <1>3, <2>1, Splice
<1> DEFINE v == <<h>> \o w
<1>6. /\ v \in Seq(Proc) /\ Range(v) = Range(w) \cup {h} /\ IsInjective(v)
    BY <1>3, <1>4, <1>5, PushHead
<1>7. reap' = [reap EXCEPT !.waiting = v]
    BY <1>1
<1> HIDE DEF v
<1>8. IsInjective(t \o v) /\ Range(t \o v) = Range(k.dying \o w)
    <2>1. Range(t) \cap Range(v) = {}
        BY <1>4, <1>5, <1>6
    <2>2. IsInjective(t \o v) /\ Range(t \o v) = Range(t) \cup Range(v)
        BY <1>4, <1>5, <1>6, <2>1, Splice
    <2> QED  BY <1>4, <1>5, <1>6, <2>2
<1>9. /\ k' \in State /\ k'.dying = t /\ k'.current = k.current
      /\ k'.status = k.status /\ k'.ready = k.ready /\ k'.sleeping = k.sleeping
      /\ k'.waitq = k.waitq /\ k'.sw = k.sw /\ k'.flag = k.flag
      /\ k'.ints = k.ints /\ k'.frames = k.frames
    BY <1>1, <1>3, <1>4 DEF State
<1>10. reap'.waiting = v /\ reap' \in [waiting : Seq(Proc), freed : BOOLEAN]
    BY <1>3, <1>6, <1>7
<1>11. QueuesOK(k', v)
    BY <1>3, <1>8, <1>9 DEF QueuesOK, WithStatus
<1>12. Consistent(k', reap'.waiting)
    BY <1>2, <1>3, <1>6, <1>9, <1>10, <1>11 DEF Consistent, WaitQueuesOK, Locked
<1>13. Shape'
    BY <1>1, <1>2, <1>10 DEF Shape, Locked
<1>14. CurrentOK(k')
    BY <1>2, <1>9 DEF Locked, CurrentOK, WithStatus
<1>15. Locked'
    BY <1>1, <1>2, <1>9, <1>12, <1>13, <1>14 DEF Locked
<1> QED  BY <1>15, LockedNext

\* Freeing a dead process that has been unlinked from the ready_to_die queue.
LEMMA FreeEffect ==
    ASSUME NEW a, NEW b, NEW w, NEW c \in Proc,
           Consistent(a, w), a.status[c] = "READY_TO_DIE", CurrentOK(a),
           b \in State, b.current = a.current, b.ready = a.ready,
           b.sleeping = a.sleeping, b.waitq = a.waitq,
           b.status = [a.status EXCEPT ![c] = "FREED"],
           IsInjective(b.dying \o w), Range(b.dying \o w) = Range(a.dying \o w) \ {c}
    PROVE  Consistent(b, w) /\ CurrentOK(b)
<1>1. a.status \in [Proc -> Status] /\ a.current \in Proc /\ w \in Seq(Proc)
      /\ QueuesOK(a, w) /\ WaitQueuesOK(a)
    BY DEF Consistent, State
<1>2. b.status[c] = "FREED" /\ \A p \in Proc \ {c} : b.status[p] = a.status[p]
    BY <1>1
<1>3. /\ WithStatus(b, {"READY_TO_RUN", "UNINITIALIZED"})
           = WithStatus(a, {"READY_TO_RUN", "UNINITIALIZED"})
      /\ WithStatus(b, {"SLEEPING_TIMER"}) = WithStatus(a, {"SLEEPING_TIMER"})
      /\ WithStatus(b, {"RUNNING"}) = WithStatus(a, {"RUNNING"})
    BY <1>2 DEF WithStatus
<1>4. WithStatus(b, {"READY_TO_DIE"}) = WithStatus(a, {"READY_TO_DIE"}) \ {c}
    BY <1>2 DEF WithStatus
<1>5. \A p \in Proc : b.status[p] = "BLOCKED" <=> a.status[p] = "BLOCKED"
    BY <1>2
<1>6. QueuesOK(b, w)
    BY <1>1, <1>3, <1>4 DEF QueuesOK
<1>7. WaitQueuesOK(b)
    BY <1>1, <1>5 DEF WaitQueuesOK
<1>8. CurrentOK(b)
    BY <1>2, <1>3 DEF CurrentOK
<1> QED  BY <1>1, <1>6, <1>7, <1>8 DEF Consistent

\* What proc_free does to the family tree keeps its types.
LEMMA FreeShape ==
    ASSUME Shape, NEW s, NEW p \in Proc, ProcFree(s, p)
    PROVE  /\ parent' \in [Proc -> Proc \cup {NoProc}]
           /\ children' \in [Proc -> SUBSET Proc]
<1>1. parent \in [Proc -> Proc \cup {NoProc}] /\ children \in [Proc -> SUBSET Proc]
    BY DEF Shape
<1>2. parent' = [c \in Proc |-> IF c \in children[p] \cup {p} THEN NoProc ELSE parent[c]]
    BY DEF ProcFree
<1>3. children' = [q \in Proc |-> IF q = p THEN {}
                                 ELSE IF q = parent[p]
                                 THEN children[q] \ {p} ELSE children[q]]
    BY DEF ProcFree
<1>4. \A q \in Proc : (IF q = p THEN {} ELSE IF q = parent[p]
                       THEN children[q] \ {p} ELSE children[q]) \in SUBSET Proc
    BY <1>1
<1> QED  BY <1>1, <1>2, <1>3, <1>4

\* Freeing the head of the ready_to_die queue keeps the queues exact.
LEMMA TerminatorFreeOK ==
    ASSUME SchedInv, TerminatorFree
    PROVE  SchedInv'
<1> DEFINE h == Head(k.dying)
           t == Tail(k.dying)
           w == reap.waiting
<1>1. /\ pc[Terminator] = "reap" /\ k.dying # <<>>
      /\ ProcFree([k EXCEPT !.dying = t], h)
      /\ reap' = [reap EXCEPT !.freed = TRUE]
      /\ UNCHANGED <<pc, target>>
    BY DEF TerminatorFree, At
<1>2. Locked
    BY <1>1, LockedInv
<1>3. /\ k \in State /\ k.dying \in Seq(Proc) /\ w \in Seq(Proc)
      /\ QueuesOK(k, w) /\ reap \in [waiting : Seq(Proc), freed : BOOLEAN]
      /\ k.status \in [Proc -> Status]
    BY <1>2, Basics DEF Locked, Consistent, Shape
<1>4. /\ h \in Proc /\ t \in Seq(Proc) /\ Range(k.dying) = {h} \cup Range(t)
      /\ IsInjective(k.dying) => IsInjective(t) /\ h \notin Range(t)
    BY <1>1, <1>3, PopHead
<1>5. k' = [[k EXCEPT !.dying = t] EXCEPT !.status[h] = "FREED"]
    BY <1>1 DEF ProcFree
<1> HIDE DEF h, t, w
<1>6. /\ IsInjective(k.dying) /\ IsInjective(w) /\ Range(k.dying) \cap Range(w) = {}
      /\ Range(k.dying \o w) = Range(k.dying) \cup Range(w)
    <2>1. IsInjective(k.dying \o w)
        BY <1>3 DEF QueuesOK
    <2> QED  BY <1>3, <2>1, Splice
<1>7. IsInjective(t \o w) /\ Range(t \o w) = Range(k.dying \o w) \ {h}
    <2>1. Range(t) \cap Range(w) = {}
        BY <1>4, <1>6
    <2>2. IsInjective(t \o w) /\ Range(t \o w) = Range(t) \cup Range(w)
        BY <1>3, <1>4, <1>6, <2>1, Splice
    <2> QED  BY <1>4, <1>6, <2>2
<1>8. k.status[h] = "READY_TO_DIE"
    BY <1>3, <1>4, <1>6 DEF QueuesOK, WithStatus
<1>9. /\ k' \in State /\ k'.dying = t /\ k'.current = k.current
      /\ k'.status = [k.status EXCEPT ![h] = "FREED"]
      /\ k'.ready = k.ready /\ k'.sleeping = k.sleeping
      /\ k'.waitq = k.waitq /\ k'.sw = k.sw /\ k'.flag = k.flag
      /\ k'.ints = k.ints /\ k'.frames = k.frames
    <2>1. [k.status EXCEPT ![h] = "FREED"] \in [Proc -> Status]
        BY <1>3 DEF Status
    <2> QED  BY <1>3, <1>4, <1>5, <2>1 DEF State
<1>10. reap'.waiting = w /\ reap' \in [waiting : Seq(Proc), freed : BOOLEAN]
    BY <1>1, <1>3 DEF w
<1>11. Consistent(k', w) /\ CurrentOK(k')
    <2>1. Consistent(k, w) /\ CurrentOK(k)
        BY <1>2 DEF Locked, w
    <2> QED  BY <1>4, <1>7, <1>8, <1>9, <2>1, FreeEffect
<1>12. Shape'
    BY <1>1, <1>2, <1>4, <1>10, FreeShape DEF Shape, Locked, h, t
<1>13. /\ h # Terminator /\ h # Kernel
       /\ k'.status[Terminator] = k.status[Terminator]
       /\ k'.status[Kernel] = k.status[Kernel]
    BY <1>2, <1>3, <1>8, <1>9, Distinct DEF Locked
<1>14. Locked'
    BY <1>1, <1>2, <1>9, <1>10, <1>11, <1>12, <1>13 DEF Locked
<1> QED  BY <1>14, LockedNext

\* The processes kept for their parents go back to the ready_to_die queue.
LEMMA TerminatorEndOK ==
    ASSUME SchedInv, TerminatorEnd
    PROVE  SchedInv'
<1> DEFINE w == reap.waiting
           a == [k EXCEPT !.dying = w]
<1>1. /\ pc[Terminator] = "reap" /\ k.dying = <<>> /\ k' = SchedResume(a)
      /\ reap' = [reap EXCEPT !.waiting = <<>>]
      /\ pc' = [pc EXCEPT ![Terminator] = IF reap.freed THEN "loop" ELSE "yield"]
      /\ UNCHANGED <<parent, children, target>>
    BY DEF TerminatorEnd, At, Goto
<1>2. Locked
    BY <1>1, LockedInv
<1>3. /\ k \in State /\ w \in Seq(Proc)
      /\ QueuesOK(k, w) /\ WaitQueuesOK(k) /\ reap \in [waiting : Seq(Proc), freed : BOOLEAN]
    BY <1>2, Basics DEF Locked, Consistent, Shape
<1>4. /\ a \in State /\ a.dying = w /\ a.current = k.current
      /\ a.status = k.status /\ a.ready = k.ready /\ a.sleeping = k.sleeping
      /\ a.waitq = k.waitq /\ a.sw = 1 /\ a.flag = FALSE
    BY <1>2, <1>3 DEF State, Locked
<1> HIDE DEF a, w
<1>5. <<>> \o w = w /\ w \o <<>> = w /\ <<>> \in Seq(Proc)
    BY <1>3
<1>6. Consistent(a, <<>>)
    <2>1. QueuesOK(a, <<>>)
        BY <1>1, <1>3, <1>4, <1>5 DEF QueuesOK, WithStatus
    <2> QED  BY <1>2, <1>3, <1>4, <1>5, <2>1 DEF Consistent, WaitQueuesOK, Locked
<1>7. /\ k' \in State /\ SameQueues(a, k') /\ k'.sw = Dec(1) /\ k'.flag = FALSE
    <2>1. /\ SchedResume(a) \in State /\ SameQueues(a, SchedResume(a))
          /\ SchedResume(a).sw = Dec(a.sw) /\ SchedResume(a).flag = FALSE
        BY <1>4, ResumeReturn
    <2> QED  BY <1>1, <1>4, <2>1
<1>8. k'.sw = 0
    BY <1>7 DEF Dec
<1>9. Consistent(k', <<>>)
    BY <1>6, <1>7, Frame
<1>10. CurrentOK(k')
    BY <1>2, <1>4, <1>7 DEF Locked, CurrentOK, SameQueues, WithStatus
<1>11. reap'.waiting = <<>> /\ reap' \in [waiting : Seq(Proc), freed : BOOLEAN]
    BY <1>1, <1>3, <1>5
<1>12. Shape' /\ pc'[Terminator] # "reap"
    BY <1>1, <1>2, <1>11, Distinct DEF Shape, Locked, Label, Users, Daemons
<1>13. /\ k'.current = Terminator /\ k'.status[Terminator] = "RUNNING"
       /\ k'.status[Kernel] \in {"RUNNING", "READY_TO_RUN"}
    BY <1>2, <1>4, <1>7 DEF Locked, SameQueues
<1>14. Unlocked'
    BY <1>7, <1>8, <1>9, <1>10, <1>11, <1>12, <1>13 DEF Unlocked
<1> QED  BY <1>14, UnlockedNext

\* A user process that has the CPU is outside the terminator's section.
LEMMA UserRuns ==
    ASSUME SchedInv, NEW p \in Users, k.current = p, k.status[p] = "RUNNING"
    PROVE  /\ p \in Proc /\ p # Terminator /\ p # Kernel
           /\ pc[Terminator] # "reap"
           /\ Calling(Entry, <<>>) /\ SameQueues(k, Entry) /\ reap.waiting = <<>>
           /\ Entry \in State
<1>1. p \in Proc /\ p # Terminator /\ p # Kernel
    BY DEF Users, Daemons
<1>2. pc[Terminator] # "reap"
    BY <1>1 DEF SchedInv, ControlOK, Running
<1> QED  BY <1>1, <1>2, MayCall DEF Calling, MaySwitch, Consistent

\* The other variables after a step of a user process.
LEMMA UserShape ==
    ASSUME Shape, NEW p \in Users, NEW l \in {"user", "wait_child", "wait_any", "dead"},
           pc' = pc \/ pc' = [pc EXCEPT ![p] = l],
           target' = target \/ (\E c \in Proc \cup {NoProc} :
                                   target' = [target EXCEPT ![p] = c]),
           UNCHANGED <<parent, children, reap>>
    PROVE  Shape' /\ pc'[Terminator] = pc[Terminator]
<1>1. p \in Proc /\ p # Terminator /\ p # Kernel
    BY DEF Users, Daemons
<1>2. pc' \in [Proc -> Label] /\ pc'[Terminator] = pc[Terminator]
      /\ pc'[Kernel] = pc[Kernel]
      /\ \A u \in Users : pc'[u] \in {"user", "wait_child", "wait_any", "dead"}
    BY <1>1, Distinct DEF Shape, Label, Users
<1>3. target' \in [Proc -> Proc \cup {NoProc}]
    BY DEF Shape
<1> QED  BY <1>2, <1>3 DEF Shape

\* nanosleep moves the caller to the sleeping queue and switches.
LEMMA NanosleepOK ==
    ASSUME SchedInv, NEW p \in Users, NEW n \in Nat, Nanosleep(p, n)
    PROVE  SchedInv'
<1>1. /\ k.current = p /\ k.status[p] = "RUNNING" /\ k' = SleepCurrentNs(Entry, n)
      /\ UNCHANGED <<parent, children, pc, target, reap>>
    BY DEF Nanosleep, At, Running
<1>2. /\ p \in Proc /\ p # Terminator /\ p # Kernel /\ pc[Terminator] # "reap"
      /\ Calling(Entry, <<>>) /\ SameQueues(k, Entry) /\ reap.waiting = <<>>
    BY <1>1, UserRuns
<1>3. GaveUp(Entry, k', <<>>, "SLEEPING_TIMER")
    BY <1>1, <1>2, SleepOK
<1>4. Shape'
    BY <1>1, UnlockedInv DEF Shape
<1>5. /\ k'.status[Kernel] \in {"RUNNING", "READY_TO_RUN"}
      /\ k'.status[Terminator] \in {"UNINITIALIZED", "RUNNING", "READY_TO_RUN"}
    BY <1>1, <1>2, <1>3, Distinct DEF GaveUp, SameQueues, SchedInv, ControlOK
<1>6. Unlocked'
    BY <1>1, <1>2, <1>3, <1>4, <1>5 DEF Unlocked, GaveUp
<1> QED  BY <1>6, UnlockedNext

\* waitpid goes to sleep on one of the two kinds of wait queues.
LEMMA WaitpidSleepOK ==
    ASSUME SchedInv, NEW p \in Users, NEW q \in WaitQueue,
           NEW l \in {"wait_child", "wait_any"}, NEW c \in Proc,
           At(p, "user"),
           k' = WaitQueueSleepPostponed(SchedPostpone(Entry), q),
           target' = target \/ target' = [target EXCEPT ![p] = c],
           Goto(p, l), UNCHANGED <<parent, children, reap>>
    PROVE  SchedInv'
<1>1. k.current = p /\ k.status[p] = "RUNNING"
    BY DEF At, Running
<1>2. /\ p \in Proc /\ p # Terminator /\ p # Kernel /\ pc[Terminator] # "reap"
      /\ Calling(Entry, <<>>) /\ SameQueues(k, Entry) /\ reap.waiting = <<>>
    BY <1>1, UserRuns
<1>3. GaveUp(Entry, k', <<>>, "BLOCKED")
    BY <1>2, BlockOK
<1>4. Shape' /\ pc'[Terminator] # "reap"
    BY <1>2, UnlockedInv, UserShape DEF Goto
<1>5. /\ k'.status[Kernel] \in {"RUNNING", "READY_TO_RUN"}
      /\ k'.status[Terminator] \in {"UNINITIALIZED", "RUNNING", "READY_TO_RUN"}
    BY <1>1, <1>2, <1>3, Distinct DEF GaveUp, SameQueues, SchedInv, ControlOK
<1>6. reap'.waiting = <<>>
    BY <1>2
<1>7. Unlocked'
    BY <1>3, <1>4, <1>5, <1>6 DEF Unlocked, GaveUp
<1> QED  BY <1>7, UnlockedNext

\* Each process owns two wait queues: exit_waiters and child_waiters.
LEMMA QueueNames ==
    ASSUME NEW p \in Proc
    PROVE  ExitWaiters(p) \in WaitQueue /\ ChildWaiters(p) \in WaitQueue
BY ProcAssumption DEF ExitWaiters, ChildWaiters

\* What Exit does to the scheduler state, for a process with or without a parent.
LEMMA ExitEffect ==
    ASSUME SchedInv, NEW p \in Users, Exit(p)
    PROVE  Exited(Entry, k', <<>>,
                  IF parent[p] = NoProc THEN {}
                  ELSE {ExitWaiters(p), ChildWaiters(parent[p])})
<1>1. /\ k.current = p /\ k.status[p] = "RUNNING"
      /\ k' = ProcExit(Entry, p, IF parent[p] = NoProc THEN {}
                                 ELSE {<<ExitWaiters(p), ChildWaiters(parent[p])>>})
    BY DEF Exit, At, Running
<1>2. /\ p \in Proc /\ Calling(Entry, <<>>) /\ Entry.current = p
    BY <1>1, UserRuns DEF SameQueues
<1>3. CASE parent[p] = NoProc
    BY <1>1, <1>2, <1>3, ExitAlone
<1>4. CASE parent[p] # NoProc
    <2>1. parent[p] \in Proc
        BY <1>2, <1>4 DEF SchedInv, TypeOK
    <2>2. ExitWaiters(p) \in WaitQueue /\ ChildWaiters(parent[p]) \in WaitQueue
        BY <1>2, <2>1, QueueNames
    <2>3. Exited(Entry, ProcExit(Entry, Entry.current,
                                 {<<ExitWaiters(p), ChildWaiters(parent[p])>>}),
                 <<>>, {ExitWaiters(p), ChildWaiters(parent[p])})
        BY <1>2, <2>2, ExitWakes
    <2> QED  BY <1>1, <1>2, <1>4, <2>3
<1> QED  BY <1>3, <1>4

\* proc_exit moves the caller to the ready_to_die queue and switches.
LEMMA ExitOK ==
    ASSUME SchedInv, NEW p \in Users, Exit(p)
    PROVE  SchedInv'
<1>1. /\ k.current = p /\ k.status[p] = "RUNNING"
      /\ Goto(p, "dead") /\ UNCHANGED <<parent, children, target, reap>>
    BY DEF Exit, At, Running
<1>2. /\ p \in Proc /\ p # Terminator /\ p # Kernel /\ pc[Terminator] # "reap"
      /\ SameQueues(k, Entry) /\ reap.waiting = <<>>
    BY <1>1, UserRuns
<1> DEFINE W == IF parent[p] = NoProc THEN {}
                ELSE {ExitWaiters(p), ChildWaiters(parent[p])}
<1>3. Exited(Entry, k', <<>>, W)
    BY ExitEffect
<1> HIDE DEF W
<1>4. Shape' /\ pc'[Terminator] # "reap"
    BY <1>1, <1>2, UnlockedInv, UserShape DEF Goto
<1>5. /\ k'.status[Kernel] \in {"RUNNING", "READY_TO_RUN"}
      /\ k'.status[Terminator] \in {"UNINITIALIZED", "RUNNING", "READY_TO_RUN"}
    BY <1>1, <1>2, <1>3, Distinct DEF Exited, SameQueues, SchedInv, ControlOK
<1>6. Unlocked'
    BY <1>1, <1>2, <1>3, <1>4, <1>5 DEF Unlocked, Exited
<1> QED  BY <1>6, UnlockedNext

\* fork_proc appends a fresh process to the ready queue.
LEMMA ForkOK ==
    ASSUME SchedInv, NEW p \in Users, NEW c \in Users, Fork(p, c)
    PROVE  SchedInv'
<1>1. /\ k.current = p /\ k.status[p] = "RUNNING" /\ k.status[c] = "UNUSED"
      /\ k' = [k EXCEPT !.status[c] = "READY_TO_RUN", !.ready = Append(@, c)]
      /\ parent' = [parent EXCEPT ![c] = p]
      /\ children' = [children EXCEPT ![p] = @ \cup {c}]
      /\ UNCHANGED <<pc, target, reap>>
    BY DEF Fork, At, Running
<1>2. /\ p \in Proc /\ p # Terminator /\ p # Kernel /\ pc[Terminator] # "reap"
      /\ reap.waiting = <<>> /\ c \in Proc /\ c # Terminator /\ c # Kernel
    BY <1>1, UserRuns DEF Users, Daemons
<1>3. /\ k \in State /\ Consistent(k, <<>>) /\ k.status \in [Proc -> Status]
      /\ k.ready \in Seq(Proc) /\ QueuesOK(k, <<>>) /\ WaitQueuesOK(k)
    BY <1>2, Basics DEF Consistent
<1> DEFINE st == [k.status EXCEPT ![c] = "READY_TO_RUN"]
           r == Append(k.ready, c)
<1>4. st \in [Proc -> Status] /\ st[c] = "READY_TO_RUN"
      /\ \A q \in Proc \ {c} : st[q] = k.status[q]
    BY <1>2, <1>3 DEF Status
<1>5. c \notin Range(k.ready) /\ IsInjective(k.ready)
    BY <1>1, <1>3 DEF QueuesOK, WithStatus
<1>6. r \in Seq(Proc) /\ IsInjective(r) /\ Range(r) = Range(k.ready) \cup {c}
    BY <1>2, <1>3, <1>5, PushTail
<1>7. k' = [k EXCEPT !.status = st, !.ready = r]
    BY <1>1
<1> HIDE DEF st, r
<1>8. k' \in State
    BY <1>3, <1>4, <1>6, <1>7, Zenon DEF State
<1>9. /\ k'.status = st /\ k'.ready = r /\ k'.current = p /\ k'.sleeping = k.sleeping
      /\ k'.dying = k.dying /\ k'.waitq = k.waitq /\ k'.sw = k.sw
      /\ k'.flag = k.flag /\ k'.ints = k.ints
    BY <1>1, <1>3, <1>7 DEF State
<1>10. c # p
    BY <1>1
<1>11. /\ WithStatus(k', {"READY_TO_RUN", "UNINITIALIZED"})
            = WithStatus(k, {"READY_TO_RUN", "UNINITIALIZED"}) \cup {c}
       /\ WithStatus(k', {"SLEEPING_TIMER"}) = WithStatus(k, {"SLEEPING_TIMER"})
       /\ WithStatus(k', {"READY_TO_DIE"}) = WithStatus(k, {"READY_TO_DIE"})
       /\ WithStatus(k', {"RUNNING"}) = WithStatus(k, {"RUNNING"})
       /\ \A q \in Proc : k'.status[q] = "BLOCKED" <=> k.status[q] = "BLOCKED"
    BY <1>1, <1>2, <1>4, <1>9 DEF WithStatus
<1>12. QueuesOK(k', <<>>)
    BY <1>1, <1>3, <1>6, <1>9, <1>10, <1>11 DEF QueuesOK
<1>13. WaitQueuesOK(k')
    BY <1>3, <1>9, <1>11 DEF WaitQueuesOK
<1>14. Consistent(k', <<>>)
    BY <1>2, <1>3, <1>8, <1>9, <1>12, <1>13 DEF Consistent
<1>15. CurrentOK(k')
    BY <1>1, <1>2, <1>4, <1>9, <1>10, <1>11 DEF CurrentOK, SchedInv, CurrentRuns
<1>16. Shape'
    <2>1. parent' \in [Proc -> Proc \cup {NoProc}] /\ children' \in [Proc -> SUBSET Proc]
        BY <1>1, <1>2, UnlockedInv DEF Shape
    <2> QED  BY <1>1, <2>1, UnlockedInv DEF Shape
<1>17. /\ k'.status[Kernel] = k.status[Kernel]
       /\ k'.status[Terminator] = k.status[Terminator]
       /\ k'.status[p] = "RUNNING"
    BY <1>1, <1>2, <1>4, <1>9, <1>10, Distinct
<1>18. Unlocked'
    BY <1>1, <1>2, <1>9, <1>14, <1>15, <1>16, <1>17, Basics
       DEF Unlocked, SchedInv, ControlOK
<1> QED  BY <1>18, UnlockedNext

\* process_wait_collect and the return to user mode.
Collected(c) ==
    /\ Consistent(k', <<>>) /\ CurrentOK(k')
    /\ k'.current = k.current /\ k'.waitq = k.waitq /\ k'.sleeping = k.sleeping
    /\ k'.irq = k.irq /\ k'.frames = k.frames /\ k'.left = k.left
    /\ k'.status = [k.status EXCEPT ![c] = "FREED"]
    /\ k'.sw = 0 /\ k'.flag = FALSE /\ k'.ints = TRUE

\* What process_wait_collect does to the scheduler: the child leaves the
\* ready_to_die queue and is freed.
LEMMA CollectEffect ==
    ASSUME SchedInv, NEW p \in Users, k.current = p, k.status[p] = "RUNNING",
           NEW c \in Proc, k.status[c] = "READY_TO_DIE",
           NEW s, s = Entry \/ s = k, Collect(s, c)
    PROVE  Collected(c)
<1>1. /\ s \in State /\ SameQueues(k, s) /\ s.sw = 0 /\ s.flag = FALSE
      /\ Consistent(s, <<>>) /\ k.current \in Proc
      /\ s.irq = k.irq /\ s.frames = k.frames /\ s.left = k.left
    <2>1. /\ Calling(Entry, <<>>) /\ SameQueues(k, Entry) /\ Calling(k, <<>>)
        BY UserRuns, MayCall
    <2>2. SameQueues(k, k)
        BY DEF SameQueues
    <2>3. k.current \in Proc
        BY DEF Users
    <2>4. Entry.irq = k.irq /\ Entry.frames = k.frames /\ Entry.left = k.left
        BY Basics DEF Consistent, State, Entry
    <2> QED  BY <2>1, <2>2, <2>3, <2>4 DEF Calling, MaySwitch, Consistent
<1> DEFINE a == SchedPostpone(s)
           d == Without(k.dying, c)
           b == [a EXCEPT !.dying = Without(@, c)]
           e == SchedResume(b)
           f == Iret(e)
<1>2. /\ a \in State /\ SameQueues(s, a) /\ a.sw = 1 /\ a.flag = FALSE
      /\ a.irq = k.irq + 1 /\ a.frames = k.frames /\ a.left = k.left
    BY <1>1, PostponeEffect
<1>3. k' = [f EXCEPT !.status[c] = "FREED"]
    BY DEF Collect, ProcFree
<1> HIDE DEF a
<1>4. /\ k.dying \in Seq(Proc) /\ IsInjective(k.dying \o <<>>) /\ c \in Range(k.dying \o <<>>)
      /\ k.dying \o <<>> = k.dying /\ k.status \in [Proc -> Status]
    <2>1. k.dying \in Seq(Proc) /\ k.status \in [Proc -> Status]
        BY Basics
    <2>2. QueuesOK(k, <<>>)
        BY <1>1 DEF Consistent, SameQueues, QueuesOK, WithStatus
    <2>3. k.dying \o <<>> = k.dying
        BY <2>1
    <2> QED  BY <2>1, <2>2, <2>3 DEF QueuesOK, WithStatus
<1>5. d \in Seq(Proc) /\ IsInjective(d) /\ Range(d) = Range(k.dying) \ {c}
    <2>1. IsInjective(k.dying) /\ c \in Range(k.dying)
        BY <1>4, Zenon
    <2> QED  BY <1>4, <2>1, RemoveOnce
<1>6. b = [a EXCEPT !.dying = d]
    BY <1>1, <1>2 DEF SameQueues
<1> HIDE DEF d
<1>7. /\ b \in State /\ b.dying = d /\ b.current = k.current /\ b.status = k.status
      /\ b.ready = k.ready /\ b.sleeping = k.sleeping /\ b.waitq = k.waitq
      /\ b.sw = 1 /\ b.flag = FALSE
      /\ b.irq = k.irq + 1 /\ b.frames = k.frames /\ b.left = k.left
    BY <1>1, <1>2, <1>5, <1>6 DEF State, SameQueues
<1> HIDE DEF b
<1>8. /\ e \in State /\ SameQueues(b, e) /\ e.sw = 0 /\ e.flag = FALSE
      /\ e.irq = k.irq /\ e.frames = k.frames /\ e.left = k.left
    <2>1. /\ e \in State /\ SameQueues(b, e) /\ e.sw = Dec(b.sw) /\ e.flag = FALSE
          /\ e.irq = Dec(b.irq) /\ e.frames = b.frames /\ e.left = b.left
        BY <1>7, ResumeReturn
    <2>2. Dec(b.sw) = 0
        BY <1>7 DEF Dec
    <2>3. Dec(k.irq + 1) = k.irq
        BY Basics, Counters DEF Consistent
    <2> QED  BY <1>7, <2>1, <2>2, <2>3
<1> HIDE DEF e
<1>9. /\ f \in State /\ SameQueues(b, f) /\ f.sw = 0 /\ f.flag = FALSE /\ f.ints = TRUE
      /\ f.irq = k.irq /\ f.frames = k.frames /\ f.left = k.left
    BY <1>8 DEF Iret, State, SameQueues
<1> HIDE DEF f
<1>10. [k.status EXCEPT ![c] = "FREED"] \in [Proc -> Status]
    BY <1>4 DEF Status
<1>11. /\ k' \in State /\ k'.status = [k.status EXCEPT ![c] = "FREED"]
       /\ k'.dying = d /\ k'.current = k.current /\ k'.ready = k.ready
       /\ k'.sleeping = k.sleeping /\ k'.waitq = k.waitq /\ k'.sw = 0
       /\ k'.flag = FALSE /\ k'.ints = TRUE
       /\ k'.irq = k.irq /\ k'.frames = k.frames /\ k'.left = k.left
    BY <1>3, <1>7, <1>9, <1>10 DEF State, SameQueues
<1>12. d \o <<>> = d
    BY <1>5
<1>13. Consistent(k, <<>>) /\ CurrentOK(k)
    <2>1. reap.waiting = <<>>
        BY UserRuns
    <2> QED  BY <2>1, Basics DEF SchedInv, CurrentRuns
<1>14. Consistent(k', <<>>) /\ CurrentOK(k')
    BY <1>4, <1>5, <1>11, <1>12, <1>13, FreeEffect
<1> QED  BY <1>11, <1>14 DEF Collected

\* process_wait_collect keeps the scheduler consistent.
LEMMA CollectOK ==
    ASSUME SchedInv, NEW p \in Users, k.current = p, k.status[p] = "RUNNING",
           NEW c \in Proc, k.status[c] = "READY_TO_DIE",
           NEW s, s = Entry \/ s = k, Collect(s, c),
           UNCHANGED <<pc, target, reap>> \/
             (/\ pc' = [pc EXCEPT ![p] = "user"]
              /\ target' = [target EXCEPT ![p] = NoProc]
              /\ UNCHANGED reap)
    PROVE  SchedInv'
<1>1. /\ p \in Proc /\ p # Terminator /\ p # Kernel /\ pc[Terminator] # "reap"
      /\ reap.waiting = <<>>
    BY UserRuns
<1>2. Collected(c)
    BY CollectEffect
<1>3. /\ parent' \in [Proc -> Proc \cup {NoProc}] /\ children' \in [Proc -> SUBSET Proc]
    BY UnlockedInv, FreeShape DEF Collect
<1>4. Shape' /\ pc'[Terminator] # "reap" /\ reap' = reap
    <2>1. Shape
        BY UnlockedInv
    <2>2. /\ pc' \in [Proc -> Label] /\ pc'[Terminator] = pc[Terminator]
          /\ pc'[Kernel] = pc[Kernel] /\ reap' = reap
          /\ \A u \in Users : pc'[u] \in {"user", "wait_child", "wait_any", "dead"}
          /\ target' \in [Proc -> Proc \cup {NoProc}]
        BY <1>1, <2>1, Distinct DEF Shape, Label, Users
    <2> QED  BY <1>1, <1>3, <2>1, <2>2 DEF Shape
<1>5. k.status \in [Proc -> Status]
    BY Basics
<1>6. /\ k.status[Kernel] \in {"RUNNING", "READY_TO_RUN"}
      /\ k.status[Terminator] \in {"UNINITIALIZED", "RUNNING", "READY_TO_RUN"}
    BY DEF SchedInv, ControlOK
<1>7. c # Kernel /\ c # Terminator /\ c # p
    BY <1>6
<1>8. /\ k'.status[Kernel] = k.status[Kernel]
      /\ k'.status[Terminator] = k.status[Terminator]
      /\ k'.status[k'.current] = "RUNNING"
    BY <1>1, <1>2, <1>5, <1>7, Distinct DEF Collected
<1>9. Unlocked'
    BY <1>1, <1>2, <1>4, <1>6, <1>8 DEF Unlocked, Collected
<1> QED  BY <1>9, UnlockedNext

\* The second half of waitpid, with or without a child to collect.
LEMMA WaitpidWokenOK ==
    ASSUME SchedInv, NEW p \in Proc, WaitpidWoken(p)
    PROVE  SchedInv'
<1>1. /\ k.current = p /\ k.status[p] = "RUNNING"
      /\ pc[p] \in {"wait_child", "wait_any"}
      /\ target' = [target EXCEPT ![p] = NoProc]
      /\ pc' = [pc EXCEPT ![p] = "user"] /\ UNCHANGED reap
    BY DEF WaitpidWoken, At, Running, Goto
<1>2. p \in Users
    BY <1>1 DEF SchedInv, ControlOK, Users, Daemons
<1>3. CASE Found(p) # {}
    <2>1. PICK c \in Found(p) : Collect(k, c)
        BY <1>3 DEF WaitpidWoken
    <2>2. c \in Proc /\ k.status[c] = "READY_TO_DIE"
        BY UnlockedInv DEF Found, Zombies, Shape
    <2> QED  BY <1>1, <1>2, <2>1, <2>2, CollectOK
<1>4. CASE Found(p) = {}
    <2>1. k' = Iret(k) /\ UNCHANGED <<parent, children>>
        BY <1>4 DEF WaitpidWoken
    <2>2. /\ p # Terminator /\ pc[Terminator] # "reap" /\ reap.waiting = <<>>
        BY <1>1, <1>2, UserRuns
    <2>3. k \in State /\ Consistent(k, <<>>) /\ k.sw = 0 /\ k.flag = FALSE
        BY <2>2, Basics DEF Consistent, SchedInv, ControlOK
    <2>4. /\ k' \in State /\ SameQueues(k, k') /\ k'.sw = 0 /\ k'.flag = FALSE
          /\ k'.ints = TRUE
        BY <2>1, <2>3 DEF Iret, State, SameQueues
    <2>5. Consistent(k', <<>>)
        BY <2>3, <2>4, Frame
    <2>6. CurrentOK(k')
        BY <2>4 DEF CurrentOK, SameQueues, SchedInv, CurrentRuns, WithStatus
    <2>7. Shape' /\ pc'[Terminator] = pc[Terminator]
        BY <1>1, <1>2, <2>1, UnlockedInv, UserShape
    <2>8. Unlocked'
        BY <1>1, <2>2, <2>4, <2>5, <2>6, <2>7
           DEF Unlocked, SameQueues, SchedInv, ControlOK
    <2> QED  BY <2>8, UnlockedNext
<1> QED  BY <1>3, <1>4

\* Every system call keeps the scheduler consistent.
LEMMA UserStepOK ==
    ASSUME SchedInv, NEW p \in Users, UserStep(p)
    PROVE  SchedInv'
<1>1. ASSUME NEW n \in 0..MaxSleep, Nanosleep(p, n) PROVE SchedInv'
    BY <1>1, NanosleepOK, ProcAssumption
<1>2. ASSUME NEW c \in Users, Fork(p, c) PROVE SchedInv'
    BY <1>2, ForkOK
<1>3. ASSUME NEW c \in Users, WaitpidNow(p, c) PROVE SchedInv'
    <2>1. /\ c \in Proc /\ k.status[c] = "READY_TO_DIE" /\ k.current = p
          /\ k.status[p] = "RUNNING" /\ Collect(Entry, c) /\ UNCHANGED <<pc, target, reap>>
        BY <1>3 DEF WaitpidNow, At, Running, Zombies, Users
    <2> QED  BY <2>1, CollectOK
<1>4. ASSUME NEW c \in Users, WaitpidSleepChild(p, c) PROVE SchedInv'
    <2>1. c \in Proc /\ ExitWaiters(c) \in WaitQueue
        BY QueueNames DEF Users
    <2> QED  BY <1>4, <2>1, WaitpidSleepOK DEF WaitpidSleepChild
<1>5. ASSUME WaitpidSleepAny(p) PROVE SchedInv'
    <2>1. p \in Proc /\ ChildWaiters(p) \in WaitQueue
        BY QueueNames DEF Users
    <2> QED  BY <1>5, <2>1, WaitpidSleepOK DEF WaitpidSleepAny
<1>6. ASSUME Exit(p) PROVE SchedInv'
    BY <1>6, ExitOK
<1> QED  BY <1>1, <1>2, <1>3, <1>4, <1>5, <1>6 DEF UserStep

\* SchedInv is inductive: one case per action.
LEMMA SchedStep ==
    SchedInv /\ [Next]_vars => SchedInv'
<1> SUFFICES ASSUME SchedInv, [Next]_vars PROVE SchedInv'
    OBVIOUS
<1>1. CASE Tick
    BY <1>1, TickOK
<1>2. ASSUME NEW p \in Proc, KernelCode(p) PROVE SchedInv'
    <2>1. CASE UnwindStep(p)
        BY <2>1, UnwindOK
    <2>2. CASE Prelude(p)
        BY <2>2, PreludeOK
    <2>3. CASE WaitpidWoken(p)
        BY <2>3, WaitpidWokenOK
    <2>4. CASE TerminatorStep
        BY <2>4, TerminatorCheckOK, DaemonYieldOK, TerminatorBeginOK, TerminatorKeepOK,
           TerminatorFreeOK, TerminatorEndOK DEF TerminatorStep
    <2>5. CASE KernelYield
        BY <2>5, DaemonYieldOK
    <2> QED  BY <1>2, <2>1, <2>2, <2>3, <2>4, <2>5 DEF KernelCode
<1>3. ASSUME NEW p \in Users, UserStep(p) PROVE SchedInv'
    BY <1>3, UserStepOK
<1>4. CASE UNCHANGED vars
    BY <1>4 DEF vars, SchedInv, TypeOK, QueuesMatchStatus, WaitQueuesMatchStatus,
                CurrentRuns, ControlOK, Running
<1> QED  BY <1>1, <1>2, <1>3, <1>4 DEF Next

\* The scheduler's data stays consistent: in every reachable state every process
\* is in exactly the queue its status names and the current one is RUNNING.
THEOREM SchedulerConsistent == Spec => []SchedInv
BY InitOK, SchedStep, PTL DEF Spec

\* Every variable keeps its type.
THEOREM TypeCorrect == Spec => []TypeOK
<1>1. SchedInv => TypeOK
    BY DEF SchedInv
<1> QED  BY <1>1, SchedulerConsistent, PTL

\* No process is linked into two queues or lost from all (proc->next is one
\* link), whatever the interleaving of ticks, exits, sleeps and wake-ups.
THEOREM QueuesAlwaysMatch == Spec => [](QueuesMatchStatus /\ WaitQueuesMatchStatus)
<1>1. SchedInv => QueuesMatchStatus /\ WaitQueuesMatchStatus
    BY DEF SchedInv
<1> QED  BY <1>1, SchedulerConsistent, PTL

\* schedule_advance never idles and g_kernel.current_process is never NULL.
THEOREM NeverIdle == Spec => []CurrentRuns
<1>1. SchedInv => CurrentRuns
    BY DEF SchedInv
<1> QED  BY <1>1, SchedulerConsistent, PTL

\* Interrupts are only ever enabled with the switch lock free.
THEOREM UnlockedInterrupts == Spec => []InterruptsOnlyUnlocked
<1>1. SchedInv => InterruptsOnlyUnlocked
    BY DEF SchedInv, ControlOK, InterruptsOnlyUnlocked
<1> QED  BY <1>1, SchedulerConsistent, PTL

\* User mode and the hlt loop are only ever reached with interrupts enabled.
THEOREM InterruptsInUserMode == Spec => []HaltedWithInterrupts
<1>1. SchedInv => HaltedWithInterrupts
    BY DEF SchedInv, ControlOK, HaltedWithInterrupts, At, Running
<1> QED  BY <1>1, SchedulerConsistent, PTL

-----------------------------------------------------------------------------
(* The books of the scheduler: the lock count, the unreturned switches, and  *)
(* the sleepers with the time they have left, action by action.              *)

\* No call was entered or left.
Untouched == k'.irq = k.irq /\ k'.frames = k.frames /\ k'.current = k.current

\* The current process switched away.
Debited == Owing(k, k') /\ k'.current # k.current

\* No process was started that had not run before.
NoStart ==
    \A p \in Proc : k'.status[p] = "UNINITIALIZED" <=> k.status[p] = "UNINITIALIZED"

\* Nobody fell asleep or woke up, and no time passed.
Still == k'.sleeping = k.sleeping /\ k'.left = k.left

\* Entering the kernel leaves the books alone.
LEMMA EntryBooks ==
    ASSUME SchedInv
    PROVE  /\ Entry.irq = k.irq /\ Entry.frames = k.frames /\ Entry.left = k.left
           /\ Entry.sleeping = k.sleeping /\ Entry.current = k.current
           /\ Entry.status = k.status
BY Basics DEF Consistent, State, Entry

\* The timer interrupt either returns or switches, and lets a tick pass.
LEMMA TickBooks ==
    ASSUME SchedInv, Tick
    PROVE  /\ Untouched \/ Debited
           /\ NoStart
           /\ k'.left = [p \in Proc |-> Dec(k.left[p])]
           /\ k'.sleeping = SubSeq(k.sleeping, DuePrefix(Later(k), 0) + 1, Len(k.sleeping))
<1> DEFINE s == HandleTimer(Entry)
<1>1. pc[Terminator] # "reap" /\ k.status[k.current] = "RUNNING"
    BY DEF Tick, TickReady, SchedInv, ControlOK, CurrentRuns, CurrentOK
<1>2. Ticked(Entry, s, <<>>)
    BY <1>1, MayCall, CallingSteady, TimerOK
<1>3. k' = IF Returned(k, s) THEN Iret(s) ELSE s
    BY DEF Tick, AfterTick
<1> HIDE DEF s
<1>4. /\ k'.irq = s.irq /\ k'.frames = s.frames /\ k'.current = s.current
      /\ k'.status = s.status /\ k'.left = s.left /\ k'.sleeping = s.sleeping
    BY <1>2, <1>3 DEF Ticked, Consistent, State, Iret
<1>5. DuePrefix(Later(Entry), 0) = DuePrefix(Later(k), 0)
    <2>1. k \in State /\ Entry \in State
        BY <1>1, MayCall DEF Calling, MaySwitch, Consistent
    <2>2. /\ Later(Entry).sleeping = k.sleeping /\ Later(k).sleeping = k.sleeping
          /\ Later(Entry).left = [p \in Proc |-> Dec(k.left[p])]
          /\ Later(k).left = [p \in Proc |-> Dec(k.left[p])]
        BY <2>1, EntryBooks DEF Later, State
    <2> QED  BY <2>2 DEF DuePrefix
<1>6. Untouched \/ Debited
    BY <1>2, <1>4, EntryBooks DEF Ticked, Untouched, Debited, Owing
<1>7. NoStart
    BY <1>2, <1>4, EntryBooks DEF Ticked, NoStart
<1> QED  BY <1>2, <1>4, <1>5, <1>6, <1>7, EntryBooks DEF Ticked

\* sched_yield of the two daemons.
LEMMA YieldBooks ==
    ASSUME SchedInv, KernelYield \/ TerminatorYield
    PROVE  Debited /\ NoStart /\ Still
<1>1. /\ k.status[k.current] = "RUNNING" /\ pc[Terminator] # "reap"
      /\ k' = SchedYield(k)
    BY Distinct DEF KernelYield, TerminatorYield, At, Running, SchedInv, ControlOK
<1>2. SwitchedAway(k, k', <<>>) /\ k'.irq = k.irq + 1
    BY <1>1, MayCall, YieldOK DEF Calling
<1> QED  BY <1>2 DEF SwitchedAway, Quiet, Debited, Owing, NoStart, Still

\* nanosleep switches away from the new sleeper.
LEMMA NanosleepBooks ==
    ASSUME SchedInv, NEW p \in Users, NEW n \in Nat, Nanosleep(p, n)
    PROVE  /\ Debited /\ NoStart /\ k.current = p
           /\ k'.left = [k.left EXCEPT ![p] = n]
           /\ k'.sleeping = InsertBehind(k.sleeping, DuePrefix(k, n), p)
<1>1. k.current = p /\ k.status[p] = "RUNNING" /\ k' = SleepCurrentNs(Entry, n)
    BY DEF Nanosleep, At, Running
<1>2. /\ GaveUp(Entry, k', <<>>, "SLEEPING_TIMER")
      /\ k'.left = [Entry.left EXCEPT ![Entry.current] = n]
      /\ k'.sleeping = InsertBehind(Entry.sleeping, DuePrefix(Entry, n), Entry.current)
    <2>1. Calling(Entry, <<>>)
        BY <1>1, UserRuns
    <2> QED  BY <1>1, <2>1, SleepOK
<1>3. DuePrefix(Entry, n) = DuePrefix(k, n)
    BY EntryBooks DEF DuePrefix
<1>4. Debited /\ NoStart
    BY <1>1, <1>2, EntryBooks DEF GaveUp, Debited, Owing, NoStart
<1> QED  BY <1>1, <1>2, <1>3, <1>4, EntryBooks

\* The two ways waitpid goes to sleep.
LEMMA WaitpidSleepBooks ==
    ASSUME SchedInv, NEW p \in Users, NEW q \in WaitQueue, At(p, "user"),
           k' = WaitQueueSleepPostponed(SchedPostpone(Entry), q)
    PROVE  Debited /\ NoStart /\ Still
<1>1. k.current = p /\ k.status[p] = "RUNNING"
    BY DEF At, Running
<1>2. /\ GaveUp(Entry, k', <<>>, "BLOCKED")
      /\ k'.sleeping = Entry.sleeping /\ k'.left = Entry.left
    BY <1>1, UserRuns, BlockOK
<1> QED  BY <1>1, <1>2, EntryBooks DEF GaveUp, Debited, Owing, NoStart, Still

\* proc_exit.
LEMMA ExitBooks ==
    ASSUME SchedInv, NEW p \in Users, Exit(p)
    PROVE  Debited /\ NoStart /\ Still
<1>1. k.current = p /\ k.status[p] = "RUNNING"
    BY DEF Exit, At, Running
<1> DEFINE W == IF parent[p] = NoProc THEN {}
                ELSE {ExitWaiters(p), ChildWaiters(parent[p])}
<1>2. Exited(Entry, k', <<>>, W)
    BY ExitEffect
<1> HIDE DEF W
<1>3. Debited /\ Still
    BY <1>2, EntryBooks DEF Exited, Debited, Owing, Still
<1>4. \A q \in Proc \ {p} : (\E v \in W : q \in Range(k.waitq[v])) => k.status[q] = "BLOCKED"
    <2>1. W \subseteq WaitQueue
        <3>1. p \in Proc /\ (parent[p] # NoProc => parent[p] \in Proc)
            BY DEF Users, SchedInv, TypeOK
        <3> QED  BY <3>1, QueueNames DEF W
    <2> QED  BY <2>1 DEF SchedInv, WaitQueuesMatchStatus, WaitQueuesOK
<1>5. Entry.waitq = k.waitq
    BY Basics DEF Consistent, State, Entry
<1>6. NoStart
    BY <1>1, <1>2, <1>4, <1>5, EntryBooks DEF Exited, NoStart
<1> QED  BY <1>3, <1>6

\* fork_proc.
LEMMA ForkBooks ==
    ASSUME SchedInv, NEW p \in Users, NEW c \in Users, Fork(p, c)
    PROVE  Untouched /\ NoStart /\ Still
<1>1. /\ k.status[c] = "UNUSED"
      /\ k' = [k EXCEPT !.status[c] = "READY_TO_RUN", !.ready = Append(@, c)]
    BY DEF Fork
<1>2. k \in State /\ k.status \in [Proc -> Status]
    BY Basics DEF Consistent
<1> QED  BY <1>1, <1>2 DEF Untouched, NoStart, Still, State

\* The two ways waitpid collects a child, and its return without one.
LEMMA CollectBooks ==
    ASSUME SchedInv, NEW p \in Proc,
           WaitpidWoken(p) \/ \E c \in Users : WaitpidNow(p, c)
    PROVE  Untouched /\ NoStart /\ Still
<1>1. k.current = p /\ k.status[p] = "RUNNING" /\ p \in Users
    BY DEF WaitpidWoken, WaitpidNow, At, Running, SchedInv, ControlOK, Users, Daemons
<1>2. CASE k' = Iret(k)
    BY <1>2, Basics DEF Consistent, State, Iret, Untouched, NoStart, Still
<1>3. ASSUME NEW c \in Proc, k.status[c] = "READY_TO_DIE",
             NEW s, s = Entry \/ s = k, Collect(s, c)
      PROVE  Untouched /\ NoStart /\ Still
    <2>1. Collected(c)
        BY <1>1, <1>3, CollectEffect
    <2>2. k.status \in [Proc -> Status]
        BY Basics
    <2> QED  BY <1>3, <2>1, <2>2 DEF Collected, Untouched, NoStart, Still
<1>4. CASE WaitpidWoken(p)
    <2>1. CASE Found(p) # {}
        <3>1. PICK c \in Found(p) : Collect(k, c)
            BY <1>4, <2>1 DEF WaitpidWoken
        <3>2. c \in Proc /\ k.status[c] = "READY_TO_DIE"
            BY UnlockedInv DEF Found, Zombies, Shape
        <3> QED  BY <1>3, <3>1, <3>2
    <2>2. CASE Found(p) = {}
        BY <1>2, <1>4, <2>2 DEF WaitpidWoken
    <2> QED  BY <2>1, <2>2
<1>5. ASSUME NEW c \in Users, WaitpidNow(p, c) PROVE Untouched /\ NoStart /\ Still
    <2>1. c \in Proc /\ k.status[c] = "READY_TO_DIE" /\ Collect(Entry, c)
        BY <1>5 DEF WaitpidNow, Zombies, Users
    <2> QED  BY <1>3, <2>1
<1> QED  BY <1>4, <1>5

\* The steps of the terminator that neither yield nor take or give back the
\* switch lock.
LEMMA TerminatorBooks ==
    ASSUME SchedInv, TerminatorCheck \/ TerminatorKeep \/ TerminatorFree
    PROVE  Untouched /\ NoStart /\ Still
<1>1. k \in State /\ k.status \in [Proc -> Status] /\ k.dying \in Seq(Proc)
    BY Basics DEF Consistent
<1>2. CASE TerminatorCheck
    BY <1>2 DEF TerminatorCheck, Untouched, NoStart, Still
<1>3. CASE TerminatorKeep
    <2>1. k' = [k EXCEPT !.dying = Tail(@)]
        BY <1>3 DEF TerminatorKeep
    <2> QED  BY <1>1, <2>1 DEF State, Untouched, NoStart, Still
<1>4. CASE TerminatorFree
    <2> DEFINE c == Head(k.dying)
    <2>1. k' = [[k EXCEPT !.dying = Tail(@)] EXCEPT !.status[c] = "FREED"]
        BY <1>4 DEF TerminatorFree, ProcFree
    <2>2. c \in Range(k.dying)
        BY <1>1, <1>4, PopHead DEF TerminatorFree
    <2>3. k.status[c] = "READY_TO_DIE"
        <3>1. Range(k.dying \o reap.waiting) = Range(k.dying) \cup Range(reap.waiting)
            BY <1>1, Basics, Splice
        <3> QED  BY <2>2, <3>1 DEF SchedInv, QueuesMatchStatus, QueuesOK, WithStatus
    <2> HIDE DEF c
    <2> QED  BY <1>1, <2>1, <2>3 DEF State, Untouched, NoStart, Still
<1> QED  BY <1>2, <1>3, <1>4

\* sched_postpone and sched_resume of the terminator.
LEMMA SectionBooks ==
    ASSUME SchedInv
    PROVE  /\ TerminatorBegin => /\ k'.irq = k.irq + 1 /\ k'.frames = k.frames
                                 /\ k'.current = k.current /\ NoStart /\ Still
           /\ TerminatorEnd => /\ k'.irq = Dec(k.irq) /\ k'.frames = k.frames
                               /\ k'.current = k.current /\ NoStart /\ Still
<1>1. k \in State /\ reap.waiting \in Seq(Proc)
    BY Basics DEF Consistent
<1>2. ASSUME TerminatorBegin
      PROVE  /\ k'.irq = k.irq + 1 /\ k'.frames = k.frames
             /\ k'.current = k.current /\ NoStart /\ Still
    <2>1. k' = SchedPostpone(k)
        BY <1>2 DEF TerminatorBegin
    <2> QED  BY <1>1, <2>1, PostponeEffect DEF SameQueues, NoStart, Still
<1>3. ASSUME TerminatorEnd
      PROVE  /\ k'.irq = Dec(k.irq) /\ k'.frames = k.frames
             /\ k'.current = k.current /\ NoStart /\ Still
    <2> DEFINE a == [k EXCEPT !.dying = reap.waiting]
    <2>1. pc[Terminator] = "reap" /\ k' = SchedResume(a)
        BY <1>3 DEF TerminatorEnd, At
    <2>2. Locked
        BY <2>1, LockedInv
    <2>3. /\ a \in State /\ a.flag = FALSE
          /\ a.irq = k.irq /\ a.frames = k.frames /\ a.current = k.current
          /\ a.status = k.status /\ a.sleeping = k.sleeping /\ a.left = k.left
        BY <1>1, <2>2 DEF State, Locked
    <2> HIDE DEF a
    <2>4. /\ SameQueues(a, SchedResume(a)) /\ SchedResume(a).irq = Dec(a.irq)
          /\ SchedResume(a).left = a.left /\ SchedResume(a).frames = a.frames
        BY <2>3, ResumeReturn
    <2> QED  BY <2>1, <2>3, <2>4 DEF SameQueues, NoStart, Still
<1> QED  BY <1>2, <1>3

\* A process that runs again gives back the lock of the call that switched away.
LEMMA UnwindBooks ==
    ASSUME SchedInv, NEW p \in Proc, UnwindStep(p)
    PROVE  /\ k.current = p /\ k.frames[p] > 0 /\ k'.current = p
           /\ k'.irq = Dec(k.irq) /\ k'.frames = [k.frames EXCEPT ![p] = @ - 1]
           /\ NoStart /\ Still
<1>1. k \in State
    BY Basics DEF Consistent
<1>2. k.current = p /\ k.frames[p] > 0 /\ k' = Unwind(k)
    BY DEF UnwindStep, Running
<1> QED  BY <1>1, <1>2 DEF Unwind, SchedUnlock, State, NoStart, Still

\* proc_prelude gives back the lock of the switch to the new process.
LEMMA PreludeBooks ==
    ASSUME SchedInv, NEW p \in Proc, Prelude(p)
    PROVE  /\ k.current = p /\ k'.current = p /\ k.status[p] = "UNINITIALIZED"
           /\ k'.irq = Dec(k.irq) /\ k'.frames = k.frames
           /\ k'.status = [k.status EXCEPT ![p] = "RUNNING"]
           /\ Still
<1>1. k \in State
    BY Basics DEF Consistent
<1>2. k.current = p /\ k.status[p] = "UNINITIALIZED"
    BY DEF Prelude
<1>3. \/ k' = SchedUnlock([k EXCEPT !.status[p] = "RUNNING"])
      \/ k' = Iret(SchedUnlock([k EXCEPT !.status[p] = "RUNNING"]))
    BY DEF Prelude
<1> QED  BY <1>1, <1>2, <1>3 DEF SchedUnlock, Iret, State, Still

-----------------------------------------------------------------------------
(* The sleeping queue is in order of wake-up time *)

\* q is in order of f.
Ordered(q, f) == \A i, j \in 1..Len(q) : i <= j => f[q[i]] <= f[q[j]]

\* A sleeper put behind those due no later than it keeps the order.
LEMMA InsertOrdered ==
    ASSUME NEW q \in Seq(Proc), NEW f \in [Proc -> Nat], NEW e \in Proc, NEW n \in Nat,
           NEW m \in 0..Len(q), e \notin Range(q), Ordered(q, f),
           \A i \in 1..m : f[q[i]] <= n,
           m < Len(q) => f[q[m + 1]] > n
    PROVE  Ordered(InsertBehind(q, m, e), [f EXCEPT ![e] = n])
<1> DEFINE r == InsertBehind(q, m, e)
           g == [f EXCEPT ![e] = n]
           a == SubSeq(q, 1, m)
           b == SubSeq(q, m + 1, Len(q))
<1>1. /\ Len(q) \in Nat /\ m \in Nat /\ m <= Len(q)
      /\ \A i \in 1..Len(q) : q[i] \in Proc /\ q[i] # e /\ f[q[i]] \in Nat
    <2>1. Len(q) \in Nat /\ \A i \in 1..Len(q) : q[i] \in Proc /\ q[i] # e
        BY ByIndex
    <2> QED  BY <2>1
<1>2. a \in Seq(Proc) /\ b \in Seq(Proc)
    BY Cut
<1>3. /\ Len(a) = m /\ \A i \in 1..m : a[i] = q[i]
      /\ Len(b) = Len(q) - m /\ \A i \in 1..(Len(q) - m) : b[i] = q[m + i]
    BY <1>1
<1>4. r = a \o <<e>> \o b
    BY DEF InsertBehind
<1> HIDE DEF a, b
<1>5. /\ a \o <<e>> \in Seq(Proc) /\ Len(a \o <<e>>) = m + 1
      /\ \A i \in 1..m : (a \o <<e>>)[i] = q[i]
      /\ (a \o <<e>>)[m + 1] = e
    BY <1>1, <1>2, <1>3
<1>6. /\ Len(r) = Len(q) + 1
      /\ \A i \in 1..m : r[i] = q[i]
      /\ r[m + 1] = e
      /\ \A i \in (m + 2)..(Len(q) + 1) : r[i] = q[i - 1]
    <2> DEFINE t == a \o <<e>>
    <2>1. t \in Seq(Proc) /\ Len(t) = m + 1 /\ r = t \o b
        BY <1>4, <1>5
    <2> HIDE DEF t, r
    <2>2. /\ Len(r) = Len(q) + 1
          /\ \A i \in 1..(Len(q) + 1) :
                r[i] = IF i <= m + 1 THEN t[i] ELSE b[i - (m + 1)]
        <3>1. /\ Len(r) = Len(t) + Len(b)
              /\ \A i \in 1..(Len(t) + Len(b)) :
                    r[i] = IF i <= Len(t) THEN t[i] ELSE b[i - Len(t)]
            BY <1>2, <2>1, JoinItems
        <3>2. Len(t) = m + 1 /\ Len(t) + Len(b) = Len(q) + 1
            BY <1>1, <1>3, <2>1
        <3> QED  BY <3>1, <3>2
    <2>3. /\ \A i \in 1..(m + 1) : r[i] = t[i]
          /\ \A i \in (m + 2)..(Len(q) + 1) : r[i] = b[i - (m + 1)]
        <3>1. \A i \in 1..(m + 1) : i \in 1..(Len(q) + 1) /\ i <= m + 1
            BY <1>1
        <3>2. \A i \in (m + 2)..(Len(q) + 1) : i \in 1..(Len(q) + 1) /\ ~(i <= m + 1)
            BY <1>1
        <3> QED  BY <2>2, <3>1, <3>2
    <2>4. \A i \in (m + 2)..(Len(q) + 1) :
            i - (m + 1) \in 1..(Len(q) - m) /\ m + (i - (m + 1)) = i - 1
        BY <1>1
    <2>5. ASSUME NEW i \in (m + 2)..(Len(q) + 1) PROVE r[i] = q[i - 1]
        <3>1. b[i - (m + 1)] = q[m + (i - (m + 1))]
            BY <1>3, <2>4
        <3> QED  BY <2>3, <2>4, <3>1
    <2>6. /\ \A i \in 1..m : r[i] = q[i]
          /\ r[m + 1] = e
        BY <1>1, <1>5, <2>3 DEF t
    <2> QED  BY <2>2, <2>5, <2>6
<1>7. g[e] = n /\ \A i \in 1..Len(q) : g[q[i]] = f[q[i]]
    BY <1>1
<1> HIDE DEF r, g
<1>8. \A i \in 1..m : g[r[i]] = f[q[i]] /\ g[r[i]] <= n
    <2> TAKE i \in 1..m
    <2>1. i \in 1..Len(q)
        BY <1>1
    <2> QED  BY <1>6, <1>7, <2>1
<1>9. g[r[m + 1]] = n
    BY <1>6, <1>7
<1>10. \A i \in (m + 2)..(Len(q) + 1) : g[r[i]] = f[q[i - 1]] /\ f[q[i - 1]] > n
    <2> TAKE i \in (m + 2)..(Len(q) + 1)
    <2>1. i - 1 \in 1..Len(q) /\ m + 1 \in 1..Len(q) /\ m + 1 <= i - 1
        BY <1>1
    <2>2. f[q[m + 1]] > n /\ f[q[m + 1]] <= f[q[i - 1]]
        BY <1>1, <2>1 DEF Ordered
    <2>3. f[q[m + 1]] \in Nat /\ f[q[i - 1]] \in Nat
        BY <1>1, <2>1
    <2>4. f[q[i - 1]] > n
        BY <2>2, <2>3
    <2>5. g[r[i]] = f[q[i - 1]]
        BY <1>6, <1>7, <2>1
    <2> QED  BY <2>4, <2>5
<1>11. ASSUME NEW i \in 1..(Len(q) + 1), NEW j \in 1..(Len(q) + 1), i <= j
       PROVE  g[r[i]] <= g[r[j]]
    <2>1. CASE j <= m
        <3>1. i \in 1..m /\ j \in 1..m /\ i \in 1..Len(q) /\ j \in 1..Len(q)
            BY <1>1, <1>11, <2>1
        <3> QED  BY <1>8, <1>11, <3>1 DEF Ordered
    <2>2. CASE j = m + 1
        <3>1. i \in 1..m \/ i = m + 1
            BY <1>1, <1>11, <2>2
        <3> QED  BY <1>8, <1>9, <2>2, <3>1
    <2>3. CASE j > m + 1
        <3>1. j \in (m + 2)..(Len(q) + 1) /\ j - 1 \in 1..Len(q)
            BY <1>1, <2>3
        <3>2. g[r[j]] = f[q[j - 1]] /\ f[q[j - 1]] > n /\ f[q[j - 1]] \in Nat
            BY <1>1, <1>10, <3>1
        <3>3. CASE i <= m
            <4>1. i \in 1..m /\ i \in 1..Len(q)
                BY <1>1, <3>3
            <4>2. g[r[i]] \in Nat /\ g[r[i]] <= n
                BY <1>1, <1>8, <4>1
            <4> QED  BY <3>2, <4>2
        <3>4. CASE i = m + 1
            BY <1>9, <3>2, <3>4
        <3>5. CASE i > m + 1
            <4>1. i \in (m + 2)..(Len(q) + 1) /\ i - 1 \in 1..Len(q) /\ i - 1 <= j - 1
                BY <1>1, <1>11, <3>5
            <4>2. f[q[i - 1]] <= f[q[j - 1]]
                BY <3>1, <4>1 DEF Ordered
            <4> QED  BY <1>10, <3>2, <4>1, <4>2
        <3> QED  BY <1>1, <3>3, <3>4, <3>5
    <2> QED  BY <1>1, <2>1, <2>2, <2>3
<1> QED  BY <1>6, <1>11 DEF Ordered, r, g

\* A tick takes exactly the sleepers with at most one tick left off the queue,
\* and leaves the others in order.
LEMMA TickOrdered ==
    ASSUME NEW q \in Seq(Proc), NEW f \in [Proc -> Nat], NEW m \in 0..Len(q),
           IsInjective(q), Ordered(q, f),
           \A i \in 1..m : Dec(f[q[i]]) <= 0,
           m < Len(q) => Dec(f[q[m + 1]]) > 0
    PROVE  /\ Ordered(SubSeq(q, m + 1, Len(q)), [p \in Proc |-> Dec(f[p])])
           /\ \A p \in Range(q) :
                p \notin Range(SubSeq(q, m + 1, Len(q))) <=> f[p] <= 1
<1> DEFINE b == SubSeq(q, m + 1, Len(q))
           g == [p \in Proc |-> Dec(f[p])]
<1>1. /\ Len(q) \in Nat /\ m \in Nat /\ m <= Len(q)
      /\ \A i \in 1..Len(q) : q[i] \in Proc /\ f[q[i]] \in Nat
    <2>1. Len(q) \in Nat /\ \A i \in 1..Len(q) : q[i] \in Proc
        BY ByIndex
    <2> QED  BY <2>1
<1>2. b \in Seq(Proc)
    BY Cut
<1>3. Len(b) = Len(q) - m /\ \A i \in 1..(Len(q) - m) : b[i] = q[m + i]
    BY <1>1
<1> HIDE DEF b
<1>4. \A i \in 1..(Len(q) - m) : m + i \in 1..Len(q) /\ g[b[i]] = Dec(f[q[m + i]])
    <2> TAKE i \in 1..(Len(q) - m)
    <2>1. m + i \in 1..Len(q)
        BY <1>1
    <2>2. q[m + i] \in Proc /\ b[i] = q[m + i]
        BY <1>1, <1>3, <2>1
    <2> QED  BY <2>1, <2>2
<1> HIDE DEF g
<1>5. Ordered(b, g)
    <2> SUFFICES ASSUME NEW i \in 1..(Len(q) - m), NEW j \in 1..(Len(q) - m), i <= j
                 PROVE  g[b[i]] <= g[b[j]]
        BY <1>3 DEF Ordered
    <2>1. m + i \in 1..Len(q) /\ m + j \in 1..Len(q) /\ m + i <= m + j
        BY <1>1, <1>4
    <2>2. f[q[m + i]] <= f[q[m + j]] /\ f[q[m + i]] \in Nat /\ f[q[m + j]] \in Nat
        BY <1>1, <2>1 DEF Ordered
    <2>3. Dec(f[q[m + i]]) <= Dec(f[q[m + j]])
        BY <2>2 DEF Dec
    <2> QED  BY <1>4, <2>3
<1>6. ASSUME NEW p \in Range(q) PROVE p \notin Range(b) <=> f[p] <= 1
    <2>1. PICK i \in 1..Len(q) : p = q[i]
        BY ByIndex
    <2>2. f[p] \in Nat
        BY <1>1, <2>1
    <2>3. CASE i <= m
        <3>1. f[p] <= 1
            <4>1. Dec(f[p]) <= 0
                BY <1>1, <2>1, <2>3
            <4> QED  BY <2>2, <4>1 DEF Dec
        <3>2. ASSUME p \in Range(b) PROVE FALSE
            <4>1. PICK j \in 1..(Len(q) - m) : p = b[j]
                BY <1>2, <1>3, <3>2, ByIndex
            <4>2. m + j \in 1..Len(q) /\ q[m + j] = q[i]
                BY <1>3, <1>4, <2>1, <4>1
            <4>3. m + j = i
                BY <4>2, ByIndex
            <4> QED  BY <1>1, <2>3, <4>3
        <3> QED  BY <3>1, <3>2
    <2>4. CASE i > m
        <3>1. m + 1 \in 1..Len(q) /\ m < Len(q) /\ m + 1 <= i
              /\ i - m \in 1..(Len(q) - m) /\ m + (i - m) = i
            BY <1>1, <2>4
        <3>2. p \in Range(b)
            <4>1. b[i - m] = p
                BY <1>3, <2>1, <3>1
            <4> QED  BY <1>2, <1>3, <3>1, <4>1, ByIndex
        <3>3. f[q[m + 1]] \in Nat /\ Dec(f[q[m + 1]]) > 0 /\ f[q[m + 1]] <= f[p]
            BY <1>1, <2>1, <3>1 DEF Ordered
        <3>4. f[p] > 1
            BY <2>2, <3>3 DEF Dec
        <3> QED  BY <2>2, <3>2, <3>4
    <2> QED  BY <1>1, <2>3, <2>4
<1> QED  BY <1>5, <1>6 DEF b, g
\* SleepersSorted, and the queue with the processes asleep.
LEMMA Sleepers ==
    ASSUME SchedInv
    PROVE  /\ k \in State /\ k.sleeping \in Seq(Proc) /\ k.left \in [Proc -> Nat]
           /\ IsInjective(k.sleeping)
           /\ \A p \in Proc : k.status[p] = "SLEEPING_TIMER" <=> p \in Range(k.sleeping)
           /\ SleepersSorted <=> Ordered(k.sleeping, k.left)
<1>1. k \in State /\ QueuesOK(k, reap.waiting)
    BY Basics DEF Consistent
<1>2. k.sleeping \in Seq(Proc) /\ k.left \in [Proc -> Nat]
    BY <1>1 DEF State
<1>3. IsInjective(k.sleeping) /\ Range(k.sleeping) = WithStatus(k, {"SLEEPING_TIMER"})
    BY <1>1 DEF QueuesOK
<1> QED  BY <1>1, <1>2, <1>3 DEF WithStatus, SleepersSorted, Ordered

\* Only nanosleep, and the timer interrupt, touch the sleeping queue.
LEMMA OnlyTimed ==
    ASSUME SchedInv, [Next]_vars, ~Tick
    PROVE  Still \/ \E p \in Users : \E n \in 0..MaxSleep : Nanosleep(p, n)
<1>1. ASSUME NEW p \in Proc, KernelCode(p) PROVE Still
    <2>1. CASE UnwindStep(p)
        BY <2>1, UnwindBooks
    <2>2. CASE Prelude(p)
        BY <2>2, PreludeBooks
    <2>3. CASE WaitpidWoken(p)
        BY <2>3, CollectBooks
    <2>4. CASE KernelYield \/ TerminatorYield
        BY <2>4, YieldBooks
    <2>5. CASE TerminatorCheck \/ TerminatorKeep \/ TerminatorFree
        BY <2>5, TerminatorBooks
    <2>6. CASE TerminatorBegin \/ TerminatorEnd
        BY <2>6, SectionBooks
    <2> QED  BY <1>1, <2>1, <2>2, <2>3, <2>4, <2>5, <2>6 DEF KernelCode, TerminatorStep
<1>2. ASSUME NEW p \in Users, UserStep(p)
      PROVE  Still \/ \E n \in 0..MaxSleep : Nanosleep(p, n)
    <2>1. p \in Proc
        BY DEF Users
    <2>2. ASSUME NEW c \in Users, Fork(p, c) PROVE Still
        BY <2>2, ForkBooks
    <2>3. ASSUME NEW c \in Users, WaitpidNow(p, c) PROVE Still
        BY <2>1, <2>3, CollectBooks
    <2>4. ASSUME NEW c \in Users, WaitpidSleepChild(p, c) PROVE Still
        <3>1. ExitWaiters(c) \in WaitQueue
            BY QueueNames DEF Users
        <3> QED  BY <2>4, <3>1, WaitpidSleepBooks DEF WaitpidSleepChild
    <2>5. CASE WaitpidSleepAny(p)
        <3>1. ChildWaiters(p) \in WaitQueue
            BY <2>1, QueueNames
        <3> QED  BY <2>5, <3>1, WaitpidSleepBooks DEF WaitpidSleepAny
    <2>6. CASE Exit(p)
        BY <2>6, ExitBooks
    <2> QED  BY <1>2, <2>2, <2>3, <2>4, <2>5, <2>6 DEF UserStep
<1>3. CASE UNCHANGED vars
    BY <1>3 DEF vars, Still
<1> QED  BY <1>1, <1>2, <1>3 DEF Next

\* Who wakes up in a step.
WakesDue ==
    \A p \in Proc : k.status[p] = "SLEEPING_TIMER" =>
        (k'.status[p] # "SLEEPING_TIMER" <=> Tick /\ k.left[p] <= 1)

\* The order is kept by every step, and only the due are woken.
LEMMA WakeStep ==
    ASSUME SchedInv, SchedInv', SleepersSorted, [Next]_vars
    PROVE  SleepersSorted' /\ WakesDue
<1> DEFINE q == k.sleeping
           f == k.left
<1>1. /\ k \in State /\ q \in Seq(Proc) /\ f \in [Proc -> Nat]
      /\ IsInjective(q) /\ Ordered(q, f)
      /\ \A p \in Proc : k.status[p] = "SLEEPING_TIMER" <=> p \in Range(q)
    BY Sleepers
<1>2. /\ \A p \in Proc : k'.status[p] = "SLEEPING_TIMER" <=> p \in Range(k'.sleeping)
      /\ SleepersSorted' <=> Ordered(k'.sleeping, k'.left)
    <2>1. k' \in State /\ QueuesOK(k', reap'.waiting)
        BY DEF SchedInv, TypeOK, QueuesMatchStatus
    <2>2. Range(k'.sleeping) = WithStatus(k', {"SLEEPING_TIMER"})
        BY <2>1 DEF QueuesOK
    <2> QED  BY <2>1, <2>2 DEF WithStatus, SleepersSorted, Ordered
<1>3. CASE Tick
    <2> DEFINE m == DuePrefix(Later(k), 0)
    <2>1. /\ k'.left = [p \in Proc |-> Dec(f[p])]
          /\ k'.sleeping = SubSeq(q, m + 1, Len(q))
        BY <1>3, TickBooks
    <2>2. /\ Later(k) \in State /\ Later(k).sleeping = q
          /\ Later(k).left = [p \in Proc |-> Dec(f[p])]
        <3>1. [p \in Proc |-> Dec(f[p])] \in [Proc -> Nat]
            BY <1>1 DEF Dec
        <3> QED  BY <1>1, <3>1 DEF Later, State
    <2>3. /\ m \in 0..Len(q)
          /\ \A i \in 1..m : Later(k).left[q[i]] <= 0
          /\ m < Len(q) => Later(k).left[q[m + 1]] > 0
        BY <2>2, DuePrefixExists
    <2> HIDE DEF m, f, q
    <2>4. /\ \A i \in 1..m : Dec(f[q[i]]) <= 0
          /\ m < Len(q) => Dec(f[q[m + 1]]) > 0
        <3>1. Len(q) \in Nat /\ \A i \in 1..Len(q) : q[i] \in Proc
            BY <1>1, ByIndex
        <3>2. \A i \in 1..m : i \in 1..Len(q)
            BY <2>3, <3>1
        <3>3. m < Len(q) => m + 1 \in 1..Len(q)
            BY <2>3, <3>1
        <3> QED  BY <2>2, <2>3, <3>1, <3>2, <3>3
    <2>5. /\ Ordered(k'.sleeping, k'.left)
          /\ \A p \in Range(q) : p \notin Range(k'.sleeping) <=> f[p] <= 1
        BY <1>1, <2>1, <2>3, <2>4, TickOrdered
    <2> QED  BY <1>1, <1>2, <1>3, <2>5 DEF WakesDue, f
<1>4. CASE ~Tick /\ Still
    BY <1>1, <1>2, <1>4 DEF Still, WakesDue
<1>5. ASSUME ~Tick, NEW p \in Users, NEW n \in 0..MaxSleep, Nanosleep(p, n)
      PROVE  SleepersSorted' /\ WakesDue
    <2> DEFINE m == DuePrefix(k, n)
    <2>1. p \in Proc /\ n \in Nat
        BY ProcAssumption DEF Users
    <2>2. /\ k'.left = [f EXCEPT ![p] = n]
          /\ k'.sleeping = InsertBehind(q, m, p)
        BY <1>5, <2>1, NanosleepBooks
    <2>3. p \notin Range(q)
        <3>1. k.status[p] = "RUNNING"
            BY <1>5 DEF Nanosleep, At, Running
        <3> QED  BY <1>1, <2>1, <3>1
    <2>4. /\ m \in 0..Len(q)
          /\ \A i \in 1..m : f[q[i]] <= n
          /\ m < Len(q) => f[q[m + 1]] > n
        <3>1. k \in State /\ n \in Nat
            BY <1>1, <2>1
        <3> QED  BY <3>1, DuePrefixExists
    <2> HIDE DEF m, f, q
    <2>5. Ordered(k'.sleeping, k'.left)
        <3>1. q \in Seq(Proc) /\ f \in [Proc -> Nat] /\ Ordered(q, f)
            BY <1>1
        <3>2. Ordered(InsertBehind(q, m, p), [f EXCEPT ![p] = n])
            BY <2>1, <2>3, <2>4, <3>1, InsertOrdered
        <3> QED  BY <2>2, <3>2
    <2>6. Range(q) \subseteq Range(k'.sleeping)
        BY <1>1, <2>1, <2>2, <2>4, Insert
    <2> QED  BY <1>1, <1>2, <1>5, <2>5, <2>6 DEF WakesDue
<1> QED  BY <1>3, <1>4, <1>5, OnlyTimed

\* A sleeper is woken by the timer interrupt that sees its time pass, and by
\* nothing else; the prefix searches of sleep.c always see a sorted queue.
THEOREM SleepersWokenOnTime == Spec => WakeOnTime
<1>1. Init => SleepersSorted
    BY DEF Init, SleepersSorted
<1>2. SchedInv /\ SchedInv' /\ SleepersSorted /\ [Next]_vars => SleepersSorted' /\ [WakesDue]_vars
    BY WakeStep
<1>3. WakeOnTime <=> []SleepersSorted /\ [][WakesDue]_vars
    BY DEF WakeOnTime, WakesDue
<1> QED  BY <1>1, <1>2, <1>3, SchedulerConsistent, PTL DEF Spec
=============================================================================
