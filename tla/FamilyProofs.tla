---------------------------- MODULE FamilyProofs ----------------------------
(***************************************************************************)
(* Theorems about the family tree, waitpid and the freeing of processes in *)
(* Processes, on top of the consistency of the scheduler's data: parent    *)
(* and children agree, nothing refers to a freed process, and a process    *)
(* that sleeps in waitpid is woken by, and finds, a dead child.  The count *)
(* of the scheduler's lock, which depends on who has been forked and has   *)
(* run, is exact.                                                          *)
(***************************************************************************)
EXTENDS ProcessesProofs, FiniteSetTheorems

(* The conjuncts of FamilyInv by name *)
Mirror == \A p, c \in Proc : c \in children[p] <=> parent[c] = p

NoneGone ==
    \A c \in Proc : parent[c] # NoProc =>
        k.status[c] \notin Gone /\ k.status[parent[c]] \notin Gone

DeadOK ==
    \A p \in Proc : pc[p] = "dead" <=> k.status[p] \in {"READY_TO_DIE", "FREED"}

Waiters ==
    \A p \in Proc : pc[p] \in {"wait_child", "wait_any"} =>
        k.status[p] \in {"RUNNING", "READY_TO_RUN", "BLOCKED"}

ForChild ==
    \A p \in Proc : pc[p] = "wait_child" =>
        /\ target[p] \in Proc /\ parent[target[p]] = p
        /\ k.status[p] = "BLOCKED" <=> k.status[target[p]] # "READY_TO_DIE"

ForAny ==
    \A p \in Proc : pc[p] = "wait_any" =>
        /\ \E c \in Proc : parent[c] = p
        /\ k.status[p] = "BLOCKED" <=>
             \A c \in Proc : parent[c] = p => k.status[c] # "READY_TO_DIE"

InQueue ==
    \A p, c \in Proc :
        /\ p \in Range(k.waitq[ExitWaiters(c)]) =>
             pc[p] = "wait_child" /\ target[p] = c
        /\ p \in Range(k.waitq[ChildWaiters(c)]) =>
             pc[p] = "wait_any" /\ p = c

\* FamilyInv is the conjunction of its seven named parts.
LEMMA Parts ==
    FamilyInv <=> /\ Mirror /\ NoneGone /\ DeadOK /\ Waiters
                  /\ ForChild /\ ForAny /\ InQueue
BY DEF FamilyInv, Mirror, NoneGone, DeadOK, Waiters, ForChild, ForAny, InQueue

\* The same in the next state, in the direction that the steps need.
LEMMA PartsNext ==
    Mirror' /\ NoneGone' /\ DeadOK' /\ Waiters' /\ ForChild' /\ ForAny' /\ InQueue'
    => FamilyInv'
BY Parts, PTL

\* The types of the family tree and of the fields that FamilyInv reads.
LEMMA FamilyTypes ==
    ASSUME SchedInv
    PROVE  /\ parent \in [Proc -> Proc \cup {NoProc}]
           /\ children \in [Proc -> SUBSET Proc]
           /\ target \in [Proc -> Proc \cup {NoProc}]
           /\ pc \in [Proc -> Label]
           /\ k.status \in [Proc -> Status]
           /\ k.waitq \in [WaitQueue -> Seq(Proc)]
           /\ k.current \in Proc
BY Basics DEF SchedInv, TypeOK, CurrentRuns, CurrentOK

\* A BLOCKED process is in waitpid.
LEMMA BlockedWaits ==
    ASSUME SchedInv, FamilyInv, NEW p \in Proc, k.status[p] = "BLOCKED"
    PROVE  pc[p] \in {"wait_child", "wait_any"}
<1>1. PICK q \in WaitQueue : p \in Range(k.waitq[q])
    BY DEF SchedInv, WaitQueuesMatchStatus, WaitQueuesOK
<1>2. PICK c \in Proc : q = ExitWaiters(c) \/ q = ChildWaiters(c)
    BY ProcAssumption DEF ExitWaiters, ChildWaiters
<1> QED  BY <1>1, <1>2, Parts DEF InQueue

\* At the end of kernel_main nobody has children and nobody waits.
LEMMA FamilyInit ==
    Init => FamilyInv
<1> SUFFICES ASSUME Init PROVE FamilyInv
    OBVIOUS
<1>1. /\ \A p \in Proc : parent[p] = NoProc /\ children[p] = {}
      /\ \A p \in Proc : pc[p] \in {"boot", "loop", "user"}
      /\ \A p \in Proc : k.status[p] \in {"RUNNING", "UNINITIALIZED", "UNUSED"}
      /\ \A q \in WaitQueue : k.waitq[q] = <<>>
    BY DEF Init
<1>2. Range(<<>>) = {}
    BY DEF Range
<1>3. \A p \in Proc : k.waitq[ExitWaiters(p)] = <<>> /\ k.waitq[ChildWaiters(p)] = <<>>
    BY <1>1, QueueNames
<1>4. Mirror /\ NoneGone
    BY <1>1, NoProcAssumption DEF Mirror, NoneGone
<1>5. DeadOK /\ Waiters /\ ForChild /\ ForAny
    BY <1>1 DEF DeadOK, Waiters, ForChild, ForAny
<1>6. InQueue
    BY <1>2, <1>3 DEF InQueue
<1> QED  BY <1>4, <1>5, <1>6, Parts

\* The action of FreeOnlyDead: who may be freed in a step.
FreesDead ==
    \A p \in Proc : k'.status[p] = "FREED" /\ k.status[p] # "FREED" =>
        /\ k.status[p] = "READY_TO_DIE"
        /\ p # k.current
        /\ parent[p] \in {NoProc, k.current}

\* Steps that leave the family alone and change statuses among the living only.
Alive == {"RUNNING", "READY_TO_RUN", "SLEEPING_TIMER", "UNINITIALIZED"}

Calm ==
    \A p \in Proc :
        \/ k'.status[p] = k.status[p]
        \/ /\ k.status[p] \in Alive /\ k'.status[p] \in Alive
           /\ k'.status[p] \in {"RUNNING", "READY_TO_RUN"} \/ pc[p] = "user"

\* A step that neither kills, frees, blocks nor wakes a process, and leaves
\* the family tree alone, keeps the invariant.
LEMMA CalmOK ==
    ASSUME SchedInv, FamilyInv, Calm, k'.waitq = k.waitq,
           UNCHANGED <<parent, children, target>>,
           \A p \in Users : pc'[p] = pc[p],
           \A p \in Daemons : pc'[p] \notin {"dead", "wait_child", "wait_any"}
    PROVE  FamilyInv' /\ FreesDead
<1>1. \A p \in Proc, l \in {"dead", "wait_child", "wait_any"} :
          pc'[p] = l <=> pc[p] = l
    BY Distinct DEF SchedInv, ControlOK, Users, Daemons
<1>2. \A p \in Proc, s \in {"UNUSED", "FREED", "READY_TO_DIE", "BLOCKED"} :
          k'.status[p] = s <=> k.status[p] = s
    BY DEF Calm, Alive
<1>3. /\ Mirror /\ NoneGone /\ DeadOK /\ Waiters /\ ForChild /\ ForAny /\ InQueue
      /\ parent \in [Proc -> Proc \cup {NoProc}]
    BY Parts, FamilyTypes
<1>4. Mirror'
    BY <1>3 DEF Mirror
<1>5. NoneGone'
    BY <1>2, <1>3 DEF NoneGone, Gone
<1>6. DeadOK'
    BY <1>1, <1>2, <1>3 DEF DeadOK
<1>7. Waiters'
    <2> SUFFICES ASSUME NEW p \in Proc, pc'[p] \in {"wait_child", "wait_any"}
                 PROVE  k'.status[p] \in {"RUNNING", "READY_TO_RUN", "BLOCKED"}
        BY DEF Waiters
    <2>1. pc[p] \in {"wait_child", "wait_any"}
        BY <1>1
    <2> QED  BY <1>3, <2>1 DEF Waiters, Calm
<1>8. ForChild'
    BY <1>1, <1>2, <1>3 DEF ForChild
<1>9. ForAny'
    BY <1>1, <1>2, <1>3 DEF ForAny
<1>10. InQueue'
    BY <1>1, <1>3 DEF InQueue
<1>11. FreesDead
    BY DEF Calm, Alive, FreesDead
<1> QED  BY <1>4, <1>5, <1>6, <1>7, <1>8, <1>9, <1>10, <1>11, PartsNext

\* The timer interrupt wakes sleepers and switches; waitpid is not concerned.
LEMMA TickCalm ==
    ASSUME SchedInv, FamilyInv, Tick
    PROVE  FamilyInv' /\ FreesDead
<1> DEFINE s == HandleTimer(Entry)
<1>1. /\ pc[Terminator] # "reap" /\ k.status[k.current] = "RUNNING"
      /\ UNCHANGED <<parent, children, pc, target, reap>>
      /\ k' = IF Returned(k, s) THEN Iret(s) ELSE s
    BY DEF Tick, AfterTick, TickReady, SchedInv, ControlOK, CurrentRuns, CurrentOK
<1>2. Calling(Entry, <<>>) /\ SameQueues(k, Entry)
    BY <1>1, MayCall
<1>3. Ticked(Entry, s, <<>>)
    BY <1>2, CallingSteady, TimerOK
<1> HIDE DEF s
<1>4. k'.status = s.status /\ k'.waitq = s.waitq
    <2>1. s \in State
        BY <1>3 DEF Ticked, Consistent
    <2> QED  BY <1>1, <2>1 DEF Iret, State
<1>5. Calm /\ k'.waitq = k.waitq
    BY <1>2, <1>3, <1>4 DEF Ticked, SameQueues, Calm, Alive
<1>6. \A p \in Daemons : pc'[p] \notin {"dead", "wait_child", "wait_any"}
    BY <1>1, Distinct DEF SchedInv, ControlOK, Daemons
<1> QED  BY <1>1, <1>5, <1>6, CalmOK

\* The tail of a switched-out call, and proc_prelude, only run the process.
LEMMA UnwindCalm ==
    ASSUME SchedInv, FamilyInv, NEW p \in Proc, UnwindStep(p) \/ Prelude(p)
    PROVE  FamilyInv' /\ FreesDead
<1>1. k \in State /\ k.status \in [Proc -> Status]
    BY FamilyTypes DEF SchedInv, TypeOK
<1>2. k'.waitq = k.waitq
    BY <1>1 DEF UnwindStep, Prelude, Unwind, SchedUnlock, Iret, State
<1>3. UNCHANGED <<parent, children, pc, target>>
    BY DEF UnwindStep, Prelude
<1>4. Calm
    <2>1. CASE UnwindStep(p)
        <3>1. k'.status = k.status
            BY <1>1, <2>1 DEF UnwindStep, Unwind, SchedUnlock, State
        <3> QED  BY <3>1 DEF Calm
    <2>2. CASE Prelude(p)
        <3>1. k'.status = [k.status EXCEPT ![p] = "RUNNING"]
            BY <1>1, <2>2 DEF Prelude, SchedUnlock, Iret, State
        <3>2. k.status[p] = "UNINITIALIZED"
            BY <2>2 DEF Prelude
        <3> QED  BY <1>1, <3>1, <3>2 DEF Calm, Alive
    <2> QED  BY <2>1, <2>2
<1>5. \A q \in Daemons : pc'[q] \notin {"dead", "wait_child", "wait_any"}
    BY <1>3, Distinct DEF SchedInv, ControlOK, Daemons
<1> QED  BY <1>2, <1>3, <1>4, <1>5, CalmOK

\* The steps of kernel_main and terminator() that free nobody.
LEMMA DaemonCalm ==
    ASSUME SchedInv, FamilyInv,
           \/ KernelYield \/ TerminatorYield \/ TerminatorCheck
           \/ TerminatorBegin \/ TerminatorKeep \/ TerminatorEnd
    PROVE  FamilyInv' /\ FreesDead
<1>1. pc \in [Proc -> Label] /\ k \in State
    BY DEF SchedInv, TypeOK
<1>2. UNCHANGED <<parent, children, target>>
    BY DEF KernelYield, TerminatorYield, TerminatorCheck,
           TerminatorBegin, TerminatorKeep, TerminatorEnd
<1>3. /\ \A p \in Users : pc'[p] = pc[p]
      /\ \A p \in Daemons : pc'[p] \notin {"dead", "wait_child", "wait_any"}
    BY <1>1, Distinct DEF KernelYield, TerminatorYield, TerminatorCheck, TerminatorBegin,
           TerminatorKeep, TerminatorEnd, Goto, SchedInv, ControlOK, Users, Daemons
<1>4. Calm /\ k'.waitq = k.waitq
    <2>1. CASE KernelYield \/ TerminatorYield
        <3>1. /\ k.status[k.current] = "RUNNING" /\ pc[Terminator] # "reap"
              /\ k' = SchedYield(k)
            BY <2>1, Distinct DEF KernelYield, TerminatorYield, At, Running, SchedInv, ControlOK
        <3>2. SwitchedAway(k, k', <<>>)
            BY <3>1, MayCall, YieldOK DEF Calling
        <3> QED  BY <3>2 DEF SwitchedAway, Quiet, Calm, Alive
    <2>2. CASE TerminatorCheck
        BY <2>2 DEF TerminatorCheck, Calm
    <2>3. CASE TerminatorBegin
        BY <1>1, <2>3 DEF TerminatorBegin, SchedPostpone, State, Calm
    <2>4. CASE TerminatorKeep
        BY <1>1, <2>4 DEF TerminatorKeep, State, Calm
    <2>5. CASE TerminatorEnd
        <3> DEFINE a == [k EXCEPT !.dying = reap.waiting]
        <3>1. a \in State /\ a.status = k.status /\ a.waitq = k.waitq /\ a.flag = FALSE
            <4>1. reap.waiting \in Seq(Proc) /\ k.flag = FALSE
                BY Basics DEF SchedInv, ControlOK
            <4> QED  BY <1>1, <4>1 DEF State
        <3>2. k' = SchedResume(a)
            BY <2>5 DEF TerminatorEnd
        <3> HIDE DEF a
        <3>3. SameQueues(a, k')
            BY <3>1, <3>2, ResumeReturn
        <3> QED  BY <3>1, <3>3 DEF SameQueues, Calm
    <2> QED  BY <2>1, <2>2, <2>3, <2>4, <2>5
<1> QED  BY <1>2, <1>3, <1>4, CalmOK

\* nanosleep puts the caller in the sleeping queue, not in a wait queue.
LEMMA NanosleepCalm ==
    ASSUME SchedInv, FamilyInv, NEW p \in Users, NEW n \in Nat, Nanosleep(p, n)
    PROVE  FamilyInv' /\ FreesDead
<1>1. /\ k.current = p /\ k.status[p] = "RUNNING" /\ k' = SleepCurrentNs(Entry, n)
      /\ UNCHANGED <<parent, children, pc, target, reap>> /\ pc[p] = "user"
    BY DEF Nanosleep, At, Running
<1>2. Calling(Entry, <<>>) /\ SameQueues(k, Entry)
    BY <1>1, UserRuns
<1>3. GaveUp(Entry, k', <<>>, "SLEEPING_TIMER") /\ k'.waitq = Entry.waitq
    <2>1. /\ GaveUp(Entry, SleepCurrentNs(Entry, n), <<>>, "SLEEPING_TIMER")
          /\ SleepCurrentNs(Entry, n).waitq = Entry.waitq
        BY <1>2, SleepOK
    <2> QED  BY <1>1, <2>1
<1>4. Calm /\ k'.waitq = k.waitq
    BY <1>1, <1>2, <1>3 DEF GaveUp, SameQueues, Calm, Alive
<1>5. \A q \in Daemons : pc'[q] \notin {"dead", "wait_child", "wait_any"}
    BY <1>1, Distinct DEF SchedInv, ControlOK, Daemons
<1> QED  BY <1>1, <1>4, <1>5, CalmOK

\* Only BLOCKED processes are in wait queues, and those in the queue that goes
\* with what they wait for.
LEMMA QueuedBlocked ==
    ASSUME SchedInv, FamilyInv, NEW p \in Proc
    PROVE  /\ \A q \in WaitQueue : p \in Range(k.waitq[q]) => k.status[p] = "BLOCKED"
           /\ k.status[p] = "BLOCKED" =>
                \/ /\ pc[p] = "wait_child"
                   /\ p \in Range(k.waitq[ExitWaiters(target[p])])
                \/ /\ pc[p] = "wait_any"
                   /\ p \in Range(k.waitq[ChildWaiters(p)])
<1>1. \A q \in WaitQueue : p \in Range(k.waitq[q]) => k.status[p] = "BLOCKED"
    BY DEF SchedInv, WaitQueuesMatchStatus, WaitQueuesOK
<1>2. ASSUME k.status[p] = "BLOCKED"
      PROVE  \/ /\ pc[p] = "wait_child"
                /\ p \in Range(k.waitq[ExitWaiters(target[p])])
             \/ /\ pc[p] = "wait_any"
                /\ p \in Range(k.waitq[ChildWaiters(p)])
    <2>1. PICK q \in WaitQueue : p \in Range(k.waitq[q])
        BY <1>2 DEF SchedInv, WaitQueuesMatchStatus, WaitQueuesOK
    <2>2. PICK c \in Proc : q = ExitWaiters(c) \/ q = ChildWaiters(c)
        BY ProcAssumption DEF ExitWaiters, ChildWaiters
    <2> QED  BY <2>1, <2>2, Parts DEF InQueue
<1> QED  BY <1>1, <1>2

\* fork_proc enters the child in both directions of the family tree.
LEMMA ForkFamily ==
    ASSUME SchedInv, FamilyInv, NEW p \in Users, NEW c \in Users, Fork(p, c)
    PROVE  FamilyInv' /\ FreesDead
<1>1. /\ k.status[p] = "RUNNING" /\ k.status[c] = "UNUSED" /\ pc[p] = "user"
      /\ k' = [k EXCEPT !.status[c] = "READY_TO_RUN", !.ready = Append(@, c)]
      /\ parent' = [parent EXCEPT ![c] = p]
      /\ children' = [children EXCEPT ![p] = @ \cup {c}]
      /\ UNCHANGED <<pc, target, reap>>
    BY DEF Fork, At, Running
<1>2. /\ Mirror /\ NoneGone /\ DeadOK /\ Waiters /\ ForChild /\ ForAny /\ InQueue
      /\ parent \in [Proc -> Proc \cup {NoProc}] /\ children \in [Proc -> SUBSET Proc]
      /\ k.status \in [Proc -> Status] /\ p \in Proc /\ c \in Proc /\ k \in State
    BY Parts, FamilyTypes DEF Users, SchedInv, TypeOK
<1>3. /\ k'.status = [k.status EXCEPT ![c] = "READY_TO_RUN"] /\ k'.waitq = k.waitq
    BY <1>1, <1>2 DEF State
<1>4. /\ parent[c] = NoProc /\ \A x \in Proc : parent[x] # c
      /\ c # p /\ pc[c] \notin {"dead", "wait_child", "wait_any"} /\ c # NoProc
    <2>1. parent[c] = NoProc /\ c # NoProc
        BY <1>1, <1>2, NoProcAssumption DEF NoneGone, Gone
    <2>2. \A x \in Proc : parent[x] # c
        BY <1>1, <1>2, <2>1 DEF NoneGone, Gone
    <2>3. pc[c] \notin {"dead", "wait_child", "wait_any"}
        BY <1>1, <1>2 DEF DeadOK, Waiters
    <2> QED  BY <1>1, <2>1, <2>2, <2>3
<1>5. /\ \A x \in Proc \ {c} : parent'[x] = parent[x] /\ k'.status[x] = k.status[x]
      /\ parent'[c] = p /\ k'.status[c] = "READY_TO_RUN"
      /\ \A x \in Proc \ {p} : children'[x] = children[x]
      /\ children'[p] = children[p] \cup {c}
    BY <1>1, <1>2, <1>3
<1>6. Mirror'
    BY <1>2, <1>4, <1>5, NoProcAssumption DEF Mirror
<1>7. NoneGone'
    BY <1>1, <1>2, <1>4, <1>5 DEF NoneGone, Gone
<1>8. DeadOK' /\ Waiters'
    BY <1>1, <1>2, <1>4, <1>5 DEF DeadOK, Waiters
<1>9. ForChild'
    BY <1>1, <1>2, <1>4, <1>5, NoProcAssumption DEF ForChild
<1>10. ForAny'
    BY <1>1, <1>2, <1>4, <1>5, NoProcAssumption DEF ForAny
<1>11. InQueue'
    BY <1>1, <1>2, <1>3 DEF InQueue
<1>12. FreesDead
    BY <1>5 DEF FreesDead
<1> QED  BY <1>6, <1>7, <1>8, <1>9, <1>10, <1>11, <1>12, PartsNext

\* proc_free of a dead process that nobody waits for, apart from the processes D
\* that return from waitpid in the same step.
LEMMA FreeFamily ==
    ASSUME SchedInv, FamilyInv, NEW s, NEW c \in Proc, ProcFree(s, c),
           k.status[c] = "READY_TO_DIE",
           NEW D \in SUBSET Proc, D \subseteq {k.current},
           parent[c] \in D \cup {NoProc},
           k'.status = [k.status EXCEPT ![c] = "FREED"], k'.waitq = k.waitq,
           \A x \in Proc \ D : pc'[x] = pc[x] /\ target'[x] = target[x],
           \A x \in D : pc'[x] = "user" /\ k.status[x] = "RUNNING"
    PROVE  FamilyInv' /\ FreesDead
<1>1. /\ Mirror /\ NoneGone /\ DeadOK /\ Waiters /\ ForChild /\ ForAny /\ InQueue
      /\ parent \in [Proc -> Proc \cup {NoProc}] /\ children \in [Proc -> SUBSET Proc]
      /\ k.status \in [Proc -> Status]
    BY Parts, FamilyTypes
<1>2. /\ parent' = [x \in Proc |-> IF x \in children[c] \cup {c} THEN NoProc
                                   ELSE parent[x]]
      /\ children' = [q \in Proc |-> IF q = c THEN {}
                                     ELSE IF q = parent[c]
                                     THEN children[q] \ {c} ELSE children[q]]
    BY DEF ProcFree
<1>3. pc[c] = "dead" /\ c \notin D /\ c # NoProc
    BY <1>1, NoProcAssumption DEF DeadOK
<1>4. /\ \A x \in Proc : parent'[x] = IF parent[x] = c \/ x = c THEN NoProc ELSE parent[x]
      /\ \A x \in Proc \ {c} : k'.status[x] = k.status[x]
      /\ k'.status[c] = "FREED"
    BY <1>1, <1>2 DEF Mirror
<1>5. Mirror'
    BY <1>1, <1>2, <1>4, NoProcAssumption DEF Mirror
<1>6. NoneGone'
    BY <1>1, <1>4 DEF NoneGone
<1>7. DeadOK' /\ Waiters'
    BY <1>1, <1>3, <1>4 DEF DeadOK, Waiters
<1>8. \A x \in Proc : pc'[x] \in {"wait_child", "wait_any"} =>
          /\ x \notin D /\ x # c /\ x # parent[c]
          /\ pc'[x] = pc[x] /\ target'[x] = target[x]
    BY <1>3, NoProcAssumption
<1>9. ForChild'
    BY <1>1, <1>4, <1>8 DEF ForChild
<1>10. ForAny'
    <2> SUFFICES ASSUME NEW x \in Proc, pc'[x] = "wait_any"
                 PROVE  /\ \E y \in Proc : parent'[y] = x
                        /\ k'.status[x] = "BLOCKED" <=>
                             \A y \in Proc : parent'[y] = x => k'.status[y] # "READY_TO_DIE"
        BY DEF ForAny
    <2>1. x # c /\ x # parent[c] /\ pc[x] = "wait_any" /\ x # NoProc
        BY <1>8, NoProcAssumption
    <2>2. \A y \in Proc : parent'[y] = x <=> parent[y] = x
        BY <1>4, <2>1
    <2>3. \A y \in Proc : parent[y] = x => k'.status[y] = k.status[y]
        BY <1>4, <2>1
    <2>4. k'.status[x] = k.status[x]
        BY <1>4, <2>1
    <2> QED  BY <1>1, <2>1, <2>2, <2>3, <2>4 DEF ForAny
<1>11. InQueue'
    <2> SUFFICES ASSUME NEW x \in Proc, NEW y \in Proc
                 PROVE  /\ x \in Range(k.waitq[ExitWaiters(y)]) =>
                             pc'[x] = "wait_child" /\ target'[x] = y
                        /\ x \in Range(k.waitq[ChildWaiters(y)]) =>
                             pc'[x] = "wait_any" /\ x = y
        BY DEF InQueue
    <2>1. \/ x \in Range(k.waitq[ExitWaiters(y)])
          \/ x \in Range(k.waitq[ChildWaiters(y)])
          => x \notin D
        BY QueuedBlocked, QueueNames
    <2> QED  BY <1>1, <2>1 DEF InQueue
<1>12. FreesDead
    <2>1. c # k.current
        BY DEF SchedInv, CurrentRuns, CurrentOK
    <2> QED  BY <1>4, <2>1 DEF FreesDead
<1> QED  BY <1>5, <1>6, <1>7, <1>9, <1>10, <1>11, <1>12, PartsNext

\* terminator() frees a dead process without a parent.
LEMMA TerminatorFreeFamily ==
    ASSUME SchedInv, FamilyInv, TerminatorFree
    PROVE  FamilyInv' /\ FreesDead
<1> DEFINE h == Head(k.dying)
           a == [k EXCEPT !.dying = Tail(@)]
           w == reap.waiting
<1>1. /\ k.dying # <<>> /\ ProcFree(a, h) /\ UNCHANGED <<pc, target>>
      /\ parent[h] = NoProc
    BY DEF TerminatorFree
<1>2. /\ k \in State /\ k.dying \in Seq(Proc) /\ w \in Seq(Proc) /\ QueuesOK(k, w)
    BY Basics DEF Consistent
<1>3. h \in Proc /\ h \in Range(k.dying)
    BY <1>1, <1>2, PopHead
<1>4. k.status[h] = "READY_TO_DIE"
    <2>1. Range(k.dying \o w) = Range(k.dying) \cup Range(w)
        BY <1>2, Splice
    <2> QED  BY <1>2, <1>3, <2>1 DEF QueuesOK, WithStatus
<1>5. k' = [a EXCEPT !.status[h] = "FREED"]
    BY <1>1 DEF ProcFree
<1>6. k'.status = [k.status EXCEPT ![h] = "FREED"] /\ k'.waitq = k.waitq
    BY <1>2, <1>5 DEF State
<1> HIDE DEF h, a
<1> DEFINE D == {}
<1>7. /\ D \in SUBSET Proc /\ D \subseteq {k.current} /\ parent[h] \in D \cup {NoProc}
      /\ \A x \in Proc \ D : pc'[x] = pc[x] /\ target'[x] = target[x]
      /\ \A x \in D : pc'[x] = "user" /\ k.status[x] = "RUNNING"
    BY <1>1
<1> HIDE DEF D
<1> QED  BY <1>1, <1>3, <1>4, <1>6, <1>7, FreeFamily

\* process_wait_collect frees a dead child of the caller.
LEMMA CollectFamily ==
    ASSUME SchedInv, FamilyInv, NEW p \in Users, k.current = p, k.status[p] = "RUNNING",
           NEW c \in Proc, k.status[c] = "READY_TO_DIE", parent[c] = p,
           NEW s, s = Entry \/ s = k, Collect(s, c), pc'[p] = "user",
           \A x \in Proc \ {p} : pc'[x] = pc[x] /\ target'[x] = target[x]
    PROVE  FamilyInv' /\ FreesDead
<1>1. Collected(c)
    BY CollectEffect
<1>2. k'.status = [k.status EXCEPT ![c] = "FREED"] /\ k'.waitq = k.waitq
    BY <1>1 DEF Collected
<1> DEFINE a == Iret(SchedResume([SchedPostpone(s) EXCEPT !.dying = Without(@, c)]))
<1>3. ProcFree(a, c)
    BY DEF Collect
<1> HIDE DEF a
<1>4. {p} \in SUBSET Proc
    BY DEF Users
<1> QED  BY <1>2, <1>3, <1>4, FreeFamily

\* waitpid that slept: it finds the child it was woken for.
LEMMA WaitpidWokenFamily ==
    ASSUME SchedInv, FamilyInv, NEW p \in Proc, WaitpidWoken(p)
    PROVE  FamilyInv' /\ FreesDead
<1>1. /\ k.current = p /\ k.status[p] = "RUNNING"
      /\ pc[p] \in {"wait_child", "wait_any"}
      /\ target' = [target EXCEPT ![p] = NoProc]
      /\ pc' = [pc EXCEPT ![p] = "user"]
    BY DEF WaitpidWoken, At, Running, Goto
<1>2. p \in Users
    BY <1>1 DEF SchedInv, ControlOK, Users, Daemons
<1>3. Mirror /\ ForChild /\ ForAny
    BY Parts
<1>4. Found(p) # {}
    BY <1>1, <1>3 DEF Found, Zombies, Mirror, ForChild, ForAny
<1>5. PICK c \in Found(p) : Collect(k, c)
    BY <1>4 DEF WaitpidWoken
<1>6. c \in Proc /\ k.status[c] = "READY_TO_DIE" /\ parent[c] = p
    BY <1>3, FamilyTypes DEF Found, Zombies, Mirror
<1>7. /\ pc'[p] = "user"
      /\ \A x \in Proc \ {p} : pc'[x] = pc[x] /\ target'[x] = target[x]
    BY <1>1, FamilyTypes
<1> QED  BY <1>1, <1>2, <1>5, <1>6, <1>7, CollectFamily

\* waitpid that goes to sleep, for one child or for any.
LEMMA SleepFamily ==
    ASSUME SchedInv, FamilyInv, NEW p \in Users, At(p, "user"),
           NEW q \in WaitQueue, NEW l \in {"wait_child", "wait_any"},
           k' = WaitQueueSleepPostponed(SchedPostpone(Entry), q),
           Goto(p, l), UNCHANGED <<parent, children>>,
           \A x \in Proc \ {p} : target'[x] = target[x],
           l = "wait_child" => /\ target'[p] \in Proc /\ parent[target'[p]] = p
                               /\ k.status[target'[p]] # "READY_TO_DIE"
                               /\ q = ExitWaiters(target'[p]),
           l = "wait_any" => /\ \E c \in Proc : parent[c] = p
                             /\ \A c \in Proc : parent[c] = p => k.status[c] # "READY_TO_DIE"
                             /\ q = ChildWaiters(p)
    PROVE  FamilyInv' /\ FreesDead
<1>1. k.current = p /\ k.status[p] = "RUNNING" /\ pc[p] = "user" /\ p \in Proc
    BY DEF At, Running, Users
<1>2. Calling(Entry, <<>>) /\ SameQueues(k, Entry)
    BY <1>1, UserRuns
<1>3. /\ GaveUp(Entry, k', <<>>, "BLOCKED")
      /\ k'.waitq = [Entry.waitq EXCEPT ![q] = Append(@, Entry.current)]
    <2> DEFINE e == Entry
               j == WaitQueueSleepPostponed(SchedPostpone(e), q)
    <2>1. k' = j /\ Calling(e, <<>>) /\ j = WaitQueueSleepPostponed(SchedPostpone(e), q)
        BY <1>2
    <2> HIDE DEF e, j
    <2>2. GaveUp(e, j, <<>>, "BLOCKED") /\ Queued(e, j, q)
        BY <2>1, BlockOK
    <2> QED  BY <2>1, <2>2 DEF e, Queued
<1>4. /\ k'.status[p] = "BLOCKED"
      /\ \A x \in Proc \ {p} :
            \/ k'.status[x] = k.status[x]
            \/ /\ k.status[x] \in {"RUNNING", "READY_TO_RUN"}
               /\ k'.status[x] \in {"RUNNING", "READY_TO_RUN"}
      /\ k'.waitq = [k.waitq EXCEPT ![q] = Append(@, p)]
    BY <1>1, <1>2, <1>3 DEF GaveUp, SameQueues
<1>5. /\ Mirror /\ NoneGone /\ DeadOK /\ Waiters /\ ForChild /\ ForAny /\ InQueue
      /\ parent \in [Proc -> Proc \cup {NoProc}] /\ k.status \in [Proc -> Status]
      /\ k.waitq \in [WaitQueue -> Seq(Proc)]
    BY Parts, FamilyTypes
<1>6. pc'[p] = l /\ \A x \in Proc \ {p} : pc'[x] = pc[x]
    BY <1>1, FamilyTypes DEF Goto
<1>7. \A x \in Proc, s \in {"UNUSED", "FREED", "READY_TO_DIE"} :
          k'.status[x] = s <=> k.status[x] = s
    BY <1>1, <1>4
<1>8. \A x \in Proc \ {p} : k'.status[x] = "BLOCKED" <=> k.status[x] = "BLOCKED"
    BY <1>4
<1>9. Mirror' /\ NoneGone'
    BY <1>5, <1>7 DEF Mirror, NoneGone, Gone
<1>10. DeadOK'
    <2> SUFFICES ASSUME NEW x \in Proc
                 PROVE  pc'[x] = "dead" <=> k'.status[x] \in {"READY_TO_DIE", "FREED"}
        BY DEF DeadOK
    <2> QED  BY <1>1, <1>4, <1>5, <1>6 DEF DeadOK
<1>11. Waiters'
    <2> SUFFICES ASSUME NEW x \in Proc, pc'[x] \in {"wait_child", "wait_any"}
                 PROVE  k'.status[x] \in {"RUNNING", "READY_TO_RUN", "BLOCKED"}
        BY DEF Waiters
    <2> QED  BY <1>4, <1>5, <1>6 DEF Waiters
<1>12. ForChild'
    BY <1>4, <1>5, <1>6, <1>7, <1>8 DEF ForChild
<1>13. ForAny'
    <2> SUFFICES ASSUME NEW x \in Proc, pc'[x] = "wait_any"
                 PROVE  /\ \E y \in Proc : parent[y] = x
                        /\ k'.status[x] = "BLOCKED" <=>
                             \A y \in Proc : parent[y] = x => k'.status[y] # "READY_TO_DIE"
        BY DEF ForAny
    <2>1. \A y \in Proc : k'.status[y] = "READY_TO_DIE" <=> k.status[y] = "READY_TO_DIE"
        BY <1>7
    <2>2. CASE x = p
        BY <1>4, <1>6, <2>1, <2>2
    <2>3. CASE x # p
        <3>1. pc[x] = "wait_any" /\ (k'.status[x] = "BLOCKED" <=> k.status[x] = "BLOCKED")
            BY <1>6, <1>8, <2>3
        <3>2. /\ \E y \in Proc : parent[y] = x
              /\ k.status[x] = "BLOCKED" <=>
                   \A y \in Proc : parent[y] = x => k.status[y] # "READY_TO_DIE"
            BY <1>5, <3>1 DEF ForAny
        <3> QED  BY <2>1, <3>1, <3>2
    <2> QED  BY <2>2, <2>3
<1>14. InQueue'
    <2> SUFFICES ASSUME NEW x \in Proc, NEW y \in Proc
                 PROVE  /\ x \in Range(k'.waitq[ExitWaiters(y)]) =>
                             pc'[x] = "wait_child" /\ target'[x] = y
                        /\ x \in Range(k'.waitq[ChildWaiters(y)]) =>
                             pc'[x] = "wait_any" /\ x = y
        BY DEF InQueue
    <2>1. /\ \A r \in WaitQueue \ {q} : k'.waitq[r] = k.waitq[r]
          /\ Range(k'.waitq[q]) = Range(k.waitq[q]) \cup {p}
        <3>1. k.waitq[q] \in Seq(Proc) /\ k'.waitq[q] = Append(k.waitq[q], p)
            BY <1>4, <1>5
        <3>2. Range(Append(k.waitq[q], p)) = Range(k.waitq[q]) \cup {p}
            BY <1>1, <3>1, PushTail
        <3> QED  BY <1>4, <1>5, <3>1, <3>2
    <2>2. \A r \in WaitQueue : p \notin Range(k.waitq[r])
        BY <1>1, QueuedBlocked
    <2>3. /\ ExitWaiters(y) \in WaitQueue /\ ChildWaiters(y) \in WaitQueue
          /\ \A z \in Proc : /\ ExitWaiters(y) # ChildWaiters(z)
                             /\ ChildWaiters(y) # ExitWaiters(z)
                             /\ ExitWaiters(y) = ExitWaiters(z) => y = z
                             /\ ChildWaiters(y) = ChildWaiters(z) => y = z
        BY QueueNames DEF ExitWaiters, ChildWaiters
    <2>4. CASE x = p
        BY <1>1, <1>6, <2>1, <2>2, <2>3, <2>4
    <2>5. CASE x # p
        <3>1. \A r \in WaitQueue : x \in Range(k'.waitq[r]) => x \in Range(k.waitq[r])
            BY <2>1, <2>5
        <3>2. /\ x \in Range(k.waitq[ExitWaiters(y)]) =>
                   pc[x] = "wait_child" /\ target[x] = y
              /\ x \in Range(k.waitq[ChildWaiters(y)]) =>
                   pc[x] = "wait_any" /\ x = y
            BY <1>5 DEF InQueue
        <3>3. pc'[x] = pc[x] /\ target'[x] = target[x]
            BY <1>6, <2>5
        <3> QED  BY <2>3, <3>1, <3>2, <3>3
    <2> QED  BY <2>4, <2>5
<1>15. FreesDead
    BY <1>7 DEF FreesDead
<1> QED  BY <1>9, <1>10, <1>11, <1>12, <1>13, <1>14, <1>15, PartsNext

\* proc_exit: a parent that waits for this child, or for any, is woken.
LEMMA ExitFamily ==
    ASSUME SchedInv, FamilyInv, NEW p \in Users, Exit(p)
    PROVE  FamilyInv' /\ FreesDead
<1> DEFINE W == IF parent[p] = NoProc THEN {}
                ELSE {ExitWaiters(p), ChildWaiters(parent[p])}
           WokenUp(x) == \E q \in W : x \in Range(k.waitq[q])
<1>1. /\ k.current = p /\ k.status[p] = "RUNNING" /\ pc[p] = "user" /\ p \in Proc
      /\ pc' = [pc EXCEPT ![p] = "dead"] /\ UNCHANGED <<parent, children, target>>
    BY DEF Exit, At, Running, Goto, Users
<1>2. Exited(Entry, k', <<>>, W)
    BY ExitEffect
<1>3. SameQueues(k, Entry)
    BY <1>1, UserRuns
<1>4. /\ Mirror /\ NoneGone /\ DeadOK /\ Waiters /\ ForChild /\ ForAny /\ InQueue
      /\ parent \in [Proc -> Proc \cup {NoProc}] /\ k.status \in [Proc -> Status]
      /\ k.waitq \in [WaitQueue -> Seq(Proc)]
    BY Parts, FamilyTypes
<1>5. pc'[p] = "dead" /\ \A x \in Proc \ {p} : pc'[x] = pc[x]
    BY <1>1, FamilyTypes
<1>6. W \subseteq WaitQueue
    BY <1>1, <1>4, QueueNames
<1>7. \A x \in Proc : WokenUp(x) =>
          /\ k.status[x] = "BLOCKED" /\ parent[p] # NoProc
          /\ \/ pc[x] = "wait_child" /\ target[x] = p
             \/ pc[x] = "wait_any" /\ x = parent[p]
    <2> SUFFICES ASSUME NEW x \in Proc, NEW q \in W, x \in Range(k.waitq[q])
                 PROVE  /\ k.status[x] = "BLOCKED" /\ parent[p] # NoProc
                        /\ \/ pc[x] = "wait_child" /\ target[x] = p
                           \/ pc[x] = "wait_any" /\ x = parent[p]
        OBVIOUS
    <2>1. k.status[x] = "BLOCKED"
        BY <1>6, QueuedBlocked
    <2>2. parent[p] \in Proc /\ parent[p] # NoProc
          /\ (q = ExitWaiters(p) \/ q = ChildWaiters(parent[p]))
        BY <1>1, <1>4
    <2> QED  BY <1>1, <1>4, <2>1, <2>2 DEF InQueue
<1>8. /\ k'.status[p] = "READY_TO_DIE"
      /\ \A x \in Proc \ {p} : WokenUp(x) => k'.status[x] \in {"RUNNING", "READY_TO_RUN"}
      /\ \A x \in Proc \ {p} : ~WokenUp(x) =>
            \/ k'.status[x] = k.status[x]
            \/ /\ k.status[x] \in {"RUNNING", "READY_TO_RUN"}
               /\ k'.status[x] \in {"RUNNING", "READY_TO_RUN"}
      /\ k'.waitq = [q \in WaitQueue |-> IF q \in W THEN <<>> ELSE k.waitq[q]]
    <2> HIDE DEF W
    <2>1. k.current = p /\ Entry.current = p /\ Entry.status = k.status
          /\ Entry.waitq = k.waitq
        BY <1>1, <1>3 DEF SameQueues
    <2> QED  BY <1>2, <2>1 DEF Exited
<1>9. /\ parent[p] # NoProc =>
           ExitWaiters(p) \in W /\ ChildWaiters(parent[p]) \in W
      OBVIOUS
<1>10. \A x \in Proc : pc[x] = "wait_child" /\ target[x] = p /\ k.status[x] = "BLOCKED"
                          => WokenUp(x)
    <2> SUFFICES ASSUME NEW x \in Proc, pc[x] = "wait_child", target[x] = p,
                        k.status[x] = "BLOCKED"
                 PROVE  WokenUp(x)
        OBVIOUS
    <2>1. parent[p] = x /\ x # NoProc
        BY <1>4, NoProcAssumption DEF ForChild
    <2>2. x \in Range(k.waitq[ExitWaiters(p)])
        BY QueuedBlocked
    <2> QED  BY <1>9, <2>1, <2>2
<1>11. \A x \in Proc : pc[x] = "wait_any" /\ parent[p] = x /\ k.status[x] = "BLOCKED"
                          => WokenUp(x)
    BY <1>9, NoProcAssumption, QueuedBlocked
<1> HIDE DEF W, WokenUp
<1>12. \A x \in Proc \ {p}, s \in {"UNUSED", "FREED", "READY_TO_DIE"} :
          k'.status[x] = s <=> k.status[x] = s
    BY <1>7, <1>8
<1>13. \A x \in Proc \ {p} :
          k'.status[x] = "BLOCKED" <=> k.status[x] = "BLOCKED" /\ ~WokenUp(x)
    BY <1>8
<1>14. Mirror' /\ NoneGone'
    <2>1. \A x \in Proc : k'.status[x] \in Gone <=> k.status[x] \in Gone
        BY <1>1, <1>8, <1>12 DEF Gone
    <2> QED  BY <1>1, <1>4, <2>1 DEF Mirror, NoneGone
<1>15. DeadOK'
    BY <1>4, <1>5, <1>8, <1>12 DEF DeadOK
<1>16. Waiters'
    <2> SUFFICES ASSUME NEW x \in Proc, pc'[x] \in {"wait_child", "wait_any"}
                 PROVE  k'.status[x] \in {"RUNNING", "READY_TO_RUN", "BLOCKED"}
        BY DEF Waiters
    <2>1. x # p /\ pc[x] \in {"wait_child", "wait_any"}
        BY <1>5
    <2>2. k.status[x] \in {"RUNNING", "READY_TO_RUN", "BLOCKED"}
        BY <1>4, <2>1 DEF Waiters
    <2> QED  BY <1>8, <2>1, <2>2
<1>17. ForChild'
    <2> SUFFICES ASSUME NEW x \in Proc, pc'[x] = "wait_child"
                 PROVE  /\ target[x] \in Proc /\ parent[target[x]] = x
                        /\ k'.status[x] = "BLOCKED" <=> k'.status[target[x]] # "READY_TO_DIE"
        BY <1>1 DEF ForChild
    <2>1. x # p /\ pc[x] = "wait_child"
        BY <1>5
    <2>2. /\ target[x] \in Proc /\ parent[target[x]] = x
          /\ k.status[x] = "BLOCKED" <=> k.status[target[x]] # "READY_TO_DIE"
        BY <1>4, <2>1 DEF ForChild
    <2>3. CASE target[x] = p
        BY <1>1, <1>8, <1>10, <1>13, <2>1, <2>2, <2>3
    <2>4. CASE target[x] # p
        <3>1. ~WokenUp(x)
            BY <1>7, <2>1, <2>4
        <3> QED  BY <1>12, <1>13, <2>1, <2>2, <2>4, <3>1
    <2> QED  BY <2>3, <2>4
<1>18. ForAny'
    <2> SUFFICES ASSUME NEW x \in Proc, pc'[x] = "wait_any"
                 PROVE  /\ \E y \in Proc : parent[y] = x
                        /\ k'.status[x] = "BLOCKED" <=>
                             \A y \in Proc : parent[y] = x => k'.status[y] # "READY_TO_DIE"
        BY <1>1 DEF ForAny
    <2>1. x # p /\ pc[x] = "wait_any"
        BY <1>5
    <2>2. /\ \E y \in Proc : parent[y] = x
          /\ k.status[x] = "BLOCKED" <=>
               \A y \in Proc : parent[y] = x => k.status[y] # "READY_TO_DIE"
        BY <1>4, <2>1 DEF ForAny
    <2>3. CASE parent[p] = x
        BY <1>1, <1>8, <1>11, <1>13, <2>1, <2>2, <2>3
    <2>4. CASE parent[p] # x
        <3>1. ~WokenUp(x)
            BY <1>7, <2>1, <2>4
        <3>2. k'.status[x] = "BLOCKED" <=> k.status[x] = "BLOCKED"
            BY <1>13, <2>1, <3>1
        <3>3. \A y \in Proc : parent[y] = x =>
                 (k'.status[y] = "READY_TO_DIE" <=> k.status[y] = "READY_TO_DIE")
            BY <1>12, <2>4
        <3> QED  BY <2>2, <3>2, <3>3
    <2> QED  BY <2>3, <2>4
<1>19. InQueue'
    <2> SUFFICES ASSUME NEW x \in Proc, NEW y \in Proc
                 PROVE  /\ x \in Range(k'.waitq[ExitWaiters(y)]) =>
                             pc'[x] = "wait_child" /\ target[x] = y
                        /\ x \in Range(k'.waitq[ChildWaiters(y)]) =>
                             pc'[x] = "wait_any" /\ x = y
        BY <1>1 DEF InQueue
    <2>1. \A r \in WaitQueue : x \in Range(k'.waitq[r]) => x \in Range(k.waitq[r]) /\ x # p
        <3>1. Range(<<>>) = {}
            BY DEF Range
        <3>2. \A r \in WaitQueue : p \notin Range(k.waitq[r])
            BY <1>1, QueuedBlocked
        <3> QED  BY <1>8, <3>1, <3>2
    <2>2. ExitWaiters(y) \in WaitQueue /\ ChildWaiters(y) \in WaitQueue
        BY QueueNames
    <2>3. /\ x \in Range(k.waitq[ExitWaiters(y)]) => pc[x] = "wait_child" /\ target[x] = y
          /\ x \in Range(k.waitq[ChildWaiters(y)]) => pc[x] = "wait_any" /\ x = y
        BY <1>4 DEF InQueue
    <2> QED  BY <1>5, <2>1, <2>2, <2>3
<1>20. FreesDead
    BY <1>8, <1>12 DEF FreesDead
<1> QED  BY <1>14, <1>15, <1>16, <1>17, <1>18, <1>19, <1>20, PartsNext

-----------------------------------------------------------------------------
\* Every system call keeps the invariant.
LEMMA UserStepFamily ==
    ASSUME SchedInv, FamilyInv, NEW p \in Users, UserStep(p)
    PROVE  FamilyInv' /\ FreesDead
<1>1. ASSUME NEW n \in 0..MaxSleep, Nanosleep(p, n) PROVE FamilyInv' /\ FreesDead
    BY <1>1, NanosleepCalm, ProcAssumption
<1>2. ASSUME NEW c \in Users, Fork(p, c) PROVE FamilyInv' /\ FreesDead
    BY <1>2, ForkFamily
<1>3. ASSUME NEW c \in Users, WaitpidNow(p, c) PROVE FamilyInv' /\ FreesDead
    <2>1. /\ c \in Proc /\ k.status[c] = "READY_TO_DIE" /\ k.current = p
          /\ k.status[p] = "RUNNING" /\ Collect(Entry, c) /\ pc[p] = "user"
          /\ UNCHANGED <<pc, target>> /\ c \in children[p] /\ p \in Proc
        BY <1>3 DEF WaitpidNow, At, Running, Zombies, Users
    <2>2. parent[c] = p
        BY <2>1, Parts DEF Mirror
    <2> QED  BY <2>1, <2>2, CollectFamily
<1>4. ASSUME NEW c \in Users, WaitpidSleepChild(p, c) PROVE FamilyInv' /\ FreesDead
    <2>1. c \in Proc /\ p \in Proc /\ ExitWaiters(c) \in WaitQueue
        BY QueueNames DEF Users
    <2>2. /\ At(p, "user") /\ c \in children[p] /\ c \notin Zombies(p)
          /\ k' = WaitQueueSleepPostponed(SchedPostpone(Entry), ExitWaiters(c))
          /\ target' = [target EXCEPT ![p] = c] /\ Goto(p, "wait_child")
          /\ UNCHANGED <<parent, children>>
        BY <1>4 DEF WaitpidSleepChild
    <2>3. parent[c] = p /\ k.status[c] # "READY_TO_DIE"
        BY <2>1, <2>2, Parts DEF Mirror, Zombies
    <2>4. target'[p] = c /\ \A x \in Proc \ {p} : target'[x] = target[x]
        BY <2>1, <2>2, FamilyTypes
    <2> QED  BY <2>1, <2>2, <2>3, <2>4, SleepFamily
<1>5. ASSUME WaitpidSleepAny(p) PROVE FamilyInv' /\ FreesDead
    <2>1. p \in Proc /\ ChildWaiters(p) \in WaitQueue
        BY QueueNames DEF Users
    <2>2. /\ At(p, "user") /\ children[p] # {} /\ Zombies(p) = {}
          /\ k' = WaitQueueSleepPostponed(SchedPostpone(Entry), ChildWaiters(p))
          /\ Goto(p, "wait_any") /\ UNCHANGED <<parent, children, target>>
        BY <1>5 DEF WaitpidSleepAny
    <2>3. /\ \E c \in Proc : parent[c] = p
          /\ \A c \in Proc : parent[c] = p => k.status[c] # "READY_TO_DIE"
        BY <2>1, <2>2, Parts, FamilyTypes DEF Mirror, Zombies
    <2> QED  BY <2>1, <2>2, <2>3, SleepFamily
<1>6. ASSUME Exit(p) PROVE FamilyInv' /\ FreesDead
    BY <1>6, ExitFamily
<1> QED  BY <1>1, <1>2, <1>3, <1>4, <1>5, <1>6 DEF UserStep

\* Every step keeps the family invariant and frees only what may be freed.
LEMMA FamilyStep ==
    SchedInv /\ FamilyInv /\ [Next]_vars => FamilyInv' /\ FreesDead
<1> SUFFICES ASSUME SchedInv, FamilyInv, [Next]_vars PROVE FamilyInv' /\ FreesDead
    OBVIOUS
<1>1. CASE Tick
    BY <1>1, TickCalm
<1>2. ASSUME NEW p \in Proc, KernelCode(p) PROVE FamilyInv' /\ FreesDead
    <2>1. CASE UnwindStep(p) \/ Prelude(p)
        BY <2>1, UnwindCalm
    <2>2. CASE WaitpidWoken(p)
        BY <2>2, WaitpidWokenFamily
    <2>3. CASE TerminatorStep
        BY <2>3, DaemonCalm, TerminatorFreeFamily DEF TerminatorStep
    <2>4. CASE KernelYield
        BY <2>4, DaemonCalm
    <2> QED  BY <1>2, <2>1, <2>2, <2>3, <2>4 DEF KernelCode
<1>3. ASSUME NEW p \in Users, UserStep(p) PROVE FamilyInv' /\ FreesDead
    BY <1>3, UserStepFamily
<1>4. CASE UNCHANGED vars
    <2>1. FamilyInv'
        BY <1>4 DEF vars, FamilyInv
    <2> QED  BY <1>4, <2>1 DEF vars, FreesDead
<1> QED  BY <1>1, <1>2, <1>3, <1>4 DEF Next

\* The family invariant holds in every reachable state: progress through waitpid
\* and exit agrees with statuses, wait queues and children.
THEOREM FamilyConsistent == Spec => []FamilyInv
BY FamilyInit, FamilyStep, SchedulerConsistent, PTL DEF Spec

\* parent and children always agree, and no process has a parent, a child or a
\* waitpid target that has been freed.
THEOREM FamilyAlwaysTree == Spec => []FamilyTree
<1>1. SchedInv /\ FamilyInv => FamilyTree
    <2> SUFFICES ASSUME SchedInv, FamilyInv PROVE FamilyTree
        OBVIOUS
    <2>1. Mirror /\ NoneGone /\ ForChild
        BY Parts
    <2>2. \A p \in Proc : pc[p] = "wait_child" => k.status[target[p]] \notin Gone
        BY <2>1, NoProcAssumption DEF ForChild, NoneGone
    <2> QED  BY <2>1, <2>2 DEF FamilyTree, Mirror, NoneGone
<1> QED  BY <1>1, SchedulerConsistent, FamilyConsistent, PTL

\* No wake-up of waitpid is lost: a process blocked in waitpid waits for a child
\* that has not exited yet.
THEOREM NoLostWakeup == Spec => []WaitersWillBeWoken
<1>1. SchedInv /\ FamilyInv => WaitersWillBeWoken
    <2> SUFFICES ASSUME SchedInv, FamilyInv, NEW p \in Proc, NEW c \in Proc
                 PROVE  /\ p \in Range(k.waitq[ExitWaiters(c)]) =>
                             parent[c] = p /\ k.status[c] # "READY_TO_DIE"
                        /\ p \in Range(k.waitq[ChildWaiters(c)]) =>
                             p = c /\ children[p] # {} /\ Zombies(p) = {}
        BY DEF WaitersWillBeWoken
    <2>1. Mirror /\ ForChild /\ ForAny /\ InQueue /\ children \in [Proc -> SUBSET Proc]
        BY Parts, FamilyTypes
    <2>2. \/ p \in Range(k.waitq[ExitWaiters(c)])
          \/ p \in Range(k.waitq[ChildWaiters(c)])
          => k.status[p] = "BLOCKED"
        BY QueuedBlocked, QueueNames
    <2>3. p \in Range(k.waitq[ExitWaiters(c)]) =>
            parent[c] = p /\ k.status[c] # "READY_TO_DIE"
        BY <2>1, <2>2 DEF InQueue, ForChild
    <2>4. p \in Range(k.waitq[ChildWaiters(c)]) =>
            p = c /\ children[p] # {} /\ Zombies(p) = {}
        <3> SUFFICES ASSUME p \in Range(k.waitq[ChildWaiters(c)])
                     PROVE  p = c /\ children[p] # {} /\ Zombies(p) = {}
            OBVIOUS
        <3>1. p = c /\ pc[p] = "wait_any" /\ k.status[p] = "BLOCKED"
            BY <2>1, <2>2 DEF InQueue
        <3>2. /\ \E x \in Proc : parent[x] = p
              /\ \A x \in Proc : parent[x] = p => k.status[x] # "READY_TO_DIE"
            BY <2>1, <3>1 DEF ForAny
        <3> QED  BY <2>1, <3>1, <3>2 DEF Mirror, Zombies
    <2> QED  BY <2>3, <2>4
<1> QED  BY <1>1, SchedulerConsistent, FamilyConsistent, PTL

\* A waitpid that slept always finds a dead child: it never returns -ECHILD.
THEOREM WaitpidSucceeds == Spec => []WokenFindsZombie
<1>1. FamilyInv => WokenFindsZombie
    <2> SUFFICES ASSUME FamilyInv, NEW p \in Proc,
                        pc[p] \in {"wait_child", "wait_any"}, k.status[p] # "BLOCKED"
                 PROVE  Found(p) # {}
        BY DEF WokenFindsZombie
    <2>1. Mirror /\ ForChild /\ ForAny
        BY Parts
    <2> QED  BY <2>1 DEF Found, Zombies, Mirror, ForChild, ForAny
<1> QED  BY <1>1, FamilyConsistent, PTL

\* proc_free is only ever applied to a dead process that is off the CPU and that
\* no other process can still wait for.
THEOREM OnlyDeadFreed == Spec => FreeOnlyDead
<1>1. SchedInv /\ FamilyInv /\ [Next]_vars => [FreesDead]_vars
    BY FamilyStep
<1>2. FreeOnlyDead <=> [][FreesDead]_vars
    BY DEF FreeOnlyDead, FreesDead
<1> QED  BY <1>1, <1>2, SchedulerConsistent, FamilyConsistent, PTL DEF Spec

-----------------------------------------------------------------------------
(* The lock count is exact *)

\* As many calls are open as there are processes with an open call.
LEMMA Covered ==
    ASSUME SchedInv, IsFiniteSet(OpenCalls), NEW S \in SUBSET Proc,
           \A p \in S : k.frames[p] > 0
    PROVE  Cardinality(S) <= Cardinality(OpenCalls)
<1> DEFINE f == [p \in S |-> <<p, 1>>]
<1>1. k.frames \in [Proc -> Nat]
    BY Basics
<1>2. \A p \in S : 1 \in 1..k.frames[p]
    BY <1>1
<1>3. \A p \in S : <<p, 1>> \in OpenCalls
    BY <1>2 DEF OpenCalls
<1>4. f \in Injection(S, OpenCalls)
    BY <1>3 DEF Injection, IsInjective
<1> HIDE DEF f
<1> QED  BY <1>4, FS_Injection

\* The processes that were started, with and without the boot process.
LEMMA StartedCount ==
    /\ IsFiniteSet(Started) /\ Cardinality(Started) \in Nat
    /\ Cardinality(Started \cup {Kernel}) = Cardinality(Started) + 1
    /\ Kernel \notin Started /\ Started \subseteq Proc
<1>1. Started \subseteq {Terminator, InitProc}
    BY DEF Started
<1>2. IsFiniteSet({Terminator, InitProc})
    <2>1. {Terminator, InitProc} = {Terminator} \cup {InitProc}
        OBVIOUS
    <2>2. IsFiniteSet({Terminator})
        BY FS_Singleton
    <2> QED  BY <2>1, <2>2, FS_AddElement
<1>3. IsFiniteSet(Started)
    BY <1>1, <1>2, FS_Subset
<1>4. Kernel \notin Started /\ Started \subseteq Proc
    BY <1>1, Distinct
<1> QED  BY <1>3, <1>4, FS_AddElement, FS_CardinalityType

\* The processes that have run and are off the CPU account for one open call
\* each.
LEMMA LockedCalls ==
    ASSUME SchedInv, LockInv
    PROVE  /\ Cardinality(OpenCalls) \in Nat /\ k.irq \in Nat
           /\ Cardinality(Started) \in Nat
           /\ Cardinality(OpenCalls) + (IF pc[Terminator] = "reap" THEN 1 ELSE 0)
                = k.irq + Cardinality(Started)
           /\ (k.frames[k.current] > 0 \/ k.current \notin Started \cup {Kernel})
                => Cardinality(OpenCalls) >= Cardinality(Started) + 1
           /\ k.current \in Started => Cardinality(OpenCalls) >= Cardinality(Started)
<1>1. IsFiniteSet(OpenCalls)
    BY DEF LockInv
<1>2. Cardinality(OpenCalls) \in Nat /\ k.irq \in Nat
    BY <1>1, Basics, FS_CardinalityType
<1>3. /\ IsFiniteSet(Started) /\ Cardinality(Started) \in Nat
      /\ Cardinality(Started \cup {Kernel}) = Cardinality(Started) + 1
      /\ Kernel \notin Started /\ Started \subseteq Proc
    BY StartedCount
<1>4. \A p \in Started \cup {Kernel} : p # k.current => k.frames[p] > 0
    BY DEF LockInv
<1>5. ASSUME k.frames[k.current] > 0 \/ k.current \notin Started \cup {Kernel}
      PROVE  Cardinality(OpenCalls) >= Cardinality(Started) + 1
    <2>1. Started \cup {Kernel} \in SUBSET Proc
        BY <1>3, Distinct
    <2>2. \A p \in Started \cup {Kernel} : k.frames[p] > 0
        BY <1>4, <1>5
    <2>3. Cardinality(Started \cup {Kernel}) <= Cardinality(OpenCalls)
        BY <1>1, <2>1, <2>2, Covered
    <2> QED  BY <1>2, <1>3, <2>3
<1>6. ASSUME k.current \in Started
      PROVE  Cardinality(OpenCalls) >= Cardinality(Started)
    <2> DEFINE T == Started \ {k.current}
    <2>1. IsFiniteSet(T) /\ Cardinality(T) = Cardinality(Started) - 1
        BY <1>3, <1>6, FS_RemoveElement
    <2> DEFINE S == T \cup {Kernel}
    <2>2. Cardinality(S) = Cardinality(Started)
        <3>1. Kernel \notin T
            BY <1>3
        <3> HIDE DEF T
        <3>2. Cardinality(S) = Cardinality(T) + 1
            BY <2>1, <3>1, FS_AddElement
        <3> QED  BY <1>3, <2>1, <3>2
    <2>3. S \in SUBSET Proc /\ \A p \in S : k.frames[p] > 0
        BY <1>3, <1>4, <1>6, Distinct
    <2> HIDE DEF S
    <2>4. Cardinality(S) <= Cardinality(OpenCalls)
        BY <1>1, <2>3, Covered
    <2> QED  BY <1>2, <1>3, <2>2, <2>4
<1>7. Cardinality(OpenCalls) + (IF pc[Terminator] = "reap" THEN 1 ELSE 0)
        = k.irq + Cardinality(Started)
    BY DEF LockInv, LockCountExact
<1> QED  BY <1>2, <1>3, <1>5, <1>6, <1>7

\* The same processes count as started after the step.
LEMMA SameStarted ==
    ASSUME NoStart PROVE Started' = Started
BY Distinct DEF NoStart, Started

\* A step that enters or leaves no call, or that switches away.
LEMMA BalancedOK ==
    ASSUME SchedInv, LockInv, Untouched \/ Debited, NoStart,
           pc'[Terminator] = "reap" <=> pc[Terminator] = "reap"
    PROVE  LockInv'
<1>1. Started' = Started
    BY SameStarted
<1>2. CASE Untouched
    <2>1. OpenCalls' = OpenCalls
        BY <1>2 DEF Untouched, OpenCalls
    <2> QED  BY <1>1, <1>2, <2>1 DEF Untouched, NoStart, LockInv, LockCountExact
<1>3. CASE Debited
    <2> DEFINE c == k.current
    <2>1. k.frames \in [Proc -> Nat] /\ c \in Proc
        BY Basics DEF Consistent
    <2>2. /\ k'.irq = k.irq + 1 /\ k'.current # c
          /\ k'.frames = [k.frames EXCEPT ![c] = @ + 1]
        BY <1>3 DEF Debited, Owing
    <2>3. /\ OpenCalls' = OpenCalls \cup {<<c, k.frames[c] + 1>>}
          /\ <<c, k.frames[c] + 1>> \notin OpenCalls
        <3>1. OpenCalls = Unreturned(k.frames) /\ OpenCalls' = Unreturned(k'.frames)
            BY DEF OpenCalls, Unreturned
        <3> HIDE DEF c
        <3> QED  BY <2>1, <2>2, <3>1, CallsUp
    <2>4. /\ IsFiniteSet(OpenCalls') /\ IsFiniteSet(OpenCalls)
          /\ Cardinality(OpenCalls') = Cardinality(OpenCalls) + 1
        BY <2>3, FS_AddElement DEF LockInv
    <2>5. LockCountExact'
        <3>1. k'.irq + Cardinality(Started) = Cardinality(OpenCalls')
                 + (IF pc[Terminator] = "reap" THEN 1 ELSE 0)
            BY <2>2, <2>4, LockedCalls
        <3> QED  BY <1>1, <3>1 DEF LockCountExact
    <2>6. \A p \in Started \cup {Kernel} : p # k'.current => k'.frames[p] > 0
        <3> TAKE p \in Started \cup {Kernel}
        <3>1. p \in Proc
            BY StartedCount, Distinct
        <3>2. CASE p = c
            BY <2>1, <2>2, <3>2
        <3>3. CASE p # c
            BY <2>1, <2>2, <3>1, <3>3 DEF LockInv
        <3> QED  BY <3>2, <3>3
    <2> QED  BY <1>1, <2>4, <2>5, <2>6 DEF NoStart, LockInv
<1> QED  BY <1>2, <1>3

\* The tail of a call that was switched out finds its lock count.
LEMMA UnwindLocks ==
    ASSUME SchedInv, LockInv, NEW p \in Proc, UnwindStep(p)
    PROVE  LockInv'
<1>1. /\ k.current = p /\ k.frames[p] > 0 /\ k'.current = p
      /\ k'.irq = Dec(k.irq) /\ k'.frames = [k.frames EXCEPT ![p] = @ - 1]
      /\ NoStart
    BY UnwindBooks
<1>2. pc[Terminator] # "reap" /\ pc' = pc
    BY <1>1 DEF SchedInv, ControlOK, Running, UnwindStep
<1>3. k.frames \in [Proc -> Nat]
    BY Basics
<1>4. /\ OpenCalls' = OpenCalls \ {<<p, k.frames[p]>>} /\ <<p, k.frames[p]>> \in OpenCalls
    <2>1. OpenCalls = Unreturned(k.frames) /\ OpenCalls' = Unreturned(k'.frames)
        BY DEF OpenCalls, Unreturned
    <2> QED  BY <1>1, <1>3, <2>1, CallsDown
<1>5. /\ IsFiniteSet(OpenCalls')
      /\ Cardinality(OpenCalls') = Cardinality(OpenCalls) - 1
    BY <1>4, FS_RemoveElement DEF LockInv
<1>6. k'.irq = k.irq - 1
    BY <1>1, <1>2, LockedCalls DEF Dec
<1>7. Started' = Started
    BY <1>1, SameStarted
<1>8. LockCountExact'
    <2>1. k'.irq + Cardinality(Started) = Cardinality(OpenCalls')
        BY <1>2, <1>5, <1>6, LockedCalls
    <2>2. pc'[Terminator] # "reap" /\ Cardinality(OpenCalls') + 0 = Cardinality(OpenCalls')
        BY <1>2, <1>5, LockedCalls
    <2> QED  BY <1>7, <2>1, <2>2 DEF LockCountExact
<1>9. \A q \in Started \cup {Kernel} : q # k'.current => k'.frames[q] > 0
    BY <1>1, <1>3, StartedCount, Distinct DEF LockInv
<1> QED  BY <1>1, <1>5, <1>7, <1>8, <1>9 DEF NoStart, LockInv

\* proc_prelude gives back the lock of the switch that started the process.
LEMMA PreludeLocks ==
    ASSUME SchedInv, LockInv, NEW p \in Proc, Prelude(p)
    PROVE  LockInv'
<1>1. /\ k.current = p /\ k'.current = p /\ k.status[p] = "UNINITIALIZED"
      /\ k'.irq = Dec(k.irq) /\ k'.frames = k.frames
      /\ k'.status = [k.status EXCEPT ![p] = "RUNNING"]
    BY PreludeBooks
<1>2. /\ pc[Terminator] # "reap" /\ pc' = pc
      /\ p # Kernel /\ k.status \in [Proc -> Status]
    BY <1>1, Basics DEF SchedInv, ControlOK, Running, Prelude
<1>3. p \notin Started /\ OpenCalls' = OpenCalls
    BY <1>1 DEF Started, OpenCalls
<1>4. k'.irq = k.irq - 1
    BY <1>1, <1>2, <1>3, LockedCalls DEF Dec
<1>5. p \in {Terminator, InitProc}
    BY <1>1 DEF LockInv
<1>6. Started' = Started \cup {p}
    BY <1>1, <1>2, <1>5, Distinct DEF Started
<1>7. Cardinality(Started') = Cardinality(Started) + 1
    BY <1>3, <1>6, StartedCount, FS_AddElement
<1>8. LockCountExact'
    <2>1. k'.irq + Cardinality(Started') = Cardinality(OpenCalls')
            + (IF pc'[Terminator] = "reap" THEN 1 ELSE 0)
        BY <1>2, <1>3, <1>4, <1>7, LockedCalls
    <2> QED  BY <2>1 DEF LockCountExact
<1>9. \A q \in Started' \cup {Kernel} : q # k'.current => k'.frames[q] > 0
    BY <1>1, <1>6 DEF LockInv
<1>10. \A q \in Proc : k'.status[q] = "UNINITIALIZED" => q \in {Terminator, InitProc}
    BY <1>1, <1>2 DEF LockInv
<1> QED  BY <1>3, <1>8, <1>9, <1>10 DEF LockInv

\* sched_postpone and sched_resume of the terminator.
LEMMA SectionLocks ==
    ASSUME SchedInv, LockInv, TerminatorBegin \/ TerminatorEnd
    PROVE  LockInv'
<1>1. /\ k'.frames = k.frames /\ k'.current = k.current /\ NoStart
      /\ k.current = Terminator /\ k.status[Terminator] = "RUNNING"
    BY SectionBooks DEF TerminatorBegin, TerminatorEnd, At, Running
<1>2. OpenCalls' = OpenCalls /\ Started' = Started /\ Terminator \in Started
    BY <1>1, SameStarted DEF OpenCalls, Started
<1>3. pc \in [Proc -> Label]
    BY DEF SchedInv, TypeOK
<1>4. LockCountExact'
    <2>1. CASE TerminatorBegin
        <3>1. pc[Terminator] = "begin" /\ pc'[Terminator] = "reap" /\ k'.irq = k.irq + 1
            BY <1>3, <2>1, SectionBooks, Distinct DEF TerminatorBegin, At, Goto
        <3> QED  BY <1>2, <3>1, LockedCalls DEF LockCountExact
    <2>2. CASE TerminatorEnd
        <3>1. pc[Terminator] = "reap" /\ pc'[Terminator] # "reap" /\ k'.irq = Dec(k.irq)
            BY <1>3, <2>2, SectionBooks, Distinct DEF TerminatorEnd, At, Goto
        <3>2. k'.irq = k.irq - 1
            BY <1>1, <1>2, <3>1, LockedCalls DEF Dec
        <3> QED  BY <1>2, <3>1, <3>2, LockedCalls DEF LockCountExact
    <2> QED  BY <2>1, <2>2
<1> QED  BY <1>1, <1>2, <1>4 DEF LockInv, NoStart

\* No call is open at boot.
LEMMA LockInit ==
    Init => LockInv
<1> SUFFICES ASSUME Init PROVE LockInv
    OBVIOUS
<1>1. OpenCalls = {}
    <2>1. \A p \in Proc : {p} \X (1..k.frames[p]) = {}
        BY DEF Init
    <2> QED  BY <2>1 DEF OpenCalls
<1>2. Started = {} /\ k.irq = 0 /\ pc[Terminator] # "reap"
    BY Distinct DEF Init, Started
<1>3. \A p \in Started \cup {Kernel} : p = k.current
    BY <1>2 DEF Init
<1>4. \A p \in Proc : k.status[p] = "UNINITIALIZED" => p \in {Terminator, InitProc}
    BY Distinct DEF Init
<1> QED  BY <1>1, <1>2, <1>3, <1>4, FS_EmptySet DEF LockInv, LockCountExact

\* LockInv is inductive: one case per kind of step.
LEMMA LockStep ==
    SchedInv /\ LockInv /\ [Next]_vars => LockInv'
<1> SUFFICES ASSUME SchedInv, LockInv, [Next]_vars PROVE LockInv'
    OBVIOUS
<1>1. pc \in [Proc -> Label]
    BY DEF SchedInv, TypeOK
<1>2. CASE Tick
    BY <1>2, TickBooks, BalancedOK DEF Tick
<1>3. ASSUME NEW p \in Proc, KernelCode(p) PROVE LockInv'
    <2>1. CASE UnwindStep(p)
        BY <2>1, UnwindLocks
    <2>2. CASE Prelude(p)
        BY <2>2, PreludeLocks
    <2>3. CASE WaitpidWoken(p)
        <3>1. p # Terminator
            BY <2>3 DEF WaitpidWoken, At, SchedInv, ControlOK
        <3> QED  BY <1>1, <2>3, <3>1, CollectBooks, BalancedOK, Distinct DEF WaitpidWoken, Goto
    <2>4. CASE KernelYield \/ TerminatorYield
        <3>1. pc'[Terminator] = "reap" <=> pc[Terminator] = "reap"
            BY <1>1, <2>4, Distinct DEF KernelYield, TerminatorYield, At, Goto
        <3> QED  BY <2>4, <3>1, YieldBooks, BalancedOK
    <2>5. CASE TerminatorCheck \/ TerminatorKeep \/ TerminatorFree
        <3>1. pc'[Terminator] = "reap" <=> pc[Terminator] = "reap"
            BY <1>1, <2>5, Distinct DEF TerminatorCheck, TerminatorKeep, TerminatorFree, At, Goto
        <3> QED  BY <2>5, <3>1, TerminatorBooks, BalancedOK
    <2>6. CASE TerminatorBegin \/ TerminatorEnd
        BY <2>6, SectionLocks
    <2> QED  BY <1>3, <2>1, <2>2, <2>3, <2>4, <2>5, <2>6 DEF KernelCode, TerminatorStep
<1>4. ASSUME NEW p \in Users, UserStep(p) PROVE LockInv'
    <2>1. p \in Proc /\ p # Terminator
        BY DEF Users, Daemons
    <2>2. \A l : Goto(p, l) => pc'[Terminator] = pc[Terminator]
        BY <1>1, <2>1, Distinct DEF Goto
    <2>3. ASSUME NEW n \in 0..MaxSleep, Nanosleep(p, n) PROVE LockInv'
        <3>1. n \in Nat
            BY ProcAssumption
        <3> QED  BY <2>3, <3>1, NanosleepBooks, BalancedOK DEF Nanosleep
    <2>4. ASSUME NEW c \in Users, Fork(p, c) PROVE LockInv'
        BY <2>4, ForkBooks, BalancedOK DEF Fork
    <2>5. ASSUME NEW c \in Users, WaitpidNow(p, c) PROVE LockInv'
        BY <2>1, <2>5, CollectBooks, BalancedOK DEF WaitpidNow
    <2>6. ASSUME NEW c \in Users, WaitpidSleepChild(p, c) PROVE LockInv'
        <3>1. ExitWaiters(c) \in WaitQueue
            BY QueueNames DEF Users
        <3> QED  BY <2>2, <2>6, <3>1, WaitpidSleepBooks, BalancedOK DEF WaitpidSleepChild
    <2>7. CASE WaitpidSleepAny(p)
        <3>1. ChildWaiters(p) \in WaitQueue
            BY <2>1, QueueNames
        <3> QED  BY <2>2, <2>7, <3>1, WaitpidSleepBooks, BalancedOK DEF WaitpidSleepAny
    <2>8. CASE Exit(p)
        BY <2>2, <2>8, ExitBooks, BalancedOK DEF Exit
    <2> QED  BY <1>4, <2>3, <2>4, <2>5, <2>6, <2>7, <2>8 DEF UserStep
<1>5. CASE UNCHANGED vars
    BY <1>5 DEF vars, LockInv, LockCountExact, OpenCalls, Started
<1> QED  BY <1>2, <1>3, <1>4, <1>5 DEF Next

\* sched_irq_lock is exact in every reachable state, for any number of processes
\* and depth of nesting: each count belongs to a switch that has yet to return.
THEOREM LockCountAlwaysExact == Spec => []LockCountExact
<1>1. LockInv => LockCountExact
    BY DEF LockInv
<1> QED  BY <1>1, LockInit, LockStep, SchedulerConsistent, PTL DEF Spec
=============================================================================
