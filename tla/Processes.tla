----------------------------- MODULE Processes ------------------------------
(***************************************************************************)
(* The processes of the kernel and what they ask of the scheduler: the     *)
(* boot process, the kterminator task that frees dead processes, and user  *)
(* processes that fork, sleep, exit (or fault) and wait for their          *)
(* children, with a timer interrupt possible whenever interrupts are on.   *)
(*                                                                         *)
(* The code is src/kernel/mp/{scheduler,proc,fork,wait,sleep}.c and        *)
(* kernel_main from the point where it starts the first user process.      *)
(* A step is a maximal piece of code that runs with interrupts off or that *)
(* touches no shared state.                                                *)
(***************************************************************************)
EXTENDS SchedState, FiniteSets

CONSTANTS
    Kernel,       \* the boot process, later the hlt loop of kernel_main
    Terminator,   \* the kterminator task
    InitProc,    \* /usr/bin/init
    MaxChildren,  \* usable slots of proc->children (255 in the code)
    MaxSleep,     \* bound: longest nanosleep, in ticks
    MaxFrames     \* bound: unreturned switches on one kernel stack

VARIABLES
    k,         \* the scheduler
    parent,    \* proc->parent
    children,  \* the processes in the slots of proc->children
    pc,        \* where each process is, when it owes no unwinding
    target,    \* the child a process sleeps for in waitpid(pid)
    reap       \* the locals of terminator(): waiting_for_parent, freed_process

vars == <<k, parent, children, pc, target, reap>>

Daemons == {Kernel, Terminator}
Users == Proc \ Daemons
Gone == {"UNUSED", "FREED"}

ExitWaiters(p) == <<"exit", p>>
ChildWaiters(p) == <<"child", p>>

ASSUME ProcAssumption ==
    /\ {Kernel, Terminator, InitProc} \subseteq Proc
    /\ Kernel # Terminator /\ Kernel # InitProc /\ Terminator # InitProc
    /\ WaitQueue = {"exit", "child"} \X Proc
    /\ MaxChildren \in Nat /\ MaxSleep \in Nat /\ MaxFrames \in Nat \ {0}

\* kernel_main has started the terminator (sched_initialize) and init and is
\* about to call sched_yield; no quantum has been handed out yet.
Init ==
    /\ k = [current  |-> Kernel,
            status   |-> [p \in Proc |->
                            IF p = Kernel THEN "RUNNING"
                            ELSE IF p \in {Terminator, InitProc}
                            THEN "UNINITIALIZED" ELSE "UNUSED"],
            ready    |-> <<Terminator, InitProc>>,
            sleeping |-> <<>>,
            dying    |-> <<>>,
            waitq    |-> [q \in WaitQueue |-> <<>>],
            left     |-> [p \in Proc |-> 0],
            irq      |-> 0,
            sw       |-> 0,
            flag     |-> FALSE,
            quantum  |-> FALSE,
            ints     |-> TRUE,
            frames   |-> [p \in Proc |-> 0]]
    /\ parent = [p \in Proc |-> NoProc]
    /\ children = [p \in Proc |-> {}]
    /\ pc = [p \in Proc |-> CASE p = Kernel -> "boot"
                              [] p = Terminator -> "loop"
                              [] OTHER -> "user"]
    /\ target = [p \in Proc |-> NoProc]
    /\ reap = [waiting |-> <<>>, freed |-> FALSE]

Running(p) == k.current = p /\ k.status[p] = "RUNNING"

\* p has the CPU, has unwound its stack and is at label l.
At(p, l) == Running(p) /\ k.frames[p] = 0 /\ pc[p] = l

Goto(p, l) == pc' = [pc EXCEPT ![p] = l]

\* A system call is entered through an interrupt gate.
Entry == [k EXCEPT !.ints = FALSE]

\* The return to user mode, or from an interrupt, turns interrupts on.
Iret(s) == [s EXCEPT !.ints = TRUE]

-----------------------------------------------------------------------------
(* Interrupts and the switching code itself *)

\* The PIT interrupt, in user mode or in kernel code that runs with
\* interrupts on, including the window after the sti of multitask_switch.
TickReady ==
    k.ints /\ k.current # NoProc /\ k.frames[k.current] < MaxFrames

AfterTick ==
    LET s == HandleTimer(Entry)
    IN  IF Returned(k, s) THEN Iret(s) ELSE s

Tick ==
    /\ TickReady
    /\ k' = AfterTick
    /\ UNCHANGED <<parent, children, pc, target, reap>>

\* A process that was switched out finishes the call it was switched out in.
UnwindStep(p) ==
    /\ Running(p)
    /\ k.frames[p] > 0
    /\ k' = Unwind(k)
    /\ UNCHANGED <<parent, children, pc, target, reap>>

\* proc_prelude: the first run of a process that was not forked.  The
\* entry point of a user process enters user mode.
Prelude(p) ==
    /\ k.current = p
    /\ k.status[p] = "UNINITIALIZED"
    /\ LET s == SchedUnlock([k EXCEPT !.status[p] = "RUNNING"])
       IN  k' = IF p \in Users THEN Iret(s) ELSE s
    /\ UNCHANGED <<parent, children, pc, target, reap>>

\* The end of kernel_main: sched_yield, then the hlt loop.
KernelYield ==
    /\ At(Kernel, "boot")
    /\ k' = SchedYield(k)
    /\ Goto(Kernel, "hlt")
    /\ UNCHANGED <<parent, children, target, reap>>

-----------------------------------------------------------------------------
(* terminator() and proc_free *)

\* The children of the freed process keep their parent pointer.
BugFree(s, p) ==
    /\ k' = [s EXCEPT !.status[p] = "FREED"]
    /\ parent' = [parent EXCEPT ![p] = NoProc]
    /\ children' = [q \in Proc |-> IF q = p THEN {}
                                   ELSE IF q = parent[p]
                                   THEN children[q] \ {p} ELSE children[q]]

\* proc_free(p) as an effect on the family tree and the statuses.
ProcFree(s, p) ==
    /\ k' = [s EXCEPT !.status[p] = "FREED"]
    /\ parent' = [c \in Proc |-> IF c \in children[p] \cup {p} THEN NoProc
                                 ELSE parent[c]]
    /\ children' = [q \in Proc |-> IF q = p THEN {}
                                   ELSE IF q = parent[p]
                                   THEN children[q] \ {p} ELSE children[q]]

\* The terminator never sees a dead process.
BugCheck ==
    /\ At(Terminator, "loop")
    /\ Goto(Terminator, "yield")
    /\ UNCHANGED <<k, parent, children, target, reap>>

\* The test of the ready_to_die queue is made without a lock.
TerminatorCheck ==
    /\ At(Terminator, "loop")
    /\ Goto(Terminator, IF k.dying = <<>> THEN "yield" ELSE "begin")
    /\ UNCHANGED <<k, parent, children, target, reap>>

TerminatorYield ==
    /\ At(Terminator, "yield")
    /\ k' = SchedYield(k)
    /\ Goto(Terminator, "loop")
    /\ UNCHANGED <<parent, children, target, reap>>

\* The dead are sorted out without the switch lock.
BugBegin ==
    /\ At(Terminator, "begin")
    /\ k' = SchedLock(k)
    /\ reap' = [waiting |-> <<>>, freed |-> FALSE]
    /\ Goto(Terminator, "reap")
    /\ UNCHANGED <<parent, children, target>>

TerminatorBegin ==
    /\ At(Terminator, "begin")
    /\ k' = SchedPostpone(k)
    /\ reap' = [waiting |-> <<>>, freed |-> FALSE]
    /\ Goto(Terminator, "reap")
    /\ UNCHANGED <<parent, children, target>>

\* A dead process with a parent is kept for waitpid ...
TerminatorKeep ==
    /\ At(Terminator, "reap")
    /\ k.dying # <<>>
    /\ LET p == Head(k.dying)
       IN  /\ parent[p] # NoProc
           /\ reap' = [reap EXCEPT !.waiting = <<p>> \o @]
    /\ k' = [k EXCEPT !.dying = Tail(@)]
    /\ UNCHANGED <<parent, children, pc, target>>

\* A dead process is also freed when its parent is not in waitpid now.
BugReap ==
    /\ At(Terminator, "reap")
    /\ k.dying # <<>>
    /\ parent[Head(k.dying)] # NoProc => pc[parent[Head(k.dying)]] = "user"
    /\ ProcFree([k EXCEPT !.dying = Tail(@)], Head(k.dying))
    /\ reap' = [reap EXCEPT !.freed = TRUE]
    /\ UNCHANGED <<pc, target>>

\* ... and one without a parent is freed.
TerminatorFree ==
    /\ At(Terminator, "reap")
    /\ k.dying # <<>>
    /\ parent[Head(k.dying)] = NoProc
    /\ ProcFree([k EXCEPT !.dying = Tail(@)], Head(k.dying))
    /\ reap' = [reap EXCEPT !.freed = TRUE]
    /\ UNCHANGED <<pc, target>>

TerminatorEnd ==
    /\ At(Terminator, "reap")
    /\ k.dying = <<>>
    /\ k' = SchedResume([k EXCEPT !.dying = reap.waiting])
    /\ reap' = [reap EXCEPT !.waiting = <<>>]
    /\ Goto(Terminator, IF reap.freed THEN "loop" ELSE "yield")
    /\ UNCHANGED <<parent, children, target>>

-----------------------------------------------------------------------------
(* System calls of a user process *)

Nanosleep(p, n) ==
    /\ At(p, "user")
    /\ k' = SleepCurrentNs(Entry, n)
    /\ UNCHANGED <<parent, children, pc, target, reap>>

\* fork_proc; with no free slot it returns -EAGAIN and changes nothing.
Fork(p, c) ==
    /\ At(p, "user")
    /\ Cardinality(children[p]) < MaxChildren
    /\ k.status[c] = "UNUSED"
    /\ k' = [k EXCEPT !.status[c] = "READY_TO_RUN", !.ready = Append(@, c)]
    /\ parent' = [parent EXCEPT ![c] = p]
    /\ children' = [children EXCEPT ![p] = @ \cup {c}]
    /\ UNCHANGED <<pc, target, reap>>

\* A parent in waitpid(-1) is not woken.
BugExitAny(p) ==
    /\ At(p, "user")
    /\ k' = ProcExit(Entry, p, IF parent[p] = NoProc THEN {}
                               ELSE {<<ExitWaiters(p), ExitWaiters(p)>>})
    /\ Goto(p, "dead")
    /\ UNCHANGED <<parent, children, target, reap>>

\* The exit system call, a fault in user mode, and the return of main.
Exit(p) ==
    /\ At(p, "user")
    /\ k' = ProcExit(Entry, p, IF parent[p] = NoProc THEN {}
                               ELSE {<<ExitWaiters(p), ChildWaiters(parent[p])>>})
    /\ Goto(p, "dead")
    /\ UNCHANGED <<parent, children, target, reap>>

Zombies(p) == {c \in children[p] : k.status[c] = "READY_TO_DIE"}

\* process_wait_collect, between sched_postpone and sched_resume: the parent's
\* slot is cleared and the child is unlinked and freed.
Collect(s, c) ==
    ProcFree(Iret(SchedResume([SchedPostpone(s) EXCEPT
                                  !.dying = Without(@, c)])), c)

\* waitpid finds a dead child: for a pid the child itself, for -1 any one.
\* A call that finds no child at all (-ECHILD), or no dead one with WNOHANG,
\* changes nothing.
WaitpidNow(p, c) ==
    /\ At(p, "user")
    /\ c \in Zombies(p)
    /\ Collect(Entry, c)
    /\ UNCHANGED <<pc, target, reap>>

\* waitpid(pid) sleeps where waitpid(-1) does.
BugWaitQueue(p, c) ==
    /\ At(p, "user")
    /\ c \in children[p] \ Zombies(p)
    /\ k' = WaitQueueSleepPostponed(SchedPostpone(Entry), ChildWaiters(p))
    /\ target' = [target EXCEPT ![p] = c]
    /\ Goto(p, "wait_child")
    /\ UNCHANGED <<parent, children, reap>>

\* waitpid(pid) of a child that is alive.
WaitpidSleepChild(p, c) ==
    /\ At(p, "user")
    /\ c \in children[p] \ Zombies(p)
    /\ k' = WaitQueueSleepPostponed(SchedPostpone(Entry), ExitWaiters(c))
    /\ target' = [target EXCEPT ![p] = c]
    /\ Goto(p, "wait_child")
    /\ UNCHANGED <<parent, children, reap>>

\* waitpid(-1) when every child is alive.
WaitpidSleepAny(p) ==
    /\ At(p, "user")
    /\ children[p] # {}
    /\ Zombies(p) = {}
    /\ k' = WaitQueueSleepPostponed(SchedPostpone(Entry), ChildWaiters(p))
    /\ Goto(p, "wait_any")
    /\ UNCHANGED <<parent, children, target, reap>>

\* What the second half of waitpid finds: the child it slept for or, for -1,
\* whatever the second wait_child_find returns.
Found(p) == IF pc[p] = "wait_child" THEN {target[p]} \cap Zombies(p)
            ELSE Zombies(p)

\* The sleeper runs again and collects a child, or returns -ECHILD.
WaitpidWoken(p) ==
    /\ At(p, "wait_child") \/ At(p, "wait_any")
    /\ IF Found(p) # {}
       THEN \E c \in Found(p) : Collect(k, c)
       ELSE k' = Iret(k) /\ UNCHANGED <<parent, children>>
    /\ target' = [target EXCEPT ![p] = NoProc]
    /\ Goto(p, "user")
    /\ UNCHANGED reap

-----------------------------------------------------------------------------
UserStep(p) ==
    \/ \E n \in 0..MaxSleep : Nanosleep(p, n)
    \/ \E c \in Users : Fork(p, c) \/ WaitpidNow(p, c) \/ WaitpidSleepChild(p, c)
    \/ WaitpidSleepAny(p)
    \/ Exit(p)

TerminatorStep ==
    \/ TerminatorCheck \/ TerminatorYield \/ TerminatorBegin
    \/ TerminatorKeep \/ TerminatorFree \/ TerminatorEnd

\* The steps a process is bound to take as long as it has the CPU; a user
\* process may compute for ever instead of making a system call.
KernelCode(p) ==
    \/ UnwindStep(p) \/ Prelude(p) \/ WaitpidWoken(p)
    \/ p = Terminator /\ TerminatorStep
    \/ p = Kernel /\ KernelYield

Next ==
    \/ Tick
    \/ \E p \in Proc : KernelCode(p)
    \/ \E p \in Users : UserStep(p)

Spec == Init /\ [][Next]_vars

\* The condition under which KernelCode(p) is enabled.
CodeReady(p) ==
    /\ k.current = p
    /\ \/ k.status[p] = "UNINITIALIZED"
       \/ k.frames[p] > 0
       \/ pc[p] \notin {"user", "hlt"}

\* The PIT interrupts at the latest when the current process is in user mode or
\* in hlt: weak fairness of Tick.  A time slice is long against a piece of
\* kernel code, so a process that gets the CPU again and again is not always
\* interrupted before the same step: strong fairness of KernelCode at every
\* depth of its stack.  Both are written out with the enabling conditions.
Fairness ==
    /\ []<>~(TickReady /\ AfterTick # k) \/ []<><<Tick>>_vars
    /\ \A p \in Proc, n \in 0..MaxFrames :
         \/ <>[]~(CodeReady(p) /\ k.frames[p] = n)
         \/ []<><<KernelCode(p) /\ k.frames[p] = n>>_vars

FairSpec == Spec /\ Fairness

-----------------------------------------------------------------------------
Label == {"boot", "hlt", "loop", "yield", "begin", "reap", "user",
          "wait_child", "wait_any", "dead"}

\* Every variable keeps its type; in particular no lock counter goes negative.
TypeOK ==
    /\ k \in State
    /\ parent \in [Proc -> Proc \cup {NoProc}]
    /\ children \in [Proc -> SUBSET Proc]
    /\ pc \in [Proc -> Label]
    /\ target \in [Proc -> Proc \cup {NoProc}]
    /\ reap \in [waiting : Seq(Proc), freed : BOOLEAN]

\* A process has a single `next` link, so it may be in one queue only.  Every
\* queue holds, once each, exactly the processes whose status says they are
\* in it: no process is linked twice, and none is lost by falling out of all.
QueuesMatchStatus == QueuesOK(k, reap.waiting)

\* The same for the wait queues: a BLOCKED process is in exactly one of them,
\* once, and no other process is in any.
WaitQueuesMatchStatus == WaitQueuesOK(k)

\* schedule_advance never reaches its idle branch, whose NULL current process
\* the next timer interrupt would dereference; the process on the CPU is the
\* only one marked RUNNING.
CurrentRuns == CurrentOK(k)

Started == {p \in {Terminator, InitProc} : k.status[p] # "UNINITIALIZED"}

\* The calls that switched away and have not returned, one for each frame of
\* schedule_advance on a kernel stack.
OpenCalls == UNION {{p} \X (1..k.frames[p]) : p \in Proc}

\* Every switch leaves one lock count behind, which the unwinding of that stack
\* or the prelude of a new process takes back: the count is exact, so the
\* "if > 0" tests of sched_unlock and sched_resume never hide an imbalance.
\* A forked child takes nothing back, so its count stays for good.
LockCountExact ==
    k.irq + Cardinality(Started) =
        Cardinality(OpenCalls) + (IF pc[Terminator] = "reap" THEN 1 ELSE 0)

\* An interrupt can only find the switch lock free: handle_timer's sched_resume
\* is then always the outermost one and really switches.
InterruptsOnlyUnlocked == k.ints => k.sw = 0 /\ ~k.flag

\* Interrupts are on in user mode and in the hlt loop, or the system would hang
\* there; this in spite of the lock count that forked children leave behind.
HaltedWithInterrupts ==
    \A p \in Proc : At(p, "hlt") \/ At(p, "user") => k.ints

\* parent and children agree, and nothing refers to a freed process: its
\* memory is back in the slab allocator.
FamilyTree ==
    /\ \A p, c \in Proc : c \in children[p] <=> parent[c] = p
    /\ \A c \in Proc : parent[c] # NoProc =>
         k.status[c] \notin Gone /\ k.status[parent[c]] \notin Gone
    /\ \A p \in Proc : pc[p] = "wait_child" => k.status[target[p]] \notin Gone

\* No lost wake-up: whoever is blocked in waitpid waits for a process that is
\* still to call proc_exit, and that will find the sleeper in its parent.
WaitersWillBeWoken ==
    \A p, c \in Proc :
        /\ p \in Range(k.waitq[ExitWaiters(c)]) =>
             /\ parent[c] = p
             /\ k.status[c] # "READY_TO_DIE"
        /\ p \in Range(k.waitq[ChildWaiters(c)]) =>
             /\ p = c
             /\ children[p] # {} /\ Zombies(p) = {}

\* A waitpid that slept finds a dead child to collect when it runs again, and
\* never returns -ECHILD.
WokenFindsZombie ==
    \A p \in Proc :
        pc[p] \in {"wait_child", "wait_any"} /\ k.status[p] # "BLOCKED"
        => Found(p) # {}

\* The sleeping queue is in order of wake-up time, which the prefix searches of
\* sleep.c rely on.
SleepersSorted ==
    \A i, j \in 1..Len(k.sleeping) :
        i <= j => k.left[k.sleeping[i]] <= k.left[k.sleeping[j]]

\* No sleeper is woken before its time, and none is left behind once the timer
\* interrupt has seen its time pass; the sleeping queue stays sorted.
WakeOnTime ==
    /\ []SleepersSorted
    /\ [][\A p \in Proc : k.status[p] = "SLEEPING_TIMER" =>
            (k'.status[p] # "SLEEPING_TIMER" <=> Tick /\ k.left[p] <= 1)]_vars

\* Only a process that has exited, has left the CPU for good and is no longer
\* waited for by a living parent, other than the one collecting it, is freed.
FreeOnlyDead ==
    [][\A p \in Proc : k'.status[p] = "FREED" /\ k.status[p] # "FREED" =>
          /\ k.status[p] = "READY_TO_DIE"
          /\ p # k.current
          /\ parent[p] \in {NoProc, k.current}]_vars

\* Round robin: a process in the ready queue gets the CPU.
ReadyRuns ==
    \A p \in Proc : p \in Range(k.ready) ~> k.current = p

\* A sleeper runs again.
SleeperRuns ==
    \A p \in Users : k.status[p] = "SLEEPING_TIMER" ~> k.current = p

\* A parent that waits for a child which has exited returns from waitpid.
WaitpidReturns ==
    \A p \in Users :
        pc[p] \in {"wait_child", "wait_any"} /\ Found(p) # {} ~> pc[p] = "user"

\* A dead process that nobody can wait for is freed by the terminator.
OrphansFreed ==
    \A p \in Users :
        k.status[p] = "READY_TO_DIE" /\ parent[p] = NoProc
        ~> k.status[p] = "FREED"

-----------------------------------------------------------------------------
(* Inductive invariants, the basis of the proofs in ProcessesProofs *)

\* Which process can be where: only the terminator works under the switch lock,
\* and with interrupts off; the two daemons never sleep, block or die.
ControlOK ==
    /\ ~k.flag
    /\ k.status[Kernel] \in {"RUNNING", "READY_TO_RUN"}
    /\ k.status[Terminator] \in {"UNINITIALIZED", "RUNNING", "READY_TO_RUN"}
    /\ pc[Kernel] \in {"boot", "hlt"}
    /\ pc[Terminator] \in {"loop", "yield", "begin", "reap"}
    /\ \A p \in Users : pc[p] \in {"user", "wait_child", "wait_any", "dead"}
    /\ pc[Terminator] = "reap" =>
         k.sw = 1 /\ Running(Terminator) /\ k.frames[Terminator] = 0 /\ ~k.ints
    /\ pc[Terminator] # "reap" => k.sw = 0 /\ reap.waiting = <<>>
    /\ k.ints => k.status[k.current] # "UNINITIALIZED"
    /\ k.current # Terminator /\ k.status[k.current] = "RUNNING" => k.ints

\* The strengthening of the queue invariants that is inductive: the scheduler's
\* data is consistent whenever a process makes its next step.
SchedInv ==
    TypeOK /\ QueuesMatchStatus /\ WaitQueuesMatchStatus /\ CurrentRuns /\ ControlOK

\* LockCountExact with what keeps the count from being taken below zero: whoever
\* has run and is not on the CPU has a call to return from, and only the two
\* processes of the boot start with proc_prelude.
LockInv ==
    /\ LockCountExact
    /\ IsFiniteSet(OpenCalls)
    /\ \A p \in Started \cup {Kernel} : p # k.current => k.frames[p] > 0
    /\ \A p \in Proc : k.status[p] = "UNINITIALIZED" => p \in {Terminator, InitProc}

\* How far a process has got in waitpid and exit agrees with its status, with
\* its place in the wait queues and with the state of its children: a process is
\* blocked in waitpid exactly as long as the child it waits for is alive.
FamilyInv ==
    /\ \A p, c \in Proc : c \in children[p] <=> parent[c] = p
    /\ \A c \in Proc : parent[c] # NoProc =>
         k.status[c] \notin Gone /\ k.status[parent[c]] \notin Gone
    /\ \A p \in Proc : pc[p] = "dead" <=> k.status[p] \in {"READY_TO_DIE", "FREED"}
    /\ \A p \in Proc : pc[p] \in {"wait_child", "wait_any"} =>
         k.status[p] \in {"RUNNING", "READY_TO_RUN", "BLOCKED"}
    /\ \A p \in Proc : pc[p] = "wait_child" =>
         /\ target[p] \in Proc /\ parent[target[p]] = p
         /\ k.status[p] = "BLOCKED" <=> k.status[target[p]] # "READY_TO_DIE"
    /\ \A p \in Proc : pc[p] = "wait_any" =>
         /\ \E c \in Proc : parent[c] = p
         /\ k.status[p] = "BLOCKED" <=>
              \A c \in Proc : parent[c] = p => k.status[c] # "READY_TO_DIE"
    /\ \A p, c \in Proc :
         /\ p \in Range(k.waitq[ExitWaiters(c)]) =>
              pc[p] = "wait_child" /\ target[p] = c
         /\ p \in Range(k.waitq[ChildWaiters(c)]) =>
              pc[p] = "wait_any" /\ p = c

-----------------------------------------------------------------------------
(* For TLC: the wait queues, and the processes that do not exist yet, which  *)
(* are interchangeable.                                                      *)

ProcWaitQueues == {"exit", "child"} \X Proc

Forkable == Proc \ {Kernel, Terminator, InitProc}
Symmetry == {f : f \in Injection(Forkable, Forkable)}
=============================================================================
