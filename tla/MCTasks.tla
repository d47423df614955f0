------------------------------ MODULE MCTasks -------------------------------
(***************************************************************************)
(* Kernel tasks that use the scheduler, for TLC.  A behaviour is about one *)
(* of four groups, chosen at the start; the others stay in their initial  *)
(* states:                                                                 *)
(*   semaphore   tasks that share a semaphore                              *)
(*   spins       of the acceptance test, the tasks that spin, the monitor  *)
(*               that terminates them and a sleeper                        *)
(*   waits       of the acceptance test, the waiters and their waker       *)
(*   postponed   of the acceptance test, a wait inside a postponed section *)
(*               next to the tasks that spin and the monitor               *)
(***************************************************************************)
EXTENDS Semaphore

VARIABLES
    part,
    ak, apc     \* see Acceptance

Spins == INSTANCE Acceptance WITH
    Proc <- {"Kernel", "Terminator", "watch_1", "watch_2", "sleep_1", "monitor"},
    Kernel <- "Kernel", Terminator <- "Terminator", NoProc <- "none",
    WaitQueue <- {"queue", "postponed"}, MaxSleep <- 1, MaxFrames <- 2, k <- ak, pc <- apc

Waits == INSTANCE Acceptance WITH
    Proc <- {"Kernel", "Terminator", "waiter_1", "waiter_2", "waker"},
    Kernel <- "Kernel", Terminator <- "Terminator", NoProc <- "none",
    WaitQueue <- {"queue", "postponed"}, MaxSleep <- 1, MaxFrames <- 2, k <- ak, pc <- apc

Postponed == INSTANCE Acceptance WITH
    Proc <- {"Kernel", "Terminator", "watch_1", "watch_2", "postponed_waiter",
             "postponed_waker", "monitor"},
    Kernel <- "Kernel", Terminator <- "Terminator", NoProc <- "none",
    WaitQueue <- {"queue", "postponed"}, MaxSleep <- 1, MaxFrames <- 1, k <- ak, pc <- apc

TasksInit ==
    /\ part \in {"semaphore", "spins", "waits", "postponed"}
    /\ Init
    /\ IF part = "waits" THEN Waits!Init
       ELSE IF part = "postponed" THEN Postponed!Init ELSE Spins!Init

TasksNext ==
    /\ UNCHANGED part
    /\ \/ part = "semaphore" /\ Next /\ UNCHANGED <<ak, apc>>
       \/ part = "spins" /\ Spins!Next /\ UNCHANGED vars
       \/ part = "waits" /\ Waits!Next /\ UNCHANGED vars
       \/ part = "postponed" /\ Postponed!Next /\ UNCHANGED vars

TasksSpec == TasksInit /\ [][TasksNext]_<<part, vars, ak, apc>>

-----------------------------------------------------------------------------
\* A task that spins can be interrupted; a waiter goes on only when it was woken
\* and wake_one wakes one; the queues survive it that a task takes another one
\* out of whatever queue it is in, and that one never runs again.
ScriptsSafe ==
    /\ [](part = "spins" => Spins!SpinnersInterruptible /\ Spins!SchedulerIntact)
    /\ [](part = "waits" => Waits!WokenByWake /\ Waits!SchedulerIntact)
    /\ [](part = "postponed" => /\ Postponed!SpinnersInterruptible /\ Postponed!WokenByWake
                                /\ Postponed!SchedulerIntact)
    /\ [][part = "spins" => Spins!DeadStayDead]_ak
=============================================================================
