----------------------------- MODULE MCPrograms -----------------------------
(***************************************************************************)
(* Programs for TLC.  A behaviour exercises one part, chosen at the start, *)
(* while the others stay in an initial state:                              *)
(*   launch   the loader, on programs of up to two segments                *)
(*   exec     execve, fork and exit of two processes: who owns what        *)
(*   shell    init and the shell, on all lines of up to three tokens       *)
(***************************************************************************)
EXTENDS ElfLaunch

CONSTANT Vaddrs     \* where segments may begin

VARIABLES
    part,
    heap, own, call, life, launched, widowed,   \* see Execve
    proc                                        \* see Shell

LoadHeaders ==
    {h \in [type : {"LOAD"}, vaddr : Vaddrs, fsize : {0, 2, 4}, msize : {1, 2, 4, 5}] :
        h.fsize <= h.msize}

\* The segment lies within the pages that its size asks for.
InItsPages(h) == (h.vaddr % PageSize) + h.msize <= PageCount(h.msize) * PageSize

Apart(g, h) ==
    PagesOf(g.vaddr, g.vaddr + g.msize - 1) \cap PagesOf(h.vaddr, h.vaddr + h.msize - 1) = {}

Other == {[type |-> t, vaddr |-> 0, fsize |-> 0, msize |-> 0] : t \in {"NOTE", "DYNAMIC"}}

FittingPrograms ==
    LET one == {h \in LoadHeaders : InItsPages(h)}
        two == {<<g, h>> : g \in {g \in one : g.vaddr = MinVaddr}, h \in one}
    IN  {p \in two : Apart(p[1], p[2])} \cup {<<h, o>> : h \in one, o \in Other}

ExecProc == {"init", "p"}
Exec == INSTANCE Execve WITH
    Proc <- ExecProc, InitProc <- "init", MaxStrings <- 1, MaxLaunches <- 2

\* "exit", "cd", any other word; a redirection without a target, to a file, or
\* to a descriptor that is open or not.
Words == {[kind |-> "word", word |-> w] : w \in {"exit", "cd", "cat"}}
Redir(fd, target, from) == [kind |-> "redir", fd |-> fd, target |-> target, from |-> from]
Redirs == {Redir(1, "missing", 0), Redir(0, "file", 0), Redir(1, "file", 0),
           Redir(2, "dup", 1), Redir(1, "dup", 0), Redir(1, "dup", 3)}

ShellProc == {"p1", "p2", "p3", "p4"}
Sh == INSTANCE Shell WITH
    Proc <- ShellProc, InitProc <- "p1", NoProc <- "none", Lines <- BoundedSeq(Words \cup Redirs, 3),
    Dir <- {"/", "/usr"}, MaxArgs <- 3, MaxRedirs <- 2, MaxFds <- 4

-----------------------------------------------------------------------------
execVars == <<heap, own, call, life, launched, widowed>>
allVars == <<part, vars, execVars, proc>>

ProgramsInit ==
    /\ part \in {"launch", "exec", "shell"}
    /\ IF part = "launch" THEN Init
       ELSE /\ prog = <<>> /\ argv = <<>> /\ envp = <<>>
            /\ pc = "map" /\ i = 1 /\ areas = <<>> /\ pages = {} /\ ram = <<>>
            /\ mem = [brk_start |-> 0, stack_start |-> 0]
            /\ stringsTop = 0 /\ argvUser = <<>> /\ envpUser = <<>> /\ sp = 0
    /\ Exec!Init
    /\ Sh!Init

Launching == part = "launch" /\ Next /\ UNCHANGED <<part, execVars, proc>>
Executing(A) == part = "exec" /\ A /\ UNCHANGED <<part, vars, proc>>
InShell(A) == part = "shell" /\ A /\ UNCHANGED <<part, vars, execVars>>

ProgramsNext == Launching \/ Executing(Exec!Next) \/ InShell(Sh!Next)

\* The fairness of Execve and of Shell, for the part that moves.
ProgramsFairness ==
    /\ \A p \in ExecProc : /\ WF_allVars(Executing(Exec!Step(p)))
                           /\ WF_allVars(Executing(Exec!Collect(p)))
    /\ \A p \in ShellProc : WF_allVars(InShell(Sh!Step(p)))

ProgramsSpec == ProgramsInit /\ [][ProgramsNext]_allVars /\ ProgramsFairness

-----------------------------------------------------------------------------
\* Loading never faults; when the program starts its segments hold what they
\* should, the stack has the form that the start-up code expects and the heap
\* has room to grow.
ProgramStarts ==
    part = "launch" => NoLoadFault /\ ImageIntact /\ EntryStack /\ BreakClear

\* On every way out of execve, fork and exit each object has one owner, a live
\* process has all its pieces, and an execve that fails leaves the old program
\* as it was.
OwnersExact == [](Exec!HeapExact /\ Exec!ImageWhole) /\ Exec!FailureKeepsImage

\* A command starts with the descriptors and the directory that its line asks
\* for; no string of an earlier line is kept; only one process reads the
\* terminal.
CommandsExact == Sh!RedirectionsInOrder /\ [](Sh!WordsFreed /\ Sh!OneReader)

\* Every execve comes to an end, and the user gets a prompt again.
CommandsEnd == Exec!CallsEnd /\ (part = "shell" => Sh!PromptReturns)
=============================================================================
