------------------------------- MODULE Shell -------------------------------
(***************************************************************************)
(* The programs that run the system from user space: init, which starts    *)
(* a shell and starts the next when it ends, and sh, which reads a line,   *)
(* parses it, and runs a command with its redirections in a child          *)
(* (userspace/init.c, userspace/sh.c).                                     *)
(*                                                                         *)
(* A line is a sequence of tokens.  words counts the strings that the      *)
(* parser has allocated and not freed.  A descriptor refers to the         *)
(* terminal, to the file opened for the i-th redirection, or to nothing.   *)
(* malloc, fork, open, chdir and execve may fail at any time.              *)
(***************************************************************************)
EXTENDS Integers, Sequences, FiniteSets

CONSTANTS
    Proc, InitProc, NoProc,
    Lines,          \* the lines that may be typed
    Dir,            \* directories, "/" among them
    MaxArgs,        \* SH_ARG_MAX
    MaxRedirs,      \* SH_REDIR_MAX
    MaxFds

Fd == 0 .. MaxFds - 1
Closed == -1
Tty == 0
TtyFds == [f \in Fd |-> IF f <= 2 THEN Tty ELSE Closed]

VARIABLE proc

\* Where a process is: in init's loop, in the shell's, in the part of a fork
\* that belongs to the child, or in another program ("running").
InitPC == {"launch", "launched", "shellwait"}
ShellPC == {"prompt", "parse", "parsed", "wait"}
PC == InitPC \cup ShellPC \cup {"newshell", "redirect", "running", "zombie", "none"}

Fresh == [pc |-> "none", parent |-> NoProc, child |-> NoProc, fds |-> TtyFds, cwd |-> "/",
          line |-> <<>>, argv |-> <<>>, redirs |-> <<>>, words |-> 0, applied |-> 0]

Init == proc = [p \in Proc |-> IF p = InitProc THEN [Fresh EXCEPT !.pc = "launch"] ELSE Fresh]

Become(p, r) == proc' = [proc EXCEPT ![p] = r]
Goto(p, l) == Become(p, [proc[p] EXCEPT !.pc = l])

\* exit, or main's return.  No process ends that has a child.
Exit(p) == Become(p, [Fresh EXCEPT !.pc = "zombie", !.parent = proc[p].parent])

\* fork copies the caller, at l in the child; the parent is at m.
Fork(p, l, m) ==
    \E c \in Proc :
        /\ proc[c].pc = "none"
        /\ proc' = [proc EXCEPT ![c] = [proc[p] EXCEPT !.pc = l, !.parent = p],
                                ![p] = [proc[p] EXCEPT !.pc = m, !.child = c]]

\* waitpid for a child that has ended; the parent goes on at l.
Waitpid(p, l) ==
    LET c == proc[p].child
    IN  /\ proc[c].pc = "zombie"
        /\ proc' = [proc EXCEPT ![c] = Fresh, ![p] = [proc[p] EXCEPT !.pc = l, !.child = NoProc]]

\* A new program keeps descriptors, directory and parent.
Image(p, l) == [Fresh EXCEPT !.pc = l, !.parent = proc[p].parent, !.fds = proc[p].fds,
                             !.cwd = proc[p].cwd]
-----------------------------------------------------------------------------
(* init *)

LaunchShell(p) == proc[p].pc = "launch" /\ (Fork(p, "newshell", "shellwait") \/ Exit(p))

\* In the child.  When execve fails launch_shell returns 1 there, as if it were
\* the parent, and the child takes that for the pid of its shell.
ExecShell(p) ==
    /\ proc[p].pc = "newshell"
    /\ Become(p, Image(p, "prompt")) \/ Goto(p, "launched")

\* waitpid for process 1, which is no child of the caller, fails at once.
WaitNoChild(p) == proc[p].pc = "launched" /\ Goto(p, "launch")

\* init waits until the child is gone, which it is only after the wait.
BugWaitShell(p) ==
    proc[p].pc = "shellwait" /\ proc[proc[p].child].pc = "none" /\ Goto(p, "launch")

WaitShell(p) == proc[p].pc = "shellwait" /\ Waitpid(p, "launch")
-----------------------------------------------------------------------------
(* sh: parsing *)

\* fgets fails at the end of the input, and the shell ends.
ReadLine(p) ==
    /\ proc[p].pc = "prompt"
    /\ \/ \E l \in Lines : Become(p, [proc[p] EXCEPT !.pc = "parse", !.line = l])
       \/ Exit(p)

FreeCommand(s) ==
    [s EXCEPT !.words =
        @ - Len(s.argv) - Cardinality({i \in DOMAIN s.redirs : s.redirs[i].target = "file"})]

\* free_command, and back to the prompt; the arrays are not used again.
GiveUp(s) == [FreeCommand(s) EXCEPT !.pc = "prompt", !.line = <<>>, !.argv = <<>>, !.redirs = <<>>]

\* parse_word, for an argument of the command.
ParseArg(s, w) ==
    IF Len(s.argv) = MaxArgs - 1 THEN {GiveUp(s)}
    ELSE {GiveUp(s), [s EXCEPT !.argv = Append(@, w), !.words = @ + 1, !.line = Tail(@)]}

\* The copy of "&n" is kept.
BugParseRedirection(s, r) ==
    IF Len(s.redirs) = MaxRedirs \/ r.target = "missing" THEN {GiveUp(s)}
    ELSE {GiveUp(s), [s EXCEPT !.redirs = Append(@, r), !.words = @ + 1, !.line = Tail(@)]}

\* The target is a word, too; when it names a descriptor the copy is freed.
ParseRedirection(s, r) ==
    IF Len(s.redirs) = MaxRedirs \/ r.target = "missing" THEN {GiveUp(s)}
    ELSE {GiveUp(s), [s EXCEPT !.redirs = Append(@, r), !.line = Tail(@),
                               !.words = IF r.target = "file" THEN @ + 1 ELSE @]}

\* One round of the loop of parse_command.
ParseCommand(p) ==
    LET s == proc[p]
    IN  /\ s.pc = "parse" /\ s.line # <<>>
        /\ \E t \in (IF Head(s.line).kind = "word" THEN ParseArg(s, Head(s.line).word)
                     ELSE ParseRedirection(s, Head(s.line))) : Become(p, t)

\* A line with redirections only has no command, and they are freed.
ParseEnd(p) ==
    LET s == proc[p]
    IN  /\ s.pc = "parse" /\ s.line = <<>>
        /\ IF s.argv = <<>> THEN Become(p, GiveUp(s)) ELSE Goto(p, "parsed")
-----------------------------------------------------------------------------
(* sh: running *)

Command(s) == s.argv[1]

ExitCommand(p) ==
    /\ proc[p].pc = "parsed" /\ Command(proc[p]) = "exit"
    /\ Exit(p)

\* The directory is that of the argument or of HOME; with too many arguments, or
\* when chdir fails, it stays.
CdCommand(p) ==
    LET s == proc[p]
    IN  /\ s.pc = "parsed" /\ Command(s) = "cd"
        /\ \/ Len(s.argv) <= 2 /\ \E d \in Dir : Become(p, [GiveUp(s) EXCEPT !.cwd = d])
           \/ Become(p, GiveUp(s))

\* The shell does not wait.
BugLaunch(p) ==
    LET s == proc[p]
    IN  /\ s.pc = "parsed" /\ Command(s) \notin {"exit", "cd"}
        /\ \/ Become(p, GiveUp(s))
           \/ \E c \in Proc :
                /\ proc[c].pc = "none"
                /\ proc' = [proc EXCEPT ![c] = [s EXCEPT !.pc = "redirect", !.parent = p],
                                        ![p] = GiveUp(s)]

\* find_executable and launch, up to the fork.
Launch(p) ==
    LET s == proc[p]
    IN  /\ s.pc = "parsed" /\ Command(s) \notin {"exit", "cd"}
        /\ Become(p, GiveUp(s)) \/ Fork(p, "redirect", "wait")

\* open, which takes the lowest free descriptor.
OpenFd(fds) == CHOOSE f \in Fd : fds[f] = Closed /\ \A g \in 0 .. f - 1 : fds[g] # Closed

\* The new descriptor is left open.
BugRedirectFile(fds, r, i) == [fds EXCEPT ![OpenFd(fds)] = i, ![r.fd] = i]

\* open, dup2 and close.  With a free descriptor the dup2 cannot fail.
RedirectFile(fds, r, i) ==
    LET fd == OpenFd(fds)
        opened == [fds EXCEPT ![fd] = i]
    IN  IF fd = r.fd THEN opened ELSE [opened EXCEPT ![r.fd] = opened[fd], ![fd] = Closed]

\* One round of the loop of apply_redirections; a failure ends the child.
ApplyRedirection(p) ==
    LET s == proc[p]
        i == s.applied + 1
        r == s.redirs[i]
        done(fds) == Become(p, [s EXCEPT !.fds = fds, !.applied = i])
    IN  /\ s.pc = "redirect" /\ i <= Len(s.redirs)
        /\ \/ /\ r.target = "dup" /\ s.fds[r.from] # Closed
              /\ done([s.fds EXCEPT ![r.fd] = s.fds[r.from]])
           \/ /\ r.target = "file" /\ \E f \in Fd : s.fds[f] = Closed
              /\ done(RedirectFile(s.fds, r, i))
           \/ (r.target = "file" \/ s.fds[r.from] = Closed) /\ Exit(p)

\* When execve fails the child ends.
ExecCommand(p) ==
    LET s == proc[p]
    IN  /\ s.pc = "redirect" /\ s.applied = Len(s.redirs)
        /\ Become(p, Image(p, "running")) \/ Exit(p)

\* A command ends when it likes to.
CommandEnds(p) == proc[p].pc = "running" /\ Exit(p)

WaitCommand(p) ==
    LET c == proc[p].child
    IN  /\ proc[p].pc = "wait" /\ proc[c].pc = "zombie"
        /\ proc' = [proc EXCEPT ![c] = Fresh, ![p] = [GiveUp(proc[p]) EXCEPT !.child = NoProc]]

Step(p) ==
    \/ LaunchShell(p) \/ ExecShell(p) \/ WaitNoChild(p) \/ WaitShell(p)
    \/ ParseCommand(p) \/ ParseEnd(p) \/ ExitCommand(p) \/ CdCommand(p) \/ Launch(p)
    \/ ApplyRedirection(p) \/ ExecCommand(p) \/ WaitCommand(p)

Next == \E p \in Proc : Step(p) \/ ReadLine(p) \/ CommandEnds(p)

\* Processes that can run do (see Processes), and waitpid returns once the child
\* has ended; nobody has to type a line, and a command may run for ever.
Fairness == \A p \in Proc : WF_proc(Step(p))

Spec == Init /\ [][Next]_proc /\ Fairness
-----------------------------------------------------------------------------
(* Properties *)

\* Types of the variables.  No string is freed twice.
TypeOK ==
    \A p \in Proc :
        /\ proc[p].pc \in PC /\ proc[p].words \in Nat /\ proc[p].cwd \in Dir
        /\ proc[p].parent \in Proc \cup {NoProc} /\ proc[p].child \in Proc \cup {NoProc}
        /\ proc[p].fds \in [Fd -> {Closed, Tty} \cup 1 .. MaxRedirs]

\* A shell that reads a line holds no string of an earlier one, whichever way
\* the command went: parse errors, lack of memory, built-in, not found, failed
\* fork, or run.
WordsFreed == \A p \in Proc : proc[p].pc = "prompt" => proc[p].words = 0

\* What redirections 1 to n make of the descriptors, read from left to right.
Effect(fds, redirs) ==
    LET f[n \in 0 .. Len(redirs)] ==
            IF n = 0 THEN fds
            ELSE [f[n - 1] EXCEPT ![redirs[n].fd] =
                      IF redirs[n].target = "dup" THEN f[n - 1][redirs[n].from] ELSE n]
    IN  f[Len(redirs)]

\* A command starts with the descriptors its redirections ask for, read from
\* left to right, and with no other; its shell keeps the terminal.  It starts in
\* the shell's directory.
RedirectionsInOrder ==
    [][\A p \in Proc : proc[p].pc = "redirect" /\ proc'[p].pc = "running" =>
          LET shell == proc[proc[p].parent]
          IN  /\ proc'[p].fds = Effect(TtyFds, proc[p].redirs)
              /\ shell.fds = TtyFds /\ shell.cwd = proc'[p].cwd]_proc

Readers == {p \in Proc : proc[p].pc \in {"prompt", "running"}}

\* At most one process takes input from the terminal: every process waits for
\* the child it has made, also those that a failed start of the shell has left
\* in init's loop.
OneReader == Cardinality(Readers) <= 1

\* Without a prompt or a running command, the user gets one again: unless a shell
\* could not be started just now, or init itself could not fork and has ended.
PromptReturns ==
    Readers = {} ~> \/ Readers # {}
                    \/ \E p \in Proc : proc[p].pc = "launched"
                    \/ proc[InitProc].pc = "zombie"
=============================================================================
