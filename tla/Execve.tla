------------------------------- MODULE Execve -------------------------------
(***************************************************************************)
(* Who owns what while processes fork, execve and end                      *)
(* (syscall_execve.c, execve.c, fork.c, proc.c, elf_read and elf_free).    *)
(*                                                                         *)
(* The heap counts, per kind, the objects that have been allocated and not *)
(* freed; a holding counts the objects that a process structure or the     *)
(* local variables of a system call point to.  A NULL pointer counts 0.    *)
(* An array of strings and its strings are of one kind.  Every allocation  *)
(* may fail.  Calls of different processes interleave at the statements:   *)
(* reading a file lets others run, and the rest does no harm.  Descriptors *)
(* are in Vfs, page tables in AddressSpace, and the last part of the call, *)
(* which never comes back, in ElfLaunch.                                   *)
(***************************************************************************)
EXTENDS Integers, FiniteSetsExt

CONSTANTS
    Proc, InitProc,
    MaxStrings,     \* bound: strings in argv, and in envp
    MaxLaunches     \* bound: programs started

VARIABLES
    heap,       \* live objects of each kind
    own,        \* what each process structure points to
    call,       \* the system call of each process: statement and locals
    life,       \* "none", "live" or "dead"
    launched,   \* programs started by execve
    widowed     \* processes freed that had an elf handle

vars == <<heap, own, call, life, launched, widowed>>

Shared == {"proc", "fds", "children", "stack", "logger", "mem", "fpu", "name"}
Elf == {"header", "phdrs", "elf"}
Arrays == {"argv", "envp"}
Kind == Shared \cup Elf \cup Arrays \cup {"vmm", "path", "file", "stat", "buffer"}

Holding == [Kind -> Nat]
None == [k \in Kind |-> 0]
One(S) == [k \in Kind |-> IF k \in S THEN 1 ELSE 0]
Only(S, f) == [k \in Kind |-> IF k \in S THEN f[k] ELSE 0]
Plus(f, g) == [k \in Kind |-> f[k] + g[k]]
Minus(f, g) == [k \in Kind |-> f[k] - g[k]]

Idle == [pc |-> "user", has |-> None]

\* init, made by kernel_main with proc_new_user.
Init ==
    /\ own = [p \in Proc |-> IF p = InitProc THEN One(Shared \cup Elf \cup {"vmm"}) ELSE None]
    /\ heap = own[InitProc]
    /\ call = [p \in Proc |-> Idle]
    /\ life = [p \in Proc |-> IF p = InitProc THEN "live" ELSE "none"]
    /\ launched = 0 /\ widowed = 0

At(p, l) == life[p] = "live" /\ call[p].pc = l

\* The call allocates n objects of kind k and goes on.
Take(p, k, n, next) ==
    /\ heap' = [heap EXCEPT ![k] = @ + n]
    /\ call' = [call EXCEPT ![p] = [pc |-> next, has |-> [@.has EXCEPT ![k] = @ + n]]]
    /\ UNCHANGED <<own, life, launched, widowed>>

\* The call frees its objects of the kinds S and returns an error; rest is what
\* the function that failed has left allocated.
FailLeaving(p, S, rest) ==
    /\ heap' = Plus(Minus(heap, Only(S, call[p].has)), rest)
    /\ call' = [call EXCEPT ![p] = Idle]
    /\ UNCHANGED <<own, life, launched, widowed>>

Fail(p, S) == FailLeaving(p, S, None)
-----------------------------------------------------------------------------
(* syscall_execve *)

CopyPath(p) ==
    /\ At(p, "user") /\ launched < MaxLaunches
    /\ Take(p, "path", 1, "argv")

\* free_string_array frees the strings, but not the array.
BugCopyStringArray(n, got) == IF got = n + 1 THEN got ELSE Min({got, 1})

\* copy_string_array for n strings, of which got - 1 are copied before memory
\* or valid addresses end: the number of objects left allocated.
CopyStringArray(n, got) == IF got = n + 1 THEN got ELSE 0

CopyStrings(p, k, next, held) ==
    \E n \in 0 .. MaxStrings : \E got \in 0 .. n + 1 :
        IF got = n + 1 THEN Take(p, k, CopyStringArray(n, got), next)
        ELSE FailLeaving(p, held, [None EXCEPT ![k] = CopyStringArray(n, got)])

CopyArgv(p) == At(p, "argv") /\ CopyStrings(p, "argv", "envp", {"path"})

CopyEnvp(p) == At(p, "envp") /\ CopyStrings(p, "envp", "open", {"argv", "path"})

GetFileHandle(p) ==
    /\ At(p, "open")
    /\ Take(p, "file", 1, "stat") \/ Fail(p, {"envp", "argv", "path"})

Fstat(p) ==
    /\ At(p, "stat")
    /\ Take(p, "stat", 1, "buffer") \/ Fail(p, {"envp", "argv", "path", "file"})

AllocBuffer(p) ==
    /\ At(p, "buffer")
    /\ Take(p, "buffer", 1, "read") \/ Fail(p, {"envp", "argv", "path", "stat", "file"})

ReadWhole(p) ==
    /\ heap' = Minus(heap, Only({"file"}, call[p].has))
    /\ call' = [call EXCEPT ![p] = [pc |-> "elf", has |-> [@.has EXCEPT !["file"] = 0]]]
    /\ UNCHANGED <<own, life, launched, widowed>>

\* After a short read the file is opened again.
BugReadFile(p) ==
    LET again == {"file", "stat", "buffer"}
    IN  /\ At(p, "read")
        /\ \/ ReadWhole(p)
           \/ /\ heap' = Minus(heap, Only(again, call[p].has))
              /\ call' = [call EXCEPT ![p] = [pc |-> "open", has |-> Only(Kind \ again, @.has)]]
              /\ UNCHANGED <<own, life, launched, widowed>>

\* The file is closed whether or not it could be read whole.
ReadFile(p) ==
    /\ At(p, "read")
    /\ ReadWhole(p) \/ Fail(p, {"file", "envp", "argv", "path", "stat", "buffer"})

\* elf_read: header, program headers and handle are allocated in this order; an
\* invalid header or a missing piece frees the ones before.
ElfRead(got) == IF got = Elf THEN Elf ELSE {}

ReadElf(p) ==
    /\ At(p, "elf")
    /\ \E got \in {{}, {"header"}, {"header", "phdrs"}, Elf} :
         LET new == One(ElfRead(got))
         IN  IF got = Elf
             THEN /\ heap' = Minus(Plus(heap, new), Only({"stat"}, call[p].has))
                  /\ call' = [call EXCEPT ![p] =
                        [pc |-> "exec", has |-> Plus([@.has EXCEPT !["stat"] = 0], new)]]
                  /\ UNCHANGED <<own, life, launched, widowed>>
             ELSE FailLeaving(p, {"stat", "envp", "argv", "path", "buffer"}, new)
-----------------------------------------------------------------------------
(* execve_proc, and what syscall_execve does with its answer *)

NewImage == {"logger", "vmm", "name"}
Replaced == NewImage \cup Elf \cup Arrays

\* The old handle is given up before the new image is complete.
BugExecveProcFails(p) ==
    /\ At(p, "exec")
    /\ heap' = Minus(Minus(heap, call[p].has), Only(Elf, own[p]))
    /\ own' = [own EXCEPT ![p] = Only(Kind \ Elf, @)]
    /\ call' = [call EXCEPT ![p] = Idle]
    /\ UNCHANGED <<life, launched, widowed>>

FreedByCaller == {"path", "buffer"} \cup Elf

\* One of logger, address space and name cannot be had, and the others are
\* freed.  execve_proc frees the strings, its caller the rest.
ExecveProcFails(p) == At(p, "exec") /\ Fail(p, Arrays \cup FreedByCaller)

\* The point of no return: the process takes over the handle and the strings and
\* gives up what it had.  The copy of the path and the file's content are
\* pointed to by nobody afterwards (elf->buffer is used once, by elf_launch).
ExecveProc(p) ==
    LET new == Plus(One(NewImage), Only(Elf \cup Arrays, call[p].has))
    IN  /\ At(p, "exec")
        /\ heap' = Minus(Plus(heap, One(NewImage)), Only(Replaced, own[p]))
        /\ own' = [own EXCEPT ![p] = Plus(Minus(@, Only(Replaced, @)), new)]
        /\ call' = [call EXCEPT ![p] = Idle]
        /\ launched' = launched + 1
        /\ UNCHANGED <<life, widowed>>
-----------------------------------------------------------------------------
(* fork and the end of a process *)

\* proc_new_shared, when the pieces got could be allocated: what stays.
ProcNewShared(got) == IF got = Shared THEN got ELSE {}

\* The child has an address space of its own, but neither handle nor strings.
ForkedHolding(new) == Plus(new, One({"vmm"}))

\* fork_proc.  When a piece is missing the copied address space is freed as well;
\* one missing piece stands for all.
Fork(p, q) ==
    /\ At(p, "user") /\ life[q] = "none"
    /\ \E missing \in {{}} \cup {{k} : k \in Shared} :
         LET new == One(ProcNewShared(Shared \ missing))
         IN  IF missing = {}
             THEN /\ own' = [own EXCEPT ![q] = ForkedHolding(new)]
                  /\ heap' = Plus(heap, own'[q])
                  /\ life' = [life EXCEPT ![q] = "live"]
             ELSE heap' = Plus(heap, new) /\ UNCHANGED <<own, life>>
    /\ UNCHANGED <<call, launched, widowed>>

Exit(p) ==
    /\ p # InitProc /\ At(p, "user")
    /\ life' = [life EXCEPT ![p] = "dead"]
    /\ UNCHANGED <<heap, own, call, launched, widowed>>

\* process_mem_free
ProcessMemFree(f) == Only({"mem", "vmm"}, f)

\* proc_strings_free
ProcStringsFree(f) == Only(Arrays, f)

\* What proc_free frees of the holding f: all but the elf handle.
ProcFree(f) == Plus(Plus(Only(Shared \ {"mem"}, f), ProcStringsFree(f)), ProcessMemFree(f))

Collect(p) ==
    /\ life[p] = "dead"
    /\ heap' = Minus(heap, ProcFree(own[p]))
    /\ widowed' = widowed + own[p]["elf"]
    /\ own' = [own EXCEPT ![p] = None]
    /\ life' = [life EXCEPT ![p] = "none"]
    /\ UNCHANGED <<call, launched>>

\* The rest of a call that has begun.
Step(p) ==
    \/ CopyArgv(p) \/ CopyEnvp(p) \/ GetFileHandle(p) \/ Fstat(p) \/ AllocBuffer(p)
    \/ ReadFile(p) \/ ReadElf(p) \/ ExecveProcFails(p) \/ ExecveProc(p)

Next ==
    \E p \in Proc : CopyPath(p) \/ Step(p) \/ Exit(p) \/ Collect(p) \/ \E q \in Proc : Fork(p, q)

\* A process inside the kernel gets the CPU again and again (see Processes), and
\* none of the calls made here waits for anything; so a call goes on.  A dead
\* process is freed by the terminator or its parent.
Fairness == \A p \in Proc : WF_vars(Step(p)) /\ WF_vars(Collect(p))

Spec == Init /\ [][Next]_vars /\ Fairness
-----------------------------------------------------------------------------
(* Properties *)

\* Types of the variables.
TypeOK ==
    /\ heap \in Holding /\ own \in [Proc -> Holding]
    /\ \A p \in Proc : call[p].has \in Holding /\ life[p] \in {"none", "live", "dead"}

Held(k) == FoldSet(LAMBDA p, n : n + own[p][k] + call[p].has[k], 0, Proc)

\* Every object has exactly one owner, over all ways out of execve and fork:
\* nothing is freed twice or kept after it was freed, and nothing is lost but
\* the copy of the path and the content of the file of each program started,
\* and the elf handle of each process freed.
HeapExact ==
    \A k \in Kind :
        heap[k] = Held(k) + (IF k \in {"path", "buffer"} THEN launched
                             ELSE IF k \in Elf THEN widowed ELSE 0)

\* A live process always has an address space, a name, a logger and its other
\* pieces, and its elf handle is whole or absent.
ImageWhole ==
    \A p \in Proc : life[p] = "live" =>
        /\ \A k \in Shared \cup {"vmm"} : own[p][k] = 1
        /\ \A k \in Elf : own[p][k] = own[p]["elf"] /\ own[p][k] <= 1

\* An execve that returns an error leaves the process as it was: the old program
\* goes on in its old image.
FailureKeepsImage ==
    [][\A p \in Proc : call[p].pc # "user" /\ call'[p].pc = "user" /\ launched' = launched
                          => own'[p] = own[p]]_vars

\* Every execve comes to an end, in the old program or the new one.
CallsEnd == \A p \in Proc : call[p].pc # "user" ~> call[p].pc = "user"
=============================================================================
