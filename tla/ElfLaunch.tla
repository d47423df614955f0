----------------------------- MODULE ElfLaunch ------------------------------
(***************************************************************************)
(* Loading a program into a fresh address space (src/kernel/kernel/elf.c:  *)
(* elf_map, elf_launch, prepare_user_stack).                               *)
(*                                                                         *)
(* ram gives the content of each user address: Junk where nothing has been *)
(* written, 0, a byte of a segment or of a string, or a word of the        *)
(* argument frame, which stands for all the bytes of that word.  Only      *)
(* mapped pages may be written; another write is a page fault in the       *)
(* kernel.  Frames do not run out here (see AddressSpace for that).        *)
(***************************************************************************)
EXTENDS Vma

CONSTANTS
    Programs,   \* sequences of program headers [type, vaddr, fsize, msize]
    Strings,    \* the lengths of argument strings, terminator included
    MaxArgs, MaxEnv,
    MinVaddr,   \* USER_SPACE_MIN_VADDR
    StackPages, \* STACK_SIZE in pages
    Word,       \* sizeof(haddr_t)
    StackAlign, \* 16: two words
    Junk

VARIABLES
    prog, argv, envp,   \* the program and the lengths of the strings
    pc, i,              \* the statement, and the index of the loop it is in
    areas, pages,       \* the areas and the mapped pages of the address space
    ram, mem,           \* memory; brk_start and stack_start
    stringsTop, argvUser, envpUser, sp

vars == <<prog, argv, envp, pc, i, areas, pages, ram, mem, stringsTop, argvUser, envpUser, sp>>

StackTop == LastAddr + 1 - PageSize     \* USER_SPACE_MAX_VADDR
StackBottom == StackTop - StackPages * PageSize
Down(a, align) == (a \div align) * align
Up(a, align) == Down(a + align - 1, align)
PagesOf(from, to) == {a \div PageSize : a \in from .. to}

Init ==
    /\ prog \in Programs
    /\ argv \in BoundedSeq(Strings, MaxArgs) /\ envp \in BoundedSeq(Strings, MaxEnv)
    /\ pc = "map" /\ i = 1
    /\ areas = <<>> /\ pages = {} /\ ram = [a \in Addr |-> Junk]
    /\ mem = [brk_start |-> 0, stack_start |-> 0]
    /\ stringsTop = 0 /\ argvUser = <<>> /\ envpUser = <<>> /\ sp = 0

Goto(l, n) == pc' = l /\ i' = n
Input == <<prog, argv, envp>>
Stack == <<stringsTop, argvUser, envpUser, sp>>

\* vmm_map: refused when the area would overlap another one.
VmmMap(from, count) ==
    LET base == AlignDown(from)
        l    == VmaInsert(areas, base, base + count * PageSize - 1, "rw", TRUE)
    IN  /\ areas' = l
        /\ pages' = IF l = areas THEN pages
                    ELSE pages \cup PagesOf(base, base + count * PageSize - 1)

PageCount(size) == (size + PageSize - 1) \div PageSize

\* The last page of a segment is forgotten.
BugMapSegment(h) == VmmMap(h.vaddr, h.msize \div PageSize)

\* The body of the loop of elf_map for a segment to load.  The pages are counted
\* from the size alone, and the result of vmm_map is not looked at.
MapSegment(h) == VmmMap(h.vaddr, PageCount(h.msize))

\* elf_map.  A dynamic header ends the loop, and elf_launch ignores that.
ElfMap ==
    /\ pc = "map"
    /\ IF i > Len(prog) \/ prog[i].type = "DYNAMIC"
       THEN Goto("load", 1) /\ UNCHANGED <<areas, pages>>
       ELSE /\ Goto("map", i + 1)
            /\ IF prog[i].type = "LOAD" THEN MapSegment(prog[i]) ELSE UNCHANGED <<areas, pages>>
    /\ UNCHANGED <<Input, ram, mem, Stack>>

\* memcpy of the content, memset of the rest.
SegmentBytes(n) ==
    LET h == prog[n]
    IN  [a \in h.vaddr .. h.vaddr + h.msize - 1 |->
            IF a < h.vaddr + h.fsize THEN <<"file", n, a - h.vaddr>> ELSE 0]

\* A write of the bytes f, or a page fault.
Write(f, next, n) ==
    IF {a \div PageSize : a \in DOMAIN f} \subseteq pages
    THEN ram' = [a \in Addr |-> IF a \in DOMAIN f THEN f[a] ELSE ram[a]] /\ Goto(next, n)
    ELSE Goto("fault", 0) /\ UNCHANGED ram

\* The loop of elf_launch.
LoadSegment ==
    /\ pc = "load" /\ i <= Len(prog)
    /\ IF prog[i].type = "LOAD" THEN Write(SegmentBytes(i), "load", i + 1)
       ELSE Goto("load", i + 1) /\ UNCHANGED ram
    /\ UNCHANGED <<Input, areas, pages, mem, Stack>>

HighestLoadedAddr ==
    Max({MinVaddr} \cup {prog[n].vaddr + prog[n].msize : n \in {m \in DOMAIN prog : prog[m].type = "LOAD"}})

\* The break starts right behind the last byte.
BugInitialBrk == HighestLoadedAddr

InitialBrk == Up(HighestLoadedAddr, PageSize) + PageSize

SetUpStack ==
    /\ pc = "load" /\ i > Len(prog)
    /\ IF StackBottom <= InitialBrk
       THEN Goto("abort", 0) /\ UNCHANGED <<mem, areas, pages, stringsTop>>
       ELSE /\ mem' = [brk_start |-> InitialBrk, stack_start |-> StackBottom]
            /\ VmmMap(StackBottom, StackPages)
            /\ stringsTop' = StackTop
            /\ Goto("argv", 1)
    /\ UNCHANGED <<Input, ram, argvUser, envpUser, sp>>
-----------------------------------------------------------------------------
(* prepare_user_stack *)

OutOfMemory ==
    /\ pc = "argv" /\ i = 1 /\ Goto("abort", 0)
    /\ UNCHANGED <<Input, areas, pages, ram, mem, Stack>>

StringBytes(tag, n, len, at) == [a \in at .. at + len - 1 |-> <<tag, n, a - at>>]

Fits(len) == len <= stringsTop - StackBottom

PushArg ==
    /\ pc = "argv" /\ i <= Len(argv)
    /\ IF Fits(argv[i])
       THEN /\ stringsTop' = stringsTop - argv[i]
            /\ Write(StringBytes("argv", i, argv[i], stringsTop'), "argv", i + 1)
            /\ argvUser' = Append(argvUser, stringsTop')
       ELSE Goto("abort", 0) /\ UNCHANGED <<ram, stringsTop, argvUser>>
    /\ UNCHANGED <<Input, areas, pages, mem, envpUser, sp>>

ArgsDone ==
    /\ pc = "argv" /\ i > Len(argv) /\ Goto("envp", 1)
    /\ UNCHANGED <<Input, areas, pages, ram, mem, Stack>>

PushEnv ==
    /\ pc = "envp" /\ i <= Len(envp)
    /\ IF Fits(envp[i])
       THEN /\ stringsTop' = stringsTop - envp[i]
            /\ Write(StringBytes("envp", i, envp[i], stringsTop'), "envp", i + 1)
            /\ envpUser' = Append(envpUser, stringsTop')
       ELSE Goto("abort", 0) /\ UNCHANGED <<ram, stringsTop, envpUser>>
    /\ UNCHANGED <<Input, areas, pages, mem, argvUser, sp>>

\* The NULL between arguments and environment is missing.
BugFrame == <<Len(argv)>> \o argvUser \o envpUser \o <<0, 0>>

\* argc, the arguments, NULL, the environment, NULL, and a NULL behind it.
Frame == <<Len(argv)>> \o argvUser \o <<0>> \o envpUser \o <<0, 0>>

FrameSize == (1 + Len(argv) + 1 + Len(envp) + 1 + 1) * Word

WriteFrame ==
    LET start == Down(stringsTop - FrameSize, StackAlign)
        words == [a \in start .. start + Len(Frame) * Word - 1 |-> Frame[(a - start) \div Word + 1]]
    IN  /\ pc = "envp" /\ i > Len(envp)
        /\ IF FrameSize > stringsTop - StackBottom \/ start < StackBottom
           THEN Goto("abort", 0) /\ UNCHANGED <<ram, sp>>
           ELSE sp' = start /\ Write(words, "ring3", 0)
        /\ UNCHANGED <<Input, areas, pages, mem, stringsTop, argvUser, envpUser>>

\* abort, a page fault in the kernel, or enter_ring3.
Over == pc \in {"abort", "fault", "ring3"} /\ UNCHANGED vars

Next ==
    \/ ElfMap \/ LoadSegment \/ SetUpStack \/ OutOfMemory
    \/ PushArg \/ ArgsDone \/ PushEnv \/ WriteFrame \/ Over

Spec == Init /\ [][Next]_vars
-----------------------------------------------------------------------------
(* Properties *)

Loads == {n \in DOMAIN prog : prog[n].type = "LOAD"}

\* Types of the variables.
TypeOK ==
    /\ pc \in {"map", "load", "argv", "envp", "abort", "fault", "ring3"}
    /\ i \in Nat /\ areas \in Seq(Area) /\ pages \subseteq 0 .. LastAddr \div PageSize
    /\ DOMAIN ram = Addr /\ stringsTop \in {0} \cup (StackBottom .. StackTop) /\ sp \in Addr
    /\ argvUser \in Seq(Addr) /\ envpUser \in Seq(Addr)

\* elf_map maps every page that the loops of elf_launch and prepare_user_stack
\* write afterwards: loading never faults.
NoLoadFault == pc # "fault"

\* When the program starts, each segment holds its content followed by zeroes:
\* neither another segment nor the stack has been written over it.
ImageIntact ==
    pc = "ring3" => \A n \in Loads :
        \A a \in prog[n].vaddr .. prog[n].vaddr + prog[n].msize - 1 :
            ram[a] = IF a < prog[n].vaddr + prog[n].fsize THEN <<"file", n, a - prog[n].vaddr>> ELSE 0

\* What the start-up code of a program relies on (libc's crt0 and the System V
\* ABI): the stack pointer is aligned, points to argc, and the argument and
\* environment pointers behind it, each list ended by NULL, lead to whole
\* strings, all inside the stack.
EntryStack ==
    LET WordAt(k) == ram[sp + k * Word]
        IsString(tag, n, len, p) ==
            p # 0 /\ p + len <= StackTop /\ \A j \in 0 .. len - 1 : ram[p + j] = <<tag, n, j>>
    IN  pc = "ring3" =>
          /\ sp % StackAlign = 0 /\ sp >= mem.stack_start
          /\ WordAt(0) = Len(argv)
          /\ \A n \in DOMAIN argv : IsString("argv", n, argv[n], WordAt(n))
          /\ WordAt(Len(argv) + 1) = 0
          /\ \A n \in DOMAIN envp : IsString("envp", n, envp[n], WordAt(Len(argv) + 1 + n))
          /\ WordAt(Len(argv) + Len(envp) + 2) = 0

\* The heap of the new program can grow from its first break up to the stack
\* without meeting a page that is already in use, and a page that is never
\* mapped lies between program and heap.
BreakClear ==
    pc = "ring3" =>
        LET first == mem.brk_start \div PageSize
        IN  /\ mem.brk_start % PageSize = 0
            /\ \A page \in first - 1 .. mem.stack_start \div PageSize - 1 : page \notin pages
=============================================================================
