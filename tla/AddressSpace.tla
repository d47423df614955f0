---------------------------- MODULE AddressSpace ----------------------------
(***************************************************************************)
(* Address spaces (src/kernel/memory/vmm.c) under the system calls that    *)
(* change them: brk, mmap, munmap, fork, execve and exit.                  *)
(*                                                                         *)
(* A page table maps pages to frames.  The three levels of tables are one: *)
(* a table covers TablePages pages, is made on demand and costs a frame.   *)
(* Frames come from a pool, lowest first, and 0 stands for none left; the  *)
(* allocator as built never takes a frame twice (see Pmm), which is one of *)
(* the behaviours allowed here.  A TLB entry outlives the mapping until    *)
(* invlpg or the next load of cr3.                                         *)
(***************************************************************************)
EXTENDS Vma, FiniteSets

CONSTANTS
    Proc, Nobody,
    Frames,     \* frames of the pool, numbered from 1
    FbFrames,   \* frames of the framebuffer, outside the pool
    TablePages, \* pages covered by one page table
    LastPage,   \* the user stack is this page
    SlabOk,     \* what slab_alloc may do for an area: {TRUE}, or {TRUE, FALSE}
    MaxCalls    \* bound: system calls

VARIABLES
    vm,     \* the memory of each process: struct process_mem and its vmm, or none
    free,   \* frames available
    cur,    \* the process whose cr3 is loaded
    tlb,    \* pairs page, frame the CPU may still use
    calls

vars == <<vm, free, cur, tlb, calls>>

Page == 0 .. LastPage
Table == 0 .. LastPage \div TablePages
FirstPage == 1      \* LOW_REGION_END
StackPage == LastPage
ElfPage == 1        \* the only page of every program

NoVmm == [pml4 |-> 0]

PmmAllocFrame(pool) == IF pool = {} THEN 0 ELSE CHOOSE f \in pool : \A g \in pool : f <= g

\* Results of operations: the vmm, the pool and whether it worked.
Res(m, pool, ok) == [m |-> m, free |-> pool, ok |-> ok]
-----------------------------------------------------------------------------
(* vmm.c *)

VmmNew(pool) ==
    LET f == PmmAllocFrame(pool)
    IN  IF f = 0 THEN Res(NoVmm, pool, FALSE)
        ELSE Res([pml4 |-> f, areas |-> <<>>, pt |-> [p \in Page |-> 0], tables |-> [t \in Table |-> 0]],
                 pool \ {f}, TRUE)

\* walk_non_kernel_to_pt
WalkToPt(r, page, create) ==
    LET t == page \div TablePages
        f == PmmAllocFrame(r.free)
    IN  IF r.m.tables[t] # 0 THEN Res(r.m, r.free, TRUE)
        ELSE IF ~create \/ f = 0 THEN Res(r.m, r.free, FALSE)
        ELSE Res([r.m EXCEPT !.tables[t] = f], r.free \ {f}, TRUE)

MapAtPaddrInternal(r, page, frame) ==
    LET w == WalkToPt(r, page, TRUE)
    IN  IF w.ok THEN Res([w.m EXCEPT !.pt[page] = frame], w.free, TRUE) ELSE w

\* map_single: the frame is taken before the table and lost if there is none.
MapSingle(r, page) ==
    LET f == PmmAllocFrame(r.free)
    IN  IF ~r.ok THEN r
        ELSE IF f = 0 THEN Res(r.m, r.free, FALSE)
        ELSE MapAtPaddrInternal(Res(r.m, r.free \ {f}, TRUE), page, f)

AddArea(m, page, count, mem) ==
    [m EXCEPT !.areas = VmaInsert(@, page * PageSize, (page + count) * PageSize - 1, "rw", mem)]

\* remove_vma: one page.
WithAreas(m, v) == [ok |-> v.ok, m |-> [m EXCEPT !.areas = v.list]]

RemoveVma(m, page, mem) ==
    WithAreas(m, VmaRemove(m.areas, page * PageSize, (page + 1) * PageSize - 1, mem))

PagesFrom(page, count) == [i \in 1 .. count |-> page + i - 1]

\* vmm_map: when a frame is missing the pages mapped so far stay, and only the
\* first page is taken out of the area.
MapEnd(d, page) == IF d.ok THEN d ELSE Res(RemoveVma(d.m, page, TRUE).m, d.free, FALSE)

VmmMap(r, page, count, mem) ==
    LET a == AddArea(r.m, page, count, mem)
    IN  IF a = r.m THEN Res(r.m, r.free, FALSE)
        ELSE MapEnd(FoldLeft(MapSingle, Res(a, r.free, TRUE), PagesFrom(page, count)), page)

VmmMapAtPaddr(r, page, frame, mem) ==
    LET a == AddArea(r.m, page, 1, mem)
    IN  IF a = r.m THEN Res(r.m, r.free, FALSE)
        ELSE MapEnd(MapAtPaddrInternal(Res(a, r.free, TRUE), page, frame), page)

\* The frame is given back at once.
BugUnmapInternal(r, page) ==
    LET w == WalkToPt(r, page, FALSE)
    IN  IF w.ok THEN Res([w.m EXCEPT !.pt[page] = 0], w.free \cup ({r.m.pt[page]} \cap Frames), TRUE) ELSE w

\* unmap_internal clears the entry; the frame is not given back, and the TLB
\* is not told.  The result is the address, and address 0 reads as a failure.
UnmapInternal(r, page) ==
    LET w == WalkToPt(r, page, FALSE)
    IN  IF w.ok THEN Res([w.m EXCEPT !.pt[page] = 0], w.free, page # 0) ELSE w

VmmUnmap(r, page, mem) ==
    LET u == UnmapInternal(r, page)
        Removed(v) == Res(v.m, u.free, v.ok)
    IN  IF ~u.ok THEN u ELSE Removed(RemoveVma(u.m, page, mem))

Used(f) == {f[x] : x \in DOMAIN f} \ {0}

\* walk_lower_mappings: the pages mapped, in the order of their addresses.
WalkLowerMappings(m) == SelectSeq(PagesFrom(0, LastPage + 1), LAMBDA page : m.pt[page] # 0)

\* vmm_free: every frame mapped, the tables, the pml4.  Frames of the
\* framebuffer lie behind total_pages and clear_page ignores them.
VmmFree(m, pool) ==
    LET destroyMapping(free_, page) == free_ \cup ({m.pt[page]} \cap Frames)
    IN  FoldLeft(destroyMapping, pool, WalkLowerMappings(m)) \cup Used(m.tables) \cup {m.pml4}

\* copy_mapping: a new frame with the same content for one page of the source.
CopyMapping(r, page) ==
    LET f == PmmAllocFrame(r.free)
        End(d) == IF d.ok THEN d ELSE Res(d.m, d.free \cup {f}, FALSE)
    IN  IF ~r.ok THEN r
        ELSE IF f = 0 THEN Res(r.m, r.free, FALSE)
        ELSE End(MapAtPaddrInternal(Res(r.m, r.free \ {f}, TRUE), page, f))

\* The areas are not copied.
BugVmmCopy(m, pool, n) ==
    LET new   == VmmNew(pool)
        maps  == FoldLeft(CopyMapping, new, WalkLowerMappings(m))
    IN  IF ~new.ok \/ maps.ok THEN maps ELSE Res(NoVmm, VmmFree(maps.m, maps.free), FALSE)

CopyEnd(maps, areas) ==
    IF maps.ok /\ areas.ok THEN Res([maps.m EXCEPT !.areas = areas.list], maps.free, TRUE)
    ELSE Res(NoVmm, VmmFree(maps.m, maps.free), FALSE)

VmmCopy(m, pool, n) ==
    LET new == VmmNew(pool)
    IN  IF ~new.ok THEN new
        ELSE CopyEnd(FoldLeft(CopyMapping, new, WalkLowerMappings(m)), VmaCopyList(m.areas, n))
-----------------------------------------------------------------------------
(* The processes *)

Live == {p \in Proc : vm[p].m # NoVmm}
Dead == [m |-> NoVmm, brkStart |-> 0, brk |-> 0, stackStart |-> 0, exited |-> FALSE]

\* elf_map and the rest of elf_launch in a fresh vmm; neither looks at what
\* vmm_map returns.
ElfLaunch(r) ==
    LET brk == (ElfPage + 2) * PageSize
        Stack(a) == VmmMap(Res(a.m, a.free, TRUE), StackPage, 1, TRUE)
        Launched(b) ==
            [mem |-> [m |-> b.m, brkStart |-> brk, brk |-> brk, stackStart |-> StackPage * PageSize,
                      exited |-> FALSE],
             free |-> b.free]
    IN  Launched(Stack(VmmMap(r, ElfPage, 1, TRUE)))

Init ==
    /\ \E p \in Proc, l \in {ElfLaunch(VmmNew(Frames))} :
        /\ vm = [q \in Proc |-> IF q = p THEN l.mem ELSE Dead]
        /\ free = l.free
        /\ cur = p
    /\ tlb = {} /\ calls = 0

Call == calls < MaxCalls /\ calls' = calls + 1 /\ cur # Nobody /\ UNCHANGED cur

\* What a system call of the running process leaves behind; mapping a page
\* ends with invlpg.
Store(new) ==
    \E r \in {new} :
        /\ vm' = [vm EXCEPT ![cur].m = r.m]
        /\ free' = r.free
        /\ tlb' = {e \in tlb : r.m.pt[e[1]] = 0 \/ r.m.pt[e[1]] = vm[cur].m.pt[e[1]]}

Here == Res(vm[cur].m, free, TRUE)

\* The break is moved before the pages are there.
BugBrk(new, mem) ==
    LET v == vm[cur]
        from == v.brk \div PageSize
        to   == (new + PageSize - 1) \div PageSize
        r    == VmmMap(Here, from, to - from, mem)
    IN  /\ Call
        /\ new >= v.brkStart /\ new <= v.stackStart - PageSize /\ to > from
        /\ vm' = [vm EXCEPT ![cur].m = r.m, ![cur].brk = new]
        /\ free' = r.free
        /\ UNCHANGED tlb

\* syscall_brk.  A smaller break keeps its pages; the page of the old break is
\* asked for again when the break is not at the start of a page.
Brk(new, mem) ==
    LET v == vm[cur]
        from == v.brk \div PageSize
        to   == (new + PageSize - 1) \div PageSize
    IN  /\ Call
        /\ v.stackStart > PageSize
        /\ new >= v.brkStart /\ new <= v.stackStart - PageSize
        /\ \/ /\ to > from
              /\ \E r \in {VmmMap(Here, from, to - from, mem)} :
                    /\ vm' = [vm EXCEPT ![cur].m = r.m, ![cur].brk = IF r.ok THEN new ELSE @]
                    /\ free' = r.free
           \/ /\ to <= from
              /\ vm' = [vm EXCEPT ![cur].brk = new]
              /\ UNCHANGED free
        /\ UNCHANGED tlb

UserMax == (LastPage + 1) * PageSize - 1

\* mmap_find_addr: a fixed page, or the highest free range below the guard page.
MmapFindAddr(fixed, length) ==
    LET v == vm[cur]
    IN  IF fixed # NotFound
        THEN FindFreeFixed(v.m.areas, fixed * PageSize, FirstPage * PageSize, UserMax, length)
        ELSE IF v.stackStart <= PageSize THEN NotFound
        ELSE FindFreeBackward(v.m.areas, 0, FirstPage * PageSize, v.stackStart - PageSize - 1, length)

UnmapPages(r, page, count, mem) ==
    LET step(x, p) == IF x.ok THEN VmmUnmap(x, p, mem) ELSE x
    IN  FoldLeft(step, r, PagesFrom(page, count))

\* syscall_mmap of anonymous memory, or of a file whose read may fail: then
\* the pages are unmapped again.
Mmap(fixed, count, readOk, mem) ==
    /\ Call
    /\ \E at \in {MmapFindAddr(fixed, count * PageSize)} \ {NotFound} :
        LET page == at \div PageSize
            Read(r) == IF r.ok /\ ~readOk THEN UnmapPages(r, page, count, mem) ELSE r
        IN  Store(Read(VmmMap(Here, page, count, mem)))

\* fb_mmap: a page more is searched for than is mapped, since the framebuffer
\* may start inside a page; it is mapped page by page and rolled back.
MmapFb(fixed, count, mem) ==
    /\ Call
    /\ count <= Cardinality(FbFrames)
    /\ \E at \in {MmapFindAddr(fixed, (count + 1) * PageSize)} \ {NotFound} :
        LET page == at \div PageSize
            fb(i) == CHOOSE f \in FbFrames : Cardinality({g \in FbFrames : g < f}) = i
            step(x, i) == IF x.ok THEN VmmMapAtPaddr(x, page + i, fb(i), mem) ELSE x
            Done(r) == Cardinality({i \in 0 .. count - 1 : r.m.pt[page + i] \in FbFrames})
            End(r) == IF r.ok THEN r ELSE UnmapPages(Res(r.m, r.free, TRUE), page, Done(r), TRUE)
        IN  Store(End(FoldLeft(step, Here, PagesFrom(0, count))))

Munmap(page, count, mem) ==
    /\ Call
    /\ page + count - 1 <= LastPage
    /\ Store(UnmapPages(Here, page, count, mem))

\* fork_proc: the copy, or nothing.
Fork(q, n) ==
    /\ Call
    /\ vm[q] = Dead /\ q # cur
    /\ \E r \in {VmmCopy(vm[cur].m, free, n)} :
        /\ vm' = IF r.ok THEN [vm EXCEPT ![q] = [vm[cur] EXCEPT !.m = r.m]] ELSE vm
        /\ free' = r.free
    /\ tlb' = tlb

\* execve_proc: the new cr3 is loaded, then the old vmm is freed.
Execve ==
    LET n == VmmNew(free)
    IN  /\ Call
        /\ \/ /\ n.ok
              /\ \E l \in {ElfLaunch(Res(n.m, VmmFree(vm[cur].m, n.free), TRUE))} :
                    vm' = [vm EXCEPT ![cur] = l.mem] /\ free' = l.free /\ tlb' = {}
           \/ ~n.ok /\ UNCHANGED <<vm, free, tlb>>

\* proc_exit and the switch to another process; the memory is kept.
Exit ==
    /\ cur # Nobody
    /\ vm' = [vm EXCEPT ![cur].exited = TRUE]
    /\ cur' = Nobody
    /\ tlb' = {}
    /\ UNCHANGED <<free, calls>>

\* switch_to loads cr3.
Switch(p) ==
    /\ p \in Live \ {cur} /\ ~vm[p].exited
    /\ cur' = p
    /\ tlb' = {}
    /\ UNCHANGED <<vm, free, calls>>

\* process_mem_free, called for a dead process by the terminator or waitpid.
ProcessMemFree(p) ==
    /\ vm[p].exited
    /\ vm' = [vm EXCEPT ![p] = Dead]
    /\ free' = VmmFree(vm[p].m, free)
    /\ UNCHANGED <<cur, tlb, calls>>

\* The running process uses a page.
Touch(page) ==
    /\ cur # Nobody
    /\ vm[cur].m.pt[page] # 0
    /\ tlb' = tlb \cup {<<page, vm[cur].m.pt[page]>>}
    /\ UNCHANGED <<vm, free, cur, calls>>

Next ==
    \/ \E mem \in SlabOk :
        \/ \E new \in Addr : Brk(new, mem)
        \/ \E fixed \in {NotFound, FirstPage, FirstPage + 1}, count \in 1 .. 2 :
              MmapFb(fixed, count, mem) \/ \E ok \in BOOLEAN : Mmap(fixed, count, ok, mem)
        \/ \E page \in Page, count \in 1 .. 2 : Munmap(page, count, mem)
        \/ \E q \in Proc, n \in IF mem THEN {0} ELSE 1 .. 2 : Fork(q, n)
    \/ Execve
    \/ Exit
    \/ \E p \in Proc : Switch(p) \/ ProcessMemFree(p)
    \/ \E page \in Page : Touch(page)

Spec == Init /\ [][Next]_vars
-----------------------------------------------------------------------------
Owned(m) == Used(m.pt) \cup Used(m.tables) \cup {m.pml4}

\* No frame of the pool serves two purposes: not in two address spaces, not for
\* two pages of one, not as table and page, and never while it is available,
\* through every failure of map, copy and exec half way.
FramesNotShared ==
    \A p, q \in Live :
        LET m == vm[p].m
        IN  /\ Owned(m) \cap free = {}
            /\ p # q => Owned(m) \cap Owned(vm[q].m) \subseteq FbFrames
            /\ Used(m.pt) \cap (Used(m.tables) \cup {m.pml4}) = {}
            /\ \A a, b \in Page : m.pt[a] = m.pt[b] /\ m.pt[a] \in Frames => a = b

\* munmap does not flush the TLB, so the process may go on using the page:
\* the frame behind it is still not available and not another process's.
StaleTlbHarmless ==
    \A e \in tlb : e[2] \in Frames =>
        /\ e[2] \notin free
        /\ \A q \in Live \ {cur} : e[2] \notin Owned(vm[q].m)

InArea(m, page) == \E i \in 1 .. Len(m.areas) : Overlaps(m.areas[i], page * PageSize, page * PageSize)

\* While frames last, the areas of a process are the pages it has mapped: what
\* the searches of mmap call free is free, and what they call taken is mapped.
AreasMatchMappings ==
    \A p \in Live : \A page \in Page : (vm[p].m.pt[page] # 0) = InArea(vm[p].m, page)

\* A successful fork leaves parent and child with the same pages and areas
\* and with no frame in common, the framebuffer's included.
ForkCopies ==
    [][\A q \in Proc :
        (q # cur /\ cur \in Live /\ cur' = cur /\ vm[q] = Dead /\ vm'[q] # Dead) =>
            LET m == vm[cur].m
                c == vm'[q].m
            IN  /\ c.areas = m.areas
                /\ \A page \in Page : (c.pt[page] = 0) = (m.pt[page] = 0)
                /\ Used(c.pt) \cap Used(m.pt) = {}]_vars

\* When the break moves up, every page that begins between the old break and
\* the new one is mapped, whether brk just mapped it or an earlier shrink of
\* the break left it there.
HeapMapped ==
    [][\A p \in Live : p \in {q \in Proc : vm'[q].m # NoVmm} /\ vm'[p].brk > vm[p].brk =>
        \A page \in Page :
            page * PageSize >= vm[p].brk /\ page * PageSize < vm'[p].brk => vm'[p].m.pt[page] # 0]_vars
=============================================================================
