-------------------------------- MODULE Pmm ---------------------------------
(***************************************************************************)
(* The physical memory manager (src/kernel/memory/pmm.c), from the memory  *)
(* map of the boot loader to the frames its clients take and give back.    *)
(* The page table set up at boot covers the kernel and the bitmap, so      *)
(* mapping the bitmap takes no frame for a table.                          *)
(***************************************************************************)
EXTENDS Bitmap, FiniteSets, SequencesExt

CONSTANTS
    PageSize,
    MemMaps,    \* memory maps: sequences of [base, length, type]
    KernelSize, \* kernel_end - kernel_start
    MaxBoot,    \* bound: frames taken before the bitmap exists
    MaxFrames   \* bound: frames handed out in all

VARIABLES
    map,    \* the memory map
    pmm,    \* struct pmm_state and pmm_bitmap
    boot,   \* frames of page tables made at boot and of the bitmap itself
    held    \* frames clients hold

vars == <<map, pmm, boot, held>>

AlignToNextPage(addr) == addr \div PageSize + 1
AlignToPrevPage(addr) == addr \div PageSize
Usable(e) == e.type \in {"usable", "acpi_reclaimable"}

Init ==
    /\ map \in MemMaps
    /\ pmm = [phase |-> "off", totalPages |-> 0, freePages |-> 0, start |-> 0, length |-> 0,
              early |-> 0, memmapIsInitialized |-> FALSE, bitmap |-> BitmapInit(0, TRUE)]
    /\ boot = {} /\ held = {}

\* The first of the largest usable entries.
Largest ==
    LET better(a, e) == IF Usable(e) /\ e.length > a.length THEN e ELSE a
    IN  FoldLeft(better, [base |-> 0, length |-> 0, type |-> "none"], map)

TotalMem == FoldLeft(LAMBDA a, e : a + e.length, 0, map)

\* pmm_initialize.  total_mem adds up every entry, usable or not, and the
\* section is cut off there.
PmmInitialize ==
    LET total == TotalMem
        sect  == Largest
        over  == sect.base + sect.length - total
        need  == KernelSize + BitmapStorageSize(total \div PageSize)
    IN  /\ pmm.phase = "off"
        /\ pmm' = [pmm EXCEPT
                     !.phase = IF sect.length < need THEN "halted" ELSE "early",
                     !.totalPages = total \div PageSize,
                     !.start = sect.base,
                     !.length = IF over > 0 THEN sect.length - over ELSE sect.length,
                     !.early = AlignToNextPage(sect.base)]
        /\ UNCHANGED <<map, boot, held>>

\* The bump pointer stays where it is.
BugEarlyAlloc(p) == p

\* early_alloc: the frame is p.early; no upper bound is tested.
EarlyAlloc(p) == [p EXCEPT !.early = @ + 1]

\* vmm_initialize: tables for the framebuffer, before there is a bitmap.
AllocTable ==
    /\ pmm.phase = "early"
    /\ Cardinality(boot) < MaxBoot
    /\ pmm' = EarlyAlloc(pmm)
    /\ boot' = boot \cup {pmm.early}
    /\ UNCHANGED <<map, held>>

FirstPageAfterBitmap(paddr, size) == AlignToNextPage(paddr + size)

ClearPage(p, i) ==
    IF i >= p.totalPages \/ ~BitmapGet(p.bitmap, i) THEN p
    ELSE [p EXCEPT !.bitmap = BitmapClear(@, i), !.freePages = @ + 1]

MarkPage(p, i) ==
    IF i >= p.totalPages \/ BitmapGet(p.bitmap, i) THEN p
    ELSE [p EXCEPT !.bitmap = BitmapSet(@, i), !.freePages = IF @ > 0 THEN @ - 1 ELSE @]

PmmInitializeBitmap ==
    LET size  == BitmapStorageSize(pmm.totalPages)
        pages == (size + PageSize - 1) \div PageSize
        first == FirstPageAfterBitmap(pmm.early * PageSize, size)
        last  == AlignToPrevPage(pmm.start + pmm.length)
        bound == AlignToNextPage(pmm.start + pmm.length)
        used  == [pmm EXCEPT !.early = @ + pages, !.bitmap = BitmapInit(pmm.totalPages, TRUE)]
        loop  == [j \in 1 .. bound - first + 1 |-> first + j - 1]
    IN  /\ pmm.phase = "early"
        /\ boot' = boot \cup pmm.early .. pmm.early + pages - 1
        /\ pmm' = IF first >= last THEN [used EXCEPT !.phase = "halted"]
                  ELSE [FoldLeft(ClearPage, used, loop) EXCEPT !.phase = "on"]
        /\ UNCHANGED <<map, held>>

\* pmm_alloc_frame.  Nothing sets memmap_is_initialized, so every frame comes
\* from early_alloc and the bitmap is never searched.
Frame(p) == IF ~p.memmapIsInitialized THEN p.early ELSE BitmapFindClear(p.bitmap)

PmmAllocFrame ==
    LET f == Frame(pmm)
    IN  /\ pmm.phase = "on"
        /\ Cardinality(held) < MaxFrames
        /\ pmm.early < AlignToPrevPage(pmm.start) + MaxBoot + 2 * MaxFrames
        /\ pmm' = IF ~pmm.memmapIsInitialized THEN EarlyAlloc(pmm)
                  ELSE IF f = None THEN pmm ELSE MarkPage(pmm, f)
        /\ held' = held \cup ({f} \ {None})
        /\ UNCHANGED <<map, boot>>

PmmFreeFrame(f) ==
    /\ pmm.phase = "on"
    /\ f \in held
    /\ pmm' = ClearPage(pmm, f)
    /\ held' = held \ {f}
    /\ UNCHANGED <<map, boot>>

Next ==
    \/ PmmInitialize
    \/ AllocTable
    \/ PmmInitializeBitmap
    \/ PmmAllocFrame
    \/ \E f \in held : PmmFreeFrame(f)

Spec == Init /\ [][Next]_vars
-----------------------------------------------------------------------------
\* pmm_alloc_frame never hands out a frame that a client, a boot page table or
\* the bitmap still uses, although frames given back go to a bitmap and frames
\* handed out come from a bump pointer.
NoFrameTwice ==
    [][pmm'.early # pmm.early => pmm.early \notin held \cup boot]_vars

\* free_pages, which pmm_state_get_free_mem reports, counts the clear bits of
\* the bitmap: frames freed twice, or past the end of memory, do not skew it.
FreeCountExact ==
    pmm.phase = "on" => pmm.freePages = Cardinality(ClearBits(pmm.bitmap)) /\ Tight(pmm.bitmap)

\* The frames of the bitmap and of the page tables made at boot are never
\* marked available.
BootFramesStayUsed ==
    pmm.phase = "on" => \A f \in boot : f < pmm.totalPages => BitmapGet(pmm.bitmap, f)
=============================================================================
