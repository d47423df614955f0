----------------------------- MODULE MCStructures ----------------------------
(***************************************************************************)
(* The kernel's data structures for TLC, each against what it promises.    *)
(* A behaviour exercises one of them, chosen at the start, while the       *)
(* others stay in an initial state:                                        *)
(*   bitmap   bitmaps of various sizes under sets and clears               *)
(*   frames   the physical memory manager on various memory maps           *)
(*   areas    the list of virtual memory areas                             *)
(*   slab     the slab allocator                                           *)
(*   queues   the linked lists of processes                                *)
(***************************************************************************)
EXTENDS BitmapCalls

VARIABLES
    part,
    map, pmm, boot, held,           \* see Pmm
    list,                           \* see VmaCalls
    slabs, classes, big, inUse,     \* see Slab
    l                               \* see ProcQueue

E(base, length, type) == [base |-> base, length |-> length, type |-> type]

\* The largest section first, last, in the middle, too small, unaligned, and
\* two of the same size.
MemMaps ==
    { << E(0, 8, "usable"), E(8, 8, "reserved"), E(16, 40, "usable"), E(56, 16, "reserved") >>,
      << E(0, 42, "acpi_reclaimable"), E(42, 22, "reserved") >>,
      << E(0, 24, "usable"), E(24, 8, "reserved"), E(32, 24, "usable") >>,
      << E(4, 14, "usable"), E(18, 30, "reserved"), E(48, 2, "usable") >>,
      << E(8, 36, "reserved"), E(44, 30, "usable") >>,
      << E(0, 6, "usable"), E(6, 50, "reserved") >> }

Pages == INSTANCE Pmm WITH PageSize <- 4, KernelSize <- 5, MaxBoot <- 2, MaxFrames <- 4

Areas == INSTANCE VmaCalls WITH
    PageSize <- 2, LastAddr <- 9, Attr <- {"rx", "rw"}, Free <- "free", MaxAreas <- 4

Slabs == INSTANCE Slab WITH Classes <- 3, PageSize <- 4, MaxSlabs <- 3, MaxBig <- 2

Queues == INSTANCE ProcQueue WITH
    Proc <- {"p1", "p2", "p3", "p4"}, Queue <- {"q1", "q2"}, NoProc <- "null"

-----------------------------------------------------------------------------
StructuresInit ==
    /\ part \in {"bitmap", "frames", "areas", "slab", "queues"}
    /\ IF part = "bitmap" THEN Init ELSE b = BitmapInit(0, TRUE)
    /\ Pages!Init
    /\ part # "frames" => map = CHOOSE m \in MemMaps : TRUE
    /\ Areas!Init
    /\ Slabs!Init
    /\ Queues!Init

pageVars == <<map, pmm, boot, held>>
slabVars == <<slabs, classes, big, inUse>>

StructuresNext ==
    /\ UNCHANGED part
    /\ \/ part = "bitmap" /\ Next /\ UNCHANGED <<pageVars, list, slabVars, l>>
       \/ part = "frames" /\ Pages!Next /\ UNCHANGED <<b, list, slabVars, l>>
       \/ part = "areas" /\ Areas!Next /\ UNCHANGED <<b, pageVars, slabVars, l>>
       \/ part = "slab" /\ Slabs!Next /\ UNCHANGED <<b, pageVars, list, l>>
       \/ part = "queues" /\ Queues!Next /\ UNCHANGED <<b, pageVars, list, slabVars>>

StructuresSpec ==
    StructuresInit /\ [][StructuresNext]_<<part, b, pageVars, list, slabVars, l>>

-----------------------------------------------------------------------------
\* pmm_alloc_frame never hands out a frame in use, the frames of the boot page
\* tables and of the bitmap stay reserved, and free_pages counts the clear bits.
FramesExact ==
    /\ Pages!NoFrameTwice
    /\ [](part = "frames" => Pages!FreeCountExact /\ Pages!BootFramesStayUsed)

\* To its callers the list of areas is a map from pages to rights, also when
\* memory runs out in a split; it stays sorted, and its three searches find what
\* there is.
AreasExact ==
    /\ Areas!ImplementsPageMap
    /\ [](part = "areas" => Areas!AreasDisjoint /\ Areas!SearchesExact)

\* The slabs hand out memory that nobody has, and take none away; their bits and
\* counts say which objects are in use, a second free changes nothing, and a
\* class grows only when it is full.
SlabsHonest ==
    /\ Slabs!ImplementsAllocator /\ Slabs!GrowsWhenFull
    /\ [](part = "slab" => Slabs!CountsExact /\ Slabs!SecondFreeIgnored)

\* The lists with their one link per process behave as sequences, each function
\* does to them what its name says, the tail pointer is right and no process
\* that has left a queue keeps a link into it.
QueuesExact ==
    /\ Queues!ImplementsQueues
    /\ [][part = "queues" => Queues!CallDoesItsJob]_l
    /\ [](Queues!TailIsLast /\ Queues!NoStaleLink)
=============================================================================
