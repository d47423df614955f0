------------------------------ MODULE MCMemory ------------------------------
(***************************************************************************)
(* Address spaces and the heap for TLC.  A behaviour exercises one of the  *)
(* parts, chosen at the start, while the others stay in an initial state:  *)
(*   space    two address spaces while frames and slabs run out            *)
(*   roomy    two address spaces with enough of both                       *)
(*   flags    access bits: two tables of two pages, one in each half       *)
(*   heap     the heap, with five pages of memory                          *)
(***************************************************************************)
EXTENDS PageFlags, FiniteSets, Sequences

VARIABLES
    part,
    vm, free, cur, tlb, calls,      \* see AddressSpace
    heap, owned                     \* see Hmalloc

Space == INSTANCE AddressSpace WITH
    PageSize <- 2, LastAddr <- 15, Attr <- {"rw"}, LastPage <- 6, TablePages <- 4,
    Proc <- {"p1", "p2"}, Nobody <- "nobody", Frames <- 1 .. 12, FbFrames <- {100, 101},
    SlabOk <- BOOLEAN, MaxCalls <- 3

Roomy == INSTANCE AddressSpace WITH
    PageSize <- 2, LastAddr <- 15, Attr <- {"rw"}, LastPage <- 6, TablePages <- 4,
    Proc <- {"p1", "p2"}, Nobody <- "nobody", Frames <- 1 .. 24, FbFrames <- {100, 101},
    SlabOk <- {TRUE}, MaxCalls <- 2

Heap == INSTANCE Hmalloc WITH
    Header <- 2, Footer <- 1, PageSize <- 8, InitialPages <- 1, MaxPages <- 5,
    MaxBlocks <- 3, MaxGrow <- 3, Sizes <- {0, 3, 5, 14}

-----------------------------------------------------------------------------
MemoryInit ==
    /\ part \in {"space", "roomy", "flags", "heap"}
    /\ IF part = "roomy" THEN Roomy!Init ELSE Space!Init
    /\ part \notin {"space", "roomy"} => cur = "p1"
    /\ PageInit
    /\ Heap!Init

spaceVars == <<vm, free, cur, tlb, calls>>
heapVars == <<heap, owned>>

MemoryNext ==
    /\ UNCHANGED part
    /\ \/ part = "space" /\ Space!Next /\ UNCHANGED <<pageVars, heapVars>>
       \/ part = "roomy" /\ Roomy!Next /\ UNCHANGED <<pageVars, heapVars>>
       \/ part = "flags" /\ PageNext /\ UNCHANGED <<spaceVars, heapVars>>
       \/ part = "heap" /\ Heap!Next /\ UNCHANGED <<spaceVars, pageVars>>

MemorySpec == MemoryInit /\ [][MemoryNext]_<<part, spaceVars, pageVars, heapVars>>

-----------------------------------------------------------------------------
\* No frame has two users and no stale TLB entry leads to a frame that another
\* process uses, through every failure half way; fork copies every page with the
\* rights it had, and a break that moves up covers mapped pages; with enough
\* memory the areas are exactly the mapped pages.
SpacesApart ==
    /\ [](part = "space" => Space!FramesNotShared /\ Space!StaleTlbHarmless)
    /\ [](part = "roomy" => Roomy!FramesNotShared /\ Roomy!AreasMatchMappings)
    /\ Space!ForkCopies
    /\ Space!HeapMapped
    /\ []CopyKeepsRights

\* The heap hands out memory that nobody has and takes none away; headers,
\* footers and the free list describe the same blocks, end to end, no two free
\* ones next to each other; a second free changes nothing.
HeapSound ==
    /\ Heap!ImplementsAllocator
    /\ [](part = "heap" =>
            /\ Heap!BlocksHonest /\ Heap!BlocksTile /\ Heap!FreeListExact /\ Heap!Coalesced
            /\ Heap!SecondFreeIgnored)
=============================================================================
