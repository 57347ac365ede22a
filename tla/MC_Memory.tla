------------------------------ MODULE MC_Memory ------------------------------
(* The memory managers: a behaviour is one of the boot information          *)
(* (BootInfo), the page allocator (Pmm), the heap (Heap), the virtual       *)
(* memory manager (Vmm) or the page tables (Mmu), chosen by part; the       *)
(* others stay as they are initialised.  In part "layout" nothing happens:  *)
(* its states are the sizes of a region for which Pmm lays out a pool.      *)
(* Vmm and Mmu come in two sizes each: "vmm_heap" has a heap that may run   *)
(* out inside a call, "copy" adds the copies through the scratch page.      *)
EXTENDS Pmm

CONSTANTS NotPresent, Nothing

VARIABLES
    part,
    page_count,
    heap_pools, s_free_block_count, allocs, heap_failed, faulted,
    object_list, live, uncommited_objects, pt, frames, result, returned,
    pagetables, tlb, booted, mmu_result, access, refused, copy,
    mmap, next, registered, overrun, console, video

\* Pools of 2 and 1 pages from a region of 3, and one of 8 pages.
MCRegions == {[base |-> 1, pages |-> 3], [base |-> 16, pages |-> 8]}

\* The largest region whose layout is checked.
MaxPages == 130

\* Blocks of 4 bytes in pages of 16, pools whose bitmap has a word of 4 bits
\* more or less, and a size that leaves a rest.
HeapPart == INSTANCE Heap WITH
    BLOCK_SIZE <- 4, ARCH_PAGESIZE <- 16, HeaderSize <- 4, Overhead <- 3, MaxAlign <- 2,
    WordSize <- 1, BitsPerWord <- 4, InitialMemory <- 32, Expansions <- {16, 29, 32},
    MaxPools <- 2, Sizes <- {0, 1, 6}, Flags <- {TRUE, FALSE},
    pools <- heap_pools, failed <- heap_failed

\* Two page frames and two device frames: fragmentation, exhaustion of frames
\* and of ranges, and reuse after a free all happen.
VmmPart == INSTANCE Vmm WITH
    RegionPages <- 5, Frames <- {"f1", "f2"}, DeviceFrames <- <<"d1", "d2">>,
    Sizes <- {1, 2, 3}, HeapMayFail <- FALSE, MaxObjects <- 3
VmmHeapPart == INSTANCE Vmm WITH
    RegionPages <- 4, Frames <- {"f1", "f2"}, DeviceFrames <- <<"d1", "d2">>,
    Sizes <- {1, 2}, HeapMayFail <- TRUE, MaxObjects <- 3

MmuPart == INSTANCE Mmu WITH
    Text <- {0}, RoAfterInit <- {1}, TrapPage <- 2, Vm <- {3, 4}, ScratchPage <- 5,
    FrameCount <- 6, MapFrames <- {0, 1}, PageSize <- 1, MaxLen <- 0, result <- mmu_result, None <- Nothing
CopyPart == INSTANCE Mmu WITH
    Text <- {0}, RoAfterInit <- {1}, TrapPage <- 2, Vm <- {3}, ScratchPage <- 4,
    FrameCount <- 5, MapFrames <- {0}, PageSize <- 2, MaxLen <- 5, result <- mmu_result, None <- Nothing

\* Every region in an address space of 16, and maps of several: regions in front
\* of, around, inside and behind the excluded ones, and beyond the end.
Available(a, l) == [addr |-> a, len |-> l, available |-> TRUE]
MemoryMaps ==
    {<< >>} \cup {<<Available(a, l)>> : a \in 0 .. 18, l \in 0 .. 18}
    \cup {<<Available(0, 1), [Available(1, 1) EXCEPT !.available = FALSE],
            Available(3, l), Available(16, 2)>> : l \in 0 .. 13}
Boot == INSTANCE BootInfo WITH
    M <- 16, PageSize <- 2, LowEnd <- 2, KernelBegin <- 4, KernelEnd <- 5,
    MemMaps <- MemoryMaps, Depths <- {1, 16}, live <- video

ASSUME Boot!BootInfoAssumption
ASSUME HeapPart!LayoutAssumption /\ HeapPart!RoomAssumption /\ HeapPart!UseAssumption
ASSUME VmmPart!VmmAssumption /\ VmmHeapPart!VmmAssumption
ASSUME MmuPart!MmuAssumption /\ CopyPart!MmuAssumption

heapVars == <<heap_pools, s_free_block_count, allocs, heap_failed, faulted>>
vmmVars == <<object_list, live, uncommited_objects, pt, frames, result, returned>>
bootVars == <<mmap, next, registered, overrun, console, video>>
mmuVars == <<pagetables, tlb, booted, mmu_result, access, refused, copy>>

MCInit ==
    /\ part \in {"boot", "pmm", "layout", "heap", "vmm", "vmm_heap", "mmu", "copy"}
    /\ Init
    /\ Boot!Init /\ (part # "boot" => mmap = << >>)
    /\ page_count \in (IF part = "layout" THEN 1 .. MaxPages ELSE {1})
    /\ HeapPart!Init
    /\ IF part = "vmm_heap" THEN VmmHeapPart!Init ELSE VmmPart!Init
    /\ IF part = "copy" THEN CopyPart!Init ELSE MmuPart!Init

BootStep ==
    part = "boot" /\ Boot!Next /\ UNCHANGED <<part, vars, page_count, heapVars, vmmVars, mmuVars>>
PmmStep ==
    part = "pmm" /\ Next /\ UNCHANGED <<part, bootVars, page_count, heapVars, vmmVars, mmuVars>>
HeapStep ==
    part = "heap" /\ HeapPart!Next /\ UNCHANGED <<part, bootVars, vars, page_count, vmmVars, mmuVars>>
VmmStep ==
    /\ \/ part = "vmm" /\ VmmPart!Next
       \/ part = "vmm_heap" /\ VmmHeapPart!Next
    /\ UNCHANGED <<part, bootVars, vars, page_count, heapVars, mmuVars>>
MmuStep ==
    /\ \/ part = "mmu" /\ MmuPart!Next
       \/ part = "copy" /\ CopyPart!Next
    /\ UNCHANGED <<part, bootVars, vars, page_count, heapVars, vmmVars>>

MCNext == BootStep \/ PmmStep \/ HeapStep \/ VmmStep \/ MmuStep

MCSpec == MCInit /\ [][MCNext]_<<part, bootVars, vars, page_count, heapVars, vmmVars, mmuVars>>

------------------------------------------------------------------------------
\* bootinfo.c, fb.c, fbtty.c: the page allocator gets every page of the available
\* memory once and none that is excluded, and a terminal becomes the primary
\* console only with all its buffers.
BootExact == part = "boot" => Boot!RegisteredExact /\ Boot!ConsoleBacked

\* pmm.c: a pool is the largest power of two of pages that fits in the region,
\* every block of every level has a bit of its own in the bitmaps, and a size
\* is looked for in the level whose blocks have that size.
LayoutExact ==
    part = "layout" => PoolFits(page_count) /\ BitsFitAndDiffer(page_count) /\ LevelHasSize(page_count)

\* heap.c: every block is free or in exactly one allocation, the counters agree
\* with the bitmaps, an allocation has room for what was asked for, header,
\* bitmap and blocks of a pool fit in its memory, and heap_alloc gives up only
\* if no pool has the blocks in a row.
HeapConsistent == part = "heap" => HeapPart!HeapConsistent

\* vmm.c: no call loses or duplicates address space, while the heap lasts, and
\* device pages are mapped to their frames in order; even when the heap runs out
\* a page of an object is waiting to be committed or mapped, never both, and a
\* page frame is free or mapped once.
MappingsExact ==
    /\ part = "vmm" => VmmPart!MappingsExact
    /\ part = "vmm_heap" => VmmHeapPart!MappingsExact

\* mmu.c, pstring.c: the TLB never allows what the tables do not, text and
\* read-only data stay write-protected, an access that the tables allow faults at
\* most once, as vmm_page_fault relies on, and a copy through the scratch page
\* touches exactly the bytes asked for.
TlbHarmless ==
    /\ part = "mmu" => MmuPart!TlbHarmless
    /\ part = "copy" => CopyPart!TlbHarmless
==============================================================================
