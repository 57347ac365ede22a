-------------------------------- MODULE Heap --------------------------------
(***************************************************************************)
(* The kernel heap, kernel/mem/heap.c: a list of pools, each an array of   *)
(* blocks with a bitmap, first fit.  All of it runs with interrupts        *)
(* disabled.  Memory sizes are in bytes of a small machine.                *)
(***************************************************************************)
EXTENDS Integers, Sequences, FiniteSets

CONSTANTS
  BLOCK_SIZE, ARCH_PAGESIZE,
  HeaderSize,     \* sizeof(struct pool_header)
  Overhead,       \* sizeof(struct alloc_header) + sizeof(POISONVALUES)
  MaxAlign,       \* alignof(max_align_t)
  WordSize,       \* sizeof(UINT)
  BitsPerWord,    \* the bits of a UINT
  InitialMemory,  \* sizeof(s_initial_heap_memory)
  Expansions,     \* the sizes of the objects heap_expand may get
  MaxPools,       \* bound on the calls of heap_expand
  Sizes,          \* what is asked for
  Flags           \* whether HEAP_FLAG_ZEROMEMORY may be given

LayoutAssumption ==
  /\ {BLOCK_SIZE, ARCH_PAGESIZE, MaxAlign, WordSize, BitsPerWord} \subseteq Nat \ {0}
  /\ {HeaderSize, Overhead, InitialMemory, MaxPools} \subseteq Nat
  /\ HeaderSize % MaxAlign = 0 /\ BLOCK_SIZE % MaxAlign = 0
  /\ ARCH_PAGESIZE % BLOCK_SIZE = 0
  /\ \A m \in Expansions \cup {InitialMemory} : m \in Nat /\ m >= ARCH_PAGESIZE
UseAssumption == Sizes \subseteq Nat /\ Flags \subseteq BOOLEAN

VARIABLES
  pools,              \* s_heap_pool_list
  s_free_block_count,
  allocs,             \* s_alloc_list
  failed,             \* the blocks of the last request that got nullptr, or 0
  faulted             \* vmemset was called with nullptr: the kernel stops
vars == <<pools, s_free_block_count, allocs, failed, faulted>>

Init ==
  /\ pools = << >>
  /\ s_free_block_count = 0
  /\ allocs = {}
  /\ failed = 0
  /\ faulted = FALSE

size_to_blocks(size, unit) == (size + unit - 1) \div unit

-----------------------------------------------------------------------------
(***************************************************************************)
(* add_mem: how many whole pages fit, and how many blocks after the pool   *)
(* header and the bitmap.                                                  *)
(***************************************************************************)
PageCount(memsize) == memsize \div ARCH_PAGESIZE
TotalBlocks(memsize) == size_to_blocks(PageCount(memsize) * ARCH_PAGESIZE, BLOCK_SIZE)
WordCount(memsize) == size_to_blocks(TotalBlocks(memsize), BitsPerWord)
BitmapSize(memsize) ==
  LET size == WordCount(memsize) * WordSize
  IN size + (MaxAlign - (size % MaxAlign))
PoolBlockCount(memsize) ==
  (TotalBlocks(memsize) * BLOCK_SIZE - BitmapSize(memsize) - HeaderSize) \div BLOCK_SIZE

\* add_mem subtracts without a check that header and bitmap leave something.
RoomAssumption ==
  \A m \in Expansions \cup {InitialMemory} :
    HeaderSize + BitmapSize(m) <= TotalBlocks(m) * BLOCK_SIZE

NewPool(memsize) ==
  [memsize |-> memsize,
   words |-> WordCount(memsize),
   start |-> HeaderSize + BitmapSize(memsize),
   block_count |-> PoolBlockCount(memsize),
   free |-> 0..(PoolBlockCount(memsize) - 1),
   used |-> 0]

heap_expand(memsize) ==
  /\ ~faulted
  /\ pools # << >>
  /\ Len(pools) < MaxPools
  /\ pools' = Append(pools, NewPool(memsize))
  /\ s_free_block_count' = s_free_block_count + PoolBlockCount(memsize)
  /\ failed' = 0
  /\ UNCHANGED <<allocs, faulted>>

-----------------------------------------------------------------------------
\* The pools when the allocation starts: the first one is made on demand.
InitialPools == IF pools = << >> THEN <<NewPool(InitialMemory)>> ELSE pools
InitialCount == IF pools = << >> THEN PoolBlockCount(InitialMemory) ELSE s_free_block_count

\* Fault: no room for the header and the poison values.
BlockCount_noOverhead(size) == size_to_blocks(size, BLOCK_SIZE)
BlockCount(size) == size_to_blocks(size + Overhead, BLOCK_SIZE)
Run(b, n) == b..(b + n - 1)
\* bitmap_find_set_bits: the first run of n free blocks.
FirstRun(p, n, b) ==
  /\ Run(b, n) \subseteq p.free /\ b \in p.free
  /\ \A c \in p.free : Run(c, n) \subseteq p.free => b <= c
HasRun(p, n) == \E b \in p.free : Run(b, n) \subseteq p.free

\* alloc_from_pool takes blocks b.. of pool i, of the pools ps.
Take(ps, i, b, n) == [ps EXCEPT ![i].free = @ \ Run(b, n), ![i].used = @ + n]

Enough(n) == n < InitialCount

\* The part of heap_alloc that finds memory: the first pool that has a run.
Allocated(size, i, b) ==
  LET n == BlockCount(size) IN
  /\ size # 0
  /\ Enough(n)
  /\ FirstRun(InitialPools[i], n, b)
  /\ \A j \in 1..(i - 1) : ~HasRun(InitialPools[j], n)
NotAllocated(size) ==
  \/ size = 0
  \/ ~Enough(BlockCount(size))
  \/ \A i \in DOMAIN InitialPools : ~HasRun(InitialPools[i], BlockCount(size))

heap_alloc(size, zero) ==
  /\ ~faulted
  /\ \/ \E i \in DOMAIN InitialPools : \E b \in InitialPools[i].free :
          /\ Allocated(size, i, b)
          /\ pools' = Take(InitialPools, i, b, BlockCount(size))
          /\ s_free_block_count' = InitialCount - BlockCount(size)
          /\ allocs' = allocs \cup
               {[pool |-> i, index |-> b, block_count |-> BlockCount(size), size |-> size]}
          /\ failed' = 0
          /\ UNCHANGED faulted
     \/ /\ NotAllocated(size)
        /\ pools' = IF size = 0 THEN pools ELSE InitialPools
        /\ s_free_block_count' = IF size = 0 THEN s_free_block_count ELSE InitialCount
        /\ failed' = IF size = 0 THEN 0 ELSE BlockCount(size)
        /\ faulted' = (zero /\ size # 0)
        /\ UNCHANGED allocs

Give(ps, a) ==
  [ps EXCEPT ![a.pool].free = @ \cup Run(a.index, a.block_count),
             ![a.pool].used = @ - a.block_count]

heap_free(a) ==
  /\ ~faulted
  /\ a \in allocs
  /\ pools' = Give(pools, a)
  /\ s_free_block_count' = s_free_block_count + a.block_count
  /\ allocs' = allocs \ {a}
  /\ failed' = 0
  /\ UNCHANGED faulted

\* heap_realloc of an allocation: new memory first, then the old is freed.
heap_realloc(a, size, zero) ==
  /\ ~faulted
  /\ a \in allocs
  /\ \/ \E i \in DOMAIN pools : \E b \in pools[i].free :
          /\ Allocated(size, i, b)
          /\ pools' = Give(Take(pools, i, b, BlockCount(size)), a)
          /\ s_free_block_count' = s_free_block_count - BlockCount(size) + a.block_count
          /\ allocs' = (allocs \ {a}) \cup
               {[pool |-> i, index |-> b, block_count |-> BlockCount(size), size |-> size]}
          /\ failed' = 0
          /\ UNCHANGED faulted
     \/ /\ NotAllocated(size)
        /\ failed' = IF size = 0 THEN 0 ELSE BlockCount(size)
        /\ faulted' = (zero /\ size # 0)
        /\ UNCHANGED <<pools, s_free_block_count, allocs>>

Next ==
  \/ \E size \in Sizes, zero \in Flags : heap_alloc(size, zero)
  \/ \E a \in allocs : heap_free(a)
  \/ \E a \in allocs, size \in Sizes, zero \in Flags : heap_realloc(a, size, zero)
  \/ \E memsize \in Expansions : heap_expand(memsize)

Spec == Init /\ [][Next]_vars

-----------------------------------------------------------------------------
(***************************************************************************)
(* Properties.                                                             *)
(***************************************************************************)
BlocksOf(a) == {<<a.pool, k>> : k \in Run(a.index, a.block_count)}
FreeBlocks == UNION {{<<i, k>> : k \in pools[i].free} : i \in DOMAIN pools}
AllBlocks == UNION {{<<i, k>> : k \in 0..(pools[i].block_count - 1)} : i \in DOMAIN pools}

\* Allocations share no block with each other or with free memory, and every
\* block is in one of them.
BlocksPartitioned ==
  /\ \A a, b \in allocs : a # b => BlocksOf(a) \cap BlocksOf(b) = {}
  /\ \A a \in allocs : BlocksOf(a) \cap FreeBlocks = {}
  /\ FreeBlocks \cup UNION {BlocksOf(a) : a \in allocs} = AllBlocks

\* The counters agree with the bitmaps, so that the assertion of
\* alloc_from_pool (block_count <= s_free_block_count) and the check of
\* heap_free (usedblock_count) hold.
CountersExact ==
  /\ s_free_block_count = Cardinality(FreeBlocks)
  /\ \A i \in DOMAIN pools : pools[i].used = pools[i].block_count - Cardinality(pools[i].free)

\* An allocation has room for what was asked for, with its header and the
\* poison values.
AllocationsLargeEnough ==
  \A a \in allocs : a.size + Overhead <= a.block_count * BLOCK_SIZE

\* add_mem: pool header, bitmap and blocks fit in the memory that was given,
\* the bitmap has a bit for every block, and the blocks are aligned.
PoolsFit ==
  \A i \in DOMAIN pools :
    /\ pools[i].block_count >= 0
    /\ pools[i].start + pools[i].block_count * BLOCK_SIZE <= pools[i].memsize
    /\ pools[i].block_count <= pools[i].words * BitsPerWord
    /\ HeaderSize + pools[i].words * WordSize <= pools[i].start
    /\ pools[i].start % MaxAlign = 0

\* heap_alloc gives up only if no pool has the blocks in a row, or if the
\* request would take every free block.
FailsOnlyWhenFull ==
  failed # 0 =>
    \/ \A i \in DOMAIN pools : ~HasRun(pools[i], failed)
    \/ failed >= s_free_block_count

\* heap.c: every block is free or in exactly one allocation, the counters agree
\* with the bitmaps, an allocation has room for what was asked for, header,
\* bitmap and blocks of a pool fit in its memory, and heap_alloc gives up only
\* if no pool has the blocks in a row.
HeapConsistent ==
  BlocksPartitioned /\ CountersExact /\ AllocationsLargeEnough /\ PoolsFit /\ FailsOnlyWhenFull

\* A caller that asks for zeroed memory and checks for nullptr, as
\* pmm_register_mem does ("unable to alloate metadata memory", pmm.c:355),
\* survives when there is none.
NullIsNotWritten == ~faulted
=============================================================================
