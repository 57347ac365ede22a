-------------------------------- MODULE Pmm --------------------------------
(***************************************************************************)
(* The physical page allocator, kernel/mem/pmm.c: a list of pools, each a  *)
(* buddy allocator over a power of two of pages.                           *)
(*                                                                         *)
(* A block is [size, index], in pages; size stands for the level of the    *)
(* code (how blocks become bits of a bitmap is below).  Addresses are page *)
(* numbers.  pmm_alloc and pmm_free run with interrupts disabled; each     *)
(* round of their loops is a step, during which op is not idle and nothing *)
(* else happens.                                                           *)
(***************************************************************************)
EXTENDS Integers, Sequences

CONSTANTS
  BlockSizes,  \* the powers of two, up to some bound
  Regions,     \* the memory map: what pmm_register_mem is called with
  Requests     \* the page counts callers ask for

\* Powers of two: half of one is one, and the next one is twice as large.
ASSUME BlockSizesAssumption ==
  /\ BlockSizes \subseteq Nat \ {0}
  /\ 1 \in BlockSizes
  /\ \A s \in BlockSizes : s # 1 => \E h \in BlockSizes : s = 2 * h
  /\ \A s, t \in BlockSizes : s < t => 2 * s \in BlockSizes /\ 2 * s <= t
\* The memory map: regions do not overlap, and page 0 is in none.
ASSUME RegionsAssumption ==
  /\ Regions \subseteq [base : Nat \ {0}, pages : Nat]
  /\ \A r, q \in Regions : r # q =>
       r.base + r.pages <= q.base \/ q.base + q.pages <= r.base
ASSUME RequestsAssumption == Requests \subseteq Nat \ {0}

VARIABLES
  pools,         \* the pool list, oldest first: the code searches from the end
  unregistered,  \* the regions pmm_register_mem has not been called for
  registering,   \* the rest of the region it is working on
  op,            \* the loop that is running
  given,         \* the blocks callers own, [ptr, size]
  failed         \* the request that was answered with nullptr last, or 0
vars == <<pools, unregistered, registering, op, given, failed>>

Blocks == [size : BlockSizes, index : Nat]
Idle == [kind |-> "idle"]

Init ==
  /\ pools = << >>
  /\ unregistered = Regions
  /\ registering = [base |-> 0, pages |-> 0]
  /\ op = Idle
  /\ given = {}
  /\ failed = 0

Ready == op = Idle /\ registering.pages = 0

-----------------------------------------------------------------------------
pmm_register_mem(r) ==
  /\ Ready
  /\ r \in unregistered
  /\ unregistered' = unregistered \ {r}
  /\ registering' = r
  /\ failed' = 0
  /\ UNCHANGED <<pools, op, given>>

\* calculate_pagepool_sizes: the largest power of two that is left.
PoolPageCount(s) ==
  /\ s <= registering.pages
  /\ \A t \in BlockSizes : t <= registering.pages => t <= s

\* A round of the loop of pmm_register_mem.  (If there is no memory for the
\* metadata the round is repeated with nothing changed.)
RegisterPool(s) ==
  /\ registering.pages # 0
  /\ PoolPageCount(s)
  /\ pools' = Append(pools, [base |-> registering.base, page_count |-> s,
                             avail |-> {[size |-> s, index |-> 0]}])
  /\ registering' = [base |-> registering.base + s, pages |-> registering.pages - s]
  /\ UNCHANGED <<unregistered, op, given, failed>>

-----------------------------------------------------------------------------
\* The page count, adjusted to the nearest power of two.
Rounded(n, s) == n <= s /\ \A t \in BlockSizes : n <= t => s <= t

\* alloc_from_pool finds block b of pool i: the first one of the highest
\* level that has one, starting from the level of size s.
Found(i, s, b) ==
  /\ b \in pools[i].avail
  /\ s <= b.size
  /\ \A c \in pools[i].avail : s <= c.size =>
       b.size < c.size \/ (b.size = c.size /\ b.index <= c.index)
CanServe(i, n) ==
  \E s \in BlockSizes : Rounded(n, s) /\ \E b \in pools[i].avail : s <= b.size

\* pmm_alloc: the newest pool that can serve the request does.
pmm_alloc(n) ==
  /\ Ready
  /\ \/ \E i \in DOMAIN pools, s \in BlockSizes :
          /\ Rounded(n, s)
          /\ \A j \in (i + 1)..Len(pools) : ~CanServe(j, n)
          /\ \E b \in pools[i].avail :
               /\ Found(i, s, b)
               /\ op' = [kind |-> "split", pool |-> i, block |-> b, wanted |-> s]
          /\ failed' = 0
     \/ /\ \A i \in DOMAIN pools : ~CanServe(i, n)
        /\ failed' = n
        /\ op' = Idle
  /\ UNCHANGED <<pools, unregistered, registering, given>>

First(b) == [size |-> b.size \div 2, index |-> 2 * b.index]
Second(b) == [size |-> b.size \div 2, index |-> 2 * b.index + 1]

\* Fault: the block that is split stays available.
SplitRound_notCleared ==
  /\ op.kind = "split"
  /\ op.wanted < op.block.size
  /\ pools' = [pools EXCEPT ![op.pool].avail = @ \cup {Second(op.block)}]
  /\ op' = [op EXCEPT !.block = First(op.block)]
  /\ UNCHANGED <<unregistered, registering, given, failed>>
SplitRound ==
  /\ op.kind = "split"
  /\ op.wanted < op.block.size
  /\ pools' = [pools EXCEPT ![op.pool].avail =
                 (@ \ {op.block}) \cup {Second(op.block)}]
  /\ op' = [op EXCEPT !.block = First(op.block)]
  /\ UNCHANGED <<unregistered, registering, given, failed>>

AllocDone ==
  /\ op.kind = "split"
  /\ op.wanted = op.block.size
  /\ pools' = [pools EXCEPT ![op.pool].avail = @ \ {op.block}]
  /\ given' = given \cup
       {[ptr |-> pools[op.pool].base + op.block.size * op.block.index,
         size |-> op.block.size]}
  /\ op' = Idle
  /\ UNCHANGED <<unregistered, registering, failed>>

-----------------------------------------------------------------------------
InPool(ptr, i) == pools[i].base <= ptr /\ ptr < pools[i].base + pools[i].page_count

\* pmm_free(ptr, n) by an owner: n is the count that was asked for, or the
\* one that was returned.  The checks that end in a panic are the subject of
\* FreeNeverPanics.
pmm_free(g, n) ==
  /\ Ready
  /\ g \in given
  /\ Rounded(n, g.size)
  /\ given' = given \ {g}
  /\ failed' = 0
  /\ \E i \in DOMAIN pools :
       /\ InPool(g.ptr, i)
       /\ \A j \in (i + 1)..Len(pools) : ~InPool(g.ptr, j)
       /\ op' = [kind |-> "merge", pool |-> i,
                 block |-> [size |-> g.size,
                            index |-> (g.ptr - pools[i].base) \div g.size]]
  /\ UNCHANGED <<pools, unregistered, registering>>

\* Fault: the block after it is taken for the neighbour of every block.
Neighbor_next(b) == [b EXCEPT !.index = b.index + 1]
Neighbor(b) == [b EXCEPT !.index = IF b.index % 2 = 0 THEN b.index + 1 ELSE b.index - 1]
CanMerge(p, b) == b.size # p.page_count /\ Neighbor(b) \in p.avail

MergeRound ==
  /\ op.kind = "merge"
  /\ CanMerge(pools[op.pool], op.block)
  /\ pools' = [pools EXCEPT ![op.pool].avail = @ \ {Neighbor(op.block)}]
  /\ op' = [op EXCEPT !.block = [size |-> 2 * @.size, index |-> @.index \div 2]]
  /\ UNCHANGED <<unregistered, registering, given, failed>>

\* Fault: the loop ends after the first block.
FreeDone_noMerge ==
  /\ op.kind = "merge"
  /\ pools' = [pools EXCEPT ![op.pool].avail = @ \cup {op.block}]
  /\ op' = Idle
  /\ UNCHANGED <<unregistered, registering, given, failed>>
FreeDone ==
  /\ op.kind = "merge"
  /\ ~CanMerge(pools[op.pool], op.block)
  /\ pools' = [pools EXCEPT ![op.pool].avail = @ \cup {op.block}]
  /\ op' = Idle
  /\ UNCHANGED <<unregistered, registering, given, failed>>

Next ==
  \/ \E r \in Regions : pmm_register_mem(r)
  \/ \E s \in BlockSizes : RegisterPool(s)
  \/ \E n \in Requests : pmm_alloc(n)
  \/ SplitRound
  \/ AllocDone
  \/ \E g \in given, n \in Requests \cup BlockSizes : pmm_free(g, n)
  \/ MergeRound
  \/ FreeDone

Spec == Init /\ [][Next]_vars

-----------------------------------------------------------------------------
(***************************************************************************)
(* The layout of a pool's bitmap.                                          *)
(***************************************************************************)
\* Fault: the loop runs once more.
calculate_pagepool_sizes_extra(page_count) ==
  LET loop[n \in Nat] ==
        IF 0 < n
        THEN LET rest == loop[n \div 2]
             IN  [page_count |-> 2 * rest.page_count, level_count |-> 1 + rest.level_count,
                  bit_count |-> n + rest.bit_count]
        ELSE [page_count |-> 1, level_count |-> 1, bit_count |-> 1]
  IN  loop[page_count]
\* n is current_page_count; what the rounds from there on multiply and add.
calculate_pagepool_sizes(page_count) ==
  LET loop[n \in Nat] ==
        IF 1 < n
        THEN LET rest == loop[n \div 2]
             IN  [page_count |-> 2 * rest.page_count, level_count |-> 1 + rest.level_count,
                  bit_count |-> n + rest.bit_count]
        ELSE [page_count |-> 1, level_count |-> 1, bit_count |-> 1]
  IN  loop[page_count]

\* bit_indices_range_for_level: the first bit of a level.
LevelStart(level) ==
  LET start[l \in Nat] == IF l = 0 THEN 0 ELSE start[l - 1] + 2^(l - 1)
  IN  start[level]
bit_index_for_pagepool_block(level, block) == LevelStart(level) + block

\* Halve the pool until it is as small as size.
block_size_to_pagepool_level(page_count, size) ==
  LET level[s \in Nat] == IF size < s THEN 1 + level[s \div 2] ELSE 0
  IN  level[page_count]

BlocksOf(level) == 0..(2^level - 1)
Levels(page_count) == 0..(calculate_pagepool_sizes(page_count).level_count - 1)

-----------------------------------------------------------------------------
(***************************************************************************)
(* Properties.                                                             *)
(***************************************************************************)
TypeOK ==
  /\ pools \in Seq([base : Nat, page_count : BlockSizes, avail : SUBSET Blocks])
  /\ unregistered \subseteq Regions
  /\ registering \in [base : Nat, pages : Nat]
  /\ op \in {Idle}
       \cup [kind : {"split"}, pool : DOMAIN pools, block : Blocks, wanted : BlockSizes]
       \cup [kind : {"merge"}, pool : DOMAIN pools, block : Blocks]
  /\ given \subseteq [ptr : Nat, size : BlockSizes]
  /\ failed \in Nat

Pages(first, n) == first..(first + n - 1)
PoolPages(p) == Pages(p.base, p.page_count)
BlockPages(p, b) == Pages(p.base + b.size * b.index, b.size)

\* The block a running loop holds is in no list.
InHand(i) == IF op # Idle /\ op.pool = i THEN {op.block} ELSE {}
FreeBlocks(i) == pools[i].avail \cup InHand(i)

\* The memory of two owners, or of an owner and a free block, or of two free
\* blocks never overlaps, however blocks are split and merged.
NoOverlap ==
  /\ \A g, h \in given : g # h => Pages(g.ptr, g.size) \cap Pages(h.ptr, h.size) = {}
  /\ \A i \in DOMAIN pools : \A b, c \in FreeBlocks(i) :
       b # c => BlockPages(pools[i], b) \cap BlockPages(pools[i], c) = {}
  /\ \A i \in DOMAIN pools : \A b \in FreeBlocks(i), g \in given :
       BlockPages(pools[i], b) \cap Pages(g.ptr, g.size) = {}

\* No page is ever lost: every page of a pool is owned or in a free block.
NothingLost ==
  \A i \in DOMAIN pools : \A x \in PoolPages(pools[i]) :
    \/ \E g \in given : x \in Pages(g.ptr, g.size)
    \/ \E b \in FreeBlocks(i) : x \in BlockPages(pools[i], b)

\* The pools are disjoint parts of the memory map, so that pmm_free finds the
\* one its block is from.
PoolsInMemoryMap ==
  /\ \A i, j \in DOMAIN pools : i # j => PoolPages(pools[i]) \cap PoolPages(pools[j]) = {}
  /\ \A i \in DOMAIN pools : \E r \in Regions : PoolPages(pools[i]) \subseteq Pages(r.base, r.pages)

\* Every page of the memory map that was made available has one owner or is in
\* one free block.
PagesPartitioned == TypeOK /\ NoOverlap /\ NothingLost /\ PoolsInMemoryMap

\* pmm_free and free_from_pool end in a panic if the block is not inside one
\* pool ("bad pointer", "bad free"), does not start where a block of its size
\* does, or is available already ("double free detected").  An owner that
\* frees what it was given never gets there.
FreeNeverPanics ==
  /\ \A g \in given : \E i \in DOMAIN pools :
       /\ InPool(g.ptr, i)
       /\ \A j \in (i + 1)..Len(pools) : ~InPool(g.ptr, j)
       /\ g.ptr + g.size <= pools[i].base + pools[i].page_count
       /\ (g.ptr - pools[i].base) % g.size = 0
  /\ op # Idle /\ op.kind = "merge" => op.block \notin pools[op.pool].avail

\* free_from_pool merges as far as it can: when no loop runs, a free block
\* and its neighbour are never both available.
FullyMerged ==
  \A i \in DOMAIN pools : \A b \in pools[i].avail :
    b.size # pools[i].page_count => Neighbor(b) \notin pools[i].avail

\* pmm_alloc answers nullptr only if no pool has a place for the request: no
\* run of free pages that starts at a multiple of the rounded size.
FailsOnlyWhenFull ==
  failed # 0 =>
    \A i \in DOMAIN pools, s \in BlockSizes :
      Rounded(failed, s) =>
        \A k \in 0..((pools[i].page_count \div s) - 1) :
          \E g \in given :
            Pages(pools[i].base + k * s, s) \cap Pages(g.ptr, g.size) # {}

\* pmm.c: memory that is free can be had, blocks being merged as far as possible,
\* and an owner that frees what it was given never panics.
FreeMemoryServed == FreeNeverPanics /\ FullyMerged /\ FailsOnlyWhenFull

\* The pool is the largest power of two of pages that fits, so that
\* pmm_register_mem never registers memory it was not given, and always more
\* than half of what is left.
PoolFits(n) ==
  LET sizes == calculate_pagepool_sizes(n)
  IN  /\ sizes.page_count <= n /\ n < 2 * sizes.page_count
      /\ sizes.page_count = 2^(sizes.level_count - 1)

\* Every block of every level has a bit of its own, in the memory that was
\* allocated for the bitmap, and no level reaches into the next one.
BitsFitAndDiffer(n) ==
  \A l, m \in Levels(n) : \A x \in BlocksOf(l) :
    /\ bit_index_for_pagepool_block(l, x) \in 0..(calculate_pagepool_sizes(n).bit_count - 1)
    /\ l < m => bit_index_for_pagepool_block(l, x) < bit_index_for_pagepool_block(m, 0)

\* A power of two of pages is looked for in the level whose blocks have that
\* size.
LevelHasSize(n) ==
  LET sizes == calculate_pagepool_sizes(n)
  IN  \A l \in Levels(n) :
        block_size_to_pagepool_level(sizes.page_count, 2^l) = sizes.level_count - 1 - l
=============================================================================
