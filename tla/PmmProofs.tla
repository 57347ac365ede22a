----------------------------- MODULE PmmProofs -----------------------------
(***************************************************************************)
(* Proofs about the physical page allocator, for every memory map and      *)
(* every sequence of requests: pages have one owner, nothing is lost,      *)
(* an owner can free what it has, and a request fails only if no pool has  *)
(* a place for it.                                                         *)
(***************************************************************************)
EXTENDS Pmm, ListLemmas

\* What a leaf that names no prover is tried with, in turn.
USE SMTT(10), Zenon, SMTT(30)

(***************************************************************************)
(* The inductive invariant.  Ranges of pages are compared by their ends.   *)
(***************************************************************************)
Apart(a, n, b, m) == a + n <= b \/ b + m <= a
Within(a, n, b, m) == b <= a /\ a + n <= b + m
Offset(b) == b.size * b.index

\* The pools, and the range that is being registered, are disjoint parts of
\* regions that pmm_register_mem was called for.
PoolsPlaced ==
  /\ \A i \in DOMAIN pools : \E r \in Regions \ unregistered :
       Within(pools[i].base, pools[i].page_count, r.base, r.pages)
  /\ \A i, j \in DOMAIN pools : i # j =>
       Apart(pools[i].base, pools[i].page_count, pools[j].base, pools[j].page_count)
RestPlaced ==
  registering.pages # 0 =>
    /\ \E r \in Regions \ unregistered :
         Within(registering.base, registering.pages, r.base, r.pages)
    /\ \A i \in DOMAIN pools :
         Apart(pools[i].base, pools[i].page_count, registering.base, registering.pages)

\* Free blocks are inside their pool, and apart from each other.
FreePlaced ==
  \A i \in DOMAIN pools :
    /\ \A b \in FreeBlocks(i) : Offset(b) + b.size <= pools[i].page_count
    /\ \A b, c \in FreeBlocks(i) : b # c => Apart(Offset(b), b.size, Offset(c), c.size)

\* What callers own was a block of a pool, and is apart from everything else.
GivenPlaced ==
  /\ \A g \in given : \E i \in DOMAIN pools :
       /\ Within(g.ptr, g.size, pools[i].base, pools[i].page_count)
       /\ (g.ptr - pools[i].base) % g.size = 0
  /\ \A g, h \in given : g # h => Apart(g.ptr, g.size, h.ptr, h.size)
  /\ \A i \in DOMAIN pools : \A b \in FreeBlocks(i), g \in given :
       Apart(pools[i].base + Offset(b), b.size, g.ptr, g.size)

\* The block in hand: large enough while it is split, in no list while it is
\* merged.
HandSound ==
  /\ op # Idle => registering.pages = 0 /\ failed = 0
  /\ op # Idle /\ op.kind = "split" => op.wanted <= op.block.size
  /\ op # Idle /\ op.kind = "merge" => op.block \notin pools[op.pool].avail

\* A failure is remembered only until something changes.
FailedSound ==
  failed # 0 => registering.pages = 0 /\ \A i \in DOMAIN pools : ~CanServe(i, failed)

IInv ==
  /\ TypeOK
  /\ PoolsPlaced
  /\ RestPlaced
  /\ FreePlaced
  /\ GivenPlaced
  /\ NothingLost
  /\ HandSound
  /\ FailedSound
  /\ FullyMerged
-----------------------------------------------------------------------------
\* Multiples of a positive number keep their order.
LEMMA MulLess ==
  ASSUME NEW s \in Nat \ {0}, NEW k \in Int, NEW q \in Int, s * k < s * q
  PROVE  k + 1 <= q /\ s * k + s <= s * q
<1>1. k + 1 <= q OBVIOUS
<1>2. s * (k + 1) <= s * q BY <1>1
<1>3. s * (k + 1) = s * k + s OBVIOUS
<1> QED BY <1>1, <1>2, <1>3

\* Of two powers of two the larger is a multiple of the smaller.
LEMMA Divides ==
  ASSUME NEW s \in BlockSizes, NEW t \in BlockSizes, s <= t
  PROVE  \E m \in Nat : t = s * m
<1> DEFINE T == {u \in BlockSizes : s <= u /\ ~ \E m \in Nat : u = s * m}
<1>1. SUFFICES ASSUME T # {} PROVE FALSE
  OBVIOUS
<1>2. T \in SUBSET Nat
  BY BlockSizesAssumption, Zenon
<1>3. PICK u \in T : \A y \in T : u <= y
  BY <1>1, <1>2, NatMin, Zenon
<1>4. s \in Nat \ {0} /\ u \in Nat \ {0}
  BY BlockSizesAssumption
<1>5. u # s
  <2>1. s = s * 1 BY <1>4
  <2> QED BY <2>1
<1>6. s < u
  BY <1>4, <1>5
<1>7. PICK h \in BlockSizes : u = 2 * h
  BY <1>4, <1>6, BlockSizesAssumption
<1>8. 2 * s <= u
  BY <1>6, BlockSizesAssumption
<1>9. h \in Nat \ {0} /\ s <= h /\ h < u
  BY <1>4, <1>7, <1>8, BlockSizesAssumption
<1>10. h \notin T
  BY <1>3, <1>9, <1>4
<1>11. PICK m \in Nat : h = s * m
  BY <1>9, <1>10
<1>12. u = s * (2 * m)
  BY <1>4, <1>7, <1>11
<1> QED BY <1>12
-----------------------------------------------------------------------------
(***************************************************************************)
(* Blocks.                                                                 *)
(***************************************************************************)
\* A block starts at a natural number of pages, and has at least one.
LEMMA BlockFacts ==
  ASSUME NEW b \in Blocks
  PROVE  /\ b.size \in Nat \ {0}
         /\ b.size \in BlockSizes
         /\ b.index \in Nat
         /\ Offset(b) \in Nat
         /\ b = [size |-> b.size, index |-> b.index]
<1>1. b.size \in BlockSizes /\ b.index \in Nat /\ b = [size |-> b.size, index |-> b.index]
  BY DEF Blocks
<1>2. b.size \in Nat \ {0}
  BY <1>1, BlockSizesAssumption
<1>3. Offset(b) \in Nat
  BY <1>1, <1>2 DEF Offset
<1> QED BY <1>1, <1>2, <1>3

\* Splitting: the two halves of a block cover it.
LEMMA Halves ==
  ASSUME NEW b \in Blocks, b.size # 1
  PROVE  /\ First(b) \in Blocks /\ Second(b) \in Blocks
         /\ First(b) # Second(b) /\ First(b) # b /\ Second(b) # b
         /\ First(b).size = Second(b).size
         /\ b.size = 2 * First(b).size
         /\ Offset(First(b)) = Offset(b)
         /\ Offset(Second(b)) = Offset(b) + First(b).size
         /\ Neighbor(First(b)) = Second(b)
         /\ Neighbor(Second(b)) = First(b)
<1>1. b.size \in Nat \ {0} /\ b.size \in BlockSizes /\ b.index \in Nat
  BY BlockFacts
<1>2. PICK h \in BlockSizes : b.size = 2 * h
  BY <1>1, BlockSizesAssumption, Zenon
<1>3. h \in Nat \ {0} /\ b.size \div 2 = h
  BY <1>2, BlockSizesAssumption
<1>4. First(b) = [size |-> h, index |-> 2 * b.index]
  BY <1>3 DEF First
<1>5. Second(b) = [size |-> h, index |-> 2 * b.index + 1]
  BY <1>3 DEF Second
<1>6. First(b) \in Blocks /\ Second(b) \in Blocks
  BY <1>1, <1>4, <1>5 DEF Blocks
<1>7. First(b) # Second(b) /\ First(b) # b /\ Second(b) # b
  <2>1. First(b).index # Second(b).index
    BY <1>1, <1>4, <1>5
  <2>2. First(b).size # b.size /\ Second(b).size # b.size
    BY <1>2, <1>3, <1>4, <1>5
  <2> QED BY <2>1, <2>2
<1>8. Offset(First(b)) = Offset(b)
  BY <1>1, <1>2, <1>3, <1>4 DEF Offset
<1>9. Offset(Second(b)) = Offset(b) + First(b).size
  <2>1. h * (2 * b.index + 1) = (2 * h) * b.index + h
    BY <1>1, <1>3
  <2> QED BY <2>1, <1>2, <1>4, <1>5 DEF Offset
<1>10. (2 * b.index) % 2 = 0 /\ (2 * b.index + 1) % 2 = 1
  BY <1>1
<1>11. Neighbor(First(b)) = Second(b)
  BY <1>1, <1>4, <1>5, <1>10 DEF Neighbor
<1>12. Neighbor(Second(b)) = First(b)
  BY <1>1, <1>4, <1>5, <1>10 DEF Neighbor
<1> QED BY <1>2, <1>4, <1>5, <1>6, <1>7, <1>8, <1>9, <1>11, <1>12

\* The neighbour of a block written as a record.
LEMMA NeighborForm ==
  ASSUME NEW s, NEW k
  PROVE  Neighbor([size |-> s, index |-> k])
           = [size |-> s, index |-> IF k % 2 = 0 THEN k + 1 ELSE k - 1]
BY DEF Neighbor

\* The neighbour of a block is the one after or before it, and the block is
\* the neighbour of its neighbour.
LEMMA NeighborFacts ==
  ASSUME NEW b \in Blocks
  PROVE  /\ Neighbor(b) \in Blocks
         /\ Neighbor(b) # b
         /\ Neighbor(b).size = b.size
         /\ Neighbor(Neighbor(b)) = b
<1>1. b.size \in BlockSizes /\ b.index \in Nat /\ b = [size |-> b.size, index |-> b.index]
  BY BlockFacts
<1>2. Neighbor(b) = [size |-> b.size,
                     index |-> IF b.index % 2 = 0 THEN b.index + 1 ELSE b.index - 1]
  BY <1>1, NeighborForm, Zenon
<1>3. CASE b.index % 2 = 0
  <2>1. Neighbor(b) = [size |-> b.size, index |-> b.index + 1]
    BY <1>2, <1>3
  <2>2. (b.index + 1) % 2 = 1 /\ (b.index + 1) - 1 = b.index
    BY <1>1, <1>3
  <2>3. Neighbor(Neighbor(b)) = [size |-> b.size, index |-> (b.index + 1) - 1]
    BY <2>1, <2>2, NeighborForm
  <2> QED BY <1>1, <2>1, <2>2, <2>3 DEF Blocks
<1>4. CASE b.index % 2 # 0
  <2>1. Neighbor(b) = [size |-> b.size, index |-> b.index - 1]
    BY <1>2, <1>4
  <2>2. (b.index - 1) % 2 = 0 /\ (b.index - 1) + 1 = b.index /\ b.index - 1 \in Nat
    BY <1>1, <1>4
  <2>3. Neighbor(Neighbor(b)) = [size |-> b.size, index |-> (b.index - 1) + 1]
    BY <2>1, <2>2, NeighborForm
  <2> QED BY <1>1, <2>1, <2>2, <2>3 DEF Blocks
<1> QED BY <1>3, <1>4

Merged(b) == [size |-> 2 * b.size, index |-> b.index \div 2]

\* Merging: the block with its neighbour.
LEMMA MergedFacts ==
  ASSUME NEW b \in Blocks, 2 * b.size \in BlockSizes
  PROVE  /\ Merged(b) \in Blocks
         /\ Merged(b).size = 2 * b.size
         /\ \/ Offset(Merged(b)) = Offset(b) /\ Offset(Neighbor(b)) = Offset(b) + b.size
            \/ /\ Offset(Merged(b)) = Offset(Neighbor(b))
               /\ Offset(b) = Offset(Neighbor(b)) + b.size
<1>1. b.size \in Nat \ {0} /\ b.index \in Nat /\ b = [size |-> b.size, index |-> b.index]
  BY BlockFacts
<1> DEFINE k == b.index \div 2
<1>2. k \in Nat /\ (b.index = 2 * k \/ b.index = 2 * k + 1)
  BY <1>1
<1>3. (2 * b.size) * k = b.size * (2 * k) /\ b.size * (2 * k + 1) = b.size * (2 * k) + b.size
  BY <1>1, <1>2
<1>4. Merged(b) \in Blocks /\ Merged(b).size = 2 * b.size /\ Offset(Merged(b)) = b.size * (2 * k)
  BY <1>2, <1>3 DEF Merged, Blocks, Offset
<1> HIDE DEF k
<1>5. CASE b.index = 2 * k
  <2>1. Neighbor(b) = [size |-> b.size, index |-> 2 * k + 1]
    BY <1>1, <1>2, <1>5 DEF Neighbor
  <2> QED BY <1>3, <1>4, <1>5, <2>1 DEF Offset
<1>6. CASE b.index = 2 * k + 1
  <2>1. Neighbor(b) = [size |-> b.size, index |-> 2 * k]
    BY <1>1, <1>2, <1>6 DEF Neighbor
  <2> QED BY <1>3, <1>4, <1>6, <2>1 DEF Offset
<1> QED BY <1>2, <1>4, <1>5, <1>6

\* Two blocks of a pool that share a page: the larger one contains the other.
LEMMA Nested ==
  ASSUME NEW b \in Blocks, NEW c \in Blocks, b.size <= c.size,
         ~Apart(Offset(b), b.size, Offset(c), c.size)
  PROVE  Within(Offset(b), b.size, Offset(c), c.size)
<1>1. PICK m \in Nat : c.size = b.size * m
  BY BlockFacts, Divides
<1> DEFINE s == b.size
           k == b.index
           q == m * c.index
<1>2. s \in Nat \ {0} /\ k \in Nat /\ q \in Nat /\ c.index \in Nat
  BY BlockFacts
<1>3. Offset(b) = s * k
  BY DEF Offset
<1>4. Offset(c) = s * q
  <2>1. (s * m) * c.index = s * (m * c.index)
    BY <1>2
  <2> QED BY <1>1, <2>1 DEF Offset
<1> HIDE DEF s, k, q
<1>5. s * q + s * m = s * (q + m) /\ s * k + s = s * (k + 1)
  BY <1>2
<1>6. s * q < s * (k + 1) /\ s * k < s * (q + m)
  BY <1>1, <1>2, <1>3, <1>4, <1>5 DEF Apart, s
<1>7. q + 1 <= k + 1 /\ k + 1 <= q + m
  BY <1>2, <1>6, MulLess
<1>8. s * q <= s * k /\ s * (k + 1) <= s * (q + m)
  BY <1>2, <1>7
<1> QED BY <1>1, <1>2, <1>3, <1>4, <1>5, <1>8 DEF Within, s

-----------------------------------------------------------------------------
(***************************************************************************)
(* Facts about one state.                                                  *)
(***************************************************************************)
\* What TypeOK says of the pools and of the running loop.
LEMMA PoolFacts ==
  ASSUME TypeOK, NEW i \in DOMAIN pools
  PROVE  /\ i \in 1..Len(pools)
         /\ pools[i] \in [base : Nat, page_count : BlockSizes, avail : SUBSET Blocks]
         /\ pools[i].base \in Nat
         /\ pools[i].page_count \in Nat \ {0}
         /\ pools[i].page_count \in BlockSizes
         /\ pools[i].avail \subseteq Blocks
<1>1. i \in 1..Len(pools)
  BY DEF TypeOK
<1>2. pools[i] \in [base : Nat, page_count : BlockSizes, avail : SUBSET Blocks]
  BY <1>1, ElementOfSeq, Zenon DEF TypeOK
<1> QED BY <1>1, <1>2, BlockSizesAssumption, Zenon

\* The block in hand in the split and the merge loop.
LEMMA HandFacts ==
  ASSUME TypeOK
  PROVE  /\ op = Idle => op.kind = "idle"
         /\ op.kind = "split" =>
              /\ op # Idle
              /\ op.pool \in DOMAIN pools /\ op.block \in Blocks /\ op.wanted \in BlockSizes
              /\ op \in [kind : {"split"}, pool : DOMAIN pools, block : Blocks,
                        wanted : BlockSizes]
         /\ op.kind = "merge" =>
              /\ op # Idle
              /\ op.pool \in DOMAIN pools /\ op.block \in Blocks
              /\ op \in [kind : {"merge"}, pool : DOMAIN pools, block : Blocks]
         /\ op # Idle => op.pool \in DOMAIN pools /\ op.block \in Blocks
<1>1. CASE op = Idle
  BY <1>1 DEF Idle
<1>2. CASE op \in [kind : {"split"}, pool : DOMAIN pools, block : Blocks, wanted : BlockSizes]
  BY <1>2 DEF Idle
<1>3. CASE op \in [kind : {"merge"}, pool : DOMAIN pools, block : Blocks]
  BY <1>3 DEF Idle
<1> QED BY <1>1, <1>2, <1>3 DEF TypeOK

\* The free blocks are those of the bitmaps and the one in hand.
LEMMA FreeBlocksFacts ==
  ASSUME TypeOK, NEW i \in DOMAIN pools
  PROVE  FreeBlocks(i) \subseteq Blocks /\ pools[i].avail \subseteq FreeBlocks(i)
BY PoolFacts, HandFacts DEF FreeBlocks, InHand

\* Outside the loops nothing is in hand.
LEMMA FreeBlocksIdle ==
  ASSUME op = Idle, NEW i
  PROVE  FreeBlocks(i) = pools[i].avail
BY DEF FreeBlocks, InHand

\* What was given has a size of the allocator.
LEMMA GivenFacts ==
  ASSUME TypeOK, NEW g \in given
  PROVE  g.ptr \in Nat /\ g.size \in Nat \ {0} /\ g.size \in BlockSizes
BY BlockSizesAssumption, Zenon DEF TypeOK

-----------------------------------------------------------------------------
(***************************************************************************)
(* The invariant is preserved, action by action.                           *)
(***************************************************************************)
LEMMA InitIInv == Init => IInv
<1> SUFFICES ASSUME Init PROVE IInv
  OBVIOUS
<1>1. pools = << >> /\ DOMAIN pools = {}
  BY EmptySeq DEF Init
<1>2. TypeOK
  <2>1. pools \in Seq([base : Nat, page_count : BlockSizes, avail : SUBSET Blocks])
    BY <1>1
  <2> QED BY <2>1 DEF Init, TypeOK
<1>3. PoolsPlaced /\ FreePlaced /\ NothingLost /\ FullyMerged
  BY <1>1 DEF PoolsPlaced, FreePlaced, NothingLost, FullyMerged
<1>4. RestPlaced /\ GivenPlaced /\ HandSound /\ FailedSound
  BY <1>1 DEF Init, RestPlaced, GivenPlaced, HandSound, FailedSound
<1> QED BY <1>2, <1>3, <1>4 DEF IInv

\* What is said of the blocks depends on pools, op and given alone.
LEMMA BlocksUnchanged ==
  ASSUME IInv, UNCHANGED <<pools, op, given>>
  PROVE  FreePlaced' /\ GivenPlaced' /\ NothingLost' /\ FullyMerged'
<1>1. \A i : FreeBlocks(i)' = FreeBlocks(i)
  BY DEF FreeBlocks, InHand
<1>2. FreePlaced'
  BY <1>1 DEF IInv, FreePlaced
<1>3. GivenPlaced'
  BY <1>1 DEF IInv, GivenPlaced
<1>4. NothingLost'
  BY <1>1 DEF IInv, NothingLost
<1>5. FullyMerged'
  BY DEF IInv, FullyMerged
<1> QED BY <1>2, <1>3, <1>4, <1>5

\* pmm_register_mem cuts a region off what is not registered.
LEMMA StepRegisterMem ==
  ASSUME IInv, NEW r \in Regions, pmm_register_mem(r)
  PROVE  IInv'
<1>1. UNCHANGED <<pools, op, given>> /\ op = Idle
  BY DEF pmm_register_mem, Ready
<1>2. r \in unregistered /\ unregistered' = unregistered \ {r} /\ registering' = r /\ failed' = 0
  BY DEF pmm_register_mem
<1>3. r \in [base : Nat, pages : Nat] /\ r \in Regions \ unregistered'
  BY <1>2, RegionsAssumption
<1>4. TypeOK'
  BY <1>1, <1>2, <1>3 DEF IInv, TypeOK
<1>5. PoolsPlaced'
  BY <1>1, <1>2 DEF IInv, PoolsPlaced
<1>6. RestPlaced'
  <2>1. Within(registering'.base, registering'.pages, r.base, r.pages)
    BY <1>2, <1>3 DEF Within
  <2>2. ASSUME NEW i \in DOMAIN pools
        PROVE  Apart(pools[i].base, pools[i].page_count, r.base, r.pages)
    <3>1. PICK q \in Regions \ unregistered :
            Within(pools[i].base, pools[i].page_count, q.base, q.pages)
      BY DEF IInv, PoolsPlaced
    <3>2. q # r /\ q.base \in Nat /\ q.pages \in Nat /\ r.base \in Nat /\ r.pages \in Nat
      BY <1>2, RegionsAssumption
    <3>3. q.base + q.pages <= r.base \/ r.base + r.pages <= q.base
      BY <3>2, RegionsAssumption
    <3>4. pools[i].base \in Nat /\ pools[i].page_count \in Nat
      BY PoolFacts DEF IInv
    <3> QED BY <3>1, <3>2, <3>3, <3>4 DEF Within, Apart
  <2> QED BY <1>1, <1>2, <1>3, <2>1, <2>2 DEF RestPlaced
<1>7. FreePlaced' /\ GivenPlaced' /\ NothingLost' /\ FullyMerged'
  BY <1>1, BlocksUnchanged
<1>8. HandSound' /\ FailedSound'
  BY <1>1, <1>2 DEF HandSound, FailedSound
<1> QED BY <1>4, <1>5, <1>6, <1>7, <1>8 DEF IInv

\* pmm_alloc takes a block out of its bitmap, or fails.
LEMMA StepAlloc ==
  ASSUME IInv, NEW n \in Requests, pmm_alloc(n)
  PROVE  IInv'
<1>1. UNCHANGED <<pools, unregistered, registering, given>> /\ op = Idle /\ registering.pages = 0
  BY DEF pmm_alloc, Ready
<1>2. PoolsPlaced' /\ RestPlaced' /\ FullyMerged'
  BY <1>1 DEF IInv, PoolsPlaced, RestPlaced, FullyMerged
<1>3. CASE failed' = n /\ op' = Idle /\ \A i \in DOMAIN pools : ~CanServe(i, n)
  <2>1. TypeOK'
    BY <1>1, <1>3, RequestsAssumption DEF IInv, TypeOK
  <2>2. HandSound' /\ FailedSound'
    BY <1>1, <1>3 DEF HandSound, FailedSound, CanServe
  <2>3. FreePlaced' /\ GivenPlaced' /\ NothingLost'
    BY <1>1, <1>3, BlocksUnchanged
  <2> QED BY <1>2, <2>1, <2>2, <2>3 DEF IInv
<1>4. ASSUME NEW i \in DOMAIN pools, NEW s \in BlockSizes, NEW b \in pools[i].avail,
             Found(i, s, b), failed' = 0,
             op' = [kind |-> "split", pool |-> i, block |-> b, wanted |-> s]
      PROVE  IInv'
  <2>1. b \in Blocks /\ s <= b.size
    BY <1>4, PoolFacts DEF IInv, Found
  <2>2. TypeOK'
    BY <1>1, <1>4, <2>1 DEF IInv, TypeOK
  <2>3. op' # Idle /\ op'.pool = i /\ op'.block = b /\ op'.wanted = s /\ op'.kind = "split"
    BY <1>4 DEF Idle
  <2>4. HandSound' /\ FailedSound'
    BY <1>1, <1>4, <2>1, <2>3 DEF HandSound, FailedSound
  <2>5. \A j : FreeBlocks(j)' = FreeBlocks(j)
    BY <1>1, <2>3 DEF FreeBlocks, InHand
  <2>6. FreePlaced' /\ GivenPlaced' /\ NothingLost'
    BY <1>1, <2>5 DEF IInv, FreePlaced, GivenPlaced, NothingLost
  <2> QED BY <1>2, <2>2, <2>4, <2>6 DEF IInv
<1> QED BY <1>3, <1>4 DEF pmm_alloc

\* A round of the loop of pmm_register_mem: the new pool is one free block.
LEMMA StepRegisterPool ==
  ASSUME IInv, NEW s \in BlockSizes, RegisterPool(s)
  PROVE  IInv'
<1> DEFINE B == [size |-> s, index |-> 0]
           P == [base |-> registering.base, page_count |-> s, avail |-> {B}]
           N == Len(pools) + 1
<1>1. registering.pages # 0 /\ s <= registering.pages /\ pools' = Append(pools, P)
      /\ registering' = [base |-> registering.base + s, pages |-> registering.pages - s]
      /\ UNCHANGED <<unregistered, op, given, failed>>
  BY DEF RegisterPool, PoolPageCount
<1>2. op = Idle /\ op' = Idle /\ failed = 0 /\ failed' = 0
  BY <1>1 DEF IInv, HandSound, FailedSound
<1>3. s \in Nat \ {0} /\ registering.base \in Nat /\ registering.pages \in Nat
  BY BlockSizesAssumption DEF IInv, TypeOK
<1>4. B \in Blocks /\ Offset(B) = 0 /\ B.size = s
  BY <1>3 DEF Blocks, Offset
<1>5. P \in [base : Nat, page_count : BlockSizes, avail : SUBSET Blocks]
  BY <1>3, <1>4
<1>6. /\ pools' \in Seq([base : Nat, page_count : BlockSizes, avail : SUBSET Blocks])
      /\ DOMAIN pools = 1..Len(pools) /\ DOMAIN pools' = 1..N /\ Len(pools) \in Nat
      /\ \A i \in DOMAIN pools : i \in DOMAIN pools' /\ pools'[i] = pools[i] /\ i # N
      /\ pools'[N] = P /\ N \in DOMAIN pools'
      /\ \A i \in DOMAIN pools' : i \in DOMAIN pools \/ i = N
  BY <1>1, <1>5 DEF IInv, TypeOK
<1>7. P.base = registering.base /\ P.page_count = s /\ P.avail = {B}
  OBVIOUS
<1>8. /\ \A i \in DOMAIN pools : FreeBlocks(i)' = FreeBlocks(i)
      /\ \A i : i = N => FreeBlocks(i)' = {B}
  BY <1>2, <1>6, <1>7 DEF FreeBlocks, InHand
<1> HIDE DEF B, P, N
<1>9. TypeOK'
  BY <1>1, <1>2, <1>3, <1>6 DEF IInv, TypeOK
<1>10. PICK r \in Regions \ unregistered :
         Within(registering.base, registering.pages, r.base, r.pages)
  BY <1>1 DEF IInv, RestPlaced
<1>11. r.base \in Nat /\ r.pages \in Nat
  BY RegionsAssumption
<1>12. Within(P.base, P.page_count, r.base, r.pages)
  BY <1>1, <1>3, <1>7, <1>10, <1>11 DEF Within
<1>13. ASSUME NEW i \in DOMAIN pools
       PROVE  /\ pools[i].base \in Nat /\ pools[i].page_count \in Nat \ {0}
              /\ Apart(pools[i].base, pools[i].page_count, registering.base, registering.pages)
              /\ Apart(pools[i].base, pools[i].page_count, P.base, P.page_count)
              /\ Apart(P.base, P.page_count, pools[i].base, pools[i].page_count)
              /\ Apart(pools[i].base, pools[i].page_count,
                       registering.base + s, registering.pages - s)
  <2>1. Apart(pools[i].base, pools[i].page_count, registering.base, registering.pages)
    BY <1>1 DEF IInv, RestPlaced
  <2>2. pools[i].base \in Nat /\ pools[i].page_count \in Nat \ {0}
    BY PoolFacts DEF IInv
  <2> QED BY <1>1, <1>3, <1>7, <2>1, <2>2 DEF Apart
<1>14. PoolsPlaced'
  <2>1. \A i \in DOMAIN pools' : \E q \in Regions \ unregistered' :
          Within(pools'[i].base, pools'[i].page_count, q.base, q.pages)
    BY <1>1, <1>6, <1>12 DEF IInv, PoolsPlaced
  <2>2. ASSUME NEW i \in DOMAIN pools', NEW j \in DOMAIN pools', i # j
        PROVE  Apart(pools'[i].base, pools'[i].page_count, pools'[j].base, pools'[j].page_count)
    <3>1. CASE i \in DOMAIN pools /\ j \in DOMAIN pools
      BY <1>6, <2>2, <3>1 DEF IInv, PoolsPlaced
    <3>2. CASE i = N /\ j \in DOMAIN pools
      BY <1>6, <1>13, <3>2
    <3>3. CASE i \in DOMAIN pools /\ j = N
      BY <1>6, <1>13, <3>3
    <3> QED BY <1>6, <2>2, <3>1, <3>2, <3>3
  <2> QED BY <2>1, <2>2 DEF PoolsPlaced
<1>15. RestPlaced'
  <2>1. registering'.base = registering.base + s /\ registering'.pages = registering.pages - s
    BY <1>1
  <2>2. Within(registering'.base, registering'.pages, r.base, r.pages)
    BY <1>1, <1>3, <1>10, <1>11, <2>1 DEF Within
  <2>3. \A i \in DOMAIN pools' :
          Apart(pools'[i].base, pools'[i].page_count, registering'.base, registering'.pages)
    <3>1. Apart(P.base, P.page_count, registering'.base, registering'.pages)
      BY <1>1, <1>3, <1>7, <2>1 DEF Apart
    <3> QED BY <1>6, <1>13, <2>1, <3>1
  <2> QED BY <1>1, <2>2, <2>3 DEF RestPlaced
<1>16. FreePlaced'
  <2>1. \A b \in {B} : Offset(b) + b.size <= P.page_count
    BY <1>3, <1>4, <1>7
  <2>2. ASSUME NEW i \in DOMAIN pools'
        PROVE  /\ \A b \in FreeBlocks(i)' : Offset(b) + b.size <= pools'[i].page_count
               /\ \A b, c \in FreeBlocks(i)' : b # c => Apart(Offset(b), b.size, Offset(c), c.size)
    <3>1. CASE i \in DOMAIN pools
      BY <1>6, <1>8, <3>1 DEF IInv, FreePlaced
    <3>2. CASE i = N
      BY <1>6, <1>8, <2>1, <3>2
    <3> QED BY <1>6, <3>1, <3>2
  <2> QED BY <2>2 DEF FreePlaced
<1>17. GivenPlaced'
  <2>1. \A g \in given' : \E i \in DOMAIN pools' :
          /\ Within(g.ptr, g.size, pools'[i].base, pools'[i].page_count)
          /\ (g.ptr - pools'[i].base) % g.size = 0
    BY <1>1, <1>6 DEF IInv, GivenPlaced
  <2>2. ASSUME NEW g \in given
        PROVE  Apart(P.base + Offset(B), B.size, g.ptr, g.size)
    <3>1. PICK i \in DOMAIN pools : Within(g.ptr, g.size, pools[i].base, pools[i].page_count)
      BY DEF IInv, GivenPlaced
    <3>2. g.ptr \in Nat /\ g.size \in Nat
      BY GivenFacts DEF IInv
    <3> QED BY <1>3, <1>4, <1>7, <1>13, <3>1, <3>2 DEF Within, Apart
  <2>3. \A i \in DOMAIN pools' : \A b \in FreeBlocks(i)', g \in given' :
          Apart(pools'[i].base + Offset(b), b.size, g.ptr, g.size)
    <3> SUFFICES ASSUME NEW i \in DOMAIN pools', NEW b \in FreeBlocks(i)', NEW g \in given'
                 PROVE  Apart(pools'[i].base + Offset(b), b.size, g.ptr, g.size)
      OBVIOUS
    <3>1. CASE i \in DOMAIN pools
      BY <1>1, <1>6, <1>8, <3>1 DEF IInv, GivenPlaced
    <3>2. CASE i = N
      BY <1>1, <1>6, <1>8, <2>2, <3>2
    <3> QED BY <1>6, <3>1, <3>2
  <2> QED BY <1>1, <2>1, <2>3 DEF IInv, GivenPlaced
<1>18. NothingLost'
  <2>1. \A x \in PoolPages(P) : x \in BlockPages(P, B)
    BY <1>3, <1>4, <1>7 DEF PoolPages, BlockPages, Offset
  <2> SUFFICES ASSUME NEW i \in DOMAIN pools', NEW x \in PoolPages(pools'[i])
               PROVE  \/ \E g \in given' : x \in Pages(g.ptr, g.size)
                      \/ \E b \in FreeBlocks(i)' : x \in BlockPages(pools'[i], b)
    BY DEF NothingLost
  <2>2. CASE i \in DOMAIN pools
    BY <1>1, <1>6, <1>8, <2>2 DEF IInv, NothingLost
  <2>3. CASE i = N
    BY <1>6, <1>8, <2>1, <2>3
  <2> QED BY <1>6, <2>2, <2>3
<1>19. HandSound' /\ FailedSound'
  BY <1>2 DEF HandSound, FailedSound
<1>20. FullyMerged'
  <2>1. \A b \in P.avail : b.size = P.page_count
    BY <1>4, <1>7
  <2> QED BY <1>6, <2>1 DEF IInv, FullyMerged
<1> QED BY <1>9, <1>14, <1>15, <1>16, <1>17, <1>18, <1>19, <1>20 DEF IInv

\* A step that changes the free blocks of one pool changes nothing else of it.
LEMMA PoolUpdate ==
  ASSUME IInv, NEW p \in DOMAIN pools, NEW A \in SUBSET Blocks,
         pools' = [pools EXCEPT ![p].avail = A], UNCHANGED <<unregistered, registering>>
  PROVE  /\ DOMAIN pools' = DOMAIN pools
         /\ pools' \in Seq([base : Nat, page_count : BlockSizes, avail : SUBSET Blocks])
         /\ \A i \in DOMAIN pools : /\ pools'[i].base = pools[i].base
                                    /\ pools'[i].page_count = pools[i].page_count
                                    /\ i # p => pools'[i].avail = pools[i].avail
         /\ pools'[p].avail = A
         /\ PoolsPlaced' /\ RestPlaced'
<1> DEFINE Pool == [base : Nat, page_count : BlockSizes, avail : SUBSET Blocks]
<1>1. pools \in Seq(Pool) /\ DOMAIN pools = 1..Len(pools)
  BY DEF IInv, TypeOK
<1>2. DOMAIN pools' = DOMAIN pools
  BY <1>1
<1>3. \A i \in DOMAIN pools : pools'[i] = IF i = p THEN [pools[i] EXCEPT !.avail = A] ELSE pools[i]
  BY <1>1
<1>4. \A i \in DOMAIN pools : pools[i] \in Pool
  BY PoolFacts DEF IInv
<1>5. \A i \in DOMAIN pools : /\ pools'[i] \in Pool
                              /\ pools'[i].base = pools[i].base
                              /\ pools'[i].page_count = pools[i].page_count
                              /\ pools'[i].avail = IF i = p THEN A ELSE pools[i].avail
  BY <1>3, <1>4
<1>6. pools' \in Seq(Pool)
  <2> DEFINE e == [pools[p] EXCEPT !.avail = A]
  <2>1. e \in Pool
    BY <1>4
  <2>2. pools' = [pools EXCEPT ![p] = e]
    BY <1>1
  <2> HIDE DEF Pool, e
  <2>3. p \in 1..Len(pools)
    BY <1>1
  <2>4. [pools EXCEPT ![p] = e] \in Seq(Pool)
    BY <1>1, <2>1, <2>3, ExceptSeq
  <2> QED BY <2>2, <2>4
<1> HIDE DEF Pool
<1>7. PoolsPlaced' /\ RestPlaced'
  BY <1>2, <1>5 DEF IInv, PoolsPlaced, RestPlaced
<1> QED BY <1>2, <1>5, <1>6, <1>7 DEF Pool

\* Quotient and remainder of a multiple.
LEMMA Multiples ==
  ASSUME NEW s \in Nat \ {0}
  PROVE  /\ \A k \in Nat : (s * k) % s = 0
         /\ \A d \in Nat : d % s = 0 => d \div s \in Nat /\ s * (d \div s) = d
<1>1. ASSUME NEW k \in Nat PROVE (s * k) % s = 0
  OBVIOUS
<1>2. ASSUME NEW d \in Nat, d % s = 0 PROVE d \div s \in Nat /\ s * (d \div s) = d
  BY <1>2
<1> QED BY <1>1, <1>2

\* A round of the split loop: the upper half goes back.
LEMMA StepSplitRound ==
  ASSUME IInv, SplitRound
  PROVE  IInv'
<1>1. op.kind = "split" /\ op.wanted < op.block.size
  BY DEF SplitRound
<1>2. PICK p \in DOMAIN pools, b \in Blocks, w \in BlockSizes :
        p = op.pool /\ b = op.block /\ w = op.wanted
  BY <1>1, HandFacts DEF IInv
<1> DEFINE F == First(b)
           S == Second(b)
           A == (pools[p].avail \ {b}) \cup {S}
<1>3. op # Idle /\ op \in [kind : {"split"}, pool : DOMAIN pools, block : Blocks,
                           wanted : BlockSizes]
  BY <1>1, HandFacts DEF IInv
<1>4. /\ b.size \in Nat /\ w \in Nat \ {0} /\ Offset(b) \in Nat /\ b.size # 1
  BY <1>1, <1>2, BlockFacts, BlockSizesAssumption
<1>5. /\ F \in Blocks /\ S \in Blocks /\ F # S /\ F # b /\ S # b
      /\ F.size = S.size /\ b.size = 2 * F.size
      /\ Offset(F) = Offset(b) /\ Offset(S) = Offset(b) + F.size
      /\ Neighbor(F) = S /\ Neighbor(S) = F
  BY <1>4, Halves
<1>6. F.size \in Nat \ {0} /\ F.size \in BlockSizes
  BY <1>5, BlockFacts
<1>7. pools[p].avail \subseteq Blocks /\ A \in SUBSET Blocks
  BY <1>5, PoolFacts DEF IInv
<1>8. pools' = [pools EXCEPT ![p].avail = A] /\ UNCHANGED <<unregistered, registering, given, failed>>
  BY <1>2 DEF SplitRound
<1>9. op' = [op EXCEPT !.block = F]
  BY <1>2 DEF SplitRound
<1>10. /\ op'.kind = "split" /\ op'.pool = p /\ op'.block = F /\ op'.wanted = w /\ op' # Idle
       /\ op' \in [kind : {"split"}, pool : DOMAIN pools, block : Blocks, wanted : BlockSizes]
  BY <1>2, <1>3, <1>5, <1>9 DEF Idle
<1> HIDE DEF F, S, A
<1>11. /\ DOMAIN pools' = DOMAIN pools
       /\ pools' \in Seq([base : Nat, page_count : BlockSizes, avail : SUBSET Blocks])
       /\ \A i \in DOMAIN pools : /\ pools'[i].base = pools[i].base
                                  /\ pools'[i].page_count = pools[i].page_count
                                  /\ i # p => pools'[i].avail = pools[i].avail
       /\ pools'[p].avail = A
       /\ PoolsPlaced' /\ RestPlaced'
  BY <1>7, <1>8, PoolUpdate, Zenon
<1>12. TypeOK'
  BY <1>8, <1>10, <1>11 DEF IInv, TypeOK
<1>13. FreeBlocks(p) = pools[p].avail \cup {b} /\ b \in FreeBlocks(p)
  BY <1>2, <1>3 DEF FreeBlocks, InHand
<1>14. FreeBlocks(p)' = (FreeBlocks(p) \ {b}) \cup {F, S}
  BY <1>10, <1>11, <1>13 DEF FreeBlocks, InHand, A
<1>15. \A i \in DOMAIN pools : i # p => FreeBlocks(i)' = FreeBlocks(i)
  BY <1>2, <1>10, <1>11 DEF FreeBlocks, InHand
<1>16. ASSUME NEW c \in FreeBlocks(p), c # b
       PROVE  /\ c.size \in Nat \ {0} /\ Offset(c) \in Nat
              /\ Apart(Offset(c), c.size, Offset(F), F.size)
              /\ Apart(Offset(F), F.size, Offset(c), c.size)
              /\ Apart(Offset(c), c.size, Offset(S), S.size)
              /\ Apart(Offset(S), S.size, Offset(c), c.size)
  <2>1. Apart(Offset(c), c.size, Offset(b), b.size)
    BY <1>13, <1>16 DEF IInv, FreePlaced
  <2>2. c.size \in Nat \ {0} /\ Offset(c) \in Nat
    BY FreeBlocksFacts, BlockFacts DEF IInv
  <2> QED BY <1>4, <1>5, <1>6, <2>1, <2>2 DEF Apart
<1>17. FreePlaced'
  <2>1. ASSUME NEW i \in DOMAIN pools', NEW c \in FreeBlocks(i)'
        PROVE  Offset(c) + c.size <= pools'[i].page_count
    <3>1. Offset(b) + b.size <= pools[p].page_count /\ pools[p].page_count \in Nat
      BY <1>13, PoolFacts DEF IInv, FreePlaced
    <3>2. Offset(F) + F.size <= pools[p].page_count /\ Offset(S) + S.size <= pools[p].page_count
      BY <1>4, <1>5, <1>6, <3>1
    <3>3. CASE i = p
      BY <1>11, <1>14, <3>2, <3>3 DEF IInv, FreePlaced
    <3>4. CASE i # p
      BY <1>11, <1>15, <3>4 DEF IInv, FreePlaced
    <3> QED BY <3>3, <3>4
  <2>2. ASSUME NEW i \in DOMAIN pools', NEW c \in FreeBlocks(i)', NEW d \in FreeBlocks(i)', c # d
        PROVE  Apart(Offset(c), c.size, Offset(d), d.size)
    <3>1. CASE i # p
      BY <1>11, <1>15, <2>2, <3>1 DEF IInv, FreePlaced
    <3>2. CASE i = p
      <4>1. Apart(Offset(F), F.size, Offset(S), S.size) /\ Apart(Offset(S), S.size, Offset(F), F.size)
        BY <1>4, <1>5, <1>6 DEF Apart
      <4>2. CASE c \in FreeBlocks(p) \ {b} /\ d \in FreeBlocks(p) \ {b}
        BY <2>2, <4>2 DEF IInv, FreePlaced
      <4> QED BY <1>14, <1>16, <2>2, <3>2, <4>1, <4>2
    <3> QED BY <3>1, <3>2
  <2> QED BY <2>1, <2>2 DEF FreePlaced
<1>18. GivenPlaced'
  <2>1. ASSUME NEW i \in DOMAIN pools', NEW c \in FreeBlocks(i)', NEW g \in given
        PROVE  Apart(pools'[i].base + Offset(c), c.size, g.ptr, g.size)
    <3>1. CASE i = p /\ c \in {F, S}
      <4>1. Apart(pools[p].base + Offset(b), b.size, g.ptr, g.size)
        BY <1>13 DEF IInv, GivenPlaced
      <4>2. pools[p].base \in Nat /\ g.ptr \in Nat /\ g.size \in Nat
        BY PoolFacts, GivenFacts DEF IInv
      <4>3. Apart(pools[p].base + Offset(F), F.size, g.ptr, g.size)
        BY <1>4, <1>5, <1>6, <4>1, <4>2 DEF Apart
      <4>4. Apart(pools[p].base + Offset(S), S.size, g.ptr, g.size)
        BY <1>4, <1>5, <1>6, <4>1, <4>2 DEF Apart
      <4> QED BY <1>11, <3>1, <4>3, <4>4
    <3>2. CASE ~(i = p /\ c \in {F, S})
      BY <1>11, <1>14, <1>15, <3>2, Zenon DEF IInv, GivenPlaced
    <3> QED BY <3>1, <3>2
  <2> QED BY <1>8, <1>11, <2>1 DEF IInv, GivenPlaced
<1>19. NothingLost'
  <2> SUFFICES ASSUME NEW i \in DOMAIN pools', NEW x \in PoolPages(pools'[i])
               PROVE  \/ \E g \in given' : x \in Pages(g.ptr, g.size)
                      \/ \E c \in FreeBlocks(i)' : x \in BlockPages(pools'[i], c)
    BY DEF NothingLost
  <2>1. PoolPages(pools'[i]) = PoolPages(pools[i])
    BY <1>11 DEF PoolPages
  <2>2. \A c : BlockPages(pools'[i], c) = BlockPages(pools[i], c)
    BY <1>11 DEF BlockPages
  <2>3. CASE \E g \in given : x \in Pages(g.ptr, g.size)
    BY <1>8, <2>3
  <2>4. ASSUME NEW c \in FreeBlocks(i), x \in BlockPages(pools[i], c)
        PROVE  \E d \in FreeBlocks(i)' : x \in BlockPages(pools'[i], d)
    <3>1. CASE i = p /\ c = b
      <4>1. pools[p].base \in Nat
        BY PoolFacts DEF IInv
      <4>2. x \in BlockPages(pools[p], F) \/ x \in BlockPages(pools[p], S)
        BY <1>4, <1>5, <1>6, <2>4, <3>1, <4>1 DEF BlockPages, Pages, Offset
      <4> QED BY <1>14, <2>2, <3>1, <4>2
    <3>2. CASE ~(i = p /\ c = b)
      BY <1>11, <1>14, <1>15, <2>2, <2>4, <3>2
    <3> QED BY <3>1, <3>2
  <2> QED BY <1>11, <2>1, <2>3, <2>4 DEF IInv, NothingLost
<1>20. HandSound' /\ FailedSound'
  <2>1. w <= F.size
    BY <1>1, <1>2, <1>4, <1>5, <1>6, BlockSizesAssumption
  <2> QED BY <1>3, <1>8, <1>10, <2>1 DEF IInv, HandSound, FailedSound
<1>21. FullyMerged'
  <2>1. F \notin pools[p].avail
    BY <1>4, <1>5, <1>6, <1>13, <1>16 DEF Apart
  <2>2. F \notin A
    BY <1>5, <2>1 DEF A
  <2>3. ASSUME NEW c \in A, Neighbor(c) \in A, c.size # pools[p].page_count
        PROVE  FALSE
    <3>1. c # S
      BY <1>5, <2>2, <2>3
    <3>2. Neighbor(c) # S
      <4>1. Neighbor(Neighbor(c)) = c
        BY <1>7, NeighborFacts
      <4> QED BY <1>5, <2>2, <4>1
    <3> QED BY <2>3, <3>1, <3>2 DEF A, IInv, FullyMerged
  <2> QED BY <1>11, <2>3 DEF IInv, FullyMerged
<1> QED BY <1>11, <1>12, <1>17, <1>18, <1>19, <1>20, <1>21 DEF IInv

\* The end of pmm_alloc: the block in hand is given.
LEMMA StepAllocDone ==
  ASSUME IInv, AllocDone
  PROVE  IInv'
<1>1. op.kind = "split" /\ op.wanted = op.block.size
  BY DEF AllocDone
<1>2. PICK p \in DOMAIN pools, b \in Blocks : p = op.pool /\ b = op.block
  BY <1>1, HandFacts DEF IInv
<1> DEFINE A == pools[p].avail \ {b}
           h == [ptr |-> pools[p].base + Offset(b), size |-> b.size]
<1>3. op # Idle
  BY <1>1, HandFacts DEF IInv
<1>4. /\ b.size \in Nat \ {0} /\ b.size \in BlockSizes /\ b.index \in Nat /\ Offset(b) \in Nat
      /\ pools[p].base \in Nat /\ pools[p].page_count \in Nat
  BY BlockFacts, PoolFacts DEF IInv
<1>5. A \in SUBSET Blocks
  BY PoolFacts DEF IInv
<1>6. /\ pools' = [pools EXCEPT ![p].avail = A] /\ UNCHANGED <<unregistered, registering, failed>>
      /\ op' = Idle
  BY <1>2 DEF AllocDone
<1>7. given' = given \cup {h}
  BY <1>2 DEF AllocDone, Offset
<1>8. h.ptr = pools[p].base + Offset(b) /\ h.size = b.size /\ h.ptr \in Nat
      /\ h \in [ptr : Nat, size : BlockSizes]
  BY <1>4
<1> HIDE DEF A, h
<1>9. /\ DOMAIN pools' = DOMAIN pools
      /\ pools' \in Seq([base : Nat, page_count : BlockSizes, avail : SUBSET Blocks])
      /\ \A i \in DOMAIN pools : /\ pools'[i].base = pools[i].base
                                 /\ pools'[i].page_count = pools[i].page_count
                                 /\ i # p => pools'[i].avail = pools[i].avail
      /\ pools'[p].avail = A
      /\ PoolsPlaced' /\ RestPlaced'
  BY <1>5, <1>6, PoolUpdate, Zenon
<1>10. TypeOK'
  BY <1>6, <1>7, <1>8, <1>9 DEF IInv, TypeOK
<1>11. FreeBlocks(p) = pools[p].avail \cup {b} /\ b \in FreeBlocks(p)
  BY <1>2, <1>3 DEF FreeBlocks, InHand
<1>12. FreeBlocks(p)' = FreeBlocks(p) \ {b}
  BY <1>6, <1>9, <1>11 DEF FreeBlocks, InHand, A
<1>13. \A i \in DOMAIN pools : i # p => FreeBlocks(i)' = FreeBlocks(i)
  BY <1>2, <1>6, <1>9 DEF FreeBlocks, InHand
<1>14. \A i \in DOMAIN pools : FreeBlocks(i)' \subseteq FreeBlocks(i)
  BY <1>12, <1>13
<1>15. FreePlaced'
  BY <1>9, <1>14 DEF IInv, FreePlaced
<1>16. Offset(b) + b.size <= pools[p].page_count
  BY <1>11 DEF IInv, FreePlaced
<1>17. GivenPlaced'
  <2>1. ASSUME NEW g \in given'
        PROVE  \E i \in DOMAIN pools' :
                 /\ Within(g.ptr, g.size, pools'[i].base, pools'[i].page_count)
                 /\ (g.ptr - pools'[i].base) % g.size = 0
    <3>1. CASE g \in given
      BY <1>9, <3>1 DEF IInv, GivenPlaced
    <3>2. CASE g = h
      <4>1. Within(h.ptr, h.size, pools[p].base, pools[p].page_count)
        BY <1>4, <1>8, <1>16 DEF Within
      <4>2. (h.ptr - pools[p].base) % h.size = 0
        <5>1. h.ptr - pools[p].base = b.size * b.index
          BY <1>4, <1>8 DEF Offset
        <5> QED BY <1>4, <1>8, <5>1, Multiples, Zenon
      <4> QED BY <1>9, <3>2, <4>1, <4>2
    <3> QED BY <1>7, <3>1, <3>2
  <2>2. ASSUME NEW g \in given
        PROVE  Apart(h.ptr, h.size, g.ptr, g.size) /\ Apart(g.ptr, g.size, h.ptr, h.size)
    <3>1. Apart(pools[p].base + Offset(b), b.size, g.ptr, g.size)
      BY <1>11 DEF IInv, GivenPlaced
    <3> QED BY <1>8, <3>1 DEF Apart
  <2>3. \A g, k \in given' : g # k => Apart(g.ptr, g.size, k.ptr, k.size)
    BY <1>7, <2>2 DEF IInv, GivenPlaced
  <2>4. ASSUME NEW i \in DOMAIN pools', NEW c \in FreeBlocks(i)', NEW g \in given'
        PROVE  Apart(pools'[i].base + Offset(c), c.size, g.ptr, g.size)
    <3>1. CASE g \in given
      BY <1>9, <1>14, <3>1 DEF IInv, GivenPlaced
    <3>2. CASE g = h
      <4>1. c \in FreeBlocks(i) /\ c.size \in Nat \ {0} /\ Offset(c) \in Nat
            /\ pools[i].base \in Nat /\ pools[i].page_count \in Nat
        BY <1>9, <1>14, FreeBlocksFacts, BlockFacts, PoolFacts DEF IInv
      <4>2. CASE i = p
        <5>1. Apart(Offset(c), c.size, Offset(b), b.size)
          BY <1>11, <1>12, <4>1, <4>2 DEF IInv, FreePlaced
        <5>2. pools'[i].base = pools[p].base
          BY <1>9, <4>2
        <5>3. Apart(pools[p].base + Offset(c), c.size, h.ptr, h.size)
          BY <1>4, <1>8, <4>1, <5>1 DEF Apart
        <5> QED BY <3>2, <5>2, <5>3
      <4>3. CASE i # p
        <5>1. Apart(pools[i].base, pools[i].page_count, pools[p].base, pools[p].page_count)
          BY <1>9, <4>3 DEF IInv, PoolsPlaced
        <5>2. Offset(c) + c.size <= pools[i].page_count
          BY <1>9, <4>1 DEF IInv, FreePlaced
        <5>3. pools'[i].base = pools[i].base
          BY <1>9
        <5> QED BY <1>4, <1>8, <1>16, <3>2, <4>1, <5>1, <5>2, <5>3 DEF Apart
      <4> QED BY <4>2, <4>3
    <3> QED BY <1>7, <3>1, <3>2
  <2> QED BY <2>1, <2>3, <2>4 DEF GivenPlaced
<1>18. NothingLost'
  <2> SUFFICES ASSUME NEW i \in DOMAIN pools', NEW x \in PoolPages(pools'[i])
               PROVE  \/ \E g \in given' : x \in Pages(g.ptr, g.size)
                      \/ \E c \in FreeBlocks(i)' : x \in BlockPages(pools'[i], c)
    BY DEF NothingLost
  <2>1. PoolPages(pools'[i]) = PoolPages(pools[i])
    BY <1>9 DEF PoolPages
  <2>2. \A c : BlockPages(pools'[i], c) = BlockPages(pools[i], c)
    BY <1>9 DEF BlockPages
  <2>3. CASE \E g \in given : x \in Pages(g.ptr, g.size)
    BY <1>7, <2>3
  <2>4. ASSUME NEW c \in FreeBlocks(i), x \in BlockPages(pools[i], c)
        PROVE  \/ \E g \in given' : x \in Pages(g.ptr, g.size)
               \/ \E d \in FreeBlocks(i)' : x \in BlockPages(pools'[i], d)
    <3>1. CASE i = p /\ c = b
      BY <1>7, <1>8, <2>4, <3>1 DEF BlockPages, Offset
    <3>2. CASE ~(i = p /\ c = b)
      BY <1>9, <1>12, <1>13, <2>2, <2>4, <3>2
    <3> QED BY <3>1, <3>2
  <2> QED BY <1>9, <2>1, <2>3, <2>4 DEF IInv, NothingLost
<1>19. HandSound' /\ FailedSound'
  BY <1>3, <1>6 DEF IInv, HandSound, FailedSound
<1>20. FullyMerged'
  <2>1. \A i \in DOMAIN pools : pools'[i].avail \subseteq pools[i].avail
    BY <1>9 DEF A
  <2> QED BY <1>9, <2>1 DEF IInv, FullyMerged
<1> QED BY <1>9, <1>10, <1>15, <1>17, <1>18, <1>19, <1>20 DEF IInv

\* pmm_free takes back what was given.
LEMMA StepFree ==
  ASSUME IInv, NEW g \in given, NEW n, pmm_free(g, n)
  PROVE  IInv'
<1>1. PICK p \in DOMAIN pools :
        /\ InPool(g.ptr, p)
        /\ op' = [kind |-> "merge", pool |-> p,
                  block |-> [size |-> g.size, index |-> (g.ptr - pools[p].base) \div g.size]]
  BY DEF pmm_free
<1> DEFINE k == (g.ptr - pools[p].base) \div g.size
           b == [size |-> g.size, index |-> k]
<1>2. op = Idle /\ registering.pages = 0 /\ given' = given \ {g} /\ failed' = 0
      /\ UNCHANGED <<pools, unregistered, registering>>
  BY DEF pmm_free, Ready
<1>3. /\ g.ptr \in Nat /\ g.size \in Nat \ {0} /\ g.size \in BlockSizes
      /\ pools[p].base \in Nat /\ pools[p].page_count \in Nat \ {0}
  BY GivenFacts, PoolFacts DEF IInv
<1>4. Within(g.ptr, g.size, pools[p].base, pools[p].page_count)
      /\ (g.ptr - pools[p].base) % g.size = 0
  <2>1. PICK q \in DOMAIN pools :
          /\ Within(g.ptr, g.size, pools[q].base, pools[q].page_count)
          /\ (g.ptr - pools[q].base) % g.size = 0
    BY DEF IInv, GivenPlaced
  <2>2. q = p
    <3>1. pools[q].base \in Nat /\ pools[q].page_count \in Nat
      BY PoolFacts DEF IInv
    <3>2. ~Apart(pools[q].base, pools[q].page_count, pools[p].base, pools[p].page_count)
      BY <1>1, <1>3, <2>1, <3>1 DEF InPool, Within, Apart
    <3> QED BY <3>2 DEF IInv, PoolsPlaced
  <2> QED BY <2>1, <2>2
<1>5. g.ptr - pools[p].base \in Nat
  BY <1>3, <1>4 DEF Within
<1>6. k \in Nat /\ g.size * k = g.ptr - pools[p].base
  BY <1>3, <1>4, <1>5, Multiples, Zenon
<1>7. b \in Blocks /\ b.size = g.size /\ Offset(b) = g.ptr - pools[p].base
      /\ pools[p].base + Offset(b) = g.ptr
  BY <1>3, <1>6 DEF Blocks, Offset
<1>8. op' = [kind |-> "merge", pool |-> p, block |-> b]
  BY <1>1
<1> HIDE DEF b, k
<1>9. op' # Idle /\ op'.kind = "merge" /\ op'.pool = p /\ op'.block = b
  BY <1>8 DEF Idle
<1>10. TypeOK'
  BY <1>2, <1>7, <1>8 DEF IInv, TypeOK
<1>11. PoolsPlaced' /\ RestPlaced' /\ FullyMerged'
  BY <1>2 DEF IInv, PoolsPlaced, RestPlaced, FullyMerged
<1>12. \A i : FreeBlocks(i) = pools[i].avail
  BY <1>2, FreeBlocksIdle
<1>13. \A i : FreeBlocks(i)' = IF i = p THEN FreeBlocks(i) \cup {b} ELSE FreeBlocks(i)
  BY <1>2, <1>9, <1>12 DEF FreeBlocks, InHand
<1>14. ASSUME NEW c \in FreeBlocks(p)
       PROVE  /\ Apart(Offset(c), c.size, Offset(b), b.size)
              /\ Apart(Offset(b), b.size, Offset(c), c.size)
              /\ c # b
  <2>1. Apart(pools[p].base + Offset(c), c.size, g.ptr, g.size)
    BY DEF IInv, GivenPlaced
  <2>2. c.size \in Nat \ {0} /\ Offset(c) \in Nat
    BY FreeBlocksFacts, BlockFacts DEF IInv
  <2>3. /\ Apart(Offset(c), c.size, Offset(b), b.size)
        /\ Apart(Offset(b), b.size, Offset(c), c.size)
    BY <1>3, <1>7, <2>1, <2>2 DEF Apart
  <2>4. ~Apart(Offset(b), b.size, Offset(b), b.size)
    BY <1>3, <1>7 DEF Apart
  <2> QED BY <2>3, <2>4
<1>15. FreePlaced'
  <2>1. Offset(b) + b.size <= pools[p].page_count
    BY <1>3, <1>4, <1>7 DEF Within
  <2>2. \A i \in DOMAIN pools' : \A c \in FreeBlocks(i)' : Offset(c) + c.size <= pools'[i].page_count
    BY <1>2, <1>13, <2>1 DEF IInv, FreePlaced
  <2>3. \A i \in DOMAIN pools' : \A c, d \in FreeBlocks(i)' :
          c # d => Apart(Offset(c), c.size, Offset(d), d.size)
    BY <1>2, <1>13, <1>14 DEF IInv, FreePlaced
  <2> QED BY <2>2, <2>3 DEF FreePlaced
<1>16. GivenPlaced'
  <2>1. ASSUME NEW h \in given'
        PROVE  Apart(pools[p].base + Offset(b), b.size, h.ptr, h.size)
    BY <1>2, <1>7 DEF IInv, GivenPlaced
  <2>2. \A i \in DOMAIN pools' : \A c \in FreeBlocks(i)', h \in given' :
          Apart(pools'[i].base + Offset(c), c.size, h.ptr, h.size)
    BY <1>2, <1>13, <2>1 DEF IInv, GivenPlaced
  <2> QED BY <1>2, <2>2 DEF IInv, GivenPlaced
<1>17. NothingLost'
  <2> SUFFICES ASSUME NEW i \in DOMAIN pools, NEW x \in PoolPages(pools[i])
               PROVE  \/ \E h \in given' : x \in Pages(h.ptr, h.size)
                      \/ \E c \in FreeBlocks(i)' : x \in BlockPages(pools[i], c)
    BY <1>2 DEF NothingLost
  <2>1. CASE x \in Pages(g.ptr, g.size)
    <3>1. pools[i].base \in Nat /\ pools[i].page_count \in Nat
      BY PoolFacts DEF IInv
    <3>2. ~Apart(pools[i].base, pools[i].page_count, pools[p].base, pools[p].page_count)
      BY <1>3, <1>4, <2>1, <3>1 DEF PoolPages, Pages, Within, Apart
    <3>3. i = p
      BY <3>2 DEF IInv, PoolsPlaced
    <3>4. x \in BlockPages(pools[p], b)
      BY <1>7, <2>1 DEF BlockPages, Offset
    <3> QED BY <1>13, <3>3, <3>4
  <2>2. CASE \E h \in given \ {g} : x \in Pages(h.ptr, h.size)
    BY <1>2, <2>2
  <2>3. CASE \E c \in FreeBlocks(i) : x \in BlockPages(pools[i], c)
    BY <1>13, <2>3
  <2> QED BY <2>1, <2>2, <2>3 DEF IInv, NothingLost
<1>18. HandSound' /\ FailedSound'
  <2>1. b \notin pools[p].avail
    BY <1>12, <1>14
  <2> QED BY <1>2, <1>9, <2>1 DEF HandSound, FailedSound
<1> QED BY <1>10, <1>11, <1>15, <1>16, <1>17, <1>18 DEF IInv

\* The end of pmm_free: a block that cannot merge goes to its bitmap.
LEMMA StepFreeDone ==
  ASSUME IInv, FreeDone
  PROVE  IInv'
<1>1. op.kind = "merge" /\ ~CanMerge(pools[op.pool], op.block)
  BY DEF FreeDone
<1>2. PICK p \in DOMAIN pools, b \in Blocks : p = op.pool /\ b = op.block
  BY <1>1, HandFacts DEF IInv
<1> DEFINE A == pools[p].avail \cup {b}
<1>3. op # Idle
  BY <1>1, HandFacts DEF IInv
<1>4. pools[p].avail \subseteq Blocks /\ A \in SUBSET Blocks
  BY PoolFacts DEF IInv
<1>5. /\ pools' = [pools EXCEPT ![p].avail = A] /\ op' = Idle
      /\ UNCHANGED <<unregistered, registering, given, failed>>
  BY <1>2 DEF FreeDone
<1> HIDE DEF A
<1>6. /\ DOMAIN pools' = DOMAIN pools
      /\ pools' \in Seq([base : Nat, page_count : BlockSizes, avail : SUBSET Blocks])
      /\ \A i \in DOMAIN pools : /\ pools'[i].base = pools[i].base
                                 /\ pools'[i].page_count = pools[i].page_count
                                 /\ i # p => pools'[i].avail = pools[i].avail
      /\ pools'[p].avail = A
      /\ PoolsPlaced' /\ RestPlaced'
  BY <1>4, <1>5, PoolUpdate, Zenon
<1>7. TypeOK'
  BY <1>5, <1>6 DEF IInv, TypeOK
<1>8. \A i \in DOMAIN pools : FreeBlocks(i)' = FreeBlocks(i)
  BY <1>2, <1>3, <1>5, <1>6 DEF FreeBlocks, InHand, A
<1>9. FreePlaced' /\ GivenPlaced'
  BY <1>5, <1>6, <1>8 DEF IInv, FreePlaced, GivenPlaced
<1>10. NothingLost'
  <2>1. \A i \in DOMAIN pools : PoolPages(pools'[i]) = PoolPages(pools[i])
    BY <1>6 DEF PoolPages
  <2>2. \A i \in DOMAIN pools : \A c : BlockPages(pools'[i], c) = BlockPages(pools[i], c)
    BY <1>6 DEF BlockPages
  <2> SUFFICES ASSUME NEW i \in DOMAIN pools, NEW x \in PoolPages(pools[i])
               PROVE  \/ \E g \in given' : x \in Pages(g.ptr, g.size)
                      \/ \E c \in FreeBlocks(i)' : x \in BlockPages(pools'[i], c)
    BY <1>6, <2>1 DEF NothingLost
  <2> QED BY <1>5, <1>8, <2>2 DEF IInv, NothingLost
<1>11. HandSound' /\ FailedSound'
  BY <1>3, <1>5 DEF IInv, HandSound, FailedSound
<1>12. FullyMerged'
  <2>1. b.size = pools[p].page_count \/ Neighbor(b) \notin pools[p].avail
    BY <1>1, <1>2 DEF CanMerge
  <2>2. ASSUME NEW c \in A, Neighbor(c) \in A, c.size # pools[p].page_count
        PROVE  FALSE
    <3>1. c \in Blocks /\ Neighbor(c) # c /\ Neighbor(c).size = c.size
          /\ Neighbor(Neighbor(c)) = c
      BY <1>4, NeighborFacts
    <3>2. CASE c = b
      BY <2>1, <2>2, <3>1, <3>2 DEF A
    <3>3. CASE c # b /\ Neighbor(c) = b
      BY <2>1, <2>2, <3>1, <3>3 DEF A
    <3>4. CASE c # b /\ Neighbor(c) # b
      BY <2>2, <3>4 DEF A, IInv, FullyMerged
    <3> QED BY <3>2, <3>3, <3>4
  <2> QED BY <1>6, <2>2 DEF IInv, FullyMerged
<1> QED BY <1>6, <1>7, <1>9, <1>10, <1>11, <1>12 DEF IInv

\* A round of the merge loop: two neighbours become the block around them.
LEMMA StepMergeRound ==
  ASSUME IInv, MergeRound
  PROVE  IInv'
<1>1. op.kind = "merge" /\ CanMerge(pools[op.pool], op.block)
  BY DEF MergeRound
<1>2. PICK p \in DOMAIN pools, b \in Blocks : p = op.pool /\ b = op.block
  BY <1>1, HandFacts DEF IInv
<1> DEFINE N == Neighbor(b)
           M == Merged(b)
           A == pools[p].avail \ {N}
<1>3. op # Idle /\ op \in [kind : {"merge"}, pool : DOMAIN pools, block : Blocks]
  BY <1>1, HandFacts DEF IInv
<1>4. /\ b.size \in Nat \ {0} /\ b.size \in BlockSizes /\ Offset(b) \in Nat
      /\ pools[p].page_count \in Nat /\ pools[p].page_count \in BlockSizes /\ pools[p].base \in Nat
      /\ pools[p].avail \subseteq Blocks
  BY BlockFacts, PoolFacts DEF IInv
<1>5. N \in Blocks /\ N # b /\ N.size = b.size /\ Offset(N) \in Nat
  BY NeighborFacts, BlockFacts
<1>6. b.size # pools[p].page_count /\ N \in pools[p].avail /\ b \notin pools[p].avail
  BY <1>1, <1>2, <1>3 DEF CanMerge, IInv, HandSound
<1>7. FreeBlocks(p) = pools[p].avail \cup {b} /\ b \in FreeBlocks(p) /\ N \in FreeBlocks(p)
  BY <1>2, <1>3, <1>6 DEF FreeBlocks, InHand
<1>8. /\ Offset(b) + b.size <= pools[p].page_count
      /\ Offset(N) + N.size <= pools[p].page_count
  BY <1>7 DEF IInv, FreePlaced
<1>9. 2 * b.size \in BlockSizes
  <2>1. b.size < pools[p].page_count
    BY <1>4, <1>6, <1>8
  <2> QED BY <1>4, <2>1, BlockSizesAssumption
<1>10. /\ M \in Blocks /\ M.size = 2 * b.size /\ Offset(M) \in Nat
       /\ \/ Offset(M) = Offset(b) /\ Offset(N) = Offset(b) + b.size
          \/ Offset(M) = Offset(N) /\ Offset(b) = Offset(N) + b.size
  BY <1>9, MergedFacts, BlockFacts
<1>11. A \in SUBSET Blocks
  BY <1>4
<1>12. pools' = [pools EXCEPT ![p].avail = A] /\ UNCHANGED <<unregistered, registering, given, failed>>
  BY <1>2 DEF MergeRound
<1>13. op' = [op EXCEPT !.block = M]
  BY <1>2 DEF MergeRound, Merged
<1>14. /\ op'.kind = "merge" /\ op'.pool = p /\ op'.block = M /\ op' # Idle
       /\ op' \in [kind : {"merge"}, pool : DOMAIN pools, block : Blocks]
  BY <1>2, <1>3, <1>10, <1>13 DEF Idle
<1> HIDE DEF N, M, A
<1>15. /\ DOMAIN pools' = DOMAIN pools
       /\ pools' \in Seq([base : Nat, page_count : BlockSizes, avail : SUBSET Blocks])
       /\ \A i \in DOMAIN pools : /\ pools'[i].base = pools[i].base
                                  /\ pools'[i].page_count = pools[i].page_count
                                  /\ i # p => pools'[i].avail = pools[i].avail
       /\ pools'[p].avail = A
       /\ PoolsPlaced' /\ RestPlaced'
  BY <1>11, <1>12, PoolUpdate, Zenon
<1>16. TypeOK'
  BY <1>12, <1>14, <1>15 DEF IInv, TypeOK
<1>17. FreeBlocks(p)' = (FreeBlocks(p) \ {b, N}) \cup {M}
  BY <1>6, <1>7, <1>14, <1>15 DEF FreeBlocks, InHand, A
<1>18. \A i \in DOMAIN pools : i # p => FreeBlocks(i)' = FreeBlocks(i)
  BY <1>2, <1>14, <1>15 DEF FreeBlocks, InHand
<1>19. ASSUME NEW c \in FreeBlocks(p), c # b, c # N
       PROVE  /\ c.size \in Nat \ {0} /\ Offset(c) \in Nat
              /\ Apart(Offset(c), c.size, Offset(M), M.size)
              /\ Apart(Offset(M), M.size, Offset(c), c.size)
  <2>1. Apart(Offset(c), c.size, Offset(b), b.size) /\ Apart(Offset(c), c.size, Offset(N), N.size)
    BY <1>7, <1>19 DEF IInv, FreePlaced
  <2>2. c.size \in Nat \ {0} /\ Offset(c) \in Nat
    BY FreeBlocksFacts, BlockFacts DEF IInv
  <2> QED BY <1>4, <1>5, <1>10, <2>1, <2>2 DEF Apart
<1>20. FreePlaced'
  <2>1. ASSUME NEW i \in DOMAIN pools', NEW c \in FreeBlocks(i)'
        PROVE  Offset(c) + c.size <= pools'[i].page_count
    <3>1. Offset(M) + M.size <= pools[p].page_count
      BY <1>4, <1>5, <1>8, <1>10
    <3>2. CASE i = p
      BY <1>15, <1>17, <3>1, <3>2 DEF IInv, FreePlaced
    <3>3. CASE i # p
      BY <1>15, <1>18, <3>3 DEF IInv, FreePlaced
    <3> QED BY <3>2, <3>3
  <2>2. ASSUME NEW i \in DOMAIN pools', NEW c \in FreeBlocks(i)', NEW d \in FreeBlocks(i)', c # d
        PROVE  Apart(Offset(c), c.size, Offset(d), d.size)
    <3>1. CASE i # p
      BY <1>15, <1>18, <2>2, <3>1 DEF IInv, FreePlaced
    <3>2. CASE i = p
      <4>1. CASE c \in FreeBlocks(p) \ {b, N} /\ d \in FreeBlocks(p) \ {b, N}
        BY <2>2, <4>1 DEF IInv, FreePlaced
      <4> QED BY <1>17, <1>19, <2>2, <3>2, <4>1
    <3> QED BY <3>1, <3>2
  <2> QED BY <2>1, <2>2 DEF FreePlaced
<1>21. GivenPlaced'
  <2>1. ASSUME NEW i \in DOMAIN pools', NEW c \in FreeBlocks(i)', NEW g \in given
        PROVE  Apart(pools'[i].base + Offset(c), c.size, g.ptr, g.size)
    <3>1. CASE i = p /\ c = M
      <4>1. /\ Apart(pools[p].base + Offset(b), b.size, g.ptr, g.size)
            /\ Apart(pools[p].base + Offset(N), N.size, g.ptr, g.size)
        BY <1>7 DEF IInv, GivenPlaced
      <4>2. g.ptr \in Nat /\ g.size \in Nat \ {0}
        BY GivenFacts DEF IInv
      <4>3. Apart(pools[p].base + Offset(M), M.size, g.ptr, g.size)
        BY <1>4, <1>5, <1>10, <4>1, <4>2 DEF Apart
      <4> QED BY <1>15, <3>1, <4>3
    <3>2. CASE ~(i = p /\ c = M)
      BY <1>15, <1>17, <1>18, <3>2, Zenon DEF IInv, GivenPlaced
    <3> QED BY <3>1, <3>2
  <2> QED BY <1>12, <1>15, <2>1 DEF IInv, GivenPlaced
<1>22. NothingLost'
  <2> SUFFICES ASSUME NEW i \in DOMAIN pools', NEW x \in PoolPages(pools'[i])
               PROVE  \/ \E g \in given' : x \in Pages(g.ptr, g.size)
                      \/ \E c \in FreeBlocks(i)' : x \in BlockPages(pools'[i], c)
    BY DEF NothingLost
  <2>1. PoolPages(pools'[i]) = PoolPages(pools[i])
    BY <1>15 DEF PoolPages
  <2>2. \A c : BlockPages(pools'[i], c) = BlockPages(pools[i], c)
    BY <1>15 DEF BlockPages
  <2>3. CASE \E g \in given : x \in Pages(g.ptr, g.size)
    BY <1>12, <2>3
  <2>4. ASSUME NEW c \in FreeBlocks(i), x \in BlockPages(pools[i], c)
        PROVE  \E d \in FreeBlocks(i)' : x \in BlockPages(pools'[i], d)
    <3>1. CASE i = p /\ (c = b \/ c = N)
      <4>1. x \in BlockPages(pools[p], M)
        BY <1>4, <1>5, <1>10, <2>4, <3>1 DEF BlockPages, Pages, Offset
      <4> QED BY <1>17, <2>2, <3>1, <4>1
    <3>2. CASE ~(i = p /\ (c = b \/ c = N))
      BY <1>15, <1>17, <1>18, <2>2, <2>4, <3>2
    <3> QED BY <3>1, <3>2
  <2> QED BY <1>15, <2>1, <2>3, <2>4 DEF IInv, NothingLost
<1>23. HandSound' /\ FailedSound'
  <2>1. M \notin A
    <3>1. ~Apart(Offset(M), M.size, Offset(M), M.size)
      BY <1>4, <1>10 DEF Apart
    <3>2. M # b
      BY <1>4, <1>10
    <3> QED BY <1>7, <1>19, <3>1, <3>2 DEF A
  <2> QED BY <1>3, <1>12, <1>14, <1>15, <2>1 DEF IInv, HandSound, FailedSound
<1>24. FullyMerged'
  <2>1. \A i \in DOMAIN pools : pools'[i].avail \subseteq pools[i].avail
    BY <1>15 DEF A
  <2> QED BY <1>15, <2>1 DEF IInv, FullyMerged
<1> QED BY <1>15, <1>16, <1>20, <1>21, <1>22, <1>23, <1>24 DEF IInv

\* The invariant holds in every state of the allocator.
THEOREM Invariance == Spec => []IInv
<1>1. Init => IInv
  BY InitIInv
<1>2. IInv /\ [Next]_vars => IInv'
  <2> SUFFICES ASSUME IInv, [Next]_vars PROVE IInv'
    OBVIOUS
  <2>1. ASSUME NEW r \in Regions, pmm_register_mem(r) PROVE IInv'
    BY <2>1, StepRegisterMem
  <2>2. ASSUME NEW s \in BlockSizes, RegisterPool(s) PROVE IInv'
    BY <2>2, StepRegisterPool
  <2>3. ASSUME NEW n \in Requests, pmm_alloc(n) PROVE IInv'
    BY <2>3, StepAlloc
  <2>4. CASE SplitRound
    BY <2>4, StepSplitRound
  <2>5. CASE AllocDone
    BY <2>5, StepAllocDone
  <2>6. ASSUME NEW g \in given, NEW n \in Requests \cup BlockSizes, pmm_free(g, n) PROVE IInv'
    BY <2>6, StepFree
  <2>7. CASE MergeRound
    BY <2>7, StepMergeRound
  <2>8. CASE FreeDone
    BY <2>8, StepFreeDone
  <2>9. CASE UNCHANGED vars
    <3>1. FreePlaced' /\ GivenPlaced' /\ NothingLost' /\ FullyMerged'
      BY <2>9, BlocksUnchanged DEF vars
    <3>2. TypeOK' /\ PoolsPlaced' /\ RestPlaced' /\ HandSound' /\ FailedSound'
      BY <2>9, Zenon DEF vars, IInv, TypeOK, PoolsPlaced, RestPlaced, HandSound, FailedSound, CanServe
    <3> QED BY <3>1, <3>2 DEF IInv
  <2> QED BY <2>1, <2>2, <2>3, <2>4, <2>5, <2>6, <2>7, <2>8, <2>9 DEF Next
<1> QED BY <1>1, <1>2, PTL DEF Spec

-----------------------------------------------------------------------------
(***************************************************************************)
(* What follows from it.                                                   *)
(***************************************************************************)
\* Ranges that are apart share no page.
LEMMA ApartPages ==
  ASSUME NEW a \in Int, NEW n \in Int, NEW b \in Int, NEW m \in Int, Apart(a, n, b, m)
  PROVE  Pages(a, n) \cap Pages(b, m) = {}
BY DEF Apart, Pages

\* pmm_alloc, pmm_free and pmm_register_mem keep the pages of the memory map
\* partitioned, in every state of their loops, for every memory map and every
\* sequence of calls.
THEOREM Partition == Spec => []PagesPartitioned
<1>1. IInv => PagesPartitioned
  <2> SUFFICES ASSUME IInv PROVE PagesPartitioned
    OBVIOUS
  <2>1. \A g, h \in given : g # h => Pages(g.ptr, g.size) \cap Pages(h.ptr, h.size) = {}
    <3> SUFFICES ASSUME NEW g \in given, NEW h \in given, g # h
                 PROVE  Pages(g.ptr, g.size) \cap Pages(h.ptr, h.size) = {}
      OBVIOUS
    <3>1. Apart(g.ptr, g.size, h.ptr, h.size)
      BY DEF IInv, GivenPlaced
    <3> QED BY <3>1, GivenFacts, ApartPages DEF IInv
  <2>2. ASSUME NEW i \in DOMAIN pools, NEW b \in FreeBlocks(i), NEW c \in FreeBlocks(i), b # c
        PROVE  BlockPages(pools[i], b) \cap BlockPages(pools[i], c) = {}
    <3>1. Apart(Offset(b), b.size, Offset(c), c.size)
      BY <2>2 DEF IInv, FreePlaced
    <3>2. /\ b.size \in Nat /\ Offset(b) \in Nat /\ c.size \in Nat /\ Offset(c) \in Nat
          /\ pools[i].base \in Nat
      BY FreeBlocksFacts, BlockFacts, PoolFacts DEF IInv
    <3>3. Apart(pools[i].base + Offset(b), b.size, pools[i].base + Offset(c), c.size)
      BY <3>1, <3>2 DEF Apart
    <3>4. Pages(pools[i].base + Offset(b), b.size) \cap Pages(pools[i].base + Offset(c), c.size) = {}
      BY <3>2, <3>3, ApartPages
    <3> QED BY <3>4 DEF BlockPages, Offset
  <2>3. ASSUME NEW i \in DOMAIN pools, NEW b \in FreeBlocks(i), NEW g \in given
        PROVE  BlockPages(pools[i], b) \cap Pages(g.ptr, g.size) = {}
    <3>1. Apart(pools[i].base + Offset(b), b.size, g.ptr, g.size)
      BY DEF IInv, GivenPlaced
    <3>2. b.size \in Nat /\ Offset(b) \in Nat /\ pools[i].base \in Nat /\ g.ptr \in Nat /\ g.size \in Nat
      BY FreeBlocksFacts, BlockFacts, PoolFacts, GivenFacts DEF IInv
    <3>3. Pages(pools[i].base + Offset(b), b.size) \cap Pages(g.ptr, g.size) = {}
      BY <3>1, <3>2, ApartPages
    <3> QED BY <3>3 DEF BlockPages, Offset
  <2>4. NoOverlap
    BY <2>1, <2>2, <2>3 DEF NoOverlap
  <2>5. ASSUME NEW i \in DOMAIN pools, NEW j \in DOMAIN pools, i # j
        PROVE  PoolPages(pools[i]) \cap PoolPages(pools[j]) = {}
    <3>1. Apart(pools[i].base, pools[i].page_count, pools[j].base, pools[j].page_count)
      BY <2>5 DEF IInv, PoolsPlaced
    <3> QED BY <3>1, PoolFacts, ApartPages DEF IInv, PoolPages
  <2>6. ASSUME NEW i \in DOMAIN pools
        PROVE  \E r \in Regions : PoolPages(pools[i]) \subseteq Pages(r.base, r.pages)
    <3>1. PICK r \in Regions : Within(pools[i].base, pools[i].page_count, r.base, r.pages)
      BY DEF IInv, PoolsPlaced
    <3>2. r.base \in Nat /\ r.pages \in Nat /\ pools[i].base \in Nat /\ pools[i].page_count \in Nat
      BY PoolFacts, RegionsAssumption DEF IInv
    <3>3. PoolPages(pools[i]) \subseteq Pages(r.base, r.pages)
      BY <3>1, <3>2 DEF PoolPages, Pages, Within
    <3> QED BY <3>3
  <2>7. PoolsInMemoryMap
    BY <2>5, <2>6 DEF PoolsInMemoryMap
  <2> QED BY <2>4, <2>7 DEF PagesPartitioned, IInv
<1> QED BY <1>1, Invariance, PTL

\* pmm_alloc answers nullptr only if no pool has a place.  The argument: if a
\* run of the rounded size were free, take the smallest free block in it.  Its
\* neighbour is free too, and nothing in the run is smaller, so that the
\* neighbour is available as one block: the two would have been merged.
LEMMA Served == IInv => FailsOnlyWhenFull
<1> SUFFICES ASSUME IInv, failed # 0,
                    NEW i \in DOMAIN pools, NEW s \in BlockSizes, Rounded(failed, s),
                    NEW k \in 0..((pools[i].page_count \div s) - 1),
                    \A g \in given :
                      Pages(pools[i].base + k * s, s) \cap Pages(g.ptr, g.size) = {}
             PROVE  FALSE
  BY DEF FailsOnlyWhenFull
<1> DEFINE p == pools[i]
           run == [size |-> s, index |-> k]
           T == {b \in p.avail : ~Apart(Offset(b), b.size, Offset(run), run.size)}
<1>1. op = Idle /\ FreeBlocks(i) = p.avail /\ p.avail \subseteq Blocks
  BY FreeBlocksIdle, PoolFacts DEF IInv, HandSound
<1>2. /\ s \in Nat \ {0} /\ p.page_count \in Nat \ {0} /\ p.base \in Nat /\ k \in Nat
  BY PoolFacts, BlockSizesAssumption DEF IInv
<1>3. run \in Blocks /\ run.size = s /\ Offset(run) = s * k /\ s * k = k * s /\ s * k \in Nat
  BY <1>2 DEF Blocks, Offset
<1>4. s * k + s <= p.page_count
  <2> DEFINE d == p.page_count \div s
  <2>1. d \in Nat /\ s * d <= p.page_count
    BY <1>2
  <2>2. k + 1 <= d
    BY <1>2, <2>1
  <2> HIDE DEF d
  <2>3. s * (k + 1) <= s * d
    BY <1>2, <2>1, <2>2
  <2>4. s * (k + 1) = s * k + s
    BY <1>2
  <2> QED BY <1>2, <1>3, <2>1, <2>3, <2>4
<1>5. \A b \in p.avail : b.size < s
  BY <1>1, <1>2, BlockFacts DEF IInv, FailedSound, CanServe
<1> HIDE DEF p
<1>6. ASSUME NEW x \in Nat, Offset(run) <= x, x < Offset(run) + s
      PROVE  \E b \in T : Offset(b) <= x /\ x < Offset(b) + b.size
  <2> DEFINE y == p.base + x
  <2>1. y \in Pages(p.base + k * s, s)
    BY <1>2, <1>3, <1>6 DEF Pages
  <2>2. y \in PoolPages(p)
    BY <1>2, <1>3, <1>4, <1>6 DEF PoolPages, Pages
  <2>3. ~ \E g \in given : y \in Pages(g.ptr, g.size)
    BY <2>1 DEF p
  <2>4. PICK b \in p.avail : y \in BlockPages(p, b)
    BY <1>1, <2>2, <2>3 DEF IInv, NothingLost, p
  <2>5. b.size \in Nat /\ Offset(b) \in Nat
    BY <1>1, BlockFacts
  <2>6. Offset(b) <= x /\ x < Offset(b) + b.size
    BY <1>2, <1>6, <2>4, <2>5 DEF BlockPages, Pages, Offset
  <2>7. ~Apart(Offset(b), b.size, Offset(run), run.size)
    BY <1>2, <1>3, <1>6, <2>5, <2>6 DEF Apart
  <2> QED BY <2>6, <2>7
<1> HIDE DEF run
<1>7. PICK b \in T : \A c \in T : b.size <= c.size
  <2> DEFINE Sizes == {c.size : c \in T}
  <2>1. Sizes \in SUBSET Nat
    BY <1>1, BlockFacts
  <2>2. Sizes # {}
    BY <1>2, <1>3, <1>6
  <2>3. PICK z \in Sizes : \A y \in Sizes : z <= y
    BY <2>1, <2>2, NatMin, Zenon
  <2> QED BY <2>3
<1>8. b \in Blocks /\ b \in p.avail /\ b.size < s /\ b.size \in BlockSizes
      /\ b.size \in Nat \ {0} /\ Offset(b) \in Nat
  BY <1>1, <1>5, BlockFacts
<1>9. 2 * b.size \in BlockSizes /\ 2 * b.size <= s
  BY <1>8, BlockSizesAssumption
<1> DEFINE N == Neighbor(b)
           M == Merged(b)
<1>10. /\ N \in Blocks /\ N # b /\ N.size = b.size /\ Offset(N) \in Nat
       /\ M \in Blocks /\ M.size = 2 * b.size /\ Offset(M) \in Nat
       /\ \/ Offset(M) = Offset(b) /\ Offset(N) = Offset(b) + b.size
          \/ Offset(M) = Offset(N) /\ Offset(b) = Offset(N) + b.size
  BY <1>8, <1>9, MergedFacts, NeighborFacts, BlockFacts
<1> HIDE DEF N, M
\* The block and its neighbour are in the run.
<1>11. Offset(run) <= Offset(M) /\ Offset(M) + M.size <= Offset(run) + s
  <2>1. ~Apart(Offset(M), M.size, Offset(run), run.size)
    BY <1>2, <1>3, <1>8, <1>10 DEF Apart
  <2>2. Within(Offset(M), M.size, Offset(run), run.size)
    BY <1>3, <1>9, <1>10, <2>1, Nested
  <2> QED BY <1>3, <2>2 DEF Within
\* A free block holds the first page of the neighbour.
<1>12. PICK c \in T : Offset(c) <= Offset(N) /\ Offset(N) < Offset(c) + c.size
  BY <1>2, <1>3, <1>6, <1>8, <1>10, <1>11
<1>13. c \in Blocks /\ c \in p.avail /\ c.size \in Nat \ {0} /\ Offset(c) \in Nat
       /\ c.size \in BlockSizes /\ b.size <= c.size
  BY <1>1, <1>7, BlockFacts
<1>14. c # b
  BY <1>8, <1>10, <1>12
<1>15. Apart(Offset(b), b.size, Offset(c), c.size)
  BY <1>1, <1>8, <1>13, <1>14 DEF IInv, FreePlaced, p
<1>16. CASE c.size = b.size
  <2>1. ~Apart(Offset(N), N.size, Offset(c), c.size)
    BY <1>8, <1>10, <1>12, <1>13 DEF Apart
  <2>2. Within(Offset(N), N.size, Offset(c), c.size)
    BY <1>10, <1>13, <1>16, <2>1, Nested
  <2>3. Offset(N) = Offset(c)
    BY <1>10, <1>13, <1>16, <2>2 DEF Within
  <2>4. c = N
    <3>1. c.size * c.index = c.size * N.index /\ c.index \in Nat /\ N.index \in Nat
      BY <1>10, <1>13, <1>16, <2>3, BlockFacts DEF Offset
    <3>2. c.index = N.index
      BY <1>13, <3>1
    <3> QED BY <1>10, <1>13, <1>16, <3>2, BlockFacts
  <2>5. b.size # p.page_count
    BY <1>2, <1>3, <1>4, <1>8
  <2> QED BY <1>8, <1>13, <2>4, <2>5 DEF N, p, IInv, FullyMerged
<1>17. CASE c.size # b.size
  <2>1. M.size <= c.size
    BY <1>8, <1>10, <1>13, <1>17, BlockSizesAssumption
  <2>2. ~Apart(Offset(M), M.size, Offset(c), c.size)
    BY <1>8, <1>10, <1>12, <1>13 DEF Apart
  <2>3. Within(Offset(M), M.size, Offset(c), c.size)
    BY <1>10, <1>13, <2>1, <2>2, Nested
  <2> QED BY <1>8, <1>10, <1>13, <1>15, <2>3 DEF Within, Apart
<1> QED BY <1>16, <1>17

\* An owner that frees what it was given never reaches a panic of pmm_free or
\* free_from_pool, a free block and its neighbour are merged, and a request
\* fails only if no pool has a place for it.
THEOREM ServedAndFreed == Spec => []FreeMemoryServed
<1>1. IInv => FreeNeverPanics
  <2> SUFFICES ASSUME IInv PROVE FreeNeverPanics
    OBVIOUS
  <2>1. ASSUME NEW g \in given
        PROVE  \E i \in DOMAIN pools :
                 /\ InPool(g.ptr, i)
                 /\ \A j \in (i + 1)..Len(pools) : ~InPool(g.ptr, j)
                 /\ g.ptr + g.size <= pools[i].base + pools[i].page_count
                 /\ (g.ptr - pools[i].base) % g.size = 0
    <3>1. PICK i \in DOMAIN pools :
            /\ Within(g.ptr, g.size, pools[i].base, pools[i].page_count)
            /\ (g.ptr - pools[i].base) % g.size = 0
      BY DEF IInv, GivenPlaced
    <3>2. /\ g.ptr \in Nat /\ g.size \in Nat \ {0} /\ i \in 1..Len(pools)
          /\ pools[i].base \in Nat /\ pools[i].page_count \in Nat
      BY GivenFacts, PoolFacts DEF IInv
    <3>3. InPool(g.ptr, i)
      BY <3>1, <3>2 DEF Within, InPool
    <3>4. ASSUME NEW j \in (i + 1)..Len(pools), InPool(g.ptr, j) PROVE FALSE
      <4>1. j \in DOMAIN pools /\ j # i
        BY <3>2 DEF IInv, TypeOK
      <4>2. pools[j].base \in Nat /\ pools[j].page_count \in Nat
        BY <4>1, PoolFacts DEF IInv
      <4>3. Apart(pools[i].base, pools[i].page_count, pools[j].base, pools[j].page_count)
        BY <4>1 DEF IInv, PoolsPlaced
      <4> QED BY <3>2, <3>3, <3>4, <4>2, <4>3 DEF InPool, Apart
    <3> QED BY <3>1, <3>3, <3>4 DEF Within
  <2> QED BY <2>1 DEF FreeNeverPanics, IInv, HandSound
<1>2. IInv => FreeMemoryServed
  BY <1>1, Served DEF FreeMemoryServed, IInv
<1> QED BY <1>2, Invariance, PTL
=============================================================================
