---------------------------- MODULE MemoryProofs ----------------------------
(***************************************************************************)
(* The heap (Heap), for every layout of its pools and every sequence of    *)
(* calls; and the page tables with the TLB (Mmu), for every layout of the  *)
(* address space and every number of frames.                               *)
(***************************************************************************)
EXTENDS Heap, SequenceTheorems, FiniteSetTheorems, TLAPS

\* What a leaf that names no prover is tried with, in turn.
USE SMTT(10), Zenon, SMTT(30)

-----------------------------------------------------------------------------
\* Arithmetic that both parts use.

\* A frame number that is large enough is past the end.
LEMMA FrameBelow ==
  ASSUME NEW f \in Nat, NEW c \in Nat, NEW s \in Nat, NEW o \in Nat, s > 0,
         f * s + o < c * s
  PROVE  f < c
<1> SUFFICES ASSUME c <= f PROVE FALSE
  OBVIOUS
<1>1. PICK d \in Nat : f = c + d
  <2>1. f - c \in Nat /\ f = c + (f - c)
    OBVIOUS
  <2> QED BY <2>1
<1>2. f * s = c * s + d * s
  BY <1>1
<1>3. d * s >= 0 /\ d * s \in Int /\ c * s \in Int /\ f * s \in Int
  OBVIOUS
<1> QED BY <1>2, <1>3

\* Quotient and remainder.
LEMMA DivMod ==
  ASSUME NEW a \in Nat, NEW s \in Nat, s > 0
  PROVE  \E q, r \in Nat : q = a \div s /\ r = a % s /\ r < s /\ a = q * s + r
<1>1. a \div s \in Nat /\ a % s \in Nat /\ a % s < s
  OBVIOUS
<1>2. PICK q \in Nat : q = a \div s
  BY <1>1
<1>3. q * s <= a /\ a < (q + 1) * s
  BY <1>2
<1>4. PICK r \in Nat : a = q * s + r /\ r < s
  <2>1. a - q * s \in Nat /\ a = q * s + (a - q * s) /\ a - q * s < s
    BY <1>3
  <2> QED BY <2>1
<1>5. r = a % s
  BY <1>4
<1> QED BY <1>2, <1>4, <1>5

-----------------------------------------------------------------------------
(***************************************************************************)
(* The heap.  HeapOk is the inductive invariant, of any value of the list  *)
(* of pools, the count of free blocks and the allocations, so that a call  *)
(* that does several things (make the first pool, take blocks, give blocks *)
(* back) is proved one after the other.                                    *)
(***************************************************************************)
PoolType == [memsize : Nat, words : Nat, start : Nat, block_count : Nat, free : SUBSET Nat, used : Int]
AllocType == [pool : Nat, index : Nat, block_count : Nat \ {0}, size : Nat]

FreeOf(ps) == UNION {{<<i, k>> : k \in ps[i].free} : i \in DOMAIN ps}
PoolFits(p) ==
  /\ p.start + p.block_count * BLOCK_SIZE <= p.memsize
  /\ p.block_count <= p.words * BitsPerWord
  /\ HeaderSize + p.words * WordSize <= p.start
  /\ p.start % MaxAlign = 0

PoolsOk(ps) ==
  /\ ps \in Seq(PoolType)
  /\ \A i \in 1..Len(ps) :
       /\ PoolFits(ps[i])
       /\ \A k \in ps[i].free : k < ps[i].block_count
       /\ IsFiniteSet(ps[i].free)
       /\ ps[i].used = ps[i].block_count - Cardinality(ps[i].free)

\* Each allocation is inside its pool, they share no block with each other or
\* with free memory, and no block is missing.
AllocsOk(ps, al) ==
  /\ \A a \in al :
       /\ a \in AllocType /\ a.pool \in 1..Len(ps)
       /\ a.size + Overhead <= a.block_count * BLOCK_SIZE
       /\ \A k \in Run(a.index, a.block_count) :
            k < ps[a.pool].block_count /\ k \notin ps[a.pool].free
  /\ \A a, b \in al : a # b /\ a.pool = b.pool =>
       \A k \in Run(a.index, a.block_count) : k \notin Run(b.index, b.block_count)
  /\ \A i \in 1..Len(ps) : \A k \in 0..(ps[i].block_count - 1) :
       k \in ps[i].free \/ \E a \in al : a.pool = i /\ k \in Run(a.index, a.block_count)

HeapOk(ps, count, al) ==
  /\ PoolsOk(ps) /\ AllocsOk(ps, al)
  /\ IsFiniteSet(FreeOf(ps)) /\ count = Cardinality(FreeOf(ps))

HeapInv ==
  /\ HeapOk(pools, s_free_block_count, allocs)
  /\ FailsOnlyWhenFull

\* A free block is one in the bitmap of its pool.
LEMMA FreeElement ==
  ASSUME NEW ps, NEW i, NEW k
  PROVE  <<i, k>> \in FreeOf(ps) <=> i \in DOMAIN ps /\ k \in ps[i].free
BY DEF FreeOf

\* The blocks of one pool, as pairs, are as many as their numbers.
LEMMA PairCount ==
  ASSUME NEW i, NEW K, IsFiniteSet(K)
  PROVE  /\ IsFiniteSet({<<i, k>> : k \in K})
         /\ Cardinality({<<i, k>> : k \in K}) = Cardinality(K)
<1> DEFINE T == {<<i, k>> : k \in K}
           f == [k \in K |-> <<i, k>>]
<1>1. f \in [K -> T] /\ \A k \in K : f[k] = <<i, k>>
  OBVIOUS
<1>2. \A k, l \in K : f[k] = f[l] => k = l
  BY <1>1
<1>3. \A t \in T : \E k \in K : f[k] = t
  BY <1>1
<1> HIDE DEF f
<1>4. f \in Bijection(K, T)
  <2> HIDE DEF T
  <2> QED BY <1>1, <1>2, <1>3 DEF Bijection, Injection, Surjection, IsInjective
<1> HIDE DEF T
<1>5. ExistsBijection(K, T)
  BY <1>4 DEF ExistsBijection
<1>6. IsFiniteSet(T) /\ Cardinality(T) = Cardinality(K)
  BY <1>5, FS_Bijection
<1> QED BY <1>6 DEF T

\* The blocks of a run, as pairs.
Paired(i, b) == {<<i, k>> : k \in b}

LEMMA PairedCount ==
  ASSUME NEW i, NEW K, IsFiniteSet(K)
  PROVE  IsFiniteSet(Paired(i, K)) /\ Cardinality(Paired(i, K)) = Cardinality(K)
BY PairCount, Zenon DEF Paired

\* A run of n blocks.
LEMMA RunFacts ==
  ASSUME NEW b \in Nat, NEW n \in Nat
  PROVE  /\ IsFiniteSet(Run(b, n)) /\ Cardinality(Run(b, n)) = n
         /\ \A k \in Run(b, n) : k \in Nat /\ b <= k /\ k < b + n
         /\ n > 0 => b \in Run(b, n)
<1>1. IsFiniteSet(b..(b + n - 1)) /\ Cardinality(b..(b + n - 1)) = IF b > b + n - 1 THEN 0 ELSE b + n - 1 - b + 1
  BY FS_Interval
<1> QED BY <1>1 DEF Run

\* A call changes the bitmap and the counter of one pool.
Changed(ps, i, F, u) == [ps EXCEPT ![i].free = F, ![i].used = u]

\* The other pools, and what else the pool holds, stay as they are.
OnlyChanged(ps, qs, i, F, u) ==
  /\ qs \in Seq(PoolType) /\ Len(qs) = Len(ps) /\ DOMAIN qs = DOMAIN ps
  /\ \A j \in 1..Len(ps) : j # i => qs[j] = ps[j]
  /\ qs[i].free = F /\ qs[i].used = u /\ qs[i].block_count = ps[i].block_count
  /\ qs[i].words = ps[i].words /\ qs[i].start = ps[i].start /\ qs[i].memsize = ps[i].memsize

LEMMA ChangePool ==
  ASSUME NEW ps \in Seq(PoolType), NEW i \in 1..Len(ps), NEW F \in SUBSET Nat, NEW u \in Int,
         NEW qs, qs = Changed(ps, i, F, u)
  PROVE  OnlyChanged(ps, qs, i, F, u)
<1> DEFINE e == [ps[i] EXCEPT !.free = F, !.used = u]
<1>1. ps[i] \in PoolType
  BY ElementOfSeq
<1>2. e \in PoolType
  BY <1>1, Zenon DEF PoolType
<1>3. qs = [ps EXCEPT ![i] = e]
  BY Zenon DEF Changed
<1>6. /\ e.free = F /\ e.used = u /\ e.block_count = ps[i].block_count
      /\ e.words = ps[i].words /\ e.start = ps[i].start /\ e.memsize = ps[i].memsize
  BY <1>1 DEF PoolType
<1> HIDE DEF e
<1>4. [ps EXCEPT ![i] = e] \in Seq(PoolType) /\ Len([ps EXCEPT ![i] = e]) = Len(ps)
  BY <1>2, ExceptSeq
<1>5. /\ \A j \in 1..Len(ps) : j # i => [ps EXCEPT ![i] = e][j] = ps[j]
      /\ [ps EXCEPT ![i] = e][i] = e
  OBVIOUS
<1> QED BY <1>3, <1>4, <1>5, <1>6 DEF OnlyChanged

\* Multiples of the alignment.
LEMMA Multiples ==
  ASSUME NEW a \in Nat, NEW s \in Nat, s > 0, NEW h \in Nat, h % s = 0
  PROVE  (h + (a + (s - (a % s)))) % s = 0
<1>1. PICK q \in Nat, r \in Nat : r = a % s /\ r < s /\ a = q * s + r
  BY DivMod
<1>2. PICK p \in Nat, o \in Nat : o = h % s /\ h = p * s + o
  BY DivMod
<1>3. h + (a + (s - (a % s))) = (p + q + 1) * s
  BY <1>1, <1>2
<1>4. PICK z \in Nat : z = p + q + 1
  OBVIOUS
<1>5. (z * s) % s = 0
  OBVIOUS
<1> QED BY <1>3, <1>4, <1>5

\* size_to_blocks rounds up.
LEMMA RoundedUp ==
  ASSUME NEW size \in Nat, NEW unit \in Nat, unit > 0
  PROVE  /\ size_to_blocks(size, unit) \in Nat
         /\ size <= size_to_blocks(size, unit) * unit
         /\ size_to_blocks(size, unit) * unit < size + unit
         /\ size > 0 => size_to_blocks(size, unit) > 0
<1>1. size + unit - 1 \in Nat
  OBVIOUS
<1>2. PICK q, r \in Nat : /\ q = (size + unit - 1) \div unit /\ r < unit
                          /\ size + unit - 1 = q * unit + r
  BY <1>1, DivMod
<1>3. PICK x \in Int : x = q * unit
  OBVIOUS
<1>4. size <= x /\ x < size + unit
  BY <1>2, <1>3
<1>5. q = 0 => x = 0
  BY <1>3
<1> QED BY <1>2, <1>3, <1>4, <1>5 DEF size_to_blocks

\* add_mem: the whole pages hold a whole number of blocks, and what is left of
\* them after header and bitmap is used.
LEMMA PoolLayout ==
  ASSUME LayoutAssumption, RoomAssumption, NEW m \in Expansions \cup {InitialMemory}
  PROVE  /\ m \in Nat /\ WordCount(m) \in Nat /\ HeaderSize + BitmapSize(m) \in Nat
         /\ PoolBlockCount(m) \in Nat
         /\ HeaderSize + BitmapSize(m) + PoolBlockCount(m) * BLOCK_SIZE <= m
         /\ PoolBlockCount(m) <= WordCount(m) * BitsPerWord
         /\ WordCount(m) * WordSize <= BitmapSize(m)
         /\ (HeaderSize + BitmapSize(m)) % MaxAlign = 0
<1>0. /\ BLOCK_SIZE \in Nat /\ BLOCK_SIZE > 0 /\ ARCH_PAGESIZE \in Nat /\ ARCH_PAGESIZE > 0
      /\ MaxAlign \in Nat /\ MaxAlign > 0 /\ WordSize \in Nat /\ BitsPerWord \in Nat /\ BitsPerWord > 0
      /\ HeaderSize \in Nat /\ HeaderSize % MaxAlign = 0 /\ ARCH_PAGESIZE % BLOCK_SIZE = 0
      /\ m \in Nat
  BY DEF LayoutAssumption
<1>1. PICK pc, rest \in Nat : pc = PageCount(m) /\ m = pc * ARCH_PAGESIZE + rest
  BY <1>0, DivMod DEF PageCount
<1>2. PICK mem \in Nat : mem = pc * ARCH_PAGESIZE /\ mem <= m
  BY <1>0, <1>1
<1>3. PICK t \in Nat : t = TotalBlocks(m) /\ t * BLOCK_SIZE = mem
  <2>0. \E d, o \in Nat : /\ d = ARCH_PAGESIZE \div BLOCK_SIZE /\ o = ARCH_PAGESIZE % BLOCK_SIZE
                           /\ o < BLOCK_SIZE /\ ARCH_PAGESIZE = d * BLOCK_SIZE + o
    <3>1. ARCH_PAGESIZE \in Nat /\ BLOCK_SIZE \in Nat /\ BLOCK_SIZE > 0
      BY <1>0
    <3> QED BY <3>1, DivMod, Zenon
  <2>1. PICK d, o \in Nat : o = ARCH_PAGESIZE % BLOCK_SIZE /\ ARCH_PAGESIZE = d * BLOCK_SIZE + o
    BY <2>0, Zenon
  <2>2. PICK e \in Nat : e = pc * d
    OBVIOUS
  <2>3. mem = e * BLOCK_SIZE
    BY <1>0, <1>2, <2>1, <2>2
  <2>4. (mem + BLOCK_SIZE - 1) \div BLOCK_SIZE = e
    BY <1>0, <2>3
  <2> QED BY <1>1, <1>2, <2>3, <2>4 DEF TotalBlocks, size_to_blocks
<1>4. PICK w \in Nat : w = WordCount(m) /\ t <= w * BitsPerWord
  BY <1>0, <1>3, RoundedUp, Zenon DEF WordCount
<1>5. PICK ws \in Nat : ws = w * WordSize
  BY <1>0
<1>6. PICK bs \in Nat : bs = BitmapSize(m) /\ ws <= bs
  <2>1. BitmapSize(m) = ws + (MaxAlign - (ws % MaxAlign))
    BY <1>4, <1>5 DEF BitmapSize
  <2>2. ws % MaxAlign \in Nat /\ ws % MaxAlign < MaxAlign
    BY <1>0
  <2> QED BY <1>0, <2>1, <2>2
<1>7. (HeaderSize + bs) % MaxAlign = 0
  BY <1>0, <1>4, <1>5, <1>6, Multiples, Zenon DEF BitmapSize
<1>8. mem - bs - HeaderSize \in Nat
  BY <1>0, <1>3, <1>6 DEF RoomAssumption
<1>9. PICK n, left \in Nat : /\ n = PoolBlockCount(m)
                             /\ mem - bs - HeaderSize = n * BLOCK_SIZE + left
  <2>1. PICK x \in Nat : x = mem - bs - HeaderSize
    BY <1>8, Zenon
  <2>2. PICK q, r \in Nat : /\ q = x \div BLOCK_SIZE /\ r = x % BLOCK_SIZE
                            /\ r < BLOCK_SIZE /\ x = q * BLOCK_SIZE + r
    <3>1. BLOCK_SIZE \in Nat /\ BLOCK_SIZE > 0
      BY <1>0
    <3> QED BY <2>1, <3>1, DivMod
  <2>3. PoolBlockCount(m) = x \div BLOCK_SIZE
    BY <1>3, <1>6, <2>1, Zenon DEF PoolBlockCount
  <2> QED BY <2>1, <2>2, <2>3, Zenon
<1>10. n <= t
  <2>1. n * BLOCK_SIZE <= t * BLOCK_SIZE
    <3>1. PICK x \in Nat : x = n * BLOCK_SIZE
      BY <1>0
    <3> QED BY <1>0, <1>3, <1>6, <1>9, <3>1
  <2> QED BY <1>0, <2>1
<1>11. n <= w * BitsPerWord
  <2>1. PICK x \in Nat : x = w * BitsPerWord
    BY <1>0
  <2> QED BY <1>4, <1>10, <2>1
<1>12. HeaderSize + bs + n * BLOCK_SIZE <= m
  <2>1. PICK x \in Nat : x = n * BLOCK_SIZE
    BY <1>0
  <2> QED BY <1>0, <1>2, <1>6, <1>9, <2>1
<1> QED BY <1>0, <1>4, <1>5, <1>6, <1>7, <1>9, <1>11, <1>12

\* The heap without pools.
LEMMA HeapStart == HeapOk(<< >>, 0, {})
<1>1. FreeOf(<< >>) = {}
  BY DEF FreeOf
<1>2. IsFiniteSet({}) /\ Cardinality({}) = 0
  BY FS_EmptySet
<1>3. PoolsOk(<< >>) /\ AllocsOk(<< >>, {})
  BY DEF PoolsOk, AllocsOk
<1> QED BY <1>1, <1>2, <1>3 DEF HeapOk

\* add_mem puts a pool, all free, behind the others.
LEMMA PoolAdded ==
  ASSUME LayoutAssumption, RoomAssumption, NEW m \in Expansions \cup {InitialMemory},
         NEW ps, NEW count, NEW al, HeapOk(ps, count, al)
  PROVE  HeapOk(Append(ps, NewPool(m)), count + PoolBlockCount(m), al)
<1>0. ps \in Seq(PoolType)
  BY DEF HeapOk, PoolsOk
<1>1. PICK n \in Nat : n = PoolBlockCount(m)
  BY PoolLayout
<1>2. PICK new \in PoolType :
        /\ new = NewPool(m) /\ new.block_count = n /\ new.free = 0..(n - 1) /\ new.used = 0
        /\ new.memsize = m /\ new.words = WordCount(m) /\ new.start = HeaderSize + BitmapSize(m)
  <2>1. PICK w, st, sz \in Nat : w = WordCount(m) /\ st = HeaderSize + BitmapSize(m) /\ sz = m
    BY PoolLayout
  <2>2. NewPool(m) = [memsize |-> sz, words |-> w, start |-> st, block_count |-> n,
                      free |-> 0..(n - 1), used |-> 0]
    BY <1>1, <2>1 DEF NewPool
  <2>3. 0..(n - 1) \in SUBSET Nat
    OBVIOUS
  <2> QED BY <2>1, <2>2, <2>3 DEF PoolType
<1>3. PoolFits(new)
  <2>1. HeaderSize + WordCount(m) * WordSize <= HeaderSize + BitmapSize(m)
    <3>1. HeaderSize \in Nat /\ WordSize \in Nat
      BY DEF LayoutAssumption
    <3>2. PICK x \in Nat : x = WordCount(m) * WordSize
      BY <3>1, PoolLayout
    <3>3. BitmapSize(m) \in Int
      BY <3>1, PoolLayout DEF LayoutAssumption, BitmapSize
    <3> QED BY <3>1, <3>2, <3>3, PoolLayout
  <2>2. /\ HeaderSize + BitmapSize(m) + n * BLOCK_SIZE <= m
        /\ n <= WordCount(m) * BitsPerWord /\ (HeaderSize + BitmapSize(m)) % MaxAlign = 0
    BY <1>1, PoolLayout
  <2> QED BY <1>2, <2>1, <2>2 DEF PoolFits
<1>4. PICK qs : qs = Append(ps, new)
  BY Zenon
<1>5. /\ qs \in Seq(PoolType) /\ Len(qs) = Len(ps) + 1
      /\ \A i \in 1..Len(ps) : qs[i] = ps[i]
      /\ qs[Len(ps) + 1] = new
  BY <1>0, <1>4, AppendProperties
<1>6. PICK l \in Nat : l = Len(ps) /\ DOMAIN ps = 1..l /\ DOMAIN qs = 1..(l + 1) /\ Len(qs) = l + 1
  BY <1>0, <1>5
<1>7. IsFiniteSet(new.free) /\ Cardinality(new.free) = n
  <2>1. IsFiniteSet(0..(n - 1)) /\ Cardinality(0..(n - 1)) = IF 0 > n - 1 THEN 0 ELSE n - 1 - 0 + 1
    BY FS_Interval
  <2> QED BY <1>2, <2>1
<1>8. PoolsOk(qs)
  <2> SUFFICES ASSUME NEW i \in 1..(l + 1)
               PROVE  /\ PoolFits(qs[i])
                      /\ \A k \in qs[i].free : k < qs[i].block_count
                      /\ IsFiniteSet(qs[i].free)
                      /\ qs[i].used = qs[i].block_count - Cardinality(qs[i].free)
    BY <1>5, <1>6 DEF PoolsOk
  <2>1. CASE i \in 1..l
    BY <2>1, <1>5, <1>6 DEF HeapOk, PoolsOk
  <2>2. CASE i = l + 1
    BY <2>2, <1>2, <1>3, <1>5, <1>6, <1>7
  <2> QED BY <2>1, <2>2
<1>9. AllocsOk(qs, al)
  <2>1. \A a \in al : a.pool \in 1..(l + 1) /\ qs[a.pool] = ps[a.pool]
    BY <1>5, <1>6 DEF HeapOk, AllocsOk
  <2>2. \A i \in 1..(l + 1) : \A k \in 0..(qs[i].block_count - 1) :
          k \in qs[i].free \/ \E a \in al : a.pool = i /\ k \in Run(a.index, a.block_count)
    <3> SUFFICES ASSUME NEW i \in 1..(l + 1), NEW k \in 0..(qs[i].block_count - 1), k \notin qs[i].free
                 PROVE  \E a \in al : a.pool = i /\ k \in Run(a.index, a.block_count)
      OBVIOUS
    <3>1. i \in 1..l
      BY <1>2, <1>5, <1>6
    <3> QED BY <3>1, <1>5, <1>6 DEF HeapOk, AllocsOk
  <2> QED BY <1>6, <2>1, <2>2 DEF HeapOk, AllocsOk
<1>10. IsFiniteSet(FreeOf(qs)) /\ Cardinality(FreeOf(qs)) = count + n
  <2> DEFINE T == {<<l + 1, k>> : k \in new.free}
  <2>1. FreeOf(qs) = FreeOf(ps) \cup T
    <3>1. \A i \in 1..l : qs[i].free = ps[i].free
      BY <1>5, <1>6
    <3>2. qs[l + 1].free = new.free /\ 1..(l + 1) = (1..l) \cup {l + 1}
      BY <1>5, <1>6
    <3> QED BY <1>6, <3>1, <3>2 DEF FreeOf
  <2>2. FreeOf(ps) \cap T = {}
    BY <1>6 DEF FreeOf
  <2>3. IsFiniteSet(T) /\ Cardinality(T) = n
    BY <1>7, PairCount, Zenon
  <2> HIDE DEF T
  <2>4. IsFiniteSet(FreeOf(ps)) /\ count = Cardinality(FreeOf(ps)) /\ count \in Nat
    BY FS_CardinalityType DEF HeapOk
  <2>5. /\ IsFiniteSet(FreeOf(ps) \cup T)
        /\ Cardinality(FreeOf(ps) \cup T) = Cardinality(FreeOf(ps)) + Cardinality(T) - Cardinality(FreeOf(ps) \cap T)
    BY <2>3, <2>4, FS_Union
  <2>6. Cardinality(FreeOf(ps) \cap T) = 0
    BY <2>2, FS_EmptySet
  <2> QED BY <2>1, <2>3, <2>4, <2>5, <2>6
<1> QED BY <1>1, <1>2, <1>4, <1>8, <1>9, <1>10 DEF HeapOk

\* The free blocks after those of one pool have become F.
LEMMA FreeChanged ==
  ASSUME NEW ps, NEW qs, NEW i \in DOMAIN ps, DOMAIN qs = DOMAIN ps,
         \A j \in DOMAIN ps : j # i => qs[j].free = ps[j].free
  PROVE  /\ ps[i].free \subseteq qs[i].free =>
              FreeOf(qs) = FreeOf(ps) \cup {<<i, k>> : k \in qs[i].free \ ps[i].free}
         /\ qs[i].free \subseteq ps[i].free =>
              FreeOf(qs) = FreeOf(ps) \ {<<i, k>> : k \in ps[i].free \ qs[i].free}
<1>1. \A x : x \in FreeOf(ps) <=> \E j \in DOMAIN ps : \E k \in ps[j].free : x = <<j, k>>
  BY DEF FreeOf
<1>2. \A x : x \in FreeOf(qs) <=> \E j \in DOMAIN ps : \E k \in qs[j].free : x = <<j, k>>
  BY DEF FreeOf
<1>3. ASSUME ps[i].free \subseteq qs[i].free
      PROVE  FreeOf(qs) = FreeOf(ps) \cup {<<i, k>> : k \in qs[i].free \ ps[i].free}
  BY <1>1, <1>2, <1>3
<1>4. ASSUME qs[i].free \subseteq ps[i].free
      PROVE  FreeOf(qs) = FreeOf(ps) \ {<<i, k>> : k \in ps[i].free \ qs[i].free}
  BY <1>1, <1>2, <1>4
<1> QED BY <1>3, <1>4

\* The same where blocks are only taken.
OnlyTaken(ps, qs, i) ==
  /\ i \in DOMAIN ps /\ DOMAIN qs = DOMAIN ps
  /\ \A j \in DOMAIN ps : j # i => qs[j].free = ps[j].free
  /\ qs[i].free \subseteq ps[i].free

LEMMA FreeTaken ==
  ASSUME NEW ps, NEW qs, NEW i, OnlyTaken(ps, qs, i)
  PROVE  FreeOf(qs) = FreeOf(ps) \ Paired(i, ps[i].free \ qs[i].free)
BY FreeChanged DEF Paired, OnlyTaken

\* And where they are only given back.
OnlyGiven(ps, qs, i) ==
  /\ i \in DOMAIN ps /\ DOMAIN qs = DOMAIN ps
  /\ \A j \in DOMAIN ps : j # i => qs[j].free = ps[j].free
  /\ ps[i].free \subseteq qs[i].free

LEMMA FreeGiven ==
  ASSUME NEW ps, NEW qs, NEW i, OnlyGiven(ps, qs, i)
  PROVE  FreeOf(qs) = FreeOf(ps) \cup Paired(i, qs[i].free \ ps[i].free)
BY FreeChanged DEF Paired, OnlyGiven

\* The blocks R of pool i, as pairs, are free together or not at all.
LEMMA PairsFree ==
  ASSUME NEW ps, NEW i \in DOMAIN ps, NEW R
  PROVE  /\ R \subseteq ps[i].free => FreeOf(ps) \cap {<<i, k>> : k \in R} = {<<i, k>> : k \in R}
         /\ R \cap ps[i].free = {} => FreeOf(ps) \cap {<<i, k>> : k \in R} = {}
<1> DEFINE T == {<<i, k>> : k \in R}
<1>1. \A x : x \in FreeOf(ps) <=> \E j \in DOMAIN ps : \E k \in ps[j].free : x = <<j, k>>
  BY DEF FreeOf
<1>2. \A x : x \in T <=> \E k \in R : x = <<i, k>>
  OBVIOUS
<1> HIDE DEF T
<1>3. ASSUME R \subseteq ps[i].free PROVE FreeOf(ps) \cap T = T
  <2>1. \A x \in T : x \in FreeOf(ps)
    BY <1>1, <1>2, <1>3, Zenon
  <2> QED BY <2>1, Zenon
<1>4. ASSUME R \cap ps[i].free = {} PROVE FreeOf(ps) \cap T = {}
  <2>1. ASSUME NEW x \in T, x \in FreeOf(ps) PROVE FALSE
    <3>1. PICK j \in DOMAIN ps : \E k \in ps[j].free : x = <<j, k>>
      BY <1>1, <2>1, Zenon
    <3>4. PICK k \in ps[j].free : x = <<j, k>>
      BY <3>1, Zenon
    <3>2. PICK l \in R : x = <<i, l>>
      BY <1>2, Zenon
    <3>3. j = i /\ k = l
      BY <3>4, <3>2
    <3> QED BY <1>4, <3>3, Zenon
  <2> QED BY <2>1, Zenon
<1> QED BY <1>3, <1>4, Zenon DEF T

\* alloc_from_pool takes a run of free blocks.
LEMMA BlocksTaken ==
  ASSUME NEW ps, NEW count, NEW al, HeapOk(ps, count, al),
         NEW i \in 1..Len(ps), NEW b, NEW n \in Nat \ {0}, NEW size \in Nat,
         b \in ps[i].free, Run(b, n) \subseteq ps[i].free, size + Overhead <= n * BLOCK_SIZE
  PROVE  LET new == [pool |-> i, index |-> b, block_count |-> n, size |-> size]
         IN  new \notin al /\ HeapOk(Take(ps, i, b, n), count - n, al \cup {new})
<1>0. ps \in Seq(PoolType) /\ ps[i] \in PoolType /\ DOMAIN ps = 1..Len(ps) /\ i \in Nat
  BY ElementOfSeq DEF HeapOk, PoolsOk
<1>1. b \in Nat /\ ps[i].free \in SUBSET Nat /\ ps[i].used \in Int /\ ps[i].block_count \in Nat
  BY <1>0 DEF PoolType
<1>2. PICK new \in AllocType : /\ new = [pool |-> i, index |-> b, block_count |-> n, size |-> size]
                               /\ new.pool = i /\ new.index = b /\ new.block_count = n /\ new.size = size
  <2>1. [pool |-> i, index |-> b, block_count |-> n, size |-> size] \in AllocType
    BY <1>0, <1>1 DEF AllocType
  <2> QED BY <2>1
<1>3. PICK R : R = Run(b, n) /\ R \subseteq ps[i].free /\ b \in R /\ IsFiniteSet(R) /\ Cardinality(R) = n
  BY <1>1, RunFacts
<1>4. PICK F \in SUBSET Nat, u \in Int : F = ps[i].free \ R /\ u = ps[i].used + n
  <2>1. ps[i].free \ R \in SUBSET Nat /\ ps[i].used + n \in Int
    BY <1>1
  <2> QED BY <2>1, Zenon
<1>5. PICK qs : qs = Changed(ps, i, F, u)
  OBVIOUS
<1>6. Take(ps, i, b, n) = qs
  BY <1>0, <1>3, <1>4, <1>5 DEF Take, Changed
<1>7. /\ qs \in Seq(PoolType) /\ Len(qs) = Len(ps) /\ DOMAIN qs = DOMAIN ps
      /\ \A j \in 1..Len(ps) : j # i => qs[j] = ps[j]
  <2>1. OnlyChanged(ps, qs, i, F, u)
    BY <1>0, <1>4, <1>5, ChangePool
  <2> QED BY <2>1, Zenon DEF OnlyChanged
<1>8. /\ qs[i].free = F /\ qs[i].used = u /\ qs[i].block_count = ps[i].block_count
      /\ qs[i].words = ps[i].words /\ qs[i].start = ps[i].start /\ qs[i].memsize = ps[i].memsize
  <2>1. OnlyChanged(ps, qs, i, F, u)
    BY <1>0, <1>4, <1>5, ChangePool
  <2> QED BY <2>1, Zenon DEF OnlyChanged
<1>9. \A a \in al : a.pool = i => \A k \in Run(a.index, a.block_count) : k \notin R
  BY <1>3, Zenon DEF HeapOk, AllocsOk
<1>10. new \notin al
  BY <1>2, <1>3, <1>9
<1>11. /\ IsFiniteSet(ps[i].free) /\ IsFiniteSet(F)
       /\ Cardinality(ps[i].free) \in Nat /\ Cardinality(F) = Cardinality(ps[i].free) - n
  <2>1. IsFiniteSet(ps[i].free)
    BY DEF HeapOk, PoolsOk
  <2>2. ps[i].free \cap R = R
    BY <1>3
  <2>3. /\ IsFiniteSet(ps[i].free \ R)
        /\ Cardinality(ps[i].free \ R) = Cardinality(ps[i].free) - Cardinality(ps[i].free \cap R)
    BY <2>1, FS_Difference, Zenon
  <2>4. Cardinality(ps[i].free) \in Nat
    BY <2>1, FS_CardinalityType
  <2> QED BY <1>3, <1>4, <2>1, <2>2, <2>3, <2>4, Zenon
<1>12. PoolsOk(qs)
  <2> SUFFICES ASSUME NEW j \in 1..Len(ps)
               PROVE  /\ PoolFits(qs[j])
                      /\ \A k \in qs[j].free : k < qs[j].block_count
                      /\ IsFiniteSet(qs[j].free)
                      /\ qs[j].used = qs[j].block_count - Cardinality(qs[j].free)
    BY <1>7 DEF PoolsOk
  <2>1. CASE j # i
    BY <2>1, <1>7 DEF HeapOk, PoolsOk
  <2>2. CASE j = i
    <3>1. PoolFits(ps[i]) /\ (\A k \in ps[i].free : k < ps[i].block_count)
      BY Zenon DEF HeapOk, PoolsOk
    <3>2. ps[i].used = ps[i].block_count - Cardinality(ps[i].free)
      BY DEF HeapOk, PoolsOk
    <3>3. PoolFits(qs[i])
      BY <1>8, <3>1, Zenon DEF PoolFits
    <3>4. u = ps[i].block_count - Cardinality(F)
      <4>1. PICK c \in Nat, d, m \in Int : c = Cardinality(ps[i].free) /\ d = Cardinality(F) /\ m = ps[i].block_count
        <5>1. Cardinality(F) \in Nat
          BY <1>11, FS_CardinalityType, Zenon
        <5>2. Cardinality(F) \in Int /\ ps[i].block_count \in Int
          BY <1>1, <5>1
        <5> QED BY <1>11, <5>2, Zenon
      <4>2. d = c - n
        BY <1>11, <4>1, Zenon
      <4>3. u = (m - c) + n
        BY <1>4, <3>2, <4>1, Zenon
      <4>4. u = m - d
        BY <4>2, <4>3
      <4> QED BY <4>1, <4>4, Zenon
    <3> QED BY <2>2, <1>4, <1>8, <1>11, <3>1, <3>3, <3>4, Zenon
  <2> QED BY <2>1, <2>2
<1>13. AllocsOk(qs, al \cup {new})
  <2>1. \A a \in al :
          /\ a \in AllocType /\ a.pool \in 1..Len(qs)
          /\ a.size + Overhead <= a.block_count * BLOCK_SIZE
          /\ \A k \in Run(a.index, a.block_count) : k < qs[a.pool].block_count /\ k \notin qs[a.pool].free
    BY <1>4, <1>7, <1>8 DEF HeapOk, AllocsOk
  <2>2. /\ new \in AllocType /\ new.pool \in 1..Len(qs)
        /\ new.size + Overhead <= new.block_count * BLOCK_SIZE
        /\ \A k \in Run(new.index, new.block_count) : k < qs[new.pool].block_count /\ k \notin qs[new.pool].free
    <3>1. \A k \in R : k < ps[i].block_count /\ k \notin F
      BY <1>3, <1>4 DEF HeapOk, PoolsOk
    <3> QED BY <1>2, <1>3, <1>7, <1>8, <3>1, Zenon
  <2>3. \A a, c \in al \cup {new} : a # c /\ a.pool = c.pool =>
          \A k \in Run(a.index, a.block_count) : k \notin Run(c.index, c.block_count)
    <3>1. \A a, c \in al : a # c /\ a.pool = c.pool =>
            \A k \in Run(a.index, a.block_count) : k \notin Run(c.index, c.block_count)
      BY Zenon DEF HeapOk, AllocsOk
    <3>2. Run(new.index, new.block_count) = R /\ new.pool = i
      BY <1>2, <1>3, Zenon
    <3> QED BY <1>9, <3>1, <3>2, Zenon
  <2>4. ASSUME NEW j \in 1..Len(qs), NEW k \in 0..(qs[j].block_count - 1)
        PROVE  k \in qs[j].free \/ \E a \in al \cup {new} : a.pool = j /\ k \in Run(a.index, a.block_count)
    <3>1. k \in ps[j].free \/ \E a \in al : a.pool = j /\ k \in Run(a.index, a.block_count)
      <4>1. qs[j].block_count = ps[j].block_count /\ j \in 1..Len(ps)
        BY <1>7, <1>8, Zenon
      <4> QED BY <4>1, Zenon DEF HeapOk, AllocsOk
    <3>2. k \in ps[j].free => k \in qs[j].free \/ (j = i /\ k \in R)
      BY <1>4, <1>7, <1>8
    <3> QED BY <1>2, <1>3, <3>1, <3>2, Zenon
  <2> QED BY <2>1, <2>2, <2>3, <2>4, Zenon DEF AllocsOk
<1>14. IsFiniteSet(FreeOf(qs)) /\ Cardinality(FreeOf(qs)) = count - n
  <2> DEFINE T == {<<i, k>> : k \in R}
  <2>1. ps[i].free \ qs[i].free = R
    BY <1>3, <1>4, <1>8
  <2>2. FreeOf(qs) = FreeOf(ps) \ T
    <3>1. \A j \in DOMAIN ps : j # i => qs[j].free = ps[j].free
      BY <1>0, <1>7
    <3>2. qs[i].free \subseteq ps[i].free
      BY <1>4, <1>8
    <3>3. FreeOf(qs) = FreeOf(ps) \ Paired(i, ps[i].free \ qs[i].free)
      <4>1. i \in DOMAIN ps /\ DOMAIN qs = DOMAIN ps
        BY <1>0, <1>7, Zenon
      <4>2. OnlyTaken(ps, qs, i)
        BY <3>1, <3>2, <4>1, Zenon DEF OnlyTaken
      <4> QED BY <4>2, FreeTaken, Zenon
    <3> QED BY <2>1, <3>3, Zenon DEF Paired
  <2>3. FreeOf(ps) \cap T = T
    <3>1. R \subseteq ps[i].free /\ i \in DOMAIN ps
      BY <1>0, <1>3
    <3> QED BY <3>1, PairsFree, Zenon
  <2>4. IsFiniteSet(T) /\ Cardinality(T) = n
    <3>1. IsFiniteSet(Paired(i, R)) /\ Cardinality(Paired(i, R)) = n
      BY <1>3, PairedCount, Zenon
    <3> QED BY <3>1, Zenon DEF Paired
  <2> HIDE DEF T
  <2>5. IsFiniteSet(FreeOf(ps)) /\ count = Cardinality(FreeOf(ps))
    BY DEF HeapOk
  <2>6. /\ IsFiniteSet(FreeOf(ps) \ T)
        /\ Cardinality(FreeOf(ps) \ T) = Cardinality(FreeOf(ps)) - Cardinality(FreeOf(ps) \cap T)
    BY <2>5, FS_Difference, Zenon
  <2> QED BY <2>2, <2>3, <2>4, <2>5, <2>6, Zenon
<1> QED BY <1>2, <1>6, <1>10, <1>12, <1>13, <1>14, Zenon DEF HeapOk

\* heap_free gives the blocks of an allocation back to its pool.
LEMMA BlocksGiven ==
  ASSUME NEW ps, NEW count, NEW al, HeapOk(ps, count, al), NEW a \in al
  PROVE  HeapOk(Give(ps, a), count + a.block_count, al \ {a})
<1>1. a \in AllocType /\ a.pool \in 1..Len(ps)
  BY Zenon DEF HeapOk, AllocsOk
<1>2. PICK i \in 1..Len(ps), b \in Nat, n \in Nat : i = a.pool /\ b = a.index /\ n = a.block_count
  BY <1>1 DEF AllocType
<1>0. ps \in Seq(PoolType) /\ ps[i] \in PoolType /\ DOMAIN ps = 1..Len(ps)
  <2>1. ps \in Seq(PoolType)
    BY Zenon DEF HeapOk, PoolsOk
  <2> QED BY <1>2, <2>1, ElementOfSeq
<1>3. ps[i].free \in SUBSET Nat /\ ps[i].used \in Int /\ ps[i].block_count \in Nat
  BY <1>0 DEF PoolType
<1>4. PICK R : /\ R = Run(b, n) /\ IsFiniteSet(R) /\ Cardinality(R) = n /\ R \in SUBSET Nat
               /\ \A k \in R : k < ps[i].block_count /\ k \notin ps[i].free
  <2>1. \A k \in Run(b, n) : k < ps[i].block_count /\ k \notin ps[i].free
    BY <1>2, Zenon DEF HeapOk, AllocsOk
  <2>2. Run(b, n) \in SUBSET Nat
    BY <1>2, RunFacts, Zenon
  <2> QED BY <1>2, <2>1, <2>2, RunFacts, Zenon
<1>5. PICK F \in SUBSET Nat, u \in Int : F = ps[i].free \cup R /\ u = ps[i].used - n
  <2>1. ps[i].free \cup R \in SUBSET Nat /\ ps[i].used - n \in Int
    BY <1>2, <1>3, <1>4
  <2> QED BY <2>1, Zenon
<1>6. PICK qs : qs = Changed(ps, i, F, u) /\ qs = Give(ps, a)
  <2>1. Give(ps, a) = Changed(ps, i, F, u)
    BY <1>0, <1>2, <1>4, <1>5 DEF Give, Changed
  <2> QED BY <2>1
<1>7. /\ qs \in Seq(PoolType) /\ Len(qs) = Len(ps) /\ DOMAIN qs = DOMAIN ps
      /\ \A j \in 1..Len(ps) : j # i => qs[j] = ps[j]
  <2>1. OnlyChanged(ps, qs, i, F, u)
    BY <1>0, <1>2, <1>5, <1>6, ChangePool
  <2> QED BY <2>1, Zenon DEF OnlyChanged
<1>8. /\ qs[i].free = F /\ qs[i].used = u /\ qs[i].block_count = ps[i].block_count
      /\ qs[i].words = ps[i].words /\ qs[i].start = ps[i].start /\ qs[i].memsize = ps[i].memsize
  <2>1. OnlyChanged(ps, qs, i, F, u)
    BY <1>0, <1>2, <1>5, <1>6, ChangePool
  <2> QED BY <2>1, Zenon DEF OnlyChanged
<1>9. ps[i].free \cap R = {} /\ Cardinality({}) = 0
  BY <1>4, FS_EmptySet
<1>10. /\ IsFiniteSet(ps[i].free) /\ IsFiniteSet(F)
       /\ Cardinality(ps[i].free) \in Nat /\ Cardinality(F) = Cardinality(ps[i].free) + n
  <2>1. IsFiniteSet(ps[i].free)
    BY <1>2 DEF HeapOk, PoolsOk
  <2>2. /\ IsFiniteSet(ps[i].free \cup R)
        /\ Cardinality(ps[i].free \cup R) =
             Cardinality(ps[i].free) + Cardinality(R) - Cardinality(ps[i].free \cap R)
    BY <1>4, <2>1, FS_Union, Zenon
  <2>3. Cardinality(ps[i].free) \in Nat
    BY <2>1, FS_CardinalityType
  <2>4. Cardinality(ps[i].free \cap R) = 0
    BY <1>9, Zenon
  <2> QED BY <1>2, <1>4, <1>5, <2>1, <2>2, <2>3, <2>4
<1>11. PoolsOk(qs)
  <2> SUFFICES ASSUME NEW j \in 1..Len(ps)
               PROVE  /\ PoolFits(qs[j])
                      /\ \A k \in qs[j].free : k < qs[j].block_count
                      /\ IsFiniteSet(qs[j].free)
                      /\ qs[j].used = qs[j].block_count - Cardinality(qs[j].free)
    BY <1>7, Zenon DEF PoolsOk
  <2>1. CASE j # i
    BY <2>1, <1>7, Zenon DEF HeapOk, PoolsOk
  <2>2. CASE j = i
    <3>1. PoolFits(ps[i]) /\ (\A k \in ps[i].free : k < ps[i].block_count)
      BY <1>2, Zenon DEF HeapOk, PoolsOk
    <3>2. ps[i].used = ps[i].block_count - Cardinality(ps[i].free)
      BY <1>2 DEF HeapOk, PoolsOk
    <3>3. PoolFits(qs[i])
      BY <1>8, <3>1, Zenon DEF PoolFits
    <3>4. u = ps[i].block_count - Cardinality(F)
      <4> DEFINE f == Cardinality(ps[i].free)
                 g == Cardinality(F)
      <4>1. n \in Nat /\ f \in Nat /\ g = f + n /\ ps[i].block_count \in Nat
        BY <1>2, <1>3, <1>10, Zenon
      <4>2. u = (ps[i].block_count - f) - n
        BY <1>5, <3>2, Zenon
      <4> HIDE DEF f, g
      <4>3. u = ps[i].block_count - g
        BY <4>1, <4>2
      <4> QED BY <4>3 DEF g
    <3>5. \A k \in F : k < ps[i].block_count
      BY <1>4, <1>5, <3>1
    <3> QED BY <2>2, <1>8, <1>10, <3>3, <3>4, <3>5, Zenon
  <2> QED BY <2>1, <2>2
<1>12. AllocsOk(qs, al \ {a})
  <2>1. ASSUME NEW c \in al, c # a, NEW k \in Run(c.index, c.block_count)
        PROVE  k < qs[c.pool].block_count /\ k \notin qs[c.pool].free
    <3>1. k < ps[c.pool].block_count /\ k \notin ps[c.pool].free /\ c.pool \in 1..Len(ps)
      BY Zenon DEF HeapOk, AllocsOk
    <3>2. c.pool = i => k \notin R
      BY <1>2, <1>4, <2>1 DEF HeapOk, AllocsOk
    <3> QED BY <1>5, <1>7, <1>8, <3>1, <3>2
  <2>2. \A c \in al \ {a} :
          /\ c \in AllocType /\ c.pool \in 1..Len(qs)
          /\ c.size + Overhead <= c.block_count * BLOCK_SIZE
          /\ \A k \in Run(c.index, c.block_count) : k < qs[c.pool].block_count /\ k \notin qs[c.pool].free
    BY <1>7, <2>1, Zenon DEF HeapOk, AllocsOk
  <2>3. \A c, d \in al \ {a} : c # d /\ c.pool = d.pool =>
          \A k \in Run(c.index, c.block_count) : k \notin Run(d.index, d.block_count)
    BY Zenon DEF HeapOk, AllocsOk
  <2>4. ASSUME NEW j \in 1..Len(qs), NEW k \in 0..(qs[j].block_count - 1)
        PROVE  k \in qs[j].free \/ \E c \in al \ {a} : c.pool = j /\ k \in Run(c.index, c.block_count)
    <3>1. qs[j].block_count = ps[j].block_count /\ j \in 1..Len(ps)
      BY <1>7, <1>8, Zenon
    <3>2. k \in ps[j].free \/ \E c \in al : c.pool = j /\ k \in Run(c.index, c.block_count)
      BY <3>1, Zenon DEF HeapOk, AllocsOk
    <3>3. k \in ps[j].free \/ (j = i /\ k \in R) => k \in qs[j].free
      BY <1>5, <1>7, <1>8, <3>1, Zenon
    <3> QED BY <1>2, <1>4, <3>2, <3>3
  <2> QED BY <2>2, <2>3, <2>4, Zenon DEF AllocsOk
<1>13. IsFiniteSet(FreeOf(qs)) /\ Cardinality(FreeOf(qs)) = count + n
  <2> DEFINE T == {<<i, k>> : k \in R}
  <2>1. qs[i].free \ ps[i].free = R /\ ps[i].free \subseteq qs[i].free
    BY <1>4, <1>5, <1>8
  <2>2. FreeOf(qs) = FreeOf(ps) \cup T
    <3>1. \A j \in DOMAIN ps : j # i => qs[j].free = ps[j].free
      BY <1>0, <1>7
    <3>2. i \in DOMAIN ps /\ DOMAIN qs = DOMAIN ps
      BY <1>0, <1>2, <1>7, Zenon
    <3>3. FreeOf(qs) = FreeOf(ps) \cup Paired(i, qs[i].free \ ps[i].free)
      <4>1. OnlyGiven(ps, qs, i)
        BY <2>1, <3>1, <3>2, Zenon DEF OnlyGiven
      <4> QED BY <4>1, FreeGiven, Zenon
    <3> QED BY <2>1, <3>3, Zenon DEF Paired
  <2>3. FreeOf(ps) \cap T = {}
    <3>1. R \cap ps[i].free = {} /\ i \in DOMAIN ps
      BY <1>0, <1>9
    <3> QED BY <3>1, PairsFree, Zenon
  <2>4. IsFiniteSet(T) /\ Cardinality(T) = n
    <3>1. IsFiniteSet(Paired(i, R)) /\ Cardinality(Paired(i, R)) = n
      BY <1>4, PairedCount, Zenon
    <3> QED BY <3>1, Zenon DEF Paired
  <2> HIDE DEF T
  <2>5. IsFiniteSet(FreeOf(ps)) /\ count = Cardinality(FreeOf(ps)) /\ count \in Nat
    BY FS_CardinalityType DEF HeapOk
  <2>6. /\ IsFiniteSet(FreeOf(ps) \cup T)
        /\ Cardinality(FreeOf(ps) \cup T) = Cardinality(FreeOf(ps)) + Cardinality(T) - Cardinality(FreeOf(ps) \cap T)
    BY <2>4, <2>5, FS_Union, Zenon
  <2>7. Cardinality(FreeOf(ps) \cap T) = 0
    BY <1>9, <2>3, Zenon
  <2> QED BY <1>2, <2>2, <2>4, <2>5, <2>6, <2>7
<1> QED BY <1>2, <1>6, <1>11, <1>12, <1>13 DEF HeapOk

\* The first call of heap_alloc makes the first pool.
LEMMA HeapMade ==
  ASSUME LayoutAssumption, RoomAssumption, HeapInv
  PROVE  HeapOk(InitialPools, InitialCount, allocs)
<1>1. CASE pools # << >>
  BY <1>1 DEF HeapInv, InitialPools, InitialCount
<1>2. CASE pools = << >>
  <2>1. s_free_block_count = 0
    BY <1>2, FS_EmptySet DEF HeapInv, HeapOk, FreeOf
  <2>2. HeapOk(<< >>, 0, allocs)
    BY <1>2, <2>1 DEF HeapInv
  <2>3. HeapOk(Append(<< >>, NewPool(InitialMemory)), 0 + PoolBlockCount(InitialMemory), allocs)
    BY <2>2, PoolAdded, Zenon
  <2>4. Append(<< >>, NewPool(InitialMemory)) = <<NewPool(InitialMemory)>>
    OBVIOUS
  <2>5. 0 + PoolBlockCount(InitialMemory) = PoolBlockCount(InitialMemory)
    BY PoolLayout
  <2> QED BY <1>2, <2>3, <2>4, <2>5 DEF InitialPools, InitialCount
<1> QED BY <1>1, <1>2

\* The blocks that are asked for hold the request with its header and poison.
LEMMA EnoughBlocks ==
  ASSUME LayoutAssumption, NEW size \in Nat, size # 0
  PROVE  BlockCount(size) \in Nat \ {0} /\ size + Overhead <= BlockCount(size) * BLOCK_SIZE
<1>1. BLOCK_SIZE \in Nat /\ BLOCK_SIZE > 0 /\ Overhead \in Nat
  BY DEF LayoutAssumption
<1>2. size + Overhead \in Nat /\ size + Overhead > 0
  BY <1>1
<1> QED BY <1>1, <1>2, RoundedUp DEF BlockCount

\* heap_alloc: from a pool, or from one that expanding added.
LEMMA AllocInv ==
  ASSUME LayoutAssumption, RoomAssumption, UseAssumption, HeapInv,
         NEW size \in Sizes, NEW zero \in Flags, heap_alloc(size, zero)
  PROVE  HeapInv'
<1>0. size \in Nat
  BY DEF UseAssumption
<1>1. HeapOk(InitialPools, InitialCount, allocs)
  BY HeapMade
<1>2. ASSUME NEW i \in DOMAIN InitialPools, NEW b \in InitialPools[i].free,
             /\ Allocated(size, i, b)
             /\ pools' = Take(InitialPools, i, b, BlockCount(size))
             /\ s_free_block_count' = InitialCount - BlockCount(size)
             /\ allocs' = allocs \cup
                  {[pool |-> i, index |-> b, block_count |-> BlockCount(size), size |-> size]}
             /\ failed' = 0
      PROVE  HeapInv'
  <2>1. BlockCount(size) \in Nat \ {0} /\ size + Overhead <= BlockCount(size) * BLOCK_SIZE
    BY <1>0, <1>2, EnoughBlocks, Zenon DEF Allocated
  <2>2. Run(b, BlockCount(size)) \subseteq InitialPools[i].free
    BY <1>2, Zenon DEF Allocated, FirstRun
  <2>3. i \in 1..Len(InitialPools)
    BY <1>1 DEF HeapOk, PoolsOk
  <2>4. HeapOk(pools', s_free_block_count', allocs')
    BY <1>0, <1>1, <1>2, <2>1, <2>2, <2>3, BlocksTaken, Zenon
  <2> QED BY <1>2, <2>4, Zenon DEF HeapInv, FailsOnlyWhenFull
<1>3. ASSUME NotAllocated(size), failed' = 0, size = 0,
             pools' = pools, s_free_block_count' = s_free_block_count, UNCHANGED allocs
      PROVE  HeapInv'
  BY <1>3 DEF HeapInv, FailsOnlyWhenFull
<1>4. ASSUME NotAllocated(size), failed' = BlockCount(size), size # 0,
             pools' = InitialPools, s_free_block_count' = InitialCount, UNCHANGED allocs
      PROVE  HeapInv'
  <2>1. HeapOk(pools', s_free_block_count', allocs')
    BY <1>1, <1>4
  <2>2. (\A i \in DOMAIN pools' : ~HasRun(pools'[i], failed')) \/ failed' >= s_free_block_count'
    <3>1. InitialCount \in Nat /\ BlockCount(size) \in Nat
      BY <1>0, <1>1, <1>4, EnoughBlocks, FS_CardinalityType DEF HeapOk
    <3>2. (\A i \in DOMAIN InitialPools : ~HasRun(InitialPools[i], BlockCount(size)))
          \/ ~(BlockCount(size) < InitialCount)
      BY <1>4 DEF NotAllocated, Enough
    <3>3. BlockCount(size) >= InitialCount <=> ~(BlockCount(size) < InitialCount)
      BY <3>1
    <3> QED BY <1>4, <3>2, <3>3
  <2> QED BY <2>1, <2>2, Zenon DEF HeapInv, FailsOnlyWhenFull, HasRun
<1> QED BY <1>2, <1>3, <1>4, Zenon DEF heap_alloc

\* heap_free.
LEMMA FreeInv ==
  ASSUME HeapInv, NEW a \in allocs, heap_free(a)
  PROVE  HeapInv'
<1>1. HeapOk(pools', s_free_block_count', allocs')
  BY BlocksGiven DEF heap_free, HeapInv
<1> QED BY <1>1 DEF heap_free, HeapInv, FailsOnlyWhenFull

\* heap_expand.
LEMMA ExpandInv ==
  ASSUME LayoutAssumption, RoomAssumption, HeapInv, NEW m \in Expansions, heap_expand(m)
  PROVE  HeapInv'
<1>1. HeapOk(pools', s_free_block_count', allocs')
  BY PoolAdded DEF heap_expand, HeapInv
<1> QED BY <1>1 DEF heap_expand, HeapInv, FailsOnlyWhenFull

\* heap_realloc takes the new blocks while the old ones are still allocated.
LEMMA ReallocInv ==
  ASSUME LayoutAssumption, RoomAssumption, UseAssumption, HeapInv, NEW a \in allocs,
         NEW size \in Sizes, NEW zero \in Flags, heap_realloc(a, size, zero)
  PROVE  HeapInv'
<1>0. size \in Nat
  BY DEF UseAssumption
<1>1. InitialPools = pools /\ InitialCount = s_free_block_count /\ HeapOk(pools, s_free_block_count, allocs)
  <2>1. pools # << >>
    BY DEF HeapInv, HeapOk, AllocsOk
  <2> QED BY <2>1 DEF InitialPools, InitialCount, HeapInv
<1>2. ASSUME NEW i \in DOMAIN pools, NEW b \in pools[i].free,
             /\ Allocated(size, i, b)
             /\ pools' = Give(Take(pools, i, b, BlockCount(size)), a)
             /\ s_free_block_count' = s_free_block_count - BlockCount(size) + a.block_count
             /\ allocs' = (allocs \ {a}) \cup
                  {[pool |-> i, index |-> b, block_count |-> BlockCount(size), size |-> size]}
             /\ failed' = 0
      PROVE  HeapInv'
  <2>1. BlockCount(size) \in Nat \ {0} /\ size + Overhead <= BlockCount(size) * BLOCK_SIZE
    BY <1>0, <1>2, EnoughBlocks, Zenon DEF Allocated
  <2>2. Run(b, BlockCount(size)) \subseteq pools[i].free
    BY <1>1, <1>2, Zenon DEF Allocated, FirstRun
  <2>3. i \in 1..Len(pools)
    BY <1>1 DEF HeapOk, PoolsOk
  <2>4. PICK new : new = [pool |-> i, index |-> b, block_count |-> BlockCount(size), size |-> size]
    BY Zenon
  <2>5. /\ new \notin allocs
        /\ HeapOk(Take(pools, i, b, BlockCount(size)), s_free_block_count - BlockCount(size), allocs \cup {new})
    BY <1>0, <1>1, <2>1, <2>2, <2>3, <2>4, BlocksTaken, Zenon
  <2>6. HeapOk(pools', s_free_block_count', (allocs \cup {new}) \ {a})
    BY <1>2, <2>5, BlocksGiven, Zenon
  <2>7. (allocs \cup {new}) \ {a} = allocs'
    BY <1>2, <2>4, <2>5, Zenon
  <2>8. HeapOk(pools', s_free_block_count', allocs')
    BY <2>6, <2>7
  <2> QED BY <1>2, <2>8, Zenon DEF HeapInv, FailsOnlyWhenFull
<1>3. ASSUME NotAllocated(size), failed' = IF size = 0 THEN 0 ELSE BlockCount(size),
             UNCHANGED <<pools, s_free_block_count, allocs>>
      PROVE  HeapInv'
  <2>1. HeapOk(pools', s_free_block_count', allocs')
    BY <1>1, <1>3
  <2>2. CASE size = 0
    BY <1>3, <2>1, <2>2 DEF HeapInv, FailsOnlyWhenFull
  <2>3. CASE size # 0
    <3>1. s_free_block_count \in Nat /\ BlockCount(size) \in Nat
      BY <1>0, <1>1, <2>3, EnoughBlocks, FS_CardinalityType DEF HeapOk
    <3>2. (\A i \in DOMAIN pools : ~HasRun(pools[i], BlockCount(size)))
          \/ ~(BlockCount(size) < s_free_block_count)
      BY <1>1, <1>3, <2>3 DEF NotAllocated, Enough
    <3>3. BlockCount(size) >= s_free_block_count <=> ~(BlockCount(size) < s_free_block_count)
      BY <3>1
    <3>4. (\A i \in DOMAIN pools' : ~HasRun(pools'[i], failed')) \/ failed' >= s_free_block_count'
      BY <1>3, <2>3, <3>2, <3>3
    <3> QED BY <2>1, <3>4, Zenon DEF HeapInv, FailsOnlyWhenFull, HasRun
  <2> QED BY <2>2, <2>3
<1> QED BY <1>2, <1>3, Zenon DEF heap_realloc

\* The invariant holds before the first pool is made, and heap_alloc, heap_free,
\* heap_realloc and heap_expand keep it.
THEOREM HeapInvariance ==
  LayoutAssumption /\ RoomAssumption /\ UseAssumption => (Spec => []HeapInv)
<1> SUFFICES ASSUME LayoutAssumption, RoomAssumption, UseAssumption PROVE Spec => []HeapInv
  OBVIOUS
<1>1. Init => HeapInv
  BY HeapStart DEF Init, HeapInv, FailsOnlyWhenFull
<1>2. HeapInv /\ [Next]_vars => HeapInv'
  <2> SUFFICES ASSUME HeapInv, [Next]_vars PROVE HeapInv'
    OBVIOUS
  <2>1. CASE UNCHANGED vars
    BY <2>1 DEF vars, HeapInv, FailsOnlyWhenFull, HasRun
  <2>2. CASE Next
    BY <2>2, AllocInv, FreeInv, ReallocInv, ExpandInv DEF Next
  <2> QED BY <2>1, <2>2
<1> QED BY <1>1, <1>2, PTL DEF Spec

\* heap.c: every block of every pool is free or in exactly one allocation, the
\* counters agree with the bitmaps, allocations have room for what was asked for,
\* pools fit in their memory, and heap_alloc gives up only when it must, for every
\* block size, page size, alignment and sequence of calls.
THEOREM HeapSafety ==
  LayoutAssumption /\ RoomAssumption /\ UseAssumption => (Spec => []HeapConsistent)
<1>1. HeapInv => HeapConsistent
  <2> SUFFICES ASSUME HeapInv PROVE HeapConsistent
    OBVIOUS
  <2>1. pools \in Seq(PoolType) /\ DOMAIN pools = 1..Len(pools)
    BY DEF HeapInv, HeapOk, PoolsOk
  <2>10. \A i \in DOMAIN pools : pools[i].block_count \in Nat /\ pools[i].free \in SUBSET Nat
    <3>1. \A i \in DOMAIN pools : pools[i] \in PoolType
      BY <2>1, ElementOfSeq
    <3> QED BY <3>1 DEF PoolType
  <2>2. FreeBlocks = FreeOf(pools)
    BY DEF FreeBlocks, FreeOf
  <2>3. CountersExact /\ AllocationsLargeEnough
    BY <2>1, <2>2 DEF HeapInv, HeapOk, PoolsOk, AllocsOk, CountersExact, AllocationsLargeEnough
  <2>4. PoolsFit
    <3>1. \A i \in DOMAIN pools : pools[i].block_count >= 0
      BY <2>10
    <3> QED BY <2>1, <3>1 DEF HeapInv, HeapOk, PoolsOk, PoolFits, PoolsFit
  <2>5. \A a, b \in allocs : a # b => BlocksOf(a) \cap BlocksOf(b) = {}
    BY DEF HeapInv, HeapOk, AllocsOk, BlocksOf
  <2>6. \A a \in allocs : BlocksOf(a) \cap FreeBlocks = {}
    BY <2>2 DEF HeapInv, HeapOk, AllocsOk, BlocksOf, FreeOf
  <2>7. FreeBlocks \cup UNION {BlocksOf(a) : a \in allocs} \subseteq AllBlocks
    <3>1. \A i \in DOMAIN pools : \A k \in pools[i].free : k \in 0..(pools[i].block_count - 1)
      <4>1. \A i \in DOMAIN pools : \A k \in pools[i].free : k < pools[i].block_count
        BY <2>1, Zenon DEF HeapInv, HeapOk, PoolsOk
      <4> QED BY <2>10, <4>1
    <3>2. \A a \in allocs : \A k \in Run(a.index, a.block_count) :
            a.pool \in DOMAIN pools /\ k \in 0..(pools[a.pool].block_count - 1)
      <4> SUFFICES ASSUME NEW a \in allocs, NEW k \in Run(a.index, a.block_count)
                   PROVE  a.pool \in DOMAIN pools /\ k \in 0..(pools[a.pool].block_count - 1)
        OBVIOUS
      <4>1. a \in AllocType /\ a.pool \in DOMAIN pools /\ k < pools[a.pool].block_count
        BY <2>1 DEF HeapInv, HeapOk, AllocsOk
      <4>2. a.index \in Nat /\ a.block_count \in Nat
        BY <4>1 DEF AllocType
      <4>3. k \in Nat
        BY <4>2, RunFacts
      <4>4. pools[a.pool].block_count \in Nat
        BY <2>10, <4>1
      <4> QED BY <4>1, <4>3, <4>4
    <3>3. FreeBlocks \subseteq AllBlocks
      BY <3>1 DEF FreeBlocks, AllBlocks
    <3>4. \A a \in allocs : BlocksOf(a) \subseteq AllBlocks
      BY <3>2 DEF AllBlocks, BlocksOf
    <3> QED BY <3>3, <3>4
  <2>8. AllBlocks \subseteq FreeBlocks \cup UNION {BlocksOf(a) : a \in allocs}
    <3> SUFFICES ASSUME NEW i \in DOMAIN pools, NEW k \in 0..(pools[i].block_count - 1)
                 PROVE  <<i, k>> \in FreeBlocks \/ \E a \in allocs : <<i, k>> \in BlocksOf(a)
      BY DEF AllBlocks
    <3>1. k \in pools[i].free \/ \E a \in allocs : a.pool = i /\ k \in Run(a.index, a.block_count)
      BY <2>1 DEF HeapInv, HeapOk, AllocsOk
    <3> QED BY <3>1 DEF FreeBlocks, BlocksOf
  <2>9. BlocksPartitioned
    BY <2>5, <2>6, <2>7, <2>8 DEF BlocksPartitioned
  <2> QED BY <2>3, <2>4, <2>9 DEF HeapConsistent, HeapInv
<1> QED BY <1>1, HeapInvariance, PTL

-----------------------------------------------------------------------------
CONSTANTS Text, RoAfterInit, TrapPage, Vm, ScratchPage, FrameCount, MapFrames,
          PageSize, MaxLen, NotPresent, None
VARIABLES pagetables, tlb, booted, result, access, refused, copy

M == INSTANCE Mmu

-----------------------------------------------------------------------------
(***************************************************************************)
(* The inductive invariant of the page tables.  Beside what is claimed it  *)
(* says that protected pages are always mapped (so that their entries have *)
(* flags to clear), that access and copy exclude each other, that an       *)
(* access that faulted once sees the table's entry, and how far a copy is. *)
(***************************************************************************)
Access == [page : M!Pages, write : BOOLEAN]

RetrySeesTable ==
  access # None =>
    /\ access \in Access /\ copy = None
    /\ refused \in {0, 1}
    /\ refused = 1 => tlb[access.page] \in {NotPresent, pagetables[access.page]}

\* Where the loop of a copy stands.
CopyPlaced ==
  copy # None =>
    /\ copy \in [at : Nat, len : Nat, i : Nat, frame : Nat, offset : Nat, touched : Seq(Int)]
    /\ copy.i <= copy.len /\ copy.at + copy.len <= FrameCount * PageSize
    /\ copy.offset < PageSize
    /\ copy.i < copy.len => copy.frame * PageSize + copy.offset = copy.at + copy.i

MmuInv ==
  /\ M!TypeOK /\ M!TlbSound /\ M!WriteProtected
  /\ \A p \in Text \cup RoAfterInit : pagetables[p] # NotPresent
  /\ RetrySeesTable /\ CopyPlaced /\ M!CopyExact

\* The assumptions on the layout, as the proofs use them.
LEMMA LayoutFacts ==
  ASSUME M!MmuAssumption
  PROVE  /\ NotPresent \notin M!Entry
         /\ \A p \in M!Pages : p \in M!Frames
         /\ \A f \in M!Frames : f \in Nat /\ f < FrameCount
         /\ \A f \in Int : 0 <= f /\ f < FrameCount => f \in M!Frames
         /\ FrameCount \in Nat /\ PageSize \in Nat /\ PageSize > 0 /\ MaxLen \in Nat
         /\ Text \subseteq M!Pages /\ RoAfterInit \subseteq M!Pages /\ Vm \subseteq M!Pages
         /\ TrapPage \in M!Pages /\ ScratchPage \in M!Pages
         /\ \A f \in MapFrames : f \in M!Frames
<1>1. M!Pages \subseteq M!Frames /\ MapFrames \subseteq M!Frames
  BY DEF M!MmuAssumption
<1>2. FrameCount \in Nat /\ PageSize \in Nat /\ PageSize > 0 /\ MaxLen \in Nat
  BY DEF M!MmuAssumption
<1>3. \A f \in M!Frames : f \in Nat /\ f < FrameCount
  BY <1>2 DEF M!Frames
<1>4. \A f \in Int : 0 <= f /\ f < FrameCount => f \in M!Frames
  BY <1>2 DEF M!Frames
<1>5. /\ Text \subseteq M!Pages /\ RoAfterInit \subseteq M!Pages /\ Vm \subseteq M!Pages
      /\ TrapPage \in M!Pages /\ ScratchPage \in M!Pages
  BY DEF M!Pages
<1>6. NotPresent \notin M!Entry
  BY DEF M!MmuAssumption
<1> QED BY <1>1, <1>2, <1>3, <1>4, <1>5, <1>6

\* map_single_page, remap_single_page and arch_mmu_scratch_map flush what the
\* new entries make less permissive or move: the TLB stays sound, and the other
\* pages keep their entries.
LEMMA SetEntriesSound ==
  ASSUME M!MmuAssumption, M!TypeOK, M!TlbSound,
         NEW D \in SUBSET M!Pages, NEW new \in [D -> M!Entry], M!SetEntries(new)
  PROVE  /\ pagetables' \in [M!Pages -> M!Entry \cup {NotPresent}]
         /\ tlb' \in [M!Pages -> M!Entry \cup {NotPresent}]
         /\ M!TlbSound'
         /\ \A p \in D : pagetables'[p] = new[p]
         /\ \A p \in M!Pages \ D : pagetables'[p] = pagetables[p] /\ tlb'[p] = tlb[p]
         /\ result' = 0
<1>1. /\ pagetables' = [p \in M!Pages |-> IF p \in D THEN new[p] ELSE pagetables[p]]
      /\ tlb' = [p \in M!Pages |->
                   IF p \in {q \in D : M!ShouldFlush(pagetables[q], new[q])} THEN NotPresent ELSE tlb[p]]
      /\ result' = 0
  BY DEF M!SetEntries, M!Flush
<1>2. /\ pagetables \in [M!Pages -> M!Entry \cup {NotPresent}]
      /\ tlb \in [M!Pages -> M!Entry \cup {NotPresent}]
  BY DEF M!TypeOK
<1>3. /\ pagetables' \in [M!Pages -> M!Entry \cup {NotPresent}]
      /\ tlb' \in [M!Pages -> M!Entry \cup {NotPresent}]
  BY <1>1, <1>2
<1>4. ASSUME NEW p \in M!Pages, tlb'[p] # NotPresent
      PROVE  /\ pagetables'[p] # NotPresent
             /\ tlb'[p].frame = pagetables'[p].frame
             /\ tlb'[p].rw => pagetables'[p].rw
             /\ tlb'[p].us => pagetables'[p].us
  <2>1. /\ tlb'[p] = tlb[p] /\ pagetables[p] # NotPresent
        /\ tlb[p].frame = pagetables[p].frame
        /\ tlb[p].rw => pagetables[p].rw
        /\ tlb[p].us => pagetables[p].us
    BY <1>1, <1>4 DEF M!TlbSound, M!Present
  <2>2. CASE p \in D
    <3>1. ~M!ShouldFlush(pagetables[p], new[p]) /\ pagetables'[p] = new[p] /\ new[p] # NotPresent
      BY <1>1, <1>4, <2>2 DEF M!MmuAssumption
    <3> QED BY <2>1, <3>1 DEF M!ShouldFlush
  <2>3. CASE p \notin D
    BY <1>1, <2>1, <2>3
  <2> QED BY <2>2, <2>3
<1>5. M!TlbSound'
  BY <1>4 DEF M!TlbSound, M!Present
<1> QED BY <1>1, <1>3, <1>5
\* arch_mmu_unmap flushes every page it unmaps.
LEMMA UnmapSound ==
  ASSUME M!TypeOK, M!TlbSound, NEW D \in SUBSET M!Pages, M!arch_mmu_unmap(D)
  PROVE  /\ pagetables' \in [M!Pages -> M!Entry \cup {NotPresent}]
         /\ tlb' \in [M!Pages -> M!Entry \cup {NotPresent}]
         /\ M!TlbSound'
         /\ \A p \in M!Pages \ D : pagetables'[p] = pagetables[p] /\ tlb'[p] = tlb[p]
         /\ result' \in {-1, 1}
<1>1. /\ pagetables \in [M!Pages -> M!Entry \cup {NotPresent}]
      /\ tlb \in [M!Pages -> M!Entry \cup {NotPresent}]
  BY DEF M!TypeOK
<1>2. CASE M!Fail
  BY <1>1, <1>2 DEF M!Fail, M!TlbSound, M!Present
<1>3. CASE /\ pagetables' = [q \in M!Pages |-> IF q \in D THEN NotPresent ELSE pagetables[q]]
           /\ tlb' = [q \in M!Pages |-> IF q \in D THEN NotPresent ELSE tlb[q]]
           /\ result' = 1
  <2>1. /\ pagetables' \in [M!Pages -> M!Entry \cup {NotPresent}]
        /\ tlb' \in [M!Pages -> M!Entry \cup {NotPresent}]
    BY <1>1, <1>3
  <2>2. M!TlbSound'
    BY <1>3 DEF M!TlbSound, M!Present
  <2> QED BY <1>3, <2>1, <2>2
<1> QED BY <1>2, <1>3 DEF M!arch_mmu_unmap, M!Flush

\* A call on pages that are not protected leaves the protected ones as they are.
LEMMA ProtectionKept ==
  ASSUME M!MmuAssumption, MmuInv, NEW D,
         D \cap (Text \cup RoAfterInit) = {}, booted' = booted,
         \A p \in M!Pages \ D : pagetables'[p] = pagetables[p] /\ tlb'[p] = tlb[p]
  PROVE  /\ M!WriteProtected'
         /\ \A p \in Text \cup RoAfterInit : pagetables'[p] # NotPresent
<1>1. \A p \in Text \cup RoAfterInit : pagetables'[p] = pagetables[p] /\ tlb'[p] = tlb[p]
  BY LayoutFacts
<1> QED BY <1>1 DEF MmuInv, M!WriteProtected, M!Allows

\* While no access is going on, retries do not matter.
LEMMA NoAccess ==
  ASSUME MmuInv, access = None, UNCHANGED <<access, copy>>
  PROVE  RetrySeesTable' /\ CopyPlaced' /\ M!CopyExact'
BY DEF MmuInv, RetrySeesTable, CopyPlaced, M!CopyExact

\* arch_mmu_map and arch_mmu_remap of pages of the VM region.
LEMMA MapInv == ASSUME M!MmuAssumption, MmuInv, M!Map PROVE MmuInv'
<1>1. PICK p \in Vm, n \in 1 .. M!Cardinality(Vm), frame \in MapFrames, read, rw, us \in BOOLEAN :
        /\ M!Range2(p, n) \subseteq Vm /\ frame + n <= FrameCount
        /\ M!arch_mmu_map(p, n, frame, read, rw, us)
  BY DEF M!Map
<1>2. access = None /\ UNCHANGED <<booted, access, refused, copy>>
  BY DEF M!Map
<1> DEFINE D == M!Range2(p, n)
           new == [q \in D |-> [frame |-> frame + (q - p), rw |-> rw, us |-> us]]
<1>3. D \in SUBSET M!Pages /\ D \cap (Text \cup RoAfterInit) = {}
  BY <1>1, LayoutFacts DEF M!MmuAssumption
<1>4. new \in [D -> M!Entry]
  <2>1. p \in Int /\ n \in Int /\ frame \in Nat
    BY <1>1, LayoutFacts
  <2>2. \A q \in D : frame + (q - p) \in M!Frames
    BY <1>1, <2>1, LayoutFacts DEF M!Range2
  <2> QED BY <2>2 DEF M!Entry
<1>5. M!SetEntries(new) \/ M!Fail
  BY <1>1 DEF M!arch_mmu_map
<1> HIDE DEF new, D
<1>6. /\ pagetables' \in [M!Pages -> M!Entry \cup {NotPresent}]
      /\ tlb' \in [M!Pages -> M!Entry \cup {NotPresent}]
      /\ M!TlbSound' /\ result' \in {-1, 0, 1}
      /\ \A q \in M!Pages \ D : pagetables'[q] = pagetables[q] /\ tlb'[q] = tlb[q]
  <2>1. CASE M!SetEntries(new)
    BY <1>3, <1>4, <2>1, SetEntriesSound DEF MmuInv
  <2>2. CASE M!Fail
    BY <2>2 DEF M!Fail, MmuInv, M!TypeOK, M!TlbSound, M!Present
  <2> QED BY <1>5, <2>1, <2>2
<1>7. M!TypeOK'
  BY <1>2, <1>6 DEF MmuInv, M!TypeOK
<1> QED BY <1>2, <1>3, <1>6, <1>7, ProtectionKept, NoAccess DEF MmuInv

\* arch_mmu_remap changes the flags of present entries and flushes them.
LEMMA RemapInv == ASSUME M!MmuAssumption, MmuInv, M!Remap PROVE MmuInv'
<1>1. PICK p \in Vm, n \in 1 .. M!Cardinality(Vm), read, rw, us \in BOOLEAN :
        /\ M!Range2(p, n) \subseteq Vm
        /\ M!arch_mmu_remap(p, n, read, rw, us)
  BY DEF M!Remap
<1>2. access = None /\ UNCHANGED <<booted, access, refused, copy>>
  BY DEF M!Remap, M!Idle
<1> DEFINE D == M!Range2(p, n)
           new == [q \in D |-> [pagetables[q] EXCEPT !.rw = rw, !.us = us]]
<1>3. D \in SUBSET M!Pages /\ D \cap (Text \cup RoAfterInit) = {}
  BY <1>1, LayoutFacts DEF M!MmuAssumption
<1>4. M!Fail \/ (M!SetEntries(new) /\ \A q \in D : pagetables[q] # NotPresent)
  BY <1>1, Zenon DEF M!arch_mmu_remap, M!Present
<1>5. ASSUME \A q \in D : pagetables[q] # NotPresent PROVE new \in [D -> M!Entry]
  <2>1. \A q \in D : pagetables[q] \in M!Entry
    BY <1>3, <1>5 DEF MmuInv, M!TypeOK
  <2> QED BY <2>1, Zenon DEF M!Entry
<1> HIDE DEF new, D
<1>6. /\ pagetables' \in [M!Pages -> M!Entry \cup {NotPresent}]
      /\ tlb' \in [M!Pages -> M!Entry \cup {NotPresent}]
      /\ M!TlbSound' /\ result' \in {-1, 0, 1}
      /\ \A q \in M!Pages \ D : pagetables'[q] = pagetables[q] /\ tlb'[q] = tlb[q]
  <2>1. CASE M!SetEntries(new) /\ new \in [D -> M!Entry]
    BY <1>3, <2>1, SetEntriesSound DEF MmuInv
  <2>2. CASE M!Fail
    BY <2>2 DEF M!Fail, MmuInv, M!TypeOK, M!TlbSound, M!Present
  <2> QED BY <1>4, <1>5, <2>1, <2>2
<1>7. M!TypeOK'
  BY <1>2, <1>6 DEF MmuInv, M!TypeOK
<1> QED BY <1>2, <1>3, <1>6, <1>7, ProtectionKept, NoAccess DEF MmuInv

\* Unmapping flushes what it takes away.
LEMMA UnmapInv == ASSUME M!MmuAssumption, MmuInv, M!Unmap PROVE MmuInv'
<1>1. PICK p \in Vm, n \in 1 .. M!Cardinality(Vm) :
        M!Range2(p, n) \subseteq Vm /\ M!arch_mmu_unmap(M!Range2(p, n))
  BY DEF M!Unmap
<1>2. access = None /\ UNCHANGED <<booted, access, refused, copy>>
  BY DEF M!Unmap, M!Idle
<1>3. PICK D \in SUBSET M!Pages : D \cap (Text \cup RoAfterInit) = {} /\ M!arch_mmu_unmap(D)
  BY <1>1, LayoutFacts DEF M!MmuAssumption
<1>4. /\ pagetables' \in [M!Pages -> M!Entry \cup {NotPresent}]
      /\ tlb' \in [M!Pages -> M!Entry \cup {NotPresent}]
      /\ M!TlbSound' /\ result' \in {-1, 1}
      /\ \A q \in M!Pages \ D : pagetables'[q] = pagetables[q] /\ tlb'[q] = tlb[q]
  BY <1>3, UnmapSound DEF MmuInv
<1>5. M!TypeOK'
  BY <1>2, <1>4 DEF MmuInv, M!TypeOK
<1> QED BY <1>2, <1>3, <1>4, <1>5, ProtectionKept, NoAccess DEF MmuInv

\* WriteProtect(ps) clears the RW flag in the tables, and flushes what the TLB
\* may have cached with it.
LEMMA WriteProtectInv ==
  ASSUME M!MmuAssumption, MmuInv, NEW D \in SUBSET (Text \cup RoAfterInit), M!WriteProtect(D)
  PROVE  /\ pagetables' \in [M!Pages -> M!Entry \cup {NotPresent}]
         /\ tlb' \in [M!Pages -> M!Entry \cup {NotPresent}]
         /\ M!TlbSound' /\ result' = 0
         /\ \A p \in Text \cup RoAfterInit : pagetables'[p] # NotPresent
         /\ \A p \in D : ~M!Allows(tlb[p], TRUE)' /\ ~M!Allows(pagetables[p], TRUE)'
         /\ \A p \in M!Pages \ D : pagetables'[p] = pagetables[p] /\ tlb'[p] = tlb[p]
<1> DEFINE new == [q \in D |-> [pagetables[q] EXCEPT !.rw = FALSE, !.us = FALSE]]
<1>1. D \in SUBSET M!Pages /\ \A q \in D : pagetables[q] \in M!Entry
  BY LayoutFacts DEF MmuInv, M!TypeOK
<1>2. new \in [D -> M!Entry] /\ \A q \in D : new[q].rw = FALSE
  BY <1>1, Zenon DEF M!Entry
<1>3. M!SetEntries(new)
  BY Zenon DEF M!WriteProtect
<1> HIDE DEF new
<1>4. /\ pagetables' \in [M!Pages -> M!Entry \cup {NotPresent}]
      /\ tlb' \in [M!Pages -> M!Entry \cup {NotPresent}]
      /\ M!TlbSound' /\ result' = 0
      /\ \A p \in D : pagetables'[p] = new[p]
      /\ \A p \in M!Pages \ D : pagetables'[p] = pagetables[p] /\ tlb'[p] = tlb[p]
  BY <1>1, <1>2, <1>3, SetEntriesSound DEF MmuInv
<1>5. \A p \in D : new[p] # NotPresent
  BY <1>2, LayoutFacts
<1>6. \A p \in Text \cup RoAfterInit : pagetables'[p] # NotPresent
  BY <1>4, <1>5, LayoutFacts DEF MmuInv
<1>7. ASSUME NEW p \in D PROVE ~M!Allows(tlb[p], TRUE)' /\ ~M!Allows(pagetables[p], TRUE)'
  <2>1. pagetables'[p].rw = FALSE
    BY <1>2, <1>4
  <2>2. tlb'[p] # NotPresent => (tlb'[p].rw => pagetables'[p].rw)
    BY <1>1, <1>4 DEF M!TlbSound
  <2> QED BY <2>1, <2>2 DEF M!Allows
<1> QED BY <1>4, <1>6, <1>7, Zenon

\* The three steps of archi586_init.
LEMMA BootStepInv == ASSUME M!MmuAssumption, MmuInv, M!BootStep PROVE MmuInv'
<1>1. /\ access = None /\ copy = None /\ booted \in 0 .. 2 /\ booted' = booted + 1
      /\ UNCHANGED <<access, refused, copy>>
  BY DEF MmuInv, M!TypeOK, M!BootStep, M!Idle
<1>2. RetrySeesTable' /\ CopyPlaced' /\ M!CopyExact'
  BY <1>1, NoAccess
<1>3. ASSUME pagetables' \in [M!Pages -> M!Entry \cup {NotPresent}],
             tlb' \in [M!Pages -> M!Entry \cup {NotPresent}], result' \in {-1, 0, 1}
      PROVE  M!TypeOK'
  BY <1>1, <1>3 DEF MmuInv, M!TypeOK
<1>4. \A p \in M!Pages :
        /\ tlb'[p] = tlb[p] => (M!Allows(tlb[p], TRUE)' <=> M!Allows(tlb[p], TRUE))
        /\ pagetables'[p] = pagetables[p] =>
             (M!Allows(pagetables[p], TRUE)' <=> M!Allows(pagetables[p], TRUE))
  BY DEF M!Allows
<1>5. CASE booted = 0 /\ M!archi586_mmu_init
  <2>1. PICK D \in SUBSET M!Pages : D \cap (Text \cup RoAfterInit) = {} /\ M!arch_mmu_unmap(D)
    BY <1>5, LayoutFacts DEF M!archi586_mmu_init, M!MmuAssumption
  <2>2. /\ pagetables' \in [M!Pages -> M!Entry \cup {NotPresent}]
        /\ tlb' \in [M!Pages -> M!Entry \cup {NotPresent}]
        /\ M!TlbSound' /\ result' \in {-1, 1}
        /\ \A q \in M!Pages \ D : pagetables'[q] = pagetables[q] /\ tlb'[q] = tlb[q]
    BY <2>1, UnmapSound DEF MmuInv
  <2>3. \A p \in Text \cup RoAfterInit : pagetables'[p] # NotPresent
    BY <2>1, <2>2, LayoutFacts DEF MmuInv
  <2>4. M!WriteProtected'
    BY <1>1, <1>5 DEF M!WriteProtected
  <2> QED BY <1>2, <1>3, <2>2, <2>3, <2>4 DEF MmuInv
<1>6. CASE booted = 1 /\ M!WriteProtect(Text)
  <2>1. M!WriteProtected'
    <3>1. \A p \in Text : ~M!Allows(tlb[p], TRUE)' /\ ~M!Allows(pagetables[p], TRUE)'
      BY <1>6, WriteProtectInv, Zenon
    <3>2. \A p : booted' >= (IF p \in Text THEN 2 ELSE 3) => p \in Text
      BY <1>1, <1>6
    <3> QED BY <3>1, <3>2, Zenon DEF M!WriteProtected
  <2> QED BY <1>2, <1>3, <1>6, <2>1, WriteProtectInv, Zenon DEF MmuInv
<1>7. CASE booted = 2 /\ M!WriteProtect(RoAfterInit)
  <2>1. M!WriteProtected'
    <3>1. /\ \A p \in RoAfterInit : ~M!Allows(tlb[p], TRUE)' /\ ~M!Allows(pagetables[p], TRUE)'
          /\ \A p \in M!Pages \ RoAfterInit : pagetables'[p] = pagetables[p] /\ tlb'[p] = tlb[p]
      BY <1>7, WriteProtectInv, Zenon
    <3>2. \A p \in Text : ~M!Allows(tlb[p], TRUE) /\ ~M!Allows(pagetables[p], TRUE)
      <4>1. \A p \in Text : booted >= (IF p \in Text THEN 2 ELSE 3)
        BY <1>7
      <4> QED BY <4>1, Zenon DEF MmuInv, M!WriteProtected
    <3>3. \A p \in Text \cup RoAfterInit : ~M!Allows(tlb[p], TRUE)' /\ ~M!Allows(pagetables[p], TRUE)'
      BY <1>4, <3>1, <3>2, LayoutFacts, Zenon
    <3> QED BY <3>3, Zenon DEF M!WriteProtected
  <2> QED BY <1>2, <1>3, <1>7, <2>1, WriteProtectInv, Zenon DEF MmuInv
<1> QED BY <1>5, <1>6, <1>7 DEF M!BootStep, M!archi586_mmu_init
\* The processor caches translations, and the kernel accesses pages: a valid
\* access that the TLB refuses is retried with the table's entry.
LEMMA AccessInv ==
  ASSUME M!MmuAssumption, MmuInv,
         \/ \E p \in M!Pages : M!Fill(p) \/ \E write \in BOOLEAN : M!Touch(p, write)
         \/ M!Complete \/ M!vmm_page_fault
  PROVE  MmuInv'
<1>0. /\ pagetables \in [M!Pages -> M!Entry \cup {NotPresent}]
      /\ tlb \in [M!Pages -> M!Entry \cup {NotPresent}]
      /\ M!TlbSound
  BY DEF MmuInv, M!TypeOK
\* One entry of the TLB changes, to nothing or to what the table has.
<1>1. ASSUME NEW p \in M!Pages, NEW e, tlb' = [tlb EXCEPT ![p] = e],
             UNCHANGED <<pagetables, booted, copy>>,
             e \in {NotPresent, tlb[p], pagetables[p]},
             result' = 0, refused' \in Nat, RetrySeesTable'
      PROVE  MmuInv'
  <2>1. /\ tlb' \in [M!Pages -> M!Entry \cup {NotPresent}]
        /\ \A q \in M!Pages : tlb'[q] \in {NotPresent, tlb[q], pagetables[q]}
    BY <1>0, <1>1
  <2>2. M!TypeOK'
    BY <1>1, <2>1 DEF MmuInv, M!TypeOK
  <2>3. M!TlbSound'
    <3> SUFFICES ASSUME NEW q \in M!Pages, tlb'[q] # NotPresent
                 PROVE  /\ pagetables[q] # NotPresent
                        /\ tlb'[q].frame = pagetables[q].frame
                        /\ tlb'[q].rw => pagetables[q].rw
                        /\ tlb'[q].us => pagetables[q].us
      BY <1>1 DEF M!TlbSound, M!Present
    <3>1. CASE tlb'[q] = tlb[q]
      BY <1>0, <3>1 DEF M!TlbSound, M!Present
    <3>2. CASE tlb'[q] = pagetables[q]
      BY <3>2
    <3> QED BY <2>1, <3>1, <3>2
  <2>4. M!WriteProtected'
    <3> SUFFICES ASSUME NEW q \in Text \cup RoAfterInit,
                        ~M!Allows(tlb[q], TRUE), ~M!Allows(pagetables[q], TRUE)
                 PROVE  ~M!Allows(tlb[q], TRUE)' /\ ~M!Allows(pagetables[q], TRUE)'
      BY <1>1, Zenon DEF MmuInv, M!WriteProtected
    <3>1. q \in M!Pages
      BY LayoutFacts
    <3> QED BY <1>1, <2>1, <3>1 DEF M!Allows
  <2>5. CopyPlaced' /\ M!CopyExact'
    BY <1>1 DEF MmuInv, CopyPlaced, M!CopyExact
  <2> QED BY <1>1, <2>2, <2>3, <2>4, <2>5 DEF MmuInv
<1>2. ASSUME NEW p \in M!Pages, M!Fill(p) PROVE MmuInv'
  <2>1. /\ tlb' = [tlb EXCEPT ![p] = pagetables[p]]
        /\ result' = 0 /\ UNCHANGED <<pagetables, booted, access, refused, copy>>
    BY <1>2 DEF M!Fill
  <2>2. RetrySeesTable'
    BY <1>0, <2>1 DEF MmuInv, RetrySeesTable, Access
  <2>3. refused' \in Nat
    BY <2>1 DEF MmuInv, M!TypeOK
  <2> QED BY <1>1, <2>1, <2>2, <2>3, Zenon
<1>3. ASSUME NEW p \in M!Pages, NEW write \in BOOLEAN, M!Touch(p, write) PROVE MmuInv'
  <2>1. /\ access' = [page |-> p, write |-> write] /\ refused' = 0 /\ copy = None
        /\ result' = 0 /\ UNCHANGED <<pagetables, tlb, booted, copy>>
    BY <1>3 DEF M!Touch, M!Idle
  <2>2. RetrySeesTable'
    BY <2>1 DEF RetrySeesTable, Access
  <2>3. tlb' = [tlb EXCEPT ![p] = tlb[p]]
    BY <1>0, <2>1
  <2> QED BY <1>1, <2>1, <2>2, <2>3, Zenon
<1>4. CASE M!Complete
  <2>1. access \in Access /\ access.page \in M!Pages
    BY <1>4 DEF MmuInv, RetrySeesTable, Access, M!Complete
  <2>2. PICK p, e : /\ p = access.page /\ tlb' = [tlb EXCEPT ![p] = e]
                    /\ e \in {tlb[p], pagetables[p]}
                    /\ access' = None /\ refused' = 0
                    /\ result' = 0 /\ UNCHANGED <<pagetables, booted, copy>>
    BY <1>4, Zenon DEF M!Complete
  <2>3. RetrySeesTable'
    BY <2>2 DEF RetrySeesTable
  <2> QED BY <1>1, <2>1, <2>2, <2>3, Zenon
<1>5. CASE M!vmm_page_fault
  <2>1. /\ access \in Access /\ access.page \in M!Pages /\ copy = None
        /\ refused \in {0, 1}
        /\ refused = 1 => tlb[access.page] \in {NotPresent, pagetables[access.page]}
        /\ result' = 0 /\ UNCHANGED <<pagetables, booted, copy>>
    BY <1>5 DEF MmuInv, RetrySeesTable, Access, M!vmm_page_fault
  <2>2. CASE access' = None /\ refused' = 0 /\ UNCHANGED tlb
    <3>1. RetrySeesTable'
      BY <2>2 DEF RetrySeesTable
    <3>2. tlb' = [tlb EXCEPT ![access.page] = tlb[access.page]]
      BY <1>0, <2>2
    <3> QED BY <1>1, <2>1, <2>2, <3>1, <3>2, Zenon
  <2>3. CASE /\ M!Allows(pagetables[access.page], access.write)
             /\ tlb' = [q \in M!Pages |-> IF q \in {access.page} THEN NotPresent ELSE tlb[q]]
             /\ refused' = refused + 1 /\ UNCHANGED access
    <3>1. tlb' = [tlb EXCEPT ![access.page] = NotPresent]
      BY <1>0, <2>3, Zenon
    <3>2. ~M!Allows(IF tlb[access.page] # NotPresent THEN tlb[access.page]
                    ELSE pagetables[access.page], access.write)
      BY <1>5 DEF M!vmm_page_fault
    <3>3. refused # 1
      <4> SUFFICES ASSUME refused = 1 PROVE FALSE
        OBVIOUS
      <4>1. (IF tlb[access.page] # NotPresent THEN tlb[access.page]
             ELSE pagetables[access.page]) = pagetables[access.page]
        BY <2>1
      <4> QED BY <2>3, <3>2, <4>1
    <3>4. tlb'[access.page] = NotPresent /\ refused' = 1
      BY <1>0, <2>1, <3>1, <3>3, <2>3
    <3>5. RetrySeesTable'
      BY <2>1, <2>3, <3>4 DEF RetrySeesTable, Access
    <3> QED BY <1>1, <2>1, <3>1, <3>4, <3>5, Zenon
  <2> QED BY <1>5, <2>2, <2>3 DEF M!vmm_page_fault, M!arch_mmu_emulate, M!Flush
<1> QED BY <1>2, <1>3, <1>4, <1>5

\* pmemcpy_in, pmemcpy_out and pmemset begin at the page of the address.
LEMMA CopyBeginInv == ASSUME M!MmuAssumption, MmuInv, M!CopyBegin PROVE MmuInv'
<1>0. FrameCount \in Nat /\ PageSize \in Nat /\ PageSize > 0 /\ MaxLen \in Nat
  BY LayoutFacts
<1>1. PICK at \in 0 .. FrameCount * PageSize - 1, len \in 0 .. MaxLen :
        /\ at + len <= FrameCount * PageSize
        /\ copy' = [at |-> at, len |-> len, touched |-> <<>>,
                    frame |-> at \div PageSize, offset |-> at % PageSize, i |-> 0]
  BY DEF M!CopyBegin
<1>2. access = None /\ result' = 0 /\ UNCHANGED <<pagetables, tlb, booted, access, refused>>
  BY DEF M!CopyBegin, M!Idle
<1>3. at \in Nat /\ len \in Nat
  BY <1>0, <1>1
<1>7. PICK q, r \in Nat : /\ q = at \div PageSize /\ r = at % PageSize
                         /\ r < PageSize /\ at = q * PageSize + r
  BY <1>0, <1>3, DivMod
<1>4. CopyPlaced'
  <2>1. /\ copy'.at = at /\ copy'.len = len /\ copy'.frame = q
        /\ copy'.offset = r /\ copy'.i = 0
        /\ copy' \in [at : Nat, len : Nat, i : Nat, frame : Nat, offset : Nat, touched : Seq(Int)]
    BY <1>1, <1>3, <1>7
  <2>2. 0 <= len /\ at + 0 = at
    BY <1>3
  <2>3. copy'.i <= copy'.len /\ copy'.at + copy'.len <= FrameCount * PageSize
    BY <1>1, <2>1, <2>2
  <2>4. copy'.offset < PageSize
    BY <1>7, <2>1, Zenon
  <2>5. copy'.frame * PageSize + copy'.offset = copy'.at + copy'.i
    BY <1>7, <2>1, <2>2
  <2> QED BY <2>1, <2>3, <2>4, <2>5 DEF CopyPlaced
<1>5. M!CopyExact'
  BY <1>1, <1>3 DEF M!CopyExact
<1>6. M!TypeOK' /\ M!TlbSound' /\ M!WriteProtected'
  BY <1>2 DEF MmuInv, M!TypeOK, M!TlbSound, M!Present, M!WriteProtected, M!Allows
<1> QED BY <1>2, <1>4, <1>5, <1>6 DEF MmuInv, RetrySeesTable

\* One round of a copy goes through the scratch page to the frame that was just
\* mapped there, whatever the TLB held for it.
LEMMA CopyRoundInv == ASSUME M!MmuAssumption, MmuInv, M!CopyRound PROVE MmuInv'
<1>0. FrameCount \in Nat /\ PageSize \in Nat /\ PageSize > 0 /\ MaxLen \in Nat
  BY LayoutFacts
<1>1. PICK c : c = copy
  OBVIOUS
<1>2. /\ c \in [at : Nat, len : Nat, i : Nat, frame : Nat, offset : Nat, touched : Seq(Int)]
      /\ c.i < c.len /\ c.at + c.len <= FrameCount * PageSize
      /\ c.offset < PageSize
      /\ c.frame * PageSize + c.offset = c.at + c.i
      /\ c.touched = [k \in 1 .. c.i |-> c.at + k - 1]
  BY <1>1 DEF MmuInv, CopyPlaced, M!CopyExact, M!CopyRound
<1>3. access = None /\ UNCHANGED <<booted, access, refused>>
  BY DEF MmuInv, RetrySeesTable, M!CopyRound
<1>4. c.frame \in M!Frames
  <2>1. c.frame * PageSize + c.offset < FrameCount * PageSize
    <3>1. FrameCount * PageSize \in Int /\ c.frame * PageSize \in Int
      BY <1>0, <1>2
    <3> QED BY <1>2, <3>1
  <2>2. c.frame \in Nat /\ c.offset \in Nat
    BY <1>2
  <2>3. c.frame < FrameCount
    BY <1>0, <2>1, <2>2, FrameBelow
  <2> QED BY <2>2, <2>3, LayoutFacts
<1> DEFINE new == [q \in {ScratchPage} |-> [frame |-> c.frame, rw |-> TRUE, us |-> FALSE]]
<1>5. new \in [{ScratchPage} -> M!Entry] /\ new[ScratchPage].frame = c.frame
  BY <1>4 DEF M!Entry
<1>6. M!SetEntries(new)
  BY <1>1 DEF M!CopyRound, M!arch_mmu_scratch_map
<1> HIDE DEF new
<1>7. /\ pagetables' \in [M!Pages -> M!Entry \cup {NotPresent}]
      /\ tlb' \in [M!Pages -> M!Entry \cup {NotPresent}]
      /\ M!TlbSound' /\ result' = 0
      /\ pagetables'[ScratchPage] = new[ScratchPage]
      /\ \A q \in M!Pages \ {ScratchPage} : pagetables'[q] = pagetables[q] /\ tlb'[q] = tlb[q]
  BY <1>5, <1>6, LayoutFacts, SetEntriesSound, Zenon DEF MmuInv
<1> DEFINE through == IF tlb'[ScratchPage] # NotPresent THEN tlb'[ScratchPage]
                      ELSE pagetables'[ScratchPage]
<1>8. through.frame = c.frame
  BY <1>5, <1>7, LayoutFacts DEF M!TlbSound
<1> DEFINE left == c.len - c.i
           maxlen == PageSize - c.offset
           copylen == IF maxlen < left THEN maxlen ELSE left
           base == through.frame * PageSize + c.offset
           bytes == [k \in 1 .. copylen |-> base + k - 1]
<1>9. copy' = [c EXCEPT !.touched = @ \o bytes, !.frame = @ + 1, !.i = @ + copylen, !.offset = 0]
  BY <1>1 DEF M!CopyRound, M!NextOffset
<1>10. base = c.at + c.i /\ base \in Nat
  BY <1>2, <1>8
<1>11. copylen \in Nat /\ copylen > 0 /\ c.i + copylen <= c.len
       /\ (c.i + copylen < c.len => copylen = PageSize - c.offset)
  BY <1>0, <1>2
<1> HIDE DEF copylen, base, through
<1>12. /\ c.touched \o bytes \in Seq(Int)
       /\ c.touched \o bytes = [k \in 1 .. (c.i + copylen) |-> c.at + k - 1]
  <2>1. bytes \in Seq(Int) /\ Len(bytes) = copylen /\ \A k \in 1 .. copylen : bytes[k] = c.at + c.i + k - 1
    BY <1>2, <1>10, <1>11
  <2> HIDE DEF bytes
  <2>2. PICK n \in Nat, a \in Nat, old \in Seq(Int) :
          n = c.i /\ a = c.at /\ old = c.touched /\ old = [k \in 1 .. n |-> a + k - 1]
    BY <1>2, Zenon
  <2>3. Len(old) = n /\ \A k \in 1 .. n : old[k] = a + k - 1
    BY <2>2
  <2>4. PICK m \in Nat, new2 \in Seq(Int) :
          m = copylen /\ new2 = bytes /\ Len(new2) = m /\ \A k \in 1 .. m : new2[k] = a + n + k - 1
    BY <1>11, <2>1, <2>2, Zenon
  <2>5. /\ old \o new2 \in Seq(Int) /\ Len(old \o new2) = n + m
        /\ \A k \in 1 .. (n + m) : (old \o new2)[k] = IF k <= n THEN old[k] ELSE new2[k - n]
    <3>1. Len(old) = n /\ Len(new2) = m
      BY <2>3, <2>4
    <3>2. /\ old \o new2 \in Seq(Int) /\ Len(old \o new2) = Len(old) + Len(new2)
          /\ \A k \in 1 .. (Len(old) + Len(new2)) :
               (old \o new2)[k] = IF k <= Len(old) THEN old[k] ELSE new2[k - Len(old)]
      BY ConcatProperties
    <3> QED BY <3>1, <3>2
  <2>6. \A k \in 1 .. (n + m) : (old \o new2)[k] = a + k - 1
    BY <2>3, <2>4, <2>5
  <2>7. old \o new2 = [k \in 1 .. (n + m) |-> a + k - 1]
    <3> DEFINE f == [k \in 1 .. (n + m) |-> a + k - 1]
    <3>1. f \in Seq(Int) /\ Len(f) = n + m /\ \A k \in 1 .. (n + m) : f[k] = a + k - 1
      OBVIOUS
    <3> HIDE DEF f
    <3>2. old \o new2 = f
      BY <2>5, <2>6, <3>1, SeqEqual, Zenon
    <3> QED BY <3>2 DEF f
  <2> QED BY <2>2, <2>4, <2>5, <2>7, Zenon
<1> HIDE DEF bytes
<1>13. /\ copy'.at = c.at /\ copy'.len = c.len /\ copy'.frame = c.frame + 1
       /\ copy'.i = c.i + copylen /\ copy'.offset = 0 /\ copy'.touched = c.touched \o bytes
       /\ copy' \in [at : Nat, len : Nat, i : Nat, frame : Nat, offset : Nat, touched : Seq(Int)]
  <2>1. c.frame + 1 \in Nat /\ c.i + copylen \in Nat
    BY <1>2, <1>11
  <2> QED BY <1>2, <1>9, <1>12, <2>1, Zenon
<1>14. M!CopyExact'
  BY <1>12, <1>13 DEF M!CopyExact
<1>15. CopyPlaced'
  <2>1. ASSUME c.i + copylen < c.len
        PROVE  (c.frame + 1) * PageSize = c.at + (c.i + copylen)
    <3>1. (c.frame + 1) * PageSize = c.frame * PageSize + PageSize
      BY <1>0, <1>2
    <3>2. c.frame * PageSize \in Int
      BY <1>0, <1>2
    <3>3. copylen = PageSize - c.offset /\ c.offset \in Nat /\ c.at \in Nat /\ c.i \in Nat
      BY <1>2, <1>11, <2>1
    <3>4. c.frame * PageSize + c.offset = c.at + c.i
      BY <1>2
    <3> QED BY <1>0, <3>1, <3>2, <3>3, <3>4
  <2>2. (c.frame + 1) * PageSize + 0 = (c.frame + 1) * PageSize
    BY <1>0, <1>2
  <2> QED BY <1>0, <1>2, <1>11, <1>13, <2>1, <2>2 DEF CopyPlaced
<1>16. M!TypeOK'
  BY <1>3, <1>7 DEF MmuInv, M!TypeOK
<1>17. {ScratchPage} \cap (Text \cup RoAfterInit) = {}
  BY DEF M!MmuAssumption
<1> QED BY <1>3, <1>7, <1>14, <1>15, <1>16, <1>17, ProtectionKept, Zenon DEF MmuInv, RetrySeesTable

\* The end of a copy.
LEMMA CopyEndInv == ASSUME M!MmuAssumption, MmuInv, M!CopyEnd PROVE MmuInv'
<1>1. copy' = None /\ result' = 0 /\ UNCHANGED <<pagetables, tlb, booted, access, refused>>
  BY DEF M!CopyEnd
<1>2. access = None
  BY DEF M!CopyEnd, MmuInv, RetrySeesTable
<1>3. M!TypeOK' /\ M!TlbSound' /\ M!WriteProtected'
  BY <1>1 DEF MmuInv, M!TypeOK, M!TlbSound, M!Present, M!WriteProtected, M!Allows
<1> QED BY <1>1, <1>2, <1>3 DEF MmuInv, RetrySeesTable, CopyPlaced, M!CopyExact

\* The invariant holds in the table archi586_kernelentry fills, and every step of
\* mmu.c, pstring.c and the processor keeps it.
THEOREM MmuInvariance == M!MmuAssumption => (M!Spec => []MmuInv)
<1> SUFFICES ASSUME M!MmuAssumption PROVE M!Spec => []MmuInv
  OBVIOUS
<1>1. M!Init => MmuInv
  <2> SUFFICES ASSUME M!Init PROVE MmuInv
    OBVIOUS
  <2>1. /\ \A p \in M!Pages : [frame |-> p, rw |-> TRUE, us |-> FALSE] \in M!Entry
        /\ NotPresent \notin M!Entry
    BY LayoutFacts DEF M!Entry
  <2>2. pagetables \in [M!Pages -> M!Entry] /\ tlb \in [M!Pages -> {NotPresent}]
        /\ booted = 0 /\ result = 0 /\ access = None /\ refused = 0 /\ copy = None
    BY <2>1 DEF M!Init
  <2>3. M!TypeOK
    BY <2>2 DEF M!TypeOK
  <2>4. M!TlbSound
    BY <2>2 DEF M!TlbSound
  <2>5. M!WriteProtected
    BY <2>2 DEF M!WriteProtected
  <2>6. \A p \in Text \cup RoAfterInit : pagetables[p] # NotPresent
    BY <2>1, <2>2, LayoutFacts
  <2> QED BY <2>2, <2>3, <2>4, <2>5, <2>6 DEF MmuInv, RetrySeesTable, CopyPlaced, M!CopyExact
<1>2. MmuInv /\ [M!Next]_(M!vars) => MmuInv'
  <2> SUFFICES ASSUME MmuInv, [M!Next]_(M!vars) PROVE MmuInv'
    OBVIOUS
  <2>1. CASE UNCHANGED M!vars
    BY <2>1 DEF M!vars, MmuInv, M!TypeOK, M!TlbSound, M!Present, M!WriteProtected, M!Allows,
       RetrySeesTable, CopyPlaced, M!CopyExact
  <2>2. CASE M!Next
    BY <2>2, BootStepInv, MapInv, RemapInv, UnmapInv, AccessInv, CopyBeginInv, CopyRoundInv,
       CopyEndInv DEF M!Next
  <2> QED BY <2>1, <2>2
<1> QED BY <1>1, <1>2, PTL DEF M!Spec

\* mmu.c, pstring.c: no cached translation allows what the tables do not, text
\* and read-only data stay protected, a valid access is refused at most once, and
\* the copies touch the bytes they were asked for, for every layout of the kernel's
\* pages, every page size and every length.
THEOREM TlbSafety == M!MmuAssumption => (M!Spec => []M!TlbHarmless)
<1>1. MmuInv => M!TlbHarmless
  <2>1. MmuInv => M!ValidAccessRefusedOnce
    BY DEF MmuInv, RetrySeesTable, M!ValidAccessRefusedOnce
  <2> QED BY <2>1 DEF MmuInv, M!TlbHarmless
<1> QED BY <1>1, MmuInvariance, PTL

\* A call of mmu.c that fails has changed neither tables nor TLB.
THEOREM FailureChangesNothing == M!Spec => M!FailedCallChangesNothing
<1>1. [M!Next]_(M!vars) => [result' = -1 => UNCHANGED <<pagetables, tlb>>]_(M!vars)
  <2> SUFFICES ASSUME M!Next, result' = -1 PROVE UNCHANGED <<pagetables, tlb>>
    BY DEF M!vars
  <2> QED BY DEF M!Next, M!BootStep, M!Map, M!Remap, M!Unmap, M!Fill, M!Touch, M!Complete,
       M!vmm_page_fault, M!CopyBegin, M!CopyRound, M!CopyEnd, M!arch_mmu_map, M!arch_mmu_remap,
       M!arch_mmu_unmap, M!arch_mmu_scratch_map, M!archi586_mmu_init, M!WriteProtect,
       M!SetEntries, M!Fail
<1> QED BY <1>1, PTL DEF M!Spec, M!FailedCallChangesNothing
=============================================================================
