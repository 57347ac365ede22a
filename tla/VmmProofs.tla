----------------------------- MODULE VmmProofs -----------------------------
(***************************************************************************)
(* The virtual memory manager (Vmm), for every size of the region, every   *)
(* supply of page frames and every sequence of calls and faults.           *)
(***************************************************************************)
EXTENDS ListLemmas, FiniteSetTheorems

\* What a leaf that names no prover is tried with, in turn.
USE SMTT(10), Zenon, SMTT(30)

CONSTANTS RegionPages, Frames, DeviceFrames, Sizes, HeapMayFail, MaxObjects
VARIABLES object_list, live, uncommited_objects, pt, frames, result, returned

V == INSTANCE Vmm

(***************************************************************************)
(* The kernel address space.  Ranges are compared by their ends, so that   *)
(* the place where add_object_to_address_space puts one is arithmetic.     *)
(* The list of free ranges is not sorted: a range with none below it goes  *)
(* to the back.  That no two ranges overlap is what keeps the insertion    *)
(* from refusing one, and what makes the first uncommitted object that     *)
(* holds a page the one of the page's owner.                               *)
(***************************************************************************)
Apart(a, b) == a.end < b.start \/ b.end < a.start
FreeRange == [start : V!Pages, end : V!Pages]
Object == [start : V!Pages, end : V!Pages, phys : Nat]

FreeOk(L) ==
  /\ L \in Seq(FreeRange)
  /\ \A i \in 1..Len(L) : L[i].start <= L[i].end
  /\ \A i, j \in 1..Len(L) : i # j => Apart(L[i], L[j])
LiveOk(S) ==
  /\ S \subseteq Object
  /\ \A o \in S : o.start <= o.end /\ (o.phys # 0 => o.phys + (o.end - o.start) <= Len(DeviceFrames))
  /\ \A o, q \in S : o # q => Apart(o, q)
SpaceOk(L, S) == FreeOk(L) /\ LiveOk(S) /\ \A i \in 1..Len(L) : \A o \in S : Apart(L[i], o)
InFree(L, p) == \E i \in 1..Len(L) : L[i].start <= p /\ p <= L[i].end
InLive(S, p) == \E o \in S : o.start <= p /\ p <= o.end
Covered(L, S) == \A p \in V!Pages : InFree(L, p) \/ InLive(S, p)

\* Every uncommitted object is one of an allocated object, with some of its pages.
WaitOk(S, U) ==
  /\ U \in Seq([object : Object, bitmap : SUBSET V!Pages])
  /\ \A i \in 1..Len(U) : U[i].object \in S /\ U[i].bitmap \subseteq V!PagesOf(U[i].object)
  /\ \A i, j \in 1..Len(U) : U[i].object = U[j].object => i = j
\* What page p of object o is mapped to, and whether it waits.
PageOk(o, p, U, f) ==
  /\ f = V!None <=> \E i \in 1..Len(U) : U[i].object = o /\ p \in U[i].bitmap
  /\ o.phys = 0 => f \in Frames \cup {V!None}
  /\ o.phys # 0 => f \in {V!None, DeviceFrames[o.phys + (p - o.start)]}
MapsOk(S, U, T) ==
  /\ T \in [V!Pages -> Frames \cup V!Devices \cup {V!None}]
  /\ \A p \in V!Pages : T[p] # V!None => InLive(S, p)
  /\ \A o \in S : \A p \in V!PagesOf(o) : PageOk(o, p, U, T[p])
FramesOk(F, T) ==
  /\ F \subseteq Frames
  /\ \A f \in Frames : f \notin F <=> \E p \in V!Pages : T[p] = f
  /\ \A p, q \in V!Pages : T[p] = T[q] /\ T[p] \in Frames => p = q

VmmInv ==
  /\ SpaceOk(object_list, live) /\ IsFiniteSet(live)
  /\ WaitOk(live, uncommited_objects) /\ MapsOk(live, uncommited_objects, pt) /\ FramesOk(frames, pt)
  /\ ~HeapMayFail => Covered(object_list, live)
  /\ result \in {V!None, "ok", "null", "freed", "panic", "assert"}

\* M is L with o put in after position n.
PutIn(L, M2, n, o) ==
  /\ n \in 0..Len(L) /\ M2 \in Seq(FreeRange) /\ Len(M2) = Len(L) + 1
  /\ \A i \in 1..(Len(L) + 1) : M2[i] = IF i <= n THEN L[i] ELSE IF i = n + 1 THEN o ELSE L[i - 1]
\* M is L without position n.
TakenOut(L, M2, n) ==
  /\ n \in 1..Len(L) /\ M2 \in Seq(FreeRange) /\ Len(M2) = Len(L) - 1
  /\ \A i \in 1..(Len(L) - 1) : M2[i] = IF i < n THEN L[i] ELSE L[i + 1]

\* The operators of the library are the same in the instance.
LEMMA SameOperators ==
  /\ \A s, i, e : V!InsertAt(s, i, e) = InsertAt(s, i, e)
  /\ \A s, i : V!RemoveAt(s, i) = RemoveAt(s, i)
  /\ \A S : V!Max(S) = Max(S) /\ V!Min(S) = Min(S) /\ V!Cardinality(S) = Cardinality(S)
<1>1. \A s, i, e : V!InsertAt(s, i, e) = InsertAt(s, i, e)
  BY DEF V!InsertAt, InsertAt
<1>2. \A s, i : V!RemoveAt(s, i) = RemoveAt(s, i)
  BY DEF V!RemoveAt, RemoveAt
<1>3. \A S : V!Max(S) = Max(S) /\ V!Min(S) = Min(S)
  BY DEF V!Max, V!Min, Max, Min
<1>4. \A S : V!Cardinality(S) = Cardinality(S)
  BY DEF V!Cardinality, Cardinality
<1> QED BY <1>1, <1>2, <1>3, <1>4

\* A range that overlaps nothing is put in, and the list stands for its pages too.
LEMMA PutInSpace ==
  ASSUME NEW L, NEW S, SpaceOk(L, S), NEW o \in FreeRange, o.start <= o.end,
         \A i \in 1..Len(L) : Apart(L[i], o), \A q \in S : Apart(o, q),
         NEW M2, NEW n, PutIn(L, M2, n, o)
  PROVE  SpaceOk(M2, S) /\ \A p \in V!Pages : InFree(M2, p) <=> InFree(L, p) \/ (o.start <= p /\ p <= o.end)
<1>1. L \in Seq(FreeRange) /\ Len(L) \in Nat
  BY DEF SpaceOk, FreeOk
<1>2. /\ n \in 0..Len(L) /\ M2 \in Seq(FreeRange) /\ Len(M2) = Len(L) + 1
      /\ \A i \in 1..(Len(L) + 1) : M2[i] = IF i <= n THEN L[i] ELSE IF i = n + 1 THEN o ELSE L[i - 1]
  BY DEF PutIn
<1>3. n + 1 \in 1..Len(M2) /\ M2[n + 1] = o
  BY <1>1, <1>2
<1>4. ASSUME NEW i \in 1..Len(M2), i # n + 1
      PROVE  \E k \in 1..Len(L) : M2[i] = L[k] /\ k = IF i <= n THEN i ELSE i - 1
  BY <1>1, <1>2, <1>4
<1>5. ASSUME NEW k \in 1..Len(L) PROVE \E i \in 1..Len(M2) : M2[i] = L[k]
  <2>1. CASE k <= n
    BY <1>1, <1>2, <2>1
  <2>2. CASE k > n
    <3>1. k + 1 \in 1..(Len(L) + 1) /\ ~(k + 1 <= n) /\ k + 1 # n + 1 /\ (k + 1) - 1 = k
      BY <1>1, <1>2, <2>2
    <3> QED BY <1>2, <3>1, Zenon
  <2> QED BY <1>1, <1>2, <2>1, <2>2
<1>6. FreeOk(L) /\ LiveOk(S) /\ \A i \in 1..Len(L) : \A q \in S : Apart(L[i], q)
  BY Zenon DEF SpaceOk
<1>7. \A i \in 1..Len(M2) : M2[i].start <= M2[i].end
  BY <1>3, <1>4, <1>6, Zenon DEF FreeOk
<1>8. ASSUME NEW i \in 1..Len(M2), NEW j \in 1..Len(M2), i # j PROVE Apart(M2[i], M2[j])
  <2>1. CASE i = n + 1
    <3>1. PICK k \in 1..Len(L) : M2[j] = L[k]
      BY <1>4, <1>8, <2>1
    <3> QED BY <1>3, <2>1, <3>1, Zenon DEF Apart
  <2>2. CASE j = n + 1
    <3>1. PICK k \in 1..Len(L) : M2[i] = L[k]
      BY <1>4, <1>8, <2>2
    <3> QED BY <1>3, <2>2, <3>1
  <2>3. CASE i # n + 1 /\ j # n + 1
    <3>1. PICK k \in 1..Len(L) : M2[i] = L[k] /\ k = IF i <= n THEN i ELSE i - 1
      BY <1>4, <2>3, Zenon
    <3>2. PICK m \in 1..Len(L) : M2[j] = L[m] /\ m = IF j <= n THEN j ELSE j - 1
      BY <1>4, <2>3
    <3>3. k # m
      BY <1>1, <1>2, <1>8, <2>3, <3>1, <3>2
    <3> QED BY <1>6, <3>1, <3>2, <3>3, Zenon DEF FreeOk
  <2> QED BY <2>1, <2>2, <2>3, Zenon
<1>9. \A i \in 1..Len(M2) : \A q \in S : Apart(M2[i], q)
  BY <1>3, <1>4, <1>6, Zenon
<1>10. SpaceOk(M2, S)
  BY <1>2, <1>6, <1>7, <1>8, <1>9, Zenon DEF SpaceOk, FreeOk
<1>11. ASSUME NEW p \in V!Pages PROVE InFree(M2, p) <=> InFree(L, p) \/ (o.start <= p /\ p <= o.end)
  BY <1>3, <1>4, <1>5, Zenon DEF InFree
<1> QED BY <1>10, <1>11, Zenon

\* A range is taken out: the rest is as it was, and apart from it.
LEMMA TakenOutSpace ==
  ASSUME NEW L, NEW S, SpaceOk(L, S), NEW M2, NEW n, TakenOut(L, M2, n)
  PROVE  /\ SpaceOk(M2, S)
         /\ \A i \in 1..Len(M2) : Apart(M2[i], L[n])
         /\ \A p \in V!Pages : InFree(L, p) <=> InFree(M2, p) \/ (L[n].start <= p /\ p <= L[n].end)
<1>1. L \in Seq(FreeRange) /\ Len(L) \in Nat
  BY DEF SpaceOk, FreeOk
<1>2. /\ n \in 1..Len(L) /\ M2 \in Seq(FreeRange) /\ Len(M2) = Len(L) - 1
      /\ \A i \in 1..(Len(L) - 1) : M2[i] = IF i < n THEN L[i] ELSE L[i + 1]
  BY DEF TakenOut
<1>3. ASSUME NEW i \in 1..Len(M2)
      PROVE  \E k \in 1..Len(L) : M2[i] = L[k] /\ k # n /\ k = IF i < n THEN i ELSE i + 1
  BY <1>1, <1>2
<1>4. ASSUME NEW k \in 1..Len(L), k # n PROVE \E i \in 1..Len(M2) : M2[i] = L[k]
  <2>1. CASE k < n
    BY <1>1, <1>2, <2>1
  <2>2. CASE k > n
    <3>1. k - 1 \in 1..(Len(L) - 1) /\ ~(k - 1 < n) /\ (k - 1) + 1 = k
      BY <1>1, <1>2, <2>2
    <3> QED BY <1>2, <3>1, Zenon
  <2> QED BY <1>1, <1>2, <1>4, <2>1, <2>2
<1>5. FreeOk(L) /\ LiveOk(S) /\ \A i \in 1..Len(L) : \A q \in S : Apart(L[i], q)
  BY DEF SpaceOk
<1>6. \A i \in 1..Len(M2) : M2[i].start <= M2[i].end /\ Apart(M2[i], L[n])
  BY <1>2, <1>3, <1>5 DEF FreeOk
<1>7. ASSUME NEW i \in 1..Len(M2), NEW j \in 1..Len(M2), i # j PROVE Apart(M2[i], M2[j])
  <2>1. PICK k \in 1..Len(L) : M2[i] = L[k] /\ k = IF i < n THEN i ELSE i + 1
    BY <1>3
  <2>2. PICK m \in 1..Len(L) : M2[j] = L[m] /\ m = IF j < n THEN j ELSE j + 1
    BY <1>3
  <2>3. k # m
    BY <1>1, <1>2, <1>7, <2>1, <2>2
  <2> QED BY <1>5, <2>1, <2>2, <2>3 DEF FreeOk
<1>8. \A i \in 1..Len(M2) : \A q \in S : Apart(M2[i], q)
  BY <1>3, <1>5
<1>9. SpaceOk(M2, S)
  BY <1>2, <1>5, <1>6, <1>7, <1>8, Zenon DEF SpaceOk, FreeOk
<1>10. ASSUME NEW p \in V!Pages PROVE InFree(L, p) <=> InFree(M2, p) \/ (L[n].start <= p /\ p <= L[n].end)
  BY <1>2, <1>3, <1>4, Zenon DEF InFree
<1> QED BY <1>6, <1>9, <1>10, Zenon

\* InsertAt on the list of free ranges.
LEMMA InsertedRange ==
  ASSUME NEW L \in Seq(FreeRange), NEW n \in 0..Len(L), NEW o \in FreeRange
  PROVE  /\ InsertAt(L, n + 1, o) \in Seq(FreeRange) /\ Len(InsertAt(L, n + 1, o)) = Len(L) + 1
         /\ \A k \in 1..(Len(L) + 1) :
              InsertAt(L, n + 1, o)[k] = IF k <= n THEN L[k] ELSE IF k = n + 1 THEN o ELSE L[k - 1]
<1>1. \A R : \A s \in Seq(R) : \A m \in 0..Len(s) : \A e \in R :
         /\ InsertAt(s, m + 1, e) \in Seq(R) /\ Len(InsertAt(s, m + 1, e)) = Len(s) + 1
         /\ \A k \in 1..(Len(s) + 1) :
              InsertAt(s, m + 1, e)[k] = IF k <= m THEN s[k] ELSE IF k = m + 1 THEN e ELSE s[k - 1]
  BY InsertNode
<1> QED BY <1>1

\* add_object_to_address_space never refuses a range that overlaps nothing.
LEMMA AddPutsIn ==
  ASSUME V!VmmAssumption, NEW L, NEW S, SpaceOk(L, S), NEW o \in FreeRange, o.start <= o.end,
         \A i \in 1..Len(L) : Apart(L[i], o)
  PROVE  \E n : PutIn(L, V!add_object_to_address_space(L, o), n, o)
<1>1. L \in Seq(FreeRange) /\ Len(L) \in Nat /\ DOMAIN L = 1..Len(L)
  BY DEF SpaceOk, FreeOk
<1> DEFINE below == {i \in DOMAIN L : L[i].end < o.start}
<1>2. CASE below = {}
  <2>1. V!add_object_to_address_space(L, o) = Append(L, o)
    BY <1>2 DEF V!add_object_to_address_space
  <2>2. /\ Append(L, o) \in Seq(FreeRange) /\ Len(Append(L, o)) = Len(L) + 1
        /\ \A i \in 1..Len(L) : Append(L, o)[i] = L[i]
        /\ Append(L, o)[Len(L) + 1] = o
    BY <1>1, AppendProperties
  <2>3. PutIn(L, Append(L, o), Len(L), o)
    BY <1>1, <2>2 DEF PutIn
  <2> QED BY <2>1, <2>3
<1>3. CASE below # {}
  <2>1. PICK i : i = Max(below)
    BY Zenon
  <2>2. i \in below /\ \A y \in below : y <= i
    <3>1. below \in SUBSET (0..Len(L))
      BY <1>1
    <3> HIDE DEF below
    <3> QED BY <1>1, <1>3, <2>1, <3>1, MaxOf, Zenon
  <2>3. i \in 1..Len(L)
    BY <1>1, <2>2
  <2>4. ~(i < Len(L) /\ L[i + 1].start <= o.end)
    <3> SUFFICES ASSUME i < Len(L), L[i + 1].start <= o.end PROVE FALSE
      OBVIOUS
    <3>1. PICK k \in 1..Len(L) : k = i + 1
      BY <1>1, <2>3
    <3>2. k \notin below
      <4>1. ~(k <= i)
        BY <2>3, <3>1
      <4> HIDE DEF below
      <4> QED BY <2>2, <4>1
    <3>3. ~(L[k].end < o.start)
      BY <1>1, <3>2
    <3>4. o.end < L[k].start
      BY <3>3 DEF Apart
    <3>5. L[k].start \in Int /\ o.end \in Int
      <4>1. L[k] \in FreeRange /\ V!Pages \subseteq Int
        BY <1>1 DEF V!Pages, V!VmmAssumption
      <4> QED BY <4>1, Zenon DEF FreeRange
    <3> QED BY <3>1, <3>4, <3>5
  <2>5. V!add_object_to_address_space(L, o) = InsertAt(L, i + 1, o)
    <3>1. V!add_object_to_address_space(L, o)
            = IF V!Max(below) < Len(L) /\ L[V!Max(below) + 1].start <= o.end THEN L
              ELSE V!InsertAt(L, V!Max(below) + 1, o)
      BY <1>3 DEF V!add_object_to_address_space
    <3>2. V!Max(below) = i
      BY <2>1, SameOperators
    <3>3. V!InsertAt(L, i + 1, o) = InsertAt(L, i + 1, o)
      BY SameOperators
    <3> HIDE DEF below
    <3> QED BY <2>4, <3>1, <3>2, <3>3
  <2>6. PutIn(L, InsertAt(L, i + 1, o), i, o)
    <3>1. i \in 0..Len(L)
      BY <2>3
    <3>2. /\ InsertAt(L, i + 1, o) \in Seq(FreeRange) /\ Len(InsertAt(L, i + 1, o)) = Len(L) + 1
          /\ \A k \in 1..(Len(L) + 1) :
               InsertAt(L, i + 1, o)[k] = IF k <= i THEN L[k] ELSE IF k = i + 1 THEN o ELSE L[k - 1]
      <4>1. L \in Seq(FreeRange) /\ o \in FreeRange
        BY <1>1
      <4>2. \A m \in 0..Len(L) :
              /\ InsertAt(L, m + 1, o) \in Seq(FreeRange) /\ Len(InsertAt(L, m + 1, o)) = Len(L) + 1
              /\ \A k \in 1..(Len(L) + 1) :
                   InsertAt(L, m + 1, o)[k] = IF k <= m THEN L[k] ELSE IF k = m + 1 THEN o ELSE L[k - 1]
        BY <4>1, InsertedRange
      <4> HIDE DEF below
      <4> QED BY ONLY <3>1, <4>2
    <3> HIDE DEF below
    <3> QED BY <3>1, <3>2 DEF PutIn
  <2> QED BY <2>5, <2>6
<1> QED BY <1>2, <1>3, Zenon

\* A range given back to the list, joined with the ones beside it or not, adds
\* exactly its pages.
LEMMA AddSpace ==
  ASSUME V!VmmAssumption, NEW L, NEW S, SpaceOk(L, S), NEW o \in FreeRange, o.start <= o.end,
         \A i \in 1..Len(L) : Apart(L[i], o), \A q \in S : Apart(o, q)
  PROVE  /\ SpaceOk(V!add_object_to_address_space(L, o), S)
         /\ \A p \in V!Pages : InFree(V!add_object_to_address_space(L, o), p)
                                 <=> InFree(L, p) \/ (o.start <= p /\ p <= o.end)
<1>1. PICK n : PutIn(L, V!add_object_to_address_space(L, o), n, o)
  BY AddPutsIn
<1> QED BY <1>1, PutInSpace

\* The fields of ranges and objects are page numbers.
LEMMA RangeInts ==
  ASSUME V!VmmAssumption
  PROVE  /\ V!Pages \subseteq Nat
         /\ \A o \in FreeRange : o.start \in Nat /\ o.end \in Nat /\ o.start \in V!Pages /\ o.end \in V!Pages
         /\ \A o \in Object : o.start \in Nat /\ o.end \in Nat /\ o.phys \in Nat
                              /\ o.start \in V!Pages /\ o.end \in V!Pages
<1>1. V!Pages \subseteq Nat
  BY DEF V!Pages, V!VmmAssumption
<1> QED BY <1>1, Zenon DEF FreeRange, Object

\* The object made of the first n pages of a free range.
NewObject(r, n, phys) == [start |-> r.start, end |-> r.start + n - 1, phys |-> phys]
RestOf(r, n) == [start |-> r.start + n, end |-> r.end]

\* An object takes the start of a free range and leaves the rest.
LEMMA NewObjectFacts ==
  ASSUME V!VmmAssumption, NEW r \in FreeRange, NEW n \in Nat, n > 0, n <= r.end - r.start + 1, NEW phys \in Nat
  PROVE  /\ NewObject(r, n, phys) \in Object
         /\ NewObject(r, n, phys).start = r.start /\ NewObject(r, n, phys).phys = phys
         /\ NewObject(r, n, phys).end = r.start + n - 1
         /\ r.start <= NewObject(r, n, phys).end /\ NewObject(r, n, phys).end <= r.end
         /\ RestOf(r, n).start = r.start + n /\ RestOf(r, n).end = r.end
         /\ RestOf(r, n).start <= r.end => RestOf(r, n) \in FreeRange
<1>1. r.start \in V!Pages /\ r.end \in V!Pages /\ r.start \in Nat /\ r.end \in Nat
  BY RangeInts
<1>2. r.start + n - 1 \in V!Pages /\ r.start <= r.start + n - 1 /\ r.start + n - 1 <= r.end
  BY <1>1 DEF V!Pages, V!VmmAssumption
<1>3. r.start + n <= r.end => r.start + n \in V!Pages
  BY <1>1 DEF V!Pages, V!VmmAssumption
<1>4. NewObject(r, n, phys) \in Object
  BY <1>1, <1>2 DEF NewObject, Object
<1>5. RestOf(r, n).start <= r.end => RestOf(r, n) \in FreeRange
  BY <1>1, <1>3 DEF RestOf, FreeRange
<1> QED BY <1>2, <1>4, <1>5 DEF NewObject, RestOf

FitsIn(L, i, n) == i \in 1..Len(L) /\ n \in Nat /\ n > 0 /\ n <= L[i].end - L[i].start + 1
Unmapped(o, T) == \A p \in V!PagesOf(o) : p \in V!Pages /\ T[p] = V!None
BackedBy(n, phys) == phys \in Nat /\ (phys # 0 => phys + n - 1 <= Len(DeviceFrames))

\* It is apart from every allocated object, and none of its pages is mapped.
LEMMA FreshObject ==
  ASSUME V!VmmAssumption, NEW L, NEW S, NEW U, NEW T, SpaceOk(L, S), MapsOk(S, U, T),
         NEW i, NEW n, NEW phys, FitsIn(L, i, n), BackedBy(n, phys),
         NEW o, o = NewObject(L[i], n, phys)
  PROVE  o \notin S /\ Unmapped(o, T) /\ LiveOk(S \cup {o})
<1> USE DEF FitsIn, BackedBy
<1>1. L \in Seq(FreeRange) /\ L[i] \in FreeRange /\ LiveOk(S) /\ \A q \in S : Apart(L[i], q)
  BY DEF SpaceOk, FreeOk
<1>2. L[i].start \in Nat /\ L[i].end \in Nat
  BY <1>1, RangeInts
<1>3. /\ o \in Object /\ o.start = L[i].start /\ o.phys = phys /\ o.end = L[i].start + n - 1
      /\ o.start <= o.end /\ o.end <= L[i].end
  <2>1. n \in Nat /\ n > 0 /\ n <= L[i].end - L[i].start + 1 /\ phys \in Nat
    OBVIOUS
  <2>2. PICK r \in FreeRange : r = L[i]
    BY <1>1, Zenon
  <2>3. n <= r.end - r.start + 1
    BY <2>1, <2>2, Zenon
  <2>4. /\ NewObject(r, n, phys) \in Object
        /\ NewObject(r, n, phys).start = r.start /\ NewObject(r, n, phys).phys = phys
        /\ NewObject(r, n, phys).end = r.start + n - 1
        /\ r.start <= NewObject(r, n, phys).end /\ NewObject(r, n, phys).end <= r.end
    BY <2>1, <2>3, NewObjectFacts
  <2>5. o = NewObject(r, n, phys)
    BY <2>2, Zenon
  <2>6. /\ o \in Object /\ o.start = r.start /\ o.phys = phys /\ o.end = r.start + n - 1
        /\ r.start <= o.end /\ o.end <= r.end
    BY <2>4, <2>5, Zenon
  <2> QED BY <2>2, <2>6, Zenon
<1>4. o.start \in Nat /\ o.end \in Nat /\ o.start \in V!Pages /\ o.end \in V!Pages
  BY <1>3, RangeInts
<1>5. ASSUME NEW q \in S PROVE Apart(o, q)
  <2>1. q \in Object /\ q.start \in Nat /\ q.end \in Nat
    BY <1>1, RangeInts DEF LiveOk
  <2> QED BY <1>1, <1>2, <1>3, <1>4, <2>1 DEF Apart
<1>6. o \notin S
  <2>1. ~Apart(o, o)
    BY <1>3, <1>4 DEF Apart
  <2> QED BY <1>5, <2>1
<1>7. ASSUME NEW p \in V!PagesOf(o) PROVE p \in V!Pages /\ T[p] = V!None
  <2>1. p \in Int /\ o.start <= p /\ p <= o.end
    BY <1>4 DEF V!PagesOf
  <2>2. p \in V!Pages
    BY <1>4, <2>1 DEF V!Pages, V!VmmAssumption
  <2>3. ~InLive(S, p)
    <3> SUFFICES ASSUME NEW q \in S, q.start <= p, p <= q.end PROVE FALSE
      BY DEF InLive
    <3>1. q \in Object /\ q.start \in Nat /\ q.end \in Nat
      BY <1>1, RangeInts DEF LiveOk
    <3> QED BY <1>4, <1>5, <2>1, <3>1 DEF Apart
  <2> QED BY <2>2, <2>3 DEF MapsOk
<1>8. LiveOk(S \cup {o})
  <2>1. S \cup {o} \subseteq Object
    BY <1>1, <1>3 DEF LiveOk
  <2>2. o.phys # 0 => o.phys + (o.end - o.start) <= Len(DeviceFrames)
    <3>1. o.end - o.start = n - 1
      BY <1>2, <1>3
    <3>2. Len(DeviceFrames) \in Nat
      BY LenProperties DEF V!VmmAssumption
    <3> QED BY <1>3, <3>1, <3>2
  <2>3. \A q \in S : Apart(q, o)
    BY <1>5 DEF Apart
  <2>4. \A q \in S \cup {o} : q.start <= q.end /\ (q.phys # 0 => q.phys + (q.end - q.start) <= Len(DeviceFrames))
    BY <1>1, <1>3, <2>2 DEF LiveOk
  <2>5. \A q, r \in S \cup {o} : q # r => Apart(q, r)
    BY <1>1, <1>5, <2>3 DEF LiveOk
  <2> QED BY <2>1, <2>4, <2>5, Zenon DEF LiveOk
<1> QED BY <1>6, <1>7, <1>8 DEF Unmapped

\* The address space once the object is split off the range.
LEMMA SplitSpace ==
  ASSUME V!VmmAssumption, NEW L, NEW S, NEW M2, SpaceOk(L, S), NEW i, TakenOut(L, M2, i),
         NEW n \in Nat, n > 0, n <= L[i].end - L[i].start + 1,
         NEW o, NEW phys \in Nat, o = NewObject(L[i], n, phys), LiveOk(S \cup {o}),
         NEW M3, M3 = IF RestOf(L[i], n).end < RestOf(L[i], n).start THEN M2
                      ELSE V!add_object_to_address_space(M2, RestOf(L[i], n))
  PROVE  SpaceOk(M3, S \cup {o}) /\ (Covered(L, S) => Covered(M3, S \cup {o}))
<1> DEFINE r == RestOf(L[i], n)
<1>1. L \in Seq(FreeRange) /\ i \in 1..Len(L) /\ L[i] \in FreeRange /\ \A q \in S : Apart(L[i], q)
  BY DEF SpaceOk, FreeOk, TakenOut
<1>2. L[i].start \in Nat /\ L[i].end \in Nat
  BY <1>1, RangeInts
<1>3. /\ o \in Object /\ o.start = L[i].start /\ o.end = L[i].start + n - 1 /\ o.end <= L[i].end
      /\ r.start = L[i].start + n /\ r.end = L[i].end /\ (r.start <= r.end => r \in FreeRange)
  BY <1>1, <1>2, NewObjectFacts
<1>4. /\ SpaceOk(M2, S) /\ \A k \in 1..Len(M2) : Apart(M2[k], L[i])
      /\ \A p \in V!Pages : InFree(L, p) <=> InFree(M2, p) \/ (L[i].start <= p /\ p <= L[i].end)
  BY TakenOutSpace
<1>5. \A k \in 1..Len(M2) : M2[k] \in FreeRange /\ M2[k].start \in Nat /\ M2[k].end \in Nat
  BY <1>4, RangeInts DEF SpaceOk, FreeOk
<1> HIDE DEF r
<1>6. \A k \in 1..Len(M2) : Apart(M2[k], o)
  BY <1>2, <1>3, <1>4, <1>5 DEF Apart
<1>7. SpaceOk(M2, S \cup {o})
  BY <1>4, <1>6 DEF SpaceOk
<1>8. ASSUME NEW p \in V!Pages, L[i].start <= p, p <= L[i].end
      PROVE  InLive(S \cup {o}, p) \/ (r.start <= p /\ p <= r.end)
  <2>1. p \in Nat
    BY RangeInts
  <2>2. (o.start <= p /\ p <= o.end) \/ (r.start <= p /\ p <= r.end)
    BY <1>2, <1>3, <1>8, <2>1
  <2> QED BY <2>2 DEF InLive
<1>9. \A p \in V!Pages : InLive(S, p) => InLive(S \cup {o}, p)
  BY DEF InLive
<1>10. CASE r.end < r.start
  <2>1. M3 = M2
    BY <1>10 DEF r
  <2>2. ASSUME NEW p \in V!Pages, InFree(L, p) PROVE InFree(M3, p) \/ InLive(S \cup {o}, p)
    <3>1. p \in Nat
      BY RangeInts
    <3>2. ~(r.start <= p /\ p <= r.end)
      BY <1>2, <1>3, <1>10, <3>1
    <3>3. CASE L[i].start <= p /\ p <= L[i].end
      BY <1>8, <3>2, <3>3, Zenon
    <3> QED BY <1>4, <2>1, <2>2, <3>3
  <2> QED BY <1>7, <1>9, <2>1, <2>2, Zenon DEF Covered
<1>11. CASE ~(r.end < r.start)
  <2>1. r \in FreeRange /\ r.start <= r.end
    BY <1>2, <1>3, <1>11
  <2>2. \A k \in 1..Len(M2) : Apart(M2[k], r)
    BY <1>2, <1>3, <1>4, <1>5, <2>1 DEF Apart
  <2>3. \A q \in S \cup {o} : Apart(r, q)
    <3>1. Apart(r, o)
      BY <1>2, <1>3 DEF Apart
    <3>2. ASSUME NEW q \in S PROVE Apart(r, q)
      <4>1. q \in Object /\ q.start \in Nat /\ q.end \in Nat
        BY <1>4, RangeInts DEF SpaceOk, LiveOk
      <4> QED BY <1>1, <1>2, <1>3, <2>1, <4>1 DEF Apart
    <3> QED BY <3>1, <3>2
  <2>4. M3 = V!add_object_to_address_space(M2, r)
    BY <1>11 DEF r
  <2>5. /\ SpaceOk(M3, S \cup {o})
        /\ \A p \in V!Pages : InFree(M3, p) <=> InFree(M2, p) \/ (r.start <= p /\ p <= r.end)
    BY <1>7, <2>1, <2>2, <2>3, <2>4, AddSpace
  <2>6. ASSUME NEW p \in V!Pages, InFree(L, p) PROVE InFree(M3, p) \/ InLive(S \cup {o}, p)
    BY <1>4, <1>8, <2>5, <2>6, Zenon
  <2> QED BY <1>9, <2>5, <2>6, Zenon DEF Covered
<1> QED BY <1>10, <1>11

\* The new object waits with all of its pages.
LEMMA NewWaits ==
  ASSUME V!VmmAssumption, NEW S, NEW U, NEW T, LiveOk(S), WaitOk(S, U), MapsOk(S, U, T),
         NEW o \in Object, o \notin S,
         \A p \in V!PagesOf(o) : p \in V!Pages /\ T[p] = V!None,
         NEW U2, U2 = Append(U, [object |-> o, bitmap |-> V!PagesOf(o)])
  PROVE  WaitOk(S \cup {o}, U2) /\ MapsOk(S \cup {o}, U2, T)
<1> DEFINE E == [object : Object, bitmap : SUBSET V!Pages]
           e == [object |-> o, bitmap |-> V!PagesOf(o)]
<1>1. e \in E /\ e.object = o /\ e.bitmap = V!PagesOf(o)
  OBVIOUS
<1>2. U \in Seq(E) /\ Len(U) \in Nat
  BY DEF WaitOk
<1> HIDE DEF E, e
<1>3. U2 \in Seq(E) /\ Len(U2) = Len(U) + 1 /\ U2[Len(U) + 1] = e /\ \A i \in 1..Len(U) : U2[i] = U[i]
  BY <1>1, <1>2, AppendProperties DEF e
<1>4. \A i \in 1..Len(U) : U[i].object \in S /\ U[i].bitmap \subseteq V!PagesOf(U[i].object) /\ U[i].object # o
  BY DEF WaitOk
<1>5. ASSUME NEW i \in 1..Len(U2) PROVE i \in 1..Len(U) \/ i = Len(U) + 1
  BY <1>2, <1>3
<1>6. \A i \in 1..Len(U2) : U2[i].object \in S \cup {o} /\ U2[i].bitmap \subseteq V!PagesOf(U2[i].object)
  BY <1>1, <1>3, <1>4, <1>5
<1>7. ASSUME NEW i \in 1..Len(U2), NEW j \in 1..Len(U2), U2[i].object = U2[j].object PROVE i = j
  <2>1. CASE i \in 1..Len(U) /\ j \in 1..Len(U)
    BY <1>3, <1>7, <2>1 DEF WaitOk
  <2>2. CASE i = Len(U) + 1 /\ j \in 1..Len(U)
    BY <1>1, <1>3, <1>4, <1>7, <2>2
  <2>3. CASE j = Len(U) + 1 /\ i \in 1..Len(U)
    BY <1>1, <1>3, <1>4, <1>7, <2>3
  <2> QED BY <1>5, <2>1, <2>2, <2>3
<1>8. WaitOk(S \cup {o}, U2)
  BY <1>3, <1>6, <1>7 DEF WaitOk, E
<1>9. ASSUME NEW q \in S, NEW p \in V!PagesOf(q) PROVE PageOk(q, p, U2, T[p])
  <2>1. PageOk(q, p, U, T[p])
    BY DEF MapsOk
  <2>2. q # o
    OBVIOUS
  <2>3. (\E i \in 1..Len(U2) : U2[i].object = q /\ p \in U2[i].bitmap)
          <=> (\E i \in 1..Len(U) : U[i].object = q /\ p \in U[i].bitmap)
    <3>1. ASSUME NEW i \in 1..Len(U2), U2[i].object = q, p \in U2[i].bitmap
          PROVE  \E k \in 1..Len(U) : U[k].object = q /\ p \in U[k].bitmap
      BY <1>1, <1>3, <1>5, <2>2, <3>1
    <3>2. 1..Len(U) \subseteq 1..Len(U2)
      BY <1>2, <1>3
    <3> QED BY <1>3, <3>1, <3>2
  <2> QED BY <2>1, <2>3 DEF PageOk
<1>10. ASSUME NEW p \in V!PagesOf(o) PROVE PageOk(o, p, U2, T[p])
  <2>1. Len(U) + 1 \in 1..Len(U2)
    BY <1>2, <1>3
  <2>2. \E i \in 1..Len(U2) : U2[i].object = o /\ p \in U2[i].bitmap
    BY <1>1, <1>3, <2>1
  <2> QED BY <2>2 DEF PageOk
<1>11. \A p \in V!Pages : T[p] # V!None => InLive(S \cup {o}, p)
  BY DEF MapsOk, InLive
<1> QED BY <1>8, <1>9, <1>10, <1>11, Zenon DEF MapsOk

\* RemoveAt on the two lists.
LEMMA RemovedRange ==
  ASSUME NEW L, NEW R, L \in Seq(R), NEW n \in 1..Len(L)
  PROVE  /\ RemoveAt(L, n) \in Seq(R) /\ Len(RemoveAt(L, n)) = Len(L) - 1
         /\ \A i \in 1..(Len(L) - 1) : RemoveAt(L, n)[i] = IF i < n THEN L[i] ELSE L[i + 1]
BY RemoveNode

\* The range take_object_with_min_size takes out.
LEMMA TakeFacts ==
  ASSUME V!VmmAssumption, SpaceOk(object_list, live), NEW n, V!take_object_with_min_size(n) # 0,
         NEW i, i = V!take_object_with_min_size(n)
  PROVE  /\ i \in 1..Len(object_list) /\ n <= object_list[i].end - object_list[i].start + 1
         /\ TakenOut(object_list, V!RemoveAt(object_list, i), i)
<1>1. object_list \in Seq(FreeRange) /\ Len(object_list) \in Nat /\ DOMAIN object_list = 1..Len(object_list)
  BY DEF SpaceOk, FreeOk
<1> DEFINE fits == {k \in DOMAIN object_list : n <= object_list[k].end - object_list[k].start + 1}
<1>2. V!take_object_with_min_size(n) = IF fits = {} THEN 0 ELSE V!Min(fits)
  BY DEF V!take_object_with_min_size
<1>3. fits \in SUBSET Nat
  BY <1>1
<1>4. fits # {} /\ i = Min(fits)
  <2> HIDE DEF fits
  <2> QED BY <1>2, SameOperators
<1>5. i \in fits
  <2> HIDE DEF fits
  <2> QED BY <1>3, <1>4, MinOf
<1>6. i \in 1..Len(object_list) /\ n <= object_list[i].end - object_list[i].start + 1
  BY <1>1, <1>5
<1> HIDE DEF fits
<1>7. V!RemoveAt(object_list, i) = RemoveAt(object_list, i)
  BY SameOperators
<1>8. TakenOut(object_list, RemoveAt(object_list, i), i)
  BY ONLY <1>1, <1>6, RemovedRange, Zenon DEF TakenOut
<1> QED BY <1>6, <1>7, <1>8

\* vmm_alloc_object, in each of its outcomes.
LEMMA ObjectAllocInv ==
  ASSUME V!VmmAssumption, VmmInv, NEW n \in Sizes, NEW phys \in Nat,
         phys # 0 => phys + n - 1 <= Len(DeviceFrames),
         NEW heap \in V!HeapOutcomes, V!vmm_alloc_object(n, phys, heap), UNCHANGED <<pt, frames>>
  PROVE  VmmInv'
<1> DEFINE i == V!take_object_with_min_size(n)
           taken == V!RemoveAt(object_list, i)
           o == NewObject(object_list[i], n, phys)
           r == RestOf(object_list[i], n)
<1>1. n \in Nat /\ n > 0
  BY DEF V!VmmAssumption
<1>2. /\ SpaceOk(object_list, live) /\ IsFiniteSet(live) /\ WaitOk(live, uncommited_objects)
      /\ MapsOk(live, uncommited_objects, pt) /\ FramesOk(frames, pt)
      /\ ~HeapMayFail => Covered(object_list, live)
  BY DEF VmmInv
<1>3. \/ result' = "assert" /\ UNCHANGED <<object_list, live, uncommited_objects>>
      \/ /\ i = 0 \/ heap = "no object"
         /\ result' \in {"null", "freed"}
         /\ object_list' = IF i = 0 THEN object_list ELSE taken
         /\ UNCHANGED <<live, uncommited_objects>>
      \/ /\ i # 0 /\ heap = "ok"
         /\ object_list' = IF r.end < r.start THEN taken ELSE V!add_object_to_address_space(taken, r)
         /\ live' = live \cup {o}
         /\ uncommited_objects' = Append(uncommited_objects, [object |-> o, bitmap |-> V!PagesOf(o)])
         /\ result' = "ok"
      \/ result' = "panic" /\ UNCHANGED <<object_list, live, uncommited_objects>>
  BY Zenon DEF V!vmm_alloc_object, NewObject, RestOf
<1>4. pt' = pt /\ frames' = frames
  OBVIOUS
<1>5. i # 0 => /\ i \in 1..Len(object_list) /\ n <= object_list[i].end - object_list[i].start + 1
               /\ TakenOut(object_list, taken, i)
  BY <1>2, TakeFacts
<1> HIDE DEF i, taken, o, r
<1>6. CASE UNCHANGED <<object_list, live, uncommited_objects>> /\ result' \in {"assert", "panic"}
  <2>1. object_list' = object_list /\ live' = live /\ uncommited_objects' = uncommited_objects
    BY <1>6
  <2> QED BY <1>2, <1>4, <1>6, <2>1 DEF VmmInv
<1>7. CASE /\ i = 0 \/ heap = "no object"
           /\ result' \in {"null", "freed"}
           /\ object_list' = IF i = 0 THEN object_list ELSE taken
           /\ UNCHANGED <<live, uncommited_objects>>
  <2>1. live' = live /\ uncommited_objects' = uncommited_objects
    BY <1>7, Zenon
  <2>2. CASE i = 0
    <3>1. object_list' = object_list
      BY <1>7, <2>2
    <3> QED BY <1>2, <1>4, <1>7, <2>1, <3>1, Zenon DEF VmmInv
  <2>3. CASE i # 0
    <3>1. object_list' = taken /\ heap = "no object"
      BY <1>7, <2>3, Zenon
    <3>2. HeapMayFail
      BY <3>1, Zenon DEF V!HeapOutcomes
    <3>3. SpaceOk(taken, live)
      BY <1>2, <1>5, <2>3, TakenOutSpace
    <3> QED BY <1>2, <1>4, <1>7, <2>1, <3>1, <3>2, <3>3, Zenon DEF VmmInv
  <2> QED BY <2>2, <2>3
<1>8. CASE /\ i # 0 /\ heap = "ok"
           /\ object_list' = IF r.end < r.start THEN taken ELSE V!add_object_to_address_space(taken, r)
           /\ live' = live \cup {o}
           /\ uncommited_objects' = Append(uncommited_objects, [object |-> o, bitmap |-> V!PagesOf(o)])
           /\ result' = "ok"
  <2>1. /\ o \in Object /\ o \notin live
        /\ \A p \in V!PagesOf(o) : p \in V!Pages /\ pt[p] = V!None
        /\ LiveOk(live \cup {o})
    <3>1. /\ i \in 1..Len(object_list) /\ n <= object_list[i].end - object_list[i].start + 1
          /\ o = NewObject(object_list[i], n, phys)
      BY <1>5, <1>8 DEF o
    <3>2. SpaceOk(object_list, live) /\ MapsOk(live, uncommited_objects, pt)
      BY <1>2
    <3>3. FitsIn(object_list, i, n) /\ BackedBy(n, phys)
      BY <1>1, <3>1 DEF FitsIn, BackedBy
    <3>4. o \notin live /\ Unmapped(o, pt) /\ LiveOk(live \cup {o})
      BY <3>1, <3>2, <3>3, FreshObject
    <3>5. o \in Object
      BY <3>4 DEF LiveOk
    <3> QED BY <3>4, <3>5 DEF Unmapped
  <2>2. SpaceOk(object_list', live \cup {o}) /\ (Covered(object_list, live) => Covered(object_list', live \cup {o}))
    BY <1>1, <1>2, <1>5, <1>8, <2>1, SplitSpace, Zenon DEF o, r
  <2>3. LiveOk(live)
    BY <1>2 DEF SpaceOk
  <2>4. WaitOk(live \cup {o}, uncommited_objects') /\ MapsOk(live \cup {o}, uncommited_objects', pt)
    BY <1>2, <1>8, <2>1, <2>3, NewWaits, Zenon
  <2>5. IsFiniteSet(live \cup {o})
    BY <1>2, FS_AddElement
  <2>6. live' = live \cup {o} /\ result' = "ok"
    BY <1>8
  <2> QED BY <1>2, <1>4, <2>2, <2>4, <2>5, <2>6 DEF VmmInv
<1> QED BY <1>3, <1>6, <1>7, <1>8, Zenon

\* vmm_alloc.
LEMMA VmmAllocInv ==
  ASSUME V!VmmAssumption, VmmInv, NEW n \in Sizes, V!vmm_alloc(n)
  PROVE  VmmInv'
<1>1. PICK heap \in V!HeapOutcomes : V!vmm_alloc_object(n, 0, heap)
  BY DEF V!vmm_alloc
<1>2. UNCHANGED <<pt, frames>>
  BY DEF V!vmm_alloc
<1> QED BY <1>1, <1>2, ObjectAllocInv

\* vmm_ezmap: the pages of the device are mapped at once.
LEMMA VmmEzmapInv ==
  ASSUME V!VmmAssumption, VmmInv, NEW n \in Sizes, NEW phys \in DOMAIN DeviceFrames,
         phys + n - 1 <= Len(DeviceFrames), V!vmm_ezmap(n, phys)
  PROVE  VmmInv'
<1>1. PICK heap \in V!HeapOutcomes : V!vmm_alloc_object(n, phys, heap)
  BY DEF V!vmm_ezmap
<1>2. UNCHANGED <<pt, frames>>
  BY DEF V!vmm_ezmap
<1>3. phys \in Nat
  <2>1. DOMAIN DeviceFrames = 1..Len(DeviceFrames) /\ Len(DeviceFrames) \in Nat
    BY LenProperties DEF V!VmmAssumption
  <2> QED BY <2>1
<1> QED BY <1>1, <1>2, <1>3, ObjectAllocInv

\* The entry find_object_in_uncommited finds is the one of the page's owner.
LEMMA FindFacts ==
  ASSUME V!VmmAssumption, LiveOk(live), WaitOk(live, uncommited_objects),
         NEW o \in live, NEW p \in V!PagesOf(o), NEW i, i = V!find_object_in_uncommited(p)
  PROVE  \/ i = 0 /\ \A k \in 1..Len(uncommited_objects) : uncommited_objects[k].object # o
         \/ i \in 1..Len(uncommited_objects) /\ uncommited_objects[i].object = o
<1> DEFINE U == uncommited_objects
           holds == {k \in DOMAIN U : p \in V!PagesOf(U[k].object)}
<1>1. Len(U) \in Nat /\ DOMAIN U = 1..Len(U) /\ \A k \in 1..Len(U) : U[k].object \in live
  BY DEF WaitOk
<1>2. \A q \in live : p \in V!PagesOf(q) => q = o
  <2> SUFFICES ASSUME NEW q \in live, p \in V!PagesOf(q), q # o PROVE FALSE
    OBVIOUS
  <2>1. /\ q.start \in Nat /\ q.end \in Nat /\ o.start \in Nat /\ o.end \in Nat
    BY RangeInts DEF LiveOk
  <2>2. Apart(o, q)
    BY DEF LiveOk
  <2> QED BY <2>1, <2>2 DEF Apart, V!PagesOf
<1>3. \A k \in 1..Len(U) : k \in holds <=> U[k].object = o
  BY <1>1, <1>2
<1>4. i = IF holds = {} THEN 0 ELSE V!Min(holds)
  BY DEF V!find_object_in_uncommited
<1>5. holds \in SUBSET Nat /\ holds \subseteq 1..Len(U)
  BY <1>1
<1> HIDE DEF holds
<1>6. CASE holds = {}
  BY <1>3, <1>4, <1>6
<1>7. CASE holds # {}
  <2>1. i = Min(holds)
    BY <1>4, <1>7, SameOperators
  <2>2. i \in holds
    BY <1>5, <1>7, <2>1, MinOf
  <2> QED BY <1>3, <1>5, <2>2
<1> QED BY <1>6, <1>7

\* U2 is U without the entry of o.
Entry == [object : Object, bitmap : SUBSET V!Pages]
Dropped(U, U2, o) ==
  /\ U2 \in Seq(Entry)
  /\ \A j \in 1..Len(U2) : \E k \in 1..Len(U) : U2[j] = U[k] /\ U[k].object # o
  /\ \A k \in 1..Len(U) : U[k].object # o => \E j \in 1..Len(U2) : U2[j] = U[k]
  /\ \A j, k \in 1..Len(U2) : U2[j].object = U2[k].object => j = k

\* An object waits for its pages in one entry.
LEMMA DroppedEntry ==
  ASSUME NEW S, NEW U, WaitOk(S, U), NEW o, NEW i \in 1..Len(U), U[i].object = o
  PROVE  Dropped(U, RemoveAt(U, i), o)
<1> DEFINE U2 == RemoveAt(U, i)
<1>1. U \in Seq(Entry) /\ Len(U) \in Nat /\ \A j, k \in 1..Len(U) : U[j].object = U[k].object => j = k
  BY DEF WaitOk, Entry
<1>2. U2 \in Seq(Entry) /\ Len(U2) = Len(U) - 1 /\ \A j \in 1..(Len(U) - 1) : U2[j] = IF j < i THEN U[j] ELSE U[j + 1]
  BY <1>1, RemovedRange, Zenon
<1> HIDE DEF U2
<1>3. ASSUME NEW j \in 1..Len(U2)
      PROVE  \E k \in 1..Len(U) : U2[j] = U[k] /\ k # i /\ k = IF j < i THEN j ELSE j + 1
  BY <1>1, <1>2
<1>4. ASSUME NEW k \in 1..Len(U), U[k].object # o PROVE \E j \in 1..Len(U2) : U2[j] = U[k]
  <2>1. k # i
    BY <1>4
  <2>2. CASE k < i
    BY <1>1, <1>2, <2>2
  <2>3. CASE k > i
    <3>1. k - 1 \in 1..(Len(U) - 1) /\ ~(k - 1 < i) /\ (k - 1) + 1 = k
      BY <1>1, <2>3
    <3> QED BY <1>2, <3>1
  <2> QED BY <1>1, <2>1, <2>2, <2>3
<1>5. ASSUME NEW j \in 1..Len(U2), NEW k \in 1..Len(U2), U2[j].object = U2[k].object PROVE j = k
  <2>1. PICK a \in 1..Len(U) : U2[j] = U[a] /\ a = IF j < i THEN j ELSE j + 1
    BY <1>3
  <2>2. PICK b \in 1..Len(U) : U2[k] = U[b] /\ b = IF k < i THEN k ELSE k + 1
    BY <1>3
  <2>3. a = b
    BY <1>1, <1>5, <2>1, <2>2
  <2> QED BY <1>1, <1>2, <2>1, <2>2, <2>3
<1>6. \A j \in 1..Len(U2) : \E k \in 1..Len(U) : U2[j] = U[k] /\ U[k].object # o
  BY <1>1, <1>3
<1>7. Dropped(U, U2, o)
  BY <1>2, <1>4, <1>5, <1>6 DEF Dropped
<1> QED BY <1>7 DEF U2

\* Nothing to drop.
LEMMA DroppedNone ==
  ASSUME NEW S, NEW U, WaitOk(S, U), NEW o, \A k \in 1..Len(U) : U[k].object # o
  PROVE  Dropped(U, U, o)
BY DEF WaitOk, Dropped, Entry

\* The page table once an object's pages are unmapped.
Unmap(T, o) == [p \in V!Pages |-> IF p \in V!PagesOf(o) THEN V!None ELSE T[p]]

\* The pages of an object are pages of the region.
LEMMA PagesInRegion ==
  ASSUME V!VmmAssumption, NEW S, LiveOk(S), NEW o \in S
  PROVE  /\ V!PagesOf(o) \subseteq V!Pages
         /\ \A p \in V!Pages : p \in V!PagesOf(o) <=> o.start <= p /\ p <= o.end
<1>1. /\ o.start \in V!Pages /\ o.end \in V!Pages /\ o.start \in Nat /\ o.end \in Nat
  BY RangeInts DEF LiveOk
<1> QED BY <1>1 DEF V!PagesOf, V!Pages, V!VmmAssumption

\* The objects of one page.
LEMMA OneOwner ==
  ASSUME V!VmmAssumption, NEW S, LiveOk(S), NEW o \in S, NEW q \in S, NEW p,
         p \in V!PagesOf(o), p \in V!PagesOf(q)
  PROVE  o = q
<1> SUFFICES ASSUME o # q PROVE FALSE
  OBVIOUS
<1>1. /\ q.start \in Nat /\ q.end \in Nat /\ o.start \in Nat /\ o.end \in Nat
  BY RangeInts DEF LiveOk
<1>2. Apart(o, q)
  BY DEF LiveOk
<1> QED BY <1>1, <1>2 DEF Apart, V!PagesOf

\* What is unmapped with an object is its pages and no other.
LEMMA FreedMaps ==
  ASSUME V!VmmAssumption, NEW S, NEW U, NEW T, NEW U2, LiveOk(S), WaitOk(S, U), MapsOk(S, U, T),
         NEW o \in S, Dropped(U, U2, o)
  PROVE  WaitOk(S \ {o}, U2) /\ MapsOk(S \ {o}, U2, Unmap(T, o))
<1> DEFINE T2 == Unmap(T, o)
<1>1. \A p \in V!Pages : T2[p] = IF p \in V!PagesOf(o) THEN V!None ELSE T[p]
  BY DEF Unmap
<1>2. T2 \in [V!Pages -> Frames \cup V!Devices \cup {V!None}]
  BY DEF Unmap, MapsOk
<1> HIDE DEF T2
<1>3. WaitOk(S \ {o}, U2)
  <2>1. \A j \in 1..Len(U2) : U2[j].object \in S \ {o} /\ U2[j].bitmap \subseteq V!PagesOf(U2[j].object)
    BY DEF WaitOk, Dropped
  <2> QED BY <2>1 DEF WaitOk, Dropped, Entry
<1>4. ASSUME NEW p \in V!Pages, T2[p] # V!None PROVE InLive(S \ {o}, p)
  <2>1. p \notin V!PagesOf(o) /\ T[p] # V!None
    BY <1>1, <1>4
  <2>2. PICK q \in S : q.start <= p /\ p <= q.end
    BY <2>1 DEF MapsOk, InLive
  <2>3. q # o
    BY <2>1, <2>2, PagesInRegion
  <2> QED BY <2>2, <2>3 DEF InLive
<1>5. ASSUME NEW q \in S \ {o}, NEW p \in V!PagesOf(q) PROVE PageOk(q, p, U2, T2[p])
  <2>1. p \notin V!PagesOf(o)
    BY OneOwner
  <2>2. p \in V!Pages
    BY PagesInRegion
  <2>3. T2[p] = T[p]
    BY <1>1, <2>1, <2>2
  <2>4. PageOk(q, p, U, T[p])
    BY DEF MapsOk
  <2>5. (\E j \in 1..Len(U2) : U2[j].object = q /\ p \in U2[j].bitmap)
          <=> (\E k \in 1..Len(U) : U[k].object = q /\ p \in U[k].bitmap)
    <3>1. ASSUME NEW j \in 1..Len(U2), U2[j].object = q, p \in U2[j].bitmap
          PROVE  \E k \in 1..Len(U) : U[k].object = q /\ p \in U[k].bitmap
      <4>1. PICK k \in 1..Len(U) : U2[j] = U[k]
        BY DEF Dropped
      <4> QED BY <3>1, <4>1
    <3>2. ASSUME NEW k \in 1..Len(U), U[k].object = q, p \in U[k].bitmap
          PROVE  \E j \in 1..Len(U2) : U2[j].object = q /\ p \in U2[j].bitmap
      <4>1. U[k].object # o
        BY <3>2
      <4>2. PICK j \in 1..Len(U2) : U2[j] = U[k]
        BY <4>1 DEF Dropped
      <4> QED BY <3>2, <4>2
    <3> QED BY <3>1, <3>2
  <2> QED BY <2>3, <2>4, <2>5 DEF PageOk
<1>6. MapsOk(S \ {o}, U2, T2)
  BY <1>2, <1>4, <1>5 DEF MapsOk
<1> QED BY <1>3, <1>6 DEF T2

\* The frame behind a page of a device object is a device's.
LEMMA DeviceFrame ==
  ASSUME V!VmmAssumption, NEW S, LiveOk(S), NEW o \in S, NEW p \in V!PagesOf(o), o.phys # 0
  PROVE  DeviceFrames[o.phys + (p - o.start)] \in V!Devices
<1>1. /\ o.phys \in Nat /\ o.start \in Nat /\ o.end \in Nat /\ o.phys + (o.end - o.start) <= Len(DeviceFrames)
  BY RangeInts DEF LiveOk
<1>2. p \in Int /\ o.start <= p /\ p <= o.end
  BY <1>1 DEF V!PagesOf
<1>3. DOMAIN DeviceFrames = 1..Len(DeviceFrames) /\ Len(DeviceFrames) \in Nat
  BY LenProperties DEF V!VmmAssumption
<1>4. o.phys + (p - o.start) \in DOMAIN DeviceFrames
  BY <1>1, <1>2, <1>3
<1> QED BY <1>4 DEF V!Devices, V!Range

\* The free frames once an object's memory is given back.
LEMMA FreedFramesOk ==
  ASSUME V!VmmAssumption, NEW S, NEW U, NEW T, NEW F, LiveOk(S), MapsOk(S, U, T), FramesOk(F, T),
         NEW o \in S, NEW G, G = IF o.phys = 0 THEN {T[p] : p \in V!PagesOf(o)} \ {V!None} ELSE {}
  PROVE  FramesOk(F \cup G, Unmap(T, o))
<1> DEFINE T2 == Unmap(T, o)
<1>1. \A p \in V!Pages : T2[p] = IF p \in V!PagesOf(o) THEN V!None ELSE T[p]
  BY DEF Unmap
<1> HIDE DEF T2
<1>2. V!PagesOf(o) \subseteq V!Pages
  BY PagesInRegion
<1>3. V!None \notin Frames /\ V!Devices \cap Frames = {}
  <2>1. Range(DeviceFrames) = V!Range(DeviceFrames)
    BY DEF Range, V!Range
  <2> QED BY <2>1 DEF V!VmmAssumption, V!Devices
<1>4. /\ F \subseteq Frames
      /\ \A f \in Frames : f \notin F <=> \E p \in V!Pages : T[p] = f
      /\ \A p, q \in V!Pages : T[p] = T[q] /\ T[p] \in Frames => p = q
  BY DEF FramesOk
<1>5. \A p \in V!PagesOf(o) : o.phys = 0 => T[p] \in Frames \cup {V!None}
  BY DEF MapsOk, PageOk
<1>6. \A p \in V!PagesOf(o) : o.phys # 0 => T[p] \notin Frames
  <2> SUFFICES ASSUME NEW p \in V!PagesOf(o), o.phys # 0 PROVE T[p] \notin Frames
    OBVIOUS
  <2>1. T[p] \in {V!None, DeviceFrames[o.phys + (p - o.start)]}
    BY DEF MapsOk, PageOk
  <2>2. DeviceFrames[o.phys + (p - o.start)] \in V!Devices
    BY DeviceFrame
  <2> QED BY <1>3, <2>1, <2>2
<1>7. G \subseteq Frames /\ \A f \in G : \E q \in V!PagesOf(o) : T[q] = f
  BY <1>5
<1>8. \A p \in V!PagesOf(o) : T[p] \in Frames => T[p] \in G
  BY <1>3, <1>6
<1>9. ASSUME NEW f \in Frames, f \notin F \cup G PROVE \E p \in V!Pages : T2[p] = f
  <2>1. PICK p \in V!Pages : T[p] = f
    BY <1>4, <1>9
  <2>2. p \notin V!PagesOf(o)
    BY <1>8, <1>9, <2>1, Zenon
  <2> QED BY <1>1, <2>1, <2>2
<1>10. ASSUME NEW f \in Frames, NEW p \in V!Pages, T2[p] = f PROVE f \notin F \cup G
  <2>1. p \notin V!PagesOf(o) /\ T[p] = f
    BY <1>1, <1>3, <1>10
  <2>2. f \notin F
    BY <1>4, <2>1
  <2>3. f \notin G
    BY <1>2, <1>4, <1>7, <2>1
  <2> QED BY <2>2, <2>3
<1>11. \A p, q \in V!Pages : T2[p] = T2[q] /\ T2[p] \in Frames => p = q
  BY <1>1, <1>3, <1>4
<1>12. FramesOk(F \cup G, T2)
  BY <1>4, <1>7, <1>9, <1>10, <1>11 DEF FramesOk
<1> QED BY <1>12 DEF T2

\* vmm_free.
LEMMA VmmFreeInv ==
  ASSUME V!VmmAssumption, VmmInv, NEW o \in live, V!vmm_free(o)
  PROVE  VmmInv'
<1> DEFINE i == V!find_object_in_uncommited(o.start)
           r == [start |-> o.start, end |-> o.end]
<1>1. /\ SpaceOk(object_list, live) /\ IsFiniteSet(live) /\ WaitOk(live, uncommited_objects)
      /\ MapsOk(live, uncommited_objects, pt) /\ FramesOk(frames, pt)
      /\ ~HeapMayFail => Covered(object_list, live)
  BY DEF VmmInv
<1>2. /\ uncommited_objects' = IF i = 0 THEN uncommited_objects ELSE V!RemoveAt(uncommited_objects, i)
      /\ frames' = frames \cup V!FreedFrames(o)
      /\ pt' = Unmap(pt, o)
      /\ object_list' = V!add_object_to_address_space(object_list, r)
      /\ live' = live \ {o} /\ result' = "ok"
  BY DEF V!vmm_free, Unmap
<1>3. LiveOk(live) /\ \A k \in 1..Len(object_list) : Apart(object_list[k], o)
  BY <1>1 DEF SpaceOk
<1>4. o \in Object /\ o.start <= o.end /\ o.start \in Nat /\ o.end \in Nat /\ o.start \in V!Pages /\ o.end \in V!Pages
  BY <1>3, RangeInts DEF LiveOk
<1>5. r \in FreeRange /\ r.start = o.start /\ r.end = o.end
  BY <1>4 DEF FreeRange
<1>6. o.start \in V!PagesOf(o)
  BY <1>4 DEF V!PagesOf
<1> HIDE DEF r
<1>7. Dropped(uncommited_objects, uncommited_objects', o)
  <2>1. \/ i = 0 /\ \A k \in 1..Len(uncommited_objects) : uncommited_objects[k].object # o
        \/ i \in 1..Len(uncommited_objects) /\ uncommited_objects[i].object = o
    BY <1>1, <1>3, <1>6, FindFacts
  <2> HIDE DEF i
  <2>2. CASE i = 0 /\ \A k \in 1..Len(uncommited_objects) : uncommited_objects[k].object # o
    BY <1>1, <1>2, <2>2, DroppedNone
  <2>3. CASE i \in 1..Len(uncommited_objects) /\ uncommited_objects[i].object = o
    <3>1. i # 0
      BY <2>3
    <3>2. uncommited_objects' = RemoveAt(uncommited_objects, i)
      BY <1>2, <3>1, SameOperators
    <3> QED BY <1>1, <2>3, <3>2, DroppedEntry
  <2> QED BY <2>1, <2>2, <2>3
<1> HIDE DEF i
<1>8. WaitOk(live', uncommited_objects') /\ MapsOk(live', uncommited_objects', pt')
  BY <1>1, <1>2, <1>3, <1>7, FreedMaps
<1>9. FramesOk(frames', pt')
  <2>1. V!FreedFrames(o) = IF o.phys = 0 THEN {pt[p] : p \in V!PagesOf(o)} \ {V!None} ELSE {}
    BY DEF V!FreedFrames
  <2> QED BY <1>1, <1>2, <1>3, <2>1, FreedFramesOk, Zenon
<1>10. SpaceOk(object_list, live \ {o})
  BY <1>1 DEF SpaceOk, LiveOk
<1>11. \A k \in 1..Len(object_list) : Apart(object_list[k], r)
  BY <1>3, <1>5 DEF Apart
<1>12. \A q \in live \ {o} : Apart(r, q)
  BY <1>3, <1>5 DEF Apart, LiveOk
<1>13. /\ SpaceOk(object_list', live \ {o})
       /\ \A p \in V!Pages : InFree(object_list', p) <=> InFree(object_list, p) \/ (r.start <= p /\ p <= r.end)
  <2>1. r.start <= r.end
    BY <1>4, <1>5, Zenon
  <2>2. PICK L : L = object_list
    OBVIOUS
  <2>3. PICK S : S = live \ {o}
    OBVIOUS
  <2>4. SpaceOk(L, S) /\ (\A k \in 1..Len(L) : Apart(L[k], r)) /\ (\A q \in S : Apart(r, q))
    BY <1>10, <1>11, <1>12, <2>2, <2>3, Zenon
  <2>5. /\ SpaceOk(V!add_object_to_address_space(L, r), S)
        /\ \A p \in V!Pages : InFree(V!add_object_to_address_space(L, r), p)
                                <=> InFree(L, p) \/ (r.start <= p /\ p <= r.end)
    BY <1>5, <2>1, <2>4, AddSpace, Zenon
  <2>6. object_list' = V!add_object_to_address_space(L, r)
    BY <1>2, <2>2, Zenon
  <2> QED BY <2>2, <2>3, <2>5, <2>6, Zenon
<1>14. Covered(object_list, live) => Covered(object_list', live \ {o})
  BY <1>5, <1>13 DEF Covered, InLive
<1>15. IsFiniteSet(live \ {o})
  BY <1>1, FS_RemoveElement
<1> QED BY <1>1, <1>2, <1>8, <1>9, <1>13, <1>14, <1>15 DEF VmmInv

\* U2 is U with page p cleared from the bitmap of entry i.
Cleared(U, U2, i, p) ==
  /\ U2 \in Seq(Entry)
  /\ \A j \in 1..Len(U2) : \E k \in 1..Len(U) : U2[j].object = U[k].object /\ U2[j].bitmap \subseteq U[k].bitmap
  /\ \A j, k \in 1..Len(U2) : U2[j].object = U2[k].object => j = k
  /\ \A q, x : (\E j \in 1..Len(U2) : U2[j].object = q /\ x \in U2[j].bitmap)
                 <=> (\E k \in 1..Len(U) : U[k].object = q /\ x \in U[k].bitmap /\ ~(k = i /\ x = p))

\* The last bit goes with its entry.
LEMMA ClearedLast ==
  ASSUME NEW S, NEW U, WaitOk(S, U), NEW i \in 1..Len(U), NEW p, U[i].bitmap \ {p} = {}
  PROVE  Cleared(U, RemoveAt(U, i), i, p)
<1> DEFINE U2 == RemoveAt(U, i)
           o == U[i].object
<1>1. Dropped(U, U2, o)
  BY DroppedEntry
<1>2. \A j, k \in 1..Len(U) : U[j].object = U[k].object => j = k
  BY DEF WaitOk
<1> HIDE DEF U2
<1>3. ASSUME NEW q, NEW x, NEW j \in 1..Len(U2), U2[j].object = q, x \in U2[j].bitmap
      PROVE  \E k \in 1..Len(U) : U[k].object = q /\ x \in U[k].bitmap /\ ~(k = i /\ x = p)
  <2>1. PICK k \in 1..Len(U) : U2[j] = U[k] /\ U[k].object # o
    BY <1>1 DEF Dropped
  <2> QED BY <1>3, <2>1
<1>4. ASSUME NEW q, NEW x, NEW k \in 1..Len(U), U[k].object = q, x \in U[k].bitmap, ~(k = i /\ x = p)
      PROVE  \E j \in 1..Len(U2) : U2[j].object = q /\ x \in U2[j].bitmap
  <2>1. k # i
    BY <1>4
  <2>2. U[k].object # o
    BY <1>2, <2>1
  <2>3. PICK j \in 1..Len(U2) : U2[j] = U[k]
    BY <1>1, <2>2 DEF Dropped
  <2> QED BY <1>4, <2>3
<1>5. \A j \in 1..Len(U2) : \E k \in 1..Len(U) : U2[j].object = U[k].object /\ U2[j].bitmap \subseteq U[k].bitmap
  BY <1>1, Zenon DEF Dropped
<1>6. Cleared(U, U2, i, p)
  BY <1>1, <1>3, <1>4, <1>5, Zenon DEF Cleared, Dropped
<1> QED BY <1>6 DEF U2

\* Another bit stays: the entry stays.
LEMMA ClearedBit ==
  ASSUME NEW S, NEW U, WaitOk(S, U), NEW i \in 1..Len(U), NEW p,
         NEW U2, U2 = [U EXCEPT ![i].bitmap = U[i].bitmap \ {p}]
  PROVE  Cleared(U, U2, i, p)
<1>1. U \in Seq(Entry) /\ Len(U) \in Nat /\ \A j, k \in 1..Len(U) : U[j].object = U[k].object => j = k
  BY DEF WaitOk, Entry
<1>2. U[i] \in Entry
  BY <1>1
<1>3. [U[i] EXCEPT !.bitmap = U[i].bitmap \ {p}] \in Entry
  BY <1>2 DEF Entry
<1>4. U2 \in Seq(Entry) /\ Len(U2) = Len(U)
  BY <1>1, <1>3
<1>5. \A j \in 1..Len(U) : j # i => U2[j] = U[j]
  BY <1>1
<1>6. U2[i].object = U[i].object /\ U2[i].bitmap = U[i].bitmap \ {p}
  BY <1>1, <1>2 DEF Entry
<1>7. \A j \in 1..Len(U2) : j \in 1..Len(U) /\ U2[j].object = U[j].object /\ U2[j].bitmap \subseteq U[j].bitmap
  BY <1>4, <1>5, <1>6
<1>8. ASSUME NEW q, NEW x, NEW j \in 1..Len(U2)
      PROVE  U2[j].object = q /\ x \in U2[j].bitmap
               <=> U[j].object = q /\ x \in U[j].bitmap /\ ~(j = i /\ x = p)
  BY <1>4, <1>5, <1>6
<1>9. \A q, x : (\E j \in 1..Len(U2) : U2[j].object = q /\ x \in U2[j].bitmap)
                 <=> (\E k \in 1..Len(U) : U[k].object = q /\ x \in U[k].bitmap /\ ~(k = i /\ x = p))
  BY <1>4, <1>8
<1> QED BY <1>1, <1>4, <1>7, <1>9 DEF Cleared

\* A page of object o is mapped to frame f.
LEMMA CommitMaps ==
  ASSUME V!VmmAssumption, NEW S, NEW U, NEW T, NEW U2, LiveOk(S), WaitOk(S, U), MapsOk(S, U, T),
         NEW o \in S, NEW p \in V!PagesOf(o), NEW i \in 1..Len(U), U[i].object = o, Cleared(U, U2, i, p),
         NEW f, f # V!None, f \in Frames \cup V!Devices, o.phys = 0 => f \in Frames,
         o.phys # 0 => f = DeviceFrames[o.phys + (p - o.start)]
  PROVE  WaitOk(S, U2) /\ MapsOk(S, U2, [T EXCEPT ![p] = f])
<1> DEFINE T2 == [T EXCEPT ![p] = f]
<1>1. p \in V!Pages /\ T \in [V!Pages -> Frames \cup V!Devices \cup {V!None}]
  BY PagesInRegion DEF MapsOk
<1>2. T2 \in [V!Pages -> Frames \cup V!Devices \cup {V!None}] /\ T2[p] = f /\ \A x \in V!Pages : x # p => T2[x] = T[x]
  BY <1>1
<1> HIDE DEF T2
<1>3. WaitOk(S, U2)
  <2>1. ASSUME NEW j \in 1..Len(U2) PROVE U2[j].object \in S /\ U2[j].bitmap \subseteq V!PagesOf(U2[j].object)
    <3>1. PICK k \in 1..Len(U) : U2[j].object = U[k].object /\ U2[j].bitmap \subseteq U[k].bitmap
      BY DEF Cleared
    <3>2. U[k].object \in S /\ U[k].bitmap \subseteq V!PagesOf(U[k].object)
      BY DEF WaitOk
    <3> QED BY <3>1, <3>2
  <2> QED BY <2>1, Zenon DEF WaitOk, Cleared, Entry
<1>4. InLive(S, p)
  BY <1>1, PagesInRegion DEF InLive
<1>5. \A x \in V!Pages : T2[x] # V!None => InLive(S, x)
  BY <1>2, <1>4 DEF MapsOk
<1>6. ASSUME NEW q \in S, NEW x \in V!PagesOf(q) PROVE PageOk(q, x, U2, T2[x])
  <2>1. x \in V!Pages
    BY PagesInRegion
  <2>2. PageOk(q, x, U, T[x])
    BY DEF MapsOk
  <2>3. (\E j \in 1..Len(U2) : U2[j].object = q /\ x \in U2[j].bitmap)
          <=> (\E k \in 1..Len(U) : U[k].object = q /\ x \in U[k].bitmap /\ ~(k = i /\ x = p))
    BY Zenon DEF Cleared
  <2>4. CASE x = p
    <3>1. q = o
      BY <2>4, OneOwner
    <3>2. \A k \in 1..Len(U) : U[k].object = o => k = i
      BY DEF WaitOk
    <3>3. ~ \E j \in 1..Len(U2) : U2[j].object = q /\ x \in U2[j].bitmap
      BY <2>3, <2>4, <3>1, <3>2
    <3>4. T2[x] = f
      BY <1>2, <2>4
    <3> QED BY <2>4, <3>1, <3>3, <3>4 DEF PageOk
  <2>5. CASE x # p
    <3>1. T2[x] = T[x]
      BY <1>2, <2>1, <2>5
    <3> QED BY <2>2, <2>3, <2>5, <3>1 DEF PageOk
  <2> QED BY <2>4, <2>5
<1>7. MapsOk(S, U2, T2)
  BY <1>2, <1>5, <1>6 DEF MapsOk
<1> QED BY <1>3, <1>7 DEF T2

\* A page that gets a frame of the pool, or one of a device.
LEMMA CommitFrames ==
  ASSUME V!VmmAssumption, NEW F, NEW T, FramesOk(F, T), T \in [V!Pages -> Frames \cup V!Devices \cup {V!None}],
         NEW p \in V!Pages, T[p] = V!None, NEW f, f \in F \/ f \notin Frames
  PROVE  FramesOk(F \ {f}, [T EXCEPT ![p] = f])
<1> DEFINE T2 == [T EXCEPT ![p] = f]
<1>1. T2[p] = f /\ \A x \in V!Pages : x # p => T2[x] = T[x]
  OBVIOUS
<1> HIDE DEF T2
<1>2. V!None \notin Frames
  BY DEF V!VmmAssumption
<1>3. /\ F \subseteq Frames
      /\ \A g \in Frames : g \notin F <=> \E x \in V!Pages : T[x] = g
      /\ \A x, y \in V!Pages : T[x] = T[y] /\ T[x] \in Frames => x = y
  BY DEF FramesOk
<1>4. ASSUME NEW g \in Frames PROVE g \notin F \ {f} <=> \E x \in V!Pages : T2[x] = g
  <2>1. CASE g = f
    BY <1>1, <2>1
  <2>2. CASE g # f
    <3>1. \A x \in V!Pages : T2[x] = g <=> T[x] = g
      BY <1>1, <1>2, <2>2
    <3> QED BY <1>3, <2>2, <3>1
  <2> QED BY <2>1, <2>2
<1>5. ASSUME NEW x \in V!Pages, NEW y \in V!Pages, T2[x] = T2[y], T2[x] \in Frames PROVE x = y
  <2>1. \A z \in V!Pages : T[z] = f => f \notin Frames
    BY <1>3
  <2> QED BY <1>1, <1>3, <1>5, <2>1
<1>6. FramesOk(F \ {f}, T2)
  BY <1>3, <1>4, <1>5 DEF FramesOk
<1> QED BY <1>6 DEF T2

\* A fault finds its page: it is never lost.
LEMMA VmmFaultInv ==
  ASSUME V!VmmAssumption, VmmInv, NEW p \in V!Pages, V!vmm_page_fault(p)
  PROVE  VmmInv'
<1> DEFINE U == uncommited_objects
           i == V!find_object_in_uncommited(p)
<1>1. /\ SpaceOk(object_list, live) /\ IsFiniteSet(live) /\ WaitOk(live, U)
      /\ MapsOk(live, U, pt) /\ FramesOk(frames, pt)
      /\ ~HeapMayFail => Covered(object_list, live)
  BY DEF VmmInv
<1>2. LiveOk(live)
  BY <1>1 DEF SpaceOk
<1>3. PICK o \in live : p \in V!PagesOf(o)
  BY DEF V!vmm_page_fault
<1>4. pt[p] = V!None /\ object_list' = object_list /\ live' = live
  BY DEF V!vmm_page_fault
<1>5. PICK k \in 1..Len(U) : U[k].object = o /\ p \in U[k].bitmap
  BY <1>1, <1>3, <1>4 DEF MapsOk, PageOk
<1>6. i \in 1..Len(U) /\ U[i].object = o
  BY <1>1, <1>2, <1>3, <1>5, FindFacts
<1>7. i # 0 /\ p \in U[i].bitmap
  <2>1. \A j \in 1..Len(U) : U[j].object = o => j = k
    BY <1>1, <1>5 DEF WaitOk
  <2> HIDE DEF i
  <2>2. i = k
    BY <1>6, <2>1
  <2> QED BY <1>5, <1>6, <2>2
<1>8. IF ~(U[i].object.phys # 0) /\ frames = {}
      THEN result' = "panic" /\ UNCHANGED <<uncommited_objects, pt, frames>>
      ELSE \E f \in IF U[i].object.phys # 0 THEN {V!BackingFrame(U[i].object, p)} ELSE frames :
             /\ pt' = [pt EXCEPT ![p] = f] /\ frames' = frames \ {f}
             /\ uncommited_objects' = V!Committed(i, p) /\ result' = "ok"
  BY <1>7 DEF V!vmm_page_fault
<1>9. V!Committed(i, p) = IF U[i].bitmap \ {p} = {} THEN RemoveAt(U, i)
                          ELSE [U EXCEPT ![i].bitmap = U[i].bitmap \ {p}]
  <2>1. V!RemoveAt(U, i) = RemoveAt(U, i)
    BY SameOperators
  <2> HIDE DEF i
  <2> QED BY <2>1 DEF V!Committed
<1> HIDE DEF i
<1>10. CASE result' = "panic" /\ UNCHANGED <<uncommited_objects, pt, frames>>
  <2>1. uncommited_objects' = uncommited_objects /\ pt' = pt /\ frames' = frames
    BY <1>10
  <2> QED BY <1>1, <1>4, <1>10, <2>1 DEF VmmInv
<1>11. ASSUME NEW f \in IF o.phys # 0 THEN {V!BackingFrame(o, p)} ELSE frames,
              pt' = [pt EXCEPT ![p] = f], frames' = frames \ {f},
              uncommited_objects' = V!Committed(i, p), result' = "ok"
       PROVE  VmmInv'
  <2>1. Cleared(U, uncommited_objects', i, p)
    <3>1. CASE U[i].bitmap \ {p} = {}
      <4>1. uncommited_objects' = RemoveAt(U, i)
        BY <1>9, <1>11, <3>1
      <4> QED BY <1>1, <1>6, <3>1, <4>1, ClearedLast, Zenon
    <3>2. CASE U[i].bitmap \ {p} # {}
      <4>1. uncommited_objects' = [U EXCEPT ![i].bitmap = U[i].bitmap \ {p}]
        BY <1>9, <1>11, <3>2
      <4> QED BY <1>1, <1>6, <4>1, ClearedBit, Zenon
    <3> QED BY <3>1, <3>2
  <2>2. V!None \notin Frames /\ V!None \notin V!Devices /\ V!Devices \cap Frames = {}
    BY DEF V!VmmAssumption, V!Devices
  <2>3. frames \subseteq Frames
    BY <1>1 DEF FramesOk
  <2>4. o.phys # 0 => f = DeviceFrames[o.phys + (p - o.start)] /\ f \in V!Devices
    <3> SUFFICES ASSUME o.phys # 0 PROVE f = DeviceFrames[o.phys + (p - o.start)] /\ f \in V!Devices
      OBVIOUS
    <3>1. f = DeviceFrames[o.phys + (p - o.start)]
      BY <1>11 DEF V!BackingFrame
    <3> QED BY <1>2, <1>3, <3>1, DeviceFrame
  <2>5. o.phys = 0 => f \in frames
    BY <1>11
  <2>6. /\ f # V!None /\ f \in Frames \cup V!Devices /\ (o.phys = 0 => f \in Frames) /\ (f \in frames \/ f \notin Frames)
    BY <2>2, <2>3, <2>4, <2>5
  <2>7. WaitOk(live, uncommited_objects') /\ MapsOk(live, uncommited_objects', pt')
    BY <1>1, <1>2, <1>3, <1>6, <1>11, <2>1, <2>4, <2>6, CommitMaps, Zenon
  <2>8. pt \in [V!Pages -> Frames \cup V!Devices \cup {V!None}]
    BY <1>1 DEF MapsOk
  <2>9. FramesOk(frames', pt')
    BY <1>1, <1>4, <1>11, <2>6, <2>8, CommitFrames, Zenon
  <2> QED BY <1>1, <1>4, <1>11, <2>7, <2>9 DEF VmmInv
<1> QED BY <1>6, <1>8, <1>10, <1>11

\* At boot the whole region is one free range.
LEMMA VmmInitInv ==
  ASSUME V!VmmAssumption, V!Init
  PROVE  VmmInv
<1> DEFINE r == [start |-> 0, end |-> RegionPages - 1]
<1>1. 0 \in V!Pages /\ RegionPages - 1 \in V!Pages /\ \A p \in V!Pages : 0 <= p /\ p <= RegionPages - 1
  BY DEF V!VmmAssumption, V!Pages
<1>2. r \in FreeRange /\ r.start <= r.end
  BY <1>1 DEF FreeRange
<1>3. object_list = <<r>> /\ live = {} /\ uncommited_objects = <<>> /\ frames = Frames
  BY DEF V!Init
<1>4. FreeOk(object_list)
  BY <1>2, <1>3 DEF FreeOk
<1>5. SpaceOk(object_list, live) /\ IsFiniteSet(live)
  BY <1>3, <1>4, FS_EmptySet DEF SpaceOk, LiveOk
<1>6. Covered(object_list, live)
  BY <1>1, <1>3 DEF Covered, InFree
<1>7. WaitOk(live, uncommited_objects)
  BY <1>3 DEF WaitOk
<1>8. \A p \in V!Pages : pt[p] = V!None
  BY DEF V!Init
<1>9. pt \in [V!Pages -> Frames \cup V!Devices \cup {V!None}]
  BY DEF V!Init
<1>10. MapsOk(live, uncommited_objects, pt)
  BY <1>3, <1>8, <1>9 DEF MapsOk
<1>11. V!None \notin Frames
  BY DEF V!VmmAssumption
<1>12. FramesOk(frames, pt)
  BY <1>3, <1>8, <1>11 DEF FramesOk
<1> QED BY <1>5, <1>6, <1>7, <1>10, <1>12 DEF VmmInv, V!Init

\* Every call and every page fault keeps the invariant.
LEMMA VmmNextInv ==
  ASSUME V!VmmAssumption, VmmInv, [V!Next]_(V!vars)
  PROVE  VmmInv'
<1>1. CASE UNCHANGED V!vars
  BY <1>1 DEF VmmInv, V!vars
<1>2. CASE \E n \in Sizes : V!vmm_alloc(n)
  BY <1>2, VmmAllocInv
<1>3. CASE \E n \in Sizes : \E phys \in DOMAIN DeviceFrames :
             phys + n - 1 <= Len(DeviceFrames) /\ V!vmm_ezmap(n, phys)
  BY <1>3, VmmEzmapInv
<1>4. CASE \E o \in live : V!vmm_free(o)
  BY <1>4, VmmFreeInv
<1>5. CASE \E p \in V!Pages : V!vmm_page_fault(p)
  BY <1>5, VmmFaultInv
<1> QED BY <1>1, <1>2, <1>3, <1>4, <1>5 DEF V!Next

\* The inductive invariant of vmm.c: free ranges and objects never overlap, an
\* uncommitted object is one entry of an allocated object, a page of an object is
\* unmapped exactly while its bit is set, and a frame is free exactly while no page
\* is mapped to it.
THEOREM VmmInvariance ==
  V!VmmAssumption => (V!Spec => []VmmInv)
<1> SUFFICES ASSUME V!VmmAssumption PROVE V!Spec => []VmmInv
  OBVIOUS
<1>1. V!Init => VmmInv
  BY VmmInitInv
<1>2. VmmInv /\ [V!Next]_(V!vars) => VmmInv'
  BY VmmNextInv
<1> QED BY <1>1, <1>2, PTL DEF V!Spec

\* The number of entries a page waits in is the number of objects it is in.
LEMMA WaitsAsOwned ==
  ASSUME V!VmmAssumption, VmmInv, NEW p \in V!Pages, pt[p] = V!None,
         NEW W, W = {i \in DOMAIN uncommited_objects : p \in uncommited_objects[i].bitmap},
         NEW O, O = {o \in live : p \in V!PagesOf(o)}
  PROVE  V!Cardinality(W) = V!Cardinality(O)
<1> DEFINE U == uncommited_objects
<1>1. LiveOk(live) /\ WaitOk(live, U) /\ MapsOk(live, U, pt)
  BY DEF VmmInv, SpaceOk
<1>2. DOMAIN U = 1..Len(U)
  BY <1>1 DEF WaitOk
<1>3. \A i \in W : i \in 1..Len(U) /\ U[i].object \in O
  BY <1>1, <1>2 DEF WaitOk
<1>4. CASE O = {}
  <2>1. W = {}
    BY <1>3, <1>4
  <2> QED BY <1>4, <2>1
<1>5. CASE O # {}
  <2>1. PICK o : o \in O
    BY <1>5
  <2>2. O = {o}
    BY <1>1, <2>1, OneOwner
  <2>3. PICK k \in 1..Len(U) : U[k].object = o /\ p \in U[k].bitmap
    BY <1>1, <2>1 DEF MapsOk, PageOk
  <2>4. k \in W
    BY <1>2, <2>3
  <2>5. \A j \in W : j = k
    BY <1>1, <1>3, <2>2, <2>3 DEF WaitOk
  <2>6. W = {k}
    BY <2>4, <2>5
  <2>7. Cardinality(W) = 1 /\ Cardinality(O) = 1
    BY <2>2, <2>6, FS_Singleton, Zenon
  <2> QED BY <2>7, SameOperators
<1> QED BY <1>4, <1>5

\* A page is in one free range or in one object.
LEMMA PartitionedPage ==
  ASSUME V!VmmAssumption, SpaceOk(object_list, live), Covered(object_list, live), NEW p \in V!Pages,
         NEW R, R = {i \in DOMAIN object_list : p \in V!PagesOf(object_list[i])},
         NEW O, O = {o \in live : p \in V!PagesOf(o)}
  PROVE  V!Cardinality(R) + V!Cardinality(O) = 1
<1>1. /\ FreeOk(object_list) /\ LiveOk(live) /\ DOMAIN object_list = 1..Len(object_list)
      /\ \A i \in 1..Len(object_list) : object_list[i] \in FreeRange
      /\ \A i \in 1..Len(object_list) : \A o \in live : Apart(object_list[i], o)
  BY DEF SpaceOk, FreeOk
<1>2. p \in Nat
  BY RangeInts
<1>3. \A i \in 1..Len(object_list) :
        i \in R <=> object_list[i].start <= p /\ p <= object_list[i].end
  <2> SUFFICES ASSUME NEW i \in 1..Len(object_list)
               PROVE  i \in R <=> object_list[i].start <= p /\ p <= object_list[i].end
    OBVIOUS
  <2>1. object_list[i].start \in Nat /\ object_list[i].end \in Nat
    BY <1>1, RangeInts
  <2> QED BY <1>1, <1>2, <2>1 DEF V!PagesOf
<1>4. \A o \in live : o \in O <=> o.start <= p /\ p <= o.end
  BY <1>1, PagesInRegion
<1>5. R \subseteq 1..Len(object_list) /\ O \subseteq live
  BY <1>1
<1>6. \A i, j \in R : i = j
  <2> SUFFICES ASSUME NEW i \in R, NEW j \in R, i # j PROVE FALSE
    OBVIOUS
  <2>1. Apart(object_list[i], object_list[j])
    BY <1>1, <1>5 DEF FreeOk
  <2>2. /\ object_list[i].start \in Nat /\ object_list[i].end \in Nat
        /\ object_list[j].start \in Nat /\ object_list[j].end \in Nat
    BY <1>1, <1>5, RangeInts
  <2> QED BY <1>2, <1>3, <1>5, <2>1, <2>2 DEF Apart
<1>7. \A i \in R : \A o \in O : FALSE
  <2> SUFFICES ASSUME NEW i \in R, NEW o \in O PROVE FALSE
    OBVIOUS
  <2>1. Apart(object_list[i], o)
    BY <1>1, <1>5
  <2>2. /\ object_list[i].start \in Nat /\ object_list[i].end \in Nat
        /\ o.start \in Nat /\ o.end \in Nat
    BY <1>1, <1>5, RangeInts DEF LiveOk
  <2> QED BY <1>2, <1>3, <1>4, <1>5, <2>1, <2>2 DEF Apart
<1>8. \A o, q \in O : o = q
  BY <1>1, <1>5, OneOwner
<1>9. R # {} \/ O # {}
  BY <1>3, <1>4 DEF Covered, InFree, InLive
<1>10. CASE R # {}
  <2>1. PICK i : R = {i}
    BY <1>6, <1>10
  <2>2. O = {}
    BY <1>7, <2>1
  <2>3. Cardinality(R) = 1 /\ Cardinality(O) = 0
    BY <2>1, <2>2, FS_Singleton, FS_EmptySet, Zenon
  <2> QED BY <2>3, SameOperators
<1>11. CASE R = {}
  <2>1. PICK o : O = {o}
    BY <1>8, <1>9, <1>11
  <2>2. Cardinality(R) = 0 /\ Cardinality(O) = 1
    BY <1>11, <2>1, FS_Singleton, FS_EmptySet, Zenon
  <2> QED BY <2>2, SameOperators
<1> QED BY <1>10, <1>11

\* vmm.c, for every region, every set of frames and every sequence of calls and
\* faults: a page of an allocated object waits in one bitmap or is mapped, never
\* both and never neither; a frame is free or mapped once; device pages are mapped
\* in order; and unless the heap runs out inside a call, every page of the region is
\* in exactly one free range or object.
THEOREM MappingSafety ==
  V!VmmAssumption => (V!Spec => []V!MappingsExact)
<1> SUFFICES ASSUME V!VmmAssumption PROVE V!Spec => []V!MappingsExact
  OBVIOUS
<1>1. VmmInv => V!MappingsExact
  <2> SUFFICES ASSUME VmmInv PROVE V!MappingsExact
    OBVIOUS
  <2>1. /\ SpaceOk(object_list, live) /\ FreeOk(object_list) /\ LiveOk(live)
        /\ WaitOk(live, uncommited_objects) /\ MapsOk(live, uncommited_objects, pt)
        /\ FramesOk(frames, pt) /\ (~HeapMayFail => Covered(object_list, live))
        /\ result \in {V!None, "ok", "null", "freed", "panic", "assert"}
    BY DEF VmmInv, SpaceOk
  <2>2. V!TypeOK
    <3>1. \A o \in V!FreeRanges : o \in FreeRange /\ o.start <= o.end
      BY <2>1 DEF FreeOk, V!FreeRanges
    <3>2. \A o \in live : o \in Object /\ o.start <= o.end
      BY <2>1 DEF LiveOk
    <3>3. \A o \in V!FreeRanges \cup live : o.start \in V!Pages /\ o.end \in V!Pages /\ o.start <= o.end
      BY <3>1, <3>2, RangeInts
    <3>4. result \in {V!None, "ok", "null", "freed", "lost", "panic", "assert"}
      BY <2>1
    <3> QED BY <2>1, <3>3, <3>4 DEF V!TypeOK, MapsOk, FramesOk
  <2>3. V!CommitStateExact
    <3>1. result # "lost"
      BY <2>1 DEF V!None
    <3>2. ASSUME NEW p \in V!Pages,
                 NEW O, O = {o \in live : p \in V!PagesOf(o)},
                 NEW W, W = {i \in DOMAIN uncommited_objects : p \in uncommited_objects[i].bitmap}
          PROVE  IF pt[p] # V!None THEN O # {} /\ W = {} ELSE V!Cardinality(W) = V!Cardinality(O)
      <4>1. CASE pt[p] = V!None
        BY <3>2, <4>1, WaitsAsOwned
      <4>2. CASE pt[p] # V!None
        <5>1. PICK o \in live : o.start <= p /\ p <= o.end
          BY <2>1, <4>2 DEF MapsOk, InLive
        <5>2. p \in V!PagesOf(o)
          BY <2>1, <5>1, PagesInRegion
        <5>3. ASSUME NEW i \in W PROVE FALSE
          <6>1. i \in 1..Len(uncommited_objects) /\ p \in uncommited_objects[i].bitmap
            BY <2>1, <3>2 DEF WaitOk
          <6>2. uncommited_objects[i].object \in live /\ p \in V!PagesOf(uncommited_objects[i].object)
            BY <2>1, <6>1 DEF WaitOk
          <6>3. PageOk(uncommited_objects[i].object, p, uncommited_objects, pt[p])
            BY <2>1, <6>2 DEF MapsOk
          <6> QED BY <4>2, <6>1, <6>3 DEF PageOk
        <5> QED BY <3>2, <4>2, <5>2, <5>3
      <4> QED BY <4>1, <4>2
    <3> QED BY <3>1, <3>2, Zenon DEF V!CommitStateExact
  <2>4. V!FramesExact
    BY <2>1 DEF V!FramesExact, FramesOk
  <2>5. V!DeviceMappedInOrder
    BY <2>1 DEF V!DeviceMappedInOrder, MapsOk, PageOk
  <2>6. ~HeapMayFail => V!AddressSpacePartitioned
    BY <2>1, PartitionedPage, Zenon DEF V!AddressSpacePartitioned
  <2> QED BY <2>2, <2>3, <2>4, <2>5, <2>6 DEF V!MappingsExact
<1>2. V!Spec => []VmmInv
  BY VmmInvariance
<1> QED BY <1>1, <1>2, PTL
=============================================================================
