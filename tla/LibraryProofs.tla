--------------------------- MODULE LibraryProofs ---------------------------
(***************************************************************************)
(* The ring buffer of kernel/lib/queue.c is a bounded FIFO queue, for      *)
(* every capacity and every kind of item; the links of kernel/lib/list.c   *)
(* are those of the sequence the list stands for, for every set of nodes;  *)
(* and the consoles of kernel/io/co.c lose and repeat no message, however  *)
(* many are printed while the user chooses one.                            *)
(***************************************************************************)
EXTENDS RingQueue, ListLemmas

\* What a leaf that names no prover is tried with, in turn.
USE SMTT(10), Zenon, SMTT(30)
\* The wrap-around of an index: `(index + 1) % cap'.
LEMMA IndexSucc ==
  ASSUME NEW c \in Nat \ {0}, NEW x \in 0 .. c - 1
  PROVE  (x + 1) % c = IF x + 1 = c THEN 0 ELSE x + 1
<1>1. CASE x + 1 < c
  <2>1. (x + 1) % c = x + 1
    BY <1>1
  <2> QED
    BY <1>1, <2>1
<1>2. CASE x + 1 = c
  <2>1. c % c = 0
    OBVIOUS
  <2> QED
    BY <1>2, <2>1
<1> QED
  BY <1>1, <1>2

\* A sequence one element longer that agrees with another one is that one
\* with the element appended.
LEMMA AppendPointwise ==
  ASSUME NEW S, NEW s \in Seq(S), NEW t \in Seq(S), NEW e \in S,
         Len(t) = Len(s) + 1, \A k \in 1 .. Len(s) : t[k] = s[k],
         t[Len(s) + 1] = e
  PROVE  t = Append(s, e)
<1>1. /\ Append(s, e) \in Seq(S) /\ Len(Append(s, e)) = Len(s) + 1
      /\ \A k \in 1 .. Len(s) : Append(s, e)[k] = s[k]
      /\ Append(s, e)[Len(s) + 1] = e
  BY AppendProperties
<1>2. Len(s) \in Nat
  OBVIOUS
<1>3. \A k \in 1 .. Len(t) : t[k] = Append(s, e)[k]
  BY <1>1, <1>2
<1> QED
  BY <1>1, <1>3, SeqEqual

\* A sequence one element shorter that agrees with the rest of another one
\* is its tail.
LEMMA TailPointwise ==
  ASSUME NEW S, NEW s \in Seq(S), NEW t \in Seq(S), s # << >>,
         Len(t) = Len(s) - 1, \A k \in 1 .. Len(t) : t[k] = s[k + 1]
  PROVE  t = Tail(s)
<1>1. /\ Tail(s) \in Seq(S) /\ Len(Tail(s)) = Len(s) - 1
      /\ \A k \in 1 .. Len(Tail(s)) : Tail(s)[k] = s[k + 1]
  BY HeadTailProperties
<1>2. \A k \in 1 .. Len(t) : t[k] = Tail(s)[k]
  BY <1>1
<1> QED
  BY <1>1, <1>2, SeqEqual

\* queue_init starts with both indices at the first element.
LEMMA InitType == Init => TypeOK
<1> SUFFICES ASSUME Init PROVE TypeOK
  OBVIOUS
<1>1. last_was_enqueue \in BOOLEAN
  BY Zenon DEF Init
<1>2. 0 \in 0 .. Cap - 1
  BY CapAssumption
<1> QED
  BY <1>1, <1>2 DEF Init, TypeOK

\* The indices stay inside the buffer: queue_init starts them at 0 and the
\* two operations wrap them around.
THEOREM TypeCorrect == Spec => []TypeOK
<1>1. Init => TypeOK
  BY InitType
<1>2. TypeOK /\ [Next]_vars => TypeOK'
  <2> SUFFICES ASSUME TypeOK, [Next]_vars PROVE TypeOK'
    OBVIOUS
  <2>1. \A x \in 0 .. Cap - 1 : (x + 1) % Cap \in 0 .. Cap - 1
    BY CapAssumption, IndexSucc
  <2>2. ASSUME NEW item \in Item, queue_enqueue(item) PROVE TypeOK'
    BY <2>1, <2>2, Zenon DEF TypeOK, queue_enqueue, IndexAfter
  <2>3. CASE queue_dequeue
    BY <2>1, <2>3, Zenon DEF TypeOK, queue_dequeue, IndexAfter
  <2>4. CASE queue_peek
    BY <2>4 DEF TypeOK, queue_peek
  <2>5. CASE UNCHANGED vars
    BY <2>5 DEF TypeOK, vars
  <2> QED
    BY <2>2, <2>3, <2>4, <2>5 DEF Next
<1> QED
  BY <1>1, <1>2, PTL DEF Spec

(* Where the k-th queued item is: the items fill the buffer from           *)
(* dequeue_index on, wrapping around.                                      *)
ContentsShape ==
  /\ Count \in 0 .. Cap
  /\ Contents \in Seq(Item) /\ Len(Contents) = Count
  /\ \A k \in 1 .. Count : Contents[k] = buf[Slot(k - 1)]
  /\ queue_is_full <=> Count = Cap
  /\ queue_is_empty <=> Count = 0
  /\ Count > 0 => Contents[1] = buf[dequeue_index]

\* The tests of queue.c for full and empty tell how many items there are,
\* although equal indices alone do not.
LEMMA ContentsType == TypeOK => ContentsShape
<1> SUFFICES ASSUME TypeOK PROVE ContentsShape
  OBVIOUS
<1>1. Count \in 0 .. Cap
  BY CapAssumption DEF TypeOK, Count
<1>2. \A k \in 1 .. Count : Slot(k - 1) \in 0 .. Cap - 1
  BY <1>1, CapAssumption DEF TypeOK, Slot
<1>3. Contents \in [1 .. Count -> Item]
  BY <1>2 DEF TypeOK, Contents
<1>4. Contents \in Seq(Item) /\ Len(Contents) = Count
  BY <1>1, <1>3
<1>5. \A k \in 1 .. Count : Contents[k] = buf[Slot(k - 1)]
  BY DEF Contents
<1>6. (queue_is_full <=> Count = Cap) /\ (queue_is_empty <=> Count = 0)
  BY CapAssumption DEF TypeOK, Count, queue_is_full, queue_is_empty
<1>7. Slot(0) = dequeue_index
  BY CapAssumption DEF TypeOK, Slot
<1>8. Count > 0 => Contents[1] = buf[dequeue_index]
  BY <1>1, <1>5, <1>7
<1> QED
  BY <1>1, <1>4, <1>5, <1>6, <1>8 DEF ContentsShape

\* queue_enqueue on a buffer that is not full appends its item.
LEMMA EnqueueAppends ==
  ASSUME TypeOK, TypeOK', NEW item \in Item, queue_enqueue(item), ~queue_is_full
  PROVE  Contents' = Append(Contents, item)
<1>1. /\ buf' = [buf EXCEPT ![enqueue_index] = item]
      /\ enqueue_index' = (enqueue_index + 1) % Cap
      /\ last_was_enqueue' = TRUE /\ dequeue_index' = dequeue_index
  BY DEF queue_enqueue, IndexAfter
<1>2. enqueue_index' = IF enqueue_index + 1 = Cap THEN 0 ELSE enqueue_index + 1
  BY <1>1, IndexSucc, CapAssumption, Zenon DEF TypeOK
<1>3. Count' = Count + 1 /\ Count < Cap
  BY <1>1, <1>2, CapAssumption DEF TypeOK, Count, queue_is_full
<1>4. Slot(Count) = enqueue_index
  BY <1>3, CapAssumption DEF TypeOK, Slot, Count, queue_is_full
<1>5. \A k \in 1 .. Count : Slot(k - 1) # enqueue_index /\ Slot(k - 1) \in 0 .. Cap - 1
  BY <1>3, CapAssumption DEF TypeOK, Slot, Count, queue_is_full
<1>6. \A k : Slot(k)' = Slot(k)
  BY <1>1 DEF Slot
<1>7. /\ Contents \in Seq(Item) /\ Len(Contents) = Count /\ Count \in 0 .. Cap
      /\ \A k \in 1 .. Count : Contents[k] = buf[Slot(k - 1)]
  BY ContentsType DEF ContentsShape
<1>8. /\ Contents' \in Seq(Item) /\ Len(Contents') = Count'
      /\ \A k \in 1 .. Count' : Contents'[k] = buf'[Slot(k - 1)']
  <2>1. ContentsShape'
    BY ContentsType, PTL
  <2> QED
    BY <2>1 DEF ContentsShape
<1>9. \A k \in 1 .. Count : Contents'[k] = Contents[k]
  <2> SUFFICES ASSUME NEW k \in 1 .. Count PROVE Contents'[k] = Contents[k]
    OBVIOUS
  <2>1. Contents'[k] = buf'[Slot(k - 1)]
    BY <1>3, <1>6, <1>7, <1>8
  <2>2. buf'[Slot(k - 1)] = buf[Slot(k - 1)]
    BY <1>1, <1>5 DEF TypeOK
  <2> QED
    BY <2>1, <2>2, <1>7
<1>10. Contents'[Count + 1] = item
  <2>1. Contents'[Count + 1] = buf'[Slot(Count)]
    BY <1>3, <1>6, <1>7, <1>8
  <2> QED
    BY <2>1, <1>1, <1>4 DEF TypeOK
<1> QED
  BY <1>3, <1>7, <1>8, <1>9, <1>10, AppendPointwise

\* queue_dequeue on a buffer that is not empty takes the oldest item.
LEMMA DequeueTakesHead ==
  ASSUME TypeOK, TypeOK', queue_dequeue, ~queue_is_empty
  PROVE  /\ Contents # << >> /\ Contents' = Tail(Contents)
         /\ answer' = <<"item", Head(Contents)>>
<1>1. /\ buf' = buf /\ enqueue_index' = enqueue_index
      /\ dequeue_index' = (dequeue_index + 1) % Cap
      /\ last_was_enqueue' = FALSE
      /\ answer' = <<"item", buf[dequeue_index]>>
  BY DEF queue_dequeue, IndexAfter
<1>2. dequeue_index' = IF dequeue_index + 1 = Cap THEN 0 ELSE dequeue_index + 1
  BY <1>1, IndexSucc, CapAssumption, Zenon DEF TypeOK
<1>3. Count' = Count - 1 /\ Count > 0
  BY <1>1, <1>2, CapAssumption DEF TypeOK, Count, queue_is_empty
<1>4. \A k \in 1 .. Count - 1 : Slot(k - 1)' = Slot(k)
  BY <1>2, <1>3, CapAssumption DEF TypeOK, Slot, Count
<1>5. /\ Contents \in Seq(Item) /\ Len(Contents) = Count /\ Count \in 0 .. Cap
      /\ \A k \in 1 .. Count : Contents[k] = buf[Slot(k - 1)]
      /\ Contents[1] = buf[dequeue_index]
  BY <1>3, ContentsType DEF ContentsShape
<1>6. /\ Contents' \in Seq(Item) /\ Len(Contents') = Count'
      /\ \A k \in 1 .. Count' : Contents'[k] = buf'[Slot(k - 1)']
  <2>1. ContentsShape'
    BY ContentsType, PTL
  <2> QED
    BY <2>1 DEF ContentsShape
<1>7. \A k \in 1 .. Count - 1 : Contents'[k] = Contents[k + 1]
  <2> SUFFICES ASSUME NEW k \in 1 .. Count - 1 PROVE Contents'[k] = Contents[k + 1]
    OBVIOUS
  <2>1. Contents'[k] = buf[Slot(k)]
    BY <1>1, <1>3, <1>4, <1>6
  <2>2. k + 1 \in 1 .. Count /\ (k + 1) - 1 = k
    BY <1>5
  <2>3. Contents[k + 1] = buf[Slot(k)]
    BY <1>5, <2>2
  <2> QED
    BY <2>1, <2>3
<1>8. Contents # << >>
  BY <1>3, <1>5
<1>9. Contents' = Tail(Contents)
  BY <1>3, <1>5, <1>6, <1>7, <1>8, TailPointwise
<1>10. Head(Contents) = buf[dequeue_index]
  BY <1>5, <1>8, HeadTailProperties
<1> QED
  BY <1>1, <1>8, <1>9, <1>10

\* Every call of queue.c gives what a first-in first-out sequence of at
\* most Cap items gives.
THEOREM RefinesFifo == Spec => FifoRefinement
<1>1. Init => Abstract!Init
  <2> SUFFICES ASSUME Init PROVE Contents = << >> /\ answer = <<"ok">>
    BY DEF Abstract!Init
  <2>0. TypeOK
    BY InitType
  <2>1. Count = 0
    BY Zenon DEF Init, Count
  <2>2. Contents \in Seq(Item) /\ Len(Contents) = 0
    BY <2>0, <2>1, ContentsType DEF ContentsShape
  <2> QED
    BY <2>2, EmptySeq DEF Init
<1>2. TypeOK /\ TypeOK' /\ [Next]_vars => [Abstract!Next]_<<Contents, answer>>
  <2> SUFFICES ASSUME TypeOK, TypeOK', [Next]_vars
               PROVE  [Abstract!Next]_<<Contents, answer>>
    OBVIOUS
  <2>0. /\ Contents \in Seq(Item) /\ Len(Contents) = Count /\ Count \in 0 .. Cap
        /\ queue_is_full <=> Count = Cap
        /\ queue_is_empty <=> Count = 0
        /\ Count > 0 => Contents[1] = buf[dequeue_index]
    BY ContentsType DEF ContentsShape
  <2>a. ASSUME UNCHANGED <<buf, enqueue_index, dequeue_index, last_was_enqueue>>
        PROVE  Contents' = Contents
    BY <2>a DEF Contents, Count, Slot
  <2>1. ASSUME NEW item \in Item, queue_enqueue(item)
        PROVE  Abstract!Enqueue(item)
    <3>1. CASE queue_is_full
      BY <2>0, <2>1, <2>a, <3>1 DEF queue_enqueue, Abstract!Enqueue
    <3>2. CASE ~queue_is_full
      <4>1. Contents' = Append(Contents, item)
        BY <2>1, <3>2, EnqueueAppends
      <4>2. answer' = <<"ok">>
        BY <2>1, <3>2 DEF queue_enqueue
      <4>3. Len(Contents) < Cap
        BY <2>0, <3>2, CapAssumption
      <4> QED
        BY <4>1, <4>2, <4>3 DEF Abstract!Enqueue
    <3> QED
      BY <3>1, <3>2
  <2>2. CASE queue_dequeue
    <3>1. CASE queue_is_empty
      <4>1. Contents = << >>
        BY <2>0, <3>1, EmptySeq
      <4>2. answer' = <<"empty">> /\ Contents' = Contents
        BY <2>2, <2>a, <3>1 DEF queue_dequeue
      <4> QED
        BY <4>1, <4>2 DEF Abstract!Next, Abstract!Dequeue
    <3>2. CASE ~queue_is_empty
      BY <2>2, <3>2, DequeueTakesHead DEF Abstract!Next, Abstract!Dequeue
    <3> QED
      BY <3>1, <3>2
  <2>3. CASE queue_peek
    <3>1. Contents' = Contents
      BY <2>3, <2>a DEF queue_peek
    <3>2. queue_is_empty <=> Contents = << >>
      BY <2>0, EmptySeq
    <3>3. ~queue_is_empty => Head(Contents) = buf[dequeue_index]
      BY <2>0, <3>2, HeadTailProperties
    <3> QED
      BY <2>3, <3>1, <3>2, <3>3 DEF queue_peek, Abstract!Next, Abstract!Peek
  <2>4. CASE UNCHANGED vars
    BY <2>4, <2>a DEF vars
  <2> QED
    BY <2>1, <2>2, <2>3, <2>4 DEF Next, Abstract!Next
<1> QED
  BY <1>1, <1>2, TypeCorrect, PTL DEF Spec, FifoRefinement, Abstract!Spec

-----------------------------------------------------------------------------

CONSTANTS Nodes, NULL
VARIABLES prev, next, front, back, elems

K == INSTANCE List
(***************************************************************************)
(* list.c.                                                                 *)
(***************************************************************************)
NodeAt(E, i) == IF i \in 1..Len(E) THEN E[i] ELSE NULL
Links == [Nodes -> Nodes \cup {NULL}]

\* The links P, N and the ends f, b are those of the sequence E.
Linked(P, N, f, b, E) ==
  /\ E \in Seq(Nodes) /\ P \in Links /\ N \in Links
  /\ f = NodeAt(E, 1) /\ b = NodeAt(E, Len(E))
  /\ \A i \in 1..Len(E) : N[E[i]] = NodeAt(E, i + 1) /\ P[E[i]] = NodeAt(E, i - 1)
  /\ \A i, j \in 1..Len(E) : E[i] = E[j] => i = j

ListInv == Linked(prev, next, front, back, elems)

\* D is E with n after position k, and the two neighbours point to it.
InsertedSeq(E, D, k, n) ==
  /\ k \in 0..Len(E) /\ D \in Seq(Nodes) /\ Len(D) = Len(E) + 1
  /\ \A i \in 1..(Len(E) + 1) : D[i] = IF i <= k THEN E[i] ELSE IF i = k + 1 THEN n ELSE E[i - 1]
InsertedLinks(P, N, E, P2, N2, k, n) ==
  /\ P2 \in Links /\ N2 \in Links
  /\ P2[n] = NodeAt(E, k) /\ N2[n] = NodeAt(E, k + 1)
  /\ \A x \in Nodes \ {n} : /\ N2[x] = IF x = NodeAt(E, k) THEN n ELSE N[x]
                            /\ P2[x] = IF x = NodeAt(E, k + 1) THEN n ELSE P[x]

\* The four links that an insertion after position n sets are those of the
\* longer sequence.
LEMMA InsertLinked ==
  ASSUME NULL \notin Nodes, NEW P, NEW N, NEW f, NEW b, NEW E, Linked(P, N, f, b, E),
         NEW D, NEW k, NEW n \in Nodes, \A i \in 1..Len(E) : E[i] # n, InsertedSeq(E, D, k, n),
         NEW P2, NEW N2, InsertedLinks(P, N, E, P2, N2, k, n)
  PROVE  Linked(P2, N2, IF k = 0 THEN n ELSE f, IF k = Len(E) THEN n ELSE b, D)
<1>1. /\ E \in Seq(Nodes) /\ Len(E) \in Nat /\ \A i \in 1..Len(E) : E[i] \in Nodes \ {n}
      /\ f = NodeAt(E, 1) /\ b = NodeAt(E, Len(E))
      /\ \A i \in 1..Len(E) : N[E[i]] = NodeAt(E, i + 1) /\ P[E[i]] = NodeAt(E, i - 1)
      /\ \A i, j \in 1..Len(E) : E[i] = E[j] => i = j
  BY DEF Linked
<1>2. /\ k \in 0..Len(E) /\ D \in Seq(Nodes) /\ Len(D) = Len(E) + 1
      /\ \A i \in 1..(Len(E) + 1) : D[i] = IF i <= k THEN E[i] ELSE IF i = k + 1 THEN n ELSE E[i - 1]
  BY DEF InsertedSeq
<1>3. /\ P2 \in Links /\ N2 \in Links /\ P2[n] = NodeAt(E, k) /\ N2[n] = NodeAt(E, k + 1)
      /\ \A x \in Nodes \ {n} : /\ N2[x] = IF x = NodeAt(E, k) THEN n ELSE N[x]
                                /\ P2[x] = IF x = NodeAt(E, k + 1) THEN n ELSE P[x]
  BY DEF InsertedLinks
<1>4. \A i \in Int : NodeAt(D, i) = IF i <= k THEN NodeAt(E, i) ELSE IF i = k + 1 THEN n ELSE NodeAt(E, i - 1)
  <2> SUFFICES ASSUME NEW i \in Int
               PROVE  NodeAt(D, i) = IF i <= k THEN NodeAt(E, i) ELSE IF i = k + 1 THEN n ELSE NodeAt(E, i - 1)
    OBVIOUS
  <2>1. CASE i \in 1..(Len(E) + 1)
    BY <1>1, <1>2, <2>1 DEF NodeAt
  <2>2. CASE i \notin 1..(Len(E) + 1)
    BY <1>1, <1>2, <2>2 DEF NodeAt
  <2> QED BY <2>1, <2>2
<1>5. ASSUME NEW i \in 1..Len(E), NEW m \in 1..Len(E) PROVE E[i] = NodeAt(E, m) <=> i = m
  BY <1>1 DEF NodeAt
<1>7. ASSUME NEW i \in 1..Len(E), NEW m \in 0..(Len(E) + 1) PROVE E[i] = NodeAt(E, m) <=> i = m
  <2>1. CASE m \in 1..Len(E)
    BY <1>5, <2>1
  <2>2. CASE m \notin 1..Len(E)
    BY <1>1, <2>2 DEF NodeAt
  <2> QED BY <2>1, <2>2
<1>8. k \in 0..(Len(E) + 1) /\ k + 1 \in 0..(Len(E) + 1)
  BY <1>1, <1>2
<1>9. \A i \in 1..Len(E) : /\ N2[E[i]] = IF i = k THEN n ELSE NodeAt(E, i + 1)
                           /\ P2[E[i]] = IF i = k + 1 THEN n ELSE NodeAt(E, i - 1)
  BY <1>1, <1>3, <1>7, <1>8
<1>10. ASSUME NEW i \in 1..Len(D) PROVE N2[D[i]] = NodeAt(D, i + 1) /\ P2[D[i]] = NodeAt(D, i - 1)
  <2>1. i + 1 \in Int /\ i - 1 \in Int /\ i \in 1..(Len(E) + 1)
    BY <1>1, <1>2
  <2>2. CASE i <= k
    <3>1. i \in 1..Len(E) /\ D[i] = E[i]
      BY <1>1, <1>2, <2>1, <2>2
    <3>2. NodeAt(D, i + 1) = IF i = k THEN n ELSE NodeAt(E, i + 1)
      BY <1>2, <1>4, <2>1, <2>2
    <3>3. NodeAt(D, i - 1) = NodeAt(E, i - 1)
      BY <1>2, <1>4, <2>1, <2>2
    <3> QED BY <1>2, <1>9, <2>2, <3>1, <3>2, <3>3
  <2>3. CASE i = k + 1
    <3>1. D[i] = n
      BY <1>2, <2>1, <2>3
    <3>2. NodeAt(D, i + 1) = NodeAt(E, k + 1) /\ NodeAt(D, i - 1) = NodeAt(E, k)
      BY <1>2, <1>4, <2>1, <2>3
    <3> QED BY <1>3, <3>1, <3>2
  <2>4. CASE i > k + 1
    <3>1. i - 1 \in 1..Len(E) /\ D[i] = E[i - 1] /\ i - 1 # k
      BY <1>1, <1>2, <2>1, <2>4
    <3>2. NodeAt(D, i + 1) = NodeAt(E, (i - 1) + 1)
      BY <1>2, <1>4, <2>1, <2>4
    <3>3. NodeAt(D, i - 1) = IF i - 1 = k + 1 THEN n ELSE NodeAt(E, (i - 1) - 1)
      BY <1>2, <1>4, <2>1, <2>4
    <3> QED BY <1>9, <3>1, <3>2, <3>3
  <2> QED BY <1>2, <2>1, <2>2, <2>3, <2>4
<1>11. ASSUME NEW i \in 1..Len(D), NEW j \in 1..Len(D), D[i] = D[j] PROVE i = j
  <2>1. D[i] = (IF i <= k THEN E[i] ELSE IF i = k + 1 THEN n ELSE E[i - 1])
        /\ D[j] = (IF j <= k THEN E[j] ELSE IF j = k + 1 THEN n ELSE E[j - 1])
    BY <1>2
  <2>2. i \in 1..(Len(E) + 1) /\ j \in 1..(Len(E) + 1)
    BY <1>2
  <2>3. (i <= k => i \in 1..Len(E)) /\ (i > k + 1 => i - 1 \in 1..Len(E))
        /\ (j <= k => j \in 1..Len(E)) /\ (j > k + 1 => j - 1 \in 1..Len(E))
    BY <1>1, <1>2, <2>2
  <2>4. i = k + 1 <=> j = k + 1
    <3>1. ASSUME NEW x \in 1..Len(D), x # k + 1 PROVE D[x] # n
      <4>1. x \in 1..(Len(E) + 1)
        BY <1>2
      <4>2. CASE x <= k
        BY <1>1, <1>2, <4>1, <4>2
      <4>3. CASE x > k + 1
        <5>1. x - 1 \in 1..Len(E) /\ ~(x <= k)
          BY <1>1, <1>2, <4>1, <4>3
        <5> QED BY <1>2, <3>1, <4>1, <5>1
      <4> QED BY <1>2, <3>1, <4>1, <4>2, <4>3
    <3>2. k + 1 \in 1..Len(D) /\ D[k + 1] = n
      BY <1>1, <1>2
    <3> QED BY <1>11, <3>1, <3>2
  <2>5. CASE i = k + 1
    BY <2>4, <2>5
  <2>6. CASE i # k + 1
    <3>1. PICK x \in 1..Len(E) : D[i] = E[x] /\ x = IF i <= k THEN i ELSE i - 1
      BY <1>2, <2>1, <2>2, <2>3, <2>6
    <3>2. PICK y \in 1..Len(E) : D[j] = E[y] /\ y = IF j <= k THEN j ELSE j - 1
      BY <1>2, <2>1, <2>2, <2>3, <2>4, <2>6
    <3>3. x = y
      BY <1>1, <1>11, <3>1, <3>2, Zenon
    <3> QED BY <1>2, <2>2, <2>4, <2>6, <3>1, <3>2, <3>3
  <2> QED BY <2>5, <2>6
<1>12. NodeAt(D, 1) = IF k = 0 THEN n ELSE f
  BY <1>1, <1>2, <1>4
<1>13. NodeAt(D, Len(D)) = IF k = Len(E) THEN n ELSE b
  <2>1. Len(E) + 1 \in Int /\ (Len(E) + 1) - 1 = Len(E) /\ ~(Len(E) + 1 <= k) /\ (Len(E) + 1 = k + 1 <=> k = Len(E))
    BY <1>1, <1>2
  <2>2. NodeAt(D, Len(E) + 1) = IF Len(E) + 1 = k + 1 THEN n ELSE NodeAt(E, (Len(E) + 1) - 1)
    BY <1>4, <2>1
  <2> QED BY <1>1, <1>2, <2>1, <2>2, Zenon
<1> QED BY <1>2, <1>3, <1>10, <1>11, <1>12, <1>13 DEF Linked

\* D is E without position k, and the two neighbours point to each other; the
\* links of the node that left do not matter.
RemovedSeq(E, D, k) ==
  /\ k \in 1..Len(E) /\ D \in Seq(Nodes) /\ Len(D) = Len(E) - 1
  /\ \A i \in 1..(Len(E) - 1) : D[i] = IF i < k THEN E[i] ELSE E[i + 1]
RemovedLinks(P, N, E, P2, N2, k) ==
  /\ P2 \in Links /\ N2 \in Links
  /\ \A x \in Nodes \ {E[k]} : /\ N2[x] = IF x = NodeAt(E, k - 1) THEN NodeAt(E, k + 1) ELSE N[x]
                               /\ P2[x] = IF x = NodeAt(E, k + 1) THEN NodeAt(E, k - 1) ELSE P[x]

\* The two links that a removal sets are those of the shorter sequence.
LEMMA RemoveLinked ==
  ASSUME NULL \notin Nodes, NEW P, NEW N, NEW f, NEW b, NEW E, Linked(P, N, f, b, E),
         NEW D, NEW k, RemovedSeq(E, D, k), NEW P2, NEW N2, RemovedLinks(P, N, E, P2, N2, k)
  PROVE  Linked(P2, N2, IF k = 1 THEN NodeAt(E, 2) ELSE f, IF k = Len(E) THEN NodeAt(E, Len(E) - 1) ELSE b, D)
<1>1. /\ E \in Seq(Nodes) /\ Len(E) \in Nat /\ \A i \in 1..Len(E) : E[i] \in Nodes
      /\ f = NodeAt(E, 1) /\ b = NodeAt(E, Len(E))
      /\ \A i \in 1..Len(E) : N[E[i]] = NodeAt(E, i + 1) /\ P[E[i]] = NodeAt(E, i - 1)
      /\ \A i, j \in 1..Len(E) : E[i] = E[j] => i = j
  BY DEF Linked
<1>2. /\ k \in 1..Len(E) /\ D \in Seq(Nodes) /\ Len(D) = Len(E) - 1
      /\ \A i \in 1..(Len(E) - 1) : D[i] = IF i < k THEN E[i] ELSE E[i + 1]
  BY DEF RemovedSeq
<1>3. /\ P2 \in Links /\ N2 \in Links
      /\ \A x \in Nodes \ {E[k]} : /\ N2[x] = IF x = NodeAt(E, k - 1) THEN NodeAt(E, k + 1) ELSE N[x]
                                   /\ P2[x] = IF x = NodeAt(E, k + 1) THEN NodeAt(E, k - 1) ELSE P[x]
  BY DEF RemovedLinks
<1>4. \A i \in Int : NodeAt(D, i) = IF i < k THEN NodeAt(E, i) ELSE NodeAt(E, i + 1)
  <2> SUFFICES ASSUME NEW i \in Int PROVE NodeAt(D, i) = IF i < k THEN NodeAt(E, i) ELSE NodeAt(E, i + 1)
    OBVIOUS
  <2>1. CASE i \in 1..(Len(E) - 1)
    BY <1>1, <1>2, <2>1 DEF NodeAt
  <2>2. CASE i \notin 1..(Len(E) - 1)
    BY <1>1, <1>2, <2>2 DEF NodeAt
  <2> QED BY <2>1, <2>2
<1>5. ASSUME NEW i \in 1..Len(E), NEW m \in 0..(Len(E) + 1) PROVE E[i] = NodeAt(E, m) <=> i = m
  <2>1. CASE m \in 1..Len(E)
    BY <1>1, <2>1 DEF NodeAt
  <2>2. CASE m \notin 1..Len(E)
    BY <1>1, <2>2 DEF NodeAt
  <2> QED BY <2>1, <2>2
<1>6. k - 1 \in 0..(Len(E) + 1) /\ k + 1 \in 0..(Len(E) + 1)
  BY <1>1, <1>2
<1>7. \A i \in 1..Len(E) : i # k =>
        /\ N2[E[i]] = IF i = k - 1 THEN NodeAt(E, k + 1) ELSE NodeAt(E, i + 1)
        /\ P2[E[i]] = IF i = k + 1 THEN NodeAt(E, k - 1) ELSE NodeAt(E, i - 1)
  <2> SUFFICES ASSUME NEW i \in 1..Len(E), i # k
               PROVE  /\ N2[E[i]] = IF i = k - 1 THEN NodeAt(E, k + 1) ELSE NodeAt(E, i + 1)
                      /\ P2[E[i]] = IF i = k + 1 THEN NodeAt(E, k - 1) ELSE NodeAt(E, i - 1)
    OBVIOUS
  <2>1. E[i] \in Nodes \ {E[k]}
    BY <1>1, <1>2, Zenon
  <2>2. /\ N2[E[i]] = IF E[i] = NodeAt(E, k - 1) THEN NodeAt(E, k + 1) ELSE N[E[i]]
        /\ P2[E[i]] = IF E[i] = NodeAt(E, k + 1) THEN NodeAt(E, k - 1) ELSE P[E[i]]
    BY <1>3, <2>1, Zenon
  <2>3. (E[i] = NodeAt(E, k - 1) <=> i = k - 1) /\ (E[i] = NodeAt(E, k + 1) <=> i = k + 1)
    BY <1>5, <1>6, Zenon
  <2>4. N[E[i]] = NodeAt(E, i + 1) /\ P[E[i]] = NodeAt(E, i - 1)
    BY <1>1, Zenon
  <2> QED BY <2>2, <2>3, <2>4, Zenon
<1>8. ASSUME NEW i \in 1..Len(D) PROVE N2[D[i]] = NodeAt(D, i + 1) /\ P2[D[i]] = NodeAt(D, i - 1)
  <2>1. i + 1 \in Int /\ i - 1 \in Int /\ i \in 1..(Len(E) - 1)
    BY <1>1, <1>2
  <2>2. CASE i < k
    <3>0. k \in Int /\ i \in Int /\ Len(E) \in Int
      BY <1>1, <1>2
    <3>1. i \in 1..Len(E) /\ D[i] = E[i] /\ i # k /\ i # k + 1
      <4>1. i \in 1..Len(E) /\ i # k /\ i # k + 1
        BY <2>1, <2>2, <3>0
      <4> QED BY <1>2, <2>1, <2>2, <4>1
    <3>2. NodeAt(D, i + 1) = IF i = k - 1 THEN NodeAt(E, k + 1) ELSE NodeAt(E, i + 1)
      <4>1. CASE i = k - 1
        <5>1. ~(i + 1 < k) /\ (i + 1) + 1 = k + 1
          BY <3>0, <4>1
        <5> QED BY <1>4, <2>1, <4>1, <5>1
      <4>2. CASE i # k - 1
        <5>1. i + 1 < k
          BY <2>2, <3>0, <4>2
        <5> QED BY <1>4, <2>1, <4>2, <5>1
      <4> QED BY <4>1, <4>2
    <3>3. NodeAt(D, i - 1) = NodeAt(E, i - 1)
      <4>1. i - 1 < k
        BY <2>2, <3>0
      <4> QED BY <1>4, <2>1, <4>1
    <3> QED BY <1>7, <3>1, <3>2, <3>3
  <2>3. CASE i >= k
    <3>1. i + 1 \in 1..Len(E) /\ ~(i < k) /\ i + 1 # k /\ i + 1 # k - 1 /\ ~(i + 1 < k)
      BY <1>1, <1>2, <2>1, <2>3
    <3>2. D[i] = E[i + 1]
      BY <1>2, <2>1, <3>1
    <3>3. NodeAt(D, i + 1) = NodeAt(E, (i + 1) + 1)
      BY <1>4, <2>1, <3>1
    <3>4. NodeAt(D, i - 1) = IF i + 1 = k + 1 THEN NodeAt(E, k - 1) ELSE NodeAt(E, (i + 1) - 1)
      <4>1. CASE i = k
        BY <1>2, <1>4, <2>1, <4>1
      <4>2. CASE i # k
        <5>1. ~(i - 1 < k) /\ (i - 1) + 1 = (i + 1) - 1 /\ i + 1 # k + 1
          BY <1>2, <2>1, <2>3, <4>2
        <5> QED BY <1>4, <2>1, <5>1
      <4> QED BY <4>1, <4>2
    <3> QED BY <1>7, <3>1, <3>2, <3>3, <3>4
  <2> QED BY <1>2, <2>1, <2>2, <2>3
<1>9. ASSUME NEW i \in 1..Len(D), NEW j \in 1..Len(D), D[i] = D[j] PROVE i = j
  <2>1. i \in 1..(Len(E) - 1) /\ j \in 1..(Len(E) - 1)
    BY <1>2
  <2>2. /\ D[i] = E[IF i < k THEN i ELSE i + 1] /\ D[j] = E[IF j < k THEN j ELSE j + 1]
    BY <1>2, <2>1
  <2>3. (IF i < k THEN i ELSE i + 1) \in 1..Len(E) /\ (IF j < k THEN j ELSE j + 1) \in 1..Len(E)
    BY <1>1, <1>2, <2>1
  <2>4. (IF i < k THEN i ELSE i + 1) = (IF j < k THEN j ELSE j + 1)
    BY <1>1, <1>9, <2>2, <2>3, Zenon
  <2> QED BY <1>2, <2>1, <2>4
<1>10. NodeAt(D, 1) = IF k = 1 THEN NodeAt(E, 2) ELSE f
  <2>1. 1 \in Int /\ 1 + 1 = 2 /\ (1 < k <=> k # 1)
    BY <1>2
  <2>2. NodeAt(D, 1) = IF 1 < k THEN NodeAt(E, 1) ELSE NodeAt(E, 1 + 1)
    BY <1>4, <2>1
  <2> QED BY <1>1, <2>1, <2>2
<1>11. NodeAt(D, Len(D)) = IF k = Len(E) THEN NodeAt(E, Len(E) - 1) ELSE b
  <2>1. Len(E) - 1 \in Int /\ (Len(E) - 1) + 1 = Len(E) /\ (Len(E) - 1 < k <=> k = Len(E))
    BY <1>1, <1>2
  <2>2. NodeAt(D, Len(E) - 1) = IF Len(E) - 1 < k THEN NodeAt(E, Len(E) - 1) ELSE NodeAt(E, (Len(E) - 1) + 1)
    BY <1>4, <2>1
  <2> QED BY <1>1, <1>2, <2>1, <2>2
<1> QED BY <1>2, <1>3, <1>8, <1>9, <1>10, <1>11 DEF Linked

\* A link is written if there is a node to write it to.
LEMMA SetLink ==
  ASSUME NULL \notin Nodes, NEW F, NEW a, NEW v, NEW G,
         F \in Links, a \in Nodes \cup {NULL}, v \in Nodes \cup {NULL}, G = K!Set(F, a, v)
  PROVE  G \in Links /\ \A x \in Nodes : G[x] = IF x = a THEN v ELSE F[x]
BY DEF K!Set, Links

WithLink(F, a, v) == [F EXCEPT ![a] = v]
\* What one assignment to a link changes.
LEMMA PutLink ==
  ASSUME NEW F, NEW a, NEW v, NEW G,
         F \in Links, a \in Nodes, v \in Nodes \cup {NULL}, G = WithLink(F, a, v)
  PROVE  G \in Links /\ \A x \in Nodes : G[x] = IF x = a THEN v ELSE F[x]
BY DEF Links, WithLink

\* The ends of the list.
LEMMA EndFacts ==
  ASSUME K!ListAssumption, ListInv
  PROVE  /\ NULL \notin Nodes /\ elems \in Seq(Nodes) /\ Len(elems) \in Nat /\ prev \in Links /\ next \in Links
         /\ \A i \in Int : NodeAt(elems, i) \in Nodes \cup {NULL}
         /\ NodeAt(elems, 0) = NULL /\ NodeAt(elems, Len(elems) + 1) = NULL
         /\ front = NodeAt(elems, 1) /\ back = NodeAt(elems, Len(elems))
         /\ front \in Nodes \cup {NULL} /\ back \in Nodes \cup {NULL}
         /\ (front = NULL <=> Len(elems) = 0) /\ (back = NULL <=> Len(elems) = 0)
         /\ Len(elems) # 0 => front = elems[1] /\ back = elems[Len(elems)]
<1>1. /\ NULL \notin Nodes /\ elems \in Seq(Nodes) /\ Len(elems) \in Nat /\ prev \in Links /\ next \in Links
      /\ front = NodeAt(elems, 1) /\ back = NodeAt(elems, Len(elems))
  BY DEF ListInv, Linked, K!ListAssumption
<1>2. \A i \in 1..Len(elems) : elems[i] \in Nodes
  BY <1>1
<1>3. \A i \in Int : NodeAt(elems, i) \in Nodes \cup {NULL} /\ (NodeAt(elems, i) = NULL <=> i \notin 1..Len(elems))
  BY <1>1, <1>2 DEF NodeAt
<1>4. NodeAt(elems, 0) = NULL /\ NodeAt(elems, Len(elems) + 1) = NULL
  BY <1>1 DEF NodeAt
<1>5. Len(elems) # 0 => front = elems[1] /\ back = elems[Len(elems)]
  BY <1>1 DEF NodeAt
<1>6. (front = NULL <=> Len(elems) = 0) /\ (back = NULL <=> Len(elems) = 0)
  BY <1>1, <1>3
<1> QED BY <1>1, <1>3, <1>4, <1>5, <1>6

\* list_insert_front: the old front, if any, gets a predecessor.
LEMMA InsertFrontInv ==
  ASSUME K!ListAssumption, ListInv, NEW n \in Nodes, K!list_insert_front(n)
  PROVE  ListInv'
<1>1. /\ NULL \notin Nodes /\ elems \in Seq(Nodes) /\ Len(elems) \in Nat /\ prev \in Links /\ next \in Links
      /\ NodeAt(elems, 0) = NULL /\ front = NodeAt(elems, 1) /\ front \in Nodes \cup {NULL}
      /\ (back = NULL <=> Len(elems) = 0)
  BY EndFacts
<1>2. /\ \A i \in 1..Len(elems) : elems[i] # n
      /\ prev' = WithLink(K!Set(prev, front, n), n, NULL) /\ next' = WithLink(next, n, front)
      /\ front' = n /\ elems' = <<n>> \o elems
      /\ back' = IF back = NULL THEN n ELSE back
  BY DEF K!list_insert_front, K!InList, WithLink
<1>3. InsertedSeq(elems, elems', 0, n)
  <2>1. /\ elems' \in Seq(Nodes) /\ Len(elems') = Len(elems) + 1 /\ elems'[1] = n
        /\ \A i \in 2..(Len(elems) + 1) : elems'[i] = elems[i - 1]
    BY <1>1, <1>2, PushFront
  <2>2. 0 \in 0..Len(elems)
    BY <1>1
  <2>3. \A i \in 1..(Len(elems) + 1) : i = 1 \/ i \in 2..(Len(elems) + 1)
    BY <1>1
  <2> QED BY <2>1, <2>2, <2>3 DEF InsertedSeq
<1>4. InsertedLinks(prev, next, elems, prev', next', 0, n)
  <2>1. K!Set(prev, front, n) \in Links /\ \A x \in Nodes : K!Set(prev, front, n)[x] = IF x = front THEN n ELSE prev[x]
    BY <1>1, SetLink
  <2>2. prev' \in Links /\ \A x \in Nodes : prev'[x] = IF x = n THEN NULL ELSE K!Set(prev, front, n)[x]
    BY <1>2, <2>1, PutLink
  <2>3. next' \in Links /\ \A x \in Nodes : next'[x] = IF x = n THEN front ELSE next[x]
    BY <1>1, <1>2, PutLink
  <2> QED BY <1>1, <2>1, <2>2, <2>3 DEF InsertedLinks
<1>5. Linked(prev', next', IF 0 = 0 THEN n ELSE front, IF 0 = Len(elems) THEN n ELSE back, elems')
  BY <1>1, <1>2, <1>3, <1>4, InsertLinked DEF ListInv
<1> QED BY <1>1, <1>2, <1>5 DEF ListInv

\* list_insert_back: the old back, if any, gets a successor.
LEMMA InsertBackInv ==
  ASSUME K!ListAssumption, ListInv, NEW n \in Nodes, K!list_insert_back(n)
  PROVE  ListInv'
<1>1. /\ NULL \notin Nodes /\ elems \in Seq(Nodes) /\ Len(elems) \in Nat /\ prev \in Links /\ next \in Links
      /\ NodeAt(elems, Len(elems) + 1) = NULL /\ back = NodeAt(elems, Len(elems)) /\ back \in Nodes \cup {NULL}
      /\ (front = NULL <=> Len(elems) = 0)
  BY EndFacts
<1>2. /\ \A i \in 1..Len(elems) : elems[i] # n
      /\ next' = WithLink(K!Set(next, back, n), n, NULL) /\ prev' = WithLink(prev, n, back)
      /\ back' = n /\ elems' = Append(elems, n)
      /\ front' = IF front = NULL THEN n ELSE front
  BY DEF K!list_insert_back, K!InList, WithLink
<1>3. InsertedSeq(elems, elems', Len(elems), n)
  <2>1. /\ elems' \in Seq(Nodes) /\ Len(elems') = Len(elems) + 1 /\ elems'[Len(elems) + 1] = n
        /\ \A i \in 1..Len(elems) : elems'[i] = elems[i]
    BY <1>1, <1>2, AppendProperties
  <2> QED BY <1>1, <2>1 DEF InsertedSeq
<1>4. InsertedLinks(prev, next, elems, prev', next', Len(elems), n)
  <2>1. K!Set(next, back, n) \in Links /\ \A x \in Nodes : K!Set(next, back, n)[x] = IF x = back THEN n ELSE next[x]
    BY <1>1, SetLink
  <2>2. next' \in Links /\ \A x \in Nodes : next'[x] = IF x = n THEN NULL ELSE K!Set(next, back, n)[x]
    BY <1>2, <2>1, PutLink
  <2>3. prev' \in Links /\ \A x \in Nodes : prev'[x] = IF x = n THEN back ELSE prev[x]
    BY <1>1, <1>2, PutLink
  <2> QED BY <1>1, <2>1, <2>2, <2>3 DEF InsertedLinks
<1>5. Linked(prev', next', IF Len(elems) = 0 THEN n ELSE front, IF Len(elems) = Len(elems) THEN n ELSE back, elems')
  BY <1>1, <1>2, <1>3, <1>4, InsertLinked DEF ListInv
<1> QED BY <1>1, <1>2, <1>5 DEF ListInv

\* The element after position k of a list, put in by list_insert_after or before.
LEMMA MiddleSeq ==
  ASSUME NEW E \in Seq(Nodes), NEW n \in Nodes, NEW k \in 0..Len(E), NEW D,
         D = SubSeq(E, 1, k) \o <<n>> \o SubSeq(E, k + 1, Len(E))
  PROVE  InsertedSeq(E, D, k, n)
<1>1. (k + 1) - 1 = k
  OBVIOUS
<1>2. D = InsertAt(E, k + 1, n)
  BY <1>1, Zenon DEF InsertAt
<1>3. /\ D \in Seq(Nodes) /\ Len(D) = Len(E) + 1
      /\ \A i \in 1..(Len(E) + 1) : D[i] = IF i <= k THEN E[i] ELSE IF i = k + 1 THEN n ELSE E[i - 1]
  <2>1. \A m \in 0..Len(E) :
          /\ InsertAt(E, m + 1, n) \in Seq(Nodes) /\ Len(InsertAt(E, m + 1, n)) = Len(E) + 1
          /\ \A i \in 1..(Len(E) + 1) :
               InsertAt(E, m + 1, n)[i] = IF i <= m THEN E[i] ELSE IF i = m + 1 THEN n ELSE E[i - 1]
    <3>1. \A R : \A s \in Seq(R) : \A m \in 0..Len(s) : \A e \in R :
            /\ InsertAt(s, m + 1, e) \in Seq(R) /\ Len(InsertAt(s, m + 1, e)) = Len(s) + 1
            /\ \A i \in 1..(Len(s) + 1) :
                 InsertAt(s, m + 1, e)[i] = IF i <= m THEN s[i] ELSE IF i = m + 1 THEN e ELSE s[i - 1]
      BY InsertNode
    <3>2. E \in Seq(Nodes) /\ n \in Nodes
      OBVIOUS
    <3> QED BY ONLY <3>1, <3>2
  <2>2. k \in 0..Len(E)
    OBVIOUS
  <2> QED BY ONLY <1>2, <2>1, <2>2
<1> QED BY <1>3, Zenon DEF InsertedSeq

\* The node at position i and its neighbours.
LEMMA NodeFacts ==
  ASSUME K!ListAssumption, ListInv, NEW i \in 1..Len(elems), NEW a, a = elems[i]
  PROVE  /\ a \in Nodes /\ NodeAt(elems, i) = a
         /\ next[a] = NodeAt(elems, i + 1) /\ prev[a] = NodeAt(elems, i - 1)
         /\ next[a] \in Nodes \cup {NULL} /\ prev[a] \in Nodes \cup {NULL}
         /\ (back = a <=> i = Len(elems)) /\ (front = a <=> i = 1)
<1>1. /\ elems \in Seq(Nodes) /\ Len(elems) \in Nat /\ \A j \in Int : NodeAt(elems, j) \in Nodes \cup {NULL}
      /\ Len(elems) # 0 => front = elems[1] /\ back = elems[Len(elems)]
  BY EndFacts
<1>2. /\ next[a] = NodeAt(elems, i + 1) /\ prev[a] = NodeAt(elems, i - 1)
      /\ \A j, k \in 1..Len(elems) : elems[j] = elems[k] => j = k
  BY DEF ListInv, Linked
<1>3. a \in Nodes /\ NodeAt(elems, i) = a
  BY <1>1 DEF NodeAt
<1>4. next[a] \in Nodes \cup {NULL} /\ prev[a] \in Nodes \cup {NULL}
  <2>1. i + 1 \in Int /\ i - 1 \in Int
    BY <1>1
  <2> QED BY <1>1, <1>2, <2>1
<1>5. Len(elems) # 0 /\ Len(elems) \in 1..Len(elems) /\ 1 \in 1..Len(elems)
  BY <1>1
<1>6. (back = a <=> i = Len(elems)) /\ (front = a <=> i = 1)
  BY <1>1, <1>2, <1>5
<1> QED BY <1>2, <1>3, <1>4, <1>6

\* list_insert_after; behind the last node the back moves.
LEMMA InsertAfterInv ==
  ASSUME K!ListAssumption, ListInv, NEW a \in Nodes, NEW n \in Nodes, K!list_insert_after(a, n)
  PROVE  ListInv'
<1>1. NULL \notin Nodes /\ elems \in Seq(Nodes) /\ Len(elems) \in Nat /\ prev \in Links /\ next \in Links
  BY EndFacts
<1>2. /\ \A i \in 1..Len(elems) : elems[i] # n
      /\ \E i \in 1..Len(elems) :
           elems[i] = a /\ elems' = SubSeq(elems, 1, i) \o <<n>> \o SubSeq(elems, i + 1, Len(elems))
      /\ prev' = K!Set(WithLink(prev, n, a), next[a], n)
      /\ next' = [next EXCEPT ![n] = next[a], ![a] = n]
      /\ back' = IF back = a THEN n ELSE back
      /\ front' = front
  BY Zenon DEF K!list_insert_after, K!InList, WithLink
<1>3. PICK i \in 1..Len(elems) :
        elems[i] = a /\ elems' = SubSeq(elems, 1, i) \o <<n>> \o SubSeq(elems, i + 1, Len(elems))
  BY <1>2, Zenon
<1>4. /\ NodeAt(elems, i) = a /\ next[a] = NodeAt(elems, i + 1) /\ next[a] \in Nodes \cup {NULL}
      /\ (back = a <=> i = Len(elems)) /\ a # n
  BY <1>2, <1>3, NodeFacts
<1>5. i \in 0..Len(elems) /\ i # 0
  BY <1>1
<1>6. InsertedSeq(elems, elems', i, n)
  BY <1>1, <1>3, <1>5, MiddleSeq, Zenon
<1>7. InsertedLinks(prev, next, elems, prev', next', i, n)
  <2>1. PICK Q : Q = WithLink(prev, n, a)
    OBVIOUS
  <2>2. Q \in Links /\ \A x \in Nodes : Q[x] = IF x = n THEN a ELSE prev[x]
    BY <1>1, <2>1, PutLink
  <2>3. prev' = K!Set(Q, next[a], n)
    BY <1>2, <2>1
  <2>4. prev' \in Links /\ \A x \in Nodes : prev'[x] = IF x = next[a] THEN n ELSE Q[x]
    BY <1>1, <1>4, <2>2, <2>3, SetLink
  <2>5. next' \in Links /\ \A x \in Nodes : next'[x] = IF x = a THEN n ELSE IF x = n THEN next[a] ELSE next[x]
    BY <1>1, <1>2, <1>4 DEF Links
  <2>6. next[a] # n
    BY <1>1, <1>2, <1>4 DEF NodeAt
  <2>7. prev'[n] = a /\ next'[n] = next[a]
    BY <1>4, <2>2, <2>4, <2>5, <2>6
  <2>8. \A x \in Nodes \ {n} : next'[x] = (IF x = a THEN n ELSE next[x]) /\ prev'[x] = IF x = next[a] THEN n ELSE prev[x]
    BY <2>2, <2>4, <2>5
  <2> QED BY <1>4, <2>4, <2>5, <2>7, <2>8 DEF InsertedLinks
<1>8. Linked(prev', next', IF i = 0 THEN n ELSE front, IF i = Len(elems) THEN n ELSE back, elems')
  BY <1>1, <1>2, <1>6, <1>7, InsertLinked, Zenon DEF ListInv
<1> QED BY <1>2, <1>4, <1>5, <1>8 DEF ListInv

\* list_insert_before, the same the other way round.
LEMMA InsertBeforeInv ==
  ASSUME K!ListAssumption, ListInv, NEW b \in Nodes, NEW n \in Nodes, K!list_insert_before(b, n)
  PROVE  ListInv'
<1>1. NULL \notin Nodes /\ elems \in Seq(Nodes) /\ Len(elems) \in Nat /\ prev \in Links /\ next \in Links
  BY EndFacts
<1>2. /\ \A i \in 1..Len(elems) : elems[i] # n
      /\ \E i \in 1..Len(elems) :
           elems[i] = b /\ elems' = SubSeq(elems, 1, i - 1) \o <<n>> \o SubSeq(elems, i, Len(elems))
      /\ next' = K!Set(WithLink(next, n, b), prev[b], n)
      /\ prev' = [prev EXCEPT ![n] = prev[b], ![b] = n]
      /\ front' = IF front = b THEN n ELSE front
      /\ back' = back
  BY Zenon DEF K!list_insert_before, K!InList, WithLink
<1>3. PICK i \in 1..Len(elems) :
        elems[i] = b /\ elems' = SubSeq(elems, 1, i - 1) \o <<n>> \o SubSeq(elems, i, Len(elems))
  BY <1>2, Zenon
<1>4. /\ NodeAt(elems, i) = b /\ prev[b] = NodeAt(elems, i - 1) /\ prev[b] \in Nodes \cup {NULL}
      /\ (front = b <=> i = 1) /\ b # n
  BY <1>2, <1>3, NodeFacts, Zenon
<1>5. PICK k \in 0..Len(elems) : k = i - 1 /\ i = k + 1 /\ k # Len(elems) /\ (k = 0 <=> i = 1)
  BY <1>1
<1>6. InsertedSeq(elems, elems', k, n)
  <2>1. elems' = SubSeq(elems, 1, k) \o <<n>> \o SubSeq(elems, k + 1, Len(elems))
    BY <1>3, <1>5
  <2> QED BY <1>1, <2>1, MiddleSeq, Zenon
<1>7. InsertedLinks(prev, next, elems, prev', next', k, n)
  <2>1. PICK Q : Q = WithLink(next, n, b)
    OBVIOUS
  <2>2. Q \in Links /\ \A x \in Nodes : Q[x] = IF x = n THEN b ELSE next[x]
    BY <1>1, <2>1, PutLink
  <2>3. next' = K!Set(Q, prev[b], n)
    BY <1>2, <2>1
  <2>4. next' \in Links /\ \A x \in Nodes : next'[x] = IF x = prev[b] THEN n ELSE Q[x]
    BY <1>1, <1>4, <2>2, <2>3, SetLink
  <2>5. prev' \in Links /\ \A x \in Nodes : prev'[x] = IF x = b THEN n ELSE IF x = n THEN prev[b] ELSE prev[x]
    BY <1>1, <1>2, <1>4, Zenon DEF Links
  <2>6. prev[b] # n
    BY <1>1, <1>2, <1>4 DEF NodeAt
  <2>7. next'[n] = b /\ prev'[n] = prev[b]
    BY <1>4, <2>2, <2>4, <2>5, <2>6
  <2>8. \A x \in Nodes \ {n} : prev'[x] = (IF x = b THEN n ELSE prev[x]) /\ next'[x] = IF x = prev[b] THEN n ELSE next[x]
    BY <2>2, <2>4, <2>5
  <2>9. NodeAt(elems, k) = prev[b] /\ NodeAt(elems, k + 1) = b
    BY <1>4, <1>5
  <2> QED BY <2>4, <2>5, <2>7, <2>8, <2>9 DEF InsertedLinks
<1>8. Linked(prev', next', IF k = 0 THEN n ELSE front, IF k = Len(elems) THEN n ELSE back, elems')
  BY <1>1, <1>2, <1>6, <1>7, InsertLinked, Zenon DEF ListInv
<1> QED BY <1>2, <1>4, <1>5, <1>8 DEF ListInv

\* There is no node exactly outside the list.
LEMMA NodeNull ==
  ASSUME K!ListAssumption, ListInv, NEW j \in Int
  PROVE  NodeAt(elems, j) = NULL <=> j \notin 1..Len(elems)
<1>1. NULL \notin Nodes /\ elems \in Seq(Nodes) /\ \A i \in 1..Len(elems) : elems[i] \in Nodes
  BY DEF ListInv, Linked, K!ListAssumption
<1> QED BY <1>1 DEF NodeAt

\* The second and the last but one position.
LEMMA SecondPosition ==
  \A l \in Nat : l # 0 => (2 \notin 1..l <=> l = 1) /\ (l - 1 \notin 1..l <=> l = 1)
OBVIOUS

\* list_remove_front.
LEMMA RemoveFrontInv ==
  ASSUME K!ListAssumption, ListInv, K!list_remove_front
  PROVE  ListInv'
<1>1. /\ NULL \notin Nodes /\ elems \in Seq(Nodes) /\ Len(elems) \in Nat /\ prev \in Links /\ next \in Links
      /\ NodeAt(elems, 0) = NULL /\ (front = NULL <=> Len(elems) = 0) /\ (Len(elems) # 0 => front = elems[1])
  BY EndFacts
<1>2. /\ front # NULL /\ front' = next[front] /\ prev' = K!Set(prev, next[front], NULL)
      /\ back' = IF next[front] = NULL THEN NULL ELSE back
      /\ elems' = Tail(elems) /\ next' = next
  BY DEF K!list_remove_front
<1>3. Len(elems) # 0 /\ 1 \in 1..Len(elems) /\ front = elems[1]
  BY <1>1, <1>2
<1>4. front \in Nodes /\ next[front] = NodeAt(elems, 2) /\ next[front] \in Nodes \cup {NULL}
  BY <1>3, NodeFacts
<1>5. next[front] = NULL <=> 1 = Len(elems)
  <2>1. NodeAt(elems, 2) = NULL <=> 2 \notin 1..Len(elems)
    BY NodeNull
  <2>2. 2 \notin 1..Len(elems) <=> 1 = Len(elems)
    BY ONLY <1>1, <1>3, SecondPosition, Zenon
  <2> QED BY <1>4, <2>1, <2>2
<1>6. RemovedSeq(elems, elems', 1)
  <2>1. elems # << >>
    BY <1>3
  <2>2. /\ elems' \in Seq(Nodes) /\ Len(elems') = Len(elems) - 1
        /\ \A i \in 1..Len(elems') : elems'[i] = elems[i + 1]
    BY <1>1, <1>2, <2>1, HeadTailProperties
  <2>3. \A i \in 1..(Len(elems) - 1) : ~(i < 1)
    BY <1>1
  <2> QED BY <1>3, <2>2, <2>3 DEF RemovedSeq
<1>7. RemovedLinks(prev, next, elems, prev', next', 1)
  <2>1. prev' \in Links /\ \A x \in Nodes : prev'[x] = IF x = next[front] THEN NULL ELSE prev[x]
    BY <1>1, <1>2, <1>4, SetLink
  <2>2. 1 - 1 = 0 /\ 1 + 1 = 2
    OBVIOUS
  <2> QED BY <1>1, <1>2, <1>4, <2>1, <2>2 DEF RemovedLinks
<1>8. Linked(prev', next', IF 1 = 1 THEN NodeAt(elems, 2) ELSE front,
             IF 1 = Len(elems) THEN NodeAt(elems, Len(elems) - 1) ELSE back, elems')
  BY <1>1, <1>6, <1>7, RemoveLinked, Zenon DEF ListInv
<1>9. 1 = Len(elems) => NodeAt(elems, Len(elems) - 1) = NULL
  <2>1. 1 = Len(elems) => Len(elems) - 1 = 0
    BY <1>1
  <2> QED BY <1>1, <2>1, Zenon
<1> QED BY <1>2, <1>4, <1>5, <1>8, <1>9 DEF ListInv

\* list_remove_back.
LEMMA RemoveBackInv ==
  ASSUME K!ListAssumption, ListInv, K!list_remove_back
  PROVE  ListInv'
<1>1. /\ NULL \notin Nodes /\ elems \in Seq(Nodes) /\ Len(elems) \in Nat /\ prev \in Links /\ next \in Links
      /\ NodeAt(elems, Len(elems) + 1) = NULL /\ (back = NULL <=> Len(elems) = 0)
      /\ (Len(elems) # 0 => back = elems[Len(elems)])
  BY EndFacts
<1>2. /\ back # NULL /\ back' = prev[back] /\ next' = K!Set(next, prev[back], NULL)
      /\ front' = IF prev[back] = NULL THEN NULL ELSE front
      /\ elems' = SubSeq(elems, 1, Len(elems) - 1) /\ prev' = prev
  BY DEF K!list_remove_back
<1>3. Len(elems) # 0 /\ Len(elems) \in 1..Len(elems) /\ back = elems[Len(elems)]
  BY <1>1, <1>2
<1>4. back \in Nodes /\ prev[back] = NodeAt(elems, Len(elems) - 1) /\ prev[back] \in Nodes \cup {NULL}
  BY <1>3, NodeFacts
<1>5. prev[back] = NULL <=> Len(elems) = 1
  <2>1. Len(elems) - 1 \in Int
    BY <1>1
  <2>2. NodeAt(elems, Len(elems) - 1) = NULL <=> Len(elems) - 1 \notin 1..Len(elems)
    BY <2>1, NodeNull
  <2>3. Len(elems) - 1 \notin 1..Len(elems) <=> Len(elems) = 1
    BY ONLY <1>1, <1>3, SecondPosition, Zenon
  <2> QED BY <1>4, <2>2, <2>3
<1>6. RemovedSeq(elems, elems', Len(elems))
  <2>1. elems # << >>
    BY <1>3
  <2>2. elems' = Front(elems)
    BY <1>2 DEF Front
  <2>3. /\ elems' \in Seq(Nodes) /\ Len(elems') = Len(elems) - 1
        /\ \A i \in 1..(Len(elems) - 1) : elems'[i] = elems[i]
    BY <1>1, <2>1, <2>2, PopBack
  <2>4. \A i \in 1..(Len(elems) - 1) : i < Len(elems)
    BY <1>1
  <2> QED BY <1>3, <2>3, <2>4 DEF RemovedSeq
<1>7. RemovedLinks(prev, next, elems, prev', next', Len(elems))
  <2>1. next' \in Links /\ \A x \in Nodes : next'[x] = IF x = prev[back] THEN NULL ELSE next[x]
    BY <1>1, <1>2, <1>4, SetLink
  <2> QED BY <1>1, <1>2, <1>4, <2>1 DEF RemovedLinks
<1>8. Linked(prev', next', IF Len(elems) = 1 THEN NodeAt(elems, 2) ELSE front,
             IF Len(elems) = Len(elems) THEN NodeAt(elems, Len(elems) - 1) ELSE back, elems')
  BY <1>1, <1>6, <1>7, RemoveLinked, Zenon DEF ListInv
<1>9. Len(elems) = 1 => NodeAt(elems, 2) = NULL
  BY <1>1
<1> QED BY <1>2, <1>4, <1>5, <1>8, <1>9 DEF ListInv

\* list_remove_node: the neighbours, or the ends, take the place of the node.
LEMMA RemoveNodeInv ==
  ASSUME K!ListAssumption, ListInv, NEW n \in Nodes, K!list_remove_node(n)
  PROVE  ListInv'
<1> DEFINE f == IF n = front THEN next[n] ELSE front
           b == IF n = back THEN prev[n] ELSE back
<1>1. /\ NULL \notin Nodes /\ elems \in Seq(Nodes) /\ Len(elems) \in Nat /\ prev \in Links /\ next \in Links
      /\ NodeAt(elems, 0) = NULL /\ NodeAt(elems, Len(elems) + 1) = NULL
      /\ (front = NULL <=> Len(elems) = 0) /\ (back = NULL <=> Len(elems) = 0)
  BY EndFacts
<1>2. /\ \E i \in 1..Len(elems) :
           elems[i] = n /\ elems' = SubSeq(elems, 1, i - 1) \o SubSeq(elems, i + 1, Len(elems))
      /\ next' = K!Set(next, prev[n], next[n]) /\ prev' = K!Set(prev, next[n], prev[n])
      /\ front' = IF f = NULL \/ b = NULL THEN NULL ELSE f
      /\ back' = IF f = NULL \/ b = NULL THEN NULL ELSE b
  BY Zenon DEF K!list_remove_node, K!BackAfter
<1>3. PICK i \in 1..Len(elems) :
        elems[i] = n /\ elems' = SubSeq(elems, 1, i - 1) \o SubSeq(elems, i + 1, Len(elems))
  BY <1>2, Zenon
<1>4. /\ next[n] = NodeAt(elems, i + 1) /\ prev[n] = NodeAt(elems, i - 1)
      /\ next[n] \in Nodes \cup {NULL} /\ prev[n] \in Nodes \cup {NULL}
      /\ (back = n <=> i = Len(elems)) /\ (front = n <=> i = 1)
  BY <1>3, NodeFacts
<1>5. RemovedSeq(elems, elems', i)
  <2>1. elems' = RemoveAt(elems, i)
    BY <1>3 DEF RemoveAt
  <2> QED BY <1>1, <2>1, RemoveNode DEF RemovedSeq
<1>6. RemovedLinks(prev, next, elems, prev', next', i)
  <2>1. next' \in Links /\ \A x \in Nodes : next'[x] = IF x = prev[n] THEN next[n] ELSE next[x]
    BY <1>1, <1>2, <1>4, SetLink
  <2>2. prev' \in Links /\ \A x \in Nodes : prev'[x] = IF x = next[n] THEN prev[n] ELSE prev[x]
    BY <1>1, <1>2, <1>4, SetLink
  <2> QED BY <1>4, <2>1, <2>2 DEF RemovedLinks
<1>7. Linked(prev', next', IF i = 1 THEN NodeAt(elems, 2) ELSE front,
             IF i = Len(elems) THEN NodeAt(elems, Len(elems) - 1) ELSE back, elems')
  BY <1>1, <1>5, <1>6, RemoveLinked DEF ListInv
<1>8. f = (IF i = 1 THEN NodeAt(elems, 2) ELSE front) /\ b = IF i = Len(elems) THEN NodeAt(elems, Len(elems) - 1) ELSE back
  BY <1>4
<1>9. f = NULL <=> Len(elems) = 1
  <2>1. NodeAt(elems, 2) = NULL <=> 2 \notin 1..Len(elems)
    BY NodeNull
  <2>2. Len(elems) # 0 /\ (2 \notin 1..Len(elems) <=> Len(elems) = 1) /\ (Len(elems) = 1 => i = 1)
    <3>1. Len(elems) # 0 /\ (Len(elems) = 1 => i = 1)
      BY <1>1, <1>3
    <3> QED BY ONLY <1>1, <3>1, SecondPosition, Zenon
  <2>3. i # 1 => f # NULL
    BY <1>1, <1>8, <2>2
  <2>4. i = 1 => (f = NULL <=> 2 \notin 1..Len(elems))
    BY <1>8, <2>1
  <2> HIDE DEF f
  <2> QED BY <2>2, <2>3, <2>4
<1>10. b = NULL <=> Len(elems) = 1
  <2>1. Len(elems) - 1 \in Int
    BY <1>1
  <2>2. NodeAt(elems, Len(elems) - 1) = NULL <=> Len(elems) - 1 \notin 1..Len(elems)
    BY <2>1, NodeNull
  <2>3. /\ Len(elems) # 0 /\ (Len(elems) - 1 \notin 1..Len(elems) <=> Len(elems) = 1)
        /\ (Len(elems) = 1 => i = Len(elems))
    <3>1. Len(elems) # 0 /\ (Len(elems) = 1 => i = Len(elems))
      <4>1. \A l \in Nat : i \in 1..l => l # 0 /\ (l = 1 => i = l)
        OBVIOUS
      <4>2. i \in 1..Len(elems)
        BY <1>3
      <4> QED BY ONLY <1>1, <4>1, <4>2, Zenon
    <3> QED BY ONLY <1>1, <3>1, SecondPosition, Zenon
  <2>4. i # Len(elems) => b # NULL
    BY <1>1, <1>8, <2>3
  <2>5. i = Len(elems) => (b = NULL <=> Len(elems) - 1 \notin 1..Len(elems))
    BY <1>8, <2>2
  <2> HIDE DEF b
  <2> QED BY <2>3, <2>4, <2>5
<1> HIDE DEF f, b
<1>11. front' = f /\ back' = b
  BY <1>2, <1>9, <1>10
<1> QED BY <1>7, <1>8, <1>11 DEF ListInv

\* Every call keeps links and sequence in step.
LEMMA ListNextInv ==
  ASSUME K!ListAssumption, ListInv, [K!Next]_(K!vars)
  PROVE  ListInv'
<1>1. CASE UNCHANGED K!vars
  BY <1>1 DEF ListInv, K!vars
<1>2. ASSUME NEW n \in Nodes,
             \/ K!list_insert_front(n) \/ K!list_insert_back(n) \/ K!list_remove_node(n)
             \/ \E m \in Nodes : K!list_insert_after(m, n) \/ K!list_insert_before(m, n)
      PROVE  ListInv'
  BY <1>2, InsertFrontInv, InsertBackInv, RemoveNodeInv, InsertAfterInv, InsertBeforeInv
<1> QED BY <1>1, <1>2, RemoveFrontInv, RemoveBackInv DEF K!Next

\* list.c, for every set of nodes and every sequence of calls: the links and the
\* ends of the list are those of the sequence of nodes that were inserted and not
\* removed, so walking it in either direction visits them in order.
THEOREM ListSafety ==
  K!ListAssumption => (K!Spec => []K!LinksMatch)
<1> SUFFICES ASSUME K!ListAssumption PROVE K!Spec => []K!LinksMatch
  OBVIOUS
<1>1. K!Init => ListInv
  BY DEF K!Init, ListInv, Linked, NodeAt, Links
<1>2. ListInv /\ [K!Next]_(K!vars) => ListInv'
  BY ListNextInv
<1>3. ListInv => K!LinksMatch
  BY DEF ListInv, Linked, NodeAt, K!LinksMatch, K!At
<1> QED BY <1>1, <1>2, <1>3, PTL DEF K!Spec

-----------------------------------------------------------------------------

CONSTANTS MaxMessages, QueueCap, None
VARIABLES s_primary_stream, s_debug_stream, printed, shown, input, pc, temp, timer, last

C == INSTANCE Console

(***************************************************************************)
(* co.c.                                                                   *)
(***************************************************************************)
Asking == {"start_primary", "wait_primary", "start_debug", "wait_debug", "read_debug", "swap"}
Labels == Asking \cup {"boot_debug", "boot_primary", "ask", "only_debug", "swap2", "shell", "crashed"}

\* Which streams have the roles p and d at label l of the boot thread.
Roles(l, p, d, t) ==
  /\ l \in Labels
  /\ l = "boot_debug" => p = None /\ d = None
  /\ l = "boot_primary" => p = None /\ d \in {None, "serial"}
  /\ l = "ask" => p \in {None, "tty"} /\ d \in {None, "serial"}
  /\ l = "only_debug" => p = "serial" /\ d = "serial"
  /\ l \in Asking => p = "tty" /\ d = "serial"
  /\ l = "swap2" => p = "serial" /\ d = "serial" /\ t = "tty"
  /\ l = "shell" => /\ p \in C!Streams /\ d \in C!Streams \cup {None} /\ d # p
                    /\ t = "tty" => p = "serial" /\ d = "tty"
  /\ l = "crashed" => p = None /\ d = None
  /\ l \notin {"swap2", "shell"} => t = None

\* The messages on the streams are increasing and at most n.
Ordered(all, n) ==
  /\ all \in [C!Streams -> Seq(Nat)]
  /\ \A d \in C!Streams : /\ \A i \in 1..Len(all[d]) : all[d][i] <= n
                          /\ \A i, j \in 1..Len(all[d]) : i < j => all[d][i] < all[d][j]
ShownOn(all, m) == \E e \in C!Streams : \E j \in 1..Len(all[e]) : all[e][j] = m
\* After the first message that was shown none is missing.
NoneMissing(all, n) ==
  \A d \in C!Streams : \A i \in 1..Len(all[d]) : \A m \in all[d][i]..n : ShownOn(all, m)
\* Whatever was shown was shown on a console that is still there.
StillThere(all, p, d) == (\E e \in C!Streams : Len(all[e]) # 0) => p # None \/ d # None

ConsoleInv ==
  /\ printed \in Nat /\ Roles(pc, s_primary_stream, s_debug_stream, temp)
  /\ Ordered(shown, printed) /\ NoneMissing(shown, printed)
  /\ StillThere(shown, s_primary_stream, s_debug_stream)

\* One more message: on every stream it is appended or not.
OneMore(all, all2, n) ==
  /\ all2 \in [C!Streams -> Seq(Nat)]
  /\ \A d \in C!Streams : all2[d] = all[d] \/ all2[d] = Append(all[d], n + 1)

\* A message that is appended on some streams keeps the order on each, and if
\* one stream had shown something it is not missing.
LEMMA OneMoreOrdered ==
  ASSUME NEW n \in Nat, NEW all, NEW all2, Ordered(all, n), NoneMissing(all, n), OneMore(all, all2, n),
         (\E e \in C!Streams : Len(all[e]) # 0) => \E e \in C!Streams : all2[e] = Append(all[e], n + 1)
  PROVE  Ordered(all2, n + 1) /\ NoneMissing(all2, n + 1)
<1>1. \A d \in C!Streams :
        /\ all[d] \in Seq(Nat) /\ Len(all[d]) \in Nat
        /\ \A i \in 1..Len(all[d]) : all[d][i] \in Nat /\ all[d][i] <= n
        /\ \A i, j \in 1..Len(all[d]) : i < j => all[d][i] < all[d][j]
  BY DEF Ordered
<1>2. ASSUME NEW d \in C!Streams
      PROVE  \/ all2[d] = all[d]
             \/ /\ Len(all2[d]) = Len(all[d]) + 1 /\ all2[d][Len(all[d]) + 1] = n + 1
                /\ \A i \in 1..Len(all[d]) : all2[d][i] = all[d][i]
  <2>1. n + 1 \in Nat
    OBVIOUS
  <2>2. CASE all2[d] = Append(all[d], n + 1)
    BY <1>1, <2>1, <2>2, AppendProperties
  <2> QED BY <2>2 DEF OneMore
<1>3. ASSUME NEW d \in C!Streams
      PROVE  /\ \A i \in 1..Len(all2[d]) : all2[d][i] <= n + 1
             /\ \A i, j \in 1..Len(all2[d]) : i < j => all2[d][i] < all2[d][j]
  <2>1. CASE all2[d] = all[d]
    <3>1. \A i \in 1..Len(all[d]) : all[d][i] <= n + 1
      BY <1>1
    <3> QED BY <1>1, <2>1, <3>1, Zenon
  <2>2. CASE /\ Len(all2[d]) = Len(all[d]) + 1 /\ all2[d][Len(all[d]) + 1] = n + 1
             /\ \A i \in 1..Len(all[d]) : all2[d][i] = all[d][i]
    <3>1. \A i \in 1..Len(all2[d]) : i \in 1..Len(all[d]) \/ i = Len(all[d]) + 1
      BY <1>1, <2>2
    <3>2. \A i \in 1..Len(all[d]) : all[d][i] <= n + 1 /\ all[d][i] < n + 1
      BY <1>1
    <3>3. \A i, j \in 1..Len(all2[d]) : i < j => i \in 1..Len(all[d])
      BY <1>1, <2>2
    <3>4. \A i \in 1..Len(all2[d]) : all2[d][i] <= n + 1
      <4>1. n + 1 <= n + 1
        OBVIOUS
      <4> QED BY <2>2, <3>1, <3>2, <4>1
    <3>5. ASSUME NEW i \in 1..Len(all2[d]), NEW j \in 1..Len(all2[d]), i < j
          PROVE  all2[d][i] < all2[d][j]
      <4>1. i \in 1..Len(all[d]) /\ all2[d][i] = all[d][i]
        BY <2>2, <3>3, <3>5
      <4>2. CASE j \in 1..Len(all[d])
        BY <1>1, <2>2, <3>5, <4>1, <4>2
      <4>3. CASE j = Len(all[d]) + 1
        BY <2>2, <3>2, <4>1, <4>3
      <4> QED BY <3>1, <4>2, <4>3
    <3> QED BY <3>4, <3>5
  <2> QED BY <1>2, <2>1, <2>2
<1>4. Ordered(all2, n + 1)
  BY <1>3 DEF Ordered, OneMore
<1>5. ASSUME NEW m, ShownOn(all, m) PROVE ShownOn(all2, m)
  <2>1. PICK e \in C!Streams : \E j \in 1..Len(all[e]) : all[e][j] = m
    BY <1>5 DEF ShownOn
  <2>2. PICK j \in 1..Len(all[e]) : all[e][j] = m
    BY <2>1
  <2>3. j \in 1..Len(all2[e]) /\ all2[e][j] = m
    <3>1. Len(all[e]) \in Nat
      BY <1>1
    <3>2. CASE all2[e] = all[e]
      BY <2>2, <3>2
    <3>3. CASE all2[e] # all[e]
      <4>1. Len(all2[e]) = Len(all[e]) + 1 /\ all2[e][j] = all[e][j]
        BY <1>2, <2>2, <3>3
      <4>2. j \in 1..(Len(all[e]) + 1)
        BY <2>2, <3>1
      <4> QED BY <2>2, <4>1, <4>2
    <3> QED BY <3>2, <3>3
  <2> QED BY <2>3 DEF ShownOn
<1>6. ASSUME NEW d \in C!Streams, NEW i \in 1..Len(all2[d]), NEW m \in all2[d][i]..(n + 1) PROVE ShownOn(all2, m)
  <2>1. CASE i \in 1..Len(all[d])
    <3>1. all2[d][i] = all[d][i] /\ all[d][i] \in Nat
      BY <1>1, <1>2, <2>1, Zenon
    <3>2. CASE m = n + 1
      <4>1. Len(all[d]) # 0
        BY <1>1, <2>1
      <4>2. PICK e \in C!Streams : all2[e] = Append(all[e], n + 1)
        BY <4>1
      <4>3. Len(all2[e]) = Len(all[e]) + 1 /\ all2[e][Len(all[e]) + 1] = n + 1
        <5>1. n + 1 \in Nat
          OBVIOUS
        <5> QED BY <1>1, <4>2, <5>1, AppendProperties
      <4>4. Len(all[e]) + 1 \in 1..Len(all2[e])
        BY <1>1, <4>3
      <4> QED BY <3>2, <4>3, <4>4 DEF ShownOn
    <3>3. CASE m # n + 1
      <4>1. m \in all[d][i]..n
        BY <3>1, <3>3
      <4> QED BY <1>5, <2>1, <4>1 DEF NoneMissing
    <3> QED BY <3>2, <3>3
  <2>2. CASE i \notin 1..Len(all[d])
    <3>1. all2[d][i] = n + 1
      <4>1. all2[d] # all[d]
        BY <2>2
      <4>2. i = Len(all[d]) + 1
        BY <1>1, <1>2, <2>2, <4>1
      <4> QED BY <1>2, <4>1, <4>2
    <3>2. m = n + 1
      BY <3>1
    <3> QED BY <3>1, <3>2 DEF ShownOn
  <2> QED BY <2>1, <2>2
<1>7. NoneMissing(all2, n + 1)
  BY <1>6 DEF NoneMissing
<1> QED BY <1>4, <1>7

\* At boot nothing is shown and no stream has a role.
LEMMA ConsoleInitInv == ASSUME C!ConsoleAssumption PROVE C!Init => ConsoleInv
<1> SUFFICES ASSUME C!Init PROVE ConsoleInv
  OBVIOUS
<1>1. /\ shown \in [C!Streams -> Seq(Nat)] /\ printed = 0
      /\ \A d \in C!Streams : shown[d] = << >> /\ Len(shown[d]) = 0
  BY DEF C!Init
<1>2. Roles(pc, s_primary_stream, s_debug_stream, temp)
  BY DEF C!Init, Roles, Labels, Asking
<1>3. Ordered(shown, printed)
  BY <1>1 DEF Ordered
<1>4. NoneMissing(shown, printed) /\ StillThere(shown, s_primary_stream, s_debug_stream)
  BY <1>1 DEF NoneMissing, StillThere
<1> QED BY <1>1, <1>2, <1>3, <1>4 DEF ConsoleInv

\* At every label the roles are held by streams, or by none.
LEMMA RoleFacts ==
  ASSUME NEW l, NEW p, NEW d, NEW t, Roles(l, p, d, t)
  PROVE  p \in C!Streams \cup {None} /\ d \in C!Streams \cup {None}
BY DEF Roles, Labels, Asking, C!Streams

\* What co_vprintf prints reaches each console once.
LEMMA PrintInv == ASSUME C!ConsoleAssumption, ConsoleInv, C!co_vprintf PROVE ConsoleInv'
<1> DEFINE p == s_primary_stream
           d == IF s_primary_stream # s_debug_stream THEN s_debug_stream ELSE None
           one == C!PrintOn(p, shown)
<1>1. /\ printed \in Nat /\ Ordered(shown, printed) /\ NoneMissing(shown, printed)
      /\ StillThere(shown, s_primary_stream, s_debug_stream)
      /\ Roles(pc, s_primary_stream, s_debug_stream, temp)
  BY DEF ConsoleInv
<1>2. /\ printed' = printed + 1 /\ shown' = C!PrintOn(d, one)
      /\ s_primary_stream' = s_primary_stream /\ s_debug_stream' = s_debug_stream
      /\ pc' = pc /\ temp' = temp
  BY DEF C!co_vprintf, C!PrintedOnAll, C!consoles
<1>3. p \in C!Streams \cup {None} /\ d \in C!Streams \cup {None} /\ (p # None => d # p) /\ None \notin C!Streams
  BY <1>1, RoleFacts DEF C!ConsoleAssumption
<1>4. shown \in [C!Streams -> Seq(Nat)] /\ printed + 1 \in Nat
  BY <1>1 DEF Ordered
<1>5. \A e \in C!Streams : Append(shown[e], printed + 1) \in Seq(Nat) /\ Len(Append(shown[e], printed + 1)) # 0
  BY <1>4, AppendProperties
<1>6. /\ one \in [C!Streams -> Seq(Nat)]
      /\ \A e \in C!Streams : one[e] = IF e = p THEN Append(shown[e], printed + 1) ELSE shown[e]
  BY <1>3, <1>4, <1>5 DEF C!PrintOn
<1>7. /\ shown' \in [C!Streams -> Seq(Nat)]
      /\ \A e \in C!Streams :
           shown'[e] = IF e = d \/ e = p THEN Append(shown[e], printed + 1) ELSE shown[e]
  <2>1. CASE d = None
    BY <1>2, <1>3, <1>6, <2>1 DEF C!PrintOn
  <2>2. CASE d # None
    <3>1. d \in C!Streams /\ d # p
      BY <1>3, <2>2
    <3>2. one[d] = shown[d] /\ shown' = [one EXCEPT ![d] = Append(one[d], printed + 1)]
      BY <1>2, <1>6, <2>2, <3>1 DEF C!PrintOn
    <3> HIDE DEF one, d
    <3> QED BY <1>5, <1>6, <3>1, <3>2, Zenon
  <2> QED BY <2>1, <2>2
<1>8. OneMore(shown, shown', printed)
  BY <1>7 DEF OneMore
<1>9. (\E e \in C!Streams : Len(shown[e]) # 0) => \E e \in C!Streams : shown'[e] = Append(shown[e], printed + 1)
  <2>1. p # None \/ s_debug_stream # None => p \in C!Streams \/ d \in C!Streams
    BY <1>3
  <2> QED BY <1>1, <1>7, <2>1 DEF StillThere
<1>10. Ordered(shown', printed + 1) /\ NoneMissing(shown', printed + 1)
  BY <1>1, <1>8, <1>9, OneMoreOrdered
<1>11. StillThere(shown', s_primary_stream, s_debug_stream)
  <2>1. CASE p \in C!Streams \/ d \in C!Streams
    BY <1>3, <2>1 DEF StillThere
  <2>2. CASE ~(p \in C!Streams \/ d \in C!Streams)
    <3>1. \A e \in C!Streams : shown'[e] = shown[e]
      BY <1>3, <1>7, <2>2
    <3> QED BY <1>1, <3>1 DEF StillThere
  <2> QED BY <2>1, <2>2
<1> QED BY <1>1, <1>2, <1>4, <1>10, <1>11 DEF ConsoleInv

\* Every other step leaves the output alone and no console without a role.
LEMMA ConsoleNextInv == ASSUME C!ConsoleAssumption PROVE ConsoleInv /\ [C!Next]_C!vars => ConsoleInv'
<1> SUFFICES ASSUME ConsoleInv, [C!Next]_C!vars PROVE ConsoleInv'
  OBVIOUS
<1> DEFINE p == s_primary_stream
           d == s_debug_stream
<1>1. /\ printed \in Nat /\ Ordered(shown, printed) /\ NoneMissing(shown, printed)
      /\ StillThere(shown, p, d) /\ Roles(pc, p, d, temp) /\ None \notin C!Streams
  BY DEF ConsoleInv, C!ConsoleAssumption
<1>2. ASSUME printed' = printed, shown' = shown, Roles(pc, p, d, temp)', p # None => p' # None,
             d # None => d' # None \/ p' # None
      PROVE  ConsoleInv'
  <2>1. StillThere(shown, p', d')
    BY <1>1, <1>2 DEF StillThere
  <2> QED BY <1>1, <1>2, <2>1 DEF ConsoleInv
<1>3. ASSUME printed' = printed, shown' = shown, p' = p, d' = d, temp' = temp, pc' = pc PROVE ConsoleInv'
  BY <1>1, <1>2, <1>3
<1>4. ASSUME printed' = printed, shown' = shown, p' = p, d' = d, temp' = temp, pc \in Asking,
             pc' \in Asking \cup {"shell"}
      PROVE  ConsoleInv'
  <2>1. Roles(pc', p, d, temp)
    BY <1>1, <1>4 DEF Roles, Labels, Asking, C!Streams
  <2> QED BY <1>2, <1>4, <2>1
<1>5. CASE C!co_vprintf
  BY <1>5, PrintInv
<1>6. CASE C!co_set_debug_console
  <2>1. Roles(pc, p, d, temp)'
    BY <1>1, <1>6 DEF Roles, Labels, Asking, C!co_set_debug_console, C!Goto
  <2>2. d = None /\ p = None
    BY <1>1, <1>6 DEF Roles, C!co_set_debug_console
  <2> QED BY <1>2, <1>6, <2>1, <2>2 DEF C!co_set_debug_console, C!Goto, C!output
<1>7. CASE C!co_set_primary_console
  <2>1. Roles(pc, p, d, temp)'
    BY <1>1, <1>7 DEF Roles, Labels, Asking, C!co_set_primary_console, C!Goto
  <2>2. p = None
    BY <1>1, <1>7 DEF Roles, C!co_set_primary_console
  <2> QED BY <1>2, <1>7, <2>1, <2>2 DEF C!co_set_primary_console, C!Goto, C!output
<1>8. CASE C!co_ask_primary_console
  <2>1. Roles(pc, p, d, temp)'
    BY <1>1, <1>8 DEF Roles, Labels, Asking, C!co_ask_primary_console, C!Goto, C!Streams
  <2>2. p # None => p' # None
    BY <1>1, <1>8 DEF C!co_ask_primary_console
  <2> QED BY <1>2, <1>8, <2>1, <2>2 DEF C!co_ask_primary_console, C!Goto, C!output
<1>9. CASE C!OnlyDebug
  <2>1. Roles(pc, p, d, temp)' /\ p' # None
    BY <1>1, <1>9 DEF Roles, Labels, Asking, C!OnlyDebug, C!Goto, C!Streams
  <2> QED BY <1>2, <1>9, <2>1 DEF C!OnlyDebug, C!Goto, C!output
<1>10. CASE C!WaitStart
  BY <1>4, <1>10 DEF Asking, C!WaitStart, C!Goto, C!output, C!consoles
<1>11. CASE C!WaitTimeout
  BY <1>4, <1>11 DEF Asking, C!WaitTimeout, C!Goto, C!output, C!consoles
<1>12. CASE C!PollTty
  BY <1>4, <1>12 DEF Asking, C!PollTty, C!AfterRead, C!output, C!consoles
<1>13. CASE C!ReadSerial
  BY <1>4, <1>13 DEF Asking, C!ReadSerial, C!Goto, C!output, C!consoles
<1>14. CASE C!Received
  BY <1>4, <1>14 DEF Asking, C!Received, C!AfterRead, C!output, C!consoles
<1>15. CASE C!Swap
  <2>1. Roles(pc, p, d, temp)' /\ p' # None
    BY <1>1, <1>15 DEF Roles, Labels, Asking, C!Swap, C!Goto, C!Streams
  <2> QED BY <1>2, <1>15, <2>1 DEF C!Swap, C!Goto, C!output
<1>16. CASE C!co_get_char
  BY <1>3, <1>16 DEF C!co_get_char, C!output, C!consoles
<1>17. CASE C!Tick
  BY <1>3, <1>17 DEF C!Tick, C!output, C!consoles
<1>18. CASE \E e \in C!Streams : \E key \in C!Keys(e) : C!Type(e, key)
  BY <1>3, <1>18 DEF C!Type, C!output, C!consoles
<1>19. CASE UNCHANGED C!vars
  BY <1>3, <1>19 DEF C!vars, C!output, C!consoles
<1> QED BY <1>5, <1>6, <1>7, <1>8, <1>9, <1>10, <1>11, <1>12, <1>13, <1>14, <1>15, <1>16, <1>17, <1>18, <1>19
        DEF C!Next, C!Boot

\* The invariant gives what the run checks.
LEMMA ConsoleInvSound == ASSUME C!ConsoleAssumption PROVE ConsoleInv => C!ConsolesSound
<1> SUFFICES ASSUME ConsoleInv PROVE C!ConsolesSound
  OBVIOUS
<1>1. C!ConsolesKept
  BY DEF ConsoleInv, Roles, Asking, C!ConsolesKept, C!ConsoleAssumption
<1>2. \A e \in C!Streams : DOMAIN shown[e] = 1..Len(shown[e])
  BY DEF ConsoleInv, Ordered
<1>3. \A e \in C!Streams : C!Range(shown[e]) = {shown[e][i] : i \in 1..Len(shown[e])}
  BY <1>2 DEF C!Range
<1>4. ASSUME NEW m, ShownOn(shown, m) PROVE \E e \in C!Streams : m \in C!Range(shown[e])
  BY <1>3, <1>4, Zenon DEF ShownOn
<1>5. ASSUME NEW e \in C!Streams, NEW n \in C!Range(shown[e]), NEW m \in n..printed
      PROVE  ShownOn(shown, m)
  <2>1. PICK i \in 1..Len(shown[e]) : n = shown[e][i]
    BY <1>3
  <2> QED BY <2>1, Zenon DEF ConsoleInv, NoneMissing
<1>6. C!OutputOnce
  <2>1. \A e \in C!Streams : \A i, j \in DOMAIN shown[e] : i < j => shown[e][i] < shown[e][j]
    BY <1>2 DEF ConsoleInv, Ordered
  <2> QED BY <1>4, <1>5, <2>1 DEF C!OutputOnce
<1> QED BY <1>1, <1>6 DEF C!ConsolesSound

\* No console repeats or reorders messages, none is lost once one was shown, and
\* the answer to the question leaves a primary console, the one it was given on
\* (co_vprintf, co_ask_primary_console), for every number of messages and however
\* the printing threads interleave with the boot thread.
THEOREM ConsoleSafety == C!ConsoleAssumption => (C!Spec => []C!ConsolesSound)
<1>1. SUFFICES ASSUME C!ConsoleAssumption PROVE C!Spec => []C!ConsolesSound
  OBVIOUS
<1>2. C!Init => ConsoleInv
  BY <1>1, ConsoleInitInv
<1>3. ConsoleInv /\ [C!Next]_C!vars => ConsoleInv'
  BY <1>1, ConsoleNextInv
<1>4. ConsoleInv => C!ConsolesSound
  BY <1>1, ConsoleInvSound
<1> QED BY <1>2, <1>3, <1>4, PTL DEF C!Spec
============================================================================
