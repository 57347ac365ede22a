---------------------------- MODULE SchedProofs ----------------------------
(***************************************************************************)
(* Proofs about Sched, for any threads, mutexes and priorities.            *)
(***************************************************************************)
EXTENDS Sched, ListLemmas

\* What a leaf that names no prover is tried with, in turn.
USE SMTT(10), Zenon, SMTT(30)

-----------------------------------------------------------------------------
(***************************************************************************)
(* What the list operations do to a list and to a family of lists without  *)
(* repetitions.                                                            *)
(***************************************************************************)

\* The operations of Sched are those of ListLemmas: list_remove_back, ...
LEMMA TakeBack ==
  ASSUME NEW S, NEW s \in Seq(S), s # << >>
  PROVE  /\ WithoutBack(s) \in Seq(S)
         /\ Len(WithoutBack(s)) = Len(s) - 1
         /\ \A i \in 1..(Len(s) - 1) : WithoutBack(s)[i] = s[i]
         /\ Back(s) = s[Len(s)]
         /\ Back(s) \in S
         /\ Len(s) \in Nat \ {0}
<1>1. WithoutBack(s) = Front(s) /\ Back(s) = Last(s)
  BY DEF WithoutBack, Front, Back, Last
<1> QED BY <1>1, PopBack

\* ... list_remove_node ...
LEMMA TakeNode ==
  ASSUME NEW S, NEW s \in Seq(S), NEW n \in 1..Len(s)
  PROVE  /\ WithoutNode(s, n) \in Seq(S)
         /\ Len(WithoutNode(s, n)) = Len(s) - 1
         /\ \A i \in 1..(Len(s) - 1) :
              WithoutNode(s, n)[i] = IF i < n THEN s[i] ELSE s[i + 1]
<1>1. WithoutNode(s, n) = RemoveAt(s, n)
  BY DEF WithoutNode, RemoveAt
<1> QED BY <1>1, RemoveNode

\* ... and list_insert_after.
LEMMA PutNode ==
  ASSUME NEW S, NEW s \in Seq(S), NEW n \in 0..Len(s), NEW e \in S
  PROVE  /\ WithNode(s, n + 1, e) \in Seq(S)
         /\ Len(WithNode(s, n + 1, e)) = Len(s) + 1
         /\ \A i \in 1..(Len(s) + 1) :
              WithNode(s, n + 1, e)[i] =
                IF i <= n THEN s[i] ELSE IF i = n + 1 THEN e ELSE s[i - 1]
<1>1. WithNode(s, n + 1, e) = InsertAt(s, n + 1, e)
  BY DEF WithNode, InsertAt
<1> QED BY <1>1, InsertNode

\* list_insert_front of a thread that is in no queue.
LEMMA PushQueue ==
  ASSUME NEW thr \in [Priorities -> Seq(Threads)], AllDistinct(thr),
         NEW t \in Threads, ~InSome(t, thr), NEW p \in Priorities,
         NEW new \in [Priorities -> Seq(Threads)], new[p] = <<t>> \o thr[p],
         \A q \in Priorities : q # p => new[q] = thr[q]
  PROVE  /\ AllDistinct(new)
         /\ \A u : InSome(u, new) <=> InSome(u, thr) \/ u = t
<1> DEFINE s == thr[p]
           ns == <<t>> \o s
<1>1. /\ ns \in Seq(Threads)
      /\ Len(ns) = Len(s) + 1
      /\ ns[1] = t
      /\ \A i \in 2..(Len(s) + 1) : ns[i] = s[i - 1]
      /\ Len(s) \in Nat
  BY PushFront
<1>2. new[p] = ns /\ (\A q \in Priorities : q # p => new[q] = thr[q]) /\ DOMAIN new = Priorities /\ DOMAIN thr = Priorities
  OBVIOUS
<1> HIDE DEF ns
<1>4. \A i \in 1..Len(ns) : i = 1 \/ (i - 1 \in 1..Len(s) /\ ns[i] = s[i - 1])
  BY <1>1
<1>5. \A i \in 1..Len(s) : i + 1 \in 1..Len(ns) /\ ns[i + 1] = s[i]
  <2> TAKE i \in 1..Len(s)
  <2>1. i + 1 \in 2..(Len(s) + 1) /\ (i + 1) - 1 = i /\ i + 1 \in 1..Len(ns)
    BY <1>1
  <2> QED BY <1>1, <2>1
<1>6. 1 \in 1..Len(ns)
  BY <1>1
<1>7. \A q \in Priorities : \A i \in 1..Len(thr[q]) : thr[q][i] # t
  BY <1>2 DEF InSome, OnList
<1>8. AllDistinct(new)
  <2> SUFFICES ASSUME NEW q \in Priorities, NEW r \in Priorities,
                      NEW i \in 1..Len(new[q]), NEW j \in 1..Len(new[r]),
                      new[q][i] = new[r][j]
               PROVE  q = r /\ i = j
    BY <1>2 DEF AllDistinct
  <2>0. \A a, b \in Priorities : \A k \in 1..Len(thr[a]), l \in 1..Len(thr[b]) :
          thr[a][k] = thr[b][l] => a = b /\ k = l
    BY <1>2 DEF AllDistinct
  <2>1. CASE q # p /\ r # p
    BY <1>2, <2>0, <2>1
  <2>2. CASE q = p /\ r # p
    BY <1>1, <1>2, <1>4, <1>7, <2>0, <2>2
  <2>3. CASE q # p /\ r = p
    BY <1>1, <1>2, <1>4, <1>7, <2>0, <2>3
  <2>4. CASE q = p /\ r = p
    <3>1. i \in 1..Len(ns) /\ j \in 1..Len(ns) /\ ns[i] = ns[j]
      BY <1>2, <2>4
    <3>2. CASE i = 1 /\ j = 1
      BY <2>4, <3>2
    <3>3. CASE i = 1 /\ j # 1
      BY <1>1, <1>4, <1>7, <3>1, <3>3
    <3>4. CASE i # 1 /\ j = 1
      BY <1>1, <1>4, <1>7, <3>1, <3>4, Zenon
    <3>5. CASE i # 1 /\ j # 1
      <4>1. i - 1 \in 1..Len(s) /\ j - 1 \in 1..Len(s) /\ s[i - 1] = s[j - 1]
        BY <1>4, <3>1, <3>5
      <4>2. \A k, l \in 1..Len(s) : s[k] = s[l] => k = l
        BY <2>0
      <4>3. i - 1 = j - 1
        BY <4>1, <4>2, Zenon
      <4> QED
        BY <1>1, <2>4, <3>1, <4>3
    <3> QED BY <3>2, <3>3, <3>4, <3>5
  <2> QED BY <2>1, <2>2, <2>3, <2>4
<1>9. ASSUME NEW u PROVE InSome(u, new) <=> InSome(u, thr) \/ u = t
  <2>1. ASSUME InSome(u, new) PROVE InSome(u, thr) \/ u = t
    <3>0. PICK q \in Priorities : \E i \in 1..Len(new[q]) : new[q][i] = u
      BY <1>2, <2>1 DEF InSome, OnList
    <3>1. PICK i \in 1..Len(new[q]) : new[q][i] = u
      BY <3>0
    <3>2. CASE q = p
      <4>1. i \in 1..Len(ns) /\ ns[i] = u
        BY <1>2, <3>1, <3>2
      <4>2. CASE i = 1
        BY <1>1, <4>1, <4>2
      <4>3. CASE i - 1 \in 1..Len(s) /\ ns[i] = s[i - 1]
        BY <1>2, <4>1, <4>3 DEF InSome, OnList
      <4> QED BY <1>4, <4>1, <4>2, <4>3
    <3>3. CASE q # p
      BY <1>2, <3>1, <3>3 DEF InSome, OnList
    <3> QED BY <3>2, <3>3
  <2>2. ASSUME InSome(u, thr) PROVE InSome(u, new)
    <3>0. PICK q \in Priorities : \E i \in 1..Len(thr[q]) : thr[q][i] = u
      BY <1>2, <2>2 DEF InSome, OnList
    <3>1. PICK i \in 1..Len(thr[q]) : thr[q][i] = u
      BY <3>0
    <3>2. CASE q = p
      BY <1>2, <1>5, <3>1, <3>2 DEF InSome, OnList
    <3>3. CASE q # p
      BY <1>2, <3>1, <3>3 DEF InSome, OnList
    <3> QED BY <3>2, <3>3
  <2>3. InSome(t, new)
    BY <1>1, <1>2, <1>6 DEF InSome, OnList
  <2> QED BY <2>1, <2>2, <2>3
<1> QED BY <1>8, <1>9

\* list_remove_back of a queue that is not empty.
LEMMA PopQueue ==
  ASSUME NEW thr \in [Priorities -> Seq(Threads)], AllDistinct(thr),
         NEW p \in Priorities, thr[p] # << >>,
         NEW new \in [Priorities -> Seq(Threads)], new[p] = WithoutBack(thr[p]),
         \A q \in Priorities : q # p => new[q] = thr[q]
  PROVE  /\ AllDistinct(new)
         /\ Back(thr[p]) \in Threads
         /\ InSome(Back(thr[p]), thr)
         /\ \A u : InSome(u, new) <=> InSome(u, thr) /\ u # Back(thr[p])
<1> DEFINE s == thr[p]
           t == Back(s)
<1>1. /\ WithoutBack(s) \in Seq(Threads)
      /\ Len(WithoutBack(s)) = Len(s) - 1
      /\ \A i \in 1..(Len(s) - 1) : WithoutBack(s)[i] = s[i]
      /\ t = s[Len(s)]
      /\ t \in Threads
      /\ Len(s) \in Nat \ {0}
  BY TakeBack, Zenon
<1>2. new[p] = WithoutBack(s) /\ (\A q \in Priorities : q # p => new[q] = thr[q]) /\ DOMAIN new = Priorities /\ DOMAIN thr = Priorities
  OBVIOUS
<1>4. \A q \in Priorities : \A i \in 1..Len(new[q]) :
        i \in 1..Len(thr[q]) /\ new[q][i] = thr[q][i] /\ (q = p => i # Len(s))
  BY <1>1, <1>2
<1>5. Len(s) \in 1..Len(s)
  BY <1>1
<1>6. \A a, b \in Priorities : \A k \in 1..Len(thr[a]), l \in 1..Len(thr[b]) :
        thr[a][k] = thr[b][l] => a = b /\ k = l
  BY <1>2 DEF AllDistinct
<1>7. AllDistinct(new)
  BY <1>2, <1>4, <1>6 DEF AllDistinct
<1>8. InSome(t, thr)
  BY <1>1, <1>2, <1>5 DEF InSome, OnList
<1>9. ASSUME NEW u PROVE InSome(u, new) <=> InSome(u, thr) /\ u # t
  <2>1. ASSUME InSome(u, new) PROVE InSome(u, thr) /\ u # t
    <3>0. PICK q \in Priorities : \E i \in 1..Len(new[q]) : new[q][i] = u
      BY <1>2, <2>1 DEF InSome, OnList
    <3>1. PICK i \in 1..Len(new[q]) : new[q][i] = u
      BY <3>0
    <3>2. i \in 1..Len(thr[q]) /\ thr[q][i] = u
      BY <1>4, <3>1
    <3>3. u # t
      BY <1>1, <1>4, <1>5, <1>6, <3>1, <3>2
    <3> QED
      BY <1>2, <3>2, <3>3 DEF InSome, OnList
  <2>2. ASSUME InSome(u, thr), u # t PROVE InSome(u, new)
    <3>0. PICK q \in Priorities : \E i \in 1..Len(thr[q]) : thr[q][i] = u
      BY <1>2, <2>2 DEF InSome, OnList
    <3>1. PICK i \in 1..Len(thr[q]) : thr[q][i] = u
      BY <3>0
    <3>2. CASE q = p
      <4>1. i \in 1..(Len(s) - 1)
        BY <1>1, <2>2, <3>1, <3>2
      <4> QED
        BY <1>1, <1>2, <3>1, <3>2, <4>1 DEF InSome, OnList
    <3>3. CASE q # p
      BY <1>2, <3>1, <3>3 DEF InSome, OnList
    <3> QED BY <3>2, <3>3
  <2> QED BY <2>1, <2>2
<1> QED BY <1>1, <1>7, <1>8, <1>9

\* list_insert_front on the wait list of a thread that is not in it.
LEMMA PushWaiter ==
  ASSUME NEW S, NEW s \in Seq(S), IsInjective(s), NEW t \in S, ~OnList(s, t)
  PROVE  /\ <<t>> \o s \in Seq(S)
         /\ IsInjective(<<t>> \o s)
         /\ \A u : OnList(<<t>> \o s, u) <=> OnList(s, u) \/ u = t
<1> DEFINE ns == <<t>> \o s
<1>1. /\ ns \in Seq(S)
      /\ Len(ns) = Len(s) + 1
      /\ ns[1] = t
      /\ \A i \in 2..(Len(s) + 1) : ns[i] = s[i - 1]
      /\ Len(s) \in Nat
      /\ DOMAIN ns = 1..Len(ns)
      /\ DOMAIN s = 1..Len(s)
  BY PushFront
<1> HIDE DEF ns
<1>2. \A i \in 1..Len(ns) : i = 1 \/ (i - 1 \in 1..Len(s) /\ ns[i] = s[i - 1])
  BY <1>1
<1>3. \A i \in 1..Len(s) : i + 1 \in 1..Len(ns) /\ ns[i + 1] = s[i]
  <2> TAKE i \in 1..Len(s)
  <2>1. i + 1 \in 2..(Len(s) + 1) /\ (i + 1) - 1 = i /\ i + 1 \in 1..Len(ns)
    BY <1>1
  <2> QED BY <1>1, <2>1
<1>4. \A i \in 1..Len(s) : s[i] # t
  BY DEF OnList
<1>5. \A i, j \in 1..Len(s) : s[i] = s[j] => i = j
  BY <1>1 DEF IsInjective
<1>6. IsInjective(ns)
  <2> SUFFICES ASSUME NEW i \in 1..Len(ns), NEW j \in 1..Len(ns), ns[i] = ns[j]
               PROVE  i = j
    BY <1>1 DEF IsInjective
  <2>1. CASE i = 1 \/ j = 1
    BY <1>1, <1>2, <1>4, <2>1
  <2>2. CASE i # 1 /\ j # 1
    <3>1. i - 1 \in 1..Len(s) /\ j - 1 \in 1..Len(s) /\ s[i - 1] = s[j - 1]
      BY <1>2, <2>2
    <3>2. i - 1 = j - 1
      BY <1>5, <3>1, Zenon
    <3> QED BY <1>1, <3>2
  <2> QED BY <2>1, <2>2
<1>7. ASSUME NEW u PROVE OnList(ns, u) <=> OnList(s, u) \/ u = t
  <2>1. ASSUME OnList(ns, u) PROVE OnList(s, u) \/ u = t
    BY <1>1, <1>2, <2>1 DEF OnList
  <2>2. ASSUME OnList(s, u) PROVE OnList(ns, u)
    BY <1>3, <2>2 DEF OnList
  <2>3. 1 \in 1..Len(ns)
    BY <1>1
  <2>4. OnList(ns, t)
    BY <1>1, <2>3 DEF OnList
  <2> QED BY <2>1, <2>2, <2>4
<1> QED BY <1>1, <1>6, <1>7 DEF ns

\* list_remove_node on the wait list.
LEMMA RemoveWaiter ==
  ASSUME NEW S, NEW s \in Seq(S), IsInjective(s), NEW n \in 1..Len(s)
  PROVE  /\ WithoutNode(s, n) \in Seq(S)
         /\ IsInjective(WithoutNode(s, n))
         /\ s[n] \in S
         /\ OnList(s, s[n])
         /\ \A u : OnList(WithoutNode(s, n), u) <=> OnList(s, u) /\ u # s[n]
<1> DEFINE r == WithoutNode(s, n)
<1>1. /\ r \in Seq(S)
      /\ Len(r) = Len(s) - 1
      /\ \A i \in 1..(Len(s) - 1) : r[i] = IF i < n THEN s[i] ELSE s[i + 1]
      /\ Len(s) \in Nat
      /\ DOMAIN r = 1..Len(r)
      /\ DOMAIN s = 1..Len(s)
  BY TakeNode
<1> HIDE DEF r
<1>2. \A i, j \in 1..Len(s) : s[i] = s[j] => i = j
  BY <1>1 DEF IsInjective
<1>3. \A i \in 1..Len(r) :
        \E k \in 1..Len(s) : k # n /\ r[i] = s[k] /\ (i < n => k = i) /\ (i >= n => k = i + 1)
  <2> TAKE i \in 1..Len(r)
  <2>1. CASE i < n
    BY <1>1, <2>1
  <2>2. CASE i >= n
    <3>1. i + 1 \in 1..Len(s) /\ i + 1 # n /\ ~(i < n)
      BY <1>1, <2>2
    <3> QED BY <1>1, <2>2, <3>1
  <2>3. i < n \/ i >= n
    BY <1>1
  <2> QED BY <2>1, <2>2, <2>3
<1>4. IsInjective(r)
  <2> SUFFICES ASSUME NEW i \in 1..Len(r), NEW j \in 1..Len(r), r[i] = r[j]
               PROVE  i = j
    BY <1>1 DEF IsInjective
  <2>1. PICK k \in 1..Len(s) : k # n /\ r[i] = s[k] /\ (i < n => k = i) /\ (i >= n => k = i + 1)
    BY <1>3
  <2>2. PICK l \in 1..Len(s) : l # n /\ r[j] = s[l] /\ (j < n => l = j) /\ (j >= n => l = j + 1)
    BY <1>3
  <2>3. k = l
    BY <1>2, <2>1, <2>2, Zenon
  <2> QED BY <1>1, <2>1, <2>2, <2>3
<1>5. ASSUME NEW u PROVE OnList(r, u) <=> OnList(s, u) /\ u # s[n]
  <2>1. ASSUME OnList(r, u) PROVE OnList(s, u) /\ u # s[n]
    BY <1>2, <1>3, <2>1 DEF OnList
  <2>2. ASSUME OnList(s, u), u # s[n] PROVE OnList(r, u)
    <3>1. PICK k \in 1..Len(s) : s[k] = u
      BY <2>2 DEF OnList
    <3>2. CASE k < n
      BY <1>1, <3>1, <3>2 DEF OnList
    <3>3. CASE k > n
      <4>1. k - 1 \in 1..(Len(s) - 1) /\ ~(k - 1 < n) /\ (k - 1) + 1 = k
        BY <1>1, <3>3
      <4>2. r[k - 1] = s[k]
        BY <1>1, <4>1
      <4> QED BY <1>1, <3>1, <4>1, <4>2 DEF OnList
    <3>4. k < n \/ k > n
      BY <1>1, <2>2, <3>1
    <3> QED BY <3>2, <3>3, <3>4
  <2> QED BY <2>1, <2>2
<1>6. s[n] \in S /\ OnList(s, s[n])
  BY ElementOfSeq DEF OnList
<1> QED BY <1>1, <1>4, <1>5, <1>6 DEF r

-----------------------------------------------------------------------------
(***************************************************************************)
(* The inductive invariant.                                                *)
(***************************************************************************)
IInv == TypeOK /\ EveryThreadInOnePlace /\ MutualExclusion /\ AssertionsHold

\* Every thread has one of the priorities that sched.c makes queues for.
LEMMA PrioType == \A t \in Threads : Prio[t] \in Priorities
  BY PrioAssumption DEF Priorities

\* What SwitchTo does to the lists it is given.
LEMMA SwitchLists ==
  ASSUME IInv,
         NEW next \in Threads, NEW wl \in Seq(Threads),
         NEW wm \in [Threads -> Mutexes \cup {None}],
         NEW thr \in [Priorities -> Seq(Threads)],
         Self \in Threads, Self # next,
         AllDistinct(thr), IsInjective(wl),
         ~InSome(Self, thr), ~OnList(wl, Self),
         ~InSome(next, thr), ~OnList(wl, next),
         \A u \in Threads : ~(InSome(u, thr) /\ OnList(wl, u)),
         \A u \in Threads : life[u] = "live" <=>
            InSome(u, thr) \/ OnList(wl, u) \/ u = Self \/ u = next,
         \A u \in Threads : wm[u] # None <=> OnList(wl, u),
         SwitchTo(next, wl, wm, thr)
  PROVE  /\ s_queues' \in Seq(Priorities)
         /\ threads' \in [Priorities -> Seq(Threads)]
         /\ s_mutexwaitthreads' \in Seq(Threads)
         /\ waitingmutex' \in [Threads -> Mutexes \cup {None}]
         /\ life' \in [Threads -> {"unborn", "live", "lost", "deleted"}]
         /\ EveryThreadInOnePlace'
         /\ \A t \in Threads : waitingmutex'[t] # None <=> OnList(s_mutexwaitthreads', t)
<1> DEFINE Goal == /\ s_queues' \in Seq(Priorities)
         /\ threads' \in [Priorities -> Seq(Threads)]
         /\ s_mutexwaitthreads' \in Seq(Threads)
         /\ waitingmutex' \in [Threads -> Mutexes \cup {None}]
         /\ life' \in [Threads -> {"unborn", "live", "lost", "deleted"}]
         /\ EveryThreadInOnePlace'
         /\ \A t \in Threads : waitingmutex'[t] # None <=> OnList(s_mutexwaitthreads', t)
<1>0. /\ s_queues \in Seq(Priorities)
      /\ life \in [Threads -> {"unborn", "live", "lost", "deleted"}]
      /\ wanted \in Mutexes \cup {None}
      /\ s_runningthread' = next
  BY DEF IInv, TypeOK, SwitchTo
<1>1. ASSUME mode = "schedule", NEW ok \in HeapResults,
             sched_queue(Self, thr, ok),
             life' = IF CanQueue(Self, ok) THEN life ELSE [life EXCEPT ![Self] = "lost"],
             s_mutexwaitthreads' = wl, waitingmutex' = wm
      PROVE  Goal
  <2>1. s_queues' \in Seq(Priorities)
    <3>1. CASE s_queues' = s_queues
      BY <1>0, <3>1
    <3>2. ASSUME NEW n \in 0..Len(s_queues), s_queues' = WithNode(s_queues, n + 1, Prio[Self])
          PROVE  s_queues' \in Seq(Priorities)
      BY <1>0, <3>2, PrioType, PutNode
    <3> QED BY <1>1, <3>1, <3>2 DEF sched_queue
  <2>2. CASE CanQueue(Self, ok)
    <3>1. threads' = [thr EXCEPT ![Prio[Self]] = <<Self>> \o @]
      BY <1>1, <2>2 DEF sched_queue
    <3>2. /\ threads' \in [Priorities -> Seq(Threads)]
          /\ AllDistinct(threads')
          /\ \A u : InSome(u, threads') <=> InSome(u, thr) \/ u = Self
      <4>1. Prio[Self] \in Priorities
        BY PrioType
      <4>2. <<Self>> \o thr[Prio[Self]] \in Seq(Threads)
        BY <4>1, PushFront
      <4>3. /\ threads' \in [Priorities -> Seq(Threads)]
            /\ threads'[Prio[Self]] = <<Self>> \o thr[Prio[Self]]
            /\ \A q \in Priorities : q # Prio[Self] => threads'[q] = thr[q]
        BY <3>1, <4>1, <4>2
      <4>4. \A p \in Priorities, new \in [Priorities -> Seq(Threads)] :
              /\ new[p] = <<Self>> \o thr[p]
              /\ \A q \in Priorities : q # p => new[q] = thr[q]
              => /\ AllDistinct(new)
                 /\ \A u : InSome(u, new) <=> InSome(u, thr) \/ u = Self
        BY PushQueue, Zenon
      <4> QED
        BY <4>1, <4>3, <4>4, Zenon
    <3>3. life' = life
      BY <1>1, <2>2
    <3>4. EveryThreadInOnePlace'
      BY <1>0, <1>1, <3>2, <3>3 DEF EveryThreadInOnePlace, OnQueue, OnWaitList, Self
    <3> QED BY <1>0, <1>1, <2>1, <3>2, <3>3, <3>4
  <2>3. CASE ~CanQueue(Self, ok)
    <3>1. threads' = thr /\ life' = [life EXCEPT ![Self] = "lost"]
      BY <1>1, <2>3 DEF sched_queue
    <3>2. life' \in [Threads -> {"unborn", "live", "lost", "deleted"}]
      BY <1>0, <3>1
    <3>3. \A u \in Threads : life'[u] = "live" <=> life[u] = "live" /\ u # Self
      BY <1>0, <3>1
    <3>4. EveryThreadInOnePlace'
      BY <1>0, <1>1, <3>1, <3>3 DEF EveryThreadInOnePlace, OnQueue, OnWaitList, Self
    <3> QED BY <1>0, <1>1, <2>1, <3>1, <3>2, <3>4
  <2> QED BY <2>2, <2>3
<1>2. ASSUME mode = "wait",
             s_mutexwaitthreads' = <<Self>> \o wl,
             waitingmutex' = [wm EXCEPT ![Self] = wanted],
             threads' = thr, s_queues' = s_queues, life' = life
      PROVE  Goal
  <2>1. /\ s_mutexwaitthreads' \in Seq(Threads)
        /\ IsInjective(s_mutexwaitthreads')
        /\ \A u : OnList(s_mutexwaitthreads', u) <=> OnList(wl, u) \/ u = Self
    BY <1>2, PushWaiter
  <2>2. wanted # None
    BY <1>2 DEF IInv, AssertionsHold
  <2>3. waitingmutex' \in [Threads -> Mutexes \cup {None}]
    BY <1>0, <1>2
  <2>4. \A t \in Threads : waitingmutex'[t] # None <=> OnList(s_mutexwaitthreads', t)
    BY <1>2, <2>1, <2>2
  <2>5. EveryThreadInOnePlace'
    BY <1>0, <1>2, <2>1 DEF EveryThreadInOnePlace, OnQueue, OnWaitList, Self
  <2> QED BY <1>0, <1>2, <2>1, <2>3, <2>4, <2>5
<1> QED BY <1>1, <1>2 DEF SwitchTo, Self

-----------------------------------------------------------------------------
(***************************************************************************)
(* Every step of the pick_next_task loop preserves the invariant.          *)
(***************************************************************************)

\* A round of the loop that has a waiter or a queued thread to work on runs
\* on behalf of a thread: before sched_init_boot_thread there is none.
LEMMA LoopHasSelf ==
  ASSUME IInv, \E t \in Threads : OnQueue(t) \/ OnWaitList(t)
  PROVE  Self \in Threads
  BY DEF IInv, TypeOK, EveryThreadInOnePlace, AssertionsHold, Self

\* pick_next_task_from_mutex_waitlist hands the mutex to a waiter.
LEMMA GrantWaiterInv ==
  ASSUME IInv, NEW i \in DOMAIN s_mutexwaitthreads, GrantWaiter(i)
  PROVE  IInv'
<1> DEFINE t == s_mutexwaitthreads[i]
           m == waitingmutex[t]
           wl == WithoutNode(s_mutexwaitthreads, i)
           wm == [waitingmutex EXCEPT ![t] = None]
<1>0. s_mutexwaitthreads \in Seq(Threads) /\ i \in 1..Len(s_mutexwaitthreads)
  BY DEF IInv, TypeOK
<1>1. /\ wl \in Seq(Threads)
      /\ IsInjective(wl)
      /\ t \in Threads
      /\ OnWaitList(t)
      /\ \A u : OnList(wl, u) <=> OnWaitList(u) /\ u # t
  BY <1>0, RemoveWaiter DEF IInv, EveryThreadInOnePlace, OnWaitList
<1> HIDE DEF t, wl
<1>2. Self \in Threads /\ Self # t /\ ~OnQueue(t) /\ ~OnQueue(Self) /\ ~OnWaitList(Self)
  BY <1>1, LoopHasSelf DEF IInv, EveryThreadInOnePlace
<1>3. m \in Mutexes /\ ~locked[m]
  BY <1>1 DEF IInv, TypeOK, AssertionsHold, GrantWaiter, FirstLockable, Lockable, t
<1>4. /\ wm \in [Threads -> Mutexes \cup {None}]
      /\ \A u \in Threads : wm[u] # None <=> OnList(wl, u)
  BY <1>1 DEF IInv, TypeOK, AssertionsHold
<1>5. SwitchTo(t, wl, wm, threads)
  BY DEF GrantWaiter, t, wl
<1> HIDE DEF wm, m
<1>6. /\ s_queues' \in Seq(Priorities)
      /\ threads' \in [Priorities -> Seq(Threads)]
      /\ s_mutexwaitthreads' \in Seq(Threads)
      /\ waitingmutex' \in [Threads -> Mutexes \cup {None}]
      /\ life' \in [Threads -> {"unborn", "live", "lost", "deleted"}]
      /\ EveryThreadInOnePlace'
      /\ \A u \in Threads : waitingmutex'[u] # None <=> OnList(s_mutexwaitthreads', u)
  <2>1. threads \in [Priorities -> Seq(Threads)] /\ AllDistinct(threads)
    BY DEF IInv, TypeOK, EveryThreadInOnePlace
  <2>2. \A u \in Threads : ~(InSome(u, threads) /\ OnList(wl, u))
    BY <1>1 DEF IInv, EveryThreadInOnePlace, OnQueue
  <2>3. \A u \in Threads : life[u] = "live" <=>
            InSome(u, threads) \/ OnList(wl, u) \/ u = Self \/ u = t
    BY <1>1 DEF IInv, EveryThreadInOnePlace, OnQueue
  <2> QED BY <1>1, <1>2, <1>4, <1>5, <2>1, <2>2, <2>3, SwitchLists, Zenon DEF OnQueue
<1>7. /\ locked' = [locked EXCEPT ![m] = TRUE]
      /\ holds' = [holds EXCEPT ![t] = @ \cup {m}]
      /\ mode' = "user" /\ wanted' = None /\ s_runningthread' = t
      /\ UNCHANGED <<shutdown, irq, hung, opportunities, s_current_queue>>
  BY DEF GrantWaiter, SwitchTo, t, m
<1>8. TypeOK'
  BY <1>1, <1>3, <1>6, <1>7 DEF IInv, TypeOK
<1>9. MutualExclusion'
  BY <1>1, <1>3, <1>7 DEF IInv, TypeOK, MutualExclusion
<1>10. AssertionsHold'
  BY <1>1, <1>6, <1>7, NoneAssumption DEF AssertionsHold, OnWaitList, Self
<1> QED BY <1>6, <1>8, <1>9, <1>10 DEF IInv

\* A waiter that was told to shut down is deleted; its mutex stays free.
LEMMA ReapWaiterInv ==
  ASSUME IInv, NEW i \in DOMAIN s_mutexwaitthreads, ReapWaiter(i)
  PROVE  IInv'
<1> DEFINE t == s_mutexwaitthreads[i]
           wl == WithoutNode(s_mutexwaitthreads, i)
<1>0. s_mutexwaitthreads \in Seq(Threads) /\ i \in 1..Len(s_mutexwaitthreads)
  BY DEF IInv, TypeOK
<1>1. /\ wl \in Seq(Threads)
      /\ IsInjective(wl)
      /\ t \in Threads
      /\ OnWaitList(t)
      /\ \A u : OnList(wl, u) <=> OnWaitList(u) /\ u # t
  BY <1>0, RemoveWaiter DEF IInv, EveryThreadInOnePlace, OnWaitList
<1>2. /\ s_mutexwaitthreads' = wl
      /\ waitingmutex' = [waitingmutex EXCEPT ![t] = None]
      /\ life' = [life EXCEPT ![t] = "deleted"]
      /\ UNCHANGED <<s_queues, opportunities, threads, s_current_queue,
                     s_runningthread, shutdown, locked, irq, holds, mode, wanted, hung>>
  BY DEF ReapWaiter
<1> HIDE DEF t, wl
<1>3. TypeOK'
  BY <1>1, <1>2 DEF IInv, TypeOK
<1>4. \A u \in Threads : life'[u] = "live" <=> life[u] = "live" /\ u # t
  BY <1>1, <1>2 DEF IInv, TypeOK
<1>5. EveryThreadInOnePlace'
  <2>1. \A u : OnQueue(u)' <=> OnQueue(u)
    BY <1>2 DEF OnQueue
  <2>2. \A u : OnWaitList(u)' <=> OnWaitList(u) /\ u # t
    BY <1>1, <1>2 DEF OnWaitList
  <2>3. Self' = Self /\ AllDistinct(threads') /\ IsInjective(s_mutexwaitthreads')
    BY <1>1, <1>2 DEF IInv, EveryThreadInOnePlace, Self
  <2> QED BY <1>1, <1>4, <2>1, <2>2, <2>3 DEF IInv, EveryThreadInOnePlace
<1>6. MutualExclusion'
  BY <1>2 DEF IInv, MutualExclusion
<1>7. AssertionsHold'
  BY <1>1, <1>2, <1>4 DEF IInv, TypeOK, AssertionsHold, OnWaitList, Self
<1> QED BY <1>3, <1>5, <1>6, <1>7 DEF IInv

\* pick_next_queue: the queue it selects has an opportunity to spend.
LEMMA SelectQueueType ==
  ASSUME TypeOK, NEW i \in DOMAIN s_queues, SelectQueue(i)
  PROVE  /\ s_queues[i] \in Priorities
         /\ opportunities' \in [Priorities -> Nat]
         /\ s_current_queue' \in Priorities
<1>1. s_queues[i] \in Priorities /\ DOMAIN s_queues = 1..Len(s_queues) /\ Len(s_queues) \in Nat
  BY DEF TypeOK
<1>2. opportunities \in [Priorities -> Nat]
  BY DEF TypeOK
<1>3. \A p \in Range(s_queues) :
        (CHOOSE k \in DOMAIN s_queues : s_queues[k] = p) \in Nat \ {0}
  BY <1>1 DEF Range
<1>4. reset_queues \in [Priorities -> Nat] /\ reset_queues[s_queues[i]] # 0
  <2>1. s_queues[i] \in Range(s_queues)
    BY DEF Range
  <2> QED BY <1>1, <1>2, <1>3, <2>1 DEF reset_queues
<1>5. Opportunities \in [Priorities -> Nat] /\ Opportunities[s_queues[i]] # 0
  BY <1>2, <1>4 DEF Opportunities, SelectQueue, Selected, NoneSelectable, Selectable
<1> QED BY <1>1, <1>5 DEF SelectQueue

\* The thread at the back of the selected queue gets the CPU.
LEMMA RunQueuedInv ==
  ASSUME IInv, NEW i \in DOMAIN s_queues, RunQueued(i)
  PROVE  IInv'
<1> DEFINE q == s_queues[i]
           t == Back(threads[q])
           thr == [threads EXCEPT ![q] = WithoutBack(@)]
<1>0. /\ q \in Priorities
      /\ opportunities' \in [Priorities -> Nat]
      /\ s_current_queue' \in Priorities
  BY SelectQueueType DEF IInv, RunQueued
<1>1. /\ threads \in [Priorities -> Seq(Threads)] /\ AllDistinct(threads)
      /\ threads[q] # << >>
      /\ SwitchTo(t, s_mutexwaitthreads, waitingmutex, thr)
      /\ UNCHANGED <<locked, holds>>
  BY DEF IInv, TypeOK, EveryThreadInOnePlace, RunQueued
<1> HIDE DEF q
<1>2. WithoutBack(threads[q]) \in Seq(Threads)
  BY <1>0, <1>1, TakeBack, Zenon
<1>3. /\ thr \in [Priorities -> Seq(Threads)]
      /\ thr[q] = WithoutBack(threads[q])
      /\ \A p \in Priorities : p # q => thr[p] = threads[p]
  BY <1>0, <1>1, <1>2
<1> HIDE DEF thr
<1>4. /\ AllDistinct(thr)
      /\ t \in Threads
      /\ OnQueue(t)
      /\ \A u : InSome(u, thr) <=> OnQueue(u) /\ u # t
  BY <1>0, <1>1, <1>3, PopQueue, Zenon DEF OnQueue
<1> HIDE DEF t
<1>5. Self \in Threads /\ Self # t /\ ~OnWaitList(t) /\ ~OnQueue(Self) /\ ~OnWaitList(Self)
  BY <1>4, LoopHasSelf DEF IInv, EveryThreadInOnePlace
<1>6. /\ s_queues' \in Seq(Priorities)
      /\ threads' \in [Priorities -> Seq(Threads)]
      /\ s_mutexwaitthreads' \in Seq(Threads)
      /\ waitingmutex' \in [Threads -> Mutexes \cup {None}]
      /\ life' \in [Threads -> {"unborn", "live", "lost", "deleted"}]
      /\ EveryThreadInOnePlace'
      /\ \A u \in Threads : waitingmutex'[u] # None <=> OnList(s_mutexwaitthreads', u)
  <2>1. /\ s_mutexwaitthreads \in Seq(Threads) /\ IsInjective(s_mutexwaitthreads)
        /\ waitingmutex \in [Threads -> Mutexes \cup {None}]
        /\ \A u \in Threads : waitingmutex[u] # None <=> OnList(s_mutexwaitthreads, u)
    BY DEF IInv, TypeOK, EveryThreadInOnePlace, AssertionsHold, OnWaitList
  <2>2. \A u \in Threads : ~(InSome(u, thr) /\ OnList(s_mutexwaitthreads, u))
    BY <1>4 DEF IInv, EveryThreadInOnePlace, OnWaitList
  <2>3. \A u \in Threads : life[u] = "live" <=>
            InSome(u, thr) \/ OnList(s_mutexwaitthreads, u) \/ u = Self \/ u = t
    BY <1>4 DEF IInv, EveryThreadInOnePlace, OnWaitList
  <2> QED BY <1>1, <1>3, <1>4, <1>5, <2>1, <2>2, <2>3, SwitchLists, Zenon DEF OnWaitList
<1>7. /\ mode' = "user" /\ wanted' = None /\ s_runningthread' = t
      /\ UNCHANGED <<shutdown, irq, hung, locked, holds>>
  BY <1>1 DEF SwitchTo
<1>8. TypeOK'
  BY <1>0, <1>4, <1>6, <1>7, Zenon DEF IInv, TypeOK
<1>9. MutualExclusion'
  BY <1>7 DEF IInv, MutualExclusion
<1>10. AssertionsHold'
  BY <1>4, <1>6, <1>7, NoneAssumption DEF AssertionsHold, OnWaitList, Self
<1> QED BY <1>6, <1>8, <1>9, <1>10 DEF IInv

\* The thread at the back of the selected queue is to shut down.
LEMMA ReapQueuedInv ==
  ASSUME IInv, NEW i \in DOMAIN s_queues, ReapQueued(i)
  PROVE  IInv'
<1> DEFINE q == s_queues[i]
           t == Back(threads[q])
<1>0. /\ q \in Priorities
      /\ opportunities' \in [Priorities -> Nat]
      /\ s_current_queue' \in Priorities
  BY SelectQueueType DEF IInv, ReapQueued
<1>1. /\ threads \in [Priorities -> Seq(Threads)] /\ AllDistinct(threads)
      /\ threads[q] # << >>
      /\ threads' = [threads EXCEPT ![q] = WithoutBack(@)]
      /\ life' = [life EXCEPT ![t] = "deleted"]
      /\ UNCHANGED <<s_queues, s_mutexwaitthreads, s_runningthread, waitingmutex,
                     shutdown, locked, irq, holds, mode, wanted, hung>>
  BY DEF IInv, TypeOK, EveryThreadInOnePlace, ReapQueued
<1> HIDE DEF q
<1>2. WithoutBack(threads[q]) \in Seq(Threads)
  BY <1>0, <1>1, TakeBack, Zenon
<1>3. /\ threads' \in [Priorities -> Seq(Threads)]
      /\ threads'[q] = WithoutBack(threads[q])
      /\ \A p \in Priorities : p # q => threads'[p] = threads[p]
  BY <1>0, <1>1, <1>2
<1>4. /\ AllDistinct(threads')
      /\ t \in Threads
      /\ OnQueue(t)
      /\ \A u : InSome(u, threads') <=> OnQueue(u) /\ u # t
  <2> DEFINE new == threads'
  <2>1. /\ new \in [Priorities -> Seq(Threads)]
        /\ new[q] = WithoutBack(threads[q])
        /\ \A p \in Priorities : p # q => new[p] = threads[p]
    BY <1>3
  <2> HIDE DEF new
  <2>2. /\ AllDistinct(new)
        /\ t \in Threads
        /\ InSome(t, threads)
        /\ \A u : InSome(u, new) <=> InSome(u, threads) /\ u # t
    BY <1>0, <1>1, <2>1, PopQueue, Zenon
  <2> QED BY <2>2 DEF OnQueue, new
<1> HIDE DEF t
<1>5. \A u \in Threads : life'[u] = "live" <=> life[u] = "live" /\ u # t
  BY <1>1, <1>4 DEF IInv, TypeOK
<1>6. TypeOK'
  BY <1>0, <1>1, <1>3, <1>4, Zenon DEF IInv, TypeOK
<1>7. EveryThreadInOnePlace'
  <2>1. \A u : OnWaitList(u)' <=> OnWaitList(u)
    BY <1>1 DEF OnWaitList
  <2>2. \A u : OnQueue(u)' <=> OnQueue(u) /\ u # t
    BY <1>4 DEF OnQueue
  <2>3. Self' = Self /\ AllDistinct(threads') /\ IsInjective(s_mutexwaitthreads')
    BY <1>1, <1>4 DEF IInv, EveryThreadInOnePlace, Self
  <2> QED BY <1>4, <1>5, <2>1, <2>2, <2>3, Zenon DEF IInv, EveryThreadInOnePlace
<1>8. MutualExclusion'
  BY <1>1 DEF IInv, MutualExclusion
<1>9. AssertionsHold'
  BY <1>1, <1>5 DEF IInv, AssertionsHold, OnWaitList, Self
<1> QED BY <1>6, <1>7, <1>8, <1>9 DEF IInv

\* pick_next_task returns nullptr.
LEMMA NothingPickedInv ==
  ASSUME IInv, mode # "user", NothingPicked,
         opportunities' \in [Priorities -> Nat],
         s_current_queue' \in Priorities \cup {None}
  PROVE  IInv'
<1>1. TypeOK'
  BY DEF IInv, TypeOK, NothingPicked
<1>2. EveryThreadInOnePlace'
  BY DEF IInv, EveryThreadInOnePlace, OnQueue, OnWaitList, Self, NothingPicked
<1>3. MutualExclusion' /\ AssertionsHold'
  BY DEF IInv, MutualExclusion, AssertionsHold, OnWaitList, Self, NothingPicked
<1> QED BY <1>1, <1>2, <1>3 DEF IInv

\* A round of pick_next_task, whichever way it ends, keeps the invariant.
LEMMA PickNextTaskInv == IInv /\ PickNextTask => IInv'
<1> SUFFICES ASSUME IInv, PickNextTask PROVE IInv'
  OBVIOUS
<1>1. ASSUME NEW i \in DOMAIN s_queues, EmptyQueuePicked(i) PROVE IInv'
  BY <1>1, SelectQueueType, NothingPickedInv, Zenon DEF IInv, EmptyQueuePicked, SelectQueue
<1>2. CASE NoQueues
  BY <1>2, NothingPickedInv DEF IInv, TypeOK, NoQueues
<1> QED
  BY <1>1, <1>2, GrantWaiterInv, ReapWaiterInv, RunQueuedInv, ReapQueuedInv DEF PickNextTask

-----------------------------------------------------------------------------
(***************************************************************************)
(* So do the steps of the running thread and of the timer.                 *)
(***************************************************************************)
\* sched_init_boot_thread makes the boot thread the running one.
LEMMA BootInv == IInv /\ sched_init_boot_thread => IInv'
<1> SUFFICES ASSUME IInv, sched_init_boot_thread PROVE IInv'
  OBVIOUS
<1> USE BootAssumption, NoneAssumption
<1>1. TypeOK'
  BY DEF IInv, TypeOK, sched_init_boot_thread, lists
<1>2. /\ Self = None /\ s_runningthread' = Boot
      /\ \A u \in Threads : life'[u] = "live" <=> life[u] = "live" \/ u = Boot
      /\ UNCHANGED <<threads, s_mutexwaitthreads, waitingmutex, locked, holds, mode, wanted>>
  BY DEF IInv, TypeOK, sched_init_boot_thread, lists
<1>3. EveryThreadInOnePlace'
  BY <1>2 DEF IInv, EveryThreadInOnePlace, AssertionsHold, OnQueue, OnWaitList, Self
<1>4. MutualExclusion' /\ AssertionsHold'
  BY <1>2 DEF IInv, MutualExclusion, AssertionsHold, OnWaitList, Self
<1> QED BY <1>1, <1>3, <1>4 DEF IInv

\* thread_create and sched_queue put a new thread into the queue of its priority.
LEMMA CreateThreadInv == ASSUME IInv, NEW t \in Threads, CreateThread(t) PROVE IInv'
<1>1. PICK ok \in HeapResults :
        /\ sched_queue(t, threads, ok)
        /\ life' = [life EXCEPT ![t] = IF CanQueue(t, ok) THEN "live" ELSE "deleted"]
  BY Zenon DEF CreateThread
<1>2. /\ UNCHANGED <<opportunities, s_current_queue, s_mutexwaitthreads,
                     s_runningthread, waitingmutex, shutdown, locked, irq, holds,
                     mode, wanted, hung>>
      /\ Self # None /\ life[t] = "unborn"
  BY DEF CreateThread, UserStep
<1>3. /\ s_queues \in Seq(Priorities) /\ threads \in [Priorities -> Seq(Threads)]
      /\ AllDistinct(threads) /\ ~OnQueue(t) /\ ~OnWaitList(t) /\ t # Self
      /\ life \in [Threads -> {"unborn", "live", "lost", "deleted"}]
  BY <1>2 DEF IInv, TypeOK, EveryThreadInOnePlace
<1>4. s_queues' \in Seq(Priorities)
  <2>1. ASSUME NEW n \in 0..Len(s_queues), s_queues' = WithNode(s_queues, n + 1, Prio[t])
        PROVE  s_queues' \in Seq(Priorities)
    BY <1>3, <2>1, PrioType, PutNode, Zenon
  <2> QED BY <1>1, <1>3, <2>1 DEF sched_queue
<1>5. life' \in [Threads -> {"unborn", "live", "lost", "deleted"}]
  BY <1>1, <1>3
<1>6. /\ threads' \in [Priorities -> Seq(Threads)]
      /\ AllDistinct(threads')
      /\ \A u \in Threads : OnQueue(u)' <=> OnQueue(u) \/ (u = t /\ CanQueue(t, ok))
  <2>1. CASE CanQueue(t, ok)
    <3>1. threads' = [threads EXCEPT ![Prio[t]] = <<t>> \o @]
      BY <1>1, <2>1 DEF sched_queue
    <3>2. Prio[t] \in Priorities
      BY PrioType
    <3>3. <<t>> \o threads[Prio[t]] \in Seq(Threads)
      BY <1>3, <3>2, PushFront
    <3>4. /\ threads' \in [Priorities -> Seq(Threads)]
          /\ threads'[Prio[t]] = <<t>> \o threads[Prio[t]]
          /\ \A q \in Priorities : q # Prio[t] => threads'[q] = threads[q]
      BY <1>3, <3>1, <3>2, <3>3
    <3>5. /\ AllDistinct(threads')
          /\ \A u : InSome(u, threads') <=> InSome(u, threads) \/ u = t
      BY <1>3, <3>2, <3>4, PushQueue, Zenon DEF OnQueue
    <3> QED BY <2>1, <3>4, <3>5 DEF OnQueue
  <2>2. CASE ~CanQueue(t, ok)
    BY <1>1, <1>3, <2>2 DEF sched_queue, OnQueue
  <2> QED BY <2>1, <2>2
<1>7. \A u \in Threads : life'[u] = "live" <=> life[u] = "live" \/ (u = t /\ CanQueue(t, ok))
  BY <1>1, <1>2, <1>3
<1>8. TypeOK'
  BY <1>2, <1>4, <1>5, <1>6 DEF IInv, TypeOK
<1>9. EveryThreadInOnePlace'
  <2>1. \A u : OnWaitList(u)' <=> OnWaitList(u)
    BY <1>2 DEF OnWaitList
  <2>2. Self' = Self /\ IsInjective(s_mutexwaitthreads')
    BY <1>2 DEF IInv, EveryThreadInOnePlace, Self
  <2> QED BY <1>3, <1>6, <1>7, <2>1, <2>2 DEF IInv, EveryThreadInOnePlace
<1>10. MutualExclusion' /\ AssertionsHold'
  BY <1>2, Zenon DEF IInv, MutualExclusion, AssertionsHold, OnWaitList, Self
<1> QED BY <1>8, <1>9, <1>10 DEF IInv

\* mutex_lock, mutex_unlock.
LEMMA MutexInv ==
  ASSUME IInv, NEW m \in Mutexes, mutex_lock(m) \/ mutex_unlock(m)
  PROVE  IInv'
<1>0. /\ Self \in Threads /\ Self # None
      /\ mode = "user"
      /\ UNCHANGED <<lists, s_runningthread, waitingmutex, shutdown, irq, life, hung>>
      /\ locked \in [Mutexes -> BOOLEAN] /\ holds \in [Threads -> SUBSET Mutexes]
      /\ \A t, u \in Threads : t # u => holds[t] \cap holds[u] = {}
      /\ \A n \in Mutexes : locked[n] <=> \E t \in Threads : n \in holds[t]
  BY DEF IInv, TypeOK, MutualExclusion, Self, UserStep, mutex_lock, mutex_unlock
<1>1. CASE /\ ~locked[m]
           /\ locked' = [locked EXCEPT ![m] = TRUE]
           /\ holds' = [holds EXCEPT ![Self] = @ \cup {m}]
           /\ UNCHANGED <<mode, wanted>>
  <2>1. TypeOK'
    BY <1>0, <1>1 DEF IInv, TypeOK, lists
  <2>2. MutualExclusion'
    BY <1>0, <1>1 DEF MutualExclusion
  <2>3. EveryThreadInOnePlace' /\ AssertionsHold'
    BY <1>0, <1>1, Zenon
    DEF IInv, EveryThreadInOnePlace, AssertionsHold, OnQueue, OnWaitList, Self, lists
  <2> QED BY <2>1, <2>2, <2>3 DEF IInv
<1>2. CASE /\ locked[m] /\ mode' = "wait" /\ wanted' = m
           /\ UNCHANGED <<locked, holds>>
  <2>1. TypeOK'
    BY <1>0, <1>2 DEF IInv, TypeOK, lists
  <2>2. MutualExclusion' /\ m # None
    BY <1>0, <1>2, NoneAssumption DEF MutualExclusion
  <2>3. EveryThreadInOnePlace' /\ AssertionsHold'
    BY <1>0, <1>2, <2>2, Zenon
    DEF IInv, EveryThreadInOnePlace, AssertionsHold, OnQueue, OnWaitList, Self, lists
  <2> QED BY <2>1, <2>2, <2>3 DEF IInv
<1>3. CASE /\ m \in holds[Self]
           /\ locked' = [locked EXCEPT ![m] = FALSE]
           /\ holds' = [holds EXCEPT ![Self] = @ \ {m}]
           /\ UNCHANGED <<mode, wanted>>
  <2>1. TypeOK'
    BY <1>0, <1>3 DEF IInv, TypeOK, lists
  <2>2. MutualExclusion'
    BY <1>0, <1>3 DEF MutualExclusion
  <2>3. EveryThreadInOnePlace' /\ AssertionsHold'
    BY <1>0, <1>3, Zenon
    DEF IInv, EveryThreadInOnePlace, AssertionsHold, OnQueue, OnWaitList, Self, lists
  <2> QED BY <2>1, <2>2, <2>3 DEF IInv
<1> QED BY <1>1, <1>2, <1>3 DEF mutex_lock, mutex_unlock

\* The steps that change no list, no mutex and no holder.
LEMMA OtherInv ==
  ASSUME IInv,
         \/ arch_irq_enable \/ sched_schedule
         \/ (\E t \in Threads : RequestShutdown(t)) \/ UNCHANGED vars
  PROVE  IInv'
<1>1. /\ UNCHANGED <<lists, s_runningthread, waitingmutex, locked, life, holds, wanted, hung>>
      /\ mode' = mode \/ mode' = "schedule"
  BY DEF arch_irq_enable, sched_schedule, RequestShutdown, vars
<1>2. irq' \in [Threads -> BOOLEAN] /\ shutdown' \in [Threads -> BOOLEAN]
  BY Zenon DEF IInv, TypeOK, arch_irq_enable, sched_schedule, RequestShutdown, vars
<1>3. TypeOK'
  BY <1>1, <1>2 DEF IInv, TypeOK, lists
<1>4. EveryThreadInOnePlace'
  BY <1>1 DEF IInv, EveryThreadInOnePlace, OnQueue, OnWaitList, Self, lists
<1>5. MutualExclusion' /\ AssertionsHold'
  BY <1>1 DEF IInv, MutualExclusion, AssertionsHold, OnWaitList, Self, lists
<1> QED BY <1>3, <1>4, <1>5 DEF IInv

\* Before sched_init_boot_thread all lists are empty.
LEMMA InitInv == Init => IInv
<1> SUFFICES ASSUME Init PROVE IInv
  OBVIOUS
<1>1. TypeOK
  <2>1. /\ s_queues \in Seq(Priorities)
        /\ threads \in [Priorities -> Seq(Threads)]
        /\ s_mutexwaitthreads \in Seq(Threads)
    BY DEF Init
  <2>2. /\ opportunities \in [Priorities -> Nat]
        /\ waitingmutex \in [Threads -> Mutexes \cup {None}]
        /\ shutdown \in [Threads -> BOOLEAN] /\ locked \in [Mutexes -> BOOLEAN]
        /\ irq \in [Threads -> BOOLEAN]
        /\ life \in [Threads -> {"unborn", "live", "lost", "deleted"}]
        /\ holds \in [Threads -> SUBSET Mutexes]
    BY DEF Init
  <2> QED BY <2>1, <2>2, Zenon DEF Init, TypeOK
<1>2. DOMAIN threads = Priorities /\ (\A p \in Priorities : Len(threads[p]) = 0)
      /\ \A p \in Priorities, u \in Threads : ~OnList(threads[p], u)
  BY DEF Init, OnList
<1>3. IsInjective(s_mutexwaitthreads) /\ \A u \in Threads : ~OnList(s_mutexwaitthreads, u)
  BY DEF Init, OnList, IsInjective
<1>4. EveryThreadInOnePlace
  <2>1. AllDistinct(threads)
    BY <1>2 DEF AllDistinct
  <2>2. \A u \in Threads : ~OnQueue(u) /\ ~OnWaitList(u) /\ life[u] # "live" /\ u # Self
    BY <1>2, <1>3, NoneAssumption DEF Init, OnQueue, OnWaitList, InSome, Self
  <2> QED BY <1>3, <2>1, <2>2 DEF EveryThreadInOnePlace
<1>5. MutualExclusion /\ AssertionsHold
  BY <1>3 DEF Init, MutualExclusion, AssertionsHold, OnWaitList, Self
<1> QED BY <1>1, <1>4, <1>5 DEF IInv

\* Every step of the scheduler and of the threads keeps the invariant.
LEMMA NextInv == IInv /\ [Next]_vars => IInv'
  BY PickNextTaskInv, BootInv, CreateThreadInv, MutexInv, OtherInv DEF Next, Yield, Tick

\* The lists of the scheduler and the mutexes, for any number of threads,
\* mutexes and priorities and whatever heap_alloc answers: the parts of the
\* inductive invariant hold in every reachable state.
THEOREM Invariance == Spec => []IInv
  BY InitInv, NextInv, PTL DEF Spec

\* sched.c: no thread is ever in two lists, in a list while it runs, or alive
\* and in none of them.
THEOREM ThreadPlaces == Spec => []EveryThreadInOnePlace
<1>1. IInv => EveryThreadInOnePlace
  BY DEF IInv
<1> QED BY <1>1, Invariance, PTL

\* mutex.c: mutual exclusion, also for the mutexes that pick_next_task locks
\* on behalf of a waiting thread.
THEOREM MutexSafety == Spec => []MutualExclusion
<1>1. IInv => MutualExclusion
  BY DEF IInv
<1> QED BY <1>1, Invariance, PTL

\* The assertions of sched_wait_mutex, sched_schedule and
\* pick_next_task_from_mutex_waitlist never fail.
THEOREM Assertions == Spec => []AssertionsHold
<1>1. IInv => AssertionsHold
  BY DEF IInv
<1> QED BY <1>1, Invariance, PTL

\* A step of the scheduler leaves holds alone, or it is one thread acquiring a
\* mutex nobody holds, or releasing one.
LEMMA HoldsStep == IInv /\ [Next]_vars => [MutexPromise!Next]_holds
<1> SUFFICES ASSUME IInv, [Next]_vars, holds' # holds
             PROVE  MutexPromise!Next
  OBVIOUS
<1>1. ASSUME NEW i \in DOMAIN s_mutexwaitthreads, GrantWaiter(i) PROVE MutexPromise!Next
  <2> DEFINE t == s_mutexwaitthreads[i]
  <2>1. t \in Threads /\ OnList(s_mutexwaitthreads, t)
    BY RemoveWaiter DEF IInv, TypeOK, EveryThreadInOnePlace
  <2>2. waitingmutex[t] \in Mutexes /\ ~locked[waitingmutex[t]]
    BY <1>1, <2>1, Zenon
    DEF IInv, TypeOK, AssertionsHold, OnWaitList, GrantWaiter, FirstLockable, Lockable
  <2>3. holds' = [holds EXCEPT ![t] = @ \cup {waitingmutex[t]}]
    BY <1>1, Zenon DEF GrantWaiter
  <2>4. MutexPromise!Acquire(t, waitingmutex[t])
    BY <2>1, <2>2, <2>3 DEF IInv, MutualExclusion, MutexPromise!Acquire
  <2> QED BY <2>1, <2>2, <2>4 DEF MutexPromise!Next
<1>2. ASSUME NEW m \in Mutexes, mutex_lock(m) \/ mutex_unlock(m) PROVE MutexPromise!Next
  <2>1. Self \in Threads
    BY <1>2 DEF IInv, TypeOK, Self, UserStep, mutex_lock, mutex_unlock
  <2>2. MutexPromise!Acquire(Self, m) \/ MutexPromise!Release(Self, m)
    BY <1>2, <2>1
    DEF IInv, MutualExclusion, mutex_lock, mutex_unlock, MutexPromise!Acquire, MutexPromise!Release
  <2> QED BY <2>1, <2>2 DEF MutexPromise!Next
<1> QED
  BY <1>1, <1>2, Zenon DEF Next, PickNextTask, ReapWaiter, RunQueued, ReapQueued, EmptyQueuePicked,
     NoQueues, NothingPicked, sched_init_boot_thread, CreateThread, RequestShutdown,
     arch_irq_enable, Yield, Tick, sched_schedule, vars

\* The scheduler and mutex.c implement the abstract mutexes of MutexSpec.
THEOREM MutexRefinement == Spec => ImplementsMutexSpec
<1>1. Init => MutexPromise!Init
  BY DEF Init, MutexPromise!Init
<1> QED
  BY <1>1, HoldsStep, Invariance, PTL DEF Spec, ImplementsMutexSpec, MutexPromise!Spec
-----------------------------------------------------------------------------
(***************************************************************************)
(* The list of queues.  The invariant above says who is in a queue; this   *)
(* one says where the queues are.                                          *)
(***************************************************************************)
QueuesInv == QueueListSorted /\ OnlyBootThreadLost

\* Every thread of thr is in the queue of its priority, and that is in the list.
Filed(thr) == \A p \in Priorities : \A i \in 1..Len(thr[p]) :
                Prio[thr[p][i]] = p /\ p \in Range(s_queues)

\* Priorities can be compared.
LEMMA PrioInt == \A p \in Priorities : p \in Int
  BY PrioAssumption DEF Priorities

\* get_queue puts a queue of a new priority where the list stays ascending.  If
\* the search reaches the end of the list, the priority is larger than all: the
\* first queue that is not smaller would have ended it earlier.
LEMMA InsertedSorted ==
  ASSUME s_queues \in Seq(Priorities), \A i, j \in DOMAIN s_queues : i < j => s_queues[i] < s_queues[j],
         NEW p \in Int, p \notin Range(s_queues),
         NEW n \in 0..Len(s_queues), NewQueueAfter(p, n)
  PROVE  /\ \A i \in 1..n : s_queues[i] < p
         /\ \A i \in 1..Len(s_queues) : n < i => p < s_queues[i]
<1> DEFINE L == Len(s_queues)
<1>1. /\ L \in Nat /\ n \in 0..L /\ DOMAIN s_queues = 1..L
      /\ \A i \in 1..L : s_queues[i] \in Int /\ s_queues[i] # p
  BY ElementOfSeq, PrioInt DEF Range
<1>4. \A i, j \in 1..L : i < j => s_queues[i] < s_queues[j]
  BY <1>1
<1>5. s_queues = << >> <=> L = 0
  BY EmptySeq
<1>6. \A k : Between(p, k) <=> k = L \/ (k < L /\ s_queues[k] < p /\ p < s_queues[k + 1])
  BY DEF Between
<1>7. \/ n = 0 /\ (L # 0 => p < s_queues[1])
      \/ n # 0 /\ ~(p < s_queues[1]) /\ Between(p, n) /\ \A k \in 1..(n - 1) : ~Between(p, k)
  BY <1>5 DEF NewQueueAfter
<1> HIDE DEF L
<1>2. CASE n = 0
  <2>1. ASSUME NEW i \in 1..L PROVE p < s_queues[i]
    <3>1. p < s_queues[1] /\ 1 \in 1..L
      BY <1>1, <1>2, <1>7
    <3>2. i = 1 \/ s_queues[1] < s_queues[i]
      BY <1>1, <1>4, <3>1
    <3> QED BY <1>1, <3>1, <3>2
  <2> QED BY <1>1, <1>2, <2>1 DEF L
<1>3. CASE n # 0
  <2>1. n \in 1..L /\ ~(p < s_queues[1]) /\ Between(p, n) /\ \A k \in 1..(n - 1) : ~Between(p, k)
    BY <1>1, <1>3, <1>7
  <2>2. s_queues[n] < p
    <3> DEFINE T == {k \in 1..n : p < s_queues[k]}
    <3>1. ASSUME T # {} PROVE FALSE
      <4>1. PICK k \in T : \A l \in T : k <= l
        <5>1. T \in SUBSET Nat
          OBVIOUS
        <5> HIDE DEF T
        <5> QED BY <3>1, <5>1, NatMin
      <4>2. k # 1 /\ k \in 1..L
        BY <1>1, <2>1
      <4>3. k - 1 \in 1..n /\ k - 1 \in 1..L /\ k - 1 \notin T
        BY <1>1, <4>1, <4>2
      <4>4. s_queues[k - 1] < p
        BY <1>1, <4>3
      <4>5. Between(p, k - 1)
        <5>1. (k - 1) + 1 = k /\ k - 1 < L
          BY <1>1, <4>2
        <5> QED BY <1>6, <4>1, <4>4, <5>1
      <4>6. k - 1 \in 1..(n - 1)
        BY <4>2, <4>3
      <4> QED BY <2>1, <4>5, <4>6
    <3> QED BY <1>1, <2>1, <3>1
  <2>3. ASSUME NEW i \in 1..n PROVE s_queues[i] < p
    <3>1. i = n \/ s_queues[i] < s_queues[n]
      BY <1>1, <1>4, <2>1
    <3> QED BY <1>1, <2>1, <2>2, <3>1
  <2>4. ASSUME NEW i \in 1..L, n < i PROVE p < s_queues[i]
    <3>1. n < L /\ n # L /\ n + 1 \in 1..L
      BY <1>1, <2>1, <2>4
    <3>2. p < s_queues[n + 1]
      BY <1>6, <2>1, <3>1
    <3>3. i = n + 1 \/ s_queues[n + 1] < s_queues[i]
      BY <1>1, <1>4, <2>1, <2>4, <3>1
    <3> QED BY <1>1, <3>1, <3>2, <3>3
  <2> QED BY <2>3, <2>4 DEF L
<1> QED BY <1>2, <1>3

\* sched_queue keeps the list ascending, and files the thread.
LEMMA QueuedSorted ==
  ASSUME TypeOK, QueueListSorted, NEW t \in Threads, NEW ok,
         NEW thr \in [Priorities -> Seq(Threads)], Filed(thr), sched_queue(t, thr, ok)
  PROVE  /\ \A i, j \in DOMAIN s_queues' : i < j => s_queues'[i] < s_queues'[j]
         /\ Range(s_queues) \subseteq Range(s_queues')
         /\ CanQueue(t, ok) => Prio[t] \in Range(s_queues')
         /\ Filed(threads)'
<1> DEFINE p == Prio[t]
           L == Len(s_queues)
<1>0. p \in Priorities /\ p \in Int
  BY PrioType, PrioInt
<1>1. /\ s_queues \in Seq(Priorities) /\ L \in Nat /\ DOMAIN s_queues = 1..L
      /\ \A i \in 1..L : s_queues[i] \in Int
  BY ElementOfSeq, PrioInt DEF TypeOK
<1>4. \A i, j \in 1..L : i < j => s_queues[i] < s_queues[j]
  <2>1. \A i, j \in DOMAIN s_queues : i < j => s_queues[i] < s_queues[j]
    BY DEF QueueListSorted
  <2>2. DOMAIN s_queues = 1..L
    BY <1>1
  <2> HIDE DEF L
  <2> QED BY <2>1, <2>2, Zenon
<1> HIDE DEF p, L
<1>2. /\ \A i, j \in DOMAIN s_queues' : i < j => s_queues'[i] < s_queues'[j]
      /\ Range(s_queues) \subseteq Range(s_queues')
      /\ CanQueue(t, ok) => p \in Range(s_queues')
  <2>1. CASE s_queues' = s_queues /\ (p \in Range(s_queues) \/ ~ok)
    BY <2>1, Zenon DEF QueueListSorted, CanQueue, p
  <2>2. ASSUME p \notin Range(s_queues), NEW n \in 0..L, NewQueueAfter(p, n),
               s_queues' = WithNode(s_queues, n + 1, p)
        PROVE  /\ \A i, j \in DOMAIN s_queues' : i < j => s_queues'[i] < s_queues'[j]
               /\ Range(s_queues) \subseteq Range(s_queues')
               /\ p \in Range(s_queues')
    <3> DEFINE new == WithNode(s_queues, n + 1, p)
    <3>1. /\ new \in Seq(Priorities) /\ Len(new) = L + 1
          /\ \A i \in 1..(L + 1) : new[i] =
               IF i <= n THEN s_queues[i] ELSE IF i = n + 1 THEN p ELSE s_queues[i - 1]
      <4>1. p \in Priorities /\ n \in 0..Len(s_queues) /\ s_queues \in Seq(Priorities)
        BY <1>0, <1>1 DEF L
      <4>2. /\ new \in Seq(Priorities) /\ Len(new) = Len(s_queues) + 1
            /\ \A i \in 1..(Len(s_queues) + 1) : new[i] =
                 IF i <= n THEN s_queues[i] ELSE IF i = n + 1 THEN p ELSE s_queues[i - 1]
        BY <4>1, PutNode
      <4> QED BY <4>2, Zenon DEF L
    <3>2. DOMAIN new = 1..(L + 1)
      BY <1>1, <3>1
    <3>3. /\ \A i \in 1..n : s_queues[i] < p
          /\ \A i \in 1..L : n < i => p < s_queues[i]
      BY <1>0, <1>1, <2>2, InsertedSorted DEF QueueListSorted, L
    <3> HIDE DEF new
    <3>4. ASSUME NEW i \in 1..(L + 1), NEW j \in 1..(L + 1), i < j PROVE new[i] < new[j]
      <4>1. CASE j <= n
        <5>1. i \in 1..L /\ j \in 1..L /\ i <= n
          BY <1>1, <3>4, <4>1
        <5>2. s_queues[i] < s_queues[j]
          BY <1>1, <1>4, <3>4, <5>1
        <5> QED BY <3>1, <4>1, <5>1, <5>2
      <4>2. CASE j = n + 1
        <5>1. i \in 1..n /\ ~(j <= n)
          BY <1>1, <3>4, <4>2
        <5> QED BY <1>1, <3>1, <3>3, <4>2, <5>1
      <4>3. CASE j > n + 1 /\ i <= n
        <5>1. i \in 1..n /\ i \in 1..L /\ j - 1 \in 1..L
              /\ ~(j <= n) /\ j # n + 1 /\ i < j - 1
          BY <1>1, <3>4, <4>3
        <5>2. s_queues[i] < s_queues[j - 1]
          BY <1>1, <5>1, <1>4
        <5> QED BY <3>1, <5>1, <5>2
      <4>4. CASE j > n + 1 /\ i = n + 1
        <5>1. ~(i <= n) /\ j - 1 \in 1..L /\ n < j - 1 /\ ~(j <= n) /\ j # n + 1
          BY <1>1, <3>4, <4>4
        <5>2. new[i] = p /\ new[j] = s_queues[j - 1] /\ p < s_queues[j - 1]
          BY <3>1, <3>3, <3>4, <4>4, <5>1
        <5> QED BY <5>2
      <4>5. CASE j > n + 1 /\ i > n + 1
        <5>1. /\ i - 1 \in 1..L /\ j - 1 \in 1..L /\ i - 1 < j - 1
              /\ ~(i <= n) /\ i # n + 1 /\ ~(j <= n) /\ j # n + 1
          BY <1>1, <3>4, <4>5
        <5>2. s_queues[i - 1] < s_queues[j - 1]
          BY <1>1, <5>1, <1>4
        <5> QED BY <3>1, <5>1, <5>2
      <4>6. j <= n \/ j = n + 1 \/ (j > n + 1 /\ (i <= n \/ i = n + 1 \/ i > n + 1))
        BY <1>1
      <4> QED BY <4>1, <4>2, <4>3, <4>4, <4>5, <4>6
    <3>5. p \in Range(new)
      <4>1. n + 1 \in 1..(L + 1) /\ ~(n + 1 <= n)
        BY <1>1
      <4>2. new[n + 1] = p
        BY <3>1, <4>1
      <4> QED BY <3>2, <4>1, <4>2 DEF Range
    <3>6. ASSUME NEW i \in 1..L PROVE s_queues[i] \in Range(new)
      <4>1. CASE i <= n
        <5>1. i \in 1..(L + 1)
          BY <1>1
        <5>2. new[i] = s_queues[i]
          BY <3>1, <4>1, <5>1
        <5> QED BY <3>2, <5>1, <5>2 DEF Range
      <4>2. CASE ~(i <= n)
        <5>1. i + 1 \in 1..(L + 1) /\ ~(i + 1 <= n) /\ i + 1 # n + 1 /\ (i + 1) - 1 = i
          BY <1>1, <4>2
        <5>2. new[i + 1] = s_queues[i]
          BY <3>1, <5>1
        <5> QED BY <3>2, <5>1, <5>2 DEF Range
      <4> QED BY <4>1, <4>2
    <3>7. Range(s_queues) \subseteq Range(new)
      BY <1>1, <3>6 DEF Range
    <3>8. s_queues' = new
      BY <2>2 DEF new
    <3> QED BY <3>2, <3>4, <3>5, <3>7, <3>8
  <2> QED BY <2>1, <2>2 DEF sched_queue, p, L
<1>3. Filed(threads)'
  <2> SUFFICES ASSUME NEW q \in Priorities, NEW i \in 1..Len(threads'[q])
               PROVE  Prio[threads'[q][i]] = q /\ q \in Range(s_queues')
    BY DEF Filed
  <2>1. CASE ~CanQueue(t, ok) \/ q # p
    <3>1. threads'[q] = thr[q]
      BY <2>1 DEF sched_queue, p
    <3> QED BY <1>2, <3>1 DEF Filed
  <2>2. CASE CanQueue(t, ok) /\ q = p
    <3>1. threads'[q] = <<t>> \o thr[q]
      BY <2>2 DEF sched_queue, p
    <3>2. /\ Len(thr[q]) \in Nat
          /\ Len(<<t>> \o thr[q]) = Len(thr[q]) + 1
          /\ (<<t>> \o thr[q])[1] = t
          /\ \A k \in 2..(Len(thr[q]) + 1) : (<<t>> \o thr[q])[k] = thr[q][k - 1]
      BY PushFront
    <3>3. CASE i = 1
      BY <1>2, <2>2, <3>1, <3>2, <3>3, Zenon DEF p
    <3>4. CASE i # 1
      <4>1. i \in 2..(Len(thr[q]) + 1) /\ i - 1 \in 1..Len(thr[q])
        BY <3>1, <3>2, <3>4
      <4>2. threads'[q][i] = thr[q][i - 1]
        BY <3>1, <3>2, <4>1
      <4> QED BY <1>2, <4>1, <4>2 DEF Filed
    <3> QED BY <3>3, <3>4
  <2> QED BY <2>1, <2>2
<1> QED BY <1>2, <1>3 DEF p

\* SwitchTo: the running thread is queued, unless it is the boot thread and
\* there is no memory for its queue.
LEMMA SwitchSorted ==
  ASSUME IInv, QueuesInv, Self \in Threads, NEW next, NEW wl, NEW wm,
         NEW thr \in [Priorities -> Seq(Threads)], Filed(thr), SwitchTo(next, wl, wm, thr)
  PROVE  QueuesInv'
<1>1. life \in [Threads -> {"unborn", "live", "lost", "deleted"}] /\ life[Self] = "live"
  BY DEF IInv, TypeOK, EveryThreadInOnePlace
<1>2. ASSUME NEW ok \in HeapResults, sched_queue(Self, thr, ok),
             life' = IF CanQueue(Self, ok) THEN life ELSE [life EXCEPT ![Self] = "lost"]
      PROVE  QueuesInv'
  <2>1. /\ \A i, j \in DOMAIN s_queues' : i < j => s_queues'[i] < s_queues'[j]
        /\ Range(s_queues) \subseteq Range(s_queues')
        /\ CanQueue(Self, ok) => Prio[Self] \in Range(s_queues')
        /\ Filed(threads)'
    BY <1>2, QueuedSorted DEF IInv, QueuesInv
  <2>2. Self # Boot => CanQueue(Self, ok)
    BY <1>1 DEF QueuesInv, QueueListSorted, CanQueue
  <2>3. \A t \in Threads : life'[t] = "live" => life[t] = "live"
    BY <1>1, <1>2
  <2>4. \A t \in Threads : life'[t] = "lost" => life[t] = "lost" \/ t = Boot
    BY <1>1, <1>2, <2>2
  <2>5. QueueListSorted'
    BY <2>1, <2>3, Zenon DEF QueuesInv, QueueListSorted, Filed
  <2>6. OnlyBootThreadLost'
    BY <2>4, Zenon DEF QueuesInv, OnlyBootThreadLost
  <2> QED BY <2>5, <2>6 DEF QueuesInv
<1>3. ASSUME threads' = thr, UNCHANGED <<s_queues, life>>
      PROVE  QueuesInv'
  BY <1>3 DEF QueuesInv, QueueListSorted, OnlyBootThreadLost, Filed
<1> QED BY <1>2, <1>3 DEF SwitchTo, Self

\* Taking a thread from the back of a queue leaves the others where they are.
LEMMA PopFiled ==
  ASSUME TypeOK, QueueListSorted, NEW q \in Priorities, threads[q] # << >>
  PROVE  /\ [threads EXCEPT ![q] = WithoutBack(@)] \in [Priorities -> Seq(Threads)]
         /\ Filed([threads EXCEPT ![q] = WithoutBack(@)])
         /\ Back(threads[q]) \in Threads
<1> DEFINE thr == [threads EXCEPT ![q] = WithoutBack(@)]
<1>1. threads \in [Priorities -> Seq(Threads)]
  BY DEF TypeOK
<1>2. /\ WithoutBack(threads[q]) \in Seq(Threads)
      /\ Len(WithoutBack(threads[q])) = Len(threads[q]) - 1
      /\ \A i \in 1..(Len(threads[q]) - 1) : WithoutBack(threads[q])[i] = threads[q][i]
      /\ Back(threads[q]) \in Threads /\ Len(threads[q]) \in Nat \ {0}
  <2>1. threads[q] \in Seq(Threads)
    BY <1>1
  <2> QED BY <2>1, TakeBack, Zenon
<1>3. /\ thr \in [Priorities -> Seq(Threads)]
      /\ thr[q] = WithoutBack(threads[q])
      /\ \A p \in Priorities : p # q => thr[p] = threads[p]
  BY <1>1, <1>2
<1> HIDE DEF thr
<1>4. ASSUME NEW p \in Priorities, NEW i \in 1..Len(thr[p])
      PROVE  Prio[thr[p][i]] = p /\ p \in Range(s_queues)
  <2>1. i \in 1..Len(threads[p]) /\ thr[p][i] = threads[p][i]
    <3>1. CASE p = q
      BY <1>2, <1>3, <3>1
    <3>2. CASE p # q
      BY <1>3, <3>2
    <3> QED BY <3>1, <3>2
  <2> QED BY <2>1 DEF QueueListSorted
<1> QED BY <1>2, <1>3, <1>4 DEF Filed, thr

\* A step that leaves the queues alone and revives no thread.
LEMMA QueuesKept ==
  ASSUME QueuesInv, UNCHANGED <<s_queues, threads>>,
         \A t \in Threads : /\ life'[t] = "live" => life[t] = "live" \/ t = Boot
                            /\ life'[t] = "lost" => life[t] = "lost"
  PROVE  QueuesInv'
<1>1. \A i, j \in DOMAIN s_queues' : i < j => s_queues'[i] < s_queues'[j]
  BY DEF QueuesInv, QueueListSorted
<1>2. \A p \in Priorities : \A i \in 1..Len(threads'[p]) :
        Prio[threads'[p][i]] = p /\ p \in Range(s_queues')
  BY DEF QueuesInv, QueueListSorted
<1>3. \A t \in Threads : t # Boot /\ life'[t] = "live" => Prio[t] \in Range(s_queues')
  <2>1. \A t \in Threads : t # Boot /\ life[t] = "live" => Prio[t] \in Range(s_queues)
    BY DEF QueuesInv, QueueListSorted
  <2> QED BY <2>1
<1>4. OnlyBootThreadLost'
  BY DEF QueuesInv, OnlyBootThreadLost
<1> QED BY <1>1, <1>2, <1>3, <1>4 DEF QueuesInv, QueueListSorted

\* A thread that is created is live once it is in the queue of its priority.
LEMMA CreateSorted ==
  ASSUME IInv, QueuesInv, NEW t \in Threads, CreateThread(t)
  PROVE  QueuesInv'
<1>0. /\ life \in [Threads -> {"unborn", "live", "lost", "deleted"}]
      /\ threads \in [Priorities -> Seq(Threads)]
      /\ Filed(threads)
  BY DEF IInv, TypeOK, QueuesInv, QueueListSorted, Filed
<1>1. PICK ok \in HeapResults :
        /\ sched_queue(t, threads, ok)
        /\ life' = [life EXCEPT ![t] = IF CanQueue(t, ok) THEN "live" ELSE "deleted"]
  BY Zenon DEF CreateThread
<1>2. /\ \A i, j \in DOMAIN s_queues' : i < j => s_queues'[i] < s_queues'[j]
      /\ Range(s_queues) \subseteq Range(s_queues')
      /\ CanQueue(t, ok) => Prio[t] \in Range(s_queues')
      /\ Filed(threads)'
  BY <1>0, <1>1, QueuedSorted DEF IInv, QueuesInv
<1>3. \A u \in Threads : /\ life'[u] = "live" => life[u] = "live" \/ (u = t /\ CanQueue(t, ok))
                         /\ life'[u] = "lost" => life[u] = "lost"
  BY <1>0, <1>1
<1>4. \A u \in Threads : u # Boot /\ life'[u] = "live" => Prio[u] \in Range(s_queues')
  <2>1. \A u \in Threads : u # Boot /\ life[u] = "live" => Prio[u] \in Range(s_queues)
    BY DEF QueuesInv, QueueListSorted
  <2> QED BY <1>2, <1>3, <2>1, Zenon
<1>5. QueueListSorted'
  BY <1>2, <1>4 DEF QueueListSorted, Filed
<1> QED BY <1>3, <1>5 DEF QueuesInv, OnlyBootThreadLost

\* Only get_queue changes the list of queues.
LEMMA QueuesNext == IInv /\ QueuesInv /\ [Next]_vars => QueuesInv'
<1> SUFFICES ASSUME IInv, QueuesInv, [Next]_vars PROVE QueuesInv'
  OBVIOUS
<1>0. /\ life \in [Threads -> {"unborn", "live", "lost", "deleted"}]
      /\ threads \in [Priorities -> Seq(Threads)]
      /\ Filed(threads)
  BY DEF IInv, TypeOK, QueuesInv, QueueListSorted, Filed
<1>1. ASSUME NEW i \in DOMAIN s_mutexwaitthreads, GrantWaiter(i) PROVE QueuesInv'
  <2>1. Self \in Threads
    <3>1. s_mutexwaitthreads \in Seq(Threads) /\ i \in 1..Len(s_mutexwaitthreads)
      BY DEF IInv, TypeOK
    <3>2. s_mutexwaitthreads[i] \in Threads /\ OnWaitList(s_mutexwaitthreads[i])
      BY <3>1, RemoveWaiter DEF IInv, EveryThreadInOnePlace, OnWaitList
    <3> QED BY <3>2, LoopHasSelf
  <2>2. SwitchTo(s_mutexwaitthreads[i], WithoutNode(s_mutexwaitthreads, i),
                 [waitingmutex EXCEPT ![s_mutexwaitthreads[i]] = None], threads)
    BY <1>1 DEF GrantWaiter
  <2> QED BY <1>0, <2>1, <2>2, SwitchSorted
<1>2. ASSUME NEW i \in DOMAIN s_mutexwaitthreads, ReapWaiter(i) PROVE QueuesInv'
  <2>1. /\ UNCHANGED <<s_queues, threads>>
        /\ life' = [life EXCEPT ![s_mutexwaitthreads[i]] = "deleted"]
    BY <1>2 DEF ReapWaiter
  <2> QED BY <1>0, <2>1, QueuesKept
<1>3. ASSUME NEW i \in DOMAIN s_queues, RunQueued(i) PROVE QueuesInv'
  <2> DEFINE q == s_queues[i]
             thr == [threads EXCEPT ![q] = WithoutBack(@)]
  <2>1. q \in Priorities /\ threads[q] # << >>
        /\ SwitchTo(Back(threads[q]), s_mutexwaitthreads, waitingmutex, thr)
    BY <1>3, SelectQueueType DEF IInv, RunQueued
  <2>2. thr \in [Priorities -> Seq(Threads)] /\ Filed(thr)
    BY <2>1, PopFiled DEF IInv, QueuesInv
  <2>3. Self \in Threads
    <3> HIDE DEF q
    <3>1. thr[q] = WithoutBack(threads[q]) /\ \A p \in Priorities : p # q => thr[p] = threads[p]
      BY <1>0, <2>1
    <3> HIDE DEF thr
    <3>2. Back(threads[q]) \in Threads /\ OnQueue(Back(threads[q]))
      BY <1>0, <2>1, <2>2, <3>1, PopQueue, Zenon DEF IInv, EveryThreadInOnePlace, OnQueue
    <3> QED BY <3>2, LoopHasSelf
  <2> HIDE DEF q, thr
  <2> QED BY <2>1, <2>2, <2>3, SwitchSorted
<1>4. ASSUME NEW i \in DOMAIN s_queues, ReapQueued(i) PROVE QueuesInv'
  <2> DEFINE q == s_queues[i]
             thr == [threads EXCEPT ![q] = WithoutBack(@)]
  <2>1. q \in Priorities /\ threads[q] # << >> /\ threads' = thr /\ s_queues' = s_queues
        /\ life' = [life EXCEPT ![Back(threads[q])] = "deleted"]
    BY <1>4, SelectQueueType DEF IInv, ReapQueued
  <2> HIDE DEF q
  <2>2. Filed(thr) /\ Back(threads[q]) \in Threads
    BY <2>1, PopFiled, Zenon DEF IInv, QueuesInv
  <2>3. \A t \in Threads : /\ life'[t] = "live" => life[t] = "live"
                           /\ life'[t] = "lost" => life[t] = "lost"
    BY <1>0, <2>1, <2>2
  <2> HIDE DEF q, thr
  <2> QED BY <2>1, <2>2, <2>3, Zenon DEF QueuesInv, QueueListSorted, OnlyBootThreadLost, Filed
<1>5. CASE (\E i \in DOMAIN s_queues : EmptyQueuePicked(i)) \/ NoQueues
  BY <1>5, QueuesKept DEF EmptyQueuePicked, NoQueues, NothingPicked
<1>6. CASE sched_init_boot_thread
  <2>1. UNCHANGED <<s_queues, threads>> /\ life' = [life EXCEPT ![Boot] = "live"]
    BY <1>6 DEF sched_init_boot_thread, lists
  <2> QED BY <1>0, <2>1, QueuesKept
<1>7. ASSUME NEW t \in Threads, CreateThread(t) PROVE QueuesInv'
  BY <1>7, CreateSorted
<1>8. CASE \/ \E t \in Threads : RequestShutdown(t)
           \/ \E m \in Mutexes : mutex_lock(m) \/ mutex_unlock(m)
           \/ arch_irq_enable \/ sched_schedule \/ UNCHANGED vars
  <2>1. UNCHANGED <<s_queues, threads, life>>
    BY <1>8, Zenon DEF RequestShutdown, mutex_lock, mutex_unlock, arch_irq_enable, sched_schedule,
       vars, lists
  <2> QED BY <2>1, QueuesKept
<1> QED BY <1>1, <1>2, <1>3, <1>4, <1>5, <1>6, <1>7, <1>8 DEF Next, PickNextTask, Yield, Tick

\* sched.c: get_queue keeps the list of queues sorted, every thread is in the
\* queue of its priority, and sched_schedule loses no thread but the boot thread,
\* whatever heap_alloc answers.
THEOREM QueueSafety == Spec => []QueuesSound
<1>1. Init => QueuesInv
  <2> SUFFICES ASSUME Init PROVE QueuesInv
    OBVIOUS
  <2>1. /\ DOMAIN s_queues = {} /\ \A p \in Priorities : Len(threads[p]) = 0
    BY DEF Init
  <2>2. \A t \in Threads : life[t] = "unborn"
    BY DEF Init
  <2> QED BY <2>1, <2>2 DEF QueuesInv, QueueListSorted, OnlyBootThreadLost
<1>2. IInv /\ QueuesInv => QueuesSound
  BY DEF IInv, QueuesInv, QueuesSound
<1> QED BY <1>1, <1>2, Invariance, QueuesNext, PTL DEF Spec
=============================================================================
