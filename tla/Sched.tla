------------------------------- MODULE Sched -------------------------------
(***************************************************************************)
(* The scheduler and the mutexes of the kernel: kernel/tasks/sched.c,      *)
(* mutex.c and thread.c, the timer interrupt that preempts threads         *)
(* (arch/i586/pit.c) and the way threads use them.                         *)
(*                                                                         *)
(* One CPU.  Code that runs with interrupts disabled is atomic, except     *)
(* that every round of the loop in pick_next_task is a step of its own:    *)
(* `mode' says that such a loop is running, and on whose behalf.           *)
(***************************************************************************)
EXTENDS Integers, Sequences, Functions

CONSTANTS
  Threads,      \* the struct thread objects that may ever exist
  Boot,         \* the thread sched_init_boot_thread makes
  Mutexes,      \* the struct mutex objects
  Prio,         \* thread -> its priority field
  HeapResults,  \* the outcomes of heap_alloc in alloc_queue: {TRUE} or BOOLEAN
  None          \* nullptr

ASSUME BootAssumption == Boot \in Threads
ASSUME PrioAssumption == Prio \in [Threads -> Int]
ASSUME HeapAssumption == HeapResults \subseteq BOOLEAN /\ TRUE \in HeapResults
ASSUME NoneAssumption == None \notin Threads \cup Mutexes \cup Int

VARIABLES
  s_queues,           \* the priorities of the queue list, front first
  opportunities,      \* priority -> opportunities left
  threads,            \* priority -> the queue's threads, front first
  s_current_queue,    \* priority of s_current_queue_node, or None
  s_runningthread,
  s_mutexwaitthreads, \* front first
  waitingmutex,       \* thread -> the mutex it waits for, or None
  shutdown,           \* thread -> its shutdown flag
  locked,             \* mutex -> its locked flag
  irq,                \* thread -> whether it runs with interrupts enabled
  life,               \* thread -> unborn, live, lost (in no list) or deleted
  holds,              \* thread -> mutexes its lock calls have returned with
  mode,               \* user, or the caller of the pick_next_task loop
  wanted,             \* the mutex argument of sched_wait_mutex
  hung                \* sched_wait_mutex entered its endless loop

\* list.c on the sequence of a list: the last element, list_remove_back,
\* list_remove_node of element i, list_insert_front or list_insert_after so that
\* the new element becomes element i, and whether an element is in the list.
Back(s) == s[Len(s)]
WithoutBack(s) == SubSeq(s, 1, Len(s) - 1)
WithoutNode(s, i) == SubSeq(s, 1, i - 1) \o SubSeq(s, i + 1, Len(s))
WithNode(s, i, e) == SubSeq(s, 1, i - 1) \o <<e>> \o SubSeq(s, i, Len(s))
OnList(s, e) == \E i \in 1..Len(s) : s[i] = e

lists == <<s_queues, opportunities, threads, s_current_queue, s_mutexwaitthreads>>
vars == <<lists, s_runningthread, waitingmutex, shutdown, locked, irq, life,
          holds, mode, wanted, hung>>

Priorities == {Prio[t] : t \in Threads}

Init ==
  /\ s_queues = << >>
  /\ opportunities = [p \in Priorities |-> 0]
  /\ threads = [p \in Priorities |-> << >>]
  /\ s_current_queue = None
  /\ s_runningthread = None
  /\ s_mutexwaitthreads = << >>
  /\ waitingmutex = [t \in Threads |-> None]
  /\ shutdown = [t \in Threads |-> FALSE]
  /\ locked = [m \in Mutexes |-> FALSE]
  /\ irq = [t \in Threads |-> FALSE]
  /\ life = [t \in Threads |-> "unborn"]
  /\ holds = [t \in Threads |-> {}]
  /\ mode = "user"
  /\ wanted = None
  /\ hung = FALSE

-----------------------------------------------------------------------------
(***************************************************************************)
(* The queue list.                                                         *)
(***************************************************************************)

\* get_queue: a queue of priority p is not in the list, and goes after the
\* first n queues of it.
Between(p, n) == \/ n = Len(s_queues)
                 \/ n < Len(s_queues) /\ s_queues[n] < p /\ p < s_queues[n + 1]
\* Fault: the list is taken to end where p is larger.
NewQueueAfter_append(p, n) == n = Len(s_queues)
NewQueueAfter(p, n) ==
  \/ n = 0 /\ (s_queues # << >> => p < s_queues[1])
  \/ /\ n # 0 /\ ~(p < s_queues[1])
     /\ Between(p, n)
     /\ \A k \in 1..(n - 1) : ~Between(p, k)

\* The queue exists, or heap_alloc succeeds in alloc_queue.
\* Fault: the list is not searched, a queue is allocated every time.
CanQueue_alwaysAllocating(t, ok) == ok
CanQueue(t, ok) == Prio[t] \in Range(s_queues) \/ ok

\* Fault: the thread goes to the end it is taken from.
sched_queue_back(t, thr, ok) ==
  /\ threads' = IF CanQueue(t, ok) THEN [thr EXCEPT ![Prio[t]] = @ \o <<t>>] ELSE thr
  /\ \/ /\ Prio[t] \in Range(s_queues) \/ ~ok
        /\ s_queues' = s_queues
     \/ /\ Prio[t] \notin Range(s_queues) /\ ok
        /\ \E n \in 0..Len(s_queues) :
             /\ NewQueueAfter(Prio[t], n)
             /\ s_queues' = WithNode(s_queues, n + 1, Prio[t])
\* sched_queue(t): put t at the front of its queue, which may have to be
\* allocated.  `thr' is the value of threads the call starts from.
sched_queue(t, thr, ok) ==
  /\ threads' = IF CanQueue(t, ok) THEN [thr EXCEPT ![Prio[t]] = <<t>> \o @] ELSE thr
  /\ \/ /\ Prio[t] \in Range(s_queues) \/ ~ok
        /\ s_queues' = s_queues
     \/ /\ Prio[t] \notin Range(s_queues) /\ ok
        /\ \E n \in 0..Len(s_queues) :
             /\ NewQueueAfter(Prio[t], n)
             /\ s_queues' = WithNode(s_queues, n + 1, Prio[t])

\* pick_next_queue visits the queues after the current one, then those from
\* the front on, and takes the first that has a thread and an opportunity.
Selectable(i) == /\ s_queues[i] # s_current_queue
                 /\ opportunities[s_queues[i]] # 0
                 /\ threads[s_queues[i]] # << >>
VisitTime(i) == IF \A k \in DOMAIN s_queues : s_queues[k] = s_current_queue => k < i
                THEN i ELSE i + Len(s_queues)
NoneSelectable == \A i \in DOMAIN s_queues : ~Selectable(i)

\* The queue at i is selected.  If no queue will do it is the front one,
\* whether or not it has a thread.
Selected(i) ==
  \/ /\ Selectable(i)
     /\ \A j \in DOMAIN s_queues : Selectable(j) => VisitTime(i) <= VisitTime(j)
  \/ NoneSelectable /\ i = 1

\* reset_queues: one opportunity for the front queue, two for the next...
reset_queues ==
  [p \in Priorities |->
     IF p \in Range(s_queues)
     THEN CHOOSE i \in DOMAIN s_queues : s_queues[i] = p
     ELSE opportunities[p]]

Opportunities == IF NoneSelectable THEN reset_queues ELSE opportunities

-----------------------------------------------------------------------------
(***************************************************************************)
(* The loop of pick_next_task, and what its callers do with the result.    *)
(***************************************************************************)

\* thread_switch, after sched_schedule has queued the running thread or
\* sched_wait_mutex has put it on the wait list.  The arguments are the
\* lists as pick_next_task left them.
SwitchTo(next, wl, wm, thr) ==
  /\ s_runningthread' = next
  /\ mode' = "user"
  /\ wanted' = None
  /\ \/ /\ mode = "schedule"
        /\ s_mutexwaitthreads' = wl
        /\ waitingmutex' = wm
        /\ \E ok \in HeapResults :
             /\ sched_queue(s_runningthread, thr, ok)
             /\ life' = IF CanQueue(s_runningthread, ok) THEN life
                        ELSE [life EXCEPT ![s_runningthread] = "lost"]
     \/ /\ mode = "wait"
        /\ s_mutexwaitthreads' = <<s_runningthread>> \o wl
        /\ waitingmutex' = [wm EXCEPT ![s_runningthread] = wanted]
        /\ threads' = thr
        /\ UNCHANGED <<s_queues, life>>
  /\ UNCHANGED <<shutdown, irq, hung>>

Lockable(i) == ~locked[waitingmutex[s_mutexwaitthreads[i]]]
\* Faults: the mutex is not tried; the back of the list is not visited.
FirstLockable_untried(i) == i = 1
FirstLockable_shortScan(i) ==
  i < Len(s_mutexwaitthreads) /\ Lockable(i) /\ \A j \in 1..(i - 1) : ~Lockable(j)
FirstLockable(i) == Lockable(i) /\ \A j \in 1..(i - 1) : ~Lockable(j)
NoneLockable == \A i \in DOMAIN s_mutexwaitthreads : ~FirstLockable(i)

\* Faults: the waiter stays on the list; it keeps its waitingmutex.
GrantWaiter_notRemoved(i) ==
  LET t == s_mutexwaitthreads[i] IN
  /\ mode # "user"
  /\ FirstLockable(i)
  /\ ~shutdown[t]
  /\ locked' = [locked EXCEPT ![waitingmutex[t]] = TRUE]
  /\ holds' = [holds EXCEPT ![t] = @ \cup {waitingmutex[t]}]
  /\ SwitchTo(t, s_mutexwaitthreads, [waitingmutex EXCEPT ![t] = None], threads)
  /\ UNCHANGED <<opportunities, s_current_queue>>
GrantWaiter_notReset(i) ==
  LET t == s_mutexwaitthreads[i] IN
  /\ mode # "user"
  /\ FirstLockable(i)
  /\ ~shutdown[t]
  /\ locked' = [locked EXCEPT ![waitingmutex[t]] = TRUE]
  /\ holds' = [holds EXCEPT ![t] = @ \cup {waitingmutex[t]}]
  /\ SwitchTo(t, WithoutNode(s_mutexwaitthreads, i), waitingmutex, threads)
  /\ UNCHANGED <<opportunities, s_current_queue>>
\* A waiter gets its mutex and the CPU.
GrantWaiter(i) ==
  LET t == s_mutexwaitthreads[i] IN
  /\ mode # "user"
  /\ FirstLockable(i)
  /\ ~shutdown[t]
  /\ locked' = [locked EXCEPT ![waitingmutex[t]] = TRUE]
  /\ holds' = [holds EXCEPT ![t] = @ \cup {waitingmutex[t]}]
  /\ SwitchTo(t, WithoutNode(s_mutexwaitthreads, i),
              [waitingmutex EXCEPT ![t] = None], threads)
  /\ UNCHANGED <<opportunities, s_current_queue>>

\* A waiter that was told to shut down takes the mutex, gives it back and
\* is deleted; the loop goes on.
ReapWaiter(i) ==
  LET t == s_mutexwaitthreads[i] IN
  /\ mode # "user"
  /\ FirstLockable(i)
  /\ shutdown[t]
  /\ s_mutexwaitthreads' = WithoutNode(s_mutexwaitthreads, i)
  /\ waitingmutex' = [waitingmutex EXCEPT ![t] = None]
  /\ life' = [life EXCEPT ![t] = "deleted"]
  /\ UNCHANGED <<s_queues, opportunities, threads, s_current_queue,
                 s_runningthread, shutdown, locked, irq, holds, mode, wanted, hung>>

\* No waiter can have its mutex: select queue q.
SelectQueue(i) ==
  LET q == s_queues[i] IN
  /\ mode # "user"
  /\ NoneLockable
  /\ Selected(i)
  /\ s_current_queue' = q
  /\ opportunities' = [Opportunities EXCEPT ![q] = @ - 1]

RunQueued(i) ==
  LET q == s_queues[i] IN
  /\ SelectQueue(i)
  /\ threads[q] # << >>
  /\ ~shutdown[Back(threads[q])]
  /\ SwitchTo(Back(threads[q]), s_mutexwaitthreads, waitingmutex,
              [threads EXCEPT ![q] = WithoutBack(@)])
  /\ UNCHANGED <<locked, holds>>

ReapQueued(i) ==
  LET q == s_queues[i] IN
  /\ SelectQueue(i)
  /\ threads[q] # << >>
  /\ shutdown[Back(threads[q])]
  /\ threads' = [threads EXCEPT ![q] = WithoutBack(@)]
  /\ life' = [life EXCEPT ![Back(threads[q])] = "deleted"]
  /\ UNCHANGED <<s_queues, s_mutexwaitthreads, s_runningthread, waitingmutex,
                 shutdown, locked, irq, holds, mode, wanted, hung>>

\* pick_next_task returns nullptr: sched_schedule returns to its caller,
\* sched_wait_mutex loops for ever with interrupts disabled.
NothingPicked ==
  /\ mode' = "user"
  /\ wanted' = None
  /\ hung' = (mode = "wait")
  /\ UNCHANGED <<s_queues, threads, s_mutexwaitthreads, s_runningthread,
                 waitingmutex, shutdown, locked, irq, life, holds>>

EmptyQueuePicked(i) == SelectQueue(i) /\ threads[s_queues[i]] = << >> /\ NothingPicked

NoQueues ==
  /\ mode # "user"
  /\ NoneLockable
  /\ s_queues = << >>
  /\ NothingPicked
  /\ UNCHANGED <<opportunities, s_current_queue>>

PickNextTask ==
  \/ \E i \in DOMAIN s_mutexwaitthreads : GrantWaiter(i) \/ ReapWaiter(i)
  \/ \E i \in DOMAIN s_queues : RunQueued(i) \/ ReapQueued(i) \/ EmptyQueuePicked(i)
  \/ NoQueues

-----------------------------------------------------------------------------
(***************************************************************************)
(* What the running thread, and the timer interrupt, do.                   *)
(***************************************************************************)
Self == s_runningthread
UserStep == mode = "user" /\ ~hung /\ Self # None

sched_init_boot_thread ==
  /\ mode = "user"
  /\ Self = None
  /\ s_runningthread' = Boot
  /\ life' = [life EXCEPT ![Boot] = "live"]
  /\ irq' = [irq EXCEPT ![Boot] = TRUE]
  /\ UNCHANGED <<lists, waitingmutex, shutdown, locked, holds, mode, wanted, hung>>

\* thread_create followed by sched_queue; the callers give the thread up if
\* it cannot be queued.
CreateThread(t) ==
  /\ UserStep
  /\ t # Boot
  /\ life[t] = "unborn"
  /\ \E ok \in HeapResults :
       /\ sched_queue(t, threads, ok)
       /\ life' = [life EXCEPT ![t] = IF CanQueue(t, ok) THEN "live" ELSE "deleted"]
  /\ UNCHANGED <<opportunities, s_current_queue, s_mutexwaitthreads,
                 s_runningthread, waitingmutex, shutdown, locked, irq, holds,
                 mode, wanted, hung>>

\* A thread starts with EFLAGS = 0; its main function enables interrupts.
arch_irq_enable ==
  /\ UserStep
  /\ ~irq[Self]
  /\ irq' = [irq EXCEPT ![Self] = TRUE]
  /\ UNCHANGED <<lists, s_runningthread, waitingmutex, shutdown, locked, life,
                 holds, mode, wanted, hung>>

\* thread->shutdown = true, by the thread that created t.
RequestShutdown(t) ==
  /\ UserStep
  /\ t \notin {Boot, Self}
  /\ life[t] = "live"
  /\ ~shutdown[t]
  /\ shutdown' = [shutdown EXCEPT ![t] = TRUE]
  /\ UNCHANGED <<lists, s_runningthread, waitingmutex, locked, irq, life,
                 holds, mode, wanted, hung>>

\* Fault: the flag is set without being tested in the same step.
mutex_lock_untested(m) ==
  /\ UserStep
  /\ m \notin holds[Self]
  /\ locked' = [locked EXCEPT ![m] = TRUE]
  /\ holds' = [holds EXCEPT ![Self] = @ \cup {m}]
  /\ UNCHANGED <<lists, s_runningthread, waitingmutex, shutdown, irq, life, mode,
                 wanted, hung>>
mutex_lock(m) ==
  /\ UserStep
  /\ m \notin holds[Self]
  /\ \/ /\ ~locked[m]
        /\ locked' = [locked EXCEPT ![m] = TRUE]
        /\ holds' = [holds EXCEPT ![Self] = @ \cup {m}]
        /\ UNCHANGED <<mode, wanted>>
     \/ /\ locked[m]
        /\ mode' = "wait"
        /\ wanted' = m
        /\ UNCHANGED <<locked, holds>>
  /\ UNCHANGED <<lists, s_runningthread, waitingmutex, shutdown, irq, life, hung>>

mutex_unlock(m) ==
  /\ UserStep
  /\ m \in holds[Self]
  /\ locked' = [locked EXCEPT ![m] = FALSE]
  /\ holds' = [holds EXCEPT ![Self] = @ \ {m}]
  /\ UNCHANGED <<lists, s_runningthread, waitingmutex, shutdown, irq, life,
                 mode, wanted, hung>>

\* sched_schedule, called by a thread or by the timer interrupt handler.
sched_schedule ==
  /\ mode = "user"
  /\ ~hung
  /\ mode' = "schedule"
  /\ UNCHANGED <<lists, s_runningthread, waitingmutex, shutdown, locked, irq,
                 life, holds, wanted, hung>>

Yield == Self # None /\ sched_schedule
Tick == (Self # None => irq[Self]) /\ sched_schedule

Next ==
  \/ PickNextTask
  \/ sched_init_boot_thread
  \/ \E t \in Threads : CreateThread(t) \/ RequestShutdown(t)
  \/ \E m \in Mutexes : mutex_lock(m) \/ mutex_unlock(m)
  \/ arch_irq_enable
  \/ Yield
  \/ Tick

Spec == Init /\ [][Next]_vars

\* The loop of pick_next_task goes on, the timer keeps firing, and the first
\* thing a new thread does is to enable interrupts.
FairSpec ==
  /\ Spec
  /\ WF_vars(PickNextTask)
  /\ WF_vars(Tick)
  /\ WF_vars(arch_irq_enable)
  /\ WF_vars(sched_init_boot_thread)

-----------------------------------------------------------------------------
(***************************************************************************)
(* Properties.                                                             *)
(***************************************************************************)
TypeOK ==
  /\ s_queues \in Seq(Priorities)
  /\ opportunities \in [Priorities -> Nat]
  /\ threads \in [Priorities -> Seq(Threads)]
  /\ s_current_queue \in Priorities \cup {None}
  /\ s_runningthread \in Threads \cup {None}
  /\ s_mutexwaitthreads \in Seq(Threads)
  /\ waitingmutex \in [Threads -> Mutexes \cup {None}]
  /\ shutdown \in [Threads -> BOOLEAN]
  /\ locked \in [Mutexes -> BOOLEAN]
  /\ irq \in [Threads -> BOOLEAN]
  /\ life \in [Threads -> {"unborn", "live", "lost", "deleted"}]
  /\ holds \in [Threads -> SUBSET Mutexes]
  /\ mode \in {"user", "schedule", "wait"}
  /\ wanted \in Mutexes \cup {None}
  /\ hung \in BOOLEAN

InSome(t, thr) == \E p \in DOMAIN thr : OnList(thr[p], t)
AllDistinct(thr) ==
  \A p, q \in DOMAIN thr : \A i \in 1..Len(thr[p]), j \in 1..Len(thr[q]) :
    thr[p][i] = thr[q][j] => p = q /\ i = j

OnQueue(t) == InSome(t, threads)
OnWaitList(t) == OnList(s_mutexwaitthreads, t)

\* thread.h: one sched_listnode serves the queues and the wait list, so a
\* thread is in at most one list, once, and never while it runs; and a thread
\* that exists is in a list or running, so that it can run again.
EveryThreadInOnePlace ==
  /\ AllDistinct(threads)
  /\ IsInjective(s_mutexwaitthreads)
  /\ \A t \in Threads : ~(OnQueue(t) /\ OnWaitList(t))
  /\ \A t \in Threads : OnQueue(t) \/ OnWaitList(t) => t # Self
  /\ \A t \in Threads : life[t] = "live" <=> OnQueue(t) \/ OnWaitList(t) \/ t = Self

\* mutex.c: a mutex is held by at most one thread, and is marked as locked
\* exactly while some lock call has returned and no unlock call followed,
\* also when pick_next_task takes it on behalf of the waiter.
MutualExclusion ==
  /\ \A t, u \in Threads : t # u => holds[t] \cap holds[u] = {}
  /\ \A m \in Mutexes : locked[m] <=> \E t \in Threads : m \in holds[t]

\* The assertions of sched_wait_mutex, sched_schedule and the wait list scan:
\* waiters are exactly the threads with a waitingmutex; a thread that starts
\* to wait is the running one and wants a mutex that is locked; and there is
\* no other thread to switch to as long as no thread is known to run.
AssertionsHold ==
  /\ \A t \in Threads : waitingmutex[t] # None <=> OnWaitList(t)
  /\ mode = "wait" => Self # None /\ wanted # None /\ locked[wanted]
  /\ Self = None => \A t \in Threads : life[t] # "live"

\* get_queue keeps the queue list strictly ascending, every thread is in the
\* queue of its own priority, and no thread is in a queue outside the list.
QueueListSorted ==
  /\ \A i, j \in DOMAIN s_queues : i < j => s_queues[i] < s_queues[j]
  /\ \A p \in Priorities : \A i \in 1..Len(threads[p]) :
       Prio[threads[p][i]] = p /\ p \in Range(s_queues)
  /\ \A t \in Threads : t # Boot /\ life[t] = "live" => Prio[t] \in Range(s_queues)

\* sched_schedule switches away from the running thread even if it could not
\* be queued (-ENOMEM).  Only the boot thread, which nobody queued before it
\* ran, can be lost that way.
OnlyBootThreadLost == \A t \in Threads : life[t] = "lost" => t = Boot

\* sched.c: threads, queues and mutexes have their types, opportunities never
\* go below zero, the list of queues is sorted by priority whatever the order in
\* which threads of new priorities appear, and no thread but the boot thread is
\* ever lost because its queue could not be allocated.
QueuesSound == TypeOK /\ QueueListSorted /\ OnlyBootThreadLost

\* The mutexes keep the promise of MutexSpec: whatever the scheduler does
\* meanwhile, holds changes only by acquiring a mutex nobody holds, or by the
\* holder's release.
MutexPromise == INSTANCE MutexSpec
ImplementsMutexSpec == MutexPromise!Spec

\* mutex_unlock wakes nobody: that a free mutex is given to one of the threads
\* waiting for it rests on the timer alone.  (Unless sched_wait_mutex hangs,
\* see HangOnlyWithoutThreads.)
FreeMutexIsGranted ==
  \A m \in Mutexes :
    ~locked[m] /\ (\E t \in Threads : waitingmutex[t] = m)
      ~> hung \/ locked[m] \/ \A t \in Threads : waitingmutex[t] # m

\* A thread in a queue runs again, whatever the other threads do, although
\* pick_next_queue passes over the current queue, may select an empty one,
\* and serves waiters first.
QueuedThreadRuns ==
  \A t \in Threads : OnQueue(t) ~> (hung \/ Self = t \/ life[t] = "deleted")

\* sched.c:212, "there is no thread to wait for mutex": the endless loop of
\* sched_wait_mutex is entered only when no queue has a thread to run.
HangOnlyWithoutThreads == hung => \A p \in Priorities : threads[p] = << >>

\* sched.c:24, "lower priority queues are selected less than higher priority
\* ones" (sched.h: "Lower value -> Higher priority"): when the opportunities
\* are reset, a higher priority queue gets no fewer than a lower one.
ResetFavoursHighPriority ==
  [][(\E p \in Priorities : opportunities'[p] > opportunities[p]) =>
       \A p, q \in Range(s_queues) :
         p < q => reset_queues[p] >= reset_queues[q]]_vars
=============================================================================
