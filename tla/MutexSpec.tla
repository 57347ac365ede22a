----------------------------- MODULE MutexSpec -----------------------------
(***************************************************************************)
(* What the mutexes of kernel/tasks/mutex.c promise to the threads: a lock *)
(* call returns only while no other thread is between its lock and unlock  *)
(* calls, and one call at a time changes who holds what.                   *)
(***************************************************************************)
CONSTANTS Threads, Mutexes
VARIABLE holds   \* thread -> the mutexes it holds

Init == holds = [t \in Threads |-> {}]

Acquire(t, m) ==
  /\ \A u \in Threads : m \notin holds[u]
  /\ holds' = [holds EXCEPT ![t] = @ \cup {m}]

Release(t, m) ==
  /\ m \in holds[t]
  /\ holds' = [holds EXCEPT ![t] = @ \ {m}]

Next == \E t \in Threads, m \in Mutexes : Acquire(t, m) \/ Release(t, m)

Spec == Init /\ [][Next]_holds
=============================================================================
