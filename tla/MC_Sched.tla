------------------------------ MODULE MC_Sched ------------------------------
(* Instances of Sched: the boot thread has priority 20, threads made by     *)
(* thread_create have priority 0.                                           *)
EXTENDS Sched

CONSTANTS boot, w1, w2, w3

MCThreads == {boot, w1, w2, w3}
MCThreads3 == {boot, w1, w2}
MCPrio == [t \in Threads |-> IF t = boot THEN 20 ELSE 0]

\* A third priority, so that the list of queues has a middle.
MCPrio3 == [t \in Threads |-> IF t = boot THEN 20 ELSE IF t = w3 THEN 30 ELSE 0]

CONSTANT m2

\* Four threads share one mutex, or three of them nest two.
MCNext == Next /\ ~(life'[w3] # "unborn" /\ \E t \in Threads : m2 \in holds'[t])

\* The fairness of FairSpec.
MCFairSpec ==
  /\ Init /\ [][MCNext]_vars
  /\ WF_vars(PickNextTask)
  /\ WF_vars(Tick)
  /\ WF_vars(arch_irq_enable)
  /\ WF_vars(sched_init_boot_thread)
=============================================================================
