-------------------------------- MODULE Fifo --------------------------------
(***************************************************************************)
(* What kernel/lib/queue.c promises its users: a first-in first-out queue  *)
(* of at most Cap items that refuses an item when it is full and reports   *)
(* when it is empty.                                                       *)
(***************************************************************************)
EXTENDS Naturals, Sequences

CONSTANTS Item, Cap

VARIABLES
    items,      \* the queued items, oldest first
    answer      \* what the last call gave: <<"item", i>>, <<"empty">>, <<"ok">> or <<"full">>

Init == items = <<>> /\ answer = <<"ok">>

Enqueue(item) ==
    \/ Len(items) < Cap /\ items' = Append(items, item) /\ answer' = <<"ok">>
    \/ Len(items) = Cap /\ UNCHANGED items /\ answer' = <<"full">>

Dequeue ==
    \/ items # <<>> /\ items' = Tail(items) /\ answer' = <<"item", Head(items)>>
    \/ items = <<>> /\ UNCHANGED items /\ answer' = <<"empty">>

Peek ==
    /\ UNCHANGED items
    /\ answer' = IF items = <<>> THEN <<"empty">> ELSE <<"item", Head(items)>>

Next == (\E item \in Item : Enqueue(item)) \/ Dequeue \/ Peek

Spec == Init /\ [][Next]_<<items, answer>>
=============================================================================
