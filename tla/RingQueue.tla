----------------------------- MODULE RingQueue -----------------------------
(***************************************************************************)
(* The ring buffer of kernel/lib/queue.c.  Its users call it with          *)
(* interrupts off, so a call is one step.                                  *)
(***************************************************************************)
EXTENDS Integers, Sequences

CONSTANTS
    Item,       \* what is queued
    Cap         \* number of elements of the buffer

ASSUME CapAssumption == Cap \in Nat \ {0}

VARIABLES
    buf,                \* the array, indexed from 0
    enqueue_index,
    dequeue_index,
    last_was_enqueue,
    answer              \* what the last call gave

vars == <<buf, enqueue_index, dequeue_index, last_was_enqueue, answer>>

(* queue_init: the buffer is not cleared. *)
Init ==
    /\ buf \in [0 .. Cap - 1 -> Item]
    /\ enqueue_index = 0 /\ dequeue_index = 0
    /\ last_was_enqueue = FALSE
    /\ answer = <<"ok">>

queue_is_full == enqueue_index = dequeue_index /\ last_was_enqueue
queue_is_empty == enqueue_index = dequeue_index /\ ~last_was_enqueue

IndexAfter(index) == (index + 1) % Cap

(* __queue_enqueue. *)
queue_enqueue(item) ==
    IF queue_is_full
    THEN answer' = <<"full">>
         /\ UNCHANGED <<buf, enqueue_index, dequeue_index, last_was_enqueue>>
    ELSE /\ buf' = [buf EXCEPT ![enqueue_index] = item]
         /\ enqueue_index' = IndexAfter(enqueue_index)
         /\ last_was_enqueue' = TRUE
         /\ answer' = <<"ok">>
         /\ UNCHANGED dequeue_index

(* Fault: the flag is left as it was. *)
queue_dequeue_noflag ==
    IF queue_is_empty
    THEN answer' = <<"empty">>
         /\ UNCHANGED <<buf, enqueue_index, dequeue_index, last_was_enqueue>>
    ELSE /\ answer' = <<"item", buf[dequeue_index]>>
         /\ dequeue_index' = IndexAfter(dequeue_index)
         /\ UNCHANGED <<buf, enqueue_index, last_was_enqueue>>

(* __queue_dequeue. *)
queue_dequeue ==
    IF queue_is_empty
    THEN answer' = <<"empty">>
         /\ UNCHANGED <<buf, enqueue_index, dequeue_index, last_was_enqueue>>
    ELSE /\ answer' = <<"item", buf[dequeue_index]>>
         /\ dequeue_index' = IndexAfter(dequeue_index)
         /\ last_was_enqueue' = FALSE
         /\ UNCHANGED <<buf, enqueue_index>>

queue_peek ==
    /\ answer' = IF queue_is_empty THEN <<"empty">> ELSE <<"item", buf[dequeue_index]>>
    /\ UNCHANGED <<buf, enqueue_index, dequeue_index, last_was_enqueue>>

Next == (\E item \in Item : queue_enqueue(item)) \/ queue_dequeue \/ queue_peek

Spec == Init /\ [][Next]_vars

----------------------------------------------------------------------------
(* The indices stay inside the buffer. *)
TypeOK ==
    /\ buf \in [0 .. Cap - 1 -> Item]
    /\ enqueue_index \in 0 .. Cap - 1 /\ dequeue_index \in 0 .. Cap - 1
    /\ last_was_enqueue \in BOOLEAN

Count ==
    IF enqueue_index = dequeue_index THEN (IF last_was_enqueue THEN Cap ELSE 0)
    ELSE IF enqueue_index > dequeue_index THEN enqueue_index - dequeue_index
    ELSE enqueue_index + Cap - dequeue_index

Slot(k) == IF dequeue_index + k < Cap THEN dequeue_index + k ELSE dequeue_index + k - Cap

Contents == [k \in 1 .. Count |-> buf[Slot(k - 1)]]

Abstract == INSTANCE Fifo WITH items <- Contents

(* The ring buffer is a bounded FIFO queue: every call gives what a        *)
(* sequence of the queued items would give, across wrap-around and when    *)
(* it is full or empty.                                                    *)
FifoRefinement == Abstract!Spec
============================================================================
