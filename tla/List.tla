-------------------------------- MODULE List --------------------------------
(***************************************************************************)
(* The intrusive doubly linked list (kernel/lib/list.c) that the scheduler,*)
(* the memory managers and the device registry are built on.  elems is the *)
(* sequence the list stands for; it is not in the code.                    *)
(***************************************************************************)
EXTENDS Integers, Sequences

CONSTANTS Nodes, NULL

ListAssumption == NULL \notin Nodes

VARIABLES prev, next, front, back, elems

vars == <<prev, next, front, back, elems>>

\* list_init; a node that is in no list may hold anything.
Init ==
    /\ prev = [n \in Nodes |-> NULL] /\ next = [n \in Nodes |-> NULL]
    /\ front = NULL /\ back = NULL
    /\ elems = << >>

InList(n) == \E i \in 1 .. Len(elems) : elems[i] = n

\* field of node n set to v, if there is a node n.
Set(field, n, v) == IF n = NULL THEN field ELSE [field EXCEPT ![n] = v]

list_insert_front(n) ==
    /\ ~InList(n)
    /\ prev' = [Set(prev, front, n) EXCEPT ![n] = NULL]
    /\ next' = [next EXCEPT ![n] = front]
    /\ front' = n
    /\ back' = IF back = NULL THEN n ELSE back
    /\ elems' = <<n>> \o elems

list_insert_back(n) ==
    /\ ~InList(n)
    /\ next' = [Set(next, back, n) EXCEPT ![n] = NULL]
    /\ prev' = [prev EXCEPT ![n] = back]
    /\ back' = n
    /\ front' = IF front = NULL THEN n ELSE front
    /\ elems' = Append(elems, n)

list_insert_after(a, n) ==
    /\ ~InList(n)
    /\ \E i \in 1 .. Len(elems) :
          /\ elems[i] = a
          /\ elems' = SubSeq(elems, 1, i) \o <<n>> \o SubSeq(elems, i + 1, Len(elems))
    /\ prev' = Set([prev EXCEPT ![n] = a], next[a], n)
    /\ next' = [next EXCEPT ![n] = next[a], ![a] = n]
    /\ back' = IF back = a THEN n ELSE back
    /\ UNCHANGED front

list_insert_before(b, n) ==
    /\ ~InList(n)
    /\ \E i \in 1 .. Len(elems) :
          /\ elems[i] = b
          /\ elems' = SubSeq(elems, 1, i - 1) \o <<n>> \o SubSeq(elems, i, Len(elems))
    /\ next' = Set([next EXCEPT ![n] = b], prev[b], n)
    /\ prev' = [prev EXCEPT ![n] = prev[b], ![b] = n]
    /\ front' = IF front = b THEN n ELSE front
    /\ UNCHANGED back

\* Nothing is done on an empty list.
list_remove_front ==
    /\ front # NULL
    /\ front' = next[front]
    /\ prev' = Set(prev, next[front], NULL)
    /\ back' = IF next[front] = NULL THEN NULL ELSE back
    /\ elems' = Tail(elems)
    /\ UNCHANGED next

list_remove_back ==
    /\ back # NULL
    /\ back' = prev[back]
    /\ next' = Set(next, prev[back], NULL)
    /\ front' = IF prev[back] = NULL THEN NULL ELSE front
    /\ elems' = SubSeq(elems, 1, Len(elems) - 1)
    /\ UNCHANGED prev

\* Fault: the end of the list is not looked at.
BackAfter_kept(n) == back

BackAfter(n) == IF n = back THEN prev[n] ELSE back

\* The removed node keeps its pointers.
list_remove_node(n) ==
    /\ \E i \in 1 .. Len(elems) :
          /\ elems[i] = n
          /\ elems' = SubSeq(elems, 1, i - 1) \o SubSeq(elems, i + 1, Len(elems))
    /\ next' = Set(next, prev[n], next[n])
    /\ prev' = Set(prev, next[n], prev[n])
    /\ LET f == IF n = front THEN next[n] ELSE front
           b == BackAfter(n)
       IN  /\ front' = IF f = NULL \/ b = NULL THEN NULL ELSE f
           /\ back' = IF f = NULL \/ b = NULL THEN NULL ELSE b

Next ==
    \/ \E n \in Nodes : \/ list_insert_front(n) \/ list_insert_back(n)
                        \/ list_remove_node(n)
                        \/ \E m \in Nodes : list_insert_after(m, n)
                                            \/ list_insert_before(m, n)
    \/ list_remove_front \/ list_remove_back

Spec == Init /\ [][Next]_vars

-----------------------------------------------------------------------------
\* The node at position i, NULL before the first and after the last one.
At(i) == IF i \in 1 .. Len(elems) THEN elems[i] ELSE NULL

\* Walking the links forwards and backwards visits exactly the elements that
\* were inserted and not removed, in the order the operations promise: both
\* ends and both links of every node agree (list.c, LIST_FOREACH).
LinksMatch ==
    /\ front = At(1) /\ back = At(Len(elems))
    /\ \A i \in 1 .. Len(elems) : /\ next[elems[i]] = At(i + 1)
                                  /\ prev[elems[i]] = At(i - 1)
    /\ \A i, j \in 1 .. Len(elems) : elems[i] = elems[j] => i = j
=============================================================================
