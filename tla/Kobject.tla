------------------------------- MODULE Kobject -------------------------------
(***************************************************************************)
(* The tree of reference-counted kernel objects (kernel/kobject.c).  A     *)
(* client owns the reference it got from kobject_create and those it took  *)
(* with kobject_ref, and gives back no others.                             *)
(***************************************************************************)
EXTENDS Integers, Sequences, FiniteSets, SequencesExt

CONSTANTS
    Objects,        \* addresses the heap hands out; never used twice
    Names,          \* ids that clients choose; the others are addresses
    MaxRefs,        \* references a client takes to one object
    MaxCount,       \* bound on ref_count: moves leave references behind
    CreateOutcomes, \* whether kobject_create can run out of memory
    NULL

KobjectAssumption ==
    /\ NULL \notin Objects /\ MaxRefs \in Nat \ {0} /\ MaxCount \in Nat
    /\ CreateOutcomes \subseteq BOOLEAN

VARIABLES
    live,      \* objects that are allocated
    freed,     \* objects that were freed
    parent, child_list, ref_count, id,  \* their fields
    held,      \* references clients own
    result     \* what the last kobject_set_parent returned

tree == <<live, freed, parent, child_list, ref_count>>
vars == <<tree, id, held, result>>

Init ==
    /\ live = {} /\ freed = {}
    /\ parent = [o \in Objects |-> NULL]
    /\ child_list = [o \in Objects |-> << >>]
    /\ ref_count = [o \in Objects |-> 0]
    /\ id = [o \in Objects |-> o]
    /\ held = [o \in Objects |-> 0]
    /\ result = 0

\* A failure frees what was allocated and still returns it, with 0.
kobject_create(o, name, ok) ==
    /\ o \notin live \cup freed
    /\ id' = [id EXCEPT ![o] = name]
    /\ held' = [held EXCEPT ![o] = 1]
    /\ IF ok THEN /\ live' = live \cup {o}
                  /\ ref_count' = [ref_count EXCEPT ![o] = 1]
                  /\ UNCHANGED freed
             ELSE freed' = freed \cup {o} /\ UNCHANGED <<live, ref_count>>
    /\ UNCHANGED <<parent, child_list, result>>

\* Looks for the node of obj itself among its children.
kobject_find_direct_child(obj, name) ==
    {c \in ToSet(child_list[obj]) : c = obj /\ id[c] = name}

\* Fault: the object stays in the list of its old parent.
Removed_kept(lists, p, o) == lists

\* list_remove_node in the old parent's list.
Removed(lists, p, o) ==
    IF p = NULL THEN lists
    ELSE [lists EXCEPT ![p] = SelectSeq(lists[p], LAMBDA c : c # o)]

\* The objects on the way up from o.
AncestorsOf(o) ==
    LET up[n \in 0 .. Cardinality(Objects)] ==
          IF n = 0 THEN {parent[o]} \ {NULL}
          ELSE up[n - 1] \cup ({parent[a] : a \in up[n - 1]} \ {NULL})
    IN  up[Cardinality(Objects)]

\* kobject_ref of the new parent; the old one keeps its reference.
Refs(p) == [ref_count EXCEPT ![p] = @ + 1]

EEXIST == -17

kobject_set_parent(obj, p) ==
    /\ parent[obj] # p
    /\ LET lists == Removed(child_list, parent[obj], obj)
       IN  \/ /\ p = NULL
              /\ parent' = [parent EXCEPT ![obj] = NULL]
              /\ child_list' = lists /\ result' = 0
              /\ UNCHANGED ref_count
           \/ /\ p # NULL
              /\ kobject_find_direct_child(p, id[obj]) # {} \/ obj \in AncestorsOf(p)
              /\ child_list' = lists /\ result' = EEXIST
              /\ UNCHANGED <<parent, ref_count>>
           \/ /\ p # NULL
              /\ kobject_find_direct_child(p, id[obj]) = {} /\ obj \notin AncestorsOf(p)
              /\ ref_count[p] < MaxCount
              /\ parent' = [parent EXCEPT ![obj] = p]
              /\ child_list' = [lists EXCEPT ![p] = Append(@, obj)]
              /\ ref_count' = Refs(p) /\ result' = 0
    /\ UNCHANGED <<live, freed, id, held>>

kobject_ref(o) ==
    /\ held[o] < MaxRefs
    /\ held' = [held EXCEPT ![o] = @ + 1]
    /\ ref_count' = [ref_count EXCEPT ![o] = @ + 1]
    /\ UNCHANGED <<live, freed, parent, child_list, id, result>>

(***************************************************************************)
(* kobject_unref on the fields of all objects.  The last reference destroys*)
(* the object: its children lose one reference each, it leaves its parent's*)
(* list, without giving the parent's reference back, and is freed.         *)
(***************************************************************************)
RECURSIVE Unref(_, _)
Unref(s, o) ==
    LET t == [s EXCEPT !.ref_count[o] = @ - 1]
        u == FoldLeft(Unref, t, t.child_list[o])
    IN  IF t.ref_count[o] # 0 THEN t
        ELSE [u EXCEPT !.child_list = Removed(u.child_list, u.parent[o], o),
                       !.parent[o] = NULL,
                       !.freed = @ \cup {o}]

kobject_unref(o) ==
    LET s == Unref([freed |-> {}, parent |-> parent, child_list |-> child_list,
                    ref_count |-> ref_count], o)
    IN  /\ live' = live \ s.freed /\ freed' = freed \cup s.freed
        /\ parent' = s.parent /\ child_list' = s.child_list
        /\ ref_count' = s.ref_count
        /\ held' = [held EXCEPT ![o] = @ - 1]
        /\ UNCHANGED <<id, result>>

\* A client works on objects it holds a reference to, and does not make an
\* object its own parent.
Client(o) ==
    \/ kobject_ref(o)
    \/ kobject_unref(o)
    \/ \E p \in {q \in Objects \ {o} : held[q] > 0} \cup {NULL} : kobject_set_parent(o, p)

Next ==
    \/ \E o \in Objects, name \in Names, ok \in CreateOutcomes :
          kobject_create(o, name, ok) \/ kobject_create(o, o, ok)
    \/ \E o \in live : held[o] > 0 /\ Client(o)

Spec == Init /\ [][Next]_vars

-----------------------------------------------------------------------------
\* No reference leads to freed memory: what a client holds, the children and
\* the parent of every object are allocated, whatever the order in which
\* objects are moved in the tree and released (kobject_unref).
NoDangling ==
    /\ \A o \in Objects : held[o] > 0 => o \in live
    /\ \A o \in live : /\ parent[o] \in live \cup {NULL}
                       /\ ToSet(child_list[o]) \subseteq live

\* An object is in the child list of at most one object, at most once, and
\* only in that of its parent (kobject_set_parent).
OneParentList ==
    \A o, p \in live : \A i, j \in 1 .. Len(child_list[p]) :
        child_list[p][i] = o => /\ parent[o] = p
                                /\ child_list[p][j] = o => i = j

\* kobject.c:103: "Make sure the ID is unique within the parent".
UniqueIds ==
    \A p \in live : \A i, j \in 1 .. Len(child_list[p]) :
        id[child_list[p][i]] = id[child_list[p][j]] => i = j
=============================================================================
