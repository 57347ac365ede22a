-------------------------------- MODULE Bst --------------------------------
(***************************************************************************)
(* The AVL tree of kernel/lib/bst.c, with its nodes, parent pointers,      *)
(* cached heights and balance factors, under every sequence of             *)
(* bst_insert_node and bst_remove_node.  A node is named by its key.  A    *)
(* node that is inserted is fresh, zeroed memory, as in vmm.c.             *)
(*                                                                         *)
(* Every call is made with interrupts disabled and is one step here; an    *)
(* operation is an operator from trees to trees.  The field ok of a tree   *)
(* records that none of the integrity checks of the code has failed.       *)
(***************************************************************************)
EXTENDS Integers, FiniteSets

CONSTANT Keys

KeysAssumption == Keys \subseteq Nat \ {0} /\ IsFiniteSet(Keys)

VARIABLES
    tree,       \* the tree
    members     \* keys that were inserted and not removed since

vars == <<tree, members>>

nullptr == 0
LEFT == 1
RIGHT == 2
Opposite(dir) == 3 - dir

Init ==
    /\ tree = [root |-> nullptr, ok |-> TRUE,
               children |-> [n \in Keys |-> <<nullptr, nullptr>>],
               parent |-> [n \in Keys |-> nullptr],
               height |-> [n \in Keys |-> 0], bf |-> [n \in Keys |-> 0]]
    /\ members = {}

RECURSIVE Subtree(_, _)
Subtree(t, n) ==
    IF n = nullptr THEN {}
    ELSE {n} \cup Subtree(t, t.children[n][LEFT]) \cup Subtree(t, t.children[n][RIGHT])

RECURSIVE Ancestors(_, _)
Ancestors(t, n) ==
    IF t.parent[n] = nullptr THEN {} ELSE {t.parent[n]} \cup Ancestors(t, t.parent[n])

Larger(a, b) == IF a < b THEN b ELSE a

----------------------------------------------------------------------------
(* The integrity checks. *)

RECURSIVE height_of_subtree(_, _)
height_of_subtree(t, n) ==
    LET H(dir) == IF t.children[n][dir] = nullptr THEN 0
                  ELSE height_of_subtree(t, t.children[n][dir]) + 1
    IN  Larger(H(LEFT), H(RIGHT))

balence_factor(t, n) ==
    LET H(dir) == IF t.children[n][dir] = nullptr THEN 0
                  ELSE height_of_subtree(t, t.children[n][dir]) + 1
    IN  H(LEFT) - H(RIGHT)

(* check_subtree panics unless the parent pointers below a node, and as    *)
(* far as asked for the cached heights and balance factors, are right.     *)
check_subtree(t, root, fields) ==
    [t EXCEPT !.ok = @ /\ \A n \in Subtree(t, root) :
        /\ \A dir \in {LEFT, RIGHT} :
               t.children[n][dir] # nullptr => t.parent[t.children[n][dir]] = n
        /\ "height" \in fields => t.height[n] = height_of_subtree(t, n)
        /\ "bf" \in fields => t.bf[n] = balence_factor(t, n)]

check_tree(t) ==
    check_subtree([t EXCEPT !.ok = @ /\ (t.root # nullptr => t.parent[t.root] = nullptr)],
                  t.root, {"height", "bf"})

----------------------------------------------------------------------------
(* Searching. *)

RECURSIVE FindFrom(_, _, _)
FindFrom(t, n, key) ==
    IF n = nullptr \/ n = key THEN n
    ELSE FindFrom(t, t.children[n][IF key < n THEN LEFT ELSE RIGHT], key)

bst_find_node(t, key) == FindFrom(t, t.root, key)

RECURSIVE Outermost(_, _, _)
Outermost(t, n, dir) ==
    IF n = nullptr \/ t.children[n][dir] = nullptr THEN n
    ELSE Outermost(t, t.children[n][dir], dir)

bst_min_of(t, n) == Outermost(t, n, LEFT)
bst_max_of(t, n) == Outermost(t, n, RIGHT)

(* The nearest ancestor with a larger key, or the least node to the right. *)
RECURSIVE LargerAncestor(_, _, _)
LargerAncestor(t, n, key) ==
    IF n = nullptr \/ key < n THEN n ELSE LargerAncestor(t, t.parent[n], key)

bst_successor(t, n) ==
    IF t.children[n][RIGHT] # nullptr THEN bst_min_of(t, t.children[n][RIGHT])
    ELSE LargerAncestor(t, t.parent[n], n)

RECURSIVE SmallerAncestor(_, _, _)
SmallerAncestor(t, n, key) ==
    IF n = nullptr \/ key > n THEN n ELSE SmallerAncestor(t, t.parent[n], key)

bst_predecessor(t, n) ==
    IF t.children[n][LEFT] # nullptr THEN bst_max_of(t, t.children[n][LEFT])
    ELSE SmallerAncestor(t, t.parent[n], n)

----------------------------------------------------------------------------
(* Heights and balance factors, from the cached heights of the children.   *)

ChildHeight(t, n, dir) ==
    IF t.children[n][dir] = nullptr THEN 0 ELSE t.height[t.children[n][dir]] + 1

RECURSIVE HeightsUp(_, _)
HeightsUp(t, n) ==
    IF n = nullptr THEN t
    ELSE HeightsUp([t EXCEPT !.height[n] = Larger(ChildHeight(t, n, LEFT), ChildHeight(t, n, RIGHT))],
                   t.parent[n])

bst_recalculate_height(t, n) ==
    check_subtree(HeightsUp(check_subtree(t, n, {}), n), n, {"height"})

(* The nodes below n and above it. *)
bst_recalculate_bf(t, n) ==
    LET checked == check_subtree(t, n, {"height"})
        bf == [k \in Keys |-> IF k \in Subtree(t, n) \cup Ancestors(t, n)
                              THEN ChildHeight(t, k, LEFT) - ChildHeight(t, k, RIGHT)
                              ELSE t.bf[k]]
    IN  check_subtree([checked EXCEPT !.bf = bf], n, {"height", "bf"})

bst_dir_in_parent(t, n) ==
    CHOOSE dir \in {LEFT, RIGHT} : t.children[t.parent[n]][dir] = n

(* What was under n's parent (or the root) is now new. *)
Relink(t, n, new) ==
    IF t.parent[n] = nullptr THEN [t EXCEPT !.root = new]
    ELSE [t EXCEPT !.children[t.parent[n]][bst_dir_in_parent(t, n)] = new]

SetParent(t, n, parent) == IF n = nullptr THEN t ELSE [t EXCEPT !.parent[n] = parent]

bst_rotate(t, a, dir) ==
    LET b == t.children[a][Opposite(dir)]
        c == t.children[b][dir]
        up == SetParent(Relink(check_tree(t), a, b), b, t.parent[a])
        turned == [up EXCEPT !.children[b][dir] = a, !.children[a][Opposite(dir)] = c,
                             !.parent[a] = b]
    IN  check_tree(bst_recalculate_bf(bst_recalculate_height(SetParent(turned, c, a), a), b))

(* One node of bst_check_and_rebalence that leans over to the side dir. *)
RotateHeavy(t, n, dir) ==
    LET child == t.children[n][dir]
        leansBack == IF dir = LEFT THEN t.bf[child] < 0 ELSE t.bf[child] > 0
    IN  bst_rotate(IF leansBack THEN bst_rotate(t, child, dir) ELSE t, n, Opposite(dir))

RECURSIVE bst_check_and_rebalence(_, _)
bst_check_and_rebalence(t, n) ==
    IF n = nullptr THEN check_tree(t)
    ELSE LET oldparent == t.parent[n]
         IN  bst_check_and_rebalence(IF t.bf[n] > 1 THEN RotateHeavy(t, n, LEFT)
                                     ELSE IF t.bf[n] < -1 THEN RotateHeavy(t, n, RIGHT)
                                     ELSE t, oldparent)

----------------------------------------------------------------------------
(* Insertion. *)

RECURSIVE InsertParent(_, _, _)
InsertParent(t, n, key) ==
    LET child == t.children[n][IF key < n THEN LEFT ELSE RIGHT]
    IN  IF child = nullptr THEN n ELSE InsertParent(t, child, key)

bst_insert_node_unbalenced(t, node) ==
    LET clean == [check_tree(t) EXCEPT !.children[node] = <<nullptr, nullptr>>, !.bf[node] = 0,
                                       !.height[node] = 0]
        p == InsertParent(clean, t.root, node)
        linked == [clean EXCEPT !.children[p][IF node < p THEN LEFT ELSE RIGHT] = node,
                                !.parent[node] = p]
    IN  IF t.root = nullptr
        THEN check_tree([clean EXCEPT !.root = node, !.parent[node] = nullptr])
        ELSE check_tree(bst_recalculate_bf(bst_recalculate_height(linked, p), p))

bst_insert_node(t, node) ==
    LET new == bst_insert_node_unbalenced(t, node)
    IN  IF new.parent[node] = nullptr THEN new
        ELSE bst_check_and_rebalence(new, new.parent[node])

----------------------------------------------------------------------------
(* Removal. *)

remove_terminal_node(t, node) == Relink(t, node, nullptr)

(* Fault: the child is not linked to the parent. *)
remove_node_with_child_cut(t, node, dir) == Relink(t, node, nullptr)

(* remove_node_with_left_child, remove_node_with_right_child. *)
remove_node_with_child(t, node, dir) ==
    SetParent(Relink(t, node, t.children[node][dir]), t.children[node][dir], t.parent[node])

(* The replacement is cut off from its parent, and takes over the children *)
(* of the node: what it had as left child is not linked to anything.       *)
remove_node_with_both_children(t, node) ==
    LET r == bst_max_of(t, t.children[node][LEFT])
        old_parent == t.parent[r]
        cut == [t EXCEPT !.children[old_parent][bst_dir_in_parent(t, r)] = nullptr]
        moved == [Relink(cut, node, r) EXCEPT !.parent[r] = t.parent[node],
                                              !.children[r] = cut.children[node]]
        owned == SetParent(SetParent(moved, moved.children[r][LEFT], r), moved.children[r][RIGHT], r)
    IN  bst_recalculate_bf(
            bst_recalculate_height(owned, IF old_parent # node THEN old_parent ELSE r), r)

bst_remove_node_unbalenced(t, node) ==
    LET Has(dir) == t.children[node][dir] # nullptr
        checked == check_tree(t)
        p == t.parent[node]
        new == IF ~Has(LEFT) /\ ~Has(RIGHT) THEN remove_terminal_node(checked, node)
               ELSE IF ~Has(RIGHT) THEN remove_node_with_child(checked, node, LEFT)
               ELSE IF ~Has(LEFT) THEN remove_node_with_child(checked, node, RIGHT)
               ELSE remove_node_with_both_children(checked, node)
    IN  check_tree(IF p = nullptr THEN new
                   ELSE bst_recalculate_bf(bst_recalculate_height(new, p), p))

bst_remove_node(t, node) ==
    LET new == bst_remove_node_unbalenced(t, node)
    IN  IF t.parent[node] = nullptr THEN new ELSE bst_check_and_rebalence(new, t.parent[node])

----------------------------------------------------------------------------
Reachable(t) == Subtree(t, t.root)

(* A key that the tree has would be a panic; callers look it up first. *)
Insert(key) ==
    /\ bst_find_node(tree, key) = nullptr
    /\ tree' = bst_insert_node(tree, key) /\ members' = members \cup {key}

(* The fields of nodes outside the tree do not matter: an insertion sets   *)
(* all of them.                                                            *)
Forget(t) ==
    LET In(n) == n \in Reachable(t)
    IN  [t EXCEPT !.children = [n \in Keys |-> IF In(n) THEN t.children[n] ELSE <<nullptr, nullptr>>],
                  !.parent = [n \in Keys |-> IF In(n) THEN t.parent[n] ELSE nullptr],
                  !.height = [n \in Keys |-> IF In(n) THEN t.height[n] ELSE 0],
                  !.bf = [n \in Keys |-> IF In(n) THEN t.bf[n] ELSE 0]]

(* Callers remove nodes they have come across in the tree, and free them. *)
Remove(key) ==
    /\ key \in Reachable(tree)
    /\ tree' = Forget(bst_remove_node(tree, key)) /\ members' = members \ {key}

Next == \E key \in Keys : Insert(key) \/ Remove(key)

Spec == Init /\ [][Next]_vars

----------------------------------------------------------------------------
(* No integrity check fails: after every step of every operation, rotations *)
(* included, parent pointers, cached heights and balance factors agree      *)
(* with the shape of the tree.                                              *)
ChecksPass == tree.ok

(* The nodes of the tree are found under their keys, and bst_successor and  *)
(* bst_predecessor, with which the VMM goes over its free ranges by size,   *)
(* go from every node to the next larger and the next smaller one.          *)
SearchesExact ==
    LET nodes == Reachable(tree)
        Least(S) == IF S = {} THEN nullptr ELSE CHOOSE k \in S : \A m \in S : k <= m
        Greatest(S) == IF S = {} THEN nullptr ELSE CHOOSE k \in S : \A m \in S : k >= m
    IN  /\ bst_min_of(tree, tree.root) = Least(nodes)
        /\ \A key \in Keys : bst_find_node(tree, key) = IF key \in nodes THEN key ELSE nullptr
        /\ \A n \in nodes :
               /\ bst_successor(tree, n) = Least({k \in nodes : k > n})
               /\ bst_predecessor(tree, n) = Greatest({k \in nodes : k < n})

Balanced(t) == \A n \in Reachable(t) : balence_factor(t, n) \in -1 .. 1

(* Inserting into a balanced tree adds the key, loses none, and leaves a    *)
(* balanced tree.                                                           *)
InsertKeepsBalance ==
    [][\A key \in Keys : Insert(key) =>
          /\ Reachable(tree') = Reachable(tree) \cup {key}
          /\ Balanced(tree) => Balanced(tree')]_vars

(* Removing a node takes that node out of the tree and no other, unless it  *)
(* had two children and the node that replaces it had a left child.         *)
RemoveTakesOne ==
    [][\A key \in Keys : Remove(key) =>
          LET kids == tree.children[key]
              r == bst_max_of(tree, kids[LEFT])
              lost == IF kids[LEFT] # nullptr /\ kids[RIGHT] # nullptr
                      THEN Subtree(tree, tree.children[r][LEFT]) ELSE {}
          IN  Reachable(tree') = (Reachable(tree) \ {key}) \ lost]_vars

(* What was inserted and not removed is found, as the tests expect of the   *)
(* child of a node that was removed.                                        *)
NoNodeLost == members = Reachable(tree)

(* "Balencing works the same when removing": the tree is balanced after     *)
(* insertions and removals alike.                                           *)
StaysBalanced == Balanced(tree)
=============================================================================
