----------------------------- MODULE OrderedTree -----------------------------
(***************************************************************************)
(* What bst.c and rbtree.c have in common, line for line: the handle, the  *)
(* search, the three traversals and destroy.  A tree is a value: NIL or a  *)
(* node with an item, a left and a right subtree.  An operation is one     *)
(* step: it runs to its end on one thread, and the calls it makes back, to *)
(* cmp, visit and destroy, only read.  The recursion of the C functions is *)
(* that of a function on trees inside the operator named after them.       *)
(***************************************************************************)
EXTENDS Integers, FiniteSets, SequencesExt

CONSTANTS
  Item,         \* items callers insert: records with an integer key and a val
  NIL,          \* the NULL node
  Heights       \* heights of trees: Nat, or one that no tree exceeds

ASSUME ItemAssumption == \A it \in Item : it.key \in Int
ASSUME HeightsAssumption == Heights \subseteq Nat

Key == {it.key : it \in Item}

\* A node is red or black in rbtree.c; in bst.c, which has no colours, black.
Node(it, left, right, red) ==
  [item |-> it, left |-> left, right |-> right, red |-> red]

Nodes(S) == [item : Item, left : S, right : S, red : BOOLEAN]

\* The trees whose height is at most n.
UpTo[n \in Nat] == {NIL} \cup (IF n = 0 THEN {} ELSE Nodes(UpTo[n - 1]))

Tree == UNION {UpTo[n] : n \in Heights}

ASSUME NilAssumption == NIL \notin Nodes(Tree)

VARIABLES
  alive,        \* create has succeeded and destroy has not been called
  root,         \* tree->root
  seen,         \* what the last call showed its visitor, in that order
  res           \* last answer

vars == <<alive, root, seen, res>>

Answer(op, arg, rc, out) == [op |-> op, arg |-> arg, rc |-> rc, out |-> out]
Pending == Answer("none", {}, 0, {})
Refusal == Answer("refused", {}, -1, {})

Init == alive = FALSE /\ root = NIL /\ seen = <<>> /\ res = Pending

\* A node without children, as it is created.
Leaf(it, red) == Node(it, NIL, NIL, red)

\* The item with key k, looked for the way cmp directs.
search_node(node, k) ==
  LET found[h \in Tree] ==
        IF h = NIL THEN {}
        ELSE IF k < h.item.key THEN found[h.left]
        ELSE IF k > h.item.key THEN found[h.right]
        ELSE {h.item}
  IN found[node]

min_node(node) ==
  LET least[h \in Tree] ==
        IF h = NIL \/ h.left = NIL THEN h ELSE least[h.left]
  IN least[node]

Orders == {"preorder", "inorder", "postorder"}

\* A plausible slip: the visit between the subtrees taken for both orders.
TraverseNoPost(node, order) ==
  LET shown[h \in Tree] ==
        IF h = NIL THEN <<>>
        ELSE IF order = "preorder"
          THEN <<h.item>> \o shown[h.left] \o shown[h.right]
        ELSE shown[h.left] \o shown[h.right] \o <<h.item>>
  IN shown[node]

traverse_node(node, order) ==
  LET shown[h \in Tree] ==
        IF h = NIL THEN <<>>
        ELSE LET me == <<h.item>>
                 l == shown[h.left]
                 r == shown[h.right]
             IN CASE order = "preorder" -> me \o l \o r
                  [] order = "inorder" -> l \o me \o r
                  [] order = "postorder" -> l \o r \o me
  IN shown[node]

Sorted == traverse_node(root, "inorder")

Held == ToSet(Sorted)

-----------------------------------------------------------------------------
Create ==
  /\ ~alive
  /\ alive' \in BOOLEAN
  /\ root' = NIL
  /\ seen' = <<>> /\ res' = Pending

\* The nodes are freed, and their items handed to the callback, bottom up.
node_destroy(node) == traverse_node(node, "postorder")

\* A plausible slip: the handle is freed and the nodes are not.
DestroyHandle ==
  /\ alive
  /\ alive' = FALSE
  /\ UNCHANGED root
  /\ seen' = node_destroy(root)
  /\ res' = Answer("destroy", {}, 0, ToSet(seen'))

Destroy ==
  /\ alive
  /\ alive' = FALSE
  /\ root' = NIL
  /\ seen' = node_destroy(root)
  /\ res' = Answer("destroy", {}, 0, ToSet(seen'))

Refuse ==
  /\ seen' = <<>> /\ res' = Refusal
  /\ UNCHANGED <<alive, root>>

Search(k) ==
  /\ alive
  /\ LET found == search_node(root, k)
     IN res' = Answer("get", k, IF found = {} THEN 1 ELSE 0, found)
  /\ seen' = <<>>
  /\ UNCHANGED <<alive, root>>

Traverse(order) ==
  /\ alive
  /\ seen' = traverse_node(root, order)
  /\ res' = Answer("traverse", order, 0, ToSet(seen'))
  /\ UNCHANGED <<alive, root>>

Common ==
  \/ Create
  \/ Destroy
  \/ Refuse
  \/ \E k \in Key : Search(k)
  \/ \E order \in Orders : Traverse(order)

-----------------------------------------------------------------------------
\* The types; and no node outlives its tree.
TypeOK ==
  /\ alive \in BOOLEAN
  /\ ~alive => root = NIL
  /\ Held \subseteq Item
  /\ ToSet(seen) \subseteq Item
  /\ res.out \subseteq Item

(***************************************************************************)
(* The tree stays a search tree through every rotation, recolouring and    *)
(* replacement by a successor, and holds no key twice: its items from left *)
(* to right are strictly ascending.                                        *)
(***************************************************************************)
Ascending(s) == \A m, n \in DOMAIN s : m < n => s[m].key < s[n].key

SearchTree == Ascending(Sorted)

Dict == INSTANCE Dictionary WITH held <- Held

\* The tree answers as an atomic dictionary does.
Implements == Dict!Spec
=============================================================================
