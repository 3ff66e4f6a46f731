------------------------------- MODULE RBTree -------------------------------
(***************************************************************************)
(* rbtree.c: the left-leaning red-black tree.                              *)
(***************************************************************************)
EXTENDS OrderedTree

CONSTANT
  NodeMayFail   \* may malloc fail for a node of a tree that is not empty?

ASSUME FailAssumption == NodeMayFail \in BOOLEAN

is_red(h) == h # NIL /\ h.red

rotate_left(h) ==
  Node(h.right.item, Node(h.item, h.left, h.right.left, TRUE), h.right.right, h.red)

rotate_right(h) ==
  Node(h.left.item, h.left.left, Node(h.item, h.left.right, h.right, TRUE), h.red)

Toggled(h) == IF h = NIL THEN NIL ELSE [h EXCEPT !.red = ~@]

flip_colors(h) == Node(h.item, Toggled(h.left), Toggled(h.right), ~h.red)

fix_up(h) ==
  LET a == IF is_red(h.right) /\ ~is_red(h.left) THEN rotate_left(h) ELSE h
      b == IF is_red(a.left) /\ is_red(a.left.left) THEN rotate_right(a) ELSE a
  IN IF is_red(b.left) /\ is_red(b.right) THEN flip_colors(b) ELSE b

move_red_left(h) ==
  LET f == flip_colors(h)
  IN IF is_red(f.right) /\ is_red(f.right.left)
       THEN flip_colors(rotate_left([f EXCEPT !.right = rotate_right(f.right)]))
       ELSE f

move_red_right(h) ==
  LET f == flip_colors(h)
  IN IF is_red(f.left) /\ is_red(f.left.left)
       THEN flip_colors(rotate_right(f))
       ELSE f

\* Two black links in a row on the left, resp. to the right: borrow a red.
LeftPoor(h) == ~is_red(h.left) /\ ~is_red(h.left.left)
RightPoor(h) == ~is_red(h.right) /\ ~is_red(h.right.left)

\* A plausible slip: no red is borrowed on the way down to the minimum.
DeleteMinPoor(node) ==
  LET without[h \in Tree \ {NIL}] ==
        IF h.left = NIL THEN NIL
        ELSE fix_up([h EXCEPT !.left = without[h.left]])
  IN without[node]

RedLeft(h) == IF LeftPoor(h) THEN move_red_left(h) ELSE h

MinRemoval(h, without) ==
  IF h.left = NIL THEN NIL
  ELSE LET g == RedLeft(h) IN fix_up([g EXCEPT !.left = without[g.left]])

delete_min(node) ==
  LET without[h \in Tree \ {NIL}] == MinRemoval(h, without)
  IN without[node]

(***************************************************************************)
(* insert_node: the subtree with the item in it.  Without memory for the   *)
(* leaf the link it would hang from stays NULL.                            *)
(***************************************************************************)
Insertion(h, it, memory, with) ==
  IF h = NIL THEN IF memory THEN Leaf(it, TRUE) ELSE NIL
  ELSE fix_up(
    IF it.key < h.item.key THEN [h EXCEPT !.left = with[h.left]]
    ELSE IF it.key > h.item.key THEN [h EXCEPT !.right = with[h.right]]
    ELSE h)

rbtree_insert_node(node, it, memory) ==
  LET with[h \in Tree] == Insertion(h, it, memory, with)
  IN with[node]

(***************************************************************************)
(* remove_node: the subtree without the key and what was put in *out.      *)
(***************************************************************************)
Without(h, out) == [h |-> h, out |-> out]

RemovalLeft(h, without) ==
  LET g == IF h.left = NIL THEN h ELSE RedLeft(h)
      r == without[g.left]
  IN Without(fix_up([g EXCEPT !.left = r.h]), r.out)

LeanRight(h) == IF is_red(h.left) THEN rotate_right(h) ELSE h

RedRight(h) == IF RightPoor(h) THEN move_red_right(h) ELSE h

RemovalRight(h, k, without) ==
  LET g == LeanRight(h)
      f == IF g.right = NIL THEN g ELSE RedRight(g)
      r == without[f.right]
  IN IF k = g.item.key /\ g.right = NIL THEN Without(NIL, {g.item})
     ELSE IF k = f.item.key
       THEN LET min == min_node(f.right).item
            IN Without(fix_up(Node(min, f.left, delete_min(f.right), f.red)), {f.item})
     ELSE Without(fix_up([f EXCEPT !.right = r.h]), r.out)

RBRemoval(h, k, without) ==
  IF h = NIL THEN Without(NIL, {})
  ELSE IF k < h.item.key THEN RemovalLeft(h, without)
  ELSE RemovalRight(h, k, without)

rbtree_remove_node(node, k) ==
  LET without[h \in Tree] == RBRemoval(h, k, without)
  IN without[node]

Blackened(h) == IF h = NIL THEN NIL ELSE [h EXCEPT !.red = FALSE]

-----------------------------------------------------------------------------
(***************************************************************************)
(* insert.  `inserted` is set before the leaf is allocated, and only an    *)
(* empty tree makes a failed allocation visible: elsewhere insert answers  *)
(* 0 with or without memory.                                               *)
(***************************************************************************)
RBInsert(it) ==
  /\ alive
  /\ \E memory \in BOOLEAN :
       /\ memory \/ root = NIL \/ NodeMayFail
       /\ root' = Blackened(rbtree_insert_node(root, it, memory))
       /\ res' = Answer("put", it, CASE root' = NIL -> -1
                                     [] root' # NIL /\ search_node(root, it.key) = {} -> 0
                                     [] OTHER -> 1, {})
  /\ seen' = <<>>
  /\ UNCHANGED alive

RBDelete(k) ==
  /\ alive
  /\ LET r == rbtree_remove_node(root, k)
     IN /\ root' = Blackened(r.h)
        /\ res' = Answer("delete", k, IF r.out = {} THEN 1 ELSE 0, r.out)
  /\ seen' = <<>>
  /\ UNCHANGED alive

RBNext ==
  \/ Common
  \/ \E it \in Item : RBInsert(it)
  \/ \E k \in Key : RBDelete(k)

RBSpec == Init /\ [][RBNext]_vars

-----------------------------------------------------------------------------
(***************************************************************************)
(* The balance that keeps the height near log(n), after every insertion,   *)
(* every removal and every removal of a key that is not there: the root is *)
(* black, red links lean left and never follow each other, and every path  *)
(* to a NULL passes the same number of black links.                        *)
(***************************************************************************)
Leaning(node) ==
  LET leaning[h \in Tree] ==
        h # NIL =>
          /\ ~is_red(h.right)
          /\ is_red(h) => ~is_red(h.left)
          /\ leaning[h.left] /\ leaning[h.right]
  IN leaning[node]

\* The black heights of the paths below a node: one value when it is balanced.
BlackHeights(node) ==
  LET heights[h \in Tree] ==
        IF h = NIL THEN {0}
        ELSE {d + (IF h.red THEN 0 ELSE 1) : d \in heights[h.left] \cup heights[h.right]}
  IN heights[node]

RedBlack ==
  /\ ~is_red(root)
  /\ Leaning(root)
  /\ Cardinality(BlackHeights(root)) = 1

(***************************************************************************)
(* docs/rbtree.md: insert returns 0 on success, 1 if the key already       *)
(* exists, nonzero on error; so an insertion answered 0 is in the tree.    *)
(***************************************************************************)
Stored == (res.op = "put" /\ res.rc = 0) => res.arg \in Held
=============================================================================
