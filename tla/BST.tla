--------------------------------- MODULE BST ---------------------------------
(***************************************************************************)
(* bst.c: the unbalanced search tree.                                      *)
(***************************************************************************)
EXTENDS OrderedTree

\* The tree after it is inserted; the same tree when its key is there.
bst_insert_node(node, it) ==
  LET with[h \in Tree] ==
        IF h = NIL THEN Leaf(it, FALSE)
        ELSE IF it.key < h.item.key THEN [h EXCEPT !.left = with[h.left]]
        ELSE IF it.key > h.item.key THEN [h EXCEPT !.right = with[h.right]]
        ELSE h
  IN with[node]

\* A plausible slip: the successor's node is dropped with what hangs from it.
RemovalDropping(h, k, removed) ==
  LET drop[m \in Tree] ==
        IF m.left = NIL THEN NIL ELSE [m EXCEPT !.left = drop[m.left]]
  IN IF h = NIL THEN NIL
     ELSE IF k < h.item.key THEN [h EXCEPT !.left = removed[h.left][k]]
     ELSE IF k > h.item.key THEN [h EXCEPT !.right = removed[h.right][k]]
     ELSE IF h.left = NIL THEN h.right
     ELSE IF h.right = NIL THEN h.left
     ELSE Node(min_node(h.right).item, h.left, drop[h.right], h.red)

\* A plausible slip: the successor is copied up and left where it was too.
RemovalKeepingMin(h, k, removed) ==
  IF h = NIL THEN NIL
  ELSE IF k < h.item.key THEN [h EXCEPT !.left = removed[h.left][k]]
  ELSE IF k > h.item.key THEN [h EXCEPT !.right = removed[h.right][k]]
  ELSE IF h.left = NIL THEN h.right
  ELSE IF h.right = NIL THEN h.left
  ELSE [h EXCEPT !.item = min_node(h.right).item]

(***************************************************************************)
(* What becomes of h when key k is removed, given what becomes of its      *)
(* subtrees.  A node with two children takes the item of its successor,    *)
(* the least node on the right, and that item's key is removed there.      *)
(***************************************************************************)
Removal(h, k, removed) ==
  IF h = NIL THEN NIL
  ELSE IF k < h.item.key THEN [h EXCEPT !.left = removed[h.left][k]]
  ELSE IF k > h.item.key THEN [h EXCEPT !.right = removed[h.right][k]]
  ELSE IF h.left = NIL THEN h.right
  ELSE IF h.right = NIL THEN h.left
  ELSE LET min == min_node(h.right).item
       IN Node(min, h.left, removed[h.right][min.key], h.red)

bst_remove_node(node, key) ==
  LET removed[h \in Tree] == [k \in Key |-> Removal(h, k, removed)]
  IN removed[node][key]

(***************************************************************************)
(* insert: a key that is there is refused with 1; a node that cannot be    *)
(* allocated leaves the tree as it is and is reported with -1.             *)
(***************************************************************************)
BSTInsert(it) ==
  /\ alive
  /\ IF search_node(root, it.key) # {}
       THEN res' = Answer("put", it, 1, {}) /\ UNCHANGED root
       ELSE \/ res' = Answer("put", it, 0, {}) /\ root' = bst_insert_node(root, it)
            \/ res' = Answer("put", it, -1, {}) /\ UNCHANGED root
  /\ seen' = <<>>
  /\ UNCHANGED alive

BSTDelete(k) ==
  /\ alive
  /\ LET found == search_node(root, k)
     IN res' = Answer("delete", k, IF found = {} THEN 1 ELSE 0, found)
  /\ root' = bst_remove_node(root, k)
  /\ seen' = <<>>
  /\ UNCHANGED alive

BSTNext ==
  \/ Common
  \/ \E it \in Item : BSTInsert(it)
  \/ \E k \in Key : BSTDelete(k)

BSTSpec == Init /\ [][BSTNext]_vars

-----------------------------------------------------------------------------
(***************************************************************************)
(* What traversals are for: inorder lists the items sorted, preorder is a  *)
(* dump from which inserting one by one restores the very same shape, and  *)
(* postorder shows a node after everything below it, so that its mirror    *)
(* image restores the shape as well.  Each shows every item once.          *)
(***************************************************************************)
Rebuilt(s) == FoldLeft(bst_insert_node, NIL, s)

Traversals ==
  res.op = "traverse" =>
    /\ IsInjective(seen)
    /\ res.arg = "inorder" => Ascending(seen)
    /\ res.arg = "preorder" => Rebuilt(seen) = root
    /\ res.arg = "postorder" => Rebuilt(Reverse(seen)) = root
=============================================================================
