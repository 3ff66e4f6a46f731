------------------------------- MODULE MCTrees -------------------------------
(***************************************************************************)
(* Both search trees in one run.  `impl` never changes: a behaviour is one *)
(* of bst.c or one of rbtree.c.                                            *)
(***************************************************************************)
EXTENDS BST, RBTree

CONSTANTS
  Keys,         \* the integer keys
  BSTKeys,      \* those of them that a bst.c tree holds at a time
  Impls         \* the implementations to run

VARIABLE impl

\* One value per key, and a second one for key 1 to see whether it overwrites.
MCItem == [key : Keys, val : {"v"}] \cup [key : {1}, val : {"w"}]

mcvars == <<vars, impl>>

MCInit == Init /\ impl \in Impls

MCNext ==
  /\ impl' = impl
  /\ \/ /\ impl = "bst"
        /\ BSTNext
        /\ {it.key : it \in Held'} \subseteq BSTKeys
     \/ impl = "rbtree" /\ RBNext

MCSpec == MCInit /\ [][MCNext]_mcvars

\* A dump restores the shape of a bst.c tree, whose traversals are rbtree.c's
\* too; there inserting recolours and rotates.
BSTTraversals == (impl = "bst") => Traversals

\* The colours of rbtree.c keep its tree balanced.
Balanced == (impl = "rbtree") => RedBlack
=============================================================================
