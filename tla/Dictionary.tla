----------------------------- MODULE Dictionary -----------------------------
(***************************************************************************)
(* What hash.h, bst.h and rbtree.h promise of put / insert, get / search   *)
(* and delete / remove: a table holds at most one item for a key, keeps    *)
(* the first until it is removed, and hands every item back exactly once,  *)
(* by delete or by destroy.  Calls are answered at once; an insertion may  *)
(* be refused for want of memory, and then changes nothing.                *)
(***************************************************************************)
EXTENDS Integers

CONSTANT
  Item        \* the items callers insert: records with a key and a val

VARIABLES
  alive,      \* create has succeeded and destroy has not been called
  held,       \* the items in the table
  res         \* last answer

vars == <<alive, held, res>>

Key == {it.key : it \in Item}

(***************************************************************************)
(* An answer: the call, its argument, its return code and the items it     *)
(* handed to the caller, through *out or through the destroy callback.     *)
(***************************************************************************)
Answer(op, arg, rc, out) == [op |-> op, arg |-> arg, rc |-> rc, out |-> out]

Pending == Answer("none", {}, 0, {})

Refusal == Answer("refused", {}, -1, {})

With(k) == {it \in held : it.key = k}

Init == alive = FALSE /\ held = {} /\ res = Pending

Create ==
  /\ ~alive
  /\ alive' \in BOOLEAN
  /\ held' = {}
  /\ res' = Pending

Begin == res' = Pending /\ UNCHANGED <<alive, held>>

\* A NULL table, key or out pointer.
Refuse == res' = Refusal /\ UNCHANGED <<alive, held>>

Put(it) ==
  /\ alive
  /\ With(it.key) = {}
  /\ held' = held \cup {it}
  /\ res' = Answer("put", it, 0, {})
  /\ UNCHANGED alive

PutExisting(it) ==
  /\ alive
  /\ With(it.key) # {}
  /\ res' = Answer("put", it, 1, {})
  /\ UNCHANGED <<alive, held>>

PutFailed(it) ==
  /\ alive
  /\ res' = Answer("put", it, -1, {})
  /\ UNCHANGED <<alive, held>>

Get(k) ==
  /\ alive
  /\ res' = Answer("get", k, IF With(k) = {} THEN 1 ELSE 0, With(k))
  /\ UNCHANGED <<alive, held>>

Delete(k) ==
  /\ alive
  /\ res' = Answer("delete", k, IF With(k) = {} THEN 1 ELSE 0, With(k))
  /\ held' = held \ With(k)
  /\ UNCHANGED alive

\* A traversal shows its visitor every item (the trees; hash.h has none).
Traverse(order) ==
  /\ alive
  /\ res' = Answer("traverse", order, 0, held)
  /\ UNCHANGED <<alive, held>>

Destroy ==
  /\ alive
  /\ alive' = FALSE
  /\ held' = {}
  /\ res' = Answer("destroy", {}, 0, held)

Next ==
  \/ Create
  \/ Begin
  \/ Refuse
  \/ \E it \in Item : Put(it) \/ PutExisting(it) \/ PutFailed(it)
  \/ \E k \in Key : Get(k) \/ Delete(k)
  \/ \E order \in {"preorder", "inorder", "postorder"} : Traverse(order)
  \/ Destroy

Spec == Init /\ [][Next]_vars
=============================================================================
