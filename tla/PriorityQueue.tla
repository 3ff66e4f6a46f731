---------------------------- MODULE PriorityQueue ----------------------------
(***************************************************************************)
(* What heap.h promises: a bag of items from which extract takes one of    *)
(* those with the largest key.  The same item may be inserted twice; which *)
(* of several largest items comes first is not promised.                   *)
(***************************************************************************)
EXTENDS Integers, BagsExt

FS == INSTANCE FiniteSets

CONSTANT
  Item        \* the items callers insert: records with an integer key and a val

VARIABLES
  alive,      \* create has succeeded and destroy has not been called
  held,       \* the bag of items
  res         \* last answer

vars == <<alive, held, res>>

\* The bag without items, and the bag of one item.
Nothing == [it \in {} |-> 0]
One(it) == BagAdd(Nothing, it)

(***************************************************************************)
(* An answer: the call, the bag of items that went in or out with it, and  *)
(* its return value.                                                       *)
(***************************************************************************)
Answer(op, items, rc) == [op |-> op, items |-> items, rc |-> rc]

None == Answer("none", Nothing, 0)

Refusal == Answer("refused", Nothing, -1)

\* Every copy of every item, told apart by a number.
Copies == UNION {{it} \X (1 .. held[it]) : it \in DOMAIN held}

Largest == {it \in DOMAIN held : \A other \in DOMAIN held : it.key >= other.key}

Init == alive = FALSE /\ held = Nothing /\ res = None

Create ==
  /\ ~alive
  /\ alive' \in BOOLEAN
  /\ held' = Nothing
  /\ res' = None

\* A NULL heap or output pointer, or nothing to extract or to peek at.
Refuse == res' = Refusal /\ UNCHANGED <<alive, held>>

Insert(it) ==
  /\ alive
  /\ held' = BagAdd(held, it)
  /\ res' = Answer("insert", One(it), 0)
  /\ UNCHANGED alive

\* The array could not grow.
InsertFailed(it) ==
  /\ alive
  /\ res' = Answer("insert", One(it), -1)
  /\ UNCHANGED <<alive, held>>

Extract(it) ==
  /\ alive
  /\ it \in Largest
  /\ held' = BagRemove(held, it)
  /\ res' = Answer("extract", One(it), 0)
  /\ UNCHANGED alive

Peek(it) ==
  /\ alive
  /\ it \in Largest
  /\ res' = Answer("peek", One(it), 0)
  /\ UNCHANGED <<alive, held>>

Size ==
  /\ alive
  /\ res' = Answer("size", Nothing, FS!Cardinality(Copies))
  /\ UNCHANGED <<alive, held>>

Destroy ==
  /\ alive
  /\ alive' = FALSE
  /\ held' = Nothing
  /\ res' = Answer("destroy", held, 0)

Next ==
  \/ Create \/ Refuse \/ Size \/ Destroy
  \/ \E it \in Item : Insert(it) \/ InsertFailed(it) \/ Extract(it) \/ Peek(it)

Spec == Init /\ [][Next]_vars
=============================================================================
