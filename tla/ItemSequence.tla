---------------------------- MODULE ItemSequence ----------------------------
(***************************************************************************)
(* What list.h, stack.h and queue.h promise: a sequence of items, popped   *)
(* and peeked at the front.  A stack is pushed at the front, a queue at    *)
(* the back and a list at either end.  A push may be refused for want of   *)
(* memory, and then changes nothing.                                       *)
(***************************************************************************)
EXTENDS Integers, Sequences

CONSTANTS
  Item,       \* the items callers push
  Kinds       \* "list", "stack", "queue": the headers considered

VARIABLES
  kind,       \* which of them the handle belongs to
  alive,      \* create has succeeded and destroy has not been called
  held,       \* the items, front first
  res         \* last answer

vars == <<kind, alive, held, res>>

(***************************************************************************)
(* An answer: the call, the item it was given if any, its return value and *)
(* the items handed to the caller, through *out or through the destroy     *)
(* callback, in order.                                                     *)
(***************************************************************************)
Answer(op, arg, rc, out) == [op |-> op, arg |-> arg, rc |-> rc, out |-> out]

None == Answer("none", <<>>, 0, <<>>)

Refusal == Answer("refused", <<>>, -1, <<>>)

Init == kind \in Kinds /\ alive = FALSE /\ held = <<>> /\ res = None

Create ==
  /\ ~alive
  /\ alive' \in BOOLEAN
  /\ held' = <<>>
  /\ res' = None
  /\ UNCHANGED kind

\* A NULL handle or output pointer, no memory, or nothing to pop or peek at.
Refuse == res' = Refusal /\ UNCHANGED <<kind, alive, held>>

PushFront(it) ==
  /\ alive /\ kind # "queue"
  /\ held' = <<it>> \o held
  /\ res' = Answer("push_front", <<it>>, 0, <<>>)
  /\ UNCHANGED <<kind, alive>>

PushBack(it) ==
  /\ alive /\ kind # "stack"
  /\ held' = Append(held, it)
  /\ res' = Answer("push_back", <<it>>, 0, <<>>)
  /\ UNCHANGED <<kind, alive>>

Pop ==
  /\ alive /\ held # <<>>
  /\ held' = Tail(held)
  /\ res' = Answer("pop", <<>>, 0, <<Head(held)>>)
  /\ UNCHANGED <<kind, alive>>

Peek ==
  /\ alive /\ held # <<>>
  /\ res' = Answer("peek", <<>>, 0, <<Head(held)>>)
  /\ UNCHANGED <<kind, alive, held>>

Size ==
  /\ alive
  /\ res' = Answer("size", <<>>, Len(held), <<>>)
  /\ UNCHANGED <<kind, alive, held>>

Destroy ==
  /\ alive
  /\ alive' = FALSE
  /\ held' = <<>>
  /\ res' = Answer("destroy", <<>>, 0, held)
  /\ UNCHANGED kind

Next ==
  \/ Create \/ Refuse \/ Pop \/ Peek \/ Size \/ Destroy
  \/ \E it \in Item : PushFront(it) \/ PushBack(it)

Spec == Init /\ [][Next]_vars
=============================================================================
