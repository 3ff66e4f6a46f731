------------------------------- MODULE Linear -------------------------------
(***************************************************************************)
(* list.c, stack.c and queue.c: nodes on the heap, linked from head (the   *)
(* stack's top) to NULL, with a tail in the list and the queue.  pop,      *)
(* peek, size and destroy are the same code in the three files; the stack  *)
(* pushes at the front, the queue at the back and the list at either end.  *)
(***************************************************************************)
EXTENDS Integers, FiniteSets, Sequences

CONSTANTS
  Item,         \* items callers push
  Node,         \* addresses malloc can return for a node
  NULL,         \* the null pointer
  Kinds         \* "list", "stack", "queue": the files modelled

ASSUME NullAssumption == NULL \notin Node
ASSUME NodeAssumption == IsFiniteSet(Node)
ASSUME KindAssumption == Kinds \subseteq {"list", "stack", "queue"}

VARIABLES
  kind,         \* which of the files the handle belongs to
  pc,           \* "none": no handle; "idle"; "destroy": in destroy's loop
  head, tail, size,
  item, next,   \* the fields of every node, allocated or not
  live,         \* the nodes allocated and not yet freed
  cur, handed,  \* destroy: the loop's node, and the items it has handed out
  chain,        \* auxiliary: the nodes that ought to be linked, in order
  res           \* last answer

handle == <<head, tail, size>>
nodes == <<item, next, live>>
vars == <<kind, pc, handle, nodes, cur, handed, chain, res>>

Answer(op, arg, rc, out) == [op |-> op, arg |-> arg, rc |-> rc, out |-> out]
None == Answer("none", <<>>, 0, <<>>)
Refusal == Answer("refused", <<>>, -1, <<>>)

\* Memory holds anything before it is first written.
Init ==
  /\ kind \in Kinds
  /\ pc = "none"
  /\ head = NULL /\ tail = NULL /\ size = 0
  /\ item \in [Node -> Item] /\ next \in [Node -> Node \cup {NULL}]
  /\ live = {} /\ cur = NULL /\ handed = <<>>
  /\ chain = <<>>
  /\ res = None

-----------------------------------------------------------------------------
Create ==
  /\ pc = "none"
  /\ pc' \in {"none", "idle"}
  /\ head' = NULL /\ tail' = NULL /\ size' = 0
  /\ res' = None
  /\ UNCHANGED <<kind, nodes, cur, handed, chain>>

(***************************************************************************)
(* A NULL handle or output pointer, a malloc that fails, or a pop or peek  *)
(* of an empty sequence.                                                   *)
(***************************************************************************)
Refuse ==
  /\ pc # "destroy"
  /\ res' = Refusal
  /\ UNCHANGED <<kind, pc, handle, nodes, cur, handed, chain>>

\* What the pushes have in common: a node from malloc, and two fields to fill.
Allocate(op, n, it) ==
  /\ pc = "idle"
  /\ n \in Node \ live
  /\ live' = live \cup {n}
  /\ item' = [item EXCEPT ![n] = it]
  /\ size' = size + 1
  /\ res' = Answer(op, <<it>>, 0, <<>>)
  /\ UNCHANGED <<kind, pc, cur, handed>>

StackPush(n, it) ==
  /\ kind = "stack"
  /\ Allocate("push_front", n, it)
  /\ next' = [next EXCEPT ![n] = head]
  /\ head' = n
  /\ chain' = <<n>> \o chain
  /\ UNCHANGED tail

PushFront(n, it) ==
  /\ kind = "list"
  /\ Allocate("push_front", n, it)
  /\ next' = [next EXCEPT ![n] = head]
  /\ head' = n
  /\ tail' = IF tail = NULL THEN n ELSE tail
  /\ chain' = <<n>> \o chain

\* A plausible slip: the new node is linked and tail stays where it was.
PushBackOldTail(n, it) ==
  /\ kind \in {"list", "queue"}
  /\ Allocate("push_back", n, it)
  /\ IF tail = NULL
     THEN head' = n /\ tail' = n /\ next' = [next EXCEPT ![n] = NULL]
     ELSE /\ next' = [next EXCEPT ![n] = NULL, ![tail] = n]
          /\ UNCHANGED <<head, tail>>
  /\ chain' = Append(chain, n)

\* push_back of the list, enqueue of the queue.
PushBack(n, it) ==
  /\ kind \in {"list", "queue"}
  /\ Allocate("push_back", n, it)
  /\ IF tail = NULL
     THEN head' = n /\ next' = [next EXCEPT ![n] = NULL]
     ELSE next' = [next EXCEPT ![n] = NULL, ![tail] = n] /\ UNCHANGED head
  /\ tail' = n
  /\ chain' = Append(chain, n)

\* A plausible slip: the tail is left pointing to the node that is freed.
TailKept(h) == tail

TailAfterPop(h) == IF h = NULL THEN NULL ELSE tail

\* A plausible slip: the size is not counted down.
SizeKept == size

SizeAfterPop == size - 1

\* A freed node is the allocator's: what it holds from now on is anything.
Free(n) ==
  /\ live' = live \ {n}
  /\ item' \in {[item EXCEPT ![n] = it] : it \in Item}
  /\ next' \in {[next EXCEPT ![n] = m] : m \in Node \cup {NULL}}

\* The stack has no tail to reset; here its tail is always NULL.
Pop ==
  /\ pc = "idle" /\ head # NULL
  /\ res' = Answer("pop", <<>>, 0, <<item[head]>>)
  /\ head' = next[head]
  /\ tail' = TailAfterPop(next[head])
  /\ size' = SizeAfterPop
  /\ Free(head)
  /\ chain' = Tail(chain)
  /\ UNCHANGED <<kind, pc, cur, handed>>

Peek ==
  /\ pc = "idle" /\ head # NULL
  /\ res' = Answer("peek", <<>>, 0, <<item[head]>>)
  /\ UNCHANGED <<kind, pc, handle, nodes, cur, handed, chain>>

Size ==
  /\ pc = "idle"
  /\ res' = Answer("size", <<>>, size, <<>>)
  /\ UNCHANGED <<kind, pc, handle, nodes, cur, handed, chain>>

-----------------------------------------------------------------------------
Destroy ==
  /\ pc = "idle"
  /\ pc' = "destroy" /\ cur' = head
  /\ UNCHANGED <<kind, handle, nodes, handed, chain, res>>

\* A turn of destroy's loop: the link is read before the node is freed.
DestroyNode ==
  /\ pc = "destroy" /\ cur # NULL
  /\ handed' = Append(handed, item[cur])
  /\ Free(cur)
  /\ cur' = next[cur]
  /\ chain' = Tail(chain)
  /\ UNCHANGED <<kind, pc, handle, res>>

DestroyReturn ==
  /\ pc = "destroy" /\ cur = NULL
  /\ pc' = "none"
  /\ head' = NULL /\ tail' = NULL /\ size' = 0
  /\ handed' = <<>>
  /\ res' = Answer("destroy", <<>>, 0, handed)
  /\ UNCHANGED <<kind, nodes, cur, chain>>

Next ==
  \/ Create \/ Refuse \/ Pop \/ Peek \/ Size
  \/ \E n \in Node, it \in Item : StackPush(n, it) \/ PushFront(n, it) \/ PushBack(n, it)
  \/ Destroy \/ DestroyNode \/ DestroyReturn

Spec == Init /\ [][Next]_vars

-----------------------------------------------------------------------------
\* The types, and a size no larger than the number of nodes there are.
TypeOK ==
  /\ kind \in Kinds
  /\ pc \in {"none", "idle", "destroy"}
  /\ {head, tail, cur} \subseteq Node \cup {NULL}
  /\ size \in 0 .. Cardinality(Node)
  /\ item \in [Node -> Item]
  /\ next \in [Node -> Node \cup {NULL}]
  /\ live \subseteq Node
  /\ chain \in Seq(Node) /\ handed \in Seq(Item)

At(k) == IF k \in DOMAIN chain THEN chain[k] ELSE NULL

(***************************************************************************)
(* The links are the chain: following next from head (in destroy, from     *)
(* cur) one meets exactly the nodes allocated and not freed, each once,    *)
(* and then NULL; tail is the last of them, NULL when there is none, and   *)
(* size counts them.  So nothing names a freed node and nothing leaks.     *)
(***************************************************************************)
Linked ==
  /\ \A j, k \in DOMAIN chain : chain[j] = chain[k] => j = k
  /\ \A k \in DOMAIN chain : next[chain[k]] = At(k + 1)
  /\ live = {chain[k] : k \in DOMAIN chain}
  /\ pc = "destroy" => cur = At(1)
  /\ pc # "destroy" =>
       /\ head = At(1)
       /\ tail = IF kind = "stack" THEN NULL ELSE At(Len(chain))
       /\ size = Len(chain)
       /\ cur = NULL /\ handed = <<>>
  /\ pc = "none" => chain = <<>>

Items == [k \in DOMAIN chain |-> item[chain[k]]]

Seqs == INSTANCE ItemSequence WITH alive <- (pc # "none"), held <- handed \o Items

\* The links answer as an abstract sequence does, each kind pushed at its own
\* ends: a stack is last in, first out, a queue first in, first out, and
\* destroy's callbacks come in that order too.
Implements == Seqs!Spec
=============================================================================
