----------------------------- MODULE KeyedGraph -----------------------------
(***************************************************************************)
(* What graph.h and digraph.h promise of the graph itself: keys numbered   *)
(* in the order they were added, and arcs between them.  An undirected     *)
(* edge is an arc each way.  A call that finds no memory answers -1 and    *)
(* changes nothing.                                                        *)
(***************************************************************************)
EXTENDS Integers, Sequences, BagsExt

CONSTANTS
  Key,        \* vertex keys
  Weight      \* edge weights

VARIABLES
  alive,      \* create has succeeded and destroy has not been called
  keys,       \* the keys, in the order of their vertices
  arcs,       \* a bag of <<from, edge>>, edge.to being a key
  res         \* last answer

vars == <<alive, keys, arcs, res>>

Answer(op, arg, rc, out) == [op |-> op, arg |-> arg, rc |-> rc, out |-> out]
None == Answer("none", <<>>, 0, <<>>)
Refusal == Answer("refused", <<>>, -1, <<>>)

NoArcs == [a \in {} |-> 0]

Has(k) == \E i \in DOMAIN keys : keys[i] = k

Init == alive = FALSE /\ keys = <<>> /\ arcs = NoArcs /\ res = None

Create ==
  /\ ~alive
  /\ alive' \in BOOLEAN
  /\ keys' = <<>> /\ arcs' = NoArcs
  /\ res' = None

Refuse == res' = Refusal /\ UNCHANGED <<alive, keys, arcs>>

AddVertex(k) ==
  /\ alive
  /\ \/ res' = Answer("vertex", k, 1, <<>>) /\ Has(k) /\ UNCHANGED keys
     \/ res' = Answer("vertex", k, 0, <<>>) /\ ~Has(k) /\ keys' = Append(keys, k)
     \/ res' = Answer("vertex", k, -1, <<>>) /\ ~Has(k) /\ UNCHANGED keys
  /\ UNCHANGED <<alive, arcs>>

\* `more` is the bag of arcs with those that u and v ask for.
Add(op, u, v, arg, more) ==
  /\ alive
  /\ \/ res' = Answer(op, arg, 1, <<>>) /\ ~(Has(u) /\ Has(v)) /\ UNCHANGED arcs
     \/ res' = Answer(op, arg, 0, <<>>) /\ Has(u) /\ Has(v) /\ arcs' = more
     \/ res' = Answer(op, arg, -1, <<>>) /\ Has(u) /\ Has(v) /\ UNCHANGED arcs
  /\ UNCHANGED <<alive, keys>>

AddEdge(u, v, w) ==
  Add("edge", u, v, <<u, v, w>>,
      BagAdd(BagAdd(arcs, <<u, [to |-> v, weight |-> w]>>), <<v, [to |-> u, weight |-> w]>>))

AddArc(u, v) == Add("arc", u, v, <<u, v>>, BagAdd(arcs, <<u, [to |-> v]>>))

VertexKey(i) ==
  /\ alive
  /\ res' = Answer("key", i, 0, IF i < Len(keys) THEN <<keys[i + 1]>> ELSE <<>>)
  /\ UNCHANGED <<alive, keys, arcs>>

VertexCount ==
  /\ alive
  /\ res' = Answer("count", <<>>, Len(keys), <<>>)
  /\ UNCHANGED <<alive, keys, arcs>>

\* The keys go back to the caller.
Destroy ==
  /\ alive
  /\ alive' = FALSE
  /\ keys' = <<>> /\ arcs' = NoArcs
  /\ res' = Answer("destroy", <<>>, 0, keys)

Next ==
  \/ Create \/ Refuse \/ VertexCount \/ Destroy
  \/ \E k \in Key : AddVertex(k)
  \/ \E i \in 0 .. Len(keys) : VertexKey(i)
  \/ \E u, v \in Key : AddArc(u, v) \/ \E w \in Weight : AddEdge(u, v, w)

Spec == Init /\ [][Next]_vars
=============================================================================
