----------------------------- MODULE RootForest -----------------------------
(***************************************************************************)
(* What uf_qu.c and uf_wqupc.c have in common: a forest of parent links    *)
(* whose roots (parent[r] = r) represent the classes, and operations that  *)
(* climb to one or two roots and then answer.  The root() loop of each     *)
(* file and the link its union makes are in QuickUnion and in              *)
(* WeightedQuickUnion.                                                     *)
(***************************************************************************)
EXTENDS UnionFind

VARIABLES
  parent,     \* uf->parent
  rep,        \* history: the representative the links made so far give
  cur,        \* root()'s p, the climbing cursor
  root_p,     \* what the first root() returned
  pc,         \* "idle", or which of its roots the call climbs to
  call,       \* what the caller asked
  res         \* last answer

forest == <<parent, rep>>
ctl == <<pc, call, cur, root_p>>

NoCall == [op |-> "none", p |-> 0, q |-> 0]

\* A plausible slip: create's loop starts at 1 and leaves parent[0] as malloc
\* returned it, which may be any value.
InitFromOne ==
  /\ parent \in {[x \in Elem |-> IF x = 0 THEN g ELSE x] : g \in 0 .. N}
  /\ rep = [x \in Elem |-> x]
  /\ pc = "idle" /\ call = NoCall /\ cur = 0 /\ root_p = 0
  /\ res = Pending(0)

Init ==
  /\ parent = [x \in Elem |-> x]
  /\ rep = [x \in Elem |-> x]
  /\ pc = "idle" /\ call = NoCall /\ cur = 0 /\ root_p = 0
  /\ res = Pending(0)

Reject(p, q, null) ==
  /\ pc = "idle"
  /\ Refused(p, q, null)
  /\ res' = Refusal(res.out)
  /\ UNCHANGED <<forest, ctl>>

(***************************************************************************)
(* An accepted call starts to climb from p.  find has one index (q = p).   *)
(* C leaves open which of connected's two root() calls comes first: the    *)
(* other order is this action with p and q exchanged.                      *)
(***************************************************************************)
Call(op, p, q) ==
  /\ pc = "idle"
  /\ p \in Elem /\ q \in Elem
  /\ op = "find" => p = q
  /\ call' = [op |-> op, p |-> p, q |-> q]
  /\ pc' = "climb_p"
  /\ cur' = p
  /\ res' = Pending(res.out)
  /\ UNCHANGED <<forest, root_p>>

AtRoot == parent[cur] = cur

Climbing == pc \in {"climb_p", "climb_q"} /\ ~AtRoot

\* root_p = root(uf, p) is known, root(uf, q) begins.
SecondRoot ==
  /\ pc = "climb_p" /\ AtRoot
  /\ call.op # "find"
  /\ root_p' = cur
  /\ cur' = call.q
  /\ pc' = "climb_q"
  /\ UNCHANGED <<forest, call, res>>

Return(answer) ==
  /\ pc' = "idle" /\ call' = NoCall /\ cur' = 0 /\ root_p' = 0
  /\ res' = answer

FindReturn ==
  /\ pc = "climb_p" /\ AtRoot
  /\ call.op = "find"
  /\ Return(Answer("find", call.p, call.p, 0, cur))
  /\ UNCHANGED forest

ConnectedReturn ==
  /\ pc = "climb_q" /\ AtRoot
  /\ call.op = "connected"
  /\ Return(Answer("connected", call.p, call.q, 0, AsBit(root_p = cur)))
  /\ UNCHANGED forest

\* The tail of union when both roots are known, before it chooses a link.
UnionReturn ==
  /\ pc = "climb_q" /\ AtRoot
  /\ call.op = "union"
  /\ Return(Answer("union", call.p, call.q, 0, res.out))

\* Two roots that are one need no link.
SameTree ==
  /\ UnionReturn
  /\ root_p = cur
  /\ UNCHANGED <<parent, rep>>

Request ==
  \E p, q \in Index :
    \/ \E null \in BOOLEAN : Reject(p, q, null)
    \/ \E op \in {"find", "connected", "union"} : Call(op, p, q)

\* The steps that leave the forest as it is.
Passive ==
  \/ Request
  \/ SecondRoot
  \/ FindReturn
  \/ ConnectedReturn
  \/ SameTree

-----------------------------------------------------------------------------
TypeOK ==
  /\ parent \in [Elem -> Elem]
  /\ rep \in [Elem -> Elem]
  /\ pc \in {"idle", "climb_p", "climb_q"}
  /\ call \in [op : {"none", "find", "connected", "union"}, p : Nat, q : Nat]
  /\ cur \in Nat /\ root_p \in Nat
  /\ res \in AnswerType

(***************************************************************************)
(* The links are the classes: a link joins an element to one of its own    *)
(* class, a root stands for its own class, and a climb has not left the    *)
(* class it started in, whatever was relinked under it on the way.         *)
(***************************************************************************)
LinksInv ==
  \A x \in Elem :
    /\ rep[parent[x]] = rep[x]
    /\ parent[x] = x => rep[x] = x
    /\ parent[rep[x]] = rep[x]

ClimbInv ==
  /\ pc # "idle" =>
       /\ call.op # "none"
       /\ call.p \in Elem \cap Index /\ call.q \in Elem \cap Index
       /\ cur \in Elem
       /\ call.op = "find" => call.p = call.q
  /\ pc = "climb_p" => rep[cur] = rep[call.p]
  /\ pc = "climb_q" =>
       /\ call.op # "find"
       /\ rep[cur] = rep[call.q]
       /\ root_p = rep[call.p]

ForestInv == LinksInv /\ ClimbInv

DS == INSTANCE DisjointSets

\* The climbing implementations answer as an atomic union-find does.
Implements == DS!Spec

\* Every call comes back: the links hold no cycle for root() to run round.
Returns == (pc # "idle") ~> (pc = "idle")
=============================================================================
