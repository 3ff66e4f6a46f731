----------------------------- MODULE QuickUnion -----------------------------
(***************************************************************************)
(* uf_qu.c: root() only reads, and union hangs p's root under q's.         *)
(***************************************************************************)
EXTENDS RootForest

vars == <<forest, ctl, res>>

Climb ==
  /\ Climbing
  /\ cur' = parent[cur]
  /\ UNCHANGED <<forest, pc, call, root_p, res>>

\* A plausible slip: hang the element p instead of its root.
LinkElement ==
  /\ UnionReturn
  /\ root_p # cur
  /\ parent' = [parent EXCEPT ![call.p] = cur]
  /\ rep' = Merged(rep, root_p, cur)

LinkRoots ==
  /\ UnionReturn
  /\ root_p # cur
  /\ parent' = [parent EXCEPT ![root_p] = cur]
  /\ rep' = Merged(rep, root_p, cur)

Work == Climb \/ SecondRoot \/ FindReturn \/ ConnectedReturn \/ SameTree \/ LinkRoots

Next == Passive \/ Climb \/ LinkRoots

\* A call that has begun runs to its end: the library never waits.
Spec == Init /\ [][Next]_vars /\ WF_vars(Work)
=============================================================================
