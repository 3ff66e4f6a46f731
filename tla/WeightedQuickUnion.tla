------------------------- MODULE WeightedQuickUnion -------------------------
(***************************************************************************)
(* uf_wqupc.c: root() halves the path it climbs, by pointing every other   *)
(* element at its grandparent, and union hangs the smaller tree under the  *)
(* larger one.                                                             *)
(***************************************************************************)
EXTENDS RootForest, FiniteSets

VARIABLE
  size        \* uf->size: right at the roots, left behind elsewhere

wvars == <<forest, ctl, res, size>>

WInit == Init /\ size = [x \in Elem |-> 1]

\* A plausible slip: the assignment that points the parent back down.
PointBack ==
  /\ Climbing
  /\ parent' = [parent EXCEPT ![parent[cur]] = cur]
  /\ cur' = parent'[cur]
  /\ UNCHANGED <<rep, pc, call, root_p, res, size>>

WClimb ==
  /\ Climbing
  /\ parent' = [parent EXCEPT ![cur] = parent[parent[cur]]]
  /\ cur' = parent'[cur]
  /\ UNCHANGED <<rep, pc, call, root_p, res, size>>

\* A plausible slip: the sum forgotten.
HangNoSum(under, over) ==
  /\ parent' = [parent EXCEPT ![under] = over]
  /\ rep' = Merged(rep, under, over)
  /\ size' = size

Hang(under, over) ==
  /\ parent' = [parent EXCEPT ![under] = over]
  /\ rep' = Merged(rep, under, over)
  /\ size' = [size EXCEPT ![over] = @ + size[under]]

\* A plausible slip: the comparison turned round.
LinkLarger ==
  /\ UnionReturn
  /\ root_p # cur
  /\ IF size[root_p] < size[cur] THEN Hang(cur, root_p) ELSE Hang(root_p, cur)

LinkSmaller ==
  /\ UnionReturn
  /\ root_p # cur
  /\ IF size[root_p] < size[cur] THEN Hang(root_p, cur) ELSE Hang(cur, root_p)

Step == WClimb \/ LinkSmaller

WWork ==
  \/ Step
  \/ (SecondRoot \/ FindReturn \/ ConnectedReturn \/ SameTree) /\ UNCHANGED size

WNext == (Passive /\ UNCHANGED size) \/ Step

\* A call that has begun runs to its end: the library never waits.
WSpec == WInit /\ [][WNext]_wvars /\ WF_wvars(WWork)

-----------------------------------------------------------------------------
SizeType == size \in [Elem -> 1 .. N]

(***************************************************************************)
(* The weights mean something: a root's size counts its class, however     *)
(* often paths were halved since, and sizes grow strictly along the links. *)
(* The second is why root() ends: a climb from a size to a larger one, at  *)
(* most n, cannot come round again.                                        *)
(***************************************************************************)
Class(r) == {x \in Elem : rep[x] = r}

SizeCounts == \A r \in Elem : parent[r] = r => size[r] = Cardinality(Class(r))

SizeGrows == \A x \in Elem : parent[x] # x => size[x] < size[parent[x]]

SizeInv == SizeCounts /\ SizeGrows

(***************************************************************************)
(* Every turn of root()'s loop climbs to a strictly larger size, so a call *)
(* makes fewer than n of them from each of its two starting points.        *)
(***************************************************************************)
ClimbGrows == WClimb => size[cur] < size'[cur']

(***************************************************************************)
(* Weighting keeps the trees flat: there are levels, 0 at the roots, that  *)
(* drop along every link, and an element at level d sits in a class of at  *)
(* least 2^d, halved or not.  So no climb follows more than log2 n links.  *)
(***************************************************************************)
TwoTo[d \in 0 .. N] == IF d = 0 THEN 1 ELSE 2 * TwoTo[d - 1]

Levels(level) ==
  \A x \in Elem :
    IF parent[x] = x THEN level[x] = 0 ELSE level[parent[x]] < level[x]

LogDepth ==
  \E level \in [Elem -> 0 .. N - 1] :
    Levels(level) /\ \A x \in Elem : TwoTo[level[x]] <= size[rep[x]]
=============================================================================
