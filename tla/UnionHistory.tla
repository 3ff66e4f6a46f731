---------------------------- MODULE UnionHistory ----------------------------
(***************************************************************************)
(* DisjointSets with a memory: asked holds the pairs of every union that   *)
(* was accepted, and says what the representatives have to mean.           *)
(***************************************************************************)
EXTENDS DisjointSets

VARIABLE asked

hvars == <<vars, asked>>

HInit == Init /\ asked = {}

HUnion(p, q) == Union(p, q) /\ asked' = asked \cup Asks(p, q)

HNext ==
  \/ Begin /\ UNCHANGED asked
  \/ \E p, q \in Index :
       \/ (\E null \in BOOLEAN : Reject(p, q, null)) /\ UNCHANGED asked
       \/ (Find(p) \/ Connected(p, q)) /\ UNCHANGED asked
       \/ HUnion(p, q)

HSpec == HInit /\ [][HNext]_hvars

-----------------------------------------------------------------------------
HistoryType == asked \subseteq SUBSET Elem

(***************************************************************************)
(* Connectivity is the least equivalence that holds the accepted pairs:    *)
(* both ends of an accepted union are connected, and a labelling that      *)
(* agrees on all accepted pairs agrees on all connected elements, so no    *)
(* union ever joined more than it was asked to.                            *)
(***************************************************************************)
Respects(f) == \A e \in asked : \A x, y \in e : f[x] = f[y]

Joined == Respects(rep)

NothingElse ==
  \A x, y \in Elem :
    x # y /\ rep[x] = rep[y] =>
      \A f \in [Elem -> Elem] : Respects(f) => f[x] = f[y]

Connectivity == Joined /\ NothingElse
=============================================================================
