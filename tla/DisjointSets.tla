---------------------------- MODULE DisjointSets ----------------------------
(***************************************************************************)
(* What a union-find promises, whatever its representation: every element  *)
(* has a representative, a call is answered at once from the               *)
(* representatives, and union makes two classes one.  Concurrent use is    *)
(* the caller's business: the library is called from one thread.           *)
(***************************************************************************)
EXTENDS UnionFind

VARIABLES
  rep,        \* representative of each element
  res         \* last answer

vars == <<rep, res>>

Init ==
  /\ rep = [x \in Elem |-> x]
  /\ res = Pending(0)

\* A call that takes time has begun: the caller's cell still holds what it held.
Begin ==
  /\ res' = Pending(res.out)
  /\ UNCHANGED rep

Reject(p, q, null) ==
  /\ Refused(p, q, null)
  /\ res' = Refusal(res.out)
  /\ UNCHANGED rep

Find(p) ==
  /\ p \in Elem
  /\ res' = Answer("find", p, p, 0, rep[p])
  /\ UNCHANGED rep

Connected(p, q) ==
  /\ p \in Elem /\ q \in Elem
  /\ res' = Answer("connected", p, q, 0, AsBit(rep[p] = rep[q]))
  /\ UNCHANGED rep

\* Either representative may survive: which one is the implementation's choice.
Union(p, q) ==
  /\ p \in Elem /\ q \in Elem
  /\ rep' \in {Merged(rep, rep[p], rep[q]), Merged(rep, rep[q], rep[p])}
  /\ res' = Answer("union", p, q, 0, res.out)

Next ==
  \/ Begin
  \/ \E p, q \in Index :
    \/ \E null \in BOOLEAN : Reject(p, q, null)
    \/ Find(p)
    \/ Connected(p, q)
    \/ Union(p, q)

Spec == Init /\ [][Next]_vars

-----------------------------------------------------------------------------
TypeOK ==
  /\ rep \in [Elem -> Elem]
  /\ res \in AnswerType

(***************************************************************************)
(* A representative represents itself, so the root that find reports is    *)
(* found again from that root: callers compare find results for identity.  *)
(***************************************************************************)
Idempotent == \A x \in Elem : rep[rep[x]] = rep[x]
=============================================================================
