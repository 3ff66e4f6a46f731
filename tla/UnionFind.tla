----------------------------- MODULE UnionFind -----------------------------
(***************************************************************************)
(* What the three union-find implementations of uf.h share: n elements     *)
(* named by the indices 0 .. n-1, the size_t arguments a caller may pass,  *)
(* and the answer a call leaves with its caller.                           *)
(***************************************************************************)
EXTENDS Integers

CONSTANTS
  N,          \* the n given to create
  Index       \* the size_t values a caller passes, in range or not

ASSUME NAssumption == N \in Nat
ASSUME IndexAssumption == Index \subseteq Nat

Elem == 0 .. N - 1

(***************************************************************************)
(* The last answer: which call it was, its return code, and what the       *)
(* caller's *out_root / *out holds.  A refused call and a union leave that *)
(* cell alone, so it keeps the value of an earlier call.  A call that is   *)
(* still running has no answer yet.                                        *)
(***************************************************************************)
Answer(op, p, q, rc, out) ==
  [op |-> op, p |-> p, q |-> q, rc |-> rc, out |-> out]

Refusal(out) == Answer("refused", 0, 0, -1, out)

Pending(out) == Answer("none", 0, 0, 0, out)

AnswerType ==
  [op : {"none", "refused", "find", "connected", "union"},
   p : Nat, q : Nat, rc : {0, -1}, out : Nat]

\* The opening test of every operation: NULL handle, NULL out, index >= n.
Refused(p, q, null) == null \/ p \notin Elem \/ q \notin Elem

\* What an accepted union asks for: an element is its own company already.
Asks(p, q) == IF p = q THEN {} ELSE {{p, q}}

AsBit(b) == IF b THEN 1 ELSE 0

\* The labelling f after every element labelled `from` is labelled `to`.
Merged(f, from, to) == [x \in Elem |-> IF f[x] = from THEN to ELSE f[x]]
=============================================================================
