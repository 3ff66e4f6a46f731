------------------------------ MODULE MCHashLP ------------------------------
EXTENDS HashLP, TLC

CONSTANTS k1, k2, k3, v1, v2

\* Three keys; the second value of k1 shows whether a put overwrites.
MCItem == {[key |-> k1, val |-> v1], [key |-> k1, val |-> v2],
           [key |-> k2, val |-> v1], [key |-> k3, val |-> v1]}

Fn(a, b, c) == k1 :> a @@ k2 :> b @@ k3 :> c

\* All in one slot at the end of the array; two there and one after the
\* wrap; all apart, at least while there are slots for it.
MCHashFns == {Fn(7, 7, 7), Fn(7, 15, 0), Fn(0, 1, 2)}
=============================================================================
