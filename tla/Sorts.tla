------------------------------- MODULE Sorts --------------------------------
(***************************************************************************)
(* The other four sorts, each as the array it leaves: arrays are indexed   *)
(* from 0, and of their items only the keys are compared.  A loop is a     *)
(* function of the number of turns it has made, a recursive call one of    *)
(* its arguments and of the array it finds.                                *)
(***************************************************************************)
EXTENDS Integers, FiniteSets, FiniteSetsExt, Functions

Length(a) == Cardinality(DOMAIN a)

\* What can become of an array by moving its items.
Arrays(a) == [DOMAIN a -> Range(a)]

Swapped(a, p, q) == [a EXCEPT ![p] = a[q], ![q] = a[p]]

-----------------------------------------------------------------------------
\* Item p moves down by steps of gap past those with a larger key.
Slide(a, p, gap) ==
  LET stops(m) == m < gap \/ a[m - gap].key <= a[p].key
      hole == Max({m \in 0 .. p : (p - m) % gap = 0 /\ stops(m)})
  IN [x \in DOMAIN a |->
        IF x = hole THEN a[p]
        ELSE IF hole < x /\ x <= p /\ (p - x) % gap = 0 THEN a[x - gap] ELSE a[x]]

\* passed[m] is the array once the first m items are in their chains.
GapPass(a, gap) ==
  LET passed[m \in 0 .. Length(a)] ==
        IF m <= gap THEN a ELSE Slide(passed[m - 1], m - 1, gap)
  IN passed[Length(a)]

sort_insertion(a) == GapPass(a, 1)

FirstGap(len) ==
  LET grown[gap \in Nat] == IF gap < len \div 3 THEN grown[3 * gap + 1] ELSE gap
  IN grown[1]

GapPasses(a, first) ==
  LET passes[gap \in Nat] ==
        [b \in Arrays(a) |-> IF gap = 0 THEN b ELSE passes[gap \div 3][GapPass(b, gap)]]
  IN passes[first][a]

sort_shell(a) == GapPasses(a, FirstGap(Length(a)))

-----------------------------------------------------------------------------
\* A plausible slip: of equal keys, the right one goes first.
LeftFirstStrict(x, y) == x.key < y.key

LeftFirst(x, y) == x.key <= y.key

\* filled[k] is when cells up to k are: b and c are what is read next on the
\* left and on the right.
merge(a, left, mid, right) ==
  LET filled[k \in left .. right] ==
        IF k = left THEN [b |-> left, c |-> mid, out |-> a]
        ELSE LET f == filled[k - 1]
             IN IF f.b < mid /\ (f.c < right => LeftFirst(a[f.b], a[f.c]))
                THEN [b |-> f.b + 1, c |-> f.c, out |-> [f.out EXCEPT ![k - 1] = a[f.b]]]
                ELSE [b |-> f.b, c |-> f.c + 1, out |-> [f.out EXCEPT ![k - 1] = a[f.c]]]
  IN filled[right].out

\* A range is <<left, right>>, right excluded.
merge_sort(a, left, right) ==
  LET sorted[r \in (0 .. Length(a)) \X (0 .. Length(a))] ==
        [b \in Arrays(a) |->
           LET mid == r[1] + (r[2] - r[1]) \div 2
           IN IF r[2] - r[1] < 2 THEN b
              ELSE merge(sorted[<<mid, r[2]>>][sorted[<<r[1], mid>>][b]], r[1], mid, r[2])]
  IN sorted[<<left, right>>][a]

sort_merge(a) == merge_sort(a, 0, Length(a))

-----------------------------------------------------------------------------
\* The item at start sinks below the larger of its children before end, the
\* left of two equal ones.
sift_down(a, start, end) ==
  LET sunk[root \in DOMAIN a] ==
        [b \in Arrays(a) |->
           LET left == root * 2 + 1
               right == left + 1
               child == IF right < end /\ b[left].key < b[right].key THEN right ELSE left
           IN IF left < end /\ b[root].key < b[child].key
              THEN sunk[child][Swapped(b, root, child)] ELSE b]
  IN sunk[start][a]

heapify(a) ==
  LET heaped[m \in 0 .. Length(a) \div 2] ==
        IF m = 0 THEN a
        ELSE sift_down(heaped[m - 1], Length(a) \div 2 - m, Length(a))
  IN heaped[Length(a) \div 2]

sort_heap(a) ==
  LET taken[m \in 0 .. Length(a) - 1] ==
        IF m = 0 THEN heapify(a)
        ELSE LET last == Length(a) - m
             IN sift_down(Swapped(taken[m - 1], 0, last), 0, last)
  IN IF Length(a) < 2 THEN a ELSE taken[Length(a) - 1]
=============================================================================
