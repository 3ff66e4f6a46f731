---------------------------- MODULE Sorts_proof -----------------------------
(***************************************************************************)
(* Proofs about the five sorts, for arrays of any length and keys of any   *)
(* integers.  Of quick sort, step by step: the partition stays inside its  *)
(* range and shrinks it, and what is left when the last call returns is    *)
(* the input in order.  Of the others: what their recursion computes is    *)
(* the input in order, and two of them keep the order of equal keys.       *)
(***************************************************************************)
EXTENDS MCSorts, SequenceTheorems, FiniteSetTheorems, WellFoundedInduction, TLAPS

-----------------------------------------------------------------------------
(***************************************************************************)
(* Induction on the natural numbers, for a set: there is no least number   *)
(* outside.                                                                *)
(***************************************************************************)
LEMMA Induction ==
  ASSUME NEW S, 0 \in S, \A k \in Nat : k \in S => k + 1 \in S
  PROVE  Nat \subseteq S
<1> DEFINE wrong == Nat \ S
<1>1. ASSUME wrong # {} PROVE FALSE
  <2>1. PICK k \in wrong : \A m \in wrong : ~(<<m, k>> \in OpToRel(<, Nat))
    <3> HIDE DEF wrong
    <3>1. wrong \subseteq Nat
      BY DEF wrong
    <3>2. QED
      BY <1>1, <3>1, NatLessThanWellFounded, WFMin
  <2>2. k \in Nat /\ k \notin S /\ \A m \in wrong : ~(m < k)
    BY <2>1 DEF OpToRel
  <2>3. k - 1 \in Nat /\ k - 1 < k /\ (k - 1) + 1 = k
    BY <2>2
  <2>4. QED
    BY <2>2, <2>3
<1>2. QED
  BY <1>1

(***************************************************************************)
(* Recursion on a rank: where a step looks at smaller arguments only, some *)
(* function satisfies its recursion.  g is good to k when it does so for   *)
(* arguments of a rank below k.                                            *)
(***************************************************************************)
LooksBelow(D, V, rank, step) ==
  \A x \in D : \A g, h \in [D -> V] :
    (\A y \in D : rank[y] < rank[x] => g[y] = h[y]) => step[<<x, g>>] = step[<<x, h>>]

Solvable(D, V, step) == \E f \in [D -> V] : \A x \in D : f[x] = step[<<x, f>>]

LEMMA RankRecursion ==
  ASSUME NEW D, NEW V, NEW v \in V, NEW rank \in [D -> Nat],
         NEW step \in [(D \X [D -> V]) -> V], LooksBelow(D, V, rank, step)
  PROVE  Solvable(D, V, step)
<1> DEFINE Good(k, g) == \A x \in D : rank[x] < k => g[x] = step[<<x, g>>]
           F == [D -> V]
<1> USE DEF LooksBelow
<1>1. \A k \in Nat : \E g \in F : Good(k, g)
  <2> DEFINE S == {k \in Nat : \E g \in F : Good(k, g)}
  <2>1. 0 \in S
    <3>1. [x \in D |-> v] \in F /\ Good(0, [x \in D |-> v])
      OBVIOUS
    <3>2. QED
      BY <3>1
  <2>2. ASSUME NEW k \in Nat, k \in S PROVE k + 1 \in S
    <3>1. PICK g \in F : Good(k, g)
      BY <2>2
    <3> DEFINE h == [x \in D |-> IF rank[x] < k THEN g[x] ELSE step[<<x, g>>]]
    <3>2. h \in F
      OBVIOUS
    <3>3. ASSUME NEW x \in D, rank[x] < k + 1 PROVE h[x] = step[<<x, h>>]
      <4>1. rank[x] \in Nat /\ rank[x] <= k
        BY <3>3
      <4>2. \A y \in D : rank[y] < rank[x] => g[y] = h[y]
        BY <4>1
      <4> HIDE DEF h
      <4>3. step[<<x, g>>] = step[<<x, h>>]
        BY <3>2, <4>2
      <4>4. h[x] = step[<<x, g>>]
        BY <3>1 DEF h
      <4>5. QED
        BY <4>3, <4>4
    <3> HIDE DEF h
    <3>4. Good(k + 1, h)
      BY <3>3
    <3>5. QED
      BY <3>2, <3>4
  <2> HIDE DEF S
  <2>3. Nat \subseteq S
    BY <2>1, <2>2, Induction
  <2>4. QED
    BY <2>3 DEF S
<1>2. ASSUME NEW k \in Nat, NEW g \in F, NEW h \in F, Good(k, g), Good(k, h)
      PROVE  \A x \in D : rank[x] < k => g[x] = h[x]
  <2> DEFINE S == {m \in Nat : \A x \in D : rank[x] < m /\ m <= k => g[x] = h[x]}
  <2>1. 0 \in S
    OBVIOUS
  <2>2. ASSUME NEW m \in Nat, m \in S PROVE m + 1 \in S
    <3> SUFFICES ASSUME NEW x \in D, rank[x] < m + 1, m + 1 <= k PROVE g[x] = h[x]
      OBVIOUS
    <3>1. \A y \in D : rank[y] < rank[x] => g[y] = h[y]
      BY <2>2
    <3>2. g[x] = step[<<x, g>>] /\ h[x] = step[<<x, h>>]
      BY <1>2
    <3>3. QED
      BY <3>1, <3>2
  <2> HIDE DEF S
  <2>3. Nat \subseteq S
    BY <2>1, <2>2, Induction
  <2>4. k \in S
    BY <2>3
  <2>5. QED
    BY <2>4 DEF S
<1> DEFINE G == [k \in Nat |-> CHOOSE g \in F : Good(k, g)]
           f == [x \in D |-> G[rank[x] + 1][x]]
<1>3. \A k \in Nat : G[k] \in F /\ Good(k, G[k])
  BY <1>1
<1>4. f \in F
  <2> HIDE DEF G
  <2> QED
    BY <1>3
<1>5. ASSUME NEW x \in D PROVE f[x] = step[<<x, f>>]
  <2> DEFINE k == rank[x] + 1
  <2>1. k \in Nat /\ rank[x] < k
    OBVIOUS
  <2>2. G[k] \in F /\ Good(k, G[k])
    BY <1>3, <2>1
  <2> HIDE DEF G
  <2>3. G[k][x] = step[<<x, G[k]>>]
    BY <2>1, <2>2
  <2>4. ASSUME NEW y \in D, rank[y] < rank[x] PROVE G[k][y] = f[y]
    <3> DEFINE m == rank[y] + 1
    <3>1. m \in Nat /\ m <= k /\ rank[y] < m
      BY <2>4
    <3>2. G[m] \in F /\ Good(m, G[m])
      BY <1>3, <3>1
    <3>3. Good(m, G[k])
      <4> SUFFICES ASSUME NEW z \in D, rank[z] < m PROVE G[k][z] = step[<<z, G[k]>>]
        OBVIOUS
      <4>1. rank[z] \in Nat /\ rank[z] < k
        BY <3>1
      <4>2. QED
        BY <2>2, <4>1
    <3> HIDE DEF m, k
    <3>4. G[m][y] = G[k][y]
      BY <1>2, <2>2, <3>1, <3>2, <3>3
    <3>5. QED
      BY <3>4 DEF m
  <2>5. step[<<x, G[k]>>] = step[<<x, f>>]
    <3> HIDE DEF f, k
    <3> QED
      BY <1>4, <2>2, <2>4
  <2>6. QED
    BY <2>3, <2>5
<1>6. QED
  BY <1>4, <1>5 DEF Solvable

-----------------------------------------------------------------------------
(***************************************************************************)
(* Numbers: the greatest of a set, and remainders.                         *)
(***************************************************************************)
LEMMA Greatest ==
  ASSUME NEW m \in Nat, NEW S \in SUBSET (0 .. m), S # {}
  PROVE  Max(S) \in S /\ \A y \in S : y <= Max(S)
<1> DEFINE bounds == {k \in Nat : \A y \in S : y <= k}
<1>1. m \in bounds
  OBVIOUS
<1>2. PICK k \in bounds : \A b \in bounds : ~(<<b, k>> \in OpToRel(<, Nat))
  <2> HIDE DEF bounds
  <2>1. bounds # {} /\ bounds \subseteq Nat
    BY <1>1 DEF bounds
  <2>2. QED
    BY <2>1, NatLessThanWellFounded, WFMin
<1>3. k \in Nat /\ (\A y \in S : y <= k) /\ \A b \in bounds : ~(b < k)
  BY <1>2 DEF OpToRel
<1>4. k \in S
  <2> SUFFICES ASSUME k \notin S PROVE FALSE
    OBVIOUS
  <2>1. PICK z \in S : TRUE
    OBVIOUS
  <2>2. k # 0
    BY <1>3, <2>1
  <2>3. k - 1 \in bounds
    BY <1>3, <2>2
  <2>4. QED
    BY <1>3, <2>3
<1>5. QED
  BY <1>3, <1>4 DEF Max

LEMMA Remainder ==
  ASSUME NEW p \in Nat, NEW g \in Nat \ {0}
  PROVE  p % g \in 0 .. p /\ p % g < g /\ (p - (p % g)) % g = 0
OBVIOUS

LEMMA Turns ==
  ASSUME NEW d \in Nat, NEW g \in Nat \ {0}, d % g = 0
  PROVE \E q \in Nat : d = g * q
OBVIOUS

LEMMA FullTurns ==
  ASSUME NEW q \in Nat, NEW g \in Nat \ {0}
  PROVE  (g * q) % g = 0
OBVIOUS

LEMMA OneTurnLess ==
  ASSUME NEW d \in Nat \ {0}, NEW g \in Nat \ {0}, d % g = 0
  PROVE  g <= d /\ (d - g) % g = 0
<1>1. PICK q \in Nat : d = g * q
  BY Turns
<1>2. q - 1 \in Nat /\ d - g = g * (q - 1)
  BY <1>1
<1>3. g <= d
  BY <1>1, <1>2
<1>4. QED
  BY <1>2, <1>3, FullTurns

LEMMA OneTurnMore ==
  ASSUME NEW d \in Nat, NEW g \in Nat \ {0}, d % g = 0
  PROVE  (d + g) % g = 0
<1>1. PICK q \in Nat : d = g * q
  BY Turns
<1>2. q + 1 \in Nat /\ d + g = g * (q + 1)
  BY <1>1
<1>3. QED
  BY <1>2, FullTurns

-----------------------------------------------------------------------------
(***************************************************************************)
(* Arrays of m items of the set X, whose keys are integers.                *)
(***************************************************************************)
Keyed(X) == \A x \in X : x.key \in Int

LEMMA LengthIs ==
  ASSUME NEW m \in Nat, NEW X, NEW a \in [0 .. m - 1 -> X]
  PROVE  Length(a) = m
<1>1. Cardinality(0 .. m - 1) = m
  <2>1. Cardinality(0 .. m - 1) = IF 0 > m - 1 THEN 0 ELSE m - 1 - 0 + 1
    BY FS_Interval
  <2>2. QED
    BY <2>1
<1>2. QED
  BY <1>1 DEF Length

\* b is a with items moved between the cells l to r - 1.
Carried(a, b, l, r) ==
  /\ \A x \in DOMAIN a \ (l .. r - 1) : b[x] = a[x]
  /\ \A x \in l .. r - 1 : \E y \in l .. r - 1 : b[y] = a[x]
  /\ \A x \in l .. r - 1 : \E y \in l .. r - 1 : b[x] = a[y]

LEMMA CarriedSame ==
  ASSUME NEW a, NEW l \in Int, NEW r \in Int
  PROVE  Carried(a, a, l, r)
BY DEF Carried

LEMMA CarriedOn ==
  ASSUME NEW m \in Nat, NEW X,
         NEW a \in [0 .. m - 1 -> X], NEW b \in [0 .. m - 1 -> X], NEW c \in [0 .. m - 1 -> X],
         NEW l \in Nat, NEW r \in 0 .. m, Carried(a, b, l, r), Carried(b, c, l, r)
  PROVE  Carried(a, c, l, r)
<1>1. ASSUME NEW x \in l .. r - 1 PROVE \E y \in l .. r - 1 : c[y] = a[x]
  <2>1. PICK y \in l .. r - 1 : b[y] = a[x]
    BY DEF Carried
  <2>2. PICK z \in l .. r - 1 : c[z] = b[y]
    BY DEF Carried
  <2>3. QED
    BY <2>1, <2>2
<1>2. ASSUME NEW x \in l .. r - 1 PROVE \E y \in l .. r - 1 : c[x] = a[y]
  <2>1. PICK y \in l .. r - 1 : c[x] = b[y]
    BY DEF Carried
  <2>2. PICK z \in l .. r - 1 : b[y] = a[z]
    BY DEF Carried
  <2>3. QED
    BY <2>1, <2>2
<1>3. \A x \in DOMAIN a \ (l .. r - 1) : c[x] = a[x]
  BY DEF Carried
<1>4. QED
  BY <1>1, <1>2, <1>3 DEF Carried

\* A narrower range of cells.
LEMMA CarriedWithin ==
  ASSUME NEW m \in Nat, NEW X, NEW a \in [0 .. m - 1 -> X], NEW b \in [0 .. m - 1 -> X],
         NEW l \in Nat, NEW r \in 0 .. m, NEW k \in l .. r, NEW h \in k .. r,
         Carried(a, b, k, h)
  PROVE  Carried(a, b, l, r)
<1>1. \A x \in l .. r - 1 : \E y \in l .. r - 1 : b[y] = a[x]
  <2> SUFFICES ASSUME NEW x \in l .. r - 1 PROVE \E y \in l .. r - 1 : b[y] = a[x]
    OBVIOUS
  <2>1. CASE x \in k .. h - 1
    <3>1. k .. h - 1 \subseteq l .. r - 1
      OBVIOUS
    <3>2. QED
      BY <2>1, <3>1 DEF Carried
  <2>2. CASE x \notin k .. h - 1
    <3>1. b[x] = a[x]
      BY <2>2 DEF Carried
    <3>2. QED
      BY <3>1
  <2>3. QED
    BY <2>1, <2>2
<1>2. \A x \in l .. r - 1 : \E y \in l .. r - 1 : b[x] = a[y]
  <2> SUFFICES ASSUME NEW x \in l .. r - 1 PROVE \E y \in l .. r - 1 : b[x] = a[y]
    OBVIOUS
  <2>1. CASE x \in k .. h - 1
    <3>1. k .. h - 1 \subseteq l .. r - 1
      OBVIOUS
    <3>2. QED
      BY <2>1, <3>1 DEF Carried
  <2>2. CASE x \notin k .. h - 1
    <3>1. b[x] = a[x]
      BY <2>2 DEF Carried
    <3>2. QED
      BY <3>1
  <2>3. QED
    BY <2>1, <2>2
<1>3. \A x \in DOMAIN a \ (l .. r - 1) : b[x] = a[x]
  BY DEF Carried
<1>4. QED
  BY <1>1, <1>2, <1>3 DEF Carried

LEMMA CarriedType ==
  ASSUME NEW m \in Nat, NEW X, NEW a \in [0 .. m - 1 -> X], NEW b,
         b = [x \in 0 .. m - 1 |-> b[x]], Carried(a, b, 0, m)
  PROVE  b \in Arrays(a)
<1>1. DOMAIN a = 0 .. m - 1
  OBVIOUS
<1>2. \A x \in 0 .. m - 1 : b[x] \in Range(a)
  BY <1>1 DEF Carried, Range
<1>3. QED
  BY <1>1, <1>2 DEF Arrays

LEMMA SwappedCarried ==
  ASSUME NEW m \in Nat, NEW X, NEW a \in [0 .. m - 1 -> X],
         NEW l \in Nat, NEW r \in 0 .. m, NEW p \in l .. r - 1, NEW q \in l .. r - 1
  PROVE  /\ Swapped(a, p, q) \in [0 .. m - 1 -> X]
         /\ Swapped(a, p, q)[p] = a[q] /\ Swapped(a, p, q)[q] = a[p]
         /\ \A x \in 0 .. m - 1 : x # p /\ x # q => Swapped(a, p, q)[x] = a[x]
         /\ Carried(a, Swapped(a, p, q), l, r)
<1> DEFINE b == Swapped(a, p, q)
<1>1. /\ b \in [0 .. m - 1 -> X] /\ b[p] = a[q] /\ b[q] = a[p]
      /\ \A x \in 0 .. m - 1 : x # p /\ x # q => b[x] = a[x]
  BY DEF Swapped
<1> HIDE DEF b
<1>2. Carried(a, b, l, r)
  <2>1. \A x \in l .. r - 1 : \E y \in l .. r - 1 : b[y] = a[x]
    <3> SUFFICES ASSUME NEW x \in l .. r - 1 PROVE \E y \in l .. r - 1 : b[y] = a[x]
      OBVIOUS
    <3>1. b[IF x = p THEN q ELSE IF x = q THEN p ELSE x] = a[x]
      BY <1>1
    <3>2. QED
      BY <3>1
  <2>2. \A x \in l .. r - 1 : \E y \in l .. r - 1 : b[x] = a[y]
    <3> SUFFICES ASSUME NEW x \in l .. r - 1 PROVE \E y \in l .. r - 1 : b[x] = a[y]
      OBVIOUS
    <3>1. b[x] = a[IF x = p THEN q ELSE IF x = q THEN p ELSE x]
      BY <1>1
    <3>2. QED
      BY <3>1
  <2>3. \A x \in DOMAIN a \ (l .. r - 1) : b[x] = a[x]
    BY <1>1
  <2>4. QED
    BY <2>1, <2>2, <2>3 DEF Carried
<1>3. QED
  BY <1>1, <1>2 DEF b

-----------------------------------------------------------------------------
(***************************************************************************)
(* A loop whose counter goes from l to r: some function tells the value    *)
(* that each turn leaves.                                                  *)
(***************************************************************************)
Runs(l, r, V, v, step) ==
  \E f \in [l .. r -> V] :
    f[l] = v /\ \A k \in l + 1 .. r : f[k] = step[<<k, f[k - 1]>>]

LEMMA LoopRecursion ==
  ASSUME NEW l \in Int, NEW r \in Int, l <= r, NEW V, NEW v \in V,
         NEW step \in [((l + 1) .. r) \X V -> V]
  PROVE  Runs(l, r, V, v, step)
<1> DEFINE Upto(t, f) == f[l] = v /\ \A k \in l + 1 .. t : f[k] = step[<<k, f[k - 1]>>]
           S == {t \in Nat : l + t <= r => \E f \in [l .. l + t -> V] : Upto(l + t, f)}
<1>1. 0 \in S
  <2> DEFINE f == [k \in l .. l + 0 |-> v]
  <2>1. f \in [l .. l + 0 -> V] /\ Upto(l + 0, f)
    OBVIOUS
  <2>2. QED
    BY <2>1
<1>2. ASSUME NEW t \in Nat, t \in S PROVE t + 1 \in S
  <2> SUFFICES ASSUME l + (t + 1) <= r
               PROVE  \E f \in [l .. l + (t + 1) -> V] : Upto(l + (t + 1), f)
    OBVIOUS
  <2>1. PICK f \in [l .. l + t -> V] : Upto(l + t, f)
    BY <1>2
  <2> DEFINE w == l + (t + 1)
             h == [k \in l .. w |-> IF k = w THEN step[<<w, f[w - 1]>>] ELSE f[k]]
  <2>2. w - 1 \in l .. l + t /\ w \in l + 1 .. r
    OBVIOUS
  <2>3. f[w - 1] \in V /\ step[<<w, f[w - 1]>>] \in V
    BY <2>2
  <2>4. h \in [l .. w -> V]
    BY <2>3
  <2>5. ASSUME NEW k \in l + 1 .. w PROVE h[k] = step[<<k, h[k - 1]>>]
    <3>1. h[k - 1] = f[k - 1]
      OBVIOUS
    <3>2. CASE k = w
      <4>1. h[w] = step[<<w, f[w - 1]>>]
        BY <2>2
      <4> HIDE DEF h, w
      <4>2. QED
        BY <3>1, <3>2, <4>1
    <3>3. CASE k # w
      <4>1. k \in l + 1 .. l + t /\ k \in l .. w
        BY <3>3
      <4>2. h[k] = f[k]
        BY <3>3, <4>1
      <4>3. f[k] = step[<<k, f[k - 1]>>]
        BY <2>1, <4>1
      <4> HIDE DEF h
      <4>4. QED
        BY <3>1, <4>2, <4>3
    <3>4. QED
      BY <3>2, <3>3
  <2>6. h[l] = v
    BY <2>1
  <2> HIDE DEF h
  <2>7. QED
    BY <2>4, <2>5, <2>6
<1> HIDE DEF S
<1>3. r - l \in S
  BY <1>1, <1>2, Induction
<1>4. \E f \in [l .. l + (r - l) -> V] : Upto(l + (r - l), f)
  BY <1>3 DEF S
<1>5. l + (r - l) = r
  OBVIOUS
<1>6. QED
  BY <1>4, <1>5 DEF Runs

-----------------------------------------------------------------------------
(***************************************************************************)
(* sort_insertion.c and sort_shell.c.  An item slides down its chain into  *)
(* a hole: from there on, what it passed moves up by one gap.              *)
(***************************************************************************)
Stops(a, p, gap, x) == x < gap \/ a[x - gap].key <= a[p].key

Slid(a, c, p, gap, hole) ==
  /\ hole \in 0 .. p /\ (p - hole) % gap = 0
  /\ Stops(a, p, gap, hole)
  /\ \A x \in hole + 1 .. p : (p - x) % gap = 0 => ~Stops(a, p, gap, x)
  /\ c = [x \in DOMAIN a |->
            IF x = hole THEN a[p]
            ELSE IF hole < x /\ x <= p /\ (p - x) % gap = 0 THEN a[x - gap] ELSE a[x]]

LEMMA SlideIs ==
  ASSUME NEW a, NEW p \in Nat, NEW gap \in Nat \ {0}
  PROVE  \E hole \in 0 .. p : Slid(a, Slide(a, p, gap), p, gap, hole)
<1> DEFINE holes == {x \in 0 .. p : (p - x) % gap = 0 /\ Stops(a, p, gap, x)}
           hole == Max(holes)
<1>1. p % gap \in holes
  BY Remainder DEF Stops
<1>2. hole \in holes /\ \A y \in holes : y <= hole
  <2> HIDE DEF holes
  <2>1. holes \in SUBSET (0 .. p) /\ holes # {}
    BY <1>1 DEF holes
  <2>2. QED
    BY <2>1, Greatest
<1>3. Slide(a, p, gap) =
        [x \in DOMAIN a |->
            IF x = hole THEN a[p]
            ELSE IF hole < x /\ x <= p /\ (p - x) % gap = 0 THEN a[x - gap] ELSE a[x]]
  BY DEF Slide, Stops
<1> HIDE DEF hole
<1>4. \A x \in hole + 1 .. p : (p - x) % gap = 0 => ~Stops(a, p, gap, x)
  BY <1>2
<1>5. QED
  BY <1>2, <1>3, <1>4 DEF Slid

LEMMA SlidCarried ==
  ASSUME NEW m \in Nat, NEW X, Keyed(X), NEW a \in [0 .. m - 1 -> X],
         NEW p \in 0 .. m - 1, NEW gap \in Nat \ {0}, NEW hole \in 0 .. p, NEW c,
         Slid(a, c, p, gap, hole)
  PROVE  c \in [0 .. m - 1 -> X] /\ Carried(a, c, 0, p + 1)
<1> DEFINE Chain(x) == x \in 0 .. p /\ (p - x) % gap = 0
<1>1. c = [x \in 0 .. m - 1 |->
            IF x = hole THEN a[p]
            ELSE IF hole < x /\ Chain(x) THEN a[x - gap] ELSE a[x]]
  BY DEF Slid
<1>2. \A x \in 0 .. m - 1 : hole < x /\ Chain(x) => x - gap \in hole .. p /\ Chain(x - gap)
  <2> SUFFICES ASSUME NEW x \in 0 .. m - 1, hole < x, Chain(x)
               PROVE  x - gap \in hole .. p /\ Chain(x - gap)
    OBVIOUS
  <2> DEFINE left == p - x
  <2>1. left \in Nat /\ left % gap = 0 /\ (left + gap) % gap = 0
    <3>1. left \in Nat /\ left % gap = 0
      OBVIOUS
    <3> HIDE DEF left
    <3>2. QED
      BY <3>1, OneTurnMore
  <2>2. ~Stops(a, p, gap, x)
    BY DEF Slid
  <2>3. x - gap \in 0 .. p
    BY <2>2 DEF Stops
  <2>4. x - hole \in Nat \ {0} /\ (x - hole) % gap = 0
    <3>1. PICK s \in Nat : p - x = gap * s
      BY <2>1, Turns
    <3>2. p - hole \in Nat /\ (p - hole) % gap = 0
      BY DEF Slid
    <3>3. PICK t \in Nat : p - hole = gap * t
      BY <3>2, Turns
    <3>4. x - hole = gap * (t - s)
      BY <3>1, <3>3
    <3>5. t - s \in Nat
      <4>1. t - s <= -1 => gap * (t - s) <= -gap
        OBVIOUS
      <4>2. QED
        BY <3>4, <4>1
    <3>6. QED
      BY <3>4, <3>5, FullTurns
  <2>5. gap <= x - hole
    BY <2>4, OneTurnLess
  <2>6. p - (x - gap) = p - x + gap
    OBVIOUS
  <2>7. QED
    BY <2>1, <2>3, <2>5, <2>6
<1>3. c \in [0 .. m - 1 -> X]
  BY <1>1, <1>2
<1>4. ASSUME NEW x \in 0 .. p PROVE \E y \in 0 .. p : c[x] = a[y]
  <2>1. c[x] = a[IF x = hole THEN p ELSE IF hole < x /\ Chain(x) THEN x - gap ELSE x]
    BY <1>1
  <2>2. hole < x /\ Chain(x) => x - gap \in 0 .. p
    BY <1>2
  <2> HIDE DEF Chain
  <2>3. QED
    BY <2>1, <2>2
<1>5. \A x \in 0 .. p : \E y \in 0 .. p : c[y] = a[x]
  <2> SUFFICES ASSUME NEW x \in 0 .. p PROVE \E y \in 0 .. p : c[y] = a[x]
    OBVIOUS
  <2>1. CASE x = p
    <3>1. c[hole] = a[p]
      BY <1>1
    <3>2. QED
      BY <2>1, <3>1
  <2>2. CASE x # p /\ hole <= x /\ Chain(x)
    <3>1. gap <= p - x /\ (p - x - gap) % gap = 0
      BY <2>2, OneTurnLess
    <3>2. x + gap \in 0 .. p /\ p - (x + gap) = p - x - gap
      BY <3>1
    <3>3. Chain(x + gap) /\ hole < x + gap
      BY <2>2, <3>1, <3>2
    <3>4. c[x + gap] = a[(x + gap) - gap]
      BY <1>1, <3>2, <3>3
    <3>5. QED
      BY <3>2, <3>4
  <2>3. CASE x # p /\ ~(hole <= x /\ Chain(x))
    <3>1. x # hole
      BY <2>3 DEF Slid
    <3>2. c[x] = a[x]
      BY <1>1, <2>3, <3>1
    <3>3. QED
      BY <3>2
  <2>4. QED
    BY <2>1, <2>2, <2>3
<1>6. \A x \in 0 .. m - 1 : x \notin 0 .. p => c[x] = a[x]
  BY <1>1
<1>7. QED
  BY <1>3, <1>4, <1>5, <1>6 DEF Carried

\* In order between l and r - 1; and there, equal keys in order of the vals.
Up(a, l, r) ==
  \A x, y \in l .. r - 1 : x < y => a[x].key <= a[y].key

Keeps(a, l, r) ==
  \A x, y \in l .. r - 1 : x < y /\ a[x].key = a[y].key => a[x].val < a[y].val

LEMMA SlidByOne ==
  ASSUME NEW m \in Nat, NEW X, Keyed(X), NEW a \in [0 .. m - 1 -> X],
         NEW p \in 0 .. m - 1, NEW hole \in 0 .. p, NEW c, Slid(a, c, p, 1, hole)
  PROVE  /\ c[hole] = a[p]
         /\ \A x \in 0 .. hole - 1 : c[x] = a[x]
         /\ \A x \in hole + 1 .. p : c[x] = a[x - 1] /\ a[x - 1].key > a[p].key
         /\ hole = 0 \/ a[hole - 1].key <= a[p].key
<1>1. \A x \in hole .. p : (p - x) % 1 = 0
  OBVIOUS
<1>2. c = [x \in 0 .. m - 1 |->
            IF x = hole THEN a[p]
            ELSE IF hole < x /\ x <= p /\ (p - x) % 1 = 0 THEN a[x - 1] ELSE a[x]]
  BY DEF Slid
<1>3. \A x \in hole + 1 .. p : c[x] = a[x - 1] /\ a[x - 1].key > a[p].key
  <2> SUFFICES ASSUME NEW x \in hole + 1 .. p
               PROVE  c[x] = a[x - 1] /\ a[x - 1].key > a[p].key
    OBVIOUS
  <2>1. ~Stops(a, p, 1, x)
    BY <1>1 DEF Slid
  <2>2. a[x - 1].key \in Int /\ a[p].key \in Int
    BY DEF Keyed
  <2>3. QED
    BY <1>1, <1>2, <2>1, <2>2 DEF Stops
<1>4. hole = 0 \/ a[hole - 1].key <= a[p].key
  BY DEF Slid, Stops
<1>5. c[hole] = a[p] /\ \A x \in 0 .. hole - 1 : c[x] = a[x]
  BY <1>2
<1>6. QED
  BY <1>3, <1>4, <1>5

LEMMA SlidUp ==
  ASSUME NEW m \in Nat, NEW X, Keyed(X), NEW a \in [0 .. m - 1 -> X],
         NEW p \in 0 .. m - 1, NEW hole \in 0 .. p, NEW c, Slid(a, c, p, 1, hole), Up(a, 0, p)
  PROVE  Up(c, 0, p + 1)
<1>1. /\ c[hole] = a[p]
      /\ \A x \in 0 .. hole - 1 : c[x] = a[x]
      /\ \A x \in hole + 1 .. p : c[x] = a[x - 1] /\ a[x - 1].key > a[p].key
      /\ hole = 0 \/ a[hole - 1].key <= a[p].key
  BY SlidByOne
<1>2. \A x \in 0 .. p : a[x].key \in Int
  BY DEF Keyed
<1>3. \A x, y \in 0 .. p - 1 : x < y => a[x].key <= a[y].key
  BY DEF Up
<1>4. \A x \in 0 .. hole - 1 : a[x].key <= a[p].key
  BY <1>1, <1>2, <1>3
<1> SUFFICES ASSUME NEW x \in 0 .. p, NEW y \in 0 .. p, x < y
             PROVE  c[x].key <= c[y].key
  BY DEF Up
<1>5. CASE y < hole
  BY <1>1, <1>3, <1>5
<1>6. CASE y = hole
  BY <1>1, <1>4, <1>6
<1>7. CASE y > hole /\ x < hole
  BY <1>1, <1>3, <1>7
<1>8. CASE y > hole /\ x = hole
  BY <1>1, <1>2, <1>8
<1>9. CASE x > hole
  <2>1. c[x] = a[x - 1] /\ c[y] = a[y - 1] /\ x - 1 \in 0 .. p - 1 /\ y - 1 \in 0 .. p - 1
    BY <1>1, <1>9
  <2>2. QED
    BY <1>3, <2>1
<1>10. QED
  BY <1>5, <1>6, <1>7, <1>8, <1>9

LEMMA SlidKeeps ==
  ASSUME NEW m \in Nat, NEW X, Keyed(X), NEW a \in [0 .. m - 1 -> X],
         NEW p \in 0 .. m - 1, NEW hole \in 0 .. p, NEW c, Slid(a, c, p, 1, hole),
         Keeps(a, 0, p), \A x \in 0 .. p - 1 : a[x].val < a[p].val
  PROVE  Keeps(c, 0, p + 1)
<1>1. /\ c[hole] = a[p]
      /\ \A x \in 0 .. hole - 1 : c[x] = a[x]
      /\ \A x \in hole + 1 .. p : c[x] = a[x - 1] /\ a[x - 1].key > a[p].key
      /\ hole = 0 \/ a[hole - 1].key <= a[p].key
  BY SlidByOne
<1>2. \A x \in 0 .. p : a[x].key \in Int
  BY DEF Keyed
<1>3. \A x, y \in 0 .. p - 1 : x < y /\ a[x].key = a[y].key => a[x].val < a[y].val
  BY DEF Keeps
<1> SUFFICES ASSUME NEW x \in 0 .. p, NEW y \in 0 .. p, x < y, c[x].key = c[y].key
             PROVE  c[x].val < c[y].val
  BY DEF Keeps
<1>4. CASE y < hole
  BY <1>1, <1>3, <1>4
<1>5. CASE y = hole
  BY <1>1, <1>5
<1>6. CASE y > hole /\ x < hole
  BY <1>1, <1>3, <1>6
<1>7. CASE y > hole /\ x = hole
  <2>1. y - 1 \in 0 .. p /\ a[y - 1].key > a[p].key /\ a[y - 1].key = a[p].key
    BY <1>1, <1>7
  <2>2. QED
    BY <1>2, <2>1
<1>8. CASE x > hole
  <2>1. c[x] = a[x - 1] /\ c[y] = a[y - 1] /\ x - 1 \in 0 .. p - 1 /\ y - 1 \in 0 .. p - 1
    BY <1>1, <1>8
  <2>2. QED
    BY <1>3, <2>1
<1>9. QED
  BY <1>4, <1>5, <1>6, <1>7, <1>8

(***************************************************************************)
(* A pass over the array, turn by turn.                                    *)
(***************************************************************************)
Passing(a, gap, m, f) ==
  \A k \in 0 .. m : f[k] = IF k <= gap THEN a ELSE Slide(f[k - 1], k - 1, gap)

LEMMA PassIs ==
  ASSUME NEW m \in Nat, NEW X, Keyed(X), NEW a \in [0 .. m - 1 -> X], NEW gap \in Nat \ {0}
  PROVE  \E f \in [0 .. m -> [0 .. m - 1 -> X]] :
           GapPass(a, gap) = f[m] /\ Passing(a, gap, m, f)
<1> DEFINE V == [0 .. m - 1 -> X]
           step == [y \in (1 .. m) \X V |->
                      IF y[1] <= gap THEN a ELSE Slide(y[2], y[1] - 1, gap)]
           rhs(f) == [k \in 0 .. m |-> IF k <= gap THEN a ELSE Slide(f[k - 1], k - 1, gap)]
<1>1. \A k \in 1 .. m, b \in V : Slide(b, k - 1, gap) \in V
  <2> SUFFICES ASSUME NEW k \in 1 .. m, NEW b \in V PROVE Slide(b, k - 1, gap) \in V
    OBVIOUS
  <2>1. k - 1 \in Nat /\ k - 1 \in 0 .. m - 1
    OBVIOUS
  <2>2. PICK hole \in 0 .. k - 1 : Slid(b, Slide(b, k - 1, gap), k - 1, gap, hole)
    BY <2>1, SlideIs
  <2>3. QED
    BY <2>1, <2>2, SlidCarried
<1>2. step \in [((0 + 1) .. m) \X V -> V]
  <2>1. \A y \in (1 .. m) \X V :
          (IF y[1] <= gap THEN a ELSE Slide(y[2], y[1] - 1, gap)) \in V
    BY <1>1
  <2>2. QED
    BY <2>1
<1>3. PICK f \in [0 .. m -> V] :
        f[0] = a /\ \A k \in 1 .. m : f[k] = step[<<k, f[k - 1]>>]
  <2>1. a \in V /\ 0 \in Int /\ m \in Int /\ 0 <= m
    OBVIOUS
  <2> HIDE DEF step, V
  <2>2. Runs(0, m, V, a, step)
    BY <1>2, <2>1, LoopRecursion
  <2>3. 0 + 1 = 1
    OBVIOUS
  <2>4. QED
    BY <2>2, <2>3 DEF Runs
<1>4. f = rhs(f)
  <2>1. \A k \in 0 .. m : f[k] = IF k <= gap THEN a ELSE Slide(f[k - 1], k - 1, gap)
    <3> SUFFICES ASSUME NEW k \in 0 .. m
                 PROVE  f[k] = IF k <= gap THEN a ELSE Slide(f[k - 1], k - 1, gap)
      OBVIOUS
    <3>1. CASE k = 0
      BY <1>3, <3>1
    <3>2. CASE k # 0
      <4>1. k \in 1 .. m /\ <<k, f[k - 1]>> \in (1 .. m) \X V
        BY <3>2
      <4>2. step[<<k, f[k - 1]>>] = IF k <= gap THEN a ELSE Slide(f[k - 1], k - 1, gap)
        BY <4>1
      <4> HIDE DEF step
      <4>3. QED
        BY <1>3, <4>1, <4>2
    <3>3. QED
      BY <3>1, <3>2
  <2>2. QED
    BY <2>1
<1> DEFINE g == CHOOSE h : h = rhs(h)
<1>5. g = rhs(g)
  <2> HIDE DEF rhs
  <2>1. QED
    BY <1>4
<1>6. GapPass(a, gap) = g[m]
  <2>1. Length(a) = m
    BY LengthIs
  <2>2. QED
    BY <2>1, Zenon DEF GapPass
<1>7. Passing(a, gap, m, g)
  BY <1>5 DEF Passing
<1>8. \A k \in 0 .. m : g[k] \in V
  <2> DEFINE S == {k \in Nat : k <= m => g[k] \in V}
  <2> HIDE DEF g
  <2>1. 0 \in S
    BY <1>7 DEF Passing
  <2>2. ASSUME NEW k \in Nat, k \in S PROVE k + 1 \in S
    <3> SUFFICES ASSUME k + 1 <= m PROVE g[k + 1] \in V
      OBVIOUS
    <3>1. g[k] \in V /\ Slide(g[k], (k + 1) - 1, gap) \in V
      BY <1>1, <2>2
    <3>2. g[k + 1] = IF k + 1 <= gap THEN a ELSE Slide(g[(k + 1) - 1], (k + 1) - 1, gap)
      BY <1>7 DEF Passing
    <3>3. (k + 1) - 1 = k
      OBVIOUS
    <3>4. QED
      BY <3>1, <3>2, <3>3
  <2> HIDE DEF S
  <2>3. Nat \subseteq S
    BY <2>1, <2>2, Induction
  <2>4. QED
    BY <2>3 DEF S
<1>9. g \in [0 .. m -> V]
  <2>1. g = [k \in 0 .. m |-> g[k]]
    BY <1>5
  <2> HIDE DEF g
  <2>2. QED
    BY <1>8, <2>1
<1>10. QED
  BY <1>6, <1>7, <1>9

Slides(a, gap, m, f) ==
  /\ f[0] = a
  /\ \A k \in 0 .. m - 1 :
       \/ f[k + 1] = f[k] /\ k < gap /\ f[k] = a
       \/ \E hole \in 0 .. k : Slid(f[k], f[k + 1], k, gap, hole)

LEMMA PassTurn ==
  ASSUME NEW m \in Nat, NEW X, Keyed(X), NEW a \in [0 .. m - 1 -> X], NEW gap \in Nat \ {0},
         NEW f \in [0 .. m -> [0 .. m - 1 -> X]], Passing(a, gap, m, f)
  PROVE  Slides(a, gap, m, f)
<1>1. f[0] = a
  BY DEF Passing
<1>2. ASSUME NEW k \in 0 .. m - 1, k < gap PROVE f[k + 1] = a /\ f[k] = a
  BY <1>2 DEF Passing
<1>3. ASSUME NEW k \in 0 .. m - 1, k >= gap
      PROVE  \E hole \in 0 .. k : Slid(f[k], f[k + 1], k, gap, hole)
  <2>1. k + 1 \in 0 .. m /\ (k + 1) - 1 = k /\ ~(k + 1 <= gap)
    BY <1>3
  <2>2. f[k + 1] = Slide(f[k], k, gap)
    BY <2>1 DEF Passing
  <2>3. QED
    BY <2>2, SlideIs
<1>4. QED
  BY <1>1, <1>2, <1>3 DEF Slides

LEMMA PassCarries ==
  ASSUME NEW m \in Nat, NEW X, Keyed(X), NEW a \in [0 .. m - 1 -> X], NEW gap \in Nat \ {0},
         NEW f \in [0 .. m -> [0 .. m - 1 -> X]], Passing(a, gap, m, f)
  PROVE  \A k \in 0 .. m : Carried(a, f[k], 0, k)
<1> DEFINE S == {k \in Nat : k <= m => Carried(a, f[k], 0, k)}
<1>0. /\ f[0] = a
      /\ \A k \in 0 .. m - 1 :
           \/ f[k + 1] = f[k] /\ k < gap /\ f[k] = a
           \/ \E hole \in 0 .. k : Slid(f[k], f[k + 1], k, gap, hole)
  BY PassTurn DEF Slides
<1>1. 0 \in S
  BY <1>0, CarriedSame
<1>2. ASSUME NEW k \in Nat, k \in S PROVE k + 1 \in S
  <2> SUFFICES ASSUME k + 1 <= m PROVE Carried(a, f[k + 1], 0, k + 1)
    OBVIOUS
  <2>1. Carried(a, f[k], 0, k) /\ k \in 0 .. m - 1 /\ k + 1 \in 0 .. m
    BY <1>2
  <2> DEFINE b == f[k]
             c == f[k + 1]
  <2>2. /\ b \in [0 .. m - 1 -> X] /\ c \in [0 .. m - 1 -> X]
        /\ c = b \/ \E hole \in 0 .. k : Slid(b, c, k, gap, hole)
        /\ Carried(a, b, 0, k)
    BY <1>0, <2>1
  <2> HIDE DEF b, c
  <2>3. Carried(b, c, 0, k + 1)
    <3>1. CASE c = b
      BY <3>1, CarriedSame
    <3>2. CASE \E hole \in 0 .. k : Slid(b, c, k, gap, hole)
      BY <2>1, <2>2, <3>2, SlidCarried
    <3>3. QED
      BY <2>2, <3>1, <3>2
  <2>4. Carried(a, b, 0, k + 1)
    <3>1. 0 \in 0 .. k + 1 /\ k \in 0 .. (k + 1)
      BY <2>1
    <3>2. QED
      BY <2>1, <2>2, <3>1, CarriedWithin
  <2>5. Carried(a, c, 0, k + 1)
    BY <2>1, <2>2, <2>3, <2>4, CarriedOn
  <2>6. QED
    BY <2>5 DEF c
<1> HIDE DEF S
<1>3. Nat \subseteq S
  BY <1>1, <1>2, Induction
<1>4. QED
  BY <1>3 DEF S

LEMMA GapPassCarried ==
  ASSUME NEW m \in Nat, NEW X, Keyed(X), NEW a \in [0 .. m - 1 -> X], NEW gap \in Nat \ {0}
  PROVE  GapPass(a, gap) \in [0 .. m - 1 -> X] /\ Carried(a, GapPass(a, gap), 0, m)
<1>1. PICK f \in [0 .. m -> [0 .. m - 1 -> X]] : GapPass(a, gap) = f[m] /\ Passing(a, gap, m, f)
  BY PassIs
<1>2. m \in 0 .. m
  OBVIOUS
<1>3. QED
  BY <1>1, <1>2, PassCarries

(***************************************************************************)
(* Insertion sort leaves any array in order; and where every val is the    *)
(* place of its item, items of equal keys as they were.                    *)
(***************************************************************************)
Placed(a, l, r) == \A x \in l .. r - 1 : a[x].val = x

LEMMA InsertionSorts ==
  ASSUME NEW m \in Nat, NEW X, Keyed(X), NEW a \in [0 .. m - 1 -> X]
  PROVE  /\ sort_insertion(a) \in [0 .. m - 1 -> X]
         /\ Carried(a, sort_insertion(a), 0, m)
         /\ Up(sort_insertion(a), 0, m)
         /\ Placed(a, 0, m) => Keeps(sort_insertion(a), 0, m)
<1> DEFINE one == 1
<1>0. one \in Nat \ {0}
  OBVIOUS
<1> HIDE DEF one
<1>1. PICK f \in [0 .. m -> [0 .. m - 1 -> X]] :
        GapPass(a, one) = f[m] /\ Passing(a, one, m, f)
  BY <1>0, PassIs
<1>2. /\ \A k \in 0 .. m : Carried(a, f[k], 0, k)
      /\ f[0] = a
      /\ \A k \in 0 .. m - 1 :
           \/ f[k + 1] = f[k] /\ k < one /\ f[k] = a
           \/ \E hole \in 0 .. k : Slid(f[k], f[k + 1], k, one, hole)
  <2>1. \A k \in 0 .. m : Carried(a, f[k], 0, k)
    BY <1>0, <1>1, PassCarries
  <2>2. /\ f[0] = a
        /\ \A k \in 0 .. m - 1 :
             \/ f[k + 1] = f[k] /\ k < one /\ f[k] = a
             \/ \E hole \in 0 .. k : Slid(f[k], f[k + 1], k, one, hole)
    <3>1. Slides(a, one, m, f)
      BY <1>0, <1>1, PassTurn
    <3>2. QED
      BY <3>1 DEF Slides
  <2>3. QED
    BY <2>1, <2>2
<1> USE DEF one
<1> DEFINE Done(k) == Up(f[k], 0, k) /\ (Placed(a, 0, m) => Keeps(f[k], 0, k))
           S == {k \in Nat : k <= m => Done(k)}
<1>3. 0 \in S
  BY DEF Up, Keeps
<1>4. ASSUME NEW k \in Nat, k \in S PROVE k + 1 \in S
  <2> SUFFICES ASSUME k + 1 <= m PROVE Done(k + 1)
    OBVIOUS
  <2>1. Done(k) /\ k \in 0 .. m - 1 /\ k \in 0 .. m /\ k + 1 \in 0 .. m
    BY <1>4
  <2>2. f[k] \in [0 .. m - 1 -> X] /\ f[k + 1] \in [0 .. m - 1 -> X]
    BY <2>1
  <2>3. CASE k < 1
    BY <2>3 DEF Up, Keeps
  <2>4. CASE \E hole \in 0 .. k : Slid(f[k], f[k + 1], k, 1, hole)
    <3>1. PICK hole \in 0 .. k : Slid(f[k], f[k + 1], k, 1, hole)
      BY <2>4
    <3>2. Up(f[k + 1], 0, k + 1)
      BY <2>1, <2>2, <3>1, SlidUp
    <3>3. ASSUME Placed(a, 0, m) PROVE Keeps(f[k + 1], 0, k + 1)
      <4>1. \A x \in 0 .. k - 1 : f[k][x].val < f[k][k].val
        <5> DEFINE b == f[k]
        <5>0. Carried(a, b, 0, k)
          BY <1>2, <2>1
        <5> HIDE DEF b
        <5>1. b[k] = a[k] /\ \A x \in 0 .. k - 1 : \E y \in 0 .. k - 1 : b[x] = a[y]
          BY <2>1, <5>0 DEF Carried
        <5>2. \A x \in 0 .. k : a[x].val = x
          BY <2>1, <3>3 DEF Placed
        <5>3. QED
          BY <2>1, <5>1, <5>2 DEF b
      <4>2. QED
        BY <2>1, <2>2, <3>1, <3>3, <4>1, SlidKeeps
    <3>4. QED
      BY <3>2, <3>3
  <2>5. QED
    BY <1>2, <2>1, <2>3, <2>4
<1> HIDE DEF S
<1>5. Nat \subseteq S
  BY <1>3, <1>4, Induction
<1>6. Done(m)
  BY <1>5 DEF S
<1>7. m \in 0 .. m
  OBVIOUS
<1>8. QED
  BY <1>1, <1>2, <1>6, <1>7 DEF sort_insertion

(***************************************************************************)
(* Shell sort's gaps are 1, 4, 13, ... : the least set with 1 and, with x, *)
(* 3 * x + 1.  Dividing by 3 goes through all of them down to 1.           *)
(***************************************************************************)
GapClosed(S) == 1 \in S /\ \A x \in S : 3 * x + 1 \in S

ShellGaps == {g \in Nat : \A S \in SUBSET Nat : GapClosed(S) => g \in S}

LEMMA ShellGapsInduction ==
  ASSUME NEW S \in SUBSET Nat, GapClosed(S)
  PROVE  ShellGaps \subseteq S
BY DEF ShellGaps

LEMMA ShellGapsClosed ==
  ShellGaps \in SUBSET Nat /\ GapClosed(ShellGaps)
BY DEF ShellGaps, GapClosed

LEMMA FirstGapIs ==
  ASSUME NEW len \in Nat
  PROVE  FirstGap(len) \in ShellGaps
<1> DEFINE top == len \div 3
           F == [Nat -> Nat]
           step == [y \in Nat \X F |-> IF y[1] < top THEN y[2][3 * y[1] + 1] ELSE y[1]]
           rank == [x \in Nat |-> IF x < top THEN top - x ELSE 0]
           rhs(f) == [gap \in Nat |-> IF gap < top THEN f[3 * gap + 1] ELSE gap]
<1>1. top \in Nat
  OBVIOUS
<1> HIDE DEF top
<1>2. rank \in [Nat -> Nat] /\ step \in [Nat \X [Nat -> Nat] -> Nat]
  BY <1>1
<1>3. LooksBelow(Nat, Nat, rank, step)
  <2> SUFFICES ASSUME NEW x \in Nat, NEW g \in F, NEW h \in F,
                      \A y \in Nat : rank[y] < rank[x] => g[y] = h[y]
               PROVE  step[<<x, g>>] = step[<<x, h>>]
    BY DEF LooksBelow
  <2>1. CASE x < top
    <3>1. 3 * x + 1 \in Nat /\ rank[3 * x + 1] < rank[x]
      BY <1>1, <2>1
    <3>2. g[3 * x + 1] = h[3 * x + 1]
      BY <3>1
    <3>3. QED
      BY <3>2
  <2>2. CASE ~(x < top)
    BY <2>2
  <2>3. QED
    BY <2>1, <2>2
<1>4. Solvable(Nat, Nat, step)
  <2> HIDE DEF rank, step
  <2>1. 0 \in Nat
    OBVIOUS
  <2>2. QED
    BY <1>2, <1>3, <2>1, RankRecursion
<1>5. PICK f \in F : f = rhs(f)
  <2>1. PICK f \in F : \A x \in Nat : f[x] = step[<<x, f>>]
    BY <1>4 DEF Solvable
  <2>2. f = [x \in Nat |-> IF x < top THEN f[3 * x + 1] ELSE x]
    BY <2>1
  <2>3. QED
    BY <2>2
<1> DEFINE grown == CHOOSE h : h = rhs(h)
<1>6. grown = rhs(grown)
  <2> HIDE DEF rhs
  <2>1. QED
    BY <1>5
<1>7. FirstGap(len) = grown[1]
  BY DEF FirstGap, top
<1> HIDE DEF grown
<1>8. \A x \in Nat : grown[x] = IF x < top THEN grown[3 * x + 1] ELSE x
  BY <1>6
<1> DEFINE S == {k \in Nat : \A x \in ShellGaps : top <= x + k => grown[x] \in ShellGaps}
<1>9. 0 \in S
  BY <1>1, <1>8, ShellGapsClosed
<1>10. ASSUME NEW k \in Nat, k \in S PROVE k + 1 \in S
  <2> SUFFICES ASSUME NEW x \in ShellGaps, top <= x + (k + 1) PROVE grown[x] \in ShellGaps
    OBVIOUS
  <2>1. x \in Nat /\ 3 * x + 1 \in ShellGaps
    BY ShellGapsClosed DEF GapClosed
  <2>2. top <= (3 * x + 1) + k
    BY <1>1, <2>1
  <2>3. grown[3 * x + 1] \in ShellGaps
    BY <1>10, <2>1, <2>2
  <2>4. QED
    BY <1>8, <2>1, <2>3
<1> HIDE DEF S
<1>11. top \in S
  BY <1>1, <1>9, <1>10, Induction
<1>12. 1 \in ShellGaps /\ top <= 1 + top
  BY <1>1, ShellGapsClosed DEF GapClosed
<1>13. QED
  BY <1>7, <1>11, <1>12 DEF S

LEMMA ArraysIs ==
  ASSUME NEW m \in Nat, NEW X, Keyed(X), NEW a \in [0 .. m - 1 -> X]
  PROVE  /\ a \in Arrays(a) /\ Arrays(a) = [0 .. m - 1 -> Range(a)]
         /\ Keyed(Range(a)) /\ Range(a) \subseteq X
BY DEF Arrays, Range, Keyed

(***************************************************************************)
(* The passes with the gaps from gap down.                                 *)
(***************************************************************************)
LEMMA GapPassesIs ==
  ASSUME NEW m \in Nat, NEW X, Keyed(X), NEW a \in [0 .. m - 1 -> X], NEW first \in Nat
  PROVE  \E f \in [Nat -> [Arrays(a) -> Arrays(a)]] :
           /\ GapPasses(a, first) = f[first][a]
           /\ \A gap \in Nat : \A b \in Arrays(a) :
                f[gap][b] = IF gap = 0 THEN b ELSE f[gap \div 3][GapPass(b, gap)]
<1> DEFINE A == Arrays(a)
           V == [A -> A]
           F == [Nat -> V]
           step == [y \in Nat \X F |->
                      [b \in A |-> IF y[1] = 0 THEN b ELSE y[2][y[1] \div 3][GapPass(b, y[1])]]]
           rank == [x \in Nat |-> x]
           rhs(f) == [gap \in Nat |->
                        [b \in A |-> IF gap = 0 THEN b ELSE f[gap \div 3][GapPass(b, gap)]]]
<1>1. ASSUME NEW b \in A, NEW gap \in Nat \ {0} PROVE GapPass(b, gap) \in A
  <2>1. A = [0 .. m - 1 -> Range(a)] /\ Keyed(Range(a))
    BY ArraysIs
  <2> HIDE DEF A
  <2>2. QED
    BY <2>1, GapPassCarried
<1> HIDE DEF A
<1>2. \A x \in Nat, f \in F :
        [b \in A |-> IF x = 0 THEN b ELSE f[x \div 3][GapPass(b, x)]] \in V
  <2> SUFFICES ASSUME NEW x \in Nat, NEW f \in F
               PROVE  \A b \in A : (IF x = 0 THEN b ELSE f[x \div 3][GapPass(b, x)]) \in A
    OBVIOUS
  <2>1. x \div 3 \in Nat
    OBVIOUS
  <2>2. f[x \div 3] \in V
    BY <2>1
  <2>3. QED
    BY <1>1, <2>2
<1>3. step \in [Nat \X F -> V] /\ rank \in [Nat -> Nat]
  <2> HIDE DEF F, V
  <2>1. QED
    BY <1>2
<1>4. LooksBelow(Nat, V, rank, step)
  <2> SUFFICES ASSUME NEW x \in Nat, NEW g \in F, NEW h \in F,
                      \A y \in Nat : rank[y] < rank[x] => g[y] = h[y]
               PROVE  step[<<x, g>>] = step[<<x, h>>]
    BY DEF LooksBelow
  <2> HIDE DEF F, V
  <2>1. /\ step[<<x, g>>] = [b \in A |-> IF x = 0 THEN b ELSE g[x \div 3][GapPass(b, x)]]
        /\ step[<<x, h>>] = [b \in A |-> IF x = 0 THEN b ELSE h[x \div 3][GapPass(b, x)]]
    OBVIOUS
  <2>2. CASE x = 0
    BY <2>1, <2>2
  <2>3. CASE x # 0
    <3>1. x \div 3 \in Nat /\ rank[x \div 3] < rank[x]
      BY <2>3
    <3>2. g[x \div 3] = h[x \div 3]
      BY <3>1
    <3> HIDE DEF step, rank
    <3>3. QED
      BY <2>1, <3>2
  <2>4. QED
    BY <2>2, <2>3
<1>5. Solvable(Nat, V, step)
  <2>1. [b \in A |-> b] \in V
    OBVIOUS
  <2> HIDE DEF rank, step, V
  <2>2. QED
    BY <1>3, <1>4, <2>1, RankRecursion
<1>6. PICK f \in F : f = rhs(f)
  <2>1. PICK f \in F : \A x \in Nat : f[x] = step[<<x, f>>]
    BY <1>5 DEF Solvable
  <2> HIDE DEF F
  <2>2. \A x \in Nat :
          f[x] = [b \in A |-> IF x = 0 THEN b ELSE f[x \div 3][GapPass(b, x)]]
    BY <2>1
  <2>3. f = [x \in Nat |-> f[x]]
    BY DEF F
  <2>4. QED
    BY <2>2, <2>3
<1> DEFINE passes == CHOOSE h : h = rhs(h)
<1>7. passes = rhs(passes)
  <2> HIDE DEF rhs
  <2>1. QED
    BY <1>6
<1>8. GapPasses(a, first) = passes[first][a]
  BY DEF GapPasses, A
<1> HIDE DEF passes
<1>9. \A gap \in Nat : \A b \in A :
        passes[gap][b] = IF gap = 0 THEN b ELSE passes[gap \div 3][GapPass(b, gap)]
  <2> SUFFICES ASSUME NEW gap \in Nat, NEW b \in A
               PROVE  passes[gap][b] =
                        IF gap = 0 THEN b ELSE passes[gap \div 3][GapPass(b, gap)]
    OBVIOUS
  <2> DEFINE R(x) == [c \in A |-> IF x = 0 THEN c ELSE passes[x \div 3][GapPass(c, x)]]
  <2>1. passes[gap] = R(gap)
    BY <1>7
  <2>2. R(gap)[b] = IF gap = 0 THEN b ELSE passes[gap \div 3][GapPass(b, gap)]
    OBVIOUS
  <2> HIDE DEF R
  <2>3. QED
    BY <2>1, <2>2
<1>10. \A x \in Nat : passes[x] \in V
  <2> DEFINE S == {k \in Nat : \A x \in 0 .. k : passes[x] \in V}
             R(x) == [b \in A |-> IF x = 0 THEN b ELSE passes[x \div 3][GapPass(b, x)]]
  <2>1. \A x \in Nat : passes[x] = R(x)
    BY <1>7
  <2>2. 0 \in S
    <3>1. R(0) \in V
      OBVIOUS
    <3> HIDE DEF R, V
    <3>2. QED
      BY <2>1, <3>1
  <2>3. ASSUME NEW k \in Nat, k \in S PROVE k + 1 \in S
    <3> DEFINE w == k + 1
    <3>1. w \in Nat \ {0} /\ w \div 3 \in 0 .. k
      OBVIOUS
    <3>2. passes[w \div 3] \in V
      BY <2>3, <3>1
    <3>3. R(w) \in V
      <4> HIDE DEF w
      <4>1. \A b \in A : passes[w \div 3][GapPass(b, w)] \in A
        BY <1>1, <3>1, <3>2
      <4>2. QED
        BY <3>1, <4>1
    <3>4. passes[w] \in V
      <4> HIDE DEF R, V, w
      <4>1. QED
        BY <2>1, <3>1, <3>3
    <3> HIDE DEF V
    <3>5. QED
      BY <2>3, <3>4
  <2> HIDE DEF S, V
  <2>4. Nat \subseteq S
    BY <2>2, <2>3, Induction
  <2>5. QED
    BY <2>4 DEF S
<1>11. passes \in F
  <2>1. passes = [x \in Nat |-> passes[x]]
    BY <1>7
  <2> HIDE DEF V
  <2>2. QED
    BY <1>10, <2>1
<1>12. QED
  BY <1>8, <1>9, <1>11 DEF A

(***************************************************************************)
(* Shell sort leaves any array in order: whatever the passes before made   *)
(* of it, the last one is an insertion sort.                               *)
(***************************************************************************)
LEMMA ShellSorts ==
  ASSUME NEW m \in Nat, NEW X, Keyed(X), NEW a \in [0 .. m - 1 -> X]
  PROVE  /\ sort_shell(a) \in [0 .. m - 1 -> X]
         /\ Carried(a, sort_shell(a), 0, m)
         /\ Up(sort_shell(a), 0, m)
<1> DEFINE A == Arrays(a)
           Y == Range(a)
           first == FirstGap(Length(a))
<1>1. a \in A /\ A = [0 .. m - 1 -> Y] /\ Keyed(Y) /\ Y \subseteq X
  BY ArraysIs
<1>2. first \in ShellGaps /\ first \in Nat
  <2>1. Length(a) = m
    BY LengthIs
  <2>2. QED
    BY <2>1, FirstGapIs, ShellGapsClosed
<1> HIDE DEF Y, first
<1>3. PICK f \in [Nat -> [A -> A]] :
           /\ GapPasses(a, first) = f[first][a]
           /\ \A gap \in Nat : \A b \in A :
                f[gap][b] = IF gap = 0 THEN b ELSE f[gap \div 3][GapPass(b, gap)]
  BY <1>2, GapPassesIs
<1> HIDE DEF A
<1> DEFINE Right(b, c) == c \in A /\ Carried(b, c, 0, m) /\ Up(c, 0, m)
           S == {g \in Nat : \A b \in A : Right(b, f[g][b])}
<1>4. 1 \in S
  <2> SUFFICES ASSUME NEW b \in A PROVE Right(b, f[1][b])
    OBVIOUS
  <2> DEFINE c == sort_insertion(b)
  <2>1. Right(b, c)
    <3>1. c \in [0 .. m - 1 -> Y] /\ Carried(b, c, 0, m) /\ Up(c, 0, m)
      BY <1>1, InsertionSorts
    <3>2. QED
      BY <1>1, <3>1
  <2>2. c = GapPass(b, 1)
    BY DEF sort_insertion
  <2> HIDE DEF c
  <2>3. c \in A
    BY <2>1
  <2>4. f[1][b] = f[1 \div 3][GapPass(b, 1)] /\ f[0][c] = c /\ 1 \div 3 = 0
    BY <1>3, <2>3
  <2>5. f[1][b] = c
    BY <2>2, <2>4
  <2>6. QED
    BY <2>1, <2>5
<1>5. ASSUME NEW x \in S PROVE 3 * x + 1 \in S
  <2> DEFINE g == 3 * x + 1
  <2>1. x \in Nat /\ g \in Nat \ {0} /\ g \div 3 = x
    OBVIOUS
  <2> HIDE DEF g
  <2>2. ASSUME NEW b \in A PROVE Right(b, f[g][b])
    <3> DEFINE c == GapPass(b, g)
               d == f[x][c]
    <3>1. c \in A /\ Carried(b, c, 0, m)
      BY <1>1, <2>1, GapPassCarried
    <3>2. f[g][b] = f[g \div 3][c]
      BY <1>3, <2>1
    <3>3. f[g][b] = d
      BY <2>1, <3>2
    <3> HIDE DEF c
    <3>4. Right(c, d)
      BY <3>1
    <3> HIDE DEF d
    <3>5. Carried(b, d, 0, m)
      <4>1. b \in [0 .. m - 1 -> Y] /\ c \in [0 .. m - 1 -> Y] /\ d \in [0 .. m - 1 -> Y]
        BY <1>1, <3>1, <3>4
      <4>2. m \in 0 .. m /\ 0 \in Nat
        OBVIOUS
      <4>3. QED
        BY <3>1, <3>4, <4>1, <4>2, CarriedOn
    <3>6. QED
      BY <3>3, <3>4, <3>5
  <2>3. g \in S
    BY <2>1, <2>2
  <2>4. QED
    BY <2>3 DEF g
<1>6. S \in SUBSET Nat /\ GapClosed(S)
  <2>1. S \in SUBSET Nat
    OBVIOUS
  <2> HIDE DEF S
  <2>2. QED
    BY <1>4, <1>5, <2>1 DEF GapClosed
<1>7. first \in S
  <2> HIDE DEF S
  <2>1. QED
    BY <1>2, <1>6, ShellGapsInduction
<1>8. Right(a, f[first][a])
  BY <1>1, <1>7
<1>9. sort_shell(a) = f[first][a]
  BY <1>3 DEF sort_shell, first
<1> DEFINE c == f[first][a]
<1> HIDE DEF c
<1>10. c \in A /\ Carried(a, c, 0, m) /\ Up(c, 0, m) /\ sort_shell(a) = c
  BY <1>8, <1>9 DEF c
<1>11. QED
  BY <1>1, <1>10

-----------------------------------------------------------------------------
(***************************************************************************)
(* sort_merge.c: a merge, cell by cell.                                    *)
(***************************************************************************)
Filled(a, mid, r, k, g) ==
  IF g.b < mid /\ (g.c < r => LeftFirst(a[g.b], a[g.c]))
  THEN [b |-> g.b + 1, c |-> g.c, out |-> [g.out EXCEPT ![k - 1] = a[g.b]]]
  ELSE [b |-> g.b, c |-> g.c + 1, out |-> [g.out EXCEPT ![k - 1] = a[g.c]]]

Merging(a, l, mid, r, f) ==
  /\ f[l] = [b |-> l, c |-> mid, out |-> a]
  /\ \A k \in l + 1 .. r : f[k] = Filled(a, mid, r, k, f[k - 1])

LEMMA MergeIs ==
  ASSUME NEW m \in Nat, NEW X, NEW a \in [0 .. m - 1 -> X],
         NEW l \in Nat, NEW mid \in Nat, NEW r \in Nat, l <= r
  PROVE  \E f : merge(a, l, mid, r) = f[r].out /\ Merging(a, l, mid, r, f)
<1> DEFINE Z == X \cup {a[x] : x \in Int}
           V == [b : Int, c : Int, out : [0 .. m - 1 -> Z]]
           v == [b |-> l, c |-> mid, out |-> a]
           step == [y \in ((l + 1) .. r) \X V |-> Filled(a, mid, r, y[1], y[2])]
           rhs(f) == [k \in l .. r |-> IF k = l THEN v ELSE Filled(a, mid, r, k, f[k - 1])]
<1>1. v \in V
  OBVIOUS
<1>2. ASSUME NEW k \in Int, NEW g \in V PROVE Filled(a, mid, r, k, g) \in V
  <2>1. g.b \in Int /\ g.c \in Int /\ g.out \in [0 .. m - 1 -> Z]
    OBVIOUS
  <2>2. a[g.b] \in Z /\ a[g.c] \in Z
    BY <2>1
  <2> HIDE DEF Z
  <2> DEFINE o1 == [g.out EXCEPT ![k - 1] = a[g.b]]
             o2 == [g.out EXCEPT ![k - 1] = a[g.c]]
  <2>3. o1 \in [0 .. m - 1 -> Z] /\ o2 \in [0 .. m - 1 -> Z]
    BY <2>1, <2>2
  <2> HIDE DEF o1, o2
  <2>4. [b |-> g.b + 1, c |-> g.c, out |-> o1] \in V /\ [b |-> g.b, c |-> g.c + 1, out |-> o2] \in V
    BY <2>1, <2>3
  <2>5. QED
    BY <2>4 DEF Filled, o1, o2
<1> HIDE DEF V
<1>3. step \in [((l + 1) .. r) \X V -> V]
  BY <1>2
<1>4. PICK f \in [l .. r -> V] :
        f[l] = v /\ \A k \in l + 1 .. r : f[k] = step[<<k, f[k - 1]>>]
  <2>0. l \in Int /\ r \in Int
    OBVIOUS
  <2> HIDE DEF step, v
  <2>1. Runs(l, r, V, v, step)
    BY <1>1, <1>3, <2>0, LoopRecursion
  <2>2. QED
    BY <2>1 DEF Runs
<1>5. f = rhs(f)
  <2>1. ASSUME NEW k \in l .. r, k # l
        PROVE  f[k] = Filled(a, mid, r, k, f[k - 1])
    <3>1. k \in l + 1 .. r /\ <<k, f[k - 1]>> \in ((l + 1) .. r) \X V
      BY <2>1
    <3>2. step[<<k, f[k - 1]>>] = Filled(a, mid, r, k, f[k - 1])
      BY <3>1
    <3> HIDE DEF step
    <3>3. QED
      BY <1>4, <3>1, <3>2
  <2>2. f = [k \in l .. r |-> f[k]] /\ f[l] = v
    BY <1>4
  <2> HIDE DEF v
  <2>3. QED
    BY <2>1, <2>2
<1> DEFINE filled == CHOOSE h : h = rhs(h)
<1>6. filled = rhs(filled)
  <2> HIDE DEF rhs
  <2>1. QED
    BY <1>5
<1>7. merge(a, l, mid, r) = filled[r].out
  BY DEF merge, Filled
<1> HIDE DEF filled, v
<1>8. filled[l] = v /\ \A k \in l + 1 .. r : filled[k] = Filled(a, mid, r, k, filled[k - 1])
  BY <1>6
<1>9. QED
  BY <1>7, <1>8 DEF Merging, v

(***************************************************************************)
(* What is there when the cells l to k - 1 of o are filled with what was   *)
(* read from the cells Q of a; and how one more is.                        *)
(***************************************************************************)
Copied(a, l, k, o, Q) ==
  /\ \A x \in DOMAIN a : x \notin l .. k - 1 => o[x] = a[x]
  /\ \A x \in Q : \E y \in l .. k - 1 : o[y] = a[x]
  /\ \A y \in l .. k - 1 : \E x \in Q : o[y] = a[x]

LEMMA CopiedOne ==
  ASSUME NEW m \in Nat, NEW X, NEW a \in [0 .. m - 1 -> X], NEW o \in [0 .. m - 1 -> X],
         NEW l \in Nat, NEW k \in l .. m - 1, NEW Q, Copied(a, l, k, o, Q),
         NEW z \in 0 .. m - 1, NEW P, P = Q \cup {z}, NEW q, q = [o EXCEPT ![k] = a[z]]
  PROVE  q \in [0 .. m - 1 -> X] /\ Copied(a, l, k + 1, q, P)
<1>1. /\ q \in [0 .. m - 1 -> X] /\ q[k] = a[z]
      /\ \A x \in 0 .. m - 1 : x # k => q[x] = o[x]
  OBVIOUS
<1>2. \A x \in DOMAIN a : x \notin l .. (k + 1) - 1 => q[x] = a[x]
  BY <1>1 DEF Copied
<1>3. ASSUME NEW x \in P PROVE \E y \in l .. (k + 1) - 1 : q[y] = a[x]
  <2>1. CASE x = z
    <3>1. k \in l .. (k + 1) - 1
      OBVIOUS
    <3>2. QED
      BY <1>1, <2>1, <3>1
  <2>2. CASE x \in Q
    <3>1. PICK y \in l .. k - 1 : o[y] = a[x]
      BY <2>2 DEF Copied
    <3>2. y \in l .. (k + 1) - 1 /\ q[y] = o[y]
      BY <1>1
    <3>3. QED
      BY <3>1, <3>2
  <2>3. QED
    BY <1>3, <2>1, <2>2
<1>4. ASSUME NEW y \in l .. (k + 1) - 1 PROVE \E x \in P : q[y] = a[x]
  <2>1. CASE y = k
    BY <1>1, <2>1
  <2>2. CASE y # k
    <3>1. y \in l .. k - 1 /\ q[y] = o[y]
      BY <1>1, <2>2
    <3>2. PICK x \in Q : o[y] = a[x]
      BY <3>1 DEF Copied
    <3>3. QED
      BY <3>1, <3>2
  <2>3. QED
    BY <2>1, <2>2
<1>5. QED
  BY <1>1, <1>2, <1>3, <1>4 DEF Copied

(***************************************************************************)
(* A merge half way: b and c have read as much as there is.                *)
(***************************************************************************)
Read(l, mid, g) == (l .. g.b - 1) \cup (mid .. g.c - 1)

Halfway(a, l, mid, r, k, g, m, X) ==
  /\ g.b \in l .. mid /\ g.c \in mid .. r /\ k = g.b + g.c - mid
  /\ g.out \in [0 .. m - 1 -> X]
  /\ Copied(a, l, k, g.out, Read(l, mid, g))

\* The next is read on the left, or on the right.
TakesLeft(a, mid, r, g) == g.b < mid /\ (g.c < r => a[g.b].key <= a[g.c].key)

LeftTurn(a, l, mid, r, k, g, h, m, X) ==
  /\ Halfway(a, l, mid, r, k + 1, h, m, X)
  /\ h.b = g.b + 1 /\ h.c = g.c /\ h.out = [g.out EXCEPT ![k] = a[g.b]]

RightTurn(a, l, mid, r, k, g, h, m, X) ==
  /\ Halfway(a, l, mid, r, k + 1, h, m, X)
  /\ h.b = g.b /\ h.c = g.c + 1 /\ h.out = [g.out EXCEPT ![k] = a[g.c]]
  /\ g.c < r /\ (g.b < mid => a[g.c].key < a[g.b].key)

MergeArgs(a, l, mid, r, m, X) ==
  /\ m \in Nat /\ Keyed(X) /\ a \in [0 .. m - 1 -> X]
  /\ l \in Nat /\ mid \in l .. m /\ r \in mid .. m

LEMMA HalfwayLeft ==
  ASSUME NEW m, NEW X, NEW a, NEW l, NEW mid, NEW r, MergeArgs(a, l, mid, r, m, X),
         NEW k, k \in l .. r - 1, NEW g, Halfway(a, l, mid, r, k, g, m, X),
         TakesLeft(a, mid, r, g), NEW w, w = k + 1,
         NEW h, h = Filled(a, mid, r, w, g)
  PROVE  LeftTurn(a, l, mid, r, k, g, h, m, X)
<1> DEFINE z == g.b
           q == [g.out EXCEPT ![k] = a[z]]
<1>a. /\ m \in Nat /\ Keyed(X) /\ a \in [0 .. m - 1 -> X]
      /\ l \in Nat /\ mid \in l .. m /\ r \in mid .. m
  BY DEF MergeArgs
<1> USE <1>a
<1>0. /\ g.b \in l .. mid /\ g.c \in mid .. r /\ k = g.b + g.c - mid
      /\ g.out \in [0 .. m - 1 -> X]
      /\ Copied(a, l, k, g.out, Read(l, mid, g))
  BY DEF Halfway
<1>1. h = [b |-> g.b + 1, c |-> g.c, out |-> q]
  <2>1. w - 1 = k
    OBVIOUS
  <2>2. QED
    BY <2>1 DEF Filled, TakesLeft, LeftFirst
<1>2. z \in 0 .. m - 1 /\ z \in l .. mid - 1
  BY DEF Halfway, TakesLeft
<1>3. Read(l, mid, h) = Read(l, mid, g) \cup {z}
  <2>1. h.b = g.b + 1 /\ h.c = g.c /\ g.b \in Int
    BY <1>1, <1>2
  <2>2. l .. h.b - 1 = (l .. g.b - 1) \cup {z}
    BY <1>2, <2>1
  <2>3. QED
    BY <2>1, <2>2 DEF Read
<1> HIDE DEF z
<1>4. q \in [0 .. m - 1 -> X] /\ Copied(a, l, k + 1, q, Read(l, mid, h))
  <2> DEFINE o == g.out
             Q == Read(l, mid, g)
             P == Read(l, mid, h)
  <2>1. o \in [0 .. m - 1 -> X] /\ Copied(a, l, k, o, Q)
    BY <1>0
  <2>2. P = Q \cup {z} /\ q = [o EXCEPT ![k] = a[z]] /\ k \in l .. m - 1
    BY <1>3
  <2> HIDE DEF o, Q, P, q
  <2>3. q \in [0 .. m - 1 -> X] /\ Copied(a, l, k + 1, q, P)
    BY <1>2, <2>1, <2>2, CopiedOne
  <2>4. QED
    BY <2>3 DEF P
<1>5. h.b = g.b + 1 /\ h.c = g.c /\ h.out = q
  BY <1>1
<1>6. h.b \in l .. mid /\ h.c \in mid .. r /\ k + 1 = h.b + h.c - mid
  <2>1. g.b \in l .. mid - 1 /\ l \in Int /\ mid \in Int /\ r \in Int
    BY <1>2 DEF z
  <2> DEFINE gb == g.b
             gc == g.c
  <2>2. /\ gb \in l .. mid - 1 /\ gc \in mid .. r /\ k = gb + gc - mid
        /\ h.b = gb + 1 /\ h.c = gc
    BY <1>0, <1>5, <2>1
  <2> HIDE DEF gb, gc
  <2>3. QED
    BY <2>1, <2>2
<1> HIDE DEF q
<1>7. Halfway(a, l, mid, r, k + 1, h, m, X)
  BY <1>4, <1>5, <1>6 DEF Halfway
<1>8. QED
  BY <1>5, <1>7 DEF LeftTurn, z, q

LEMMA HalfwayRight ==
  ASSUME NEW m, NEW X, NEW a, NEW l, NEW mid, NEW r, MergeArgs(a, l, mid, r, m, X),
         NEW k, k \in l .. r - 1, NEW g, Halfway(a, l, mid, r, k, g, m, X),
         ~TakesLeft(a, mid, r, g), NEW w, w = k + 1,
         NEW h, h = Filled(a, mid, r, w, g)
  PROVE  RightTurn(a, l, mid, r, k, g, h, m, X)
<1> DEFINE z == g.c
           q == [g.out EXCEPT ![k] = a[z]]
<1>a. /\ m \in Nat /\ Keyed(X) /\ a \in [0 .. m - 1 -> X]
      /\ l \in Nat /\ mid \in l .. m /\ r \in mid .. m
  BY DEF MergeArgs
<1> USE <1>a
<1>0. /\ g.b \in l .. mid /\ g.c \in mid .. r /\ k = g.b + g.c - mid
      /\ g.out \in [0 .. m - 1 -> X]
      /\ Copied(a, l, k, g.out, Read(l, mid, g))
  BY DEF Halfway
<1>1. h = [b |-> g.b, c |-> g.c + 1, out |-> q]
  <2>1. w - 1 = k
    OBVIOUS
  <2>2. QED
    BY <2>1 DEF Filled, TakesLeft, LeftFirst
<1>2. z \in 0 .. m - 1 /\ z \in mid .. r - 1
  BY DEF Halfway, TakesLeft
<1>3. Read(l, mid, h) = Read(l, mid, g) \cup {z}
  <2>1. h.b = g.b /\ h.c = g.c + 1 /\ g.c \in Int
    BY <1>1, <1>2
  <2>2. mid .. h.c - 1 = (mid .. g.c - 1) \cup {z}
    BY <1>2, <2>1
  <2>3. QED
    BY <2>1, <2>2 DEF Read
<1>4. g.b < mid => a[g.c].key < a[g.b].key
  <2> SUFFICES ASSUME g.b < mid PROVE a[g.c].key < a[g.b].key
    OBVIOUS
  <2>1. g.b \in 0 .. m - 1 /\ g.c \in 0 .. m - 1
    BY <1>2 DEF Halfway
  <2>2. a[g.b].key \in Int /\ a[g.c].key \in Int
    BY <2>1 DEF Keyed
  <2>3. QED
    BY <1>2, <2>2 DEF TakesLeft
<1> HIDE DEF z
<1>5. q \in [0 .. m - 1 -> X] /\ Copied(a, l, k + 1, q, Read(l, mid, h))
  <2> DEFINE o == g.out
             Q == Read(l, mid, g)
             P == Read(l, mid, h)
  <2>1. o \in [0 .. m - 1 -> X] /\ Copied(a, l, k, o, Q)
    BY <1>0
  <2>2. P = Q \cup {z} /\ q = [o EXCEPT ![k] = a[z]] /\ k \in l .. m - 1
    BY <1>3
  <2> HIDE DEF o, Q, P, q
  <2>3. q \in [0 .. m - 1 -> X] /\ Copied(a, l, k + 1, q, P)
    BY <1>2, <2>1, <2>2, CopiedOne
  <2>4. QED
    BY <2>3 DEF P
<1>6. h.b = g.b /\ h.c = g.c + 1 /\ h.out = q
  BY <1>1
<1>7. h.b \in l .. mid /\ h.c \in mid .. r /\ k + 1 = h.b + h.c - mid
  <2>1. g.c \in mid .. r - 1 /\ l \in Int /\ mid \in Int /\ r \in Int
    BY <1>2 DEF z
  <2> DEFINE gb == g.b
             gc == g.c
  <2>2. /\ gb \in l .. mid /\ gc \in mid .. r - 1 /\ k = gb + gc - mid
        /\ h.b = gb /\ h.c = gc + 1
    BY <1>0, <1>6, <2>1
  <2> HIDE DEF gb, gc
  <2>3. QED
    BY <2>1, <2>2
<1>8. g.c < r
  BY <1>2 DEF z
<1> HIDE DEF q
<1>9. Halfway(a, l, mid, r, k + 1, h, m, X)
  BY <1>5, <1>6, <1>7 DEF Halfway
<1>10. QED
  BY <1>4, <1>6, <1>8, <1>9 DEF RightTurn, z, q

(***************************************************************************)
(* Items in line: by key, then by val.                                     *)
(***************************************************************************)
Valued(X) == \A x \in X : x.key \in Int /\ x.val \in Int

Before(x, y) == x.key < y.key \/ (x.key = y.key /\ x.val < y.val)

Line(a, l, r) == \A x, y \in l .. r - 1 : x < y => Before(a[x], a[y])

Behind(a, l, r, it) == \A x \in l .. r - 1 : Before(a[x], it)

LEMMA BeforeOn ==
  ASSUME NEW X, Valued(X), NEW x \in X, NEW y \in X, NEW z \in X, Before(x, y), Before(y, z)
  PROVE  Before(x, z)
BY DEF Before, Valued

LEMMA LineOne ==
  ASSUME NEW m \in Nat, NEW X, Valued(X), NEW o \in [0 .. m - 1 -> X], NEW l \in Nat,
         NEW k \in l .. m - 1, NEW it \in X, Line(o, l, k), Behind(o, l, k, it),
         NEW q, q = [o EXCEPT ![k] = it]
  PROVE  /\ Line(q, l, k + 1)
         /\ \A next \in X : Before(it, next) => Behind(q, l, k + 1, next)
         /\ \A next \in X : Behind(o, l, k, next) /\ Before(it, next) => Behind(q, l, k + 1, next)
<1>1. q[k] = it /\ \A x \in l .. k - 1 : q[x] = o[x] /\ o[x] \in X
  OBVIOUS
<1>2. Line(q, l, k + 1)
  <2> SUFFICES ASSUME NEW x \in l .. k, NEW y \in l .. k, x < y PROVE Before(q[x], q[y])
    BY DEF Line
  <2>1. CASE y = k
    <3>1. x \in l .. k - 1
      BY <2>1
    <3>2. Before(o[x], it)
      BY <3>1 DEF Behind
    <3>3. QED
      BY <1>1, <2>1, <3>1, <3>2
  <2>2. CASE y # k
    <3>1. x \in l .. k - 1 /\ y \in l .. k - 1
      BY <2>2
    <3>2. Before(o[x], o[y])
      BY <3>1 DEF Line
    <3>3. QED
      BY <1>1, <3>1, <3>2
  <2>3. QED
    BY <2>1, <2>2
<1>3. ASSUME NEW next \in X, Before(it, next) PROVE Behind(q, l, k + 1, next)
  <2> SUFFICES ASSUME NEW x \in l .. k PROVE Before(q[x], next)
    BY DEF Behind
  <2>1. CASE x = k
    BY <1>1, <1>3, <2>1
  <2>2. CASE x # k
    <3>1. x \in l .. k - 1
      BY <2>2
    <3>2. Before(o[x], it)
      BY <3>1 DEF Behind
    <3>3. o[x] \in X /\ q[x] = o[x]
      BY <1>1, <3>1
    <3>4. QED
      BY <1>3, <3>2, <3>3, BeforeOn
  <2>3. QED
    BY <2>1, <2>2
<1>4. QED
  BY <1>2, <1>3

Halves(a, l, mid, r) ==
  /\ Line(a, l, mid) /\ Line(a, mid, r)
  /\ \A x \in l .. mid - 1 : \A y \in mid .. r - 1 : a[x].val < a[y].val

\* What is filled in is in line, and before all that is still to be read.
InLine(a, l, mid, r, k, g) ==
  /\ Line(g.out, l, k)
  /\ g.b < mid => Behind(g.out, l, k, a[g.b])
  /\ g.c < r => Behind(g.out, l, k, a[g.c])

LEMMA MergeTurn ==
  ASSUME NEW m \in Nat, NEW X, Valued(X), NEW a \in [0 .. m - 1 -> X],
         NEW l \in Nat, NEW mid \in l .. m, NEW r \in mid .. m,
         NEW k \in l .. r - 1, NEW g, Halfway(a, l, mid, r, k, g, m, X),
         NEW h, h = Filled(a, mid, r, k + 1, g)
  PROVE  /\ Halfway(a, l, mid, r, k + 1, h, m, X)
         /\ Halves(a, l, mid, r) /\ InLine(a, l, mid, r, k, g) => InLine(a, l, mid, r, k + 1, h)
<1> DEFINE gb == g.b
           gc == g.c
           o == g.out
           w == k + 1
<1>0. MergeArgs(a, l, mid, r, m, X)
  BY DEF Keyed, Valued, MergeArgs
<1>01. w = k + 1 /\ h = Filled(a, mid, r, w, g)
  OBVIOUS
<1>1. gb \in l .. mid /\ gc \in mid .. r /\ o \in [0 .. m - 1 -> X] /\ k \in l .. m - 1
  BY DEF Halfway
<1>2. CASE TakesLeft(a, mid, r, g)
  <2>1. /\ Halfway(a, l, mid, r, k + 1, h, m, X)
        /\ h.b = gb + 1 /\ h.c = gc /\ h.out = [o EXCEPT ![k] = a[gb]]
    <3>1. LeftTurn(a, l, mid, r, k, g, h, m, X)
      BY <1>0, <1>2, <1>01, HalfwayLeft
    <3>2. QED
      BY <3>1 DEF LeftTurn
  <2>2. gb < mid /\ (gc < r => a[gb].key <= a[gc].key)
    BY <1>2 DEF TakesLeft
  <2> SUFFICES ASSUME Halves(a, l, mid, r), InLine(a, l, mid, r, k, g)
               PROVE  InLine(a, l, mid, r, k + 1, h)
    BY <2>1
  <2>3. /\ Line(o, l, k) /\ Behind(o, l, k, a[gb])
        /\ gc < r => Behind(o, l, k, a[gc])
    BY <2>2 DEF InLine
  <2> DEFINE it == a[gb]
             q == h.out
  <2> HIDE DEF gb, gc, o
  <2>4. it \in X /\ q = [o EXCEPT ![k] = it]
    BY <1>1, <2>1, <2>2
  <2>5. gb + 1 < mid => a[gb + 1] \in X /\ Before(it, a[gb + 1])
    <3> SUFFICES ASSUME gb + 1 < mid PROVE a[gb + 1] \in X /\ Before(it, a[gb + 1])
      OBVIOUS
    <3>1. gb \in l .. mid - 1 /\ gb + 1 \in l .. mid - 1 /\ gb < gb + 1 /\ gb + 1 \in 0 .. m - 1
      BY <1>1
    <3>2. QED
      BY <3>1 DEF Halves, Line
  <2>6. gc < r => a[gc] \in X /\ Before(it, a[gc])
    <3> SUFFICES ASSUME gc < r PROVE a[gc] \in X /\ Before(it, a[gc])
      OBVIOUS
    <3>1. gb \in l .. mid - 1 /\ gc \in mid .. r - 1 /\ gc \in 0 .. m - 1
      BY <1>1, <2>2
    <3>2. a[gb].val < a[gc].val
      BY <3>1 DEF Halves
    <3>3. a[gc] \in X /\ a[gc].key \in Int /\ it.key \in Int
      BY <2>4, <3>1 DEF Valued
    <3>4. QED
      BY <2>2, <3>2, <3>3 DEF Before
  <2> HIDE DEF it, q
  <2>7. /\ Line(q, l, k + 1)
        /\ \A next \in X : Before(it, next) => Behind(q, l, k + 1, next)
    <3>1. Behind(o, l, k, it)
      BY <2>3 DEF it
    <3>2. QED
      BY <1>1, <2>3, <2>4, <3>1, LineOne
  <2>8. h.b < mid => Behind(q, l, k + 1, a[h.b])
    BY <2>1, <2>5, <2>7
  <2>9. h.c < r => Behind(q, l, k + 1, a[h.c])
    BY <2>1, <2>6, <2>7
  <2>10. QED
    BY <2>7, <2>8, <2>9 DEF InLine, q
<1>3. CASE ~TakesLeft(a, mid, r, g)
  <2>1. /\ Halfway(a, l, mid, r, k + 1, h, m, X)
        /\ h.b = gb /\ h.c = gc + 1 /\ h.out = [o EXCEPT ![k] = a[gc]]
        /\ gc < r /\ (gb < mid => a[gc].key < a[gb].key)
    <3>1. RightTurn(a, l, mid, r, k, g, h, m, X)
      BY <1>0, <1>3, <1>01, HalfwayRight
    <3>2. QED
      BY <3>1 DEF RightTurn
  <2> SUFFICES ASSUME Halves(a, l, mid, r), InLine(a, l, mid, r, k, g)
               PROVE  InLine(a, l, mid, r, k + 1, h)
    BY <2>1
  <2>2. Line(o, l, k) /\ Behind(o, l, k, a[gc])
    BY <2>1 DEF InLine
  <2> DEFINE it == a[gc]
             q == h.out
  <2> HIDE DEF gb, gc, o
  <2>3. it \in X /\ q = [o EXCEPT ![k] = it]
    BY <1>1, <2>1
  <2>4. gc + 1 < r => a[gc + 1] \in X /\ Before(it, a[gc + 1])
    <3> SUFFICES ASSUME gc + 1 < r PROVE a[gc + 1] \in X /\ Before(it, a[gc + 1])
      OBVIOUS
    <3>1. gc \in mid .. r - 1 /\ gc + 1 \in mid .. r - 1 /\ gc < gc + 1 /\ gc + 1 \in 0 .. m - 1
      BY <1>1
    <3>2. QED
      BY <3>1 DEF Halves, Line
  <2>5. gb < mid => a[gb] \in X /\ Before(it, a[gb])
    <3>1. gb < mid => gb \in 0 .. m - 1
      BY <1>1
    <3>2. QED
      BY <2>1, <3>1 DEF Before
  <2> HIDE DEF it, q
  <2>6. /\ Line(q, l, k + 1)
        /\ \A next \in X : Before(it, next) => Behind(q, l, k + 1, next)
    <3>1. Behind(o, l, k, it)
      BY <2>2 DEF it
    <3>2. QED
      BY <1>1, <2>2, <2>3, <3>1, LineOne
  <2>7. h.b < mid => Behind(q, l, k + 1, a[h.b])
    BY <2>1, <2>5, <2>6
  <2>8. h.c < r => Behind(q, l, k + 1, a[h.c])
    BY <2>1, <2>4, <2>6
  <2>9. QED
    BY <2>6, <2>7, <2>8 DEF InLine, q
<1>4. QED
  BY <1>2, <1>3

\* What a merge makes of its range.
MergeRight(a, q, l, mid, r, m, X) ==
  /\ q \in [0 .. m - 1 -> X]
  /\ Carried(a, q, l, r)
  /\ Halves(a, l, mid, r) => Line(q, l, r)

LEMMA MergeMerges ==
  ASSUME NEW m, NEW X, NEW a, NEW l, NEW mid, NEW r, MergeArgs(a, l, mid, r, m, X), Valued(X)
  PROVE  MergeRight(a, merge(a, l, mid, r), l, mid, r, m, X)
<1>1. /\ m \in Nat /\ Keyed(X) /\ a \in [0 .. m - 1 -> X]
      /\ l \in Nat /\ mid \in l .. m /\ r \in mid .. m
  BY DEF MergeArgs
<1>2. mid \in Nat /\ r \in Nat /\ l <= r
  BY <1>1
<1>3. PICK f : merge(a, l, mid, r) = f[r].out /\ Merging(a, l, mid, r, f)
  BY <1>1, <1>2, MergeIs
<1> DEFINE Good(k) == /\ Halfway(a, l, mid, r, k, f[k], m, X)
                      /\ Halves(a, l, mid, r) => InLine(a, l, mid, r, k, f[k])
           S == {t \in Nat : l + t <= r => Good(l + t)}
<1>4. Good(l)
  <2> DEFINE g == f[l]
  <2>1. g.b = l /\ g.c = mid /\ g.out = a
    BY <1>3 DEF Merging
  <2> HIDE DEF g
  <2>2. Read(l, mid, g) = {} /\ l .. l - 1 = {}
    BY <1>1, <2>1 DEF Read
  <2>3. Copied(a, l, l, g.out, Read(l, mid, g))
    BY <2>1, <2>2 DEF Copied
  <2>4. Halfway(a, l, mid, r, l, g, m, X)
    <3>1. g.b \in l .. mid /\ g.c \in mid .. r /\ l = g.b + g.c - mid
      BY <1>1, <2>1
    <3>2. QED
      BY <1>1, <2>1, <2>3, <3>1 DEF Halfway
  <2>5. InLine(a, l, mid, r, l, g)
    BY <2>2 DEF InLine, Line, Behind
  <2>6. QED
    BY <2>4, <2>5 DEF g
<1>5. ASSUME NEW t \in Nat, t \in S PROVE t + 1 \in S
  <2> SUFFICES ASSUME l + (t + 1) <= r PROVE Good(l + (t + 1))
    OBVIOUS
  <2> DEFINE k == l + t
             w == l + (t + 1)
             g == f[k]
             h == f[w]
  <2>1. k \in l .. r - 1 /\ w = k + 1 /\ w - 1 = k /\ w \in l + 1 .. r
    BY <1>1
  <2>2. Good(k)
    BY <1>1, <1>5
  <2>3. h = Filled(a, mid, r, w, g)
    BY <1>3, <2>1 DEF Merging
  <2>4. /\ Halfway(a, l, mid, r, k, g, m, X)
        /\ Halves(a, l, mid, r) => InLine(a, l, mid, r, k, g)
    BY <2>2
  <2> HIDE DEF k, w, g, h
  <2>5. /\ Halfway(a, l, mid, r, k + 1, h, m, X)
        /\ Halves(a, l, mid, r) /\ InLine(a, l, mid, r, k, g) =>
             InLine(a, l, mid, r, k + 1, h)
    <3>1. h = Filled(a, mid, r, k + 1, g)
      BY <2>1, <2>3
    <3>2. QED
      BY <1>1, <2>1, <2>4, <3>1, MergeTurn
  <2>6. /\ Halfway(a, l, mid, r, w, h, m, X)
        /\ Halves(a, l, mid, r) => InLine(a, l, mid, r, w, h)
    BY <2>1, <2>4, <2>5
  <2>7. QED
    BY <2>6 DEF h, w
<1>6. Good(r)
  <2>1. 0 \in S
    <3>1. l + 0 = l
      BY <1>1
    <3> HIDE DEF Good
    <3>2. QED
      BY <1>4, <3>1
  <2> HIDE DEF S
  <2>2. r - l \in S
    BY <1>1, <1>5, <2>1, Induction
  <2>3. l + (r - l) = r
    BY <1>1
  <2> HIDE DEF Good
  <2>4. QED
    BY <1>2, <2>2, <2>3 DEF S
<1> DEFINE g == f[r]
           q == g.out
<1>7. /\ Halfway(a, l, mid, r, r, g, m, X)
      /\ Halves(a, l, mid, r) => InLine(a, l, mid, r, r, g)
  BY <1>6
<1> HIDE DEF g
<1>8. Read(l, mid, g) = l .. r - 1
  <2> DEFINE gb == g.b
             gc == g.c
  <2>1. gb \in l .. mid /\ gc \in mid .. r /\ r = gb + gc - mid
    BY <1>7 DEF Halfway
  <2>2. Read(l, mid, g) = (l .. gb - 1) \cup (mid .. gc - 1)
    BY DEF Read
  <2> HIDE DEF gb, gc
  <2>3. gb = mid /\ gc = r
    BY <1>1, <2>1
  <2>4. (l .. mid - 1) \cup (mid .. r - 1) = l .. r - 1
    BY <1>1
  <2>5. QED
    BY <2>2, <2>3, <2>4
<1>9. q \in [0 .. m - 1 -> X] /\ Copied(a, l, r, q, l .. r - 1)
  BY <1>7, <1>8 DEF Halfway
<1>10. Halves(a, l, mid, r) => Line(q, l, r)
  BY <1>7 DEF InLine
<1>11. q = merge(a, l, mid, r)
  BY <1>3 DEF g
<1> HIDE DEF q
<1>12. Carried(a, q, l, r)
  BY <1>9 DEF Copied, Carried
<1>13. QED
  BY <1>9, <1>10, <1>11, <1>12 DEF MergeRight

(***************************************************************************)
(* Induction on a rank.                                                    *)
(***************************************************************************)
LEMMA RankInduction ==
  ASSUME NEW D, NEW rank \in [D -> Nat], NEW S,
         \A x \in D : (\A y \in D : rank[y] < rank[x] => y \in S) => x \in S
  PROVE  D \subseteq S
<1> DEFINE T == {k \in Nat : \A x \in D : rank[x] < k => x \in S}
<1>1. 0 \in T
  OBVIOUS
<1>2. ASSUME NEW k \in Nat, k \in T PROVE k + 1 \in T
  <2> SUFFICES ASSUME NEW x \in D, rank[x] < k + 1 PROVE x \in S
    OBVIOUS
  <2>1. \A y \in D : rank[y] < rank[x] => y \in S
    BY <1>2
  <2>2. QED
    BY <2>1
<1> HIDE DEF T
<1>3. Nat \subseteq T
  BY <1>1, <1>2, Induction
<1>4. QED
  <2> SUFFICES ASSUME NEW x \in D PROVE x \in S
    OBVIOUS
  <2>1. rank[x] + 1 \in T
    BY <1>3
  <2>2. QED
    BY <2>1 DEF T

(***************************************************************************)
(* The recursion of merge sort: a range, its middle, and what is made of   *)
(* an array whose halves f sorts.                                          *)
(***************************************************************************)
Spans(m) == (0 .. m) \X (0 .. m)

Mid(rg) == rg[1] + (rg[2] - rg[1]) \div 2

HalvesSorted(f, rg, b) == f[<<Mid(rg), rg[2]>>][f[<<rg[1], Mid(rg)>>][b]]

SortedBy(f, rg, b) ==
  IF rg[2] - rg[1] < 2 THEN b
  ELSE merge(HalvesSorted(f, rg, b), rg[1], Mid(rg), rg[2])

Width(m) == [rg \in Spans(m) |-> IF rg[1] < rg[2] THEN rg[2] - rg[1] ELSE 0]

LEMMA MidIs ==
  ASSUME NEW m \in Nat, NEW rg \in Spans(m), ~(rg[2] - rg[1] < 2)
  PROVE  /\ rg[1] \in 0 .. m /\ rg[2] \in 0 .. m /\ Mid(rg) \in 0 .. m
         /\ rg[1] < Mid(rg) /\ Mid(rg) < rg[2]
         /\ <<rg[1], Mid(rg)>> \in Spans(m) /\ <<Mid(rg), rg[2]>> \in Spans(m)
         /\ Width(m)[<<rg[1], Mid(rg)>>] < Width(m)[rg]
         /\ Width(m)[<<Mid(rg), rg[2]>>] < Width(m)[rg]
<1> DEFINE l == rg[1]
           r == rg[2]
           d == (r - l) \div 2
<1>1. l \in 0 .. m /\ r \in 0 .. m /\ ~(r - l < 2) /\ Mid(rg) = l + d
  BY DEF Spans, Mid
<1> HIDE DEF l, r
<1>2. l < l + d /\ l + d < r /\ d \in Nat
  BY <1>1
<1> HIDE DEF d
<1>3. <<l, l + d>> \in Spans(m) /\ <<l + d, r>> \in Spans(m)
  BY <1>1, <1>2 DEF Spans
<1>4. /\ Width(m)[<<l, l + d>>] = d /\ Width(m)[<<l + d, r>>] = r - (l + d)
      /\ Width(m)[rg] = r - l
  BY <1>1, <1>2, <1>3 DEF Width, l, r
<1>5. QED
  BY <1>1, <1>2, <1>3, <1>4 DEF l, r

LEMMA SortedByType ==
  ASSUME NEW m \in Nat, NEW X, Keyed(X), Valued(X), NEW A, A = [0 .. m - 1 -> X],
         NEW f, NEW rg \in Spans(m), NEW b \in A,
         ~(rg[2] - rg[1] < 2) =>
           f[<<rg[1], Mid(rg)>>] \in [A -> A] /\ f[<<Mid(rg), rg[2]>>] \in [A -> A]
  PROVE  SortedBy(f, rg, b) \in A
<1> DEFINE l == rg[1]
           r == rg[2]
           mid == Mid(rg)
           c == HalvesSorted(f, rg, b)
<1>1. CASE rg[2] - rg[1] < 2
  BY <1>1 DEF SortedBy
<1>2. CASE ~(rg[2] - rg[1] < 2)
  <2>1. l \in 0 .. m /\ r \in 0 .. m /\ mid \in 0 .. m /\ l < mid /\ mid < r
    BY <1>2, MidIs
  <2>2. c \in A
    BY <1>2 DEF HalvesSorted
  <2>3. SortedBy(f, rg, b) = merge(c, l, mid, r)
    BY <1>2 DEF SortedBy
  <2> HIDE DEF l, r, mid, c
  <2>4. MergeArgs(c, l, mid, r, m, X)
    BY <2>1, <2>2 DEF MergeArgs
  <2>5. MergeRight(c, merge(c, l, mid, r), l, mid, r, m, X)
    BY <2>4, MergeMerges
  <2>6. QED
    BY <2>3, <2>5 DEF MergeRight
<1>3. QED
  BY <1>1, <1>2

LEMMA MergeSortIs ==
  ASSUME NEW m \in Nat, NEW X, Valued(X), NEW a \in [0 .. m - 1 -> X],
         NEW l \in 0 .. m, NEW r \in 0 .. m
  PROVE  \E f \in [Spans(m) -> [Arrays(a) -> Arrays(a)]] :
           /\ merge_sort(a, l, r) = f[<<l, r>>][a]
           /\ \A rg \in Spans(m) : \A b \in Arrays(a) : f[rg][b] = SortedBy(f, rg, b)
<1> DEFINE A == Arrays(a)
           V == [A -> A]
           D == Spans(m)
           F == [D -> V]
           rank == Width(m)
           step == [y \in D \X F |-> [b \in A |-> SortedBy(y[2], y[1], b)]]
           R(f, rg) == [b \in A |-> SortedBy(f, rg, b)]
           rhs(f) == [rg \in D |-> R(f, rg)]
<1>1. A = [0 .. m - 1 -> Range(a)] /\ Keyed(Range(a)) /\ Valued(Range(a)) /\ a \in A
  BY ArraysIs DEF Valued, Keyed
<1> DEFINE Y == Range(a)
<1> HIDE DEF A, Y
<1>2. ASSUME NEW f, NEW rg \in D,
             \A z \in D : rank[z] < rank[rg] => f[z] \in V
      PROVE  R(f, rg) \in V
  <2>1. ~(rg[2] - rg[1] < 2) =>
          f[<<rg[1], Mid(rg)>>] \in [A -> A] /\ f[<<Mid(rg), rg[2]>>] \in [A -> A]
    <3> HIDE DEF V
    <3>1. ~(rg[2] - rg[1] < 2) =>
            f[<<rg[1], Mid(rg)>>] \in V /\ f[<<Mid(rg), rg[2]>>] \in V
      BY <1>2, MidIs
    <3>2. QED
      BY <3>1 DEF V
  <2>2. ASSUME NEW b \in A PROVE SortedBy(f, rg, b) \in A
    BY <1>1, <2>1, SortedByType DEF Y
  <2>3. QED
    BY <2>2
<1>3. rank \in [D -> Nat]
  <2>1. \A rg \in D : rg[1] \in Int /\ rg[2] \in Int
    BY DEF Spans
  <2>2. QED
    BY <2>1 DEF Width
<1>4. step \in [D \X F -> V]
  <2> HIDE DEF D, rank
  <2>1. ASSUME NEW rg \in D, NEW f \in F PROVE R(f, rg) \in V
    <3>1. \A z \in D : f[z] \in V
      OBVIOUS
    <3> HIDE DEF F, V, R
    <3>2. QED
      BY <1>2, <3>1
  <2> HIDE DEF F, V
  <2>2. QED
    BY <2>1
<1>5. LooksBelow(D, V, rank, step)
  <2> SUFFICES ASSUME NEW x \in D, NEW g \in F, NEW h \in F,
                      \A y \in D : rank[y] < rank[x] => g[y] = h[y]
               PROVE  step[<<x, g>>] = step[<<x, h>>]
    BY DEF LooksBelow
  <2>1. step[<<x, g>>] = R(g, x) /\ step[<<x, h>>] = R(h, x)
    OBVIOUS
  <2>2. ~(x[2] - x[1] < 2) => /\ g[<<x[1], Mid(x)>>] = h[<<x[1], Mid(x)>>]
                              /\ g[<<Mid(x), x[2]>>] = h[<<Mid(x), x[2]>>]
    BY MidIs
  <2>3. \A b \in A : SortedBy(g, x, b) = SortedBy(h, x, b)
    BY <2>2 DEF SortedBy, HalvesSorted
  <2>4. R(g, x) = R(h, x)
    BY <2>3
  <2> HIDE DEF step, R
  <2>5. QED
    BY <2>1, <2>4
<1>6. Solvable(D, V, step)
  <2>1. [b \in A |-> b] \in V
    OBVIOUS
  <2> HIDE DEF rank, step, V, D
  <2>2. QED
    BY <1>3, <1>4, <1>5, <2>1, RankRecursion
<1>7. PICK f \in F : f = rhs(f)
  <2>1. PICK f \in F : \A x \in D : f[x] = step[<<x, f>>]
    BY <1>6 DEF Solvable
  <2>2. \A x \in D : f[x] = R(f, x)
    <3> HIDE DEF F, D
    <3>1. \A x \in D : step[<<x, f>>] = R(f, x)
      OBVIOUS
    <3> HIDE DEF step, R
    <3>2. QED
      BY <2>1, <3>1
  <2>3. f = [x \in D |-> f[x]]
    OBVIOUS
  <2> HIDE DEF R, D
  <2>4. QED
    BY <2>2, <2>3
<1> DEFINE sorted == CHOOSE h : h = rhs(h)
<1>8. sorted = rhs(sorted)
  <2> HIDE DEF rhs
  <2>1. QED
    BY <1>7
<1>9. merge_sort(a, l, r) = sorted[<<l, r>>][a]
  <2>1. Length(a) = m
    BY LengthIs
  <2>2. QED
    BY <2>1 DEF merge_sort, A, SortedBy, HalvesSorted, Mid, Spans
<1> HIDE DEF sorted
<1>10. \A rg \in D : sorted[rg] = R(sorted, rg)
  <2> HIDE DEF R, D
  <2>1. QED
    BY <1>8
<1>11. \A rg \in D : sorted[rg] \in V
  <2> DEFINE S == {rg \in D : sorted[rg] \in V}
  <2>1. ASSUME NEW x \in D, \A y \in D : rank[y] < rank[x] => y \in S PROVE x \in S
    <3>1. R(sorted, x) \in V
      <4> HIDE DEF R, V, rank, D
      <4>1. QED
        BY <1>2, <2>1
    <3> HIDE DEF R, V, D
    <3>2. QED
      BY <1>10, <3>1
  <2> HIDE DEF S, D, rank
  <2>2. D \subseteq S
    BY <1>3, <2>1, RankInduction
  <2>3. QED
    BY <2>2 DEF S
<1>12. sorted \in F
  <2> HIDE DEF V, R, D
  <2>1. sorted = [x \in D |-> R(sorted, x)]
    BY <1>8
  <2>2. QED
    BY <1>10, <1>11, <2>1
<1>13. \A rg \in D : \A b \in A : sorted[rg][b] = SortedBy(sorted, rg, b)
  <2> SUFFICES ASSUME NEW rg \in D, NEW b \in A PROVE sorted[rg][b] = SortedBy(sorted, rg, b)
    OBVIOUS
  <2>1. R(sorted, rg)[b] = SortedBy(sorted, rg, b)
    OBVIOUS
  <2> HIDE DEF R, D
  <2>2. QED
    BY <1>10, <2>1
<1>14. QED
  BY <1>9, <1>12, <1>13 DEF A

(***************************************************************************)
(* Merge sort moves items within its range only, and leaves it in line     *)
(* where the val of every item of it was the item's place.                 *)
(***************************************************************************)
Lines(b, q, l, r) == Carried(b, q, l, r) /\ (Placed(b, l, r) => Line(q, l, r))

LEMMA MergeStep ==
  ASSUME NEW m \in Nat, NEW X, Valued(X), NEW A, A = [0 .. m - 1 -> X],
         NEW l \in 0 .. m, NEW mid \in 0 .. m, NEW r \in 0 .. m, l < mid, mid < r,
         NEW b \in A, NEW c \in A, NEW d \in A, Lines(b, c, l, mid), Lines(c, d, mid, r),
         NEW q, q = merge(d, l, mid, r)
  PROVE  Lines(b, q, l, r)
<1>1. MergeRight(d, q, l, mid, r, m, X)
  <2>1. MergeArgs(d, l, mid, r, m, X)
    BY DEF MergeArgs, Valued, Keyed
  <2>2. QED
    BY <2>1, MergeMerges
<1>2. Carried(b, c, l, mid) /\ Carried(c, d, mid, r)
  BY DEF Lines
<1>3. Carried(b, q, l, r)
  <2>0. /\ l \in Nat /\ r \in 0 .. m /\ mid \in l .. r /\ r \in mid .. r /\ l \in l .. r
        /\ mid \in l .. r
    OBVIOUS
  <2>1. Carried(b, c, l, r)
    BY <1>2, <2>0, CarriedWithin
  <2>2. Carried(c, d, l, r)
    BY <1>2, <2>0, CarriedWithin
  <2>3. Carried(d, q, l, r) /\ q \in A
    BY <1>1 DEF MergeRight
  <2>4. Carried(b, d, l, r)
    BY <2>0, <2>1, <2>2, CarriedOn
  <2>5. QED
    BY <2>0, <2>3, <2>4, CarriedOn
<1>4. ASSUME Placed(b, l, r) PROVE Line(q, l, r)
  <2>1. \A x \in l .. r - 1 : b[x].val = x
    BY <1>4 DEF Placed
  <2>2. \A x \in l .. mid - 1 : d[x] = c[x] /\ \E y \in l .. mid - 1 : c[x] = b[y]
    BY <1>2 DEF Carried
  <2>3. \A x \in mid .. r - 1 : c[x] = b[x] /\ \E y \in mid .. r - 1 : d[x] = c[y]
    BY <1>2 DEF Carried
  <2>4. Line(d, l, mid)
    <3>1. Line(c, l, mid)
      BY <2>1 DEF Lines, Placed
    <3>2. QED
      BY <2>2, <3>1 DEF Line
  <2>5. Line(d, mid, r)
    BY <2>1, <2>3 DEF Lines, Placed
  <2>6. ASSUME NEW x \in l .. mid - 1, NEW y \in mid .. r - 1 PROVE d[x].val < d[y].val
    <3>1. PICK z \in l .. mid - 1 : d[x] = b[z]
      BY <2>2
    <3>2. PICK w \in mid .. r - 1 : d[y] = c[w]
      BY <2>3
    <3>3. d[y] = b[w]
      BY <2>3, <3>2
    <3>4. b[z].val = z /\ b[w].val = w /\ z < w
      BY <2>1
    <3>5. QED
      BY <3>1, <3>3, <3>4
  <2>7. Halves(d, l, mid, r)
    BY <2>4, <2>5, <2>6 DEF Halves
  <2>8. QED
    BY <1>1, <2>7 DEF MergeRight
<1>5. QED
  BY <1>3, <1>4 DEF Lines

LEMMA MergeSorts ==
  ASSUME NEW m \in Nat, NEW X, Valued(X), NEW a \in [0 .. m - 1 -> X]
  PROVE  /\ sort_merge(a) \in [0 .. m - 1 -> X]
         /\ Carried(a, sort_merge(a), 0, m)
         /\ Placed(a, 0, m) => Line(sort_merge(a), 0, m)
<1> DEFINE A == Arrays(a)
           Y == Range(a)
           D == Spans(m)
<1>1. A = [0 .. m - 1 -> Y] /\ Valued(Y) /\ a \in A /\ Y \subseteq X
  BY ArraysIs DEF Valued, Keyed
<1>2. PICK f \in [D -> [A -> A]] :
           /\ merge_sort(a, 0, m) = f[<<0, m>>][a]
           /\ \A rg \in D : \A b \in A : f[rg][b] = SortedBy(f, rg, b)
  BY MergeSortIs
<1> HIDE DEF A, Y
<1> DEFINE rank == Width(m)
           S == {rg \in D : \A b \in A : Lines(b, f[rg][b], rg[1], rg[2])}
<1>3. rank \in [D -> Nat]
  <2>1. \A rg \in D : rg[1] \in Int /\ rg[2] \in Int
    BY DEF Spans
  <2>2. QED
    BY <2>1 DEF Width
<1>4. ASSUME NEW rg \in D, \A z \in D : rank[z] < rank[rg] => z \in S PROVE rg \in S
  <2> SUFFICES ASSUME NEW b \in A PROVE Lines(b, f[rg][b], rg[1], rg[2])
    OBVIOUS
  <2> DEFINE l == rg[1]
             r == rg[2]
             mid == Mid(rg)
  <2>1. CASE r - l < 2
    <3>1. f[rg][b] = b
      BY <1>2, <2>1 DEF SortedBy
    <3>2. l \in Int /\ r \in Int
      BY DEF Spans
    <3> HIDE DEF l, r
    <3>3. Line(b, l, r)
      BY <2>1, <3>2 DEF Line
    <3>4. Lines(b, b, l, r)
      BY <3>2, <3>3, CarriedSame DEF Lines
    <3>5. QED
      BY <3>1, <3>4 DEF l, r
  <2>2. CASE ~(r - l < 2)
    <3> DEFINE left == <<l, mid>>
               right == <<mid, r>>
               c == f[left][b]
               d == f[right][c]
               q == merge(d, l, mid, r)
    <3>1. /\ l \in 0 .. m /\ r \in 0 .. m /\ mid \in 0 .. m /\ l < mid /\ mid < r
          /\ left \in D /\ right \in D /\ rank[left] < rank[rg] /\ rank[right] < rank[rg]
      BY <2>2, MidIs
    <3>2. left[1] = l /\ left[2] = mid /\ right[1] = mid /\ right[2] = r
      OBVIOUS
    <3>3. f[rg][b] = q
      BY <1>2, <2>2 DEF SortedBy, HalvesSorted
    <3> HIDE DEF l, r, mid, left, right, rank, D
    <3>4. left \in S /\ right \in S
      BY <1>4, <3>1
    <3>5. c \in A /\ Lines(b, c, l, mid)
      BY <3>1, <3>2, <3>4
    <3> HIDE DEF c
    <3>6. d \in A /\ Lines(c, d, mid, r)
      BY <3>1, <3>2, <3>4, <3>5
    <3> HIDE DEF d
    <3>7. Lines(b, q, l, r)
      BY <1>1, <3>1, <3>5, <3>6, MergeStep
    <3>8. QED
      BY <3>3, <3>7 DEF l, r
  <2>3. QED
    BY <2>1, <2>2
<1> HIDE DEF S, rank
<1>5. D \subseteq S
  <2> HIDE DEF D
  <2>1. QED
    BY <1>3, <1>4, RankInduction
<1>6. sort_merge(a) = f[<<0, m>>][a]
  BY <1>2, LengthIs DEF sort_merge
<1> DEFINE all == <<0, m>>
<1>7. all \in D /\ all[1] = 0 /\ all[2] = m
  BY DEF Spans
<1> HIDE DEF all, D
<1>8. sort_merge(a) \in A /\ Lines(a, sort_merge(a), 0, m)
  BY <1>1, <1>5, <1>6, <1>7 DEF S, all
<1>9. QED
  BY <1>1, <1>8 DEF Lines

-----------------------------------------------------------------------------
(***************************************************************************)
(* sort_heap.c.  The recursion of sift_down: the larger child, and what is *)
(* made of an array whose item at root sinks.                              *)
(***************************************************************************)
Child(b, root, end) ==
  IF root * 2 + 1 + 1 < end /\ b[root * 2 + 1].key < b[root * 2 + 1 + 1].key
  THEN root * 2 + 1 + 1 ELSE root * 2 + 1

Sinks(b, root, end) == root * 2 + 1 < end /\ b[root].key < b[Child(b, root, end)].key

SunkBy(f, root, b, end) ==
  IF Sinks(b, root, end)
  THEN f[Child(b, root, end)][Swapped(b, root, Child(b, root, end))] ELSE b

Edge(p, x) == x = 2 * p + 1 \/ x = 2 * p + 2

LEMMA ChildIs ==
  ASSUME NEW m \in Nat, NEW X, Keyed(X), NEW b \in [0 .. m - 1 -> X], NEW end \in 0 .. m,
         NEW root \in 0 .. m - 1, root * 2 + 1 < end, NEW child, child = Child(b, root, end)
  PROVE  /\ child \in 0 .. end - 1 /\ Edge(root, child) /\ root < child
         /\ \A x \in 0 .. end - 1 : Edge(root, x) => b[x].key <= b[child].key
<1>1. \A x \in 0 .. end - 1 : b[x].key \in Int
  BY DEF Keyed
<1>2. child \in 0 .. end - 1 /\ Edge(root, child) /\ root < child
  BY DEF Child, Edge
<1>3. ASSUME NEW x \in 0 .. end - 1, Edge(root, x) PROVE b[x].key <= b[child].key
  BY <1>1, <1>3 DEF Child, Edge
<1>4. QED
  BY <1>2, <1>3

LEMMA SunkByType ==
  ASSUME NEW m \in Nat, NEW X, Keyed(X), NEW A, A = [0 .. m - 1 -> X], NEW end \in 0 .. m,
         NEW f, NEW root \in 0 .. m - 1, NEW b \in A,
         \A x \in 0 .. m - 1 : x > root => f[x] \in [A -> A]
  PROVE  SunkBy(f, root, b, end) \in A
<1>1. CASE Sinks(b, root, end)
  <2> DEFINE child == Child(b, root, end)
             c == Swapped(b, root, child)
  <2>1. child \in 0 .. end - 1 /\ root < child
    BY <1>1, ChildIs DEF Sinks
  <2>2. SunkBy(f, root, b, end) = f[child][c]
    BY <1>1 DEF SunkBy
  <2> HIDE DEF child
  <2>3. child \in 0 .. m - 1 /\ root \in 0 .. m - 1 /\ child > root
    BY <2>1
  <2>4. c \in A
    BY <2>3 DEF Swapped
  <2> HIDE DEF c
  <2>5. f[child] \in [A -> A]
    BY <2>3
  <2>6. QED
    BY <2>2, <2>4, <2>5
<1>2. CASE ~Sinks(b, root, end)
  BY <1>2 DEF SunkBy
<1>3. QED
  BY <1>1, <1>2

Sifting(a, start, end, m) ==
  \E f \in [0 .. m - 1 -> [Arrays(a) -> Arrays(a)]] :
    /\ sift_down(a, start, end) = f[start][a]
    /\ \A root \in 0 .. m - 1 : \A b \in Arrays(a) : f[root][b] = SunkBy(f, root, b, end)

LEMMA SiftIs ==
  ASSUME NEW m \in Nat, NEW X, Keyed(X), NEW a \in [0 .. m - 1 -> X],
         NEW start \in 0 .. m - 1, NEW end \in 0 .. m
  PROVE  Sifting(a, start, end, m)
<1> DEFINE A == Arrays(a)
           V == [A -> A]
           D == 0 .. m - 1
           F == [D -> V]
           rank == [x \in D |-> m - x]
           step == [y \in D \X F |-> [b \in A |-> SunkBy(y[2], y[1], b, end)]]
           R(f, root) == [b \in A |-> SunkBy(f, root, b, end)]
           rhs(f) == [root \in D |-> R(f, root)]
<1>1. A = [0 .. m - 1 -> Range(a)] /\ Keyed(Range(a)) /\ a \in A
  BY ArraysIs
<1> DEFINE Y == Range(a)
<1> HIDE DEF A, Y
<1>2. ASSUME NEW f, NEW root \in D,
             \A z \in D : rank[z] < rank[root] => f[z] \in V
      PROVE  R(f, root) \in V
  <2>1. \A x \in D : x > root => rank[x] < rank[root]
    OBVIOUS
  <2>2. \A x \in D : x > root => f[x] \in [A -> A]
    <3> HIDE DEF rank, D
    <3>1. QED
      BY <1>2, <2>1
  <2>3. ASSUME NEW b \in A PROVE SunkBy(f, root, b, end) \in A
    BY <1>1, <2>2, SunkByType DEF Y
  <2>4. QED
    BY <2>3
<1>3. rank \in [D -> Nat]
  OBVIOUS
<1>4. step \in [D \X F -> V]
  <2> HIDE DEF D, rank
  <2>1. ASSUME NEW x \in D, NEW f \in F PROVE R(f, x) \in V
    <3>1. \A z \in D : f[z] \in V
      OBVIOUS
    <3> HIDE DEF F, V, R
    <3>2. QED
      BY <1>2, <3>1
  <2> HIDE DEF F, V
  <2>2. QED
    BY <2>1
<1>5. LooksBelow(D, V, rank, step)
  <2> SUFFICES ASSUME NEW x \in D, NEW g \in F, NEW h \in F,
                      \A y \in D : rank[y] < rank[x] => g[y] = h[y]
               PROVE  step[<<x, g>>] = step[<<x, h>>]
    BY DEF LooksBelow
  <2>1. step[<<x, g>>] = R(g, x) /\ step[<<x, h>>] = R(h, x)
    OBVIOUS
  <2>2. ASSUME NEW b \in A PROVE SunkBy(g, x, b, end) = SunkBy(h, x, b, end)
    <3>1. CASE Sinks(b, x, end)
      <4> DEFINE child == Child(b, x, end)
      <4>1. child \in 0 .. end - 1 /\ x < child
        BY <1>1, <3>1, ChildIs DEF Sinks
      <4>2. SunkBy(g, x, b, end) = g[child][Swapped(b, x, child)]
        BY <3>1 DEF SunkBy
      <4>3. SunkBy(h, x, b, end) = h[child][Swapped(b, x, child)]
        BY <3>1 DEF SunkBy
      <4> HIDE DEF child
      <4>4. child \in D /\ rank[child] < rank[x]
        BY <4>1
      <4>5. g[child] = h[child]
        BY <4>4
      <4>6. QED
        BY <4>2, <4>3, <4>5
    <3>2. CASE ~Sinks(b, x, end)
      BY <3>2 DEF SunkBy
    <3>3. QED
      BY <3>1, <3>2
  <2>3. R(g, x) = R(h, x)
    BY <2>2
  <2> HIDE DEF step, R
  <2>4. QED
    BY <2>1, <2>3
<1>6. Solvable(D, V, step)
  <2>1. [b \in A |-> b] \in V
    OBVIOUS
  <2> HIDE DEF rank, step, V, D
  <2>2. QED
    BY <1>3, <1>4, <1>5, <2>1, RankRecursion
<1>7. PICK f \in F : f = rhs(f)
  <2>1. PICK f \in F : \A x \in D : f[x] = step[<<x, f>>]
    BY <1>6 DEF Solvable
  <2>2. \A x \in D : f[x] = R(f, x)
    <3> HIDE DEF F, D
    <3>1. \A x \in D : step[<<x, f>>] = R(f, x)
      OBVIOUS
    <3> HIDE DEF step, R
    <3>2. QED
      BY <2>1, <3>1
  <2>3. f = [x \in D |-> f[x]]
    OBVIOUS
  <2> HIDE DEF R, D
  <2>4. QED
    BY <2>2, <2>3
<1> DEFINE sunk == CHOOSE h : h = rhs(h)
<1>8. sunk = rhs(sunk)
  <2> HIDE DEF rhs
  <2>1. QED
    BY <1>7
<1>9. sift_down(a, start, end) = sunk[start][a]
  <2>1. DOMAIN a = 0 .. m - 1
    OBVIOUS
  <2>2. QED
    BY <2>1 DEF sift_down, A, SunkBy, Sinks, Child
<1> HIDE DEF sunk
<1>10. \A x \in D : sunk[x] = R(sunk, x)
  <2> HIDE DEF R, D
  <2>1. QED
    BY <1>8
<1>11. \A x \in D : sunk[x] \in V
  <2> DEFINE S == {x \in D : sunk[x] \in V}
  <2>1. ASSUME NEW x \in D, \A y \in D : rank[y] < rank[x] => y \in S PROVE x \in S
    <3>1. R(sunk, x) \in V
      <4> HIDE DEF R, V, rank, D
      <4>1. QED
        BY <1>2, <2>1
    <3> HIDE DEF R, V, D
    <3>2. QED
      BY <1>10, <3>1
  <2> HIDE DEF S, D, rank
  <2>2. D \subseteq S
    BY <1>3, <2>1, RankInduction
  <2>3. QED
    BY <2>2 DEF S
<1>12. sunk \in F
  <2> HIDE DEF V, R, D
  <2>1. sunk = [x \in D |-> R(sunk, x)]
    BY <1>8
  <2>2. QED
    BY <1>10, <1>11, <2>1
<1>13. \A x \in D : \A b \in A : sunk[x][b] = SunkBy(sunk, x, b, end)
  <2> SUFFICES ASSUME NEW x \in D, NEW b \in A PROVE sunk[x][b] = SunkBy(sunk, x, b, end)
    OBVIOUS
  <2>1. R(sunk, x)[b] = SunkBy(sunk, x, b, end)
    OBVIOUS
  <2> HIDE DEF R, D
  <2>2. QED
    BY <1>10, <2>1
<1>14. QED
  BY <1>9, <1>12, <1>13 DEF A, Sifting

(***************************************************************************)
(* Heap order from cell s on, among the cells before end: everywhere; and  *)
(* everywhere but at root, whose children still are below its parent.      *)
(***************************************************************************)
HeapFrom(b, s, end) ==
  \A p \in s .. end - 1, x \in 0 .. end - 1 : Edge(p, x) => b[x].key <= b[p].key

HeapBut(b, s, end, root) ==
  /\ \A p \in s .. end - 1, x \in 0 .. end - 1 :
       Edge(p, x) /\ p # root => b[x].key <= b[p].key
  /\ \A p \in s .. end - 1, x \in 0 .. end - 1 :
       Edge(p, root) /\ Edge(root, x) => b[x].key <= b[p].key

LEMMA SiftTurn ==
  ASSUME NEW m \in Nat, NEW X, Keyed(X), NEW b \in [0 .. m - 1 -> X], NEW end \in 0 .. m,
         NEW s \in Nat, NEW root \in s .. m - 1, HeapBut(b, s, end, root),
         Sinks(b, root, end), NEW child, child = Child(b, root, end),
         NEW c, c = Swapped(b, root, child)
  PROVE  HeapBut(c, s, end, child)
<1>1. /\ child \in 0 .. end - 1 /\ Edge(root, child) /\ root < child
      /\ \A x \in 0 .. end - 1 : Edge(root, x) => b[x].key <= b[child].key
  <2>1. root \in 0 .. m - 1 /\ root * 2 + 1 < end
    BY DEF Sinks
  <2>2. QED
    BY <2>1, ChildIs
<1>2. b[root].key < b[child].key
  BY DEF Sinks
<1>3. /\ c[root] = b[child] /\ c[child] = b[root]
      /\ \A x \in 0 .. m - 1 : x # root /\ x # child => c[x] = b[x]
  BY <1>1 DEF Swapped
<1>4. \A x \in 0 .. m - 1 : b[x].key \in Int
  BY DEF Keyed
<1>5. ASSUME NEW p \in s .. end - 1, NEW x \in 0 .. end - 1, Edge(p, x), p # child
      PROVE  c[x].key <= c[p].key
  <2>1. p \in 0 .. m - 1 /\ x \in 0 .. m - 1 /\ p < x
    BY <1>5 DEF Edge
  <2>2. CASE p = root /\ x = child
    BY <1>1, <1>2, <1>3, <1>4, <2>1, <2>2
  <2>3. CASE p = root /\ x # child
    BY <1>1, <1>3, <1>5, <2>1, <2>3
  <2>4. CASE p # root /\ x = root
    <3>1. b[child].key <= b[p].key
      BY <1>1, <1>5, <2>4 DEF HeapBut
    <3>2. QED
      BY <1>3, <1>5, <2>1, <2>4, <3>1
  <2>5. CASE p # root /\ x # root
    <3>1. x # child
      BY <1>1, <1>5, <2>1, <2>5 DEF Edge
    <3>2. b[x].key <= b[p].key
      BY <1>5, <2>5 DEF HeapBut
    <3>3. QED
      BY <1>3, <1>5, <2>1, <2>5, <3>1, <3>2
  <2>6. QED
    BY <2>2, <2>3, <2>4, <2>5
<1>6. ASSUME NEW p \in s .. end - 1, NEW x \in 0 .. end - 1, Edge(p, child), Edge(child, x)
      PROVE  c[x].key <= c[p].key
  <2>1. p = root /\ x # root /\ x # child /\ child # root /\ x \in 0 .. m - 1
    <3>1. p \in Nat /\ root \in Nat /\ child \in Nat /\ x \in 0 .. m - 1
      BY <1>1
    <3>2. QED
      BY <1>1, <1>6, <3>1 DEF Edge
  <2>2. b[x].key <= b[child].key
    BY <1>1, <1>6, <2>1 DEF HeapBut
  <2>3. QED
    BY <1>3, <2>1, <2>2
<1>7. QED
  BY <1>5, <1>6 DEF HeapBut

LEMMA SiftStop ==
  ASSUME NEW m \in Nat, NEW X, Keyed(X), NEW b \in [0 .. m - 1 -> X], NEW end \in 0 .. m,
         NEW s \in Nat, NEW root \in s .. m - 1, HeapBut(b, s, end, root), ~Sinks(b, root, end)
  PROVE  HeapFrom(b, s, end)
<1> DEFINE child == Child(b, root, end)
<1> SUFFICES ASSUME NEW p \in s .. end - 1, NEW x \in 0 .. end - 1, Edge(p, x)
             PROVE  b[x].key <= b[p].key
  BY DEF HeapFrom
<1>1. CASE p # root
  BY <1>1 DEF HeapBut
<1>2. CASE p = root
  <2>1. root * 2 + 1 < end
    BY <1>2 DEF Edge
  <2>2. child \in 0 .. end - 1 /\ b[x].key <= b[child].key
    <3>1. root \in 0 .. m - 1
      OBVIOUS
    <3>2. QED
      BY <1>2, <2>1, <3>1, ChildIs
  <2>3. ~(b[root].key < b[child].key)
    BY <2>1 DEF Sinks
  <2> HIDE DEF child
  <2>4. b[root].key \in Int /\ b[child].key \in Int /\ b[x].key \in Int
    BY <2>2 DEF Keyed
  <2>5. QED
    BY <1>2, <2>2, <2>3, <2>4
<1>3. QED
  BY <1>1, <1>2

\* What sift_down makes of its array.
Sifted(b, q, s, root, end) ==
  Carried(b, q, 0, end) /\ (HeapBut(b, s, end, root) => HeapFrom(q, s, end))

LEMMA SiftSifts ==
  ASSUME NEW m \in Nat, NEW X, Keyed(X), NEW a \in [0 .. m - 1 -> X],
         NEW s \in Nat, NEW start \in s .. m - 1, NEW end \in 0 .. m
  PROVE  /\ sift_down(a, start, end) \in [0 .. m - 1 -> X]
         /\ Sifted(a, sift_down(a, start, end), s, start, end)
<1> DEFINE A == Arrays(a)
           Y == Range(a)
           D == 0 .. m - 1
<1>1. A = [0 .. m - 1 -> Y] /\ Keyed(Y) /\ a \in A /\ Y \subseteq X
  BY ArraysIs
<1>2. PICK f \in [D -> [A -> A]] :
           /\ sift_down(a, start, end) = f[start][a]
           /\ \A root \in D : \A b \in A : f[root][b] = SunkBy(f, root, b, end)
  <2>1. start \in 0 .. m - 1
    OBVIOUS
  <2>2. Sifting(a, start, end, m)
    BY <2>1, SiftIs
  <2>3. QED
    BY <2>2 DEF Sifting
<1> HIDE DEF A, Y
<1> DEFINE rank == [x \in D |-> m - x]
           S == {root \in D : s <= root => \A b \in A : Sifted(b, f[root][b], s, root, end)}
<1>3. rank \in [D -> Nat]
  OBVIOUS
<1>4. ASSUME NEW root \in D, \A z \in D : rank[z] < rank[root] => z \in S PROVE root \in S
  <2> SUFFICES ASSUME s <= root, NEW b \in A PROVE Sifted(b, f[root][b], s, root, end)
    OBVIOUS
  <2>1. CASE ~Sinks(b, root, end)
    <3>1. f[root][b] = b
      BY <1>2, <2>1 DEF SunkBy
    <3>2. HeapBut(b, s, end, root) => HeapFrom(b, s, end)
      <4>1. root \in s .. m - 1
        OBVIOUS
      <4>2. QED
        BY <1>1, <2>1, <4>1, SiftStop
    <3>3. Carried(b, b, 0, end)
      BY CarriedSame
    <3>4. QED
      BY <3>1, <3>2, <3>3 DEF Sifted
  <2>2. CASE Sinks(b, root, end)
    <3> DEFINE child == Child(b, root, end)
               c == Swapped(b, root, child)
               q == f[child][c]
    <3>1. child \in 0 .. end - 1 /\ root < child
      BY <1>1, <2>2, ChildIs DEF Sinks
    <3>2. f[root][b] = q
      BY <1>2, <2>2 DEF SunkBy
    <3>3. HeapBut(b, s, end, root) => HeapBut(c, s, end, child)
      <4>1. root \in s .. m - 1
        OBVIOUS
      <4>2. QED
        BY <1>1, <2>2, <4>1, SiftTurn
    <3> HIDE DEF child
    <3>4. /\ child \in D /\ rank[child] < rank[root] /\ s <= child
          /\ root \in 0 .. end - 1 /\ end \in 0 .. m /\ 0 \in Nat
      BY <3>1
    <3>5. c \in A /\ Carried(b, c, 0, end)
      BY <1>1, <3>1, <3>4, SwappedCarried
    <3> HIDE DEF c, rank, D
    <3>6. q \in A /\ Sifted(c, q, s, child, end)
      BY <1>4, <3>4, <3>5
    <3> HIDE DEF q
    <3>7. Carried(b, q, 0, end)
      BY <1>1, <3>4, <3>5, <3>6, CarriedOn DEF Sifted
    <3>8. QED
      BY <3>2, <3>3, <3>6, <3>7 DEF Sifted
  <2>3. QED
    BY <2>1, <2>2
<1> HIDE DEF S, rank
<1>5. D \subseteq S
  <2> HIDE DEF D
  <2>1. QED
    BY <1>3, <1>4, RankInduction
<1>6. start \in D /\ s <= start
  OBVIOUS
<1> HIDE DEF D
<1>7. f[start][a] \in A /\ Sifted(a, f[start][a], s, start, end)
  BY <1>1, <1>5, <1>6 DEF S
<1>8. QED
  BY <1>1, <1>2, <1>7

(***************************************************************************)
(* Making the heap, parent by parent, from the last one down.              *)
(***************************************************************************)
Heaping(a, m, f) ==
  \A k \in 0 .. m \div 2 :
    f[k] = IF k = 0 THEN a ELSE sift_down(f[k - 1], m \div 2 - k, m)

LEMMA HeapifyIs ==
  ASSUME NEW m \in Nat, NEW X, Keyed(X), NEW a \in [0 .. m - 1 -> X]
  PROVE  \E f : heapify(a) = f[m \div 2] /\ Heaping(a, m, f)
<1> DEFINE V == [0 .. m - 1 -> X]
           t == m \div 2
           step == [y \in (1 .. t) \X V |-> sift_down(y[2], t - y[1], m)]
           rhs(f) == [k \in 0 .. t |-> IF k = 0 THEN a ELSE sift_down(f[k - 1], t - k, m)]
<1>0. t \in Nat /\ 2 * t <= m
  OBVIOUS
<1>1. \A k \in 1 .. t, b \in V : sift_down(b, t - k, m) \in V
  <2> SUFFICES ASSUME NEW k \in 1 .. t, NEW b \in V PROVE sift_down(b, t - k, m) \in V
    OBVIOUS
  <2> DEFINE s == t - k
  <2>1. s \in Nat /\ s \in s .. m - 1 /\ m \in 0 .. m
    BY <1>0
  <2> HIDE DEF s
  <2>2. sift_down(b, s, m) \in V
    BY <2>1, SiftSifts
  <2>3. QED
    BY <2>2 DEF s
<1> HIDE DEF t, V
<1>2. step \in [((0 + 1) .. t) \X V -> V]
  BY <1>1
<1>3. PICK f \in [0 .. t -> V] :
        f[0] = a /\ \A k \in 1 .. t : f[k] = step[<<k, f[k - 1]>>]
  <2>1. a \in V /\ 0 \in Int /\ t \in Int /\ 0 <= t
    BY <1>0 DEF V
  <2> HIDE DEF step
  <2>2. Runs(0, t, V, a, step)
    BY <1>2, <2>1, LoopRecursion
  <2>3. 0 + 1 = 1
    OBVIOUS
  <2>4. QED
    BY <2>2, <2>3 DEF Runs
<1>4. f = rhs(f)
  <2>1. \A k \in 0 .. t : f[k] = IF k = 0 THEN a ELSE sift_down(f[k - 1], t - k, m)
    <3> SUFFICES ASSUME NEW k \in 0 .. t, k # 0 PROVE f[k] = sift_down(f[k - 1], t - k, m)
      BY <1>3
    <3>1. k \in 1 .. t /\ <<k, f[k - 1]>> \in (1 .. t) \X V
      BY <1>0
    <3>2. step[<<k, f[k - 1]>>] = sift_down(f[k - 1], t - k, m)
      BY <3>1
    <3> HIDE DEF step
    <3>3. QED
      BY <1>3, <3>1, <3>2
  <2>2. QED
    BY <2>1
<1> DEFINE heaped == CHOOSE h : h = rhs(h)
<1>5. heaped = rhs(heaped)
  <2> HIDE DEF rhs
  <2>1. QED
    BY <1>4
<1>6. heapify(a) = heaped[t]
  <2>1. Length(a) = m
    BY LengthIs
  <2>2. QED
    BY <2>1, Zenon DEF heapify, t
<1> HIDE DEF heaped
<1>7. Heaping(a, m, heaped)
  BY <1>5 DEF Heaping, t
<1>8. QED
  BY <1>6, <1>7 DEF t

LEMMA HeapifyHeaps ==
  ASSUME NEW m \in Nat, NEW X, Keyed(X), NEW a \in [0 .. m - 1 -> X]
  PROVE  /\ heapify(a) \in [0 .. m - 1 -> X]
         /\ Carried(a, heapify(a), 0, m) /\ HeapFrom(heapify(a), 0, m)
<1> DEFINE A == [0 .. m - 1 -> X]
           t == m \div 2
<1>1. PICK f : heapify(a) = f[t] /\ Heaping(a, m, f)
  BY HeapifyIs
<1>2. t \in Nat /\ 2 * t <= m /\ m <= 2 * t + 1
  OBVIOUS
<1>3. f[0] = a /\ \A k \in 1 .. t : f[k] = sift_down(f[k - 1], t - k, m)
  BY <1>1, <1>2 DEF Heaping
<1> HIDE DEF A, t
<1> DEFINE Good(b, s) == b \in A /\ Carried(a, b, 0, m) /\ HeapFrom(b, s, m)
           S == {k \in Nat : k <= t => Good(f[k], t - k)}
<1>4. 0 \in S
  <2>1. HeapFrom(a, t, m)
    BY <1>2 DEF HeapFrom, Edge
  <2>2. Carried(a, a, 0, m)
    BY CarriedSame
  <2>3. t - 0 = t
    BY <1>2
  <2>4. QED
    BY <1>3, <2>1, <2>2, <2>3 DEF A
<1>5. ASSUME NEW k \in Nat, k \in S PROVE k + 1 \in S
  <2> SUFFICES ASSUME k + 1 <= t PROVE Good(f[k + 1], t - (k + 1))
    OBVIOUS
  <2> DEFINE w == k + 1
             s == t - w
             b == f[k]
             c == f[w]
  <2>1. w \in 1 .. t /\ w - 1 = k /\ t - k = s + 1 /\ s \in Nat /\ s \in s .. m - 1 /\ m \in 0 .. m
    BY <1>2
  <2>2. Good(b, s + 1)
    BY <1>2, <1>5, <2>1
  <2>3. c = sift_down(b, s, m)
    BY <1>3, <2>1
  <2> HIDE DEF w, b, c, s
  <2>4. c \in A /\ Sifted(b, c, s, s, m)
    BY <2>1, <2>2, <2>3, SiftSifts DEF A
  <2>5. HeapBut(b, s, m, s)
    <3>1. ASSUME NEW p \in s .. m - 1, NEW x \in 0 .. m - 1, Edge(p, x), p # s
          PROVE  b[x].key <= b[p].key
      <4>1. p \in s + 1 .. m - 1
        BY <2>1, <3>1
      <4>2. QED
        BY <2>2, <3>1, <4>1 DEF HeapFrom
    <3>2. \A p \in s .. m - 1 : ~Edge(p, s)
      BY <2>1 DEF Edge
    <3>3. QED
      BY <3>1, <3>2 DEF HeapBut
  <2>6. HeapFrom(c, s, m)
    BY <2>4, <2>5 DEF Sifted
  <2>7. Carried(a, c, 0, m)
    <3>1. 0 \in Nat /\ m \in 0 .. m
      OBVIOUS
    <3>2. QED
      BY <2>2, <2>4, <3>1, CarriedOn DEF A, Sifted
  <2>8. QED
    BY <2>4, <2>6, <2>7 DEF c, s, w
<1>6. Good(f[t], 0)
  <2> HIDE DEF S
  <2>1. Nat \subseteq S
    BY <1>4, <1>5, Induction
  <2>2. t \in S
    BY <1>2, <2>1
  <2>3. t - t = 0 /\ t <= t
    BY <1>2
  <2> HIDE DEF Good
  <2>4. QED
    BY <2>2, <2>3 DEF S
<1>7. QED
  BY <1>1, <1>6 DEF A

\* The root of a heap is the largest.
LEMMA HeapTop ==
  ASSUME NEW m \in Nat, NEW X, Keyed(X), NEW b \in [0 .. m - 1 -> X], NEW end \in 0 .. m,
         HeapFrom(b, 0, end)
  PROVE  \A x \in 0 .. end - 1 : b[x].key <= b[0].key
<1> DEFINE S == {k \in Nat : \A x \in 0 .. k : x < end => b[x].key <= b[0].key}
<1>1. \A x \in 0 .. m - 1 : b[x].key \in Int
  BY DEF Keyed
<1>2. 0 \in S
  BY <1>1
<1>3. ASSUME NEW k \in Nat, k \in S PROVE k + 1 \in S
  <2> SUFFICES ASSUME k + 1 < end PROVE b[k + 1].key <= b[0].key
    BY <1>3
  <2> DEFINE w == k + 1
             p == k \div 2
  <2>1. p \in 0 .. k /\ p \in 0 .. end - 1 /\ w \in 0 .. end - 1 /\ Edge(p, w)
    BY DEF Edge
  <2> HIDE DEF w, p
  <2>2. b[w].key <= b[p].key
    BY <2>1 DEF HeapFrom
  <2>3. b[p].key <= b[0].key
    BY <1>3, <2>1
  <2>4. b[w].key \in Int /\ b[p].key \in Int /\ b[0].key \in Int
    BY <1>1, <2>1
  <2>5. b[w].key <= b[0].key
    BY <2>2, <2>3, <2>4
  <2>6. QED
    BY <2>5 DEF w
<1> HIDE DEF S
<1>4. Nat \subseteq S
  BY <1>2, <1>3, Induction
<1>5. QED
  <2> SUFFICES ASSUME NEW x \in 0 .. end - 1 PROVE b[x].key <= b[0].key
    OBVIOUS
  <2>1. x \in Nat /\ x \in S /\ x \in 0 .. x /\ x < end
    BY <1>4
  <2>2. QED
    BY <2>1 DEF S

(***************************************************************************)
(* Taking the largest again and again: the heap is the cells before end,   *)
(* and the cells from there on hold, in order, what is no smaller.         *)
(***************************************************************************)
Taking(a, m, f) ==
  \A k \in 0 .. m - 1 :
    f[k] = IF k = 0 THEN heapify(a) ELSE sift_down(Swapped(f[k - 1], 0, m - k), 0, m - k)

LEMMA TakingIs ==
  ASSUME NEW m \in Nat, NEW X, Keyed(X), NEW a \in [0 .. m - 1 -> X], 2 <= m
  PROVE  \E f : sort_heap(a) = f[m - 1] /\ Taking(a, m, f)
<1> DEFINE V == [0 .. m - 1 -> X]
           t == m - 1
           Turn(b, k) == sift_down(Swapped(b, 0, m - k), 0, m - k)
           step == [y \in (1 .. t) \X V |-> Turn(y[2], y[1])]
           rhs(f) == [k \in 0 .. t |-> IF k = 0 THEN heapify(a) ELSE Turn(f[k - 1], k)]
<1>0. t \in Nat
  OBVIOUS
<1>1. \A k \in 1 .. t, b \in V : Turn(b, k) \in V
  <2> SUFFICES ASSUME NEW k \in 1 .. t, NEW b \in V PROVE Turn(b, k) \in V
    OBVIOUS
  <2> DEFINE last == m - k
             c == Swapped(b, 0, last)
  <2>1. last \in 0 .. m - 1 /\ last \in 0 .. m /\ 0 \in Nat /\ 0 \in 0 .. m - 1
    OBVIOUS
  <2> HIDE DEF last
  <2>2. c \in V
    BY <2>1 DEF Swapped
  <2> HIDE DEF c
  <2>3. sift_down(c, 0, last) \in V
    BY <2>1, <2>2, SiftSifts
  <2>4. QED
    BY <2>3 DEF c, last
<1>2. heapify(a) \in V
  BY HeapifyHeaps
<1> HIDE DEF t, V, Turn
<1>3. step \in [((0 + 1) .. t) \X V -> V]
  BY <1>1
<1> DEFINE v == heapify(a)
<1>4. PICK f \in [0 .. t -> V] :
        f[0] = v /\ \A k \in 1 .. t : f[k] = step[<<k, f[k - 1]>>]
  <2>1. v \in V /\ 0 \in Int /\ t \in Int /\ 0 <= t
    BY <1>0, <1>2
  <2> HIDE DEF step, v
  <2>2. Runs(0, t, V, v, step)
    BY <1>3, <2>1, LoopRecursion
  <2>3. 0 + 1 = 1
    OBVIOUS
  <2>4. QED
    BY <2>2, <2>3 DEF Runs
<1>5. f = rhs(f)
  <2>1. \A k \in 0 .. t : f[k] = IF k = 0 THEN v ELSE Turn(f[k - 1], k)
    <3> SUFFICES ASSUME NEW k \in 0 .. t, k # 0 PROVE f[k] = Turn(f[k - 1], k)
      BY <1>4
    <3>1. k \in 1 .. t /\ <<k, f[k - 1]>> \in (1 .. t) \X V
      BY <1>0
    <3>2. step[<<k, f[k - 1]>>] = Turn(f[k - 1], k)
      BY <3>1
    <3> HIDE DEF step
    <3>3. QED
      BY <1>4, <3>1, <3>2
  <2>2. QED
    BY <2>1
<1> DEFINE taken == CHOOSE h : h = rhs(h)
<1>6. taken = rhs(taken)
  <2> HIDE DEF rhs
  <2>1. QED
    BY <1>5
<1>7. sort_heap(a) = taken[t]
  <2>1. Length(a) = m /\ ~(m < 2)
    BY LengthIs
  <2>2. QED
    BY <2>1, Zenon DEF sort_heap, t, Turn
<1> HIDE DEF taken
<1>8. Taking(a, m, taken)
  BY <1>6 DEF Taking, t, Turn
<1>9. QED
  BY <1>7, <1>8 DEF t

Taken(b, end, m) ==
  /\ HeapFrom(b, 0, end)
  /\ Up(b, end, m)
  /\ \A x \in 0 .. end - 1, y \in end .. m - 1 : b[x].key <= b[y].key

\* One turn: the root goes to the last cell of the heap, which loses it,
\* and what came in its place sinks.
ToLast(b, c, last, m) ==
  /\ c[0] = b[last] /\ c[last] = b[0]
  /\ \A x \in 0 .. m - 1 : x # 0 /\ x # last => c[x] = b[x]
  /\ Carried(b, c, 0, m)

LEMMA TookLast ==
  ASSUME NEW m \in Nat, NEW X, Keyed(X), NEW b \in [0 .. m - 1 -> X],
         NEW c \in [0 .. m - 1 -> X], NEW d \in [0 .. m - 1 -> X],
         NEW last \in 0 .. m - 1, NEW end, end = last + 1, Taken(b, end, m),
         ToLast(b, c, last, m), Sifted(c, d, 0, 0, last)
  PROVE  Carried(b, d, 0, m) /\ Taken(d, last, m)
<1>1. end \in 0 .. m /\ last \in 0 .. m /\ 0 \in 0 .. m - 1 /\ 0 \in Nat /\ m \in 0 .. m
  OBVIOUS
<1>2. /\ c[0] = b[last] /\ c[last] = b[0]
      /\ \A x \in 0 .. m - 1 : x # 0 /\ x # last => c[x] = b[x]
      /\ Carried(b, c, 0, m)
  BY DEF ToLast
<1>3. \A x \in 0 .. m - 1 : b[x].key \in Int
  BY DEF Keyed
<1>4. \A x \in 0 .. end - 1 : b[x].key <= b[0].key
  BY <1>1, HeapTop DEF Taken
<1>5. Carried(c, d, 0, last)
  BY DEF Sifted
<1>6. Carried(b, d, 0, m)
  <2>1. 0 \in 0 .. m /\ last \in 0 .. m
    BY <1>1
  <2>2. Carried(c, d, 0, m)
    BY <1>1, <1>5, <2>1, CarriedWithin
  <2>3. QED
    <3>1. /\ b \in [0 .. m - 1 -> X] /\ c \in [0 .. m - 1 -> X] /\ d \in [0 .. m - 1 -> X]
          /\ Carried(b, c, 0, m)
      BY <1>2
    <3>2. 0 \in Nat /\ m \in 0 .. m
      OBVIOUS
    <3>3. QED
      BY <2>2, <3>1, <3>2, CarriedOn
<1>7. HeapFrom(d, 0, last)
  <2>1. ASSUME NEW p \in 0 .. last - 1, NEW x \in 0 .. last - 1, Edge(p, x), p # 0
        PROVE  c[x].key <= c[p].key
    <3>1. x # 0 /\ x # last /\ p # last /\ x \in 0 .. m - 1 /\ p \in 0 .. m - 1
      BY <2>1 DEF Edge
    <3>2. b[x].key <= b[p].key
      BY <2>1 DEF Taken, HeapFrom
    <3>3. QED
      BY <1>2, <2>1, <3>1, <3>2
  <2>2. \A p \in 0 .. last - 1 : ~Edge(p, 0)
    BY DEF Edge
  <2>3. HeapBut(c, 0, last, 0)
    BY <2>1, <2>2 DEF HeapBut
  <2>4. QED
    BY <2>3 DEF Sifted
<1>8. \A y \in last .. m - 1 : d[y] = c[y]
  <2>1. DOMAIN c = 0 .. m - 1
    BY <1>2
  <2>2. QED
    BY <1>5, <2>1 DEF Carried
<1>9. d[last] = b[0] /\ \A y \in end .. m - 1 : d[y] = b[y]
  <2>1. d[last] = b[0]
    BY <1>2, <1>8
  <2>2. ASSUME NEW y \in end .. m - 1 PROVE d[y] = b[y]
    <3>1. y \in last .. m - 1 /\ y # 0 /\ y # last /\ y \in 0 .. m - 1
      OBVIOUS
    <3>2. QED
      BY <1>2, <1>8, <3>1
  <2>3. QED
    BY <2>1, <2>2
<1>10. \A x \in 0 .. last - 1 : \E z \in 0 .. end - 1 : d[x] = b[z]
  <2> SUFFICES ASSUME NEW x \in 0 .. last - 1 PROVE \E z \in 0 .. end - 1 : d[x] = b[z]
    OBVIOUS
  <2>1. PICK y \in 0 .. last - 1 : d[x] = c[y]
    BY <1>5 DEF Carried
  <2>2. CASE y = 0
    <3>1. last \in 0 .. end - 1
      OBVIOUS
    <3>2. QED
      BY <1>2, <2>1, <2>2, <3>1
  <2>3. CASE y # 0
    <3>1. y \in 0 .. end - 1 /\ y # last /\ y \in 0 .. m - 1
      OBVIOUS
    <3>2. QED
      BY <1>2, <2>1, <2>3, <3>1
  <2>4. QED
    BY <2>2, <2>3
<1>11. \A x \in 0 .. end - 1, y \in end .. m - 1 : b[x].key <= b[y].key
  BY DEF Taken
<1>12. Up(d, last, m)
  <2> SUFFICES ASSUME NEW x \in last .. m - 1, NEW y \in last .. m - 1, x < y
               PROVE  d[x].key <= d[y].key
    BY DEF Up
  <2>1. y \in end .. m - 1
    OBVIOUS
  <2>2. CASE x = last
    <3>1. 0 \in 0 .. end - 1
      OBVIOUS
    <3>2. b[0].key <= b[y].key
      BY <1>11, <2>1, <3>1
    <3>3. QED
      BY <1>9, <2>1, <2>2, <3>2
  <2>3. CASE x # last
    <3>1. x \in end .. m - 1
      BY <2>3
    <3>2. b[x].key <= b[y].key
      BY <2>1, <3>1 DEF Taken, Up
    <3>3. QED
      BY <1>9, <2>1, <3>1, <3>2
  <2>4. QED
    BY <2>2, <2>3
<1>13. ASSUME NEW x \in 0 .. last - 1, NEW y \in last .. m - 1 PROVE d[x].key <= d[y].key
  <2>1. PICK z \in 0 .. end - 1 : d[x] = b[z]
    BY <1>10
  <2>2. CASE y = last
    BY <1>4, <1>9, <2>1, <2>2
  <2>3. CASE y # last
    <3>1. y \in end .. m - 1
      BY <2>3
    <3>2. QED
      BY <1>9, <1>11, <2>1, <3>1
  <2>4. QED
    BY <2>2, <2>3
<1>14. QED
  BY <1>6, <1>7, <1>12, <1>13 DEF Taken

LEMMA TakeTurn ==
  ASSUME NEW m \in Nat, NEW X, Keyed(X), NEW b \in [0 .. m - 1 -> X],
         NEW last \in 0 .. m - 1, NEW end, end = last + 1, Taken(b, end, m),
         NEW d, d = sift_down(Swapped(b, 0, last), 0, last)
  PROVE  d \in [0 .. m - 1 -> X] /\ Carried(b, d, 0, m) /\ Taken(d, last, m)
<1> DEFINE A == [0 .. m - 1 -> X]
           c == Swapped(b, 0, last)
<1>1. end \in 0 .. m /\ last \in 0 .. m /\ 0 \in 0 .. m - 1 /\ 0 \in Nat /\ m \in 0 .. m
  OBVIOUS
<1>2. /\ c \in A /\ c[0] = b[last] /\ c[last] = b[0]
      /\ \A x \in 0 .. m - 1 : x # 0 /\ x # last => c[x] = b[x]
      /\ Carried(b, c, 0, m)
  <2>1. b \in [0 .. m - 1 -> X] /\ last \in 0 .. m - 1
    OBVIOUS
  <2>2. /\ c \in [0 .. m - 1 -> X] /\ c[0] = b[last] /\ c[last] = b[0]
        /\ \A x \in 0 .. m - 1 : x # 0 /\ x # last => c[x] = b[x]
    BY <1>1, <2>1 DEF Swapped
  <2>3. Carried(b, c, 0, m)
    BY <1>1, <2>1, SwappedCarried
  <2> HIDE DEF c
  <2>4. QED
    BY <2>2, <2>3
<1>3. d = sift_down(c, 0, last)
  OBVIOUS
<1> HIDE DEF c
<1>4. d \in A /\ Sifted(c, d, 0, 0, last)
  <2> DEFINE zero == 0
  <2>1. zero \in Nat /\ zero \in zero .. m - 1 /\ c \in [0 .. m - 1 -> X]
    BY <1>1, <1>2
  <2> HIDE DEF zero
  <2>2. /\ sift_down(c, zero, last) \in [0 .. m - 1 -> X]
        /\ Sifted(c, sift_down(c, zero, last), zero, zero, last)
    BY <1>1, <2>1, SiftSifts
  <2>3. QED
    BY <1>3, <2>2 DEF zero
<1>5. ToLast(b, c, last, m)
  BY <1>2 DEF ToLast
<1>6. QED
  BY <1>2, <1>4, <1>5, TookLast

LEMMA HeapSorts ==
  ASSUME NEW m \in Nat, NEW X, Keyed(X), NEW a \in [0 .. m - 1 -> X]
  PROVE  /\ sort_heap(a) \in [0 .. m - 1 -> X]
         /\ Carried(a, sort_heap(a), 0, m) /\ Up(sort_heap(a), 0, m)
<1> DEFINE A == [0 .. m - 1 -> X]
<1>1. CASE m < 2
  <2>1. sort_heap(a) = a
    BY <1>1, LengthIs DEF sort_heap
  <2>2. Up(a, 0, m)
    BY <1>1 DEF Up
  <2>3. Carried(a, a, 0, m)
    BY CarriedSame
  <2>4. QED
    BY <2>1, <2>2, <2>3
<1>2. CASE ~(m < 2)
  <2>1. 2 <= m
    BY <1>2
  <2>2. PICK f : sort_heap(a) = f[m - 1] /\ Taking(a, m, f)
    BY <2>1, TakingIs
  <2>3. /\ f[0] = heapify(a)
        /\ \A k \in 1 .. m - 1 : f[k] = sift_down(Swapped(f[k - 1], 0, m - k), 0, m - k)
    BY <2>1, <2>2 DEF Taking
  <2> HIDE DEF A
  <2> DEFINE Good(b, end) == b \in A /\ Carried(a, b, 0, m) /\ Taken(b, end, m)
             S == {k \in Nat : k <= m - 1 => Good(f[k], m - k)}
  <2>4. 0 \in S
    <3> DEFINE b == heapify(a)
    <3>1. b \in A /\ Carried(a, b, 0, m) /\ HeapFrom(b, 0, m)
      BY HeapifyHeaps DEF A
    <3> HIDE DEF b
    <3>2. Taken(b, m, m)
      BY <3>1 DEF Taken, Up
    <3>3. f[0] = b /\ m - 0 = m
      BY <2>3 DEF b
    <3>4. QED
      BY <3>1, <3>2, <3>3
  <2>5. ASSUME NEW k \in Nat, k \in S PROVE k + 1 \in S
    <3> SUFFICES ASSUME k + 1 <= m - 1 PROVE Good(f[k + 1], m - (k + 1))
      OBVIOUS
    <3> DEFINE w == k + 1
               last == m - w
               end == m - k
               b == f[k]
               d == f[w]
    <3>1. w \in 1 .. m - 1 /\ w - 1 = k /\ last \in 0 .. m - 1 /\ end = last + 1
      OBVIOUS
    <3>2. Good(b, end)
      BY <2>5
    <3>3. d = sift_down(Swapped(b, 0, last), 0, last)
      BY <2>3, <3>1
    <3> HIDE DEF w, last, end, b, d
    <3>4. d \in A /\ Carried(b, d, 0, m) /\ Taken(d, last, m)
      <4>1. b \in [0 .. m - 1 -> X] /\ last \in 0 .. m - 1 /\ Taken(b, end, m) /\ end = last + 1
        BY <3>1, <3>2 DEF A
      <4>2. d \in [0 .. m - 1 -> X] /\ Carried(b, d, 0, m) /\ Taken(d, last, m)
        BY <3>3, <4>1, TakeTurn
      <4>3. QED
        BY <4>2 DEF A
    <3>5. Carried(a, d, 0, m)
      <4>1. 0 \in Nat /\ m \in 0 .. m
        OBVIOUS
      <4>2. QED
        BY <3>2, <3>4, <4>1, CarriedOn DEF A
    <3>6. QED
      BY <3>4, <3>5 DEF w, last, d
  <2>6. Good(f[m - 1], 1)
    <3> HIDE DEF S
    <3>1. Nat \subseteq S
      BY <2>4, <2>5, Induction
    <3>2. m - 1 \in S
      BY <2>1, <3>1
    <3>3. m - (m - 1) = 1 /\ m - 1 <= m - 1
      OBVIOUS
    <3> HIDE DEF Good
    <3>4. QED
      BY <3>2, <3>3 DEF S
  <2> DEFINE q == f[m - 1]
  <2> HIDE DEF q
  <2>7. q \in A /\ Carried(a, q, 0, m) /\ Taken(q, 1, m) /\ sort_heap(a) = q
    BY <2>2, <2>6 DEF q
  <2>8. Up(q, 0, m)
    <3> SUFFICES ASSUME NEW x \in 0 .. m - 1, NEW y \in 0 .. m - 1, x < y
                 PROVE  q[x].key <= q[y].key
      BY DEF Up
    <3>1. y \in 1 .. m - 1
      OBVIOUS
    <3>2. CASE x = 0
      BY <2>7, <3>1, <3>2 DEF Taken
    <3>3. CASE x # 0
      BY <2>7, <3>1, <3>3 DEF Taken, Up
    <3>4. QED
      BY <3>2, <3>3
  <2>9. QED
    BY <2>7, <2>8 DEF A
<1>3. QED
  BY <1>1, <1>2

-----------------------------------------------------------------------------
(***************************************************************************)
(* The stack: the range on top, one range popped, one replaced by two.     *)
(***************************************************************************)
LEMMA Top ==
  ASSUME TypeOK, Ranges, stack # <<>>
  PROVE  /\ Len(stack) \in Nat \ {0}
         /\ DOMAIN stack = 1 .. Len(stack)
         /\ \A r \in DOMAIN stack : stack[r][1] \in Int /\ stack[r][2] \in Int
         /\ low \in Int /\ high \in Int
         /\ 0 <= low /\ low <= high /\ high < n
         /\ \A r \in DOMAIN stack : r # 1 => high < stack[r][1]
<1>1. stack \in Seq(Int \X Int)
  BY DEF TypeOK
<1>2. Len(stack) \in Nat \ {0} /\ DOMAIN stack = 1 .. Len(stack)
  BY <1>1, LenProperties, EmptySeq
<1>3. \A r \in DOMAIN stack : stack[r] \in Int \X Int
  BY <1>1, <1>2, ElementOfSeq
<1>4. \A r \in DOMAIN stack : stack[r][1] \in Int /\ stack[r][2] \in Int
  BY <1>3
<1>5. 1 \in DOMAIN stack
  BY <1>2
<1>6. QED
  BY <1>2, <1>4, <1>5 DEF low, high, Ranges

LEMMA Popped ==
  ASSUME NEW s \in Seq(Int \X Int), s # <<>>
  PROVE  /\ Tail(s) \in Seq(Int \X Int)
         /\ DOMAIN Tail(s) = 1 .. Len(s) - 1
         /\ Tail(s) = <<>> <=> Len(s) = 1
         /\ \A r \in 1 .. Len(s) - 1 : Tail(s)[r] = s[r + 1]
<1>1. Tail(s) \in Seq(Int \X Int) /\ Len(Tail(s)) = Len(s) - 1
      /\ \A r \in 1 .. Len(Tail(s)) : Tail(s)[r] = s[r + 1]
  BY HeadTailProperties
<1>2. Len(s) \in Nat \ {0}
  BY LenProperties, EmptySeq
<1>3. DOMAIN Tail(s) = 1 .. Len(s) - 1
  BY <1>1, LenProperties
<1>4. Tail(s) = <<>> <=> Len(s) = 1
  <2>1. Tail(s) = <<>> <=> Len(Tail(s)) = 0
    BY <1>1, EmptySeq
  <2>2. Len(Tail(s)) = 0 <=> Len(s) = 1
    BY <1>1, <1>2
  <2>3. QED
    BY <2>1, <2>2, Zenon
<1>5. QED
  BY <1>1, <1>3, <1>4

LEMMA Halved ==
  ASSUME NEW s \in Seq(Int \X Int), s # <<>>, NEW x \in Int \X Int, NEW y \in Int \X Int,
         NEW t, t = <<x, y>> \o Tail(s)
  PROVE  /\ t \in Seq(Int \X Int)
         /\ t # <<>>
         /\ DOMAIN t = 1 .. Len(s) + 1
         /\ t[1] = x /\ t[2] = y
         /\ \A r \in 3 .. Len(s) + 1 : t[r] = s[r - 1]
<1>1. Tail(s) \in Seq(Int \X Int) /\ Len(Tail(s)) = Len(s) - 1
      /\ \A r \in 1 .. Len(Tail(s)) : Tail(s)[r] = s[r + 1]
  BY HeadTailProperties
<1>2. Len(s) \in Nat \ {0}
  BY LenProperties, EmptySeq
<1>3. <<x, y>> \in Seq(Int \X Int) /\ Len(<<x, y>>) = 2
  OBVIOUS
<1>4. t \in Seq(Int \X Int) /\ Len(t) = 2 + (Len(s) - 1)
      /\ \A r \in 1 .. Len(t) : t[r] = IF r <= 2 THEN <<x, y>>[r] ELSE Tail(s)[r - 2]
  BY <1>1, <1>3, ConcatProperties
<1>5. DOMAIN t = 1 .. Len(s) + 1
  BY <1>2, <1>4, LenProperties
<1>6. t # <<>>
  BY <1>2, <1>4, EmptySeq
<1>7. t[1] = x /\ t[2] = y
  BY <1>2, <1>4
<1>8. \A r \in 3 .. Len(s) + 1 : t[r] = s[r - 1]
  <2>1. SUFFICES ASSUME NEW r \in 3 .. Len(s) + 1 PROVE t[r] = s[r - 1]
    OBVIOUS
  <2>2. r - 2 \in 1 .. Len(Tail(s)) /\ r \in 1 .. Len(t) /\ ~(r <= 2)
    BY <1>1, <1>2, <1>4
  <2>3. t[r] = Tail(s)[r - 2] /\ Tail(s)[r - 2] = s[(r - 2) + 1]
    BY <1>1, <1>4, <2>2
  <2>4. (r - 2) + 1 = r - 1
    BY <1>2
  <2>5. QED
    BY <2>3, <2>4
<1>9. QED
  BY <1>4, <1>5, <1>6, <1>7, <1>8

(***************************************************************************)
(* The middle of a range of two or more is in it and is not its end.       *)
(***************************************************************************)
LEMMA MiddleInside ==
  ASSUME NEW a \in Int, NEW b \in Int, a < b
  PROVE  Middle(a, b) \in Int /\ a <= Middle(a, b) /\ Middle(a, b) < b
BY DEF Middle

-----------------------------------------------------------------------------
LEMMA InitInv == Init => QuickInv
<1> SUFFICES ASSUME Init PROVE QuickInv
  OBVIOUS
<1>1. PICK keys \in [Cells -> Key] : input = [p \in Cells |-> [key |-> keys[p], val |-> p]]
  BY DEF Init
<1>2. n \in Nat /\ n <= MaxLen /\ Cells \subseteq 0 .. MaxLen
  BY MaxLenAssumption DEF Init, Cells
<1>3. TypeOK
  BY <1>1, <1>2 DEF Init, TypeOK, Item
<1>4. Rearranged
  BY <1>1 DEF Init, Rearranged
<1>5. Ranges /\ Settled /\ Partition
  BY DEF Init, Ranges, Settled, Partition
<1>6. QED
  BY <1>3, <1>4, <1>5 DEF QuickInv

(***************************************************************************)
(* What a partition needs to know of the range it works on.                *)
(***************************************************************************)
LEMMA Inside ==
  ASSUME QuickInv, pc = "partition"
  PROVE  /\ n \in Nat /\ \A p \in Cells : items[p].key \in Int
         /\ low \in Int /\ high \in Int /\ 0 <= low /\ low < high /\ high < n
         /\ i \in Int /\ j \in Int /\ pivot \in Int
         /\ low <= i /\ i <= high /\ low <= j /\ j <= high
         /\ i \in Cells /\ j \in Cells
         /\ Middle(low, high) \in Cells
         /\ low <= Middle(low, high) /\ Middle(low, high) < high
<1>1. n \in Nat
  BY MaxLenAssumption DEF QuickInv, TypeOK
<1>2. \A p \in Cells : items[p].key \in Int
  BY KeyAssumption DEF QuickInv, TypeOK, Item
<1>3. low \in Int /\ high \in Int /\ 0 <= low /\ high < n
  BY Top DEF QuickInv, Ranges
<1>4. low < high /\ i \in low .. high /\ j \in low .. high /\ pivot \in Int
  BY DEF QuickInv, Partition, TypeOK
<1>5. Middle(low, high) \in Int /\ low <= Middle(low, high) /\ Middle(low, high) < high
  BY <1>3, <1>4, MiddleInside
<1>6. QED
  BY <1>1, <1>2, <1>3, <1>4, <1>5 DEF Cells

\* The stack is the same, and so are the range and its middle.
LEMMA SameRange ==
  ASSUME UNCHANGED <<n, pc, stack>>
  PROVE  /\ UNCHANGED <<Cells, low, high, Middle(low, high)>>
         /\ Ranges => Ranges'
         /\ \A p, q : Together(p, q)' <=> Together(p, q)
BY DEF Cells, low, high, Middle, Ranges, Together

LEMMA StartSteps ==
  ASSUME QuickInv, Refuse \/ Sort
  PROVE  QuickInv'
<1> USE DEF QuickInv
<1>1. UNCHANGED <<n, input, items, i, j, pivot>> /\ pc = "start" /\ n \in Nat
  BY MaxLenAssumption DEF Refuse, Sort, TypeOK
<1>2. Cells' = Cells /\ Rearranged'
  BY <1>1 DEF Cells, Rearranged
<1>3. CASE pc' = "refused" /\ stack' = stack
  BY <1>1, <1>2, <1>3 DEF TypeOK, Ranges, Settled, Partition
<1>4. CASE n < 2 /\ pc' = "done" /\ stack' = stack
  <2>1. \A p, q \in Cells : ~(p < q)
    BY <1>1, <1>4 DEF Cells
  <2>2. QED
    BY <1>1, <1>2, <1>4, <2>1 DEF TypeOK, Ranges, Settled, Partition
<1>5. CASE n >= 2 /\ pc' = "call" /\ stack' = << <<0, n - 1>> >>
  <2>1. DOMAIN stack' = {1} /\ stack' # <<>> /\ stack'[1][1] = 0 /\ stack'[1][2] = n - 1
    BY <1>5
  <2>2. stack' \in Seq(Int \X Int)
    BY <1>1, <1>5
  <2>3. TypeOK'
    BY <1>1, <1>2, <1>5, <2>2 DEF TypeOK
  <2>4. Ranges'
    BY <1>1, <1>5, <2>1 DEF Ranges
  <2>5. \A p, q \in Cells : Together(p, q)'
    BY <1>1, <2>1 DEF Together, Cells
  <2>6. QED
    BY <1>2, <1>5, <2>3, <2>4, <2>5 DEF Settled, Partition
<1>6. QED
  BY <1>1, <1>3, <1>4, <1>5 DEF Refuse, Sort

LEMMA ReturnStep ==
  ASSUME QuickInv, Return
  PROVE  QuickInv'
<1> USE DEF QuickInv
<1>1. UNCHANGED <<n, input, items, i, j, pivot>> /\ stack' = Tail(stack) /\ low >= high
      /\ pc = "call" /\ pc' = (IF Len(stack) = 1 THEN "done" ELSE "call")
  BY DEF Return
<1>2. Cells' = Cells /\ Rearranged'
  BY <1>1 DEF Cells, Rearranged
<1>3. stack \in Seq(Int \X Int) /\ stack # <<>>
  BY <1>1 DEF TypeOK, Ranges
<1>4. /\ Len(stack) \in Nat \ {0} /\ DOMAIN stack = 1 .. Len(stack)
      /\ \A r \in DOMAIN stack : stack[r][1] \in Int /\ stack[r][2] \in Int
      /\ low = high /\ low \in Int
  BY <1>1, <1>3, Top
<1>5. /\ stack' \in Seq(Int \X Int)
      /\ DOMAIN stack' = 1 .. Len(stack) - 1
      /\ stack' = <<>> <=> Len(stack) = 1
      /\ \A r \in 1 .. Len(stack) - 1 : stack'[r] = stack[r + 1]
  BY <1>1, <1>3, Popped
<1>6. TypeOK'
  BY <1>1, <1>2, <1>5 DEF TypeOK
<1>7. Ranges'
  <2>1. \A r \in DOMAIN stack' : r + 1 \in DOMAIN stack /\ stack'[r] = stack[r + 1]
    BY <1>4, <1>5
  <2>2. \A r, s \in DOMAIN stack' : r < s => r + 1 < s + 1
    BY <1>4, <1>5
  <2>3. \A r \in DOMAIN stack' :
          0 <= stack'[r][1] /\ stack'[r][1] <= stack'[r][2] /\ stack'[r][2] < n
    BY <2>1 DEF Ranges
  <2>4. \A r, s \in DOMAIN stack' : r < s => stack'[r][2] < stack'[s][1]
    BY <2>1, <2>2 DEF Ranges
  <2>5. stack' = <<>> <=> pc' \in {"start", "refused", "done"}
    BY <1>1, <1>5
  <2>6. QED
    BY <1>1, <2>3, <2>4, <2>5 DEF Ranges
<1>8. Settled'
  <2>1. SUFFICES ASSUME NEW p \in Cells, NEW q \in Cells, p < q, Together(p, q)
                 PROVE  Together(p, q)'
    BY <1>1, <1>2 DEF Settled
  <2>2. PICK r \in DOMAIN stack : stack[r][1] <= p /\ q <= stack[r][2]
    BY <2>1 DEF Together
  <2>3. p \in Int /\ q \in Int
    BY DEF Cells
  <2>4. r # 1
    BY <1>4, <2>1, <2>2, <2>3 DEF low, high
  <2>5. r - 1 \in DOMAIN stack' /\ stack'[r - 1] = stack[r]
    BY <1>4, <1>5, <2>4
  <2>6. QED
    BY <2>2, <2>5 DEF Together
<1>9. Partition'
  BY <1>1 DEF Partition
<1>10. QED
  BY <1>2, <1>6, <1>7, <1>8, <1>9

LEMMA EnterStep ==
  ASSUME QuickInv, Enter
  PROVE  QuickInv'
<1> USE DEF QuickInv
<1>1. /\ UNCHANGED <<n, input, items, stack>> /\ pc = "call" /\ pc' = "partition"
      /\ low < high /\ i' = low /\ j' = high
      /\ pivot' = items[Middle(low, high)].key
  BY DEF Enter
<1>2. Cells' = Cells /\ Rearranged' /\ low' = low /\ high' = high
      /\ Middle(low, high)' = Middle(low, high)
  BY <1>1 DEF Cells, Rearranged, low, high, Middle
<1>3. stack # <<>> /\ low \in Int /\ high \in Int /\ 0 <= low /\ high < n
  BY <1>1, Top DEF Ranges
<1>4. Middle(low, high) \in Int /\ low <= Middle(low, high) /\ Middle(low, high) < high
  BY <1>1, <1>3, MiddleInside
<1>5. n \in Nat /\ Middle(low, high) \in Cells
  BY <1>3, <1>4, MaxLenAssumption DEF Cells, TypeOK
<1>6. pivot' \in Int /\ items'[Middle(low, high)].key = pivot'
  BY <1>1, <1>5, KeyAssumption DEF TypeOK, Item
<1>7. TypeOK'
  BY <1>1, <1>2, <1>3, <1>6 DEF TypeOK
<1>8. Ranges' /\ Settled'
  BY <1>1, <1>2 DEF Ranges, Settled, Together
<1>9. Partition'
  <2>1. i' \in low .. high /\ j' \in low .. high
    BY <1>1, <1>3
  <2>2. \A p \in Int : p \notin low .. i' - 1 /\ p \notin j' + 1 .. high
    BY <1>1, <1>3
  <2>3. Middle(low, high) \in i' .. high /\ Middle(low, high) \in low .. j'
    BY <1>1, <1>3, <1>4
  <2>4. pivot' <= pivot' /\ pivot' >= pivot' /\ i' <= Middle(low, high)
    BY <1>1, <1>4, <1>6
  <2>5. /\ \A p \in low .. i' - 1 : items'[p].key <= pivot'
        /\ \A p \in j' + 1 .. high : items'[p].key >= pivot'
    BY <1>3, <2>2
  <2>6. /\ \E p \in i' .. high : items'[p].key >= pivot'
        /\ \E p \in low .. j' : items'[p].key <= pivot'
    BY <1>6, <2>3, <2>4
  <2>7. QED
    BY <1>1, <1>2, <1>6, <2>1, <2>4, <2>5, <2>6 DEF Partition
<1>10. QED
  BY <1>2, <1>7, <1>8, <1>9

(***************************************************************************)
(* A scan moves over an item on the right side of the pivot.  It is not    *)
(* the item the scan is sure to stop at, which lies further on.            *)
(***************************************************************************)
LEMMA ScanUpStep ==
  ASSUME QuickInv, ScanUp
  PROVE  QuickInv'
<1> USE DEF QuickInv
<1>1. /\ pc = "partition" /\ items[i].key < pivot /\ i' = i + 1
      /\ UNCHANGED <<n, input, items, pc, stack, j, pivot>>
  BY DEF ScanUp
<1>2. /\ \A p \in Cells : items[p].key \in Int
      /\ low \in Int /\ high \in Int /\ 0 <= low /\ low < high /\ high < n /\ n \in Nat
      /\ i \in Int /\ j \in Int /\ pivot \in Int
      /\ low <= i /\ i <= high /\ low <= j /\ j <= high
      /\ Middle(low, high) \in Cells
  BY <1>1, Inside
<1>3. /\ Cells' = Cells /\ low' = low /\ high' = high
      /\ Middle(low, high)' = Middle(low, high) /\ Ranges'
  BY <1>1, SameRange
<1>4. TypeOK' /\ Rearranged' /\ Settled'
  BY <1>1, <1>2, <1>3 DEF TypeOK, Rearranged, Settled, Together
<1>5. Partition'
  <2>1. PICK stop \in i .. high : items[stop].key >= pivot
    BY <1>1 DEF Partition
  <2>2. stop \in Int /\ stop \in Cells /\ stop # i /\ i \in Cells
    BY <1>1, <1>2, <2>1 DEF Cells
  <2>3. stop \in i' .. high /\ i' \in low .. high
    BY <1>1, <1>2, <2>1, <2>2
  <2>4. \A p \in low .. i' - 1 : items[p].key <= pivot
    <3>1. \A p \in low .. i' - 1 : p \in low .. i - 1 \/ p = i
      BY <1>1, <1>2
    <3>2. items[i].key <= pivot
      BY <1>1, <1>2, <2>2
    <3>3. QED
      BY <1>1, <3>1, <3>2 DEF Partition
  <2>5. j < high \/ (i' <= Middle(low, high) /\ items[Middle(low, high)].key = pivot)
    <3>1. CASE j < high
      BY <3>1
    <3>2. CASE i <= Middle(low, high) /\ items[Middle(low, high)].key = pivot
      <4>1. i # Middle(low, high)
        BY <1>1, <1>2, <3>2
      <4>2. Middle(low, high) \in Int
        BY <1>2 DEF Cells
      <4>3. i' <= Middle(low, high)
        BY <1>1, <1>2, <3>2, <4>1, <4>2
      <4>4. QED
        BY <3>2, <4>3
    <3>3. QED
      BY <1>1, <3>1, <3>2 DEF Partition
  <2>6. \E p \in i' .. high : items[p].key >= pivot
    BY <2>1, <2>3
  <2>7. QED
    BY <1>1, <1>3, <2>3, <2>4, <2>5, <2>6 DEF Partition
<1>6. QED
  BY <1>3, <1>4, <1>5

LEMMA ScanDownStep ==
  ASSUME QuickInv, ScanDown
  PROVE  QuickInv'
<1> USE DEF QuickInv
<1>1. /\ pc = "partition" /\ items[j].key > pivot /\ j' = j - 1
      /\ UNCHANGED <<n, input, items, pc, stack, i, pivot>>
  BY DEF ScanDown
<1>2. /\ \A p \in Cells : items[p].key \in Int
      /\ low \in Int /\ high \in Int /\ 0 <= low /\ low < high /\ high < n /\ n \in Nat
      /\ i \in Int /\ j \in Int /\ pivot \in Int
      /\ low <= i /\ i <= high /\ low <= j /\ j <= high
      /\ Middle(low, high) \in Cells
  BY <1>1, Inside
<1>3. /\ Cells' = Cells /\ low' = low /\ high' = high
      /\ Middle(low, high)' = Middle(low, high) /\ Ranges'
  BY <1>1, SameRange
<1>4. TypeOK' /\ Rearranged' /\ Settled'
  BY <1>1, <1>2, <1>3 DEF TypeOK, Rearranged, Settled, Together
<1>5. Partition'
  <2>1. PICK stop \in low .. j : items[stop].key <= pivot
    BY <1>1 DEF Partition
  <2>2. stop \in Int /\ stop \in Cells /\ stop # j /\ j \in Cells
    BY <1>1, <1>2, <2>1 DEF Cells
  <2>3. stop \in low .. j' /\ j' \in low .. high /\ j' < high
    BY <1>1, <1>2, <2>1, <2>2
  <2>4. \A p \in j' + 1 .. high : items[p].key >= pivot
    <3>1. \A p \in j' + 1 .. high : p \in j + 1 .. high \/ p = j
      BY <1>1, <1>2
    <3>2. items[j].key >= pivot
      BY <1>1, <1>2, <2>2
    <3>3. QED
      BY <1>1, <3>1, <3>2 DEF Partition
  <2>5. \E p \in low .. j' : items[p].key <= pivot
    BY <2>1, <2>3
  <2>6. QED
    BY <1>1, <1>3, <2>3, <2>4, <2>5 DEF Partition
<1>6. QED
  BY <1>3, <1>4, <1>5

(***************************************************************************)
(* A swap stays inside the range on top, whose items are together, so that *)
(* what is settled outside it stays so.                                    *)
(***************************************************************************)
LEMMA SwapStep ==
  ASSUME QuickInv, Swap
  PROVE  QuickInv'
<1> USE DEF QuickInv
<1>1. /\ pc = "partition" /\ items[i].key >= pivot /\ items[j].key <= pivot /\ i < j
      /\ items' = [items EXCEPT ![i] = items[j], ![j] = items[i]]
      /\ i' = i + 1 /\ j' = j - 1
      /\ UNCHANGED <<n, input, pc, stack, pivot>>
  BY DEF Swap, Stopped
<1>2. /\ \A p \in Cells : items[p].key \in Int
      /\ low \in Int /\ high \in Int /\ 0 <= low /\ low < high /\ high < n /\ n \in Nat
      /\ i \in Int /\ j \in Int /\ pivot \in Int
      /\ low <= i /\ i <= high /\ low <= j /\ j <= high
      /\ i \in Cells /\ j \in Cells
  BY <1>1, Inside
<1>3. /\ Cells' = Cells /\ low' = low /\ high' = high
      /\ Middle(low, high)' = Middle(low, high) /\ Ranges'
  BY <1>1, SameRange
<1>4. items \in [Cells -> Item] /\ items' \in [Cells -> Item]
  BY <1>1, <1>2 DEF TypeOK
<1>5. /\ items'[i] = items[j] /\ items'[j] = items[i]
      /\ \A p \in Cells \ {i, j} : items'[p] = items[p]
  BY <1>1, <1>2, <1>4
<1>6. TypeOK'
  BY <1>1, <1>2, <1>3, <1>4 DEF TypeOK
<1>7. Rearranged'
  <2>1. \A p \in Cells : \E q \in Cells : items'[q] = items[p]
    BY <1>2, <1>5
  <2>2. \A p \in Cells : \E q \in Cells : items'[q] = input[p]
    BY <2>1 DEF Rearranged
  <2>3. \A p, q \in Cells : items'[p] = items'[q] => p = q
    BY <1>2, <1>5 DEF Rearranged
  <2>4. QED
    BY <1>1, <1>3, <2>2, <2>3 DEF Rearranged
<1>8. Settled'
  <2>1. SUFFICES ASSUME NEW p \in Cells, NEW q \in Cells, p < q, ~Together(p, q)
                 PROVE  items'[p].key <= items'[q].key
    BY <1>1, <1>3 DEF Settled, Together
  <2>2. p \in Int /\ q \in Int /\ 1 \in DOMAIN stack
    BY <1>1, Top DEF Cells, Ranges
  <2>3. ~(low <= p /\ q <= high)
    BY <2>1, <2>2 DEF Together, low, high
  <2>4. \A a, b \in Cells : a < b /\ ~Together(a, b) => items[a].key <= items[b].key
    BY <1>1 DEF Settled
  <2>5. CASE p \notin low .. high /\ q \notin low .. high
    <3>1. p \notin {i, j} /\ q \notin {i, j}
      BY <1>2, <2>5
    <3>2. QED
      BY <1>5, <2>1, <2>4, <3>1
  <2>6. CASE p \in low .. high /\ q \notin low .. high
    <3>1. high < q
      BY <1>2, <2>1, <2>2, <2>6
    <3>2. \A a \in low .. high : a \in Cells /\ a < q
      BY <1>2, <2>2, <3>1 DEF Cells
    <3>3. \A a \in low .. high : ~Together(a, q)
      <4>1. SUFFICES ASSUME NEW a \in low .. high, NEW r \in DOMAIN stack,
                            stack[r][1] <= a, q <= stack[r][2]
                     PROVE  FALSE
        BY DEF Together
      <4>2. r # 1
        BY <1>2, <2>2, <3>1, <4>1 DEF high
      <4>3. high < stack[r][1] /\ stack[r][1] \in Int
        BY <1>1, <4>2, Top DEF Ranges
      <4>4. QED
        BY <1>2, <4>1, <4>3
    <3>4. \A a \in low .. high : items[a].key <= items[q].key
      BY <2>4, <3>2, <3>3
    <3>5. items'[q] = items[q]
      BY <1>2, <1>5, <2>6
    <3>6. PICK a \in low .. high : items'[p] = items[a]
      BY <1>2, <1>5, <2>6
    <3>7. QED
      BY <3>4, <3>5, <3>6
  <2>7. CASE p \notin low .. high /\ q \in low .. high
    <3>1. p < low
      BY <1>2, <2>1, <2>2, <2>7
    <3>2. \A b \in low .. high : b \in Cells /\ p < b
      BY <1>2, <2>2, <3>1 DEF Cells
    <3>3. \A b \in low .. high : ~Together(p, b)
      <4>1. SUFFICES ASSUME NEW b \in low .. high, NEW r \in DOMAIN stack,
                            stack[r][1] <= p, b <= stack[r][2]
                     PROVE  FALSE
        BY DEF Together
      <4>2. stack[r][1] < low /\ stack[r][1] \in Int
        BY <1>1, <1>2, <2>2, <3>1, <4>1, Top DEF Ranges
      <4>3. r = 1 \/ high < stack[r][1]
        BY <1>1, Top DEF Ranges
      <4>4. QED
        BY <1>2, <4>2, <4>3 DEF low
    <3>4. \A b \in low .. high : items[p].key <= items[b].key
      BY <2>4, <3>2, <3>3
    <3>5. items'[p] = items[p]
      BY <1>2, <1>5, <2>7
    <3>6. PICK b \in low .. high : items'[q] = items[b]
      BY <1>2, <1>5, <2>7
    <3>7. QED
      BY <3>4, <3>5, <3>6
  <2>8. QED
    BY <1>2, <2>2, <2>3, <2>5, <2>6, <2>7
<1>9. Partition'
  <2>1. i' \in low .. high /\ j' \in low .. high /\ j' < high
    BY <1>1, <1>2
  <2>2. \A p \in low .. i' - 1 : items'[p].key <= pivot
    <3>1. \A p \in low .. i' - 1 : p = i \/ (p \in low .. i - 1 /\ p \in Cells \ {i, j})
      BY <1>1, <1>2 DEF Cells
    <3>2. QED
      BY <1>1, <1>5, <3>1 DEF Partition
  <2>3. \A p \in j' + 1 .. high : items'[p].key >= pivot
    <3>1. \A p \in j' + 1 .. high : p = j \/ (p \in j + 1 .. high /\ p \in Cells \ {i, j})
      BY <1>1, <1>2 DEF Cells
    <3>2. QED
      BY <1>1, <1>5, <3>1 DEF Partition
  <2>4. j \in i' .. high /\ items'[j].key >= pivot
    BY <1>1, <1>2, <1>5
  <2>5. i \in low .. j' /\ items'[i].key <= pivot
    BY <1>1, <1>2, <1>5
  <2>6. QED
    BY <1>1, <1>2, <1>3, <2>1, <2>2, <2>3, <2>4, <2>5 DEF Partition
<1>10. QED
  BY <1>3, <1>6, <1>7, <1>8, <1>9

(***************************************************************************)
(* A cut leaves both halves non-empty, and the pivot between them.         *)
(***************************************************************************)
LEMMA CutStep ==
  ASSUME QuickInv, Cut
  PROVE  QuickInv'
<1> USE DEF QuickInv
<1>1. /\ pc = "partition" /\ pc' = "call" /\ items[i].key >= pivot /\ items[j].key <= pivot
      /\ i >= j
      /\ stack' = << <<low, j>>, <<j + 1, high>> >> \o Tail(stack)
      /\ UNCHANGED <<n, input, items, i, j, pivot>>
  BY DEF Cut, Stopped
<1>2. /\ \A p \in Cells : items[p].key \in Int
      /\ low \in Int /\ high \in Int /\ 0 <= low /\ low < high /\ high < n /\ n \in Nat
      /\ i \in Int /\ j \in Int /\ pivot \in Int
      /\ low <= i /\ i <= high /\ low <= j /\ j <= high
      /\ i \in Cells /\ j \in Cells
      /\ Middle(low, high) < high /\ Middle(low, high) \in Cells
  BY <1>1, Inside
<1>3. j < high
  <2>1. Middle(low, high) \in Int
    BY <1>2 DEF Cells
  <2>2. QED
    BY <1>1, <1>2, <2>1 DEF Partition
<1>4. Cells' = Cells /\ Rearranged'
  BY <1>1 DEF Cells, Rearranged
<1>5. stack \in Seq(Int \X Int) /\ stack # <<>>
  BY <1>1 DEF TypeOK, Ranges
<1>6. /\ Len(stack) \in Nat \ {0} /\ DOMAIN stack = 1 .. Len(stack)
      /\ \A r \in DOMAIN stack : stack[r][1] \in Int /\ stack[r][2] \in Int
      /\ \A r \in DOMAIN stack : r # 1 => high < stack[r][1]
  BY <1>5, Top
<1>7. /\ stack' \in Seq(Int \X Int) /\ stack' # <<>>
      /\ DOMAIN stack' = 1 .. Len(stack) + 1
      /\ stack'[1] = <<low, j>> /\ stack'[2] = <<j + 1, high>>
      /\ \A r \in 3 .. Len(stack) + 1 : stack'[r] = stack[r - 1]
  <2>1. <<low, j>> \in Int \X Int /\ <<j + 1, high>> \in Int \X Int
    BY <1>2
  <2>2. QED
    BY <1>1, <1>5, <2>1, Halved
<1>8. TypeOK'
  BY <1>1, <1>4, <1>7 DEF TypeOK
<1>9. /\ stack'[1][1] = low /\ stack'[1][2] = j
      /\ stack'[2][1] = j + 1 /\ stack'[2][2] = high
      /\ 1 \in DOMAIN stack' /\ 2 \in DOMAIN stack'
  BY <1>6, <1>7
<1>10. \A r \in DOMAIN stack' :
         \/ r = 1 \/ r = 2
         \/ r \in 3 .. Len(stack) + 1 /\ r - 1 \in DOMAIN stack /\ r - 1 # 1
            /\ stack'[r] = stack[r - 1]
  BY <1>6, <1>7
<1>11. Ranges'
  <2>1. \A r \in DOMAIN stack' :
          0 <= stack'[r][1] /\ stack'[r][1] <= stack'[r][2] /\ stack'[r][2] < n
    <3>1. \A r \in DOMAIN stack :
            0 <= stack[r][1] /\ stack[r][1] <= stack[r][2] /\ stack[r][2] < n
      BY DEF Ranges
    <3>2. QED
      BY <1>2, <1>3, <1>9, <1>10, <3>1
  <2>2. \A r, s \in DOMAIN stack' : r < s => stack'[r][2] < stack'[s][1]
    <3>1. SUFFICES ASSUME NEW r \in DOMAIN stack', NEW s \in DOMAIN stack', r < s
                   PROVE  stack'[r][2] < stack'[s][1]
      OBVIOUS
    <3>2. r \in Int /\ s \in Int /\ 1 <= r
      BY <1>6, <1>7
    <3>3. CASE s = 2
      BY <1>2, <1>9, <3>1, <3>2, <3>3
    <3>4. CASE s \in 3 .. Len(stack) + 1
      <4>1. s - 1 \in DOMAIN stack /\ s - 1 # 1 /\ stack'[s] = stack[s - 1]
        BY <1>10, <3>4
      <4>2. high < stack'[s][1] /\ stack'[s][1] \in Int
        BY <1>6, <4>1
      <4>3. CASE r = 1 \/ r = 2
        BY <1>2, <1>9, <4>2, <4>3
      <4>4. CASE r \in 3 .. Len(stack) + 1
        <5>1. r - 1 \in DOMAIN stack /\ stack'[r] = stack[r - 1] /\ r - 1 < s - 1
          BY <1>10, <3>1, <3>2, <4>4
        <5>2. QED
          BY <4>1, <5>1 DEF Ranges
      <4>5. QED
        BY <1>10, <4>3, <4>4
    <3>5. QED
      BY <1>10, <3>1, <3>2, <3>3, <3>4
  <2>3. QED
    BY <1>1, <1>7, <2>1, <2>2 DEF Ranges
<1>12. Settled'
  <2>1. SUFFICES ASSUME NEW p \in Cells, NEW q \in Cells, p < q
                 PROVE  items[p].key <= items[q].key \/ Together(p, q)'
    BY <1>1, <1>4 DEF Settled
  <2>2. p \in Int /\ q \in Int
    BY DEF Cells
  <2>3. CASE items[p].key <= items[q].key
    BY <2>3
  <2>4. ASSUME NEW r \in DOMAIN stack, r # 1, stack[r][1] <= p, q <= stack[r][2]
        PROVE  Together(p, q)'
    <3>1. r + 1 \in DOMAIN stack' /\ stack'[r + 1] = stack[r]
      <4>1. r \in Int /\ r + 1 \in 3 .. Len(stack) + 1 /\ (r + 1) - 1 = r
        BY <1>6, <2>4
      <4>2. QED
        BY <1>7, <4>1
    <3>2. QED
      BY <2>4, <3>1 DEF Together
  <2>5. CASE low <= p /\ q <= high
    <3>1. CASE q <= j
      BY <1>9, <2>5, <3>1 DEF Together
    <3>2. CASE j + 1 <= p
      BY <1>9, <2>5, <3>2 DEF Together
    <3>3. CASE p <= j /\ j < q
      <4>1. q \in j + 1 .. high
        BY <1>2, <2>2, <2>5, <3>3
      <4>2. items[q].key >= pivot
        BY <1>1, <4>1 DEF Partition
      <4>3. p \in low .. i - 1 \/ p = j
        BY <1>1, <1>2, <2>2, <2>5, <3>3
      <4>4. items[p].key <= pivot
        BY <1>1, <4>3 DEF Partition
      <4>5. QED
        BY <1>2, <4>2, <4>4
    <3>4. QED
      BY <1>2, <2>2, <3>1, <3>2, <3>3
  <2>6. items[p].key <= items[q].key \/ Together(p, q)
    BY <1>1, <2>1 DEF Settled
  <2>7. QED
    BY <2>3, <2>4, <2>5, <2>6 DEF Together, low, high
<1>13. Partition'
  BY <1>1 DEF Partition
<1>14. QED
  BY <1>4, <1>8, <1>11, <1>12, <1>13

-----------------------------------------------------------------------------
(***************************************************************************)
(* Quick sort's scans stay inside their range and shrink it, and what no   *)
(* pending call will sort is in its place, whatever the array is.          *)
(***************************************************************************)
THEOREM QuickSortInvariant == Spec => []QuickInv
<1>1. Init => QuickInv
  BY InitInv
<1>2. QuickInv /\ [Next]_vars => QuickInv'
  <2>1. SUFFICES ASSUME QuickInv, [Next]_vars PROVE QuickInv'
    OBVIOUS
  <2>2. CASE Refuse \/ Sort
    BY <2>1, <2>2, StartSteps
  <2>3. CASE Return
    BY <2>1, <2>3, ReturnStep
  <2>4. CASE Enter
    BY <2>1, <2>4, EnterStep
  <2>5. CASE ScanUp
    BY <2>1, <2>5, ScanUpStep
  <2>6. CASE ScanDown
    BY <2>1, <2>6, ScanDownStep
  <2>7. CASE Swap
    BY <2>1, <2>7, SwapStep
  <2>8. CASE Cut
    BY <2>1, <2>8, CutStep
  <2>9. CASE UNCHANGED vars
    BY <2>1, <2>9 DEF vars, QuickInv, TypeOK, Rearranged, Ranges, Settled, Partition,
                      Cells, low, high, Middle, Together
  <2>10. QED
    BY <2>1, <2>2, <2>3, <2>4, <2>5, <2>6, <2>7, <2>8, <2>9 DEF Next
<1>3. QED
  BY <1>1, <1>2, PTL DEF Spec

(***************************************************************************)
(* When quick sort is done the array holds the items it was given, each    *)
(* once, in ascending order of their keys.                                 *)
(***************************************************************************)
THEOREM QuickSortSorts ==
  Spec => [](pc = "done" =>
               /\ Rearranged
               /\ \A p, q \in Cells : p < q => items[p].key <= items[q].key)
<1>1. QuickInv => (pc = "done" =>
                     /\ Rearranged
                     /\ \A p, q \in Cells : p < q => items[p].key <= items[q].key)
  <2>1. SUFFICES ASSUME QuickInv, pc = "done"
                 PROVE  /\ Rearranged
                        /\ \A p, q \in Cells : p < q => items[p].key <= items[q].key
    OBVIOUS
  <2>2. DOMAIN stack = {}
    BY <2>1 DEF QuickInv, Ranges
  <2>3. QED
    BY <2>1, <2>2 DEF QuickInv, Settled, Together
<1>2. QED
  BY <1>1, QuickSortInvariant, PTL

-----------------------------------------------------------------------------
(***************************************************************************)
(* All five.  The input stays as it was made: every val is the place of    *)
(* its item.                                                               *)
(***************************************************************************)
LEMMA InputPlaced == Spec => []Placed(input, 0, n)
<1>1. Init => Placed(input, 0, n)
  BY DEF Init, Placed, Cells
<1>2. Placed(input, 0, n) /\ [Next]_vars => Placed(input, 0, n)'
  BY DEF Placed, Next, Refuse, Sort, Return, Enter, ScanUp, ScanDown, Stopped, Swap, Cut, vars
<1>3. QED
  BY <1>1, <1>2, PTL DEF Spec

LEMMA ItemsValued == Valued(Item) /\ Keyed(Item)
<1>1. ASSUME NEW x \in Item PROVE x.key \in Int /\ x.val \in Int
  <2>1. x.key \in Key /\ x.val \in 0 .. MaxLen
    BY DEF Item
  <2>2. Key \subseteq Int /\ MaxLen \in Nat
    BY KeyAssumption, MaxLenAssumption
  <2>3. x.key \in Int
    BY <2>1, <2>2, Zenon
  <2>4. 0 .. MaxLen \subseteq Int
    BY <2>2
  <2>5. QED
    BY <2>1, <2>3, <2>4, Zenon
<1>2. QED
  BY <1>1 DEF Valued, Keyed

\* What Carried, Up, Keeps and Line say of all the cells.
LEMMA AllCells ==
  ASSUME TypeOK, NEW a \in [0 .. n - 1 -> Item], Carried(input, a, 0, n)
  PROVE  /\ Permuted(a)
         /\ Up(a, 0, n) => Ascending(a)
         /\ Keeps(a, 0, n) => Stable(a)
         /\ Line(a, 0, n) => Up(a, 0, n) /\ Keeps(a, 0, n)
<1>1. Cells = 0 .. n - 1
  BY DEF Cells
<1>2. Permuted(a)
  BY <1>1 DEF Permuted, Carried
<1>3. (Up(a, 0, n) => Ascending(a)) /\ (Keeps(a, 0, n) => Stable(a))
  BY <1>1 DEF Up, Keeps, Ascending, Stable
<1>4. ASSUME Line(a, 0, n) PROVE Up(a, 0, n) /\ Keeps(a, 0, n)
  <2>1. \A x \in 0 .. n - 1 : a[x].key \in Int /\ a[x].val \in Int
    BY ItemsValued DEF Valued
  <2>2. QED
    BY <1>4, <2>1 DEF Line, Before, Up, Keeps
<1>5. QED
  BY <1>2, <1>3, <1>4

(***************************************************************************)
(* Insertion, shell, merge and heap sort leave any array they are given    *)
(* in ascending order, with all its items; and of equal keys, insertion    *)
(* and merge sort keep the order.  Quick sort does, when it is done.       *)
(***************************************************************************)
THEOREM SortsSort == Spec => []Sorts
<1> DEFINE Quick == pc = "done" =>
                      /\ Rearranged
                      /\ \A p, q \in Cells : p < q => items[p].key <= items[q].key
<1>1. ASSUME QuickInv, Quick, Placed(input, 0, n) PROVE Sorts
  <2> DEFINE X == Item
  <2>1. TypeOK /\ n \in Nat /\ input \in [0 .. n - 1 -> X]
    BY <1>1, MaxLenAssumption DEF QuickInv, TypeOK, Cells
  <2>2. Keyed(X) /\ Valued(X)
    BY ItemsValued
  <2>3. pc = "done" => Permuted(items) /\ Ascending(items)
    BY <1>1 DEF Rearranged, Permuted, Ascending
  <2> HIDE DEF X
  <2>4. Permuted(sort_insertion(input)) /\ Ascending(sort_insertion(input))
        /\ Stable(sort_insertion(input))
    <3> DEFINE a == sort_insertion(input)
    <3>1. a \in [0 .. n - 1 -> X] /\ Carried(input, a, 0, n) /\ Up(a, 0, n) /\ Keeps(a, 0, n)
      BY <1>1, <2>1, <2>2, InsertionSorts
    <3> HIDE DEF a
    <3>2. Permuted(a) /\ Ascending(a) /\ Stable(a)
      BY <2>1, <3>1, AllCells DEF X
    <3>3. QED
      BY <3>2 DEF a
  <2>5. Permuted(sort_shell(input)) /\ Ascending(sort_shell(input))
    <3> DEFINE a == sort_shell(input)
    <3>1. a \in [0 .. n - 1 -> X] /\ Carried(input, a, 0, n) /\ Up(a, 0, n)
      BY <2>1, <2>2, ShellSorts
    <3> HIDE DEF a
    <3>2. Permuted(a) /\ Ascending(a)
      BY <2>1, <3>1, AllCells DEF X
    <3>3. QED
      BY <3>2 DEF a
  <2>6. Permuted(sort_merge(input)) /\ Ascending(sort_merge(input))
        /\ Stable(sort_merge(input))
    <3> DEFINE a == sort_merge(input)
    <3>1. a \in [0 .. n - 1 -> X] /\ Carried(input, a, 0, n) /\ Line(a, 0, n)
      BY <1>1, <2>1, <2>2, MergeSorts
    <3> HIDE DEF a
    <3>2. Permuted(a) /\ Ascending(a) /\ Stable(a)
      BY <2>1, <3>1, AllCells DEF X
    <3>3. QED
      BY <3>2 DEF a
  <2>7. Permuted(sort_heap(input)) /\ Ascending(sort_heap(input))
    <3> DEFINE a == sort_heap(input)
    <3>1. a \in [0 .. n - 1 -> X] /\ Carried(input, a, 0, n) /\ Up(a, 0, n)
      BY <2>1, <2>2, HeapSorts
    <3> HIDE DEF a
    <3>2. Permuted(a) /\ Ascending(a)
      BY <2>1, <3>1, AllCells DEF X
    <3>3. QED
      BY <3>2 DEF a
  <2>8. QED
    BY <2>3, <2>4, <2>5, <2>6, <2>7 DEF Sorts
<1>2. Spec => []QuickInv /\ []Quick /\ []Placed(input, 0, n)
  BY QuickSortInvariant, QuickSortSorts, InputPlaced, PTL
<1> HIDE DEF Quick
<1>3. QED
  BY <1>1, <1>2, PTL
=============================================================================
