----------------------------- MODULE Trees_proof -----------------------------
(***************************************************************************)
(* Proofs about bst.c and rbtree.c, for trees of any height.  What the     *)
(* recursive functions on trees compute is proved by induction over sets:  *)
(* a set of trees that holds NIL and each node whose subtrees it holds is  *)
(* all of Tree.                                                            *)
(***************************************************************************)
EXTENDS MCTrees, SequenceTheorems, FiniteSetTheorems, WellFoundedInduction, TLAPS

(***************************************************************************)
(* Induction on the natural numbers, for a set: there is no least number   *)
(* outside.                                                                *)
(***************************************************************************)
LEMMA Induction ==
  ASSUME NEW S, 0 \in S, \A n \in Nat : n \in S => n + 1 \in S
  PROVE  Nat \subseteq S
<1> DEFINE wrong == Nat \ S
<1>1. ASSUME wrong # {} PROVE FALSE
  <2>1. PICK n \in wrong : \A m \in wrong : ~(<<m, n>> \in OpToRel(<, Nat))
    <3> HIDE DEF wrong
    <3>1. wrong \subseteq Nat
      BY DEF wrong
    <3>2. QED
      BY <1>1, <3>1, NatLessThanWellFounded, WFMin
  <2>2. n \in Nat /\ n \notin S /\ \A m \in wrong : ~(m < n)
    BY <2>1 DEF OpToRel
  <2>3. n - 1 \in Nat /\ n - 1 < n /\ (n - 1) + 1 = n
    BY <2>2
  <2>4. QED
    BY <2>2, <2>3
<1>2. QED
  BY <1>1

(***************************************************************************)
(* Recursion on a rank: where a step looks at smaller arguments only, some *)
(* function satisfies its recursion.  g is good to n when it does so for   *)
(* arguments of a rank below n.                                            *)
(***************************************************************************)
LooksBelow(D, V, rank, step) ==
  \A x \in D : \A g, h \in [D -> V] :
    (\A y \in D : rank[y] < rank[x] => g[y] = h[y]) => step[<<x, g>>] = step[<<x, h>>]

Solvable(D, V, step) == \E f \in [D -> V] : \A x \in D : f[x] = step[<<x, f>>]

LEMMA RankRecursion ==
  ASSUME NEW D, NEW V, NEW v \in V, NEW rank \in [D -> Nat],
         NEW step \in [(D \X [D -> V]) -> V], LooksBelow(D, V, rank, step)
  PROVE  Solvable(D, V, step)
<1> DEFINE Good(n, g) == \A x \in D : rank[x] < n => g[x] = step[<<x, g>>]
           F == [D -> V]
<1> USE DEF LooksBelow
<1>1. \A n \in Nat : \E g \in F : Good(n, g)
  <2> DEFINE S == {n \in Nat : \E g \in F : Good(n, g)}
  <2>1. 0 \in S
    <3>1. [x \in D |-> v] \in F /\ Good(0, [x \in D |-> v])
      OBVIOUS
    <3>2. QED
      BY <3>1
  <2>2. ASSUME NEW n \in Nat, n \in S PROVE n + 1 \in S
    <3>1. PICK g \in F : Good(n, g)
      BY <2>2
    <3> DEFINE h == [x \in D |-> IF rank[x] < n THEN g[x] ELSE step[<<x, g>>]]
    <3>2. h \in F
      OBVIOUS
    <3>3. ASSUME NEW x \in D, rank[x] < n + 1 PROVE h[x] = step[<<x, h>>]
      <4>1. rank[x] \in Nat /\ rank[x] <= n
        BY <3>3
      <4>2. \A y \in D : rank[y] < rank[x] => g[y] = h[y]
        BY <4>1
      <4> HIDE DEF h
      <4>3. step[<<x, g>>] = step[<<x, h>>]
        BY <3>2, <4>2
      <4>4. h[x] = step[<<x, g>>]
        BY <3>1 DEF h
      <4>5. QED
        BY <4>3, <4>4
    <3> HIDE DEF h
    <3>4. Good(n + 1, h)
      BY <3>3
    <3>5. QED
      BY <3>2, <3>4
  <2> HIDE DEF S
  <2>3. Nat \subseteq S
    BY <2>1, <2>2, Induction
  <2>4. QED
    BY <2>3 DEF S
<1>2. ASSUME NEW n \in Nat, NEW g \in F, NEW h \in F, Good(n, g), Good(n, h)
      PROVE  \A x \in D : rank[x] < n => g[x] = h[x]
  <2> DEFINE S == {m \in Nat : \A x \in D : rank[x] < m /\ m <= n => g[x] = h[x]}
  <2>1. 0 \in S
    OBVIOUS
  <2>2. ASSUME NEW m \in Nat, m \in S PROVE m + 1 \in S
    <3> SUFFICES ASSUME NEW x \in D, rank[x] < m + 1, m + 1 <= n PROVE g[x] = h[x]
      OBVIOUS
    <3>1. \A y \in D : rank[y] < rank[x] => g[y] = h[y]
      BY <2>2
    <3>2. g[x] = step[<<x, g>>] /\ h[x] = step[<<x, h>>]
      BY <1>2
    <3>3. QED
      BY <3>1, <3>2
  <2> HIDE DEF S
  <2>3. Nat \subseteq S
    BY <2>1, <2>2, Induction
  <2>4. n \in S
    BY <2>3
  <2>5. QED
    BY <2>4 DEF S
<1> DEFINE G == [n \in Nat |-> CHOOSE g \in F : Good(n, g)]
           f == [x \in D |-> G[rank[x] + 1][x]]
<1>3. \A n \in Nat : G[n] \in F /\ Good(n, G[n])
  BY <1>1
<1>4. f \in F
  <2> HIDE DEF G
  <2> QED
    BY <1>3
<1>5. ASSUME NEW x \in D PROVE f[x] = step[<<x, f>>]
  <2> DEFINE n == rank[x] + 1
  <2>1. n \in Nat /\ rank[x] < n
    OBVIOUS
  <2>2. G[n] \in F /\ Good(n, G[n])
    BY <1>3, <2>1
  <2> HIDE DEF G
  <2>3. G[n][x] = step[<<x, G[n]>>]
    BY <2>1, <2>2
  <2>4. ASSUME NEW y \in D, rank[y] < rank[x] PROVE G[n][y] = f[y]
    <3> DEFINE m == rank[y] + 1
    <3>1. m \in Nat /\ m <= n /\ rank[y] < m
      BY <2>4
    <3>2. G[m] \in F /\ Good(m, G[m])
      BY <1>3, <3>1
    <3>3. Good(m, G[n])
      <4> SUFFICES ASSUME NEW z \in D, rank[z] < m PROVE G[n][z] = step[<<z, G[n]>>]
        OBVIOUS
      <4>1. rank[z] \in Nat /\ rank[z] < n
        BY <3>1
      <4>2. QED
        BY <2>2, <4>1
    <3> HIDE DEF m, n
    <3>4. G[m][y] = G[n][y]
      BY <1>2, <2>2, <3>1, <3>2, <3>3
    <3>5. QED
      BY <3>4 DEF m
  <2>5. step[<<x, G[n]>>] = step[<<x, f>>]
    <3> HIDE DEF f, n
    <3> QED
      BY <1>4, <2>2, <2>4
  <2>6. QED
    BY <2>3, <2>5
<1>6. QED
  BY <1>4, <1>5 DEF Solvable

-----------------------------------------------------------------------------
(***************************************************************************)
(* The trees of bounded height: UpTo is the solution of its recursion.     *)
(***************************************************************************)
UpToStep(n, f) == {NIL} \cup (IF n = 0 THEN {} ELSE Nodes(f[n - 1]))

UpToBelow(n, f) == \A m \in 0 .. n : f[m] = UpToStep(m, f)

LEMMA UpToIs == \A n \in Nat : UpTo[n] = UpToStep(n, UpTo)
<1>1. \A n \in Nat : \E f : UpToBelow(n, f)
  <2> DEFINE S == {n \in Nat : \E f : UpToBelow(n, f)}
  <2>1. 0 \in S
    <3>1. UpToBelow(0, [m \in {0} |-> {NIL}])
      BY DEF UpToBelow, UpToStep
    <3>2. QED
      BY <3>1
  <2>2. ASSUME NEW n \in Nat, n \in S PROVE n + 1 \in S
    <3>1. PICK f : UpToBelow(n, f)
      BY <2>2
    <3> DEFINE g == [m \in 0 .. n + 1 |-> IF m = n + 1 THEN UpToStep(m, f) ELSE f[m]]
    <3>2. ASSUME NEW m \in 0 .. n + 1 PROVE g[m] = UpToStep(m, g)
      <4>1. m # 0 => m - 1 \in 0 .. n + 1 /\ g[m - 1] = f[m - 1]
        OBVIOUS
      <4>2. UpToStep(m, g) = UpToStep(m, f)
        BY <4>1 DEF UpToStep
      <4>3. CASE m = n + 1
        BY <4>2, <4>3
      <4>4. CASE m \in 0 .. n
        <5>1. f[m] = UpToStep(m, f)
          BY <3>1, <4>4 DEF UpToBelow
        <5>2. g[m] = f[m]
          BY <4>4
        <5>3. QED
          BY <4>2, <5>1, <5>2
      <4>5. QED
        BY <4>3, <4>4
    <3> HIDE DEF g
    <3>3. UpToBelow(n + 1, g)
      BY <3>2 DEF UpToBelow
    <3>4. QED
      BY <3>3
  <2> HIDE DEF S
  <2>3. Nat \subseteq S
    BY <2>1, <2>2, Induction
  <2>4. QED
    BY <2>3 DEF S
<1>2. ASSUME NEW n \in Nat, NEW f, NEW g, UpToBelow(n, f), UpToBelow(n, g)
      PROVE  \A m \in 0 .. n : f[m] = g[m]
  <2> DEFINE S == {m \in Nat : m <= n => f[m] = g[m]}
  <2>1. 0 \in S
    <3>1. f[0] = g[0]
      BY <1>2 DEF UpToBelow, UpToStep
    <3>2. QED
      BY <3>1
  <2>2. ASSUME NEW m \in Nat, m \in S PROVE m + 1 \in S
    <3> SUFFICES ASSUME m + 1 <= n PROVE f[m + 1] = g[m + 1]
      OBVIOUS
    <3>1. f[m] = g[m] /\ (m + 1) - 1 = m /\ m + 1 \in 0 .. n
      BY <2>2
    <3>2. UpToStep(m + 1, f) = UpToStep(m + 1, g)
      BY <3>1 DEF UpToStep
    <3>3. f[m + 1] = UpToStep(m + 1, f) /\ g[m + 1] = UpToStep(m + 1, g)
      BY <1>2, <3>1 DEF UpToBelow
    <3>4. QED
      BY <3>2, <3>3
  <2> HIDE DEF S
  <2>3. Nat \subseteq S
    BY <2>1, <2>2, Induction
  <2>4. QED
    BY <2>3 DEF S
<1> DEFINE F(n) == CHOOSE f : UpToBelow(n, f)
           u == [n \in Nat |-> F(n)[n]]
<1>3. \A n \in Nat : UpToBelow(n, F(n))
  BY <1>1
<1>4. ASSUME NEW n \in Nat PROVE u[n] = UpToStep(n, u)
  <2> HIDE DEF F
  <2>1. F(n)[n] = UpToStep(n, F(n))
    BY <1>3 DEF UpToBelow
  <2>2. ASSUME n # 0 PROVE F(n)[n - 1] = u[n - 1]
    <3>1. n - 1 \in Nat /\ n - 1 \in 0 .. n - 1 /\ \A m \in 0 .. n - 1 : m \in 0 .. n
      BY <2>2
    <3>2. UpToBelow(n - 1, F(n)) /\ UpToBelow(n - 1, F(n - 1))
      BY <1>3, <3>1 DEF UpToBelow
    <3>3. QED
      BY <1>2, <3>1, <3>2
  <2>3. UpToStep(n, F(n)) = UpToStep(n, u)
    <3> HIDE DEF u
    <3> QED
      BY <2>2 DEF UpToStep
  <2>4. QED
    BY <2>1, <2>3
<1> DEFINE Is(f) == f = [n \in Nat |-> UpToStep(n, f)]
<1>5. \E f : Is(f)
  <2>1. u = [n \in Nat |-> u[n]]
    OBVIOUS
  <2> HIDE DEF u
  <2>2. Is(u)
    BY <1>4, <2>1
  <2>3. QED
    BY <2>2
<1>6. UpTo = CHOOSE f : Is(f)
  BY DEF UpTo, UpToStep
<1> HIDE DEF Is
<1>7. Is(UpTo)
  BY <1>5, <1>6
<1>8. QED
  BY <1>7 DEF Is

LEMMA UpToGrows == \A m, n \in Nat : m <= n => UpTo[m] \subseteq UpTo[n]
<1> DEFINE S == {n \in Nat : UpTo[n] \subseteq UpTo[n + 1]}
<1>1. 0 \in S
  <2>1. UpTo[0] = {NIL} /\ NIL \in UpTo[1]
    BY UpToIs DEF UpToStep
  <2>2. QED
    BY <2>1
<1>2. ASSUME NEW n \in Nat, n \in S PROVE n + 1 \in S
  <2>1. /\ UpTo[n + 1] = {NIL} \cup Nodes(UpTo[n])
        /\ UpTo[(n + 1) + 1] = {NIL} \cup Nodes(UpTo[n + 1])
    <3>1. n + 1 \in Nat /\ (n + 1) + 1 \in Nat /\ (n + 1) - 1 = n /\ ((n + 1) + 1) - 1 = n + 1
      OBVIOUS
    <3>2. QED
      BY <3>1, UpToIs DEF UpToStep
  <2>2. Nodes(UpTo[n]) \subseteq Nodes(UpTo[n + 1])
    BY <1>2 DEF Nodes
  <2>3. QED
    BY <2>1, <2>2
<1> HIDE DEF S
<1>3. Nat \subseteq S
  BY <1>1, <1>2, Induction
<1>4. \A n \in Nat : UpTo[n] \subseteq UpTo[n + 1]
  BY <1>3 DEF S
<1>5. ASSUME NEW m \in Nat PROVE \A n \in Nat : m <= n => UpTo[m] \subseteq UpTo[n]
  <2> DEFINE T == {n \in Nat : m <= n => UpTo[m] \subseteq UpTo[n]}
  <2>1. 0 \in T
    OBVIOUS
  <2>2. ASSUME NEW n \in Nat, n \in T PROVE n + 1 \in T
    BY <1>4, <2>2
  <2> HIDE DEF T
  <2>3. Nat \subseteq T
    BY <2>1, <2>2, Induction
  <2>4. QED
    BY <2>3 DEF T
<1>6. QED
  BY <1>5

-----------------------------------------------------------------------------
(***************************************************************************)
(* Nodes and trees.                                                        *)
(***************************************************************************)
LEMMA NodeFields ==
  ASSUME NEW it, NEW l, NEW r, NEW c
  PROVE  /\ Node(it, l, r, c).item = it
         /\ Node(it, l, r, c).left = l
         /\ Node(it, l, r, c).right = r
         /\ Node(it, l, r, c).red = c
BY DEF Node

LEMMA NodeIs ==
  ASSUME NEW S, NEW h \in Nodes(S)
  PROVE  /\ h = Node(h.item, h.left, h.right, h.red)
         /\ h.item \in Item /\ h.left \in S /\ h.right \in S /\ h.red \in BOOLEAN
BY DEF Node, Nodes

LEMMA NodeExcept ==
  ASSUME NEW S, NEW h \in Nodes(S), NEW x
  PROVE  /\ [h EXCEPT !.left = x] = Node(h.item, x, h.right, h.red)
         /\ [h EXCEPT !.right = x] = Node(h.item, h.left, x, h.red)
         /\ [h EXCEPT !.red = x] = Node(h.item, h.left, h.right, x)
<1>1. [h EXCEPT !.left = x] = Node(h.item, x, h.right, h.red)
  BY DEF Node, Nodes
<1>2. [h EXCEPT !.right = x] = Node(h.item, h.left, x, h.red)
  BY DEF Node, Nodes
<1>3. [h EXCEPT !.red = x] = Node(h.item, h.left, h.right, x)
  BY DEF Node, Nodes
<1>4. QED
  BY <1>1, <1>2, <1>3

LEMMA TreeIs ==
  ASSUME Heights = Nat
  PROVE  Tree = {NIL} \cup Nodes(Tree)
<1>1. ASSUME NEW h \in Tree, h # NIL PROVE h \in Nodes(Tree)
  <2>1. PICK n \in Nat : h \in UpTo[n]
    BY DEF Tree
  <2>2. n # 0 /\ h \in Nodes(UpTo[n - 1])
    BY <1>1, <2>1, UpToIs DEF UpToStep
  <2>3. UpTo[n - 1] \subseteq Tree
    BY <2>2 DEF Tree
  <2>4. QED
    BY <2>2, <2>3 DEF Nodes
<1>2. NIL \in Tree
  <2>1. NIL \in UpTo[0]
    BY UpToIs DEF UpToStep
  <2>2. QED
    BY <2>1 DEF Tree
<1>3. ASSUME NEW h \in Nodes(Tree) PROVE h \in Tree
  <2>1. h.left \in Tree /\ h.right \in Tree
    BY DEF Nodes
  <2>2. PICK m \in Nat : h.left \in UpTo[m]
    BY <2>1 DEF Tree
  <2>3. PICK n \in Nat : h.right \in UpTo[n]
    BY <2>1 DEF Tree
  <2>4. PICK k \in Nat : m <= k /\ n <= k
    <3>1. CASE m <= n
      BY <3>1
    <3>2. CASE n <= m
      BY <3>2
    <3>3. QED
      BY <3>1, <3>2
  <2>5. h.left \in UpTo[k] /\ h.right \in UpTo[k]
    BY <2>2, <2>3, <2>4, UpToGrows
  <2>6. h \in Nodes(UpTo[k])
    BY <2>5 DEF Nodes
  <2>7. k + 1 \in Nat /\ UpTo[k + 1] = UpToStep(k + 1, UpTo) /\ (k + 1) - 1 = k
    BY UpToIs
  <2>8. h \in UpTo[k + 1]
    BY <2>6, <2>7 DEF UpToStep
  <2>9. QED
    BY <2>7, <2>8 DEF Tree
<1>4. QED
  BY <1>1, <1>2, <1>3

LEMMA NodeType ==
  ASSUME Heights = Nat, NEW it \in Item, NEW l \in Tree, NEW r \in Tree, NEW c \in BOOLEAN
  PROVE  Node(it, l, r, c) \in Nodes(Tree) /\ Node(it, l, r, c) \in Tree \ {NIL}
<1>1. Node(it, l, r, c) \in Nodes(Tree)
  BY DEF Node, Nodes
<1>2. QED
  BY <1>1, TreeIs, NilAssumption

LEMMA TreeParts ==
  ASSUME Heights = Nat, NEW h \in Tree, h # NIL
  PROVE  /\ h \in Nodes(Tree)
         /\ h = Node(h.item, h.left, h.right, h.red)
         /\ h.item \in Item /\ h.left \in Tree /\ h.right \in Tree /\ h.red \in BOOLEAN
         /\ h.item.key \in Key /\ h.item.key \in Int
<1>1. h \in Nodes(Tree)
  BY TreeIs
<1>2. QED
  BY <1>1, NodeIs, ItemAssumption DEF Key

LEMMA TreeExcept ==
  ASSUME Heights = Nat, NEW h \in Tree, h # NIL, NEW x \in Tree
  PROVE  /\ [h EXCEPT !.left = x] = Node(h.item, x, h.right, h.red)
         /\ [h EXCEPT !.left = x] \in Tree \ {NIL}
         /\ [h EXCEPT !.right = x] = Node(h.item, h.left, x, h.red)
         /\ [h EXCEPT !.right = x] \in Tree \ {NIL}
<1>1. /\ h \in Nodes(Tree)
      /\ h.item \in Item /\ h.left \in Tree /\ h.right \in Tree /\ h.red \in BOOLEAN
  BY TreeParts
<1>2. /\ [h EXCEPT !.left = x] = Node(h.item, x, h.right, h.red)
      /\ [h EXCEPT !.right = x] = Node(h.item, h.left, x, h.red)
  BY <1>1, NodeExcept
<1>3. /\ Node(h.item, x, h.right, h.red) \in Tree \ {NIL}
      /\ Node(h.item, h.left, x, h.red) \in Tree \ {NIL}
  BY <1>1, NodeType
<1>4. QED
  BY <1>2, <1>3

(***************************************************************************)
(* Induction on trees, for a set.                                          *)
(***************************************************************************)
LEMMA TreeInduction ==
  ASSUME Heights = Nat, NEW P, NIL \in P,
         \A h \in Nodes(Tree) : h.left \in P /\ h.right \in P => h \in P
  PROVE  Tree \subseteq P
<1> DEFINE S == {n \in Nat : UpTo[n] \subseteq P}
<1>1. 0 \in S
  BY UpToIs DEF UpToStep
<1>2. ASSUME NEW n \in Nat, n \in S PROVE n + 1 \in S
  <2>1. UpTo[n + 1] = {NIL} \cup Nodes(UpTo[n])
    <3>1. n + 1 \in Nat /\ (n + 1) - 1 = n
      OBVIOUS
    <3>2. QED
      BY <3>1, UpToIs DEF UpToStep
  <2>2. ASSUME NEW h \in Nodes(UpTo[n]) PROVE h \in P
    <3>1. UpTo[n] \subseteq Tree
      BY DEF Tree
    <3>2. h \in Nodes(Tree) /\ h.left \in UpTo[n] /\ h.right \in UpTo[n]
      BY <3>1 DEF Nodes
    <3>3. QED
      BY <1>2, <3>2
  <2>3. QED
    BY <2>1, <2>2
<1> HIDE DEF S
<1>3. Nat \subseteq S
  BY <1>1, <1>2, Induction
<1>4. QED
  BY <1>3 DEF S, Tree

(***************************************************************************)
(* Recursion on trees: where a step looks at the two subtrees only, some   *)
(* function satisfies its recursion.  The rank is the height.              *)
(***************************************************************************)
LEMMA TreeRank ==
  ASSUME Heights = Nat
  PROVE  \E rank \in [Tree -> Nat] : \A h \in Nodes(Tree) :
           rank[h.left] < rank[h] /\ rank[h.right] < rank[h]
<1> DEFINE Tall(n, h) == h \in UpTo[n] /\ \A m \in Nat : h \in UpTo[m] => n <= m
           rank == [h \in Tree |-> CHOOSE n \in Nat : Tall(n, h)]
<1>1. ASSUME NEW h \in Tree PROVE \E n \in Nat : Tall(n, h)
  <2> SUFFICES ASSUME \A n \in Nat : ~Tall(n, h) PROVE FALSE
    OBVIOUS
  <2> DEFINE S == {n \in Nat : \A m \in Nat : m <= n => h \notin UpTo[m]}
  <2>1. 0 \in S
    <3>1. h \notin UpTo[0]
      OBVIOUS
    <3>2. QED
      BY <3>1
  <2>2. ASSUME NEW n \in Nat, n \in S PROVE n + 1 \in S
    <3>1. h \notin UpTo[n + 1]
      <4> SUFFICES ASSUME h \in UpTo[n + 1] PROVE FALSE
        OBVIOUS
      <4>1. \A m \in Nat : h \in UpTo[m] => n + 1 <= m
        BY <2>2
      <4>2. QED
        BY <4>1
    <3>2. \A m \in Nat : m <= n + 1 => m <= n \/ m = n + 1
      OBVIOUS
    <3>3. QED
      BY <2>2, <3>1, <3>2
  <2> HIDE DEF S
  <2>3. Nat \subseteq S
    BY <2>1, <2>2, Induction
  <2>4. QED
    BY <2>3 DEF S, Tree
<1>2. \A h \in Tree : rank[h] \in Nat /\ Tall(rank[h], h)
  BY <1>1
<1>3. rank \in [Tree -> Nat]
  BY <1>1
<1>4. ASSUME NEW h \in Nodes(Tree) PROVE rank[h.left] < rank[h] /\ rank[h.right] < rank[h]
  <2> HIDE DEF rank
  <2>1. h \in Tree /\ h.left \in Tree /\ h.right \in Tree /\ h # NIL
    BY TreeIs, NodeIs, NilAssumption
  <2>2. rank[h] \in Nat /\ h \in UpTo[rank[h]]
    BY <1>2, <2>1
  <2>3. rank[h] # 0 /\ h \in Nodes(UpTo[rank[h] - 1])
    BY <2>1, <2>2, UpToIs DEF UpToStep
  <2>4. h.left \in UpTo[rank[h] - 1] /\ h.right \in UpTo[rank[h] - 1]
    BY <2>3 DEF Nodes
  <2>5. rank[h] - 1 \in Nat
    BY <2>2, <2>3
  <2>6. rank[h.left] <= rank[h] - 1 /\ rank[h.right] <= rank[h] - 1
    BY <1>2, <2>1, <2>4, <2>5
  <2>7. rank[h.left] \in Nat /\ rank[h.right] \in Nat
    BY <1>2, <2>1
  <2>8. QED
    BY <2>2, <2>6, <2>7
<1> HIDE DEF rank
<1>5. QED
  BY <1>3, <1>4

LooksDown(V, step) ==
  \A h \in Tree : \A f, g \in [Tree -> V] :
    (h # NIL => f[h.left] = g[h.left] /\ f[h.right] = g[h.right])
      => step[<<h, f>>] = step[<<h, g>>]

LEMMA TreeRecursion ==
  ASSUME Heights = Nat, NEW V, NEW v \in V, NEW step \in [(Tree \X [Tree -> V]) -> V],
         LooksDown(V, step)
  PROVE  Solvable(Tree, V, step)
<1>1. PICK rank \in [Tree -> Nat] : \A h \in Nodes(Tree) :
        rank[h.left] < rank[h] /\ rank[h.right] < rank[h]
  BY TreeRank
<1>2. ASSUME NEW h \in Tree, NEW f \in [Tree -> V], NEW g \in [Tree -> V],
             \A y \in Tree : rank[y] < rank[h] => f[y] = g[y]
      PROVE  step[<<h, f>>] = step[<<h, g>>]
  <2>1. ASSUME h # NIL PROVE f[h.left] = g[h.left] /\ f[h.right] = g[h.right]
    <3>1. h \in Nodes(Tree) /\ h.left \in Tree /\ h.right \in Tree
      BY <2>1, TreeParts
    <3>2. QED
      BY <1>1, <1>2, <3>1
  <2>2. QED
    BY <2>1 DEF LooksDown
<1>3. LooksBelow(Tree, V, rank, step)
  BY <1>2 DEF LooksBelow
<1>4. QED
  BY <1>1, <1>3, RankRecursion

-----------------------------------------------------------------------------
(***************************************************************************)
(* What the recursive functions compute for a tree, from what they compute *)
(* for its two subtrees.                                                   *)
(***************************************************************************)
LEMMA SearchIs ==
  ASSUME Heights = Nat, NEW k
  PROVE  \A h \in Tree : search_node(h, k) =
           IF h = NIL THEN {}
           ELSE IF k < h.item.key THEN search_node(h.left, k)
           ELSE IF k > h.item.key THEN search_node(h.right, k)
           ELSE {h.item}
<1> DEFINE Step(h, f) ==
             IF h = NIL THEN {}
             ELSE IF k < h.item.key THEN f[h.left]
             ELSE IF k > h.item.key THEN f[h.right]
             ELSE {h.item}
           V == SUBSET Item
           step == [x \in Tree \X [Tree -> V] |-> Step(x[1], x[2])]
           Is(f) == f = [h \in Tree |-> Step(h, f)]
<1>1. \A h \in Tree, f \in [Tree -> V] : Step(h, f) \in V
  BY TreeParts
<1>2. \A h \in Tree : \A f, g \in [Tree -> V] :
        (h # NIL => f[h.left] = g[h.left] /\ f[h.right] = g[h.right]) => Step(h, f) = Step(h, g)
  BY TreeParts
<1>3. \A h \in Tree : search_node(h, k) = (CHOOSE f : Is(f))[h]
  BY DEF search_node
<1>4. {} \in V
  OBVIOUS
<1> HIDE DEF Step
<1>5. PICK f \in [Tree -> V] : \A h \in Tree : f[h] = step[<<h, f>>]
  <2>1. step \in [(Tree \X [Tree -> V]) -> V]
    BY <1>1
  <2>2. \A h \in Tree : \A f \in [Tree -> V] : step[<<h, f>>] = Step(h, f)
    OBVIOUS
  <2> HIDE DEF step, V
  <2>3. LooksDown(V, step)
    BY <1>2, <2>2 DEF LooksDown
  <2>4. Solvable(Tree, V, step)
    BY <1>4, <2>1, <2>3, TreeRecursion
  <2>5. QED
    BY <2>4 DEF Solvable
<1>6. Is(f)
  BY <1>5
<1> HIDE DEF Is
<1>7. Is(CHOOSE g : Is(g))
  BY <1>6
<1>8. \A h \in Tree : search_node(h, k) = Step(h, CHOOSE g : Is(g))
  BY <1>3, <1>7 DEF Is
<1>9. QED
  BY <1>3, <1>8, TreeParts DEF Step

LEMMA MinIs ==
  ASSUME Heights = Nat
  PROVE  \A h \in Tree : min_node(h) =
           IF h = NIL \/ h.left = NIL THEN h ELSE min_node(h.left)
<1> DEFINE Step(h, f) ==
             IF h = NIL \/ h.left = NIL THEN h ELSE f[h.left]
           V == Tree
           step == [x \in Tree \X [Tree -> V] |-> Step(x[1], x[2])]
           Is(f) == f = [h \in Tree |-> Step(h, f)]
<1>1. \A h \in Tree, f \in [Tree -> V] : Step(h, f) \in V
  BY TreeParts
<1>2. \A h \in Tree : \A f, g \in [Tree -> V] :
        (h # NIL => f[h.left] = g[h.left] /\ f[h.right] = g[h.right]) => Step(h, f) = Step(h, g)
  BY TreeParts
<1>3. \A h \in Tree : min_node(h) = (CHOOSE f : Is(f))[h]
  BY DEF min_node
<1>4. NIL \in V
  BY TreeIs
<1> HIDE DEF Step
<1>5. PICK f \in [Tree -> V] : \A h \in Tree : f[h] = step[<<h, f>>]
  <2>1. step \in [(Tree \X [Tree -> V]) -> V]
    BY <1>1
  <2>2. \A h \in Tree : \A f \in [Tree -> V] : step[<<h, f>>] = Step(h, f)
    OBVIOUS
  <2> HIDE DEF step, V
  <2>3. LooksDown(V, step)
    BY <1>2, <2>2 DEF LooksDown
  <2>4. Solvable(Tree, V, step)
    BY <1>4, <2>1, <2>3, TreeRecursion
  <2>5. QED
    BY <2>4 DEF Solvable
<1>6. Is(f)
  BY <1>5
<1> HIDE DEF Is
<1>7. Is(CHOOSE g : Is(g))
  BY <1>6
<1>8. \A h \in Tree : min_node(h) = Step(h, CHOOSE g : Is(g))
  BY <1>3, <1>7 DEF Is
<1>9. QED
  BY <1>3, <1>8, TreeParts DEF Step

LEMMA TraverseIs ==
  ASSUME Heights = Nat, NEW order \in Orders
  PROVE  \A h \in Tree : traverse_node(h, order) =
           IF h = NIL THEN <<>>
           ELSE LET me == <<h.item>>
                    l == traverse_node(h.left, order)
                    r == traverse_node(h.right, order)
                IN CASE order = "preorder" -> me \o l \o r
                     [] order = "inorder" -> l \o me \o r
                     [] order = "postorder" -> l \o r \o me
<1> DEFINE Join(me, l, r) ==
             CASE order = "preorder" -> me \o l \o r
               [] order = "inorder" -> l \o me \o r
               [] order = "postorder" -> l \o r \o me
           Step(h, f) ==
             IF h = NIL THEN <<>> ELSE Join(<<h.item>>, f[h.left], f[h.right])
           V == Seq(Item)
           step == [x \in Tree \X [Tree -> V] |-> Step(x[1], x[2])]
           Is(f) == f = [h \in Tree |-> Step(h, f)]
<1>1. ASSUME NEW h \in Tree, NEW f \in [Tree -> V] PROVE Step(h, f) \in V
  <2>1. CASE h = NIL
    BY <2>1
  <2>2. CASE h # NIL
    <3>1. <<h.item>> \in Seq(Item) /\ f[h.left] \in Seq(Item) /\ f[h.right] \in Seq(Item)
      BY <2>2, TreeParts
    <3>2. QED
      BY <2>2, <3>1, ConcatProperties DEF Orders
  <2>3. QED
    BY <2>1, <2>2
<1>2. \A h \in Tree : \A f, g \in [Tree -> V] :
        (h # NIL => f[h.left] = g[h.left] /\ f[h.right] = g[h.right]) => Step(h, f) = Step(h, g)
  <2> SUFFICES ASSUME NEW h \in Tree, NEW f \in [Tree -> V], NEW g \in [Tree -> V],
                      h # NIL => f[h.left] = g[h.left] /\ f[h.right] = g[h.right]
               PROVE  Step(h, f) = Step(h, g)
    OBVIOUS
  <2> HIDE DEF Join
  <2>1. CASE h = NIL
    BY <2>1
  <2>2. CASE h # NIL
    <3>1. f[h.left] = g[h.left] /\ f[h.right] = g[h.right]
      BY <2>2
    <3>2. QED
      BY <2>2, <3>1
  <2>3. QED
    BY <2>1, <2>2
<1>3. \A h \in Tree : traverse_node(h, order) = (CHOOSE f : Is(f))[h]
  BY Zenon DEF traverse_node
<1>4. <<>> \in V
  BY TreeIs
<1> HIDE DEF Step
<1>5. PICK f \in [Tree -> V] : \A h \in Tree : f[h] = step[<<h, f>>]
  <2>1. step \in [(Tree \X [Tree -> V]) -> V]
    BY <1>1
  <2>2. \A h \in Tree : \A f \in [Tree -> V] : step[<<h, f>>] = Step(h, f)
    OBVIOUS
  <2> HIDE DEF step, V
  <2>3. LooksDown(V, step)
    BY <1>2, <2>2 DEF LooksDown
  <2>4. Solvable(Tree, V, step)
    BY <1>4, <2>1, <2>3, TreeRecursion
  <2>5. QED
    BY <2>4 DEF Solvable
<1>6. Is(f)
  BY <1>5
<1> HIDE DEF Is
<1>7. Is(CHOOSE g : Is(g))
  BY <1>6
<1>8. \A h \in Tree : traverse_node(h, order) = Step(h, CHOOSE g : Is(g))
  BY <1>3, <1>7 DEF Is
<1>9. QED
  BY <1>3, <1>8, TreeParts DEF Step

LEMMA InorderIs ==
  ASSUME Heights = Nat
  PROVE  \A h \in Tree : traverse_node(h, "inorder") =
           IF h = NIL THEN <<>>
           ELSE traverse_node(h.left, "inorder") \o <<h.item>> \o traverse_node(h.right, "inorder")
BY TraverseIs DEF Orders

LEMMA BSTInsertIs ==
  ASSUME Heights = Nat, NEW it \in Item
  PROVE  \A h \in Tree : bst_insert_node(h, it) =
           IF h = NIL THEN Leaf(it, FALSE)
           ELSE IF it.key < h.item.key THEN [h EXCEPT !.left = bst_insert_node(h.left, it)]
           ELSE IF it.key > h.item.key THEN [h EXCEPT !.right = bst_insert_node(h.right, it)]
           ELSE h
<1> DEFINE Step(h, f) ==
             IF h = NIL THEN Leaf(it, FALSE)
             ELSE IF it.key < h.item.key THEN [h EXCEPT !.left = f[h.left]]
             ELSE IF it.key > h.item.key THEN [h EXCEPT !.right = f[h.right]]
             ELSE h
           V == Tree
           step == [x \in Tree \X [Tree -> V] |-> Step(x[1], x[2])]
           Is(f) == f = [h \in Tree |-> Step(h, f)]
<1>1. ASSUME NEW h \in Tree, NEW f \in [Tree -> V] PROVE Step(h, f) \in V
  <2>1. CASE h = NIL
    <3>1. NIL \in Tree
      BY TreeIs
    <3>2. QED
      BY <2>1, <3>1, NodeType DEF Leaf
  <2>2. CASE h # NIL
    <3>1. h \in Nodes(Tree) /\ h.item \in Item /\ h.left \in Tree /\ h.right \in Tree /\ h.red \in BOOLEAN
      BY <2>2, TreeParts
    <3>2. f[h.left] \in Tree /\ f[h.right] \in Tree
      BY <3>1
    <3>3. /\ [h EXCEPT !.left = f[h.left]] \in Tree
          /\ [h EXCEPT !.right = f[h.right]] \in Tree
      BY <2>2, <3>2, TreeExcept
    <3>4. QED
      BY <2>2, <3>3
  <2>3. QED
    BY <2>1, <2>2
<1>2. \A h \in Tree : \A f, g \in [Tree -> V] :
        (h # NIL => f[h.left] = g[h.left] /\ f[h.right] = g[h.right]) => Step(h, f) = Step(h, g)
  BY TreeParts DEF Leaf
<1>3. \A h \in Tree : bst_insert_node(h, it) = (CHOOSE f : Is(f))[h]
  BY DEF bst_insert_node
<1>4. NIL \in V
  BY TreeIs
<1> HIDE DEF Step
<1>5. PICK f \in [Tree -> V] : \A h \in Tree : f[h] = step[<<h, f>>]
  <2>1. step \in [(Tree \X [Tree -> V]) -> V]
    BY <1>1
  <2>2. \A h \in Tree : \A f \in [Tree -> V] : step[<<h, f>>] = Step(h, f)
    OBVIOUS
  <2> HIDE DEF step, V
  <2>3. LooksDown(V, step)
    BY <1>2, <2>2 DEF LooksDown
  <2>4. Solvable(Tree, V, step)
    BY <1>4, <2>1, <2>3, TreeRecursion
  <2>5. QED
    BY <2>4 DEF Solvable
<1>6. Is(f)
  BY <1>5
<1> HIDE DEF Is
<1>7. Is(CHOOSE g : Is(g))
  BY <1>6
<1>8. \A h \in Tree : bst_insert_node(h, it) = Step(h, CHOOSE g : Is(g))
  BY <1>3, <1>7 DEF Is
<1>9. QED
  BY <1>3, <1>8, TreeParts DEF Step

-----------------------------------------------------------------------------
(***************************************************************************)
(* The items of a tree from left to right, and which trees are search      *)
(* trees.                                                                  *)
(***************************************************************************)
Inorder(h) == traverse_node(h, "inorder")

Items(h) == ToSet(Inorder(h))

Ordered(h) == Ascending(Inorder(h))

LEMMA Spliced ==
  ASSUME NEW l \in Seq(Item), NEW x \in Item, NEW r \in Seq(Item)
  PROVE  LET s == l \o <<x>> \o r
             n == Len(l)
         IN /\ s \in Seq(Item) /\ Len(s) = n + 1 + Len(r) /\ n \in Nat /\ Len(r) \in Nat
            /\ DOMAIN s = 1 .. n + 1 + Len(r) /\ DOMAIN l = 1 .. n /\ DOMAIN r = 1 .. Len(r)
            /\ \A i \in 1 .. n : s[i] = l[i]
            /\ s[n + 1] = x
            /\ \A i \in 1 .. Len(r) : s[n + 1 + i] = r[i]
<1> DEFINE s == l \o <<x>> \o r
           n == Len(l)
           t == l \o <<x>>
<1>1. n \in Nat /\ Len(r) \in Nat /\ DOMAIN l = 1 .. n /\ DOMAIN r = 1 .. Len(r)
  BY LenProperties
<1>2. <<x>> \in Seq(Item) /\ Len(<<x>>) = 1 /\ <<x>>[1] = x
  OBVIOUS
<1>3. /\ t \in Seq(Item) /\ Len(t) = n + 1
      /\ \A i \in 1 .. n + 1 : t[i] = IF i <= n THEN l[i] ELSE <<x>>[i - n]
  BY <1>2, ConcatProperties
<1>4. (\A i \in 1 .. n : t[i] = l[i]) /\ t[n + 1] = x
  <2>1. (n + 1) - n = 1 /\ n + 1 \in 1 .. n + 1 /\ ~(n + 1 <= n)
    BY <1>1
  <2>2. QED
    BY <1>1, <1>2, <1>3, <2>1
<1> HIDE DEF t
<1>5. /\ t \o r \in Seq(Item) /\ Len(t \o r) = n + 1 + Len(r)
      /\ \A i \in 1 .. n + 1 + Len(r) : (t \o r)[i] = IF i <= n + 1 THEN t[i] ELSE r[i - (n + 1)]
  <2>1. /\ t \o r \in Seq(Item) /\ Len(t \o r) = Len(t) + Len(r)
        /\ \A i \in 1 .. Len(t) + Len(r) :
             (t \o r)[i] = IF i <= Len(t) THEN t[i] ELSE r[i - Len(t)]
    BY <1>3, ConcatProperties
  <2>2. Len(t) = n + 1
    BY <1>3
  <2>3. QED
    BY <2>1, <2>2
<1>6. DOMAIN (t \o r) = 1 .. n + 1 + Len(r)
  BY <1>5, LenProperties
<1>7. s = t \o r
  BY DEF t
<1> HIDE DEF s
<1>8. \A i \in 1 .. n + 1 : s[i] = t[i]
  BY <1>1, <1>5, <1>7
<1>9. ASSUME NEW i \in 1 .. Len(r) PROVE s[n + 1 + i] = r[i]
  <2>1. n + 1 + i \in 1 .. n + 1 + Len(r) /\ ~(n + 1 + i <= n + 1) /\ n + 1 + i - (n + 1) = i
    BY <1>1
  <2>2. QED
    BY <1>5, <1>7, <2>1
<1>10. QED
  BY <1>1, <1>4, <1>5, <1>6, <1>7, <1>8, <1>9 DEF s

LEMMA SplicedItems ==
  ASSUME NEW l \in Seq(Item), NEW x \in Item, NEW r \in Seq(Item)
  PROVE  ToSet(l \o <<x>> \o r) = ToSet(l) \cup {x} \cup ToSet(r)
<1> DEFINE s == l \o <<x>> \o r
           n == Len(l)
<1>1. /\ n \in Nat /\ Len(r) \in Nat
      /\ DOMAIN s = 1 .. n + 1 + Len(r) /\ DOMAIN l = 1 .. n /\ DOMAIN r = 1 .. Len(r)
      /\ \A i \in 1 .. n : s[i] = l[i]
      /\ s[n + 1] = x
      /\ \A i \in 1 .. Len(r) : s[n + 1 + i] = r[i]
  BY Spliced
<1> HIDE DEF s, n
<1>2. ASSUME NEW y \in ToSet(s) PROVE y \in ToSet(l) \cup {x} \cup ToSet(r)
  <2>1. PICK i \in 1 .. n + 1 + Len(r) : y = s[i]
    BY <1>1 DEF ToSet
  <2>2. CASE i \in 1 .. n
    BY <1>1, <2>1, <2>2 DEF ToSet
  <2>3. CASE i = n + 1
    BY <1>1, <2>1, <2>3
  <2>4. CASE i > n + 1
    <3>1. i - (n + 1) \in 1 .. Len(r) /\ n + 1 + (i - (n + 1)) = i
      BY <1>1, <2>4
    <3>2. y = r[i - (n + 1)]
      BY <1>1, <2>1, <3>1
    <3>3. QED
      BY <1>1, <3>1, <3>2 DEF ToSet
  <2>5. QED
    BY <1>1, <2>2, <2>3, <2>4
<1>3. ASSUME NEW y \in ToSet(l) PROVE y \in ToSet(s)
  <2>1. PICK i \in 1 .. n : y = l[i]
    BY <1>1 DEF ToSet
  <2>2. i \in DOMAIN s /\ y = s[i]
    BY <1>1, <2>1
  <2>3. QED
    BY <2>2 DEF ToSet
<1>4. x \in ToSet(s)
  <2>1. n + 1 \in DOMAIN s /\ x = s[n + 1]
    BY <1>1
  <2>2. QED
    BY <2>1 DEF ToSet
<1>5. ASSUME NEW y \in ToSet(r) PROVE y \in ToSet(s)
  <2>1. PICK i \in 1 .. Len(r) : y = r[i]
    BY <1>1 DEF ToSet
  <2>2. n + 1 + i \in DOMAIN s /\ y = s[n + 1 + i]
    BY <1>1, <2>1
  <2>3. QED
    BY <2>2 DEF ToSet
<1>6. ToSet(s) = ToSet(l) \cup {x} \cup ToSet(r)
  BY <1>2, <1>3, <1>4, <1>5
<1>7. QED
  BY <1>6 DEF s

LEMMA SplicedAscending ==
  ASSUME NEW l \in Seq(Item), NEW x \in Item, NEW r \in Seq(Item)
  PROVE  Ascending(l \o <<x>> \o r) <=>
           /\ Ascending(l) /\ Ascending(r)
           /\ \A y \in ToSet(l) : y.key < x.key
           /\ \A y \in ToSet(r) : x.key < y.key
<1> DEFINE s == l \o <<x>> \o r
           n == Len(l)
<1>1. /\ n \in Nat /\ Len(r) \in Nat
      /\ DOMAIN s = 1 .. n + 1 + Len(r) /\ DOMAIN l = 1 .. n /\ DOMAIN r = 1 .. Len(r)
      /\ \A i \in 1 .. n : s[i] = l[i]
      /\ s[n + 1] = x
      /\ \A i \in 1 .. Len(r) : s[n + 1 + i] = r[i]
  BY Spliced
<1>2. (\A i \in 1 .. n : l[i] \in Item) /\ (\A i \in 1 .. Len(r) : r[i] \in Item)
  BY ElementOfSeq
<1> HIDE DEF s, n
<1>3. ASSUME Ascending(s)
      PROVE  /\ Ascending(l) /\ Ascending(r)
             /\ \A y \in ToSet(l) : y.key < x.key
             /\ \A y \in ToSet(r) : x.key < y.key
  <2>1. Ascending(l)
    BY <1>1, <1>3 DEF Ascending
  <2>2. Ascending(r)
    <3> SUFFICES ASSUME NEW i \in 1 .. Len(r), NEW j \in 1 .. Len(r), i < j
                 PROVE  r[i].key < r[j].key
      BY <1>1 DEF Ascending
    <3>1. n + 1 + i \in DOMAIN s /\ n + 1 + j \in DOMAIN s /\ n + 1 + i < n + 1 + j
      BY <1>1
    <3>2. QED
      BY <1>1, <1>3, <3>1 DEF Ascending
  <2>3. ASSUME NEW y \in ToSet(l) PROVE y.key < x.key
    <3>1. PICK i \in 1 .. n : y = l[i]
      BY <1>1 DEF ToSet
    <3>2. i \in DOMAIN s /\ n + 1 \in DOMAIN s /\ i < n + 1
      BY <1>1
    <3>3. QED
      BY <1>1, <1>3, <3>1, <3>2 DEF Ascending
  <2>4. ASSUME NEW y \in ToSet(r) PROVE x.key < y.key
    <3>1. PICK i \in 1 .. Len(r) : y = r[i]
      BY <1>1 DEF ToSet
    <3>2. n + 1 + i \in DOMAIN s /\ n + 1 \in DOMAIN s /\ n + 1 < n + 1 + i
      BY <1>1
    <3>3. QED
      BY <1>1, <1>3, <3>1, <3>2 DEF Ascending
  <2>5. QED
    BY <2>1, <2>2, <2>3, <2>4
<1>4. ASSUME Ascending(l), Ascending(r), \A y \in ToSet(l) : y.key < x.key,
             \A y \in ToSet(r) : x.key < y.key,
             NEW i \in DOMAIN s, NEW j \in DOMAIN s, i < j
      PROVE  s[i].key < s[j].key
  <2>1. /\ \A k \in 1 .. n : l[k].key \in Int /\ l[k].key < x.key
        /\ \A k \in 1 .. Len(r) : r[k].key \in Int /\ x.key < r[k].key
        /\ x.key \in Int
    BY <1>1, <1>2, <1>4, ItemAssumption DEF ToSet
  <2>2. i \in Nat /\ j \in Nat /\ 1 <= i /\ i < j /\ j <= n + 1 + Len(r)
    BY <1>1, <1>4
  <2>3. CASE j <= n
    BY <1>1, <1>4, <2>2, <2>3 DEF Ascending
  <2>4. CASE j = n + 1
    BY <1>1, <1>4, <2>1, <2>2, <2>4
  <2>5. CASE j > n + 1
    <3> DEFINE q == j - (n + 1)
    <3>1. q \in 1 .. Len(r) /\ j = n + 1 + q
      BY <1>1, <2>2, <2>5
    <3>2. s[j] = r[q]
      BY <1>1, <3>1
    <3>3. CASE i <= n + 1
      <4>1. s[i].key \in Int /\ s[i].key <= x.key
        BY <1>1, <2>1, <2>2, <3>3
      <4> HIDE DEF q
      <4>2. r[q].key \in Int /\ x.key < r[q].key
        BY <2>1, <3>1
      <4>3. QED
        BY <2>1, <3>2, <4>1, <4>2
    <3>4. CASE i > n + 1
      <4> DEFINE p == i - (n + 1)
      <4>1. p \in 1 .. Len(r) /\ i = n + 1 + p /\ p < q
        BY <1>1, <2>2, <3>4
      <4>2. s[i] = r[p]
        BY <1>1, <4>1
      <4>3. QED
        BY <1>1, <1>4, <3>1, <3>2, <4>1, <4>2 DEF Ascending
    <3>5. QED
      BY <1>1, <2>2, <3>3, <3>4
  <2>6. QED
    BY <1>1, <2>2, <2>3, <2>4, <2>5
<1>5. QED
  BY <1>3, <1>4 DEF Ascending, s

LEMMA InorderType ==
  ASSUME Heights = Nat
  PROVE  \A h \in Tree : Inorder(h) \in Seq(Item) /\ Items(h) \subseteq Item
<1> DEFINE P == {h \in Tree : Inorder(h) \in Seq(Item)}
<1>1. NIL \in P
  <2>1. NIL \in Tree /\ <<>> \in Seq(Item)
    BY TreeIs
  <2>2. Inorder(NIL) = <<>>
    BY <2>1, InorderIs DEF Inorder
  <2>3. QED
    BY <2>1, <2>2
<1>2. ASSUME NEW h \in Nodes(Tree), h.left \in P, h.right \in P PROVE h \in P
  <2>1. h \in Tree /\ h # NIL /\ h.item \in Item
    BY TreeIs, NodeIs, NilAssumption
  <2>2. Inorder(h) = Inorder(h.left) \o <<h.item>> \o Inorder(h.right)
    BY <2>1, InorderIs DEF Inorder
  <2>3. Inorder(h.left) \in Seq(Item) /\ Inorder(h.right) \in Seq(Item)
    BY <1>2
  <2>4. Inorder(h) \in Seq(Item)
    BY <2>1, <2>2, <2>3, Spliced
  <2>5. QED
    BY <2>1, <2>4
<1> HIDE DEF P
<1>3. Tree \subseteq P
  BY <1>1, <1>2, TreeInduction
<1>4. \A h \in Tree : Inorder(h) \in Seq(Item)
  BY <1>3 DEF P
<1>5. ASSUME NEW h \in Tree PROVE Items(h) \subseteq Item
  BY <1>4, LenProperties, ElementOfSeq DEF Items, ToSet
<1>6. QED
  BY <1>4, <1>5

LEMMA EmptyTree ==
  ASSUME Heights = Nat
  PROVE  NIL \in Tree /\ Inorder(NIL) = <<>> /\ Items(NIL) = {} /\ Ordered(NIL)
<1>1. NIL \in Tree
  BY TreeIs
<1>2. Inorder(NIL) = <<>>
  BY <1>1, InorderIs DEF Inorder
<1>3. DOMAIN <<>> = {}
  OBVIOUS
<1>4. QED
  BY <1>1, <1>2, <1>3 DEF Items, ToSet, Ordered, Ascending

LEMMA HeldParts ==
  ASSUME Heights = Nat, NEW h \in Tree, h # NIL
  PROVE  /\ Inorder(h) = Inorder(h.left) \o <<h.item>> \o Inorder(h.right)
         /\ Items(h) = Items(h.left) \cup {h.item} \cup Items(h.right)
         /\ Ordered(h) <=> /\ Ordered(h.left) /\ Ordered(h.right)
                           /\ \A y \in Items(h.left) : y.key < h.item.key
                           /\ \A y \in Items(h.right) : h.item.key < y.key
<1>1. h.item \in Item /\ h.left \in Tree /\ h.right \in Tree
  BY TreeParts
<1>2. Inorder(h) = Inorder(h.left) \o <<h.item>> \o Inorder(h.right)
  BY InorderIs DEF Inorder
<1>3. Inorder(h.left) \in Seq(Item) /\ Inorder(h.right) \in Seq(Item)
  BY <1>1, InorderType
<1>4. QED
  BY <1>1, <1>2, <1>3, SplicedItems, SplicedAscending DEF Items, Ordered

\* The tree n has the items of l, the item it and the items of r, left to right.
Joins(n, it, l, r) ==
  /\ n \in Tree \ {NIL}
  /\ Inorder(n) = Inorder(l) \o <<it>> \o Inorder(r)
  /\ Items(n) = Items(l) \cup {it} \cup Items(r)
  /\ Ordered(n) <=> /\ Ordered(l) /\ Ordered(r)
                    /\ \A y \in Items(l) : y.key < it.key
                    /\ \A y \in Items(r) : it.key < y.key

LEMMA NodeJoins ==
  ASSUME Heights = Nat, NEW it \in Item, NEW l \in Tree, NEW r \in Tree, NEW c \in BOOLEAN
  PROVE  Joins(Node(it, l, r, c), it, l, r)
<1> DEFINE h == Node(it, l, r, c)
<1>1. h \in Tree \ {NIL} /\ h.item = it /\ h.left = l /\ h.right = r
  BY NodeType, NodeFields
<1> HIDE DEF h
<1>2. Joins(h, it, l, r)
  BY <1>1, HeldParts DEF Joins
<1>3. QED
  BY <1>2 DEF h

LEMMA ExceptJoins ==
  ASSUME Heights = Nat, NEW h \in Tree, h # NIL, NEW x \in Tree
  PROVE  /\ Joins([h EXCEPT !.left = x], h.item, x, h.right)
         /\ Joins([h EXCEPT !.right = x], h.item, h.left, x)
<1>1. h.item \in Item /\ h.left \in Tree /\ h.right \in Tree /\ h.red \in BOOLEAN
  BY TreeParts
<1>2. /\ [h EXCEPT !.left = x] = Node(h.item, x, h.right, h.red)
      /\ [h EXCEPT !.right = x] = Node(h.item, h.left, x, h.red)
  BY TreeExcept
<1>3. Joins(Node(h.item, x, h.right, h.red), h.item, x, h.right)
  BY <1>1, NodeJoins
<1>4. Joins(Node(h.item, h.left, x, h.red), h.item, h.left, x)
  BY <1>1, NodeJoins
<1>5. QED
  BY <1>2, <1>3, <1>4

LEMMA MinType ==
  ASSUME Heights = Nat
  PROVE  \A h \in Tree \ {NIL} : min_node(h) \in Tree \ {NIL} /\ min_node(h).item \in Items(h)
<1> DEFINE P == {h \in Tree : h # NIL => /\ min_node(h) \in Tree \ {NIL}
                                        /\ min_node(h).item \in Items(h)}
<1>1. NIL \in P
  BY TreeIs
<1>2. ASSUME NEW h \in Nodes(Tree), h.left \in P, h.right \in P PROVE h \in P
  <2>1. /\ h \in Tree /\ h # NIL /\ h.left \in Tree /\ h.right \in Tree
        /\ Items(h) = Items(h.left) \cup {h.item} \cup Items(h.right)
    BY TreeIs, NodeIs, NilAssumption, HeldParts
  <2>2. CASE h.left = NIL
    <3>1. min_node(h) = h
      BY <2>1, <2>2, MinIs
    <3>2. QED
      BY <2>1, <3>1
  <2>3. CASE h.left # NIL
    <3>1. min_node(h) = min_node(h.left)
      BY <2>1, <2>3, MinIs
    <3>2. QED
      BY <1>2, <2>1, <2>3, <3>1
  <2>4. QED
    BY <2>2, <2>3
<1> HIDE DEF P
<1>3. Tree \subseteq P
  BY <1>1, <1>2, TreeInduction
<1>4. QED
  BY <1>3 DEF P

LEMMA MinLeast ==
  ASSUME Heights = Nat
  PROVE  \A h \in Tree \ {NIL} : Ordered(h) =>
           \A y \in Items(h) : y = min_node(h).item \/ min_node(h).item.key < y.key
<1> DEFINE Least(h) == \A y \in Items(h) : y = min_node(h).item \/ min_node(h).item.key < y.key
           P == {h \in Tree : h # NIL /\ Ordered(h) => Least(h)}
<1>1. NIL \in P
  BY TreeIs
<1>2. ASSUME NEW h \in Nodes(Tree), h.left \in P, h.right \in P PROVE h \in P
  <2>1. h \in Tree /\ h # NIL /\ h.left \in Tree /\ h.right \in Tree /\ h.item \in Item
    BY TreeIs, NodeIs, NilAssumption
  <2> SUFFICES ASSUME Ordered(h) PROVE Least(h)
    BY <2>1
  <2>2. /\ Items(h) = Items(h.left) \cup {h.item} \cup Items(h.right)
        /\ Ordered(h.left)
        /\ \A y \in Items(h.left) : y.key < h.item.key
        /\ \A y \in Items(h.right) : h.item.key < y.key
    BY <2>1, HeldParts
  <2>3. CASE h.left = NIL
    <3>1. min_node(h) = h /\ Items(h.left) = {}
      BY <2>1, <2>3, MinIs, EmptyTree
    <3>2. QED
      BY <2>2, <3>1
  <2>4. CASE h.left # NIL
    <3> DEFINE m == min_node(h.left).item
    <3>1. min_node(h) = min_node(h.left)
      BY <2>1, <2>4, MinIs
    <3>2. m \in Items(h.left) /\ m.key < h.item.key
      BY <2>1, <2>2, <2>4, MinType
    <3>3. \A y \in Items(h.left) : y = m \/ m.key < y.key
      BY <1>2, <2>1, <2>2, <2>4
    <3>4. \A y \in Items(h) : y.key \in Int
      BY <2>1, InorderType, ItemAssumption
    <3>5. m.key \in Int /\ h.item.key \in Int
      BY <2>2, <3>2, <3>4
    <3> HIDE DEF m
    <3>6. \A y \in Items(h) : y = m \/ m.key < y.key
      BY <2>2, <3>2, <3>3, <3>4, <3>5
    <3>7. QED
      BY <3>1, <3>6 DEF m
  <2>5. QED
    BY <2>3, <2>4
<1> HIDE DEF P
<1>3. Tree \subseteq P
  BY <1>1, <1>2, TreeInduction
<1>4. QED
  BY <1>3 DEF P

LEMMA SearchFinds ==
  ASSUME Heights = Nat, NEW k \in Int
  PROVE  \A h \in Tree : Ordered(h) => search_node(h, k) = {y \in Items(h) : y.key = k}
<1> DEFINE P == {h \in Tree : Ordered(h) => search_node(h, k) = {y \in Items(h) : y.key = k}}
<1>1. NIL \in P
  <2>1. search_node(NIL, k) = {}
    BY SearchIs, EmptyTree
  <2>2. QED
    BY <2>1, EmptyTree
<1>2. ASSUME NEW h \in Nodes(Tree), h.left \in P, h.right \in P PROVE h \in P
  <2>1. h \in Tree /\ h # NIL /\ h.left \in Tree /\ h.right \in Tree /\ h.item \in Item
    BY TreeIs, NodeIs, NilAssumption
  <2> SUFFICES ASSUME Ordered(h) PROVE search_node(h, k) = {y \in Items(h) : y.key = k}
    BY <2>1
  <2>2. /\ Items(h) = Items(h.left) \cup {h.item} \cup Items(h.right)
        /\ Ordered(h.left) /\ Ordered(h.right)
        /\ \A y \in Items(h.left) : y.key < h.item.key
        /\ \A y \in Items(h.right) : h.item.key < y.key
    BY <2>1, HeldParts
  <2>3. h.item.key \in Int /\ \A y \in Items(h) : y.key \in Int
    BY <2>1, InorderType, ItemAssumption
  <2>4. CASE k < h.item.key
    <3>1. search_node(h, k) = search_node(h.left, k)
      BY <2>1, <2>4, SearchIs
    <3>2. \A y \in Items(h) : y.key = k => y \in Items(h.left)
      BY <2>2, <2>3, <2>4
    <3>3. QED
      BY <1>2, <2>2, <3>1, <3>2
  <2>5. CASE k > h.item.key
    <3>1. search_node(h, k) = search_node(h.right, k)
      BY <2>1, <2>3, <2>5, SearchIs
    <3>2. \A y \in Items(h) : y.key = k => y \in Items(h.right)
      BY <2>2, <2>3, <2>5
    <3>3. QED
      BY <1>2, <2>2, <3>1, <3>2
  <2>6. CASE k = h.item.key
    <3>1. search_node(h, k) = {h.item}
      BY <2>1, <2>3, <2>6, SearchIs
    <3>2. \A y \in Items(h) : y.key = k => y = h.item
      BY <2>2, <2>3, <2>6
    <3>3. QED
      BY <2>2, <2>6, <3>1, <3>2
  <2>7. QED
    BY <2>3, <2>4, <2>5, <2>6
<1> HIDE DEF P
<1>3. Tree \subseteq P
  BY <1>1, <1>2, TreeInduction
<1>4. QED
  BY <1>3 DEF P

LEMMA BSTRemoveIs ==
  ASSUME Heights = Nat
  PROVE  \A h \in Tree, k \in Key : bst_remove_node(h, k) =
           IF h = NIL THEN NIL
           ELSE IF k < h.item.key THEN [h EXCEPT !.left = bst_remove_node(h.left, k)]
           ELSE IF k > h.item.key THEN [h EXCEPT !.right = bst_remove_node(h.right, k)]
           ELSE IF h.left = NIL THEN h.right
           ELSE IF h.right = NIL THEN h.left
           ELSE LET min == min_node(h.right).item
                IN Node(min, h.left, bst_remove_node(h.right, min.key), h.red)
<1> DEFINE Step(h, f) == [k \in Key |-> Removal(h, k, f)]
           V == [Key -> Tree]
           step == [x \in Tree \X [Tree -> V] |-> Step(x[1], x[2])]
           Is(f) == f = [h \in Tree |-> Step(h, f)]
<1>1. \A h \in Tree, f \in [Tree -> V] : Step(h, f) \in V
  <2> SUFFICES ASSUME NEW h \in Tree, NEW f \in [Tree -> V], NEW k \in Key
               PROVE  Removal(h, k, f) \in Tree
    OBVIOUS
  <2>1. CASE h = NIL
    BY <2>1, TreeIs DEF Removal
  <2>2. CASE h # NIL
    <3>1. h.item \in Item /\ h.left \in Tree /\ h.right \in Tree /\ h.red \in BOOLEAN
      BY <2>2, TreeParts
    <3>2. f[h.left][k] \in Tree /\ f[h.right][k] \in Tree
      BY <3>1
    <3>3. /\ [h EXCEPT !.left = f[h.left][k]] \in Tree
          /\ [h EXCEPT !.right = f[h.right][k]] \in Tree
      BY <2>2, <3>2, TreeExcept
    <3>4. ASSUME h.right # NIL
          PROVE  Node(min_node(h.right).item, h.left, f[h.right][min_node(h.right).item.key], h.red) \in Tree
      <4>1. min_node(h.right).item \in Item /\ min_node(h.right).item.key \in Key
        BY <3>1, <3>4, MinType, TreeParts
      <4>2. f[h.right][min_node(h.right).item.key] \in Tree
        BY <3>1, <4>1
      <4>3. QED
        BY <3>1, <4>1, <4>2, NodeType
    <3>5. QED
      BY <2>2, <3>1, <3>3, <3>4 DEF Removal
  <2>3. QED
    BY <2>1, <2>2
<1>2. \A h \in Tree : \A f, g \in [Tree -> V] :
        (h # NIL => f[h.left] = g[h.left] /\ f[h.right] = g[h.right]) => Step(h, f) = Step(h, g)
  <2> SUFFICES ASSUME NEW h \in Tree, NEW f \in [Tree -> V], NEW g \in [Tree -> V],
                      h # NIL => f[h.left] = g[h.left] /\ f[h.right] = g[h.right],
                      NEW k \in Key
               PROVE  Removal(h, k, f) = Removal(h, k, g)
    OBVIOUS
  <2> QED
    BY DEF Removal
<1>3. \A h \in Tree, k \in Key : bst_remove_node(h, k) = (CHOOSE f : Is(f))[h][k]
  BY DEF bst_remove_node
<1>4. [k \in Key |-> NIL] \in V
  BY TreeIs
<1> HIDE DEF Step
<1>5. PICK f \in [Tree -> V] : \A h \in Tree : f[h] = step[<<h, f>>]
  <2>1. step \in [(Tree \X [Tree -> V]) -> V]
    BY <1>1
  <2>2. \A h \in Tree : \A f \in [Tree -> V] : step[<<h, f>>] = Step(h, f)
    OBVIOUS
  <2> HIDE DEF step, V
  <2>3. LooksDown(V, step)
    BY <1>2, <2>2 DEF LooksDown
  <2>4. Solvable(Tree, V, step)
    BY <1>4, <2>1, <2>3, TreeRecursion
  <2>5. QED
    BY <2>4 DEF Solvable
<1>6. Is(f)
  BY <1>5
<1> HIDE DEF Is
<1>7. Is(CHOOSE g : Is(g))
  BY <1>6
<1>8. \A h \in Tree, k \in Key : bst_remove_node(h, k) = Removal(h, k, CHOOSE g : Is(g))
  <2> SUFFICES ASSUME NEW h \in Tree, NEW k \in Key
               PROVE  bst_remove_node(h, k) = Removal(h, k, CHOOSE g : Is(g))
    OBVIOUS
  <2>1. (CHOOSE g : Is(g))[h] = Step(h, CHOOSE g : Is(g))
    BY <1>7 DEF Is
  <2>2. QED
    BY <1>3, <2>1 DEF Step
<1>9. ASSUME NEW h \in Tree, NEW k \in Key, h # NIL
      PROVE  /\ bst_remove_node(h.left, k) = (CHOOSE g : Is(g))[h.left][k]
             /\ bst_remove_node(h.right, k) = (CHOOSE g : Is(g))[h.right][k]
             /\ h.right # NIL => bst_remove_node(h.right, min_node(h.right).item.key)
                                 = (CHOOSE g : Is(g))[h.right][min_node(h.right).item.key]
  <2>1. h.left \in Tree /\ h.right \in Tree
    BY <1>9, TreeParts
  <2>2. h.right # NIL => min_node(h.right).item.key \in Key
    BY <2>1, MinType, TreeParts
  <2>3. QED
    BY <1>3, <2>1, <2>2
<1>10. QED
  BY <1>8, <1>9 DEF Removal

-----------------------------------------------------------------------------
(***************************************************************************)
(* bst.c: insertion and removal on an ordered tree.                        *)
(***************************************************************************)
Inserted(h, n, it) ==
  /\ n \in Tree \ {NIL}
  /\ Ordered(h) /\ (\A y \in Items(h) : y.key # it.key) =>
       Ordered(n) /\ Items(n) = Items(h) \cup {it}

LEMMA LeafInserted ==
  ASSUME Heights = Nat, NEW it \in Item, NEW c \in BOOLEAN
  PROVE  Inserted(NIL, Leaf(it, c), it)
<1>1. NIL \in Tree /\ Items(NIL) = {} /\ Ordered(NIL)
  BY EmptyTree
<1>2. Joins(Leaf(it, c), it, NIL, NIL)
  BY <1>1, NodeJoins DEF Leaf
<1>3. QED
  BY <1>1, <1>2 DEF Inserted, Joins

LEMMA InsertedBelow ==
  ASSUME Heights = Nat, NEW it \in Item, NEW h \in Tree, h # NIL, NEW x
  PROVE  /\ it.key < h.item.key /\ Inserted(h.left, x, it) => Inserted(h, [h EXCEPT !.left = x], it)
         /\ it.key > h.item.key /\ Inserted(h.right, x, it) => Inserted(h, [h EXCEPT !.right = x], it)
<1>1. /\ h.item \in Item /\ h.left \in Tree /\ h.right \in Tree
      /\ Items(h) = Items(h.left) \cup {h.item} \cup Items(h.right)
      /\ Ordered(h) => /\ Ordered(h.left) /\ Ordered(h.right)
                       /\ \A y \in Items(h.left) : y.key < h.item.key
                       /\ \A y \in Items(h.right) : h.item.key < y.key
  BY TreeParts, HeldParts
<1>2. ASSUME it.key < h.item.key, Inserted(h.left, x, it)
      PROVE  Inserted(h, [h EXCEPT !.left = x], it)
  <2>1. x \in Tree
    BY <1>2 DEF Inserted
  <2>2. Joins([h EXCEPT !.left = x], h.item, x, h.right)
    BY <2>1, ExceptJoins
  <2>3. QED
    BY <1>1, <1>2, <2>2 DEF Inserted, Joins
<1>3. ASSUME it.key > h.item.key, Inserted(h.right, x, it)
      PROVE  Inserted(h, [h EXCEPT !.right = x], it)
  <2>1. x \in Tree
    BY <1>3 DEF Inserted
  <2>2. Joins([h EXCEPT !.right = x], h.item, h.left, x)
    BY <2>1, ExceptJoins
  <2>3. h.item.key < it.key
    BY <1>1, <1>3, ItemAssumption
  <2>4. QED
    BY <1>1, <1>3, <2>2, <2>3 DEF Inserted, Joins
<1>4. QED
  BY <1>2, <1>3

LEMMA BSTInsertKeeps ==
  ASSUME Heights = Nat, NEW it \in Item
  PROVE  \A h \in Tree : Inserted(h, bst_insert_node(h, it), it)
<1> DEFINE P == {h \in Tree : Inserted(h, bst_insert_node(h, it), it)}
<1>1. NIL \in P
  <2>1. NIL \in Tree /\ bst_insert_node(NIL, it) = Leaf(it, FALSE)
    BY EmptyTree, BSTInsertIs
  <2>2. QED
    BY <2>1, LeafInserted
<1>2. ASSUME NEW h \in Nodes(Tree), h.left \in P, h.right \in P PROVE h \in P
  <2>1. h \in Tree /\ h # NIL /\ h.item \in Item
    BY TreeIs, NodeIs, NilAssumption
  <2>2. it.key \in Int /\ h.item.key \in Int
    BY <2>1, ItemAssumption
  <2>3. CASE it.key < h.item.key
    <3>1. bst_insert_node(h, it) = [h EXCEPT !.left = bst_insert_node(h.left, it)]
      BY <2>1, <2>3, BSTInsertIs
    <3>2. QED
      BY <1>2, <2>1, <2>3, <3>1, InsertedBelow
  <2>4. CASE it.key > h.item.key
    <3>1. ~(it.key < h.item.key)
      BY <2>2, <2>4
    <3>2. bst_insert_node(h, it) = [h EXCEPT !.right = bst_insert_node(h.right, it)]
      BY <2>1, <2>4, <3>1, BSTInsertIs, Zenon
    <3>3. QED
      BY <1>2, <2>1, <2>4, <3>2, InsertedBelow
  <2>5. CASE it.key = h.item.key
    <3>1. ~(it.key < h.item.key) /\ ~(it.key > h.item.key)
      BY <2>2, <2>5
    <3>2. bst_insert_node(h, it) = h
      BY <2>1, <3>1, BSTInsertIs, Zenon
    <3>3. h.item \in Items(h)
      BY <2>1, HeldParts
    <3>4. QED
      BY <2>1, <2>5, <3>2, <3>3 DEF Inserted
  <2>6. QED
    BY <2>2, <2>3, <2>4, <2>5
<1> HIDE DEF P
<1>3. Tree \subseteq P
  BY <1>1, <1>2, TreeInduction
<1>4. QED
  BY <1>3 DEF P

Removed(h, n, k) ==
  /\ n \in Tree
  /\ Ordered(h) => Ordered(n) /\ Items(n) = {y \in Items(h) : y.key # k}

LEMMA OrderedParts ==
  ASSUME Heights = Nat, NEW h \in Tree, h # NIL
  PROVE  /\ h.item \in Item /\ h.left \in Tree /\ h.right \in Tree /\ h.red \in BOOLEAN
         /\ Items(h) = Items(h.left) \cup {h.item} \cup Items(h.right)
         /\ \A y \in Items(h) : y \in Item /\ y.key \in Int
         /\ Ordered(h) => /\ Ordered(h.left) /\ Ordered(h.right)
                          /\ \A y \in Items(h.left) : y.key < h.item.key
                          /\ \A y \in Items(h.right) : h.item.key < y.key
<1>1. Items(h) \subseteq Item
  BY InorderType
<1>2. QED
  BY <1>1, TreeParts, HeldParts, ItemAssumption

LEMMA RemovedBelow ==
  ASSUME Heights = Nat, NEW k \in Int, NEW h \in Tree, h # NIL, NEW x
  PROVE  /\ k < h.item.key /\ Removed(h.left, x, k) => Removed(h, [h EXCEPT !.left = x], k)
         /\ k > h.item.key /\ Removed(h.right, x, k) => Removed(h, [h EXCEPT !.right = x], k)
<1>1. /\ h.item \in Item /\ h.left \in Tree /\ h.right \in Tree
      /\ Items(h) = Items(h.left) \cup {h.item} \cup Items(h.right)
      /\ \A y \in Items(h) : y.key \in Int
      /\ h.item.key \in Int
      /\ Ordered(h) => /\ Ordered(h.left) /\ Ordered(h.right)
                       /\ \A y \in Items(h.left) : y.key < h.item.key
                       /\ \A y \in Items(h.right) : h.item.key < y.key
  BY OrderedParts, ItemAssumption
<1>2. ASSUME k < h.item.key, Removed(h.left, x, k)
      PROVE  Removed(h, [h EXCEPT !.left = x], k)
  <2>1. x \in Tree
    BY <1>2 DEF Removed
  <2>2. Joins([h EXCEPT !.left = x], h.item, x, h.right)
    BY <2>1, ExceptJoins
  <2>3. Ordered(h) => \A y \in Items(h.right) : y.key # k
    BY <1>1, <1>2
  <2> DEFINE n == [h EXCEPT !.left = x]
  <2> HIDE DEF n
  <2>4. ASSUME Ordered(h) PROVE Ordered(n) /\ Items(n) = {y \in Items(h) : y.key # k}
    <3>1. Items(x) = {y \in Items(h.left) : y.key # k} /\ Ordered(x)
      BY <1>1, <1>2, <2>4 DEF Removed
    <3>2. Items(n) = Items(x) \cup {h.item} \cup Items(h.right) /\ Ordered(n)
      BY <1>1, <2>2, <2>4, <3>1 DEF Joins, n
    <3>3. h.item.key # k
      BY <1>1, <1>2
    <3>4. QED
      BY <1>1, <2>3, <2>4, <3>1, <3>2, <3>3
  <2>5. n \in Tree
    BY <2>2 DEF Joins, n
  <2>6. QED
    BY <2>4, <2>5 DEF Removed, n
<1>3. ASSUME k > h.item.key, Removed(h.right, x, k)
      PROVE  Removed(h, [h EXCEPT !.right = x], k)
  <2>1. x \in Tree
    BY <1>3 DEF Removed
  <2>2. Joins([h EXCEPT !.right = x], h.item, h.left, x)
    BY <2>1, ExceptJoins
  <2>3. Ordered(h) => \A y \in Items(h.left) : y.key # k
    BY <1>1, <1>3
  <2> DEFINE n == [h EXCEPT !.right = x]
  <2> HIDE DEF n
  <2>4. ASSUME Ordered(h) PROVE Ordered(n) /\ Items(n) = {y \in Items(h) : y.key # k}
    <3>1. Items(x) = {y \in Items(h.right) : y.key # k} /\ Ordered(x)
      BY <1>1, <1>3, <2>4 DEF Removed
    <3>2. Items(n) = Items(h.left) \cup {h.item} \cup Items(x) /\ Ordered(n)
      BY <1>1, <2>2, <2>4, <3>1 DEF Joins, n
    <3>3. h.item.key # k
      BY <1>1, <1>3
    <3>4. QED
      BY <1>1, <2>3, <2>4, <3>1, <3>2, <3>3
  <2>5. n \in Tree
    BY <2>2 DEF Joins, n
  <2>6. QED
    BY <2>4, <2>5 DEF Removed, n
<1>4. QED
  BY <1>2, <1>3

\* Without the key of its node a tree has the items of its two subtrees.
LEMMA RemovedHere ==
  ASSUME Heights = Nat, NEW h \in Tree, h # NIL, Ordered(h)
  PROVE  {y \in Items(h) : y.key # h.item.key} = Items(h.left) \cup Items(h.right)
<1>1. /\ Items(h) = Items(h.left) \cup {h.item} \cup Items(h.right)
      /\ \A y \in Items(h) : y.key \in Int
      /\ \A y \in Items(h.left) : y.key < h.item.key
      /\ \A y \in Items(h.right) : h.item.key < y.key
  BY OrderedParts
<1>2. h.item.key \in Int
  BY <1>1
<1>3. QED
  BY <1>1, <1>2

\* The least item of r can stand between l and what r is without it.
LEMMA SuccessorJoins ==
  ASSUME Heights = Nat, NEW l \in Tree, NEW r \in Tree, r # NIL, NEW x, NEW n,
         Removed(r, x, min_node(r).item.key), Joins(n, min_node(r).item, l, x),
         Ordered(l), Ordered(r), \A y \in Items(l), z \in Items(r) : y.key < z.key
  PROVE  Ordered(n) /\ Items(n) = Items(l) \cup Items(r)
<1> DEFINE m == min_node(r).item
<1>1. m \in Items(r) /\ \A y \in Items(r) : y = m \/ m.key < y.key
  BY MinType, MinLeast
<1>2. m.key \in Int /\ \A y \in Items(r) : y.key \in Int
  BY <1>1, OrderedParts
<1>3. Items(x) = {y \in Items(r) : y.key # m.key} /\ Ordered(x)
  BY DEF Removed
<1>4. Joins(n, m, l, x)
  OBVIOUS
<1> HIDE DEF m
<1>5. Items(r) = {m} \cup Items(x)
  BY <1>1, <1>2, <1>3
<1>6. \A y \in Items(l) : y.key < m.key
  BY <1>1
<1>7. \A y \in Items(x) : m.key < y.key
  BY <1>1, <1>2, <1>3
<1>8. QED
  BY <1>3, <1>4, <1>5, <1>6, <1>7 DEF Joins

LEMMA BSTRemoveKeeps ==
  ASSUME Heights = Nat
  PROVE  \A h \in Tree, k \in Key : Removed(h, bst_remove_node(h, k), k)
<1> DEFINE P == {h \in Tree : \A k \in Key : Removed(h, bst_remove_node(h, k), k)}
<1>1. NIL \in P
  <2>1. NIL \in Tree /\ Items(NIL) = {} /\ Ordered(NIL)
    BY EmptyTree
  <2>2. \A k \in Key : bst_remove_node(NIL, k) = NIL
    BY <2>1, BSTRemoveIs
  <2>3. QED
    BY <2>1, <2>2 DEF Removed
<1>2. ASSUME NEW h \in Nodes(Tree), h.left \in P, h.right \in P PROVE h \in P
  <2>1. h \in Tree /\ h # NIL
    BY TreeIs, NilAssumption
  <2> SUFFICES ASSUME NEW k \in Key PROVE Removed(h, bst_remove_node(h, k), k)
    BY <2>1
  <2> DEFINE n == bst_remove_node(h, k)
  <2>2. /\ h.item \in Item /\ h.left \in Tree /\ h.right \in Tree /\ h.red \in BOOLEAN
        /\ Items(h) = Items(h.left) \cup {h.item} \cup Items(h.right)
        /\ \A y \in Items(h) : y \in Item /\ y.key \in Int
        /\ Ordered(h) => /\ Ordered(h.left) /\ Ordered(h.right)
                         /\ \A y \in Items(h.left) : y.key < h.item.key
                         /\ \A y \in Items(h.right) : h.item.key < y.key
    BY <2>1, OrderedParts
  <2>3. k \in Int /\ h.item.key \in Int
    BY <2>2, ItemAssumption DEF Key
  <2>4. CASE k < h.item.key
    <3>1. n = [h EXCEPT !.left = bst_remove_node(h.left, k)]
      BY <2>1, <2>4, BSTRemoveIs, Zenon
    <3>2. QED
      BY <1>2, <2>1, <2>3, <2>4, <3>1, RemovedBelow
  <2>5. CASE k > h.item.key
    <3>1. ~(k < h.item.key)
      BY <2>3, <2>5
    <3>2. n = [h EXCEPT !.right = bst_remove_node(h.right, k)]
      BY <2>1, <2>5, <3>1, BSTRemoveIs, Zenon
    <3>3. QED
      BY <1>2, <2>1, <2>3, <2>5, <3>2, RemovedBelow
  <2>6. CASE k = h.item.key
    <3>1. ~(k < h.item.key) /\ ~(k > h.item.key)
      BY <2>3, <2>6
    <3>2. Ordered(h) => {y \in Items(h) : y.key # k} = Items(h.left) \cup Items(h.right)
      BY <2>1, <2>6, RemovedHere
    <3>3. CASE h.left = NIL
      <4>1. n = h.right
        BY <2>1, <3>1, <3>3, BSTRemoveIs, Zenon
      <4>2. Items(h.left) = {}
        BY <3>3, EmptyTree
      <4>3. QED
        BY <2>2, <3>2, <4>1, <4>2 DEF Removed
    <3>4. CASE h.left # NIL /\ h.right = NIL
      <4>1. n = h.left
        BY <2>1, <3>1, <3>4, BSTRemoveIs, Zenon
      <4>2. Items(h.right) = {}
        BY <3>4, EmptyTree
      <4>3. QED
        BY <2>2, <3>2, <4>1, <4>2 DEF Removed
    <3>5. CASE h.left # NIL /\ h.right # NIL
      <4> DEFINE m == min_node(h.right).item
                 x == bst_remove_node(h.right, m.key)
      <4>1. n = Node(m, h.left, x, h.red)
        BY <2>1, <3>1, <3>5, BSTRemoveIs, Zenon
      <4>2. m \in Item /\ m.key \in Key
        BY <2>2, <3>5, MinType, TreeParts
      <4>3. Removed(h.right, x, m.key)
        BY <1>2, <4>2
      <4>4. Joins(n, m, h.left, x)
        <5>1. x \in Tree
          BY <4>3 DEF Removed
        <5> HIDE DEF m, x
        <5>2. QED
          BY <2>2, <4>1, <4>2, <5>1, NodeJoins
      <4>5. ASSUME Ordered(h) PROVE Ordered(n) /\ Items(n) = Items(h.left) \cup Items(h.right)
        <5>1. \A y \in Items(h.left), z \in Items(h.right) : y.key < z.key
          <6>1. \A y \in Items(h.left), z \in Items(h.right) :
                  y.key \in Int /\ z.key \in Int /\ y.key < h.item.key /\ h.item.key < z.key
            BY <2>2, <4>5
          <6>2. QED
            BY <2>3, <6>1
        <5> HIDE DEF n, x
        <5>2. QED
          BY <2>2, <3>5, <4>3, <4>4, <4>5, <5>1, SuccessorJoins
      <4>6. n \in Tree
        BY <4>4 DEF Joins
      <4>7. QED
        BY <3>2, <4>5, <4>6 DEF Removed
    <3>6. QED
      BY <3>3, <3>4, <3>5
  <2>7. QED
    BY <2>3, <2>4, <2>5, <2>6
<1> HIDE DEF P
<1>3. Tree \subseteq P
  BY <1>1, <1>2, TreeInduction
<1>4. QED
  BY <1>3 DEF P

-----------------------------------------------------------------------------
(***************************************************************************)
(* Each traversal shows the items of the tree.                             *)
(***************************************************************************)
LEMMA JoinedItems ==
  ASSUME NEW a \in Seq(Item), NEW b \in Seq(Item)
  PROVE  a \o b \in Seq(Item) /\ ToSet(a \o b) = ToSet(a) \cup ToSet(b)
<1>1. Range(a \o b) = Range(a) \cup Range(b)
  BY RangeConcatenation
<1>2. QED
  BY <1>1, ConcatProperties DEF Range, ToSet

LEMMA Shown ==
  ASSUME Heights = Nat, NEW order \in Orders
  PROVE  \A h \in Tree : /\ traverse_node(h, order) \in Seq(Item)
                         /\ ToSet(traverse_node(h, order)) = Items(h)
<1> DEFINE show(h) == traverse_node(h, order)
           Shows(h) == show(h) \in Seq(Item) /\ ToSet(show(h)) = Items(h)
           P == {h \in Tree : Shows(h)}
<1>1. NIL \in P
  <2>1. NIL \in Tree /\ Items(NIL) = {}
    BY EmptyTree
  <2>2. show(NIL) = <<>>
    BY <2>1, TraverseIs
  <2>3. DOMAIN <<>> = {}
    OBVIOUS
  <2>4. QED
    BY <2>1, <2>2, <2>3 DEF ToSet
<1>2. ASSUME NEW h \in Nodes(Tree), h.left \in P, h.right \in P PROVE h \in P
  <2>1. h \in Tree /\ h # NIL /\ h.item \in Item
    BY TreeIs, NodeIs, NilAssumption
  <2> DEFINE me == <<h.item>>
             l == show(h.left)
             r == show(h.right)
  <2>2. me \in Seq(Item) /\ ToSet(me) = {h.item}
    BY <2>1 DEF ToSet
  <2>3. /\ l \in Seq(Item) /\ ToSet(l) = Items(h.left)
        /\ r \in Seq(Item) /\ ToSet(r) = Items(h.right)
    BY <1>2
  <2>4. show(h) = me \o l \o r \/ show(h) = l \o me \o r \/ show(h) = l \o r \o me
    <3>1. CASE order = "preorder"
      BY <2>1, <3>1, TraverseIs
    <3>2. CASE order = "inorder"
      BY <2>1, <3>2, TraverseIs
    <3>3. CASE order = "postorder"
      BY <2>1, <3>3, TraverseIs
    <3>4. QED
      BY <3>1, <3>2, <3>3 DEF Orders
  <2>5. Items(h) = Items(h.left) \cup {h.item} \cup Items(h.right)
    BY <2>1, HeldParts
  <2> HIDE DEF show, me, l, r
  <2>6. ASSUME NEW a \in Seq(Item), NEW b \in Seq(Item), NEW c \in Seq(Item)
        PROVE  /\ a \o b \o c \in Seq(Item)
               /\ ToSet(a \o b \o c) = ToSet(a) \cup ToSet(b) \cup ToSet(c)
    <3>1. a \o b \in Seq(Item) /\ ToSet(a \o b) = ToSet(a) \cup ToSet(b)
      BY JoinedItems
    <3> DEFINE d == a \o b
    <3> HIDE DEF d
    <3>2. d \in Seq(Item) /\ ToSet(d) = ToSet(a) \cup ToSet(b)
      BY <3>1 DEF d
    <3>3. d \o c \in Seq(Item) /\ ToSet(d \o c) = ToSet(d) \cup ToSet(c)
      BY <3>2, JoinedItems
    <3>4. QED
      BY <3>2, <3>3 DEF d
  <2>7. CASE show(h) = me \o l \o r
    <3>1. /\ show(h) \in Seq(Item)
          /\ ToSet(show(h)) = {h.item} \cup Items(h.left) \cup Items(h.right)
      BY <2>2, <2>3, <2>6, <2>7
    <3>2. QED
      BY <2>1, <2>5, <3>1
  <2>8. CASE show(h) = l \o me \o r
    <3>1. /\ show(h) \in Seq(Item)
          /\ ToSet(show(h)) = Items(h.left) \cup {h.item} \cup Items(h.right)
      BY <2>2, <2>3, <2>6, <2>8
    <3>2. QED
      BY <2>1, <2>5, <3>1
  <2>9. CASE show(h) = l \o r \o me
    <3>1. /\ show(h) \in Seq(Item)
          /\ ToSet(show(h)) = Items(h.left) \cup Items(h.right) \cup {h.item}
      BY <2>2, <2>3, <2>6, <2>9
    <3>2. QED
      BY <2>1, <2>5, <3>1
  <2>10. QED
    BY <2>4, <2>7, <2>8, <2>9
<1> HIDE DEF P
<1>3. Tree \subseteq P
  BY <1>1, <1>2, TreeInduction
<1>4. QED
  BY <1>3 DEF P

-----------------------------------------------------------------------------
(***************************************************************************)
(* The invariant of both trees, and the calls they share.                  *)
(***************************************************************************)
TreeInv ==
  /\ alive \in BOOLEAN
  /\ ~alive => root = NIL
  /\ root \in Tree
  /\ Ordered(root)
  /\ ToSet(seen) \subseteq Item
  /\ res.out \subseteq Item

LEMMA HeldIs == Held = Items(root) /\ Held' = Items(root')
BY DEF Held, Sorted, Items, Inorder

LEMMA NothingShown == ToSet(<<>>) = {}
<1>1. DOMAIN <<>> = {}
  OBVIOUS
<1>2. QED
  BY <1>1 DEF ToSet

LEMMA InvImplies ==
  ASSUME Heights = Nat, TreeInv
  PROVE  TypeOK /\ SearchTree
<1>1. Items(root) \subseteq Item
  BY InorderType DEF TreeInv
<1>2. QED
  BY <1>1, HeldIs DEF TreeInv, TypeOK, SearchTree, Ordered, Inorder, Sorted

LEMMA InitKeeps ==
  ASSUME Heights = Nat, Init
  PROVE  TreeInv /\ Dict!Init
<1>1. NIL \in Tree /\ Items(NIL) = {} /\ Ordered(NIL)
  BY EmptyTree
<1>2. TreeInv
  BY <1>1, NothingShown DEF Init, TreeInv, Pending, Answer
<1>3. Dict!Init
  BY <1>1, HeldIs DEF Init, Dict!Init, Pending, Answer, Dict!Pending, Dict!Answer
<1>4. QED
  BY <1>2, <1>3

LEMMA FoundIs ==
  ASSUME Heights = Nat, root \in Tree, Ordered(root), NEW k \in Int
  PROVE  search_node(root, k) = Dict!With(k) /\ Dict!With(k) \subseteq Item
<1>1. Items(root) \subseteq Item
  BY InorderType
<1>2. search_node(root, k) = {y \in Items(root) : y.key = k}
  BY SearchFinds
<1>3. QED
  BY <1>1, <1>2, HeldIs DEF Dict!With

LEMMA CommonKeeps ==
  ASSUME Heights = Nat, TreeInv, Common
  PROVE  TreeInv' /\ Dict!Next
<1>1. NIL \in Tree /\ Items(NIL) = {} /\ Ordered(NIL)
  BY EmptyTree
<1>2. Items(root) \subseteq Item
  BY InorderType DEF TreeInv
<1>3. CASE Create
  <2>1. TreeInv'
    BY <1>1, <1>3, NothingShown DEF Create, TreeInv, Pending, Answer
  <2>2. Dict!Create
    BY <1>1, <1>3, HeldIs DEF Create, Dict!Create, Pending, Answer, Dict!Pending, Dict!Answer
  <2>3. QED
    BY <2>1, <2>2 DEF Dict!Next
<1>4. CASE Destroy
  <2>1. ToSet(seen') = Items(root)
    BY <1>4, Shown DEF Destroy, node_destroy, TreeInv, Orders
  <2>2. TreeInv'
    BY <1>1, <1>2, <1>4, <2>1 DEF Destroy, TreeInv, Answer
  <2>3. Dict!Destroy
    BY <1>1, <1>4, <2>1, HeldIs DEF Destroy, Dict!Destroy, Answer, Dict!Answer
  <2>4. QED
    BY <2>2, <2>3 DEF Dict!Next
<1>5. CASE Refuse
  <2>1. TreeInv'
    BY <1>5, NothingShown DEF Refuse, TreeInv, Refusal, Answer
  <2>2. Dict!Refuse
    BY <1>5, HeldIs DEF Refuse, Dict!Refuse, Refusal, Answer, Dict!Refusal, Dict!Answer
  <2>3. QED
    BY <2>1, <2>2 DEF Dict!Next
<1>6. ASSUME NEW k \in Key, Search(k) PROVE TreeInv' /\ Dict!Next
  <2>1. k \in Int /\ k \in Dict!Key
    BY ItemAssumption DEF Key, Dict!Key
  <2>2. search_node(root, k) = Dict!With(k) /\ Dict!With(k) \subseteq Item
    BY <2>1, FoundIs DEF TreeInv
  <2>3. TreeInv'
    BY <1>6, <2>2, NothingShown DEF Search, TreeInv, Answer
  <2>4. Dict!Get(k)
    BY <1>6, <2>2, HeldIs DEF Search, Dict!Get, Answer, Dict!Answer
  <2>5. QED
    BY <2>1, <2>3, <2>4 DEF Dict!Next
<1>7. ASSUME NEW order \in Orders, Traverse(order) PROVE TreeInv' /\ Dict!Next
  <2>1. ToSet(seen') = Items(root)
    BY <1>7, Shown DEF Traverse, TreeInv
  <2>2. TreeInv'
    BY <1>2, <1>7, <2>1 DEF Traverse, TreeInv, Answer
  <2>3. Dict!Traverse(order)
    BY <1>7, <2>1, HeldIs DEF Traverse, Dict!Traverse, Answer, Dict!Answer
  <2>4. QED
    BY <2>2, <2>3 DEF Dict!Next, Orders
<1>8. QED
  BY <1>3, <1>4, <1>5, <1>6, <1>7 DEF Common

LEMMA StutterKeeps ==
  ASSUME TreeInv, UNCHANGED vars
  PROVE  TreeInv' /\ UNCHANGED Dict!vars
BY HeldIs DEF vars, TreeInv, Dict!vars

-----------------------------------------------------------------------------
(***************************************************************************)
(* bst.c.                                                                  *)
(***************************************************************************)
LEMMA BSTStep ==
  ASSUME Heights = Nat, TreeInv, BSTNext
  PROVE  TreeInv' /\ Dict!Next
<1>1. CASE Common
  BY <1>1, CommonKeeps
<1>2. ASSUME NEW it \in Item, BSTInsert(it) PROVE TreeInv' /\ Dict!Next
  <2>1. it.key \in Int
    BY ItemAssumption
  <2>2. search_node(root, it.key) = Dict!With(it.key)
    BY <2>1, FoundIs DEF TreeInv
  <2>3. CASE Dict!With(it.key) # {}
    <3>1. TreeInv'
      BY <1>2, <2>2, <2>3, NothingShown DEF BSTInsert, TreeInv, Answer
    <3>2. Dict!PutExisting(it)
      BY <1>2, <2>2, <2>3, HeldIs DEF BSTInsert, Dict!PutExisting, Answer, Dict!Answer
    <3>3. QED
      BY <3>1, <3>2 DEF Dict!Next
  <2>4. CASE Dict!With(it.key) = {} /\ UNCHANGED root
    <3>1. res' = Answer("put", it, -1, {})
      <4>1. bst_insert_node(root, it) # root
        <5>1. it \in Items(bst_insert_node(root, it)) /\ it \notin Items(root)
          BY <2>4, BSTInsertKeeps, HeldIs DEF Inserted, TreeInv, Dict!With
        <5>2. QED
          BY <5>1
      <4>2. QED
        BY <1>2, <2>2, <2>4, <4>1 DEF BSTInsert
    <3>2. TreeInv'
      BY <1>2, <2>4, <3>1, NothingShown DEF BSTInsert, TreeInv, Answer
    <3>3. Dict!PutFailed(it)
      BY <1>2, <2>4, <3>1, HeldIs DEF BSTInsert, Dict!PutFailed, Answer, Dict!Answer
    <3>4. QED
      BY <3>2, <3>3 DEF Dict!Next
  <2>5. CASE Dict!With(it.key) = {} /\ ~UNCHANGED root
    <3>1. res' = Answer("put", it, 0, {}) /\ root' = bst_insert_node(root, it)
      BY <1>2, <2>2, <2>5 DEF BSTInsert
    <3>2. root' \in Tree /\ Ordered(root') /\ Items(root') = Items(root) \cup {it}
      BY <2>5, <3>1, BSTInsertKeeps, HeldIs DEF Inserted, TreeInv, Dict!With
    <3>3. TreeInv'
      BY <1>2, <3>1, <3>2, NothingShown DEF BSTInsert, TreeInv, Answer
    <3>4. Dict!Put(it)
      BY <1>2, <2>5, <3>1, <3>2, HeldIs DEF BSTInsert, Dict!Put, Answer, Dict!Answer
    <3>5. QED
      BY <3>3, <3>4 DEF Dict!Next
  <2>6. QED
    BY <2>3, <2>4, <2>5
<1>3. ASSUME NEW k \in Key, BSTDelete(k) PROVE TreeInv' /\ Dict!Next
  <2>1. k \in Int /\ k \in Dict!Key
    BY ItemAssumption DEF Key, Dict!Key
  <2>2. search_node(root, k) = Dict!With(k) /\ Dict!With(k) \subseteq Item
    BY <2>1, FoundIs DEF TreeInv
  <2>3. root' \in Tree /\ Ordered(root') /\ Items(root') = {y \in Items(root) : y.key # k}
    BY <1>3, BSTRemoveKeeps DEF BSTDelete, Removed, TreeInv
  <2>4. TreeInv'
    BY <1>3, <2>2, <2>3, NothingShown DEF BSTDelete, TreeInv, Answer
  <2>5. Items(root') = Items(root) \ Dict!With(k)
    BY <2>3, HeldIs DEF Dict!With
  <2>6. Dict!Delete(k)
    BY <1>3, <2>2, <2>5, HeldIs DEF BSTDelete, Dict!Delete, Answer, Dict!Answer
  <2>7. QED
    BY <2>1, <2>4, <2>6 DEF Dict!Next
<1>4. QED
  BY <1>1, <1>2, <1>3 DEF BSTNext

LEMMA BSTInvariant ==
  ASSUME Heights = Nat
  PROVE  BSTSpec => []TreeInv
<1>1. Init => TreeInv
  BY InitKeeps
<1>2. TreeInv /\ [BSTNext]_vars => TreeInv'
  BY BSTStep, StutterKeeps
<1>3. QED
  BY <1>1, <1>2, PTL DEF BSTSpec

(***************************************************************************)
(* bst.c, whatever is inserted and removed: no node outlives its tree, and *)
(* visitors and callers are handed items.                                  *)
(***************************************************************************)
THEOREM BSTTypes ==
  ASSUME Heights = Nat
  PROVE  BSTSpec => []TypeOK
<1>1. TreeInv => TypeOK
  BY InvImplies
<1>2. QED
  BY <1>1, BSTInvariant, PTL

(***************************************************************************)
(* bst.c's tree, of any height, stays a search tree without a key twice.   *)
(***************************************************************************)
THEOREM BSTSearchTree ==
  ASSUME Heights = Nat
  PROVE  BSTSpec => []SearchTree
<1>1. TreeInv => SearchTree
  BY InvImplies
<1>2. QED
  BY <1>1, BSTInvariant, PTL

(***************************************************************************)
(* bst.c implements the dictionary.                                        *)
(***************************************************************************)
THEOREM BSTImplements ==
  ASSUME Heights = Nat
  PROVE  BSTSpec => Implements
<1>1. Init => Dict!Init
  BY InitKeeps
<1>2. TreeInv /\ [BSTNext]_vars => [Dict!Next]_Dict!vars
  BY BSTStep, StutterKeeps
<1>3. QED
  BY <1>1, <1>2, BSTInvariant, PTL DEF BSTSpec, Implements, Dict!Spec

-----------------------------------------------------------------------------
(***************************************************************************)
(* rbtree.c: rotations and recolourings keep the items from left to right. *)
(***************************************************************************)
Same(h, n) == n \in Tree \ {NIL} /\ Inorder(n) = Inorder(h)

LEMMA SameAgain ==
  ASSUME NEW h, NEW n, NEW o, Same(h, n), Same(n, o)
  PROVE  Same(h, o)
BY DEF Same

LEMMA SameItself ==
  ASSUME NEW h \in Tree, h # NIL
  PROVE  Same(h, h)
BY DEF Same

LEMMA SameItems ==
  ASSUME NEW h, NEW n, Same(h, n)
  PROVE  Items(n) = Items(h) /\ (Ordered(n) <=> Ordered(h))
BY DEF Same, Items, Ordered

Reassociates(a, x, b, y, c) ==
  (a \o <<x>> \o b) \o <<y>> \o c = a \o <<x>> \o (b \o <<y>> \o c)

LEMMA Reassociated ==
  ASSUME NEW a \in Seq(Item), NEW x \in Item, NEW b \in Seq(Item), NEW y \in Item,
         NEW c \in Seq(Item)
  PROVE  Reassociates(a, x, b, y, c)
<1>1. <<x>> \in Seq(Item) /\ <<y>> \in Seq(Item)
  OBVIOUS
<1> DEFINE u == <<x>>
           v == <<y>>
           au == a \o u
           aub == au \o b
           vc == v \o c
<1>2. u \in Seq(Item) /\ v \in Seq(Item)
  BY <1>1
<1> HIDE DEF u, v
<1>3. au \in Seq(Item) /\ vc \in Seq(Item)
  BY <1>2, ConcatProperties
<1> HIDE DEF au
<1>4. aub \in Seq(Item)
  BY <1>3, ConcatProperties
<1> HIDE DEF aub
<1>5. (aub \o v) \o c = aub \o (v \o c)
  BY <1>2, <1>4
<1> HIDE DEF vc
<1>6. (au \o b) \o vc = au \o (b \o vc)
  BY <1>3
<1>7. (b \o v) \o c = b \o (v \o c)
  BY <1>2
<1>8. (aub \o v) \o c = au \o ((b \o v) \o c)
  BY <1>5, <1>6, <1>7, Zenon DEF aub, vc
<1>9. QED
  BY <1>8, Zenon DEF Reassociates, aub, au, u, v

LEMMA TreeJoins ==
  ASSUME Heights = Nat, NEW h \in Tree, h # NIL
  PROVE  Joins(h, h.item, h.left, h.right)
BY HeldParts DEF Joins

\* Both rotations: the item x over its right child y, and y over x.
LEMMA Rotated ==
  ASSUME Heights = Nat, NEW x \in Item, NEW y \in Item,
         NEW a \in Tree, NEW b \in Tree, NEW c \in Tree, NEW l, NEW r, NEW n, NEW o,
         Joins(l, x, a, b), Joins(n, y, l, c),
         Joins(r, y, b, c), Joins(o, x, a, r)
  PROVE  Same(o, n) /\ Same(n, o)
<1>1. Inorder(a) \in Seq(Item) /\ Inorder(b) \in Seq(Item) /\ Inorder(c) \in Seq(Item)
  BY InorderType
<1>2. Reassociates(Inorder(a), x, Inorder(b), y, Inorder(c))
  BY <1>1, Reassociated
<1>3. Inorder(n) = Inorder(o)
  BY <1>2 DEF Joins, Reassociates
<1>4. QED
  BY <1>3 DEF Joins, Same

LEMMA RotateLeftSame ==
  ASSUME Heights = Nat, NEW h \in Tree, h # NIL, h.right # NIL
  PROVE  Same(h, rotate_left(h))
<1> DEFINE r == h.right
           l == Node(h.item, h.left, r.left, TRUE)
           n == Node(r.item, l, r.right, h.red)
<1>1. h.item \in Item /\ h.left \in Tree /\ r \in Tree /\ h.red \in BOOLEAN
  BY TreeParts
<1>2. r.item \in Item /\ r.left \in Tree /\ r.right \in Tree
  BY <1>1, TreeParts
<1>3. Joins(h, h.item, h.left, r) /\ Joins(r, r.item, r.left, r.right)
  BY <1>1, TreeJoins
<1>4. Joins(l, h.item, h.left, r.left)
  BY <1>1, <1>2, NodeJoins
<1>5. Joins(n, r.item, l, r.right)
  <2>1. l \in Tree
    BY <1>4 DEF Joins
  <2> HIDE DEF l
  <2>2. QED
    BY <1>1, <1>2, <2>1, NodeJoins
<1> HIDE DEF l, n, r
<1>6. Same(h, n)
  BY <1>1, <1>2, <1>3, <1>4, <1>5, Rotated
<1>7. QED
  BY <1>6 DEF rotate_left, n, l, r

LEMMA RotateRightSame ==
  ASSUME Heights = Nat, NEW h \in Tree, h # NIL, h.left # NIL
  PROVE  Same(h, rotate_right(h))
<1> DEFINE l == h.left
           r == Node(h.item, l.right, h.right, TRUE)
           n == Node(l.item, l.left, r, h.red)
<1>1. h.item \in Item /\ l \in Tree /\ h.right \in Tree /\ h.red \in BOOLEAN
  BY TreeParts
<1>2. l.item \in Item /\ l.left \in Tree /\ l.right \in Tree
  BY <1>1, TreeParts
<1>3. Joins(h, h.item, l, h.right) /\ Joins(l, l.item, l.left, l.right)
  BY <1>1, TreeJoins
<1>4. Joins(r, h.item, l.right, h.right)
  BY <1>1, <1>2, NodeJoins
<1>5. Joins(n, l.item, l.left, r)
  <2>1. r \in Tree
    BY <1>4 DEF Joins
  <2> HIDE DEF r
  <2>2. QED
    BY <1>1, <1>2, <2>1, NodeJoins
<1> HIDE DEF l, n, r
<1>6. Same(h, n)
  BY <1>1, <1>2, <1>3, <1>4, <1>5, Rotated
<1>7. QED
  BY <1>6 DEF rotate_right, n, l, r

LEMMA ToggledIs ==
  ASSUME Heights = Nat, NEW h \in Tree
  PROVE  /\ Toggled(h) \in Tree /\ Inorder(Toggled(h)) = Inorder(h)
         /\ (Toggled(h) = NIL) <=> (h = NIL)
         /\ h # NIL => /\ Toggled(h) = Node(h.item, h.left, h.right, ~h.red)
                       /\ Toggled(h).item = h.item /\ Toggled(h).left = h.left
                       /\ Toggled(h).right = h.right /\ Toggled(h).red = ~h.red
<1>1. CASE h = NIL
  BY <1>1 DEF Toggled
<1>2. CASE h # NIL
  <2>1. /\ h.item \in Item /\ h.left \in Tree /\ h.right \in Tree /\ h.red \in BOOLEAN
        /\ h \in Nodes(Tree)
        /\ h = Node(h.item, h.left, h.right, h.red)
    BY <1>2, TreeParts
  <2>2. Toggled(h) = Node(h.item, h.left, h.right, ~h.red)
    BY <1>2, <2>1, NodeExcept DEF Toggled
  <2>3. (~h.red) \in BOOLEAN
    BY <2>1
  <2>4. Joins(Node(h.item, h.left, h.right, ~h.red), h.item, h.left, h.right)
    BY <2>1, <2>3, NodeJoins
  <2>5. Inorder(h) = Inorder(h.left) \o <<h.item>> \o Inorder(h.right)
    BY <1>2, HeldParts
  <2>6. QED
    BY <1>2, <2>2, <2>4, <2>5, NodeFields DEF Joins
<1>3. QED
  BY <1>1, <1>2

LEMMA FlipSame ==
  ASSUME Heights = Nat, NEW h \in Tree, h # NIL
  PROVE  Same(h, flip_colors(h))
<1>1. /\ h.item \in Item /\ h.left \in Tree /\ h.right \in Tree /\ h.red \in BOOLEAN
      /\ Inorder(h) = Inorder(h.left) \o <<h.item>> \o Inorder(h.right)
  BY TreeParts, HeldParts
<1>2. /\ Toggled(h.left) \in Tree /\ Inorder(Toggled(h.left)) = Inorder(h.left)
      /\ Toggled(h.right) \in Tree /\ Inorder(Toggled(h.right)) = Inorder(h.right)
  BY <1>1, ToggledIs
<1>3. (~h.red) \in BOOLEAN
  BY <1>1
<1>4. Joins(flip_colors(h), h.item, Toggled(h.left), Toggled(h.right))
  BY <1>1, <1>2, <1>3, NodeJoins DEF flip_colors
<1>5. QED
  BY <1>1, <1>2, <1>4 DEF Same, Joins

-----------------------------------------------------------------------------
(***************************************************************************)
(* The colours: what Leaning and BlackHeights say of a node.               *)
(***************************************************************************)
LEMMA LeaningIs ==
  ASSUME Heights = Nat
  PROVE  \A h \in Tree : Leaning(h) =
           (h # NIL =>
             /\ ~is_red(h.right)
             /\ is_red(h) => ~is_red(h.left)
             /\ Leaning(h.left) /\ Leaning(h.right))
<1> DEFINE Step(h, f) ==
             (h # NIL =>
               /\ ~is_red(h.right)
               /\ is_red(h) => ~is_red(h.left)
               /\ f[h.left] /\ f[h.right])
           V == BOOLEAN
           step == [x \in Tree \X [Tree -> V] |-> Step(x[1], x[2])]
           Is(f) == f = [h \in Tree |-> Step(h, f)]
<1>1. \A h \in Tree, f \in [Tree -> V] : Step(h, f) \in V
  BY TreeParts
<1>2. \A h \in Tree : \A f, g \in [Tree -> V] :
        (h # NIL => f[h.left] = g[h.left] /\ f[h.right] = g[h.right]) => Step(h, f) = Step(h, g)
  BY TreeParts
<1>3. \A h \in Tree : Leaning(h) = (CHOOSE f : Is(f))[h]
  BY DEF Leaning
<1>4. TRUE \in V
  BY TreeIs
<1> HIDE DEF Step
<1>5. PICK f \in [Tree -> V] : \A h \in Tree : f[h] = step[<<h, f>>]
  <2>1. step \in [(Tree \X [Tree -> V]) -> V]
    BY <1>1
  <2>2. \A h \in Tree : \A f \in [Tree -> V] : step[<<h, f>>] = Step(h, f)
    OBVIOUS
  <2> HIDE DEF step, V
  <2>3. LooksDown(V, step)
    BY <1>2, <2>2 DEF LooksDown
  <2>4. Solvable(Tree, V, step)
    BY <1>4, <2>1, <2>3, TreeRecursion
  <2>5. QED
    BY <2>4 DEF Solvable
<1>6. Is(f)
  BY <1>5
<1> HIDE DEF Is
<1>7. Is(CHOOSE g : Is(g))
  BY <1>6
<1>8. \A h \in Tree : Leaning(h) = Step(h, CHOOSE g : Is(g))
  BY <1>3, <1>7 DEF Is
<1>9. QED
  BY <1>3, <1>8, TreeParts DEF Step

LEMMA BlackHeightsIs ==
  ASSUME Heights = Nat
  PROVE  \A h \in Tree : BlackHeights(h) =
           IF h = NIL THEN {0}
           ELSE {d + (IF h.red THEN 0 ELSE 1) : d \in BlackHeights(h.left) \cup BlackHeights(h.right)}
<1> DEFINE Step(h, f) ==
             IF h = NIL THEN {0}
             ELSE {d + (IF h.red THEN 0 ELSE 1) : d \in f[h.left] \cup f[h.right]}
           V == SUBSET Nat
           step == [x \in Tree \X [Tree -> V] |-> Step(x[1], x[2])]
           Is(f) == f = [h \in Tree |-> Step(h, f)]
<1>1. \A h \in Tree, f \in [Tree -> V] : Step(h, f) \in V
  BY TreeParts
<1>2. \A h \in Tree : \A f, g \in [Tree -> V] :
        (h # NIL => f[h.left] = g[h.left] /\ f[h.right] = g[h.right]) => Step(h, f) = Step(h, g)
  BY TreeParts
<1>3. \A h \in Tree : BlackHeights(h) = (CHOOSE f : Is(f))[h]
  BY DEF BlackHeights
<1>4. {} \in V
  BY TreeIs
<1> HIDE DEF Step
<1>5. PICK f \in [Tree -> V] : \A h \in Tree : f[h] = step[<<h, f>>]
  <2>1. step \in [(Tree \X [Tree -> V]) -> V]
    BY <1>1
  <2>2. \A h \in Tree : \A f \in [Tree -> V] : step[<<h, f>>] = Step(h, f)
    OBVIOUS
  <2> HIDE DEF step, V
  <2>3. LooksDown(V, step)
    BY <1>2, <2>2 DEF LooksDown
  <2>4. Solvable(Tree, V, step)
    BY <1>4, <2>1, <2>3, TreeRecursion
  <2>5. QED
    BY <2>4 DEF Solvable
<1>6. Is(f)
  BY <1>5
<1> HIDE DEF Is
<1>7. Is(CHOOSE g : Is(g))
  BY <1>6
<1>8. \A h \in Tree : BlackHeights(h) = Step(h, CHOOSE g : Is(g))
  BY <1>3, <1>7 DEF Is
<1>9. QED
  BY <1>3, <1>8, TreeParts DEF Step

LEMMA HeightsExist ==
  ASSUME Heights = Nat
  PROVE  \A h \in Tree : BlackHeights(h) \in SUBSET Nat /\ BlackHeights(h) # {}
<1> DEFINE P == {h \in Tree : BlackHeights(h) \in SUBSET Nat /\ BlackHeights(h) # {}}
<1>1. NIL \in P
  <2>1. NIL \in Tree
    BY TreeIs
  <2>2. BlackHeights(NIL) = {0}
    BY <2>1, BlackHeightsIs
  <2>3. QED
    BY <2>1, <2>2
<1>2. ASSUME NEW h \in Nodes(Tree), h.left \in P, h.right \in P PROVE h \in P
  <2>1. h \in Tree /\ h # NIL
    BY TreeIs, NilAssumption
  <2> DEFINE below == BlackHeights(h.left) \cup BlackHeights(h.right)
             c == IF h.red THEN 0 ELSE 1
  <2>2. BlackHeights(h) = {d + c : d \in below}
    BY <2>1, BlackHeightsIs
  <2>3. below \in SUBSET Nat /\ below # {} /\ c \in Nat
    BY <1>2
  <2> HIDE DEF below, c
  <2>4. BlackHeights(h) \in SUBSET Nat
    BY <2>2, <2>3
  <2>5. PICK d \in below : d + c \in BlackHeights(h)
    BY <2>2, <2>3
  <2>6. QED
    BY <2>1, <2>4, <2>5
<1> HIDE DEF P
<1>3. Tree \subseteq P
  BY <1>1, <1>2, TreeInduction
<1>4. QED
  BY <1>3 DEF P

(***************************************************************************)
(* A good tree: red links lean left and never follow each other, and every *)
(* path down passes n black nodes.  Black trees have a black root or none. *)
(***************************************************************************)
Good(h, n) == Leaning(h) /\ BlackHeights(h) = {n}

Black(h, n) == Good(h, n) /\ ~is_red(h)

LEMMA GoodNil ==
  ASSUME Heights = Nat
  PROVE  Black(NIL, 0) /\ \A n \in Nat : Good(NIL, n) => n = 0
<1>1. NIL \in Tree
  BY TreeIs
<1>2. Leaning(NIL) /\ BlackHeights(NIL) = {0}
  BY <1>1, LeaningIs, BlackHeightsIs
<1>3. QED
  BY <1>2 DEF Good, Black, is_red

LEMMA GoodIs ==
  ASSUME Heights = Nat, NEW h \in Tree, h # NIL, NEW n \in Nat
  PROVE  /\ h.red => (Good(h, n) <=> Black(h.left, n) /\ Black(h.right, n))
         /\ ~h.red => (Good(h, n) <=> /\ n - 1 \in Nat
                                      /\ Good(h.left, n - 1) /\ Black(h.right, n - 1))
<1>1. h.left \in Tree /\ h.right \in Tree /\ h.red \in BOOLEAN
  BY TreeParts
<1> DEFINE L == BlackHeights(h.left)
           R == BlackHeights(h.right)
<1>2. L \in SUBSET Nat /\ L # {} /\ R \in SUBSET Nat /\ R # {}
  BY <1>1, HeightsExist
<1>3. Leaning(h) <=> /\ ~is_red(h.right)
                     /\ is_red(h) => ~is_red(h.left)
                     /\ Leaning(h.left) /\ Leaning(h.right)
  BY LeaningIs
<1>4. CASE h.red
  <2>1. BlackHeights(h) = {d + 0 : d \in L \cup R}
    BY <1>4, BlackHeightsIs
  <2> HIDE DEF L, R
  <2>2. BlackHeights(h) = L \cup R
    <3>1. \A d \in L \cup R : d + 0 = d
      BY <1>2
    <3>2. QED
      BY <2>1, <3>1
  <2>3. BlackHeights(h) = {n} <=> L = {n} /\ R = {n}
    BY <1>2, <2>2
  <2>4. is_red(h)
    BY <1>4 DEF is_red
  <2>5. QED
    BY <1>3, <1>4, <2>3, <2>4 DEF Good, Black, L, R
<1>5. CASE ~h.red
  <2>1. BlackHeights(h) = {d + 1 : d \in L \cup R}
    BY <1>5, BlackHeightsIs
  <2> HIDE DEF L, R
  <2>2. ASSUME BlackHeights(h) = {n} PROVE n - 1 \in Nat /\ L = {n - 1} /\ R = {n - 1}
    <3>1. \A d \in L \cup R : d + 1 = n /\ d \in Nat
      BY <1>2, <2>1, <2>2
    <3>2. \A d \in L \cup R : d = n - 1
      BY <3>1
    <3>3. PICK d \in L : TRUE
      BY <1>2
    <3>4. n - 1 \in Nat
      BY <3>1, <3>2, <3>3
    <3>5. QED
      BY <1>2, <3>2, <3>4
  <2>3. ASSUME n - 1 \in Nat, L = {n - 1}, R = {n - 1} PROVE BlackHeights(h) = {n}
    BY <2>1, <2>3
  <2>4. ~is_red(h)
    BY <1>5 DEF is_red
  <2>5. QED
    BY <1>3, <1>5, <2>2, <2>3, <2>4 DEF Good, Black, L, R
<1>6. QED
  BY <1>1, <1>4, <1>5

LEMMA GoodNode ==
  ASSUME Heights = Nat, NEW it \in Item, NEW l \in Tree, NEW r \in Tree, NEW n \in Nat
  PROVE  /\ Black(l, n) /\ Black(r, n) =>
              Good(Node(it, l, r, TRUE), n) /\ is_red(Node(it, l, r, TRUE))
         /\ Good(l, n) /\ Black(r, n) => Black(Node(it, l, r, FALSE), n + 1)
<1>1. ASSUME NEW c \in BOOLEAN, NEW h, h = Node(it, l, r, c)
      PROVE  /\ h \in Tree /\ h # NIL /\ h.left = l /\ h.right = r /\ h.red = c
             /\ is_red(h) <=> c
  <2>1. h \in Tree \ {NIL}
    BY <1>1, NodeType
  <2>2. h.left = l /\ h.right = r /\ h.red = c
    BY <1>1, NodeFields
  <2>3. QED
    BY <2>1, <2>2 DEF is_red
<1>2. ASSUME Black(l, n), Black(r, n)
      PROVE  Good(Node(it, l, r, TRUE), n) /\ is_red(Node(it, l, r, TRUE))
  <2> DEFINE h == Node(it, l, r, TRUE)
  <2>1. h \in Tree /\ h # NIL /\ h.left = l /\ h.right = r /\ h.red = TRUE /\ is_red(h)
    BY <1>1
  <2> HIDE DEF h
  <2>2. Good(h, n)
    BY <1>2, <2>1, GoodIs
  <2>3. QED
    BY <2>1, <2>2 DEF h
<1>3. ASSUME Good(l, n), Black(r, n) PROVE Black(Node(it, l, r, FALSE), n + 1)
  <2> DEFINE h == Node(it, l, r, FALSE)
  <2>1. h \in Tree /\ h # NIL /\ h.left = l /\ h.right = r /\ h.red = FALSE /\ ~is_red(h)
    BY <1>1
  <2> HIDE DEF h
  <2>2. n + 1 \in Nat /\ (n + 1) - 1 = n
    OBVIOUS
  <2>3. Good(h, n + 1)
    BY <1>3, <2>1, <2>2, GoodIs
  <2>4. QED
    BY <2>1, <2>3 DEF h, Black
<1>4. QED
  BY <1>2, <1>3

-----------------------------------------------------------------------------
(***************************************************************************)
(* fix_up keeps the items, and repairs what an insertion or a removal in   *)
(* one of the two subtrees has left: the four ways it can go.              *)
(***************************************************************************)
LEMMA FixUpSame ==
  ASSUME Heights = Nat, NEW h \in Tree, h # NIL
  PROVE  Same(h, fix_up(h))
<1> DEFINE a == IF is_red(h.right) /\ ~is_red(h.left) THEN rotate_left(h) ELSE h
           b == IF is_red(a.left) /\ is_red(a.left.left) THEN rotate_right(a) ELSE a
           c == IF is_red(b.left) /\ is_red(b.right) THEN flip_colors(b) ELSE b
<1>1. Same(h, a)
  <2>1. is_red(h.right) => h.right # NIL
    BY DEF is_red
  <2>2. QED
    BY <2>1, RotateLeftSame, SameItself
<1> HIDE DEF a
<1>2. Same(a, b)
  <2>1. a \in Tree /\ a # NIL
    BY <1>1 DEF Same
  <2>2. is_red(a.left) => a.left # NIL
    BY DEF is_red
  <2>3. QED
    BY <2>1, <2>2, RotateRightSame, SameItself
<1> HIDE DEF b
<1>3. Same(b, c)
  <2>1. b \in Tree /\ b # NIL
    BY <1>2 DEF Same
  <2>2. QED
    BY <2>1, FlipSame, SameItself
<1>4. fix_up(h) = c
  BY DEF fix_up, a, b
<1> HIDE DEF c
<1>5. QED
  BY <1>1, <1>2, <1>3, <1>4, SameAgain

LEMMA FixNothing ==
  ASSUME NEW it, NEW l, NEW r, NEW c, ~is_red(r), is_red(l) => ~is_red(l.left)
  PROVE  fix_up(Node(it, l, r, c)) = Node(it, l, r, c)
<1> DEFINE h == Node(it, l, r, c)
<1>1. h.left = l /\ h.right = r
  BY NodeFields
<1> HIDE DEF h
<1>2. fix_up(h) = h
  BY <1>1 DEF fix_up
<1>3. QED
  BY <1>2 DEF h

LeanedLeft(it, l, r, c) == Node(r.item, Node(it, l, r.left, TRUE), r.right, c)

LEMMA FixLean ==
  ASSUME NEW it, NEW l, NEW r, NEW c, is_red(r), ~is_red(l), ~is_red(r.right)
  PROVE  fix_up(Node(it, l, r, c)) = LeanedLeft(it, l, r, c)
<1> DEFINE h == Node(it, l, r, c)
           n == Node(it, l, r.left, TRUE)
           a == Node(r.item, n, r.right, c)
<1>1. h.item = it /\ h.left = l /\ h.right = r /\ h.red = c
  BY NodeFields
<1>2. n.left = l
  BY DEF Node
<1>3. a.left = n /\ a.right = r.right
  BY DEF Node
<1>4. rotate_left(h) = a
  BY <1>1 DEF rotate_left
<1> HIDE DEF h, n, a
<1>5. fix_up(h) = a
  BY <1>1, <1>2, <1>3, <1>4 DEF fix_up
<1>6. QED
  BY <1>5 DEF LeanedLeft, h, n, a

LEMMA FixFlip ==
  ASSUME NEW it, NEW l, NEW r, NEW c, is_red(r), is_red(l), ~is_red(l.left)
  PROVE  fix_up(Node(it, l, r, c)) = Node(it, Toggled(l), Toggled(r), ~c)
<1> DEFINE h == Node(it, l, r, c)
<1>1. h.item = it /\ h.left = l /\ h.right = r /\ h.red = c
  BY NodeFields
<1>2. flip_colors(h) = Node(it, Toggled(l), Toggled(r), ~c)
  BY <1>1 DEF flip_colors
<1> HIDE DEF h
<1>3. fix_up(h) = flip_colors(h)
  BY <1>1 DEF fix_up
<1>4. QED
  BY <1>2, <1>3 DEF h

LEMMA FixTwoReds ==
  ASSUME Heights = Nat, NEW it \in Item, NEW l \in Tree, NEW r \in Tree, NEW c \in BOOLEAN,
         ~is_red(r), is_red(l), is_red(l.left)
  PROVE  fix_up(Node(it, l, r, c))
           = Node(l.item, Toggled(l.left), Node(it, l.right, r, FALSE), ~c)
<1> DEFINE h == Node(it, l, r, c)
           n == Node(it, l.right, r, TRUE)
           b == Node(l.item, l.left, n, c)
<1>1. h.item = it /\ h.left = l /\ h.right = r /\ h.red = c
  BY NodeFields
<1>2. b.item = l.item /\ b.left = l.left /\ b.right = n /\ b.red = c
  BY DEF Node
<1>3. rotate_right(h) = b
  BY <1>1 DEF rotate_right
<1>4. n \in Tree /\ n # NIL /\ n.item = it /\ n.left = l.right /\ n.right = r /\ n.red = TRUE
  <2>1. l.right \in Tree
    BY TreeParts DEF is_red
  <2>2. n \in Tree \ {NIL}
    BY <2>1, NodeType
  <2>3. n.item = it /\ n.left = l.right /\ n.right = r /\ n.red = TRUE
    BY DEF Node
  <2>4. QED
    BY <2>2, <2>3
<1>5. is_red(n)
  BY <1>4 DEF is_red
<1>6. Toggled(n) = Node(it, l.right, r, FALSE)
  <2> HIDE DEF n
  <2>1. Toggled(n) = Node(n.item, n.left, n.right, ~n.red)
    BY <1>4, ToggledIs
  <2>2. (~n.red) = FALSE
    BY <1>4
  <2>3. QED
    BY <1>4, <2>1, <2>2
<1>7. flip_colors(b) = Node(l.item, Toggled(l.left), Toggled(n), ~c)
  BY <1>2 DEF flip_colors
<1> HIDE DEF h, n, b
<1>8. fix_up(h) = flip_colors(b)
  BY <1>1, <1>2, <1>3, <1>5 DEF fix_up
<1>9. QED
  BY <1>6, <1>7, <1>8 DEF h

-----------------------------------------------------------------------------
(***************************************************************************)
(* fix_up and the balance.                                                 *)
(***************************************************************************)
LEMMA RedParts ==
  ASSUME Heights = Nat, NEW h \in Tree, NEW n \in Nat, Good(h, n), is_red(h)
  PROVE  /\ h # NIL /\ h.item \in Item /\ h.left \in Tree /\ h.right \in Tree
         /\ h.red = TRUE
         /\ Black(h.left, n) /\ Black(h.right, n)
         /\ ~is_red(h.left) /\ ~is_red(h.right)
<1>1. h # NIL /\ h.red
  BY DEF is_red
<1>2. h.item \in Item /\ h.left \in Tree /\ h.right \in Tree /\ h.red \in BOOLEAN
  BY <1>1, TreeParts
<1>3. Black(h.left, n) /\ Black(h.right, n)
  BY <1>1, GoodIs
<1>4. QED
  BY <1>1, <1>2, <1>3 DEF Black

LEMMA BlackParts ==
  ASSUME Heights = Nat, NEW h \in Tree, NEW n \in Nat, Black(h, n), h # NIL
  PROVE  /\ h.item \in Item /\ h.left \in Tree /\ h.right \in Tree
         /\ h.red = FALSE
         /\ n - 1 \in Nat /\ Good(h.left, n - 1) /\ Black(h.right, n - 1)
         /\ ~is_red(h.right)
<1>1. h.item \in Item /\ h.left \in Tree /\ h.right \in Tree /\ h.red \in BOOLEAN
  BY TreeParts
<1>2. h.red = FALSE
  BY <1>1 DEF Black, is_red
<1>3. n - 1 \in Nat /\ Good(h.left, n - 1) /\ Black(h.right, n - 1)
  BY <1>2, GoodIs DEF Black
<1>4. QED
  BY <1>1, <1>2, <1>3 DEF Black

LEMMA ToggledRed ==
  ASSUME Heights = Nat, NEW h \in Tree, NEW n \in Nat, Good(h, n), is_red(h)
  PROVE  Toggled(h) \in Tree /\ Black(Toggled(h), n + 1)
<1>1. /\ h # NIL /\ h.item \in Item /\ h.left \in Tree /\ h.right \in Tree /\ h.red = TRUE
      /\ Black(h.left, n) /\ Black(h.right, n)
  BY RedParts
<1>2. Toggled(h) \in Tree /\ Toggled(h) = Node(h.item, h.left, h.right, ~h.red)
  BY <1>1, ToggledIs
<1>3. (~h.red) = FALSE
  BY <1>1
<1>4. Toggled(h) = Node(h.item, h.left, h.right, FALSE)
  BY <1>2, <1>3
<1>5. Black(Node(h.item, h.left, h.right, FALSE), n + 1)
  BY <1>1, GoodNode DEF Black
<1>6. QED
  BY <1>2, <1>4, <1>5

LEMMA ToggledBlack ==
  ASSUME Heights = Nat, NEW h \in Tree, NEW n \in Nat, Black(h, n), h # NIL, ~is_red(h.left)
  PROVE  /\ n - 1 \in Nat
         /\ Toggled(h) \in Tree /\ Good(Toggled(h), n - 1) /\ is_red(Toggled(h))
<1>1. /\ h.item \in Item /\ h.left \in Tree /\ h.right \in Tree /\ h.red = FALSE
      /\ n - 1 \in Nat /\ Good(h.left, n - 1) /\ Black(h.right, n - 1)
  BY BlackParts
<1>2. Toggled(h) \in Tree /\ Toggled(h) = Node(h.item, h.left, h.right, ~h.red)
  BY ToggledIs
<1>3. (~h.red) = TRUE
  BY <1>1
<1>4. Toggled(h) = Node(h.item, h.left, h.right, TRUE)
  BY <1>2, <1>3
<1>5. Black(h.left, n - 1)
  BY <1>1 DEF Black
<1>6. /\ Good(Node(h.item, h.left, h.right, TRUE), n - 1)
      /\ is_red(Node(h.item, h.left, h.right, TRUE))
  BY <1>1, <1>5, GoodNode
<1>7. QED
  BY <1>1, <1>2, <1>4, <1>6

\* Under a black node fix_up mends any two good subtrees.
LEMMA FixBlack ==
  ASSUME Heights = Nat, NEW it \in Item, NEW l \in Tree, NEW r \in Tree, NEW n \in Nat,
         Good(l, n), Good(r, n)
  PROVE  /\ Good(fix_up(Node(it, l, r, FALSE)), n + 1)
         /\ ~(is_red(l) /\ is_red(r)) => ~is_red(fix_up(Node(it, l, r, FALSE)))
<1>1. is_red(l) => ~is_red(l.left)
  BY RedParts
<1>2. CASE ~is_red(r)
  <2>1. fix_up(Node(it, l, r, FALSE)) = Node(it, l, r, FALSE)
    BY <1>1, <1>2, FixNothing
  <2>2. Black(Node(it, l, r, FALSE), n + 1)
    BY <1>2, GoodNode DEF Black
  <2>3. QED
    BY <2>1, <2>2 DEF Black
<1>3. CASE is_red(r) /\ ~is_red(l)
  <2> DEFINE m == Node(it, l, r.left, TRUE)
  <2>1. /\ r.item \in Item /\ r.left \in Tree /\ r.right \in Tree
        /\ Black(r.left, n) /\ Black(r.right, n) /\ ~is_red(r.right)
    BY <1>3, RedParts
  <2>2. fix_up(Node(it, l, r, FALSE)) = Node(r.item, m, r.right, FALSE)
    <3>1. fix_up(Node(it, l, r, FALSE)) = LeanedLeft(it, l, r, FALSE)
      BY <1>3, <2>1, FixLean
    <3>2. QED
      BY <3>1 DEF LeanedLeft
  <2>3. m \in Tree
    BY <2>1, NodeType
  <2>4. Good(m, n)
    BY <1>3, <2>1, GoodNode DEF Black
  <2> HIDE DEF m
  <2>5. Black(Node(r.item, m, r.right, FALSE), n + 1)
    BY <2>1, <2>3, <2>4, GoodNode
  <2>6. QED
    BY <2>2, <2>5 DEF Black
<1>4. CASE is_red(r) /\ is_red(l)
  <2>1. fix_up(Node(it, l, r, FALSE)) = Node(it, Toggled(l), Toggled(r), TRUE)
    <3>1. fix_up(Node(it, l, r, FALSE)) = Node(it, Toggled(l), Toggled(r), ~FALSE)
      BY <1>1, <1>4, FixFlip
    <3>2. (~FALSE) = TRUE
      OBVIOUS
    <3>3. QED
      BY <3>1, <3>2
  <2>2. /\ Toggled(l) \in Tree /\ Black(Toggled(l), n + 1)
        /\ Toggled(r) \in Tree /\ Black(Toggled(r), n + 1)
    BY <1>4, ToggledRed
  <2>3. Good(Node(it, Toggled(l), Toggled(r), TRUE), n + 1)
    <3> DEFINE p == n + 1
    <3>1. p \in Nat
      OBVIOUS
    <3> HIDE DEF p
    <3>2. Good(Node(it, Toggled(l), Toggled(r), TRUE), p)
      BY <2>2, <3>1, GoodNode DEF p
    <3>3. QED
      BY <3>2 DEF p
  <2>4. QED
    BY <1>4, <2>1, <2>3
<1>5. QED
  BY <1>2, <1>3, <1>4

\* Under a red node two good black subtrees need no mending.
LEMMA FixRed ==
  ASSUME Heights = Nat, NEW it \in Item, NEW l \in Tree, NEW r \in Tree, NEW n \in Nat,
         Black(l, n), Black(r, n)
  PROVE  Good(fix_up(Node(it, l, r, TRUE)), n)
<1>1. fix_up(Node(it, l, r, TRUE)) = Node(it, l, r, TRUE)
  BY FixNothing DEF Black
<1>2. QED
  BY <1>1, GoodNode

(***************************************************************************)
(* While an item is inserted: a red node with a red left child.            *)
(***************************************************************************)
Almost(h, n) ==
  /\ h \in Tree /\ is_red(h) /\ is_red(h.left)
  /\ Good(h.left, n) /\ Black(h.right, n)

LEMMA AlmostNode ==
  ASSUME Heights = Nat, NEW it \in Item, NEW l \in Tree, NEW r \in Tree, NEW n \in Nat,
         is_red(l), Good(l, n), Black(r, n)
  PROVE  Almost(Node(it, l, r, TRUE), n)
<1> DEFINE h == Node(it, l, r, TRUE)
<1>1. h \in Tree \ {NIL}
  BY NodeType
<1>2. h.left = l /\ h.right = r /\ h.red = TRUE
  BY DEF Node
<1> HIDE DEF h
<1>3. Almost(h, n)
  BY <1>1, <1>2 DEF Almost, is_red
<1>4. QED
  BY <1>3 DEF h

LEMMA FixAlmost ==
  ASSUME Heights = Nat, NEW it \in Item, NEW l \in Tree, NEW r \in Tree, NEW n \in Nat,
         Almost(l, n), Black(r, n)
  PROVE  Good(fix_up(Node(it, l, r, FALSE)), n + 1)
<1>1. l # NIL /\ l.item \in Item /\ l.left \in Tree /\ l.right \in Tree
  BY TreeParts DEF Almost, is_red
<1> DEFINE m == Node(it, l.right, r, FALSE)
<1>2. fix_up(Node(it, l, r, FALSE)) = Node(l.item, Toggled(l.left), m, TRUE)
  <2>1. fix_up(Node(it, l, r, FALSE)) = Node(l.item, Toggled(l.left), m, ~FALSE)
    BY FixTwoReds DEF Almost, Black
  <2>2. (~FALSE) = TRUE
    OBVIOUS
  <2>3. QED
    BY <2>1, <2>2
<1>3. Toggled(l.left) \in Tree /\ Black(Toggled(l.left), n + 1)
  BY <1>1, ToggledRed DEF Almost
<1>4. m \in Tree /\ Black(m, n + 1)
  <2>1. m \in Tree
    BY <1>1, NodeType
  <2>2. Black(m, n + 1)
    BY <1>1, GoodNode DEF Almost, Black
  <2>3. QED
    BY <2>1, <2>2
<1> HIDE DEF m
<1>5. Good(Node(l.item, Toggled(l.left), m, TRUE), n + 1)
  <2> DEFINE p == n + 1
  <2>1. p \in Nat
    OBVIOUS
  <2> HIDE DEF p
  <2>2. Good(Node(l.item, Toggled(l.left), m, TRUE), p)
    BY <1>1, <1>3, <1>4, <2>1, GoodNode DEF p
  <2>3. QED
    BY <2>2 DEF p
<1>6. QED
  BY <1>2, <1>5

LEMMA FixRedInsert ==
  ASSUME Heights = Nat, NEW it \in Item, NEW l \in Tree, NEW r \in Tree, NEW n \in Nat,
         Good(l, n), Good(r, n), ~is_red(l) \/ ~is_red(r)
  PROVE  \/ Good(fix_up(Node(it, l, r, TRUE)), n)
         \/ Almost(fix_up(Node(it, l, r, TRUE)), n)
<1>1. is_red(l) => ~is_red(l.left)
  BY RedParts
<1>2. CASE ~is_red(r) /\ ~is_red(l)
  BY <1>2, FixRed DEF Black
<1>3. CASE ~is_red(r) /\ is_red(l)
  <2>1. fix_up(Node(it, l, r, TRUE)) = Node(it, l, r, TRUE)
    BY <1>1, <1>3, FixNothing
  <2>2. Almost(Node(it, l, r, TRUE), n)
    BY <1>3, AlmostNode DEF Black
  <2>3. QED
    BY <2>1, <2>2
<1>4. CASE is_red(r) /\ ~is_red(l)
  <2> DEFINE m == Node(it, l, r.left, TRUE)
  <2>1. /\ r.item \in Item /\ r.left \in Tree /\ r.right \in Tree
        /\ Black(r.left, n) /\ Black(r.right, n) /\ ~is_red(r.right)
    BY <1>4, RedParts
  <2>2. fix_up(Node(it, l, r, TRUE)) = Node(r.item, m, r.right, TRUE)
    <3>1. fix_up(Node(it, l, r, TRUE)) = LeanedLeft(it, l, r, TRUE)
      BY <1>4, <2>1, FixLean
    <3>2. QED
      BY <3>1 DEF LeanedLeft
  <2>3. m \in Tree
    BY <2>1, NodeType
  <2>4. Good(m, n) /\ is_red(m)
    BY <1>4, <2>1, GoodNode DEF Black
  <2> HIDE DEF m
  <2>5. Almost(Node(r.item, m, r.right, TRUE), n)
    BY <2>1, <2>3, <2>4, AlmostNode
  <2>6. QED
    BY <2>2, <2>5
<1>5. QED
  BY <1>2, <1>3, <1>4

-----------------------------------------------------------------------------
(***************************************************************************)
(* rbtree.c: insertion.                                                    *)
(***************************************************************************)
LEMMA InsertIs ==
  ASSUME Heights = Nat, NEW it \in Item, NEW memory \in BOOLEAN
  PROVE  \A h \in Tree : rbtree_insert_node(h, it, memory) =
           IF h = NIL THEN IF memory THEN Leaf(it, TRUE) ELSE NIL
           ELSE fix_up(
             IF it.key < h.item.key THEN [h EXCEPT !.left = rbtree_insert_node(h.left, it, memory)]
             ELSE IF it.key > h.item.key THEN [h EXCEPT !.right = rbtree_insert_node(h.right, it, memory)]
             ELSE h)
<1> DEFINE Step(h, f) ==
             IF h = NIL THEN IF memory THEN Leaf(it, TRUE) ELSE NIL
             ELSE fix_up(
               IF it.key < h.item.key THEN [h EXCEPT !.left = f[h.left]]
               ELSE IF it.key > h.item.key THEN [h EXCEPT !.right = f[h.right]]
               ELSE h)
           V == Tree
           step == [x \in Tree \X [Tree -> V] |-> Step(x[1], x[2])]
           Is(f) == f = [h \in Tree |-> Step(h, f)]
<1>1. ASSUME NEW h \in Tree, NEW f \in [Tree -> V] PROVE Step(h, f) \in V
  <2>1. CASE h = NIL
    <3>1. NIL \in Tree
      BY TreeIs
    <3>2. Leaf(it, TRUE) \in Tree
      BY <3>1, NodeType DEF Leaf
    <3>3. QED
      BY <2>1, <3>1, <3>2
  <2>2. CASE h # NIL
    <3>1. f[h.left] \in Tree /\ f[h.right] \in Tree
      BY <2>2, TreeParts
    <3>2. /\ [h EXCEPT !.left = f[h.left]] \in Tree \ {NIL}
          /\ [h EXCEPT !.right = f[h.right]] \in Tree \ {NIL}
      BY <2>2, <3>1, TreeExcept
    <3> DEFINE x == IF it.key < h.item.key THEN [h EXCEPT !.left = f[h.left]]
                    ELSE IF it.key > h.item.key THEN [h EXCEPT !.right = f[h.right]]
                    ELSE h
    <3>3. x \in Tree /\ x # NIL
      BY <2>2, <3>2
    <3> HIDE DEF x
    <3>4. fix_up(x) \in Tree
      BY <3>3, FixUpSame DEF Same
    <3>5. QED
      BY <2>2, <3>4 DEF x
  <2>3. QED
    BY <2>1, <2>2
<1>2. \A h \in Tree : \A f, g \in [Tree -> V] :
        (h # NIL => f[h.left] = g[h.left] /\ f[h.right] = g[h.right]) => Step(h, f) = Step(h, g)
  BY TreeParts
<1>3. \A h \in Tree : rbtree_insert_node(h, it, memory) = (CHOOSE f : Is(f))[h]
  BY DEF rbtree_insert_node, Insertion
<1>4. NIL \in V
  BY TreeIs
<1> HIDE DEF Step
<1>5. PICK f \in [Tree -> V] : \A h \in Tree : f[h] = step[<<h, f>>]
  <2>1. step \in [(Tree \X [Tree -> V]) -> V]
    BY <1>1
  <2>2. \A h \in Tree : \A f \in [Tree -> V] : step[<<h, f>>] = Step(h, f)
    OBVIOUS
  <2> HIDE DEF step, V
  <2>3. LooksDown(V, step)
    BY <1>2, <2>2 DEF LooksDown
  <2>4. Solvable(Tree, V, step)
    BY <1>4, <2>1, <2>3, TreeRecursion
  <2>5. QED
    BY <2>4 DEF Solvable
<1>6. Is(f)
  BY <1>5
<1> HIDE DEF Is
<1>7. Is(CHOOSE g : Is(g))
  BY <1>6
<1>8. \A h \in Tree : rbtree_insert_node(h, it, memory) = Step(h, CHOOSE g : Is(g))
  BY <1>3, <1>7 DEF Is
<1>9. QED
  BY <1>3, <1>8, TreeParts DEF Step

\* n is h with the item in it, where there was memory and the key was not there.
Holding(h, n, it, memory) ==
  /\ n \in Tree /\ (n = NIL <=> h = NIL /\ ~memory)
  /\ Ordered(h) =>
       /\ Ordered(n)
       /\ Items(n) = IF memory /\ \A y \in Items(h) : y.key # it.key
                       THEN Items(h) \cup {it} ELSE Items(h)

LEMMA HoldingSame ==
  ASSUME NEW h, NEW n, NEW o, NEW it, NEW memory, Holding(h, n, it, memory), n # NIL,
         Same(n, o)
  PROVE  Holding(h, o, it, memory)
<1>1. Items(o) = Items(n) /\ (Ordered(o) <=> Ordered(n)) /\ o \in Tree /\ o # NIL
  BY SameItems DEF Same
<1>2. QED
  BY <1>1 DEF Holding

LEMMA HoldingBelow ==
  ASSUME Heights = Nat, NEW it \in Item, NEW memory \in BOOLEAN, NEW h \in Tree, h # NIL, NEW x
  PROVE  /\ it.key < h.item.key /\ Holding(h.left, x, it, memory)
              => Holding(h, [h EXCEPT !.left = x], it, memory)
         /\ it.key > h.item.key /\ Holding(h.right, x, it, memory)
              => Holding(h, [h EXCEPT !.right = x], it, memory)
<1>1. /\ h.item \in Item /\ h.left \in Tree /\ h.right \in Tree
      /\ Items(h) = Items(h.left) \cup {h.item} \cup Items(h.right)
      /\ \A y \in Items(h) : y.key \in Int
      /\ h.item.key \in Int
      /\ Ordered(h) => /\ Ordered(h.left) /\ Ordered(h.right)
                       /\ \A y \in Items(h.left) : y.key < h.item.key
                       /\ \A y \in Items(h.right) : h.item.key < y.key
  BY OrderedParts, ItemAssumption
<1>2. it.key \in Int
  BY ItemAssumption
<1>3. ASSUME it.key < h.item.key, Holding(h.left, x, it, memory)
      PROVE  Holding(h, [h EXCEPT !.left = x], it, memory)
  <2>1. x \in Tree
    BY <1>3 DEF Holding
  <2> DEFINE n == [h EXCEPT !.left = x]
  <2>2. Joins(n, h.item, x, h.right)
    BY <2>1, ExceptJoins
  <2> HIDE DEF n
  <2>3. ASSUME Ordered(h)
        PROVE  /\ Ordered(n)
               /\ Items(n) = IF memory /\ \A y \in Items(h) : y.key # it.key
                               THEN Items(h) \cup {it} ELSE Items(h)
    <3>1. (\A y \in Items(h) : y.key # it.key) <=> (\A y \in Items(h.left) : y.key # it.key)
      BY <1>1, <1>2, <1>3, <2>3
    <3>2. CASE memory /\ \A y \in Items(h) : y.key # it.key
      <4>1. Items(x) = Items(h.left) \cup {it} /\ Ordered(x)
        BY <1>1, <1>3, <2>3, <3>1, <3>2 DEF Holding
      <4>2. Items(n) = Items(h) \cup {it} /\ Ordered(n)
        BY <1>1, <1>3, <2>2, <2>3, <4>1 DEF Joins
      <4>3. QED
        BY <3>2, <4>2
    <3>3. CASE ~(memory /\ \A y \in Items(h) : y.key # it.key)
      <4>1. Items(x) = Items(h.left) /\ Ordered(x)
        BY <1>1, <1>3, <2>3, <3>1, <3>3 DEF Holding
      <4>2. Items(n) = Items(h) /\ Ordered(n)
        BY <1>1, <2>2, <2>3, <4>1 DEF Joins
      <4>3. QED
        BY <3>3, <4>2
    <3>4. QED
      BY <3>2, <3>3
  <2>4. n \in Tree /\ n # NIL
    BY <2>2 DEF Joins
  <2>5. Holding(h, n, it, memory)
    BY <2>3, <2>4 DEF Holding
  <2>6. QED
    BY <2>5 DEF n
<1>4. ASSUME it.key > h.item.key, Holding(h.right, x, it, memory)
      PROVE  Holding(h, [h EXCEPT !.right = x], it, memory)
  <2>1. x \in Tree
    BY <1>4 DEF Holding
  <2> DEFINE n == [h EXCEPT !.right = x]
  <2>2. Joins(n, h.item, h.left, x)
    BY <2>1, ExceptJoins
  <2> HIDE DEF n
  <2>3. ASSUME Ordered(h)
        PROVE  /\ Ordered(n)
               /\ Items(n) = IF memory /\ \A y \in Items(h) : y.key # it.key
                               THEN Items(h) \cup {it} ELSE Items(h)
    <3>1. (\A y \in Items(h) : y.key # it.key) <=> (\A y \in Items(h.right) : y.key # it.key)
      BY <1>1, <1>2, <1>4, <2>3
    <3>2. CASE memory /\ \A y \in Items(h) : y.key # it.key
      <4>1. Items(x) = Items(h.right) \cup {it} /\ Ordered(x)
        BY <1>1, <1>4, <2>3, <3>1, <3>2 DEF Holding
      <4>2. Items(n) = Items(h) \cup {it} /\ Ordered(n)
        BY <1>1, <1>2, <1>4, <2>2, <2>3, <4>1 DEF Joins
      <4>3. QED
        BY <3>2, <4>2
    <3>3. CASE ~(memory /\ \A y \in Items(h) : y.key # it.key)
      <4>1. Items(x) = Items(h.right) /\ Ordered(x)
        BY <1>1, <1>4, <2>3, <3>1, <3>3 DEF Holding
      <4>2. Items(n) = Items(h) /\ Ordered(n)
        BY <1>1, <2>2, <2>3, <4>1 DEF Joins
      <4>3. QED
        BY <3>3, <4>2
    <3>4. QED
      BY <3>2, <3>3
  <2>4. n \in Tree /\ n # NIL
    BY <2>2 DEF Joins
  <2>5. Holding(h, n, it, memory)
    BY <2>3, <2>4 DEF Holding
  <2>6. QED
    BY <2>5 DEF n
<1>5. QED
  BY <1>3, <1>4

\* What insertion makes of the balance.
Grown(h, n) ==
  \A m \in Nat : Good(h, m) => Good(n, m) \/ (is_red(h) /\ Almost(n, m))

LEMMA GrownLeft ==
  ASSUME Heights = Nat, NEW h \in Tree, h # NIL, NEW x \in Tree, Grown(h.left, x)
  PROVE  Grown(h, fix_up([h EXCEPT !.left = x]))
<1>1. h.item \in Item /\ h.left \in Tree /\ h.right \in Tree /\ h.red \in BOOLEAN
  BY TreeParts
<1>2. [h EXCEPT !.left = x] = Node(h.item, x, h.right, h.red)
  BY TreeExcept
<1> SUFFICES ASSUME NEW m \in Nat, Good(h, m)
             PROVE  LET n == fix_up(Node(h.item, x, h.right, h.red))
                    IN Good(n, m) \/ (is_red(h) /\ Almost(n, m))
  BY <1>2 DEF Grown
<1>3. CASE is_red(h)
  <2>1. h.red = TRUE /\ Black(h.left, m) /\ Black(h.right, m)
    BY <1>3, RedParts
  <2>2. Good(x, m)
    BY <2>1 DEF Grown, Black
  <2>3. \/ Good(fix_up(Node(h.item, x, h.right, TRUE)), m)
        \/ Almost(fix_up(Node(h.item, x, h.right, TRUE)), m)
    BY <1>1, <2>1, <2>2, FixRedInsert DEF Black
  <2>4. QED
    BY <1>3, <2>1, <2>3
<1>4. CASE ~is_red(h)
  <2> DEFINE p == m - 1
  <2>1. h.red = FALSE /\ p \in Nat /\ Good(h.left, p) /\ Black(h.right, p)
    BY <1>4, BlackParts DEF Black
  <2>2. p + 1 = m
    OBVIOUS
  <2> HIDE DEF p
  <2>3. Good(x, p) \/ Almost(x, p)
    BY <2>1 DEF Grown
  <2>4. Good(fix_up(Node(h.item, x, h.right, FALSE)), p + 1)
    <3>1. CASE Good(x, p)
      BY <1>1, <2>1, <3>1, FixBlack DEF Black
    <3>2. CASE Almost(x, p)
      BY <1>1, <2>1, <3>2, FixAlmost
    <3>3. QED
      BY <2>3, <3>1, <3>2
  <2>5. QED
    BY <2>1, <2>2, <2>4
<1>5. QED
  BY <1>3, <1>4

LEMMA GrownRight ==
  ASSUME Heights = Nat, NEW h \in Tree, h # NIL, NEW x \in Tree, Grown(h.right, x)
  PROVE  Grown(h, fix_up([h EXCEPT !.right = x]))
<1>1. h.item \in Item /\ h.left \in Tree /\ h.right \in Tree /\ h.red \in BOOLEAN
  BY TreeParts
<1>2. [h EXCEPT !.right = x] = Node(h.item, h.left, x, h.red)
  BY TreeExcept
<1> SUFFICES ASSUME NEW m \in Nat, Good(h, m)
             PROVE  LET n == fix_up(Node(h.item, h.left, x, h.red))
                    IN Good(n, m) \/ (is_red(h) /\ Almost(n, m))
  BY <1>2 DEF Grown
<1>3. CASE is_red(h)
  <2>1. h.red = TRUE /\ Black(h.left, m) /\ Black(h.right, m)
    BY <1>3, RedParts
  <2>2. Good(x, m)
    BY <2>1 DEF Grown, Black
  <2>3. \/ Good(fix_up(Node(h.item, h.left, x, TRUE)), m)
        \/ Almost(fix_up(Node(h.item, h.left, x, TRUE)), m)
    BY <1>1, <2>1, <2>2, FixRedInsert DEF Black
  <2>4. QED
    BY <1>3, <2>1, <2>3
<1>4. CASE ~is_red(h)
  <2> DEFINE p == m - 1
  <2>1. h.red = FALSE /\ p \in Nat /\ Good(h.left, p) /\ Black(h.right, p)
    BY <1>4, BlackParts DEF Black
  <2>2. p + 1 = m
    OBVIOUS
  <2> HIDE DEF p
  <2>3. Good(x, p)
    BY <2>1 DEF Grown, Black
  <2>4. Good(fix_up(Node(h.item, h.left, x, FALSE)), p + 1)
    BY <1>1, <2>1, <2>3, FixBlack
  <2>5. QED
    BY <2>1, <2>2, <2>4
<1>5. QED
  BY <1>3, <1>4

LEMMA GrownHere ==
  ASSUME Heights = Nat, NEW h \in Tree, h # NIL
  PROVE  Grown(h, fix_up(h))
<1>1. h.left \in Tree /\ [h EXCEPT !.left = h.left] = h
  <2>1. h.left \in Tree /\ h = Node(h.item, h.left, h.right, h.red)
    BY TreeParts
  <2>2. [h EXCEPT !.left = h.left] = Node(h.item, h.left, h.right, h.red)
    BY <2>1, TreeExcept
  <2>3. QED
    BY <2>1, <2>2
<1>2. Grown(h.left, h.left)
  BY DEF Grown
<1>3. QED
  BY <1>1, <1>2, GrownLeft

LEMMA InsertKeeps ==
  ASSUME Heights = Nat, NEW it \in Item, NEW memory \in BOOLEAN
  PROVE  \A h \in Tree : /\ Holding(h, rbtree_insert_node(h, it, memory), it, memory)
                         /\ Grown(h, rbtree_insert_node(h, it, memory))
<1> DEFINE ins(h) == rbtree_insert_node(h, it, memory)
           P == {h \in Tree : Holding(h, ins(h), it, memory) /\ Grown(h, ins(h))}
<1>1. NIL \in P
  <2>1. NIL \in Tree /\ Items(NIL) = {} /\ Ordered(NIL) /\ ~is_red(NIL)
    BY EmptyTree DEF is_red
  <2>2. CASE memory
    <3>1. ins(NIL) = Leaf(it, TRUE)
      BY <2>1, <2>2, InsertIs, Zenon
    <3>2. Inserted(NIL, Leaf(it, TRUE), it)
      BY LeafInserted
    <3>3. Holding(NIL, Leaf(it, TRUE), it, memory)
      BY <2>1, <2>2, <3>2 DEF Inserted, Holding
    <3>4. Good(Leaf(it, TRUE), 0)
      BY <2>1, GoodNil, GoodNode DEF Leaf
    <3>5. Grown(NIL, Leaf(it, TRUE))
      BY <3>4, GoodNil DEF Grown
    <3>6. QED
      BY <2>1, <3>1, <3>3, <3>5
  <2>3. CASE ~memory
    <3>1. ins(NIL) = NIL
      BY <2>1, <2>3, InsertIs, Zenon
    <3>2. Holding(NIL, NIL, it, memory) /\ Grown(NIL, NIL)
      BY <2>1, <2>3 DEF Holding, Grown
    <3>3. QED
      BY <2>1, <3>1, <3>2
  <2>4. QED
    BY <2>2, <2>3
<1>2. ASSUME NEW h \in Nodes(Tree), h.left \in P, h.right \in P PROVE h \in P
  <2>1. h \in Tree /\ h # NIL /\ h.item \in Item
    BY TreeIs, NodeIs, NilAssumption
  <2>2. it.key \in Int /\ h.item.key \in Int
    BY <2>1, ItemAssumption
  <2> DEFINE l == ins(h.left)
             r == ins(h.right)
  <2>3. /\ Holding(h.left, l, it, memory) /\ Grown(h.left, l)
        /\ Holding(h.right, r, it, memory) /\ Grown(h.right, r)
    BY <1>2
  <2>4. l \in Tree /\ r \in Tree
    BY <2>3 DEF Holding
  <2>5. ASSUME NEW n, Holding(h, n, it, memory) PROVE Holding(h, fix_up(n), it, memory)
    <3>1. n \in Tree /\ n # NIL
      BY <2>1, <2>5 DEF Holding
    <3>2. QED
      BY <2>5, <3>1, FixUpSame, HoldingSame
  <2>6. CASE it.key < h.item.key
    <3>1. ins(h) = fix_up([h EXCEPT !.left = l])
      BY <2>1, <2>6, InsertIs, Zenon
    <3> HIDE DEF ins, l
    <3>2. Holding(h, [h EXCEPT !.left = l], it, memory)
      BY <2>1, <2>3, <2>6, HoldingBelow
    <3>3. Grown(h, ins(h))
      BY <2>1, <2>3, <2>4, <3>1, GrownLeft
    <3>4. QED
      BY <2>1, <2>5, <3>1, <3>2, <3>3
  <2>7. CASE it.key > h.item.key
    <3>1. ~(it.key < h.item.key)
      BY <2>2, <2>7
    <3>2. ins(h) = fix_up([h EXCEPT !.right = r])
      BY <2>1, <2>7, <3>1, InsertIs, Zenon
    <3> HIDE DEF ins, r
    <3>3. Holding(h, [h EXCEPT !.right = r], it, memory)
      BY <2>1, <2>3, <2>7, HoldingBelow
    <3>4. Grown(h, ins(h))
      BY <2>1, <2>3, <2>4, <3>2, GrownRight
    <3>5. QED
      BY <2>1, <2>5, <3>2, <3>3, <3>4
  <2>8. CASE it.key = h.item.key
    <3>1. ~(it.key < h.item.key) /\ ~(it.key > h.item.key)
      BY <2>2, <2>8
    <3>2. ins(h) = fix_up(h)
      BY <2>1, <3>1, InsertIs, Zenon
    <3>3. h.item \in Items(h)
      BY <2>1, HeldParts
    <3>4. Holding(h, h, it, memory)
      BY <2>1, <2>8, <3>3 DEF Holding
    <3> HIDE DEF ins
    <3>5. Grown(h, ins(h))
      BY <2>1, <3>2, GrownHere
    <3>6. QED
      BY <2>1, <2>5, <3>2, <3>4, <3>5
  <2>9. QED
    BY <2>2, <2>6, <2>7, <2>8
<1> HIDE DEF P
<1>3. Tree \subseteq P
  BY <1>1, <1>2, TreeInduction
<1>4. QED
  BY <1>3 DEF P

-----------------------------------------------------------------------------
(***************************************************************************)
(* rbtree.c removes along subtrees of trees it has just rotated: the       *)
(* recursion is on the number of items.                                    *)
(***************************************************************************)
Size(h) == Len(Inorder(h))

LEMMA SizeJoins ==
  ASSUME Heights = Nat, NEW it \in Item, NEW l \in Tree, NEW r \in Tree, NEW n, Joins(n, it, l, r)
  PROVE  /\ Size(n) = Size(l) + 1 + Size(r)
         /\ Size(n) \in Nat /\ Size(l) \in Nat /\ Size(r) \in Nat
<1>1. Inorder(l) \in Seq(Item) /\ Inorder(r) \in Seq(Item)
  BY InorderType
<1>2. Inorder(n) = Inorder(l) \o <<it>> \o Inorder(r)
  BY DEF Joins
<1>3. /\ Len(Inorder(l) \o <<it>> \o Inorder(r)) = Len(Inorder(l)) + 1 + Len(Inorder(r))
      /\ Len(Inorder(l)) \in Nat /\ Len(Inorder(r)) \in Nat
  BY <1>1, Spliced
<1>4. QED
  BY <1>2, <1>3 DEF Size

LEMMA SizeType ==
  ASSUME Heights = Nat
  PROVE  \A h \in Tree : Size(h) \in Nat
BY InorderType, LenProperties DEF Size

LEMMA SmallerSubtrees ==
  ASSUME Heights = Nat, NEW h \in Tree, h # NIL, NEW g, Same(h, g)
  PROVE  /\ g.left \in Tree /\ Size(g.left) < Size(h)
         /\ g.right \in Tree /\ Size(g.right) < Size(h)
<1>1. g \in Tree /\ g # NIL /\ Size(g) = Size(h)
  BY DEF Same, Size
<1>2. g.item \in Item /\ g.left \in Tree /\ g.right \in Tree /\ Joins(g, g.item, g.left, g.right)
  BY <1>1, TreeParts, TreeJoins
<1>3. /\ Size(g) = Size(g.left) + 1 + Size(g.right)
      /\ Size(g.left) \in Nat /\ Size(g.right) \in Nat
  BY <1>2, SizeJoins
<1>4. QED
  BY <1>1, <1>2, <1>3

Inductive(P) ==
  \A h \in Tree : (\A t \in Tree : Size(t) < Size(h) => t \in P) => h \in P

LEMMA SizeInduction ==
  ASSUME Heights = Nat, NEW P, Inductive(P)
  PROVE  Tree \subseteq P
<1> DEFINE S == {n \in Nat : \A t \in Tree : Size(t) < n => t \in P}
<1>1. 0 \in S
  BY SizeType
<1>2. ASSUME NEW n \in Nat, n \in S PROVE n + 1 \in S
  <2>1. ASSUME NEW h \in Tree, Size(h) < n + 1 PROVE h \in P
    <3>1. \A t \in Tree : Size(t) < Size(h) => t \in P
      <4>1. \A t \in Tree : Size(t) \in Nat /\ Size(h) \in Nat
        BY SizeType
      <4>2. QED
        BY <1>2, <2>1, <4>1
    <3>2. QED
      BY <3>1 DEF Inductive
  <2>2. QED
    BY <2>1
<1> HIDE DEF S
<1>3. Nat \subseteq S
  BY <1>1, <1>2, Induction
<1>4. ASSUME NEW h \in Tree PROVE h \in P
  <2>1. Size(h) + 1 \in S /\ Size(h) < Size(h) + 1
    BY <1>3, SizeType
  <2>2. QED
    BY <2>1 DEF S
<1>5. QED
  BY <1>4

-----------------------------------------------------------------------------
(***************************************************************************)
(* What the way down does keeps the items.                                 *)
(***************************************************************************)
LEMMA RightReplaced ==
  ASSUME Heights = Nat, NEW h \in Tree, h # NIL, NEW x, Same(h.right, x)
  PROVE  Same(h, [h EXCEPT !.right = x])
<1>1. h.item \in Item /\ h.left \in Tree /\ h.right \in Tree /\ x \in Tree
  BY TreeParts DEF Same
<1>2. Joins([h EXCEPT !.right = x], h.item, h.left, x) /\ Joins(h, h.item, h.left, h.right)
  BY <1>1, ExceptJoins, TreeJoins
<1>3. QED
  BY <1>2 DEF Joins, Same

LEMMA MoveLeftSame ==
  ASSUME Heights = Nat, NEW h \in Tree, h # NIL, h.left # NIL
  PROVE  Same(h, move_red_left(h)) /\ move_red_left(h).left # NIL
<1> DEFINE f == flip_colors(h)
           e == [f EXCEPT !.right = rotate_right(f.right)]
           d == rotate_left(e)
<1>1. h.left \in Tree
  BY TreeParts
<1>2. Same(h, f) /\ f.left = Toggled(h.left) /\ f.left # NIL
  <2>1. f.left = Toggled(h.left)
    BY DEF flip_colors, Node
  <2>2. QED
    BY <1>1, <2>1, FlipSame, ToggledIs
<1> HIDE DEF f
<1>3. CASE is_red(f.right) /\ is_red(f.right.left)
  <2>1. /\ f \in Tree /\ f # NIL /\ f.right # NIL /\ f.right \in Tree /\ f.right.left # NIL
        /\ f.item \in Item /\ f.left \in Tree /\ f.red \in BOOLEAN
    BY <1>2, <1>3, TreeParts DEF is_red, Same
  <2>2. Same(f.right, rotate_right(f.right))
    BY <2>1, RotateRightSame
  <2>3. Same(f, e)
    BY <2>1, <2>2, RightReplaced
  <2>4. /\ e.right # NIL /\ e.right = rotate_right(f.right) /\ e.left = f.left /\ e.item = f.item
    <3>1. e = Node(f.item, f.left, rotate_right(f.right), f.red)
      BY <2>1, <2>2, TreeExcept DEF Same
    <3>2. QED
      BY <2>2, <3>1 DEF Node, Same
  <2> HIDE DEF e
  <2>5. e \in Tree /\ e # NIL
    BY <2>3 DEF Same
  <2>6. Same(e, d)
    BY <2>4, <2>5, RotateLeftSame
  <2>7. d.left = Node(e.item, e.left, e.right.left, TRUE)
    BY DEF rotate_left, Node
  <2>8. d.left \in Tree /\ d.left # NIL
    <3>1. e.right.left \in Tree /\ e.item \in Item /\ e.left \in Tree
      BY <2>4, <2>5, TreeParts
    <3>2. QED
      BY <2>7, <3>1, NodeType
  <2> HIDE DEF d
  <2>9. d \in Tree /\ d # NIL
    BY <2>6 DEF Same
  <2>10. Same(d, flip_colors(d)) /\ flip_colors(d).left = Toggled(d.left)
    <3>1. flip_colors(d).left = Toggled(d.left)
      BY DEF flip_colors, Node
    <3>2. QED
      BY <2>9, <3>1, FlipSame
  <2>11. flip_colors(d).left # NIL
    BY <2>8, <2>10, ToggledIs
  <2>12. move_red_left(h) = flip_colors(d)
    BY <1>3 DEF move_red_left, f, e, d
  <2>13. QED
    BY <1>2, <2>3, <2>6, <2>10, <2>11, <2>12, SameAgain
<1>4. CASE ~(is_red(f.right) /\ is_red(f.right.left))
  <2>1. move_red_left(h) = f
    BY <1>4 DEF move_red_left, f
  <2>2. QED
    BY <1>2, <2>1
<1>5. QED
  BY <1>3, <1>4

LEMMA RedLeftSame ==
  ASSUME Heights = Nat, NEW h \in Tree, h # NIL, h.left # NIL
  PROVE  Same(h, RedLeft(h)) /\ RedLeft(h).left # NIL
BY MoveLeftSame, SameItself DEF RedLeft

LEMMA MoveRightSame ==
  ASSUME Heights = Nat, NEW h \in Tree, h # NIL
  PROVE  Same(h, move_red_right(h))
<1> DEFINE f == flip_colors(h)
           d == rotate_right(f)
<1>1. Same(h, f)
  BY FlipSame
<1> HIDE DEF f
<1>2. f \in Tree /\ f # NIL
  BY <1>1 DEF Same
<1>3. CASE is_red(f.left) /\ is_red(f.left.left)
  <2>1. Same(f, d)
    BY <1>2, <1>3, RotateRightSame DEF is_red
  <2> HIDE DEF d
  <2>2. d \in Tree /\ d # NIL
    BY <2>1 DEF Same
  <2>3. Same(d, flip_colors(d))
    BY <2>2, FlipSame
  <2>4. move_red_right(h) = flip_colors(d)
    BY <1>3 DEF move_red_right, f, d
  <2>5. QED
    BY <1>1, <2>1, <2>3, <2>4, SameAgain
<1>4. CASE ~(is_red(f.left) /\ is_red(f.left.left))
  <2>1. move_red_right(h) = f
    BY <1>4 DEF move_red_right, f
  <2>2. QED
    BY <1>1, <2>1
<1>5. QED
  BY <1>3, <1>4

LEMMA LeanRightSame ==
  ASSUME Heights = Nat, NEW h \in Tree, h # NIL
  PROVE  Same(h, LeanRight(h))
<1>1. is_red(h.left) => h.left # NIL
  BY DEF is_red
<1>2. QED
  BY <1>1, RotateRightSame, SameItself DEF LeanRight

LEMMA RedRightSame ==
  ASSUME Heights = Nat, NEW h \in Tree, h # NIL
  PROVE  Same(h, RedRight(h))
BY MoveRightSame, SameItself DEF RedRight

LEMMA DeleteMinIs ==
  ASSUME Heights = Nat
  PROVE  \A h \in Tree \ {NIL} :
           /\ h.left = NIL => delete_min(h) = NIL
           /\ h.left # NIL =>
                delete_min(h)
                  = fix_up([RedLeft(h) EXCEPT !.left = delete_min(RedLeft(h).left)])
<1> DEFINE D == Tree \ {NIL}
           Step(h, f) == MinRemoval(h, f)
           step == [x \in D \X [D -> Tree] |-> Step(x[1], x[2])]
           rank == [h \in D |-> Size(h)]
           Is(f) == f = [h \in D |-> Step(h, f)]
<1>1. \A h \in D : h.left # NIL =>
        /\ RedLeft(h) \in Tree /\ RedLeft(h) # NIL
        /\ RedLeft(h).left \in D /\ Size(RedLeft(h).left) < Size(h)
  BY RedLeftSame, SmallerSubtrees DEF Same
<1>2. ASSUME NEW h \in D, NEW f \in [D -> Tree] PROVE Step(h, f) \in Tree
  <2>1. CASE h.left = NIL
    BY <2>1, TreeIs DEF MinRemoval
  <2>2. CASE h.left # NIL
    <3> DEFINE g == RedLeft(h)
               x == [g EXCEPT !.left = f[g.left]]
    <3>1. g \in Tree /\ g # NIL /\ f[g.left] \in Tree
      BY <1>1, <2>2
    <3> HIDE DEF g
    <3>2. x \in Tree /\ x # NIL
      BY <3>1, TreeExcept
    <3> HIDE DEF x
    <3>3. fix_up(x) \in Tree
      BY <3>2, FixUpSame DEF Same
    <3>4. Step(h, f) = fix_up(x)
      BY <2>2 DEF MinRemoval, x, g
    <3>5. QED
      BY <3>3, <3>4
  <2>3. QED
    BY <2>1, <2>2
<1>3. ASSUME NEW h \in D, NEW f \in [D -> Tree], NEW g \in [D -> Tree],
             \A y \in D : rank[y] < rank[h] => f[y] = g[y]
      PROVE  Step(h, f) = Step(h, g)
  <2>1. h.left # NIL => f[RedLeft(h).left] = g[RedLeft(h).left]
    BY <1>1, <1>3
  <2>2. QED
    BY <2>1 DEF MinRemoval
<1>4. \A h \in D : delete_min(h) = (CHOOSE f : Is(f))[h]
  BY DEF delete_min
<1> HIDE DEF Step
<1>5. PICK f \in [D -> Tree] : \A h \in D : f[h] = step[<<h, f>>]
  <2>1. step \in [(D \X [D -> Tree]) -> Tree] /\ rank \in [D -> Nat] /\ NIL \in Tree
    BY <1>2, SizeType, TreeIs
  <2>2. \A h \in D : \A f \in [D -> Tree] : step[<<h, f>>] = Step(h, f)
    OBVIOUS
  <2> HIDE DEF step, rank, D
  <2>3. LooksBelow(D, Tree, rank, step)
    BY <1>3, <2>2 DEF LooksBelow
  <2>4. Solvable(D, Tree, step)
    BY <2>1, <2>3, RankRecursion
  <2>5. QED
    BY <2>4 DEF Solvable
<1>6. Is(f)
  BY <1>5
<1> HIDE DEF Is
<1>7. Is(CHOOSE g : Is(g))
  BY <1>6
<1>8. \A h \in D : delete_min(h) = Step(h, CHOOSE g : Is(g))
  BY <1>4, <1>7 DEF Is
<1>9. QED
  BY <1>1, <1>4, <1>8 DEF Step, MinRemoval

LEMMA DeleteMinType ==
  ASSUME Heights = Nat
  PROVE  \A h \in Tree \ {NIL} : delete_min(h) \in Tree
<1> DEFINE P == {h \in Tree : h # NIL => delete_min(h) \in Tree}
<1>1. ASSUME NEW h \in Tree, \A t \in Tree : Size(t) < Size(h) => t \in P PROVE h \in P
  <2> SUFFICES ASSUME h # NIL PROVE delete_min(h) \in Tree
    OBVIOUS
  <2>1. CASE h.left = NIL
    BY <2>1, DeleteMinIs, TreeIs
  <2>2. CASE h.left # NIL
    <3> DEFINE g == RedLeft(h)
               m == delete_min(g.left)
    <3>1. Same(h, g) /\ g.left # NIL
      BY <2>2, RedLeftSame
    <3>2. delete_min(h) = fix_up([g EXCEPT !.left = m])
      BY <2>2, DeleteMinIs
    <3> HIDE DEF g
    <3>3. g \in Tree /\ g # NIL /\ g.left \in Tree /\ Size(g.left) < Size(h)
      BY <3>1, SmallerSubtrees DEF Same
    <3>4. m \in Tree
      BY <1>1, <3>1, <3>3
    <3> HIDE DEF m
    <3>5. [g EXCEPT !.left = m] \in Tree \ {NIL}
      BY <3>3, <3>4, TreeExcept
    <3>6. QED
      BY <3>2, <3>5, FixUpSame DEF Same
  <2>3. QED
    BY <2>1, <2>2
<1> HIDE DEF P
<1>2. Tree \subseteq P
  BY <1>1, SizeInduction DEF Inductive
<1>3. QED
  BY <1>2 DEF P

\* The tree that remove_node goes on to the right from.
Onward(h) == IF LeanRight(h).right = NIL THEN LeanRight(h) ELSE RedRight(LeanRight(h))

LEMMA OnwardSame ==
  ASSUME Heights = Nat, NEW h \in Tree, h # NIL
  PROVE  /\ Same(h, LeanRight(h)) /\ Same(h, Onward(h))
         /\ Onward(h).right = NIL => Onward(h) = LeanRight(h)
<1>1. Same(h, LeanRight(h))
  BY LeanRightSame
<1> DEFINE g == LeanRight(h)
<1>2. g \in Tree /\ g # NIL
  BY <1>1 DEF Same
<1>3. CASE g.right = NIL
  BY <1>1, <1>3 DEF Onward
<1>4. CASE g.right # NIL
  <2> DEFINE f == RedRight(g)
  <2> HIDE DEF g
  <2>1. Same(g, f)
    BY <1>2, RedRightSame
  <2>2. f.right # NIL
    <3>1. CASE ~RightPoor(g)
      BY <1>4, <3>1 DEF RedRight
    <3>2. CASE RightPoor(g)
      <4> DEFINE c == flip_colors(g)
      <4>1. f = move_red_right(g)
        BY <3>2 DEF RedRight
      <4>2. Same(g, c) /\ c.right = Toggled(g.right)
        <5>1. c.right = Toggled(g.right)
          BY DEF flip_colors, Node
        <5>2. QED
          BY <1>2, <5>1, FlipSame
      <4> HIDE DEF c
      <4>3. g.right \in Tree /\ c.right \in Tree /\ c.right # NIL /\ c \in Tree /\ c # NIL
        BY <1>2, <1>4, <4>2, TreeParts, ToggledIs DEF Same
      <4>4. CASE is_red(c.left) /\ is_red(c.left.left)
        <5> DEFINE d == rotate_right(c)
        <5>1. f = flip_colors(d)
          BY <4>1, <4>4 DEF move_red_right, c
        <5>2. f.right = Toggled(d.right) /\ d.right = Node(c.item, c.left.right, c.right, TRUE)
          BY <5>1 DEF flip_colors, rotate_right, Node
        <5>3. c.item \in Item /\ c.left.right \in Tree
          <6>1. c.item \in Item /\ c.left \in Tree /\ c.left # NIL
            BY <4>3, <4>4, TreeParts DEF is_red
          <6>2. QED
            BY <6>1, TreeParts
        <5> HIDE DEF d
        <5>4. d.right \in Tree /\ d.right # NIL
          BY <4>3, <5>2, <5>3, NodeType
        <5>5. QED
          BY <5>2, <5>4, ToggledIs
      <4>5. CASE ~(is_red(c.left) /\ is_red(c.left.left))
        BY <4>1, <4>3, <4>5 DEF move_red_right, c
      <4>6. QED
        BY <4>4, <4>5
    <3>3. QED
      BY <3>1, <3>2
  <2>3. Onward(h) = f
    BY <1>4 DEF Onward, g
  <2> HIDE DEF f
  <2>4. QED
    BY <1>1, <2>1, <2>2, <2>3, SameAgain DEF g
<1>5. QED
  BY <1>3, <1>4

\* The tree that remove_node goes on to the left from.
Downward(h) == IF h.left = NIL THEN h ELSE RedLeft(h)

LEMMA DownwardSame ==
  ASSUME Heights = Nat, NEW h \in Tree, h # NIL
  PROVE  Same(h, Downward(h))
BY RedLeftSame, SameItself DEF Downward

\* One step of remove_node, from what it does to the subtree it goes on with.
GoneLeft(h, r) == Without(fix_up([Downward(h) EXCEPT !.left = r.h]), r.out)

GoneRight(h, r) == Without(fix_up([Onward(h) EXCEPT !.right = r.h]), r.out)

GoneHere(f) ==
  Without(fix_up(Node(min_node(f.right).item, f.left, delete_min(f.right), f.red)), {f.item})

RemoveStep(h, k, l, r) ==
  IF h = NIL THEN Without(NIL, {})
  ELSE IF k < h.item.key THEN GoneLeft(h, l)
  ELSE IF k = Onward(h).item.key
    THEN IF Onward(h).right = NIL THEN Without(NIL, {Onward(h).item}) ELSE GoneHere(Onward(h))
  ELSE GoneRight(h, r)

Removals == [h : Tree, out : SUBSET Item]

LEMMA StepIs ==
  ASSUME Heights = Nat, NEW h \in Tree, NEW k, NEW f
  PROVE  RBRemoval(h, k, f) = RemoveStep(h, k, f[Downward(h).left], f[Onward(h).right])
<1>1. CASE h = NIL
  BY <1>1 DEF RBRemoval, RemoveStep
<1>2. CASE h # NIL /\ k < h.item.key
  BY <1>2 DEF RBRemoval, RemoveStep, RemovalLeft, GoneLeft, Downward
<1>3. CASE h # NIL /\ ~(k < h.item.key)
  <2> DEFINE g == LeanRight(h)
             n == Onward(h)
             r == f[n.right]
  <2>1. n.right = NIL <=> g.right = NIL
    BY <1>3, OnwardSame DEF Onward
  <2>2. n.right = NIL => n = g
    BY <1>3, OnwardSame
  <2>3. RBRemoval(h, k, f) = RemovalRight(h, k, f)
    BY <1>3 DEF RBRemoval
  <2>4. RemovalRight(h, k, f) =
          IF k = g.item.key /\ g.right = NIL THEN Without(NIL, {g.item})
          ELSE IF k = n.item.key THEN GoneHere(n)
          ELSE GoneRight(h, r)
    BY DEF RemovalRight, Onward, GoneHere, GoneRight
  <2> HIDE DEF g, r
  <2>5. QED
    BY <1>3, <2>1, <2>2, <2>3, <2>4 DEF RemoveStep, r
<1>4. QED
  BY <1>1, <1>2, <1>3

LEMMA StepType ==
  ASSUME Heights = Nat, NEW h \in Tree, NEW k, NEW l \in Removals, NEW r \in Removals
  PROVE  RemoveStep(h, k, l, r) \in Removals
<1>1. CASE h = NIL
  BY <1>1, TreeIs DEF RemoveStep, Without, Removals
<1>2. CASE h # NIL /\ k < h.item.key
  <2> DEFINE g == Downward(h)
             x == [g EXCEPT !.left = l.h]
  <2>1. g \in Tree /\ g # NIL /\ l.h \in Tree
    BY <1>2, DownwardSame DEF Same, Removals
  <2> HIDE DEF g
  <2>2. x \in Tree /\ x # NIL
    BY <2>1, TreeExcept
  <2> HIDE DEF x
  <2>3. fix_up(x) \in Tree
    BY <2>2, FixUpSame DEF Same
  <2>4. RemoveStep(h, k, l, r) = Without(fix_up(x), l.out)
    BY <1>2 DEF RemoveStep, GoneLeft, x, g
  <2>5. QED
    BY <2>3, <2>4 DEF Without, Removals
<1>3. CASE h # NIL /\ ~(k < h.item.key)
  <2> DEFINE f == Onward(h)
  <2>1. /\ f \in Tree /\ f # NIL /\ r.h \in Tree
        /\ f.item \in Item /\ f.left \in Tree /\ f.right \in Tree /\ f.red \in BOOLEAN
    <3>1. f \in Tree /\ f # NIL
      BY <1>3, OnwardSame DEF Same
    <3> HIDE DEF f
    <3>2. QED
      BY <3>1, TreeParts DEF Removals
  <2>2. CASE k = f.item.key /\ f.right = NIL
    <3>1. RemoveStep(h, k, l, r) = Without(NIL, {f.item})
      BY <1>3, <2>2 DEF RemoveStep
    <3>2. QED
      BY <2>1, <3>1, TreeIs DEF Without, Removals
  <2>3. CASE k = f.item.key /\ f.right # NIL
    <3> DEFINE x == Node(min_node(f.right).item, f.left, delete_min(f.right), f.red)
    <3>1. RemoveStep(h, k, l, r) = Without(fix_up(x), {f.item})
      BY <1>3, <2>3 DEF RemoveStep, GoneHere
    <3>2. min_node(f.right).item \in Item /\ delete_min(f.right) \in Tree
      BY <2>1, <2>3, MinType, DeleteMinType, TreeParts
    <3> HIDE DEF f
    <3>3. x \in Tree /\ x # NIL
      BY <2>1, <3>2, NodeType
    <3> HIDE DEF x
    <3>4. fix_up(x) \in Tree
      BY <3>3, FixUpSame DEF Same
    <3>5. QED
      BY <2>1, <3>1, <3>4 DEF Without, Removals
  <2>4. CASE k # f.item.key
    <3> DEFINE x == [f EXCEPT !.right = r.h]
    <3>1. RemoveStep(h, k, l, r) = Without(fix_up(x), r.out)
      BY <1>3, <2>4 DEF RemoveStep, GoneRight
    <3> HIDE DEF f
    <3>2. x \in Tree /\ x # NIL
      BY <2>1, TreeExcept
    <3> HIDE DEF x
    <3>3. fix_up(x) \in Tree
      BY <3>2, FixUpSame DEF Same
    <3>4. QED
      BY <3>1, <3>3 DEF Without, Removals
  <2>5. QED
    BY <2>2, <2>3, <2>4
<1>4. QED
  BY <1>1, <1>2, <1>3

LEMMA RemoveIs ==
  ASSUME Heights = Nat, NEW k
  PROVE  \A h \in Tree : rbtree_remove_node(h, k) =
           RemoveStep(h, k, rbtree_remove_node(Downward(h).left, k),
                            rbtree_remove_node(Onward(h).right, k))
<1> DEFINE V == Removals
           Step(h, f) == IF h = NIL THEN Without(NIL, {}) ELSE RBRemoval(h, k, f)
           step == [x \in Tree \X [Tree -> V] |-> Step(x[1], x[2])]
           rank == [h \in Tree |-> Size(h)]
           Is(f) == f = [h \in Tree |-> RBRemoval(h, k, f)]
<1>1. \A h \in Tree : h # NIL =>
        /\ Downward(h).left \in Tree /\ Size(Downward(h).left) < Size(h)
        /\ Onward(h).right \in Tree /\ Size(Onward(h).right) < Size(h)
  BY DownwardSame, OnwardSame, SmallerSubtrees
<1>2. \A h \in Tree : \A f : Step(h, f) = RBRemoval(h, k, f)
  BY DEF RBRemoval
<1>3. ASSUME NEW h \in Tree, NEW f \in [Tree -> V] PROVE Step(h, f) \in V
  <2>1. CASE h = NIL
    BY <2>1, TreeIs DEF Without, Removals
  <2>2. CASE h # NIL
    <3>1. f[Downward(h).left] \in Removals /\ f[Onward(h).right] \in Removals
      BY <1>1, <2>2
    <3>2. RBRemoval(h, k, f) \in Removals
      BY <3>1, StepIs, StepType
    <3>3. QED
      BY <2>2, <3>2
  <2>3. QED
    BY <2>1, <2>2
<1>4. ASSUME NEW h \in Tree, NEW f \in [Tree -> V], NEW g \in [Tree -> V],
             \A y \in Tree : rank[y] < rank[h] => f[y] = g[y]
      PROVE  Step(h, f) = Step(h, g)
  <2>1. CASE h = NIL
    BY <2>1
  <2>2. CASE h # NIL
    <3>1. /\ f[Downward(h).left] = g[Downward(h).left]
          /\ f[Onward(h).right] = g[Onward(h).right]
      BY <1>1, <1>4, <2>2
    <3>2. RBRemoval(h, k, f) = RBRemoval(h, k, g)
      BY <3>1, StepIs
    <3>3. QED
      BY <2>2, <3>2
  <2>3. QED
    BY <2>1, <2>2
<1>5. \A h \in Tree : rbtree_remove_node(h, k) = (CHOOSE f : Is(f))[h]
  BY DEF rbtree_remove_node
<1> HIDE DEF Step
<1>6. PICK f \in [Tree -> V] : \A h \in Tree : f[h] = step[<<h, f>>]
  <2>1. step \in [(Tree \X [Tree -> V]) -> V] /\ rank \in [Tree -> Nat]
    BY <1>3, SizeType
  <2>2. Without(NIL, {}) \in V
    BY TreeIs DEF Without, Removals
  <2>3. \A h \in Tree : \A f \in [Tree -> V] : step[<<h, f>>] = Step(h, f)
    OBVIOUS
  <2> HIDE DEF step, rank, V
  <2>4. LooksBelow(Tree, V, rank, step)
    BY <1>4, <2>3 DEF LooksBelow
  <2>5. Solvable(Tree, V, step)
    BY <2>1, <2>2, <2>4, RankRecursion
  <2>6. QED
    BY <2>5 DEF Solvable
<1>7. Is(f)
  BY <1>2, <1>6
<1> HIDE DEF Is
<1>8. Is(CHOOSE g : Is(g))
  BY <1>7
<1>9. \A h \in Tree : rbtree_remove_node(h, k) = RBRemoval(h, k, CHOOSE g : Is(g))
  BY <1>5, <1>8 DEF Is
<1> SUFFICES ASSUME NEW h \in Tree
             PROVE  rbtree_remove_node(h, k) =
                      RemoveStep(h, k, rbtree_remove_node(Downward(h).left, k),
                                       rbtree_remove_node(Onward(h).right, k))
  OBVIOUS
<1> DEFINE c == CHOOSE g : Is(g)
<1>10. rbtree_remove_node(h, k) = RemoveStep(h, k, c[Downward(h).left], c[Onward(h).right])
  BY <1>9, StepIs
<1>11. h # NIL => /\ c[Downward(h).left] = rbtree_remove_node(Downward(h).left, k)
                  /\ c[Onward(h).right] = rbtree_remove_node(Onward(h).right, k)
  BY <1>1, <1>5
<1> HIDE DEF c
<1>12. CASE h = NIL
  BY <1>10, <1>12 DEF RemoveStep
<1>13. CASE h # NIL
  BY <1>10, <1>11, <1>13
<1>14. QED
  BY <1>12, <1>13

-----------------------------------------------------------------------------
(***************************************************************************)
(* The way down.  A tree is able to lose an item when it or its left child *)
(* is red; a leaner is what move_red_right leaves on the right.            *)
(***************************************************************************)
Able(h, n) == Good(h, n) /\ (h = NIL \/ is_red(h) \/ is_red(h.left))

Leaner(h, n) ==
  /\ h # NIL /\ ~is_red(h) /\ n - 1 \in Nat
  /\ Black(h.left, n - 1) /\ Good(h.right, n - 1) /\ is_red(h.right)

\* g is h prepared for a removal on its left, f for one on its right.
SplitLeft(h, g, n) ==
  /\ \/ /\ g.red = FALSE /\ n - 1 \in Nat /\ (is_red(h) \/ ~is_red(g.right))
        /\ Able(g.left, n - 1) /\ Good(g.right, n - 1)
     \/ /\ g.red = TRUE /\ is_red(h)
        /\ Able(g.left, n) /\ Black(g.left, n) /\ Black(g.right, n)
  /\ g.item = h.item \/ g.item \in Items(h.right)

SplitRight(h, f, n) ==
  /\ \/ /\ f.red = FALSE /\ n - 1 \in Nat /\ (is_red(h) \/ ~is_red(f.left))
        /\ Good(f.left, n - 1) /\ Able(f.right, n - 1) /\ is_red(f.right)
     \/ /\ f.red = TRUE /\ is_red(h)
        /\ Black(f.left, n) /\ ~is_red(f.right)
        /\ Able(f.right, n) \/ (Leaner(f.right, n) /\ f.right.item = h.item)
  /\ f.item = h.item \/ f.item \in Items(h.left)

LEMMA GoodAgrees ==
  ASSUME Heights = Nat, NEW l \in Tree, NEW r \in Tree, NEW n \in Nat,
         Good(l, n), Good(r, n), l = NIL, ~is_red(r)
  PROVE  r = NIL /\ n = 0
<1>1. n = 0
  BY GoodNil
<1>2. r = NIL
  <2>1. ASSUME r # NIL PROVE FALSE
    <3>1. n - 1 \in Nat
      BY <2>1, BlackParts DEF Black
    <3>2. QED
      BY <1>1, <3>1
  <2>2. QED
    BY <2>1
<1>3. QED
  BY <1>1, <1>2

\* A node both of whose children are 2-nodes, or NIL.
LEMMA Flipped ==
  ASSUME Heights = Nat, NEW h \in Tree, NEW n \in Nat, Good(h, n), is_red(h),
         h.left # NIL, h.right # NIL
  PROVE  LET f == flip_colors(h)
         IN /\ n - 1 \in Nat
            /\ f \in Tree /\ f # NIL /\ f.red = FALSE /\ f.item = h.item
            /\ f.left = Toggled(h.left) /\ f.right = Toggled(h.right)
            /\ f.left # NIL /\ f.right # NIL
            /\ f.left.left = h.left.left /\ f.right.left = h.right.left
            /\ is_red(f.left) /\ is_red(f.right)
            /\ ~is_red(h.left.left) => Good(f.left, n - 1)
            /\ ~is_red(h.right.left) => Good(f.right, n - 1)
<1> DEFINE f == flip_colors(h)
<1>1. /\ h # NIL /\ h.item \in Item /\ h.left \in Tree /\ h.right \in Tree /\ h.red = TRUE
      /\ Black(h.left, n) /\ Black(h.right, n)
  BY RedParts
<1>2. f.item = h.item /\ f.left = Toggled(h.left) /\ f.right = Toggled(h.right)
  BY DEF flip_colors, Node
<1>3. f.red = FALSE
  <2>1. f.red = ~h.red
    BY DEF flip_colors, Node
  <2>2. (~h.red) = FALSE
    BY <1>1
  <2>3. QED
    BY <2>1, <2>2
<1>4. f \in Tree /\ f # NIL
  BY <1>1, FlipSame DEF Same
<1>5. n - 1 \in Nat
  BY <1>1, BlackParts
<1>6. /\ ~is_red(h.left.left) => Good(f.left, n - 1)
      /\ ~is_red(h.right.left) => Good(f.right, n - 1)
  BY <1>1, <1>2, ToggledBlack
<1>7. ASSUME NEW t \in Tree, t # NIL, Black(t, n)
      PROVE  Toggled(t) # NIL /\ Toggled(t).left = t.left /\ is_red(Toggled(t))
  <2>1. t.red = FALSE
    BY <1>7, BlackParts
  <2>2. Toggled(t) # NIL /\ Toggled(t).left = t.left /\ Toggled(t).red = ~t.red
    BY <1>7, ToggledIs
  <2>3. (~t.red) = TRUE
    BY <2>1
  <2>4. QED
    BY <2>2, <2>3 DEF is_red
<1> HIDE DEF f
<1>8. /\ f.left # NIL /\ f.left.left = h.left.left /\ is_red(f.left)
      /\ f.right # NIL /\ f.right.left = h.right.left /\ is_red(f.right)
  BY <1>1, <1>2, <1>7
<1>9. QED
  BY <1>2, <1>3, <1>4, <1>5, <1>6, <1>8 DEF f

\* move_red_left where the right child has a red to lend.
LEMMA LentLeft ==
  ASSUME Heights = Nat, NEW h \in Tree, NEW n \in Nat, Good(h, n), is_red(h),
         h.left # NIL, h.right # NIL, ~is_red(h.left.left), is_red(h.right.left)
  PROVE  SplitLeft(h, move_red_left(h), n)
<1> DEFINE f == flip_colors(h)
           r == h.right
           rl == r.left
           s == rotate_right(f.right)
           e == [f EXCEPT !.right = s]
           d == rotate_left(e)
           p == Node(h.item, f.left, rl.left, TRUE)
           q == Node(r.item, rl.right, r.right, TRUE)
           g == flip_colors(d)
<1>1. /\ h.item \in Item /\ h.left \in Tree /\ r \in Tree
      /\ Black(h.left, n) /\ Black(r, n)
  BY RedParts
<1>2. /\ r.item \in Item /\ rl \in Tree /\ r.right \in Tree
      /\ n - 1 \in Nat /\ Good(rl, n - 1) /\ Black(r.right, n - 1)
  BY <1>1, BlackParts
<1>3. /\ rl # NIL /\ rl.item \in Item /\ rl.left \in Tree /\ rl.right \in Tree
      /\ Black(rl.left, n - 1) /\ Black(rl.right, n - 1)
  BY <1>2, RedParts
<1>4. /\ f \in Tree /\ f # NIL /\ f.red = FALSE /\ f.item = h.item
      /\ f.left = Toggled(h.left) /\ f.right = Toggled(r) /\ f.right # NIL
      /\ is_red(f.left) /\ is_red(f.right) /\ f.right.left = rl
      /\ Good(f.left, n - 1)
  BY Flipped
<1>5. f.left \in Tree /\ f.right \in Tree
  BY <1>4, TreeParts
<1>6. f.right.item = r.item /\ f.right.right = r.right
  BY <1>1, <1>4, ToggledIs
<1>7. f.right.red = TRUE
  <2>1. f.right.red \in BOOLEAN
    BY <1>4, <1>5, TreeParts
  <2>2. QED
    BY <1>4, <2>1 DEF is_red
<1> HIDE DEF f
<1>8. s.item = rl.item /\ s.left = rl.left /\ s.right = q
  BY <1>4, <1>6 DEF rotate_right, Node
<1>9. s \in Tree
  BY <1>4, <1>5, <1>3, RotateRightSame DEF Same
<1> HIDE DEF s
<1>10. e.item = h.item /\ e.left = f.left /\ e.right = s /\ e.red = FALSE
  <2>1. e = Node(f.item, f.left, s, f.red)
    BY <1>4, <1>9, TreeExcept
  <2>2. QED
    BY <1>4, <2>1 DEF Node
<1> HIDE DEF e
<1>11. d.item = rl.item /\ d.left = p /\ d.right = q /\ d.red = FALSE
  BY <1>8, <1>10 DEF rotate_left, Node
<1> HIDE DEF d
<1>12. g.item = rl.item /\ g.left = Toggled(p) /\ g.right = Toggled(q)
  BY <1>11 DEF flip_colors, Node
<1>13. g.red = TRUE
  <2>1. g.red = ~d.red
    BY DEF flip_colors, Node
  <2>2. (~d.red) = TRUE
    BY <1>11
  <2>3. QED
    BY <2>1, <2>2
<1>14. move_red_left(h) = g
  BY <1>4 DEF move_red_left, f, s, e, d
<1>15. /\ Toggled(p) = Node(h.item, f.left, rl.left, FALSE)
       /\ Toggled(q) = Node(r.item, rl.right, r.right, FALSE)
  <2>1. ASSUME NEW it \in Item, NEW a \in Tree, NEW b \in Tree
        PROVE  Toggled(Node(it, a, b, TRUE)) = Node(it, a, b, FALSE)
    <3> DEFINE t == Node(it, a, b, TRUE)
    <3>1. t \in Tree /\ t # NIL
      BY NodeType
    <3>2. t.item = it /\ t.left = a /\ t.right = b /\ t.red = TRUE
      BY DEF Node
    <3> HIDE DEF t
    <3>3. Toggled(t) = Node(t.item, t.left, t.right, ~t.red)
      BY <3>1, ToggledIs
    <3>4. (~t.red) = FALSE
      BY <3>2
    <3>5. Toggled(t) = Node(it, a, b, FALSE)
      BY <3>2, <3>3, <3>4
    <3>6. QED
      BY <3>5 DEF t
  <2>2. QED
    BY <1>1, <1>2, <1>3, <1>5, <2>1
<1> DEFINE m == n - 1
<1>16. m \in Nat /\ m + 1 = n
  BY <1>2
<1>17. /\ Black(Node(h.item, f.left, rl.left, FALSE), m + 1)
       /\ Black(Node(r.item, rl.right, r.right, FALSE), m + 1)
  <2> HIDE DEF m
  <2>1. Good(f.left, m) /\ Black(rl.left, m) /\ Good(rl.right, m) /\ Black(r.right, m)
    BY <1>2, <1>3, <1>4 DEF m, Black
  <2>2. QED
    BY <1>1, <1>2, <1>3, <1>5, <1>16, <2>1, GoodNode
<1>18. Black(g.left, n) /\ Black(g.right, n)
  BY <1>12, <1>15, <1>16, <1>17
<1>19. g.left.left = f.left
  BY <1>12, <1>15 DEF Node
<1>20. rl.item \in Items(r)
  <2>1. /\ Items(r) = Items(rl) \cup {r.item} \cup Items(r.right)
        /\ Items(rl) = Items(rl.left) \cup {rl.item} \cup Items(rl.right)
    <3>1. r # NIL /\ rl # NIL
      BY <1>3
    <3>2. QED
      BY <1>1, <1>2, <3>1, HeldParts
  <2>2. QED
    BY <2>1
<1> HIDE DEF g
<1>21. Able(g.left, n)
  BY <1>4, <1>18, <1>19 DEF Able, Black
<1>22. QED
  BY <1>12, <1>13, <1>14, <1>18, <1>20, <1>21 DEF SplitLeft

LEMMA DownwardSplits ==
  ASSUME Heights = Nat, NEW h \in Tree, h # NIL, NEW n \in Nat, Able(h, n)
  PROVE  SplitLeft(h, Downward(h), n)
<1> DEFINE g == Downward(h)
<1>1. /\ h.item \in Item /\ h.left \in Tree /\ h.right \in Tree /\ Good(h, n)
      /\ is_red(h) \/ is_red(h.left)
  BY TreeParts DEF Able
<1>2. is_red(h) => h.red = TRUE /\ Black(h.left, n) /\ Black(h.right, n)
  BY <1>1, RedParts
<1>3. CASE ~is_red(h)
  <2>1. h.left # NIL /\ g = h
    BY <1>1, <1>3 DEF is_red, Downward, RedLeft, LeftPoor
  <2>2. h.red = FALSE /\ n - 1 \in Nat /\ Good(h.left, n - 1) /\ Black(h.right, n - 1)
    BY <1>1, <1>3, BlackParts DEF Black
  <2>3. QED
    BY <1>1, <1>3, <2>1, <2>2 DEF SplitLeft, Able, Black
<1>4. CASE is_red(h) /\ h.left = NIL
  <2>1. g = h
    BY <1>4 DEF Downward
  <2>2. Able(h.left, n)
    BY <1>2, <1>4 DEF Able, Black
  <2>3. QED
    BY <1>2, <1>4, <2>1, <2>2 DEF SplitLeft
<1>5. CASE is_red(h) /\ h.left # NIL /\ is_red(h.left.left)
  <2>1. g = h
    BY <1>5 DEF Downward, RedLeft, LeftPoor
  <2>2. Able(h.left, n)
    BY <1>2, <1>5 DEF Able, Black
  <2>3. QED
    BY <1>2, <1>5, <2>1, <2>2 DEF SplitLeft
<1>6. CASE is_red(h) /\ h.left # NIL /\ ~is_red(h.left.left)
  <2>1. g = move_red_left(h)
    BY <1>2, <1>6 DEF Downward, RedLeft, LeftPoor, Black
  <2>2. h.right # NIL
    <3>1. ASSUME h.right = NIL PROVE FALSE
      BY <1>1, <1>2, <1>6, <3>1, GoodAgrees DEF Black
    <3>2. QED
      BY <3>1
  <2>3. CASE is_red(h.right.left)
    BY <1>1, <1>6, <2>1, <2>2, <2>3, LentLeft
  <2>4. CASE ~is_red(h.right.left)
    <3> DEFINE f == flip_colors(h)
    <3>1. /\ n - 1 \in Nat /\ f.red = FALSE /\ f.item = h.item
          /\ f.right.left = h.right.left
          /\ is_red(f.left) /\ is_red(f.right)
          /\ Good(f.left, n - 1) /\ Good(f.right, n - 1)
      BY <1>1, <1>6, <2>2, <2>4, Flipped
    <3> HIDE DEF f
    <3>2. move_red_left(h) = f
      BY <2>4, <3>1 DEF move_red_left, f
    <3>3. QED
      BY <1>6, <2>1, <3>1, <3>2 DEF SplitLeft, Able
  <2>5. QED
    BY <2>3, <2>4
<1>7. QED
  BY <1>3, <1>4, <1>5, <1>6

LEMMA ToggledNode ==
  ASSUME Heights = Nat, NEW it \in Item, NEW a \in Tree, NEW b \in Tree
  PROVE  Toggled(Node(it, a, b, TRUE)) = Node(it, a, b, FALSE)
<1> DEFINE t == Node(it, a, b, TRUE)
<1>1. t \in Tree /\ t # NIL
  BY NodeType
<1>2. t.item = it /\ t.left = a /\ t.right = b /\ t.red = TRUE
  BY DEF Node
<1> HIDE DEF t
<1>3. Toggled(t) = Node(t.item, t.left, t.right, ~t.red)
  BY <1>1, ToggledIs
<1>4. (~t.red) = FALSE
  BY <1>2
<1>5. Toggled(t) = Node(it, a, b, FALSE)
  BY <1>2, <1>3, <1>4
<1>6. QED
  BY <1>5 DEF t

\* move_red_right where the left child has a red to lend: the right becomes a leaner.
LEMMA LentRight ==
  ASSUME Heights = Nat, NEW h \in Tree, NEW n \in Nat, Good(h, n), is_red(h),
         h.left # NIL, h.right # NIL, is_red(h.left.left), ~is_red(h.right.left)
  PROVE  SplitRight(h, move_red_right(h), n)
<1> DEFINE f == flip_colors(h)
           l == h.left
           ll == l.left
           q == Node(h.item, l.right, f.right, TRUE)
           d == rotate_right(f)
           g == flip_colors(d)
<1>1. /\ h.item \in Item /\ l \in Tree /\ h.right \in Tree
      /\ Black(l, n) /\ Black(h.right, n)
  BY RedParts
<1>2. /\ l.item \in Item /\ ll \in Tree /\ l.right \in Tree
      /\ n - 1 \in Nat /\ Good(ll, n - 1) /\ Black(l.right, n - 1)
  BY <1>1, BlackParts
<1>3. /\ f \in Tree /\ f # NIL /\ f.red = FALSE /\ f.item = h.item
      /\ f.left = Toggled(l) /\ f.left # NIL /\ f.right # NIL
      /\ is_red(f.left) /\ is_red(f.right) /\ f.left.left = ll
      /\ Good(f.right, n - 1)
  BY Flipped
<1>4. f.left \in Tree /\ f.right \in Tree
  BY <1>3, TreeParts
<1>5. f.left.item = l.item /\ f.left.right = l.right
  BY <1>1, <1>3, ToggledIs
<1> HIDE DEF f
<1>6. d.item = l.item /\ d.left = ll /\ d.right = q /\ d.red = FALSE
  BY <1>3, <1>5 DEF rotate_right, Node
<1> HIDE DEF d
<1>7. g.item = l.item /\ g.left = Toggled(ll) /\ g.right = Toggled(q)
  BY <1>6 DEF flip_colors, Node
<1>8. g.red = TRUE
  <2>1. g.red = ~d.red
    BY DEF flip_colors, Node
  <2>2. (~d.red) = TRUE
    BY <1>6
  <2>3. QED
    BY <2>1, <2>2
<1>9. move_red_right(h) = g
  BY <1>3 DEF move_red_right, f, d
<1>10. Toggled(q) = Node(h.item, l.right, f.right, FALSE)
  BY <1>1, <1>2, <1>4, ToggledNode
<1>11. /\ g.right # NIL /\ g.right.item = h.item /\ g.right.red = FALSE
       /\ g.right.left = l.right /\ g.right.right = f.right
  <2>1. Node(h.item, l.right, f.right, FALSE) \in Tree \ {NIL}
    BY <1>1, <1>2, <1>4, NodeType
  <2>2. QED
    BY <1>7, <1>10, <2>1 DEF Node
<1> HIDE DEF g
<1>12. Black(g.left, n)
  <2> DEFINE m == n - 1
  <2>1. m \in Nat /\ Good(ll, m) /\ m + 1 = n
    BY <1>2
  <2> HIDE DEF m
  <2>2. Black(Toggled(ll), m + 1)
    BY <1>2, <2>1, ToggledRed
  <2>3. QED
    BY <1>7, <2>1, <2>2
<1>13. Leaner(g.right, n) /\ ~is_red(g.right)
  BY <1>2, <1>3, <1>11 DEF Leaner, is_red
<1>14. l.item \in Items(l)
  BY <1>1, HeldParts
<1>15. QED
  BY <1>7, <1>8, <1>9, <1>11, <1>12, <1>13, <1>14 DEF SplitRight

LEMMA OnwardSplits ==
  ASSUME Heights = Nat, NEW h \in Tree, h # NIL, NEW n \in Nat, Able(h, n) \/ Leaner(h, n)
  PROVE  SplitRight(h, Onward(h), n)
<1>1. /\ h.item \in Item /\ h.left \in Tree /\ h.right \in Tree /\ h.red \in BOOLEAN
  BY TreeParts
<1>2. CASE Leaner(h, n)
  <2>1. h.red = FALSE /\ ~is_red(h.left) /\ h.right # NIL
    BY <1>1, <1>2 DEF Leaner, is_red, Black
  <2>2. Onward(h) = h
    BY <1>2, <2>1 DEF Onward, LeanRight, RedRight, RightPoor, Leaner
  <2>3. QED
    BY <1>2, <2>1, <2>2 DEF SplitRight, Leaner, Able, Black
<1>3. CASE Able(h, n) /\ ~is_red(h)
  <2> DEFINE l == h.left
             r == Node(h.item, l.right, h.right, TRUE)
             f == rotate_right(h)
             m == n - 1
  <2>1. h.red = FALSE /\ is_red(l) /\ l # NIL
    BY <1>1, <1>3 DEF Able, is_red
  <2>2. m \in Nat /\ Good(l, m) /\ Black(h.right, m)
    BY <1>3, BlackParts DEF Able, Black
  <2> HIDE DEF m
  <2>3. l.item \in Item /\ l.left \in Tree /\ l.right \in Tree /\ Black(l.left, m) /\ Black(l.right, m)
    BY <1>1, <2>1, <2>2, RedParts
  <2>4. r \in Tree /\ r # NIL
    BY <1>1, <2>3, NodeType
  <2>5. Good(r, m) /\ is_red(r)
    BY <1>1, <2>2, <2>3, GoodNode
  <2>6. r.left = l.right
    BY DEF Node
  <2> HIDE DEF r
  <2>7. f.item = l.item /\ f.left = l.left /\ f.right = r /\ f.red = FALSE
    BY <2>1 DEF rotate_right, Node, r
  <2>8. Onward(h) = f
    BY <2>1, <2>4, <2>5, <2>7 DEF Onward, LeanRight, RedRight, RightPoor
  <2>9. l.item \in Items(l)
    BY <1>1, <2>1, HeldParts
  <2> HIDE DEF f
  <2>10. QED
    BY <2>2, <2>3, <2>5, <2>7, <2>8, <2>9 DEF SplitRight, Able, Black, m
<1>4. CASE Able(h, n) /\ is_red(h)
  <2>1. h.red = TRUE /\ Black(h.left, n) /\ Black(h.right, n) /\ ~is_red(h.left) /\ ~is_red(h.right)
    BY <1>4, RedParts DEF Able
  <2>2. LeanRight(h) = h
    BY <2>1 DEF LeanRight
  <2>3. CASE h.right = NIL
    <3>1. Onward(h) = h /\ Able(h.right, n)
      BY <2>1, <2>2, <2>3 DEF Onward, Able, Black
    <3>2. QED
      BY <1>4, <2>1, <3>1 DEF SplitRight
  <2>4. CASE h.right # NIL /\ is_red(h.right.left)
    <3>1. Onward(h) = h /\ Able(h.right, n)
      BY <2>1, <2>2, <2>4 DEF Onward, RedRight, RightPoor, Able, Black
    <3>2. QED
      BY <1>4, <2>1, <3>1 DEF SplitRight
  <2>5. CASE h.right # NIL /\ ~is_red(h.right.left)
    <3>1. Onward(h) = move_red_right(h)
      BY <2>1, <2>2, <2>5 DEF Onward, RedRight, RightPoor
    <3>2. h.left # NIL
      <4>1. ASSUME h.left = NIL PROVE FALSE
        BY <1>1, <2>1, <2>5, <4>1, GoodAgrees DEF Black
      <4>2. QED
        BY <4>1
    <3>3. CASE is_red(h.left.left)
      BY <1>4, <2>5, <3>1, <3>2, <3>3, LentRight DEF Able
    <3>4. CASE ~is_red(h.left.left)
      <4> DEFINE f == flip_colors(h)
      <4>1. /\ n - 1 \in Nat /\ f.red = FALSE /\ f.item = h.item
            /\ f.left.left = h.left.left
            /\ is_red(f.left) /\ is_red(f.right)
            /\ Good(f.left, n - 1) /\ Good(f.right, n - 1)
        BY <1>4, <2>5, <3>2, <3>4, Flipped DEF Able
      <4> HIDE DEF f
      <4>2. move_red_right(h) = f
        BY <3>4, <4>1 DEF move_red_right, f
      <4>3. QED
        BY <1>4, <3>1, <4>1, <4>2 DEF SplitRight, Able
    <3>5. QED
      BY <3>3, <3>4
  <2>6. QED
    BY <2>3, <2>4, <2>5
<1>5. QED
  BY <1>2, <1>3, <1>4

(***************************************************************************)
(* The way back: what has lost an item is good again, and red only if it   *)
(* was red before.                                                         *)
(***************************************************************************)
Shrunk(h, n, x) == x \in Tree /\ Good(x, n) /\ (is_red(h) \/ ~is_red(x))

LEMMA MendedLeft ==
  ASSUME Heights = Nat, NEW h, NEW g \in Tree, g # NIL, NEW n \in Nat, SplitLeft(h, g, n),
         NEW x, \A m \in Nat : Able(g.left, m) => Shrunk(g.left, m, x)
  PROVE  Shrunk(h, n, fix_up([g EXCEPT !.left = x]))
<1>1. g.item \in Item /\ g.right \in Tree /\ g.left \in Tree /\ g.red \in BOOLEAN
  BY TreeParts
<1> DEFINE e == [g EXCEPT !.left = x]
<1>2. x \in Tree
  BY DEF SplitLeft, Shrunk
<1>3. e = Node(g.item, x, g.right, g.red)
  BY <1>2, TreeExcept
<1>4. fix_up(e) \in Tree
  <2>1. Node(g.item, x, g.right, g.red) \in Tree \ {NIL}
    BY <1>1, <1>2, NodeType
  <2> HIDE DEF e
  <2>2. QED
    BY <1>3, <2>1, FixUpSame DEF Same
<1>5. CASE /\ g.red = FALSE /\ n - 1 \in Nat /\ (is_red(h) \/ ~is_red(g.right))
           /\ Able(g.left, n - 1) /\ Good(g.right, n - 1)
  <2> DEFINE m == n - 1
  <2>1. m \in Nat /\ m + 1 = n /\ Good(x, m) /\ Good(g.right, m)
    BY <1>5 DEF Shrunk
  <2> HIDE DEF m, e
  <2>2. /\ Good(fix_up(e), m + 1)
        /\ ~(is_red(x) /\ is_red(g.right)) => ~is_red(fix_up(e))
    BY <1>1, <1>2, <1>3, <1>5, <2>1, FixBlack
  <2>3. QED
    BY <1>4, <1>5, <2>1, <2>2 DEF Shrunk, e
<1>6. CASE /\ g.red = TRUE /\ is_red(h)
           /\ Able(g.left, n) /\ Black(g.left, n) /\ Black(g.right, n)
  <2>1. Black(x, n)
    BY <1>6 DEF Shrunk, Black
  <2> HIDE DEF e
  <2>2. Good(fix_up(e), n)
    BY <1>1, <1>2, <1>3, <1>6, <2>1, FixRed
  <2>3. QED
    BY <1>4, <1>6, <2>2 DEF Shrunk, e
<1>7. QED
  BY <1>5, <1>6 DEF SplitLeft

LEMMA MendedRight ==
  ASSUME Heights = Nat, NEW h, NEW g, NEW f \in Tree, f # NIL, NEW n \in Nat,
         SplitRight(h, f, n), NEW x, NEW it \in Item, g = Node(it, f.left, x, f.red),
         \A m \in Nat : Able(f.right, m) \/ (Leaner(f.right, m) /\ f.right.item = h.item) =>
           Shrunk(f.right, m, x)
  PROVE  Shrunk(h, n, fix_up(g))
<1>1. f.item \in Item /\ f.right \in Tree /\ f.left \in Tree /\ f.red \in BOOLEAN
  BY TreeParts
<1>2. x \in Tree
  BY DEF SplitRight, Shrunk
<1>3. g \in Tree \ {NIL}
  BY <1>1, <1>2, NodeType
<1>4. fix_up(g) \in Tree
  BY <1>3, FixUpSame DEF Same
<1>5. CASE /\ f.red = FALSE /\ n - 1 \in Nat /\ (is_red(h) \/ ~is_red(f.left))
           /\ Good(f.left, n - 1) /\ Able(f.right, n - 1) /\ is_red(f.right)
  <2> DEFINE m == n - 1
  <2>1. m \in Nat /\ m + 1 = n /\ Good(x, m) /\ Good(f.left, m)
    BY <1>5 DEF Shrunk
  <2> HIDE DEF m
  <2>2. /\ Good(fix_up(g), m + 1)
        /\ ~(is_red(f.left) /\ is_red(x)) => ~is_red(fix_up(g))
    BY <1>1, <1>2, <1>5, <2>1, FixBlack
  <2>3. QED
    BY <1>4, <1>5, <2>1, <2>2 DEF Shrunk
<1>6. CASE /\ f.red = TRUE /\ is_red(h)
           /\ Black(f.left, n) /\ ~is_red(f.right)
           /\ Able(f.right, n) \/ (Leaner(f.right, n) /\ f.right.item = h.item)
  <2>1. Black(x, n)
    BY <1>6 DEF Shrunk, Black
  <2>2. Good(fix_up(g), n)
    BY <1>1, <1>2, <1>6, <2>1, FixRed
  <2>3. QED
    BY <1>4, <1>6, <2>2 DEF Shrunk
<1>7. QED
  BY <1>5, <1>6 DEF SplitRight

\* A red leaf is all there is where there is nothing on the left.
LEMMA AbleLeaf ==
  ASSUME Heights = Nat, NEW h \in Tree, h # NIL, NEW n \in Nat, Able(h, n), h.left = NIL
  PROVE  n = 0 /\ h.right = NIL /\ is_red(h)
<1>1. is_red(h)
  BY DEF Able, is_red
<1>2. Black(h.left, n) /\ Black(h.right, n) /\ h.left \in Tree /\ h.right \in Tree
  BY <1>1, RedParts DEF Able
<1>3. QED
  BY <1>1, <1>2, GoodAgrees DEF Black

LEMMA RemovedSame ==
  ASSUME NEW h, NEW g, NEW x, NEW y, NEW k, Same(h, g), Removed(g, x, k), Same(x, y)
  PROVE  Removed(h, y, k)
<1>1. Items(g) = Items(h) /\ (Ordered(g) <=> Ordered(h)) /\ Items(y) = Items(x) /\ (Ordered(y) <=> Ordered(x))
  BY SameItems
<1>2. y \in Tree
  BY DEF Same
<1>3. QED
  BY <1>1, <1>2 DEF Removed

LEMMA MinSame ==
  ASSUME Heights = Nat, NEW h \in Tree, h # NIL, NEW g, Same(h, g), Ordered(h)
  PROVE  min_node(g).item = min_node(h).item
<1>1. g \in Tree /\ g # NIL
  BY DEF Same
<1>2. Items(g) = Items(h) /\ Ordered(g)
  BY SameItems
<1> DEFINE a == min_node(h).item
           b == min_node(g).item
<1>3. a \in Items(h) /\ b \in Items(h)
  BY <1>1, <1>2, MinType
<1>4. (b = a \/ a.key < b.key) /\ (a = b \/ b.key < a.key)
  BY <1>1, <1>2, <1>3, MinLeast
<1>5. a.key \in Int /\ b.key \in Int
  BY <1>3, OrderedParts
<1> HIDE DEF a, b
<1>6. a = b
  BY <1>4, <1>5
<1>7. QED
  BY <1>6 DEF a, b

\* What delete_min promises of a tree that is able to lose an item.
DropsMin(h) ==
  \A n \in Nat : Able(h, n) =>
    /\ Shrunk(h, n, delete_min(h))
    /\ Ordered(h) => Removed(h, delete_min(h), min_node(h).item.key)

LEMMA DropsLeaf ==
  ASSUME Heights = Nat, NEW h \in Tree, h # NIL, h.left = NIL
  PROVE  DropsMin(h)
<1> SUFFICES ASSUME NEW n \in Nat, Able(h, n)
             PROVE  /\ Shrunk(h, n, NIL)
                    /\ Ordered(h) => Removed(h, NIL, min_node(h).item.key)
  BY DeleteMinIs DEF DropsMin
<1>1. n = 0 /\ h.right = NIL
  BY AbleLeaf
<1>2. NIL \in Tree /\ Items(NIL) = {} /\ Ordered(NIL)
  BY EmptyTree
<1>3. Shrunk(h, n, NIL)
  BY <1>1, <1>2, GoodNil DEF Shrunk, Black
<1>4. min_node(h) = h
  BY MinIs
<1>5. Items(h) = Items(NIL) \cup {h.item} \cup Items(NIL)
  BY <1>1, HeldParts
<1>6. QED
  BY <1>2, <1>3, <1>4, <1>5 DEF Removed

LEMMA DropsBelow ==
  ASSUME Heights = Nat, NEW h \in Tree, h # NIL, h.left # NIL,
         DropsMin(Downward(h).left)
  PROVE  DropsMin(h)
<1> DEFINE g == Downward(h)
           x == delete_min(g.left)
           e == [g EXCEPT !.left = x]
           d == delete_min(h)
<1>1. Same(h, g) /\ g.left # NIL
  BY RedLeftSame DEF Downward
<1>2. g \in Tree /\ g # NIL
  BY <1>1 DEF Same
<1>3. g.left \in Tree \ {NIL} /\ g.item \in Item
  BY <1>1, <1>2, TreeParts
<1>4. d = fix_up(e)
  BY DeleteMinIs DEF Downward
<1>5. x \in Tree
  BY <1>3, DeleteMinType
<1> HIDE DEF d, g
<1> SUFFICES ASSUME NEW n \in Nat, Able(h, n)
             PROVE  /\ Shrunk(h, n, d)
                    /\ Ordered(h) => Removed(h, d, min_node(h).item.key)
  BY DEF DropsMin, d
<1>6. SplitLeft(h, g, n)
  BY DownwardSplits DEF g
<1>7. \A m \in Nat : Able(g.left, m) => Shrunk(g.left, m, x)
  BY DEF DropsMin, g
<1>8. Shrunk(h, n, d)
  <2> HIDE DEF x
  <2>1. QED
    BY <1>2, <1>4, <1>6, <1>7, MendedLeft
<1>9. ASSUME Ordered(h) PROVE Removed(h, d, min_node(h).item.key)
  <2> DEFINE k == min_node(g.left).item.key
  <2>1. Ordered(g) /\ min_node(g).item = min_node(h).item
    BY <1>1, <1>9, MinSame, SameItems
  <2>2. min_node(g) = min_node(g.left)
    BY <1>1, <1>2, MinIs
  <2>3. Ordered(g.left) /\ min_node(g.left).item \in Items(g.left)
    BY <1>2, <1>3, <2>1, OrderedParts, MinType
  <2>4. k < g.item.key /\ k \in Int
    BY <1>2, <1>3, <2>1, <2>3, OrderedParts
  <2>5. Removed(g.left, x, k)
    <3>1. \E m \in Nat : Able(g.left, m)
      BY <1>6 DEF SplitLeft
    <3>2. QED
      BY <2>3, <3>1 DEF DropsMin, g
  <2> HIDE DEF k, x
  <2>6. Removed(g, e, k)
    BY <1>2, <2>4, <2>5, RemovedBelow
  <2>7. Joins(e, g.item, x, g.right)
    BY <1>2, <1>5, ExceptJoins
  <2> HIDE DEF e
  <2>8. Same(e, d)
    BY <1>4, <2>7, FixUpSame DEF Joins
  <2>9. Removed(h, d, k)
    BY <1>1, <2>6, <2>8, RemovedSame
  <2>10. QED
    BY <2>1, <2>2, <2>9 DEF k
<1>10. QED
  BY <1>8, <1>9

LEMMA DeleteMinKeeps ==
  ASSUME Heights = Nat
  PROVE  \A h \in Tree \ {NIL} : DropsMin(h)
<1> DEFINE P == {h \in Tree : h # NIL => DropsMin(h)}
<1>1. ASSUME NEW h \in Tree, \A t \in Tree : Size(t) < Size(h) => t \in P PROVE h \in P
  <2> SUFFICES ASSUME h # NIL PROVE DropsMin(h)
    OBVIOUS
  <2>1. CASE h.left = NIL
    BY <2>1, DropsLeaf
  <2>2. CASE h.left # NIL
    <3>1. Same(h, Downward(h)) /\ Downward(h).left # NIL
      BY <2>2, RedLeftSame DEF Downward
    <3>2. Downward(h).left \in P
      BY <1>1, <3>1, SmallerSubtrees
    <3>3. QED
      BY <2>2, <3>1, <3>2, DropsBelow
  <2>3. QED
    BY <2>1, <2>2
<1> HIDE DEF P
<1>2. Tree \subseteq P
  BY <1>1, SizeInduction DEF Inductive
<1>3. QED
  BY <1>2 DEF P

-----------------------------------------------------------------------------
(***************************************************************************)
(* remove_node takes the key's item out, if there is one, and leaves a     *)
(* balanced tree of the same black height.                                 *)
(***************************************************************************)
Fit(h, n, k) == Able(h, n) \/ (Leaner(h, n) /\ h.item.key <= k)

Taken(h, n, k, x) ==
  /\ Shrunk(h, n, x.h)
  /\ Removed(h, x.h, k)
  /\ x.out = {y \in Items(h) : y.key = k}

LEMMA TakenLeft ==
  ASSUME Heights = Nat, NEW h \in Tree, h # NIL, NEW n \in Nat, Able(h, n), Ordered(h),
         NEW k \in Int, k < h.item.key, NEW r,
         \A m \in Nat : Fit(Downward(h).left, m, k) => Taken(Downward(h).left, m, k, r)
  PROVE  Taken(h, n, k, GoneLeft(h, r))
<1> DEFINE g == Downward(h)
           e == [g EXCEPT !.left = r.h]
           d == fix_up(e)
<1>1. Same(h, g) /\ SplitLeft(h, g, n)
  BY DownwardSame, DownwardSplits
<1>2. g \in Tree /\ g # NIL /\ Items(g) = Items(h) /\ Ordered(g)
  BY <1>1, SameItems DEF Same
<1> HIDE DEF g
<1>3. /\ g.item \in Item /\ g.left \in Tree /\ g.right \in Tree
      /\ Items(g) = Items(g.left) \cup {g.item} \cup Items(g.right)
      /\ \A y \in Items(g) : y.key \in Int
      /\ \A y \in Items(g.left) : y.key < g.item.key
      /\ \A y \in Items(g.right) : g.item.key < y.key
  BY <1>2, OrderedParts
<1>4. k < g.item.key /\ g.item.key \in Int
  <2>1. /\ h.item \in Items(h) /\ \A y \in Items(h) : y.key \in Int
        /\ \A y \in Items(h.right) : h.item.key < y.key
    BY OrderedParts
  <2>2. g.item \in Items(h)
    BY <1>2, <1>3
  <2>3. g.item = h.item \/ h.item.key < g.item.key
    BY <1>1, <2>1 DEF SplitLeft
  <2>4. QED
    BY <2>1, <2>2, <2>3
<1>5. PICK m \in Nat : Able(g.left, m)
  BY <1>1 DEF SplitLeft
<1>6. Taken(g.left, m, k, r)
  BY <1>5 DEF Fit, g
<1>7. Removed(g.left, r.h, k) /\ r.out = {y \in Items(g.left) : y.key = k} /\ r.h \in Tree
  BY <1>6 DEF Taken, Shrunk
<1>8. \A p \in Nat : Able(g.left, p) => Shrunk(g.left, p, r.h)
  BY DEF Fit, Taken, g
<1>9. Shrunk(h, n, d)
  BY <1>1, <1>2, <1>8, MendedLeft
<1>10. Removed(g, e, k)
  BY <1>2, <1>4, <1>7, RemovedBelow
<1>11. Joins(e, g.item, r.h, g.right)
  BY <1>2, <1>7, ExceptJoins
<1> HIDE DEF e
<1>12. Same(e, d)
  BY <1>11, FixUpSame DEF Joins
<1>13. Removed(h, d, k)
  BY <1>1, <1>10, <1>12, RemovedSame
<1>14. r.out = {y \in Items(h) : y.key = k}
  <2>1. \A y \in Items(g) : y.key = k => y \in Items(g.left)
    BY <1>3, <1>4
  <2>2. QED
    BY <1>2, <1>3, <1>7, <2>1
<1>15. GoneLeft(h, r).h = d /\ GoneLeft(h, r).out = r.out
  BY DEF GoneLeft, Without, d, e, g
<1>16. QED
  BY <1>9, <1>13, <1>14, <1>15 DEF Taken

\* On the right: what is known of the tree there.
OnwardKnown(h, n, k, f) ==
  /\ Same(h, f) /\ SplitRight(h, f, n)
  /\ f \in Tree /\ f # NIL /\ Items(f) = Items(h) /\ Ordered(f)
  /\ f.item.key <= k /\ f.item.key \in Int
  /\ h.item.key <= k /\ h.item.key \in Int

LEMMA OnwardFacts ==
  ASSUME Heights = Nat, NEW h \in Tree, h # NIL, NEW n \in Nat, NEW k \in Int,
         Fit(h, n, k), Ordered(h), ~(k < h.item.key)
  PROVE  OnwardKnown(h, n, k, Onward(h))
<1> DEFINE f == Onward(h)
<1>1. Same(h, f) /\ SplitRight(h, f, n)
  BY OnwardSame, OnwardSplits DEF Fit
<1>2. f \in Tree /\ f # NIL /\ Items(f) = Items(h) /\ Ordered(f)
  BY <1>1, SameItems DEF Same
<1> HIDE DEF f
<1>3. /\ h.item \in Items(h) /\ \A y \in Items(h) : y.key \in Int
      /\ \A y \in Items(h.left) : y.key < h.item.key
  BY OrderedParts
<1>4. f.item \in Items(h)
  BY <1>2, OrderedParts
<1>5. f.item = h.item \/ f.item.key < h.item.key
  BY <1>1, <1>3 DEF SplitRight
<1>6. QED
  BY <1>1, <1>2, <1>3, <1>4, <1>5 DEF OnwardKnown, f

LEMMA TakenRight ==
  ASSUME Heights = Nat, NEW h \in Tree, h # NIL, NEW n \in Nat, NEW k \in Int,
         OnwardKnown(h, n, k, Onward(h)), k # Onward(h).item.key, NEW r,
         \A m \in Nat : Fit(Onward(h).right, m, k) => Taken(Onward(h).right, m, k, r)
  PROVE  Taken(h, n, k, GoneRight(h, r))
<1> DEFINE f == Onward(h)
           e == [f EXCEPT !.right = r.h]
           d == fix_up(e)
<1>1. OnwardKnown(h, n, k, f) /\ k # f.item.key
  OBVIOUS
<1> HIDE DEF f
<1>2. /\ Same(h, f) /\ SplitRight(h, f, n)
      /\ f \in Tree /\ f # NIL /\ Items(f) = Items(h) /\ Ordered(f)
      /\ f.item.key <= k /\ f.item.key \in Int
      /\ h.item.key <= k /\ h.item.key \in Int
  BY <1>1 DEF OnwardKnown
<1>3. /\ f.item \in Item /\ f.left \in Tree /\ f.right \in Tree
      /\ Items(f) = Items(f.left) \cup {f.item} \cup Items(f.right)
      /\ \A y \in Items(f) : y.key \in Int
      /\ \A y \in Items(f.left) : y.key < f.item.key
      /\ \A y \in Items(f.right) : f.item.key < y.key
  BY <1>2, OrderedParts
<1>4. k > f.item.key
  BY <1>1, <1>2
<1>5. \A p \in Nat : Able(f.right, p) \/ (Leaner(f.right, p) /\ f.right.item = h.item) =>
        Taken(f.right, p, k, r)
  BY <1>2 DEF Fit, f
<1>6. PICK m \in Nat : Able(f.right, m) \/ (Leaner(f.right, m) /\ f.right.item = h.item)
  BY <1>2 DEF SplitRight
<1>7. Removed(f.right, r.h, k) /\ r.out = {y \in Items(f.right) : y.key = k} /\ r.h \in Tree
  BY <1>5, <1>6 DEF Taken, Shrunk
<1>8. e = Node(f.item, f.left, r.h, f.red)
  BY <1>2, <1>7, TreeExcept
<1>9. Removed(f, e, k)
  BY <1>2, <1>4, <1>7, RemovedBelow
<1>10. Joins(e, f.item, f.left, r.h)
  BY <1>2, <1>7, ExceptJoins
<1> HIDE DEF e
<1>11. \A p \in Nat : Able(f.right, p) \/ (Leaner(f.right, p) /\ f.right.item = h.item) =>
         Shrunk(f.right, p, r.h)
  BY <1>5 DEF Taken
<1>12. Shrunk(h, n, d)
  BY <1>2, <1>3, <1>8, <1>11, MendedRight
<1>13. Same(e, d)
  BY <1>10, FixUpSame DEF Joins
<1>14. Removed(h, d, k)
  BY <1>2, <1>9, <1>13, RemovedSame
<1>15. r.out = {y \in Items(h) : y.key = k}
  <2>1. \A y \in Items(f) : y.key = k => y \in Items(f.right)
    BY <1>3, <1>4
  <2>2. QED
    BY <1>2, <1>3, <1>7, <2>1
<1>16. GoneRight(h, r).h = d /\ GoneRight(h, r).out = r.out
  BY DEF GoneRight, Without, d, e, f
<1>17. QED
  BY <1>12, <1>14, <1>15, <1>16 DEF Taken

LEMMA TakenLast ==
  ASSUME Heights = Nat, NEW h \in Tree, h # NIL, NEW n \in Nat, NEW k \in Int, NEW f,
         OnwardKnown(h, n, k, f), k = f.item.key, f.right = NIL
  PROVE  Taken(h, n, k, Without(NIL, {f.item}))
<1>1. /\ Same(h, f) /\ SplitRight(h, f, n)
      /\ f \in Tree /\ f # NIL /\ Items(f) = Items(h) /\ Ordered(f)
  BY DEF OnwardKnown
<1>2. f.left \in Tree /\ f.right \in Tree
  BY <1>1, TreeParts
<1>3. Black(f.left, n) /\ Able(f.right, n)
  BY <1>1 DEF SplitRight, Leaner, is_red
<1>4. f.left = NIL /\ n = 0
  BY <1>2, <1>3, GoodAgrees DEF Able, Black
<1>5. NIL \in Tree /\ Items(NIL) = {} /\ Ordered(NIL)
  BY EmptyTree
<1>6. Items(h) = {f.item}
  BY <1>1, <1>4, <1>5, HeldParts
<1>7. Shrunk(h, n, NIL)
  BY <1>4, <1>5, GoodNil DEF Shrunk, Black
<1>8. Without(NIL, {f.item}).h = NIL /\ Without(NIL, {f.item}).out = {f.item}
  BY DEF Without
<1>9. Removed(h, NIL, k)
  BY <1>5, <1>6 DEF Removed
<1>10. QED
  BY <1>6, <1>7, <1>8, <1>9 DEF Taken

LEMMA TakenHere ==
  ASSUME Heights = Nat, NEW h \in Tree, h # NIL, NEW n \in Nat, NEW k \in Int, NEW f,
         OnwardKnown(h, n, k, f), k = f.item.key, f.right # NIL
  PROVE  Taken(h, n, k, GoneHere(f))
<1> DEFINE r == f.right
           m == min_node(r).item
           x == delete_min(r)
           e == Node(m, f.left, x, f.red)
           d == fix_up(e)
<1>1. /\ Same(h, f) /\ SplitRight(h, f, n)
      /\ f \in Tree /\ f # NIL /\ Items(f) = Items(h) /\ Ordered(f)
      /\ f.item.key \in Int /\ h.item.key <= k /\ h.item.key \in Int
  BY DEF OnwardKnown
<1>2. /\ f.item \in Item /\ f.left \in Tree /\ r \in Tree /\ f.red \in BOOLEAN
      /\ Items(f) = Items(f.left) \cup {f.item} \cup Items(r)
      /\ \A y \in Items(f) : y.key \in Int
      /\ Ordered(f.left) /\ Ordered(r)
      /\ \A y \in Items(f.left) : y.key < f.item.key
      /\ \A y \in Items(r) : f.item.key < y.key
  BY <1>1, OrderedParts
<1>3. r.item # h.item
  <2>1. r.item \in Items(r)
    BY <1>2, HeldParts
  <2>2. QED
    BY <1>1, <1>2, <2>1
<1>4. \A p \in Nat : Able(r, p) \/ (Leaner(r, p) /\ r.item = h.item) => Able(r, p)
  BY <1>3
<1>5. \E p \in Nat : Able(r, p)
  BY <1>1, <1>4 DEF SplitRight
<1>6. DropsMin(r)
  BY <1>2, DeleteMinKeeps
<1>7. \A p \in Nat : Able(r, p) \/ (Leaner(r, p) /\ r.item = h.item) => Shrunk(r, p, x)
  BY <1>4, <1>6 DEF DropsMin
<1>8. Removed(r, x, m.key) /\ x \in Tree
  BY <1>2, <1>5, <1>6 DEF DropsMin, Shrunk
<1>9. m \in Item
  BY <1>2, MinType, TreeParts
<1>10. Joins(e, m, f.left, x)
  <2> HIDE DEF m, x
  <2>1. QED
    BY <1>2, <1>8, <1>9, NodeJoins
<1>11. Shrunk(h, n, d)
  <2> HIDE DEF m, x
  <2>1. QED
    BY <1>1, <1>7, <1>9, MendedRight
<1>12. Ordered(e) /\ Items(e) = Items(f.left) \cup Items(r)
  <2>1. \A y \in Items(f.left), z \in Items(r) : y.key < z.key
    <3>1. \A y \in Items(f.left), z \in Items(r) :
            y.key \in Int /\ z.key \in Int /\ y.key < f.item.key /\ f.item.key < z.key
      BY <1>2
    <3>2. QED
      BY <1>1, <3>1
  <2> HIDE DEF x, e
  <2>2. QED
    BY <1>2, <1>8, <1>10, <2>1, SuccessorJoins
<1>13. Removed(f, e, k)
  <2>1. {y \in Items(f) : y.key # k} = Items(f.left) \cup Items(r)
    BY <1>1, RemovedHere
  <2> HIDE DEF e
  <2>2. QED
    BY <1>10, <1>12, <2>1 DEF Removed, Joins
<1> HIDE DEF e
<1>14. Same(e, d)
  BY <1>10, FixUpSame DEF Joins
<1>15. Removed(h, d, k)
  BY <1>1, <1>13, <1>14, RemovedSame
<1>16. {f.item} = {y \in Items(h) : y.key = k}
  <2>1. \A y \in Items(f) : y.key = k <=> y = f.item
    BY <1>1, <1>2
  <2>2. QED
    BY <1>1, <1>2, <2>1
<1>17. GoneHere(f).h = d /\ GoneHere(f).out = {f.item}
  BY DEF GoneHere, Without, d, e
<1> HIDE DEF d
<1>18. QED
  BY <1>11, <1>15, <1>16, <1>17 DEF Taken

Takes(h, k) ==
  Ordered(h) =>
    \A n \in Nat : Fit(h, n, k) => Taken(h, n, k, rbtree_remove_node(h, k))

LEMMA RemoveKeeps ==
  ASSUME Heights = Nat, NEW k \in Int
  PROVE  \A h \in Tree : Takes(h, k)
<1> DEFINE P == {h \in Tree : Takes(h, k)}
<1>1. ASSUME NEW h \in Tree, \A t \in Tree : Size(t) < Size(h) => t \in P PROVE h \in P
  <2> SUFFICES ASSUME Ordered(h), NEW n \in Nat, Fit(h, n, k)
               PROVE  Taken(h, n, k, rbtree_remove_node(h, k))
    BY DEF Takes
  <2> DEFINE a == rbtree_remove_node(Downward(h).left, k)
             b == rbtree_remove_node(Onward(h).right, k)
  <2>1. rbtree_remove_node(h, k) = RemoveStep(h, k, a, b)
    BY RemoveIs
  <2>2. h # NIL => Takes(Downward(h).left, k) /\ Takes(Onward(h).right, k)
    BY <1>1, DownwardSame, OnwardSame, SmallerSubtrees
  <2>3. CASE h = NIL
    <3>1. NIL \in Tree /\ Items(NIL) = {} /\ Ordered(NIL)
      BY EmptyTree
    <3>2. rbtree_remove_node(h, k) = Without(NIL, {})
      BY <2>1, <2>3 DEF RemoveStep
    <3>3. Without(NIL, {}).h = NIL /\ Without(NIL, {}).out = {}
      BY DEF Without
    <3>4. Good(NIL, n)
      BY <2>3 DEF Fit, Able, Leaner
    <3>5. QED
      BY <2>3, <3>1, <3>2, <3>3, <3>4 DEF Taken, Shrunk, Removed, is_red
  <2>4. CASE h # NIL /\ k < h.item.key
    <3>1. Able(h, n)
      <4>1. h.item.key \in Int
        BY <2>4, OrderedParts
      <4>2. QED
        BY <2>4, <4>1 DEF Fit
    <3>2. Ordered(Downward(h).left)
      <4>1. Downward(h) \in Tree /\ Downward(h) # NIL /\ Ordered(Downward(h))
        BY <2>4, DownwardSame, SameItems DEF Same
      <4>2. QED
        BY <4>1, OrderedParts
    <3>3. \A m \in Nat : Fit(Downward(h).left, m, k) => Taken(Downward(h).left, m, k, a)
      BY <2>2, <2>4, <3>2 DEF Takes
    <3> HIDE DEF a, b
    <3>4. Taken(h, n, k, GoneLeft(h, a))
      BY <2>4, <3>1, <3>3, TakenLeft
    <3>5. rbtree_remove_node(h, k) = GoneLeft(h, a)
      BY <2>1, <2>4 DEF RemoveStep
    <3>6. QED
      BY <3>4, <3>5
  <2>5. CASE h # NIL /\ ~(k < h.item.key)
    <3>1. OnwardKnown(h, n, k, Onward(h))
      BY <2>5, OnwardFacts
    <3>2. CASE k = Onward(h).item.key /\ Onward(h).right = NIL
      <4>1. rbtree_remove_node(h, k) = Without(NIL, {Onward(h).item})
        BY <2>1, <2>5, <3>2 DEF RemoveStep
      <4>2. QED
        BY <2>5, <3>1, <3>2, <4>1, TakenLast
    <3>3. CASE k = Onward(h).item.key /\ Onward(h).right # NIL
      <4>1. rbtree_remove_node(h, k) = GoneHere(Onward(h))
        BY <2>1, <2>5, <3>3 DEF RemoveStep
      <4>2. QED
        BY <2>5, <3>1, <3>3, <4>1, TakenHere
    <3>4. CASE k # Onward(h).item.key
      <4>1. Ordered(Onward(h).right)
        BY <3>1, OrderedParts DEF OnwardKnown
      <4>2. \A m \in Nat : Fit(Onward(h).right, m, k) => Taken(Onward(h).right, m, k, b)
        BY <2>2, <2>5, <4>1 DEF Takes
      <4> HIDE DEF a, b
      <4>3. Taken(h, n, k, GoneRight(h, b))
        BY <2>5, <3>1, <3>4, <4>2, TakenRight
      <4>4. rbtree_remove_node(h, k) = GoneRight(h, b)
        BY <2>1, <2>5, <3>4 DEF RemoveStep
      <4>5. QED
        BY <4>3, <4>4
    <3>5. QED
      BY <3>2, <3>3, <3>4
  <2>6. QED
    BY <2>3, <2>4, <2>5
<1> HIDE DEF P
<1>2. Tree \subseteq P
  BY <1>1, SizeInduction DEF Inductive
<1>3. QED
  BY <1>2 DEF P

-----------------------------------------------------------------------------
(***************************************************************************)
(* The root is black, and need not be able to lose an item.  But nothing   *)
(* the removal does depends on the colour of the node it starts from: a    *)
(* root with two black children loses its item as if it were red.          *)
(***************************************************************************)
Alike(a, b) == a.item = b.item /\ a.left = b.left /\ a.right = b.right

LEMMA RotatedAlike ==
  ASSUME NEW a, NEW b, Alike(a, b)
  PROVE  /\ Alike(rotate_left(a), rotate_left(b))
         /\ Alike(rotate_right(a), rotate_right(b))
         /\ Alike(flip_colors(a), flip_colors(b))
BY DEF Alike, rotate_left, rotate_right, flip_colors, Node

LEMMA FixUpAlike ==
  ASSUME NEW a, NEW b, Alike(a, b)
  PROVE  Alike(fix_up(a), fix_up(b))
<1> DEFINE A(h) == IF is_red(h.right) /\ ~is_red(h.left) THEN rotate_left(h) ELSE h
           B(h) == IF is_red(h.left) /\ is_red(h.left.left) THEN rotate_right(h) ELSE h
           C(h) == IF is_red(h.left) /\ is_red(h.right) THEN flip_colors(h) ELSE h
<1>1. \A x, y : Alike(x, y) => Alike(A(x), A(y))
  BY RotatedAlike DEF Alike
<1>2. \A x, y : Alike(x, y) => Alike(B(x), B(y))
  BY RotatedAlike DEF Alike
<1>3. \A x, y : Alike(x, y) => Alike(C(x), C(y))
  BY RotatedAlike DEF Alike
<1>4. \A x : fix_up(x) = C(B(A(x)))
  BY DEF fix_up
<1> HIDE DEF A, B, C
<1>5. QED
  BY <1>1, <1>2, <1>3, <1>4

LEMMA MovedAlike ==
  ASSUME Heights = Nat, NEW a \in Tree, NEW b \in Tree, a # NIL, b # NIL, Alike(a, b)
  PROVE  /\ Alike(move_red_left(a), move_red_left(b))
         /\ Alike(move_red_right(a), move_red_right(b))
<1> DEFINE f == flip_colors(a)
           g == flip_colors(b)
           d == [f EXCEPT !.right = rotate_right(f.right)]
           e == [g EXCEPT !.right = rotate_right(g.right)]
<1>1. Alike(f, g) /\ f \in Tree /\ f # NIL /\ g \in Tree /\ g # NIL
  BY RotatedAlike, FlipSame DEF Same
<1>2. /\ move_red_left(a) = IF is_red(f.right) /\ is_red(f.right.left)
                              THEN flip_colors(rotate_left(d)) ELSE f
      /\ move_red_left(b) = IF is_red(g.right) /\ is_red(g.right.left)
                              THEN flip_colors(rotate_left(e)) ELSE g
  BY DEF move_red_left
<1>3. /\ move_red_right(a) = IF is_red(f.left) /\ is_red(f.left.left)
                               THEN flip_colors(rotate_right(f)) ELSE f
      /\ move_red_right(b) = IF is_red(g.left) /\ is_red(g.left.left)
                               THEN flip_colors(rotate_right(g)) ELSE g
  BY DEF move_red_right
<1> HIDE DEF f, g
<1>4. f.left = g.left /\ f.right = g.right
  BY <1>1 DEF Alike
<1>5. Alike(move_red_right(a), move_red_right(b))
  BY <1>1, <1>3, <1>4, RotatedAlike
<1>6. is_red(f.right) /\ is_red(f.right.left) => Alike(d, e)
  <2>1. SUFFICES ASSUME is_red(f.right), is_red(f.right.left) PROVE Alike(d, e)
    OBVIOUS
  <2>2. f.right \in Tree /\ f.right # NIL /\ f.right.left # NIL
    BY <1>1, <2>1, TreeParts DEF is_red
  <2>3. rotate_right(f.right) \in Tree
    BY <2>2, RotateRightSame DEF Same
  <2>4. /\ d = Node(f.item, f.left, rotate_right(f.right), f.red)
        /\ e = Node(g.item, g.left, rotate_right(g.right), g.red)
    BY <1>1, <1>4, <2>3, TreeExcept
  <2>5. QED
    BY <1>1, <1>4, <2>4 DEF Alike, Node
<1> HIDE DEF d, e
<1>7. Alike(move_red_left(a), move_red_left(b))
  <2>1. CASE is_red(f.right) /\ is_red(f.right.left)
    BY <1>2, <1>4, <1>6, <2>1, RotatedAlike
  <2>2. CASE ~(is_red(f.right) /\ is_red(f.right.left))
    BY <1>1, <1>2, <1>4, <2>2
  <2>3. QED
    BY <2>1, <2>2
<1>8. QED
  BY <1>5, <1>7

LEMMA SplitAlike ==
  ASSUME Heights = Nat, NEW a \in Tree, NEW b \in Tree, a # NIL, b # NIL, Alike(a, b)
  PROVE  Alike(Downward(a), Downward(b)) /\ Alike(Onward(a), Onward(b))
<1>1. Alike(Downward(a), Downward(b))
  BY MovedAlike DEF Downward, RedLeft, LeftPoor, Alike
<1>2. Alike(LeanRight(a), LeanRight(b))
  BY RotatedAlike DEF LeanRight, Alike
<1> DEFINE c == LeanRight(a)
           d == LeanRight(b)
<1>3. c \in Tree /\ c # NIL /\ d \in Tree /\ d # NIL
  BY LeanRightSame DEF Same
<1>4. /\ Onward(a) = IF c.right = NIL THEN c ELSE RedRight(c)
      /\ Onward(b) = IF d.right = NIL THEN d ELSE RedRight(d)
  BY DEF Onward
<1> HIDE DEF c, d
<1>5. Alike(c, d)
  BY <1>2 DEF c, d
<1>6. Alike(RedRight(c), RedRight(d))
  BY <1>3, <1>5, MovedAlike DEF RedRight, RightPoor, Alike
<1>7. c.right = d.right
  BY <1>5 DEF Alike
<1>8. QED
  BY <1>1, <1>4, <1>5, <1>6, <1>7

\* Two removals that leave the same, but for the colour of the root.
LeftAlike(x, y) ==
  /\ x.out = y.out
  /\ \/ x.h = NIL /\ y.h = NIL
     \/ x.h \in Tree \ {NIL} /\ y.h \in Tree \ {NIL} /\ Alike(x.h, y.h)

LEMMA FixedAlike ==
  ASSUME Heights = Nat, NEW a \in Tree \ {NIL}, NEW b \in Tree \ {NIL}, Alike(a, b), NEW out
  PROVE  LeftAlike(Without(fix_up(a), out), Without(fix_up(b), out))
<1>1. fix_up(a) \in Tree \ {NIL} /\ fix_up(b) \in Tree \ {NIL}
  BY FixUpSame DEF Same
<1>2. Alike(fix_up(a), fix_up(b))
  BY FixUpAlike
<1>3. QED
  BY <1>1, <1>2 DEF LeftAlike, Without

LEMMA StepAlike ==
  ASSUME Heights = Nat, NEW a \in Tree, NEW b \in Tree, a # NIL, b # NIL, Alike(a, b),
         NEW k, NEW l \in Removals, NEW r \in Removals
  PROVE  LeftAlike(RemoveStep(a, k, l, r), RemoveStep(b, k, l, r))
<1> DEFINE c == Downward(a)
           d == Downward(b)
           f == Onward(a)
           g == Onward(b)
<1>1. /\ c \in Tree /\ c # NIL /\ d \in Tree /\ d # NIL
      /\ f \in Tree /\ f # NIL /\ g \in Tree /\ g # NIL
  BY DownwardSame, OnwardSame DEF Same
<1>2. Alike(c, d) /\ Alike(f, g)
  BY SplitAlike
<1>3. /\ RemoveStep(a, k, l, r) =
           IF k < a.item.key THEN Without(fix_up([c EXCEPT !.left = l.h]), l.out)
           ELSE IF k = f.item.key
             THEN IF f.right = NIL THEN Without(NIL, {f.item}) ELSE GoneHere(f)
           ELSE Without(fix_up([f EXCEPT !.right = r.h]), r.out)
      /\ RemoveStep(b, k, l, r) =
           IF k < b.item.key THEN Without(fix_up([d EXCEPT !.left = l.h]), l.out)
           ELSE IF k = g.item.key
             THEN IF g.right = NIL THEN Without(NIL, {g.item}) ELSE GoneHere(g)
           ELSE Without(fix_up([g EXCEPT !.right = r.h]), r.out)
  BY DEF RemoveStep, GoneLeft, GoneRight
<1> HIDE DEF c, d, f, g
<1>4. l.h \in Tree /\ r.h \in Tree
  BY DEF Removals
<1>5. f.item = g.item /\ f.left = g.left /\ f.right = g.right /\ a.item = b.item
  BY <1>2 DEF Alike
<1>6. CASE k < a.item.key
  <2> DEFINE x == [c EXCEPT !.left = l.h]
             y == [d EXCEPT !.left = l.h]
  <2>1. x = Node(c.item, l.h, c.right, c.red) /\ y = Node(d.item, l.h, d.right, d.red)
    BY <1>1, <1>4, TreeExcept
  <2>2. x \in Tree \ {NIL} /\ y \in Tree \ {NIL}
    BY <1>1, <1>4, ExceptJoins DEF Joins
  <2>3. Alike(x, y)
    BY <1>2, <2>1 DEF Alike, Node
  <2> HIDE DEF x, y
  <2>4. LeftAlike(Without(fix_up(x), l.out), Without(fix_up(y), l.out))
    BY <2>2, <2>3, FixedAlike
  <2>5. QED
    BY <1>3, <1>5, <1>6, <2>4 DEF x, y
<1>7. CASE ~(k < a.item.key) /\ k = f.item.key /\ f.right = NIL
  <2>1. RemoveStep(a, k, l, r) = Without(NIL, {f.item})
    BY <1>3, <1>7
  <2>2. RemoveStep(b, k, l, r) = Without(NIL, {f.item})
    BY <1>3, <1>5, <1>7
  <2>3. LeftAlike(Without(NIL, {f.item}), Without(NIL, {f.item}))
    BY DEF LeftAlike, Without
  <2>4. QED
    BY <2>1, <2>2, <2>3
<1>8. CASE ~(k < a.item.key) /\ k = f.item.key /\ f.right # NIL
  <2> DEFINE m == min_node(f.right).item
             t == delete_min(f.right)
             x == Node(m, f.left, t, f.red)
             y == Node(m, f.left, t, g.red)
  <2>1. /\ f.right \in Tree /\ f.left \in Tree /\ f.red \in BOOLEAN /\ g.red \in BOOLEAN
    BY <1>1, TreeParts
  <2>2. m \in Item /\ t \in Tree
    BY <1>8, <2>1, MinType, DeleteMinType, TreeParts
  <2>3. GoneHere(f) = Without(fix_up(x), {f.item}) /\ GoneHere(g) = Without(fix_up(y), {f.item})
    BY <1>5 DEF GoneHere
  <2> HIDE DEF m, t
  <2>4. x \in Tree \ {NIL} /\ y \in Tree \ {NIL}
    BY <2>1, <2>2, NodeType
  <2>5. Alike(x, y)
    BY DEF Alike, Node
  <2> HIDE DEF x, y
  <2>6. LeftAlike(Without(fix_up(x), {f.item}), Without(fix_up(y), {f.item}))
    BY <2>4, <2>5, FixedAlike
  <2>7. RemoveStep(a, k, l, r) = GoneHere(f)
    BY <1>3, <1>8
  <2>8. RemoveStep(b, k, l, r) = GoneHere(g)
    BY <1>3, <1>5, <1>8
  <2>9. QED
    BY <2>3, <2>6, <2>7, <2>8
<1>9. CASE ~(k < a.item.key) /\ k # f.item.key
  <2> DEFINE x == [f EXCEPT !.right = r.h]
             y == [g EXCEPT !.right = r.h]
  <2>1. x = Node(f.item, f.left, r.h, f.red) /\ y = Node(g.item, g.left, r.h, g.red)
    BY <1>1, <1>4, TreeExcept
  <2>2. x \in Tree \ {NIL} /\ y \in Tree \ {NIL}
    BY <1>1, <1>4, ExceptJoins DEF Joins
  <2>3. Alike(x, y)
    BY <1>5, <2>1 DEF Alike, Node
  <2> HIDE DEF x, y
  <2>4. LeftAlike(Without(fix_up(x), r.out), Without(fix_up(y), r.out))
    BY <2>2, <2>3, FixedAlike
  <2>5. QED
    BY <1>3, <1>5, <1>9, <2>4 DEF x, y
<1>10. QED
  BY <1>6, <1>7, <1>8, <1>9

LEMMA RemoveType ==
  ASSUME Heights = Nat, NEW k
  PROVE  \A h \in Tree : rbtree_remove_node(h, k) \in Removals
<1> DEFINE P == {h \in Tree : rbtree_remove_node(h, k) \in Removals}
<1>1. ASSUME NEW h \in Tree, \A t \in Tree : Size(t) < Size(h) => t \in P PROVE h \in P
  <2> DEFINE a == rbtree_remove_node(Downward(h).left, k)
             b == rbtree_remove_node(Onward(h).right, k)
  <2>1. rbtree_remove_node(h, k) = RemoveStep(h, k, a, b)
    BY RemoveIs
  <2>2. h # NIL => a \in Removals /\ b \in Removals
    BY <1>1, DownwardSame, OnwardSame, SmallerSubtrees
  <2> HIDE DEF a, b
  <2>3. CASE h = NIL
    BY <2>1, <2>3, TreeIs DEF RemoveStep, Without, Removals
  <2>4. CASE h # NIL
    BY <2>1, <2>2, <2>4, StepType
  <2>5. QED
    BY <2>3, <2>4
<1> HIDE DEF P
<1>2. Tree \subseteq P
  BY <1>1, SizeInduction DEF Inductive
<1>3. QED
  BY <1>2 DEF P

LEMMA RemoveAlike ==
  ASSUME Heights = Nat, NEW a \in Tree, NEW b \in Tree, a # NIL, b # NIL, Alike(a, b), NEW k
  PROVE  LeftAlike(rbtree_remove_node(a, k), rbtree_remove_node(b, k))
<1> DEFINE l == rbtree_remove_node(Downward(a).left, k)
           r == rbtree_remove_node(Onward(a).right, k)
<1>1. Downward(a).left = Downward(b).left /\ Onward(a).right = Onward(b).right
  BY SplitAlike DEF Alike
<1>2. Downward(a).left \in Tree /\ Onward(a).right \in Tree
  BY DownwardSame, OnwardSame, SmallerSubtrees
<1>3. l \in Removals /\ r \in Removals
  BY <1>2, RemoveType
<1>4. rbtree_remove_node(a, k) = RemoveStep(a, k, l, r)
  BY RemoveIs
<1>5. rbtree_remove_node(b, k) = RemoveStep(b, k, l, r)
  BY <1>1, RemoveIs
<1> HIDE DEF l, r
<1>6. QED
  BY <1>3, <1>4, <1>5, StepAlike

LEMMA BlackenedIs ==
  ASSUME Heights = Nat, NEW h \in Tree
  PROVE  /\ Blackened(h) \in Tree /\ Inorder(Blackened(h)) = Inorder(h)
         /\ Blackened(h) = NIL <=> h = NIL
         /\ ~is_red(Blackened(h))
         /\ h # NIL => Blackened(h) = Node(h.item, h.left, h.right, FALSE)
<1>1. CASE h = NIL
  BY <1>1 DEF Blackened, is_red
<1>2. CASE h # NIL
  <2> DEFINE b == Node(h.item, h.left, h.right, FALSE)
  <2>1. /\ h.item \in Item /\ h.left \in Tree /\ h.right \in Tree /\ h.red \in BOOLEAN
        /\ h \in Nodes(Tree)
    BY <1>2, TreeParts
  <2>2. Blackened(h) = b
    BY <1>2, <2>1, NodeExcept DEF Blackened
  <2>3. Joins(b, h.item, h.left, h.right) /\ Joins(h, h.item, h.left, h.right)
    BY <1>2, <2>1, NodeJoins, TreeJoins
  <2>4. b.red = FALSE
    BY DEF Node
  <2> HIDE DEF b
  <2>5. b \in Tree /\ b # NIL /\ Inorder(b) = Inorder(h) /\ ~is_red(b)
    BY <2>3, <2>4 DEF Joins, is_red
  <2>6. QED
    BY <1>2, <2>2, <2>5 DEF b
<1>3. QED
  BY <1>1, <1>2

\* A black root over a good tree is one more black node on every path, or none.
LEMMA BlackenedGood ==
  ASSUME Heights = Nat, NEW h \in Tree, NEW n \in Nat, Good(h, n)
  PROVE  \E m \in Nat : Good(Blackened(h), m)
<1>1. CASE h = NIL
  BY <1>1 DEF Blackened
<1>2. CASE h # NIL
  <2>1. Blackened(h) = Node(h.item, h.left, h.right, FALSE)
    BY <1>2, BlackenedIs
  <2>2. h.item \in Item /\ h.left \in Tree /\ h.right \in Tree /\ h.red \in BOOLEAN
    BY <1>2, TreeParts
  <2>3. PICK m \in Nat : Good(h.left, m) /\ Black(h.right, m)
    BY <1>2, <2>2, GoodIs DEF Black
  <2>4. Black(Node(h.item, h.left, h.right, FALSE), m + 1)
    BY <2>2, <2>3, GoodNode
  <2>5. m + 1 \in Nat
    BY <2>3
  <2>6. QED
    BY <2>1, <2>4, <2>5 DEF Black
<1>3. QED
  BY <1>1, <1>2

\* insert_node can leave a red node with a red left child, but only where a
\* red node was: under a black root nothing is left to mend.
LEMMA InsertedRoot ==
  ASSUME Heights = Nat, NEW it \in Item, NEW memory \in BOOLEAN, NEW h \in Tree,
         NEW n \in Nat, Black(h, n)
  PROVE  LET x == Blackened(rbtree_insert_node(h, it, memory))
         IN /\ Holding(h, x, it, memory)
            /\ ~is_red(x) /\ \E m \in Nat : Good(x, m)
<1> DEFINE y == rbtree_insert_node(h, it, memory)
           x == Blackened(y)
<1>1. Holding(h, y, it, memory) /\ Good(y, n)
  BY InsertKeeps DEF Grown, Black
<1> HIDE DEF y
<1>2. y \in Tree
  BY <1>1 DEF Holding
<1>3. x \in Tree /\ Inorder(x) = Inorder(y) /\ (x = NIL <=> y = NIL) /\ ~is_red(x)
  BY <1>2, BlackenedIs
<1>4. \E m \in Nat : Good(x, m)
  BY <1>1, <1>2, BlackenedGood
<1>5. Holding(h, x, it, memory)
  BY <1>1, <1>3 DEF Holding, Ordered, Items
<1>6. QED
  BY <1>3, <1>4, <1>5 DEF y

LEMMA RemovedRoot ==
  ASSUME Heights = Nat, NEW k \in Int, NEW h \in Tree, NEW n \in Nat, Black(h, n), Ordered(h)
  PROVE  LET r == rbtree_remove_node(h, k)
             x == Blackened(r.h)
         IN /\ Removed(h, x, k) /\ r.out = {y \in Items(h) : y.key = k}
            /\ ~is_red(x) /\ \E m \in Nat : Good(x, m)
<1> DEFINE r == rbtree_remove_node(h, k)
           x == Blackened(r.h)
<1>1. ASSUME NEW t \in Tree, NEW s, NEW m \in Nat, Taken(t, m, k, s), Inorder(t) = Inorder(h),
             s.out = r.out, Blackened(s.h) = x
      PROVE  /\ Removed(h, x, k) /\ r.out = {y \in Items(h) : y.key = k}
             /\ ~is_red(x) /\ \E p \in Nat : Good(x, p)
  <2> HIDE DEF r, x
  <2>1. s.h \in Tree /\ Good(s.h, m) /\ Removed(t, s.h, k) /\ s.out = {y \in Items(t) : y.key = k}
    BY <1>1 DEF Taken, Shrunk
  <2>2. x \in Tree /\ Inorder(x) = Inorder(s.h) /\ ~is_red(x)
    BY <1>1, <2>1, BlackenedIs
  <2>3. \E p \in Nat : Good(x, p)
    BY <1>1, <2>1, BlackenedGood
  <2>4. Removed(h, x, k)
    BY <1>1, <2>1, <2>2 DEF Removed, Items, Ordered
  <2>5. QED
    BY <1>1, <2>1, <2>2, <2>3, <2>4 DEF Items
<1>2. CASE Able(h, n)
  <2>1. Taken(h, n, k, r)
    BY <1>2, RemoveKeeps DEF Takes, Fit
  <2> HIDE DEF r
  <2>2. QED
    BY <1>1, <2>1 DEF r
<1>3. CASE ~Able(h, n)
  <2> DEFINE t == Toggled(h)
             m == n - 1
             s == rbtree_remove_node(t, k)
  <2>1. h # NIL /\ ~is_red(h.left)
    BY <1>3 DEF Able, Black
  <2>2. m \in Nat /\ t \in Tree /\ Good(t, m) /\ is_red(t)
    BY <2>1, ToggledBlack
  <2>3. t # NIL /\ Inorder(t) = Inorder(h) /\ Alike(h, t)
    BY <2>1, ToggledIs DEF Alike
  <2> HIDE DEF t, m
  <2>4. Ordered(t) /\ Able(t, m)
    BY <2>2, <2>3 DEF Ordered, Able
  <2>5. Taken(t, m, k, s)
    BY <2>2, <2>4, RemoveKeeps DEF Takes, Fit
  <2>6. LeftAlike(r, s)
    BY <2>1, <2>2, <2>3, RemoveAlike
  <2> HIDE DEF r, s
  <2>7. r.out = s.out /\ Blackened(r.h) = Blackened(s.h)
    BY <2>6, BlackenedIs DEF LeftAlike, Alike
  <2>8. QED
    BY <1>1, <2>2, <2>3, <2>5, <2>7 DEF r
<1>4. QED
  BY <1>2, <1>3

-----------------------------------------------------------------------------
(***************************************************************************)
(* rbtree.c, call by call.                                                 *)
(***************************************************************************)
Shape == ~is_red(root) /\ \E n \in Nat : Good(root, n)

RBInv == TreeInv /\ Shape

LEMMA ShapeImplies ==
  ASSUME Shape
  PROVE  RedBlack
<1>1. PICK n \in Nat : Good(root, n)
  BY DEF Shape
<1>2. Cardinality({n}) = 1
  BY FS_Singleton
<1>3. QED
  BY <1>1, <1>2 DEF Shape, RedBlack, Good

LEMMA InitShape ==
  ASSUME Heights = Nat, Init
  PROVE  Shape
BY GoodNil DEF Init, Shape, Black

LEMMA CommonShape ==
  ASSUME Heights = Nat, Shape, Common
  PROVE  Shape'
<1>1. root' = root \/ root' = NIL
  BY DEF Common, Create, Destroy, Refuse, Search, Traverse
<1>2. ~is_red(NIL) /\ \E n \in Nat : Good(NIL, n)
  BY GoodNil DEF Black
<1>3. CASE root' = root
  BY <1>3 DEF Shape
<1>4. CASE root' = NIL
  BY <1>2, <1>4 DEF Shape
<1>5. QED
  BY <1>1, <1>3, <1>4

LEMMA RBInsertRoot ==
  ASSUME Heights = Nat, RBInv, NEW it \in Item, NEW memory \in BOOLEAN,
         root' = Blackened(rbtree_insert_node(root, it, memory))
  PROVE  Holding(root, root', it, memory) /\ Shape'
<1>1. PICK n \in Nat : Black(root, n)
  BY DEF RBInv, Shape, Black
<1>2. root \in Tree
  BY DEF RBInv, TreeInv
<1>3. /\ Holding(root, root', it, memory)
      /\ ~is_red(root') /\ \E m \in Nat : Good(root', m)
  BY <1>1, <1>2, InsertedRoot
<1>4. QED
  BY <1>3 DEF Shape

LEMMA RBInsertKeeps ==
  ASSUME Heights = Nat, RBInv, NEW it \in Item, RBInsert(it)
  PROVE  RBInv'
<1>1. PICK memory \in BOOLEAN : root' = Blackened(rbtree_insert_node(root, it, memory))
  BY DEF RBInsert
<1>2. Holding(root, root', it, memory) /\ Shape'
  BY <1>1, RBInsertRoot
<1>3. alive /\ UNCHANGED alive /\ seen' = <<>> /\ res'.out = {}
  BY DEF RBInsert, Answer
<1>4. TreeInv'
  BY <1>2, <1>3, NothingShown DEF Holding, RBInv, TreeInv
<1>5. QED
  BY <1>2, <1>4 DEF RBInv

\* With memory for the nodes of a tree that is not empty, what insert answers
\* is what it has done.
LEMMA RBInsertAnswers ==
  ASSUME Heights = Nat, NodeMayFail = FALSE, RBInv, NEW it \in Item, RBInsert(it)
  PROVE  Dict!Next
<1>1. PICK memory \in BOOLEAN :
        /\ memory \/ root = NIL
        /\ root' = Blackened(rbtree_insert_node(root, it, memory))
        /\ res' = Answer("put", it, CASE root' = NIL -> -1
                                      [] root' # NIL /\ search_node(root, it.key) = {} -> 0
                                      [] OTHER -> 1, {})
  BY DEF RBInsert
<1>2. /\ root' \in Tree /\ (root' = NIL <=> root = NIL /\ ~memory)
      /\ Items(root') = IF memory /\ \A y \in Items(root) : y.key # it.key
                          THEN Items(root) \cup {it} ELSE Items(root)
  BY <1>1, RBInsertRoot DEF Holding, RBInv, TreeInv
<1>3. alive /\ UNCHANGED alive
  BY DEF RBInsert
<1>4. search_node(root, it.key) = Dict!With(it.key)
  BY ItemAssumption, FoundIs DEF RBInv, TreeInv
<1>5. Dict!With(it.key) = {} <=> \A y \in Items(root) : y.key # it.key
  BY HeldIs DEF Dict!With
<1>6. CASE root' = NIL
  <2>1. res' = Answer("put", it, -1, {})
    BY <1>1, <1>6
  <2>2. Items(root') = Items(root)
    BY <1>2, <1>6
  <2>3. Dict!PutFailed(it)
    BY <1>3, <2>1, <2>2, HeldIs DEF Dict!PutFailed, Answer, Dict!Answer
  <2>4. QED
    BY <2>3 DEF Dict!Next
<1>7. CASE root' # NIL /\ Dict!With(it.key) = {}
  <2>1. res' = Answer("put", it, 0, {})
    BY <1>1, <1>4, <1>7
  <2>2. memory
    BY <1>1, <1>2, <1>7
  <2>3. Items(root') = Items(root) \cup {it}
    BY <1>2, <1>5, <1>7, <2>2
  <2>4. Dict!Put(it)
    BY <1>3, <1>7, <2>1, <2>3, HeldIs DEF Dict!Put, Answer, Dict!Answer
  <2>5. QED
    BY <2>4 DEF Dict!Next
<1>8. CASE root' # NIL /\ Dict!With(it.key) # {}
  <2>1. res' = Answer("put", it, 1, {})
    BY <1>1, <1>4, <1>8
  <2>2. Items(root') = Items(root)
    BY <1>2, <1>5, <1>8
  <2>3. Dict!PutExisting(it)
    BY <1>3, <1>8, <2>1, <2>2, HeldIs DEF Dict!PutExisting, Answer, Dict!Answer
  <2>4. QED
    BY <2>3 DEF Dict!Next
<1>9. QED
  BY <1>6, <1>7, <1>8

LEMMA RBDeleteKeeps ==
  ASSUME Heights = Nat, RBInv, NEW k \in Key, RBDelete(k)
  PROVE  RBInv' /\ Dict!Next
<1> DEFINE r == rbtree_remove_node(root, k)
<1>1. k \in Int /\ k \in Dict!Key
  BY ItemAssumption DEF Key, Dict!Key
<1>2. PICK n \in Nat : Black(root, n)
  BY DEF RBInv, Shape, Black
<1>3. root \in Tree /\ Ordered(root)
  BY DEF RBInv, TreeInv
<1>4. /\ alive /\ UNCHANGED alive /\ seen' = <<>>
      /\ root' = Blackened(r.h)
      /\ res' = Answer("delete", k, IF r.out = {} THEN 1 ELSE 0, r.out)
  BY DEF RBDelete
<1>5. /\ Removed(root, root', k) /\ r.out = {y \in Items(root) : y.key = k}
      /\ ~is_red(root') /\ \E m \in Nat : Good(root', m)
  BY <1>1, <1>2, <1>3, <1>4, RemovedRoot
<1> HIDE DEF r
<1>6. /\ root' \in Tree /\ Ordered(root')
      /\ Items(root') = {y \in Items(root) : y.key # k}
  BY <1>3, <1>5 DEF Removed
<1>7. r.out = Dict!With(k) /\ Dict!With(k) \subseteq Item
  BY <1>1, <1>3, <1>5, FoundIs, HeldIs DEF Dict!With
<1>8. TreeInv'
  BY <1>4, <1>6, <1>7, NothingShown DEF RBInv, TreeInv, Answer
<1>9. Shape'
  BY <1>5 DEF Shape
<1>10. Items(root') = Items(root) \ Dict!With(k)
  BY <1>6, HeldIs DEF Dict!With
<1>11. Dict!Delete(k)
  BY <1>4, <1>7, <1>10, HeldIs DEF Dict!Delete, Answer, Dict!Answer
<1>12. QED
  BY <1>1, <1>8, <1>9, <1>11 DEF RBInv, Dict!Next

LEMMA RBStep ==
  ASSUME Heights = Nat, RBInv, RBNext
  PROVE  RBInv' /\ (NodeMayFail = FALSE => Dict!Next)
<1>1. CASE Common
  BY <1>1, CommonKeeps, CommonShape DEF RBInv
<1>2. ASSUME NEW it \in Item, RBInsert(it) PROVE RBInv' /\ (NodeMayFail = FALSE => Dict!Next)
  BY <1>2, RBInsertKeeps, RBInsertAnswers
<1>3. ASSUME NEW k \in Key, RBDelete(k) PROVE RBInv' /\ Dict!Next
  BY <1>3, RBDeleteKeeps
<1>4. QED
  BY <1>1, <1>2, <1>3 DEF RBNext

LEMMA RBStutter ==
  ASSUME RBInv, UNCHANGED vars
  PROVE  RBInv' /\ UNCHANGED Dict!vars
<1>1. root' = root
  BY DEF vars
<1>2. Shape'
  BY <1>1 DEF RBInv, Shape
<1>3. QED
  BY <1>2, StutterKeeps DEF RBInv

LEMMA RBInvariant ==
  ASSUME Heights = Nat
  PROVE  RBSpec => []RBInv
<1>1. Init => RBInv
  BY InitKeeps, InitShape DEF RBInv
<1>2. RBInv /\ [RBNext]_vars => RBInv'
  BY RBStep, RBStutter
<1>3. QED
  BY <1>1, <1>2, PTL DEF RBSpec

(***************************************************************************)
(* rbtree.c, whatever is inserted and removed and whichever node memory    *)
(* runs out for: no node outlives its tree, and callers are handed items.  *)
(***************************************************************************)
THEOREM RBTypes ==
  ASSUME Heights = Nat
  PROVE  RBSpec => []TypeOK
<1>1. RBInv => TypeOK
  BY InvImplies DEF RBInv
<1>2. QED
  BY <1>1, RBInvariant, PTL

(***************************************************************************)
(* rbtree.c's tree, of any height, stays a search tree without a key twice *)
(* through every rotation, and through the removal of a node by its        *)
(* successor.                                                              *)
(***************************************************************************)
THEOREM RBSearchTree ==
  ASSUME Heights = Nat
  PROVE  RBSpec => []SearchTree
<1>1. RBInv => SearchTree
  BY InvImplies DEF RBInv
<1>2. QED
  BY <1>1, RBInvariant, PTL

(***************************************************************************)
(* rbtree.c's tree is a left-leaning red-black tree between any two calls: *)
(* what insert and remove do on the way down and up never leaves a red     *)
(* link to the right, two in a row, or paths of different black heights.   *)
(***************************************************************************)
THEOREM RBBalanced ==
  ASSUME Heights = Nat
  PROVE  RBSpec => []RedBlack
<1>1. RBInv => RedBlack
  BY ShapeImplies DEF RBInv
<1>2. QED
  BY <1>1, RBInvariant, PTL

(***************************************************************************)
(* rbtree.c implements the dictionary where only an empty tree can run out *)
(* of memory.  Elsewhere insert answers 0 for an item it has not stored:   *)
(* the run rbtree_insert shows it.                                         *)
(***************************************************************************)
THEOREM RBImplements ==
  ASSUME Heights = Nat, NodeMayFail = FALSE
  PROVE  RBSpec => Implements
<1>1. Init => Dict!Init
  BY InitKeeps
<1>2. RBInv /\ [RBNext]_vars => [Dict!Next]_Dict!vars
  BY RBStep, RBStutter
<1>3. QED
  BY <1>1, <1>2, RBInvariant, PTL DEF RBSpec, Implements, Dict!Spec

-----------------------------------------------------------------------------
(***************************************************************************)
(* The specification the run checks: a behaviour of the one or the other.  *)
(***************************************************************************)
MCInv == TreeInv /\ (impl = "rbtree" => Shape)

LEMMA MCStep ==
  ASSUME Heights = Nat, MCInv, [MCNext]_mcvars
  PROVE  MCInv' /\ (NodeMayFail = FALSE => [Dict!Next]_Dict!vars)
<1>1. CASE MCNext /\ impl = "bst"
  <2>1. BSTNext /\ impl' = "bst"
    BY <1>1 DEF MCNext
  <2>2. TreeInv' /\ Dict!Next
    BY <2>1, BSTStep DEF MCInv
  <2>3. QED
    BY <2>1, <2>2 DEF MCInv
<1>2. CASE MCNext /\ impl # "bst"
  <2>1. RBNext /\ impl = "rbtree" /\ impl' = impl
    BY <1>2 DEF MCNext
  <2>2. RBInv
    BY <2>1 DEF MCInv, RBInv
  <2>3. RBInv' /\ (NodeMayFail = FALSE => Dict!Next)
    BY <2>1, <2>2, RBStep
  <2>4. QED
    BY <2>3 DEF MCInv, RBInv
<1>3. CASE UNCHANGED mcvars
  <2>1. UNCHANGED vars /\ impl' = impl
    BY <1>3 DEF mcvars
  <2>2. TreeInv' /\ UNCHANGED Dict!vars
    BY <2>1, StutterKeeps DEF MCInv
  <2>3. root' = root
    BY <2>1 DEF vars
  <2>4. Shape <=> Shape'
    BY <2>3 DEF Shape
  <2>5. QED
    BY <2>1, <2>2, <2>4 DEF MCInv
<1>4. QED
  BY <1>1, <1>2, <1>3

LEMMA MCInvariant ==
  ASSUME Heights = Nat
  PROVE  MCSpec => []MCInv
<1>1. MCInit => MCInv
  BY InitKeeps, InitShape DEF MCInit, MCInv
<1>2. MCInv /\ [MCNext]_mcvars => MCInv'
  BY MCStep
<1>3. QED
  BY <1>1, <1>2, PTL DEF MCSpec

(***************************************************************************)
(* Both trees, for any items and any height: the types, ...                *)
(***************************************************************************)
THEOREM TreesTypes ==
  ASSUME Heights = Nat
  PROVE  MCSpec => []TypeOK
<1>1. MCInv => TypeOK
  BY InvImplies DEF MCInv
<1>2. QED
  BY <1>1, MCInvariant, PTL

(***************************************************************************)
(* ... the order of the items, whichever of bst.c and rbtree.c runs, ...   *)
(***************************************************************************)
THEOREM TreesSearchTree ==
  ASSUME Heights = Nat
  PROVE  MCSpec => []SearchTree
<1>1. MCInv => SearchTree
  BY InvImplies DEF MCInv
<1>2. QED
  BY <1>1, MCInvariant, PTL

(***************************************************************************)
(* ... the balance of rbtree.c's, ...                                      *)
(***************************************************************************)
THEOREM TreesBalanced ==
  ASSUME Heights = Nat
  PROVE  MCSpec => []Balanced
<1>1. MCInv => Balanced
  BY ShapeImplies DEF MCInv, Balanced
<1>2. QED
  BY <1>1, MCInvariant, PTL

(***************************************************************************)
(* ... and the dictionary that both implement.                             *)
(***************************************************************************)
THEOREM TreesImplement ==
  ASSUME Heights = Nat, NodeMayFail = FALSE
  PROVE  MCSpec => Implements
<1>1. MCInit => Dict!Init
  BY InitKeeps DEF MCInit
<1>2. MCInv /\ [MCNext]_mcvars => [Dict!Next]_Dict!vars
  BY MCStep
<1>3. QED
  BY <1>1, <1>2, MCInvariant, PTL DEF MCSpec, Implements, Dict!Spec

(***************************************************************************)
(* The traversals of bst.c.  The insertion of items one after the other is *)
(* a fold; a dump of a tree is a sequence that, so inserted, makes it      *)
(* again.                                                                  *)
(***************************************************************************)

\* The tree t after the items of s were inserted into it one by one.
Fed(t, s) == FoldLeft(bst_insert_node, t, s)

FoldStep(t, s, x, f) ==
  IF x = {} THEN t ELSE bst_insert_node(f[x \ {Max(x)}], s[Max(x)])

LEMMA FedFolds ==
  ASSUME NEW t, NEW s
  PROVE  Fed(t, s) = (CHOOSE f : f = [x \in SUBSET DOMAIN s |-> FoldStep(t, s, x, f)])[DOMAIN s]
BY Zenon DEF Fed, FoldLeft, MapThenFoldSet, FoldStep

LEMMA MaxIs ==
  ASSUME NEW n \in Nat, n # 0
  PROVE  Max(1 .. n) = n
<1>1. n \in 1 .. n /\ \A y \in 1 .. n : n >= y
  OBVIOUS
<1>2. /\ Max(1 .. n) \in 1 .. n
      /\ \A y \in 1 .. n : Max(1 .. n) >= y
  BY <1>1 DEF Max
<1>3. QED
  BY <1>1, <1>2

LEMMA FoldStepIs ==
  ASSUME NEW t, NEW s, NEW f, NEW n \in Nat
  PROVE  FoldStep(t, s, 1 .. n, f) =
           IF n = 0 THEN t ELSE bst_insert_node(f[1 .. n - 1], s[n])
<1>1. n = 0 => 1 .. n = {}
  OBVIOUS
<1>2. ASSUME n # 0 PROVE 1 .. n # {} /\ Max(1 .. n) = n /\ (1 .. n) \ {n} = 1 .. n - 1
  <2>1. n \in 1 .. n /\ (1 .. n) \ {n} = 1 .. n - 1
    BY <1>2
  <2>2. QED
    BY <1>2, <2>1, MaxIs
<1>3. QED
  BY <1>1, <1>2, Zenon DEF FoldStep

\* Inserting into a tree gives a tree.
LEMMA BSTInsertType ==
  ASSUME Heights = Nat, NEW h \in Tree, NEW it \in Item
  PROVE  bst_insert_node(h, it) \in Tree
BY BSTInsertKeeps DEF Inserted

(***************************************************************************)
(* The fold is the solution of its recursion.                              *)
(***************************************************************************)
LEMMA FoldSolved ==
  ASSUME Heights = Nat, NEW t \in Tree, NEW s \in Seq(Item)
  PROVE  \E f \in [SUBSET DOMAIN s -> Tree] :
           f = [x \in SUBSET DOMAIN s |-> FoldStep(t, s, x, f)]
<1> DEFINE D == SUBSET DOMAIN s
           step == [y \in D \X [D -> Tree] |-> FoldStep(t, s, y[1], y[2])]
           rank == [x \in D |-> Cardinality(x)]
<1>1. DOMAIN s = 1 .. Len(s) /\ Len(s) \in Nat /\ IsFiniteSet(DOMAIN s)
  BY LenProperties, FS_Interval
<1>2. ASSUME NEW x \in D, x # {}
      PROVE  /\ Max(x) \in x /\ x \ {Max(x)} \in D
             /\ Cardinality(x) \in Nat /\ Cardinality(x \ {Max(x)}) < Cardinality(x)
  <2>1. IsFiniteSet(x)
    BY <1>1, FS_Subset
  <2>2. Max(x) \in x
    <3> DEFINE bounds == {n \in Nat : \A y \in x : y <= n}
    <3>1. Len(s) \in bounds /\ x \subseteq Nat
      BY <1>1, <1>2
    <3>2. PICK n \in bounds : \A m \in bounds : ~(<<m, n>> \in OpToRel(<, Nat))
      <4> HIDE DEF bounds
      <4>1. bounds # {}
        BY <3>1
      <4>2. bounds \subseteq Nat
        BY DEF bounds
      <4>3. QED
        BY <4>1, <4>2, NatLessThanWellFounded, WFMin
    <3>3. n \in Nat /\ (\A y \in x : y <= n) /\ \A m \in bounds : ~(m < n)
      BY <3>2 DEF OpToRel
    <3>4. n \in x
      <4> SUFFICES ASSUME n \notin x PROVE FALSE
        OBVIOUS
      <4>1. \A y \in x : y <= n - 1 /\ y \in Nat /\ 1 <= y
        BY <1>1, <3>1, <3>3
      <4>2. n - 1 \in bounds /\ n - 1 < n
        BY <1>2, <3>3, <4>1
      <4>3. QED
        BY <3>3, <4>2
    <3>5. \E z \in x : \A y \in x : z >= y
      BY <3>1, <3>3, <3>4
    <3>6. QED
      BY <3>5 DEF Max
  <2>3. Cardinality(x) \in Nat /\ Cardinality(x \ {Max(x)}) = Cardinality(x) - 1
    BY <2>1, <2>2, FS_CardinalityType, FS_RemoveElement
  <2>4. QED
    BY <2>2, <2>3
<1>3. rank \in [D -> Nat]
  BY <1>1, FS_Subset, FS_CardinalityType
<1>4. ASSUME NEW x \in D, NEW f \in [D -> Tree] PROVE FoldStep(t, s, x, f) \in Tree
  <2>1. CASE x = {}
    BY <2>1 DEF FoldStep
  <2>2. CASE x # {}
    <3>1. f[x \ {Max(x)}] \in Tree /\ s[Max(x)] \in Item
      BY <1>1, <1>2, <2>2, ElementOfSeq
    <3>2. QED
      BY <2>2, <3>1, BSTInsertType DEF FoldStep
  <2>3. QED
    BY <2>1, <2>2
<1>5. step \in [(D \X [D -> Tree]) -> Tree]
  BY <1>4
<1>6. LooksBelow(D, Tree, rank, step)
  <2> SUFFICES ASSUME NEW x \in D, NEW f \in [D -> Tree], NEW g \in [D -> Tree],
                      \A y \in D : rank[y] < rank[x] => f[y] = g[y]
               PROVE  FoldStep(t, s, x, f) = FoldStep(t, s, x, g)
    BY DEF LooksBelow
  <2>1. x # {} => f[x \ {Max(x)}] = g[x \ {Max(x)}]
    BY <1>2
  <2>2. QED
    BY <2>1, Zenon DEF FoldStep
<1> HIDE DEF rank
<1>7. PICK f \in [D -> Tree] : \A x \in D : f[x] = step[<<x, f>>]
  <2> HIDE DEF step, D
  <2>1. Solvable(D, Tree, step)
    BY <1>3, <1>5, <1>6, RankRecursion
  <2>2. QED
    BY <2>1 DEF Solvable
<1>8. \A x \in D : f[x] = FoldStep(t, s, x, f)
  BY <1>7
<1>9. f = [x \in D |-> FoldStep(t, s, x, f)]
  BY <1>7, <1>8
<1>10. QED
  BY <1>7, <1>9

\* Stages(t, s, f): f[i] is the tree after i of the items were inserted.
Stages(t, s, f) ==
  /\ f \in [0 .. Len(s) -> Tree]
  /\ f[0] = t
  /\ \A i \in 1 .. Len(s) : f[i] = bst_insert_node(f[i - 1], s[i])

LEMMA FedStages ==
  ASSUME Heights = Nat, NEW t \in Tree, NEW s \in Seq(Item)
  PROVE  \E f : Stages(t, s, f) /\ Fed(t, s) = f[Len(s)]
<1> DEFINE Is(f) == f = [x \in SUBSET DOMAIN s |-> FoldStep(t, s, x, f)]
           g == CHOOSE f : Is(f)
           h == [i \in 0 .. Len(s) |-> g[1 .. i]]
<1>1. DOMAIN s = 1 .. Len(s) /\ Len(s) \in Nat
  BY LenProperties
<1>2. Is(g)
  <2>1. \E f : Is(f)
    BY FoldSolved
  <2> HIDE DEF Is
  <2>2. QED
    BY <2>1
<1>3. Fed(t, s) = g[1 .. Len(s)]
  BY <1>1, FedFolds
<1> HIDE DEF g
<1>4. \A i \in 0 .. Len(s) : g[1 .. i] = IF i = 0 THEN t ELSE bst_insert_node(g[1 .. i - 1], s[i])
  <2> SUFFICES ASSUME NEW i \in 0 .. Len(s)
               PROVE  g[1 .. i] = IF i = 0 THEN t ELSE bst_insert_node(g[1 .. i - 1], s[i])
    OBVIOUS
  <2>1. i \in Nat /\ 1 .. i \in SUBSET DOMAIN s
    BY <1>1
  <2>2. g[1 .. i] = FoldStep(t, s, 1 .. i, g)
    BY <1>2, <2>1
  <2>3. QED
    BY <2>1, <2>2, FoldStepIs
<1> HIDE DEF Is
<1>5. \A i \in 1 .. Len(s) : s[i] \in Item
  BY ElementOfSeq
<1>6. \A i \in 0 .. Len(s) : g[1 .. i] \in Tree
  <2> DEFINE S == {i \in Nat : i <= Len(s) => g[1 .. i] \in Tree}
  <2>1. 0 \in S
    BY <1>1, <1>4
  <2>2. ASSUME NEW i \in Nat, i \in S PROVE i + 1 \in S
    <3> SUFFICES ASSUME i + 1 <= Len(s) PROVE g[1 .. i + 1] \in Tree
      OBVIOUS
    <3>1. i + 1 \in 0 .. Len(s) /\ i + 1 \in 1 .. Len(s) /\ (i + 1) - 1 = i /\ i + 1 # 0
      BY <1>1
    <3>2. g[1 .. i + 1] = bst_insert_node(g[1 .. i], s[i + 1])
      BY <1>4, <3>1
    <3>3. g[1 .. i] \in Tree
      BY <1>1, <2>2, <3>1
    <3>4. QED
      BY <1>5, <3>1, <3>2, <3>3, BSTInsertType
  <2> HIDE DEF S
  <2>3. Nat \subseteq S
    BY <2>1, <2>2, Induction
  <2>4. QED
    BY <1>1, <2>3 DEF S
<1>7. Stages(t, s, h)
  <2>1. h \in [0 .. Len(s) -> Tree]
    BY <1>6
  <2>2. h[0] = t
    BY <1>1, <1>4
  <2>3. ASSUME NEW i \in 1 .. Len(s) PROVE h[i] = bst_insert_node(h[i - 1], s[i])
    <3>1. i \in 0 .. Len(s) /\ i - 1 \in 0 .. Len(s) /\ i # 0
      BY <1>1
    <3>2. QED
      BY <1>4, <3>1
  <2>4. QED
    BY <2>1, <2>2, <2>3 DEF Stages
<1>8. Fed(t, s) = h[Len(s)]
  BY <1>1, <1>3
<1>9. QED
  BY <1>7, <1>8

Begins(s, u) == Len(s) <= Len(u) /\ \A i \in 1 .. Len(s) : s[i] = u[i]

\* Stages are settled by the items.
LEMMA StagesAgree ==
  ASSUME NEW t, NEW s \in Seq(Item), NEW u \in Seq(Item), NEW f, NEW g,
         Begins(s, u), Stages(t, s, f), Stages(t, u, g)
  PROVE  \A i \in 0 .. Len(s) : f[i] = g[i]
<1> USE DEF Begins
<1>1. Len(s) \in Nat /\ Len(u) \in Nat
  BY LenProperties
<1> DEFINE S == {i \in Nat : i <= Len(s) => f[i] = g[i]}
<1>2. 0 \in S
  BY DEF Stages
<1>3. ASSUME NEW i \in Nat, i \in S PROVE i + 1 \in S
  <2> SUFFICES ASSUME i + 1 <= Len(s) PROVE f[i + 1] = g[i + 1]
    OBVIOUS
  <2>1. i + 1 \in 1 .. Len(s) /\ i + 1 \in 1 .. Len(u) /\ (i + 1) - 1 = i
    BY <1>1
  <2>2. f[i] = g[i]
    BY <1>1, <1>3, <2>1
  <2>3. f[i + 1] = bst_insert_node(f[i], s[i + 1]) /\ g[i + 1] = bst_insert_node(g[i], u[i + 1])
    BY <2>1 DEF Stages
  <2>4. QED
    BY <2>1, <2>2, <2>3
<1> HIDE DEF S
<1>4. Nat \subseteq S
  BY <1>2, <1>3, Induction
<1>5. QED
  BY <1>1, <1>4 DEF S

(***************************************************************************)
(* Inserting items one by one: nothing, one item more, a sequence more.    *)
(***************************************************************************)
LEMMA FedType ==
  ASSUME Heights = Nat, NEW t \in Tree, NEW s \in Seq(Item)
  PROVE  Fed(t, s) \in Tree
<1>1. PICK f : Stages(t, s, f) /\ Fed(t, s) = f[Len(s)]
  BY FedStages
<1>2. Len(s) \in 0 .. Len(s)
  BY LenProperties
<1>3. QED
  BY <1>1, <1>2 DEF Stages

LEMMA FedNothing ==
  ASSUME Heights = Nat, NEW t \in Tree
  PROVE  Fed(t, <<>>) = t
<1>1. <<>> \in Seq(Item) /\ Len(<<>>) = 0
  OBVIOUS
<1>2. PICK f : Stages(t, <<>>, f) /\ Fed(t, <<>>) = f[Len(<<>>)]
  BY <1>1, FedStages
<1>3. QED
  BY <1>1, <1>2 DEF Stages

LEMMA FedOneMore ==
  ASSUME Heights = Nat, NEW t \in Tree, NEW s \in Seq(Item), NEW it \in Item
  PROVE  Fed(t, Append(s, it)) = bst_insert_node(Fed(t, s), it)
<1> DEFINE more == Append(s, it)
<1>1. /\ more \in Seq(Item) /\ Len(more) = Len(s) + 1 /\ Len(s) \in Nat
      /\ \A i \in 1 .. Len(s) : more[i] = s[i]
      /\ more[Len(s) + 1] = it
  BY LenProperties, AppendProperties
<1> HIDE DEF more
<1>2. PICK f : Stages(t, s, f) /\ Fed(t, s) = f[Len(s)]
  BY FedStages
<1>3. PICK g : Stages(t, more, g) /\ Fed(t, more) = g[Len(more)]
  BY <1>1, FedStages
<1>4. f[Len(s)] = g[Len(s)]
  <2>1. \A i \in 0 .. Len(s) : f[i] = g[i]
    <3>1. Begins(s, more)
      BY <1>1 DEF Begins
    <3>2. more \in Seq(Item) /\ Stages(t, s, f) /\ Stages(t, more, g)
      BY <1>1, <1>2, <1>3
    <3>3. ASSUME NEW b \in Seq(Item), b = more PROVE \A i \in 0 .. Len(s) : f[i] = g[i]
      <4>1. Begins(s, b) /\ Stages(t, s, f) /\ Stages(t, b, g)
        BY <3>1, <3>2, <3>3
      <4>2. QED
        BY <4>1, StagesAgree
    <3>4. QED
      BY <3>2, <3>3
  <2>2. QED
    BY <1>1, <2>1
<1>5. g[Len(s) + 1] = bst_insert_node(g[Len(s)], it)
  <2>1. Len(s) + 1 \in 1 .. Len(more) /\ (Len(s) + 1) - 1 = Len(s)
    BY <1>1
  <2>2. QED
    BY <1>1, <1>3, <2>1 DEF Stages
<1>6. QED
  BY <1>1, <1>2, <1>3, <1>4, <1>5 DEF more

-----------------------------------------------------------------------------
(***************************************************************************)
(* Induction on sequences of items, for a set, and insertion of one        *)
(* sequence after another.                                                 *)
(***************************************************************************)
LEMMA ItemsInduction ==
  ASSUME NEW P, <<>> \in P,
         \A s \in Seq(Item), it \in Item : s \in P => Append(s, it) \in P
  PROVE  Seq(Item) \subseteq P
<1> DEFINE S == {n \in Nat : \A s \in Seq(Item) : Len(s) = n => s \in P}
<1>1. 0 \in S
  BY EmptySeq
<1>2. ASSUME NEW n \in Nat, n \in S PROVE n + 1 \in S
  <2> SUFFICES ASSUME NEW s \in Seq(Item), Len(s) = n + 1 PROVE s \in P
    OBVIOUS
  <2> DEFINE u == [i \in 1 .. n |-> s[i]]
  <2>1. \A i \in 1 .. n + 1 : s[i] \in Item
    BY ElementOfSeq
  <2>2. u \in Seq(Item) /\ Len(u) = n
    BY <2>1
  <2>3. s = Append(u, s[n + 1])
    <3>1. /\ Append(u, s[n + 1]) \in Seq(Item) /\ Len(Append(u, s[n + 1])) = n + 1
          /\ \A i \in 1 .. n : Append(u, s[n + 1])[i] = u[i]
          /\ Append(u, s[n + 1])[n + 1] = s[n + 1]
      BY <2>1, <2>2, AppendProperties
    <3> DEFINE w == Append(u, s[n + 1])
    <3>2. \A i \in 1 .. n + 1 : w[i] = s[i]
      BY <3>1
    <3> HIDE DEF u, w
    <3>3. w \in Seq(Item) /\ Len(w) = n + 1
      BY <3>1 DEF w
    <3>4. w = s
      BY <3>2, <3>3, SeqEqual
    <3>5. QED
      BY <3>4 DEF w
  <2>4. u \in P
    BY <1>2, <2>2
  <2>5. s[n + 1] \in Item
    BY <2>1
  <2> HIDE DEF u
  <2>6. QED
    BY <2>2, <2>3, <2>4, <2>5
<1> HIDE DEF S
<1>3. Nat \subseteq S
  BY <1>1, <1>2, Induction
<1>4. QED
  BY <1>3, LenProperties DEF S

LEMMA AppendedItems ==
  ASSUME NEW s \in Seq(Item), NEW it \in Item
  PROVE  Append(s, it) \in Seq(Item) /\ ToSet(Append(s, it)) = ToSet(s) \cup {it}
<1>1. <<it>> \in Seq(Item) /\ ToSet(<<it>>) = {it}
  BY DEF ToSet
<1>2. Append(s, it) = s \o <<it>>
  BY AppendIsConcat
<1>3. QED
  BY <1>1, <1>2, JoinedItems

LEMMA InsertedLeft ==
  ASSUME Heights = Nat, NEW it \in Item, NEW l \in Tree, NEW r \in Tree, NEW c \in BOOLEAN,
         NEW x \in Item, x.key < it.key
  PROVE  bst_insert_node(Node(it, l, r, c), x) = Node(it, bst_insert_node(l, x), r, c)
<1> DEFINE h == Node(it, l, r, c)
<1>1. h \in Tree \ {NIL} /\ h.item = it /\ h.left = l /\ h.right = r /\ h.red = c
  BY NodeType, NodeFields
<1> HIDE DEF h
<1>2. bst_insert_node(h, x) = [h EXCEPT !.left = bst_insert_node(l, x)]
  BY <1>1, BSTInsertIs, Zenon
<1>3. bst_insert_node(l, x) \in Tree
  BY BSTInsertType
<1>4. bst_insert_node(h, x) = Node(it, bst_insert_node(l, x), r, c)
  BY <1>1, <1>2, <1>3, TreeExcept
<1>5. QED
  BY <1>4 DEF h

LEMMA InsertedRight ==
  ASSUME Heights = Nat, NEW it \in Item, NEW l \in Tree, NEW r \in Tree, NEW c \in BOOLEAN,
         NEW x \in Item, it.key < x.key
  PROVE  bst_insert_node(Node(it, l, r, c), x) = Node(it, l, bst_insert_node(r, x), c)
<1> DEFINE h == Node(it, l, r, c)
<1>1. h \in Tree \ {NIL} /\ h.item = it /\ h.left = l /\ h.right = r /\ h.red = c
  BY NodeType, NodeFields
<1>2. ~(x.key < it.key) /\ x.key > it.key
  BY ItemAssumption
<1> HIDE DEF h
<1>3. bst_insert_node(h, x) = [h EXCEPT !.right = bst_insert_node(r, x)]
  BY <1>1, <1>2, BSTInsertIs, Zenon
<1>4. bst_insert_node(r, x) \in Tree
  BY BSTInsertType
<1>5. bst_insert_node(h, x) = Node(it, l, bst_insert_node(r, x), c)
  BY <1>1, <1>3, <1>4, TreeExcept
<1>6. QED
  BY <1>5 DEF h

LEMMA FedTwice ==
  ASSUME Heights = Nat, NEW t \in Tree, NEW a \in Seq(Item), NEW b \in Seq(Item)
  PROVE  Fed(t, a \o b) = Fed(Fed(t, a), b)
<1> DEFINE P == {s \in Seq(Item) : Fed(t, a \o s) = Fed(Fed(t, a), s)}
<1>1. Fed(t, a) \in Tree
  BY FedType
<1>2. <<>> \in P
  <2>1. a \o <<>> = a /\ <<>> \in Seq(Item)
    BY ConcatEmptySeq, EmptySeq
  <2>2. Fed(Fed(t, a), <<>>) = Fed(t, a)
    BY <1>1, FedNothing
  <2>3. QED
    BY <2>1, <2>2
<1>3. ASSUME NEW s \in Seq(Item), NEW it \in Item, s \in P PROVE Append(s, it) \in P
  <2>1. a \o s \in Seq(Item) /\ Append(s, it) \in Seq(Item)
    BY ConcatProperties, AppendProperties
  <2>2. a \o Append(s, it) = Append(a \o s, it)
    BY AppendIsConcat, ConcatAssociative, <2>1
  <2>3. Fed(t, Append(a \o s, it)) = bst_insert_node(Fed(t, a \o s), it)
    BY <2>1, FedOneMore
  <2>4. Fed(Fed(t, a), Append(s, it)) = bst_insert_node(Fed(Fed(t, a), s), it)
    BY <1>1, FedOneMore
  <2>5. QED
    BY <1>3, <2>1, <2>2, <2>3, <2>4
<1> HIDE DEF P
<1>4. Seq(Item) \subseteq P
  BY <1>2, <1>3, ItemsInduction
<1>5. QED
  BY <1>4 DEF P

(***************************************************************************)
(* Items that belong to the left, resp. right, of a node are inserted into *)
(* that subtree.                                                           *)
(***************************************************************************)
LEMMA FedLeft ==
  ASSUME Heights = Nat, NEW it \in Item, NEW l \in Tree, NEW r \in Tree, NEW c \in BOOLEAN,
         NEW s \in Seq(Item), \A y \in ToSet(s) : y.key < it.key
  PROVE  Fed(Node(it, l, r, c), s) = Node(it, Fed(l, s), r, c)
<1> DEFINE Left(u) == \A y \in ToSet(u) : y.key < it.key
           P == {u \in Seq(Item) : Left(u) => Fed(Node(it, l, r, c), u) = Node(it, Fed(l, u), r, c)}
<1>1. Node(it, l, r, c) \in Tree
  BY NodeType
<1>2. <<>> \in P
  BY <1>1, FedNothing, EmptySeq
<1>3. ASSUME NEW u \in Seq(Item), NEW x \in Item, u \in P PROVE Append(u, x) \in P
  <2>1. /\ Append(u, x) \in Seq(Item) /\ ToSet(Append(u, x)) = ToSet(u) \cup {x}
    BY AppendedItems
  <2> SUFFICES ASSUME Left(Append(u, x))
               PROVE  Fed(Node(it, l, r, c), Append(u, x)) = Node(it, Fed(l, Append(u, x)), r, c)
    BY <2>1
  <2>2. Left(u) /\ x.key < it.key
    BY <2>1
  <2>3. Fed(Node(it, l, r, c), u) = Node(it, Fed(l, u), r, c)
    BY <1>3, <2>2
  <2>4. Fed(Node(it, l, r, c), Append(u, x)) = bst_insert_node(Node(it, Fed(l, u), r, c), x)
    BY <1>1, <2>3, FedOneMore
  <2>5. Fed(l, u) \in Tree
    BY FedType
  <2>6. bst_insert_node(Node(it, Fed(l, u), r, c), x) = Node(it, bst_insert_node(Fed(l, u), x), r, c)
    BY <2>2, <2>5, InsertedLeft
  <2>7. Fed(l, Append(u, x)) = bst_insert_node(Fed(l, u), x)
    BY FedOneMore
  <2>8. QED
    BY <2>4, <2>6, <2>7
<1> HIDE DEF P
<1>4. Seq(Item) \subseteq P
  BY <1>2, <1>3, ItemsInduction
<1>5. QED
  BY <1>4 DEF P

LEMMA FedRight ==
  ASSUME Heights = Nat, NEW it \in Item, NEW l \in Tree, NEW r \in Tree, NEW c \in BOOLEAN,
         NEW s \in Seq(Item), \A y \in ToSet(s) : it.key < y.key
  PROVE  Fed(Node(it, l, r, c), s) = Node(it, l, Fed(r, s), c)
<1> DEFINE Right(u) == \A y \in ToSet(u) : it.key < y.key
           P == {u \in Seq(Item) : Right(u) => Fed(Node(it, l, r, c), u) = Node(it, l, Fed(r, u), c)}
<1>1. Node(it, l, r, c) \in Tree
  BY NodeType
<1>2. <<>> \in P
  BY <1>1, FedNothing, EmptySeq
<1>3. ASSUME NEW u \in Seq(Item), NEW x \in Item, u \in P PROVE Append(u, x) \in P
  <2>1. /\ Append(u, x) \in Seq(Item) /\ ToSet(Append(u, x)) = ToSet(u) \cup {x}
    BY AppendedItems
  <2> SUFFICES ASSUME Right(Append(u, x))
               PROVE  Fed(Node(it, l, r, c), Append(u, x)) = Node(it, l, Fed(r, Append(u, x)), c)
    BY <2>1
  <2>2. Right(u) /\ it.key < x.key
    BY <2>1
  <2>3. Fed(Node(it, l, r, c), u) = Node(it, l, Fed(r, u), c)
    BY <1>3, <2>2
  <2>4. Fed(Node(it, l, r, c), Append(u, x)) = bst_insert_node(Node(it, l, Fed(r, u), c), x)
    BY <1>1, <2>3, FedOneMore
  <2>5. Fed(r, u) \in Tree
    BY FedType
  <2>6. bst_insert_node(Node(it, l, Fed(r, u), c), x) = Node(it, l, bst_insert_node(Fed(r, u), x), c)
    BY <2>2, <2>5, InsertedRight
  <2>7. Fed(r, Append(u, x)) = bst_insert_node(Fed(r, u), x)
    BY FedOneMore
  <2>8. QED
    BY <2>4, <2>6, <2>7
<1> HIDE DEF P
<1>4. Seq(Item) \subseteq P
  BY <1>2, <1>3, ItemsInduction
<1>5. QED
  BY <1>4 DEF P

-----------------------------------------------------------------------------
(***************************************************************************)
(* Trees without a red node: the least set that is Closed.  bst.c builds   *)
(* no others.                                                              *)
(***************************************************************************)
Closed(S) ==
  /\ NIL \in S
  /\ \A h \in Nodes(Tree) : h.left \in S /\ h.right \in S /\ ~h.red => h \in S

Plain == {h \in Tree : \A S \in SUBSET Tree : Closed(S) => h \in S}

LEMMA PlainInduction ==
  ASSUME NEW P \in SUBSET Tree, Closed(P)
  PROVE  Plain \subseteq P
BY DEF Plain

LEMMA PlainClosed ==
  ASSUME Heights = Nat
  PROVE  Plain \subseteq Tree /\ Closed(Plain)
<1>1. NIL \in Plain
  BY TreeIs DEF Plain, Closed
<1>2. ASSUME NEW h \in Nodes(Tree), h.left \in Plain, h.right \in Plain, ~h.red PROVE h \in Plain
  <2>1. h \in Tree
    BY TreeIs
  <2>2. ASSUME NEW S \in SUBSET Tree, Closed(S) PROVE h \in S
    BY <1>2, <2>2 DEF Plain, Closed
  <2>3. QED
    BY <2>1, <2>2 DEF Plain
<1>3. QED
  BY <1>1, <1>2 DEF Plain, Closed

LEMMA PlainParts ==
  ASSUME Heights = Nat
  PROVE  \A h \in Plain \ {NIL} : h.left \in Plain /\ h.right \in Plain /\ h.red = FALSE
<1> DEFINE P == {h \in Tree : h # NIL => h.left \in Plain /\ h.right \in Plain /\ h.red = FALSE}
<1>1. NIL \in P
  BY TreeIs
<1>2. ASSUME NEW h \in Nodes(Tree), h.left \in P \cap Plain, h.right \in P \cap Plain, ~h.red
      PROVE  h \in P
  BY <1>2, TreeIs, NodeIs
<1>3. Closed(P \cap Plain)
  BY <1>1, <1>2, PlainClosed DEF Closed
<1>4. P \cap Plain \in SUBSET Tree
  OBVIOUS
<1> HIDE DEF P
<1>5. Plain \subseteq P \cap Plain
  BY <1>3, <1>4, PlainInduction
<1>6. QED
  BY <1>5 DEF P

LEMMA PlainNode ==
  ASSUME Heights = Nat, NEW it \in Item, NEW l \in Plain, NEW r \in Plain
  PROVE  Node(it, l, r, FALSE) \in Plain
<1>1. l \in Tree /\ r \in Tree
  BY PlainClosed
<1> DEFINE h == Node(it, l, r, FALSE)
<1>2. h \in Nodes(Tree)
  BY <1>1, NodeType
<1>3. h.left = l /\ h.right = r /\ h.red = FALSE
  BY DEF Node
<1> HIDE DEF h
<1>4. h \in Plain
  BY <1>2, <1>3, PlainClosed DEF Closed
<1>5. QED
  BY <1>4 DEF h

LEMMA PlainIs ==
  ASSUME Heights = Nat, NEW h \in Plain, h # NIL
  PROVE  /\ h \in Tree /\ h.item \in Item /\ h.left \in Plain /\ h.right \in Plain
         /\ h.left \in Tree /\ h.right \in Tree
         /\ h = Node(h.item, h.left, h.right, FALSE)
BY PlainClosed, PlainParts, TreeParts

LEMMA InsertPlain ==
  ASSUME Heights = Nat, NEW it \in Item
  PROVE  \A h \in Plain : bst_insert_node(h, it) \in Plain
<1> DEFINE P == {h \in Plain : bst_insert_node(h, it) \in Plain}
<1>1. NIL \in P
  <2>1. NIL \in Plain /\ NIL \in Tree
    BY PlainClosed, TreeIs DEF Closed
  <2>2. bst_insert_node(NIL, it) = Node(it, NIL, NIL, FALSE)
    BY <2>1, BSTInsertIs DEF Leaf
  <2>3. QED
    BY <2>1, <2>2, PlainNode
<1>2. ASSUME NEW h \in Nodes(Tree), h.left \in P, h.right \in P, ~h.red PROVE h \in P
  <2>1. h \in Plain /\ h # NIL
    BY <1>2, PlainClosed, NilAssumption DEF Closed
  <2>2. /\ h \in Tree /\ h.item \in Item /\ h.left \in Plain /\ h.right \in Plain
        /\ h.left \in Tree /\ h.right \in Tree
        /\ h = Node(h.item, h.left, h.right, FALSE) /\ h.red = FALSE
    BY <2>1, PlainIs, PlainParts
  <2>3. bst_insert_node(h.left, it) \in Plain /\ bst_insert_node(h.right, it) \in Plain
    BY <1>2
  <2>4. /\ bst_insert_node(h, it) \in { Node(h.item, bst_insert_node(h.left, it), h.right, FALSE),
                                        Node(h.item, h.left, bst_insert_node(h.right, it), FALSE), h }
    <3>1. /\ [h EXCEPT !.left = bst_insert_node(h.left, it)]
               = Node(h.item, bst_insert_node(h.left, it), h.right, FALSE)
          /\ [h EXCEPT !.right = bst_insert_node(h.right, it)]
               = Node(h.item, h.left, bst_insert_node(h.right, it), FALSE)
      BY <2>1, <2>2, <2>3, TreeExcept, PlainClosed
    <3>2. bst_insert_node(h, it) \in { [h EXCEPT !.left = bst_insert_node(h.left, it)],
                                       [h EXCEPT !.right = bst_insert_node(h.right, it)], h }
      BY <2>1, <2>2, BSTInsertIs, Zenon
    <3>3. QED
      BY <3>1, <3>2
  <2>5. QED
    BY <2>1, <2>2, <2>3, <2>4, PlainNode
<1>3. Closed(P)
  BY <1>1, <1>2 DEF Closed
<1>4. P \in SUBSET Tree
  BY PlainClosed
<1> HIDE DEF P
<1>5. Plain \subseteq P
  BY <1>3, <1>4, PlainInduction
<1>6. QED
  BY <1>5 DEF P

LEMMA RemovePlain ==
  ASSUME Heights = Nat
  PROVE  \A h \in Plain : \A k \in Key : bst_remove_node(h, k) \in Plain
<1> DEFINE P == {h \in Plain : \A k \in Key : bst_remove_node(h, k) \in Plain}
<1>1. NIL \in P
  <2>1. NIL \in Plain /\ NIL \in Tree
    BY PlainClosed, TreeIs DEF Closed
  <2>2. \A k \in Key : bst_remove_node(NIL, k) = NIL
    BY <2>1, BSTRemoveIs
  <2>3. QED
    BY <2>1, <2>2
<1>2. ASSUME NEW h \in Nodes(Tree), h.left \in P, h.right \in P, ~h.red PROVE h \in P
  <2>1. h \in Plain /\ h # NIL
    BY <1>2, PlainClosed, NilAssumption DEF Closed
  <2>2. /\ h \in Tree /\ h.item \in Item /\ h.left \in Plain /\ h.right \in Plain
        /\ h.left \in Tree /\ h.right \in Tree
        /\ h = Node(h.item, h.left, h.right, FALSE) /\ h.red = FALSE
    BY <2>1, PlainIs, PlainParts
  <2> SUFFICES ASSUME NEW k \in Key PROVE bst_remove_node(h, k) \in Plain
    BY <2>1
  <2> DEFINE l == bst_remove_node(h.left, k)
             r == bst_remove_node(h.right, k)
             m == min_node(h.right).item
             w == bst_remove_node(h.right, m.key)
  <2>3. l \in Plain /\ r \in Plain
    BY <1>2
  <2>4. ASSUME h.right # NIL PROVE m \in Item /\ w \in Plain
    <3>1. m \in Item /\ m.key \in Key
      BY <2>2, <2>4, MinType, TreeParts
    <3>2. QED
      BY <1>2, <3>1
  <2>5. bst_remove_node(h, k) \in { [h EXCEPT !.left = l], [h EXCEPT !.right = r], h.right, h.left }
          \/ (h.right # NIL /\ bst_remove_node(h, k) = Node(m, h.left, w, h.red))
    BY <2>1, <2>2, BSTRemoveIs, Zenon
  <2>6. /\ [h EXCEPT !.left = l] = Node(h.item, l, h.right, FALSE)
        /\ [h EXCEPT !.right = r] = Node(h.item, h.left, r, FALSE)
    <3>1. ASSUME NEW x \in Tree
          PROVE  /\ [h EXCEPT !.left = x] = Node(h.item, x, h.right, FALSE)
                 /\ [h EXCEPT !.right = x] = Node(h.item, h.left, x, FALSE)
      BY <2>1, <2>2, TreeExcept
    <3>2. l \in Tree /\ r \in Tree
      BY <2>3, PlainClosed
    <3> HIDE DEF l, r
    <3>3. QED
      BY <3>1, <3>2
  <2> HIDE DEF l, r, m, w
  <2>7. Node(h.item, l, h.right, FALSE) \in Plain /\ Node(h.item, h.left, r, FALSE) \in Plain
    BY <2>2, <2>3, PlainNode
  <2>8. h.right # NIL => Node(m, h.left, w, h.red) \in Plain
    BY <2>2, <2>4, PlainNode
  <2>9. QED
    BY <2>2, <2>5, <2>6, <2>7, <2>8, Zenon
<1>3. Closed(P)
  BY <1>1, <1>2 DEF Closed
<1>4. P \in SUBSET Tree
  BY PlainClosed
<1> HIDE DEF P
<1>5. Plain \subseteq P
  BY <1>3, <1>4, PlainInduction
<1>6. QED
  BY <1>5 DEF P

-----------------------------------------------------------------------------
(***************************************************************************)
(* Sequences without a repetition, and sequences back to front.            *)
(***************************************************************************)
LEMMA JoinedInjective ==
  ASSUME NEW a \in Seq(Item), NEW b \in Seq(Item), IsInjective(a), IsInjective(b),
         ToSet(a) \cap ToSet(b) = {}
  PROVE  IsInjective(a \o b)
<1> DEFINE s == a \o b
<1>1. /\ Len(a) \in Nat /\ Len(b) \in Nat /\ DOMAIN a = 1 .. Len(a) /\ DOMAIN b = 1 .. Len(b)
      /\ s \in Seq(Item) /\ Len(s) = Len(a) + Len(b) /\ DOMAIN s = 1 .. Len(s)
      /\ \A i \in 1 .. Len(a) + Len(b) : s[i] = IF i <= Len(a) THEN a[i] ELSE b[i - Len(a)]
  BY ConcatProperties, LenProperties
<1> HIDE DEF s
<1>2. ASSUME NEW i \in DOMAIN s, NEW j \in DOMAIN s, s[i] = s[j], i <= j PROVE i = j
  <2>1. i \in 1 .. Len(a) + Len(b) /\ j \in 1 .. Len(a) + Len(b)
    BY <1>1
  <2>2. CASE j <= Len(a)
    <3>1. i \in DOMAIN a /\ j \in DOMAIN a /\ s[i] = a[i] /\ s[j] = a[j]
      BY <1>1, <1>2, <2>1, <2>2
    <3>2. QED
      BY <1>2, <3>1 DEF IsInjective
  <2>3. CASE i > Len(a)
    <3> DEFINE p == i - Len(a)
               q == j - Len(a)
    <3>1. p \in DOMAIN b /\ q \in DOMAIN b /\ s[i] = b[p] /\ s[j] = b[q]
      BY <1>1, <1>2, <2>1, <2>3
    <3>2. p = q
      BY <1>2, <3>1 DEF IsInjective
    <3>3. QED
      BY <1>1, <2>1, <3>2
  <2>4. CASE i <= Len(a) /\ j > Len(a)
    <3>1. i \in DOMAIN a /\ j - Len(a) \in DOMAIN b /\ s[i] = a[i] /\ s[j] = b[j - Len(a)]
      BY <1>1, <2>1, <2>4
    <3>2. s[i] \in ToSet(a) /\ s[j] \in ToSet(b)
      BY <3>1 DEF ToSet
    <3>3. QED
      BY <1>2, <3>2
  <2>5. QED
    BY <1>1, <1>2, <2>1, <2>2, <2>3, <2>4
<1>3. ASSUME NEW i \in DOMAIN s, NEW j \in DOMAIN s, s[i] = s[j] PROVE i = j
  <2>1. i <= j \/ j <= i
    BY <1>1
  <2>2. QED
    BY <1>2, <1>3, <2>1
<1>4. IsInjective(s)
  BY <1>3 DEF IsInjective
<1>5. QED
  BY <1>4 DEF s

LEMMA OneInjective ==
  ASSUME NEW it \in Item
  PROVE  <<it>> \in Seq(Item) /\ ToSet(<<it>>) = {it} /\ IsInjective(<<it>>)
BY DEF ToSet, IsInjective

LEMMA ReverseType ==
  ASSUME NEW s \in Seq(Item)
  PROVE  /\ Reverse(s) \in Seq(Item) /\ Len(Reverse(s)) = Len(s)
         /\ \A i \in 1 .. Len(s) : Reverse(s)[i] = s[(Len(s) - i) + 1]
         /\ ToSet(Reverse(s)) = ToSet(s)
<1>1. Len(s) \in Nat /\ DOMAIN s = 1 .. Len(s) /\ \A i \in 1 .. Len(s) : s[i] \in Item
  BY LenProperties, ElementOfSeq
<1>2. \A i \in 1 .. Len(s) : (Len(s) - i) + 1 \in 1 .. Len(s) /\ (Len(s) - ((Len(s) - i) + 1)) + 1 = i
  BY <1>1
<1>3. Reverse(s) \in [1 .. Len(s) -> Item]
  BY <1>1, <1>2 DEF Reverse
<1>4. Reverse(s) \in Seq(Item) /\ Len(Reverse(s)) = Len(s) /\ DOMAIN Reverse(s) = 1 .. Len(s)
  BY <1>1, <1>3
<1>5. \A i \in 1 .. Len(s) : Reverse(s)[i] = s[(Len(s) - i) + 1]
  BY DEF Reverse
<1>6. \A i \in 1 .. Len(s) : s[i] = Reverse(s)[(Len(s) - i) + 1]
  BY <1>2, <1>5
<1>7. ToSet(Reverse(s)) = ToSet(s)
  BY <1>1, <1>2, <1>4, <1>5, <1>6 DEF ToSet
<1>8. QED
  BY <1>4, <1>5, <1>7

LEMMA ReverseJoined ==
  ASSUME NEW a \in Seq(Item), NEW b \in Seq(Item)
  PROVE  Reverse(a \o b) = Reverse(b) \o Reverse(a)
<1> DEFINE m == Len(a)
           n == Len(b)
           s == a \o b
           x == Reverse(a)
           y == Reverse(b)
           t == y \o x
<1>1. m \in Nat /\ n \in Nat
  BY LenProperties
<1>2. /\ s \in Seq(Item) /\ Len(s) = m + n
      /\ \A i \in 1 .. m + n : s[i] = IF i <= m THEN a[i] ELSE b[i - m]
  BY ConcatProperties
<1>3. /\ x \in Seq(Item) /\ Len(x) = m
      /\ \A i \in 1 .. m : x[i] = a[(m - i) + 1]
      /\ y \in Seq(Item) /\ Len(y) = n
      /\ \A i \in 1 .. n : y[i] = b[(n - i) + 1]
  BY ReverseType
<1> HIDE DEF x, y, s, m, n
<1>4. /\ t \in Seq(Item) /\ Len(t) = n + m
      /\ \A i \in 1 .. n + m : t[i] = IF i <= n THEN y[i] ELSE x[i - n]
  BY <1>3, ConcatProperties
<1> HIDE DEF t
<1>5. /\ Reverse(s) \in Seq(Item) /\ Len(Reverse(s)) = m + n
      /\ \A i \in 1 .. m + n : Reverse(s)[i] = s[((m + n) - i) + 1]
  <2>1. /\ Reverse(s) \in Seq(Item) /\ Len(Reverse(s)) = Len(s)
        /\ \A i \in 1 .. Len(s) : Reverse(s)[i] = s[(Len(s) - i) + 1]
    BY <1>2, ReverseType
  <2>2. QED
    BY <1>2, <2>1
<1>6. ASSUME NEW i \in 1 .. m + n PROVE Reverse(s)[i] = t[i]
  <2>1. ((m + n) - i) + 1 \in 1 .. m + n
    BY <1>1
  <2>2. CASE i <= n
    <3>1. i \in 1 .. n /\ ~(((m + n) - i) + 1 <= m) /\ (((m + n) - i) + 1) - m = (n - i) + 1
      BY <1>1, <2>2
    <3>2. Reverse(s)[i] = b[(n - i) + 1]
      BY <1>2, <1>5, <2>1, <3>1
    <3>3. t[i] = b[(n - i) + 1]
      BY <1>1, <1>3, <1>4, <2>2, <3>1
    <3>4. QED
      BY <3>2, <3>3
  <2>3. CASE ~(i <= n)
    <3>1. i - n \in 1 .. m /\ ((m + n) - i) + 1 <= m /\ ((m + n) - i) + 1 = (m - (i - n)) + 1
      BY <1>1, <2>3
    <3>2. Reverse(s)[i] = a[(m - (i - n)) + 1]
      BY <1>2, <1>5, <2>1, <3>1
    <3>3. t[i] = a[(m - (i - n)) + 1]
      BY <1>1, <1>3, <1>4, <2>3, <3>1
    <3>4. QED
      BY <3>2, <3>3
  <2>4. QED
    BY <2>2, <2>3
<1>7. Reverse(s) = t
  <2>1. Len(Reverse(s)) = Len(t) /\ \A i \in 1 .. Len(Reverse(s)) : Reverse(s)[i] = t[i]
    BY <1>1, <1>4, <1>5, <1>6
  <2>2. QED
    BY <1>4, <1>5, <2>1, SeqEqual
<1>8. QED
  BY <1>7 DEF s, t, x, y

LEMMA ReverseOne ==
  ASSUME NEW it \in Item
  PROVE  Reverse(<<it>>) = <<it>>
<1>1. <<it>> \in Seq(Item) /\ Len(<<it>>) = 1 /\ <<it>>[1] = it
  OBVIOUS
<1>2. /\ Reverse(<<it>>) \in Seq(Item) /\ Len(Reverse(<<it>>)) = 1
      /\ \A i \in 1 .. 1 : Reverse(<<it>>)[i] = <<it>>[(1 - i) + 1]
  BY <1>1, ReverseType
<1>3. \A i \in 1 .. 1 : Reverse(<<it>>)[i] = <<it>>[i]
  BY <1>1, <1>2
<1>4. QED
  BY <1>1, <1>2, <1>3, SeqEqual

-----------------------------------------------------------------------------
(***************************************************************************)
(* What the traversals show of an ordered tree: no item twice, and from a  *)
(* preorder or a reversed postorder dump the shape comes back.             *)
(***************************************************************************)
LEMMA ShownOnce ==
  ASSUME Heights = Nat, NEW order \in Orders
  PROVE  \A h \in Tree : Ordered(h) => IsInjective(traverse_node(h, order))
<1> DEFINE show(h) == traverse_node(h, order)
           P == {h \in Tree : Ordered(h) => IsInjective(show(h))}
<1>1. NIL \in P
  <2>1. NIL \in Tree /\ show(NIL) = <<>>
    BY EmptyTree, TraverseIs
  <2>2. IsInjective(<<>>)
    BY DEF IsInjective
  <2>3. QED
    BY <2>1, <2>2
<1>2. ASSUME NEW h \in Nodes(Tree), h.left \in P, h.right \in P PROVE h \in P
  <2>1. h \in Tree /\ h # NIL /\ h.item \in Item /\ h.left \in Tree /\ h.right \in Tree
    BY TreeIs, NodeIs, NilAssumption
  <2> SUFFICES ASSUME Ordered(h) PROVE IsInjective(show(h))
    BY <2>1
  <2> DEFINE me == <<h.item>>
             l == show(h.left)
             r == show(h.right)
  <2>2. /\ Ordered(h.left) /\ Ordered(h.right)
        /\ \A y \in Items(h.left) : y.key < h.item.key
        /\ \A y \in Items(h.right) : h.item.key < y.key
    BY <2>1, HeldParts
  <2>3. me \in Seq(Item) /\ ToSet(me) = {h.item} /\ IsInjective(me)
    BY <2>1, OneInjective
  <2>4. /\ l \in Seq(Item) /\ ToSet(l) = Items(h.left) /\ IsInjective(l)
        /\ r \in Seq(Item) /\ ToSet(r) = Items(h.right) /\ IsInjective(r)
    BY <1>2, <2>1, <2>2, Shown
  <2>5. show(h) = me \o l \o r \/ show(h) = l \o me \o r \/ show(h) = l \o r \o me
    <3>1. CASE order = "preorder"
      BY <2>1, <3>1, TraverseIs
    <3>2. CASE order = "inorder"
      BY <2>1, <3>2, TraverseIs
    <3>3. CASE order = "postorder"
      BY <2>1, <3>3, TraverseIs
    <3>4. QED
      BY <3>1, <3>2, <3>3 DEF Orders
  <2>6. /\ \A y \in Items(h.left) : y.key \in Int
        /\ \A y \in Items(h.right) : y.key \in Int
        /\ h.item.key \in Int
    BY <2>1, InorderType, ItemAssumption
  <2>7. /\ h.item \notin Items(h.left) /\ h.item \notin Items(h.right)
        /\ Items(h.left) \cap Items(h.right) = {}
    <3>1. ASSUME NEW y \in Items(h.left), y \in Items(h.right) PROVE FALSE
      BY <2>2, <2>6, <3>1
    <3>2. QED
      BY <2>2, <2>6, <3>1
  <2> HIDE DEF show, me, l, r
  <2>8. ASSUME NEW a \in Seq(Item), NEW b \in Seq(Item), NEW c \in Seq(Item),
               IsInjective(a), IsInjective(b), IsInjective(c),
               ToSet(a) \cap ToSet(b) = {}, ToSet(a) \cap ToSet(c) = {}, ToSet(b) \cap ToSet(c) = {}
        PROVE  IsInjective(a \o b \o c)
    <3> DEFINE d == a \o b
    <3>1. d \in Seq(Item) /\ ToSet(d) = ToSet(a) \cup ToSet(b) /\ IsInjective(d)
      BY <2>8, JoinedItems, JoinedInjective
    <3> HIDE DEF d
    <3>2. ToSet(d) \cap ToSet(c) = {}
      BY <2>8, <3>1
    <3>3. IsInjective(d \o c)
      BY <2>8, <3>1, <3>2, JoinedInjective
    <3>4. QED
      BY <3>3 DEF d
  <2>9. /\ ToSet(me) \cap ToSet(l) = {} /\ ToSet(me) \cap ToSet(r) = {}
        /\ ToSet(l) \cap ToSet(r) = {} /\ ToSet(l) \cap ToSet(me) = {} /\ ToSet(r) \cap ToSet(me) = {}
    BY <2>3, <2>4, <2>7
  <2>10. IsInjective(me \o l \o r) /\ IsInjective(l \o me \o r) /\ IsInjective(l \o r \o me)
    BY <2>3, <2>4, <2>8, <2>9
  <2>11. QED
    BY <2>5, <2>10
<1> HIDE DEF P
<1>3. Tree \subseteq P
  BY <1>1, <1>2, TreeInduction
<1>4. QED
  BY <1>3 DEF P

LEMMA LeafFed ==
  ASSUME Heights = Nat, NEW it \in Item
  PROVE  Fed(NIL, <<it>>) = Node(it, NIL, NIL, FALSE)
<1>1. NIL \in Tree /\ <<>> \in Seq(Item) /\ <<it>> = Append(<<>>, it)
  BY EmptyTree
<1>2. Fed(NIL, Append(<<>>, it)) = bst_insert_node(Fed(NIL, <<>>), it)
  BY <1>1, FedOneMore
<1>3. Fed(NIL, <<>>) = NIL /\ bst_insert_node(NIL, it) = Node(it, NIL, NIL, FALSE)
  BY <1>1, FedNothing, BSTInsertIs DEF Leaf
<1>4. QED
  BY <1>1, <1>2, <1>3

\* A root's item first, then the items of its two sides in either order.
LEMMA NodeFed ==
  ASSUME Heights = Nat, NEW it \in Item, NEW a \in Seq(Item), NEW b \in Seq(Item),
         \A y \in ToSet(a) : y.key < it.key, \A y \in ToSet(b) : it.key < y.key
  PROVE  /\ Fed(NIL, <<it>> \o a \o b) = Node(it, Fed(NIL, a), Fed(NIL, b), FALSE)
         /\ Fed(NIL, <<it>> \o b \o a) = Node(it, Fed(NIL, a), Fed(NIL, b), FALSE)
<1> DEFINE me == <<it>>
           l == Fed(NIL, a)
           r == Fed(NIL, b)
<1>1. NIL \in Tree /\ me \in Seq(Item) /\ FALSE \in BOOLEAN
  BY EmptyTree
<1>2. l \in Tree /\ r \in Tree
  BY <1>1, FedType
<1>3. Fed(NIL, me) = Node(it, NIL, NIL, FALSE)
  BY LeafFed
<1>4. me \o a \in Seq(Item) /\ me \o b \in Seq(Item)
  BY <1>1, ConcatProperties
<1> HIDE DEF me
<1>5. Fed(NIL, me \o a) = Node(it, l, NIL, FALSE)
  <2>1. Fed(NIL, me \o a) = Fed(Node(it, NIL, NIL, FALSE), a)
    BY <1>1, <1>3, FedTwice
  <2>2. QED
    BY <1>1, <2>1, FedLeft
<1>6. Fed(NIL, me \o b) = Node(it, NIL, r, FALSE)
  <2>1. Fed(NIL, me \o b) = Fed(Node(it, NIL, NIL, FALSE), b)
    BY <1>1, <1>3, FedTwice
  <2>2. QED
    BY <1>1, <2>1, FedRight
<1>7. Fed(NIL, me \o a \o b) = Node(it, l, r, FALSE)
  <2>1. Fed(NIL, (me \o a) \o b) = Fed(Node(it, l, NIL, FALSE), b)
    <3> DEFINE d == me \o a
    <3>1. d \in Seq(Item) /\ Fed(NIL, d) = Node(it, l, NIL, FALSE)
      BY <1>4, <1>5
    <3> HIDE DEF d
    <3>2. Fed(NIL, d \o b) = Fed(Fed(NIL, d), b)
      BY <1>1, <3>1, FedTwice
    <3>3. QED
      BY <3>1, <3>2 DEF d
  <2>2. Fed(Node(it, l, NIL, FALSE), b) = Node(it, l, r, FALSE)
    <3> HIDE DEF l
    <3>1. QED
      BY <1>1, <1>2, FedRight
  <2>3. QED
    BY <2>1, <2>2
<1>8. Fed(NIL, me \o b \o a) = Node(it, l, r, FALSE)
  <2>1. Fed(NIL, (me \o b) \o a) = Fed(Node(it, NIL, r, FALSE), a)
    <3> DEFINE d == me \o b
    <3>1. d \in Seq(Item) /\ Fed(NIL, d) = Node(it, NIL, r, FALSE)
      BY <1>4, <1>6
    <3> HIDE DEF d
    <3>2. Fed(NIL, d \o a) = Fed(Fed(NIL, d), a)
      BY <1>1, <3>1, FedTwice
    <3>3. QED
      BY <3>1, <3>2 DEF d
  <2>2. Fed(Node(it, NIL, r, FALSE), a) = Node(it, l, r, FALSE)
    <3> HIDE DEF r
    <3>1. QED
      BY <1>1, <1>2, FedLeft
  <2>3. QED
    BY <2>1, <2>2
<1>9. QED
  BY <1>7, <1>8 DEF me

LEMMA DumpRestores ==
  ASSUME Heights = Nat
  PROVE  \A h \in Plain : Ordered(h) =>
           /\ Fed(NIL, traverse_node(h, "preorder")) = h
           /\ Fed(NIL, Reverse(traverse_node(h, "postorder"))) = h
<1> DEFINE pre(h) == traverse_node(h, "preorder")
           post(h) == traverse_node(h, "postorder")
           Comes(h) == Fed(NIL, pre(h)) = h /\ Fed(NIL, Reverse(post(h))) = h
           P == {h \in Plain : Ordered(h) => Comes(h)}
<1>1. NIL \in P
  <2>1. NIL \in Tree /\ NIL \in Plain
    BY EmptyTree, PlainClosed DEF Closed
  <2>2. pre(NIL) = <<>> /\ post(NIL) = <<>>
    BY <2>1, TraverseIs DEF Orders
  <2>3. Reverse(<<>>) = <<>>
    <3>1. <<>> \in Seq(Item) /\ Len(<<>>) = 0
      OBVIOUS
    <3>2. Reverse(<<>>) \in Seq(Item) /\ Len(Reverse(<<>>)) = 0
      BY <3>1, ReverseType
    <3>3. QED
      BY <3>2, EmptySeq
  <2>4. Fed(NIL, <<>>) = NIL
    BY <2>1, FedNothing
  <2>5. QED
    BY <2>1, <2>2, <2>3, <2>4
<1>2. ASSUME NEW h \in Nodes(Tree), h.left \in P, h.right \in P, ~h.red PROVE h \in P
  <2>1. h \in Plain /\ h # NIL
    BY <1>2, PlainClosed, NilAssumption DEF Closed
  <2>2. /\ h \in Tree /\ h.item \in Item /\ h.left \in Tree /\ h.right \in Tree
        /\ h = Node(h.item, h.left, h.right, FALSE)
    BY <2>1, PlainIs
  <2> SUFFICES ASSUME Ordered(h) PROVE Comes(h)
    BY <2>1
  <2>3. /\ Ordered(h.left) /\ Ordered(h.right)
        /\ \A y \in Items(h.left) : y.key < h.item.key
        /\ \A y \in Items(h.right) : h.item.key < y.key
    BY <2>1, <2>2, HeldParts
  <2>4. Comes(h.left) /\ Comes(h.right)
    BY <1>2, <2>3
  <2> DEFINE me == <<h.item>>
             l == pre(h.left)
             r == pre(h.right)
             pl == post(h.left)
             pr == post(h.right)
  <2>5. /\ l \in Seq(Item) /\ ToSet(l) = Items(h.left)
        /\ r \in Seq(Item) /\ ToSet(r) = Items(h.right)
        /\ pl \in Seq(Item) /\ ToSet(pl) = Items(h.left)
        /\ pr \in Seq(Item) /\ ToSet(pr) = Items(h.right)
    BY <2>2, Shown DEF Orders
  <2>6. pre(h) = me \o l \o r
    BY <2>1, <2>2, TraverseIs DEF Orders
  <2>7. post(h) = pl \o pr \o me
    BY <2>1, <2>2, TraverseIs DEF Orders
  <2>8. Fed(NIL, pre(h)) = h
    <3>1. Fed(NIL, l) = h.left /\ Fed(NIL, r) = h.right
      BY <2>4
    <3> HIDE DEF pre, l, r
    <3>2. (\A y \in ToSet(l) : y.key < h.item.key) /\ (\A y \in ToSet(r) : h.item.key < y.key)
      BY <2>3, <2>5
    <3>3. Fed(NIL, me \o l \o r) = Node(h.item, Fed(NIL, l), Fed(NIL, r), FALSE)
      BY <2>2, <2>5, <3>2, NodeFed
    <3>4. QED
      BY <2>2, <2>6, <3>1, <3>3
  <2>9. Reverse(post(h)) = me \o Reverse(pr) \o Reverse(pl)
    <3> HIDE DEF pl, pr, post
    <3>1. me \in Seq(Item) /\ Reverse(me) = me
      BY <2>2, ReverseOne
    <3>2. /\ pl \o pr \in Seq(Item) /\ Reverse(pl) \in Seq(Item) /\ Reverse(pr) \in Seq(Item)
      BY <2>5, ConcatProperties, ReverseType
    <3> DEFINE d == pl \o pr
    <3> HIDE DEF me, d
    <3>3. Reverse(d \o me) = me \o Reverse(d)
      <4>1. d \in Seq(Item)
        BY <3>2 DEF d
      <4>2. QED
        BY <3>1, <4>1, ReverseJoined
    <3>4. Reverse(pl \o pr) = Reverse(pr) \o Reverse(pl)
      BY <2>5, ReverseJoined DEF d
    <3>5. me \o (Reverse(pr) \o Reverse(pl)) = (me \o Reverse(pr)) \o Reverse(pl)
      <4> DEFINE back == Reverse(pr)
                 front == Reverse(pl)
      <4>1. back \in Seq(Item) /\ front \in Seq(Item)
        BY <3>2
      <4> HIDE DEF back, front
      <4>2. me \o (back \o front) = (me \o back) \o front
        BY <3>1, <4>1, ConcatAssociative
      <4>3. QED
        BY <4>2 DEF back, front
    <3>6. QED
      BY <2>7, <3>3, <3>4, <3>5 DEF d
  <2>10. Fed(NIL, Reverse(post(h))) = h
    <3>1. Fed(NIL, Reverse(pl)) = h.left /\ Fed(NIL, Reverse(pr)) = h.right
      BY <2>4
    <3> HIDE DEF post, pl, pr
    <3> DEFINE a == Reverse(pl)
               b == Reverse(pr)
    <3>2. /\ a \in Seq(Item) /\ ToSet(a) = Items(h.left)
          /\ b \in Seq(Item) /\ ToSet(b) = Items(h.right)
      BY <2>5, ReverseType
    <3>3. Fed(NIL, a) = h.left /\ Fed(NIL, b) = h.right
      BY <3>1
    <3>4. Reverse(post(h)) = me \o b \o a
      BY <2>9
    <3> HIDE DEF a, b
    <3>5. (\A y \in ToSet(a) : y.key < h.item.key) /\ (\A y \in ToSet(b) : h.item.key < y.key)
      BY <2>3, <3>2
    <3>6. Fed(NIL, me \o b \o a) = Node(h.item, Fed(NIL, a), Fed(NIL, b), FALSE)
      BY <2>2, <3>2, <3>5, NodeFed
    <3>7. QED
      BY <2>2, <3>3, <3>4, <3>6
  <2>11. QED
    BY <2>8, <2>10
<1>3. Closed(P)
  BY <1>1, <1>2 DEF Closed
<1>4. P \in SUBSET Tree
  BY PlainClosed
<1> HIDE DEF P
<1>5. Plain \subseteq P
  BY <1>3, <1>4, PlainInduction
<1>6. QED
  BY <1>5 DEF P

(***************************************************************************)
(* bst.c's tree has no red node, and what the last traversal showed is the *)
(* tree as it is.                                                          *)
(***************************************************************************)
BSTShown ==
  /\ root \in Plain
  /\ res.op = "traverse" => res.arg \in Orders /\ seen = traverse_node(root, res.arg)

LEMMA InitShown ==
  ASSUME Heights = Nat, Init
  PROVE  BSTShown
<1>1. NIL \in Plain
  BY PlainClosed DEF Closed
<1>2. QED
  BY <1>1 DEF Init, BSTShown, Pending, Answer

LEMMA BSTKeepsShown ==
  ASSUME Heights = Nat, BSTShown, [BSTNext]_vars
  PROVE  BSTShown'
<1>1. NIL \in Plain
  BY PlainClosed DEF Closed
<1>2. CASE Create
  BY <1>1, <1>2 DEF Create, BSTShown, Pending, Answer
<1>3. CASE Destroy
  BY <1>1, <1>3 DEF Destroy, BSTShown, Answer
<1>4. CASE Refuse
  BY <1>4 DEF Refuse, BSTShown, Refusal, Answer
<1>5. ASSUME NEW k \in Key, Search(k) PROVE BSTShown'
  BY <1>5 DEF Search, BSTShown, Answer
<1>6. ASSUME NEW order \in Orders, Traverse(order) PROVE BSTShown'
  BY <1>6 DEF Traverse, BSTShown, Answer
<1>7. ASSUME NEW it \in Item, BSTInsert(it) PROVE BSTShown'
  <2>1. root' = root \/ root' = bst_insert_node(root, it)
    BY <1>7 DEF BSTInsert
  <2>2. root' \in Plain
    BY <2>1, InsertPlain DEF BSTShown
  <2>3. res'.op = "put"
    BY <1>7 DEF BSTInsert, Answer
  <2>4. QED
    BY <2>2, <2>3 DEF BSTShown
<1>8. ASSUME NEW k \in Key, BSTDelete(k) PROVE BSTShown'
  <2>1. root' \in Plain
    BY <1>8, RemovePlain DEF BSTDelete, BSTShown
  <2>2. res'.op = "delete"
    BY <1>8 DEF BSTDelete, Answer
  <2>3. QED
    BY <2>1, <2>2 DEF BSTShown
<1>9. CASE UNCHANGED vars
  BY <1>9 DEF vars, BSTShown
<1>10. QED
  BY <1>2, <1>3, <1>4, <1>5, <1>6, <1>7, <1>8, <1>9 DEF BSTNext, Common

LEMMA ShownRight ==
  ASSUME Heights = Nat, TreeInv, BSTShown
  PROVE  Traversals
<1> SUFFICES ASSUME res.op = "traverse"
             PROVE  /\ IsInjective(seen)
                    /\ res.arg = "inorder" => Ascending(seen)
                    /\ res.arg = "preorder" => Rebuilt(seen) = root
                    /\ res.arg = "postorder" => Rebuilt(Reverse(seen)) = root
  BY DEF Traversals
<1>1. /\ res.arg \in Orders /\ seen = traverse_node(root, res.arg)
      /\ root \in Plain /\ root \in Tree /\ Ordered(root)
  BY DEF BSTShown, TreeInv
<1>2. \A s : Rebuilt(s) = Fed(NIL, s)
  BY DEF Rebuilt, Fed
<1>3. IsInjective(seen)
  BY <1>1, ShownOnce
<1>4. res.arg = "inorder" => Ascending(seen)
  BY <1>1 DEF Ordered, Inorder
<1>5. res.arg = "preorder" => Rebuilt(seen) = root
  BY <1>1, <1>2, DumpRestores
<1>6. res.arg = "postorder" => Rebuilt(Reverse(seen)) = root
  BY <1>1, <1>2, DumpRestores
<1>7. QED
  BY <1>3, <1>4, <1>5, <1>6

(***************************************************************************)
(* bst.c's traversals, of a tree of any height: each shows every item      *)
(* once, inorder lists them sorted, and inserting the items of a preorder  *)
(* or of a reversed postorder dump one by one restores the very same       *)
(* shape.                                                                  *)
(***************************************************************************)
THEOREM BSTDumps ==
  ASSUME Heights = Nat
  PROVE  BSTSpec => []Traversals
<1>1. Init => TreeInv /\ BSTShown
  BY InitKeeps, InitShown
<1>2. TreeInv /\ BSTShown /\ [BSTNext]_vars => TreeInv' /\ BSTShown'
  BY BSTStep, StutterKeeps, BSTKeepsShown
<1>3. TreeInv /\ BSTShown => Traversals
  BY ShownRight
<1>4. QED
  BY <1>1, <1>2, <1>3, PTL DEF BSTSpec

(***************************************************************************)
(* The same in the specification that runs both trees.                     *)
(***************************************************************************)
THEOREM TreesTraversals ==
  ASSUME Heights = Nat
  PROVE  MCSpec => []BSTTraversals
<1> DEFINE I == impl = "bst" => TreeInv /\ BSTShown
<1>1. MCInit => I
  BY InitKeeps, InitShown DEF MCInit
<1>2. ASSUME I, [MCNext]_mcvars PROVE I'
  <2>1. impl' = impl
    BY <1>2 DEF MCNext, mcvars
  <2>2. CASE impl = "bst" /\ BSTNext
    BY <1>2, <2>1, <2>2, BSTStep, BSTKeepsShown
  <2>3. CASE impl = "bst" /\ UNCHANGED vars
    BY <1>2, <2>1, <2>3, StutterKeeps, BSTKeepsShown
  <2>4. CASE impl # "bst"
    BY <2>1, <2>4
  <2>5. QED
    BY <1>2, <2>2, <2>3, <2>4 DEF MCNext, mcvars
<1>3. I => BSTTraversals
  BY ShownRight DEF BSTTraversals
<1>4. QED
  BY <1>1, <1>2, <1>3, PTL DEF MCSpec
=============================================================================
