---------------------------- MODULE Linear_proof ----------------------------
(***************************************************************************)
(* Proofs about list.c, stack.c and queue.c, for any memory and any items: *)
(* the links stay the chain, and so answer as an abstract sequence does.   *)
(***************************************************************************)
EXTENDS Linear, SequenceTheorems, FunctionTheorems, FiniteSetTheorems, TLAPS

Ptr == Node \cup {NULL}

\* At, of any chain.
Nth(c, k) == IF k \in DOMAIN c THEN c[k] ELSE NULL

\* The part of Linked that does not name the handle.
Chained(c, nx, lv) ==
  /\ c \in Seq(Node)
  /\ \A j, k \in DOMAIN c : c[j] = c[k] => j = k
  /\ \A k \in DOMAIN c : nx[c[k]] = Nth(c, k + 1)
  /\ lv = {c[k] : k \in DOMAIN c}

ItemsOf(c, its) == [k \in DOMAIN c |-> its[c[k]]]

-----------------------------------------------------------------------------
(***************************************************************************)
(* Facts about chains: a node added at either end, a node taken off.       *)
(***************************************************************************)
LEMMA Ends ==
  ASSUME NEW c \in Seq(Node)
  PROVE  /\ Nth(c, 1) = NULL <=> c = <<>>
         /\ Nth(c, Len(c)) = NULL <=> c = <<>>
         /\ c # <<>> => /\ Nth(c, 1) = c[1] /\ c[1] \in Node
                        /\ Nth(c, Len(c)) = c[Len(c)] /\ c[Len(c)] \in Node
<1>1. Len(c) \in Nat /\ DOMAIN c = 1 .. Len(c)
  BY LenProperties
<1>2. c = <<>> <=> Len(c) = 0
  BY <1>1, EmptySeq
<1>3. \A k \in 1 .. Len(c) : c[k] \in Node /\ c[k] # NULL
  BY ElementOfSeq, NullAssumption
<1>4. QED
  BY <1>1, <1>2, <1>3 DEF Nth

LEMMA FrontPush ==
  ASSUME NEW c, NEW nx \in [Node -> Ptr], NEW lv, Chained(c, nx, lv),
         NEW n \in Node \ lv
  PROVE  LET d == <<n>> \o c
         IN /\ Chained(d, [nx EXCEPT ![n] = Nth(c, 1)], lv \cup {n})
            /\ Len(d) = Len(c) + 1
            /\ Nth(d, 1) = n
            /\ Nth(d, Len(d)) = IF c = <<>> THEN n ELSE Nth(c, Len(c))
<1> DEFINE d == <<n>> \o c
           ny == [nx EXCEPT ![n] = Nth(c, 1)]
<1>1. c \in Seq(Node) /\ <<n>> \in Seq(Node) /\ Len(<<n>>) = 1 /\ <<n>>[1] = n
  BY DEF Chained
<1>2. Len(c) \in Nat /\ DOMAIN c = 1 .. Len(c)
  BY <1>1, LenProperties
<1>3. d \in Seq(Node) /\ Len(d) = Len(c) + 1
  BY <1>1, <1>2, ConcatProperties
<1>4. DOMAIN d = 1 .. Len(c) + 1
  BY <1>3, LenProperties
<1>5. d[1] = n /\ \A k \in 1 .. Len(c) : d[k + 1] = c[k]
  BY <1>1, <1>2, ConcatProperties, Z3
<1>6. \A k \in 2 .. Len(c) + 1 : k - 1 \in DOMAIN c /\ d[k] = c[k - 1]
  <2> SUFFICES ASSUME NEW k \in 2 .. Len(c) + 1
               PROVE  k - 1 \in DOMAIN c /\ d[k] = c[k - 1]
    OBVIOUS
  <2>1. k - 1 \in 1 .. Len(c) /\ (k - 1) + 1 = k
    BY <1>2
  <2>2. QED
    BY <2>1, <1>2, <1>5
<1>7. \A k \in DOMAIN c : c[k] \in lv /\ c[k] # n /\ c[k] \in Node
  BY <1>1, <1>2, ElementOfSeq DEF Chained
<1>8. \A j, k \in DOMAIN d : d[j] = d[k] => j = k
  <2> SUFFICES ASSUME NEW j \in DOMAIN d, NEW k \in DOMAIN d, d[j] = d[k]
               PROVE  j = k
    OBVIOUS
  <2>1. /\ j = 1 \/ j \in 2 .. Len(c) + 1
        /\ k = 1 \/ k \in 2 .. Len(c) + 1
    BY <1>2, <1>4
  <2>2. CASE j = 1 \/ k = 1
    BY <2>1, <2>2, <1>5, <1>6, <1>7
  <2>3. CASE j \in 2 .. Len(c) + 1 /\ k \in 2 .. Len(c) + 1
    <3>1. j - 1 = k - 1
      BY <2>3, <1>6 DEF Chained
    <3>2. QED
      BY <3>1, <2>3, <1>2
  <2>4. QED
    BY <2>1, <2>2, <2>3
<1>9. \A k \in DOMAIN d : ny[d[k]] = Nth(d, k + 1)
  <2> SUFFICES ASSUME NEW k \in DOMAIN d PROVE ny[d[k]] = Nth(d, k + 1)
    OBVIOUS
  <2>1. k = 1 \/ k \in 2 .. Len(c) + 1
    BY <1>2, <1>4
  <2>2. CASE k = 1
    <3>1. ny[n] = Nth(c, 1)
      BY <1>1
    <3>2. Nth(d, 2) = Nth(c, 1)
      BY <1>2, <1>4, <1>5 DEF Nth
    <3>3. QED
      BY <2>2, <3>1, <3>2, <1>5
  <2>3. CASE k \in 2 .. Len(c) + 1
    <3>1. ny[d[k]] = nx[c[k - 1]]
      BY <2>3, <1>6, <1>7
    <3>2. nx[c[k - 1]] = Nth(c, (k - 1) + 1)
      BY <2>3, <1>6 DEF Chained
    <3>3. Nth(d, k + 1) = Nth(c, k)
      BY <2>3, <1>2, <1>4, <1>5 DEF Nth
    <3>4. QED
      BY <3>1, <3>2, <3>3, <2>3, <1>2
  <2>4. QED
    BY <2>1, <2>2, <2>3
<1>10. lv \cup {n} = {d[k] : k \in DOMAIN d}
  <2>1. \A k \in DOMAIN d : d[k] \in lv \cup {n}
    <3> SUFFICES ASSUME NEW k \in DOMAIN d PROVE d[k] \in lv \cup {n}
      OBVIOUS
    <3>1. k = 1 \/ k \in 2 .. Len(c) + 1
      BY <1>2, <1>4
    <3>2. QED
      BY <3>1, <1>5, <1>6, <1>7
  <2>2. n \in {d[k] : k \in DOMAIN d}
    <3>1. 1 \in DOMAIN d
      BY <1>2, <1>4
    <3>2. QED
      BY <3>1, <1>5
  <2>3. \A x \in lv : x \in {d[k] : k \in DOMAIN d}
    <3> SUFFICES ASSUME NEW x \in lv PROVE x \in {d[k] : k \in DOMAIN d}
      OBVIOUS
    <3>1. PICK k \in DOMAIN c : x = c[k]
      BY DEF Chained
    <3>2. k + 1 \in DOMAIN d /\ d[k + 1] = x
      BY <1>2, <1>4, <1>5, <3>1
    <3>3. QED
      BY <3>2
  <2>4. QED
    BY <2>1, <2>2, <2>3
<1>11. Nth(d, 1) = n
  BY <1>2, <1>4, <1>5 DEF Nth
<1>12. Nth(d, Len(d)) = IF c = <<>> THEN n ELSE Nth(c, Len(c))
  <2>1. c = <<>> <=> Len(c) = 0
    BY <1>1, <1>2, EmptySeq
  <2>2. QED
    BY <2>1, <1>2, <1>3, <1>4, <1>5 DEF Nth
<1>13. QED
  BY <1>3, <1>8, <1>9, <1>10, <1>11, <1>12 DEF Chained

\* The links once n follows the last node of c.
BackLinks(c, nx, n) ==
  IF c = <<>> THEN [nx EXCEPT ![n] = NULL]
  ELSE [nx EXCEPT ![n] = NULL, ![Nth(c, Len(c))] = n]

LEMMA BackPush ==
  ASSUME NEW c, NEW nx \in [Node -> Ptr], NEW lv, Chained(c, nx, lv),
         NEW n \in Node \ lv
  PROVE  LET d == Append(c, n)
         IN /\ Chained(d, BackLinks(c, nx, n), lv \cup {n})
            /\ Len(d) = Len(c) + 1
            /\ Nth(d, 1) = IF c = <<>> THEN n ELSE Nth(c, 1)
            /\ Nth(d, Len(d)) = n
<1> DEFINE d == Append(c, n)
           last == Nth(c, Len(c))
           ny == BackLinks(c, nx, n)
<1> USE DEF BackLinks
<1>1. c \in Seq(Node)
  BY DEF Chained
<1>2. Len(c) \in Nat /\ DOMAIN c = 1 .. Len(c)
  BY <1>1, LenProperties
<1>3. d \in Seq(Node) /\ Len(d) = Len(c) + 1
  BY <1>1, <1>2, AppendProperties
<1>4. DOMAIN d = 1 .. Len(c) + 1
  BY <1>3, LenProperties
<1>5. d[Len(c) + 1] = n /\ \A k \in 1 .. Len(c) : d[k] = c[k]
  BY <1>1, <1>2, AppendProperties
<1>6. c = <<>> <=> Len(c) = 0
  BY <1>1, <1>2, EmptySeq
<1>7. \A k \in DOMAIN c : c[k] \in lv /\ c[k] # n /\ c[k] \in Node
  BY <1>1, <1>2, ElementOfSeq DEF Chained
<1>8. \A j, k \in DOMAIN d : d[j] = d[k] => j = k
  <2> SUFFICES ASSUME NEW j \in DOMAIN d, NEW k \in DOMAIN d, d[j] = d[k]
               PROVE  j = k
    OBVIOUS
  <2>1. /\ j = Len(c) + 1 \/ j \in DOMAIN c
        /\ k = Len(c) + 1 \/ k \in DOMAIN c
    BY <1>2, <1>4
  <2>2. CASE j = Len(c) + 1 \/ k = Len(c) + 1
    BY <2>1, <2>2, <1>2, <1>5, <1>7
  <2>3. CASE j \in DOMAIN c /\ k \in DOMAIN c
    BY <2>3, <1>2, <1>5 DEF Chained
  <2>4. QED
    BY <2>1, <2>2, <2>3
<1>9. \A k \in DOMAIN d : ny[d[k]] = Nth(d, k + 1)
  <2> SUFFICES ASSUME NEW k \in DOMAIN d PROVE ny[d[k]] = Nth(d, k + 1)
    OBVIOUS
  <2>1. k = Len(c) + 1 \/ (k \in DOMAIN c /\ k = Len(c)) \/ (k \in DOMAIN c /\ k < Len(c))
    BY <1>2, <1>4
  <2>2. CASE k = Len(c) + 1
    <3>1. ny[n] = NULL
      <4>1. c # <<>> => last # n
        BY <1>2, <1>6, <1>7 DEF Nth
      <4>2. QED
        BY <4>1
    <3>2. Nth(d, k + 1) = NULL
      BY <2>2, <1>2, <1>4 DEF Nth
    <3>3. QED
      BY <2>2, <3>1, <3>2, <1>5
  <2>3. CASE k \in DOMAIN c /\ k = Len(c)
    <3>1. c # <<>> /\ last = c[k] /\ c[k] \in Node /\ d[k] = c[k]
      BY <2>3, <1>2, <1>5, <1>6, <1>7 DEF Nth
    <3>2. ny[last] = n
      BY <3>1
    <3>3. Nth(d, k + 1) = n
      BY <2>3, <1>2, <1>4, <1>5 DEF Nth
    <3>4. QED
      BY <3>1, <3>2, <3>3
  <2>4. CASE k \in DOMAIN c /\ k < Len(c)
    <3>1. c # <<>> /\ last = c[Len(c)] /\ Len(c) \in DOMAIN c
      BY <2>4, <1>2, <1>6 DEF Nth
    <3>2. c[k] # last /\ c[k] # n /\ c[k] \in Node /\ d[k] = c[k]
      BY <3>1, <2>4, <1>2, <1>5, <1>7 DEF Chained
    <3>3. ny[c[k]] = nx[c[k]]
      BY <3>1, <3>2
    <3>4. nx[c[k]] = Nth(c, k + 1)
      BY <2>4 DEF Chained
    <3>5. Nth(d, k + 1) = Nth(c, k + 1)
      BY <2>4, <1>2, <1>4, <1>5 DEF Nth
    <3>6. QED
      BY <3>2, <3>3, <3>4, <3>5
  <2>5. QED
    BY <2>1, <2>2, <2>3, <2>4
<1>10. lv \cup {n} = {d[k] : k \in DOMAIN d}
  <2>1. \A k \in DOMAIN d : d[k] \in lv \cup {n}
    BY <1>2, <1>4, <1>5, <1>7
  <2>2. n \in {d[k] : k \in DOMAIN d}
    <3>1. Len(c) + 1 \in DOMAIN d
      BY <1>2, <1>4
    <3>2. QED
      BY <3>1, <1>5
  <2>3. \A x \in lv : x \in {d[k] : k \in DOMAIN d}
    <3> SUFFICES ASSUME NEW x \in lv PROVE x \in {d[k] : k \in DOMAIN d}
      OBVIOUS
    <3>1. PICK k \in DOMAIN c : x = c[k]
      BY DEF Chained
    <3>2. k \in DOMAIN d /\ d[k] = x
      BY <1>2, <1>4, <1>5, <3>1
    <3>3. QED
      BY <3>2
  <2>4. QED
    BY <2>1, <2>2, <2>3
<1>11. Nth(d, 1) = IF c = <<>> THEN n ELSE Nth(c, 1)
  BY <1>2, <1>4, <1>5, <1>6 DEF Nth
<1>12. Nth(d, Len(d)) = n
  BY <1>2, <1>3, <1>4, <1>5 DEF Nth
<1>13. QED
  BY <1>3, <1>8, <1>9, <1>10, <1>11, <1>12 DEF Chained

LEMMA FrontPop ==
  ASSUME NEW c, NEW nx, NEW ny, NEW lv, Chained(c, nx, lv), c # <<>>,
         \A m \in Node : m # c[1] => ny[m] = nx[m]
  PROVE  /\ Chained(Tail(c), ny, lv \ {c[1]})
         /\ Len(Tail(c)) = Len(c) - 1
         /\ Nth(Tail(c), 1) = nx[c[1]]
         /\ Nth(Tail(c), Len(Tail(c))) =
              IF nx[c[1]] = NULL THEN NULL ELSE Nth(c, Len(c))
<1> DEFINE d == Tail(c)
<1>1. c \in Seq(Node)
  BY DEF Chained
<1>2. Len(c) \in Nat \ {0} /\ DOMAIN c = 1 .. Len(c)
  BY <1>1, LenProperties, EmptySeq
<1>3. d \in Seq(Node) /\ Len(d) = Len(c) - 1
  BY <1>1, HeadTailProperties
<1>4. DOMAIN d = 1 .. Len(c) - 1
  BY <1>3, LenProperties
<1>5. \A k \in DOMAIN d : d[k] = c[k + 1]
  BY <1>1, <1>3, <1>4, HeadTailProperties
<1>6. \A k \in DOMAIN c : c[k] \in Node /\ (k # 1 => c[k] # c[1])
  BY <1>1, <1>2, ElementOfSeq DEF Chained
<1>7. \A j, k \in DOMAIN d : d[j] = d[k] => j = k
  <2> SUFFICES ASSUME NEW j \in DOMAIN d, NEW k \in DOMAIN d, d[j] = d[k]
               PROVE  j = k
    OBVIOUS
  <2>1. j + 1 \in DOMAIN c /\ k + 1 \in DOMAIN c
    BY <1>2, <1>4
  <2>2. j + 1 = k + 1
    BY <2>1, <1>5 DEF Chained
  <2>3. QED
    BY <2>2, <1>2, <1>4
<1>8. \A k \in DOMAIN d : ny[d[k]] = Nth(d, k + 1)
  <2> SUFFICES ASSUME NEW k \in DOMAIN d PROVE ny[d[k]] = Nth(d, k + 1)
    OBVIOUS
  <2>1. k + 1 \in DOMAIN c /\ k + 1 # 1 /\ (k + 1) + 1 = k + 2
    BY <1>2, <1>4
  <2>2. ny[d[k]] = nx[c[k + 1]]
    BY <2>1, <1>5, <1>6
  <2>3. nx[c[k + 1]] = Nth(c, (k + 1) + 1)
    BY <2>1 DEF Chained
  <2>4. Nth(d, k + 1) = Nth(c, k + 2)
    BY <1>2, <1>4, <1>5 DEF Nth
  <2>5. QED
    BY <2>1, <2>2, <2>3, <2>4
<1>9. lv \ {c[1]} = {d[k] : k \in DOMAIN d}
  <2>1. \A k \in DOMAIN d : d[k] \in lv \ {c[1]}
    <3> SUFFICES ASSUME NEW k \in DOMAIN d PROVE d[k] \in lv \ {c[1]}
      OBVIOUS
    <3>1. k + 1 \in DOMAIN c /\ k + 1 # 1
      BY <1>2, <1>4
    <3>2. QED
      BY <3>1, <1>5, <1>6 DEF Chained
  <2>2. \A x \in lv \ {c[1]} : x \in {d[k] : k \in DOMAIN d}
    <3> SUFFICES ASSUME NEW x \in lv \ {c[1]} PROVE x \in {d[k] : k \in DOMAIN d}
      OBVIOUS
    <3>1. PICK k \in DOMAIN c : x = c[k]
      BY DEF Chained
    <3>2. k - 1 \in DOMAIN d /\ (k - 1) + 1 = k
      BY <1>2, <1>4, <3>1
    <3>3. d[k - 1] = x
      BY <1>5, <3>1, <3>2
    <3>4. QED
      BY <3>2, <3>3
  <2>3. QED
    BY <2>1, <2>2
<1>10. nx[c[1]] = Nth(c, 2)
  <2>1. 1 \in DOMAIN c /\ 1 + 1 = 2
    BY <1>2
  <2>2. QED
    BY <2>1 DEF Chained
<1>11. Nth(d, 1) = Nth(c, 2)
  BY <1>2, <1>4, <1>5 DEF Nth
<1>12. Nth(c, 2) = NULL <=> Len(c) = 1
  BY <1>2, <1>6, NullAssumption DEF Nth
<1>13. Nth(d, Len(d)) = IF Len(c) = 1 THEN NULL ELSE Nth(c, Len(c))
  BY <1>2, <1>3, <1>4, <1>5 DEF Nth
<1>14. QED
  BY <1>3, <1>7, <1>8, <1>9, <1>10, <1>11, <1>12, <1>13 DEF Chained

(***************************************************************************)
(* No node is linked twice, so a chain is no longer than the memory.       *)
(***************************************************************************)
LEMMA ChainFits ==
  ASSUME NEW c, NEW nx, NEW lv, Chained(c, nx, lv)
  PROVE  Len(c) \in 0 .. Cardinality(Node)
<1>1. c \in Seq(Node)
  BY DEF Chained
<1>2. Len(c) \in Nat /\ DOMAIN c = 1 .. Len(c) /\ c \in [1 .. Len(c) -> Node]
  BY <1>1, LenProperties
<1>3. c \in Injection(1 .. Len(c), Node)
  BY <1>2, Fun_IsInj DEF Chained
<1>4. Cardinality(1 .. Len(c)) <= Cardinality(Node)
  BY <1>3, NodeAssumption, FS_Injection
<1>5. Cardinality(1 .. Len(c)) = Len(c)
  BY <1>2, FS_Interval
<1>6. Cardinality(Node) \in Nat
  BY NodeAssumption, FS_CardinalityType
<1>7. QED
  BY <1>2, <1>4, <1>5, <1>6

-----------------------------------------------------------------------------
(***************************************************************************)
(* The invariant is inductive as it stands.  Shape is Linked with its      *)
(* first part named.                                                       *)
(***************************************************************************)
Shape ==
  /\ Chained(chain, next, live)
  /\ pc = "destroy" => cur = Nth(chain, 1)
  /\ pc # "destroy" =>
       /\ head = Nth(chain, 1)
       /\ tail = IF kind = "stack" THEN NULL ELSE Nth(chain, Len(chain))
       /\ size = Len(chain)
       /\ cur = NULL /\ handed = <<>>
  /\ pc = "none" => chain = <<>>

LEMMA LinkedIsShape == TypeOK => (Linked <=> Shape)
BY DEF TypeOK, Linked, Shape, Chained, Nth, At

LEMMA ShapeInit == Init => TypeOK /\ Shape
<1> SUFFICES ASSUME Init PROVE TypeOK /\ Shape
  OBVIOUS
<1>1. DOMAIN <<>> = {} /\ <<>> \in Seq(Node) /\ <<>> \in Seq(Item) /\ Len(<<>>) = 0
  OBVIOUS
<1>2. Cardinality(Node) \in Nat
  BY NodeAssumption, FS_CardinalityType
<1>3. TypeOK
  BY <1>1, <1>2 DEF Init, TypeOK
<1>4. Chained(chain, next, live)
  BY <1>1 DEF Init, Chained
<1>5. Nth(chain, 1) = NULL /\ Nth(chain, Len(chain)) = NULL
  BY <1>1 DEF Init, Nth
<1>6. QED
  BY <1>3, <1>4, <1>5, <1>1 DEF Init, Shape

IInv == TypeOK /\ Shape

\* A step that leaves the handle and the nodes alone.
LEMMA StillShape ==
  ASSUME IInv, UNCHANGED <<kind, pc, handle, nodes, cur, handed, chain>>
  PROVE  IInv'
BY DEF IInv, TypeOK, Shape, Chained, Nth, handle, nodes

LEMMA CreateShape ==
  ASSUME IInv, Create
  PROVE  IInv'
<1> USE DEF IInv, TypeOK, Create, nodes
<1>1. chain = <<>> /\ cur = NULL /\ handed = <<>>
  BY DEF Shape
<1>2. Nth(<<>>, 1) = NULL /\ Nth(<<>>, Len(<<>>)) = NULL /\ Len(<<>>) = 0
  BY DEF Nth
<1>3. Cardinality(Node) \in Nat
  BY NodeAssumption, FS_CardinalityType
<1>4. TypeOK'
  BY <1>3
<1>5. Chained(chain, next, live)'
  BY DEF Shape, Chained
<1>6. QED
  BY <1>1, <1>2, <1>4, <1>5 DEF Shape

(***************************************************************************)
(* A push: n becomes the first or the last node of the chain.              *)
(***************************************************************************)
LEMMA AllocateTypes ==
  ASSUME IInv, NEW op, NEW n \in Node, NEW it \in Item, Allocate(op, n, it),
         {head', tail'} \subseteq Ptr, next' \in [Node -> Ptr],
         Chained(chain', next', live'), size' = Len(chain')
  PROVE  TypeOK'
<1>1. chain' \in Seq(Node) /\ size' \in 0 .. Cardinality(Node)
  BY ChainFits DEF Chained
<1>2. QED
  BY <1>1 DEF IInv, TypeOK, Allocate, Ptr

LEMMA FrontShape ==
  ASSUME IInv, NEW n \in Node, NEW it \in Item,
         StackPush(n, it) \/ PushFront(n, it)
  PROVE  IInv'
<1> USE DEF IInv
<1>1. /\ Allocate("push_front", n, it)
      /\ pc = "idle" /\ n \in Node \ live /\ live' = live \cup {n}
      /\ next' = [next EXCEPT ![n] = head] /\ head' = n /\ chain' = <<n>> \o chain
      /\ size' = size + 1
  BY DEF StackPush, PushFront, Allocate
<1>2. /\ Chained(chain, next, live) /\ head = Nth(chain, 1) /\ size = Len(chain)
      /\ cur = NULL /\ handed = <<>>
      /\ tail = IF kind = "stack" THEN NULL ELSE Nth(chain, Len(chain))
  BY <1>1 DEF Shape
<1>3. next \in [Node -> Ptr] /\ {head, tail} \subseteq Ptr /\ chain \in Seq(Node)
  BY DEF TypeOK, Ptr
<1>4. /\ Chained(chain', next', live')
      /\ Len(chain') = Len(chain) + 1
      /\ Nth(chain', 1) = n
      /\ Nth(chain', Len(chain')) = IF chain = <<>> THEN n ELSE Nth(chain, Len(chain))
  <2> DEFINE d == <<n>> \o chain
  <2>1. /\ Chained(d, [next EXCEPT ![n] = Nth(chain, 1)], live \cup {n})
        /\ Len(d) = Len(chain) + 1
        /\ Nth(d, 1) = n
        /\ Nth(d, Len(d)) = IF chain = <<>> THEN n ELSE Nth(chain, Len(chain))
    <3> HIDE DEF IInv
    <3>1. n \in Node \ live
      BY <1>1
    <3>2. QED
      BY <3>1, <1>2, <1>3, FrontPush
  <2>2. chain' = d /\ live' = live \cup {n}
        /\ next' = [next EXCEPT ![n] = Nth(chain, 1)]
    BY <1>1, <1>2
  <2> HIDE DEF d
  <2>3. QED
    BY <2>1, <2>2
<1>5. tail' = IF kind' = "stack" THEN NULL ELSE Nth(chain', Len(chain'))
  <2>1. CASE StackPush(n, it)
    BY <2>1, <1>2 DEF StackPush, Allocate
  <2>2. CASE PushFront(n, it)
    <3>1. kind = "list" /\ kind' = "list" /\ tail' = IF tail = NULL THEN n ELSE tail
      BY <2>2 DEF PushFront, Allocate
    <3>2. tail = NULL <=> chain = <<>>
      BY <3>1, <1>2, <1>3, Ends
    <3>3. QED
      BY <3>1, <3>2, <1>2, <1>4
  <2>3. QED
    BY <2>1, <2>2
<1>6. {head', tail'} \subseteq Ptr /\ next' \in [Node -> Ptr]
  BY <1>1, <1>2, <1>3, <1>4, <1>5, Ends DEF Ptr
<1>7. TypeOK'
  BY <1>1, <1>2, <1>4, <1>6, AllocateTypes
<1>8. pc' = "idle" /\ cur' = NULL /\ handed' = <<>>
  BY <1>1, <1>2 DEF Allocate
<1>9. QED
  BY <1>1, <1>2, <1>4, <1>5, <1>7, <1>8 DEF Shape

LEMMA BackShape ==
  ASSUME IInv, NEW n \in Node, NEW it \in Item, PushBack(n, it)
  PROVE  IInv'
<1> USE DEF IInv
<1>1. /\ Allocate("push_back", n, it)
      /\ pc = "idle" /\ n \in Node \ live /\ live' = live \cup {n}
      /\ tail' = n /\ chain' = Append(chain, n) /\ size' = size + 1
      /\ kind \in {"list", "queue"} /\ kind' = kind
  BY DEF PushBack, Allocate
<1>2. /\ Chained(chain, next, live) /\ head = Nth(chain, 1) /\ size = Len(chain)
      /\ cur = NULL /\ handed = <<>>
      /\ tail = Nth(chain, Len(chain))
  BY <1>1 DEF Shape
<1>3. next \in [Node -> Ptr] /\ {head, tail} \subseteq Ptr /\ chain \in Seq(Node)
  BY DEF TypeOK, Ptr
<1>4. tail = NULL <=> chain = <<>>
  BY <1>2, <1>3, Ends
<1>5. next' = BackLinks(chain, next, n)
  BY <1>2, <1>4 DEF PushBack, BackLinks
<1>6. /\ Chained(chain', next', live')
      /\ Len(chain') = Len(chain) + 1
      /\ Nth(chain', 1) = IF chain = <<>> THEN n ELSE Nth(chain, 1)
      /\ Nth(chain', Len(chain')) = n
  <2> DEFINE d == Append(chain, n)
  <2>1. /\ Chained(d, BackLinks(chain, next, n), live \cup {n})
        /\ Len(d) = Len(chain) + 1
        /\ Nth(d, 1) = IF chain = <<>> THEN n ELSE Nth(chain, 1)
        /\ Nth(d, Len(d)) = n
    <3>1. n \in Node \ live
      BY <1>1
    <3>2. QED
      BY <3>1, <1>2, <1>3, BackPush
  <2>2. chain' = d /\ live' = live \cup {n}
    BY <1>1
  <2> HIDE DEF d
  <2>3. QED
    BY <2>1, <2>2, <1>5
<1>7. head' = Nth(chain', 1)
  BY <1>2, <1>4, <1>6 DEF PushBack
<1>8. {head', tail'} \subseteq Ptr
  BY <1>1, <1>2, <1>3, <1>6, <1>7 DEF Ptr
<1>9. next' \in [Node -> Ptr]
  BY <1>3, <1>5 DEF Ptr, BackLinks
<1>10. TypeOK'
  BY <1>1, <1>2, <1>6, <1>8, <1>9, AllocateTypes
<1>11. pc' = "idle" /\ cur' = NULL /\ handed' = <<>>
  BY <1>1, <1>2 DEF Allocate
<1>12. QED
  BY <1>1, <1>2, <1>6, <1>7, <1>10, <1>11 DEF Shape

(***************************************************************************)
(* A node taken off the front and freed, by pop or by destroy's loop.      *)
(***************************************************************************)
LEMMA FreeFront ==
  ASSUME IInv, chain # <<>>, Free(chain[1]), chain' = Tail(chain)
  PROVE  /\ Chained(chain', next', live')
         /\ Len(chain') = Len(chain) - 1 /\ Len(chain) \in Nat \ {0}
         /\ Nth(chain', 1) = next[chain[1]]
         /\ Nth(chain', Len(chain')) =
              IF next[chain[1]] = NULL THEN NULL ELSE Nth(chain, Len(chain))
         /\ next[chain[1]] \in Ptr
         /\ item' \in [Node -> Item] /\ next' \in [Node -> Ptr]
         /\ live' \subseteq Node /\ chain' \in Seq(Node)
<1> USE DEF IInv, TypeOK, Free
<1>1. chain[1] \in Node
  BY Ends
<1>2. PICK m \in Ptr : next' = [next EXCEPT ![chain[1]] = m]
  BY DEF Ptr
<1>3. PICK it \in Item : item' = [item EXCEPT ![chain[1]] = it]
  OBVIOUS
<1>4. \A x \in Node : x # chain[1] => next'[x] = next[x]
  BY <1>2
<1>5. Chained(chain, next, live)
  BY DEF Shape
<1>6. /\ Chained(chain', next', live')
      /\ Len(chain') = Len(chain) - 1
      /\ Nth(chain', 1) = next[chain[1]]
      /\ Nth(chain', Len(chain')) =
           IF next[chain[1]] = NULL THEN NULL ELSE Nth(chain, Len(chain))
  BY <1>4, <1>5, FrontPop
<1>7. chain' \in Seq(Node) /\ Len(chain) \in Nat \ {0}
  BY <1>6, EmptySeq DEF Chained
<1>8. item' \in [Node -> Item] /\ next' \in [Node -> Ptr] /\ next[chain[1]] \in Ptr
  BY <1>1, <1>2, <1>3 DEF Ptr
<1>9. QED
  BY <1>6, <1>7, <1>8

LEMMA PopShape ==
  ASSUME IInv, Pop
  PROVE  IInv'
<1> USE DEF IInv
<1>1. /\ pc = "idle" /\ pc' = "idle" /\ head # NULL /\ Free(head) /\ chain' = Tail(chain)
      /\ head' = next[head] /\ size' = size - 1
      /\ tail' = IF next[head] = NULL THEN NULL ELSE tail
      /\ kind' = kind /\ cur' = cur /\ handed' = handed
  BY DEF Pop, TailAfterPop, SizeAfterPop
<1>2. /\ head = Nth(chain, 1) /\ size = Len(chain)
      /\ cur = NULL /\ handed = <<>>
      /\ tail = IF kind = "stack" THEN NULL ELSE Nth(chain, Len(chain))
  BY <1>1 DEF Shape
<1>3. chain # <<>> /\ head = chain[1]
  BY <1>1, <1>2, Ends DEF TypeOK
<1>4. /\ Chained(chain', next', live')
      /\ Len(chain') = Len(chain) - 1 /\ Len(chain) \in Nat \ {0}
      /\ Nth(chain', 1) = next[head]
      /\ Nth(chain', Len(chain')) = IF next[head] = NULL THEN NULL ELSE Nth(chain, Len(chain))
      /\ next[head] \in Ptr
      /\ item' \in [Node -> Item] /\ next' \in [Node -> Ptr]
      /\ live' \subseteq Node /\ chain' \in Seq(Node)
  BY <1>1, <1>3, FreeFront
<1>5. size' \in 0 .. Cardinality(Node)
  BY <1>1, <1>2, <1>4, ChainFits
<1>6. TypeOK'
  BY <1>1, <1>4, <1>5 DEF TypeOK, Ptr
<1>7. QED
  BY <1>1, <1>2, <1>4, <1>6 DEF Shape

LEMMA DestroyNodeShape ==
  ASSUME IInv, DestroyNode
  PROVE  IInv'
<1> USE DEF IInv
<1>1. /\ pc = "destroy" /\ cur # NULL /\ Free(cur) /\ chain' = Tail(chain)
      /\ cur' = next[cur] /\ handed' = Append(handed, item[cur])
      /\ UNCHANGED <<kind, pc, handle>>
  BY DEF DestroyNode
<1>2. cur = Nth(chain, 1)
  BY <1>1 DEF Shape
<1>3. chain # <<>> /\ cur = chain[1] /\ cur \in Node
  BY <1>1, <1>2, Ends DEF TypeOK
<1>4. /\ Chained(chain', next', live')
      /\ Nth(chain', 1) = next[cur]
      /\ next[cur] \in Ptr
      /\ item' \in [Node -> Item] /\ next' \in [Node -> Ptr]
      /\ live' \subseteq Node /\ chain' \in Seq(Node)
  BY <1>1, <1>3, FreeFront
<1>5. handed' \in Seq(Item)
  BY <1>1, <1>3, AppendProperties DEF TypeOK
<1>6. TypeOK'
  BY <1>1, <1>4, <1>5 DEF TypeOK, Ptr, handle
<1>7. QED
  BY <1>1, <1>4, <1>6 DEF Shape

LEMMA DestroyReturnShape ==
  ASSUME IInv, DestroyReturn
  PROVE  IInv'
<1> USE DEF IInv
<1>1. /\ pc = "destroy" /\ pc' = "none" /\ cur = NULL /\ cur' = NULL
      /\ head' = NULL /\ tail' = NULL /\ size' = 0 /\ handed' = <<>>
      /\ UNCHANGED <<kind, nodes, chain>>
  BY DEF DestroyReturn
<1>2. Nth(chain, 1) = NULL /\ Chained(chain, next, live)
  BY <1>1 DEF Shape
<1>3. chain = <<>>
  BY <1>2, Ends DEF TypeOK
<1>4. Nth(<<>>, 1) = NULL /\ Nth(<<>>, Len(<<>>)) = NULL /\ Len(<<>>) = 0
  BY DEF Nth
<1>5. Cardinality(Node) \in Nat
  BY NodeAssumption, FS_CardinalityType
<1>6. TypeOK'
  BY <1>1, <1>5 DEF TypeOK, nodes
<1>7. Chained(chain', next', live')
  BY <1>1, <1>2 DEF nodes
<1>8. QED
  BY <1>1, <1>3, <1>4, <1>6, <1>7 DEF Shape

LEMMA DestroyShape ==
  ASSUME IInv, Destroy
  PROVE  IInv'
BY DEF IInv, TypeOK, Shape, Chained, Nth, Destroy, handle, nodes

LEMMA IInvStep == IInv /\ [Next]_vars => IInv'
<1> SUFFICES ASSUME IInv, [Next]_vars PROVE IInv'
  OBVIOUS
<1>1. CASE Create
  BY <1>1, CreateShape
<1>2. CASE Refuse
  BY <1>2, StillShape DEF Refuse
<1>3. CASE Pop
  BY <1>3, PopShape
<1>4. CASE Peek
  BY <1>4, StillShape DEF Peek
<1>5. CASE Size
  BY <1>5, StillShape DEF Size
<1>6. ASSUME NEW n \in Node, NEW it \in Item,
             StackPush(n, it) \/ PushFront(n, it) \/ PushBack(n, it)
      PROVE  IInv'
  BY <1>6, FrontShape, BackShape
<1>7. CASE Destroy
  BY <1>7, DestroyShape
<1>8. CASE DestroyNode
  BY <1>8, DestroyNodeShape
<1>9. CASE DestroyReturn
  BY <1>9, DestroyReturnShape
<1>10. CASE UNCHANGED vars
  BY <1>10, StillShape DEF vars
<1>11. QED
  BY <1>1, <1>2, <1>3, <1>4, <1>5, <1>6, <1>7, <1>8, <1>9, <1>10 DEF Next

(***************************************************************************)
(* For any memory: the nodes allocated are exactly the chain, each linked  *)
(* to the one after it, and head, tail and size fit it, after every push,  *)
(* pop and turn of destroy's loop.                                         *)
(***************************************************************************)
THEOREM LinearInvariant == Spec => [](TypeOK /\ Linked)
<1>1. Init => IInv
  BY ShapeInit DEF IInv
<1>2. IInv => TypeOK /\ Linked
  BY LinkedIsShape DEF IInv
<1>3. QED
  BY <1>1, <1>2, IInvStep, PTL DEF Spec

\* For any memory: handle, nodes and locals keep their types.
THEOREM LinearTypes == Spec => []TypeOK
<1>1. QED
  BY LinearInvariant, PTL

-----------------------------------------------------------------------------
(***************************************************************************)
(* The items of a chain, as the abstract sequence holds them.              *)
(***************************************************************************)
LEMMA ItemsType ==
  ASSUME NEW c \in Seq(Node), NEW its \in [Node -> Item]
  PROVE  /\ ItemsOf(c, its) \in Seq(Item)
         /\ Len(ItemsOf(c, its)) = Len(c)
         /\ DOMAIN ItemsOf(c, its) = 1 .. Len(c)
         /\ \A k \in 1 .. Len(c) : ItemsOf(c, its)[k] = its[c[k]] /\ its[c[k]] \in Item
         /\ ItemsOf(c, its) = <<>> <=> c = <<>>
<1>1. Len(c) \in Nat /\ DOMAIN c = 1 .. Len(c) /\ \A k \in 1 .. Len(c) : c[k] \in Node
  BY LenProperties, ElementOfSeq
<1>2. ItemsOf(c, its) \in [1 .. Len(c) -> Item]
  BY <1>1 DEF ItemsOf
<1>3. ItemsOf(c, its) \in Seq(Item) /\ Len(ItemsOf(c, its)) = Len(c)
  BY <1>1, <1>2, IsASeq, LenProperties
<1>4. c = <<>> <=> Len(c) = 0
  BY <1>1, EmptySeq
<1>5. ItemsOf(c, its) = <<>> <=> Len(ItemsOf(c, its)) = 0
  BY <1>3, EmptySeq
<1>6. QED
  BY <1>1, <1>2, <1>3, <1>4, <1>5 DEF ItemsOf

LEMMA ItemsFront ==
  ASSUME NEW c \in Seq(Node), NEW its \in [Node -> Item], NEW n \in Node, NEW it \in Item,
         \A k \in DOMAIN c : c[k] # n
  PROVE  ItemsOf(<<n>> \o c, [its EXCEPT ![n] = it]) = <<it>> \o ItemsOf(c, its)
<1> DEFINE d == <<n>> \o c
           new == [its EXCEPT ![n] = it]
           old == ItemsOf(c, its)
<1>1. Len(c) \in Nat /\ DOMAIN c = 1 .. Len(c) /\ \A k \in 1 .. Len(c) : c[k] \in Node
  BY LenProperties, ElementOfSeq
<1>2. <<n>> \in Seq(Node) /\ Len(<<n>>) = 1 /\ <<n>>[1] = n
  OBVIOUS
<1>3. /\ d \in Seq(Node) /\ Len(d) = Len(c) + 1
      /\ \A k \in 1 .. Len(c) + 1 : d[k] = IF k <= 1 THEN n ELSE c[k - 1]
  BY <1>1, <1>2, ConcatProperties
<1>4. new \in [Node -> Item]
  OBVIOUS
<1>5. /\ ItemsOf(d, new) \in Seq(Item) /\ Len(ItemsOf(d, new)) = Len(c) + 1
      /\ \A k \in 1 .. Len(c) + 1 : ItemsOf(d, new)[k] = new[d[k]]
  <2> HIDE DEF d, new
  <2>1. QED
    BY <1>3, <1>4, ItemsType
<1>6. /\ old \in Seq(Item) /\ Len(old) = Len(c)
      /\ \A k \in 1 .. Len(c) : old[k] = its[c[k]]
  BY ItemsType
<1>7. <<it>> \in Seq(Item) /\ Len(<<it>>) = 1 /\ <<it>>[1] = it
  OBVIOUS
<1>8. /\ <<it>> \o old \in Seq(Item) /\ Len(<<it>> \o old) = Len(c) + 1
      /\ \A k \in 1 .. Len(c) + 1 : (<<it>> \o old)[k] = IF k <= 1 THEN it ELSE old[k - 1]
  BY <1>1, <1>6, <1>7, ConcatProperties
<1>9. \A k \in 1 .. Len(c) + 1 : ItemsOf(d, new)[k] = (<<it>> \o old)[k]
  <2> SUFFICES ASSUME NEW k \in 1 .. Len(c) + 1
               PROVE  ItemsOf(d, new)[k] = (<<it>> \o old)[k]
    OBVIOUS
  <2>1. CASE k = 1
    <3>1. d[1] = n /\ (<<it>> \o old)[1] = it
      BY <2>1, <1>1, <1>3, <1>8
    <3>2. QED
      BY <2>1, <3>1, <1>5
  <2>2. CASE k # 1
    <3>1. k - 1 \in 1 .. Len(c) /\ ~(k <= 1)
      BY <2>2, <1>1
    <3>2. d[k] = c[k - 1] /\ (<<it>> \o old)[k] = its[c[k - 1]]
      BY <3>1, <1>3, <1>6, <1>8
    <3>3. new[c[k - 1]] = its[c[k - 1]]
      BY <3>1, <1>1
    <3>4. QED
      BY <3>2, <3>3, <1>5
  <2>3. QED
    BY <2>1, <2>2
<1> HIDE DEF d, new, old
<1>10. ItemsOf(d, new) = <<it>> \o old
  <2> DEFINE whole == <<it>> \o old
  <2>1. /\ whole \in Seq(Item) /\ Len(whole) = Len(c) + 1
        /\ \A k \in 1 .. Len(c) + 1 : ItemsOf(d, new)[k] = whole[k]
    BY <1>8, <1>9
  <2> HIDE DEF whole
  <2>2. ItemsOf(d, new) = whole
    BY <2>1, <1>5, SeqEqual
  <2>3. QED
    BY <2>2 DEF whole
<1>11. QED
  BY <1>10 DEF d, new, old

LEMMA ItemsBack ==
  ASSUME NEW c \in Seq(Node), NEW its \in [Node -> Item], NEW n \in Node, NEW it \in Item,
         \A k \in DOMAIN c : c[k] # n
  PROVE  ItemsOf(Append(c, n), [its EXCEPT ![n] = it]) = Append(ItemsOf(c, its), it)
<1> DEFINE d == Append(c, n)
           new == [its EXCEPT ![n] = it]
           old == ItemsOf(c, its)
<1>1. Len(c) \in Nat /\ DOMAIN c = 1 .. Len(c) /\ \A k \in 1 .. Len(c) : c[k] \in Node
  BY LenProperties, ElementOfSeq
<1>2. /\ d \in Seq(Node) /\ Len(d) = Len(c) + 1
      /\ d[Len(c) + 1] = n /\ \A k \in 1 .. Len(c) : d[k] = c[k]
  BY AppendProperties
<1>3. new \in [Node -> Item]
  OBVIOUS
<1>4. /\ ItemsOf(d, new) \in Seq(Item) /\ Len(ItemsOf(d, new)) = Len(c) + 1
      /\ \A k \in 1 .. Len(c) + 1 : ItemsOf(d, new)[k] = new[d[k]]
  <2> HIDE DEF d, new
  <2>1. QED
    BY <1>2, <1>3, ItemsType
<1>5. /\ old \in Seq(Item) /\ Len(old) = Len(c)
      /\ \A k \in 1 .. Len(c) : old[k] = its[c[k]]
  BY ItemsType
<1>6. /\ Append(old, it) \in Seq(Item) /\ Len(Append(old, it)) = Len(c) + 1
      /\ Append(old, it)[Len(c) + 1] = it
      /\ \A k \in 1 .. Len(c) : Append(old, it)[k] = old[k]
  BY <1>5, AppendProperties
<1>7. \A k \in 1 .. Len(c) + 1 : ItemsOf(d, new)[k] = Append(old, it)[k]
  <2> SUFFICES ASSUME NEW k \in 1 .. Len(c) + 1
               PROVE  ItemsOf(d, new)[k] = Append(old, it)[k]
    OBVIOUS
  <2>1. k = Len(c) + 1 \/ k \in 1 .. Len(c)
    BY <1>1
  <2>2. CASE k = Len(c) + 1
    BY <2>2, <1>2, <1>4, <1>6
  <2>3. CASE k \in 1 .. Len(c)
    <3>1. new[c[k]] = its[c[k]]
      BY <2>3, <1>1
    <3>2. QED
      BY <2>3, <3>1, <1>2, <1>4, <1>5, <1>6
  <2>4. QED
    BY <2>1, <2>2, <2>3
<1> HIDE DEF d, new, old
<1>8. ItemsOf(d, new) = Append(old, it)
  BY <1>4, <1>6, <1>7, SeqEqual
<1>9. QED
  BY <1>8 DEF d, new, old

LEMMA ItemsPop ==
  ASSUME NEW c, NEW nx, NEW lv, Chained(c, nx, lv), c # <<>>,
         NEW its \in [Node -> Item], NEW new \in [Node -> Item],
         \A m \in Node : m # c[1] => new[m] = its[m]
  PROVE  /\ ItemsOf(c, its) # <<>> /\ ItemsOf(c, its) \in Seq(Item)
         /\ ItemsOf(c, its) = <<its[c[1]]>> \o ItemsOf(Tail(c), new)
         /\ ItemsOf(Tail(c), new) \in Seq(Item)
         /\ Head(ItemsOf(c, its)) = its[c[1]] /\ its[c[1]] \in Item
         /\ Tail(ItemsOf(c, its)) = ItemsOf(Tail(c), new)
<1> DEFINE d == Tail(c)
           old == ItemsOf(c, its)
           rest == ItemsOf(d, new)
<1>1. c \in Seq(Node)
  BY DEF Chained
<1>2. /\ Len(c) \in Nat \ {0} /\ DOMAIN c = 1 .. Len(c)
      /\ \A k \in 1 .. Len(c) : c[k] \in Node /\ (k # 1 => c[k] # c[1])
  BY <1>1, LenProperties, EmptySeq, ElementOfSeq DEF Chained
<1>3. d \in Seq(Node) /\ Len(d) = Len(c) - 1 /\ \A k \in 1 .. Len(d) : d[k] = c[k + 1]
  BY <1>1, HeadTailProperties
<1>4. /\ old \in Seq(Item) /\ Len(old) = Len(c) /\ old # <<>>
      /\ \A k \in 1 .. Len(c) : old[k] = its[c[k]] /\ its[c[k]] \in Item
  BY <1>1, ItemsType
<1>5. /\ rest \in Seq(Item) /\ Len(rest) = Len(c) - 1
      /\ \A k \in 1 .. Len(c) - 1 : rest[k] = new[d[k]]
  <2> HIDE DEF d
  <2>1. QED
    BY <1>3, ItemsType
<1>6. /\ Tail(old) \in Seq(Item) /\ Len(Tail(old)) = Len(c) - 1
      /\ \A k \in 1 .. Len(c) - 1 : Tail(old)[k] = old[k + 1]
  BY <1>4, HeadTailProperties
<1>7. \A k \in 1 .. Len(c) - 1 : Tail(old)[k] = rest[k]
  <2> SUFFICES ASSUME NEW k \in 1 .. Len(c) - 1 PROVE Tail(old)[k] = rest[k]
    OBVIOUS
  <2>1. k + 1 \in 1 .. Len(c) /\ k + 1 # 1
    BY <1>2
  <2>2. d[k] = c[k + 1] /\ new[c[k + 1]] = its[c[k + 1]]
    BY <2>1, <1>2, <1>3
  <2>3. QED
    BY <2>1, <2>2, <1>4, <1>5, <1>6
<1>8. its[c[1]] \in Item /\ old[1] = its[c[1]]
  BY <1>2, <1>4
<1> HIDE DEF d, old, rest
<1>9. Tail(old) = rest
  BY <1>5, <1>6, <1>7, SeqEqual
<1>10. Head(old) = its[c[1]]
  BY <1>4, <1>8
<1>11. old = <<Head(old)>> \o Tail(old)
  <2>1. Len(old) \in Nat \ {0} /\ <<Head(old)>> \in Seq(Item)
    BY <1>2, <1>4, <1>8, <1>10
  <2>2. /\ <<Head(old)>> \o Tail(old) \in Seq(Item)
        /\ Len(<<Head(old)>> \o Tail(old)) = Len(c)
        /\ \A k \in 1 .. Len(c) :
             (<<Head(old)>> \o Tail(old))[k] = IF k <= 1 THEN Head(old) ELSE Tail(old)[k - 1]
    BY <2>1, <1>2, <1>6, ConcatProperties
  <2>3. \A k \in 1 .. Len(c) : old[k] = (<<Head(old)>> \o Tail(old))[k]
    <3> SUFFICES ASSUME NEW k \in 1 .. Len(c)
                 PROVE  old[k] = (<<Head(old)>> \o Tail(old))[k]
      OBVIOUS
    <3>1. CASE k = 1
      BY <3>1, <2>2, <1>8, <1>10
    <3>2. CASE k # 1
      <4>1. k - 1 \in 1 .. Len(c) - 1 /\ ~(k <= 1) /\ (k - 1) + 1 = k
        BY <3>2, <1>2
      <4>2. QED
        BY <4>1, <2>2, <1>6
    <3>3. QED
      BY <3>1, <3>2
  <2>4. QED
    BY <2>2, <2>3, <1>4, SeqEqual
<1>12. QED
  BY <1>4, <1>5, <1>8, <1>9, <1>10, <1>11 DEF d, old, rest

-----------------------------------------------------------------------------
(***************************************************************************)
(* The refinement: a push, pop, peek or size is the abstract call, and of  *)
(* destroy only the return is; a turn of its loop moves an item from the   *)
(* nodes to handed, which the abstract sequence does not notice.           *)
(***************************************************************************)
Held == handed \o Items

LEMMA HeldIdle ==
  ASSUME IInv, pc # "destroy"
  PROVE  /\ Held = ItemsOf(chain, item) /\ Len(Held) = Len(chain)
         /\ Held = <<>> <=> chain = <<>>
<1>1. chain \in Seq(Node) /\ item \in [Node -> Item] /\ handed = <<>>
  BY DEF IInv, TypeOK, Shape
<1>2. /\ ItemsOf(chain, item) \in Seq(Item)
      /\ Len(ItemsOf(chain, item)) = Len(chain)
      /\ ItemsOf(chain, item) = <<>> <=> chain = <<>>
  BY <1>1, ItemsType
<1>3. Items = ItemsOf(chain, item)
  BY DEF Items, ItemsOf
<1>4. <<>> \o ItemsOf(chain, item) = ItemsOf(chain, item)
  BY <1>2, ConcatEmptySeq
<1>5. QED
  BY <1>1, <1>2, <1>3, <1>4 DEF Held

LEMMA Unlinked ==
  ASSUME IInv, NEW n \in Node \ live
  PROVE  \A k \in DOMAIN chain : chain[k] # n
BY DEF IInv, Shape, Chained

LEMMA InitRefines == Init => Seqs!Init
<1> SUFFICES ASSUME Init PROVE Seqs!Init
  OBVIOUS
<1>1. IInv
  BY ShapeInit DEF IInv
<1>2. Held = <<>>
  BY <1>1, HeldIdle DEF Init
<1>3. QED
  BY <1>2 DEF Init, Seqs!Init, Held, None, Answer, Seqs!None, Seqs!Answer

LEMMA PushRefines ==
  ASSUME IInv, IInv', NEW n \in Node, NEW it \in Item,
         StackPush(n, it) \/ PushFront(n, it) \/ PushBack(n, it)
  PROVE  Seqs!PushFront(it) \/ Seqs!PushBack(it)
<1>1. /\ pc = "idle" /\ pc' = "idle" /\ n \in Node \ live /\ kind' = kind
      /\ item' = [item EXCEPT ![n] = it]
  BY DEF StackPush, PushFront, PushBack, Allocate
<1>2. Held = ItemsOf(chain, item) /\ Held' = ItemsOf(chain', item')
  <2>1. Held' = ItemsOf(chain', item')
    <3>1. /\ handed' = <<>> /\ chain' \in Seq(Node) /\ item' \in [Node -> Item]
      BY <1>1 DEF IInv, Shape, TypeOK
    <3>2. Items' = ItemsOf(chain', item') /\ ItemsOf(chain', item') \in Seq(Item)
      BY <3>1, ItemsType DEF Items, ItemsOf
    <3>3. QED
      BY <3>1, <3>2, ConcatEmptySeq DEF Held
  <2>2. QED
    BY <2>1, <1>1, HeldIdle
<1>3. \A k \in DOMAIN chain : chain[k] # n
  BY <1>1, Unlinked
<1>4. chain \in Seq(Node) /\ item \in [Node -> Item]
  BY DEF IInv, TypeOK
<1>5. CASE StackPush(n, it) \/ PushFront(n, it)
  <2>1. /\ chain' = <<n>> \o chain /\ kind # "queue"
        /\ res' = Answer("push_front", <<it>>, 0, <<>>)
    BY <1>5 DEF StackPush, PushFront, Allocate
  <2>2. Held' = <<it>> \o Held
    BY <1>1, <1>2, <1>3, <1>4, <2>1, ItemsFront
  <2>3. QED
    BY <2>1, <2>2, <1>1 DEF Seqs!PushFront, Held, Answer, Seqs!Answer
<1>6. CASE PushBack(n, it)
  <2>1. /\ chain' = Append(chain, n) /\ kind # "stack"
        /\ res' = Answer("push_back", <<it>>, 0, <<>>)
    BY <1>6 DEF PushBack, Allocate
  <2>2. Held' = Append(Held, it)
    BY <1>1, <1>2, <1>3, <1>4, <2>1, ItemsBack
  <2>3. QED
    BY <2>1, <2>2, <1>1 DEF Seqs!PushBack, Held, Answer, Seqs!Answer
<1>7. QED
  BY <1>5, <1>6

LEMMA PopRefines ==
  ASSUME IInv, IInv', Pop
  PROVE  Seqs!Pop
<1>1. /\ pc = "idle" /\ pc' = "idle" /\ head # NULL /\ Free(head)
      /\ chain' = Tail(chain) /\ kind' = kind
      /\ res' = Answer("pop", <<>>, 0, <<item[head]>>)
  BY DEF Pop
<1>2. /\ Chained(chain, next, live) /\ chain \in Seq(Node) /\ head = Nth(chain, 1)
      /\ item \in [Node -> Item] /\ item' \in [Node -> Item] /\ handed' = <<>>
  BY <1>1 DEF IInv, TypeOK, Shape
<1>3. chain # <<>> /\ head = chain[1] /\ chain[1] \in Node
  BY <1>1, <1>2, Ends
<1>4. \A m \in Node : m # chain[1] => item'[m] = item[m]
  BY <1>1, <1>2, <1>3 DEF Free
<1>5. /\ ItemsOf(chain, item) # <<>>
      /\ Head(ItemsOf(chain, item)) = item[head]
      /\ Tail(ItemsOf(chain, item)) = ItemsOf(chain', item')
      /\ ItemsOf(chain', item') \in Seq(Item)
  BY <1>1, <1>2, <1>3, <1>4, ItemsPop
<1>6. Held = ItemsOf(chain, item)
  BY <1>1, HeldIdle
<1>7. Held' = ItemsOf(chain', item')
  <2>1. Items' = ItemsOf(chain', item')
    BY DEF Items, ItemsOf
  <2>2. QED
    BY <2>1, <1>2, <1>5, ConcatEmptySeq DEF Held
<1>8. QED
  BY <1>1, <1>5, <1>6, <1>7 DEF Seqs!Pop, Held, Answer, Seqs!Answer

LEMMA PeekRefines ==
  ASSUME IInv, Peek
  PROVE  Seqs!Peek
<1>1. /\ pc = "idle" /\ head # NULL /\ res' = Answer("peek", <<>>, 0, <<item[head]>>)
      /\ UNCHANGED <<kind, pc, nodes, handed, chain>>
  BY DEF Peek
<1>2. /\ Chained(chain, next, live) /\ chain \in Seq(Node) /\ head = Nth(chain, 1)
      /\ item \in [Node -> Item]
  BY <1>1 DEF IInv, TypeOK, Shape
<1>3. chain # <<>> /\ head = chain[1]
  BY <1>1, <1>2, Ends
<1>4. ItemsOf(chain, item) # <<>> /\ Head(ItemsOf(chain, item)) = item[head]
  BY <1>2, <1>3, ItemsPop
<1>5. Held = ItemsOf(chain, item)
  BY <1>1, HeldIdle
<1>6. Held' = Held
  BY <1>1 DEF Held, Items, nodes
<1>7. QED
  BY <1>1, <1>4, <1>5, <1>6 DEF Seqs!Peek, Held, Answer, Seqs!Answer

LEMMA SizeRefines ==
  ASSUME IInv, Size
  PROVE  Seqs!Size
<1>1. Len(Held) = Len(chain) /\ size = Len(chain)
  BY HeldIdle DEF IInv, Shape, Size
<1>2. Held' = Held
  BY DEF Size, Held, Items, nodes
<1>3. QED
  BY <1>1, <1>2 DEF Size, Seqs!Size, Held, Answer, Seqs!Answer

\* Items that destroy has handed out stay in the mapped sequence.
LEMMA DestroyNodeRefines ==
  ASSUME IInv, IInv', DestroyNode
  PROVE  UNCHANGED Seqs!vars
<1>1. /\ pc = "destroy" /\ cur # NULL /\ Free(cur) /\ chain' = Tail(chain)
      /\ handed' = Append(handed, item[cur]) /\ UNCHANGED <<kind, pc, res>>
  BY DEF DestroyNode
<1>2. /\ Chained(chain, next, live) /\ chain \in Seq(Node) /\ cur = Nth(chain, 1)
      /\ item \in [Node -> Item] /\ item' \in [Node -> Item] /\ handed \in Seq(Item)
  BY <1>1 DEF IInv, TypeOK, Shape
<1>3. chain # <<>> /\ cur = chain[1] /\ chain[1] \in Node
  BY <1>1, <1>2, Ends
<1>4. \A m \in Node : m # chain[1] => item'[m] = item[m]
  BY <1>1, <1>2, <1>3 DEF Free
<1>5. /\ item[cur] \in Item
      /\ ItemsOf(chain, item) = <<item[cur]>> \o ItemsOf(chain', item')
      /\ ItemsOf(chain', item') \in Seq(Item)
  <2>1. /\ item[chain[1]] \in Item
        /\ ItemsOf(chain, item) = <<item[chain[1]]>> \o ItemsOf(Tail(chain), item')
        /\ ItemsOf(Tail(chain), item') \in Seq(Item)
    BY <1>2, <1>3, <1>4, ItemsPop
  <2>2. QED
    BY <2>1, <1>1, <1>3
<1>6. Items = ItemsOf(chain, item) /\ Items' = ItemsOf(chain', item')
  BY DEF Items, ItemsOf
<1>7. <<item[cur]>> \in Seq(Item) /\ handed' = handed \o <<item[cur]>>
  BY <1>1, <1>2, <1>5, AppendIsConcat
<1>8. (handed \o <<item[cur]>>) \o Items' = handed \o (<<item[cur]>> \o Items')
  BY <1>2, <1>5, <1>6, <1>7, ConcatAssociative
<1>9. Held' = Held
  BY <1>5, <1>6, <1>7, <1>8 DEF Held
<1>10. QED
  BY <1>1, <1>9 DEF Seqs!vars, Held

LEMMA DestroyReturnRefines ==
  ASSUME IInv, DestroyReturn
  PROVE  Seqs!Destroy
<1>1. /\ pc = "destroy" /\ pc' = "none" /\ cur = NULL /\ handed' = <<>>
      /\ res' = Answer("destroy", <<>>, 0, handed) /\ UNCHANGED <<kind, nodes, chain>>
  BY DEF DestroyReturn
<1>2. chain \in Seq(Node) /\ Nth(chain, 1) = NULL /\ handed \in Seq(Item)
  BY <1>1 DEF IInv, TypeOK, Shape
<1>3. chain = <<>>
  BY <1>2, Ends
<1>4. Items = <<>> /\ Items' = <<>>
  BY <1>1, <1>3 DEF Items
<1>5. Held = handed /\ Held' = <<>>
  BY <1>1, <1>2, <1>4, ConcatEmptySeq DEF Held
<1>6. QED
  BY <1>1, <1>5 DEF Seqs!Destroy, Held, Answer, Seqs!Answer

LEMMA CreateRefines ==
  ASSUME IInv, Create
  PROVE  Seqs!Create
<1>1. Held = <<>>
  BY HeldIdle DEF Create, IInv, Shape
<1>2. Held' = Held
  BY DEF Create, Held, Items, nodes
<1>3. QED
  BY <1>1, <1>2 DEF Create, Seqs!Create, Held, None, Answer, Seqs!None, Seqs!Answer

LEMMA StepRefines == IInv /\ IInv' /\ [Next]_vars => [Seqs!Next]_(Seqs!vars)
<1> SUFFICES ASSUME IInv, IInv', [Next]_vars PROVE [Seqs!Next]_(Seqs!vars)
  OBVIOUS
<1>1. CASE Create
  BY <1>1, CreateRefines DEF Seqs!Next
<1>2. CASE Refuse
  BY <1>2 DEF Refuse, nodes, Items, Refusal, Answer, Seqs!Next, Seqs!Refuse, Seqs!Refusal, Seqs!Answer
<1>3. CASE Pop
  BY <1>3, PopRefines DEF Seqs!Next
<1>4. CASE Peek
  BY <1>4, PeekRefines DEF Seqs!Next
<1>5. CASE Size
  BY <1>5, SizeRefines DEF Seqs!Next
<1>6. ASSUME NEW n \in Node, NEW it \in Item,
             StackPush(n, it) \/ PushFront(n, it) \/ PushBack(n, it)
      PROVE  Seqs!Next
  BY <1>6, PushRefines DEF Seqs!Next
<1>7. CASE Destroy
  BY <1>7 DEF Destroy, nodes, Items, Seqs!vars
<1>8. CASE DestroyNode
  BY <1>8, DestroyNodeRefines
<1>9. CASE DestroyReturn
  BY <1>9, DestroyReturnRefines DEF Seqs!Next
<1>10. CASE UNCHANGED vars
  BY <1>10 DEF vars, nodes, Items, Seqs!vars
<1>11. QED
  BY <1>1, <1>2, <1>3, <1>4, <1>5, <1>6, <1>7, <1>8, <1>9, <1>10 DEF Next

(***************************************************************************)
(* For any memory and any items, list.c, stack.c and queue.c answer as an  *)
(* abstract sequence does: a stack gives back the last item pushed, a      *)
(* queue the first, nothing is lost, doubled or reordered, and destroy     *)
(* hands out what is left, front first.                                    *)
(***************************************************************************)
THEOREM LinearImplements == Spec => Implements
<1>1. Init => IInv
  BY ShapeInit DEF IInv
<1>2. QED
  BY <1>1, InitRefines, IInvStep, StepRefines, PTL DEF Spec, Implements, Seqs!Spec
=============================================================================
