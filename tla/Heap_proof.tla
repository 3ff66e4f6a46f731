----------------------------- MODULE Heap_proof -----------------------------
(***************************************************************************)
(* Proofs about heap.c, for any items, capacities and bound: heap order is *)
(* an invariant of both sift loops, what peek and extract answer is one of *)
(* the largest items, and the heap answers as an atomic priority queue.    *)
(***************************************************************************)
EXTENDS Heap, FiniteSetTheorems, WellFoundedInduction, TLAPS

Cells == 0 .. Used - 1

IInv == TypeOK /\ HeapOrder

K(s) == items[s].key

-----------------------------------------------------------------------------
\* The arithmetic of the implicit tree.
LEMMA ParentChild ==
  ASSUME NEW i \in Nat, i > 0
  PROVE  /\ Parent(i) \in Nat /\ Parent(i) < i /\ ChildOf(i, Parent(i))
         /\ \A p \in Nat : ChildOf(i, p) => p = Parent(i)
BY DEF Parent, ChildOf

LEMMA Children ==
  ASSUME NEW i \in Nat, NEW c \in Nat
  PROVE  /\ ChildOf(c, i) <=> c = Left(i) \/ c = Right(i)
         /\ Left(i) \in Nat /\ Right(i) \in Nat /\ i < Left(i) /\ Left(i) < Right(i)
         /\ ChildOf(c, i) => i < c
BY DEF Left, Right, ChildOf

\* The cells in use hold items, whose keys are integers.
LEMMA CellTypes ==
  ASSUME TypeOK
  PROVE  /\ Used \in Nat /\ Used <= capacity /\ Cells \subseteq 0 .. capacity - 1
         /\ \A s \in Cells : s \in Nat /\ items[s] \in Item /\ items[s].key \in Int
         /\ \A s \in 0 .. capacity - 1 : s \notin Cells => items[s] = JUNK
<1>1. Used \in Nat /\ Used <= capacity /\ capacity \in Nat
  BY DEF TypeOK, Used
<1>2. Cells \subseteq 0 .. capacity - 1
  BY <1>1 DEF Cells
<1>3. \A s \in Cells : s \in Nat /\ items[s] \in Item
  BY <1>1, <1>2 DEF TypeOK, Cells
<1>4. \A s \in 0 .. capacity - 1 : s \notin Cells => items[s] = JUNK
  BY <1>1 DEF TypeOK, Cells
<1>5. QED
  BY <1>1, <1>2, <1>3, <1>4, ItemAssumption

(***************************************************************************)
(* LargestAt names the cell itself or a child in use, and no child in use  *)
(* holds a larger key than the cell it names.                              *)
(***************************************************************************)
LEMMA LargestChild ==
  ASSUME TypeOK, pc = "down"
  PROVE  LET m == LargestAt(idx)
         IN /\ m \in Cells
            /\ m # idx => ChildOf(m, idx) /\ items[m].key > items[idx].key
            /\ \A c \in Cells : ChildOf(c, idx) => Below(c, m)
            /\ Below(idx, m)
<1> DEFINE m == LargestAt(idx)
           l == IF Left(idx) < size /\ K(Left(idx)) > K(idx) THEN Left(idx) ELSE idx
<1>1. /\ idx \in Cells /\ idx \in Nat /\ size \in Nat /\ Cells = 0 .. size - 1
      /\ \A s \in Cells : s \in Nat /\ K(s) \in Int
  BY CellTypes DEF TypeOK, Used, Cells, K
<1>2. /\ Left(idx) \in Nat /\ Right(idx) \in Nat
      /\ ChildOf(Left(idx), idx) /\ ChildOf(Right(idx), idx)
      /\ \A c \in Nat : ChildOf(c, idx) => c = Left(idx) \/ c = Right(idx)
  BY <1>1, Children
<1>3. /\ Left(idx) < size <=> Left(idx) \in Cells
      /\ Right(idx) < size <=> Right(idx) \in Cells
  BY <1>1, <1>2
<1>4. /\ l \in Cells /\ K(idx) <= K(l)
      /\ l # idx => l = Left(idx) /\ K(l) > K(idx)
      /\ Left(idx) \in Cells => K(Left(idx)) <= K(l)
  BY <1>1, <1>3
<1>5. m = IF Right(idx) < size /\ K(Right(idx)) > K(l) THEN Right(idx) ELSE l
  BY DEF LargestAt, K
<1> HIDE DEF l, m
<1>6. /\ m \in Cells /\ K(idx) <= K(m)
      /\ m # idx => ChildOf(m, idx) /\ K(m) > K(idx)
      /\ Left(idx) \in Cells => K(Left(idx)) <= K(m)
      /\ Right(idx) \in Cells => K(Right(idx)) <= K(m)
  BY <1>1, <1>2, <1>3, <1>4, <1>5
<1>7. \A c \in Cells : ChildOf(c, idx) => K(c) <= K(m)
  BY <1>1, <1>2, <1>6
<1>8. QED
  BY <1>6, <1>7 DEF m, K, Below

(***************************************************************************)
(* With no cell out of order, the root holds one of the largest keys: the  *)
(* least cell with a larger one would have a parent with a larger one.     *)
(***************************************************************************)
RootLargest == pc = "idle" => \A s \in Cells : K(s) <= K(0)

LEMMA OrderMakesRootLargest == IInv => RootLargest
<1> SUFFICES ASSUME IInv, pc = "idle", NEW s0 \in Cells, ~(K(s0) <= K(0))
             PROVE  FALSE
  BY DEF RootLargest
<1> DEFINE larger == {s \in Cells : ~(K(s) <= K(0))}
<1>1. /\ Used \in Nat /\ Cells = 0 .. Used - 1
      /\ \A s \in Cells : s \in Nat /\ K(s) \in Int
  BY CellTypes DEF IInv, K, Cells
<1>2. larger \subseteq Nat /\ larger # {}
  BY <1>1
<1>3. PICK s \in larger : \A t \in larger : ~(<<t, s>> \in OpToRel(<, Nat))
  <2> HIDE DEF larger
  <2>1. QED
    BY <1>2, NatLessThanWellFounded, WFMin
<1>4. \A t \in larger : ~(t < s)
  BY <1>2, <1>3 DEF OpToRel
<1>5. s \in Cells /\ s \in Nat /\ s > 0 /\ ~(K(s) <= K(0))
  BY <1>1
<1>6. Parent(s) \in Nat /\ Parent(s) < s /\ ChildOf(s, Parent(s))
  BY <1>5, ParentChild
<1>7. Parent(s) \in Cells
  BY <1>1, <1>5, <1>6
<1>8. K(s) <= K(Parent(s))
  BY <1>5, <1>6, <1>7 DEF IInv, HeapOrder, Cells, Below, K
<1>9. K(Parent(s)) <= K(0)
  BY <1>4, <1>6, <1>7
<1>10. 0 \in Cells
  BY <1>1, <1>5
<1>11. QED
  BY <1>1, <1>5, <1>7, <1>8, <1>9, <1>10

-----------------------------------------------------------------------------
(***************************************************************************)
(* The invariant is inductive as it stands: its clause about idx's         *)
(* children and idx's parent is what makes either swap sound.              *)
(***************************************************************************)
LEMMA InitInv == Init => IInv
<1> SUFFICES ASSUME Init PROVE IInv
  OBVIOUS
<1>1. /\ items = [s \in {} |-> JUNK] /\ size = 0 /\ capacity = 0 /\ pc = "none" /\ idx = 0
      /\ Used = 0
  BY DEF Init, NoArray, Used
<1>2. 0 .. capacity - 1 = {} /\ 0 .. Used - 1 = {}
  BY <1>1
<1>3. QED
  BY <1>1, <1>2 DEF IInv, TypeOK, HeapOrder

\* A step that touches neither the array nor the loops.
LEMMA StillInv ==
  ASSUME IInv, UNCHANGED <<store, pc, idx>>
  PROVE  IInv'
BY DEF IInv, TypeOK, HeapOrder, Used, Below, store

\* An empty heap: fresh from create, or none.
LEMMA EmptyInv ==
  ASSUME NEW c \in Nat,
         items' = Array(c), capacity' = c, size' = 0, idx' = 0,
         pc' \in {"none", "idle"}, pc' = "none" => c = 0
  PROVE  IInv'
<1>1. Used' = 0 /\ 0 .. Used' - 1 = {}
  BY DEF Used
<1>2. /\ items' \in [0 .. c - 1 -> Item \cup {JUNK}]
      /\ \A s \in 0 .. c - 1 : items'[s] \notin Item /\ ~(s < Used')
  BY <1>1, JunkAssumption DEF Array
<1>3. pc' = "none" => c = 0
  OBVIOUS
<1>4. TypeOK'
  BY <1>1, <1>2, <1>3 DEF TypeOK
<1>5. QED
  BY <1>1, <1>4 DEF IInv, HeapOrder

LEMMA CreateInv ==
  ASSUME IInv, NEW c \in Capacities, Create(c)
  PROVE  IInv'
<1>1. pc = "none" /\ capacity = 0 /\ size = 0 /\ idx = 0 /\ size' = 0 /\ idx' = 0
  BY DEF IInv, TypeOK, Create, Used
<1>2. CASE pc' = "idle" /\ items' = Array(c) /\ capacity' = c
  BY <1>1, <1>2, CapacityAssumption, EmptyInv
<1>3. CASE UNCHANGED <<pc, items, capacity>>
  BY <1>1, <1>3, StillInv DEF store
<1>4. QED
  BY <1>2, <1>3 DEF Create

LEMMA DestroyInv ==
  ASSUME IInv, Destroy
  PROVE  IInv'
<1>1. /\ items' = [s \in {} |-> JUNK] /\ size' = 0 /\ capacity' = 0
      /\ pc' = "none" /\ idx' = 0
  BY DEF Destroy, NoArray, IInv, TypeOK
<1>2. Array(0) = [s \in {} |-> JUNK]
  BY DEF Array
<1>3. QED
  BY <1>1, <1>2, EmptyInv

(***************************************************************************)
(* insert: the new item is at idx = size, where it may be too large for    *)
(* its parent; it has no children.                                         *)
(***************************************************************************)
LEMMA PlaceInv ==
  ASSUME IInv, pc = "idle", NEW it \in Item, NEW array, NEW cap \in Nat,
         capacity' = cap, size < cap,
         array \in [0 .. cap - 1 -> Item \cup {JUNK}],
         \A s \in 0 .. cap - 1 : s < size => array[s] = items[s],
         \A s \in 0 .. cap - 1 : ~(s < size) => array[s] = JUNK,
         Place(array, it)
  PROVE  IInv'
<1>1. /\ size \in Nat /\ Used = size /\ Cells = 0 .. size - 1
      /\ \A s \in Cells : items[s] \in Item
  BY CellTypes DEF IInv, TypeOK, Used, Cells
<1>2. /\ size' = size /\ pc' = "up" /\ idx' = size /\ Used' = size + 1
      /\ items' = [array EXCEPT ![size] = it]
  BY DEF Place, Used
<1>3. size \in 0 .. cap - 1
  BY <1>1
<1>4. /\ items' \in [0 .. cap - 1 -> Item \cup {JUNK}]
      /\ items'[size] = it
      /\ \A s \in 0 .. cap - 1 : s # size => items'[s] = array[s]
  BY <1>2, <1>3
<1>5. \A s \in Cells : items'[s] = items[s]
  BY <1>1, <1>3, <1>4
<1>6. \A s \in 0 .. cap - 1 : items'[s] \in Item <=> s < size + 1
  <2> SUFFICES ASSUME NEW s \in 0 .. cap - 1
               PROVE  items'[s] \in Item <=> s < size + 1
    OBVIOUS
  <2>1. CASE s = size
    BY <2>1, <1>1, <1>4
  <2>2. CASE s \in Cells
    BY <2>2, <1>1, <1>5
  <2>3. CASE s > size
    BY <2>3, <1>1, <1>4, JunkAssumption
  <2>4. QED
    BY <2>1, <2>2, <2>3, <1>1
<1>7. TypeOK'
  BY <1>1, <1>2, <1>3, <1>4, <1>6 DEF TypeOK
<1>8. HeapOrder'
  <2> SUFFICES ASSUME NEW p \in 0 .. size, NEW c \in 0 .. size, ChildOf(c, p)
               PROVE  /\ c = size \/ Below(c, p)'
                      /\ p # size
    BY <1>1, <1>2 DEF HeapOrder
  <2>1. p < c
    BY <1>1, Children
  <2>2. p # size
    BY <2>1, <1>1
  <2>3. ASSUME c # size PROVE Below(c, p)'
    <3>1. c \in Cells /\ p \in Cells
      BY <2>2, <2>3, <1>1
    <3>2. Below(c, p)
      BY <3>1 DEF IInv, HeapOrder, Cells
    <3>3. QED
      BY <3>1, <3>2, <1>5 DEF Below
  <2>4. QED
    BY <2>2, <2>3
<1>9. QED
  BY <1>7, <1>8 DEF IInv

LEMMA InsertInv ==
  ASSUME IInv, NEW it \in Item, Insert(it)
  PROVE  IInv'
<1>1. /\ pc = "idle" /\ size # capacity /\ Place(items, it) /\ capacity' = capacity
  BY DEF Insert, Full
<1>2. /\ size \in Nat /\ capacity \in Nat /\ Used = size /\ size < capacity
      /\ items \in [0 .. capacity - 1 -> Item \cup {JUNK}]
      /\ \A s \in 0 .. capacity - 1 : ~(s < size) => items[s] = JUNK
  BY <1>1 DEF IInv, TypeOK, Used
<1>3. QED
  BY <1>1, <1>2, PlaceInv

LEMMA InsertGrowingInv ==
  ASSUME IInv, NEW it \in Item, InsertGrowing(it)
  PROVE  IInv'
<1> DEFINE array == [s \in 0 .. Grown - 1 |-> IF s < capacity THEN items[s] ELSE JUNK]
<1>1. /\ pc = "idle" /\ size = capacity /\ Place(array, it) /\ capacity' = Grown
  BY DEF InsertGrowing, Full
<1>2. /\ size \in Nat /\ capacity \in Nat
      /\ items \in [0 .. capacity - 1 -> Item \cup {JUNK}]
  BY DEF IInv, TypeOK
<1>3. Grown \in Nat /\ capacity < Grown
  BY <1>2 DEF Grown
<1>4. /\ array \in [0 .. Grown - 1 -> Item \cup {JUNK}]
      /\ \A s \in 0 .. Grown - 1 : s < size => array[s] = items[s]
      /\ \A s \in 0 .. Grown - 1 : ~(s < size) => array[s] = JUNK
  BY <1>1, <1>2, <1>3
<1> HIDE DEF array
<1>5. QED
  BY <1>1, <1>2, <1>3, <1>4, PlaceInv

(***************************************************************************)
(* extract: the cells in use are one fewer, and only the root is new.      *)
(***************************************************************************)
LEMMA ExtractInv ==
  ASSUME IInv, Extract
  PROVE  IInv'
<1>1. /\ pc = "idle" /\ size \in Nat /\ size > 1 /\ Used = size /\ capacity \in Nat
      /\ size <= capacity
      /\ items \in [0 .. capacity - 1 -> Item \cup {JUNK}]
      /\ \A s \in 0 .. capacity - 1 : items[s] \in Item <=> s < size
  BY DEF IInv, TypeOK, Extract, Used
<1>2. /\ size' = size - 1 /\ pc' = "down" /\ idx' = 0 /\ Used' = size - 1
      /\ capacity' = capacity
      /\ items' = [items EXCEPT ![0] = items[size - 1], ![size - 1] = JUNK]
  BY DEF Extract, Used
<1>3. /\ items' \in [0 .. capacity - 1 -> Item \cup {JUNK}]
      /\ items'[0] = items[size - 1] /\ items'[size - 1] = JUNK
      /\ \A s \in 0 .. capacity - 1 : s # 0 /\ s # size - 1 => items'[s] = items[s]
  BY <1>1, <1>2
<1>4. \A s \in 0 .. capacity - 1 : items'[s] \in Item <=> s < size - 1
  <2> SUFFICES ASSUME NEW s \in 0 .. capacity - 1
               PROVE  items'[s] \in Item <=> s < size - 1
    OBVIOUS
  <2>1. CASE s = 0
    BY <2>1, <1>1, <1>3
  <2>2. CASE s = size - 1
    BY <2>2, <1>1, <1>3, JunkAssumption
  <2>3. CASE s # 0 /\ s # size - 1
    BY <2>3, <1>1, <1>3
  <2>4. QED
    BY <2>1, <2>2, <2>3
<1>5. TypeOK'
  BY <1>1, <1>2, <1>3, <1>4 DEF TypeOK
<1>6. HeapOrder'
  <2> SUFFICES ASSUME NEW p \in 0 .. size - 2, NEW c \in 0 .. size - 2, ChildOf(c, p)
               PROVE  /\ p = 0 \/ Below(c, p)'
                      /\ p = 0 => \A g \in 0 .. size - 2 : ~ChildOf(p, g)
    BY <1>1, <1>2 DEF HeapOrder
  <2>1. \A g \in 0 .. size - 2 : ~ChildOf(0, g)
    BY <1>1 DEF ChildOf
  <2>2. ASSUME p # 0 PROVE Below(c, p)'
    <3>1. p < c /\ c \in 0 .. Used - 1 /\ p \in 0 .. Used - 1
      BY <1>1, Children
    <3>2. Below(c, p)
      BY <3>1, <1>1 DEF IInv, HeapOrder
    <3>3. items'[c] = items[c] /\ items'[p] = items[p]
      BY <2>2, <3>1, <1>1, <1>3
    <3>4. QED
      BY <3>2, <3>3 DEF Below
  <2>3. QED
    BY <2>1, <2>2
<1>7. QED
  BY <1>5, <1>6 DEF IInv

LEMMA ExtractLastInv ==
  ASSUME IInv, ExtractLast
  PROVE  IInv'
<1>1. /\ pc = "idle" /\ size = 1 /\ Used = 1 /\ capacity \in Nat /\ 1 <= capacity /\ idx = 0
      /\ items \in [0 .. capacity - 1 -> Item \cup {JUNK}]
      /\ \A s \in 0 .. capacity - 1 : items[s] \in Item <=> s < 1
  BY DEF IInv, TypeOK, ExtractLast, Used
<1>2. /\ size' = 0 /\ pc' = "idle" /\ idx' = 0 /\ Used' = 0 /\ capacity' = capacity
      /\ items' = [items EXCEPT ![0] = JUNK]
  BY <1>1 DEF ExtractLast, Used
<1>3. \A s \in 0 .. capacity - 1 : items'[s] = JUNK
  BY <1>1, <1>2
<1>4. TypeOK'
  BY <1>1, <1>2, <1>3, JunkAssumption DEF TypeOK
<1>5. QED
  BY <1>2, <1>4 DEF IInv, HeapOrder

-----------------------------------------------------------------------------
\* The key in a cell after a step.
After(s) == items'[s].key

\* What a swap of two cells in use does to the cells and the types.
LEMMA SwapCells ==
  ASSUME IInv, pc \in {"up", "down"}, NEW i \in Cells, NEW j \in Cells, i # j,
         Swap(i, j), UNCHANGED <<size, capacity, pc>>, idx' \in Cells
  PROVE  /\ TypeOK' /\ Used' = Used
         /\ After(i) = K(j) /\ After(j) = K(i)
         /\ \A s \in Cells : s # i /\ s # j => After(s) = K(s)
<1>1. /\ Used \in Nat /\ Used <= capacity /\ Cells = 0 .. Used - 1
      /\ Cells \subseteq 0 .. capacity - 1
      /\ \A s \in Cells : items[s] \in Item
  BY CellTypes DEF IInv, Cells
<1>2. /\ items \in [0 .. capacity - 1 -> Item \cup {JUNK}]
      /\ \A s \in 0 .. capacity - 1 : items[s] \in Item <=> s < Used
      /\ size \in Nat /\ capacity \in Nat
  BY DEF IInv, TypeOK
<1>3. /\ items' \in [0 .. capacity - 1 -> Item \cup {JUNK}]
      /\ items'[i] = items[j] /\ items'[j] = items[i]
      /\ \A s \in 0 .. capacity - 1 : s # i /\ s # j => items'[s] = items[s]
  BY <1>1, <1>2 DEF Swap
<1>4. Used' = Used
  BY DEF Used
<1>5. \A s \in 0 .. capacity - 1 : items'[s] \in Item <=> s < Used
  <2> SUFFICES ASSUME NEW s \in 0 .. capacity - 1
               PROVE  items'[s] \in Item <=> s < Used
    OBVIOUS
  <2>1. CASE s = i \/ s = j
    BY <2>1, <1>1, <1>3
  <2>2. CASE s # i /\ s # j
    BY <2>2, <1>2, <1>3
  <2>3. QED
    BY <2>1, <2>2
<1>6. TypeOK'
  BY <1>1, <1>2, <1>3, <1>4, <1>5 DEF TypeOK
<1>7. QED
  BY <1>1, <1>3, <1>4, <1>6 DEF K, After

\* The order, in terms of K: what holds at idx while an item rises or sinks.
LEMMA OrderUp ==
  ASSUME TypeOK, pc = "up"
  PROVE  HeapOrder <=>
           \A p, c \in Cells : ChildOf(c, p) =>
             /\ c # idx => K(c) <= K(p)
             /\ p = idx => \A g \in Cells : ChildOf(p, g) => K(c) <= K(g)
BY DEF HeapOrder, Cells, Below, K

LEMMA OrderDown ==
  ASSUME TypeOK, pc = "down"
  PROVE  HeapOrder <=>
           \A p, c \in Cells : ChildOf(c, p) =>
             /\ p # idx => K(c) <= K(p)
             /\ p = idx => \A g \in Cells : ChildOf(p, g) => K(c) <= K(g)
BY DEF HeapOrder, Cells, Below, K

LEMMA CellFacts ==
  ASSUME TypeOK
  PROVE  \A s \in Cells : s \in Nat /\ K(s) \in Int
BY CellTypes DEF K

LEMMA SiftUpInv ==
  ASSUME IInv, SiftUp
  PROVE  IInv'
<1> DEFINE up == Parent(idx)
<1>1. /\ pc = "up" /\ pc' = "up" /\ ~Risen /\ idx' = up
      /\ Swap(up, idx) /\ UNCHANGED <<size, capacity, pc>>
  BY DEF SiftUp
<1>2. TypeOK /\ HeapOrder /\ idx \in Cells
  BY <1>1 DEF IInv, TypeOK, Cells
<1>3. /\ \A s \in Cells : s \in Nat /\ K(s) \in Int
      /\ Used \in Nat /\ Cells = 0 .. Used - 1
  BY <1>2, CellFacts, CellTypes DEF Cells
<1>4. idx > 0 /\ ~(K(up) >= K(idx))
  BY <1>1, <1>2, <1>3 DEF Risen, K
<1>5. /\ up \in Nat /\ up < idx /\ ChildOf(idx, up)
      /\ \A p \in Nat : ChildOf(idx, p) => p = up
  BY <1>2, <1>3, <1>4, ParentChild
<1> HIDE DEF up
<1>6. up \in Cells /\ up # idx
  BY <1>2, <1>3, <1>5
<1>7. /\ TypeOK' /\ Used' = Used /\ After(up) = K(idx) /\ After(idx) = K(up)
      /\ \A s \in Cells : s # up /\ s # idx => After(s) = K(s)
  BY <1>1, <1>2, <1>6, SwapCells
<1>8. \A p, c \in Cells : ChildOf(c, p) =>
        /\ c # idx => K(c) <= K(p)
        /\ p = idx => \A g \in Cells : ChildOf(p, g) => K(c) <= K(g)
  BY <1>1, <1>2, OrderUp
<1>9. ASSUME NEW p \in Cells, NEW c \in Cells, ChildOf(c, p), c # up
      PROVE  After(c) <= After(p)
  <2>1. p < c
    BY <1>3, <1>9, Children
  <2>2. CASE c = idx
    BY <2>2, <1>2, <1>3, <1>4, <1>5, <1>6, <1>7, <1>9
  <2>3. CASE p = up /\ c # idx
    BY <2>3, <1>2, <1>3, <1>4, <1>6, <1>7, <1>8, <1>9
  <2>4. CASE p = idx
    BY <2>1, <2>4, <1>2, <1>3, <1>5, <1>6, <1>7, <1>8, <1>9
  <2>5. CASE p # up /\ p # idx /\ c # idx
    BY <2>5, <1>3, <1>7, <1>8, <1>9
  <2>6. QED
    BY <2>2, <2>3, <2>4, <2>5
<1>10. ASSUME NEW c \in Cells, NEW g \in Cells, ChildOf(c, up), ChildOf(up, g)
       PROVE  After(c) <= After(g)
  <2>1. up < c /\ g < up
    BY <1>3, <1>6, <1>10, Children
  <2>2. K(up) <= K(g) /\ After(g) = K(g)
    BY <2>1, <1>3, <1>5, <1>6, <1>7, <1>8, <1>10
  <2>3. CASE c = idx
    BY <2>2, <2>3, <1>7
  <2>4. CASE c # idx
    <3>1. K(c) <= K(up) /\ After(c) = K(c)
      BY <2>1, <2>4, <1>3, <1>6, <1>7, <1>8, <1>10
    <3>2. QED
      BY <3>1, <2>2, <1>3, <1>6, <1>10
  <2>5. QED
    BY <2>3, <2>4
<1>11. Cells' = Cells
  BY <1>7 DEF Cells
<1>12. HeapOrder'
  BY <1>1, <1>3, <1>6, <1>7, <1>9, <1>10, <1>11 DEF HeapOrder, Cells, Below, After
<1>13. QED
  BY <1>7, <1>12 DEF IInv

LEMMA InsertReturnInv ==
  ASSUME IInv, InsertReturn
  PROVE  IInv'
<1>1. /\ pc = "up" /\ Risen /\ size' = size + 1 /\ pc' = "idle" /\ idx' = 0
      /\ items' = items /\ capacity' = capacity
  BY DEF InsertReturn
<1>2. TypeOK /\ HeapOrder /\ Used' = Used /\ Used = size + 1 /\ idx \in Cells
  BY <1>1 DEF IInv, TypeOK, Used, Cells
<1>3. \A s \in Cells : s \in Nat /\ K(s) \in Int
  BY <1>2, CellFacts
<1>4. TypeOK'
  BY <1>1, <1>2 DEF TypeOK
<1>5. ASSUME NEW p \in Cells, NEW c \in Cells, ChildOf(c, p)
      PROVE  K(c) <= K(p)
  <2>1. CASE c # idx
    BY <2>1, <1>1, <1>2, <1>5, OrderUp
  <2>2. CASE c = idx
    <3>1. idx > 0
      BY <2>2, <1>3, <1>5, Children
    <3>2. p = Parent(idx)
      BY <2>2, <3>1, <1>3, <1>5, ParentChild
    <3>3. K(p) >= K(idx)
      BY <3>1, <3>2, <1>1 DEF Risen, K
    <3>4. QED
      BY <2>2, <3>3, <1>2, <1>3, <1>5
  <2>3. QED
    BY <2>1, <2>2
<1>6. HeapOrder'
  BY <1>1, <1>2, <1>5 DEF HeapOrder, Cells, Below, K
<1>7. QED
  BY <1>4, <1>6 DEF IInv

LEMMA SiftDownInv ==
  ASSUME IInv, SiftDown
  PROVE  IInv'
<1> DEFINE m == LargestAt(idx)
<1>1. /\ pc = "down" /\ pc' = "down" /\ m # idx /\ idx' = m
      /\ Swap(idx, m) /\ UNCHANGED <<size, capacity, pc>>
  BY DEF SiftDown
<1>2. TypeOK /\ HeapOrder /\ idx \in Cells
  BY <1>1 DEF IInv, TypeOK, Cells
<1>3. /\ \A s \in Cells : s \in Nat /\ K(s) \in Int
      /\ Used \in Nat /\ Cells = 0 .. Used - 1
  BY <1>2, CellFacts, CellTypes DEF Cells
<1>4. /\ m \in Cells /\ ChildOf(m, idx) /\ K(m) > K(idx)
      /\ \A c \in Cells : ChildOf(c, idx) => K(c) <= K(m)
  BY <1>1, <1>2, LargestChild DEF Below, K
<1> HIDE DEF m
<1>5. /\ TypeOK' /\ Used' = Used /\ After(idx) = K(m) /\ After(m) = K(idx)
      /\ \A s \in Cells : s # idx /\ s # m => After(s) = K(s)
  BY <1>1, <1>2, <1>4, SwapCells
<1>6. \A p, c \in Cells : ChildOf(c, p) =>
        /\ p # idx => K(c) <= K(p)
        /\ p = idx => \A g \in Cells : ChildOf(p, g) => K(c) <= K(g)
  BY <1>1, <1>2, OrderDown
<1>7. \A c, p \in Cells : ChildOf(c, p) => p < c
  BY <1>3, Children
<1>8. \A p \in Cells : ChildOf(m, p) => p = idx
  BY <1>2, <1>3, <1>4, <1>7, ParentChild
<1>9. ASSUME NEW p \in Cells, NEW c \in Cells, ChildOf(c, p), p # m
      PROVE  After(c) <= After(p)
  <2>1. p < c
    BY <1>7, <1>9
  <2>2. CASE p = idx
    <3>1. K(c) <= K(m) /\ After(p) = K(m) /\ (c # m => After(c) = K(c))
      BY <2>1, <2>2, <1>3, <1>4, <1>5, <1>9
    <3>2. QED
      BY <3>1, <1>2, <1>3, <1>4, <1>5
  <2>3. CASE c = idx
    <3>1. K(m) <= K(p) /\ After(p) = K(p)
      BY <2>1, <2>3, <1>2, <1>3, <1>4, <1>5, <1>6, <1>9
    <3>2. QED
      BY <2>3, <3>1, <1>5
  <2>4. CASE p # idx /\ c # idx
    <3>1. c # m
      BY <2>4, <1>8, <1>9
    <3>2. QED
      BY <2>4, <3>1, <1>5, <1>6, <1>9
  <2>5. QED
    BY <2>2, <2>3, <2>4
<1>10. ASSUME NEW c \in Cells, NEW g \in Cells, ChildOf(c, m), ChildOf(m, g)
       PROVE  After(c) <= After(g)
  <2>1. g = idx /\ After(g) = K(m)
    BY <1>5, <1>8, <1>10
  <2>2. K(c) <= K(m)
    BY <1>1, <1>4, <1>6, <1>10
  <2>3. c # m /\ c # idx
    BY <1>2, <1>3, <1>4, <1>7, <1>10
  <2>4. QED
    BY <2>1, <2>2, <2>3, <1>5
<1>11. HeapOrder'
  BY <1>1, <1>3, <1>4, <1>5, <1>9, <1>10 DEF HeapOrder, Cells, Below, After
<1>12. QED
  BY <1>5, <1>11 DEF IInv

LEMMA ExtractReturnInv ==
  ASSUME IInv, ExtractReturn
  PROVE  IInv'
<1>1. /\ pc = "down" /\ LargestAt(idx) = idx /\ pc' = "idle" /\ idx' = 0
      /\ items' = items /\ size' = size /\ capacity' = capacity
  BY DEF ExtractReturn, store
<1>2. TypeOK /\ HeapOrder /\ Used' = Used
  BY <1>1 DEF IInv, Used
<1>3. TypeOK'
  BY <1>1, <1>2 DEF TypeOK
<1>4. \A c \in Cells : ChildOf(c, idx) => K(c) <= K(idx)
  BY <1>1, <1>2, LargestChild DEF Below, K
<1>5. \A p, c \in Cells : ChildOf(c, p) => K(c) <= K(p)
  BY <1>1, <1>2, <1>4, OrderDown
<1>6. HeapOrder'
  BY <1>1, <1>2, <1>5 DEF HeapOrder, Cells, Below, K
<1>7. QED
  BY <1>3, <1>6 DEF IInv

LEMMA IInvStep == IInv /\ [Next]_vars => IInv'
<1> SUFFICES ASSUME IInv, [Next]_vars PROVE IInv'
  OBVIOUS
<1>1. ASSUME NEW c \in Capacities, Create(c) PROVE IInv'
  BY <1>1, CreateInv
<1>2. CASE Destroy
  BY <1>2, DestroyInv
<1>3. CASE Refuse \/ Peek \/ Size
  BY <1>3, StillInv DEF Refuse, Peek, Size
<1>4. ASSUME NEW it \in Item, Insert(it) \/ InsertGrowing(it)
      PROVE  IInv'
  BY <1>4, InsertInv, InsertGrowingInv
<1>5. ASSUME NEW it \in Item, InsertFailed(it) PROVE IInv'
  BY <1>5, StillInv DEF InsertFailed
<1>6. CASE ExtractLast
  BY <1>6, ExtractLastInv
<1>7. CASE Extract
  BY <1>7, ExtractInv
<1>8. CASE SiftUp
  BY <1>8, SiftUpInv
<1>9. CASE InsertReturn
  BY <1>9, InsertReturnInv
<1>10. CASE SiftDown
  BY <1>10, SiftDownInv
<1>11. CASE ExtractReturn
  BY <1>11, ExtractReturnInv
<1>12. CASE UNCHANGED vars
  BY <1>12, StillInv DEF vars, store
<1>13. QED
  BY <1>1, <1>2, <1>3, <1>4, <1>5, <1>6, <1>7, <1>8, <1>9, <1>10, <1>11, <1>12
     DEF Next, Request, Work

(***************************************************************************)
(* For any items and capacities: heap order between every two cells but    *)
(* those of the item that sift_up or sift_down is moving, and an array     *)
(* whose first cells, and no others, hold items.                           *)
(***************************************************************************)
THEOREM HeapInvariant == Spec => [](TypeOK /\ HeapOrder)
<1>1. IInv => TypeOK /\ HeapOrder
  BY DEF IInv
<1>2. QED
  BY <1>1, InitInv, IInvStep, PTL DEF Spec

(***************************************************************************)
(* For any items and capacities: the cells in use hold items, no others    *)
(* do, and the sift loops' index stays among them.                         *)
(***************************************************************************)
THEOREM HeapTypes == Spec => []TypeOK
<1>1. QED
  BY HeapInvariant, PTL

\* What peek and extract hand out has a key no smaller than any in the heap.
TakesLargest ==
  Peek \/ Extract \/ ExtractLast =>
    \E it \in Item : res'.items = One(it) /\ \A s \in Cells : K(s) <= it.key

(***************************************************************************)
(* For any items and capacities, peek and extract answer one of the items  *)
(* with the largest key.                                                   *)
(***************************************************************************)
THEOREM HeapTakesLargest == Spec => [][TakesLargest]_vars
<1>1. IInv => TakesLargest
  <2> SUFFICES ASSUME IInv, Peek \/ Extract \/ ExtractLast
               PROVE  \E it \in Item : /\ res'.items = One(it)
                                       /\ \A s \in Cells : K(s) <= it.key
    BY DEF TakesLargest
  <2>1. pc = "idle" /\ size > 0 /\ res'.items = One(items[0])
    <3>1. size \in Nat
      BY DEF IInv, TypeOK
    <3>2. QED
      BY <3>1 DEF Peek, Extract, ExtractLast, Answer
  <2>2. 0 \in Cells /\ items[0] \in Item
    BY <2>1, CellTypes DEF IInv, TypeOK, Used, Cells
  <2>3. \A s \in Cells : K(s) <= items[0].key
    BY <2>1, OrderMakesRootLargest DEF RootLargest, K
  <2>4. QED
    BY <2>1, <2>2, <2>3
<1>2. QED
  BY <1>1, InitInv, IInvStep, PTL DEF Spec

-----------------------------------------------------------------------------
(***************************************************************************)
(* The refinement.  The bag of the first n cells of an array: how it       *)
(* changes when a cell is added, when two are swapped and when one goes.   *)
(***************************************************************************)
Count(f, n, x) == Cardinality(CellsOf(f, n, x))

LEMMA CountFacts ==
  ASSUME NEW f, NEW n \in Nat, NEW x
  PROVE  /\ IsFiniteSet(CellsOf(f, n, x)) /\ Count(f, n, x) \in Nat
         /\ Count(f, n, x) > 0 <=> \E s \in 0 .. n - 1 : f[s] = x
<1>1. IsFiniteSet(0 .. n - 1)
  BY FS_Interval
<1>2. IsFiniteSet(CellsOf(f, n, x))
  BY <1>1, FS_Subset DEF CellsOf
<1>3. Count(f, n, x) \in Nat /\ (Count(f, n, x) = 0 <=> CellsOf(f, n, x) = {})
  BY <1>2, FS_CardinalityType, FS_EmptySet DEF Count
<1>4. QED
  BY <1>2, <1>3 DEF CellsOf

\* One cell more counts its item once more.
LEMMA CountNext ==
  ASSUME NEW f, NEW n \in Nat, NEW x
  PROVE  Count(f, n + 1, x) = IF f[n] = x THEN Count(f, n, x) + 1 ELSE Count(f, n, x)
<1>1. CASE f[n] = x
  <2>1. CellsOf(f, n + 1, x) = CellsOf(f, n, x) \cup {n} /\ n \notin CellsOf(f, n, x)
    BY <1>1 DEF CellsOf
  <2>2. QED
    BY <1>1, <2>1, CountFacts, FS_AddElement DEF Count
<1>2. CASE f[n] # x
  <2>1. CellsOf(f, n + 1, x) = CellsOf(f, n, x)
    BY <1>2 DEF CellsOf
  <2>2. QED
    BY <1>2, <2>1 DEF Count
<1>3. QED
  BY <1>1, <1>2

LEMMA BagSame ==
  ASSUME NEW f, NEW g, NEW n \in Nat, \A s \in 0 .. n - 1 : g[s] = f[s]
  PROVE  BagOf(g, n) = BagOf(f, n)
<1>1. \A x : CellsOf(g, n, x) = CellsOf(f, n, x)
  BY DEF CellsOf
<1>2. Kept(g, n) = Kept(f, n)
  BY DEF Kept
<1>3. QED
  BY <1>1, <1>2 DEF BagOf, Count

LEMMA BagNone ==
  ASSUME NEW f
  PROVE  BagOf(f, 0) = PQ!Nothing
<1>1. Kept(f, 0) = {}
  BY DEF Kept
<1>2. BagOf(f, 0) = [x \in {} |-> Count(f, 0, x)]
  BY <1>1 DEF BagOf, Count
<1>3. QED
  BY <1>2 DEF PQ!Nothing

LEMMA BagGrows ==
  ASSUME NEW f, NEW n \in Nat
  PROVE  BagOf(f, n + 1) = PQ!BagAdd(BagOf(f, n), f[n])
<1>1. Kept(f, n + 1) = Kept(f, n) \cup {f[n]}
  BY DEF Kept
<1>2. \A x \in Kept(f, n) \cup {f[n]} : Count(f, n + 1, x) =
        IF f[n] = x THEN Count(f, n, x) + 1 ELSE Count(f, n, x)
  BY CountNext
<1>3. BagOf(f, n + 1) = [x \in Kept(f, n) \cup {f[n]} |->
        IF x = f[n] THEN Count(f, n, x) + 1 ELSE Count(f, n, x)]
  BY <1>1, <1>2 DEF BagOf, Count
<1>4. BagOf(f, n) = [x \in Kept(f, n) |-> Count(f, n, x)]
  BY DEF BagOf, Count
<1>5. f[n] \notin Kept(f, n) => Count(f, n, f[n]) = 0
  BY CountFacts DEF Kept
<1>6. CASE f[n] \in Kept(f, n)
  <2>1. Kept(f, n) \cup {f[n]} = Kept(f, n)
    BY <1>6
  <2>2. QED
    BY <1>3, <1>4, <1>6, <2>1 DEF PQ!BagAdd
<1>7. CASE f[n] \notin Kept(f, n)
  BY <1>3, <1>4, <1>5, <1>7 DEF PQ!BagAdd
<1>8. QED
  BY <1>6, <1>7

LEMMA BagShrinks ==
  ASSUME NEW f, NEW n \in Nat
  PROVE  BagOf(f, n) = PQ!BagRemove(BagOf(f, n + 1), f[n])
<1>1. Kept(f, n + 1) = Kept(f, n) \cup {f[n]}
  BY DEF Kept
<1>2. \A x \in Kept(f, n) \cup {f[n]} : Count(f, n + 1, x) =
        IF f[n] = x THEN Count(f, n, x) + 1 ELSE Count(f, n, x)
  BY CountNext
<1>3. BagOf(f, n + 1) = [x \in Kept(f, n) \cup {f[n]} |-> Count(f, n + 1, x)]
  BY <1>1 DEF BagOf, Count
<1>4. BagOf(f, n) = [x \in Kept(f, n) |-> Count(f, n, x)]
  BY DEF BagOf, Count
<1>5. \A x : Count(f, n, x) \in Nat /\ (Count(f, n, x) > 0 <=> x \in Kept(f, n))
  BY CountFacts DEF Kept
<1>6. CASE f[n] \in Kept(f, n)
  <2>1. Count(f, n + 1, f[n]) # 1
    BY <1>2, <1>5, <1>6
  <2>2. Kept(f, n) \cup {f[n]} = Kept(f, n)
    BY <1>6
  <2>3. \A x \in Kept(f, n) : Count(f, n, x) =
          IF x = f[n] THEN Count(f, n + 1, x) - 1 ELSE Count(f, n + 1, x)
    BY <1>2, <1>5
  <2>4. BagOf(f, n) =
          [x \in Kept(f, n) |-> IF x = f[n] THEN Count(f, n + 1, x) - 1 ELSE Count(f, n + 1, x)]
    BY <1>4, <2>3
  <2>5. QED
    BY <1>3, <1>6, <2>1, <2>2, <2>4 DEF PQ!BagRemove
<1>7. CASE f[n] \notin Kept(f, n)
  <2>1. Count(f, n + 1, f[n]) = 1
    BY <1>2, <1>5, <1>7
  <2>2. (Kept(f, n) \cup {f[n]}) \ {f[n]} = Kept(f, n)
    BY <1>7
  <2>3. \A x \in Kept(f, n) : Count(f, n, x) = Count(f, n + 1, x)
    BY <1>2, <1>7
  <2>4. QED
    BY <1>3, <1>4, <2>1, <2>2, <2>3 DEF PQ!BagRemove
<1>8. QED
  BY <1>6, <1>7

LEMMA BagSwap ==
  ASSUME NEW f, NEW g, NEW n \in Nat, NEW i \in 0 .. n - 1, NEW j \in 0 .. n - 1,
         g[i] = f[j], g[j] = f[i], \A s \in 0 .. n - 1 : s # i /\ s # j => g[s] = f[s]
  PROVE  BagOf(g, n) = BagOf(f, n)
<1>1. Kept(g, n) = Kept(f, n)
  BY DEF Kept
<1>2. ASSUME NEW x PROVE Count(g, n, x) = Count(f, n, x)
  <2>1. IsFiniteSet(CellsOf(f, n, x)) /\ IsFiniteSet(CellsOf(g, n, x))
    BY CountFacts
  <2>2. CASE f[i] = f[j] \/ (f[i] # x /\ f[j] # x)
    <3>1. CellsOf(g, n, x) = CellsOf(f, n, x)
      BY <2>2 DEF CellsOf
    <3>2. QED
      BY <3>1 DEF Count
  <2>3. ASSUME NEW p \in {i, j}, NEW q \in {i, j}, p # q, f[p] = x, f[q] # x
        PROVE  Count(g, n, x) = Count(f, n, x)
    <3>1. p \in CellsOf(f, n, x) /\ q \notin CellsOf(f, n, x) \ {p}
      BY <2>3 DEF CellsOf
    <3>2. CellsOf(g, n, x) = (CellsOf(f, n, x) \ {p}) \cup {q}
      BY <2>3 DEF CellsOf
    <3>3. /\ IsFiniteSet(CellsOf(f, n, x) \ {p})
          /\ Cardinality(CellsOf(f, n, x) \ {p}) = Cardinality(CellsOf(f, n, x)) - 1
      BY <2>1, <3>1, FS_RemoveElement
    <3>4. Cardinality(CellsOf(g, n, x)) = Cardinality(CellsOf(f, n, x) \ {p}) + 1
      BY <3>1, <3>2, <3>3, FS_AddElement
    <3>5. Cardinality(CellsOf(f, n, x)) \in Nat
      BY <2>1, FS_CardinalityType
    <3>6. QED
      BY <3>3, <3>4, <3>5 DEF Count
  <2>4. QED
    BY <2>2, <2>3
<1>3. QED
  BY <1>1, <1>2 DEF BagOf, Count

(***************************************************************************)
(* The bag of the first n cells counts n copies of items: induction on n,  *)
(* as the absence of a least counterexample.                               *)
(***************************************************************************)
CopiesOf(bag) == UNION {{it} \X (1 .. bag[it]) : it \in DOMAIN bag}

LEMMA CopyIn ==
  ASSUME NEW f, NEW n \in Nat, NEW c
  PROVE  c \in CopiesOf(BagOf(f, n)) <=>
           \E it \in Kept(f, n) : \E k \in 1 .. Count(f, n, it) : c = <<it, k>>
BY DEF CopiesOf, BagOf, Count

LEMMA CopiesNext ==
  ASSUME NEW f, NEW n \in Nat
  PROVE  LET new == <<f[n], Count(f, n + 1, f[n])>>
         IN /\ CopiesOf(BagOf(f, n + 1)) = CopiesOf(BagOf(f, n)) \cup {new}
            /\ new \notin CopiesOf(BagOf(f, n))
<1> DEFINE new == <<f[n], Count(f, n + 1, f[n])>>
<1>1. Kept(f, n + 1) = Kept(f, n) \cup {f[n]}
  BY DEF Kept
<1>2. \A x : /\ Count(f, n, x) \in Nat /\ (Count(f, n, x) > 0 <=> x \in Kept(f, n))
             /\ Count(f, n + 1, x) = IF f[n] = x THEN Count(f, n, x) + 1 ELSE Count(f, n, x)
  BY CountFacts, CountNext DEF Kept
<1>3. ASSUME NEW c PROVE c \in CopiesOf(BagOf(f, n + 1)) <=> c \in CopiesOf(BagOf(f, n)) \/ c = new
  <2>1. c \in CopiesOf(BagOf(f, n + 1)) <=>
          \E it \in Kept(f, n) \cup {f[n]} : \E k \in 1 .. Count(f, n + 1, it) : c = <<it, k>>
    BY <1>1, CopyIn
  <2>2. c \in CopiesOf(BagOf(f, n)) <=>
          \E it \in Kept(f, n) : \E k \in 1 .. Count(f, n, it) : c = <<it, k>>
    BY CopyIn
  <2>3. ASSUME NEW it \in Kept(f, n), NEW k \in 1 .. Count(f, n, it), c = <<it, k>>
        PROVE  it \in Kept(f, n) \cup {f[n]} /\ k \in 1 .. Count(f, n + 1, it)
    BY <1>2
  <2>4. ASSUME NEW it \in Kept(f, n) \cup {f[n]}, NEW k \in 1 .. Count(f, n + 1, it), c = <<it, k>>,
               c # new
        PROVE  it \in Kept(f, n) /\ k \in 1 .. Count(f, n, it)
    <3>1. CASE it = f[n]
      <4>1. k # Count(f, n, it) + 1 /\ k \in 1 .. Count(f, n, it) + 1
        BY <1>2, <2>4, <3>1
      <4>2. k \in 1 .. Count(f, n, it) /\ Count(f, n, it) > 0
        BY <1>2, <4>1
      <4>3. QED
        BY <1>2, <4>2
    <3>2. CASE it # f[n]
      BY <1>2, <2>4, <3>2
    <3>3. QED
      BY <3>1, <3>2
  <2>5. c = new => c \in CopiesOf(BagOf(f, n + 1))
    <3>1. Count(f, n + 1, f[n]) \in 1 .. Count(f, n + 1, f[n])
      BY <1>2
    <3>2. QED
      BY <2>1, <3>1
  <2>6. QED
    BY <2>1, <2>2, <2>3, <2>4, <2>5
<1>4. new \notin CopiesOf(BagOf(f, n))
  <2> SUFFICES ASSUME NEW it \in Kept(f, n), NEW k \in 1 .. Count(f, n, it), new = <<it, k>>
               PROVE  FALSE
    BY CopyIn
  <2>1. QED
    BY <1>2
<1>5. QED
  BY <1>3, <1>4

LEMMA CopiesCount ==
  ASSUME NEW f, NEW n0 \in Nat
  PROVE  Cardinality(CopiesOf(BagOf(f, n0))) = n0
<1> DEFINE ok(n) == /\ IsFiniteSet(CopiesOf(BagOf(f, n)))
                    /\ Cardinality(CopiesOf(BagOf(f, n))) = n
           wrong == {n \in Nat : ~ok(n)}
<1>1. ok(0)
  <2>1. Kept(f, 0) = {}
    BY DEF Kept
  <2>2. CopiesOf(BagOf(f, 0)) = {}
    BY <2>1, CopyIn
  <2>3. QED
    BY <2>2, FS_EmptySet
<1>2. ASSUME NEW n \in Nat, ok(n) PROVE ok(n + 1)
  <2>1. PICK c : /\ CopiesOf(BagOf(f, n + 1)) = CopiesOf(BagOf(f, n)) \cup {c}
                 /\ c \notin CopiesOf(BagOf(f, n))
    BY CopiesNext
  <2>2. QED
    BY <1>2, <2>1, FS_AddElement
<1> HIDE DEF ok
<1>3. ASSUME wrong # {} PROVE FALSE
  <2>1. PICK n \in wrong : \A m \in wrong : ~(<<m, n>> \in OpToRel(<, Nat))
    <3> HIDE DEF wrong
    <3>1. wrong \subseteq Nat
      BY DEF wrong
    <3>2. QED
      BY <1>3, <3>1, NatLessThanWellFounded, WFMin
  <2>2. n \in Nat /\ ~ok(n) /\ \A m \in wrong : ~(m < n)
    BY <2>1 DEF OpToRel
  <2>3. n # 0
    BY <1>1, <2>2
  <2>4. n - 1 \in Nat /\ n - 1 < n /\ (n - 1) + 1 = n
    BY <2>2, <2>3
  <2>5. ok(n - 1)
    BY <2>2, <2>4
  <2>6. QED
    BY <1>2, <2>2, <2>4, <2>5
<1>4. ok(n0)
  BY <1>3
<1>5. QED
  BY <1>4 DEF ok

-----------------------------------------------------------------------------
\* What the caller sees is a heap's bag; calls that change no cell keep it.
Held == BagOf(items, Used)

LEMMA StillHeld ==
  ASSUME UNCHANGED <<store, pc, idx>>
  PROVE  Held' = Held /\ (pc' # "none") = (pc # "none")
BY DEF Held, store, Used

LEMMA AnswerIs ==
  ASSUME NEW op, NEW it, NEW rc
  PROVE  Answer(op, One(it), rc) = PQ!Answer(op, PQ!One(it), rc)
<1>1. One(it) = [x \in {it} |-> 1]
  BY DEF One, SetToBag
<1>2. PQ!One(it) = [x \in {it} |-> 1]
  BY DEF PQ!One, PQ!Nothing, PQ!BagAdd
<1>3. QED
  BY <1>1, <1>2 DEF Answer, PQ!Answer

LEMMA EmptyAnswerIs ==
  ASSUME NEW op, NEW rc
  PROVE  Answer(op, EmptyBag, rc) = PQ!Answer(op, PQ!Nothing, rc)
<1>1. EmptyBag = PQ!Nothing
  BY DEF EmptyBag, SetToBag, PQ!Nothing
<1>2. QED
  BY <1>1 DEF Answer, PQ!Answer

LEMMA LargestIs ==
  ASSUME IInv, pc = "idle", size > 0
  PROVE  items[0] \in Item /\ items[0] \in PQ!Largest
<1>1. /\ Used = size /\ Used \in Nat /\ Cells = 0 .. Used - 1 /\ 0 \in Cells
      /\ \A s \in Cells : items[s] \in Item /\ K(s) \in Int
  BY CellTypes DEF IInv, TypeOK, Used, Cells, K
<1>2. \A s \in Cells : K(s) <= K(0)
  BY OrderMakesRootLargest DEF RootLargest
<1>3. DOMAIN Held = Kept(items, Used)
  BY DEF Held, BagOf
<1>4. items[0] \in Kept(items, Used) /\ \A it \in Kept(items, Used) : items[0].key >= it.key
  BY <1>1, <1>2 DEF Kept, K
<1>5. QED
  BY <1>1, <1>3, <1>4 DEF PQ!Largest, Held

LEMMA InitRefines == Init => PQ!Init
<1> SUFFICES ASSUME Init PROVE PQ!Init
  OBVIOUS
<1>1. Used = 0 /\ Held = PQ!Nothing /\ (pc # "none") = FALSE
  BY BagNone DEF Init, Used, Held
<1>2. res = PQ!None
  BY EmptyAnswerIs DEF Init, None, PQ!None
<1>3. QED
  BY <1>1, <1>2 DEF PQ!Init, Held

LEMMA HandleRefines ==
  ASSUME IInv, Destroy \/ \E c \in Capacities : Create(c)
  PROVE  PQ!Create \/ PQ!Destroy
<1>1. CASE \E c \in Capacities : Create(c)
  <2>1. pc = "none" /\ pc' \in {"none", "idle"} /\ Used' = 0 /\ res' = None
    BY <1>1 DEF Create, Used
  <2>2. Held' = PQ!Nothing
    BY <2>1, BagNone DEF Held
  <2>3. res' = PQ!None
    BY <2>1, EmptyAnswerIs DEF None, PQ!None
  <2>4. QED
    BY <2>1, <2>2, <2>3 DEF PQ!Create, Held
<1>2. CASE Destroy
  <2>1. pc = "idle" /\ pc' = "none" /\ Used = size /\ Used' = 0
        /\ res' = Answer("destroy", Held, 0)
    BY <1>2 DEF Destroy, Used, Held
  <2>2. Held' = PQ!Nothing
    BY <2>1, BagNone DEF Held
  <2>3. res' = PQ!Answer("destroy", Held, 0)
    BY <2>1 DEF Answer, PQ!Answer
  <2>4. QED
    BY <2>1, <2>2, <2>3 DEF PQ!Destroy, Held
<1>3. QED
  BY <1>1, <1>2

LEMMA LookRefines ==
  ASSUME IInv, Refuse \/ Peek \/ Size \/ \E it \in Item : InsertFailed(it)
  PROVE  PQ!Next
<1>1. Held' = Held /\ (pc' # "none") = (pc # "none")
  BY StillHeld DEF Refuse, Peek, Size, InsertFailed
<1>2. CASE Refuse
  <2>1. res' = PQ!Refusal
    BY <1>2, EmptyAnswerIs DEF Refuse, Refusal, PQ!Refusal
  <2>2. QED
    BY <1>1, <2>1 DEF PQ!Next, PQ!Refuse, Held
<1>3. CASE Peek
  <2>1. pc = "idle" /\ size > 0 /\ res' = PQ!Answer("peek", PQ!One(items[0]), 0)
    BY <1>3, AnswerIs DEF Peek
  <2>2. items[0] \in Item /\ items[0] \in PQ!Largest
    BY <2>1, LargestIs
  <2>3. QED
    BY <1>1, <2>1, <2>2 DEF PQ!Next, PQ!Peek, Held
<1>4. CASE Size
  <2>1. pc = "idle" /\ Used = size /\ size \in Nat
        /\ res' = PQ!Answer("size", PQ!Nothing, size)
    BY <1>4, EmptyAnswerIs DEF Size, Used, IInv, TypeOK
  <2>2. PQ!Copies = CopiesOf(Held)
    BY DEF PQ!Copies, CopiesOf, Held
  <2>3. PQ!FS!Cardinality(PQ!Copies) = size
    <3>1. PQ!FS!Cardinality(PQ!Copies) = Cardinality(PQ!Copies)
      BY DEF PQ!FS!Cardinality, Cardinality
    <3>2. QED
      BY <2>1, <2>2, <3>1, CopiesCount DEF Held
  <2>4. QED
    BY <1>1, <2>1, <2>3 DEF PQ!Next, PQ!Size, Held
<1>5. CASE \E it \in Item : InsertFailed(it)
  <2>1. PICK it \in Item : InsertFailed(it)
    BY <1>5
  <2>2. pc = "idle" /\ res' = PQ!Answer("insert", PQ!One(it), -1)
    BY <2>1, AnswerIs DEF InsertFailed
  <2>3. QED
    BY <1>1, <2>2 DEF PQ!Next, PQ!InsertFailed, Held
<1>6. QED
  BY <1>2, <1>3, <1>4, <1>5

\* insert adds its item where the first cells end, whatever array it is in.
LEMMA PlaceRefines ==
  ASSUME IInv, pc = "idle", NEW it \in Item, NEW array, size \in DOMAIN array,
         \A s \in 0 .. size - 1 : array[s] = items[s],
         Place(array, it)
  PROVE  PQ!Insert(it)
<1>1. size \in Nat /\ Used = size /\ pc' = "up" /\ Used' = size + 1
  BY DEF IInv, TypeOK, Place, Used
<1>2. items'[size] = it /\ \A s \in 0 .. size - 1 : items'[s] = items[s]
  BY <1>1 DEF Place
<1>3. Held' = PQ!BagAdd(Held, it)
  <2>1. BagOf(items', size) = BagOf(items, size)
    BY <1>1, <1>2, BagSame
  <2>2. BagOf(items', size + 1) = PQ!BagAdd(BagOf(items', size), it)
    BY <1>1, <1>2, BagGrows
  <2>3. QED
    BY <1>1, <2>1, <2>2 DEF Held
<1>4. res' = PQ!Answer("insert", PQ!One(it), 0)
  BY AnswerIs DEF Place
<1>5. QED
  BY <1>1, <1>3, <1>4 DEF PQ!Insert, Held

LEMMA InsertRefines ==
  ASSUME IInv, NEW it \in Item, Insert(it) \/ InsertGrowing(it)
  PROVE  PQ!Insert(it)
<1>1. /\ pc = "idle" /\ size \in Nat /\ capacity \in Nat /\ size <= capacity
      /\ DOMAIN items = 0 .. capacity - 1
  BY DEF Insert, InsertGrowing, IInv, TypeOK, Used
<1>2. CASE Insert(it)
  BY <1>1, <1>2, PlaceRefines DEF Insert, Full
<1>3. CASE InsertGrowing(it)
  <2> DEFINE array == [s \in 0 .. Grown - 1 |-> IF s < capacity THEN items[s] ELSE JUNK]
  <2>1. size = capacity /\ Place(array, it) /\ Grown \in Nat /\ capacity < Grown
    BY <1>1, <1>3 DEF InsertGrowing, Full, Grown
  <2>2. size \in DOMAIN array /\ \A s \in 0 .. size - 1 : array[s] = items[s]
    BY <1>1, <2>1
  <2> HIDE DEF array
  <2>3. QED
    BY <1>1, <2>1, <2>2, PlaceRefines
<1>4. QED
  BY <1>2, <1>3

(***************************************************************************)
(* extract: as if the first and the last item were swapped and the last    *)
(* cell then given up.                                                     *)
(***************************************************************************)
LEMMA ExtractRefines ==
  ASSUME IInv, Extract \/ ExtractLast
  PROVE  items[0] \in Item /\ PQ!Extract(items[0])
<1>1. /\ pc = "idle" /\ size \in Nat /\ size > 0 /\ Used = size
      /\ Used' = size - 1 /\ pc' # "none"
      /\ DOMAIN items = 0 .. capacity - 1 /\ capacity \in Nat /\ size <= capacity
  BY DEF Extract, ExtractLast, IInv, TypeOK, Used
<1>2. items[0] \in Item /\ items[0] \in PQ!Largest
  BY <1>1, LargestIs
<1> DEFINE last == size - 1
           mid == [s \in 0 .. last |-> IF s = 0 THEN items[last]
                                       ELSE IF s = last THEN items[0] ELSE items[s]]
<1>3. last \in Nat /\ last + 1 = size /\ 0 \in 0 .. last /\ last \in 0 .. last
  BY <1>1
<1>4. mid[0] = items[last] /\ mid[last] = items[0]
      /\ \A s \in 0 .. last : s # 0 /\ s # last => mid[s] = items[s]
  BY <1>3
<1>5. \A s \in 0 .. last - 1 : items'[s] = mid[s]
  <2>1. CASE Extract
    BY <1>1, <1>3, <2>1 DEF Extract
  <2>2. CASE ExtractLast
    BY <1>3, <2>2 DEF ExtractLast
  <2>3. QED
    BY <2>1, <2>2
<1> HIDE DEF last, mid
<1>6. BagOf(mid, last + 1) = BagOf(items, last + 1)
  <2>1. (last + 1) - 1 = last /\ last + 1 \in Nat
    BY <1>3
  <2>2. QED
    BY <1>3, <1>4, <2>1, BagSwap
<1>7. BagOf(mid, last) = PQ!BagRemove(BagOf(mid, last + 1), items[0])
  BY <1>3, <1>4, BagShrinks
<1>8. BagOf(items', last) = BagOf(mid, last)
  BY <1>3, <1>5, BagSame
<1>9. Held' = PQ!BagRemove(Held, items[0])
  BY <1>1, <1>3, <1>6, <1>7, <1>8 DEF Held, last
<1>10. res' = PQ!Answer("extract", PQ!One(items[0]), 0)
  BY AnswerIs DEF Extract, ExtractLast
<1>11. QED
  BY <1>1, <1>2, <1>9, <1>10 DEF PQ!Extract, Held

\* The sift loops move items between cells and answer nothing.
LEMMA SiftRefines ==
  ASSUME IInv, Work
  PROVE  UNCHANGED PQ!vars
<1>1. res' = res /\ pc # "none" /\ pc' # "none" /\ Used' = Used /\ Used \in Nat
  <2>1. Used \in Nat
    BY CellTypes DEF IInv
  <2>2. QED
    BY <2>1 DEF Work, SiftUp, InsertReturn, SiftDown, ExtractReturn, store, Used
<1>2. Held' = Held
  <2>1. CASE InsertReturn \/ ExtractReturn
    BY <1>1, <2>1 DEF InsertReturn, ExtractReturn, store, Held
  <2>2. ASSUME NEW i \in Cells, NEW j \in Cells, i # j, Swap(i, j) PROVE Held' = Held
    <3>1. DOMAIN items = 0 .. capacity - 1 /\ Cells \subseteq 0 .. capacity - 1
      BY CellTypes DEF IInv, TypeOK
    <3>2. items'[i] = items[j] /\ items'[j] = items[i]
          /\ \A s \in Cells : s # i /\ s # j => items'[s] = items[s]
      BY <2>2, <3>1 DEF Swap
    <3>3. QED
      BY <1>1, <2>2, <3>2, BagSwap DEF Held, Cells
  <2>3. CASE SiftUp
    <3>1. idx \in Cells /\ idx \in Nat
      BY <2>3, CellTypes DEF SiftUp, IInv, TypeOK, Cells
    <3>2. idx > 0
      BY <2>3, <3>1 DEF SiftUp, Risen
    <3>3. Parent(idx) \in Cells /\ Parent(idx) # idx
      BY <1>1, <3>1, <3>2, ParentChild DEF Cells
    <3>4. QED
      BY <2>2, <2>3, <3>1, <3>3 DEF SiftUp
  <2>4. CASE SiftDown
    <3>1. idx \in Cells /\ LargestAt(idx) \in Cells
      BY <2>4, LargestChild DEF SiftDown, IInv, TypeOK, Cells
    <3>2. QED
      BY <2>2, <2>4, <3>1 DEF SiftDown
  <2>5. QED
    BY <2>1, <2>3, <2>4 DEF Work
<1>3. QED
  BY <1>1, <1>2 DEF PQ!vars, Held

LEMMA StepRefines == IInv /\ [Next]_vars => [PQ!Next]_(PQ!vars)
<1> SUFFICES ASSUME IInv, [Next]_vars PROVE [PQ!Next]_(PQ!vars)
  OBVIOUS
<1>1. CASE Destroy \/ \E c \in Capacities : Create(c)
  BY <1>1, HandleRefines DEF PQ!Next
<1>2. CASE Refuse \/ Peek \/ Size \/ \E it \in Item : InsertFailed(it)
  BY <1>2, LookRefines
<1>3. CASE \E it \in Item : Insert(it) \/ InsertGrowing(it)
  BY <1>3, InsertRefines DEF PQ!Next
<1>4. CASE Extract \/ ExtractLast
  BY <1>4, ExtractRefines DEF PQ!Next
<1>5. CASE Work
  BY <1>5, SiftRefines
<1>6. CASE UNCHANGED vars
  <2>1. Held' = Held /\ (pc' # "none") = (pc # "none") /\ res' = res
    BY <1>6, StillHeld DEF vars, store
  <2>2. QED
    BY <2>1 DEF PQ!vars, Held
<1>7. QED
  BY <1>1, <1>2, <1>3, <1>4, <1>5, <1>6 DEF Next, Request

(***************************************************************************)
(* For any items and capacities: heap.c answers as an atomic priority      *)
(* queue does; the sift loops and the growth of the array never show.      *)
(***************************************************************************)
THEOREM HeapImplements == Spec => Implements
<1>1. QED
  BY InitInv, IInvStep, InitRefines, StepRefines, PTL DEF Spec, Implements, PQ!Spec
=============================================================================
