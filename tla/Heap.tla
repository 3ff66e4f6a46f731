-------------------------------- MODULE Heap --------------------------------
(***************************************************************************)
(* heap.c: a binary max-heap in an array that doubles when it is full.     *)
(* Every turn of the sift loops is a step.                                 *)
(***************************************************************************)
EXTENDS Integers, FiniteSets, Bags

CONSTANTS
  Item,             \* items callers insert: records with an integer key
  Capacities,       \* capacities callers give to create; 0 is allowed
  JUNK,             \* what an array cell holds when it is not in use
  MaxSize           \* bound: callers insert into a heap smaller than this

ASSUME ItemAssumption == \A it \in Item : it.key \in Int
ASSUME JunkAssumption == JUNK \notin Item
ASSUME CapacityAssumption == Capacities \subseteq Nat
ASSUME MaxSizeAssumption == MaxSize \in Nat

VARIABLES
  items,            \* heap->items, indexed from 0
  size, capacity,   \* heap->size, heap->capacity
  pc,               \* "none": no heap; "idle"; or inside sift_up / sift_down
  idx,              \* the sift loops' idx
  res               \* last answer

store == <<items, size, capacity>>
vars == <<items, size, capacity, pc, idx, res>>

Answer(op, its, rc) == [op |-> op, items |-> its, rc |-> rc]
None == Answer("none", EmptyBag, 0)
Refusal == Answer("refused", EmptyBag, -1)
One(it) == SetToBag({it})

NoArray == [s \in {} |-> JUNK]
Array(n) == [s \in 0 .. n - 1 |-> JUNK]

\* The bag of the items in the first n cells of an array.
Kept(array, n) == {array[s] : s \in 0 .. n - 1}
CellsOf(array, n, it) == {s \in 0 .. n - 1 : array[s] = it}
BagOf(array, n) == [it \in Kept(array, n) |-> Cardinality(CellsOf(array, n, it))]

Init ==
  /\ items = NoArray /\ size = 0 /\ capacity = 0
  /\ pc = "none" /\ idx = 0
  /\ res = None

-----------------------------------------------------------------------------
Create(c) ==
  /\ pc = "none"
  /\ \/ pc' = "idle" /\ items' = Array(c) /\ capacity' = c
     \/ UNCHANGED <<pc, items, capacity>>
  /\ size' = 0
  /\ res' = None
  /\ UNCHANGED idx

Destroy ==
  /\ pc = "idle"
  /\ pc' = "none"
  /\ items' = NoArray /\ size' = 0 /\ capacity' = 0
  /\ res' = Answer("destroy", BagOf(items, size), 0)
  /\ UNCHANGED idx

\* A NULL heap or output pointer; with NULL pointers aside, an empty heap.
Refuse ==
  /\ pc \in {"none", "idle"}
  /\ res' = Refusal
  /\ UNCHANGED <<store, pc, idx>>

Peek ==
  /\ pc = "idle" /\ size > 0
  /\ res' = Answer("peek", One(items[0]), 0)
  /\ UNCHANGED <<store, pc, idx>>

Size ==
  /\ pc = "idle"
  /\ res' = Answer("size", EmptyBag, size)
  /\ UNCHANGED <<store, pc, idx>>

\* A plausible slip: grow only when the size is past the capacity.
FullLate == size > capacity

Full == size = capacity

Grown == IF capacity = 0 THEN 8 ELSE capacity * 2

(***************************************************************************)
(* insert up to its call of sift_up.  Its answer is settled once there is  *)
(* room; size is counted up only after the sifting.                        *)
(***************************************************************************)
Place(array, it) ==
  /\ items' = [array EXCEPT ![size] = it]
  /\ pc' = "up" /\ idx' = size
  /\ res' = Answer("insert", One(it), 0)
  /\ UNCHANGED size

Insert(it) ==
  /\ pc = "idle" /\ size < MaxSize
  /\ ~Full
  /\ Place(items, it)
  /\ UNCHANGED capacity

\* realloc keeps what the old array held.
InsertGrowing(it) ==
  /\ pc = "idle" /\ size < MaxSize
  /\ Full
  /\ capacity' = Grown
  /\ Place([s \in 0 .. Grown - 1 |-> IF s < capacity THEN items[s] ELSE JUNK], it)

InsertFailed(it) ==
  /\ pc = "idle" /\ size < MaxSize
  /\ Full
  /\ res' = Answer("insert", One(it), -1)
  /\ UNCHANGED <<store, pc, idx>>

(***************************************************************************)
(* extract: the last item takes the place of the first and sinks.  The     *)
(* cell it leaves is not read again.                                       *)
(***************************************************************************)
ExtractLast ==
  /\ pc = "idle" /\ size = 1
  /\ items' = [items EXCEPT ![0] = JUNK]
  /\ size' = 0
  /\ res' = Answer("extract", One(items[0]), 0)
  /\ UNCHANGED <<capacity, pc, idx>>

Extract ==
  /\ pc = "idle" /\ size > 1
  /\ items' = [items EXCEPT ![0] = items[size - 1], ![size - 1] = JUNK]
  /\ size' = size - 1
  /\ pc' = "down" /\ idx' = 0
  /\ res' = Answer("extract", One(items[0]), 0)
  /\ UNCHANGED capacity

-----------------------------------------------------------------------------
\* A plausible slip: the parent of an array that starts at 1.
ParentOfOne(i) == i \div 2

Parent(i) == (i - 1) \div 2
Left(i) == i * 2 + 1
Right(i) == Left(i) + 1

Swap(i, j) == items' = [items EXCEPT ![i] = items[j], ![j] = items[i]]

Risen == idx > 0 => items[Parent(idx)].key >= items[idx].key

SiftUp ==
  /\ pc = "up" /\ ~Risen
  /\ Swap(Parent(idx), idx)
  /\ idx' = Parent(idx)
  /\ UNCHANGED <<size, capacity, pc, res>>

InsertReturn ==
  /\ pc = "up" /\ Risen
  /\ size' = size + 1
  /\ pc' = "idle" /\ idx' = 0
  /\ UNCHANGED <<items, capacity, res>>

\* A plausible slip: the right child compared with idx, not with the larger.
LargestOfOne(i) ==
  LET l == IF Left(i) < size /\ items[Left(i)].key > items[i].key THEN Left(i) ELSE i
  IN IF Right(i) < size /\ items[Right(i)].key > items[i].key THEN Right(i) ELSE l

\* The largest of a cell and its children.
LargestAt(i) ==
  LET l == IF Left(i) < size /\ items[Left(i)].key > items[i].key THEN Left(i) ELSE i
  IN IF Right(i) < size /\ items[Right(i)].key > items[l].key THEN Right(i) ELSE l

SiftDown ==
  /\ pc = "down" /\ LargestAt(idx) # idx
  /\ Swap(idx, LargestAt(idx))
  /\ idx' = LargestAt(idx)
  /\ UNCHANGED <<size, capacity, pc, res>>

ExtractReturn ==
  /\ pc = "down" /\ LargestAt(idx) = idx
  /\ pc' = "idle" /\ idx' = 0
  /\ UNCHANGED <<store, res>>

-----------------------------------------------------------------------------
Request ==
  \/ \E c \in Capacities : Create(c)
  \/ Destroy \/ Refuse \/ Peek \/ Size
  \/ \E it \in Item : Insert(it) \/ InsertGrowing(it) \/ InsertFailed(it)
  \/ ExtractLast \/ Extract

Work == SiftUp \/ InsertReturn \/ SiftDown \/ ExtractReturn

Next == Request \/ Work

Spec == Init /\ [][Next]_vars

-----------------------------------------------------------------------------
\* The cells in use: those counted, and the one that is being inserted.
Used == IF pc = "up" THEN size + 1 ELSE size

\* Cells within the array, and exactly the cells in use hold items.
TypeOK ==
  /\ items \in [0 .. capacity - 1 -> Item \cup {JUNK}]
  /\ size \in Nat /\ capacity \in Nat
  /\ pc \in {"none", "idle", "up", "down"}
  /\ Used <= capacity
  /\ pc = "none" => capacity = 0
  /\ \A s \in 0 .. capacity - 1 : items[s] \in Item <=> s < Used
  /\ IF pc \in {"up", "down"} THEN idx \in 0 .. Used - 1 ELSE idx = 0

ChildOf(c, p) == c = 2 * p + 1 \/ c = 2 * p + 2

Below(c, p) == items[c].key <= items[p].key

(***************************************************************************)
(* Heap order, kept while an item rises or sinks: it holds between every   *)
(* two cells but those at idx, where the item that moves may be too large  *)
(* for its parent (rising) or too small for its children (sinking), and    *)
(* idx's children stay below idx's parent, so that either swap is sound.   *)
(***************************************************************************)
HeapOrder ==
  \A p, c \in 0 .. Used - 1 :
    ChildOf(c, p) =>
      /\ (pc = "up" /\ c = idx) \/ (pc = "down" /\ p = idx) \/ Below(c, p)
      /\ pc \in {"up", "down"} /\ p = idx =>
           \A g \in 0 .. Used - 1 : ChildOf(p, g) => Below(c, g)

PQ == INSTANCE PriorityQueue WITH alive <- (pc # "none"), held <- BagOf(items, Used)

\* The heap answers as an atomic priority queue does, through every sift.
Implements == PQ!Spec
=============================================================================
