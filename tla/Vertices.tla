------------------------------ MODULE Vertices ------------------------------
(***************************************************************************)
(* The data structure of graph.c and digraph.c, the same line for line but *)
(* for the links that adding an edge makes: an array of vertices, each     *)
(* with its key and its list of edges, and a map from keys to indices of   *)
(* that array, which probes linearly and never deletes.                    *)
(* A call is one step: between its allocations, each of which may fail,    *)
(* nothing can be seen.                                                    *)
(***************************************************************************)
EXTENDS Integers, FiniteSets, SequencesExt

CONSTANTS
  Key,              \* vertex keys
  Weight,           \* weights of edges; digraph.c has none
  Capacities,       \* capacities callers give to create
  HashFns,          \* the hash functions considered: key |-> hash value
  FREE              \* an entry in state 0; one in state 1 is a record

ASSUME FreeAssumption == FREE \notin [key : Key, index : Nat]
ASSUME CapacityAssumption == Capacities \subseteq Nat \ {0}
ASSUME HashAssumption == HashFns \subseteq [Key -> Nat]

VARIABLES
  hash,             \* map.hash
  alive,            \* create has succeeded and destroy has not been called
  vertices, size,   \* the array, indexed from 0, and how much of it is used
  map,              \* its entries, indexed from 0, and their count
  res               \* last answer

vars == <<hash, alive, vertices, size, map, res>>

Answer(op, arg, rc, out) == [op |-> op, arg |-> arg, rc |-> rc, out |-> out]
None == Answer("none", <<>>, 0, <<>>)
Refusal == Answer("refused", <<>>, -1, <<>>)

Unused == [key |-> FREE, adj |-> <<>>]
UnusedCells(n) == [v \in 0 .. n - 1 |-> Unused]
EmptyMap(n) == [entries |-> [s \in 0 .. n - 1 |-> FREE], size |-> 0]

Slots(m) == Cardinality(DOMAIN m.entries)
capacity == Cardinality(DOMAIN vertices)
Used == 0 .. size - 1

Init ==
  /\ hash \in HashFns
  /\ alive = FALSE
  /\ vertices = UnusedCells(0) /\ size = 0
  /\ map = EmptyMap(0)
  /\ res = None

-----------------------------------------------------------------------------
\* The first of the slots `stops` on a probe from k's home round the array.
Probe(m, k, stops) ==
  LET at(d) == (hash[k] + d) % Slots(m)
  IN at(Min({d \in 0 .. Slots(m) - 1 : at(d) \in stops}))

FreeIn(m) == {s \in DOMAIN m.entries : m.entries[s] = FREE}

Lookup(m, k) ==
  Probe(m, k, FreeIn(m) \cup {s \in DOMAIN m.entries \ FreeIn(m) : m.entries[s].key = k})

\* The index of k, if it has one.
map_get(k) ==
  LET e == map.entries[Lookup(map, k)]
  IN IF e = FREE THEN {} ELSE IF e.key = k THEN {e.index} ELSE {}

Insert(m, k, index) ==
  LET s == Probe(m, k, FreeIn(m))
  IN [entries |-> [m.entries EXCEPT ![s] = [key |-> k, index |-> index]],
      size |-> m.size + 1]

\* Entries move in the order of their slots, each to the end of its probe.
map_resize(m, n) ==
  LET moved[s \in 0 .. Slots(m)] ==
        IF s = 0 THEN EmptyMap(n)
        ELSE LET e == m.entries[s - 1]
             IN IF e = FREE THEN moved[s - 1] ELSE Insert(moved[s - 1], e.key, e.index)
  IN moved[Slots(m)]

\* A plausible slip: the load as it is before the entry is added.
LoadLate(m) == m.size * 10 >= Slots(m) * 7

LoadDue(m) == (m.size + 1) * 10 >= Slots(m) * 7

-----------------------------------------------------------------------------
Create(n) ==
  /\ ~alive
  /\ \/ /\ alive' = TRUE
        /\ vertices' = UnusedCells(n) /\ map' = EmptyMap(n)
     \/ UNCHANGED <<alive, vertices, map>>
  /\ res' = None
  /\ UNCHANGED <<hash, size>>

Keys == [i \in 1 .. size |-> vertices[i - 1].key]

Destroy ==
  /\ alive
  /\ alive' = FALSE
  /\ vertices' = UnusedCells(0) /\ size' = 0
  /\ map' = EmptyMap(0)
  /\ res' = Answer("destroy", <<>>, 0, Keys)
  /\ UNCHANGED hash

Refuse == res' = Refusal /\ UNCHANGED <<hash, alive, vertices, size, map>>

Full == size = capacity

Doubled ==
  [v \in 0 .. capacity * 2 - 1 |-> IF v < capacity THEN vertices[v] ELSE Unused]

AddVertexPresent(k) ==
  /\ alive /\ map_get(k) # {}
  /\ res' = Answer("vertex", k, 1, <<>>)
  /\ UNCHANGED <<hash, alive, vertices, size, map>>

\* The growth of a full array fails, and if it is the map's the array stays
\* enlarged: the next vertex finds room and does not try the map again.
AddVertexNoRoom(k) ==
  /\ alive /\ map_get(k) = {}
  /\ Full
  /\ vertices' \in {vertices, Doubled}
  /\ res' = Answer("vertex", k, -1, <<>>)
  /\ UNCHANGED <<hash, alive, size, map>>

RoomyVertices == IF Full THEN Doubled ELSE vertices
RoomyMap == IF Full THEN map_resize(map, capacity * 2) ELSE map

WithVertex(k) == [RoomyVertices EXCEPT ![size] = [key |-> k, adj |-> <<>>]]

\* A plausible slip: the vertex is counted before map_put is known to succeed.
CountedNoEntry(k) ==
  /\ alive /\ map_get(k) = {}
  /\ LoadDue(RoomyMap)
  /\ vertices' = WithVertex(k) /\ map' = RoomyMap /\ size' = size + 1
  /\ res' = Answer("vertex", k, -1, <<>>)
  /\ UNCHANGED <<hash, alive>>

\* map_put's own growth fails: the cell is filled in but never counted.
AddVertexNoEntry(k) ==
  /\ alive /\ map_get(k) = {}
  /\ LoadDue(RoomyMap)
  /\ vertices' = WithVertex(k) /\ map' = RoomyMap
  /\ res' = Answer("vertex", k, -1, <<>>)
  /\ UNCHANGED <<hash, alive, size>>

AddVertex(k) ==
  /\ alive /\ map_get(k) = {}
  /\ vertices' = WithVertex(k)
  /\ map' = Insert(IF LoadDue(RoomyMap) THEN map_resize(RoomyMap, Slots(RoomyMap) * 2)
                   ELSE RoomyMap, k, size)
  /\ size' = size + 1
  /\ res' = Answer("vertex", k, 0, <<>>)
  /\ UNCHANGED <<hash, alive>>

VertexKey(i) ==
  /\ alive
  /\ res' = Answer("key", i, 0, IF i < size THEN <<vertices[i].key>> ELSE <<>>)
  /\ UNCHANGED <<hash, alive, vertices, size, map>>

VertexCount ==
  /\ alive
  /\ res' = Answer("count", <<>>, size, <<>>)
  /\ UNCHANGED <<hash, alive, vertices, size, map>>

Common ==
  \/ \E n \in Capacities : Create(n)
  \/ Destroy \/ Refuse \/ VertexCount
  \/ \E k \in Key : \/ AddVertexPresent(k) \/ AddVertexNoRoom(k)
                    \/ AddVertexNoEntry(k) \/ AddVertex(k)
  \/ \E i \in 0 .. size : VertexKey(i)

\* An edge goes in front of the list of the vertex it leaves.
Linked(array, v, edge) == [array EXCEPT ![v].adj = <<edge>> \o @]

\* What the two add_edge have in common but for the links they make.
EdgeRefused(op, u, v, arg) ==
  /\ alive
  /\ \/ map_get(u) = {} \/ map_get(v) = {}
  /\ res' = Answer(op, arg, 1, <<>>)
  /\ UNCHANGED <<hash, alive, vertices, size, map>>

EdgeFailed(op, u, v, arg) ==
  /\ alive /\ map_get(u) # {} /\ map_get(v) # {}
  /\ res' = Answer(op, arg, -1, <<>>)
  /\ UNCHANGED <<hash, alive, vertices, size, map>>

\* graph.c: both links or, without memory for the two, none.
BothWays(u, v, w) ==
  Linked(Linked(vertices, u, [to |-> v, weight |-> w]), v, [to |-> u, weight |-> w])

AddEdge(u, v, w) ==
  \/ EdgeRefused("edge", u, v, <<u, v, w>>)
  \/ EdgeFailed("edge", u, v, <<u, v, w>>)
  \/ /\ alive
     /\ \E i \in map_get(u), j \in map_get(v) : vertices' = BothWays(i, j, w)
     /\ res' = Answer("edge", <<u, v, w>>, 0, <<>>)
     /\ UNCHANGED <<hash, alive, size, map>>

\* digraph.c: one link.
AddArc(u, v) ==
  \/ EdgeRefused("arc", u, v, <<u, v>>)
  \/ EdgeFailed("arc", u, v, <<u, v>>)
  \/ /\ alive
     /\ \E i \in map_get(u), j \in map_get(v) : vertices' = Linked(vertices, i, [to |-> j])
     /\ res' = Answer("arc", <<u, v>>, 0, <<>>)
     /\ UNCHANGED <<hash, alive, size, map>>

\* Edges in graph.c, arcs in digraph.c.
Next ==
  \/ Common
  \/ \E u, v \in Key : AddArc(u, v) \/ \E w \in Weight : AddEdge(u, v, w)

Spec == Init /\ [][Next]_vars

-----------------------------------------------------------------------------
(***************************************************************************)
(* The map and the vertices agree whatever allocation has failed: every    *)
(* vertex is found by its key at its own index, nothing else is found, and *)
(* probes have a free slot to end at.  The map has no fewer slots than the *)
(* array has cells, and no more than the double of it to which add_vertex  *)
(* resizes it when the array is full: that never makes it smaller.         *)
(***************************************************************************)
ProbesEnd == alive => FreeIn(map) # {}

Indexed == \A i \in Used : map_get(vertices[i].key) = {i}

Lookups ==
  /\ ProbesEnd
  /\ Indexed
  /\ Slots(map) - Cardinality(FreeIn(map)) = size /\ map.size = size
  /\ size <= capacity /\ capacity <= Slots(map) /\ Slots(map) <= capacity * 2

-----------------------------------------------------------------------------
\* The lists as a bag of arcs between keys.
ArcAt(p) ==
  LET edge == vertices[p[1]].adj[p[2]]
  IN <<vertices[p[1]].key, [edge EXCEPT !.to = vertices[@].key]>>

Arcs == LET at == UNION {{v} \X DOMAIN vertices[v].adj : v \in Used}
        IN [a \in {ArcAt(p) : p \in at} |-> Cardinality({p \in at : ArcAt(p) = a})]

KG == INSTANCE KeyedGraph WITH keys <- Keys, arcs <- Arcs

(***************************************************************************)
(* Both graphs answer as a graph on keys does: indices are given in order  *)
(* and never change, no growth loses an edge, and a call without memory    *)
(* leaves the graph as it was.                                             *)
(***************************************************************************)
Implements == KG!Spec
=============================================================================
