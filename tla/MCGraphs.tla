------------------------------ MODULE MCGraphs -------------------------------
(***************************************************************************)
(* Both graphs in one run.  `impl` never changes.  In a behaviour of "map" *)
(* any call may be made and any allocation may fail, and there is at most  *)
(* one edge; in those of "graph" and "digraph" callers build every graph   *)
(* within the bounds and the algorithms are judged on each.                *)
(***************************************************************************)
EXTENDS Graph, Digraph

CONSTANTS
  LinkedKeys,       \* the keys whose vertices "map" links
  GraphKeys,        \* the vertices of "graph" and "digraph"
  AnyOrder,         \* on fewer vertices than those, up to so many edges are
                    \* added in any order, loops and parallel edges among them;
                    \* further ones in ascending order
  MaxArcs           \* arcs of a "digraph"

ASSUME LinkedAssumption == LinkedKeys \cup GraphKeys \subseteq Key /\ 1 \in Weight

VARIABLE impl

\* All keys in one chain that begins at the end of the array; and two chains
\* that run into each other.
MCHashFns == {[k \in Key |-> 15], [k \in Key |-> 3 * (k % 2)]}

MCWeight == {-1, 1, DBL_MAX}

mcvars == <<vars, impl>>

MCInit ==
  /\ Init
  /\ \/ impl = "map"
     \/ impl \in {"graph", "digraph"} /\ hash = [k \in Key |-> 15]

Degree(v) == Len(vertices[v].adj)
Ends == FoldSet(LAMBDA v, sum : Degree(v) + sum, 0, Used)

\* The edge or arc u v, by index, comes after all those there are.
Ascending(u, v) ==
  \A a \in Used : \A n \in DOMAIN vertices[a].adj :
    LET b == vertices[a].adj[n].to
    IN a < u \/ (a = u /\ b < v) \/ (impl = "graph" /\ a > b)

Loose == Ends < AnyOrder /\ size < Cardinality(GraphKeys)

Build ==
  \/ \E n \in Capacities : n > 1 /\ Create(n) /\ alive'
  \/ size \in GraphKeys /\ Ends = 0 /\ AddVertex(size)

BuildGraph ==
  \/ Build
  \/ \E u, v \in Used, w \in Weight :
       /\ u <= v /\ (Loose \/ (u < v /\ Ascending(u, v)))
       /\ AddEdge(u, v, w) /\ res'.rc = 0

BuildDigraph ==
  \/ Build
  \/ \E u, v \in Used :
       /\ Ends < MaxArcs /\ (Loose \/ Ascending(u, v))
       /\ AddArc(u, v) /\ res'.rc = 0

\* Loops are arcs here; those of "graph" are edges.
CallAny ==
  \/ Common
  \/ \E u, v \in LinkedKeys :
       \/ u < v /\ AddEdge(u, v, 1)
       \/ u >= v /\ AddArc(u, v)

MCNext ==
  /\ impl' = impl
  /\ \/ impl = "map" /\ CallAny /\ Ends' <= 2
     \/ impl = "graph" /\ BuildGraph
     \/ impl = "digraph" /\ BuildDigraph

MCSpec == MCInit /\ [][MCNext]_mcvars

Searched == impl \in {"graph", "digraph"} /\ size > 0

(***************************************************************************)
(* bfs and dfs show exactly what their start reaches, once, in their       *)
(* orders; connected_components tells the components apart.                *)
(***************************************************************************)
Searching ==
  Searched => /\ SearchesRight(Neighbours)
              /\ impl = "graph" => ComponentsRight(Neighbours)

(***************************************************************************)
(* Kruskal finds a minimum forest of the whole graph, and Prim a minimum   *)
(* tree of what the edges below DBL_MAX join to its start, through ties,   *)
(* parallel edges and negative weights.  Kruskal's return code tells       *)
(* whether the graph is connected, Prim's whether those edges connect it.  *)
(***************************************************************************)
SpanningTrees ==
  Searched /\ impl = "graph" => KruskalRight /\ \A s \in Used : PrimRight(s)

(***************************************************************************)
(* What docs/graph.md:62 says of mst_prim: it returns 0 if the graph is    *)
(* connected and 1 if it is not.  The search for the nearest vertex starts *)
(* from min = DBL_MAX and takes what is less (graph.c:436-449), so a graph *)
(* that an edge of weight DBL_MAX holds together is answered 1.            *)
(***************************************************************************)
PrimConnected ==
  Searched /\ impl = "graph" =>
    \A s \in Used : mst_prim(s).rc = 0 <=> Component(edges, s) = Used

(***************************************************************************)
(* Topological sort and cycle detection agree with each other and with     *)
(* what a cycle is.                                                        *)
(***************************************************************************)
Cycles == Searched /\ impl = "digraph" => CyclesRight(Successors)
=============================================================================
