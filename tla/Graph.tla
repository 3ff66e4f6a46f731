------------------------------- MODULE Graph --------------------------------
(***************************************************************************)
(* The algorithms of graph.c on undirected weighted graphs.  They read the *)
(* graph and are operators, `Neighbours` being what the searches follow.   *)
(* Weights are integers here, and DBL_MAX is larger than any that is less  *)
(* than it.                                                                *)
(***************************************************************************)
EXTENDS Vertices, Searches

CONSTANT DBL_MAX

ASSUME WeightAssumption == Weight \subseteq Int /\ DBL_MAX \in Nat \ {0}

NoVertex == -1                  \* (size_t)-1 in parent

UF == INSTANCE UnionFind WITH N <- size, Index <- Used

Neighbours ==
  [v \in Used |-> [n \in DOMAIN vertices[v].adj |-> vertices[v].adj[n].to]]

-----------------------------------------------------------------------------
\* What has no component yet and is reached from v gets the next number, by a
\* stack.
Flood(next, found, v) ==
  LET turn[m \in 0 .. Cardinality(DOMAIN next)] ==
        IF m = 0 THEN [marked |-> found.marked \cup {v}, list |-> <<v>>, ids |-> found.ids]
        ELSE LET f == turn[m - 1]
                 top == Last(f.list)
                 s == PushAll([marked |-> f.marked, list |-> Front(f.list)], next[top])
             IN IF f.list = <<>> THEN f
                ELSE [marked |-> s.marked, list |-> s.list,
                      ids |-> [f.ids EXCEPT ![top] = found.count]]
      done == turn[Cardinality(DOMAIN next)]
  IN [marked |-> done.marked, ids |-> done.ids, count |-> found.count + 1]

connected_components(next) ==
  LET found[m \in 0 .. Cardinality(DOMAIN next)] ==
        IF m = 0 THEN [marked |-> {}, ids |-> [v \in DOMAIN next |-> NoVertex], count |-> 0]
        ELSE LET f == found[m - 1]
             IN IF m - 1 \in f.marked THEN f ELSE Flood(next, f, m - 1)
  IN found[Cardinality(DOMAIN next)]

\* Ids tell components apart and number them from 0.
ComponentsRight(next) ==
  LET c == connected_components(next)
  IN /\ \A u, v \in DOMAIN next :
          c.ids[u] = c.ids[v] <=> v \in Reachable(next, u)
     /\ Range(c.ids) = 0 .. c.count - 1

-----------------------------------------------------------------------------
\* A plausible slip: the distance from the start instead of the edge's weight.
ImproveByDistance(p, u, e) ==
  IF e.to \notin p.in_mst /\ p.key[u] + e.weight < p.key[e.to]
  THEN [p EXCEPT !.key[e.to] = p.key[u] + e.weight, !.parent[e.to] = u] ELSE p

\* An edge of u may be lighter than what its other end has hung from so far.
Improve(p, u, e) ==
  IF e.to \notin p.in_mst /\ e.weight < p.key[e.to]
  THEN [p EXCEPT !.key[e.to] = e.weight, !.parent[e.to] = u] ELSE p

\* Prim takes u into the tree and lets its edges improve the others' keys.
Relax(prim, u) ==
  LET relaxed[n \in 0 .. Len(vertices[u].adj)] ==
        IF n = 0 THEN [prim EXCEPT !.in_mst = @ \cup {u}]
        ELSE Improve(relaxed[n - 1], u, vertices[u].adj[n])
  IN relaxed[Len(vertices[u].adj)]

\* The first of the smallest keys below DBL_MAX, if any is.
Nearest(prim) ==
  LET near == {v \in Used \ prim.in_mst : prim.key[v] < DBL_MAX}
      least == {v \in near : \A t \in near : prim.key[v] <= prim.key[t]}
  IN {v \in least : \A t \in least : v <= t}

mst_prim(start) ==
  LET turn[i \in 0 .. size] ==
        IF i = 0 THEN [in_mst |-> {}, rc |-> 0,
                       key |-> [v \in Used |-> IF v = start THEN 0 ELSE DBL_MAX],
                       parent |-> [v \in Used |-> NoVertex]]
        ELSE LET p == turn[i - 1]
             IN IF Nearest(p) = {} THEN [p EXCEPT !.rc = 1]
                ELSE Relax(p, CHOOSE u \in Nearest(p) : TRUE)
  IN turn[size]

-----------------------------------------------------------------------------
\* Kruskal collects each edge at its lower end, and so no loop.
edges ==
  UNION {{[u |-> i, v |-> vertices[i].adj[n].to, w |-> vertices[i].adj[n].weight, at |-> n] :
            n \in {m \in DOMAIN vertices[i].adj : i < vertices[i].adj[m].to}} : i \in Used}

\* qsort may put edges of the same weight in any order.
Lightest(rest) == {e \in rest : \A f \in rest : e.w <= f.w}

\* An edge is taken when the union-find has its ends in different classes.
Consider(k, e) ==
  IF k.rep[e.u] = k.rep[e.v] THEN [k EXCEPT !.rest = @ \ {e}]
  ELSE [rest |-> k.rest \ {e}, mst |-> k.mst \cup {e},
        rep |-> UF!Merged(k.rep, k.rep[e.u], k.rep[e.v])]

Step(k) ==
  IF Cardinality(k.mst) + 1 < size /\ k.rest # {}
  THEN {Consider(k, e) : e \in Lightest(k.rest)} ELSE {k}

\* The edge sets Kruskal may end with.
mst_forests(E) ==
  LET turn[i \in 0 .. Cardinality(E)] ==
        IF i = 0 THEN {[rest |-> E, mst |-> {}, rep |-> [v \in Used |-> v]]}
        ELSE UNION {Step(k) : k \in turn[i - 1]}
  IN {k.mst : k \in turn[Cardinality(E)]}

\* An edge set as lists of neighbours.
Lists(E) ==
  [v \in Used |-> SetToSeq({e.u : e \in {f \in E : f.v = v}}
                           \cup {e.v : e \in {f \in E : f.u = v}})]

\* Each tree is searched breadth first from its lowest index; a vertex hangs
\* from the first one whose list it is on, in a tree the only one it can, so
\* that the order of the lists does not matter.
Parents(mst) ==
  LET next == Lists(mst)
      root(v) == Min(Reachable(next, v))
      order(v) == bfs(next, root(v))
      first(v) == Min({n \in DOMAIN order(v) : v \in ToSet(next[order(v)[n]])})
  IN [v \in Used |-> IF v = root(v) THEN NoVertex ELSE order(v)[first(v)]]

mst_kruskal ==
  {[parent |-> Parents(mst), rc |-> IF Cardinality(mst) + 1 < size THEN 1 ELSE 0] :
     mst \in mst_forests(edges)}

-----------------------------------------------------------------------------
\* What the edges E join v to.
Component(E, v) ==
  LET grown[d \in 0 .. size] ==
        IF d = 0 THEN {v}
        ELSE LET c == grown[d - 1]
             IN c \cup UNION {{e.u, e.v} : e \in {f \in E : f.u \in c \/ f.v \in c}}
  IN grown[size]

Components(E) == {Component(E, v) : v \in Used}

\* F joins what E joins, with no edge to spare.
SpanningForest(F, E) ==
  /\ Components(F) = Components(E)
  /\ Cardinality(F) = size - Cardinality(Components(E))

Total(F) == FoldSet(LAMBDA e, sum : e.w + sum, 0, F)

MinimumForest(F, E) ==
  /\ SpanningForest(F, E)
  /\ \A T \in kSubset(Cardinality(F), E) : Total(T) < Total(F) => ~SpanningForest(T, E)

\* What parent means: each link is the lightest edge between its ends.
LinkEdge(E, v, p) ==
  CHOOSE e \in Lightest({f \in E : {f.u, f.v} = {v, p}}) : TRUE

ParentEdges(E, parent) ==
  {LinkEdge(E, v, parent[v]) : v \in {u \in Used : parent[u] # NoVertex}}

(***************************************************************************)
(* As if edges of weight DBL_MAX were not there: Prim's parents are a      *)
(* minimum tree of what start reaches by lighter edges, rooted there, and  *)
(* 0 is returned when that is everything.  Whether the graph is connected  *)
(* it does not tell: see MCGraphs's PrimConnected.                         *)
(***************************************************************************)
PrimRight(start) ==
  LET p == mst_prim(start)
      light == {e \in edges : e.w < DBL_MAX}
      tree == Component(light, start)
      within == {e \in light : e.u \in tree}
  IN /\ \A v \in Used : p.parent[v] = NoVertex <=> v \notin tree \ {start}
     /\ MinimumForest(ParentEdges(within, p.parent), within)
     /\ p.rc = 0 <=> tree = Used

(***************************************************************************)
(* Kruskal's parents are a minimum forest whatever the order of edges of   *)
(* the same weight, rooted at the lowest indices, and 0 is returned when   *)
(* the graph is connected.                                                 *)
(***************************************************************************)
KruskalRight ==
  LET E == edges
      roots == {Min(C) : C \in Components(E)}
  IN \A k \in mst_kruskal :
       /\ {v \in Used : k.parent[v] = NoVertex} = roots
       /\ MinimumForest(ParentEdges(E, k.parent), E)
       /\ k.rc = 0 <=> Cardinality(roots) = 1
=============================================================================
