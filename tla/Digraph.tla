------------------------------ MODULE Digraph -------------------------------
(***************************************************************************)
(* The algorithms of digraph.c on directed graphs: the searches are those  *)
(* of Searches; topological sort and cycle detection read the graph too,   *)
(* and are operators.                                                      *)
(***************************************************************************)
EXTENDS Vertices, Searches

Successors ==
  [v \in Used |-> [n \in DOMAIN vertices[v].adj |-> vertices[v].adj[n].to]]

-----------------------------------------------------------------------------
\* The arcs that enter t, each counted.
in_degree(next, t) ==
  Cardinality(UNION {{v} \X {n \in DOMAIN next[v] : next[v][n] = t} : v \in DOMAIN next})

\* One arc less enters t; it is queued when none is left.
Release(kahn, t) ==
  LET left == kahn.degree[t] - 1
  IN [degree |-> [kahn.degree EXCEPT ![t] = left],
      queue |-> IF left = 0 THEN Append(kahn.queue, t) ELSE kahn.queue]

ReleaseAll(kahn, targets) ==
  LET released[n \in 0 .. Len(targets)] ==
        IF n = 0 THEN kahn ELSE Release(released[n - 1], targets[n])
  IN released[Len(targets)]

\* The vertices no arc enters, in the order of their indices.
Sources(next) ==
  LET queued[m \in 0 .. Cardinality(DOMAIN next)] ==
        IF m = 0 THEN <<>>
        ELSE LET q == queued[m - 1]
             IN IF in_degree(next, m - 1) = 0 THEN Append(q, m - 1) ELSE q
  IN queued[Cardinality(DOMAIN next)]

\* The order is the queue, and is cut short by a cycle.
topological_sort(next) ==
  LET turn[head \in 0 .. Cardinality(DOMAIN next)] ==
        IF head = 0
        THEN [degree |-> [t \in DOMAIN next |-> in_degree(next, t)], queue |-> Sources(next)]
        ELSE LET k == turn[head - 1]
             IN IF head > Len(k.queue) THEN k ELSE ReleaseAll(k, next[k.queue[head]])
      order == turn[Cardinality(DOMAIN next)].queue
  IN [order |-> order, rc |-> IF Len(order) = Cardinality(DOMAIN next) THEN 0 ELSE 1]

\* An arc to t: unless a cycle has been found, `search` goes on from a t it has
\* not met.
Look(search, r, t) ==
  IF r.out = 1 \/ r.state[t] = 2 THEN r
  ELSE IF r.state[t] = 1 THEN [out |-> 1, state |-> r.state] ELSE search[<<t, r.state>>]

\* The arcs of v, one after the other.
Targets(next, search, v, state) ==
  LET looked[n \in 0 .. Len(next[v])] ==
        IF n = 0 THEN [out |-> 0, state |-> [state EXCEPT ![v] = 1]]
        ELSE Look(search, looked[n - 1], next[v][n])
  IN looked[Len(next[v])]

\* A plausible slip: a finished vertex is left marked as one on the path.
Unfinished(next, search, v, state) == Targets(next, search, v, state)

\* state is 1 on the path from the start of the search and 2 when finished.
cycle_dfs(next, search, v, state) ==
  LET r == Targets(next, search, v, state)
  IN IF r.out = 1 THEN r ELSE [out |-> 0, state |-> [r.state EXCEPT ![v] = 2]]

CycleFrom(next, v, state) ==
  LET search[c \in (DOMAIN next) \X [DOMAIN next -> 0 .. 2]] ==
        cycle_dfs(next, search, c[1], c[2])
  IN search[<<v, state>>]

has_cycle(next) ==
  LET searched[m \in 0 .. Cardinality(DOMAIN next)] ==
        IF m = 0 THEN [out |-> 0, state |-> [v \in DOMAIN next |-> 0]]
        ELSE LET r == searched[m - 1]
             IN IF r.out = 1 \/ r.state[m - 1] # 0 THEN r ELSE CycleFrom(next, m - 1, r.state)
  IN searched[Cardinality(DOMAIN next)].out

-----------------------------------------------------------------------------
OnCycle(next) == {v \in DOMAIN next : \E t \in ToSet(next[v]) : v \in Reachable(next, t)}

(***************************************************************************)
(* Both tell the graphs with a cycle, loops and diamonds included, from    *)
(* those without.  The order holds each vertex that no cycle leads to,     *)
(* once, after everything with an arc to it: all of them if there is none. *)
(***************************************************************************)
CyclesRight(next) ==
  LET sort == topological_sort(next)
      order == sort.order
      blocked == UNION {Reachable(next, v) : v \in OnCycle(next)}
  IN /\ has_cycle(next) = (IF OnCycle(next) = {} THEN 0 ELSE 1)
     /\ sort.rc = has_cycle(next)
     /\ IsInjective(order) /\ ToSet(order) = DOMAIN next \ blocked
     /\ \A a, b \in DOMAIN order : order[b] \in ToSet(next[order[a]]) => a < b
=============================================================================
