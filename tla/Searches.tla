------------------------------ MODULE Searches ------------------------------
(***************************************************************************)
(* The searches that graph.c and digraph.c both have, and what they should *)
(* return.  A graph is `next`, the list of neighbours of each of its       *)
(* vertices, in the order the code follows them.                           *)
(***************************************************************************)
EXTENDS Integers, FiniteSets, SequencesExt

\* Neighbours met for the first time go to the end of a queue or stack.
Push(seen, t) ==
  IF t \in seen.marked THEN seen
  ELSE [marked |-> seen.marked \cup {t}, list |-> Append(seen.list, t)]

\* A plausible slip: the start is queued and not marked.
Unmarked(v) == [marked |-> {}, list |-> <<v>>]

Marked(v) == [marked |-> {v}, list |-> <<v>>]

\* The targets of a list of edges, one after the other.
PushAll(seen, targets) ==
  LET pushed[n \in 0 .. Len(targets)] ==
        IF n = 0 THEN seen ELSE Push(pushed[n - 1], targets[n])
  IN pushed[Len(targets)]

(***************************************************************************)
(* bfs shows the vertices in the order of its queue.                       *)
(***************************************************************************)
bfs(next, start) ==
  LET queue[head \in 0 .. Cardinality(DOMAIN next)] ==
        IF head = 0 THEN Marked(start)
        ELSE LET q == queue[head - 1]
             IN IF head > Len(q.list) THEN q ELSE PushAll(q, next[q.list[head]])
  IN queue[Cardinality(DOMAIN next)].list

\* An edge to t, which `visit` goes on from when it has not been shown.
Show(visit, order, t) == IF t \in ToSet(order) THEN order ELSE visit[<<t, order>>]

\* v is shown and then what its edges lead to.  What has been shown to the
\* visitor is what has been marked.
dfs_visit(next, visit, v, order) ==
  LET shown[n \in 0 .. Len(next[v])] ==
        IF n = 0 THEN Append(order, v) ELSE Show(visit, shown[n - 1], next[v][n])
  IN shown[Len(next[v])]

dfs(next, start) ==
  LET visit[c \in (DOMAIN next) \X Seq(DOMAIN next)] == dfs_visit(next, visit, c[1], c[2])
  IN visit[<<start, <<>>>>]

-----------------------------------------------------------------------------
\* Vertices at most n edges away, and all those that can be reached.
Within(next, start, n) ==
  LET ball[d \in 0 .. n] ==
        IF d = 0 THEN {start}
        ELSE LET b == ball[d - 1] IN b \cup UNION {ToSet(next[v]) : v \in b}
  IN ball[n]

Reachable(next, start) == Within(next, start, Cardinality(DOMAIN next))

(***************************************************************************)
(* A search shows what can be reached from its start, each vertex once.    *)
(***************************************************************************)
ShowsReachable(next, start, order) ==
  IsInjective(order) /\ ToSet(order) = Reachable(next, start)

(***************************************************************************)
(* Breadth first: nearer vertices are shown before those further away.     *)
(***************************************************************************)
BreadthFirst(next, start, order) ==
  \A a, b \in DOMAIN order : \A n \in 0 .. Len(order) :
    a < b /\ order[b] \in Within(next, start, n) => order[a] \in Within(next, start, n)

(***************************************************************************)
(* Depth first: when b is shown while c, a neighbour of the earlier a, is  *)
(* not, b is a neighbour of a or of one shown between a and b.             *)
(***************************************************************************)
DepthFirst(next, order) ==
  \A a, b, c \in DOMAIN order :
    a < b /\ b < c /\ order[c] \in ToSet(next[order[a]])
      => \E d \in a .. b - 1 : order[b] \in ToSet(next[order[d]])

SearchesRight(next) ==
  \A start \in DOMAIN next :
    LET b == bfs(next, start)
        d == dfs(next, start)
    IN /\ ShowsReachable(next, start, b) /\ BreadthFirst(next, start, b)
       /\ ShowsReachable(next, start, d) /\ DepthFirst(next, d)
=============================================================================
