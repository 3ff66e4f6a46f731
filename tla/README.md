# algokit in TLA+

algokit is a C99 library of containers and algorithms: union-find, hash
tables, search trees, a heap, linked sequences, graphs and sorts. This
directory models it in TLA+, checks the models with TLC on small instances and
proves with TLAPS, for every size, the results about union-find, the hash
tables, the search trees, the heap, the linked sequences, the graphs and the
sorts. Paths such as `uf_qf.c` are under `src/src/`.

1. [The system](#the-system)
2. [Plan](#plan)
3. [How the models correspond to the code](#how-the-models-correspond-to-the-code)
4. [The modules](#the-modules)
5. [The runs](#the-runs)
6. [Where the code and its documents disagree](#where-the-code-and-its-documents-disagree)
7. [Fairness](#fairness)
8. [The proofs](#the-proofs)
9. [What is not modelled](#what-is-not-modelled)
10. [Running it](#running-it)

## The system

The library has no threads, files or sockets. A caller creates a handle,
calls operations on it one at a time and destroys it. What an operation does to
the caller is its return code, what it writes through an output pointer, and
the callbacks it makes (`cmp`, `hash`, `visit`, `destroy`). What can go wrong
is therefore: a long sequence of legal calls that breaks an internal invariant,
a loop that does not end, an allocation that fails half way through an
operation, a value read before something rewrites it, and arithmetic at
boundaries.

| component | state | operations that change it | what makes it correct |
|---|---|---|---|
| `uf_qf.c` | `id[0..n-1]` | union | ids label exactly the classes the unions ask for; the relabelling scan is invisible |
| `uf_qu.c` | `parent[]` | union | links form a forest whose trees are the classes |
| `uf_wqupc.c` | `parent[]`, `size[]` | find, union, connected (`root()` halves paths, so even find writes) | as above; halving never changes a class; weights right at roots; depth logarithmic |
| `hash_lp.c` | array of slots (empty, live, tombstone), `size` | put, delete, resize | a live item is reachable by its probe; one item per key; load; probes end |
| `hash_sc.c` | array of lists, `size` | put, delete, resize | an item is on the list of its key, once; resize loses nothing |
| `bst.c` | tree of nodes | insert, remove | search order; traversal orders |
| `rbtree.c` | tree of coloured nodes | insert, remove | search order; red-black balance |
| `heap.c` | array, `size`, `capacity` | insert, extract | extract returns a maximum; the bag of items is kept |
| `list.c`, `stack.c`, `queue.c` | nodes, head, tail, `size` | push, pop | FIFO / LIFO; the tail is right after the last pop |
| `graph.c`, `digraph.c` | key map, vertex array, adjacency lists | add_vertex, add_edge | map and vertices agree; searches visit each reachable vertex once; trees are minimal; orders are topological |
| `sort_*.c` | the caller's array | sort | sorted permutation; stable for insertion and merge sort |

Interactions inside the library: `algokit_hash_lp_resize` and
`algokit_hash_sc_resize` call the public `put`, which may call them;
`algokit_graph_mst_kruskal` builds a `uf_wqupc` and asks it for roots; the
graphs carry their own copy of a linear-probing map. Everything else is
independent.

The behaviours that are hard to test, each with its line, are the `hazards`
of `PROJECT.json`; a hazard names the properties that would catch it going
wrong, or says why none does.

## Plan

Done: union-find (three implementations, one abstract specification, proofs);
the dictionaries (two hash tables and two trees, one abstract specification,
proofs); the heap and the linked sequences (an abstract
specification each, proofs); the graphs (two implementations that share a
module, one abstract specification, their algorithms against reference
definitions, proofs); the sorts (quick sort step by step, the others as what they make
of an array, proofs).

Next: the variants of the loops whose end is only model-checked, as action
properties with proofs: a turn of a probe of `HashLP` comes nearer to the first
empty slot, a turn of a resize leaves less to copy, a step of `QuickSort` makes
its pending work smaller.

## How the models correspond to the code

A module has one action for each operation, or for each turn of a loop where
what happens between two turns matters. A handle is created and destroyed by
actions (hash tables and trees) or exists from the start (union-find, whose
`create` is `Init`).

*Atomicity.* There is one thread, so no step of one call interleaves with
another call. Loops are nevertheless modelled turn by turn where the loop
itself is the hazard: it rewrites what it reads (`uf_qf`'s scan, path
halving), it may not end (probing), or an allocation inside it may fail
(copying in a resize). The heap's sift loops and the loop of the linked
sequences' `destroy` are modelled turn by turn for their invariants, and so is quick
sort's partition, with its pending calls on a stack. A tree operation is one recursive function in C and one
step here: it has no intermediate allocation whose failure changes its course
other than the leaf's. Adding a vertex or an edge to a graph is one step: no
callback but `hash` and `cmp` is made in it, and each combination of failed
allocations is an action of its own. Searches, spanning trees, topological
sort, cycle detection and the four sorts other than quick sort read their input
and return: they are operators, not steps.

*Answers.* `res` holds the last call, its argument, its return code and what
was handed to the caller. It is how the abstract specifications see the
system: they have the same `res` and an idealised state. A call in progress
has the answer `Pending`.

*Data.* Keys and values are model values or small integers; the `cmp` callback
is equality or integer order. The hash function is a variable that never
changes, chosen in `Init`: the properties are checked for every hash function
in `HashFns`. Weights of edges are integers, `DBL_MAX` being larger than any
that is less than it; not-a-numbers have no order and are left out.

*Memory.* An allocation by which a container is created, grows or takes an item
is a choice between success and failure, at the place where the code makes it,
unless a constant says otherwise (`CopyMayFail`, `NodeMayFail`). The creates of
the union-find structures are `Init` and succeed: one that fails answers NULL
and leaves nothing to call. Allocations that only serve a query or a merge sort
are under [What is not modelled](#what-is-not-modelled). A slot or node that is not in the model any
more was freed. In `Linear` nodes have addresses: malloc returns any free one,
and a freed node holds anything from the moment of its `free`, so that a value
read too late is a wrong value.

*Arguments.* `Index` of the union-find modules has an index past the end, and
`Reject` covers NULL handles and outputs: a refused call changes nothing and
keeps what the caller's output cell held.

## The modules

Union-find:

| module | what it is |
|---|---|
| `UnionFind` | constants, elements and answers shared by all |
| `DisjointSets` | abstract specification: a representative per element, calls answered at once |
| `UnionHistory` | `DisjointSets` with the set of accepted unions, and what connectivity has to mean |
| `QuickFind` | `uf_qf.c`; `Scan` is one turn of union's loop, `pid`, `qid`, `i` are its locals; `qfpc`, `qfcall` and `qfres` are the call in progress and the last answer |
| `RootForest` | what `uf_qu.c` and `uf_wqupc.c` share: a call climbs to one or two roots (`cur` is the cursor of `root()`, `root_p` the first root) and answers; `pc`, `call` and `res` are that call and the last answer |
| `QuickUnion`, `WeightedQuickUnion` | the two `root()` loops and the two links |
| `MCUnionFind` | the three implementations in one run: `impl` never changes and says whose calls a behaviour has; the variables of the others stay as they were |
| `UnionFind_proof` | the proofs, about `UnionHistory`, the three implementations and `MCUnionFind` |

`rep` in `RootForest` is a history variable: the labelling that the links made
so far give. It is the abstract state, changed only by the step that links, so
that path halving is seen to be a stutter. In `QuickFind` the abstract state is
computed: during a scan it is the labelling the scan is heading for.

Dictionaries:

| module | what it is |
|---|---|
| `Dictionary` | abstract specification: a set of items with distinct keys; put, get, delete, traverse, destroy |
| `HashLP` | `hash_lp.c`; `entries`, `size`, and the locals of put (`idx`, `tomb`) and resize (`old`, `i`) |
| `HashSC` | `hash_sc.c`; a bucket is a sequence of items |
| `OrderedTree` | what the trees share: search, traversals, destroy. A tree is a value: `NIL` or a record. The recursion of a C function is that of a function on `Tree`, the trees whose height is in `Heights` (all of them, when `Heights` is `Nat`) |
| `BST`, `RBTree` | the two insertions and removals |
| `MCHashLP`, `MCHashSC`, `MCTrees` | instances for TLC |
| `HashLP_proof`, `HashSC_proof`, `Trees_proof` | the proofs |

`Held`, the abstract state of a hash table, is what is in the table being
filled together with what a resize has still to copy. A resize is then a
sequence of stutters, and an item it loses is a step the dictionary cannot
take. Both tables' `put` is modelled with its inner use by resize: the inner
call makes its own load check, and `pc = "nested"` is the trap state that a
resize inside a resize would enter. The invariant `Load` says it is never
entered.

The heap and the linked sequences:

| module | what it is |
|---|---|
| `PriorityQueue` | abstract specification: a bag of items; extract and peek answer one of the largest |
| `Heap` | `heap.c`; `items` is the array, `pc` tells sift_up (`"up"`) from sift_down (`"down"`), `idx` is their local. An insertion's answer is settled when its item is placed; `size` is counted up after the sifting, as in the code, so `Used` counts the cells in use |
| `ItemSequence` | abstract specification: a sequence popped at the front; `kind` says at which ends it is pushed: a stack at the front, a queue at the back, a list at either |
| `Linear` | `list.c`, `stack.c` and `queue.c`, told apart by `kind`; `next` and `item` are the fields of the nodes, `live` the allocated ones, `cur` the local of destroy, `handed` what its callback has been given |
| `MCHeap`, `MCLinear` | instances for TLC |
| `Heap_proof`, `Linear_proof` | the proofs |

`chain` in `Linear` is a history variable: the nodes in the order the calls
put them in. Nothing the code does depends on it; `Linked` says that the links
are the chain, and answers are read from the links. While an insertion or an
extraction sifts, a cell that is not in use holds `JUNK`: the code leaves the
old item there and never reads it.

Graphs:

| module | what it is |
|---|---|
| `KeyedGraph` | abstract specification: keys in the order of their vertices, a bag of arcs between keys |
| `Vertices` | the data structure of `graph.c` and `digraph.c`, line for line the same but for add_edge (`AddEdge` in the one, `AddArc` in the other): the vertex array, the map from keys to indices, add_vertex with its two growths and the map's own |
| `Searches` | bfs and dfs on lists of neighbours, and what a breadth first and a depth first order is |
| `Graph` | the algorithms of `graph.c`: connected_components, Prim and Kruskal, and what a minimum spanning forest is. Kruskal asks `UnionFind`'s `Merged` for its classes: that `uf_wqupc.c` answers so is `WeightedQuickUnion`'s refinement, proved for every size. `qsort` may leave equal weights in any order, so `mst_kruskal` is the set of its results over all orders |
| `Digraph` | the algorithms of `digraph.c`: topological sort and cycle detection |
| `MCGraphs` | both in one run |
| `Graphs_proof` | the proofs, of the data structure and of the algorithms |

`Next` of `Vertices` allows edges and arcs in one graph, more than either file
does: what is proved of its `Spec` is proved of both, and of the run's
behaviours too.

Sorts:

| module | what it is |
|---|---|
| `QuickSort` | `sort_quick.c`; `stack` holds the `<<low, high>>` of the current call and of those still to be made, `i`, `j` and `pivot` are partition's locals |
| `Sorts` | insertion, Shell, merge and heap sort as functions of the array: a loop is a function of the turns made, a recursive call one of its arguments and of the array it finds |
| `MCSorts` | instance for TLC: quick sort's behaviours, and the other sorts applied to every input |
| `Sorts_proof` | the proofs |

The `val` of an item in `QuickSort` is the place it had in the input, so that
`Rearranged` (no item lost or doubled) is a statement about single items.

In `RBTree` every dereference of the C code is a field access of a record: a
NULL dereference would be an evaluation error of TLC, so the run also shows
that rotations, `move_red_*` and `delete_min` never follow a NULL link.

Definitions that begin with the comment "a plausible slip" are mutants: each
replaces the definition after it by what a likely bug would do, and is used
only to see that a property would notice (`mutants` in `PROJECT.json`).

## The runs

| run | bounds | what it shows |
|---|---|---|
| `union_find` | 4 elements, indices 0..4 | all call sequences of each implementation. Quick-find: `ScanInv`: half way through the scan, visited cells no longer carry the old id and the new id names itself. `Idempotent`: an id is a member of its component. `Connectivity`: the classes are the least equivalence containing the accepted unions. `QFImplements`: atomic answers. `QFReturns`: the scan ends. Both forests: `ForestInv`: links stay inside a class, roots stand for their class, a climb stays in the class it started in and `root_p` is still the root when it is used. `Weights`: root sizes count classes and sizes grow along links. `FlatTrees`: an element at depth d is in a class of at least 2^d. `Implements`, `Returns` |
| `hash_lp` | capacities 1, 3, 9, 16; 3 keys, one with 2 values; 3 hash functions | `Findable`: no empty slot between an item's home and its place, no key twice, even in the middle of a resize. `Load`: size is right, load under 0.7, no nested resize. `Implements`. `ReturnsIfEmpty`: a call ends if there is an empty slot for its probe |
| `hash_lp_churn` | capacity 2 | violated: see below |
| `hash_sc` | capacities 1, 9, 12; same keys; nodes copied by resize are allocated | `Findable`, `Load`, `Implements`, `NothingLost`: an item leaves only into the caller's hands. `Returns` |
| `hash_sc_copy` | same, allocation may fail in resize | violated: see below |
| `trees` | rbtree: 7 keys; bst: 5 keys | `SearchTree`: inorder is strictly ascending. `Balanced`: root black, reds lean left and are never adjacent, black height equal on all paths. `BSTTraversals`: each item shown once; a preorder dump, and a reversed postorder dump, rebuild the same shape. `Implements`. `TypeOK`: also that no node outlives its tree |
| `heap` | capacities 0, 1, 3; up to 8 items of 3 keys, 2 items with the same key | `HeapOrder`: order between every two cells but those of the item being sifted, whose children stay below its parent. `Implements`: extract and peek answer a largest item and the bag of items is kept, through growth that may fail. `TypeOK`: also that the cells in use are inside the array and no other is |
| `linear` | 4 nodes, 2 items; node addresses and items symmetric | `Linked`: following the links from the handle meets exactly the allocated nodes, in order; tail, size and destroy's cursor fit. `Implements`: a stack answers last in, first out, a queue first in, first out, a list pushed at either end in the order that gives, and destroy hands out what is left. The answer of a push names its end and its item, so that it fixes the abstract step |
| `graphs` | see below | `Lookups`: every vertex is found by its key at its own index, nothing else is in the map, every probe has a free slot to end at, and the map has between once and twice as many slots as the array has cells, whichever growth has failed. `Implements`: indices are given in order and never change, no growth loses an edge, a call without memory changes nothing. `Searching`: bfs and dfs show what can be reached, once, in their orders; components are told apart and numbered from 0. `SpanningTrees`: Kruskal's parents are a minimum forest of the graph and its return code tells whether the graph is connected; Prim's are a minimum tree of what edges below `DBL_MAX` join to the start and its return code tells whether they join everything. `Cycles`: has_cycle and topological_sort agree with what a cycle is, and the order holds each vertex no cycle leads to, after its predecessors |
| `graphs_prim` | 2 vertices, weights -1, 1 and `DBL_MAX` | violated: see below |
| `sorts` | arrays of up to 7 items of 3 keys | `QuickInv`: the scans stay inside their range, both halves are smaller than it, and two items in the wrong order are in one pending range. `Sorts`: all five sorts leave the items in order, insertion and merge sort stably. `Terminates` |
| `rbtree_insert` | 3 keys, allocation may fail | violated: see below |

A behaviour of `graphs` is one of three kinds. In `"map"` any call may be made
and any allocation may fail, with 4 keys, capacities 1 and 3, two hash
functions and at most one edge: the array grows twice and the map three times
on the way. In `"graph"` and `"digraph"` callers build graphs and the
algorithms are judged on each: every simple graph on up to 4 vertices with
weights -1, 1 and `DBL_MAX`, loops and parallel edges on up to 3 vertices, where
the first two edges come in any order; and digraphs of up to 5 arcs, on up to 3
vertices in any order and with loops and parallel arcs. Four vertices are the
fewest on which Kruskal joins two trees of two vertices, and have every pair of
cycles that share an edge.

Shell sort has a gap other than 1 from six items on; merge sort and quick sort
split seven items into ranges of every small size, and three keys leave some
equal and some not.

Why the bounds are enough. Four elements are the fewest with which two classes
of two can be joined, so that the link goes between trees that each have more
than a root, and with which halving skips an element. Capacity 1 grows from
nothing, through 2 and 4; 3 is odd and grows to 6; 9 is odd and above 8, so
deletions shrink it to 4 with a remainder lost; 16 shrinks to 8 and no
further. The hash functions put all keys in one chain that begins at the end
of the array and goes round it, two keys in one chain that meets the third
after the wrap, and all apart. Seven keys are the fewest
for a red-black tree in which `delete_min` has to borrow a red on its own way
down: with six, a `delete_min` without `move_red_left` goes unnoticed. The same
invariants were also run with eight keys. Eight items make a heap of four levels, so that
an item is sifted three times and a node has one child; a capacity of 1 grows
three times on the way. Four nodes make chains with a middle and every order in
which freed addresses come back. Every unbounded number is bounded by
the instance itself: no state constraint is used, except that `MCNext` keeps
`bst.c` trees within `BSTKeys`, callers insert into a heap of fewer than
`MaxSize` items, and in `MCGraphs` callers stop adding edges where said above.

## Where the code and its documents disagree

* **A probe that never ends** (`hash_lp.c:133`, also 105 and 152). The loops
  stop at an empty slot. Deletion leaves tombstones, the load check counts only
  live slots, and tombstones go away only in a resize, which a table that stays
  small never makes. `create(2)`, put, delete, put in the other slot: no empty
  slot is left, and a get of an absent key runs round for ever.
  `docs/hash.md:45` gives it a return code. Run `hash_lp_churn`;
  `ReturnsIfEmpty` in run `hash_lp` is what does hold.
* **A resize that loses items** (`hash_sc.c:51`). The copying loop ignores the
  result of its inner put and frees the old node. Without memory for the new
  node the item is gone, unreported, while `SPEC.md:61` promises no hidden side
  effects. Run `hash_sc_copy`; `NothingLost` in run `hash_sc` shows the same
  loop losing nothing when it finds memory.
* **An insertion that reports success** (`rbtree.c:134`). `inserted` is set
  before the allocation, whose failure shows only in an empty tree;
  `docs/rbtree.md:31` promises nonzero on error. Run `rbtree_insert`.
* **A connected graph called disconnected** (`graph.c:439`). Prim's keys start at
  `DBL_MAX` and only a smaller one is taken, so that an edge of weight `DBL_MAX`,
  which add_edge accepts, is never followed: Prim answers 1 for a graph that only
  such an edge connects, where Kruskal answers 0. `docs/graph.md:62` says of
  mst_prim that it returns 0 if the graph is connected and sets no limits on
  weights. Run `graphs_prim`; `SpanningTrees` in run `graphs` states what Prim
  finds among the other edges, and `GraphPrimConnected` proves the document's
  words for graphs without such an edge.

A remark that is no finding: the resizing of the map in add_vertex
(`graph.c:211`) never changes the number of its slots, since map_put has grown it
before. `Lookups` has the half of it that matters, `Slots(map) <= capacity * 2`:
the size asked for is never below the size there is.

## Fairness

`Work` is the set of steps by which a call in progress goes on; `Request` is
the caller's. Specifications with liveness assume `WF(Work)`: on one thread,
with no lock and no wait, a call that has begun keeps executing. Nothing is
assumed of the caller: it need never call again, and no fairness is put on any
choice between outcomes (an allocation may fail every time). The trees'
operations are single steps and have no liveness property, and so are the
graphs'. Quick sort's `Spec` assumes `WF(Next)`: the sort has been called and
keeps executing. The heap's sift
loops move `idx` strictly up or down and destroy's loop shortens its chain at
every turn, so these have none either.

## The proofs

The union-find theorems hold for every `N` in `Nat` and every set `Index` of
naturals, the only assumptions (`NAssumption`, `IndexAssumption`). Those about
the hash tables and the graphs hold for every set of items or of keys and
weights, every set of capacities that are not 0 and every set of hash functions
from keys to naturals; `SlotAssumption` and `FreeAssumption` say that an empty
slot is no item and no entry. Those about the trees hold for every set of items
with integer keys and, with the hypothesis `Heights = Nat`, for trees of every
height; `NilAssumption` says that NULL is no node. Those about the heap hold for every set of items
with integer keys, every set of capacities and every `MaxSize`; those about the
linked sequences for every set of items and every finite memory; those about
the sorts for every array of at most `MaxLen` items, `MaxLen` being any
natural number, and every set of integer keys.

*Abstract level* (`UnionFind_proof`, on the instance `UH` of `UnionHistory`).
`HistoryConnectivity`: `Connectivity` and `Idempotent` are invariants. Both
ends of a new pair get one label; a labelling that respects the old pairs and
the new one agrees on the merged class, because it agrees within each old class
and across the pair. Idempotence is needed in the induction: the merge relabels
a class by the name of its representative. `HistoryNeverSplits`: connected
elements stay connected.

*Quick-find* (`UnionFind_proof`). The inductive invariant is `QFTypeOK`,
`ScanInv` and idempotence of the labelling the scan is heading for. `ScanInv`
alone is not inductive without `pid # qid` (a scan that relabels to the id it
looks for would revisit its output). `QuickFindImplements` maps `UnionBegin` to
the abstract union and each `Scan` and the return to stutters: that merging
commutes with having merged a prefix is the key lemma.
`QuickFindConnectivity` and `QuickFindNeverSplits` then carry the theorems of the
abstract level over the refinement instead of proving them again.

*Forests* (`UnionFind_proof`). What the two files share is proved once: every
step they have in common keeps `TypeOK` and `ForestInv` and maps to a step of
`DisjointSets`; each file adds its `Climb` and its link. `ForestInv` is
inductive: halving replaces a link by one to the grandparent, in the same
class, and a root found first is still `rep[call.p]` when it is used because
halving never changes which element is a root. `WeightedInvariant` adds
`SizeInv`; that sizes grow strictly along links survives halving, and survives
a link because a root of a class has the size of that class, at least as large
as the other. `WeightedClimbGrows` follows: each turn of `root()` raises
`size[cur]`, which `SizeType` bounds by `N`. This is the variant of its
termination; that it terminates is checked by TLC.

`WeightedLogDepth`: no element is more than log2 `N` links below its root. Path
lengths are not needed for it. `LogDepth` says that there are levels which drop
along every link, with at least 2^level elements in the class; the depth of an
element is at most its level. The levels there are survive halving, since a
link to the grandparent drops at least as far, and when a root is hung under
another, each level of the smaller class goes up by one while its class at
least doubles. `ForestsWeights`, `ForestsFlat` and `ForestsImplement` state the
results of the specification the run `union_find` checks, in which a behaviour
has the calls of one of the three files.

*Linear probing* (`HashLP_proof`). `Findable` and `Load` become inductive with
five more parts. `Chains` puts the chain of each live slot in terms of the path
from its home round the array, `OnPath`, instead of distances and remainders.
`Probing` is what the loop has seen: no slot from the home to `idx` is empty or
has the key, and the path to the remembered tombstone has no empty slot either,
so that putting the item there keeps its chain. That a probe ending at an empty
slot proves its key absent is `MissMeansAbsent`: were the key stored, it would
lie before `idx`, where the probe would have met it, or behind, where the empty
slot cuts its chain. `Unique` compares also with what a resize has still to
copy. `Room` counts that too, and the item whose put asked for the resize:
growth doubles and shrinking needs a load of at most 0.2, so that no put inside
a resize finds its load due (`pc # "nested"`). `HashLPImplements` maps the step
that stores, buries or misses to the call, and every step of a resize to a
stutter.

*Separate chaining* (`HashSC_proof`). The same plan: every item on the list of
its key's home, lists without repetition and apart from what is still to be
copied, and room for the rest. `HashSCImplements` and `HashSCNothingLost` have
the hypothesis `CopyMayFail = FALSE`, and need it: without it run
`hash_sc_copy` shows the items that a resize loses. `HashSCFindable` and
`HashSCLoad` hold either way.

*Trees* (`Trees_proof`). Two inductions carry all of it, both over sets. A set
of trees that holds `NIL` and every node whose subtrees it holds is `Tree`
(`TreeInduction`, by height); hence a function defined by recursion on trees is
what its definition says (`TreeRecursion`), which a CHOOSE does not give by
itself. `TreeInv` is inductive: the tree is a tree and is `Ordered`. That is a
statement about the inorder sequence, which a rotation and a recolouring keep,
so that only the insertion of a leaf, the end of a `delete_min` and the
replacement by a successor have to be looked at. `Holding` and `Removed` say
what the items are afterwards, and give `BSTImplements` and `RBImplements`;
`RBImplements` has the hypothesis `NodeMayFail = FALSE`, and needs it: see run
`rbtree_insert`.

For the balance, `Good(h, n)` says that red links lean left and never follow
each other below `h`, and that every path from it has `n` black links. Insertion may
leave a red node with a red left child, `Almost`; `Grown` says that it does so
only below a red node, and that `fix_up` repairs it one level higher. Removal
goes down with `Able`: a tree that is red or has a red left child can lose an
item without losing height. `move_red_left` and `move_red_right` make the child
able (`SplitLeft`, `SplitRight`), at the price of a parent that is out of shape
until the way up; the one shape that `remove_node` meets and that is not able,
left by `move_red_right` at a node whose own key is at most the one to be
removed, is `Leaner`. `Taken` is what the call returns: a good tree of the same
black height, red only if the tree was. Nothing
can be proved of a field of `NIL`, so the proof is also one that the way down
and up never follows a NULL link. `RBBalanced` holds whatever allocation
fails; `TreesBalanced` is the invariant `Balanced` of the run.

A dump of a `bst.c` tree restores it because inserting the items of a sequence
one after the other (`Fed`) is a recursion on its length, and because items
smaller than the root's never meet those that are larger: a sequence of the
one, then of the other, builds both subtrees apart (`NodeFed`). That preorder
and reversed postorder are such sequences is an induction on the tree
(`DumpRestores`). It needs that no node is red, which is not a matter of the
order, so the least set of trees without red nodes, `Plain`, is part of the
invariant.

*Graphs* (`Graphs_proof`). `Lookups` is about numbers of slots and about
probes; the inductive invariant says where entries are (`Sound`: no free slot
on the way from a key's home to its entry), that they are the vertices
(`Contents` is `Numbered`), and what the failed allocations can leave: `Room`.
The map has as many slots as the array has cells or twice as many, and its load
is under 0.7. Hence a full array means a map of twice its size, so that
add_vertex's resizing of the map to the array's new size never changes the
number of slots; and where map_put finds its own load due, the map has no more
slots than the array has cells. That `map_resize` keeps the entries is an
induction over its slots, `MoveKeeps` being the step. `GraphImplements` adds that
links lead to vertices in use, so that neither growth nor a cell that was
filled in and not counted changes an arc, and that a link in front of a list
adds one arc to the bag (`LinkAdds`): the other links have moved one place, and
moving is a bijection.

The algorithms read the graph, so `Cycles` and `Searching` are statements about
lists of vertices, `next`, of any length: they hold for every graph (`n` any
natural number, `next` in `Net(n)`, all that `SuccessorsAre` says of the links).
`LinkedAssumption` says that the run's keys and weight are among the constants',
`WeightAssumption` that weights are integers and DBL_MAX is positive. `Reachable` is the least set with the start that follows
the lists (`ReachableIs`): what is added edge by edge stops growing by the number
of vertices. The recursive functions of the two depth first searches are defined
where the code calls itself and elsewhere too; that they exist is
`RankRecursion`, the rank being the vertices not yet met.

* has_cycle: a search leaves no arc from a finished vertex to one it has not
  finished, and no cycle among those (`Settled`); while it is under way the
  marked path leads to the vertex it is at, so that meeting a marked one is a
  cycle (`Leads`, `SearchTells`, on the number of vertices not yet met).
* topological_sort: `in_degree` counts the arcs from vertices not yet taken, a
  vertex is queued just when that is 0, and its position is after all that lead
  to it (`Counted`, `Sorted`). Hence nothing on a cycle or reached from one is
  ever queued (`CyclesUnsorted`). Conversely a vertex never queued is entered by
  another one; of those that lead to it, one that reaches most is entered by
  one that reaches no more, and so is on a cycle with it (`UnsortedCycles`).
* bfs: the queue is in the order of distances, those not yet taken are at most
  one edge further than the first of them, and the neighbours of those taken are
  in it (`Turned`, `Frontier`); when the number of turns is the number of
  vertices nothing is left to take.
* dfs: what a visit adds to the order is its vertex, then others each with an
  edge from an earlier one, deeper ones first, until all they lead to has been
  shown (`Subtree`); the induction is on what has not been shown
  (`VisitShows`).
* connected_components: edges are on the lists of both ends (`Mutual`, which
  joins the invariant of the run), so that what has no component yet is closed
  (`OutsideClosed`): a flood fills what its start reaches and no more
  (`FloodIs`), and those numbered before are whole components (`Numbering`,
  `Apart`).
* minimum forests (`GraphTrees`): a forest is a set of edges none of which can be
  spared (`Thrifty`); it is a minimum one of `E` when it joins the ends of every
  edge of `E` by edges no heavier than that one (`Bridged`). The reason is a count
  and not an exchange: for each weight `w` it has as many edges up to `w` as any
  forest can have (`BridgedLight`), and of two sets of as many edges the one that
  never has fewer light ones weighs no more (`LightTotal`, `BridgedMinimum`).
* Kruskal: the edges taken bridge those considered, and the union-find's classes
  are their components (`KruskalInv`); they stop early only when one tree joins
  everything (`OneTree`). The parents are read off a breadth first search: who a
  vertex hangs from is nearer to the root, so that the links join what the forest
  joins (`ParentsAre`), and being no more than its edges they are its edges; that
  `LinkEdge` picks a lightest of parallel edges does not hurt (`ParentForest`).
* Prim: keys outside the tree are the lightest links into it (`PrimKeys`), so the
  vertex taken in hangs by a lightest edge of those that leave the tree
  (`CrossingKeys`). `TreeOf` says the tree joins its vertices by edges no heavier
  than any others that do: a way that leaves the tree passes an edge at least as
  heavy as the new one, so it grows by one vertex at a time (`TreeGrows`). When
  no key is below DBL_MAX, no edge below it leaves the tree (`PrimEnds`).
  `GraphPrimConnected` has the hypothesis that all weights are below DBL_MAX,
  and needs it: see run `graphs_prim`.

*Linked sequences* (`Linear_proof`). `Linked` and `TypeOK` are inductive
together. Three lemmas about chains of nodes carry the argument: a node linked
in front, a node linked behind the last, and the first node taken off, whose
memory may hold anything afterwards. `LinearImplements` maps a push, pop, peek
or size to the abstract call and a turn of destroy's loop to a stutter: what
`handed` has gained the chain has lost. That `size` fits in the memory is the
pigeonhole principle on a chain without repetitions.

*Heap* (`Heap_proof`). `HeapOrder` and `TypeOK` are inductive together. Order
everywhere but at `idx` would not be inductive: a swap also moves the old
parent next to `idx`'s children (rising) or a child under `idx`'s parent
(sinking), and it is the clause that `idx`'s children stay below `idx`'s
parent that makes both sound. `HeapTakesLargest` follows when no item is being
sifted: a least cell with a key larger than the root's would have a parent
with a larger key. `HeapImplements` maps the abstract bag to the items of the
cells in use: `BagGrows` and `BagShrinks` add and take the last cell,
`BagSwap` says that a swap of two cells changes no count, so every turn of a
sift loop is a stutter, and growing the array keeps its cells.

*Quick sort* (`Sorts_proof`). `QuickInv` is inductive as it stands, and
each of its parts is needed. The scans stop because there is always an item
not below the pivot at or after `i` and one not above it at or before `j`: at
first the pivot itself, after a swap the items swapped. The halves are smaller
because `j` is below `high` once anything was swapped or passed over, and until
then `i` cannot pass the middle, which is below `high`. A swap moves items of
the current range only, and since the pending ranges are apart, an item outside
it is in order with all of the range or with none to be sorted together.
`QuickSortSorts` follows when no call is pending.

*The other sorts* (`Sorts_proof`). `SortsSort` is `Sorts`: whatever array they
are given, it ends in order with all its items. A recursive function is only
CHOOSEn to satisfy its equation, so each proof first finds some function that
does: `LoopRecursion` for loops, `RankRecursion` where a step looks at smaller
arguments only (a narrower range, a cell further down the heap, the next
gap). Then
`Carried(a, b, l, r)`, that items moved between cells `l` to `r - 1` only and
none was lost, composes along every loop, and what is left is each sort's own
invariant:

* insertion: the first `k` items are in order, and an item slides down to just
  behind those not larger, so those with its key stay in front of it
  (`SlidUp`, `SlidKeeps`). Shell sort's gaps (`ShellGaps`) all lead down to 1,
  and its last pass is an insertion sort: the passes before it move items and
  need no order.
* merge: what is filled in is in line, by key and then by place, and in front
  of all that is still to be read (`InLine`). Each item of the left half comes
  from a lower place than each of the right (`Halves`), which is why
  taking the left one of two equal keys is stable. `MergeSorts` is an induction
  on the width of the range.
* heap: below `root` alone may the order be broken, and the children of `root`
  are below its parent (`HeapBut`, as in `HeapOrder`). `SiftTurn` keeps it and
  `SiftStop` mends it; the root of a heap is its largest (`HeapTop`), so the
  tail grows in order and stays above the heap (`Taken`).

Only model-checked: liveness (`Returns`, `QFReturns`, `ReturnsIfEmpty`,
`Terminates`), which these provers do not reach. The four
runs that are violated show what the code does and are not proved. Where a
proof needs an induction (`TwoTo`, `map_resize`, the copies in the heap's bag,
the trees, the sorts), it is over natural numbers, as the absence of a least
counterexample, or over a set closed under a constructor.

## What is not modelled

* Allocations inside a query of a graph, and in merge sort, when they fail: the
  call answers -1 (0 for connected_components) and neither graph nor array has
  changed. Kruskal then also leaks the lists built so far (`graph.c:549`).
* A start key that is not in the graph: searches and Prim answer 1 at once.
* Kruskal on a graph without edges calls `malloc(0)`, which a C library may
  answer with NULL, and then returns -1; the model has it succeed.
* A `visit` callback that changes the graph it is shown (`graph.c:306`).
* `destroy` of the union-find structures: it frees the arrays and ends the
  behaviour.
* Undefined uses: calling with a destroyed handle, two threads on one handle,
  a callback that changes the container it is called from, a comparison that is
  not an order, a hash that changes. The documents exclude them or say nothing.
* Overflow of `size_t` (`capacity * 2`, `size * 10`): needs tables larger than
  the address space can hold.
* NULL keys given to `put`: passed on to the caller's `hash` and `cmp`.
* Examples, tests and build files.

## Running it

    tlc -config union_find.cfg MCUnionFind.tla
    tlc -config hash_lp.cfg MCHashLP.tla
    tlc -config hash_lp_churn.cfg MCHashLP.tla
    tlc -config hash_sc.cfg MCHashSC.tla
    tlc -config hash_sc_copy.cfg MCHashSC.tla
    tlc -config trees.cfg MCTrees.tla
    tlc -config rbtree_insert.cfg MCTrees.tla
    tlc -config heap.cfg MCHeap.tla
    tlc -config linear.cfg MCLinear.tla
    tlc -config graphs.cfg MCGraphs.tla
    tlc -config graphs_prim.cfg MCGraphs.tla
    tlc -config sorts.cfg MCSorts.tla
    tlapm UnionFind_proof.tla        # and the other *_proof modules
