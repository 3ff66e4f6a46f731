---------------------------- MODULE Graphs_proof ----------------------------
(***************************************************************************)
(* Proofs about graph.c and digraph.c.  For any keys, hash functions and   *)
(* capacities, whatever allocation fails, every vertex is found by its key *)
(* and probes of the map end; the data structure is a graph on keys; and   *)
(* the algorithms are right on whatever graph it holds.                    *)
(***************************************************************************)
EXTENDS MCGraphs, FiniteSetTheorems, SequenceTheorems, WellFoundedInduction, TLAPS

Entry == [key : Key, index : Nat]

\* The slots of an array of entries that are taken, and what they hold.
Taken(es) == {s \in DOMAIN es : es[s] # FREE}
Contents(es) == {es[s] : s \in Taken(es)}

(***************************************************************************)
(* A map in order, for the hash function H: between the home of an entry's *)
(* key and its slot no slot is free, and no key has two entries.           *)
(***************************************************************************)
OnProbe(H, n, es, s) ==
  \E d \in 0 .. n - 1 :
    /\ (H[es[s].key] + d) % n = s
    /\ \A c \in 0 .. d - 1 : es[(H[es[s].key] + c) % n] # FREE

Sound(H, n, es) ==
  /\ n \in Nat
  /\ es \in [0 .. n - 1 -> Entry \cup {FREE}]
  /\ \A s \in Taken(es) : OnProbe(H, n, es, s)
  /\ \A s, t \in Taken(es) : es[s].key = es[t].key => s = t

IsCell(c) == c = [key |-> c.key, adj |-> c.adj]

Numbered == {[key |-> vertices[v].key, index |-> v] : v \in Used}

\* The array, full or not, and how much room the map has beside it.
Shape ==
  /\ hash \in [Key -> Nat] /\ alive \in BOOLEAN
  /\ size \in Nat /\ capacity \in Nat /\ size <= capacity
  /\ DOMAIN vertices = 0 .. capacity - 1
  /\ \A v \in DOMAIN vertices : IsCell(vertices[v])
  /\ \A v \in Used : vertices[v].key \in Key

Mapped ==
  /\ Sound(hash, Slots(map), map.entries)
  /\ Contents(map.entries) = Numbered
  /\ map.size = size /\ Cardinality(Taken(map.entries)) = size

(***************************************************************************)
(* The map has as many slots as the array has cells, or twice as many, and *)
(* stays under its load limit.  So a full array means a map of twice its   *)
(* size: growing to twice the array never shrinks the map.                 *)
(***************************************************************************)
Room ==
  IF alive
  THEN /\ capacity > 0
       /\ Slots(map) \in {capacity, capacity * 2}
       /\ size * 10 < Slots(map) * 7
  ELSE size = 0 /\ capacity = 0 /\ Slots(map) = 0

IInv == Shape /\ Mapped /\ Room

-----------------------------------------------------------------------------
(***************************************************************************)
(* Numbers.  Induction on the natural numbers is here for a set: the least *)
(* number outside would have a predecessor inside.                         *)
(***************************************************************************)
LEMMA LeastOf ==
  ASSUME NEW T, T \subseteq Nat, T # {}
  PROVE  \E n \in T : \A m \in T : n <= m
<1>1. PICK n \in T : \A m \in T : ~(<<m, n>> \in OpToRel(<, Nat))
  BY NatLessThanWellFounded, WFMin
<1>2. n \in Nat /\ \A m \in T : m \in Nat /\ ~(m < n)
  BY <1>1 DEF OpToRel
<1>3. \A m \in T : n <= m
  BY <1>2
<1>4. QED
  BY <1>3

LEMMA MinIs ==
  ASSUME NEW T, T \subseteq Nat, T # {}
  PROVE  Min(T) \in T /\ \A m \in T : Min(T) <= m
BY LeastOf DEF Min

LEMMA Induction ==
  ASSUME NEW S, 0 \in S, \A n \in Nat : n \in S => n + 1 \in S
  PROVE  Nat \subseteq S
<1> DEFINE wrong == Nat \ S
<1>1. ASSUME wrong # {} PROVE FALSE
  <2>1. PICK n \in wrong : \A m \in wrong : n <= m
    BY <1>1, LeastOf
  <2>2. n \in Nat /\ n \notin S /\ n # 0
    BY <2>1
  <2>3. n - 1 \in Nat /\ ~(n <= n - 1) /\ (n - 1) + 1 = n
    BY <2>2
  <2>4. QED
    BY <2>1, <2>2, <2>3
<1>2. QED
  BY <1>1

\* A walk of n steps round n slots, from wherever it starts, meets them all.
LEMMA Round ==
  ASSUME NEW n \in Nat \ {0}, NEW h \in Nat
  PROVE  /\ \A d \in Nat : (h + d) % n \in 0 .. n - 1
         /\ \A s \in 0 .. n - 1 : \E d \in 0 .. n - 1 : (h + d) % n = s
<1>1. \A d \in Nat : (h + d) % n \in 0 .. n - 1
  OBVIOUS
<1>2. ASSUME NEW s \in 0 .. n - 1
      PROVE  \E d \in 0 .. n - 1 : (h + d) % n = s
  <2> DEFINE r == h % n
             q == h \div n
  <2>1. r \in 0 .. n - 1 /\ q \in Nat /\ h = q * n + r
    OBVIOUS
  <2>2. \A p \in Nat : (p * n + s) % n = s
    OBVIOUS
  <2> HIDE DEF r, q
  <2>3. CASE s >= r
    <3>1. s - r \in 0 .. n - 1 /\ h + (s - r) = q * n + s
      BY <2>1, <2>3
    <3>2. QED
      BY <2>1, <2>2, <3>1
  <2>4. CASE s < r
    <3>1. s - r + n \in 0 .. n - 1 /\ h + (s - r + n) = (q + 1) * n + s /\ q + 1 \in Nat
      BY <2>1, <2>4
    <3>2. QED
      BY <2>2, <3>1
  <2>5. QED
    BY <2>1, <2>3, <2>4
<1>3. QED
  BY <1>1, <1>2

-----------------------------------------------------------------------------
(***************************************************************************)
(* The map alone.                                                          *)
(***************************************************************************)
Ordered(m) ==
  /\ Sound(hash, Slots(m), m.entries)
  /\ m.size = Cardinality(Taken(m.entries))

Keyed(m, k) == {s \in Taken(m.entries) : m.entries[s].key = k}

LEMMA MapShape ==
  ASSUME NEW m, Ordered(m)
  PROVE  /\ Slots(m) \in Nat /\ DOMAIN m.entries = 0 .. Slots(m) - 1
         /\ \A s \in Taken(m.entries) : s \in 0 .. Slots(m) - 1 /\ m.entries[s] \in Entry
         /\ FreeIn(m) = (0 .. Slots(m) - 1) \ Taken(m.entries)
         /\ IsFiniteSet(Taken(m.entries)) /\ Cardinality(Taken(m.entries)) \in Nat
         /\ Slots(m) - Cardinality(FreeIn(m)) = Cardinality(Taken(m.entries))
<1> DEFINE all == 0 .. Slots(m) - 1
<1>1. Slots(m) \in Nat /\ DOMAIN m.entries = all
  BY DEF Ordered, Sound
<1>2. \A s \in Taken(m.entries) : s \in all /\ m.entries[s] \in Entry
  BY <1>1 DEF Ordered, Sound, Taken
<1>3. FreeIn(m) = all \ Taken(m.entries)
  BY <1>1 DEF FreeIn, Taken
<1>4. IsFiniteSet(all) /\ Cardinality(all) = Slots(m)
  BY <1>1, FS_Interval
<1>5. Taken(m.entries) \subseteq all /\ all \cap Taken(m.entries) = Taken(m.entries)
  BY <1>2
<1>6. IsFiniteSet(Taken(m.entries)) /\ Cardinality(Taken(m.entries)) \in Nat
  BY <1>4, <1>5, FS_Subset, FS_CardinalityType
<1>7. Cardinality(FreeIn(m)) = Slots(m) - Cardinality(Taken(m.entries))
  <2>1. Cardinality(all \ Taken(m.entries)) =
          Cardinality(all) - Cardinality(all \cap Taken(m.entries))
    BY <1>4, FS_Difference
  <2>2. QED
    BY <1>3, <1>4, <1>5, <2>1
<1>8. Slots(m) - Cardinality(FreeIn(m)) = Cardinality(Taken(m.entries))
  BY <1>1, <1>6, <1>7
<1>9. QED
  BY <1>1, <1>2, <1>3, <1>6, <1>8

LEMMA FreeLeft ==
  ASSUME NEW m, Ordered(m), m.size < Slots(m)
  PROVE  FreeIn(m) # {} /\ FreeIn(m) \subseteq 0 .. Slots(m) - 1
<1>1. Slots(m) - Cardinality(FreeIn(m)) # Slots(m) /\ Slots(m) \in Nat
  BY MapShape DEF Ordered
<1>2. Cardinality(FreeIn(m)) # 0
  BY <1>1
<1>3. FreeIn(m) # {}
  BY <1>2, FS_EmptySet
<1>4. QED
  BY <1>3, MapShape

LEMMA ProbeIs ==
  ASSUME NEW m, Slots(m) \in Nat \ {0}, NEW k, hash[k] \in Nat,
         NEW stops, stops \subseteq 0 .. Slots(m) - 1, stops # {}
  PROVE  \E d \in 0 .. Slots(m) - 1 :
           /\ Probe(m, k, stops) = (hash[k] + d) % Slots(m)
           /\ Probe(m, k, stops) \in stops
           /\ \A c \in 0 .. d - 1 : (hash[k] + c) % Slots(m) \notin stops
<1> DEFINE n == Slots(m)
           at(d) == (hash[k] + d) % n
           T == {d \in 0 .. n - 1 : at(d) \in stops}
<1>1. T \subseteq Nat
  OBVIOUS
<1>2. T # {}
  <2>1. PICK s \in stops : TRUE
    OBVIOUS
  <2>2. s \in 0 .. n - 1
    BY <2>1
  <2>3. PICK d \in 0 .. n - 1 : (hash[k] + d) % n = s
    BY <2>2, Round
  <2>4. QED
    BY <2>1, <2>3
<1>3. Min(T) \in T /\ \A c \in T : Min(T) <= c
  BY <1>1, <1>2, MinIs
<1>4. Probe(m, k, stops) = at(Min(T))
  BY DEF Probe
<1>5. Min(T) \in 0 .. n - 1 /\ at(Min(T)) \in stops
  BY <1>3
<1>6. \A c \in 0 .. Min(T) - 1 : at(c) \notin stops
  <2> SUFFICES ASSUME NEW c \in 0 .. Min(T) - 1, at(c) \in stops PROVE FALSE
    OBVIOUS
  <2>1. c \in 0 .. n - 1 /\ ~(Min(T) <= c)
    BY <1>5
  <2>2. QED
    BY <1>3, <2>1
<1>7. QED
  BY <1>4, <1>5, <1>6

(***************************************************************************)
(* A probe for a key that has an entry ends there: before it on the way no *)
(* slot is free, and none has the key.                                     *)
(***************************************************************************)
LEMMA LookupFinds ==
  ASSUME NEW m, Ordered(m), NEW k, hash[k] \in Nat, NEW s \in Keyed(m, k)
  PROVE  Lookup(m, k) = s
<1> DEFINE n == Slots(m)
           stops == FreeIn(m) \cup {x \in DOMAIN m.entries \ FreeIn(m) : m.entries[x].key = k}
<1>1. /\ s \in 0 .. n - 1 /\ n \in Nat /\ DOMAIN m.entries = 0 .. n - 1
      /\ FreeIn(m) = (0 .. n - 1) \ Taken(m.entries)
      /\ s \in Taken(m.entries) /\ m.entries[s].key = k
  BY MapShape DEF Keyed
<1>2. n \in Nat \ {0}
  BY <1>1
<1>3. stops = FreeIn(m) \cup Keyed(m, k)
  BY <1>1, MapShape DEF Keyed
<1>4. stops \subseteq 0 .. n - 1 /\ stops # {} /\ s \in stops
  BY <1>1, <1>3
<1>5. Lookup(m, k) = Probe(m, k, stops)
  BY DEF Lookup
<1> HIDE DEF stops
<1>6. PICK d \in 0 .. n - 1 :
        /\ Lookup(m, k) = (hash[k] + d) % n
        /\ Lookup(m, k) \in stops
        /\ \A c \in 0 .. d - 1 : (hash[k] + c) % n \notin stops
  BY <1>2, <1>4, <1>5, ProbeIs
<1>7. OnProbe(hash, n, m.entries, s)
  BY <1>1 DEF Ordered, Sound
<1>8. PICK e \in 0 .. n - 1 :
        /\ (hash[k] + e) % n = s
        /\ \A c \in 0 .. e - 1 : m.entries[(hash[k] + c) % n] # FREE
  BY <1>1, <1>7 DEF OnProbe
<1>9. CASE Lookup(m, k) \in Keyed(m, k)
  BY <1>1, <1>9 DEF Keyed, Ordered, Sound
<1>10. CASE Lookup(m, k) \in FreeIn(m)
  <2>1. m.entries[(hash[k] + d) % n] = FREE
    BY <1>6, <1>10 DEF FreeIn
  <2>2. ~(d < e)
    BY <1>8, <2>1
  <2>3. ~(e < d)
    BY <1>4, <1>6, <1>8
  <2>4. d = e
    BY <2>2, <2>3
  <2>5. QED
    BY <1>6, <1>8, <2>4
<1>11. QED
  BY <1>3, <1>6, <1>9, <1>10

LEMMA LookupMisses ==
  ASSUME NEW m, Ordered(m), m.size < Slots(m), NEW k, hash[k] \in Nat, Keyed(m, k) = {}
  PROVE  m.entries[Lookup(m, k)] = FREE
<1> DEFINE n == Slots(m)
           stops == FreeIn(m) \cup {x \in DOMAIN m.entries \ FreeIn(m) : m.entries[x].key = k}
<1>1. n \in Nat \ {0} /\ FreeIn(m) \subseteq 0 .. n - 1 /\ FreeIn(m) # {}
  BY FreeLeft, MapShape
<1>2. stops = FreeIn(m)
  BY MapShape DEF Keyed
<1>3. Lookup(m, k) = Probe(m, k, FreeIn(m))
  BY <1>2 DEF Lookup
<1>4. Lookup(m, k) \in FreeIn(m)
  BY <1>1, <1>3, ProbeIs
<1>5. QED
  BY <1>4 DEF FreeIn

LEMMA EmptyMapOrdered ==
  ASSUME NEW n \in Nat
  PROVE  /\ Ordered(EmptyMap(n)) /\ Slots(EmptyMap(n)) = n
         /\ Taken(EmptyMap(n).entries) = {} /\ Contents(EmptyMap(n).entries) = {}
         /\ EmptyMap(n).size = 0
<1> DEFINE es == [s \in 0 .. n - 1 |-> FREE]
<1>1. EmptyMap(n).entries = es /\ EmptyMap(n).size = 0
  BY DEF EmptyMap
<1>2. Slots(EmptyMap(n)) = n
  BY <1>1, FS_Interval DEF Slots
<1>3. Taken(es) = {} /\ Contents(es) = {}
  BY DEF Taken, Contents
<1>4. Sound(hash, n, es)
  BY <1>3 DEF Sound
<1>5. QED
  BY <1>1, <1>2, <1>3, <1>4, FS_EmptySet DEF Ordered

\* An absent key goes to the first free slot on its own probe: it can be
\* found there, and taking a free slot breaks no other probe.
LEMMA InsertKeeps ==
  ASSUME NEW m, Ordered(m), m.size < Slots(m),
         hash \in [Key -> Nat], NEW k \in Key, NEW index \in Nat, Keyed(m, k) = {}
  PROVE  /\ Ordered(Insert(m, k, index)) /\ Slots(Insert(m, k, index)) = Slots(m)
         /\ Contents(Insert(m, k, index).entries) =
              Contents(m.entries) \cup {[key |-> k, index |-> index]}
         /\ Insert(m, k, index).size = m.size + 1
<1> DEFINE n == Slots(m)
           s == Probe(m, k, FreeIn(m))
           entry == [key |-> k, index |-> index]
           es == [m.entries EXCEPT ![s] = entry]
<1>1. n \in Nat \ {0} /\ FreeIn(m) \subseteq 0 .. n - 1 /\ FreeIn(m) # {}
  BY FreeLeft, MapShape
<1> hash[k] \in Nat
  OBVIOUS
<1>2. PICK d \in 0 .. n - 1 :
        /\ s = (hash[k] + d) % n
        /\ s \in FreeIn(m)
        /\ \A c \in 0 .. d - 1 : (hash[k] + c) % n \notin FreeIn(m)
  BY <1>1, ProbeIs
<1>3. Insert(m, k, index) = [entries |-> es, size |-> m.size + 1]
  BY DEF Insert
<1> HIDE DEF s
<1>4. /\ s \in 0 .. n - 1 /\ s \notin Taken(m.entries) /\ entry \in Entry /\ entry # FREE
      /\ m.entries \in [0 .. n - 1 -> Entry \cup {FREE}]
  BY <1>1, <1>2, FreeAssumption DEF FreeIn, Taken, Entry, Ordered, Sound
<1>5. /\ es \in [0 .. n - 1 -> Entry \cup {FREE}] /\ es[s] = entry
      /\ \A x \in 0 .. n - 1 : x # s => es[x] = m.entries[x]
  BY <1>4
<1>6. Taken(es) = Taken(m.entries) \cup {s}
  BY <1>4, <1>5 DEF Taken
<1> HIDE DEF es
<1>7. Contents(es) = Contents(m.entries) \cup {entry}
  <2>1. \A x \in Taken(m.entries) : x \in 0 .. n - 1 /\ x # s /\ es[x] = m.entries[x]
    BY <1>4, <1>5, MapShape
  <2> HIDE DEF entry
  <2>2. Contents(es) \subseteq Contents(m.entries) \cup {entry}
    BY <1>5, <1>6, <2>1 DEF Contents
  <2>3. Contents(m.entries) \cup {entry} \subseteq Contents(es)
    BY <1>5, <1>6, <2>1 DEF Contents
  <2>4. QED
    BY <2>2, <2>3
<1>8. ASSUME NEW x \in 0 .. n - 1, m.entries[x] # FREE \/ x = s PROVE es[x] # FREE
  BY <1>4, <1>5, <1>8
<1>9. ASSUME NEW t \in Taken(es) PROVE OnProbe(hash, n, es, t)
  <2>1. CASE t = s
    <3>1. \A c \in 0 .. d - 1 : es[(hash[k] + c) % n] # FREE
      <4> SUFFICES ASSUME NEW c \in 0 .. d - 1 PROVE es[(hash[k] + c) % n] # FREE
        OBVIOUS
      <4>1. (hash[k] + c) % n \in 0 .. n - 1
        <5>1. c \in Nat
          OBVIOUS
        <5>2. QED
          BY <1>1, <5>1, Round
      <4>2. m.entries[(hash[k] + c) % n] # FREE
        BY <1>2, <1>4, <4>1 DEF FreeIn
      <4>3. QED
        BY <1>8, <4>1, <4>2
    <3>2. es[t].key = k
      BY <1>5, <2>1
    <3>3. QED
      BY <1>2, <2>1, <3>1, <3>2 DEF OnProbe
  <2>2. CASE t # s
    <3>1. t \in Taken(m.entries) /\ t \in 0 .. n - 1 /\ es[t] = m.entries[t]
      BY <1>5, <1>6, <2>2, MapShape
    <3> DEFINE h == hash[es[t].key]
    <3>2. h = hash[m.entries[t].key]
      BY <3>1
    <3>3. OnProbe(hash, n, m.entries, t)
      BY <3>1 DEF Ordered, Sound
    <3> HIDE DEF h
    <3>4. PICK e \in 0 .. n - 1 :
            /\ (h + e) % n = t
            /\ \A c \in 0 .. e - 1 : m.entries[(h + c) % n] # FREE
      BY <3>2, <3>3 DEF OnProbe
    <3>5. \A c \in 0 .. e - 1 : es[(h + c) % n] # FREE
      <4> SUFFICES ASSUME NEW c \in 0 .. e - 1 PROVE es[(h + c) % n] # FREE
        OBVIOUS
      <4>1. m.entries[(h + c) % n] # FREE
        BY <3>4
      <4>2. h \in Nat /\ c \in Nat
        BY <3>2, <3>1, MapShape DEF Entry
      <4>3. (h + c) % n \in 0 .. n - 1
        BY <1>1, <4>2, Round
      <4>4. QED
        BY <1>8, <4>1, <4>3
    <3>6. QED
      BY <3>4, <3>5 DEF OnProbe, h
  <2>3. QED
    BY <2>1, <2>2
<1>10. \A x, y \in Taken(es) : es[x].key = es[y].key => x = y
  <2>1. \A x \in Taken(m.entries) : es[x] = m.entries[x] /\ es[x].key # k
    BY <1>4, <1>5, MapShape DEF Keyed
  <2>2. es[s].key = k
    BY <1>5
  <2>3. \A x, y \in Taken(m.entries) : m.entries[x].key = m.entries[y].key => x = y
    BY DEF Ordered, Sound
  <2>4. QED
    BY <1>6, <2>1, <2>2, <2>3
<1>11. Cardinality(Taken(es)) = m.size + 1
  BY <1>4, <1>6, MapShape, FS_AddElement DEF Ordered
<1>12. Slots(Insert(m, k, index)) = n
  <2>1. DOMAIN es = DOMAIN m.entries
    BY <1>4, <1>5
  <2>2. QED
    BY <1>3, <2>1 DEF Slots
<1>13. Ordered(Insert(m, k, index))
  BY <1>1, <1>3, <1>5, <1>9, <1>10, <1>11, <1>12 DEF Ordered, Sound
<1>14. QED
  BY <1>3, <1>7, <1>12, <1>13

(***************************************************************************)
(* Resizing.  The recursion of map_resize has a solution, and after slot s *)
(* the new map holds exactly the entries of the slots below s.             *)
(***************************************************************************)
Moved(m, s, before) ==
  LET e == m.entries[s - 1]
  IN IF e = FREE THEN before ELSE Insert(before, e.key, e.index)

Moves(m, n, top, f) ==
  f = [s \in 0 .. top |-> IF s = 0 THEN EmptyMap(n) ELSE Moved(m, s, f[s - 1])]

LEMMA MovesExist ==
  ASSUME NEW m, NEW n
  PROVE  \A top \in Nat : \E f : Moves(m, n, top, f)
<1> DEFINE S == {top \in Nat : \E f : Moves(m, n, top, f)}
<1>1. 0 \in S
  <2>1. Moves(m, n, 0, [s \in 0 .. 0 |-> EmptyMap(n)])
    BY DEF Moves
  <2>2. QED
    BY <2>1
<1>2. ASSUME NEW top \in Nat, top \in S PROVE top + 1 \in S
  <2>1. PICK f : Moves(m, n, top, f)
    BY <1>2
  <2> DEFINE g == [s \in 0 .. top + 1 |-> IF s = top + 1 THEN Moved(m, s, f[top]) ELSE f[s]]
  <2>2. \A s \in 0 .. top : f[s] = (IF s = 0 THEN EmptyMap(n) ELSE Moved(m, s, f[s - 1]))
    BY <2>1 DEF Moves
  <2>3. ASSUME NEW s \in 0 .. top + 1
        PROVE  g[s] = (IF s = 0 THEN EmptyMap(n) ELSE Moved(m, s, g[s - 1]))
    <3>1. CASE s = top + 1
      <4>1. top \in 0 .. top + 1 /\ g[top] = f[top] /\ s - 1 = top /\ s # 0
        BY <3>1
      <4>2. QED
        BY <3>1, <4>1
    <3>2. CASE s \in 0 .. top
      <4>1. g[s] = f[s] /\ (s # 0 => g[s - 1] = f[s - 1])
        BY <3>2
      <4>2. QED
        BY <2>2, <3>2, <4>1
    <3>3. QED
      BY <3>1, <3>2
  <2>4. Moves(m, n, top + 1, g)
    BY <2>3 DEF Moves
  <2>5. QED
    BY <2>4
<1> HIDE DEF S
<1>3. Nat \subseteq S
  BY <1>1, <1>2, Induction
<1>4. QED
  BY <1>3 DEF S

LEMMA ResizeIs ==
  ASSUME NEW m, Slots(m) \in Nat, NEW n
  PROVE  \E f : Moves(m, n, Slots(m), f) /\ map_resize(m, n) = f[Slots(m)]
<1> DEFINE f == CHOOSE f : Moves(m, n, Slots(m), f)
<1>1. Moves(m, n, Slots(m), f)
  BY MovesExist
<1>2. map_resize(m, n) = f[Slots(m)]
  BY DEF map_resize, Moves, Moved
<1>3. QED
  BY <1>1, <1>2

Below(m, s) == {t \in Taken(m.entries) : t < s}

Copied(m, n, s, r) ==
  /\ Ordered(r) /\ Slots(r) = n
  /\ Contents(r.entries) = {m.entries[t] : t \in Below(m, s)}
  /\ r.size = Cardinality(Below(m, s))

LEMMA MoveKeeps ==
  ASSUME NEW m, Ordered(m), hash \in [Key -> Nat], NEW n \in Nat, m.size < n,
         NEW s \in 1 .. Slots(m), NEW r, Copied(m, n, s - 1, r)
  PROVE  Copied(m, n, s, Moved(m, s, r))
<1> DEFINE e == m.entries[s - 1]
<1>1. /\ s - 1 \in 0 .. Slots(m) - 1 /\ DOMAIN m.entries = 0 .. Slots(m) - 1
      /\ Taken(m.entries) \subseteq 0 .. Slots(m) - 1
      /\ Below(m, s - 1) \subseteq Taken(m.entries)
  BY MapShape DEF Below
<1>2. CASE e = FREE
  <2>1. Below(m, s) = Below(m, s - 1)
    BY <1>1, <1>2 DEF Below, Taken
  <2>2. QED
    BY <1>2, <2>1 DEF Copied, Moved
<1>3. CASE e # FREE
  <2>1. s - 1 \in Taken(m.entries) /\ s - 1 \notin Below(m, s - 1)
    BY <1>1, <1>3 DEF Taken, Below
  <2>2. Below(m, s) = Below(m, s - 1) \cup {s - 1}
    BY <1>1, <2>1 DEF Below
  <2>3. e \in Entry
    BY <2>1, MapShape
  <2>4. e.key \in Key /\ e.index \in Nat /\ e = [key |-> e.key, index |-> e.index]
    BY <2>3 DEF Entry
  <2>5. IsFiniteSet(Below(m, s - 1)) /\ Cardinality(Below(m, s)) = r.size + 1
    <3>1. IsFiniteSet(Below(m, s - 1))
      BY <1>1, MapShape, FS_Subset
    <3>2. Cardinality(Below(m, s)) = Cardinality(Below(m, s - 1)) + 1
      BY <2>1, <2>2, <3>1, FS_AddElement
    <3>3. QED
      BY <3>1, <3>2 DEF Copied
  <2>6. r.size < Slots(r)
    <3>1. Cardinality(Below(m, s - 1)) <= Cardinality(Taken(m.entries))
      BY <1>1, MapShape, FS_Subset
    <3>2. r.size <= m.size /\ r.size \in Nat /\ m.size \in Nat
      BY <3>1, <2>5, MapShape, FS_CardinalityType DEF Copied, Ordered
    <3>3. QED
      BY <3>2 DEF Copied
  <2>7. Keyed(r, e.key) = {}
    <3> SUFFICES ASSUME NEW t \in Taken(r.entries), r.entries[t].key = e.key PROVE FALSE
      BY DEF Keyed
    <3>1. r.entries[t] \in Contents(r.entries)
      BY DEF Contents
    <3>2. PICK u \in Below(m, s - 1) : r.entries[t] = m.entries[u]
      BY <3>1 DEF Copied
    <3>3. u \in Taken(m.entries) /\ u # s - 1 /\ m.entries[u].key = e.key
      BY <1>1, <2>1, <3>2
    <3>4. QED
      BY <2>1, <3>3 DEF Ordered, Sound
  <2>8. Moved(m, s, r) = Insert(r, e.key, e.index)
    BY <1>3 DEF Moved
  <2>9. Ordered(r) /\ Slots(r) = n /\ Contents(r.entries) = {m.entries[t] : t \in Below(m, s - 1)}
    BY DEF Copied
  <2> HIDE DEF e
  <2>10. /\ Ordered(Moved(m, s, r)) /\ Slots(Moved(m, s, r)) = n
         /\ Contents(Moved(m, s, r).entries) = Contents(r.entries) \cup {e}
         /\ Moved(m, s, r).size = r.size + 1
    BY <2>4, <2>6, <2>7, <2>8, <2>9, InsertKeeps
  <2>11. Contents(r.entries) \cup {e} = {m.entries[t] : t \in Below(m, s)}
    BY <2>2, <2>9 DEF e
  <2>12. QED
    BY <2>5, <2>10, <2>11 DEF Copied
<1>4. QED
  BY <1>2, <1>3

LEMMA ResizeKeeps ==
  ASSUME NEW m, Ordered(m), hash \in [Key -> Nat], NEW n \in Nat, m.size < n
  PROVE  /\ Ordered(map_resize(m, n)) /\ Slots(map_resize(m, n)) = n
         /\ Contents(map_resize(m, n).entries) = Contents(m.entries)
         /\ map_resize(m, n).size = m.size
<1>1. Slots(m) \in Nat
  BY MapShape
<1>2. PICK f : Moves(m, n, Slots(m), f) /\ map_resize(m, n) = f[Slots(m)]
  BY <1>1, ResizeIs
<1>3. \A s \in 0 .. Slots(m) :
        f[s] = IF s = 0 THEN EmptyMap(n) ELSE Moved(m, s, f[s - 1])
  BY <1>1, <1>2 DEF Moves
<1> DEFINE S == {s \in Nat : s <= Slots(m) => Copied(m, n, s, f[s])}
<1>4. 0 \in S
  <2>1. f[0] = EmptyMap(n)
    BY <1>1, <1>3
  <2>2. Below(m, 0) = {}
    <3>1. \A t \in Taken(m.entries) : ~(t < 0)
      BY MapShape
    <3>2. QED
      BY <3>1 DEF Below
  <2>3. {m.entries[t] : t \in Below(m, 0)} = {}
    BY <2>2
  <2>4. Copied(m, n, 0, f[0])
    BY <2>1, <2>2, <2>3, EmptyMapOrdered, FS_EmptySet DEF Copied
  <2>5. QED
    BY <2>4
<1>5. ASSUME NEW s \in Nat, s \in S PROVE s + 1 \in S
  <2> SUFFICES ASSUME s + 1 <= Slots(m) PROVE Copied(m, n, s + 1, f[s + 1])
    OBVIOUS
  <2>1. s + 1 \in 1 .. Slots(m) /\ (s + 1) - 1 = s /\ s + 1 # 0
    BY <1>1
  <2>2. Copied(m, n, s, f[s])
    BY <1>1, <1>5
  <2>3. Copied(m, n, (s + 1) - 1, f[s])
    BY <2>1, <2>2
  <2>4. f[s + 1] = Moved(m, s + 1, f[s])
    BY <1>3, <2>1
  <2>5. QED
    BY <2>1, <2>3, <2>4, MoveKeeps
<1> HIDE DEF S
<1>6. Nat \subseteq S
  BY <1>4, <1>5, Induction
<1>7. Copied(m, n, Slots(m), map_resize(m, n))
  BY <1>1, <1>2, <1>6 DEF S
<1>8. Below(m, Slots(m)) = Taken(m.entries)
  BY MapShape DEF Below
<1>9. QED
  BY <1>7, <1>8 DEF Copied, Ordered, Contents

-----------------------------------------------------------------------------
(***************************************************************************)
(* The map and the array together.                                         *)
(***************************************************************************)
LEMMA MapInOrder ==
  ASSUME IInv
  PROVE  /\ Ordered(map) /\ Contents(map.entries) = Numbered /\ map.size = size
         /\ hash \in [Key -> Nat] /\ size \in Nat /\ capacity \in Nat /\ size <= capacity
         /\ Slots(map) \in Nat
BY MapShape DEF IInv, Shape, Mapped, Ordered, Sound

\* What map_get answers is the index of the one vertex with the key.
LEMMA MapGet ==
  ASSUME IInv, alive, NEW k \in Key
  PROVE  /\ map_get(k) = {v \in Used : vertices[v].key = k}
         /\ \A u, v \in map_get(k) : u = v
<1>1. /\ Ordered(map) /\ Contents(map.entries) = Numbered /\ map.size < Slots(map)
      /\ hash[k] \in Nat
  <2>1. size * 10 < Slots(map) * 7
    BY DEF IInv, Room
  <2>2. QED
    BY <2>1, MapInOrder
<1>2. ASSUME NEW v \in Used, vertices[v].key = k
      PROVE  map_get(k) = {v}
  <2>1. [key |-> k, index |-> v] \in Contents(map.entries)
    BY <1>1, <1>2 DEF Numbered
  <2>2. PICK s \in Taken(map.entries) : map.entries[s] = [key |-> k, index |-> v]
    BY <2>1 DEF Contents
  <2>3. Lookup(map, k) = s
    BY <1>1, <2>2, LookupFinds DEF Keyed
  <2>4. map.entries[s] # FREE /\ map.entries[s].key = k /\ map.entries[s].index = v
    BY <2>2 DEF Taken
  <2>5. QED
    BY <2>3, <2>4 DEF map_get
<1>3. ASSUME \A v \in Used : vertices[v].key # k
      PROVE  map_get(k) = {}
  <2>1. Keyed(map, k) = {}
    <3> SUFFICES ASSUME NEW s \in Taken(map.entries), map.entries[s].key = k PROVE FALSE
      BY DEF Keyed
    <3>1. map.entries[s] \in Numbered
      BY <1>1 DEF Contents
    <3>2. PICK v \in Used : map.entries[s] = [key |-> vertices[v].key, index |-> v]
      BY <3>1 DEF Numbered
    <3>3. QED
      BY <1>3, <3>2
  <2>2. map.entries[Lookup(map, k)] = FREE
    BY <1>1, <2>1, LookupMisses
  <2>3. QED
    BY <2>2 DEF map_get
<1>4. CASE \E v \in Used : vertices[v].key = k
  BY <1>2, <1>4
<1>5. CASE \A v \in Used : vertices[v].key # k
  BY <1>3, <1>5
<1>6. QED
  BY <1>4, <1>5

LEMMA MappedHolds == IInv => Lookups
<1> SUFFICES ASSUME IInv PROVE Lookups
  OBVIOUS
<1>1. /\ Ordered(map) /\ map.size = size /\ Cardinality(Taken(map.entries)) = size
      /\ size \in Nat /\ capacity \in Nat /\ size <= capacity /\ Slots(map) \in Nat
  BY MapInOrder DEF Ordered
<1>2. ProbesEnd
  <2> SUFFICES ASSUME alive PROVE FreeIn(map) # {}
    BY DEF ProbesEnd
  <2>1. size * 10 < Slots(map) * 7
    BY DEF IInv, Room
  <2>2. map.size < Slots(map)
    BY <1>1, <2>1
  <2>3. QED
    BY <1>1, <2>2, FreeLeft
<1>3. Indexed
  <2> SUFFICES ASSUME NEW v \in Used PROVE map_get(vertices[v].key) = {v}
    BY DEF Indexed
  <2>1. alive /\ vertices[v].key \in Key
    BY DEF IInv, Room, Shape, Used
  <2>2. v \in map_get(vertices[v].key)
    BY <2>1, MapGet
  <2>3. QED
    BY <2>1, <2>2, MapGet
<1>4. Slots(map) - Cardinality(FreeIn(map)) = size
  BY <1>1, MapShape
<1>5. capacity <= Slots(map) /\ Slots(map) <= capacity * 2
  BY <1>1 DEF IInv, Room
<1>6. QED
  BY <1>1, <1>2, <1>3, <1>4, <1>5 DEF Lookups

-----------------------------------------------------------------------------
\* The invariant, action by action.
LEMMA CellsCount ==
  ASSUME NEW n \in Nat
  PROVE  Cardinality(0 .. n - 1) = n
BY FS_Interval

LEMMA InitInv == Init => IInv
<1> SUFFICES ASSUME Init PROVE IInv
  OBVIOUS
<1>1. vertices = UnusedCells(0) /\ DOMAIN vertices = 0 .. -1 /\ 0 .. -1 = {}
  BY DEF Init, UnusedCells
<1>2. capacity = 0
  BY <1>1, FS_EmptySet DEF capacity
<1>3. DOMAIN vertices = 0 .. capacity - 1 /\ \A v \in DOMAIN vertices : IsCell(vertices[v])
  BY <1>1, <1>2
<1>4. Used = {} /\ Numbered = {}
  BY DEF Init, Used, Numbered
<1>5. Shape
  <2>1. hash \in [Key -> Nat] /\ size = 0
    BY HashAssumption DEF Init
  <2>2. alive \in BOOLEAN
    BY DEF Init
  <2>3. QED
    BY <1>2, <1>3, <1>4, <2>1, <2>2 DEF Shape
<1>6. Mapped
  BY <1>4, EmptyMapOrdered, FS_EmptySet DEF Init, Mapped, Ordered
<1>7. Room
  BY <1>2, EmptyMapOrdered DEF Init, Room
<1>8. QED
  BY <1>5, <1>6, <1>7 DEF IInv

\* Calls that answer and change nothing.
LEMMA Still ==
  ASSUME IInv, UNCHANGED <<hash, alive, vertices, size, map>>
  PROVE  IInv'
<1>1. capacity' = capacity /\ Used' = Used
  BY DEF capacity, Used
<1>2. Shape'
  BY <1>1 DEF IInv, Shape
<1>3. Mapped'
  BY <1>1 DEF IInv, Mapped, Numbered
<1>4. Room'
  BY <1>1 DEF IInv, Room
<1>5. QED
  BY <1>2, <1>3, <1>4 DEF IInv

LEMMA CreateInv ==
  ASSUME IInv, NEW n \in Capacities, Create(n)
  PROVE  IInv'
<1>1. CASE UNCHANGED <<alive, vertices, map>>
  BY <1>1, Still DEF Create
<1>2. CASE alive' = TRUE /\ vertices' = UnusedCells(n) /\ map' = EmptyMap(n)
  <2>1. n \in Nat \ {0} /\ size = 0 /\ size' = 0 /\ hash' = hash
    BY CapacityAssumption DEF Create, IInv, Room
  <2>2. /\ DOMAIN vertices' = 0 .. n - 1 /\ capacity' = n
        /\ \A v \in DOMAIN vertices' : IsCell(vertices'[v])
    BY <1>2, <2>1, CellsCount DEF UnusedCells, Unused, capacity, IsCell
  <2>3. Used' = {} /\ Numbered' = {}
    BY <2>1 DEF Used, Numbered
  <2>4. Shape'
    BY <1>2, <2>1, <2>2, <2>3 DEF IInv, Shape
  <2>5. Mapped'
    BY <1>2, <2>1, <2>3, EmptyMapOrdered, FS_EmptySet DEF Mapped, Ordered
  <2>6. Room'
    BY <1>2, <2>1, <2>2, EmptyMapOrdered DEF Room
  <2>7. QED
    BY <2>4, <2>5, <2>6 DEF IInv
<1>3. QED
  BY <1>1, <1>2 DEF Create

LEMMA DestroyInv ==
  ASSUME IInv, Destroy
  PROVE  IInv'
<1>1. /\ alive' = FALSE /\ vertices' = UnusedCells(0) /\ size' = 0 /\ map' = EmptyMap(0)
      /\ hash' = hash
  BY DEF Destroy
<1>2. DOMAIN vertices' = 0 .. -1 /\ 0 .. -1 = {}
  BY <1>1 DEF UnusedCells
<1>3. capacity' = 0
  BY <1>2, FS_EmptySet DEF capacity
<1>4. DOMAIN vertices' = 0 .. capacity' - 1 /\ \A v \in DOMAIN vertices' : IsCell(vertices'[v])
  BY <1>2, <1>3
<1>5. Used' = {} /\ Numbered' = {}
  BY <1>1 DEF Used, Numbered
<1>6. Shape'
  <2>1. hash' \in [Key -> Nat] /\ size' = 0
    BY <1>1 DEF IInv, Shape
  <2>2. alive' \in BOOLEAN
    BY <1>1
  <2>3. QED
    BY <1>3, <1>4, <1>5, <2>1, <2>2 DEF Shape
<1>7. Mapped'
  BY <1>1, <1>5, EmptyMapOrdered, FS_EmptySet DEF Mapped, Ordered
<1>8. Room'
  BY <1>1, <1>3, EmptyMapOrdered DEF Room
<1>9. QED
  BY <1>6, <1>7, <1>8 DEF IInv

\* Growing the array to twice its size, whether or not it is used.
LEMMA DoubledIs ==
  ASSUME IInv
  PROVE  /\ DOMAIN Doubled = 0 .. capacity * 2 - 1 /\ Cardinality(DOMAIN Doubled) = capacity * 2
         /\ \A v \in DOMAIN Doubled : IsCell(Doubled[v])
         /\ \A v \in Used : v \in DOMAIN Doubled /\ Doubled[v] = vertices[v]
<1>1. /\ capacity \in Nat /\ size \in Nat /\ size <= capacity
      /\ DOMAIN vertices = 0 .. capacity - 1
      /\ \A v \in DOMAIN vertices : IsCell(vertices[v])
  BY DEF IInv, Shape
<1> DEFINE all == 0 .. capacity * 2 - 1
<1>2. Doubled = [v \in all |-> IF v < capacity THEN vertices[v] ELSE Unused]
  BY DEF Doubled
<1>3. DOMAIN Doubled = all /\ Cardinality(all) = capacity * 2
  BY <1>1, <1>2, CellsCount
<1>4. \A v \in all : v < capacity => v \in DOMAIN vertices
  BY <1>1
<1>5. IsCell(Unused)
  BY DEF IsCell, Unused
<1>6. \A v \in all : IsCell(Doubled[v])
  BY <1>1, <1>2, <1>4, <1>5
<1>7. \A v \in Used : v \in all /\ v < capacity
  BY <1>1 DEF Used
<1>8. \A v \in Used : Doubled[v] = vertices[v]
  BY <1>2, <1>7
<1>9. QED
  BY <1>3, <1>6, <1>7, <1>8

(***************************************************************************)
(* What add_vertex has in hand after it has made room.  A full array means *)
(* a map of twice its size, so growing the map leaves its size; and where  *)
(* the map is then due to grow it has no more slots than the array cells.  *)
(***************************************************************************)
RoomyCapacity == IF Full THEN capacity * 2 ELSE capacity

LEMMA Roomy ==
  ASSUME IInv, alive
  PROVE  /\ RoomyCapacity \in Nat /\ size < RoomyCapacity
         /\ DOMAIN RoomyVertices = 0 .. RoomyCapacity - 1
         /\ \A v \in DOMAIN RoomyVertices : IsCell(RoomyVertices[v])
         /\ \A v \in Used : v \in DOMAIN RoomyVertices /\ RoomyVertices[v] = vertices[v]
         /\ Ordered(RoomyMap) /\ Contents(RoomyMap.entries) = Numbered
         /\ RoomyMap.size = size
         /\ Slots(RoomyMap) \in Nat /\ Slots(RoomyMap) \in {RoomyCapacity, RoomyCapacity * 2}
         /\ size * 10 < Slots(RoomyMap) * 7
<1>1. /\ Ordered(map) /\ Contents(map.entries) = Numbered /\ map.size = size
      /\ hash \in [Key -> Nat] /\ size \in Nat /\ capacity \in Nat /\ size <= capacity
      /\ Slots(map) \in Nat
  BY MapInOrder
<1>2. /\ capacity > 0 /\ Slots(map) \in {capacity, capacity * 2}
      /\ size * 10 < Slots(map) * 7
  BY DEF IInv, Room
<1>3. CASE Full
  <2>1. size = capacity /\ RoomyCapacity = capacity * 2 /\ Slots(map) = capacity * 2
    BY <1>1, <1>2, <1>3 DEF Full, RoomyCapacity
  <2>2. RoomyVertices = Doubled /\ RoomyMap = map_resize(map, capacity * 2)
    BY <1>3 DEF RoomyVertices, RoomyMap
  <2>3. capacity * 2 \in Nat /\ size < capacity * 2 /\ map.size < capacity * 2
    BY <1>1, <1>2, <2>1
  <2>4. /\ Ordered(RoomyMap) /\ Contents(RoomyMap.entries) = Numbered
        /\ RoomyMap.size = size /\ Slots(RoomyMap) = capacity * 2
    BY <1>1, <2>2, <2>3, ResizeKeeps
  <2>5. QED
    BY <1>2, <2>1, <2>2, <2>3, <2>4, DoubledIs
<1>4. CASE ~Full
  <2>1. RoomyVertices = vertices /\ RoomyMap = map /\ RoomyCapacity = capacity /\ size < capacity
    BY <1>1, <1>4 DEF RoomyVertices, RoomyMap, RoomyCapacity, Full
  <2>2. \A v \in Used : v \in DOMAIN vertices
    BY <1>1 DEF Used, IInv, Shape
  <2>3. QED
    BY <1>1, <1>2, <2>1, <2>2 DEF IInv, Shape
<1>5. QED
  BY <1>3, <1>4

\* The new vertex's cell is the first unused one; no other cell changes.
LEMMA WithVertexIs ==
  ASSUME IInv, alive, NEW k \in Key
  PROVE  /\ DOMAIN WithVertex(k) = 0 .. RoomyCapacity - 1
         /\ \A v \in DOMAIN WithVertex(k) : IsCell(WithVertex(k)[v])
         /\ \A v \in Used : WithVertex(k)[v] = vertices[v]
         /\ WithVertex(k)[size].key = k /\ WithVertex(k)[size].adj = <<>>
<1>1. size \in Nat /\ size \in DOMAIN RoomyVertices
  BY Roomy, MapInOrder
<1>2. IsCell([key |-> k, adj |-> <<>>])
  BY DEF IsCell
<1>3. \A v \in Used : v # size
  BY <1>1 DEF Used
<1>4. DOMAIN WithVertex(k) = DOMAIN RoomyVertices
  BY DEF WithVertex
<1>5. \A v \in DOMAIN RoomyVertices :
        WithVertex(k)[v] = IF v = size THEN [key |-> k, adj |-> <<>>] ELSE RoomyVertices[v]
  BY DEF WithVertex
<1>6. QED
  BY <1>1, <1>2, <1>3, <1>4, <1>5, Roomy

LEMMA AddVertexNoRoomInv ==
  ASSUME IInv, NEW k \in Key, AddVertexNoRoom(k)
  PROVE  IInv'
<1>1. CASE vertices' = vertices
  BY <1>1, Still DEF AddVertexNoRoom
<1>2. CASE vertices' = Doubled
  <2>1. alive /\ Full /\ UNCHANGED <<hash, alive, size, map>>
    BY DEF AddVertexNoRoom
  <2>2. capacity' = capacity * 2 /\ Used' = Used
    BY <1>2, <2>1, DoubledIs DEF capacity, Used
  <2>3. /\ capacity \in Nat /\ capacity > 0 /\ size \in Nat /\ size = capacity
        /\ Slots(map) = capacity * 2
    BY <2>1 DEF IInv, Shape, Room, Full
  <2>4. Shape'
    BY <1>2, <2>1, <2>2, <2>3, DoubledIs DEF IInv, Shape
  <2>5. Numbered' = Numbered
    BY <1>2, <2>2, DoubledIs DEF Numbered
  <2>6. Mapped'
    BY <2>1, <2>5 DEF IInv, Mapped
  <2>7. Room'
    BY <2>1, <2>2, <2>3 DEF IInv, Room
  <2>8. QED
    BY <2>4, <2>6, <2>7 DEF IInv
<1>3. QED
  BY <1>1, <1>2 DEF AddVertexNoRoom

LEMMA AddVertexNoEntryInv ==
  ASSUME IInv, NEW k \in Key, AddVertexNoEntry(k)
  PROVE  IInv'
<1>1. /\ alive /\ UNCHANGED <<hash, alive, size>> /\ vertices' = WithVertex(k)
      /\ map' = RoomyMap
  BY DEF AddVertexNoEntry
<1>2. RoomyCapacity \in Nat /\ size \in Nat /\ size < RoomyCapacity
  BY <1>1, Roomy, MapInOrder
<1>3. capacity' = RoomyCapacity /\ Used' = Used
  BY <1>1, <1>2, WithVertexIs, CellsCount DEF capacity, Used
<1>4. Shape'
  BY <1>1, <1>2, <1>3, WithVertexIs DEF IInv, Shape
<1>5. Numbered' = Numbered
  BY <1>1, <1>3, WithVertexIs DEF Numbered
<1>6. Mapped'
  BY <1>1, <1>5, Roomy DEF Mapped, Ordered
<1>7. Room'
  BY <1>1, <1>2, <1>3, Roomy DEF Room
<1>8. QED
  BY <1>4, <1>6, <1>7 DEF IInv

LEMMA AddVertexInv ==
  ASSUME IInv, NEW k \in Key, AddVertex(k)
  PROVE  IInv'
<1> DEFINE grown == IF LoadDue(RoomyMap) THEN map_resize(RoomyMap, Slots(RoomyMap) * 2)
                    ELSE RoomyMap
<1>1. /\ alive /\ UNCHANGED <<hash, alive>> /\ vertices' = WithVertex(k) /\ size' = size + 1
      /\ map' = Insert(grown, k, size) /\ map_get(k) = {}
  BY DEF AddVertex
<1>2. /\ RoomyCapacity \in Nat /\ size \in Nat /\ size < RoomyCapacity
      /\ hash \in [Key -> Nat]
  BY <1>1, Roomy, MapInOrder
<1>3. /\ Ordered(grown) /\ Contents(grown.entries) = Numbered /\ grown.size = size
      /\ Slots(grown) \in {RoomyCapacity, RoomyCapacity * 2}
      /\ (size + 1) * 10 < Slots(grown) * 7
  <2>1. CASE LoadDue(RoomyMap)
    <3>1. (size + 1) * 10 >= Slots(RoomyMap) * 7
      BY <1>1, <2>1, Roomy DEF LoadDue
    <3>2. Slots(RoomyMap) = RoomyCapacity
      BY <1>1, <1>2, <3>1, Roomy
    <3>3. Slots(RoomyMap) * 2 \in Nat /\ RoomyMap.size < Slots(RoomyMap) * 2
      BY <1>1, <1>2, <3>2, Roomy
    <3>4. grown = map_resize(RoomyMap, Slots(RoomyMap) * 2)
      BY <2>1
    <3>5. /\ Ordered(grown) /\ Contents(grown.entries) = Numbered /\ grown.size = size
          /\ Slots(grown) = RoomyCapacity * 2
      BY <1>1, <1>2, <3>2, <3>3, <3>4, Roomy, ResizeKeeps
    <3>6. QED
      BY <1>2, <3>5
  <2>2. CASE ~LoadDue(RoomyMap)
    <3>1. grown = RoomyMap
      BY <2>2
    <3>2. (size + 1) * 10 < Slots(RoomyMap) * 7
      BY <1>1, <1>2, <2>2, Roomy DEF LoadDue
    <3>3. QED
      BY <1>1, <3>1, <3>2, Roomy
  <2>3. QED
    BY <2>1, <2>2
<1> HIDE DEF grown
<1>4. Keyed(grown, k) = {}
  <2> SUFFICES ASSUME NEW s \in Taken(grown.entries), grown.entries[s].key = k PROVE FALSE
    BY DEF Keyed
  <2>1. grown.entries[s] \in Numbered
    BY <1>3 DEF Contents
  <2>2. PICK v \in Used : grown.entries[s] = [key |-> vertices[v].key, index |-> v]
    BY <2>1 DEF Numbered
  <2>3. v \in map_get(k)
    BY <1>1, <2>2, MapGet
  <2>4. QED
    BY <1>1, <2>3
<1>5. /\ Ordered(map') /\ Slots(map') = Slots(grown)
      /\ Contents(map'.entries) = Numbered \cup {[key |-> k, index |-> size]}
      /\ map'.size = size + 1
  <2>1. grown.size < Slots(grown)
    <3>1. Slots(grown) \in Nat
      BY <1>3, MapShape
    <3>2. QED
      BY <1>2, <1>3, <3>1
  <2>2. QED
    BY <1>1, <1>2, <1>3, <1>4, <2>1, InsertKeeps
<1>6. capacity' = RoomyCapacity /\ Used' = Used \cup {size}
  <2>1. capacity' = RoomyCapacity
    BY <1>1, <1>2, WithVertexIs, CellsCount DEF capacity
  <2>2. QED
    BY <1>1, <1>2, <2>1 DEF Used
<1>7. Shape'
  <2>1. \A v \in Used' : vertices'[v].key \in Key
    BY <1>1, <1>6, WithVertexIs DEF IInv, Shape
  <2>2. /\ DOMAIN vertices' = 0 .. capacity' - 1
        /\ \A v \in DOMAIN vertices' : IsCell(vertices'[v])
    BY <1>1, <1>6, WithVertexIs
  <2>3. hash' \in [Key -> Nat] /\ alive' \in BOOLEAN
    BY <1>1 DEF IInv, Shape
  <2>4. QED
    BY <1>1, <1>2, <1>6, <2>1, <2>2, <2>3 DEF Shape
<1>8. Numbered' = Numbered \cup {[key |-> k, index |-> size]}
  <2>1. \A v \in Used : vertices'[v] = vertices[v]
    BY <1>1, WithVertexIs
  <2>2. vertices'[size].key = k
    BY <1>1, WithVertexIs
  <2>3. QED
    BY <1>6, <2>1, <2>2 DEF Numbered
<1>9. Mapped'
  BY <1>1, <1>5, <1>8 DEF Mapped, Ordered
<1>10. Room'
  BY <1>1, <1>2, <1>3, <1>5, <1>6 DEF Room
<1>11. QED
  BY <1>7, <1>9, <1>10 DEF IInv

LEMMA CommonInv ==
  ASSUME IInv, Common
  PROVE  IInv'
<1>1. ASSUME NEW n \in Capacities, Create(n) PROVE IInv'
  BY <1>1, CreateInv
<1>2. ASSUME Destroy PROVE IInv'
  BY <1>2, DestroyInv
<1>3. ASSUME Refuse \/ VertexCount PROVE IInv'
  BY <1>3, Still DEF Refuse, VertexCount
<1>4. ASSUME NEW k \in Key, AddVertexPresent(k) PROVE IInv'
  BY <1>4, Still DEF AddVertexPresent
<1>5. ASSUME NEW k \in Key, AddVertexNoRoom(k) PROVE IInv'
  BY <1>5, AddVertexNoRoomInv
<1>6. ASSUME NEW k \in Key, AddVertexNoEntry(k) PROVE IInv'
  BY <1>6, AddVertexNoEntryInv
<1>7. ASSUME NEW k \in Key, AddVertex(k) PROVE IInv'
  BY <1>7, AddVertexInv
<1>8. ASSUME NEW j \in 0 .. size, VertexKey(j) PROVE IInv'
  BY <1>8, Still DEF VertexKey
<1>9. QED
  BY <1>1, <1>2, <1>3, <1>4, <1>5, <1>6, <1>7, <1>8 DEF Common

(***************************************************************************)
(* Adding an edge changes lists of edges: no vertex, no key, nothing of    *)
(* the map.                                                                *)
(***************************************************************************)
SameCells(array) ==
  /\ DOMAIN array = DOMAIN vertices
  /\ \A v \in DOMAIN vertices : IsCell(array[v]) /\ array[v].key = vertices[v].key

LEMMA CellLinked ==
  ASSUME NEW c, IsCell(c), NEW edge
  PROVE  LET linked == [c EXCEPT !.adj = <<edge>> \o @]
         IN IsCell(linked) /\ linked.key = c.key /\ linked.adj = <<edge>> \o c.adj
<1> DEFINE k == c.key
           l == <<edge>> \o c.adj
<1>1. c = [key |-> k, adj |-> c.adj]
  BY DEF IsCell
<1> HIDE DEF k, l
<1>2. [c EXCEPT !.adj = l] = [key |-> k, adj |-> l]
  BY <1>1
<1>3. QED
  BY <1>2 DEF IsCell, k, l

LEMMA LinkedCells ==
  ASSUME NEW array, SameCells(array), NEW v \in DOMAIN vertices, NEW edge
  PROVE  SameCells(Linked(array, v, edge))
<1> DEFINE cell == [array[v] EXCEPT !.adj = <<edge>> \o @]
<1>1. Linked(array, v, edge) = [array EXCEPT ![v] = cell]
  BY DEF Linked
<1>2. IsCell(cell) /\ cell.key = array[v].key
  BY CellLinked DEF SameCells
<1> HIDE DEF cell
<1>3. QED
  BY <1>1, <1>2 DEF SameCells

LEMMA EdgesInv ==
  ASSUME IInv, UNCHANGED <<hash, alive, size, map>>, SameCells(vertices')
  PROVE  IInv'
<1>1. capacity' = capacity /\ Used' = Used
  BY DEF SameCells, capacity, Used
<1>2. \A v \in Used : v \in DOMAIN vertices
  BY DEF IInv, Shape, Used
<1>3. Shape'
  BY <1>1, <1>2 DEF IInv, Shape, SameCells
<1>4. Numbered' = Numbered
  BY <1>1, <1>2 DEF Numbered, SameCells
<1>5. Mapped'
  BY <1>4 DEF IInv, Mapped
<1>6. Room'
  BY <1>1 DEF IInv, Room
<1>7. QED
  BY <1>3, <1>5, <1>6 DEF IInv

LEMMA Inside ==
  ASSUME IInv, alive, NEW k \in Key, NEW v \in map_get(k)
  PROVE  v \in DOMAIN vertices /\ SameCells(vertices)
<1>1. v \in Used
  BY MapGet
<1>2. QED
  BY <1>1 DEF IInv, Shape, Used, SameCells

LEMMA AddEdgeInv ==
  ASSUME IInv, NEW u \in Key, NEW v \in Key, NEW w \in Weight, AddEdge(u, v, w)
  PROVE  IInv'
<1>1. CASE EdgeRefused("edge", u, v, <<u, v, w>>) \/ EdgeFailed("edge", u, v, <<u, v, w>>)
  BY <1>1, Still DEF EdgeRefused, EdgeFailed
<1>2. ASSUME alive, UNCHANGED <<hash, alive, size, map>>,
             NEW i \in map_get(u), NEW j \in map_get(v), vertices' = BothWays(i, j, w)
      PROVE  IInv'
  <2>1. i \in DOMAIN vertices /\ j \in DOMAIN vertices /\ SameCells(vertices)
    BY <1>2, Inside
  <2>2. SameCells(Linked(vertices, i, [to |-> j, weight |-> w]))
    BY <2>1, LinkedCells
  <2>3. SameCells(vertices')
    BY <1>2, <2>1, <2>2, LinkedCells DEF BothWays
  <2>4. QED
    BY <1>2, <2>3, EdgesInv
<1>3. QED
  BY <1>1, <1>2 DEF AddEdge

LEMMA AddArcInv ==
  ASSUME IInv, NEW u \in Key, NEW v \in Key, AddArc(u, v)
  PROVE  IInv'
<1>1. CASE EdgeRefused("arc", u, v, <<u, v>>) \/ EdgeFailed("arc", u, v, <<u, v>>)
  BY <1>1, Still DEF EdgeRefused, EdgeFailed
<1>2. ASSUME alive, UNCHANGED <<hash, alive, size, map>>,
             NEW i \in map_get(u), NEW j \in map_get(v),
             vertices' = Linked(vertices, i, [to |-> j])
      PROVE  IInv'
  <2>1. i \in DOMAIN vertices /\ SameCells(vertices)
    BY <1>2, Inside
  <2>2. SameCells(vertices')
    BY <1>2, <2>1, LinkedCells
  <2>3. QED
    BY <1>2, <2>2, EdgesInv
<1>3. QED
  BY <1>1, <1>2 DEF AddArc

LEMMA InvStep == IInv /\ [Next]_vars => IInv'
<1> SUFFICES ASSUME IInv, [Next]_vars PROVE IInv'
  OBVIOUS
<1>1. CASE Common
  BY <1>1, CommonInv
<1>2. ASSUME NEW u \in Key, NEW v \in Key, NEW w \in Weight, AddEdge(u, v, w)
      PROVE  IInv'
  BY <1>2, AddEdgeInv
<1>3. ASSUME NEW u \in Key, NEW v \in Key, AddArc(u, v)
      PROVE  IInv'
  BY <1>3, AddArcInv
<1>4. CASE UNCHANGED vars
  BY <1>4, Still DEF vars
<1>5. QED
  BY <1>1, <1>2, <1>3, <1>4 DEF Next

(***************************************************************************)
(* In graph.c and digraph.c, whatever was added and whichever allocations  *)
(* failed: every vertex is found by its key at its own index, nothing else *)
(* is found, a probe of the map has a free slot to end at, and the map has *)
(* room for the array and no more than add_vertex resizes it to.           *)
(***************************************************************************)
THEOREM GraphLookups == Spec => []Lookups
BY InitInv, InvStep, MappedHolds, PTL DEF Spec

-----------------------------------------------------------------------------
(***************************************************************************)
(* The refinement.  The links of every list, each by its vertex and its    *)
(* place there; the arc a link stands for; and the bag of arcs.  Places    *)
(* move when an edge is added in front.                                    *)
(***************************************************************************)
Link == [to : Nat] \cup [to : Nat, weight : Weight]

Places(array, used) == UNION {{v} \X DOMAIN array[v].adj : v \in used}

NamedBy(array, u, edge) == <<array[u].key, [edge EXCEPT !.to = array[@].key]>>

ArcIn(array, p) == NamedBy(array, p[1], array[p[1]].adj[p[2]])

PlacesOf(array, used, a) == {p \in Places(array, used) : ArcIn(array, p) = a}

ArcsOf(array, used) ==
  [a \in {ArcIn(array, p) : p \in Places(array, used)} |-> Cardinality(PlacesOf(array, used, a))]

\* Links lead from vertices to vertices.
Joined(array, used) ==
  \A v \in used :
    /\ array[v].adj \in Seq(Link)
    /\ \A n \in DOMAIN array[v].adj : array[v].adj[n].to \in used

RInv == IInv /\ Joined(vertices, Used)

LEMMA ArcsIs == Arcs = ArcsOf(vertices, Used) /\ Arcs' = ArcsOf(vertices', Used')
BY DEF Arcs, ArcAt, ArcsOf, PlacesOf, Places, ArcIn, NamedBy

LEMMA PlaceIs ==
  ASSUME NEW array, NEW used, NEW p
  PROVE  p \in Places(array, used) <=>
           \E v \in used : \E n \in DOMAIN array[v].adj : p = <<v, n>>
BY DEF Places

LEMMA PlacesFinite ==
  ASSUME NEW array, NEW n \in Nat, Joined(array, 0 .. n - 1)
  PROVE  IsFiniteSet(Places(array, 0 .. n - 1))
<1> DEFINE all == {{v} \X DOMAIN array[v].adj : v \in 0 .. n - 1}
           f == [v \in 0 .. n - 1 |-> {v} \X DOMAIN array[v].adj]
<1>1. IsFiniteSet(0 .. n - 1)
  BY FS_Interval
<1>2. IsFiniteSet(all)
  <2>1. f \in Surjection(0 .. n - 1, all)
    BY DEF Surjection
  <2>2. QED
    BY <1>1, <2>1, FS_Surjection
<1>3. ASSUME NEW S \in all PROVE IsFiniteSet(S)
  <2>1. PICK v \in 0 .. n - 1 : S = {v} \X DOMAIN array[v].adj
    BY <1>3
  <2>2. array[v].adj \in Seq(Link)
    BY DEF Joined
  <2>3. DOMAIN array[v].adj = 1 .. Len(array[v].adj) /\ Len(array[v].adj) \in Nat
    BY <2>2
  <2>4. IsFiniteSet(DOMAIN array[v].adj)
    <3>1. PICK m \in Int : DOMAIN array[v].adj = 1 .. m
      BY <2>3
    <3>2. IsFiniteSet(1 .. m)
      BY FS_Interval
    <3>3. QED
      BY <3>1, <3>2
  <2>5. IsFiniteSet({v})
    BY FS_Singleton
  <2>6. QED
    BY <2>1, <2>4, <2>5, FS_Product
<1>4. IsFiniteSet(UNION all)
  BY <1>2, <1>3, FS_UNION
<1>5. QED
  BY <1>4 DEF Places

\* Arrays whose vertices have the same keys and lists have the same arcs.
LEMMA SameArcs ==
  ASSUME NEW array, NEW other, NEW used, Joined(array, used),
         \A v \in used : other[v] = array[v]
  PROVE  Joined(other, used) /\ ArcsOf(other, used) = ArcsOf(array, used)
<1>1. Joined(other, used)
  BY DEF Joined
<1>2. Places(other, used) = Places(array, used)
  BY DEF Places
<1>3. ASSUME NEW p \in Places(array, used) PROVE ArcIn(other, p) = ArcIn(array, p)
  <2>1. PICK v \in used : \E n \in DOMAIN array[v].adj : p = <<v, n>>
    BY PlaceIs
  <2>2. PICK n \in DOMAIN array[v].adj : p = <<v, n>>
    BY <2>1
  <2>3. array[v].adj[n].to \in used
    BY DEF Joined
  <2>4. QED
    BY <2>2, <2>3 DEF ArcIn, NamedBy
<1>4. \A a : PlacesOf(other, used, a) = PlacesOf(array, used, a)
  BY <1>2, <1>3 DEF PlacesOf
<1>5. {ArcIn(other, p) : p \in Places(other, used)} = {ArcIn(array, p) : p \in Places(array, used)}
  BY <1>2, <1>3
<1>6. QED
  BY <1>1, <1>4, <1>5 DEF ArcsOf

\* A vertex without edges adds no arc.
LEMMA NewVertexArcs ==
  ASSUME NEW array, NEW used, Joined(array, used), NEW v, array[v].adj = <<>>
  PROVE  Joined(array, used \cup {v}) /\ ArcsOf(array, used \cup {v}) = ArcsOf(array, used)
<1>1. array[v].adj \in Seq(Link) /\ DOMAIN array[v].adj = {}
  OBVIOUS
<1>2. Joined(array, used \cup {v})
  BY <1>1 DEF Joined
<1>3. Places(array, used \cup {v}) = Places(array, used)
  BY <1>1 DEF Places
<1>4. QED
  BY <1>2, <1>3 DEF ArcsOf, PlacesOf

LEMMA SameCount ==
  ASSUME NEW S, IsFiniteSet(S), NEW T, NEW f \in [S -> T],
         \A x, y \in S : f[x] = f[y] => x = y,
         \A t \in T : \E x \in S : f[x] = t
  PROVE  IsFiniteSet(T) /\ Cardinality(T) = Cardinality(S)
<1>1. f \in Bijection(S, T)
  BY DEF Bijection, Injection, Surjection, IsInjective
<1>2. QED
  BY <1>1, FS_Bijection DEF ExistsBijection

(***************************************************************************)
(* Linking adds one arc to the bag: the new link stands in the first       *)
(* place, and every other link is still there, one place on if its vertex  *)
(* is the one that was linked.                                             *)
(***************************************************************************)
LEMMA LinkAdds ==
  ASSUME NEW array, NEW n \in Nat, NEW v \in 0 .. n - 1, NEW edge \in Link,
         Joined(array, 0 .. n - 1), edge.to \in 0 .. n - 1,
         \A u \in 0 .. n - 1 : u \in DOMAIN array /\ IsCell(array[u])
  PROVE  /\ Joined(Linked(array, v, edge), 0 .. n - 1)
         /\ ArcsOf(Linked(array, v, edge), 0 .. n - 1) =
              KG!BagAdd(ArcsOf(array, 0 .. n - 1), NamedBy(array, v, edge))
<1> DEFINE used == 0 .. n - 1
           new == Linked(array, v, edge)
           arc == NamedBy(array, v, edge)
           first == <<v, 1>>
           moved == [p \in Places(array, used) |-> IF p[1] = v THEN <<v, p[2] + 1>> ELSE p]
<1> HIDE DEF used
<1>1. ASSUME NEW u \in used
      PROVE  new[u].key = array[u].key /\
             new[u].adj = IF u = v THEN <<edge>> \o array[u].adj ELSE array[u].adj
  <2> DEFINE cell == [array[v] EXCEPT !.adj = <<edge>> \o @]
  <2>1. cell.key = array[v].key /\ cell.adj = <<edge>> \o array[v].adj
    BY CellLinked
  <2>2. new = [array EXCEPT ![v] = cell]
    BY DEF Linked
  <2> HIDE DEF cell, new
  <2>3. u \in DOMAIN array
    BY <1>1 DEF used
  <2>4. new[u] = IF u = v THEN cell ELSE array[u]
    BY <2>2, <2>3
  <2>5. QED
    BY <2>1, <2>4
<1>2. /\ new[v].adj \in Seq(Link) /\ DOMAIN new[v].adj = 1 .. Len(array[v].adj) + 1
      /\ DOMAIN array[v].adj = 1 .. Len(array[v].adj) /\ Len(array[v].adj) \in Nat
      /\ new[v].adj[1] = edge
      /\ \A m \in DOMAIN array[v].adj : new[v].adj[m + 1] = array[v].adj[m]
  <2> DEFINE l == array[v].adj
  <2>1. l \in Seq(Link)
    BY DEF Joined
  <2>2. new[v].adj = <<edge>> \o l
    BY <1>1 DEF used
  <2> HIDE DEF l
  <2>3. QED
    BY <2>1, <2>2 DEF l
<1> HIDE DEF new
<1>3. Joined(new, used)
  <2> SUFFICES ASSUME NEW u \in used
               PROVE  /\ new[u].adj \in Seq(Link)
                      /\ \A m \in DOMAIN new[u].adj : new[u].adj[m].to \in used
    BY DEF Joined
  <2>1. CASE u # v
    BY <1>1, <2>1 DEF Joined, used
  <2>2. CASE u = v
    <3>1. ASSUME NEW m \in DOMAIN new[v].adj PROVE new[v].adj[m].to \in used
      <4>1. CASE m = 1
        BY <1>2, <4>1 DEF used
      <4>2. CASE m # 1
        <5>1. m - 1 \in DOMAIN array[v].adj /\ (m - 1) + 1 = m
          BY <1>2, <4>2
        <5>2. new[v].adj[m] = array[v].adj[m - 1]
          BY <1>2, <5>1
        <5>3. QED
          BY <5>1, <5>2 DEF Joined, used
      <4>3. QED
        BY <4>1, <4>2
    <3>2. QED
      BY <1>2, <2>2, <3>1
  <2>3. QED
    BY <2>1, <2>2
<1>4. ASSUME NEW u \in used, NEW e, e.to \in used
      PROVE  NamedBy(new, u, e) = NamedBy(array, u, e)
  BY <1>1, <1>4 DEF NamedBy
<1>5. first \in Places(new, used) /\ ArcIn(new, first) = arc
  <2>1. v \in used /\ edge.to \in used
    BY DEF used
  <2>2. first \in Places(new, used)
    BY <1>2, <2>1, PlaceIs
  <2>3. ArcIn(new, first) = NamedBy(new, v, edge)
    BY <1>2 DEF ArcIn
  <2>4. QED
    BY <1>4, <2>1, <2>2, <2>3
<1>6. ASSUME NEW p \in Places(array, used)
      PROVE  /\ moved[p] \in Places(new, used) /\ moved[p] # first
             /\ ArcIn(new, moved[p]) = ArcIn(array, p)
  <2>1. PICK u \in used : \E m \in DOMAIN array[u].adj : p = <<u, m>>
    BY PlaceIs
  <2>2. PICK m \in DOMAIN array[u].adj : p = <<u, m>>
    BY <2>1
  <2>3. array[u].adj[m].to \in used
    BY DEF Joined, used
  <2>4. CASE u = v
    <3>1. moved[p] = <<v, m + 1>> /\ m \in Nat \ {0} /\ m + 1 \in DOMAIN new[v].adj
      BY <1>2, <2>2, <2>4
    <3>2. new[v].adj[m + 1] = array[v].adj[m]
      BY <1>2, <2>4
    <3>3. ArcIn(new, moved[p]) = NamedBy(array, v, array[v].adj[m])
      BY <1>4, <2>3, <2>4, <3>1, <3>2 DEF ArcIn
    <3>4. ArcIn(array, p) = NamedBy(array, v, array[v].adj[m])
      BY <2>2, <2>4 DEF ArcIn
    <3>5. moved[p] \in Places(new, used)
      BY <2>4, <3>1, PlaceIs
    <3>6. QED
      BY <3>1, <3>3, <3>4, <3>5
  <2>5. CASE u # v
    <3>1. moved[p] = p /\ new[u].adj = array[u].adj
      BY <1>1, <2>2, <2>5
    <3>2. ArcIn(new, p) = ArcIn(array, p)
      BY <1>4, <2>2, <2>3, <3>1 DEF ArcIn
    <3>3. p \in Places(new, used)
      BY <2>2, <3>1, PlaceIs
    <3>4. QED
      BY <2>2, <2>5, <3>1, <3>2, <3>3
  <2>6. QED
    BY <2>4, <2>5
<1>7. ASSUME NEW q \in Places(new, used), q # first
      PROVE  \E p \in Places(array, used) : moved[p] = q
  <2>1. PICK u \in used : \E m \in DOMAIN new[u].adj : q = <<u, m>>
    BY PlaceIs
  <2>2. PICK m \in DOMAIN new[u].adj : q = <<u, m>>
    BY <2>1
  <2>3. CASE u = v
    <3>1. m - 1 \in DOMAIN array[v].adj /\ (m - 1) + 1 = m
      <4>1. m # 1
        BY <1>7, <2>2, <2>3 DEF first
      <4>2. m \in 1 .. Len(array[v].adj) + 1
        BY <1>2, <2>2, <2>3
      <4>3. QED
        BY <1>2, <4>1, <4>2
    <3>2. <<v, m - 1>> \in Places(array, used)
      BY <2>3, <3>1, PlaceIs
    <3>3. moved[<<v, m - 1>>] = q
      BY <2>2, <2>3, <3>1, <3>2
    <3>4. QED
      BY <3>2, <3>3
  <2>4. CASE u # v
    <3>1. q \in Places(array, used)
      BY <1>1, <2>2, <2>4, PlaceIs
    <3>2. moved[q] = q
      BY <2>2, <2>4, <3>1
    <3>3. QED
      BY <3>1, <3>2
  <2>5. QED
    BY <2>3, <2>4
<1>8. ASSUME NEW p \in Places(array, used), NEW q \in Places(array, used), moved[p] = moved[q]
      PROVE  p = q
  <2>1. PICK u \in used : \E m \in DOMAIN array[u].adj : p = <<u, m>>
    BY PlaceIs
  <2>2. PICK m \in DOMAIN array[u].adj : p = <<u, m>>
    BY <2>1
  <2>3. PICK x \in used : \E y \in DOMAIN array[x].adj : q = <<x, y>>
    BY PlaceIs
  <2>4. PICK y \in DOMAIN array[x].adj : q = <<x, y>>
    BY <2>3
  <2>5. /\ moved[p] = IF u = v THEN <<v, m + 1>> ELSE <<u, m>>
        /\ moved[q] = IF x = v THEN <<v, y + 1>> ELSE <<x, y>>
    BY <2>2, <2>4
  <2>6. u = x
    BY <1>8, <2>5
  <2>7. u = v => m \in Nat /\ y \in Nat
    BY <1>2, <2>6
  <2>8. m = y
    BY <1>8, <2>5, <2>6, <2>7
  <2>9. QED
    BY <2>2, <2>4, <2>6, <2>8
<1> HIDE DEF moved, first, arc
<1>9. ASSUME NEW a
      PROVE  Cardinality(PlacesOf(new, used, a)) =
               IF a = arc THEN Cardinality(PlacesOf(array, used, a)) + 1
               ELSE Cardinality(PlacesOf(array, used, a))
  <2> DEFINE S == PlacesOf(array, used, a)
             T == {moved[p] : p \in S}
             f == [p \in S |-> moved[p]]
  <2>1. S \subseteq Places(array, used) /\ IsFiniteSet(Places(array, used))
    BY PlacesFinite DEF PlacesOf, used
  <2>2. IsFiniteSet(S)
    BY <2>1, FS_Subset
  <2> HIDE DEF S
  <2>3. f \in [S -> T] /\ (\A x, y \in S : f[x] = f[y] => x = y)
        /\ \A t \in T : \E x \in S : f[x] = t
    BY <1>8, <2>1
  <2> HIDE DEF f
  <2>4. IsFiniteSet(T) /\ Cardinality(T) = Cardinality(S)
    BY <2>2, <2>3, SameCount
  <2>5. PlacesOf(new, used, a) = IF a = arc THEN T \cup {first} ELSE T
    <3>1. ASSUME NEW q PROVE q \in T <=> q \in PlacesOf(new, used, a) /\ q # first
      <4>1. ASSUME q \in T PROVE q \in PlacesOf(new, used, a) /\ q # first
        BY <1>6, <2>1, <4>1 DEF S, PlacesOf
      <4>2. ASSUME q \in PlacesOf(new, used, a), q # first PROVE q \in T
        <5>1. PICK p \in Places(array, used) : moved[p] = q
          BY <1>7, <4>2 DEF PlacesOf
        <5>2. p \in S
          BY <1>6, <4>2, <5>1 DEF S, PlacesOf
        <5>3. QED
          BY <5>1, <5>2
      <4>3. QED
        BY <4>1, <4>2
    <3>2. first \in PlacesOf(new, used, a) <=> a = arc
      BY <1>5 DEF PlacesOf
    <3> HIDE DEF T
    <3>3. CASE a = arc
      <4>1. PlacesOf(new, used, a) = T \cup {first}
        BY <3>1, <3>2, <3>3
      <4>2. QED
        BY <3>3, <4>1
    <3>4. CASE a # arc
      <4>1. PlacesOf(new, used, a) = T
        BY <3>1, <3>2, <3>4
      <4>2. QED
        BY <3>4, <4>1
    <3>5. QED
      BY <3>3, <3>4
  <2>6. first \notin T
    BY <1>6, <2>1
  <2> HIDE DEF T
  <2>7. QED
    BY <2>4, <2>5, <2>6, FS_AddElement DEF S
<1>10. {ArcIn(new, p) : p \in Places(new, used)} =
         {ArcIn(array, p) : p \in Places(array, used)} \cup {arc}
  <2>1. ASSUME NEW q \in Places(new, used), q # first
        PROVE  ArcIn(new, q) \in {ArcIn(array, p) : p \in Places(array, used)}
    BY <1>6, <1>7, <2>1
  <2>2. ASSUME NEW p \in Places(array, used)
        PROVE  ArcIn(array, p) \in {ArcIn(new, q) : q \in Places(new, used)}
    BY <1>6
  <2>3. QED
    BY <1>5, <2>1, <2>2
<1>11. ArcsOf(new, used) = KG!BagAdd(ArcsOf(array, used), arc)
  <2> DEFINE old == {ArcIn(array, p) : p \in Places(array, used)}
             Count(a) == Cardinality(PlacesOf(array, used, a))
  <2>1. ArcsOf(array, used) = [a \in old |-> Count(a)]
    BY DEF ArcsOf
  <2>2. ArcsOf(new, used) = [a \in old \cup {arc} |-> IF a = arc THEN Count(a) + 1 ELSE Count(a)]
    BY <1>9, <1>10 DEF ArcsOf
  <2>3. arc \notin old => Count(arc) = 0
    <3> SUFFICES ASSUME arc \notin old PROVE PlacesOf(array, used, arc) = {}
      BY FS_EmptySet
    <3>1. QED
      BY DEF PlacesOf
  <2> HIDE DEF old, Count
  <2>4. CASE arc \in old
    <3>1. old \cup {arc} = old
      BY <2>4
    <3>2. QED
      BY <2>1, <2>2, <2>4, <3>1 DEF KG!BagAdd
  <2>5. CASE arc \notin old
    BY <2>1, <2>2, <2>3, <2>5 DEF KG!BagAdd
  <2>6. QED
    BY <2>4, <2>5
<1>12. QED
  BY <1>3, <1>11 DEF new, used, arc

-----------------------------------------------------------------------------
\* The keys, as the sequence that the abstract graph numbers from 1.
LEMMA KeysIs ==
  ASSUME IInv
  PROVE  /\ Keys \in Seq(Key) /\ Len(Keys) = size /\ DOMAIN Keys = 1 .. size
         /\ \A v \in Used : v + 1 \in 1 .. size /\ Keys[v + 1] = vertices[v].key
<1>1. size \in Nat /\ \A v \in 0 .. size - 1 : vertices[v].key \in Key
  BY DEF IInv, Shape, Used
<1>2. \A i \in 1 .. size : i - 1 \in 0 .. size - 1
  BY <1>1
<1>3. Keys = [i \in 1 .. size |-> vertices[i - 1].key] /\ Keys \in [1 .. size -> Key]
  BY <1>1, <1>2 DEF Keys
<1>4. Keys \in Seq(Key) /\ Len(Keys) = size
  BY <1>1, <1>3
<1>5. \A v \in Used : v + 1 \in 1 .. size /\ (v + 1) - 1 = v
  BY <1>1 DEF Used
<1>6. QED
  BY <1>3, <1>4, <1>5

LEMMA HasIs ==
  ASSUME IInv, alive, NEW k \in Key
  PROVE  KG!Has(k) <=> map_get(k) # {}
<1>1. ASSUME NEW v \in map_get(k) PROVE KG!Has(k)
  <2>1. v \in Used /\ vertices[v].key = k
    BY MapGet
  <2>2. QED
    BY <2>1, KeysIs DEF KG!Has
<1>2. ASSUME KG!Has(k) PROVE map_get(k) # {}
  <2>1. PICK i \in 1 .. size : Keys[i] = k
    BY <1>2, KeysIs DEF KG!Has
  <2>2. i - 1 \in Used /\ vertices[i - 1].key = k
    BY <2>1, MapInOrder DEF Keys, Used
  <2>3. QED
    BY <2>2, MapGet
<1>3. QED
  BY <1>1, <1>2

LEMMA InitRefines == Init => RInv /\ KG!Init
<1> SUFFICES ASSUME Init PROVE RInv /\ KG!Init
  OBVIOUS
<1>1. Used = {} /\ size = 0
  BY DEF Init, Used
<1>2. Joined(vertices, Used)
  BY <1>1 DEF Joined
<1>3. Keys = <<>>
  BY <1>1 DEF Keys
<1>4. Arcs = KG!NoArcs
  <2>1. {ArcIn(vertices, p) : p \in Places(vertices, Used)} = {}
    BY <1>1 DEF Places
  <2>2. QED
    BY <2>1, ArcsIs DEF ArcsOf, KG!NoArcs
<1>5. QED
  BY <1>2, <1>3, <1>4, InitInv DEF Init, RInv, KG!Init, None, KG!None, Answer, KG!Answer

LEMMA AppendIs ==
  ASSUME NEW S, NEW s \in Seq(S), NEW k \in S
  PROVE  Append(s, k) = [i \in 1 .. Len(s) + 1 |-> IF i = Len(s) + 1 THEN k ELSE s[i]]
<1> DEFINE a == Append(s, k)
           b == [i \in 1 .. Len(s) + 1 |-> IF i = Len(s) + 1 THEN k ELSE s[i]]
<1>1. Len(s) \in Nat /\ \A i \in 1 .. Len(s) : s[i] \in S
  BY LenProperties
<1>2. /\ a \in Seq(S) /\ Len(a) = Len(s) + 1 /\ a[Len(s) + 1] = k
      /\ \A i \in 1 .. Len(s) : a[i] = s[i]
  BY AppendProperties
<1>3. b \in Seq(S) /\ Len(b) = Len(s) + 1
  <2>1. \A i \in 1 .. Len(s) + 1 : (IF i = Len(s) + 1 THEN k ELSE s[i]) \in S
    BY <1>1
  <2>2. b \in [1 .. Len(s) + 1 -> S]
    BY <2>1
  <2>3. QED
    BY <1>1, <2>2
<1>4. \A i \in 1 .. Len(s) + 1 : a[i] = b[i]
  BY <1>1, <1>2
<1> HIDE DEF a, b
<1>5. a = b
  BY <1>2, <1>3, <1>4, SeqEqual
<1>6. QED
  BY <1>5 DEF a, b

\* Steps after which the array in use is empty, or what it was.
LEMMA NoGraph ==
  ASSUME size' = 0
  PROVE  Joined(vertices', Used') /\ Keys' = <<>> /\ Arcs' = KG!NoArcs
<1>1. Used' = {}
  BY DEF Used
<1>2. Keys' = <<>>
  BY DEF Keys
<1>3. {ArcIn(vertices', p) : p \in Places(vertices', Used')} = {}
  BY <1>1 DEF Places
<1>4. Arcs' = KG!NoArcs
  BY <1>3, ArcsIs DEF ArcsOf, KG!NoArcs
<1>5. QED
  BY <1>1, <1>2, <1>4 DEF Joined

LEMMA SameGraph ==
  ASSUME RInv, size' = size, \A v \in Used : vertices'[v] = vertices[v]
  PROVE  Joined(vertices', Used') /\ Keys' = Keys /\ Arcs' = Arcs
<1>1. Used' = Used
  BY DEF Used
<1>2. Joined(vertices', Used) /\ ArcsOf(vertices', Used) = ArcsOf(vertices, Used)
  BY SameArcs DEF RInv
<1>3. \A i \in 1 .. size : i - 1 \in Used
  BY DEF RInv, IInv, Shape, Used
<1>4. Keys' = Keys
  BY <1>3 DEF Keys
<1>5. QED
  BY <1>1, <1>2, <1>4, ArcsIs

LEMMA AddVertexRefines ==
  ASSUME RInv, NEW k \in Key,
         \/ AddVertexPresent(k) \/ AddVertexNoRoom(k) \/ AddVertexNoEntry(k) \/ AddVertex(k)
  PROVE  Joined(vertices', Used') /\ KG!AddVertex(k)
<1> IInv
  BY DEF RInv
<1>1. CASE AddVertexPresent(k)
  <2>1. Joined(vertices', Used') /\ Keys' = Keys /\ Arcs' = Arcs
    BY <1>1, SameGraph DEF AddVertexPresent
  <2>2. KG!Has(k)
    BY <1>1, HasIs DEF AddVertexPresent
  <2>3. QED
    BY <1>1, <2>1, <2>2 DEF AddVertexPresent, KG!AddVertex, Answer, KG!Answer
<1>2. CASE AddVertexNoRoom(k)
  <2>1. \A v \in Used : vertices'[v] = vertices[v]
    BY <1>2, DoubledIs DEF AddVertexNoRoom
  <2>2. Joined(vertices', Used') /\ Keys' = Keys /\ Arcs' = Arcs
    BY <1>2, <2>1, SameGraph DEF AddVertexNoRoom
  <2>3. ~KG!Has(k)
    BY <1>2, HasIs DEF AddVertexNoRoom
  <2>4. QED
    BY <1>2, <2>2, <2>3 DEF AddVertexNoRoom, KG!AddVertex, Answer, KG!Answer
<1>3. CASE AddVertexNoEntry(k)
  <2>1. \A v \in Used : vertices'[v] = vertices[v]
    BY <1>3, WithVertexIs DEF AddVertexNoEntry
  <2>2. Joined(vertices', Used') /\ Keys' = Keys /\ Arcs' = Arcs
    BY <1>3, <2>1, SameGraph DEF AddVertexNoEntry
  <2>3. ~KG!Has(k)
    BY <1>3, HasIs DEF AddVertexNoEntry
  <2>4. QED
    BY <1>3, <2>2, <2>3 DEF AddVertexNoEntry, KG!AddVertex, Answer, KG!Answer
<1>4. CASE AddVertex(k)
  <2>1. /\ alive /\ alive' = alive /\ map_get(k) = {} /\ size' = size + 1
        /\ vertices' = WithVertex(k) /\ res' = Answer("vertex", k, 0, <<>>)
    BY <1>4 DEF AddVertex
  <2>2. size \in Nat /\ Used' = Used \cup {size}
    BY <2>1, MapInOrder DEF Used
  <2>3. /\ \A v \in Used : vertices'[v] = vertices[v]
        /\ vertices'[size].key = k /\ vertices'[size].adj = <<>>
    BY <2>1, WithVertexIs
  <2>4. Joined(vertices', Used) /\ ArcsOf(vertices', Used) = ArcsOf(vertices, Used)
    BY <2>3, SameArcs DEF RInv
  <2>5. Joined(vertices', Used') /\ Arcs' = Arcs
    BY <2>2, <2>3, <2>4, NewVertexArcs, ArcsIs
  <2>6. Keys' = Append(Keys, k)
    <3>1. \A i \in 1 .. size : i - 1 \in Used
      BY <2>2 DEF Used
    <3>2. Keys' = [i \in 1 .. size + 1 |-> vertices'[i - 1].key]
      BY <2>1 DEF Keys
    <3>3. Keys' = [i \in 1 .. size + 1 |-> IF i = size + 1 THEN k ELSE Keys[i]]
      <4>1. \A i \in 1 .. size + 1 :
              vertices'[i - 1].key = IF i = size + 1 THEN k ELSE Keys[i]
        <5> SUFFICES ASSUME NEW i \in 1 .. size + 1
                     PROVE  vertices'[i - 1].key = IF i = size + 1 THEN k ELSE Keys[i]
          OBVIOUS
        <5>1. CASE i = size + 1
          <6>1. i - 1 = size
            BY <2>2, <5>1
          <6>2. QED
            BY <2>3, <5>1, <6>1
        <5>2. CASE i # size + 1
          <6>1. i \in 1 .. size
            BY <2>2, <5>2
          <6>2. QED
            BY <2>3, <3>1, <5>2, <6>1 DEF Keys
        <5>3. QED
          BY <5>1, <5>2
      <4>2. QED
        BY <3>2, <4>1
    <3>4. Append(Keys, k) = [i \in 1 .. Len(Keys) + 1 |->
                               IF i = Len(Keys) + 1 THEN k ELSE Keys[i]]
      BY KeysIs, AppendIs
    <3>5. QED
      BY <3>3, <3>4, KeysIs
  <2>7. ~KG!Has(k)
    BY <2>1, HasIs
  <2>8. QED
    BY <2>1, <2>5, <2>6, <2>7 DEF KG!AddVertex, Answer, KG!Answer
<1>5. QED
  BY <1>1, <1>2, <1>3, <1>4

LEMMA CommonRefines ==
  ASSUME RInv, Common
  PROVE  Joined(vertices', Used') /\ KG!Next
<1> IInv
  BY DEF RInv
<1>1. ASSUME NEW n \in Capacities, Create(n)
      PROVE  Joined(vertices', Used') /\ KG!Create
  <2>1. size' = 0
    BY <1>1 DEF Create, IInv, Room
  <2>2. alive' \in BOOLEAN
    BY <1>1 DEF Create, IInv, Shape
  <2>3. QED
    BY <1>1, <2>1, <2>2, NoGraph DEF Create, KG!Create, None, KG!None, Answer, KG!Answer
<1>2. ASSUME Destroy PROVE Joined(vertices', Used') /\ KG!Destroy
  BY <1>2, NoGraph DEF Destroy, KG!Destroy, Answer, KG!Answer
<1>3. ASSUME Refuse PROVE Joined(vertices', Used') /\ KG!Refuse
  BY <1>3, SameGraph DEF Refuse, KG!Refuse, Refusal, KG!Refusal, Answer, KG!Answer
<1>4. ASSUME VertexCount PROVE Joined(vertices', Used') /\ KG!VertexCount
  BY <1>4, SameGraph, KeysIs DEF VertexCount, KG!VertexCount, Answer, KG!Answer
<1>5. ASSUME NEW i \in 0 .. size, VertexKey(i)
      PROVE  Joined(vertices', Used') /\ i \in 0 .. Len(Keys) /\ KG!VertexKey(i)
  <2>1. i < size => vertices[i].key = Keys[i + 1]
    BY KeysIs DEF Used
  <2>2. QED
    BY <1>5, <2>1, SameGraph, KeysIs DEF VertexKey, KG!VertexKey, Answer, KG!Answer
<1>6. ASSUME NEW k \in Key,
             \/ AddVertexPresent(k) \/ AddVertexNoRoom(k)
             \/ AddVertexNoEntry(k) \/ AddVertex(k)
      PROVE  Joined(vertices', Used') /\ KG!AddVertex(k)
  BY <1>6, AddVertexRefines
<1>7. QED
  BY <1>1, <1>2, <1>3, <1>4, <1>5, <1>6 DEF Common, KG!Next

LEMMA Named ==
  ASSUME IInv, alive, NEW u \in Key, NEW v \in Key,
         NEW i \in map_get(u), NEW j \in map_get(v), NEW array, SameCells(array)
  PROVE  /\ i \in 0 .. size - 1 /\ j \in 0 .. size - 1
         /\ NamedBy(array, i, [to |-> j]) = <<u, [to |-> v]>>
<1>1. i \in Used /\ j \in Used /\ vertices[i].key = u /\ vertices[j].key = v
  BY MapGet
<1>2. array[i].key = u /\ array[j].key = v
  BY <1>1 DEF SameCells, IInv, Shape, Used
<1>3. QED
  BY <1>1, <1>2 DEF NamedBy, Used

LEMMA NamedWeight ==
  ASSUME NEW array, NEW i, NEW j, NEW w, NEW u, NEW v,
         NamedBy(array, i, [to |-> j]) = <<u, [to |-> v]>>
  PROVE  NamedBy(array, i, [to |-> j, weight |-> w]) = <<u, [to |-> v, weight |-> w]>>
<1>1. array[i].key = u
  BY DEF NamedBy
<1>2. [[to |-> j] EXCEPT !.to = array[@].key] = [to |-> v]
  BY DEF NamedBy
<1>3. array[j].key = v
  BY <1>2
<1>4. QED
  BY <1>1, <1>3 DEF NamedBy

LEMMA EdgeRefuses ==
  ASSUME RInv, NEW u \in Key, NEW v \in Key, NEW op, NEW arg,
         EdgeRefused(op, u, v, arg) \/ EdgeFailed(op, u, v, arg), NEW more
  PROVE  Joined(vertices', Used') /\ KG!Add(op, u, v, arg, more)
<1> IInv
  BY DEF RInv
<1>1. Joined(vertices', Used') /\ Keys' = Keys /\ Arcs' = Arcs /\ alive /\ alive' = alive
  BY SameGraph DEF EdgeRefused, EdgeFailed
<1>2. CASE EdgeRefused(op, u, v, arg)
  <2>1. ~(KG!Has(u) /\ KG!Has(v))
    BY <1>1, <1>2, HasIs DEF EdgeRefused
  <2>2. QED
    BY <1>1, <1>2, <2>1 DEF EdgeRefused, KG!Add, Answer, KG!Answer
<1>3. CASE EdgeFailed(op, u, v, arg)
  <2>1. KG!Has(u) /\ KG!Has(v)
    BY <1>1, <1>3, HasIs DEF EdgeFailed
  <2>2. QED
    BY <1>1, <1>3, <2>1 DEF EdgeFailed, KG!Add, Answer, KG!Answer
<1>4. QED
  BY <1>2, <1>3

\* Edges leave the vertices what they were.
LEMMA LinkedKeeps ==
  ASSUME RInv, size' = size, SameCells(vertices')
  PROVE  Used' = Used /\ Used = 0 .. size - 1 /\ Keys' = Keys
<1>1. \A i \in 1 .. size : i - 1 \in DOMAIN vertices
  BY DEF RInv, IInv, Shape
<1>2. Keys' = Keys
  BY <1>1 DEF Keys, SameCells
<1>3. QED
  BY <1>2 DEF Used

LEMMA Cells ==
  ASSUME IInv, NEW array, SameCells(array)
  PROVE  \A v \in 0 .. size - 1 : v \in DOMAIN array /\ IsCell(array[v])
BY DEF IInv, Shape, SameCells

LEMMA AddEdgeRefines ==
  ASSUME RInv, NEW u \in Key, NEW v \in Key, NEW w \in Weight, AddEdge(u, v, w)
  PROVE  Joined(vertices', Used') /\ KG!AddEdge(u, v, w)
<1> IInv
  BY DEF RInv
<1> DEFINE there == [to |-> v, weight |-> w]
           back == [to |-> u, weight |-> w]
<1>1. CASE EdgeRefused("edge", u, v, <<u, v, w>>) \/ EdgeFailed("edge", u, v, <<u, v, w>>)
  BY <1>1, EdgeRefuses DEF KG!AddEdge
<1>2. ASSUME alive, UNCHANGED <<hash, alive, size, map>>,
             res' = Answer("edge", <<u, v, w>>, 0, <<>>),
             NEW i \in map_get(u), NEW j \in map_get(v), vertices' = BothWays(i, j, w)
      PROVE  Joined(vertices', Used') /\ KG!AddEdge(u, v, w)
  <2> DEFINE e == [to |-> j, weight |-> w]
             f == [to |-> i, weight |-> w]
             half == Linked(vertices, i, e)
  <2>1. /\ i \in DOMAIN vertices /\ j \in DOMAIN vertices /\ SameCells(vertices)
        /\ i \in 0 .. size - 1 /\ j \in 0 .. size - 1 /\ size \in Nat
    BY <1>2, Inside, Named, MapInOrder
  <2>2. SameCells(half)
    BY <2>1, LinkedCells
  <2>3. vertices' = Linked(half, j, f)
    BY <1>2 DEF BothWays
  <2> HIDE DEF half
  <2>4. SameCells(vertices')
    BY <2>1, <2>2, <2>3, LinkedCells
  <2>5. Used' = Used /\ Used = 0 .. size - 1 /\ Keys' = Keys
    BY <1>2, <2>4, LinkedKeeps
  <2>6. /\ e \in Link /\ f \in Link /\ e.to \in 0 .. size - 1 /\ f.to \in 0 .. size - 1
        /\ NamedBy(vertices, i, e) = <<u, there>> /\ NamedBy(half, j, f) = <<v, back>>
    <3>1. e \in Link /\ f \in Link /\ e.to = j /\ f.to = i
      BY <2>1 DEF Link
    <3>2. NamedBy(vertices, i, e) = <<u, there>>
      <4>1. NamedBy(vertices, i, [to |-> j]) = <<u, [to |-> v]>>
        BY <1>2, <2>1, Named
      <4>2. QED
        BY <4>1, NamedWeight
    <3>3. NamedBy(half, j, f) = <<v, back>>
      <4>1. NamedBy(half, j, [to |-> i]) = <<v, [to |-> u]>>
        BY <1>2, <2>2, Named
      <4>2. QED
        BY <4>1, NamedWeight
    <3>4. QED
      BY <2>1, <3>1, <3>2, <3>3
  <2> HIDE DEF e, f, there, back
  <2>7. /\ Joined(half, 0 .. size - 1)
        /\ ArcsOf(half, 0 .. size - 1) = KG!BagAdd(ArcsOf(vertices, 0 .. size - 1), <<u, there>>)
    <3>1. Joined(vertices, 0 .. size - 1)
      BY <2>5 DEF RInv
    <3>2. \A x \in 0 .. size - 1 : x \in DOMAIN vertices /\ IsCell(vertices[x])
      BY <2>1, Cells
    <3>3. QED
      BY <2>1, <2>6, <3>1, <3>2, LinkAdds DEF half
  <2>8. /\ Joined(vertices', 0 .. size - 1)
        /\ ArcsOf(vertices', 0 .. size - 1) = KG!BagAdd(ArcsOf(half, 0 .. size - 1), <<v, back>>)
    <3>1. \A x \in 0 .. size - 1 : x \in DOMAIN half /\ IsCell(half[x])
      BY <2>2, Cells
    <3>2. QED
      BY <2>1, <2>3, <2>6, <2>7, <3>1, LinkAdds
  <2>9. Arcs' = KG!BagAdd(KG!BagAdd(Arcs, <<u, there>>), <<v, back>>)
    BY <2>5, <2>7, <2>8, ArcsIs
  <2>10. KG!Has(u) /\ KG!Has(v)
    BY <1>2, HasIs
  <2>11. KG!Add("edge", u, v, <<u, v, w>>, Arcs')
    BY <1>2, <2>5, <2>10 DEF KG!Add, Answer, KG!Answer
  <2>12. QED
    BY <2>5, <2>8, <2>9, <2>11 DEF KG!AddEdge, there, back
<1>3. QED
  BY <1>1, <1>2 DEF AddEdge

LEMMA AddArcRefines ==
  ASSUME RInv, NEW u \in Key, NEW v \in Key, AddArc(u, v)
  PROVE  Joined(vertices', Used') /\ KG!AddArc(u, v)
<1> IInv
  BY DEF RInv
<1>1. CASE EdgeRefused("arc", u, v, <<u, v>>) \/ EdgeFailed("arc", u, v, <<u, v>>)
  BY <1>1, EdgeRefuses DEF KG!AddArc
<1>2. ASSUME alive, UNCHANGED <<hash, alive, size, map>>, res' = Answer("arc", <<u, v>>, 0, <<>>),
             NEW i \in map_get(u), NEW j \in map_get(v),
             vertices' = Linked(vertices, i, [to |-> j])
      PROVE  Joined(vertices', Used') /\ KG!AddArc(u, v)
  <2> DEFINE e == [to |-> j]
  <2>1. /\ i \in DOMAIN vertices /\ SameCells(vertices)
        /\ i \in 0 .. size - 1 /\ j \in 0 .. size - 1 /\ size \in Nat
    BY <1>2, Inside, Named, MapInOrder
  <2>2. SameCells(vertices')
    BY <1>2, <2>1, LinkedCells
  <2>3. Used' = Used /\ Used = 0 .. size - 1 /\ Keys' = Keys
    BY <1>2, <2>2, LinkedKeeps
  <2>4. e \in Link /\ e.to \in 0 .. size - 1
    BY <2>1 DEF Link
  <2>5. NamedBy(vertices, i, e) = <<u, [to |-> v]>>
    BY <1>2, <2>1, Named
  <2>6. vertices' = Linked(vertices, i, e)
    BY <1>2
  <2> HIDE DEF e
  <2>7. /\ Joined(vertices', 0 .. size - 1)
        /\ ArcsOf(vertices', 0 .. size - 1) =
             KG!BagAdd(ArcsOf(vertices, 0 .. size - 1), <<u, [to |-> v]>>)
    <3>1. Joined(vertices, 0 .. size - 1)
      BY <2>3 DEF RInv
    <3>2. \A x \in 0 .. size - 1 : x \in DOMAIN vertices /\ IsCell(vertices[x])
      BY <2>1, Cells
    <3>3. QED
      BY <2>1, <2>4, <2>5, <2>6, <3>1, <3>2, LinkAdds
  <2>8. Arcs' = KG!BagAdd(Arcs, <<u, [to |-> v]>>)
    BY <2>3, <2>7, ArcsIs
  <2>9. KG!Has(u) /\ KG!Has(v)
    BY <1>2, HasIs
  <2>10. KG!Add("arc", u, v, <<u, v>>, Arcs')
    BY <1>2, <2>3, <2>9 DEF KG!Add, Answer, KG!Answer
  <2>11. QED
    BY <2>3, <2>7, <2>8, <2>10 DEF KG!AddArc
<1>3. QED
  BY <1>1, <1>2 DEF AddArc

LEMMA StepRefines == RInv /\ [Next]_vars => RInv' /\ [KG!Next]_(KG!vars)
<1> SUFFICES ASSUME RInv, [Next]_vars PROVE RInv' /\ [KG!Next]_(KG!vars)
  OBVIOUS
<1>1. IInv'
  BY InvStep DEF RInv
<1>2. CASE Common
  BY <1>1, <1>2, CommonRefines DEF RInv
<1>3. ASSUME NEW u \in Key, NEW v \in Key, NEW w \in Weight, AddEdge(u, v, w)
      PROVE  RInv' /\ KG!Next
  BY <1>1, <1>3, AddEdgeRefines DEF RInv, KG!Next
<1>4. ASSUME NEW u \in Key, NEW v \in Key, AddArc(u, v)
      PROVE  RInv' /\ KG!Next
  BY <1>1, <1>4, AddArcRefines DEF RInv, KG!Next
<1>5. CASE UNCHANGED vars
  BY <1>1, <1>5, SameGraph DEF RInv, vars, KG!vars
<1>6. QED
  BY <1>2, <1>3, <1>4, <1>5 DEF Next

(***************************************************************************)
(* The graphs of graph.c and digraph.c answer as a graph on keys does:     *)
(* indices are given in order and never change, no growth of the array or  *)
(* of the map loses an edge, an undirected edge is linked both ways or not *)
(* at all, and a call that finds no memory leaves the graph as it was.     *)
(***************************************************************************)
THEOREM GraphImplements == Spec => Implements
BY InitRefines, StepRefines, PTL DEF Spec, Implements, KG!Spec
-----------------------------------------------------------------------------
(***************************************************************************)
(* Graphs as the searches see them: lists of neighbours.                   *)
(***************************************************************************)
Net(n) == [0 .. n - 1 -> Seq(0 .. n - 1)]

Closed(next, C) == \A u \in C : \A i \in 1 .. Len(next[u]) : next[u][i] \in C

\* The graph's parts.
LEMMA NetIs ==
  ASSUME NEW n \in Nat, NEW next \in Net(n)
  PROVE  /\ DOMAIN next = 0 .. n - 1 /\ Cardinality(DOMAIN next) = n /\ IsFiniteSet(DOMAIN next)
         /\ \A v \in 0 .. n - 1 :
              /\ next[v] \in Seq(0 .. n - 1) /\ Len(next[v]) \in Nat
              /\ DOMAIN next[v] = 1 .. Len(next[v])
              /\ \A i \in 1 .. Len(next[v]) : next[v][i] \in 0 .. n - 1
              /\ \A t : t \in ToSet(next[v]) <=> \E i \in 1 .. Len(next[v]) : t = next[v][i]
<1>1. DOMAIN next = 0 .. n - 1 /\ \A v \in 0 .. n - 1 : next[v] \in Seq(0 .. n - 1)
  BY DEF Net
<1>2. Cardinality(DOMAIN next) = n /\ IsFiniteSet(DOMAIN next)
  BY <1>1, FS_Interval
<1>3. QED
  BY <1>1, <1>2, LenProperties DEF ToSet

Balls(next, start, n, f) ==
  /\ f[0] = {start}
  /\ \A d \in 0 .. n - 1 :
       f[d + 1] = f[d] \cup UNION {ToSet(next[v]) : v \in f[d]}

\* Within by the step.
LEMMA WithinIs ==
  ASSUME NEW next, NEW start, NEW n \in Nat
  PROVE  \E f : /\ Within(next, start, n) = f[n]
              /\ Balls(next, start, n, f)
<1> DEFINE begin == {start}
           turns == n
           St(d, x) == x \cup UNION {ToSet(next[v]) : v \in x}
           rhs(top, f) == [d \in 0 .. top |-> IF d = 0 THEN begin ELSE St(d, f[d - 1])]
           S == {k \in Nat : \E f : f = rhs(k, f)}
           loop == CHOOSE f : f = rhs(turns, f)
<1>1. Within(next, start, n) = loop[turns]
  BY Zenon DEF Within
<1>2. turns \in Nat
  OBVIOUS
<1> HIDE DEF begin, turns, St
<1>3. 0 \in S
  <2>1. [d \in 0 .. 0 |-> begin] = rhs(0, [d \in 0 .. 0 |-> begin])
    OBVIOUS
  <2>2. QED
    BY <2>1
<1>4. ASSUME NEW k \in Nat, k \in S PROVE k + 1 \in S
  <2>1. PICK f : f = rhs(k, f)
    BY <1>4
  <2> DEFINE h == [d \in 0 .. k + 1 |-> IF d = k + 1 THEN St(d, f[k]) ELSE f[d]]
  <2>2. \A d \in 0 .. k : f[d] = IF d = 0 THEN begin ELSE St(d, f[d - 1])
    BY <2>1
  <2>3. ASSUME NEW d \in 0 .. k + 1
        PROVE  h[d] = IF d = 0 THEN begin ELSE St(d, h[d - 1])
    <3>1. CASE d = k + 1
      BY <3>1
    <3>2. CASE d # k + 1
      <4>1. d \in 0 .. k /\ (d # 0 => d - 1 \in 0 .. k /\ d - 1 # k + 1)
        BY <3>2
      <4>2. h[d] = f[d] /\ (d # 0 => h[d - 1] = f[d - 1])
        BY <3>2, <4>1
      <4>3. f[d] = IF d = 0 THEN begin ELSE St(d, f[d - 1])
        BY <2>2, <4>1
      <4> HIDE DEF h
      <4>4. QED
        BY <4>2, <4>3
    <3>3. QED
      BY <3>1, <3>2
  <2>4. h = rhs(k + 1, h)
    BY <2>3
  <2> HIDE DEF h, rhs
  <2>5. QED
    BY <2>4
<1> HIDE DEF S
<1>5. turns \in S
  BY <1>2, <1>3, <1>4, Induction
<1>6. loop = rhs(turns, loop)
  <2> HIDE DEF rhs
  <2>1. QED
    BY <1>5 DEF S
<1> HIDE DEF loop
<1>7. loop[0] = begin
  BY <1>2, <1>6
<1>8. ASSUME NEW d \in 0 .. turns - 1 PROVE loop[d + 1] = St(d + 1, loop[d])
  <2>1. d + 1 \in 0 .. turns /\ d + 1 # 0 /\ (d + 1) - 1 = d
    BY <1>2
  <2>2. loop[d + 1] = St(d + 1, loop[(d + 1) - 1])
    BY <1>6, <2>1
  <2>3. QED
    BY <2>1, <2>2
<1>9. QED
  BY <1>1, <1>7, <1>8 DEF begin, turns, St, Balls

\* What is within no, and within one more, edge.
LEMMA WithinNext ==
  ASSUME NEW next, NEW s, NEW n \in Nat
  PROVE  /\ Within(next, s, 0) = {s}
         /\ Within(next, s, n + 1) =
              Within(next, s, n) \cup UNION {ToSet(next[v]) : v \in Within(next, s, n)}
<1>1. Within(next, s, 0) = {s}
  <2>1. PICK f : Within(next, s, 0) = f[0] /\ Balls(next, s, 0, f)
    BY WithinIs
  <2>2. QED
    BY <2>1 DEF Balls
<1>2. PICK f : Within(next, s, n) = f[n] /\ Balls(next, s, n, f)
  BY WithinIs
<1>3. PICK g : Within(next, s, n + 1) = g[n + 1] /\ Balls(next, s, n + 1, g)
  <2>1. n + 1 \in Nat
    OBVIOUS
  <2>2. QED
    BY <2>1, WithinIs
<1>4. f[n] = g[n]
  <2> DEFINE S == {d \in Nat : d <= n => f[d] = g[d]}
  <2>1. 0 \in S
    BY <1>2, <1>3 DEF Balls
  <2>2. ASSUME NEW d \in Nat, d \in S PROVE d + 1 \in S
    <3> SUFFICES ASSUME d + 1 <= n PROVE f[d + 1] = g[d + 1]
      OBVIOUS
    <3>1. d \in 0 .. n - 1 /\ d \in 0 .. (n + 1) - 1 /\ f[d] = g[d]
      BY <2>2
    <3>2. f[d + 1] = f[d] \cup UNION {ToSet(next[v]) : v \in f[d]}
      BY <1>2, <3>1 DEF Balls
    <3>3. g[d + 1] = g[d] \cup UNION {ToSet(next[v]) : v \in g[d]}
      BY <1>3, <3>1 DEF Balls
    <3>4. QED
      BY <3>1, <3>2, <3>3
  <2> HIDE DEF S
  <2>3. Nat \subseteq S
    BY <2>1, <2>2, Induction
  <2>4. QED
    BY <2>3 DEF S
<1>5. n \in 0 .. (n + 1) - 1
  OBVIOUS
<1>6. QED
  BY <1>1, <1>2, <1>3, <1>4, <1>5 DEF Balls

\* One more edge, in terms of lists.
OneOn(next, W, v) == \E u \in W : \E i \in 1 .. Len(next[u]) : v = next[u][i]

\* One edge further.
LEMMA WithinStep ==
  ASSUME NEW n \in Nat, NEW next \in Net(n), NEW s \in 0 .. n - 1, NEW d \in Nat
  PROVE  /\ s \in Within(next, s, d) /\ Within(next, s, d) \subseteq 0 .. n - 1
         /\ \A v : v \in Within(next, s, d + 1) <=>
                     v \in Within(next, s, d) \/ OneOn(next, Within(next, s, d), v)
<1> DEFINE V == 0 .. n - 1
           S == {k \in Nat : s \in Within(next, s, k) /\ Within(next, s, k) \subseteq V}
<1>1. 0 \in S
  <2>1. Within(next, s, 0) = {s}
    BY WithinNext
  <2>2. QED
    BY <2>1
<1>2. ASSUME NEW k \in Nat, k \in S
      PROVE  /\ \A v : v \in Within(next, s, k + 1) <=>
                         v \in Within(next, s, k) \/ OneOn(next, Within(next, s, k), v)
             /\ k + 1 \in S
  <2> DEFINE W == Within(next, s, k)
             more == UNION {ToSet(next[v]) : v \in W}
  <2>1. W \subseteq V /\ s \in W
    BY <1>2
  <2>2. Within(next, s, k + 1) = W \cup more
    BY WithinNext
  <2> HIDE DEF W
  <2>3. \A u \in W : \A t : t \in ToSet(next[u]) <=> \E i \in 1 .. Len(next[u]) : t = next[u][i]
    BY <2>1, NetIs
  <2>4. \A v : v \in more <=> \E u \in W : v \in ToSet(next[u])
    OBVIOUS
  <2> HIDE DEF more
  <2>5. \A v : v \in more <=> OneOn(next, W, v)
    BY <2>3, <2>4, SMTT(30) DEF OneOn
  <2>8. ASSUME NEW v \in more PROVE v \in V
    <3>1. PICK u \in W : \E i \in 1 .. Len(next[u]) : v = next[u][i]
      BY <2>5 DEF OneOn
    <3>2. QED
      BY <2>1, <3>1, NetIs
  <2>6. s \in Within(next, s, k + 1) /\ Within(next, s, k + 1) \subseteq V
    BY <2>1, <2>2, <2>8
  <2>7. QED
    BY <2>2, <2>5, <2>6 DEF W
<1> HIDE DEF S
<1>3. Nat \subseteq S
  BY <1>1, <1>2, Induction
<1>4. d \in S
  BY <1>3
<1>5. QED
  BY <1>2, <1>4 DEF S

\* More edges reach no less.
LEMMA WithinGrows ==
  ASSUME NEW n \in Nat, NEW next \in Net(n), NEW s \in 0 .. n - 1,
         NEW c \in Nat, NEW d \in Nat, c <= d
  PROVE  Within(next, s, c) \subseteq Within(next, s, d)
<1> DEFINE S == {k \in Nat : Within(next, s, c) \subseteq Within(next, s, c + k)}
<1>1. 0 \in S
  <2>1. c + 0 = c
    OBVIOUS
  <2>2. QED
    BY <2>1
<1>2. ASSUME NEW k \in Nat, k \in S PROVE k + 1 \in S
  <2>1. Within(next, s, c + k) \subseteq Within(next, s, (c + k) + 1)
    <3>1. c + k \in Nat
      OBVIOUS
    <3>2. QED
      BY <3>1, WithinStep
  <2>2. (c + k) + 1 = c + (k + 1)
    OBVIOUS
  <2>3. QED
    BY <1>2, <2>1, <2>2
<1> HIDE DEF S
<1>3. Nat \subseteq S
  BY <1>1, <1>2, Induction
<1>4. d - c \in S /\ c + (d - c) = d
  BY <1>3
<1>5. QED
  BY <1>4 DEF S

\* Whatever is closed and holds the start holds all that is within reach.
LEMMA WithinClosed ==
  ASSUME NEW n \in Nat, NEW next \in Net(n), NEW s \in 0 .. n - 1, NEW d \in Nat,
         NEW C, s \in C, Closed(next, C)
  PROVE  Within(next, s, d) \subseteq C
<1> DEFINE S == {k \in Nat : Within(next, s, k) \subseteq C}
<1>1. 0 \in S
  <2>1. Within(next, s, 0) = {s}
    BY WithinNext
  <2>2. QED
    BY <2>1
<1>2. ASSUME NEW k \in Nat, k \in S PROVE k + 1 \in S
  <2>1. \A v \in Within(next, s, k + 1) :
          v \in Within(next, s, k) \/ OneOn(next, Within(next, s, k), v)
    BY WithinStep
  <2>2. Within(next, s, k) \subseteq C
    BY <1>2
  <2>3. Within(next, s, k + 1) \subseteq C
    BY <2>1, <2>2 DEF Closed, OneOn
  <2>4. QED
    BY <2>3
<1> HIDE DEF S
<1>3. Nat \subseteq S
  BY <1>1, <1>2, Induction
<1>4. QED
  BY <1>3 DEF S

(***************************************************************************)
(* With each edge more, something is added or nothing ever will be: before *)
(* as many edges as there are vertices.                                    *)
(***************************************************************************)
LEMMA WithinStops ==
  ASSUME NEW n \in Nat, NEW next \in Net(n), NEW s \in 0 .. n - 1
  PROVE  Closed(next, Within(next, s, n))
<1> DEFINE V == 0 .. n - 1
           W(d) == Within(next, s, d)
           S == {d \in Nat : Closed(next, W(d)) \/ Cardinality(W(d)) > d}
<1>1. IsFiniteSet(V) /\ Cardinality(V) = n
  BY FS_Interval
<1>2. ASSUME NEW d \in Nat
      PROVE  IsFiniteSet(W(d)) /\ Cardinality(W(d)) \in Nat /\ Cardinality(W(d)) <= n
  <2>1. W(d) \in SUBSET V
    BY WithinStep
  <2>2. QED
    BY <1>1, <2>1, FS_Subset, FS_CardinalityType
<1>3. 0 \in S
  <2>1. W(0) = {s}
    BY WithinNext
  <2>2. Cardinality(W(0)) = 1
    BY <2>1, FS_Singleton
  <2>3. QED
    BY <2>2
<1>4. ASSUME NEW d \in Nat, Closed(next, W(d)) PROVE W(d + 1) = W(d)
  <2>1. \A v : v \in W(d + 1) <=> v \in W(d) \/ OneOn(next, W(d), v)
    BY WithinStep
  <2> HIDE DEF W
  <2>2. QED
    <3>1. \A v : OneOn(next, W(d), v) => v \in W(d)
      BY <1>4 DEF Closed, OneOn
    <3>2. QED
      BY <2>1, <3>1
<1>5. ASSUME NEW d \in Nat, d \in S PROVE d + 1 \in S
  <2>1. CASE Closed(next, W(d))
    BY <1>4, <2>1
  <2>2. CASE ~Closed(next, W(d))
    <3>1. PICK u \in W(d) : \E i \in 1 .. Len(next[u]) : next[u][i] \notin W(d)
      BY <2>2 DEF Closed
    <3>2. PICK i \in 1 .. Len(next[u]) : next[u][i] \notin W(d)
      BY <3>1
    <3>3. W(d) \subseteq W(d + 1) /\ next[u][i] \in W(d + 1)
      BY WithinStep DEF OneOn
    <3> HIDE DEF W
    <3>4. W(d) \in SUBSET W(d + 1) /\ W(d) # W(d + 1)
      BY <3>2, <3>3
    <3>5. Cardinality(W(d)) < Cardinality(W(d + 1))
      <4>1. IsFiniteSet(W(d + 1))
        BY <1>2
      <4>2. /\ Cardinality(W(d)) <= Cardinality(W(d + 1))
            /\ Cardinality(W(d)) = Cardinality(W(d + 1)) => W(d) = W(d + 1)
        BY <3>4, <4>1, FS_Subset
      <4>3. Cardinality(W(d)) \in Nat /\ Cardinality(W(d + 1)) \in Nat
        <5>1. d + 1 \in Nat
          OBVIOUS
        <5>2. QED
          BY <1>2, <5>1
      <4>4. QED
        BY <3>4, <4>2, <4>3
    <3>6. Cardinality(W(d)) > d
      BY <1>5, <2>2
    <3>7. QED
      BY <1>2, <3>5, <3>6
  <2>3. QED
    BY <2>1, <2>2
<1> HIDE DEF S
<1>6. n \in S
  BY <1>3, <1>5, Induction
<1>7. ~(Cardinality(W(n)) > n)
  BY <1>2
<1>8. QED
  BY <1>6, <1>7 DEF S

(***************************************************************************)
(* What can be reached is the least closed set with the start.             *)
(***************************************************************************)
LEMMA ReachableIs ==
  ASSUME NEW n \in Nat, NEW next \in Net(n), NEW s \in 0 .. n - 1
  PROVE  /\ s \in Reachable(next, s) /\ Reachable(next, s) \subseteq 0 .. n - 1
         /\ Closed(next, Reachable(next, s))
         /\ \A C : s \in C /\ Closed(next, C) => Reachable(next, s) \subseteq C
<1>1. Reachable(next, s) = Within(next, s, n)
  BY NetIs DEF Reachable
<1>2. s \in Within(next, s, n) /\ Within(next, s, n) \subseteq 0 .. n - 1
  BY WithinStep
<1>3. ASSUME NEW C, s \in C, Closed(next, C) PROVE Within(next, s, n) \subseteq C
  BY <1>3, WithinClosed
<1>4. QED
  BY <1>1, <1>2, <1>3, WithinStops

\* What is reached from something reached is reached.
LEMMA ReachesOn ==
  ASSUME NEW n \in Nat, NEW next \in Net(n), NEW u \in 0 .. n - 1,
         NEW v \in Reachable(next, u)
  PROVE  v \in 0 .. n - 1 /\ Reachable(next, v) \subseteq Reachable(next, u)
<1>1. v \in 0 .. n - 1
  BY ReachableIs
<1>2. Closed(next, Reachable(next, u))
  BY ReachableIs
<1>3. QED
  BY <1>1, <1>2, ReachableIs

\* What a neighbour reaches is reached.
LEMMA ReachesNext ==
  ASSUME NEW n \in Nat, NEW next \in Net(n), NEW u \in 0 .. n - 1, NEW i \in 1 .. Len(next[u])
  PROVE  /\ next[u][i] \in 0 .. n - 1 /\ next[u][i] \in Reachable(next, u)
         /\ Reachable(next, next[u][i]) \subseteq Reachable(next, u)
<1>1. next[u][i] \in 0 .. n - 1
  BY NetIs
<1>2. next[u][i] \in Reachable(next, u)
  BY ReachableIs DEF Closed
<1>3. QED
  BY <1>1, <1>2, ReachesOn

(***************************************************************************)
(* Recursion on a rank: where a step looks at smaller arguments only, some *)
(* function satisfies its recursion.  W tells what results an argument may *)
(* have; g is good to k when it satisfies the recursion for arguments of a *)
(* rank below k.                                                           *)
(***************************************************************************)
Into(D, V, W) == {f \in [D -> V] : \A x \in D : f[x] \in W[x]}

LooksBelow(D, F, rank, step) ==
  \A x \in D : \A g, h \in F :
    (\A y \in D : rank[y] < rank[x] => g[y] = h[y]) => step[<<x, g>>] = step[<<x, h>>]

Solvable(D, F, step) == \E f \in F : \A x \in D : f[x] = step[<<x, f>>]

\* A definition that recurses only to a lower rank has a solution.
LEMMA RankRecursion ==
  ASSUME NEW D, NEW V, NEW W, NEW F, F = Into(D, V, W), NEW base \in F,
         NEW rank \in [D -> Nat], NEW step,
         \A x \in D : \A f \in F : step[<<x, f>>] \in V /\ step[<<x, f>>] \in W[x],
         LooksBelow(D, F, rank, step)
  PROVE  Solvable(D, F, step)
<1> DEFINE Good(k, g) == \A x \in D : rank[x] < k => g[x] = step[<<x, g>>]
<1> USE DEF LooksBelow
<1>1. \A k \in Nat : \E g \in F : Good(k, g)
  <2> DEFINE S == {k \in Nat : \E g \in F : Good(k, g)}
  <2>1. 0 \in S
    <3>1. base \in F /\ Good(0, base)
      OBVIOUS
    <3>2. QED
      BY <3>1
  <2>2. ASSUME NEW k \in Nat, k \in S PROVE k + 1 \in S
    <3>1. PICK g \in F : Good(k, g)
      BY <2>2
    <3> DEFINE h == [x \in D |-> IF rank[x] < k THEN g[x] ELSE step[<<x, g>>]]
    <3>2. h \in F
      <4>1. g \in [D -> V] /\ \A x \in D : g[x] \in W[x]
        BY <3>1 DEF Into
      <4>2. \A x \in D : h[x] \in V /\ h[x] \in W[x]
        BY <3>1, <4>1
      <4>3. QED
        BY <4>2 DEF Into
    <3>3. ASSUME NEW x \in D, rank[x] < k + 1 PROVE h[x] = step[<<x, h>>]
      <4>1. rank[x] \in Nat /\ rank[x] <= k
        BY <3>3
      <4>2. \A y \in D : rank[y] < rank[x] => g[y] = h[y]
        BY <4>1
      <4> HIDE DEF h
      <4>3. step[<<x, g>>] = step[<<x, h>>]
        BY <3>2, <4>2
      <4>4. h[x] = step[<<x, g>>]
        BY <3>1 DEF h
      <4>5. QED
        BY <4>3, <4>4
    <3> HIDE DEF h
    <3>4. Good(k + 1, h)
      BY <3>3
    <3>5. QED
      BY <3>2, <3>4
  <2> HIDE DEF S
  <2>3. Nat \subseteq S
    BY <2>1, <2>2, Induction
  <2>4. QED
    BY <2>3 DEF S
<1>2. ASSUME NEW k \in Nat, NEW g \in F, NEW h \in F, Good(k, g), Good(k, h)
      PROVE  \A x \in D : rank[x] < k => g[x] = h[x]
  <2> DEFINE S == {m \in Nat : \A x \in D : rank[x] < m /\ m <= k => g[x] = h[x]}
  <2>1. 0 \in S
    OBVIOUS
  <2>2. ASSUME NEW m \in Nat, m \in S PROVE m + 1 \in S
    <3> SUFFICES ASSUME NEW x \in D, rank[x] < m + 1, m + 1 <= k PROVE g[x] = h[x]
      OBVIOUS
    <3>1. \A y \in D : rank[y] < rank[x] => g[y] = h[y]
      BY <2>2
    <3>2. g[x] = step[<<x, g>>] /\ h[x] = step[<<x, h>>]
      BY <1>2
    <3>3. QED
      BY <3>1, <3>2
  <2> HIDE DEF S
  <2>3. Nat \subseteq S
    BY <2>1, <2>2, Induction
  <2>4. k \in S
    BY <2>3
  <2>5. QED
    BY <2>4 DEF S
<1> DEFINE G == [k \in Nat |-> CHOOSE g \in F : Good(k, g)]
           f == [x \in D |-> G[rank[x] + 1][x]]
<1>3. \A k \in Nat : G[k] \in F /\ Good(k, G[k])
  BY <1>1
<1>4. f \in F
  <2> HIDE DEF G
  <2>1. \A x \in D : f[x] \in V /\ f[x] \in W[x]
    <3> SUFFICES ASSUME NEW x \in D PROVE f[x] \in V /\ f[x] \in W[x]
      OBVIOUS
    <3>1. G[rank[x] + 1] \in F
      BY <1>3
    <3>2. QED
      BY <3>1 DEF Into
  <2>2. QED
    BY <2>1 DEF Into
<1>5. ASSUME NEW x \in D PROVE f[x] = step[<<x, f>>]
  <2> DEFINE k == rank[x] + 1
  <2>1. k \in Nat /\ rank[x] < k
    OBVIOUS
  <2>2. G[k] \in F /\ Good(k, G[k])
    BY <1>3, <2>1
  <2> HIDE DEF G
  <2>3. G[k][x] = step[<<x, G[k]>>]
    BY <2>1, <2>2
  <2>4. ASSUME NEW y \in D, rank[y] < rank[x] PROVE G[k][y] = f[y]
    <3> DEFINE m == rank[y] + 1
    <3>1. m \in Nat /\ m <= k /\ rank[y] < m
      BY <2>4
    <3>2. G[m] \in F /\ Good(m, G[m])
      BY <1>3, <3>1
    <3>3. Good(m, G[k])
      <4> SUFFICES ASSUME NEW z \in D, rank[z] < m PROVE G[k][z] = step[<<z, G[k]>>]
        OBVIOUS
      <4>1. rank[z] \in Nat /\ rank[z] < k
        BY <3>1
      <4>2. QED
        BY <2>2, <4>1
    <3> HIDE DEF m, k
    <3>4. G[m][y] = G[k][y]
      BY <1>2, <2>2, <3>1, <3>2, <3>3
    <3>5. QED
      BY <3>4 DEF m
  <2>5. step[<<x, G[k]>>] = step[<<x, f>>]
    <3> HIDE DEF f, k
    <3> QED
      BY <1>4, <2>2, <2>4
  <2>6. QED
    BY <2>3, <2>5
<1>6. QED
  BY <1>4, <1>5 DEF Solvable

-----------------------------------------------------------------------------
(***************************************************************************)
(* has_cycle.  What a search leaves: no vertex white that was not.         *)
(***************************************************************************)
Colors(n) == [0 .. n - 1 -> 0 .. 2]
Outcome(n) == [out : 0 .. 1, state : Colors(n)]
White(n, st) == {x \in 0 .. n - 1 : st[x] = 0}
Unmet(n, v, st) == White(n, st) \ {v}

Marks(n, search) ==
  \A t \in 0 .. n - 1 : \A s \in Colors(n) :
    /\ search[<<t, s>>] \in Outcome(n)
    /\ White(n, search[<<t, s>>].state) \subseteq White(n, s)

\* Searches that agree where less has not been met.
SameBelow(n, g, h, m) ==
  \A t \in 0 .. n - 1 : \A s \in Colors(n) :
    Cardinality(Unmet(n, t, s)) < m => g[<<t, s>>] = h[<<t, s>>]

\* The unmet vertices are finitely many.
LEMMA UnmetIs ==
  ASSUME NEW n \in Nat, NEW v, NEW st
  PROVE  IsFiniteSet(Unmet(n, v, st)) /\ Cardinality(Unmet(n, v, st)) \in Nat
<1>1. IsFiniteSet(0 .. n - 1) /\ Unmet(n, v, st) \in SUBSET (0 .. n - 1)
  BY FS_Interval DEF Unmet, White
<1>2. QED
  BY <1>1, FS_Subset, FS_CardinalityType

\* Meeting a vertex leaves fewer unmet.
LEMMA FewerUnmet ==
  ASSUME NEW n \in Nat, NEW v \in 0 .. n - 1, NEW st, NEW t \in 0 .. n - 1, NEW s,
         White(n, s) \subseteq Unmet(n, v, st), s[t] = 0
  PROVE  Cardinality(Unmet(n, t, s)) < Cardinality(Unmet(n, v, st))
<1> DEFINE A == Unmet(n, t, s)
           B == Unmet(n, v, st)
<1>1. A \in SUBSET B /\ t \in B /\ t \notin A
  BY DEF Unmet, White
<1>2. IsFiniteSet(B) /\ Cardinality(A) \in Nat /\ Cardinality(B) \in Nat
  BY UnmetIs
<1> HIDE DEF A, B
<1>3. Cardinality(A) <= Cardinality(B) /\ (Cardinality(A) = Cardinality(B) => A = B)
  BY <1>1, <1>2, FS_Subset
<1>4. Cardinality(A) < Cardinality(B)
  BY <1>1, <1>2, <1>3
<1>5. QED
  BY <1>4 DEF A, B

\* Looking at a vertex unmarks none.
LEMMA LookMarks ==
  ASSUME NEW n \in Nat, NEW search, Marks(n, search), NEW r \in Outcome(n), NEW t \in 0 .. n - 1
  PROVE  /\ Look(search, r, t) \in Outcome(n)
         /\ White(n, Look(search, r, t).state) \subseteq White(n, r.state)
<1>1. CASE r.out = 1 \/ r.state[t] = 2
  BY <1>1 DEF Look
<1>2. CASE ~(r.out = 1 \/ r.state[t] = 2) /\ r.state[t] = 1
  <2>1. Look(search, r, t) = [out |-> 1, state |-> r.state]
    BY <1>2 DEF Look
  <2>2. QED
    BY <2>1 DEF Outcome
<1>3. CASE ~(r.out = 1 \/ r.state[t] = 2) /\ r.state[t] # 1
  <2>1. Look(search, r, t) = search[<<t, r.state>>] /\ r.state \in Colors(n)
    BY <1>3 DEF Look, Outcome
  <2>2. QED
    BY <2>1 DEF Marks
<1>4. QED
  BY <1>1, <1>2, <1>3

\* Looking depends on the search only where less is unmet.
LEMMA LookSame ==
  ASSUME NEW n \in Nat, NEW g, NEW h, NEW v \in 0 .. n - 1, NEW st,
         SameBelow(n, g, h, Cardinality(Unmet(n, v, st))),
         NEW r \in Outcome(n), White(n, r.state) \subseteq Unmet(n, v, st), NEW t \in 0 .. n - 1
  PROVE  Look(g, r, t) = Look(h, r, t)
<1>1. CASE r.out = 1 \/ r.state[t] = 2 \/ r.state[t] = 1
  BY <1>1 DEF Look
<1>2. CASE ~(r.out = 1 \/ r.state[t] = 2 \/ r.state[t] = 1)
  <2>1. r.state \in Colors(n) /\ r.state[t] = 0
    BY <1>2 DEF Outcome, Colors
  <2>2. Cardinality(Unmet(n, t, r.state)) < Cardinality(Unmet(n, v, st))
    BY <2>1, FewerUnmet
  <2>3. g[<<t, r.state>>] = h[<<t, r.state>>]
    BY <2>1, <2>2 DEF SameBelow
  <2>4. QED
    BY <2>3 DEF Look
<1>3. QED
  BY <1>1, <1>2

Painted(n, st, v, c, new) ==
  new \in Colors(n) /\ new[v] = c /\ \A x \in 0 .. n - 1 : x # v => new[x] = st[x]

\* A vertex is painted, on the way in or out.
LEMMA MarkedFirst ==
  ASSUME NEW n \in Nat, NEW v \in 0 .. n - 1, NEW st \in Colors(n)
  PROVE  /\ Painted(n, st, v, 1, [st EXCEPT ![v] = 1])
         /\ Painted(n, st, v, 2, [st EXCEPT ![v] = 2])
BY DEF Colors, Painted

Looked(next, search, v, state, f) ==
  /\ f[0] = [out |-> 0, state |-> [state EXCEPT ![v] = 1]]
  /\ \A d \in 0 .. Len(next[v]) - 1 :
       f[d + 1] = Look(search, f[d], next[v][d + 1])

\* The loop over a vertex's arcs by the step.
LEMMA TargetsIs ==
  ASSUME NEW next, NEW search, NEW v, NEW state, Len(next[v]) \in Nat
  PROVE  \E f : /\ Targets(next, search, v, state) = f[Len(next[v])]
              /\ Looked(next, search, v, state, f)
<1> DEFINE begin == [out |-> 0, state |-> [state EXCEPT ![v] = 1]]
           turns == Len(next[v])
           St(d, x) == Look(search, x, next[v][d])
           rhs(top, f) == [d \in 0 .. top |-> IF d = 0 THEN begin ELSE St(d, f[d - 1])]
           S == {k \in Nat : \E f : f = rhs(k, f)}
           loop == CHOOSE f : f = rhs(turns, f)
<1>1. Targets(next, search, v, state) = loop[turns]
  BY Zenon DEF Targets
<1>2. turns \in Nat
  OBVIOUS
<1> HIDE DEF begin, turns, St
<1>3. 0 \in S
  <2>1. [d \in 0 .. 0 |-> begin] = rhs(0, [d \in 0 .. 0 |-> begin])
    OBVIOUS
  <2>2. QED
    BY <2>1
<1>4. ASSUME NEW k \in Nat, k \in S PROVE k + 1 \in S
  <2>1. PICK f : f = rhs(k, f)
    BY <1>4
  <2> DEFINE h == [d \in 0 .. k + 1 |-> IF d = k + 1 THEN St(d, f[k]) ELSE f[d]]
  <2>2. \A d \in 0 .. k : f[d] = IF d = 0 THEN begin ELSE St(d, f[d - 1])
    BY <2>1
  <2>3. ASSUME NEW d \in 0 .. k + 1
        PROVE  h[d] = IF d = 0 THEN begin ELSE St(d, h[d - 1])
    <3>1. CASE d = k + 1
      BY <3>1
    <3>2. CASE d # k + 1
      <4>1. d \in 0 .. k /\ (d # 0 => d - 1 \in 0 .. k /\ d - 1 # k + 1)
        BY <3>2
      <4>2. h[d] = f[d] /\ (d # 0 => h[d - 1] = f[d - 1])
        BY <3>2, <4>1
      <4>3. f[d] = IF d = 0 THEN begin ELSE St(d, f[d - 1])
        BY <2>2, <4>1
      <4> HIDE DEF h
      <4>4. QED
        BY <4>2, <4>3
    <3>3. QED
      BY <3>1, <3>2
  <2>4. h = rhs(k + 1, h)
    BY <2>3
  <2> HIDE DEF h, rhs
  <2>5. QED
    BY <2>4
<1> HIDE DEF S
<1>5. turns \in S
  BY <1>2, <1>3, <1>4, Induction
<1>6. loop = rhs(turns, loop)
  <2> HIDE DEF rhs
  <2>1. QED
    BY <1>5 DEF S
<1> HIDE DEF loop
<1>7. loop[0] = begin
  BY <1>2, <1>6
<1>8. ASSUME NEW d \in 0 .. turns - 1 PROVE loop[d + 1] = St(d + 1, loop[d])
  <2>1. d + 1 \in 0 .. turns /\ d + 1 # 0 /\ (d + 1) - 1 = d
    BY <1>2
  <2>2. loop[d + 1] = St(d + 1, loop[(d + 1) - 1])
    BY <1>6, <2>1
  <2>3. QED
    BY <2>1, <2>2
<1>9. QED
  BY <1>1, <1>7, <1>8 DEF begin, turns, St, Looked

\* No turn of that loop unmarks a vertex.
LEMMA LookedMarks ==
  ASSUME NEW n \in Nat, NEW next \in Net(n), NEW search, Marks(n, search),
         NEW v \in 0 .. n - 1, NEW st \in Colors(n), NEW f, Looked(next, search, v, st, f)
  PROVE  \A d \in 0 .. Len(next[v]) :
           f[d] \in Outcome(n) /\ White(n, f[d].state) \subseteq Unmet(n, v, st)
<1> DEFINE S == {d \in Nat : d <= Len(next[v]) =>
                   f[d] \in Outcome(n) /\ White(n, f[d].state) \subseteq Unmet(n, v, st)}
<1>1. 0 \in S
  <2> DEFINE gray == [st EXCEPT ![v] = 1]
  <2>1. f[0] = [out |-> 0, state |-> gray]
    BY DEF Looked
  <2>2. Painted(n, st, v, 1, gray)
    BY MarkedFirst
  <2> HIDE DEF gray
  <2>3. f[0] \in Outcome(n)
    BY <2>1, <2>2 DEF Outcome, Painted
  <2>4. White(n, f[0].state) \subseteq Unmet(n, v, st)
    BY <2>1, <2>2 DEF White, Unmet, Painted
  <2>5. QED
    BY <2>3, <2>4
<1>2. ASSUME NEW d \in Nat, d \in S PROVE d + 1 \in S
  <2> SUFFICES ASSUME d + 1 <= Len(next[v])
               PROVE  /\ f[d + 1] \in Outcome(n)
                      /\ White(n, f[d + 1].state) \subseteq Unmet(n, v, st)
    OBVIOUS
  <2>1. d \in 0 .. Len(next[v]) - 1 /\ d + 1 \in 1 .. Len(next[v]) /\ Len(next[v]) \in Nat
    BY NetIs
  <2>2. f[d + 1] = Look(search, f[d], next[v][d + 1])
    BY <2>1 DEF Looked
  <2>3. next[v][d + 1] \in 0 .. n - 1
    BY <2>1, NetIs
  <2>4. f[d] \in Outcome(n) /\ White(n, f[d].state) \subseteq Unmet(n, v, st)
    BY <1>2, <2>1
  <2>5. QED
    BY <2>2, <2>3, <2>4, LookMarks
<1> HIDE DEF S
<1>3. Nat \subseteq S
  BY <1>1, <1>2, Induction
<1>4. QED
  BY <1>3, NetIs DEF S

\* Nor does the whole loop.
LEMMA TargetsMark ==
  ASSUME NEW n \in Nat, NEW next \in Net(n), NEW search, Marks(n, search),
         NEW v \in 0 .. n - 1, NEW st \in Colors(n)
  PROVE  /\ Targets(next, search, v, st) \in Outcome(n)
         /\ White(n, Targets(next, search, v, st).state) \subseteq Unmet(n, v, st)
<1>1. Len(next[v]) \in Nat /\ Len(next[v]) \in 0 .. Len(next[v])
  BY NetIs
<1>2. PICK f : Targets(next, search, v, st) = f[Len(next[v])] /\ Looked(next, search, v, st, f)
  BY <1>1, TargetsIs
<1>3. QED
  BY <1>1, <1>2, LookedMarks

\* And so does the loop.
LEMMA TargetsSame ==
  ASSUME NEW n \in Nat, NEW next \in Net(n), NEW v \in 0 .. n - 1, NEW st \in Colors(n),
         NEW g, NEW h, Marks(n, g), SameBelow(n, g, h, Cardinality(Unmet(n, v, st)))
  PROVE  Targets(next, g, v, st) = Targets(next, h, v, st)
<1>1. Len(next[v]) \in Nat
  BY NetIs
<1>2. PICK f : Targets(next, g, v, st) = f[Len(next[v])] /\ Looked(next, g, v, st, f)
  BY <1>1, TargetsIs
<1>3. PICK e : Targets(next, h, v, st) = e[Len(next[v])] /\ Looked(next, h, v, st, e)
  BY <1>1, TargetsIs
<1> DEFINE S == {d \in Nat : d <= Len(next[v]) => f[d] = e[d]}
<1>4. 0 \in S
  BY <1>2, <1>3 DEF Looked
<1>5. ASSUME NEW d \in Nat, d \in S PROVE d + 1 \in S
  <2> SUFFICES ASSUME d + 1 <= Len(next[v]) PROVE f[d + 1] = e[d + 1]
    OBVIOUS
  <2>1. /\ d \in 0 .. Len(next[v]) - 1 /\ d + 1 \in 1 .. Len(next[v])
        /\ d \in 0 .. Len(next[v]) /\ f[d] = e[d]
    BY <1>1, <1>5
  <2>2. /\ f[d + 1] = Look(g, f[d], next[v][d + 1])
        /\ e[d + 1] = Look(h, f[d], next[v][d + 1])
    BY <1>2, <1>3, <2>1 DEF Looked
  <2>3. next[v][d + 1] \in 0 .. n - 1
    BY <2>1, NetIs
  <2>4. f[d] \in Outcome(n) /\ White(n, f[d].state) \subseteq Unmet(n, v, st)
    BY <1>2, <2>1, LookedMarks
  <2>5. QED
    BY <2>2, <2>3, <2>4, LookSame
<1> HIDE DEF S
<1>6. Nat \subseteq S
  BY <1>4, <1>5, Induction
<1>7. QED
  BY <1>1, <1>2, <1>3, <1>6 DEF S

\* One level of cycle_dfs marks its vertex and unmarks none.
LEMMA CycleDfsMarks ==
  ASSUME NEW n \in Nat, NEW next \in Net(n), NEW search, Marks(n, search),
         NEW v \in 0 .. n - 1, NEW st \in Colors(n)
  PROVE  /\ cycle_dfs(next, search, v, st) \in Outcome(n)
         /\ White(n, cycle_dfs(next, search, v, st).state) \subseteq White(n, st)
<1> DEFINE r == Targets(next, search, v, st)
<1>1. r \in Outcome(n) /\ White(n, r.state) \subseteq Unmet(n, v, st)
  BY TargetsMark
<1>2. cycle_dfs(next, search, v, st) =
        IF r.out = 1 THEN r ELSE [out |-> 0, state |-> [r.state EXCEPT ![v] = 2]]
  BY DEF cycle_dfs
<1> HIDE DEF r
<1>3. r.state \in Colors(n)
  BY <1>1 DEF Outcome
<1>4. /\ [r.state EXCEPT ![v] = 2] \in Colors(n)
      /\ White(n, [r.state EXCEPT ![v] = 2]) \subseteq White(n, r.state)
  <2>1. Painted(n, r.state, v, 2, [r.state EXCEPT ![v] = 2])
    BY <1>3, MarkedFirst
  <2>2. QED
    BY <2>1 DEF White, Painted
<1>5. [out |-> 0, state |-> [r.state EXCEPT ![v] = 2]] \in Outcome(n)
  BY <1>4 DEF Outcome
<1>6. QED
  BY <1>1, <1>2, <1>4, <1>5 DEF Unmet

\* The search of has_cycle satisfies its own recursion.
Searches(n, next, search) ==
  /\ Marks(n, search)
  /\ \A v \in 0 .. n - 1 : \A st \in Colors(n) :
       search[<<v, st>>] = cycle_dfs(next, search, v, st)

\* The recursive function that CycleFrom chooses exists.
LEMMA CycleFromIs ==
  ASSUME NEW n \in Nat, NEW next \in Net(n)
  PROVE  \E search : /\ Searches(n, next, search)
                     /\ \A v, st : CycleFrom(next, v, st) = search[<<v, st>>]
<1> DEFINE D == (0 .. n - 1) \X Colors(n)
           V == Outcome(n)
           W == [c \in D |-> {r \in V : White(n, r.state) \subseteq White(n, c[2])}]
           F == Into(D, V, W)
           step == [y \in D \X F |-> cycle_dfs(next, y[2], y[1][1], y[1][2])]
           rank == [c \in D |-> Cardinality(Unmet(n, c[1], c[2]))]
           base == [c \in D |-> [out |-> 0, state |-> c[2]]]
           rhs(f) == [c \in D |-> cycle_dfs(next, f, c[1], c[2])]
<1>1. \A f \in F : Marks(n, f)
  BY DEF Into, Marks
<1>2. base \in F
  BY DEF Into, Outcome
<1>3. rank \in [D -> Nat]
  BY UnmetIs
<1>4. ASSUME NEW c \in D, NEW f \in F PROVE step[<<c, f>>] \in V /\ step[<<c, f>>] \in W[c]
  <2>1. step[<<c, f>>] = cycle_dfs(next, f, c[1], c[2])
    OBVIOUS
  <2>2. c[1] \in 0 .. n - 1 /\ c[2] \in Colors(n) /\ Marks(n, f)
    BY <1>1
  <2>3. /\ cycle_dfs(next, f, c[1], c[2]) \in Outcome(n)
        /\ White(n, cycle_dfs(next, f, c[1], c[2]).state) \subseteq White(n, c[2])
    BY <2>2, CycleDfsMarks
  <2> HIDE DEF step
  <2>4. QED
    BY <2>1, <2>3
<1>5. LooksBelow(D, F, rank, step)
  <2> SUFFICES ASSUME NEW c \in D, NEW g \in F, NEW h \in F,
                      \A y \in D : rank[y] < rank[c] => g[y] = h[y]
               PROVE  step[<<c, g>>] = step[<<c, h>>]
    BY DEF LooksBelow
  <2>1. /\ step[<<c, g>>] = cycle_dfs(next, g, c[1], c[2])
        /\ step[<<c, h>>] = cycle_dfs(next, h, c[1], c[2])
    OBVIOUS
  <2>2. c[1] \in 0 .. n - 1 /\ c[2] \in Colors(n) /\ Marks(n, g)
    BY <1>1
  <2>3. SameBelow(n, g, h, Cardinality(Unmet(n, c[1], c[2])))
    <3> SUFFICES ASSUME NEW t \in 0 .. n - 1, NEW s \in Colors(n),
                        Cardinality(Unmet(n, t, s)) < Cardinality(Unmet(n, c[1], c[2]))
                 PROVE  g[<<t, s>>] = h[<<t, s>>]
      BY DEF SameBelow
    <3>1. <<t, s>> \in D /\ rank[<<t, s>>] < rank[c]
      OBVIOUS
    <3>2. QED
      BY <3>1
  <2>4. Targets(next, g, c[1], c[2]) = Targets(next, h, c[1], c[2])
    BY <2>2, <2>3, TargetsSame
  <2> HIDE DEF step
  <2>5. QED
    BY <2>1, <2>4 DEF cycle_dfs
<1>6. Solvable(D, F, step)
  <2> HIDE DEF D, V, W, F, step, rank, base
  <2>1. F = Into(D, V, W)
    BY DEF F
  <2>2. QED
    BY <1>2, <1>3, <1>4, <1>5, <2>1, RankRecursion
<1>7. PICK f \in F : \A c \in D : f[c] = step[<<c, f>>]
  BY <1>6 DEF Solvable
<1>8. f = rhs(f)
  <2>1. \A c \in D : f[c] = cycle_dfs(next, f, c[1], c[2])
    <3> SUFFICES ASSUME NEW c \in D PROVE f[c] = cycle_dfs(next, f, c[1], c[2])
      OBVIOUS
    <3> HIDE DEF D, F
    <3>1. <<c, f>> \in D \X F
      OBVIOUS
    <3>2. step[<<c, f>>] = cycle_dfs(next, f, c[1], c[2])
      BY <3>1
    <3>3. QED
      BY <1>7, <3>2
  <2>2. f = [c \in D |-> f[c]]
    BY DEF Into
  <2>3. QED
    BY <2>1, <2>2
<1> DEFINE found == CHOOSE h : h = rhs(h)
<1>9. found = rhs(found)
  <2> HIDE DEF rhs
  <2>1. QED
    BY <1>8
<1>10. \A v, st : CycleFrom(next, v, st) = found[<<v, st>>]
  <2>1. D = (DOMAIN next) \X [DOMAIN next -> 0 .. 2]
    BY NetIs DEF Colors
  <2> HIDE DEF D
  <2>2. QED
    BY <2>1, Zenon DEF CycleFrom
<1>11. Marks(n, f)
  BY <1>1
<1>12. ASSUME NEW v \in 0 .. n - 1, NEW st \in Colors(n)
       PROVE  /\ f[<<v, st>>] = cycle_dfs(next, f, v, st)
              /\ found[<<v, st>>] = cycle_dfs(next, found, v, st)
  <2>1. <<v, st>> \in D
    OBVIOUS
  <2>2. f[<<v, st>>] = cycle_dfs(next, f, v, st)
    BY <1>8, <2>1
  <2>3. found[<<v, st>>] = cycle_dfs(next, found, v, st)
    <3> HIDE DEF found
    <3>1. QED
      BY <1>9, <2>1
  <2>4. QED
    BY <2>2, <2>3
<1> HIDE DEF found, F
<1> DEFINE S == {k \in Nat : SameBelow(n, f, found, k)}
<1>13. 0 \in S
  BY UnmetIs DEF SameBelow
<1>14. ASSUME NEW k \in Nat, k \in S PROVE k + 1 \in S
  <2> SUFFICES ASSUME NEW v \in 0 .. n - 1, NEW st \in Colors(n),
                      Cardinality(Unmet(n, v, st)) < k + 1
               PROVE  f[<<v, st>>] = found[<<v, st>>]
    BY DEF SameBelow
  <2>1. SameBelow(n, f, found, k) /\ Cardinality(Unmet(n, v, st)) \in Nat
    BY <1>14, UnmetIs
  <2>2. SameBelow(n, f, found, Cardinality(Unmet(n, v, st)))
    <3>1. Cardinality(Unmet(n, v, st)) <= k
      BY <2>1
    <3>2. QED
      BY <2>1, <3>1, UnmetIs DEF SameBelow
  <2>3. Targets(next, f, v, st) = Targets(next, found, v, st)
    BY <1>11, <2>2, TargetsSame
  <2>4. cycle_dfs(next, f, v, st) = cycle_dfs(next, found, v, st)
    BY <2>3, Zenon DEF cycle_dfs
  <2>5. QED
    BY <1>12, <2>4
<1>15. ASSUME NEW v \in 0 .. n - 1, NEW st \in Colors(n)
       PROVE  found[<<v, st>>] = f[<<v, st>>]
  <2>1. Cardinality(Unmet(n, v, st)) + 1 \in Nat
    BY UnmetIs
  <2> HIDE DEF S
  <2>2. Nat \subseteq S
    BY <1>13, <1>14, Induction
  <2>3. SameBelow(n, f, found, Cardinality(Unmet(n, v, st)) + 1)
    BY <2>1, <2>2 DEF S
  <2>4. Cardinality(Unmet(n, v, st)) < Cardinality(Unmet(n, v, st)) + 1
    BY UnmetIs
  <2>5. QED
    BY <2>3, <2>4 DEF SameBelow
<1>16. Searches(n, next, found)
  BY <1>11, <1>12, <1>15 DEF Searches, Marks
<1>17. QED
  BY <1>10, <1>16

(***************************************************************************)
(* Black vertices lead to black ones only, and lie on no cycle; gray ones  *)
(* lead to the vertex in hand.                                             *)
(***************************************************************************)
Settled(n, next, st) ==
  \A x \in 0 .. n - 1 : st[x] = 2 =>
    x \notin OnCycle(next) /\ \A i \in 1 .. Len(next[x]) : st[next[x][i]] = 2

Leads(n, next, st, v) == \A x \in 0 .. n - 1 : st[x] = 1 => v \in Reachable(next, x)

\* What is said of v: a cycle there is, or none that v leads to.
Told(n, next, v, st, r) ==
  IF r.out = 1 THEN OnCycle(next) # {}
  ELSE /\ Settled(n, next, r.state) /\ r.state[v] = 2
       /\ \A x \in 0 .. n - 1 : (r.state[x] = 1 <=> st[x] = 1) /\ (st[x] = 2 => r.state[x] = 2)

TellsBelow(n, next, search, m) ==
  \A t \in 0 .. n - 1 : \A s \in Colors(n) :
    /\ Cardinality(Unmet(n, t, s)) < m
    /\ s[t] = 0 /\ Settled(n, next, s) /\ Leads(n, next, s, t)
    => Told(n, next, t, s, search[<<t, s>>])

\* The same after the first d arcs of v, which is gray.
Looking(n, next, v, st, d, r) ==
  IF r.out = 1 THEN OnCycle(next) # {}
  ELSE /\ Settled(n, next, r.state)
       /\ \A i \in 1 .. d : r.state[next[v][i]] = 2
       /\ \A x \in 0 .. n - 1 :
            (r.state[x] = 1 <=> st[x] = 1 \/ x = v) /\ (st[x] = 2 => r.state[x] = 2)

\* A vertex on a cycle is reached from one of its targets.
LEMMA OnCycleIs ==
  ASSUME NEW n \in Nat, NEW next \in Net(n), NEW v
  PROVE  v \in OnCycle(next) <=>
           v \in 0 .. n - 1 /\ \E i \in 1 .. Len(next[v]) : v \in Reachable(next, next[v][i])
<1>1. DOMAIN next = 0 .. n - 1
  BY NetIs
<1>2. v \in OnCycle(next) <=>
        v \in 0 .. n - 1 /\ \E t \in ToSet(next[v]) : v \in Reachable(next, t)
  BY <1>1 DEF OnCycle
<1>3. v \in 0 .. n - 1 =>
        \A t : t \in ToSet(next[v]) <=> \E i \in 1 .. Len(next[v]) : t = next[v][i]
  BY NetIs
<1>4. QED
  BY <1>2, <1>3

\* What looking at one target finds out.
LEMMA LookTells ==
  ASSUME NEW n \in Nat, NEW next \in Net(n), NEW v \in 0 .. n - 1, NEW st \in Colors(n),
         Leads(n, next, st, v),
         NEW search, TellsBelow(n, next, search, Cardinality(Unmet(n, v, st))),
         NEW r \in Outcome(n), White(n, r.state) \subseteq Unmet(n, v, st),
         NEW d \in Nat, NEW w \in 1 .. Len(next[v]), w = d + 1,
         Looking(n, next, v, st, d, r)
  PROVE  Looking(n, next, v, st, w, Look(search, r, next[v][w]))
<1> DEFINE t == next[v][w]
<1>1. t \in 0 .. n - 1 /\ t \in Reachable(next, v)
  BY ReachesNext
<1>2. r.state \in Colors(n) /\ r.out \in {0, 1} /\ r.state[t] \in {0, 1, 2}
  BY <1>1 DEF Outcome, Colors
<1>0. \A i \in 1 .. w : i \in 1 .. d \/ i = w
  OBVIOUS
<1>3. CASE r.out = 1
  BY <1>3 DEF Look, Looking
<1>4. CASE r.out # 1 /\ r.state[t] = 2
  BY <1>0, <1>4 DEF Look, Looking
<1>5. CASE r.out # 1 /\ r.state[t] = 1
  <2>1. t = v \/ st[t] = 1
    BY <1>1, <1>5 DEF Looking
  <2>2. v \in Reachable(next, t)
    BY <1>1, <2>1, ReachableIs DEF Leads
  <2>3. v \in OnCycle(next)
    BY <2>2, OnCycleIs
  <2>4. Look(search, r, t) = [out |-> 1, state |-> r.state]
    BY <1>5 DEF Look
  <2> HIDE DEF t
  <2>5. Looking(n, next, v, st, w, Look(search, r, t))
    BY <2>3, <2>4 DEF Looking
  <2>6. QED
    BY <2>5 DEF t
<1>6. CASE r.out # 1 /\ r.state[t] = 0
  <2> DEFINE q == search[<<t, r.state>>]
  <2>1. Look(search, r, t) = q
    BY <1>6 DEF Look
  <2>2. Cardinality(Unmet(n, t, r.state)) < Cardinality(Unmet(n, v, st))
    BY <1>1, <1>6, FewerUnmet
  <2>3. Settled(n, next, r.state)
    BY <1>6 DEF Looking
  <2>4. Leads(n, next, r.state, t)
    <3> SUFFICES ASSUME NEW x \in 0 .. n - 1, r.state[x] = 1 PROVE t \in Reachable(next, x)
      BY DEF Leads
    <3>1. x = v \/ st[x] = 1
      BY <1>6 DEF Looking
    <3>2. v \in Reachable(next, x)
      BY <3>1, ReachableIs DEF Leads
    <3>3. QED
      BY <1>1, <3>2, ReachesOn
  <2>5. Told(n, next, t, r.state, q)
    <3> HIDE DEF t
    <3>1. QED
      BY <1>1, <1>2, <1>6, <2>2, <2>3, <2>4 DEF TellsBelow
  <2>6. t = next[v][w] /\ \A i \in 1 .. d : next[v][i] \in 0 .. n - 1
    <3>1. \A i \in 1 .. d : i \in 1 .. Len(next[v])
      BY NetIs
    <3>2. QED
      BY <3>1, NetIs
  <2> HIDE DEF q, t
  <2>7. CASE q.out = 1
    BY <2>1, <2>5, <2>6, <2>7 DEF Told, Looking
  <2>8. CASE q.out # 1
    <3>1. /\ Settled(n, next, q.state) /\ q.state[t] = 2
          /\ \A x \in 0 .. n - 1 :
               (q.state[x] = 1 <=> r.state[x] = 1) /\ (r.state[x] = 2 => q.state[x] = 2)
      BY <2>5, <2>8 DEF Told
    <3>2. /\ \A i \in 1 .. d : r.state[next[v][i]] = 2
          /\ \A x \in 0 .. n - 1 :
               (r.state[x] = 1 <=> st[x] = 1 \/ x = v) /\ (st[x] = 2 => r.state[x] = 2)
      BY <1>6 DEF Looking
    <3>3. \A i \in 1 .. w : q.state[next[v][i]] = 2
      BY <1>0, <2>6, <3>1, <3>2
    <3>4. Looking(n, next, v, st, w, q)
      BY <2>8, <3>1, <3>2, <3>3 DEF Looking
    <3>5. QED
      BY <2>1, <2>6, <3>4
  <2>9. QED
    BY <2>7, <2>8
<1>7. QED
  BY <1>2, <1>3, <1>4, <1>5, <1>6

\* What looking at all the targets finds out.
LEMMA TargetsTell ==
  ASSUME NEW n \in Nat, NEW next \in Net(n), NEW search, Marks(n, search),
         NEW v \in 0 .. n - 1, NEW st \in Colors(n),
         st[v] = 0, Settled(n, next, st), Leads(n, next, st, v),
         TellsBelow(n, next, search, Cardinality(Unmet(n, v, st)))
  PROVE  Looking(n, next, v, st, Len(next[v]), Targets(next, search, v, st))
<1>1. Len(next[v]) \in Nat
  BY NetIs
<1>2. PICK f : Targets(next, search, v, st) = f[Len(next[v])] /\ Looked(next, search, v, st, f)
  BY <1>1, TargetsIs
<1> DEFINE S == {d \in Nat : d <= Len(next[v]) => Looking(n, next, v, st, d, f[d])}
<1>3. 0 \in S
  <2> DEFINE gray == [st EXCEPT ![v] = 1]
  <2>1. f[0] = [out |-> 0, state |-> gray]
    BY <1>2 DEF Looked
  <2>2. Painted(n, st, v, 1, gray)
    BY MarkedFirst
  <2> HIDE DEF gray
  <2>3. \A x \in 0 .. n - 1 : gray[x] = 1 <=> st[x] = 1 \/ x = v
    BY <2>2 DEF Painted
  <2>4. \A x \in 0 .. n - 1 : gray[x] = 2 <=> st[x] = 2
    BY <2>2 DEF Painted
  <2>5. Settled(n, next, gray)
    BY <2>4, NetIs DEF Settled
  <2>6. Looking(n, next, v, st, 0, f[0])
    BY <2>1, <2>3, <2>4, <2>5 DEF Looking
  <2>7. QED
    BY <2>6
<1>4. ASSUME NEW d \in Nat, d \in S PROVE d + 1 \in S
  <2> SUFFICES ASSUME d + 1 <= Len(next[v])
               PROVE  Looking(n, next, v, st, d + 1, f[d + 1])
    OBVIOUS
  <2> DEFINE w == d + 1
  <2>1. d \in 0 .. Len(next[v]) - 1 /\ w \in 1 .. Len(next[v]) /\ d \in 0 .. Len(next[v])
    BY <1>1
  <2>2. f[w] = Look(search, f[d], next[v][w])
    BY <1>2, <2>1 DEF Looked
  <2>3. f[d] \in Outcome(n) /\ White(n, f[d].state) \subseteq Unmet(n, v, st)
    BY <1>2, <2>1, LookedMarks
  <2>4. w = d + 1 /\ Looking(n, next, v, st, d, f[d])
    BY <1>4, <2>1
  <2> HIDE DEF w
  <2>5. Looking(n, next, v, st, w, f[w])
    BY <2>1, <2>2, <2>3, <2>4, LookTells
  <2>6. QED
    BY <2>4, <2>5
<1> HIDE DEF S
<1>5. Nat \subseteq S
  BY <1>3, <1>4, Induction
<1>6. QED
  BY <1>1, <1>2, <1>5 DEF S

\* v is finished when all its arcs are, and on no cycle.
LEMMA CycleDfsTells ==
  ASSUME NEW n \in Nat, NEW next \in Net(n), NEW search, Marks(n, search),
         NEW v \in 0 .. n - 1, NEW st \in Colors(n),
         st[v] = 0, Settled(n, next, st), Leads(n, next, st, v),
         TellsBelow(n, next, search, Cardinality(Unmet(n, v, st)))
  PROVE  Told(n, next, v, st, cycle_dfs(next, search, v, st))
<1> DEFINE r == Targets(next, search, v, st)
           black == [r.state EXCEPT ![v] = 2]
<1>1. cycle_dfs(next, search, v, st) = IF r.out = 1 THEN r ELSE [out |-> 0, state |-> black]
  BY DEF cycle_dfs
<1>2. Looking(n, next, v, st, Len(next[v]), r)
  BY TargetsTell
<1>3. r \in Outcome(n)
  BY TargetsMark
<1> HIDE DEF r
<1>4. CASE r.out = 1
  BY <1>1, <1>2, <1>4 DEF Looking, Told
<1>5. CASE r.out # 1
  <2>1. /\ Settled(n, next, r.state)
        /\ \A i \in 1 .. Len(next[v]) : r.state[next[v][i]] = 2
        /\ \A x \in 0 .. n - 1 :
             (r.state[x] = 1 <=> st[x] = 1 \/ x = v) /\ (st[x] = 2 => r.state[x] = 2)
    BY <1>2, <1>5 DEF Looking
  <2>2. Painted(n, r.state, v, 2, black)
    <3>1. r.state \in Colors(n)
      BY <1>3 DEF Outcome
    <3>2. QED
      BY <3>1, MarkedFirst
  <2>3. cycle_dfs(next, search, v, st) = [out |-> 0, state |-> black]
    BY <1>1, <1>5
  <2> HIDE DEF black
  <2>4. v \notin OnCycle(next)
    <3> SUFFICES ASSUME NEW i \in 1 .. Len(next[v]), v \in Reachable(next, next[v][i])
                 PROVE  FALSE
      BY OnCycleIs
    <3> DEFINE B == {x \in 0 .. n - 1 : r.state[x] = 2}
    <3>1. Closed(next, B)
      <4> SUFFICES ASSUME NEW u \in B, NEW k \in 1 .. Len(next[u]) PROVE next[u][k] \in B
        BY DEF Closed
      <4>1. u \in 0 .. n - 1 /\ r.state[u] = 2
        OBVIOUS
      <4>2. next[u][k] \in 0 .. n - 1
        BY <4>1, NetIs
      <4>3. r.state[next[u][k]] = 2
        BY <2>1, <4>1 DEF Settled
      <4>4. QED
        BY <4>2, <4>3
    <3>2. next[v][i] \in B
      BY <2>1, NetIs
    <3>3. v \notin B
      BY <2>1
    <3> HIDE DEF B
    <3>4. Reachable(next, next[v][i]) \subseteq B
      BY <3>1, <3>2, ReachableIs, NetIs
    <3>5. QED
      BY <3>3, <3>4
  <2>5. \A x \in 0 .. n - 1 : r.state[x] = 2 => black[x] = 2
    BY <2>2 DEF Painted
  <2>6. Settled(n, next, black)
    <3> SUFFICES ASSUME NEW x \in 0 .. n - 1, black[x] = 2
                 PROVE  /\ x \notin OnCycle(next)
                        /\ \A i \in 1 .. Len(next[x]) : black[next[x][i]] = 2
      BY DEF Settled
    <3>1. CASE x = v
      BY <2>1, <2>4, <2>5, <3>1, NetIs
    <3>2. CASE x # v
      <4>1. r.state[x] = 2
        BY <2>2, <3>2 DEF Painted
      <4>2. x \notin OnCycle(next) /\ \A i \in 1 .. Len(next[x]) : r.state[next[x][i]] = 2
        BY <2>1, <4>1 DEF Settled
      <4>3. \A i \in 1 .. Len(next[x]) : next[x][i] \in 0 .. n - 1
        BY NetIs
      <4>4. QED
        BY <2>5, <4>2, <4>3
    <3>3. QED
      BY <3>1, <3>2
  <2>7. black[v] = 2 /\ \A x \in 0 .. n - 1 :
          (black[x] = 1 <=> st[x] = 1) /\ (st[x] = 2 => black[x] = 2)
    BY <2>1, <2>2 DEF Painted
  <2>8. QED
    BY <2>3, <2>6, <2>7 DEF Told
<1>6. QED
  BY <1>4, <1>5

\* What cycle_dfs finds out, whatever has been searched before.
LEMMA SearchTells ==
  ASSUME NEW n \in Nat, NEW next \in Net(n), NEW search, Searches(n, next, search)
  PROVE  \A m \in Nat : TellsBelow(n, next, search, m)
<1> DEFINE S == {m \in Nat : TellsBelow(n, next, search, m)}
<1>1. 0 \in S
  BY UnmetIs DEF TellsBelow
<1>2. ASSUME NEW m \in Nat, m \in S PROVE m + 1 \in S
  <2> SUFFICES ASSUME NEW v \in 0 .. n - 1, NEW st \in Colors(n),
                      Cardinality(Unmet(n, v, st)) < m + 1,
                      st[v] = 0, Settled(n, next, st), Leads(n, next, st, v)
               PROVE  Told(n, next, v, st, search[<<v, st>>])
    BY DEF TellsBelow
  <2>1. TellsBelow(n, next, search, Cardinality(Unmet(n, v, st)))
    <3>1. Cardinality(Unmet(n, v, st)) <= m
      BY UnmetIs
    <3>2. QED
      BY <1>2, <3>1, UnmetIs DEF TellsBelow
  <2>2. Marks(n, search) /\ search[<<v, st>>] = cycle_dfs(next, search, v, st)
    BY DEF Searches
  <2>3. QED
    BY <2>1, <2>2, CycleDfsTells
<1> HIDE DEF S
<1>3. Nat \subseteq S
  BY <1>1, <1>2, Induction
<1>4. QED
  BY <1>3 DEF S

Rooted(next, f) ==
  /\ f[0] = [out |-> 0, state |-> [v \in DOMAIN next |-> 0]]
  /\ \A d \in 0 .. Cardinality(DOMAIN next) - 1 :
       f[d + 1] = IF f[d].out = 1 \/ f[d].state[d] # 0
                   THEN f[d] ELSE CycleFrom(next, d, f[d].state)

\* The loop of has_cycle by the step.
LEMMA HasCycleIs ==
  ASSUME NEW next, Cardinality(DOMAIN next) \in Nat
  PROVE  \E f : /\ has_cycle(next) = f[Cardinality(DOMAIN next)].out
              /\ Rooted(next, f)
<1> DEFINE begin == [out |-> 0, state |-> [v \in DOMAIN next |-> 0]]
           turns == Cardinality(DOMAIN next)
           St(d, x) == IF x.out = 1 \/ x.state[d - 1] # 0 THEN x
                       ELSE CycleFrom(next, d - 1, x.state)
           rhs(top, f) == [d \in 0 .. top |-> IF d = 0 THEN begin ELSE St(d, f[d - 1])]
           S == {k \in Nat : \E f : f = rhs(k, f)}
           loop == CHOOSE f : f = rhs(turns, f)
<1>1. has_cycle(next) = loop[turns].out
  BY Zenon DEF has_cycle
<1>2. turns \in Nat
  OBVIOUS
<1> HIDE DEF begin, turns, St
<1>3. 0 \in S
  <2>1. [d \in 0 .. 0 |-> begin] = rhs(0, [d \in 0 .. 0 |-> begin])
    OBVIOUS
  <2>2. QED
    BY <2>1
<1>4. ASSUME NEW k \in Nat, k \in S PROVE k + 1 \in S
  <2>1. PICK f : f = rhs(k, f)
    BY <1>4
  <2> DEFINE h == [d \in 0 .. k + 1 |-> IF d = k + 1 THEN St(d, f[k]) ELSE f[d]]
  <2>2. \A d \in 0 .. k : f[d] = IF d = 0 THEN begin ELSE St(d, f[d - 1])
    BY <2>1
  <2>3. ASSUME NEW d \in 0 .. k + 1
        PROVE  h[d] = IF d = 0 THEN begin ELSE St(d, h[d - 1])
    <3>1. CASE d = k + 1
      BY <3>1
    <3>2. CASE d # k + 1
      <4>1. d \in 0 .. k /\ (d # 0 => d - 1 \in 0 .. k /\ d - 1 # k + 1)
        BY <3>2
      <4>2. h[d] = f[d] /\ (d # 0 => h[d - 1] = f[d - 1])
        BY <3>2, <4>1
      <4>3. f[d] = IF d = 0 THEN begin ELSE St(d, f[d - 1])
        BY <2>2, <4>1
      <4> HIDE DEF h
      <4>4. QED
        BY <4>2, <4>3
    <3>3. QED
      BY <3>1, <3>2
  <2>4. h = rhs(k + 1, h)
    BY <2>3
  <2> HIDE DEF h, rhs
  <2>5. QED
    BY <2>4
<1> HIDE DEF S
<1>5. turns \in S
  BY <1>2, <1>3, <1>4, Induction
<1>6. loop = rhs(turns, loop)
  <2> HIDE DEF rhs
  <2>1. QED
    BY <1>5 DEF S
<1> HIDE DEF loop
<1>7. loop[0] = begin
  BY <1>2, <1>6
<1>8. ASSUME NEW d \in 0 .. turns - 1 PROVE loop[d + 1] = St(d + 1, loop[d])
  <2>1. d + 1 \in 0 .. turns /\ d + 1 # 0 /\ (d + 1) - 1 = d
    BY <1>2
  <2>2. loop[d + 1] = St(d + 1, loop[(d + 1) - 1])
    BY <1>6, <2>1
  <2>3. QED
    BY <2>1, <2>2
<1>9. QED
  BY <1>1, <1>7, <1>8 DEF begin, turns, St, Rooted

\* Before the turn of vertex m, those before it are black or a cycle is found.
SearchedTo(n, next, m, r) ==
  /\ r \in Outcome(n)
  /\ IF r.out = 1 THEN OnCycle(next) # {}
     ELSE /\ Settled(n, next, r.state)
          /\ \A x \in 0 .. n - 1 : r.state[x] # 1 /\ (x < m => r.state[x] = 2)

\* A turn of that loop.
LEMMA SearchedOne ==
  ASSUME NEW n \in Nat, NEW next \in Net(n), NEW m \in 0 .. n - 1, NEW r,
         SearchedTo(n, next, m, r), r.out # 1, r.state[m] = 0
  PROVE  SearchedTo(n, next, m + 1, CycleFrom(next, m, r.state))
<1>1. PICK search : /\ Searches(n, next, search)
                    /\ \A v, st : CycleFrom(next, v, st) = search[<<v, st>>]
  BY CycleFromIs
<1> DEFINE q == search[<<m, r.state>>]
<1>2. r.state \in Colors(n)
  BY DEF SearchedTo, Outcome
<1>3. q \in Outcome(n)
  BY <1>1, <1>2 DEF Searches, Marks
<1>4. Settled(n, next, r.state) /\ Leads(n, next, r.state, m)
  BY DEF SearchedTo, Leads
<1>5. Told(n, next, m, r.state, q)
  <2> DEFINE k == Cardinality(Unmet(n, m, r.state))
  <2>1. k \in Nat /\ k + 1 \in Nat /\ k < k + 1
    BY UnmetIs
  <2>2. TellsBelow(n, next, search, k + 1)
    BY <1>1, <2>1, SearchTells
  <2>3. QED
    BY <1>2, <1>4, <2>1, <2>2 DEF TellsBelow
<1>6. CycleFrom(next, m, r.state) = q
  BY <1>1
<1> HIDE DEF q
<1>7. CASE q.out = 1
  BY <1>3, <1>5, <1>6, <1>7 DEF Told, SearchedTo
<1>8. CASE q.out # 1
  <2>1. /\ Settled(n, next, q.state) /\ q.state[m] = 2
        /\ \A x \in 0 .. n - 1 :
             (q.state[x] = 1 <=> r.state[x] = 1) /\ (r.state[x] = 2 => q.state[x] = 2)
    BY <1>5, <1>8 DEF Told
  <2>2. \A x \in 0 .. n - 1 : r.state[x] # 1 /\ (x < m => r.state[x] = 2)
    BY DEF SearchedTo
  <2>3. \A x \in 0 .. n - 1 : x < m + 1 => x = m \/ x < m
    OBVIOUS
  <2>4. \A x \in 0 .. n - 1 : q.state[x] # 1 /\ (x < m + 1 => q.state[x] = 2)
    BY <2>1, <2>2, <2>3
  <2>5. QED
    BY <1>3, <1>6, <1>8, <2>1, <2>4 DEF SearchedTo
<1>9. QED
  BY <1>7, <1>8

(***************************************************************************)
(* has_cycle tells the graphs with a cycle from those without.             *)
(***************************************************************************)
LEMMA HasCycleTells ==
  ASSUME NEW n \in Nat, NEW next \in Net(n)
  PROVE  has_cycle(next) = IF OnCycle(next) = {} THEN 0 ELSE 1
<1>1. Cardinality(DOMAIN next) = n /\ DOMAIN next = 0 .. n - 1
  BY NetIs
<1>2. PICK f : has_cycle(next) = f[n].out /\ Rooted(next, f)
  BY <1>1, HasCycleIs
<1> DEFINE S == {m \in Nat : m <= n => SearchedTo(n, next, m, f[m])}
<1>3. 0 \in S
  <2> DEFINE white == [v \in 0 .. n - 1 |-> 0]
  <2>1. f[0] = [out |-> 0, state |-> white]
    BY <1>1, <1>2 DEF Rooted
  <2>2. white \in Colors(n) /\ \A x \in 0 .. n - 1 : white[x] = 0
    BY DEF Colors
  <2> HIDE DEF white
  <2>3. SearchedTo(n, next, 0, f[0])
    BY <2>1, <2>2 DEF SearchedTo, Outcome, Settled
  <2>4. QED
    BY <2>3
<1>4. ASSUME NEW m \in Nat, m \in S PROVE m + 1 \in S
  <2> SUFFICES ASSUME m + 1 <= n PROVE SearchedTo(n, next, m + 1, f[m + 1])
    OBVIOUS
  <2> DEFINE r == f[m]
  <2>1. m \in 0 .. n - 1 /\ (m + 1) - 1 = m
    OBVIOUS
  <2>2. f[m + 1] = IF r.out = 1 \/ r.state[m] # 0 THEN r ELSE CycleFrom(next, m, r.state)
    BY <1>1, <1>2, <2>1 DEF Rooted
  <2>3. SearchedTo(n, next, m, r)
    BY <1>4
  <2> HIDE DEF r
  <2>4. CASE r.out # 1 /\ r.state[m] = 0
    BY <2>1, <2>2, <2>3, <2>4, SearchedOne
  <2>5. CASE r.out = 1
    BY <2>2, <2>3, <2>5 DEF SearchedTo
  <2>6. CASE r.out # 1 /\ r.state[m] # 0
    <3>1. r.state[m] \in 0 .. 2 /\ r.state[m] # 1
      BY <2>1, <2>3, <2>6 DEF SearchedTo, Outcome, Colors
    <3>2. \A x \in 0 .. n - 1 : x < m + 1 => r.state[x] = 2
      BY <2>3, <2>6, <3>1 DEF SearchedTo
    <3>3. QED
      BY <2>2, <2>3, <2>6, <3>2 DEF SearchedTo
  <2>7. QED
    BY <2>4, <2>5, <2>6
<1> HIDE DEF S
<1>5. Nat \subseteq S
  BY <1>3, <1>4, Induction
<1>6. SearchedTo(n, next, n, f[n])
  BY <1>5 DEF S
<1>7. f[n].out \in {0, 1}
  BY <1>6 DEF SearchedTo, Outcome
<1>8. CASE f[n].out = 1
  BY <1>2, <1>6, <1>8 DEF SearchedTo
<1>9. CASE f[n].out = 0
  <2>1. \A x \in 0 .. n - 1 : x \notin OnCycle(next)
    BY <1>6, <1>9 DEF SearchedTo, Settled
  <2>2. OnCycle(next) = {}
    BY <2>1, OnCycleIs
  <2>3. QED
    BY <1>2, <1>9, <2>2
<1>10. QED
  BY <1>7, <1>8, <1>9
-----------------------------------------------------------------------------
(***************************************************************************)
(* topological_sort.  An arc is a vertex and a place in its list.          *)
(***************************************************************************)
ArcSet(n, next) == UNION {{v} \X (1 .. Len(next[v])) : v \in 0 .. n - 1}

Entering(next, M, t) == {x \in M : next[x[1]][x[2]] = t}

\* An arc's parts.
LEMMA ArcIs ==
  ASSUME NEW n \in Nat, NEW next \in Net(n), NEW x \in ArcSet(n, next)
  PROVE  /\ x[1] \in 0 .. n - 1 /\ x[2] \in 1 .. Len(next[x[1]]) /\ x = <<x[1], x[2]>>
         /\ next[x[1]][x[2]] \in 0 .. n - 1
<1>1. PICK v \in 0 .. n - 1 : x \in {v} \X (1 .. Len(next[v]))
  BY DEF ArcSet
<1>2. x[1] = v /\ x[2] \in 1 .. Len(next[v]) /\ x = <<x[1], x[2]>>
  BY <1>1
<1>3. QED
  BY <1>2, NetIs

\* Every place on a list is an arc.
LEMMA IsArc ==
  ASSUME NEW n \in Nat, NEW next, NEW v \in 0 .. n - 1, NEW i \in 1 .. Len(next[v])
  PROVE  <<v, i>> \in ArcSet(n, next)
BY DEF ArcSet

\* The arcs are finitely many.
LEMMA ArcSetFinite ==
  ASSUME NEW n \in Nat, NEW next \in Net(n)
  PROVE  IsFiniteSet(ArcSet(n, next))
<1> DEFINE all == {{v} \X (1 .. Len(next[v])) : v \in 0 .. n - 1}
           f == [v \in 0 .. n - 1 |-> {v} \X (1 .. Len(next[v]))]
<1>1. IsFiniteSet(0 .. n - 1)
  BY FS_Interval
<1>2. IsFiniteSet(all)
  <2>1. f \in Surjection(0 .. n - 1, all)
    BY DEF Surjection
  <2>2. QED
    BY <1>1, <2>1, FS_Surjection
<1>3. ASSUME NEW S \in all PROVE IsFiniteSet(S)
  <2>1. PICK v \in 0 .. n - 1 : S = {v} \X (1 .. Len(next[v]))
    BY <1>3
  <2>2. Len(next[v]) \in Nat
    BY NetIs
  <2>3. IsFiniteSet(1 .. Len(next[v]))
    <3>1. PICK m \in Int : m = Len(next[v])
      BY <2>2
    <3>2. IsFiniteSet(1 .. m)
      BY FS_Interval
    <3>3. QED
      BY <3>1, <3>2
  <2>4. IsFiniteSet({v})
    BY FS_Singleton
  <2>5. QED
    BY <2>1, <2>3, <2>4, FS_Product
<1>4. IsFiniteSet(UNION all)
  BY <1>2, <1>3, FS_UNION
<1>5. QED
  BY <1>4 DEF ArcSet

\* And so are those to a vertex.
LEMMA EnteringFinite ==
  ASSUME NEW n \in Nat, NEW next \in Net(n), NEW M \in SUBSET ArcSet(n, next), NEW t
  PROVE  /\ IsFiniteSet(Entering(next, M, t)) /\ Cardinality(Entering(next, M, t)) \in Nat
         /\ Cardinality(Entering(next, M, t)) = 0 <=> Entering(next, M, t) = {}
<1>1. Entering(next, M, t) \in SUBSET ArcSet(n, next)
  BY DEF Entering
<1>2. IsFiniteSet(Entering(next, M, t))
  BY <1>1, ArcSetFinite, FS_Subset
<1>3. QED
  BY <1>2, FS_CardinalityType, FS_EmptySet

\* in_degree counts the arcs to a vertex.
LEMMA InDegreeIs ==
  ASSUME NEW n \in Nat, NEW next \in Net(n), NEW t
  PROVE  in_degree(next, t) = Cardinality(Entering(next, ArcSet(n, next), t))
<1> DEFINE S == UNION {{v} \X {i \in DOMAIN next[v] : next[v][i] = t} : v \in DOMAIN next}
<1>1. ASSUME NEW x \in S PROVE x \in Entering(next, ArcSet(n, next), t)
  <2>1. PICK v \in DOMAIN next : x \in {v} \X {i \in DOMAIN next[v] : next[v][i] = t}
    BY <1>1
  <2>2. v \in 0 .. n - 1 /\ DOMAIN next[v] = 1 .. Len(next[v])
    BY NetIs
  <2>3. x = <<v, x[2]>> /\ x[1] = v /\ x[2] \in 1 .. Len(next[v]) /\ next[v][x[2]] = t
    BY <2>1, <2>2
  <2>4. QED
    BY <2>2, <2>3, IsArc DEF Entering
<1>2. ASSUME NEW x \in Entering(next, ArcSet(n, next), t) PROVE x \in S
  <2>1. x \in ArcSet(n, next) /\ next[x[1]][x[2]] = t
    BY DEF Entering
  <2>2. x[1] \in DOMAIN next /\ x[2] \in DOMAIN next[x[1]] /\ x = <<x[1], x[2]>>
    BY <2>1, ArcIs, NetIs
  <2>3. QED
    BY <2>1, <2>2
<1> HIDE DEF S
<1>3. S = Entering(next, ArcSet(n, next), t)
  BY <1>1, <1>2
<1>4. QED
  BY <1>3 DEF in_degree, S

(***************************************************************************)
(* When the arcs of M are left: degrees count them, and queued is what     *)
(* none of them enters, each vertex after all those with an arc to it.     *)
(***************************************************************************)
OnList(q, t) == \E b \in 1 .. Len(q) : q[b] = t

Distinct(q) == \A a, b \in 1 .. Len(q) : q[a] = q[b] => a = b

From(n, next, q, b) ==
  \A x \in ArcSet(n, next) : next[x[1]][x[2]] = q[b] => \E a \in 1 .. b - 1 : q[a] = x[1]

Counted(n, next, M, k) ==
  /\ M \subseteq ArcSet(n, next)
  /\ k.degree \in [0 .. n - 1 -> Nat] /\ k.queue \in Seq(0 .. n - 1) /\ Distinct(k.queue)
  /\ \A t \in 0 .. n - 1 :
       /\ k.degree[t] = Cardinality(Entering(next, M, t))
       /\ OnList(k.queue, t) <=> k.degree[t] = 0
  /\ \A b \in 1 .. Len(k.queue) : From(n, next, k.queue, b)
  /\ \A x \in ArcSet(n, next) \ M : OnList(k.queue, x[1])

Begins(q, r) == Len(q) <= Len(r) /\ \A a \in 1 .. Len(q) : r[a] = q[a]

\* A list with one more at its end.
LEMMA AppendOnList ==
  ASSUME NEW n \in Nat, NEW q \in Seq(0 .. n - 1), NEW t \in 0 .. n - 1
  PROVE  /\ Append(q, t) \in Seq(0 .. n - 1)
         /\ Len(q) \in Nat /\ Len(Append(q, t)) = Len(q) + 1
         /\ Append(q, t)[Len(q) + 1] = t
         /\ Begins(q, Append(q, t))
         /\ \A s : OnList(Append(q, t), s) <=> OnList(q, s) \/ s = t
         /\ Distinct(q) /\ ~OnList(q, t) => Distinct(Append(q, t))
<1> DEFINE r == Append(q, t)
<1>1. /\ r \in Seq(0 .. n - 1) /\ Len(r) = Len(q) + 1 /\ Len(q) \in Nat
      /\ \A a \in 1 .. Len(q) : r[a] = q[a]
      /\ r[Len(q) + 1] = t
  BY AppendProperties, LenProperties
<1> HIDE DEF r
<1>2. Begins(q, r)
  BY <1>1 DEF Begins
<1>3. \A a \in 1 .. Len(r) : a \in 1 .. Len(q) \/ a = Len(q) + 1
  BY <1>1
<1>4. \A s : OnList(r, s) <=> OnList(q, s) \/ s = t
  <2>1. \A a \in 1 .. Len(q) : a \in 1 .. Len(r)
    BY <1>1
  <2>2. Len(q) + 1 \in 1 .. Len(r)
    BY <1>1
  <2>3. QED
    BY <1>1, <1>3, <2>1, <2>2 DEF OnList
<1>5. Distinct(q) /\ ~OnList(q, t) => Distinct(r)
  <2> SUFFICES ASSUME Distinct(q), ~OnList(q, t),
                      NEW a \in 1 .. Len(r), NEW b \in 1 .. Len(r), r[a] = r[b]
               PROVE  a = b
    BY DEF Distinct
  <2>1. CASE a \in 1 .. Len(q) /\ b \in 1 .. Len(q)
    BY <1>1, <2>1 DEF Distinct
  <2>2. CASE a = Len(q) + 1 /\ b = Len(q) + 1
    BY <2>2
  <2>3. CASE a \in 1 .. Len(q) /\ b = Len(q) + 1
    BY <1>1, <2>3 DEF OnList
  <2>4. CASE b \in 1 .. Len(q) /\ a = Len(q) + 1
    BY <1>1, <2>4 DEF OnList
  <2>5. QED
    BY <1>3, <2>1, <2>2, <2>3, <2>4
<1>6. QED
  BY <1>1, <1>2, <1>4, <1>5 DEF r

\* A longer list keeps the order of a shorter one.
LEMMA FromBegins ==
  ASSUME NEW n, NEW next, NEW q, NEW r, Begins(q, r), NEW b \in 1 .. Len(q), Len(q) \in Nat,
         From(n, next, q, b)
  PROVE  From(n, next, r, b)
<1>1. \A a \in 1 .. b - 1 : a \in 1 .. Len(q) /\ r[a] = q[a]
  BY DEF Begins
<1>2. r[b] = q[b]
  BY DEF Begins
<1>3. QED
  BY <1>1, <1>2 DEF From

\* One arc less.
LEMMA ReleaseCounts ==
  ASSUME NEW n \in Nat, NEW next \in Net(n), NEW M, NEW k, Counted(n, next, M, k),
         NEW x \in M, OnList(k.queue, x[1]), NEW t, t = next[x[1]][x[2]]
  PROVE  /\ Counted(n, next, M \ {x}, Release(k, t))
         /\ Begins(k.queue, Release(k, t).queue)
<1> DEFINE rest == M \ {x}
           left == k.degree[t] - 1
           degree == [k.degree EXCEPT ![t] = left]
           queue == IF left = 0 THEN Append(k.queue, t) ELSE k.queue
           q == k.queue
<1>1. Release(k, t) = [degree |-> degree, queue |-> queue]
  BY DEF Release
<1>2. t \in 0 .. n - 1 /\ M \in SUBSET ArcSet(n, next) /\ rest \in SUBSET ArcSet(n, next)
  BY ArcIs DEF Counted
<1>3. ASSUME NEW s \in 0 .. n - 1
      PROVE  Cardinality(Entering(next, rest, s)) =
               IF s = t THEN k.degree[t] - 1 ELSE k.degree[s]
  <2>1. k.degree[s] = Cardinality(Entering(next, M, s))
    BY DEF Counted
  <2>2. CASE s = t
    <3>1. Entering(next, rest, s) = Entering(next, M, s) \ {x} /\ x \in Entering(next, M, s)
      BY <2>2 DEF Entering
    <3>2. IsFiniteSet(Entering(next, M, s))
      BY <1>2, EnteringFinite
    <3>3. Cardinality(Entering(next, M, s) \ {x}) = Cardinality(Entering(next, M, s)) - 1
      BY <3>1, <3>2, FS_RemoveElement
    <3>4. QED
      BY <2>1, <2>2, <3>1, <3>3
  <2>3. CASE s # t
    <3>1. Entering(next, rest, s) = Entering(next, M, s)
      BY <2>3 DEF Entering
    <3>2. QED
      BY <2>1, <2>3, <3>1
  <2>4. QED
    BY <2>2, <2>3
<1>4. k.degree \in [0 .. n - 1 -> Nat] /\ k.degree[t] # 0 /\ k.degree[t] \in Nat
  <2>1. x \in Entering(next, M, t)
    BY DEF Entering
  <2>2. k.degree[t] = Cardinality(Entering(next, M, t))
    BY <1>2 DEF Counted
  <2>3. k.degree[t] # 0
    BY <1>2, <2>1, <2>2, EnteringFinite
  <2>4. QED
    BY <1>2, <2>3 DEF Counted
<1>5. left \in Nat
  BY <1>4
<1>6. /\ degree \in [0 .. n - 1 -> Nat]
      /\ \A s \in 0 .. n - 1 : degree[s] = IF s = t THEN left ELSE k.degree[s]
  BY <1>2, <1>4, <1>5
<1>7. /\ q \in Seq(0 .. n - 1) /\ Distinct(q) /\ Len(q) \in Nat
      /\ \A s \in 0 .. n - 1 : OnList(q, s) <=> k.degree[s] = 0
      /\ \A b \in 1 .. Len(q) : From(n, next, q, b)
      /\ \A y \in ArcSet(n, next) \ M : OnList(q, y[1])
  BY LenProperties DEF Counted
<1>8. ~OnList(q, t)
  BY <1>2, <1>4, <1>7
<1>9. /\ queue \in Seq(0 .. n - 1) /\ Distinct(queue) /\ Begins(q, queue)
      /\ \A s : OnList(queue, s) <=> OnList(q, s) \/ (left = 0 /\ s = t)
  <2>1. CASE left = 0
    BY <1>2, <1>7, <1>8, <2>1, AppendOnList
  <2>2. CASE left # 0
    BY <1>7, <2>2 DEF Begins
  <2>3. QED
    BY <2>1, <2>2
<1> HIDE DEF q, degree
<1>10. ASSUME NEW b \in 1 .. Len(queue) PROVE From(n, next, queue, b)
  <2>1. CASE b \in 1 .. Len(q)
    <3> HIDE DEF queue
    <3>1. QED
      BY <1>7, <1>9, <2>1, FromBegins
  <2>2. CASE b \notin 1 .. Len(q)
    <3>1. left = 0 /\ b = Len(q) + 1 /\ queue[b] = t
      <4>1. left = 0
        BY <2>2 DEF q
      <4>2. Len(queue) = Len(q) + 1 /\ queue[Len(q) + 1] = t
        BY <1>2, <1>7, <4>1, AppendOnList DEF q
      <4> HIDE DEF queue
      <4>3. QED
        BY <1>7, <2>2, <4>1, <4>2
    <3> HIDE DEF queue
    <3>2. Entering(next, rest, t) = {}
      <4>1. Cardinality(Entering(next, rest, t)) = 0
        BY <1>2, <1>3, <3>1
      <4>2. QED
        BY <1>2, <4>1, EnteringFinite
    <3>3. ASSUME NEW y \in ArcSet(n, next), next[y[1]][y[2]] = t
          PROVE  \E a \in 1 .. b - 1 : queue[a] = y[1]
      <4>1. y \notin rest
        BY <3>2, <3>3 DEF Entering
      <4>2. OnList(q, y[1])
        BY <1>7, <4>1 DEF q
      <4>3. PICK a \in 1 .. Len(q) : q[a] = y[1]
        BY <4>2 DEF OnList
      <4>4. a \in 1 .. b - 1 /\ queue[a] = y[1]
        BY <1>7, <1>9, <3>1, <4>3 DEF Begins
      <4>5. QED
        BY <4>4
    <3>4. QED
      BY <3>1, <3>3 DEF From
  <2>3. QED
    BY <2>1, <2>2
<1>11. \A y \in ArcSet(n, next) \ rest : OnList(queue, y[1])
  <2> HIDE DEF queue
  <2>1. \A y \in ArcSet(n, next) \ rest : y = x \/ y \in ArcSet(n, next) \ M
    OBVIOUS
  <2>2. QED
    BY <1>7, <1>9, <2>1 DEF q
<1>12. \A s \in 0 .. n - 1 :
         /\ degree[s] = Cardinality(Entering(next, rest, s))
         /\ OnList(queue, s) <=> degree[s] = 0
  <2> HIDE DEF queue, rest
  <2>1. QED
    BY <1>3, <1>4, <1>6, <1>7, <1>9
<1>13. Release(k, t).degree = degree /\ Release(k, t).queue = queue
  BY <1>1
<1> HIDE DEF queue, rest
<1>14. Counted(n, next, rest, Release(k, t))
  BY <1>2, <1>6, <1>9, <1>10, <1>11, <1>12, <1>13 DEF Counted
<1>15. QED
  BY <1>9, <1>13, <1>14 DEF rest, q

Released(kahn, targets, f) ==
  /\ f[0] = kahn
  /\ \A d \in 0 .. Len(targets) - 1 :
       f[d + 1] = Release(f[d], targets[d + 1])

\* The loop over the arcs of a vertex taken from the queue, by the step.
LEMMA ReleaseAllIs ==
  ASSUME NEW kahn, NEW targets, Len(targets) \in Nat
  PROVE  \E f : /\ ReleaseAll(kahn, targets) = f[Len(targets)]
              /\ Released(kahn, targets, f)
<1> DEFINE begin == kahn
           turns == Len(targets)
           St(d, x) == Release(x, targets[d])
           rhs(top, f) == [d \in 0 .. top |-> IF d = 0 THEN begin ELSE St(d, f[d - 1])]
           S == {k \in Nat : \E f : f = rhs(k, f)}
           loop == CHOOSE f : f = rhs(turns, f)
<1>1. ReleaseAll(kahn, targets) = loop[turns]
  BY Zenon DEF ReleaseAll
<1>2. turns \in Nat
  OBVIOUS
<1> HIDE DEF begin, turns, St
<1>3. 0 \in S
  <2>1. [d \in 0 .. 0 |-> begin] = rhs(0, [d \in 0 .. 0 |-> begin])
    OBVIOUS
  <2>2. QED
    BY <2>1
<1>4. ASSUME NEW k \in Nat, k \in S PROVE k + 1 \in S
  <2>1. PICK f : f = rhs(k, f)
    BY <1>4
  <2> DEFINE h == [d \in 0 .. k + 1 |-> IF d = k + 1 THEN St(d, f[k]) ELSE f[d]]
  <2>2. \A d \in 0 .. k : f[d] = IF d = 0 THEN begin ELSE St(d, f[d - 1])
    BY <2>1
  <2>3. ASSUME NEW d \in 0 .. k + 1
        PROVE  h[d] = IF d = 0 THEN begin ELSE St(d, h[d - 1])
    <3>1. CASE d = k + 1
      BY <3>1
    <3>2. CASE d # k + 1
      <4>1. d \in 0 .. k /\ (d # 0 => d - 1 \in 0 .. k /\ d - 1 # k + 1)
        BY <3>2
      <4>2. h[d] = f[d] /\ (d # 0 => h[d - 1] = f[d - 1])
        BY <3>2, <4>1
      <4>3. f[d] = IF d = 0 THEN begin ELSE St(d, f[d - 1])
        BY <2>2, <4>1
      <4> HIDE DEF h
      <4>4. QED
        BY <4>2, <4>3
    <3>3. QED
      BY <3>1, <3>2
  <2>4. h = rhs(k + 1, h)
    BY <2>3
  <2> HIDE DEF h, rhs
  <2>5. QED
    BY <2>4
<1> HIDE DEF S
<1>5. turns \in S
  BY <1>2, <1>3, <1>4, Induction
<1>6. loop = rhs(turns, loop)
  <2> HIDE DEF rhs
  <2>1. QED
    BY <1>5 DEF S
<1> HIDE DEF loop
<1>7. loop[0] = begin
  BY <1>2, <1>6
<1>8. ASSUME NEW d \in 0 .. turns - 1 PROVE loop[d + 1] = St(d + 1, loop[d])
  <2>1. d + 1 \in 0 .. turns /\ d + 1 # 0 /\ (d + 1) - 1 = d
    BY <1>2
  <2>2. loop[d + 1] = St(d + 1, loop[(d + 1) - 1])
    BY <1>6, <2>1
  <2>3. QED
    BY <2>1, <2>2
<1>9. QED
  BY <1>1, <1>7, <1>8 DEF begin, turns, St, Released

Queued(next, f) ==
  /\ f[0] = <<>>
  /\ \A d \in 0 .. Cardinality(DOMAIN next) - 1 :
       f[d + 1] = IF in_degree(next, d) = 0
                   THEN Append(f[d], d) ELSE f[d]

\* The loop that fills the queue at first, by the step.
LEMMA SourcesIs ==
  ASSUME NEW next, Cardinality(DOMAIN next) \in Nat
  PROVE  \E f : /\ Sources(next) = f[Cardinality(DOMAIN next)]
              /\ Queued(next, f)
<1> DEFINE begin == <<>>
           turns == Cardinality(DOMAIN next)
           St(d, x) == IF in_degree(next, d - 1) = 0 THEN Append(x, d - 1) ELSE x
           rhs(top, f) == [d \in 0 .. top |-> IF d = 0 THEN begin ELSE St(d, f[d - 1])]
           S == {k \in Nat : \E f : f = rhs(k, f)}
           loop == CHOOSE f : f = rhs(turns, f)
<1>1. Sources(next) = loop[turns]
  BY Zenon DEF Sources
<1>2. turns \in Nat
  OBVIOUS
<1> HIDE DEF begin, turns, St
<1>3. 0 \in S
  <2>1. [d \in 0 .. 0 |-> begin] = rhs(0, [d \in 0 .. 0 |-> begin])
    OBVIOUS
  <2>2. QED
    BY <2>1
<1>4. ASSUME NEW k \in Nat, k \in S PROVE k + 1 \in S
  <2>1. PICK f : f = rhs(k, f)
    BY <1>4
  <2> DEFINE h == [d \in 0 .. k + 1 |-> IF d = k + 1 THEN St(d, f[k]) ELSE f[d]]
  <2>2. \A d \in 0 .. k : f[d] = IF d = 0 THEN begin ELSE St(d, f[d - 1])
    BY <2>1
  <2>3. ASSUME NEW d \in 0 .. k + 1
        PROVE  h[d] = IF d = 0 THEN begin ELSE St(d, h[d - 1])
    <3>1. CASE d = k + 1
      BY <3>1
    <3>2. CASE d # k + 1
      <4>1. d \in 0 .. k /\ (d # 0 => d - 1 \in 0 .. k /\ d - 1 # k + 1)
        BY <3>2
      <4>2. h[d] = f[d] /\ (d # 0 => h[d - 1] = f[d - 1])
        BY <3>2, <4>1
      <4>3. f[d] = IF d = 0 THEN begin ELSE St(d, f[d - 1])
        BY <2>2, <4>1
      <4> HIDE DEF h
      <4>4. QED
        BY <4>2, <4>3
    <3>3. QED
      BY <3>1, <3>2
  <2>4. h = rhs(k + 1, h)
    BY <2>3
  <2> HIDE DEF h, rhs
  <2>5. QED
    BY <2>4
<1> HIDE DEF S
<1>5. turns \in S
  BY <1>2, <1>3, <1>4, Induction
<1>6. loop = rhs(turns, loop)
  <2> HIDE DEF rhs
  <2>1. QED
    BY <1>5 DEF S
<1> HIDE DEF loop
<1>7. loop[0] = begin
  BY <1>2, <1>6
<1>8. ASSUME NEW d \in 0 .. turns - 1 PROVE loop[d + 1] = St(d + 1, loop[d])
  <2>1. d + 1 \in 0 .. turns /\ d + 1 # 0 /\ (d + 1) - 1 = d
    BY <1>2
  <2>2. loop[d + 1] = St(d + 1, loop[(d + 1) - 1])
    BY <1>6, <2>1
  <2>3. QED
    BY <2>1, <2>2
<1>9. QED
  BY <1>1, <1>7, <1>8 DEF begin, turns, St, Queued

Sorting(next, f) ==
  /\ f[0] = [degree |-> [t \in DOMAIN next |-> in_degree(next, t)], queue |-> Sources(next)]
  /\ \A d \in 0 .. Cardinality(DOMAIN next) - 1 :
       f[d + 1] = IF d + 1 > Len(f[d].queue)
                   THEN f[d] ELSE ReleaseAll(f[d], next[f[d].queue[d + 1]])

\* The loop of topological_sort by the step.
LEMMA TopologicalSortIs ==
  ASSUME NEW next, Cardinality(DOMAIN next) \in Nat
  PROVE  \E f : /\ topological_sort(next) =
                   [order |-> f[Cardinality(DOMAIN next)].queue,
                    rc |-> IF Len(f[Cardinality(DOMAIN next)].queue) = Cardinality(DOMAIN next)
                           THEN 0 ELSE 1]
              /\ Sorting(next, f)
<1> DEFINE begin == [degree |-> [t \in DOMAIN next |-> in_degree(next, t)], queue |-> Sources(next)]
           turns == Cardinality(DOMAIN next)
           St(d, x) == IF d > Len(x.queue) THEN x ELSE ReleaseAll(x, next[x.queue[d]])
           rhs(top, f) == [d \in 0 .. top |-> IF d = 0 THEN begin ELSE St(d, f[d - 1])]
           S == {k \in Nat : \E f : f = rhs(k, f)}
           loop == CHOOSE f : f = rhs(turns, f)
<1>1. topological_sort(next) =
        [order |-> loop[turns].queue, rc |-> IF Len(loop[turns].queue) = turns THEN 0 ELSE 1]
  BY Zenon DEF topological_sort
<1>2. turns \in Nat
  OBVIOUS
<1> HIDE DEF begin, turns, St
<1>3. 0 \in S
  <2>1. [d \in 0 .. 0 |-> begin] = rhs(0, [d \in 0 .. 0 |-> begin])
    OBVIOUS
  <2>2. QED
    BY <2>1
<1>4. ASSUME NEW k \in Nat, k \in S PROVE k + 1 \in S
  <2>1. PICK f : f = rhs(k, f)
    BY <1>4
  <2> DEFINE h == [d \in 0 .. k + 1 |-> IF d = k + 1 THEN St(d, f[k]) ELSE f[d]]
  <2>2. \A d \in 0 .. k : f[d] = IF d = 0 THEN begin ELSE St(d, f[d - 1])
    BY <2>1
  <2>3. ASSUME NEW d \in 0 .. k + 1
        PROVE  h[d] = IF d = 0 THEN begin ELSE St(d, h[d - 1])
    <3>1. CASE d = k + 1
      BY <3>1
    <3>2. CASE d # k + 1
      <4>1. d \in 0 .. k /\ (d # 0 => d - 1 \in 0 .. k /\ d - 1 # k + 1)
        BY <3>2
      <4>2. h[d] = f[d] /\ (d # 0 => h[d - 1] = f[d - 1])
        BY <3>2, <4>1
      <4>3. f[d] = IF d = 0 THEN begin ELSE St(d, f[d - 1])
        BY <2>2, <4>1
      <4> HIDE DEF h
      <4>4. QED
        BY <4>2, <4>3
    <3>3. QED
      BY <3>1, <3>2
  <2>4. h = rhs(k + 1, h)
    BY <2>3
  <2> HIDE DEF h, rhs
  <2>5. QED
    BY <2>4
<1> HIDE DEF S
<1>5. turns \in S
  BY <1>2, <1>3, <1>4, Induction
<1>6. loop = rhs(turns, loop)
  <2> HIDE DEF rhs
  <2>1. QED
    BY <1>5 DEF S
<1> HIDE DEF loop
<1>7. loop[0] = begin
  BY <1>2, <1>6
<1>8. ASSUME NEW d \in 0 .. turns - 1 PROVE loop[d + 1] = St(d + 1, loop[d])
  <2>1. d + 1 \in 0 .. turns /\ d + 1 # 0 /\ (d + 1) - 1 = d
    BY <1>2
  <2>2. loop[d + 1] = St(d + 1, loop[(d + 1) - 1])
    BY <1>6, <2>1
  <2>3. QED
    BY <2>1, <2>2
<1>9. QED
  BY <1>1, <1>7, <1>8 DEF begin, turns, St, Sorting

\* The arcs of u, from the first on.
Firsts(u, i) == {u} \X (1 .. i)

\* Releasing a vertex's targets keeps their counts right.
LEMMA ReleaseAllCounts ==
  ASSUME NEW n \in Nat, NEW next \in Net(n), NEW u \in 0 .. n - 1,
         NEW M, Firsts(u, Len(next[u])) \subseteq M,
         NEW k, Counted(n, next, M, k), OnList(k.queue, u)
  PROVE  /\ Counted(n, next, M \ Firsts(u, Len(next[u])), ReleaseAll(k, next[u]))
         /\ Begins(k.queue, ReleaseAll(k, next[u]).queue)
<1>1. Len(next[u]) \in Nat
  BY NetIs
<1>2. PICK f : ReleaseAll(k, next[u]) = f[Len(next[u])] /\ Released(k, next[u], f)
  BY <1>1, ReleaseAllIs
<1> DEFINE Good(i) == /\ Counted(n, next, M \ Firsts(u, i), f[i])
                      /\ Begins(k.queue, f[i].queue)
           S == {i \in Nat : i <= Len(next[u]) => Good(i)}
<1>3. 0 \in S
  <2>1. M \ Firsts(u, 0) = M
    BY DEF Firsts
  <2>2. f[0] = k
    BY <1>2 DEF Released
  <2>3. Begins(k.queue, k.queue)
    BY LenProperties DEF Begins, Counted
  <2>4. QED
    BY <2>1, <2>2, <2>3
<1>4. ASSUME NEW i \in Nat, i \in S PROVE i + 1 \in S
  <2> SUFFICES ASSUME i + 1 <= Len(next[u]) PROVE Good(i + 1)
    OBVIOUS
  <2> DEFINE w == i + 1
             x == <<u, w>>
             left == M \ Firsts(u, i)
  <2>1. Good(i) /\ w \in 1 .. Len(next[u]) /\ i \in 0 .. Len(next[u]) - 1
    BY <1>1, <1>4
  <2>2. f[w] = Release(f[i], next[u][w])
    BY <1>2, <2>1 DEF Released
  <2>3. x \in left /\ left \ {x} = M \ Firsts(u, w) /\ x[1] = u /\ x[2] = w
    BY <2>1 DEF Firsts
  <2>4. OnList(f[i].queue, u)
    <3>1. PICK b \in 1 .. Len(k.queue) : k.queue[b] = u
      BY DEF OnList
    <3>2. b \in 1 .. Len(f[i].queue) /\ f[i].queue[b] = u
      <4>1. Len(f[i].queue) \in Nat /\ Len(k.queue) \in Nat
        BY <2>1, LenProperties DEF Counted
      <4>2. QED
        BY <2>1, <3>1, <4>1 DEF Begins
    <3>3. QED
      BY <3>2 DEF OnList
  <2> DEFINE t == next[u][w]
  <2>0. t = next[x[1]][x[2]] /\ f[w] = Release(f[i], t) /\ OnList(f[i].queue, x[1])
    BY <2>2, <2>3, <2>4
  <2> HIDE DEF x, left, w, t
  <2>5. Counted(n, next, left, f[i])
    BY <2>1 DEF left
  <2> DEFINE g == f[i]
             h == f[w]
  <2>10. /\ Counted(n, next, left, g) /\ x \in left /\ OnList(g.queue, x[1])
         /\ t = next[x[1]][x[2]] /\ h = Release(g, t)
    BY <2>0, <2>3, <2>5
  <2> HIDE DEF g, h
  <2>11. /\ Counted(n, next, left \ {x}, h)
         /\ Begins(g.queue, h.queue)
    BY <2>10, ReleaseCounts
  <2>6. /\ Counted(n, next, left \ {x}, f[w])
        /\ Begins(f[i].queue, f[w].queue)
    BY <2>11 DEF g, h
  <2>7. Begins(k.queue, f[w].queue)
    <3>1. Begins(k.queue, f[i].queue) /\ Len(k.queue) \in Nat /\ Len(f[i].queue) \in Nat
          /\ Len(f[w].queue) \in Nat
      BY <2>1, <2>6, LenProperties DEF Counted
    <3>2. QED
      BY <2>6, <3>1 DEF Begins
  <2>8. Counted(n, next, M \ Firsts(u, w), f[w])
    BY <2>3, <2>6
  <2>9. QED
    BY <2>7, <2>8 DEF w
<1> HIDE DEF S, Good
<1>5. Nat \subseteq S
  BY <1>3, <1>4, Induction
<1>6. Good(Len(next[u]))
  BY <1>1, <1>5 DEF S
<1>7. QED
  BY <1>2, <1>6 DEF Good

(***************************************************************************)
(* First queued is what no arc enters.                                     *)
(***************************************************************************)
LEMMA SourcesAre ==
  ASSUME NEW n \in Nat, NEW next \in Net(n)
  PROVE  /\ Sources(next) \in Seq(0 .. n - 1) /\ Distinct(Sources(next))
         /\ \A t \in 0 .. n - 1 : OnList(Sources(next), t) <=> in_degree(next, t) = 0
<1>1. Cardinality(DOMAIN next) = n
  BY NetIs
<1>2. PICK f : Sources(next) = f[n] /\ Queued(next, f)
  BY <1>1, SourcesIs
<1> DEFINE Good(m) == /\ f[m] \in Seq(0 .. n - 1) /\ Distinct(f[m])
                      /\ \A t \in 0 .. n - 1 :
                           OnList(f[m], t) <=> t < m /\ in_degree(next, t) = 0
           S == {m \in Nat : m <= n => Good(m)}
<1>3. 0 \in S
  <2>1. f[0] = <<>>
    BY <1>2 DEF Queued
  <2>2. Len(<<>>) = 0 /\ <<>> \in Seq(0 .. n - 1)
    OBVIOUS
  <2>3. Distinct(f[0]) /\ f[0] \in Seq(0 .. n - 1) /\ \A t : ~OnList(f[0], t)
    BY <2>1, <2>2 DEF Distinct, OnList
  <2>4. \A t \in 0 .. n - 1 : ~(t < 0)
    OBVIOUS
  <2>5. Good(0)
    BY <2>3, <2>4
  <2>6. QED
    BY <2>5
<1>4. ASSUME NEW m \in Nat, m \in S PROVE m + 1 \in S
  <2> SUFFICES ASSUME m + 1 <= n PROVE Good(m + 1)
    OBVIOUS
  <2>1. Good(m) /\ m \in 0 .. n - 1 /\ (m + 1) - 1 = m
    BY <1>4
  <2>2. f[m + 1] = IF in_degree(next, m) = 0 THEN Append(f[m], m) ELSE f[m]
    BY <1>1, <1>2, <2>1 DEF Queued
  <2>3. \A t \in 0 .. n - 1 : t < m + 1 <=> t < m \/ t = m
    OBVIOUS
  <2>4. CASE in_degree(next, m) = 0
    <3>1. ~OnList(f[m], m)
      BY <2>1
    <3>2. /\ f[m + 1] \in Seq(0 .. n - 1) /\ Distinct(f[m + 1])
          /\ \A s : OnList(f[m + 1], s) <=> OnList(f[m], s) \/ s = m
      BY <2>1, <2>2, <2>4, <3>1, AppendOnList
    <3>3. QED
      BY <2>1, <2>3, <2>4, <3>2
  <2>5. CASE in_degree(next, m) # 0
    BY <2>1, <2>2, <2>3, <2>5
  <2>6. QED
    BY <2>4, <2>5
<1> HIDE DEF S
<1>5. Nat \subseteq S
  BY <1>3, <1>4, Induction
<1>6. Good(n)
  BY <1>5 DEF S
<1>7. QED
  BY <1>2, <1>6

\* The arcs left when the vertices at the first h places have been released.
Left(n, next, q, h) ==
  {x \in ArcSet(n, next) : \A a \in 1 .. h : a <= Len(q) => q[a] # x[1]}

\* So does a turn of topological_sort.
LEMMA TurnCounts ==
  ASSUME NEW n \in Nat, NEW next \in Net(n), NEW h \in Nat, NEW w \in Nat, w = h + 1,
         NEW k, Counted(n, next, Left(n, next, k.queue, h), k), NEW r,
         r = IF w > Len(k.queue) THEN k ELSE ReleaseAll(k, next[k.queue[w]])
  PROVE  Counted(n, next, Left(n, next, r.queue, w), r)
<1> DEFINE q == k.queue
<1>1. q \in Seq(0 .. n - 1) /\ Len(q) \in Nat /\ Distinct(q)
  BY LenProperties DEF Counted
<1>2. \A a \in 1 .. w : a \in 1 .. h \/ a = w
  OBVIOUS
<1>3. \A a \in 1 .. h : a \in 1 .. w
  OBVIOUS
<1>4. CASE w > Len(q)
  <2>1. Left(n, next, q, w) = Left(n, next, q, h)
    BY <1>1, <1>2, <1>3, <1>4 DEF Left
  <2>2. QED
    BY <1>4, <2>1
<1>5. CASE ~(w > Len(q))
  <2> DEFINE u == q[w]
             all == Firsts(u, Len(next[u]))
             M == Left(n, next, q, h)
  <2>1. w \in 1 .. Len(q) /\ u \in 0 .. n - 1 /\ OnList(q, u)
    BY <1>1, <1>5, ElementOfSeq DEF OnList
  <2>2. \A x : x \in all <=> x \in ArcSet(n, next) /\ x[1] = u
    <3>1. ASSUME NEW x \in all PROVE x \in ArcSet(n, next) /\ x[1] = u
      BY <2>1, IsArc DEF Firsts
    <3>2. ASSUME NEW x \in ArcSet(n, next), x[1] = u PROVE x \in all
      <4>1. x[2] \in 1 .. Len(next[u]) /\ x = <<u, x[2]>>
        BY <3>2, ArcIs
      <4>2. QED
        BY <4>1 DEF Firsts
    <3>3. QED
      BY <3>1, <3>2
  <2>3. r = ReleaseAll(k, next[u])
    BY <1>5
  <2> HIDE DEF all, q, u
  <2>4. all \subseteq M
    <3>1. \A a \in 1 .. h : a <= Len(q) => q[a] # u
      BY <1>1, <2>1 DEF Distinct, u
    <3>2. QED
      BY <2>2, <3>1 DEF Left, q
  <2> HIDE DEF M
  <2>5. Counted(n, next, M \ all, r) /\ Begins(q, r.queue)
    <3>1. Counted(n, next, M, k) /\ OnList(k.queue, u)
      BY <2>1 DEF M, q
    <3>2. QED
      BY <2>1, <2>3, <2>4, <3>1, ReleaseAllCounts DEF all, q
  <2>6. M \ all = Left(n, next, r.queue, w)
    <3>1. \A a \in 1 .. w : a <= Len(q) /\ a <= Len(r.queue) /\ r.queue[a] = q[a]
      <4>1. Len(r.queue) \in Nat
        BY <2>5, LenProperties DEF Counted
      <4>2. QED
        BY <1>1, <2>1, <2>5, <4>1 DEF Begins
    <3>2. w \in 1 .. w
      OBVIOUS
    <3>3. \A x \in ArcSet(n, next) :
            (\A a \in 1 .. w : a <= Len(r.queue) => r.queue[a] # x[1]) <=>
              (\A a \in 1 .. h : a <= Len(q) => q[a] # x[1]) /\ x[1] # u
      BY <1>2, <1>3, <3>1, <3>2 DEF u
    <3>4. QED
      BY <2>2, <3>3 DEF M, Left, q
  <2>7. QED
    BY <2>5, <2>6
<1>6. QED
  BY <1>4, <1>5

(***************************************************************************)
(* The order: each vertex once, after all those with an arc to it, and     *)
(* every vertex with arcs from vertices of the order only.                 *)
(***************************************************************************)
Sorted(n, next, q) ==
  /\ q \in Seq(0 .. n - 1) /\ Distinct(q) /\ Len(q) <= n
  /\ \A b \in 1 .. Len(q) : From(n, next, q, b)
  /\ \A t \in 0 .. n - 1 :
       OnList(q, t) <=> \A x \in ArcSet(n, next) : next[x[1]][x[2]] = t => OnList(q, x[1])

\* A list without repeats is complete just when it is as long as the graph.
LEMMA DistinctLength ==
  ASSUME NEW n \in Nat, NEW q \in Seq(0 .. n - 1), Distinct(q)
  PROVE  /\ Len(q) <= n
         /\ Len(q) = n <=> \A t \in 0 .. n - 1 : OnList(q, t)
<1>1. q \in [1 .. Len(q) -> 0 .. n - 1] /\ Len(q) \in Nat /\ DOMAIN q = 1 .. Len(q)
  BY LenProperties
<1>2. IsFiniteSet(0 .. n - 1) /\ Cardinality(0 .. n - 1) = n
  BY FS_Interval
<1> DEFINE R == {q[a] : a \in 1 .. Len(q)}
<1>3. R \in SUBSET (0 .. n - 1)
  BY <1>1
<1>4. Cardinality(R) = Len(q)
  <2>1. IsFiniteSet(1 .. Len(q)) /\ Cardinality(1 .. Len(q)) = Len(q)
    <3>1. PICK m \in Nat : m = Len(q)
      BY <1>1
    <3>2. IsFiniteSet(1 .. m) /\ Cardinality(1 .. m) = m
      BY FS_Interval, SMTT(30)
    <3>3. QED
      BY <3>1, <3>2, SMTT(30)
  <2>2. q \in [1 .. Len(q) -> R]
    BY <1>1
  <2>3. Cardinality(R) = Cardinality(1 .. Len(q))
    <3> DEFINE D == 1 .. Len(q)
    <3>1. \A x, y \in D : q[x] = q[y] => x = y
      BY DEF Distinct
    <3>2. \A t \in R : \E x \in D : q[x] = t
      OBVIOUS
    <3> HIDE DEF R, D
    <3>3. IsFiniteSet(D) /\ q \in [D -> R]
      BY <2>1, <2>2 DEF D
    <3>4. QED
      BY <3>1, <3>2, <3>3, SameCount DEF D
  <2>4. QED
    BY <2>1, <2>3
<1>5. \A t : t \in R <=> OnList(q, t)
  BY DEF OnList
<1> HIDE DEF R
<1>6. Cardinality(R) <= n /\ (Cardinality(R) = n => R = 0 .. n - 1)
  BY <1>2, <1>3, FS_Subset
<1>7. Len(q) = n <=> R = 0 .. n - 1
  BY <1>2, <1>4, <1>6
<1>8. QED
  BY <1>3, <1>4, <1>5, <1>6, <1>7

\* What topological_sort ends with.
LEMMA TopologicalIs ==
  ASSUME NEW n \in Nat, NEW next \in Net(n)
  PROVE  LET sort == topological_sort(next)
         IN /\ Sorted(n, next, sort.order)
            /\ sort.rc = IF Len(sort.order) = n THEN 0 ELSE 1
<1>1. Cardinality(DOMAIN next) = n /\ DOMAIN next = 0 .. n - 1
  BY NetIs
<1>2. PICK f : /\ topological_sort(next) =
                    [order |-> f[n].queue, rc |-> IF Len(f[n].queue) = n THEN 0 ELSE 1]
               /\ Sorting(next, f)
  BY <1>1, TopologicalSortIs
<1> DEFINE Good(h) == Counted(n, next, Left(n, next, f[h].queue, h), f[h])
           S == {h \in Nat : h <= n => Good(h)}
<1>3. 0 \in S
  <2> DEFINE degree == [t \in DOMAIN next |-> in_degree(next, t)]
             queue == Sources(next)
             A == ArcSet(n, next)
  <2>1. f[0] = [degree |-> degree, queue |-> queue]
    BY <1>2 DEF Sorting
  <2>2. Left(n, next, f[0].queue, 0) = A
    BY DEF Left
  <2>3. \A t \in 0 .. n - 1 : degree[t] = Cardinality(Entering(next, A, t))
    BY <1>1, InDegreeIs
  <2>4. \A t \in 0 .. n - 1 : degree[t] \in Nat
    BY <2>3, EnteringFinite
  <2>5. degree \in [0 .. n - 1 -> Nat]
    BY <1>1, <2>4
  <2>6. /\ queue \in Seq(0 .. n - 1) /\ Distinct(queue)
        /\ \A t \in 0 .. n - 1 : OnList(queue, t) <=> degree[t] = 0
    BY <1>1, SourcesAre
  <2> HIDE DEF degree, queue
  <2>7. ASSUME NEW b \in 1 .. Len(queue) PROVE From(n, next, queue, b)
    <3>1. queue[b] \in 0 .. n - 1 /\ OnList(queue, queue[b])
      BY <2>6, ElementOfSeq DEF OnList
    <3>2. Entering(next, A, queue[b]) = {}
      BY <2>3, <2>6, <3>1, EnteringFinite
    <3>3. QED
      BY <3>2 DEF From, Entering
  <2>8. Counted(n, next, A, f[0])
    BY <2>1, <2>3, <2>5, <2>6, <2>7 DEF Counted
  <2>9. QED
    BY <2>2, <2>8
<1>4. ASSUME NEW h \in Nat, h \in S PROVE h + 1 \in S
  <2> SUFFICES ASSUME h + 1 <= n PROVE Good(h + 1)
    OBVIOUS
  <2> DEFINE w == h + 1
  <2>1. Good(h) /\ h \in 0 .. n - 1 /\ w \in Nat /\ w = h + 1
    BY <1>4
  <2>2. f[w] = IF w > Len(f[h].queue) THEN f[h]
               ELSE ReleaseAll(f[h], next[f[h].queue[w]])
    BY <1>1, <1>2, <2>1 DEF Sorting
  <2> HIDE DEF w
  <2>3. Good(w)
    BY <2>1, <2>2, TurnCounts
  <2>4. QED
    BY <2>1, <2>3
<1> HIDE DEF S
<1>5. Nat \subseteq S
  BY <1>3, <1>4, Induction
<1>6. Good(n)
  BY <1>5 DEF S
<1> DEFINE q == f[n].queue
<1>7. q \in Seq(0 .. n - 1) /\ Distinct(q) /\ Len(q) <= n /\ Len(q) \in Nat
  BY <1>6, DistinctLength, LenProperties DEF Counted
<1>8. \A x : x \in Left(n, next, q, n) <=> x \in ArcSet(n, next) /\ ~OnList(q, x[1])
  <2>1. \A a : a \in 1 .. n /\ a <= Len(q) <=> a \in 1 .. Len(q)
    BY <1>7
  <2> HIDE DEF q
  <2>2. QED
    BY <2>1 DEF Left, OnList
<1>9. \A t \in 0 .. n - 1 :
        OnList(q, t) <=> \A x \in ArcSet(n, next) : next[x[1]][x[2]] = t => OnList(q, x[1])
  <2> SUFFICES ASSUME NEW t \in 0 .. n - 1
               PROVE  OnList(q, t) <=>
                        \A x \in ArcSet(n, next) : next[x[1]][x[2]] = t => OnList(q, x[1])
    OBVIOUS
  <2>1. OnList(q, t) <=> Cardinality(Entering(next, Left(n, next, q, n), t)) = 0
    BY <1>6 DEF Counted
  <2>2. Cardinality(Entering(next, Left(n, next, q, n), t)) = 0 <=>
          Entering(next, Left(n, next, q, n), t) = {}
    <3>1. Left(n, next, q, n) \in SUBSET ArcSet(n, next)
      BY DEF Left
    <3>2. QED
      BY <3>1, EnteringFinite
  <2> HIDE DEF q
  <2>3. QED
    BY <1>8, <2>1, <2>2 DEF Entering
<1>10. \A b \in 1 .. Len(q) : From(n, next, q, b)
  BY <1>6 DEF Counted
<1> HIDE DEF q
<1>11. Sorted(n, next, q)
  BY <1>7, <1>9, <1>10 DEF Sorted
<1>12. topological_sort(next) = [order |-> q, rc |-> IF Len(q) = n THEN 0 ELSE 1]
  BY <1>2 DEF q
<1>13. QED
  BY <1>11, <1>12

\* What is on a cycle, or reached from one, is never queued.
LEMMA CyclesUnsorted ==
  ASSUME NEW n \in Nat, NEW next \in Net(n), NEW q, Sorted(n, next, q),
         NEW v \in OnCycle(next), NEW u \in Reachable(next, v)
  PROVE  v \in 0 .. n - 1 /\ ~OnList(q, u)
<1>1. v \in 0 .. n - 1 /\ \E i \in 1 .. Len(next[v]) : v \in Reachable(next, next[v][i])
  BY OnCycleIs
<1>2. PICK i \in 1 .. Len(next[v]) : v \in Reachable(next, next[v][i])
  BY <1>1
<1>3. Len(q) \in Nat /\ Distinct(q) /\ \A b \in 1 .. Len(q) : From(n, next, q, b)
  BY LenProperties DEF Sorted
<1>4. ~OnList(q, v)
  <2> SUFFICES ASSUME NEW b \in 1 .. Len(q), q[b] = v PROVE FALSE
    BY DEF OnList
  <2> DEFINE B == {x \in 0 .. n - 1 : \A c \in 1 .. Len(q) : q[c] = x => c > b}
  <2>1. Closed(next, B)
    <3> SUFFICES ASSUME NEW x \in B, NEW k \in 1 .. Len(next[x]) PROVE next[x][k] \in B
      BY DEF Closed
    <3>1. x \in 0 .. n - 1 /\ next[x][k] \in 0 .. n - 1 /\ <<x, k>> \in ArcSet(n, next)
      BY NetIs, IsArc
    <3>2. ASSUME NEW c \in 1 .. Len(q), q[c] = next[x][k] PROVE c > b
      <4>1. PICK a \in 1 .. c - 1 : q[a] = x
        BY <1>3, <3>1, <3>2 DEF From
      <4>2. a \in 1 .. Len(q) /\ a < c
        BY <1>3
      <4>3. a > b
        BY <4>1, <4>2
      <4>4. QED
        BY <4>2, <4>3
    <3>3. QED
      BY <3>1, <3>2
  <2>2. next[v][i] \in B
    <3>1. next[v][i] \in 0 .. n - 1 /\ <<v, i>> \in ArcSet(n, next)
      BY <1>1, NetIs, IsArc
    <3>2. ASSUME NEW c \in 1 .. Len(q), q[c] = next[v][i] PROVE c > b
      <4>1. PICK a \in 1 .. c - 1 : q[a] = v
        BY <1>3, <3>1, <3>2 DEF From
      <4>2. a \in 1 .. Len(q) /\ a < c
        BY <1>3
      <4>3. a = b
        BY <1>3, <4>1, <4>2 DEF Distinct
      <4>4. QED
        BY <4>2, <4>3
    <3>3. QED
      BY <3>1, <3>2
  <2>3. v \notin B
    OBVIOUS
  <2> HIDE DEF B
  <2>4. next[v][i] \in 0 .. n - 1
    BY <1>1, NetIs
  <2>5. Reachable(next, next[v][i]) \subseteq B
    BY <2>1, <2>2, <2>4, ReachableIs
  <2>6. QED
    BY <1>2, <2>3, <2>5
<1>5. ~OnList(q, u)
  <2> DEFINE U == {x \in 0 .. n - 1 : ~OnList(q, x)}
  <2>1. Closed(next, U)
    <3> SUFFICES ASSUME NEW x \in U, NEW k \in 1 .. Len(next[x]) PROVE next[x][k] \in U
      BY DEF Closed
    <3>1. x \in 0 .. n - 1 /\ next[x][k] \in 0 .. n - 1 /\ <<x, k>> \in ArcSet(n, next)
      BY NetIs, IsArc
    <3>2. OnList(q, next[x][k]) => OnList(q, x)
      <4> DEFINE arc == <<x, k>>
      <4>1. arc[1] = x /\ arc[2] = k /\ arc \in ArcSet(n, next)
        BY <3>1
      <4> HIDE DEF arc
      <4>2. \A a \in ArcSet(n, next) :
              next[a[1]][a[2]] = next[x][k] /\ OnList(q, next[x][k]) => OnList(q, a[1])
        BY <3>1 DEF Sorted
      <4>3. QED
        BY <4>1, <4>2
    <3>3. QED
      BY <3>1, <3>2
  <2>2. v \in U
    BY <1>1, <1>4
  <2>3. Reachable(next, v) \subseteq U
    BY <1>1, <2>1, <2>2, ReachableIs
  <2>4. QED
    BY <2>3
<1>6. QED
  BY <1>1, <1>5

(***************************************************************************)
(* What is never queued is reached from a cycle: among those it can be     *)
(* reached from, one that reaches most is entered by one that reaches no   *)
(* more, and so is on a cycle with it.                                     *)
(***************************************************************************)
LEMMA UnsortedCycles ==
  ASSUME NEW n \in Nat, NEW next \in Net(n), NEW q, Sorted(n, next, q),
         NEW u \in 0 .. n - 1, ~OnList(q, u)
  PROVE  \E v \in OnCycle(next) : u \in Reachable(next, v)
<1> DEFINE X == {x \in 0 .. n - 1 : ~OnList(q, x) /\ u \in Reachable(next, x)}
           Size(x) == Cardinality(Reachable(next, x))
           T == {n - Size(x) : x \in X}
<1>1. \A x \in 0 .. n - 1 :
        IsFiniteSet(Reachable(next, x)) /\ Size(x) \in Nat /\ Size(x) <= n
  <2> SUFFICES ASSUME NEW x \in 0 .. n - 1
               PROVE  IsFiniteSet(Reachable(next, x)) /\ Size(x) \in Nat /\ Size(x) <= n
    OBVIOUS
  <2>1. Reachable(next, x) \in SUBSET (0 .. n - 1)
    BY ReachableIs
  <2> HIDE DEF X, T, Size
  <2> DEFINE top == n - 1
  <2>2. IsFiniteSet(0 .. n - 1) /\ Cardinality(0 .. n - 1) = n
    <3>1. top \in Int /\ 0 \in Int /\ (0 <= n - 1 + 1) /\ n = top - 0 + 1 /\ top = n - 1
      OBVIOUS
    <3> HIDE DEF top
    <3>2. IsFiniteSet(0 .. top) /\ Cardinality(0 .. top) = IF 0 > top THEN 0 ELSE top - 0 + 1
      BY <3>1, FS_Interval
    <3>3. QED
      BY <3>1, <3>2
  <2>3. QED
    BY <2>1, <2>2, FS_Subset, FS_CardinalityType DEF Size
<1>2. PICK x \in X : \A y \in X : Size(y) <= Size(x)
  <2>1. T \subseteq Nat
    <3> HIDE DEF Size
    <3>1. QED
      BY <1>1
  <2>2. u \in X
    BY ReachableIs
  <2> HIDE DEF X
  <2>3. T # {}
    BY <2>2
  <2> HIDE DEF T
  <2>4. PICK least \in T : \A m \in T : least <= m
    BY <2>1, <2>3, LeastOf
  <2> USE DEF T
  <2>5. PICK x \in X : least = n - Size(x)
    OBVIOUS
  <2>6. X \subseteq 0 .. n - 1
    BY DEF X
  <2> HIDE DEF Size
  <2>7. \A y \in X : Size(y) <= Size(x)
    <3> SUFFICES ASSUME NEW y \in X PROVE Size(y) <= Size(x)
      OBVIOUS
    <3>1. n - Size(x) <= n - Size(y) /\ Size(x) \in Nat /\ Size(y) \in Nat
      BY <1>1, <2>4, <2>5, <2>6
    <3>2. QED
      BY <3>1
  <2>8. QED
    BY <2>7
<1>3. x \in 0 .. n - 1 /\ ~OnList(q, x) /\ u \in Reachable(next, x)
  OBVIOUS
<1>4. PICK z \in ArcSet(n, next) : next[z[1]][z[2]] = x /\ ~OnList(q, z[1])
  BY <1>3 DEF Sorted
<1> DEFINE p == z[1]
<1>5. p \in 0 .. n - 1 /\ z[2] \in 1 .. Len(next[p]) /\ next[p][z[2]] = x
  BY <1>4, ArcIs
<1>6. Reachable(next, x) \subseteq Reachable(next, p)
  BY <1>5, ReachesNext
<1>7. p \in X
  BY <1>3, <1>4, <1>5, <1>6
<1> HIDE DEF p, X
<1>8. Reachable(next, x) = Reachable(next, p)
  <2>1. Size(p) <= Size(x) /\ Size(p) \in Nat /\ Size(x) \in Nat
    BY <1>1, <1>2, <1>3, <1>5, <1>7
  <2>2. /\ Size(x) <= Size(p)
        /\ Size(p) = Size(x) => Reachable(next, p) = Reachable(next, x)
    <3>1. IsFiniteSet(Reachable(next, p)) /\ Reachable(next, x) \in SUBSET Reachable(next, p)
      BY <1>1, <1>5, <1>6
    <3>2. QED
      BY <3>1, FS_Subset
  <2> HIDE DEF Size
  <2>3. QED
    BY <2>1, <2>2
<1>9. p \in Reachable(next, next[p][z[2]])
  BY <1>5, <1>8, ReachableIs
<1>10. p \in OnCycle(next)
  BY <1>5, <1>9, OnCycleIs
<1>11. QED
  BY <1>3, <1>8, <1>10

(***************************************************************************)
(* Topological sort and cycle detection are right on any graph.            *)
(***************************************************************************)
LEMMA CyclesAreRight ==
  ASSUME NEW n \in Nat, NEW next \in Net(n)
  PROVE  CyclesRight(next)
<1> DEFINE sort == topological_sort(next)
           q == sort.order
           blocked == UNION {Reachable(next, v) : v \in OnCycle(next)}
<1>1. Sorted(n, next, q) /\ sort.rc = IF Len(q) = n THEN 0 ELSE 1
  BY TopologicalIs
<1>2. has_cycle(next) = IF OnCycle(next) = {} THEN 0 ELSE 1
  BY HasCycleTells
<1> HIDE DEF sort
<1>3. q \in Seq(0 .. n - 1) /\ Len(q) \in Nat /\ DOMAIN q = 1 .. Len(q) /\ Distinct(q)
  BY <1>1, LenProperties DEF Sorted
<1> HIDE DEF q
<1>4. \A u : u \in blocked <=> \E v \in OnCycle(next) : u \in Reachable(next, v)
  OBVIOUS
<1> HIDE DEF blocked
<1>5. \A u \in 0 .. n - 1 : OnList(q, u) <=> u \notin blocked
  BY <1>1, <1>4, CyclesUnsorted, UnsortedCycles
<1>6. sort.rc = has_cycle(next)
  <2>1. Len(q) = n <=> \A t \in 0 .. n - 1 : OnList(q, t)
    BY <1>3, DistinctLength
  <2>2. OnCycle(next) = {} => \A t \in 0 .. n - 1 : OnList(q, t)
    BY <1>4, <1>5
  <2>3. ASSUME NEW v \in OnCycle(next) PROVE ~\A t \in 0 .. n - 1 : OnList(q, t)
    <3>1. v \in 0 .. n - 1
      BY OnCycleIs
    <3>2. v \in Reachable(next, v)
      BY <3>1, ReachableIs
    <3>3. QED
      BY <1>4, <1>5, <3>1, <3>2
  <2>4. QED
    BY <1>1, <1>2, <2>1, <2>2, <2>3, SMTT(30)
<1>7. IsInjective(q)
  BY <1>3 DEF IsInjective, Distinct
<1>8. ToSet(q) = DOMAIN next \ blocked
  <2>1. \A t : t \in ToSet(q) <=> OnList(q, t)
    BY <1>3 DEF ToSet, OnList
  <2>2. \A t : OnList(q, t) => t \in 0 .. n - 1
    BY <1>3, ElementOfSeq DEF OnList
  <2>3. DOMAIN next = 0 .. n - 1
    BY NetIs
  <2>4. QED
    BY <1>5, <2>1, <2>2, <2>3
<1>9. ASSUME NEW a \in DOMAIN q, NEW b \in DOMAIN q, q[b] \in ToSet(next[q[a]]) PROVE a < b
  <2>1. a \in 1 .. Len(q) /\ b \in 1 .. Len(q) /\ q[a] \in 0 .. n - 1
    BY <1>3, ElementOfSeq
  <2> DEFINE u == q[a]
             t == q[b]
  <2>7. u \in 0 .. n - 1 /\ t \in ToSet(next[u])
    BY <1>9, <2>1
  <2> HIDE DEF u, t
  <2>8. \E i \in 1 .. Len(next[u]) : t = next[u][i]
    <3>1. DOMAIN next[u] = 1 .. Len(next[u])
      BY <2>7, NetIs
    <3>2. QED
      BY <2>7, <3>1 DEF ToSet
  <2> USE DEF u, t
  <2>2. PICK i \in 1 .. Len(next[q[a]]) : q[b] = next[q[a]][i]
    BY <2>8
  <2>3. <<q[a], i>> \in ArcSet(n, next)
    BY <2>1, IsArc
  <2>4. PICK c \in 1 .. b - 1 : q[c] = q[a]
    BY <1>1, <2>1, <2>2, <2>3 DEF Sorted, From
  <2>5. c = a
    BY <1>3, <2>1, <2>4 DEF Distinct
  <2>6. QED
    BY <2>1, <2>5
<1>10. QED
  BY <1>2, <1>6, <1>7, <1>8, <1>9 DEF CyclesRight, sort, q, blocked
-----------------------------------------------------------------------------
(***************************************************************************)
(* The graphs of the run: what a vertex of "graph" and "digraph" is called *)
(* is a key, so that the run's calls are calls of the graphs.              *)
(***************************************************************************)
MCInv == RInv /\ (impl # "map" => Used \subseteq GraphKeys)

\* The run's steps are steps of the data structure.
LEMMA MCStep == MCInv /\ [MCNext]_mcvars => [Next]_vars /\ MCInv'
<1> SUFFICES ASSUME MCInv, [MCNext]_mcvars PROVE [Next]_vars /\ MCInv'
  OBVIOUS
<1>1. RInv /\ size \in Nat /\ Used = 0 .. size - 1
  BY DEF MCInv, RInv, IInv, Shape, Used
<1>2. CASE UNCHANGED mcvars
  <2>1. UNCHANGED vars /\ Used' = Used /\ impl' = impl
    BY <1>2 DEF mcvars, vars, Used
  <2>2. RInv'
    BY <1>1, <2>1, StepRefines
  <2>3. QED
    BY <2>1, <2>2 DEF MCInv
<1>3. CASE impl = "map" /\ impl' = impl /\ CallAny
  <2>1. Next
    <3>1. CASE Common
      BY <3>1 DEF Next
    <3>2. ASSUME NEW u \in LinkedKeys, NEW v \in LinkedKeys, AddEdge(u, v, 1) \/ AddArc(u, v)
          PROVE  Next
      BY <3>2, LinkedAssumption DEF Next
    <3>3. QED
      BY <1>3, <3>1, <3>2 DEF CallAny
  <2>2. QED
    BY <1>1, <1>3, <2>1, StepRefines DEF MCInv
<1>4. ASSUME impl # "map", impl' = impl, BuildGraph \/ BuildDigraph
      PROVE  Next /\ MCInv'
  <2>1. Used \subseteq GraphKeys
    BY <1>4 DEF MCInv
  <2>2. ASSUME NEW m \in Capacities, Create(m) PROVE Next /\ size' = size
    BY <2>2 DEF Next, Common, Create
  <2>3. ASSUME size \in GraphKeys, AddVertex(size) PROVE Next /\ size' = size + 1
    BY <2>3, LinkedAssumption DEF Next, Common, AddVertex
  <2>4. ASSUME NEW u \in Used, NEW v \in Used, NEW w \in Weight, AddEdge(u, v, w)
        PROVE  Next /\ size' = size
    <3>1. Next
      BY <2>1, <2>4, LinkedAssumption DEF Next
    <3>2. size' = size
      BY <2>4 DEF AddEdge, EdgeRefused, EdgeFailed
    <3>3. QED
      BY <3>1, <3>2
  <2>5. ASSUME NEW u \in Used, NEW v \in Used, AddArc(u, v)
        PROVE  Next /\ size' = size
    <3>1. Next
      BY <2>1, <2>5, LinkedAssumption DEF Next
    <3>2. size' = size
      BY <2>5 DEF AddArc, EdgeRefused, EdgeFailed
    <3>3. QED
      BY <3>1, <3>2
  <2>6. Next /\ (size' = size \/ (size \in GraphKeys /\ size' = size + 1))
    BY <1>4, <2>2, <2>3, <2>4, <2>5 DEF BuildGraph, BuildDigraph, Build
  <2>7. Used' \subseteq Used \cup {size} /\ (size' = size => Used' = Used)
    BY <1>1, <2>6 DEF Used
  <2>8. Used' \subseteq GraphKeys
    BY <2>1, <2>6, <2>7
  <2>9. QED
    BY <1>1, <2>6, <2>8, StepRefines DEF MCInv
<1>5. QED
  BY <1>2, <1>3, <1>4 DEF MCNext

\* The run's invariant.
LEMMA MCKeeps == MCSpec => []MCInv
<1>1. MCInit => MCInv
  <2> SUFFICES ASSUME MCInit PROVE MCInv
    OBVIOUS
  <2>1. Init /\ Used = {}
    BY DEF MCInit, Init, Used
  <2>2. QED
    BY <2>1, InitRefines DEF MCInv
<1>2. QED
  BY <1>1, MCStep, PTL DEF MCSpec

\* What the searches and Kahn's algorithm follow are lists of vertices.
LEMMA SuccessorsAre ==
  ASSUME RInv
  PROVE  size \in Nat /\ Successors \in Net(size)
<1>1. size \in Nat /\ Used = 0 .. size - 1
  BY DEF RInv, IInv, Shape, Used
<1>2. ASSUME NEW v \in 0 .. size - 1
      PROVE  [i \in DOMAIN vertices[v].adj |-> vertices[v].adj[i].to] \in Seq(0 .. size - 1)
  <2>1. /\ vertices[v].adj \in Seq(Link)
        /\ \A i \in DOMAIN vertices[v].adj : vertices[v].adj[i].to \in 0 .. size - 1
    BY <1>1 DEF RInv, Joined
  <2>2. DOMAIN vertices[v].adj = 1 .. Len(vertices[v].adj) /\ Len(vertices[v].adj) \in Nat
    BY <2>1
  <2>3. QED
    BY <2>1, <2>2
<1>3. QED
  BY <1>1, <1>2 DEF Successors, Net

(***************************************************************************)
(* In digraph.c, whatever digraph callers have built: has_cycle tells the  *)
(* digraphs with a cycle from those without; topological_sort returns 0    *)
(* just for the latter, and its order holds each vertex that no cycle      *)
(* leads to, once, after everything with an arc to it.                     *)
(***************************************************************************)
THEOREM DigraphCycles == MCSpec => []Cycles
<1>1. MCInv => Cycles
  <2> SUFFICES ASSUME MCInv PROVE CyclesRight(Successors)
    BY DEF Cycles
  <2>1. RInv
    BY DEF MCInv
  <2> DEFINE next == Successors
             n == size
  <2>2. n \in Nat /\ next \in Net(n)
    BY <2>1, SuccessorsAre
  <2> HIDE DEF next, n
  <2>3. CyclesRight(next)
    BY <2>2, CyclesAreRight
  <2>4. QED
    BY <2>3 DEF next
<1>2. QED
  BY <1>1, MCKeeps, PTL
-----------------------------------------------------------------------------
(***************************************************************************)
(* The searches.  Pushing a list of targets: those not marked before come  *)
(* behind what is on the list, each once, and are marked.                  *)
(***************************************************************************)
New(q, r) == Len(q) + 1 .. Len(r)

Pushes(n, targets, i, s, r) ==
  /\ r.list \in Seq(0 .. n - 1) /\ Begins(s.list, r.list)
  /\ \A t : t \in r.marked <=> t \in s.marked \/ \E j \in 1 .. i : targets[j] = t
  /\ \A b \in New(s.list, r.list) :
       r.list[b] \notin s.marked /\ \E j \in 1 .. i : targets[j] = r.list[b]
  /\ \A a, b \in New(s.list, r.list) : r.list[a] = r.list[b] => a = b
  /\ \A t \in r.marked : t \in s.marked \/ \E b \in New(s.list, r.list) : r.list[b] = t

Pushed(seen, targets, f) ==
  /\ f[0] = seen
  /\ \A d \in 0 .. Len(targets) - 1 :
       f[d + 1] = Push(f[d], targets[d + 1])

\* The loop over a vertex's neighbours by the step.
LEMMA PushAllIs ==
  ASSUME NEW seen, NEW targets, Len(targets) \in Nat
  PROVE  \E f : /\ PushAll(seen, targets) = f[Len(targets)]
              /\ Pushed(seen, targets, f)
<1> DEFINE begin == seen
           turns == Len(targets)
           St(d, x) == Push(x, targets[d])
           rhs(top, f) == [d \in 0 .. top |-> IF d = 0 THEN begin ELSE St(d, f[d - 1])]
           S == {k \in Nat : \E f : f = rhs(k, f)}
           loop == CHOOSE f : f = rhs(turns, f)
<1>1. PushAll(seen, targets) = loop[turns]
  BY Zenon DEF PushAll
<1>2. turns \in Nat
  OBVIOUS
<1> HIDE DEF begin, turns, St
<1>3. 0 \in S
  <2>1. [d \in 0 .. 0 |-> begin] = rhs(0, [d \in 0 .. 0 |-> begin])
    OBVIOUS
  <2>2. QED
    BY <2>1
<1>4. ASSUME NEW k \in Nat, k \in S PROVE k + 1 \in S
  <2>1. PICK f : f = rhs(k, f)
    BY <1>4
  <2> DEFINE h == [d \in 0 .. k + 1 |-> IF d = k + 1 THEN St(d, f[k]) ELSE f[d]]
  <2>2. \A d \in 0 .. k : f[d] = IF d = 0 THEN begin ELSE St(d, f[d - 1])
    BY <2>1
  <2>3. ASSUME NEW d \in 0 .. k + 1
        PROVE  h[d] = IF d = 0 THEN begin ELSE St(d, h[d - 1])
    <3>1. CASE d = k + 1
      BY <3>1
    <3>2. CASE d # k + 1
      <4>1. d \in 0 .. k /\ (d # 0 => d - 1 \in 0 .. k /\ d - 1 # k + 1)
        BY <3>2
      <4>2. h[d] = f[d] /\ (d # 0 => h[d - 1] = f[d - 1])
        BY <3>2, <4>1
      <4>3. f[d] = IF d = 0 THEN begin ELSE St(d, f[d - 1])
        BY <2>2, <4>1
      <4> HIDE DEF h
      <4>4. QED
        BY <4>2, <4>3
    <3>3. QED
      BY <3>1, <3>2
  <2>4. h = rhs(k + 1, h)
    BY <2>3
  <2> HIDE DEF h, rhs
  <2>5. QED
    BY <2>4
<1> HIDE DEF S
<1>5. turns \in S
  BY <1>2, <1>3, <1>4, Induction
<1>6. loop = rhs(turns, loop)
  <2> HIDE DEF rhs
  <2>1. QED
    BY <1>5 DEF S
<1> HIDE DEF loop
<1>7. loop[0] = begin
  BY <1>2, <1>6
<1>8. ASSUME NEW d \in 0 .. turns - 1 PROVE loop[d + 1] = St(d + 1, loop[d])
  <2>1. d + 1 \in 0 .. turns /\ d + 1 # 0 /\ (d + 1) - 1 = d
    BY <1>2
  <2>2. loop[d + 1] = St(d + 1, loop[(d + 1) - 1])
    BY <1>6, <2>1
  <2>3. QED
    BY <2>1, <2>2
<1>9. QED
  BY <1>1, <1>7, <1>8 DEF begin, turns, St, Pushed

\* One neighbour is put at the end of the queue, or was there.
LEMMA PushPushes ==
  ASSUME NEW n \in Nat, NEW targets, NEW i \in Nat, NEW w, w = i + 1, targets[w] \in 0 .. n - 1,
         NEW s, s.list \in Seq(0 .. n - 1), NEW r, Pushes(n, targets, i, s, r)
  PROVE  Pushes(n, targets, w, s, Push(r, targets[w]))
<1> DEFINE t == targets[w]
           q == s.list
           o == r.list
           p == Push(r, t)
<1>1. \A j : j \in 1 .. w <=> j \in 1 .. i \/ j = w
  OBVIOUS
<1>2. t \in 0 .. n - 1 /\ q \in Seq(0 .. n - 1) /\ o \in Seq(0 .. n - 1)
      /\ Len(q) \in Nat /\ Len(o) \in Nat /\ Len(q) <= Len(o)
  BY LenProperties DEF Pushes, Begins
<1>3. CASE t \in r.marked
  <2>1. p = r
    BY <1>3 DEF Push
  <2>2. Pushes(n, targets, w, s, r)
    BY <1>1, <1>3 DEF Pushes
  <2>3. QED
    BY <2>1, <2>2
<1>4. CASE t \notin r.marked
  <2>1. p.marked = r.marked \cup {t} /\ p.list = Append(o, t)
    BY <1>4 DEF Push
  <2> HIDE DEF t, q, o, p
  <2>2. /\ p.list \in Seq(0 .. n - 1) /\ Len(p.list) = Len(o) + 1
        /\ p.list[Len(o) + 1] = t /\ \A a \in 1 .. Len(o) : p.list[a] = o[a]
    BY <1>2, <2>1, AppendOnList DEF Begins
  <2>3. \A b : b \in New(q, p.list) <=> b \in New(q, o) \/ b = Len(o) + 1
    BY <1>2, <2>2 DEF New
  <2>4. \A b \in New(q, o) : b \in 1 .. Len(o) /\ p.list[b] = o[b]
    BY <1>2, <2>2 DEF New
  <2>5. Begins(q, p.list)
    <3>1. Begins(q, o)
      BY DEF Pushes, q, o
    <3>2. QED
      BY <1>2, <2>2, <3>1 DEF Begins
  <2>6. t \notin s.marked /\ \A b \in New(q, o) : o[b] # t
    <3>1. \A b \in New(q, o) : o[b] \in r.marked
      BY DEF Pushes, q, o
    <3>2. QED
      BY <1>4, <3>1 DEF Pushes
  <2>7. \A x : x \in p.marked <=> x \in s.marked \/ \E j \in 1 .. w : targets[j] = x
    BY <1>1, <2>1 DEF Pushes, t
  <2>8. ASSUME NEW b \in New(q, p.list)
        PROVE  p.list[b] \notin s.marked /\ \E j \in 1 .. w : targets[j] = p.list[b]
    BY <1>1, <2>2, <2>3, <2>4, <2>6 DEF Pushes, t, q, o
  <2>9. \A a, b \in New(q, p.list) : p.list[a] = p.list[b] => a = b
    <3>1. \A a, b \in New(q, o) : o[a] = o[b] => a = b
      BY DEF Pushes, q, o
    <3>2. QED
      BY <2>2, <2>3, <2>4, <2>6, <3>1
  <2>10. ASSUME NEW x \in p.marked
         PROVE  x \in s.marked \/ \E b \in New(q, p.list) : p.list[b] = x
    <3>1. x \in r.marked => x \in s.marked \/ \E b \in New(q, o) : o[b] = x
      BY DEF Pushes, q, o
    <3>2. QED
      BY <2>1, <2>2, <2>3, <2>4, <3>1
  <2>11. Pushes(n, targets, w, s, p)
    BY <2>2, <2>5, <2>7, <2>8, <2>9, <2>10 DEF Pushes, q
  <2>12. QED
    BY <2>11 DEF p, t
<1>5. QED
  BY <1>3, <1>4

\* And so are all of them.
LEMMA PushAllPushes ==
  ASSUME NEW n \in Nat, NEW targets, Len(targets) \in Nat,
         \A j \in 1 .. Len(targets) : targets[j] \in 0 .. n - 1,
         NEW s, s.list \in Seq(0 .. n - 1)
  PROVE  Pushes(n, targets, Len(targets), s, PushAll(s, targets))
<1>1. PICK f : PushAll(s, targets) = f[Len(targets)] /\ Pushed(s, targets, f)
  BY PushAllIs
<1> DEFINE S == {i \in Nat : i <= Len(targets) => Pushes(n, targets, i, s, f[i])}
<1>2. 0 \in S
  <2>1. f[0] = s
    BY <1>1 DEF Pushed
  <2>2. Len(s.list) \in Nat /\ New(s.list, s.list) = {} /\ Begins(s.list, s.list)
    BY LenProperties DEF New, Begins
  <2>3. 1 .. 0 = {}
    OBVIOUS
  <2>4. Pushes(n, targets, 0, s, s)
    BY <2>2, <2>3 DEF Pushes
  <2>5. QED
    BY <2>1, <2>4
<1>3. ASSUME NEW i \in Nat, i \in S PROVE i + 1 \in S
  <2> SUFFICES ASSUME i + 1 <= Len(targets) PROVE Pushes(n, targets, i + 1, s, f[i + 1])
    OBVIOUS
  <2> DEFINE w == i + 1
             r == f[i]
  <2>1. Pushes(n, targets, i, s, r) /\ w \in 1 .. Len(targets) /\ i \in 0 .. Len(targets) - 1
    BY <1>3
  <2>2. f[w] = Push(r, targets[w])
    BY <1>1, <2>1 DEF Pushed
  <2>3. w = i + 1 /\ targets[w] \in 0 .. n - 1
    BY <2>1
  <2> HIDE DEF w, r
  <2>4. Pushes(n, targets, w, s, Push(r, targets[w]))
    BY <2>1, <2>3, PushPushes
  <2>5. QED
    BY <2>2, <2>3, <2>4
<1> HIDE DEF S
<1>4. Nat \subseteq S
  BY <1>2, <1>3, Induction
<1>5. QED
  BY <1>1, <1>4 DEF S

Queueing(next, start, f) ==
  /\ f[0] = Marked(start)
  /\ \A d \in 0 .. Cardinality(DOMAIN next) - 1 :
       f[d + 1] = IF d + 1 > Len(f[d].list)
                   THEN f[d] ELSE PushAll(f[d], next[f[d].list[d + 1]])

\* The loop of bfs by the step.
LEMMA BfsIs ==
  ASSUME NEW next, NEW start, Cardinality(DOMAIN next) \in Nat
  PROVE  \E f : /\ bfs(next, start) = f[Cardinality(DOMAIN next)].list
              /\ Queueing(next, start, f)
<1> DEFINE begin == Marked(start)
           turns == Cardinality(DOMAIN next)
           St(d, x) == IF d > Len(x.list) THEN x ELSE PushAll(x, next[x.list[d]])
           rhs(top, f) == [d \in 0 .. top |-> IF d = 0 THEN begin ELSE St(d, f[d - 1])]
           S == {k \in Nat : \E f : f = rhs(k, f)}
           loop == CHOOSE f : f = rhs(turns, f)
<1>1. bfs(next, start) = loop[turns].list
  BY Zenon DEF bfs
<1>2. turns \in Nat
  OBVIOUS
<1> HIDE DEF begin, turns, St
<1>3. 0 \in S
  <2>1. [d \in 0 .. 0 |-> begin] = rhs(0, [d \in 0 .. 0 |-> begin])
    OBVIOUS
  <2>2. QED
    BY <2>1
<1>4. ASSUME NEW k \in Nat, k \in S PROVE k + 1 \in S
  <2>1. PICK f : f = rhs(k, f)
    BY <1>4
  <2> DEFINE h == [d \in 0 .. k + 1 |-> IF d = k + 1 THEN St(d, f[k]) ELSE f[d]]
  <2>2. \A d \in 0 .. k : f[d] = IF d = 0 THEN begin ELSE St(d, f[d - 1])
    BY <2>1
  <2>3. ASSUME NEW d \in 0 .. k + 1
        PROVE  h[d] = IF d = 0 THEN begin ELSE St(d, h[d - 1])
    <3>1. CASE d = k + 1
      BY <3>1
    <3>2. CASE d # k + 1
      <4>1. d \in 0 .. k /\ (d # 0 => d - 1 \in 0 .. k /\ d - 1 # k + 1)
        BY <3>2
      <4>2. h[d] = f[d] /\ (d # 0 => h[d - 1] = f[d - 1])
        BY <3>2, <4>1
      <4>3. f[d] = IF d = 0 THEN begin ELSE St(d, f[d - 1])
        BY <2>2, <4>1
      <4> HIDE DEF h
      <4>4. QED
        BY <4>2, <4>3
    <3>3. QED
      BY <3>1, <3>2
  <2>4. h = rhs(k + 1, h)
    BY <2>3
  <2> HIDE DEF h, rhs
  <2>5. QED
    BY <2>4
<1> HIDE DEF S
<1>5. turns \in S
  BY <1>2, <1>3, <1>4, Induction
<1>6. loop = rhs(turns, loop)
  <2> HIDE DEF rhs
  <2>1. QED
    BY <1>5 DEF S
<1> HIDE DEF loop
<1>7. loop[0] = begin
  BY <1>2, <1>6
<1>8. ASSUME NEW d \in 0 .. turns - 1 PROVE loop[d + 1] = St(d + 1, loop[d])
  <2>1. d + 1 \in 0 .. turns /\ d + 1 # 0 /\ (d + 1) - 1 = d
    BY <1>2
  <2>2. loop[d + 1] = St(d + 1, loop[(d + 1) - 1])
    BY <1>6, <2>1
  <2>3. QED
    BY <2>1, <2>2
<1>9. QED
  BY <1>1, <1>7, <1>8 DEF begin, turns, St, Queueing

(***************************************************************************)
(* bfs.  After h turns the vertices at the first h places have all their   *)
(* targets in the queue.  None is nearer than one before it, and what is   *)
(* in the queue is at most one edge further than the next to be shown.     *)
(***************************************************************************)
Nearer(next, start, q) ==
  \A k \in Nat : \A a, b \in 1 .. Len(q) :
    a < b /\ q[b] \in Within(next, start, k) => q[a] \in Within(next, start, k)

OneFurther(next, start, q, h) ==
  h + 1 <= Len(q) =>
    \A k \in Nat : q[h + 1] \in Within(next, start, k)
                     => \A b \in 1 .. Len(q) : q[b] \in Within(next, start, k + 1)

FirstDone(next, h, s) ==
  \A a \in 1 .. Len(s.list) : a <= h =>
    \A i \in 1 .. Len(next[s.list[a]]) : next[s.list[a]][i] \in s.marked

InQueue(n, next, start, s) ==
  /\ s.list \in Seq(0 .. n - 1) /\ Distinct(s.list)
  /\ start \in s.marked /\ s.marked \subseteq Reachable(next, start)
  /\ \A t : t \in s.marked <=> OnList(s.list, t)

Turned(n, next, start, h, s) ==
  /\ InQueue(n, next, start, s)
  /\ FirstDone(next, h, s)
  /\ Nearer(next, start, s.list) /\ OneFurther(next, start, s.list, h)

\* Whoever is met only now is further than someone in the queue.
LEMMA Frontier ==
  ASSUME NEW n \in Nat, NEW next \in Net(n), NEW start \in 0 .. n - 1,
         NEW h \in Nat, NEW s, InQueue(n, next, start, s), FirstDone(next, h, s),
         NEW k \in Nat, NEW t \in Within(next, start, k), t \notin s.marked
  PROVE  /\ k - 1 \in Nat
         /\ \E b \in 1 .. Len(s.list) : b > h /\ s.list[b] \in Within(next, start, k - 1)
<1> DEFINE q == s.list
           Met(j) == \E b \in 1 .. Len(q) : b > h /\ q[b] \in Within(next, start, j - 1)
           S == {j \in Nat : \A x \in Within(next, start, j) :
                               x \notin s.marked => j - 1 \in Nat /\ Met(j)}
<1>0. Len(q) \in Nat
  BY LenProperties DEF InQueue
<1>1. 0 \in S
  <2>1. Within(next, start, 0) = {start}
    BY WithinNext
  <2>2. QED
    BY <2>1 DEF InQueue
<1>2. ASSUME NEW j \in Nat, j \in S PROVE j + 1 \in S
  <2> SUFFICES ASSUME NEW x \in Within(next, start, j + 1), x \notin s.marked
               PROVE  Met(j + 1)
    OBVIOUS
  <2>1. (j + 1) - 1 = j
    OBVIOUS
  <2>2. ASSUME NEW y \in Within(next, start, j), y \notin s.marked PROVE Met(j + 1)
    <3>1. j - 1 \in Nat /\ Met(j)
      BY <1>2, <2>2
    <3>2. Within(next, start, j - 1) \subseteq Within(next, start, j)
      <4>1. j - 1 <= j
        OBVIOUS
      <4>2. QED
        BY <3>1, <4>1, WithinGrows
    <3>3. QED
      BY <2>1, <3>1, <3>2
  <2>3. CASE x \in Within(next, start, j)
    BY <2>2, <2>3
  <2>4. CASE x \notin Within(next, start, j)
    <3>1. OneOn(next, Within(next, start, j), x)
      BY <2>4, WithinStep
    <3>2. PICK u \in Within(next, start, j) : \E i \in 1 .. Len(next[u]) : x = next[u][i]
      BY <3>1 DEF OneOn
    <3>3. CASE u \in s.marked
      <4>1. PICK b \in 1 .. Len(q) : q[b] = u
        BY <3>3 DEF InQueue, OnList
      <4>2. b > h
        BY <1>0, <3>2, <4>1 DEF FirstDone
      <4>3. QED
        BY <2>1, <4>1, <4>2
    <3>4. QED
      BY <2>2, <3>3
  <2>5. QED
    BY <2>3, <2>4
<1> HIDE DEF S
<1>3. Nat \subseteq S
  BY <1>1, <1>2, Induction
<1>4. k \in S
  BY <1>3
<1>5. QED
  BY <1>4 DEF S

\* One turn: x, at the next place, has all its targets pushed.
LEMMA TurnQueues ==
  ASSUME NEW n \in Nat, NEW next \in Net(n), NEW start \in 0 .. n - 1,
         NEW h \in Nat, NEW w \in Nat, w = h + 1,
         NEW s, Turned(n, next, start, h, s), w \in 1 .. Len(s.list), NEW x, x = s.list[w],
         NEW r, Pushes(n, next[x], Len(next[x]), s, r)
  PROVE  Turned(n, next, start, w, r)
<1> DEFINE q == s.list
           o == r.list
           W(k) == Within(next, start, k)
<1>1. /\ q \in Seq(0 .. n - 1) /\ Len(q) \in Nat /\ Distinct(q)
      /\ o \in Seq(0 .. n - 1) /\ Len(o) \in Nat /\ Len(q) <= Len(o)
      /\ \A a \in 1 .. Len(q) : a \in 1 .. Len(o) /\ o[a] = q[a]
  <2>1. q \in Seq(0 .. n - 1) /\ Distinct(q) /\ o \in Seq(0 .. n - 1) /\ Begins(q, o)
    BY DEF Turned, InQueue, Pushes
  <2> HIDE DEF q, o
  <2>2. Len(q) \in Nat /\ Len(o) \in Nat
    BY <2>1, LenProperties
  <2>3. QED
    BY <2>1, <2>2 DEF Begins
<1>2. x \in 0 .. n - 1 /\ x \in s.marked /\ x \in Reachable(next, start)
  <2>1. x \in 0 .. n - 1
    BY <1>1, ElementOfSeq
  <2>2. OnList(q, x)
    BY DEF OnList
  <2>3. QED
    BY <2>1, <2>2 DEF Turned, InQueue
<1>3. /\ Len(next[x]) \in Nat
      /\ \A i \in 1 .. Len(next[x]) : next[x][i] \in Reachable(next, start)
  <2>1. \A i \in 1 .. Len(next[x]) : next[x][i] \in Reachable(next, x)
    BY <1>2, ReachesNext
  <2>2. QED
    BY <1>2, <2>1, NetIs, ReachesOn
<1>4. \A b \in 1 .. Len(o) : b \in 1 .. Len(q) \/ b \in New(q, o)
  BY <1>1 DEF New
<1>5. \A b \in New(q, o) :
        /\ b \in 1 .. Len(o) /\ b > Len(q) /\ o[b] \notin s.marked
        /\ \E i \in 1 .. Len(next[x]) : next[x][i] = o[b]
  <2>1. \A b \in New(q, o) : b \in 1 .. Len(o) /\ b > Len(q)
    BY <1>1 DEF New
  <2>2. \A b \in New(q, o) : o[b] \notin s.marked /\ \E i \in 1 .. Len(next[x]) : next[x][i] = o[b]
    BY DEF Pushes
  <2>3. QED
    BY <2>1, <2>2
<1>6. \A a \in 1 .. Len(q) : q[a] \in s.marked
  BY DEF Turned, InQueue, OnList
<1>7. InQueue(n, next, start, r)
  <2>1. Distinct(o)
    <3> SUFFICES ASSUME NEW a \in 1 .. Len(o), NEW b \in 1 .. Len(o), o[a] = o[b] PROVE a = b
      BY DEF Distinct
    <3>1. CASE a \in 1 .. Len(q) /\ b \in 1 .. Len(q)
      BY <1>1, <3>1 DEF Distinct
    <3>2. CASE a \in New(q, o) /\ b \in New(q, o)
      BY <3>2 DEF Pushes
    <3>3. CASE a \in 1 .. Len(q) /\ b \in New(q, o)
      BY <1>1, <1>5, <1>6, <3>3
    <3>4. CASE a \in New(q, o) /\ b \in 1 .. Len(q)
      BY <1>1, <1>5, <1>6, <3>4
    <3>5. QED
      BY <1>4, <3>1, <3>2, <3>3, <3>4
  <2>2. ASSUME NEW t \in r.marked PROVE OnList(o, t) /\ t \in Reachable(next, start)
    <3>1. CASE t \in s.marked
      <4>1. t \in Reachable(next, start)
        BY <3>1 DEF Turned, InQueue
      <4>2. PICK a \in 1 .. Len(q) : q[a] = t
        BY <3>1 DEF Turned, InQueue, OnList
      <4>3. QED
        BY <1>1, <4>1, <4>2 DEF OnList
    <3>2. CASE t \notin s.marked
      <4>1. PICK b \in New(q, o) : o[b] = t
        BY <3>2 DEF Pushes
      <4>2. b \in 1 .. Len(o)
        BY <1>5
      <4>3. QED
        BY <1>3, <1>5, <4>1, <4>2 DEF OnList
    <3>3. QED
      BY <3>1, <3>2
  <2>3. ASSUME NEW t, OnList(o, t) PROVE t \in r.marked
    <3>1. PICK b \in 1 .. Len(o) : o[b] = t
      BY <2>3 DEF OnList
    <3>2. \A y : y \in r.marked <=> y \in s.marked \/ \E i \in 1 .. Len(next[x]) : next[x][i] = y
      BY DEF Pushes
    <3>3. QED
      BY <1>1, <1>4, <1>5, <1>6, <3>1, <3>2
  <2>4. start \in r.marked
    BY DEF Turned, InQueue, Pushes
  <2>5. QED
    BY <1>1, <2>1, <2>2, <2>3, <2>4 DEF InQueue
<1>8. FirstDone(next, w, r)
  <2> SUFFICES ASSUME NEW a \in 1 .. Len(o), a <= w, NEW i \in 1 .. Len(next[o[a]])
               PROVE  next[o[a]][i] \in r.marked
    BY DEF FirstDone
  <2>0. w \in 1 .. Len(q) /\ Len(q) \in Nat
    BY <1>1
  <2>1. \A y : y \in r.marked <=> y \in s.marked \/ \E j \in 1 .. Len(next[x]) : next[x][j] = y
    BY DEF Pushes
  <2>2. a \in 1 .. Len(q) /\ o[a] = q[a]
    <3>1. a \in 1 .. Len(q)
      BY <2>0
    <3>2. QED
      BY <1>1, <3>1
  <2>3. CASE a = w
    BY <2>1, <2>2, <2>3
  <2>4. CASE a # w
    <3>1. a <= h
      BY <2>4
    <3>2. next[q[a]][i] \in s.marked
      BY <2>2, <3>1 DEF Turned, FirstDone
    <3>3. QED
      BY <2>1, <2>2, <3>2
  <2>5. QED
    BY <2>3, <2>4
<1>9. \A k \in Nat : x \in W(k) => \A b \in 1 .. Len(q) : q[b] \in W(k + 1)
  BY SMTT(30) DEF Turned, OneFurther
<1>10. \A k \in Nat : \A a, b \in 1 .. Len(q) : a < b /\ q[b] \in W(k) => q[a] \in W(k)
  BY DEF Turned, Nearer
<1>11. \A k \in Nat : x \in W(k) => \A b \in New(q, o) : o[b] \in W(k + 1)
  <2> SUFFICES ASSUME NEW k \in Nat, x \in W(k), NEW b \in New(q, o) PROVE o[b] \in W(k + 1)
    OBVIOUS
  <2>1. PICK i \in 1 .. Len(next[x]) : next[x][i] = o[b]
    BY <1>5
  <2>2. OneOn(next, W(k), o[b])
    BY <2>1 DEF OneOn
  <2>3. QED
    BY <2>2, WithinStep
<1>12. ASSUME NEW k \in Nat, NEW b \in New(q, o), o[b] \in W(k)
       PROVE  \A a \in 1 .. Len(o) : o[a] \in W(k)
  <2>1. /\ k - 1 \in Nat
        /\ \E c \in 1 .. Len(q) : c > h /\ q[c] \in W(k - 1)
    BY <1>5, <1>12, Frontier DEF Turned
  <2>2. PICK c \in 1 .. Len(q) : c > h /\ q[c] \in W(k - 1)
    BY <2>1
  <2>3. c = w \/ w < c
    BY <2>2
  <2>4. x \in W(k - 1)
    BY <1>10, <2>1, <2>2, <2>3
  <2>5. (k - 1) + 1 = k
    OBVIOUS
  <2> HIDE DEF W
  <2>6. (\A a \in 1 .. Len(q) : q[a] \in W(k)) /\ \A a \in New(q, o) : o[a] \in W(k)
    BY <1>9, <1>11, <2>1, <2>4, <2>5
  <2>7. QED
    BY <1>1, <1>4, <2>6
<1>13. Nearer(next, start, o)
  <2> SUFFICES ASSUME NEW k \in Nat, NEW a \in 1 .. Len(o), NEW b \in 1 .. Len(o),
                      a < b, o[b] \in W(k)
               PROVE  o[a] \in W(k)
    BY DEF Nearer
  <2> HIDE DEF W
  <2>1. CASE b \in New(q, o)
    BY <1>12, <2>1
  <2>2. CASE b \in 1 .. Len(q)
    <3>1. a \in 1 .. Len(q)
      BY <1>1, <2>2
    <3>2. QED
      BY <1>1, <1>10, <2>2, <3>1
  <2>3. QED
    BY <1>4, <2>1, <2>2
<1>14. OneFurther(next, start, o, w)
  <2> SUFFICES ASSUME w + 1 <= Len(o), NEW k \in Nat, o[w + 1] \in W(k),
                      NEW b \in 1 .. Len(o)
               PROVE  o[b] \in W(k + 1)
    BY DEF OneFurther
  <2>1. w \in 1 .. Len(o) /\ w + 1 \in 1 .. Len(o) /\ w < w + 1
    BY <1>1
  <2>2. x \in W(k)
    BY <1>1, <1>13, <2>1 DEF Nearer
  <2> HIDE DEF W
  <2>3. QED
    BY <1>1, <1>4, <1>9, <1>11, <2>2
<1>15. QED
  BY <1>7, <1>8, <1>13, <1>14 DEF Turned

\* bfs shows what can be reached, nearer vertices first.
LEMMA BfsIsRight ==
  ASSUME NEW n \in Nat, NEW next \in Net(n), NEW start \in 0 .. n - 1
  PROVE  /\ ShowsReachable(next, start, bfs(next, start))
         /\ BreadthFirst(next, start, bfs(next, start))
         /\ Nearer(next, start, bfs(next, start))
         /\ bfs(next, start) \in Seq(0 .. n - 1)
<1>1. Cardinality(DOMAIN next) = n /\ DOMAIN next = 0 .. n - 1
  BY NetIs
<1>2. PICK f : bfs(next, start) = f[n].list /\ Queueing(next, start, f)
  BY <1>1, BfsIs
<1> DEFINE S == {h \in Nat : h <= n => Turned(n, next, start, h, f[h])}
<1>3. 0 \in S
  <2> DEFINE s == f[0]
             one == <<start>>
  <2>1. s.marked = {start} /\ s.list = one
    BY <1>2 DEF Queueing, Marked
  <2>2. one \in Seq(0 .. n - 1) /\ Len(one) = 1 /\ one[1] = start
    OBVIOUS
  <2> HIDE DEF s, one
  <2>3. \A a \in 1 .. Len(s.list) : a = 1 /\ s.list[a] = start
    BY <2>1, <2>2
  <2>4. 1 \in 1 .. Len(s.list)
    BY <2>1, <2>2
  <2>5. \A t : t \in s.marked <=> OnList(s.list, t)
    BY <2>1, <2>3, <2>4 DEF OnList
  <2>6. InQueue(n, next, start, s)
    <3>1. start \in Reachable(next, start)
      BY ReachableIs
    <3>2. QED
      BY <2>1, <2>2, <2>3, <2>5, <3>1 DEF InQueue, Distinct
  <2>7. FirstDone(next, 0, s)
    BY <2>3 DEF FirstDone
  <2>8. Nearer(next, start, s.list)
    BY <2>3 DEF Nearer
  <2>9. OneFurther(next, start, s.list, 0)
    <3>1. \A k \in Nat : start \in Within(next, start, k + 1)
      BY WithinStep
    <3>2. QED
      BY <2>3, <3>1 DEF OneFurther
  <2>10. QED
    BY <2>6, <2>7, <2>8, <2>9 DEF Turned, s
<1>4. ASSUME NEW h \in Nat, h \in S PROVE h + 1 \in S
  <2> SUFFICES ASSUME h + 1 <= n PROVE Turned(n, next, start, h + 1, f[h + 1])
    OBVIOUS
  <2> DEFINE w == h + 1
             s == f[h]
             q == s.list
  <2>1. Turned(n, next, start, h, s) /\ h \in 0 .. n - 1 /\ w \in Nat
    BY <1>4
  <2>2. f[w] = IF w > Len(q) THEN s ELSE PushAll(s, next[q[w]])
    BY <1>1, <1>2, <2>1 DEF Queueing
  <2>3. q \in Seq(0 .. n - 1) /\ Len(q) \in Nat
    BY <2>1, LenProperties DEF Turned, InQueue
  <2>4. w = h + 1
    OBVIOUS
  <2> HIDE DEF w, s
  <2>5. CASE w > Len(q)
    <3>1. FirstDone(next, w, s)
      <4>1. \A a \in 1 .. Len(q) : a <= h
        BY <2>3, <2>4, <2>5
      <4>2. QED
        BY <2>1, <4>1 DEF Turned, FirstDone
    <3>2. OneFurther(next, start, s.list, w)
      BY <2>1, <2>3, <2>4, <2>5 DEF OneFurther
    <3>3. QED
      BY <2>1, <2>2, <2>4, <2>5, <3>1, <3>2 DEF Turned
  <2>6. CASE ~(w > Len(q))
    <3> DEFINE x == q[w]
               r == PushAll(s, next[x])
    <3>1. w \in 1 .. Len(s.list) /\ x \in 0 .. n - 1
      BY <2>1, <2>3, <2>4, <2>6, ElementOfSeq
    <3>2. Len(next[x]) \in Nat /\ \A j \in 1 .. Len(next[x]) : next[x][j] \in 0 .. n - 1
      BY <3>1, NetIs
    <3>3. x = s.list[w] /\ f[w] = r /\ s.list \in Seq(0 .. n - 1)
      BY <2>2, <2>3, <2>6
    <3> HIDE DEF x
    <3>4. Pushes(n, next[x], Len(next[x]), s, r)
      BY <3>2, <3>3, PushAllPushes
    <3> HIDE DEF r, q
    <3>5. Turned(n, next, start, w, r)
      BY <2>1, <2>4, <3>1, <3>3, <3>4, TurnQueues
    <3>6. QED
      BY <2>4, <3>3, <3>5
  <2>7. QED
    BY <2>5, <2>6
<1> HIDE DEF S
<1>5. Nat \subseteq S
  BY <1>3, <1>4, Induction
<1> DEFINE s == f[n]
           q == s.list
<1>6. Turned(n, next, start, n, s)
  BY <1>5 DEF S
<1>7. bfs(next, start) = q
  BY <1>2
<1> HIDE DEF s
<1>8. q \in Seq(0 .. n - 1) /\ Len(q) \in Nat /\ DOMAIN q = 1 .. Len(q) /\ Distinct(q)
  BY <1>6, LenProperties DEF Turned, InQueue
<1>9. Len(q) <= n
  BY <1>8, DistinctLength
<1>10. Closed(next, s.marked)
  <2> SUFFICES ASSUME NEW u \in s.marked, NEW i \in 1 .. Len(next[u]) PROVE next[u][i] \in s.marked
    BY DEF Closed
  <2>1. PICK a \in 1 .. Len(q) : q[a] = u
    BY <1>6 DEF Turned, InQueue, OnList
  <2>2. a <= n
    BY <1>8, <1>9
  <2>3. QED
    BY <1>6, <2>1, <2>2 DEF Turned, FirstDone
<1>11. s.marked = Reachable(next, start)
  <2>1. start \in s.marked /\ s.marked \subseteq Reachable(next, start)
    BY <1>6 DEF Turned, InQueue
  <2>2. QED
    BY <1>10, <2>1, ReachableIs
<1>12. ShowsReachable(next, start, q)
  <2>1. IsInjective(q)
    BY <1>8 DEF IsInjective, Distinct
  <2>2. \A t : t \in ToSet(q) <=> OnList(q, t)
    BY <1>8 DEF ToSet, OnList
  <2>3. \A t : t \in s.marked <=> OnList(q, t)
    BY <1>6 DEF Turned, InQueue
  <2>4. ToSet(q) = s.marked
    BY <2>2, <2>3
  <2>5. QED
    BY <1>11, <2>1, <2>4 DEF ShowsReachable
<1>13. BreadthFirst(next, start, q)
  BY <1>6, <1>8 DEF Turned, Nearer, BreadthFirst
<1>14. Nearer(next, start, q)
  BY <1>6 DEF Turned
<1>15. QED
  BY <1>7, <1>8, <1>12, <1>13, <1>14
-----------------------------------------------------------------------------
(***************************************************************************)
(* dfs, whose recursion is by what has not been shown.                     *)
(***************************************************************************)
Orders(n) == Seq(0 .. n - 1)

Unshown(n, v, o) == {x \in 0 .. n - 1 : x # v /\ ~OnList(o, x)}

\* A visit of t shows t first.
ShowsOn(n, t, o, r) == r \in Orders(n) /\ Begins(Append(o, t), r)

Extends(n, visit) ==
  \A t \in 0 .. n - 1 : \A o \in Orders(n) : ShowsOn(n, t, o, visit[<<t, o>>])

\* Visits that agree where less is left.
AgreeBelow(n, g, h, m) ==
  \A t \in 0 .. n - 1 : \A o \in Orders(n) :
    Cardinality(Unshown(n, t, o)) < m => g[<<t, o>>] = h[<<t, o>>]

\* On a list is in its range.
LEMMA OnListIs ==
  ASSUME NEW n, NEW o \in Orders(n)
  PROVE  /\ Len(o) \in Nat /\ DOMAIN o = 1 .. Len(o)
         /\ \A t : t \in ToSet(o) <=> OnList(o, t)
<1>1. Len(o) \in Nat /\ DOMAIN o = 1 .. Len(o)
  BY LenProperties DEF Orders
<1>2. QED
  BY <1>1 DEF ToSet, OnList

\* A list begins with what its beginning begins with.
LEMMA BeginsTransitive ==
  ASSUME NEW n, NEW p \in Orders(n), NEW q \in Orders(n), NEW r \in Orders(n),
         Begins(p, q), Begins(q, r)
  PROVE  Begins(p, r)
<1>1. Len(p) \in Nat /\ Len(q) \in Nat /\ Len(r) \in Nat
  BY OnListIs
<1>2. QED
  BY <1>1 DEF Begins

\* What a beginning holds, the list holds.
LEMMA BeginsHolds ==
  ASSUME NEW n, NEW q \in Orders(n), NEW r \in Orders(n), Begins(q, r), NEW t, OnList(q, t)
  PROVE  OnList(r, t)
<1>1. Len(q) \in Nat /\ Len(r) \in Nat
  BY OnListIs
<1>2. QED
  BY <1>1 DEF Begins, OnList

\* What has not been shown is finite.
LEMMA UnshownIs ==
  ASSUME NEW n \in Nat, NEW v, NEW o
  PROVE  IsFiniteSet(Unshown(n, v, o)) /\ Cardinality(Unshown(n, v, o)) \in Nat
<1>1. IsFiniteSet(0 .. n - 1) /\ Unshown(n, v, o) \in SUBSET (0 .. n - 1)
  BY FS_Interval DEF Unshown
<1>2. QED
  BY <1>1, FS_Subset, FS_CardinalityType

\* Showing a vertex leaves fewer unshown.
LEMMA FewerUnshown ==
  ASSUME NEW n \in Nat, NEW v \in 0 .. n - 1, NEW o \in Orders(n),
         NEW t \in 0 .. n - 1, NEW p, ShowsOn(n, v, o, p), ~OnList(p, t)
  PROVE  Cardinality(Unshown(n, t, p)) < Cardinality(Unshown(n, v, o))
<1> DEFINE A == Unshown(n, t, p)
           B == Unshown(n, v, o)
<1>0. Append(o, v) \in Orders(n) /\ \A s : OnList(Append(o, v), s) <=> OnList(o, s) \/ s = v
  BY AppendOnList DEF Orders
<1>1. \A s : OnList(o, s) \/ s = v => OnList(p, s)
  BY <1>0, BeginsHolds DEF ShowsOn
<1>2. A \in SUBSET B /\ t \in B /\ t \notin A
  BY <1>1 DEF Unshown
<1>3. IsFiniteSet(B) /\ Cardinality(A) \in Nat /\ Cardinality(B) \in Nat
  BY UnshownIs
<1> HIDE DEF A, B
<1>4. Cardinality(A) <= Cardinality(B) /\ (Cardinality(A) = Cardinality(B) => A = B)
  BY <1>2, <1>3, FS_Subset
<1>5. Cardinality(A) < Cardinality(B)
  BY <1>2, <1>3, <1>4
<1>6. QED
  BY <1>5 DEF A, B

\* Following an edge extends the order.
LEMMA ShowExtends ==
  ASSUME NEW n \in Nat, NEW visit, Extends(n, visit), NEW o \in Orders(n), NEW t \in 0 .. n - 1
  PROVE  /\ Show(visit, o, t) \in Orders(n) /\ Begins(o, Show(visit, o, t))
         /\ OnList(o, t) => Show(visit, o, t) = o
         /\ ~OnList(o, t) => Show(visit, o, t) = visit[<<t, o>>]
<1>1. t \in ToSet(o) <=> OnList(o, t)
  BY OnListIs
<1>2. CASE OnList(o, t)
  <2>1. Show(visit, o, t) = o /\ Len(o) \in Nat
    BY <1>1, <1>2, OnListIs DEF Show
  <2>2. QED
    BY <1>2, <2>1 DEF Begins
<1>3. CASE ~OnList(o, t)
  <2> DEFINE r == visit[<<t, o>>]
             a == Append(o, t)
  <2>1. Show(visit, o, t) = r
    BY <1>1, <1>3 DEF Show
  <2>2. r \in Orders(n) /\ Begins(a, r)
    BY DEF Extends, ShowsOn
  <2>3. a \in Orders(n) /\ Begins(o, a)
    BY AppendOnList DEF Orders
  <2> HIDE DEF a, r
  <2>4. Begins(o, r)
    BY <2>2, <2>3, BeginsTransitive
  <2>5. QED
    BY <1>3, <2>1, <2>2, <2>4 DEF r
<1>4. QED
  BY <1>2, <1>3

\* It depends on the visits only where less is unshown.
LEMMA ShowSame ==
  ASSUME NEW n \in Nat, NEW g, NEW h, NEW v \in 0 .. n - 1, NEW o \in Orders(n),
         AgreeBelow(n, g, h, Cardinality(Unshown(n, v, o))),
         NEW p, ShowsOn(n, v, o, p), NEW t \in 0 .. n - 1
  PROVE  Show(g, p, t) = Show(h, p, t)
<1>1. p \in Orders(n)
  BY DEF ShowsOn
<1>2. t \in ToSet(p) <=> OnList(p, t)
  BY <1>1, OnListIs
<1>3. CASE OnList(p, t)
  BY <1>2, <1>3 DEF Show
<1>4. CASE ~OnList(p, t)
  <2>1. Cardinality(Unshown(n, t, p)) < Cardinality(Unshown(n, v, o))
    BY <1>4, FewerUnshown
  <2>2. g[<<t, p>>] = h[<<t, p>>]
    BY <1>1, <2>1 DEF AgreeBelow
  <2>3. QED
    BY <2>2 DEF Show
<1>5. QED
  BY <1>3, <1>4

Showing(next, visit, v, order, f) ==
  /\ f[0] = Append(order, v)
  /\ \A d \in 0 .. Len(next[v]) - 1 :
       f[d + 1] = Show(visit, f[d], next[v][d + 1])

\* The loop over a vertex's edges by the step.
LEMMA DfsVisitIs ==
  ASSUME NEW next, NEW visit, NEW v, NEW order, Len(next[v]) \in Nat
  PROVE  \E f : /\ dfs_visit(next, visit, v, order) = f[Len(next[v])]
              /\ Showing(next, visit, v, order, f)
<1> DEFINE begin == Append(order, v)
           turns == Len(next[v])
           St(d, x) == Show(visit, x, next[v][d])
           rhs(top, f) == [d \in 0 .. top |-> IF d = 0 THEN begin ELSE St(d, f[d - 1])]
           S == {k \in Nat : \E f : f = rhs(k, f)}
           loop == CHOOSE f : f = rhs(turns, f)
<1>1. dfs_visit(next, visit, v, order) = loop[turns]
  BY Zenon DEF dfs_visit
<1>2. turns \in Nat
  OBVIOUS
<1> HIDE DEF begin, turns, St
<1>3. 0 \in S
  <2>1. [d \in 0 .. 0 |-> begin] = rhs(0, [d \in 0 .. 0 |-> begin])
    OBVIOUS
  <2>2. QED
    BY <2>1
<1>4. ASSUME NEW k \in Nat, k \in S PROVE k + 1 \in S
  <2>1. PICK f : f = rhs(k, f)
    BY <1>4
  <2> DEFINE h == [d \in 0 .. k + 1 |-> IF d = k + 1 THEN St(d, f[k]) ELSE f[d]]
  <2>2. \A d \in 0 .. k : f[d] = IF d = 0 THEN begin ELSE St(d, f[d - 1])
    BY <2>1
  <2>3. ASSUME NEW d \in 0 .. k + 1
        PROVE  h[d] = IF d = 0 THEN begin ELSE St(d, h[d - 1])
    <3>1. CASE d = k + 1
      BY <3>1
    <3>2. CASE d # k + 1
      <4>1. d \in 0 .. k /\ (d # 0 => d - 1 \in 0 .. k /\ d - 1 # k + 1)
        BY <3>2
      <4>2. h[d] = f[d] /\ (d # 0 => h[d - 1] = f[d - 1])
        BY <3>2, <4>1
      <4>3. f[d] = IF d = 0 THEN begin ELSE St(d, f[d - 1])
        BY <2>2, <4>1
      <4> HIDE DEF h
      <4>4. QED
        BY <4>2, <4>3
    <3>3. QED
      BY <3>1, <3>2
  <2>4. h = rhs(k + 1, h)
    BY <2>3
  <2> HIDE DEF h, rhs
  <2>5. QED
    BY <2>4
<1> HIDE DEF S
<1>5. turns \in S
  BY <1>2, <1>3, <1>4, Induction
<1>6. loop = rhs(turns, loop)
  <2> HIDE DEF rhs
  <2>1. QED
    BY <1>5 DEF S
<1> HIDE DEF loop
<1>7. loop[0] = begin
  BY <1>2, <1>6
<1>8. ASSUME NEW d \in 0 .. turns - 1 PROVE loop[d + 1] = St(d + 1, loop[d])
  <2>1. d + 1 \in 0 .. turns /\ d + 1 # 0 /\ (d + 1) - 1 = d
    BY <1>2
  <2>2. loop[d + 1] = St(d + 1, loop[(d + 1) - 1])
    BY <1>6, <2>1
  <2>3. QED
    BY <2>1, <2>2
<1>9. QED
  BY <1>1, <1>7, <1>8 DEF begin, turns, St, Showing

\* Each turn of it extends the order.
LEMMA ShownExtends ==
  ASSUME NEW n \in Nat, NEW next \in Net(n), NEW visit, Extends(n, visit),
         NEW v \in 0 .. n - 1, NEW o \in Orders(n), NEW f, Showing(next, visit, v, o, f)
  PROVE  \A d \in 0 .. Len(next[v]) : ShowsOn(n, v, o, f[d])
<1> DEFINE S == {d \in Nat : d <= Len(next[v]) => ShowsOn(n, v, o, f[d])}
<1>0. Len(next[v]) \in Nat
  BY NetIs
<1>1. 0 \in S
  <2>1. f[0] = Append(o, v)
    BY DEF Showing
  <2>2. Append(o, v) \in Orders(n)
    BY AppendOnList DEF Orders
  <2>3. Begins(Append(o, v), Append(o, v))
    BY <2>2, OnListIs DEF Begins
  <2>4. QED
    BY <2>1, <2>2, <2>3 DEF ShowsOn
<1>2. ASSUME NEW d \in Nat, d \in S PROVE d + 1 \in S
  <2> SUFFICES ASSUME d + 1 <= Len(next[v]) PROVE ShowsOn(n, v, o, f[d + 1])
    OBVIOUS
  <2> DEFINE p == f[d]
             t == next[v][d + 1]
             a == Append(o, v)
  <2>1. d \in 0 .. Len(next[v]) - 1 /\ d + 1 \in 1 .. Len(next[v])
    BY <1>0
  <2>2. f[d + 1] = Show(visit, p, t)
    BY <2>1 DEF Showing
  <2>3. t \in 0 .. n - 1
    BY <2>1, NetIs
  <2>4. p \in Orders(n) /\ Begins(a, p)
    BY <1>0, <1>2, <2>1 DEF ShowsOn
  <2>5. a \in Orders(n)
    BY AppendOnList DEF Orders
  <2> HIDE DEF p, t, a
  <2>6. Show(visit, p, t) \in Orders(n) /\ Begins(p, Show(visit, p, t))
    BY <2>3, <2>4, ShowExtends
  <2>7. Begins(a, Show(visit, p, t))
    BY <2>4, <2>5, <2>6, BeginsTransitive
  <2>8. QED
    BY <2>2, <2>6, <2>7 DEF ShowsOn, a
<1> HIDE DEF S
<1>3. Nat \subseteq S
  BY <1>1, <1>2, Induction
<1>4. QED
  BY <1>0, <1>3 DEF S

\* And so does the visit.
LEMMA VisitExtends ==
  ASSUME NEW n \in Nat, NEW next \in Net(n), NEW visit, Extends(n, visit),
         NEW v \in 0 .. n - 1, NEW o \in Orders(n)
  PROVE  ShowsOn(n, v, o, dfs_visit(next, visit, v, o))
<1>1. Len(next[v]) \in Nat /\ Len(next[v]) \in 0 .. Len(next[v])
  BY NetIs
<1>2. PICK f : dfs_visit(next, visit, v, o) = f[Len(next[v])] /\ Showing(next, visit, v, o, f)
  BY <1>1, DfsVisitIs
<1>3. QED
  BY <1>1, <1>2, ShownExtends

\* A visit depends on the others only where less is unshown.
LEMMA VisitSame ==
  ASSUME NEW n \in Nat, NEW next \in Net(n), NEW v \in 0 .. n - 1, NEW o \in Orders(n),
         NEW g, NEW h, Extends(n, g), AgreeBelow(n, g, h, Cardinality(Unshown(n, v, o)))
  PROVE  dfs_visit(next, g, v, o) = dfs_visit(next, h, v, o)
<1>1. Len(next[v]) \in Nat
  BY NetIs
<1>2. PICK f : dfs_visit(next, g, v, o) = f[Len(next[v])] /\ Showing(next, g, v, o, f)
  BY <1>1, DfsVisitIs
<1>3. PICK e : dfs_visit(next, h, v, o) = e[Len(next[v])] /\ Showing(next, h, v, o, e)
  BY <1>1, DfsVisitIs
<1> DEFINE S == {d \in Nat : d <= Len(next[v]) => f[d] = e[d]}
<1>4. 0 \in S
  BY <1>2, <1>3 DEF Showing
<1>5. ASSUME NEW d \in Nat, d \in S PROVE d + 1 \in S
  <2> SUFFICES ASSUME d + 1 <= Len(next[v]) PROVE f[d + 1] = e[d + 1]
    OBVIOUS
  <2>1. /\ d \in 0 .. Len(next[v]) - 1 /\ d + 1 \in 1 .. Len(next[v])
        /\ d \in 0 .. Len(next[v]) /\ f[d] = e[d]
    BY <1>1, <1>5
  <2>2. /\ f[d + 1] = Show(g, f[d], next[v][d + 1])
        /\ e[d + 1] = Show(h, f[d], next[v][d + 1])
    BY <1>2, <1>3, <2>1 DEF Showing
  <2>3. next[v][d + 1] \in 0 .. n - 1
    BY <2>1, NetIs
  <2>4. ShowsOn(n, v, o, f[d])
    BY <1>2, <2>1, ShownExtends
  <2>5. QED
    BY <2>2, <2>3, <2>4, ShowSame
<1> HIDE DEF S
<1>6. Nat \subseteq S
  BY <1>4, <1>5, Induction
<1>7. QED
  BY <1>1, <1>2, <1>3, <1>6 DEF S

\* The visits of dfs satisfy their own recursion.
Visits(n, next, visit) ==
  /\ Extends(n, visit)
  /\ \A v \in 0 .. n - 1 : \A o \in Orders(n) : visit[<<v, o>>] = dfs_visit(next, visit, v, o)

\* The recursive function that dfs chooses exists.
LEMMA DfsIs ==
  ASSUME NEW n \in Nat, NEW next \in Net(n)
  PROVE  \E visit : /\ Visits(n, next, visit)
                    /\ \A start : dfs(next, start) = visit[<<start, <<>>>>]
<1> DEFINE D == (0 .. n - 1) \X Orders(n)
           V == Orders(n)
           W == [c \in D |-> {r \in V : ShowsOn(n, c[1], c[2], r)}]
           F == Into(D, V, W)
           step == [y \in D \X F |-> dfs_visit(next, y[2], y[1][1], y[1][2])]
           rank == [c \in D |-> Cardinality(Unshown(n, c[1], c[2]))]
           base == [c \in D |-> Append(c[2], c[1])]
           rhs(f) == [c \in D |-> dfs_visit(next, f, c[1], c[2])]
<1>1. \A f \in F : Extends(n, f)
  BY DEF Into, Extends
<1>2. base \in F
  <2>1. ASSUME NEW c \in D
        PROVE  Append(c[2], c[1]) \in V /\ ShowsOn(n, c[1], c[2], Append(c[2], c[1]))
    <3> DEFINE a == Append(c[2], c[1])
    <3>1. a \in Orders(n)
      BY AppendOnList DEF Orders
    <3> HIDE DEF a
    <3>2. Begins(a, a)
      BY <3>1, OnListIs DEF Begins
    <3>3. QED
      BY <3>1, <3>2 DEF ShowsOn, a
  <2>2. QED
    BY <2>1 DEF Into
<1>3. rank \in [D -> Nat]
  BY UnshownIs
<1>4. ASSUME NEW c \in D, NEW f \in F PROVE step[<<c, f>>] \in V /\ step[<<c, f>>] \in W[c]
  <2>1. step[<<c, f>>] = dfs_visit(next, f, c[1], c[2])
    OBVIOUS
  <2>2. c[1] \in 0 .. n - 1 /\ c[2] \in Orders(n) /\ Extends(n, f)
    BY <1>1
  <2>3. ShowsOn(n, c[1], c[2], dfs_visit(next, f, c[1], c[2]))
    BY <2>2, VisitExtends
  <2> HIDE DEF step
  <2>4. QED
    BY <2>1, <2>3 DEF ShowsOn
<1>5. LooksBelow(D, F, rank, step)
  <2> SUFFICES ASSUME NEW c \in D, NEW g \in F, NEW h \in F,
                      \A y \in D : rank[y] < rank[c] => g[y] = h[y]
               PROVE  step[<<c, g>>] = step[<<c, h>>]
    BY DEF LooksBelow
  <2>1. /\ step[<<c, g>>] = dfs_visit(next, g, c[1], c[2])
        /\ step[<<c, h>>] = dfs_visit(next, h, c[1], c[2])
    OBVIOUS
  <2>2. c[1] \in 0 .. n - 1 /\ c[2] \in Orders(n) /\ Extends(n, g)
    BY <1>1
  <2>3. AgreeBelow(n, g, h, Cardinality(Unshown(n, c[1], c[2])))
    <3> SUFFICES ASSUME NEW t \in 0 .. n - 1, NEW o \in Orders(n),
                        Cardinality(Unshown(n, t, o)) < Cardinality(Unshown(n, c[1], c[2]))
                 PROVE  g[<<t, o>>] = h[<<t, o>>]
      BY DEF AgreeBelow
    <3>1. <<t, o>> \in D /\ rank[<<t, o>>] < rank[c]
      OBVIOUS
    <3>2. QED
      BY <3>1
  <2>4. dfs_visit(next, g, c[1], c[2]) = dfs_visit(next, h, c[1], c[2])
    BY <2>2, <2>3, VisitSame
  <2> HIDE DEF step
  <2>5. QED
    BY <2>1, <2>4
<1>6. Solvable(D, F, step)
  <2> HIDE DEF D, V, W, F, step, rank, base
  <2>1. F = Into(D, V, W)
    BY DEF F
  <2>2. QED
    BY <1>2, <1>3, <1>4, <1>5, <2>1, RankRecursion
<1>7. PICK f \in F : \A c \in D : f[c] = step[<<c, f>>]
  BY <1>6 DEF Solvable
<1>8. f = rhs(f)
  <2>1. \A c \in D : f[c] = dfs_visit(next, f, c[1], c[2])
    <3> SUFFICES ASSUME NEW c \in D PROVE f[c] = dfs_visit(next, f, c[1], c[2])
      OBVIOUS
    <3> HIDE DEF D, F
    <3>1. <<c, f>> \in D \X F
      OBVIOUS
    <3>2. step[<<c, f>>] = dfs_visit(next, f, c[1], c[2])
      BY <3>1
    <3>3. QED
      BY <1>7, <3>2
  <2>2. f = [c \in D |-> f[c]]
    BY DEF Into
  <2>3. QED
    BY <2>1, <2>2
<1> DEFINE found == CHOOSE h : h = rhs(h)
<1>9. found = rhs(found)
  <2> HIDE DEF rhs
  <2>1. QED
    BY <1>8
<1>10. \A start : dfs(next, start) = found[<<start, <<>>>>]
  <2>1. D = (DOMAIN next) \X Seq(DOMAIN next)
    BY NetIs DEF Orders
  <2> HIDE DEF D
  <2>2. QED
    BY <2>1, Zenon DEF dfs
<1>11. Extends(n, f)
  BY <1>1
<1>12. ASSUME NEW v \in 0 .. n - 1, NEW o \in Orders(n)
       PROVE  /\ f[<<v, o>>] = dfs_visit(next, f, v, o)
              /\ found[<<v, o>>] = dfs_visit(next, found, v, o)
  <2>1. <<v, o>> \in D
    OBVIOUS
  <2>2. f[<<v, o>>] = dfs_visit(next, f, v, o)
    BY <1>8, <2>1
  <2>3. found[<<v, o>>] = dfs_visit(next, found, v, o)
    <3> HIDE DEF found
    <3>1. QED
      BY <1>9, <2>1
  <2>4. QED
    BY <2>2, <2>3
<1> HIDE DEF found, F
<1> DEFINE S == {k \in Nat : AgreeBelow(n, f, found, k)}
<1>13. 0 \in S
  BY UnshownIs DEF AgreeBelow
<1>14. ASSUME NEW k \in Nat, k \in S PROVE k + 1 \in S
  <2> SUFFICES ASSUME NEW v \in 0 .. n - 1, NEW o \in Orders(n),
                      Cardinality(Unshown(n, v, o)) < k + 1
               PROVE  f[<<v, o>>] = found[<<v, o>>]
    BY DEF AgreeBelow
  <2>1. AgreeBelow(n, f, found, k) /\ Cardinality(Unshown(n, v, o)) \in Nat
    BY <1>14, UnshownIs
  <2>2. AgreeBelow(n, f, found, Cardinality(Unshown(n, v, o)))
    <3>1. Cardinality(Unshown(n, v, o)) <= k
      BY <2>1
    <3>2. QED
      BY <2>1, <3>1, UnshownIs DEF AgreeBelow
  <2>3. dfs_visit(next, f, v, o) = dfs_visit(next, found, v, o)
    BY <1>11, <2>2, VisitSame
  <2>4. QED
    BY <1>12, <2>3
<1>15. ASSUME NEW v \in 0 .. n - 1, NEW o \in Orders(n)
       PROVE  found[<<v, o>>] = f[<<v, o>>]
  <2>1. Cardinality(Unshown(n, v, o)) + 1 \in Nat
    BY UnshownIs
  <2> HIDE DEF S
  <2>2. Nat \subseteq S
    BY <1>13, <1>14, Induction
  <2>3. AgreeBelow(n, f, found, Cardinality(Unshown(n, v, o)) + 1)
    BY <2>1, <2>2 DEF S
  <2>4. Cardinality(Unshown(n, v, o)) < Cardinality(Unshown(n, v, o)) + 1
    BY UnshownIs
  <2>5. QED
    BY <2>3, <2>4 DEF AgreeBelow
<1>16. Visits(n, next, found)
  BY <1>11, <1>12, <1>15 DEF Visits, Extends
<1>17. QED
  BY <1>10, <1>16

(***************************************************************************)
(* What a visit of v adds to the order p: v first, then others, each with  *)
(* an edge from an earlier one of them, and so on until what they lead to  *)
(* has all been shown.                                                     *)
(***************************************************************************)
To(next, u, t) == \E i \in 1 .. Len(next[u]) : next[u][i] = t

Finished(next, o, a) == \A i \in 1 .. Len(next[o[a]]) : OnList(o, next[o[a]][i])

LinkedFrom(next, o, lo) ==
  \A b \in lo + 1 .. Len(o) : \E d \in lo .. b - 1 : To(next, o[d], o[b])

DeepFrom(next, o, lo) ==
  \A a, b, c \in lo .. Len(o) :
    a < b /\ b < c /\ To(next, o[a], o[c]) => \E d \in a .. b - 1 : To(next, o[d], o[b])

Added(n, next, v, p, o) ==
  /\ p \in Orders(n) /\ o \in Orders(n) /\ Distinct(o)
  /\ Begins(p, o) /\ Len(p) + 1 <= Len(o) /\ o[Len(p) + 1] = v
  /\ LinkedFrom(next, o, Len(p) + 1) /\ DeepFrom(next, o, Len(p) + 1)

\* With the first i edges of v followed, and with all.
FollowedTo(n, next, v, p, i, o) ==
  /\ Added(n, next, v, p, o)
  /\ \A a \in Len(p) + 2 .. Len(o) : Finished(next, o, a)
  /\ \A j \in 1 .. i : OnList(o, next[v][j])

Subtree(n, next, v, p, o) ==
  /\ Added(n, next, v, p, o)
  /\ \A a \in Len(p) + 1 .. Len(o) : Finished(next, o, a)

\* A visit before its first edge.
LEMMA FirstShown ==
  ASSUME NEW n \in Nat, NEW next, NEW v \in 0 .. n - 1, NEW p \in Orders(n),
         Distinct(p), ~OnList(p, v), NEW i, i = 0
  PROVE  FollowedTo(n, next, v, p, i, Append(p, v))
<1> DEFINE o == Append(p, v)
<1>1. /\ o \in Orders(n) /\ Len(p) \in Nat /\ Len(o) = Len(p) + 1 /\ o[Len(p) + 1] = v
      /\ Begins(p, o) /\ Distinct(o)
  BY AppendOnList DEF Orders
<1> HIDE DEF o
<1>2. LinkedFrom(next, o, Len(p) + 1) /\ DeepFrom(next, o, Len(p) + 1)
  <2>1. Len(p) + 1 + 1 .. Len(o) = {} /\ \A a, b \in Len(p) + 1 .. Len(o) : ~(a < b)
    BY <1>1
  <2>2. QED
    BY <2>1 DEF LinkedFrom, DeepFrom
<1>3. Len(p) + 2 .. Len(o) = {} /\ 1 .. i = {}
  BY <1>1
<1>4. QED
  BY <1>1, <1>2, <1>3 DEF FollowedTo, Added, o

\* A visit after one more edge.
LEMMA NextShown ==
  ASSUME NEW n \in Nat, NEW next \in Net(n), NEW v \in 0 .. n - 1, NEW p,
         NEW i \in Nat, NEW w, w = i + 1, w \in 1 .. Len(next[v]), NEW t, t = next[v][w],
         NEW o, FollowedTo(n, next, v, p, i, o), NEW r, Subtree(n, next, t, o, r)
  PROVE  FollowedTo(n, next, v, p, w, r)
<1> DEFINE lo == Len(p) + 1
           m == Len(o)
<1>1. p \in Orders(n) /\ o \in Orders(n) /\ r \in Orders(n) /\ Distinct(r)
      /\ Begins(p, o) /\ Begins(o, r)
  BY DEF FollowedTo, Subtree, Added
<1>2. /\ Len(p) \in Nat /\ m \in Nat /\ Len(r) \in Nat /\ lo \in Nat
      /\ lo <= m /\ m + 1 <= Len(r) /\ r[m + 1] = t /\ o[lo] = v
  BY <1>1, OnListIs DEF FollowedTo, Subtree, Added
<1>3. \A a \in 1 .. m : r[a] = o[a]
  BY <1>1 DEF Begins
<1>4. r[lo] = v /\ Begins(p, r) /\ lo <= Len(r)
  <2>1. lo \in 1 .. m
    BY <1>2
  <2>2. QED
    BY <1>1, <1>2, <1>3, <2>1, BeginsTransitive
<1>5. ASSUME NEW a \in Len(p) + 2 .. Len(r) PROVE Finished(next, r, a)
  <2>1. CASE a <= m
    <3>1. a \in Len(p) + 2 .. Len(o) /\ a \in 1 .. m
      BY <1>2, <2>1
    <3>2. Finished(next, o, a) /\ r[a] = o[a]
      BY <1>3, <3>1 DEF FollowedTo
    <3>3. QED
      BY <1>1, <3>2, BeginsHolds DEF Finished
  <2>2. CASE ~(a <= m)
    <3>1. a \in Len(o) + 1 .. Len(r)
      BY <1>2, <2>2
    <3>2. QED
      BY <3>1 DEF Subtree
  <2>3. QED
    BY <2>1, <2>2
<1>6. ASSUME NEW j \in 1 .. w PROVE OnList(r, next[v][j])
  <2>1. CASE j = w
    <3>1. m + 1 \in 1 .. Len(r)
      BY <1>2
    <3>2. QED
      BY <1>2, <2>1, <3>1 DEF OnList
  <2>2. CASE j # w
    <3>1. j \in 1 .. i
      BY <2>2
    <3>2. OnList(o, next[v][j])
      BY <3>1 DEF FollowedTo
    <3>3. QED
      BY <1>1, <3>2, BeginsHolds
  <2>3. QED
    BY <2>1, <2>2
<1>7. ASSUME NEW b \in lo + 1 .. Len(r) PROVE \E d \in lo .. b - 1 : To(next, r[d], r[b])
  <2>1. CASE b <= m
    <3>1. b \in lo + 1 .. Len(o) /\ b \in 1 .. m
      BY <1>2, <2>1
    <3>2. PICK d \in lo .. b - 1 : To(next, o[d], o[b])
      BY <3>1 DEF FollowedTo, Added, LinkedFrom
    <3>3. d \in 1 .. m
      BY <1>2, <3>1
    <3>4. QED
      BY <1>3, <3>1, <3>2, <3>3
  <2>2. CASE b = m + 1
    <3>1. To(next, r[lo], r[b])
      BY <1>2, <1>4, <2>2 DEF To
    <3>2. lo \in lo .. b - 1
      BY <1>2
    <3>3. QED
      BY <3>1, <3>2
  <2>3. CASE b > m + 1
    <3>1. b \in (Len(o) + 1) + 1 .. Len(r)
      BY <1>2, <2>3
    <3>2. PICK d \in Len(o) + 1 .. b - 1 : To(next, r[d], r[b])
      BY <3>1 DEF Subtree, Added, LinkedFrom
    <3>3. d \in lo .. b - 1
      BY <1>2, <3>1
    <3>4. QED
      BY <3>2, <3>3
  <2>4. QED
    BY <1>2, <2>1, <2>2, <2>3
<1>8. ASSUME NEW a \in lo .. Len(r), NEW b \in lo .. Len(r), NEW c \in lo .. Len(r),
             a < b, b < c, To(next, r[a], r[c])
      PROVE  \E d \in a .. b - 1 : To(next, r[d], r[b])
  <2>0. a \in Nat /\ b \in Nat /\ c \in Nat
    BY <1>2
  <2>1. CASE c <= m
    <3>1. /\ a \in Len(p) + 1 .. Len(o) /\ b \in Len(p) + 1 .. Len(o) /\ c \in Len(p) + 1 .. Len(o)
          /\ a \in 1 .. m /\ b \in 1 .. m /\ c \in 1 .. m
      BY <1>2, <1>8, <2>0, <2>1
    <3>2. PICK d \in a .. b - 1 : To(next, o[d], o[b])
      BY <1>3, <1>8, <3>1 DEF FollowedTo, Added, DeepFrom
    <3>3. d \in 1 .. m
      BY <1>2, <3>1
    <3>4. QED
      BY <1>3, <3>1, <3>2, <3>3
  <2>2. CASE a > m
    <3>1. a \in Len(o) + 1 .. Len(r) /\ b \in Len(o) + 1 .. Len(r) /\ c \in Len(o) + 1 .. Len(r)
      BY <1>2, <1>8, <2>0, <2>2
    <3>2. QED
      BY <1>8, <3>1 DEF Subtree, Added, DeepFrom
  <2>3. CASE a <= m /\ c > m /\ a # lo
    <3>1. a \in Len(p) + 2 .. Len(o) /\ a \in 1 .. m
      BY <1>2, <2>0, <2>3
    <3>2. Finished(next, o, a) /\ r[a] = o[a]
      BY <1>3, <3>1 DEF FollowedTo
    <3>3. OnList(o, r[c])
      BY <1>8, <3>2 DEF Finished, To
    <3>4. PICK x \in 1 .. m : o[x] = r[c]
      BY <3>3 DEF OnList
    <3>5. r[x] = r[c] /\ x \in 1 .. Len(r) /\ c \in 1 .. Len(r) /\ x # c
      BY <1>2, <1>3, <2>0, <2>3, <3>4
    <3>6. QED
      BY <1>1, <3>5 DEF Distinct
  <2>4. CASE a = lo
    <3>1. b \in lo + 1 .. Len(r)
      BY <1>2, <1>8, <2>0, <2>4
    <3>2. QED
      BY <1>7, <2>4, <3>1
  <2>5. QED
    BY <1>2, <2>0, <2>1, <2>2, <2>3, <2>4
<1>9. LinkedFrom(next, r, lo) /\ DeepFrom(next, r, lo)
  BY <1>7, <1>8 DEF LinkedFrom, DeepFrom
<1>10. Added(n, next, v, p, r)
  BY <1>1, <1>4, <1>9 DEF Added
<1>11. QED
  BY <1>5, <1>6, <1>10 DEF FollowedTo

\* A visit after its last edge.
LEMMA LastShown ==
  ASSUME NEW n \in Nat, NEW next \in Net(n), NEW v \in 0 .. n - 1, NEW p, NEW o,
         FollowedTo(n, next, v, p, Len(next[v]), o)
  PROVE  Subtree(n, next, v, p, o)
<1>1. Len(p) \in Nat /\ Len(o) \in Nat /\ o[Len(p) + 1] = v
  BY OnListIs DEF FollowedTo, Added
<1>2. \A a \in Len(p) + 1 .. Len(o) : a = Len(p) + 1 \/ a \in Len(p) + 2 .. Len(o)
  BY <1>1
<1>3. Finished(next, o, Len(p) + 1)
  BY <1>1 DEF FollowedTo, Finished
<1>4. QED
  BY <1>2, <1>3 DEF FollowedTo, Subtree

ShowsBelow(n, next, visit, k) ==
  \A v \in 0 .. n - 1 : \A p \in Orders(n) :
    Distinct(p) /\ ~OnList(p, v) /\ Cardinality(Unshown(n, v, p)) < k
      => Subtree(n, next, v, p, visit[<<v, p>>])

\* A visit, if those it makes do so, shows a subtree.
LEMMA VisitShows ==
  ASSUME NEW n \in Nat, NEW next \in Net(n), NEW visit, Visits(n, next, visit),
         NEW v \in 0 .. n - 1, NEW p \in Orders(n), Distinct(p), ~OnList(p, v),
         ShowsBelow(n, next, visit, Cardinality(Unshown(n, v, p)))
  PROVE  Subtree(n, next, v, p, visit[<<v, p>>])
<1>1. Len(next[v]) \in Nat /\ Extends(n, visit)
  BY NetIs DEF Visits
<1>2. visit[<<v, p>>] = dfs_visit(next, visit, v, p)
  BY DEF Visits
<1>3. PICK f : dfs_visit(next, visit, v, p) = f[Len(next[v])] /\ Showing(next, visit, v, p, f)
  BY <1>1, DfsVisitIs
<1> DEFINE S == {i \in Nat : i <= Len(next[v]) => FollowedTo(n, next, v, p, i, f[i])}
<1>4. 0 \in S
  <2>1. f[0] = Append(p, v)
    BY <1>3 DEF Showing
  <2> DEFINE i == 0
  <2>2. i = 0
    OBVIOUS
  <2> HIDE DEF i
  <2>3. FollowedTo(n, next, v, p, i, Append(p, v))
    BY <2>2, FirstShown
  <2>4. QED
    BY <2>1, <2>2, <2>3
<1>5. ASSUME NEW i \in Nat, i \in S PROVE i + 1 \in S
  <2> SUFFICES ASSUME i + 1 <= Len(next[v]) PROVE FollowedTo(n, next, v, p, i + 1, f[i + 1])
    OBVIOUS
  <2> DEFINE w == i + 1
             t == next[v][w]
             o == f[i]
  <2>1. i \in 0 .. Len(next[v]) - 1 /\ w \in 1 .. Len(next[v]) /\ i \in 0 .. Len(next[v])
    BY <1>1
  <2>2. f[w] = Show(visit, o, t)
    BY <1>3, <2>1 DEF Showing
  <2>3. t \in 0 .. n - 1 /\ t = next[v][w] /\ w = i + 1
    BY <2>1, NetIs
  <2>4. FollowedTo(n, next, v, p, i, o)
    BY <1>1, <1>5, <2>1
  <2>5. ShowsOn(n, v, p, o)
    BY <1>1, <1>3, <2>1, ShownExtends
  <2> HIDE DEF w, t, o
  <2>6. o \in Orders(n) /\ Distinct(o)
    BY <2>4 DEF FollowedTo, Added
  <2>7. CASE OnList(o, t)
    <3>1. f[w] = o
      <4>1. t \in ToSet(o)
        BY <2>6, <2>7, OnListIs
      <4>2. QED
        BY <2>2, <4>1 DEF Show
    <3>2. \A j \in 1 .. w : j \in 1 .. i \/ j = w
      BY <2>3
    <3>3. FollowedTo(n, next, v, p, w, o)
      BY <2>3, <2>4, <2>7, <3>2 DEF FollowedTo
    <3>4. QED
      BY <2>3, <3>1, <3>3
  <2>8. CASE ~OnList(o, t)
    <3> DEFINE r == visit[<<t, o>>]
    <3>1. f[w] = r
      BY <1>1, <2>2, <2>3, <2>6, <2>8, ShowExtends
    <3>2. Cardinality(Unshown(n, t, o)) < Cardinality(Unshown(n, v, p))
      BY <2>3, <2>5, <2>8, FewerUnshown
    <3>3. Subtree(n, next, t, o, r)
      BY <2>3, <2>6, <2>8, <3>2 DEF ShowsBelow
    <3> HIDE DEF r
    <3>4. FollowedTo(n, next, v, p, w, r)
      BY <2>1, <2>3, <2>4, <3>3, NextShown
    <3>5. QED
      BY <2>3, <3>1, <3>4
  <2>9. QED
    BY <2>7, <2>8
<1> HIDE DEF S
<1>6. Nat \subseteq S
  BY <1>4, <1>5, Induction
<1>7. FollowedTo(n, next, v, p, Len(next[v]), f[Len(next[v])])
  BY <1>1, <1>6 DEF S
<1>8. QED
  BY <1>2, <1>3, <1>7, LastShown

\* dfs shows what can be reached, deep first.
LEMMA DfsIsRight ==
  ASSUME NEW n \in Nat, NEW next \in Net(n), NEW start \in 0 .. n - 1
  PROVE  ShowsReachable(next, start, dfs(next, start)) /\ DepthFirst(next, dfs(next, start))
<1>1. PICK visit : Visits(n, next, visit) /\ \A s : dfs(next, s) = visit[<<s, <<>>>>]
  BY DfsIs
<1> DEFINE S == {k \in Nat : ShowsBelow(n, next, visit, k)}
           none == <<>>
           o == dfs(next, start)
<1>2. 0 \in S
  BY UnshownIs DEF ShowsBelow
<1>3. ASSUME NEW k \in Nat, k \in S PROVE k + 1 \in S
  <2> SUFFICES ASSUME NEW v \in 0 .. n - 1, NEW p \in Orders(n), Distinct(p), ~OnList(p, v),
                      Cardinality(Unshown(n, v, p)) < k + 1
               PROVE  Subtree(n, next, v, p, visit[<<v, p>>])
    BY DEF ShowsBelow
  <2>1. Cardinality(Unshown(n, v, p)) \in Nat
    BY UnshownIs
  <2>2. ShowsBelow(n, next, visit, Cardinality(Unshown(n, v, p)))
    <3>1. ShowsBelow(n, next, visit, k) /\ Cardinality(Unshown(n, v, p)) <= k
      BY <1>3, <2>1
    <3>2. QED
      BY <2>1, <3>1, UnshownIs DEF ShowsBelow
  <2>3. QED
    BY <1>1, <2>2, VisitShows
<1>4. none \in Orders(n) /\ Len(none) = 0 /\ Distinct(none) /\ ~OnList(none, start)
  BY DEF Orders, Distinct, OnList
<1>5. o = visit[<<start, none>>]
  BY <1>1
<1> HIDE DEF none, o, S
<1>6. Subtree(n, next, start, none, o)
  <2>1. Nat \subseteq S
    BY <1>2, <1>3, Induction
  <2>2. Cardinality(Unshown(n, start, none)) + 1 \in Nat
        /\ Cardinality(Unshown(n, start, none)) < Cardinality(Unshown(n, start, none)) + 1
    BY UnshownIs
  <2>3. ShowsBelow(n, next, visit, Cardinality(Unshown(n, start, none)) + 1)
    BY <2>1, <2>2 DEF S
  <2>4. QED
    BY <1>4, <1>5, <2>2, <2>3 DEF ShowsBelow
<1> DEFINE lo == Len(none) + 1
<1>7. /\ o \in Orders(n) /\ Distinct(o) /\ lo <= Len(o) /\ o[lo] = start
      /\ LinkedFrom(next, o, lo) /\ DeepFrom(next, o, lo)
      /\ \A a \in lo .. Len(o) : Finished(next, o, a)
  BY <1>6 DEF Subtree, Added
<1>8. lo = 1
  BY <1>4
<1> HIDE DEF lo
<1>9. /\ Len(o) \in Nat /\ DOMAIN o = 1 .. Len(o)
      /\ \A t : t \in ToSet(o) <=> OnList(o, t)
  BY <1>7, OnListIs
<1>10. \A a \in 1 .. Len(o) : o[a] \in 0 .. n - 1
  BY <1>7, ElementOfSeq DEF Orders
<1>11. \A a \in 1 .. Len(o) : o[a] \in Reachable(next, start)
  <2> DEFINE T == {a \in 1 .. Len(o) : o[a] \notin Reachable(next, start)}
  <2>1. ASSUME T # {} PROVE FALSE
    <3>1. PICK b \in T : \A m \in T : b <= m
      <4>1. T \subseteq Nat
        OBVIOUS
      <4> HIDE DEF T
      <4>2. QED
        BY <2>1, <4>1, LeastOf
    <3>2. b \in 1 .. Len(o) /\ b # 1
      BY <1>7, <1>8, ReachableIs
    <3>3. PICK d \in 1 .. b - 1 : To(next, o[d], o[b])
      BY <1>7, <1>8, <1>9, <3>2 DEF LinkedFrom
    <3>4. d \in 1 .. Len(o) /\ ~(b <= d)
      BY <3>2
    <3>5. o[d] \in Reachable(next, start)
      BY <3>1, <3>4
    <3>6. QED
      BY <3>1, <3>3, <3>5, ReachableIs DEF Closed, To
  <2>2. QED
    BY <2>1
<1>12. ToSet(o) = Reachable(next, start)
  <2>1. Closed(next, ToSet(o))
    <3> SUFFICES ASSUME NEW u \in ToSet(o), NEW i \in 1 .. Len(next[u])
                 PROVE  next[u][i] \in ToSet(o)
      BY DEF Closed
    <3>1. PICK a \in 1 .. Len(o) : o[a] = u
      BY <1>9 DEF OnList
    <3>2. QED
      BY <1>7, <1>8, <1>9, <3>1 DEF Finished
  <2>2. start \in ToSet(o)
    BY <1>7, <1>8, <1>9 DEF OnList
  <2>3. ToSet(o) \subseteq Reachable(next, start)
    BY <1>9, <1>11 DEF OnList
  <2>4. QED
    BY <2>1, <2>2, <2>3, ReachableIs
<1>13. IsInjective(o)
  BY <1>7, <1>9 DEF IsInjective, Distinct
<1>14. DepthFirst(next, o)
  <2>1. \A a \in 1 .. Len(o) : \A t : t \in ToSet(next[o[a]]) <=> To(next, o[a], t)
    <3> SUFFICES ASSUME NEW a \in 1 .. Len(o), NEW t
                 PROVE  t \in ToSet(next[o[a]]) <=> To(next, o[a], t)
      OBVIOUS
    <3> DEFINE u == o[a]
    <3>1. u \in 0 .. n - 1
      BY <1>10
    <3> HIDE DEF u
    <3>2. DOMAIN next[u] = 1 .. Len(next[u])
      BY <3>1, NetIs
    <3>3. t \in ToSet(next[u]) <=> To(next, u, t)
      BY <3>2 DEF ToSet, To
    <3>4. QED
      BY <3>3 DEF u
  <2>2. SUFFICES ASSUME NEW a \in 1 .. Len(o), NEW b \in 1 .. Len(o), NEW c \in 1 .. Len(o),
                        a < b, b < c, To(next, o[a], o[c])
                 PROVE  \E d \in a .. b - 1 : o[b] \in ToSet(next[o[d]])
    BY <1>9, <2>1 DEF DepthFirst
  <2>3. PICK d \in a .. b - 1 : To(next, o[d], o[b])
    BY <1>7, <1>8, <2>2 DEF DeepFrom
  <2>4. d \in 1 .. Len(o)
    BY <1>9
  <2>5. QED
    BY <2>1, <2>3, <2>4
<1>15. QED
  BY <1>12, <1>13, <1>14 DEF ShowsReachable, o
-----------------------------------------------------------------------------
(***************************************************************************)
(* connected_components.  Edges lead both ways.                            *)
(***************************************************************************)
BothWaysIn(n, next) == \A u, v \in 0 .. n - 1 : To(next, u, v) => To(next, v, u)

\* What is not in a closed set is closed too.
LEMMA OutsideClosed ==
  ASSUME NEW n \in Nat, NEW next \in Net(n), BothWaysIn(n, next), NEW C, Closed(next, C)
  PROVE  Closed(next, (0 .. n - 1) \ C)
<1> SUFFICES ASSUME NEW u \in (0 .. n - 1) \ C, NEW i \in 1 .. Len(next[u])
             PROVE  next[u][i] \in (0 .. n - 1) \ C
  BY DEF Closed
<1> DEFINE t == next[u][i]
<1>1. t \in 0 .. n - 1
  BY NetIs
<1>2. To(next, u, t)
  BY DEF To
<1> HIDE DEF t
<1>3. To(next, t, u)
  BY <1>1, <1>2 DEF BothWaysIn
<1>4. t \notin C
  BY <1>3 DEF Closed, To
<1>5. QED
  BY <1>1, <1>4 DEF t

\* Where edges lead both ways, what is reached reaches back.
LEMMA ReachesBack ==
  ASSUME NEW n \in Nat, NEW next \in Net(n), BothWaysIn(n, next),
         NEW u \in 0 .. n - 1, NEW v \in Reachable(next, u)
  PROVE  u \in Reachable(next, v)
<1> DEFINE R == Reachable(next, v)
           rest == (0 .. n - 1) \ R
<1>1. v \in 0 .. n - 1
  BY ReachableIs
<1>2. v \in R /\ Closed(next, R)
  BY <1>1, ReachableIs
<1> HIDE DEF R
<1>3. Closed(next, rest)
  BY <1>2, OutsideClosed
<1>4. u \in rest => Reachable(next, u) \subseteq rest
  BY <1>3, ReachableIs
<1>5. QED
  BY <1>2, <1>4 DEF R

\* What pushing does to the list as a set.
LEMMA PushesList ==
  ASSUME NEW n, NEW targets, NEW i, NEW s, NEW r, Pushes(n, targets, i, s, r),
         s.list \in Orders(n), Distinct(s.list), \A t : OnList(s.list, t) => t \in s.marked
  PROVE  /\ r.list \in Orders(n) /\ Distinct(r.list)
         /\ \A t : OnList(r.list, t) <=> OnList(s.list, t) \/ (t \in r.marked /\ t \notin s.marked)
<1> DEFINE q == s.list
           o == r.list
<1>1. o \in Orders(n) /\ Begins(q, o)
  BY DEF Pushes, Orders
<1> HIDE DEF q, o
<1>2. /\ Len(q) \in Nat /\ Len(o) \in Nat /\ Len(q) <= Len(o)
      /\ \A a \in 1 .. Len(q) : a \in 1 .. Len(o) /\ o[a] = q[a]
  <2>1. Len(q) \in Nat /\ Len(o) \in Nat
    BY <1>1, OnListIs DEF q
  <2>2. QED
    BY <1>1, <2>1 DEF Begins
<1>3. \A b : b \in 1 .. Len(o) <=> b \in 1 .. Len(q) \/ b \in New(q, o)
  BY <1>2 DEF New
<1>4. \A b \in New(q, o) : o[b] \notin s.marked /\ o[b] \in r.marked
  BY DEF Pushes, q, o
<1>5. \A a \in 1 .. Len(q) : q[a] \in s.marked
  BY DEF OnList, q
<1>6. Distinct(o)
  <2> SUFFICES ASSUME NEW a \in 1 .. Len(o), NEW b \in 1 .. Len(o), o[a] = o[b] PROVE a = b
    BY DEF Distinct
  <2>1. CASE a \in 1 .. Len(q) /\ b \in 1 .. Len(q)
    BY <1>2, <2>1 DEF Distinct, q
  <2>2. CASE a \in New(q, o) /\ b \in New(q, o)
    BY <2>2 DEF Pushes, q, o
  <2>3. QED
    BY <1>2, <1>3, <1>4, <1>5, <2>1, <2>2
<1>7. ASSUME NEW t, OnList(o, t) PROVE OnList(q, t) \/ (t \in r.marked /\ t \notin s.marked)
  <2>1. PICK b \in 1 .. Len(o) : o[b] = t
    BY <1>7 DEF OnList
  <2>2. QED
    BY <1>2, <1>3, <1>4, <2>1 DEF OnList
<1>8. ASSUME NEW t, OnList(q, t) PROVE OnList(o, t)
  BY <1>2, <1>8 DEF OnList
<1>9. ASSUME NEW t \in r.marked, t \notin s.marked PROVE OnList(o, t)
  <2>1. PICK b \in New(q, o) : o[b] = t
    BY <1>9 DEF Pushes, q, o
  <2>2. b \in 1 .. Len(o)
    BY <1>3
  <2>3. QED
    BY <2>1, <2>2 DEF OnList
<1>10. QED
  BY <1>1, <1>6, <1>7, <1>8, <1>9 DEF q, o

\* The top of the stack.
LEMMA PoppedIs ==
  ASSUME NEW n, NEW q \in Orders(n), Distinct(q), q # <<>>
  PROVE  /\ Last(q) \in 0 .. n - 1 /\ Front(q) \in Orders(n) /\ Distinct(Front(q))
         /\ \A t : OnList(Front(q), t) <=> OnList(q, t) /\ t # Last(q)
         /\ OnList(q, Last(q))
<1> DEFINE m == Len(q)
<1>1. m \in Nat /\ m # 0 /\ \A a \in 1 .. m : q[a] \in 0 .. n - 1
  BY EmptySeq, LenProperties, ElementOfSeq DEF Orders
<1> HIDE DEF m
<1>2. Last(q) = q[m] /\ m \in 1 .. m
  BY <1>1 DEF Last, m
<1>3. Front(q) = [a \in 1 .. m - 1 |-> q[a]]
  BY <1>1 DEF Front, m
<1>4. Front(q) \in Orders(n) /\ Len(Front(q)) = m - 1 /\ \A a \in 1 .. m - 1 : Front(q)[a] = q[a]
  <2>1. [a \in 1 .. m - 1 |-> q[a]] \in Seq(0 .. n - 1)
    BY <1>1
  <2>2. Len([a \in 1 .. m - 1 |-> q[a]]) = m - 1
    BY <1>1, <2>1
  <2>3. QED
    BY <1>3, <2>1, <2>2 DEF Orders
<1>5. \A a, b \in 1 .. m : q[a] = q[b] => a = b
  BY DEF Distinct, m
<1>6. \A a : a \in 1 .. m - 1 <=> a \in 1 .. m /\ a # m
  BY <1>1
<1>7. Distinct(Front(q))
  BY <1>4, <1>5, <1>6 DEF Distinct
<1>8. \A t : OnList(q, t) <=> \E a \in 1 .. m : q[a] = t
  BY DEF OnList, m
<1>9. \A t : OnList(Front(q), t) <=> \E a \in 1 .. m - 1 : q[a] = t
  BY <1>4 DEF OnList
<1>10. \A t : OnList(Front(q), t) <=> OnList(q, t) /\ t # Last(q)
  BY <1>2, <1>5, <1>6, <1>8, <1>9
<1>11. QED
  BY <1>1, <1>2, <1>4, <1>7, <1>8, <1>10

Pop(next, count, f) ==
  LET top == Last(f.list)
      s == PushAll([marked |-> f.marked, list |-> Front(f.list)], next[top])
  IN [marked |-> s.marked, list |-> s.list, ids |-> [f.ids EXCEPT ![top] = count]]

Flooding(next, found, v, f) ==
  /\ f[0] = [marked |-> found.marked \cup {v}, list |-> <<v>>, ids |-> found.ids]
  /\ \A d \in 0 .. Cardinality(DOMAIN next) - 1 :
       f[d + 1] = IF f[d].list = <<>>
                   THEN f[d] ELSE Pop(next, found.count, f[d])

\* The loop that fills a component by the step.
LEMMA FloodTurns ==
  ASSUME NEW next, NEW found, NEW v, Cardinality(DOMAIN next) \in Nat
  PROVE  \E f : /\ Flood(next, found, v) =
                   [marked |-> f[Cardinality(DOMAIN next)].marked,
                    ids |-> f[Cardinality(DOMAIN next)].ids, count |-> found.count + 1]
              /\ Flooding(next, found, v, f)
<1> DEFINE begin == [marked |-> found.marked \cup {v}, list |-> <<v>>, ids |-> found.ids]
           turns == Cardinality(DOMAIN next)
           St(d, x) == IF x.list = <<>> THEN x ELSE Pop(next, found.count, x)
           rhs(top, f) == [d \in 0 .. top |-> IF d = 0 THEN begin ELSE St(d, f[d - 1])]
           S == {k \in Nat : \E f : f = rhs(k, f)}
           loop == CHOOSE f : f = rhs(turns, f)
<1>1. Flood(next, found, v) =
        [marked |-> loop[turns].marked, ids |-> loop[turns].ids, count |-> found.count + 1]
  BY Zenon DEF Flood, Pop
<1>2. turns \in Nat
  OBVIOUS
<1> HIDE DEF begin, turns, St
<1>3. 0 \in S
  <2>1. [d \in 0 .. 0 |-> begin] = rhs(0, [d \in 0 .. 0 |-> begin])
    OBVIOUS
  <2>2. QED
    BY <2>1
<1>4. ASSUME NEW k \in Nat, k \in S PROVE k + 1 \in S
  <2>1. PICK f : f = rhs(k, f)
    BY <1>4
  <2> DEFINE h == [d \in 0 .. k + 1 |-> IF d = k + 1 THEN St(d, f[k]) ELSE f[d]]
  <2>2. \A d \in 0 .. k : f[d] = IF d = 0 THEN begin ELSE St(d, f[d - 1])
    BY <2>1
  <2>3. ASSUME NEW d \in 0 .. k + 1
        PROVE  h[d] = IF d = 0 THEN begin ELSE St(d, h[d - 1])
    <3>1. CASE d = k + 1
      BY <3>1
    <3>2. CASE d # k + 1
      <4>1. d \in 0 .. k /\ (d # 0 => d - 1 \in 0 .. k /\ d - 1 # k + 1)
        BY <3>2
      <4>2. h[d] = f[d] /\ (d # 0 => h[d - 1] = f[d - 1])
        BY <3>2, <4>1
      <4>3. f[d] = IF d = 0 THEN begin ELSE St(d, f[d - 1])
        BY <2>2, <4>1
      <4> HIDE DEF h
      <4>4. QED
        BY <4>2, <4>3
    <3>3. QED
      BY <3>1, <3>2
  <2>4. h = rhs(k + 1, h)
    BY <2>3
  <2> HIDE DEF h, rhs
  <2>5. QED
    BY <2>4
<1> HIDE DEF S
<1>5. turns \in S
  BY <1>2, <1>3, <1>4, Induction
<1>6. loop = rhs(turns, loop)
  <2> HIDE DEF rhs
  <2>1. QED
    BY <1>5 DEF S
<1> HIDE DEF loop
<1>7. loop[0] = begin
  BY <1>2, <1>6
<1>8. ASSUME NEW d \in 0 .. turns - 1 PROVE loop[d + 1] = St(d + 1, loop[d])
  <2>1. d + 1 \in 0 .. turns /\ d + 1 # 0 /\ (d + 1) - 1 = d
    BY <1>2
  <2>2. loop[d + 1] = St(d + 1, loop[(d + 1) - 1])
    BY <1>6, <2>1
  <2>3. QED
    BY <2>1, <2>2
<1>9. QED
  BY <1>1, <1>7, <1>8 DEF begin, turns, St, Flooding

Finding(next, f) ==
  /\ f[0] = [marked |-> {}, ids |-> [v \in DOMAIN next |-> NoVertex], count |-> 0]
  /\ \A d \in 0 .. Cardinality(DOMAIN next) - 1 :
       f[d + 1] = IF d \in f[d].marked
                   THEN f[d] ELSE Flood(next, f[d], d)

\* The loop of connected_components by the step.
LEMMA ComponentsTurns ==
  ASSUME NEW next, Cardinality(DOMAIN next) \in Nat
  PROVE  \E f : /\ connected_components(next) = f[Cardinality(DOMAIN next)]
              /\ Finding(next, f)
<1> DEFINE begin == [marked |-> {}, ids |-> [v \in DOMAIN next |-> NoVertex], count |-> 0]
           turns == Cardinality(DOMAIN next)
           St(d, x) == IF d - 1 \in x.marked THEN x ELSE Flood(next, x, d - 1)
           rhs(top, f) == [d \in 0 .. top |-> IF d = 0 THEN begin ELSE St(d, f[d - 1])]
           S == {k \in Nat : \E f : f = rhs(k, f)}
           loop == CHOOSE f : f = rhs(turns, f)
<1>1. connected_components(next) = loop[turns]
  BY Zenon DEF connected_components
<1>2. turns \in Nat
  OBVIOUS
<1> HIDE DEF begin, turns, St
<1>3. 0 \in S
  <2>1. [d \in 0 .. 0 |-> begin] = rhs(0, [d \in 0 .. 0 |-> begin])
    OBVIOUS
  <2>2. QED
    BY <2>1
<1>4. ASSUME NEW k \in Nat, k \in S PROVE k + 1 \in S
  <2>1. PICK f : f = rhs(k, f)
    BY <1>4
  <2> DEFINE h == [d \in 0 .. k + 1 |-> IF d = k + 1 THEN St(d, f[k]) ELSE f[d]]
  <2>2. \A d \in 0 .. k : f[d] = IF d = 0 THEN begin ELSE St(d, f[d - 1])
    BY <2>1
  <2>3. ASSUME NEW d \in 0 .. k + 1
        PROVE  h[d] = IF d = 0 THEN begin ELSE St(d, h[d - 1])
    <3>1. CASE d = k + 1
      BY <3>1
    <3>2. CASE d # k + 1
      <4>1. d \in 0 .. k /\ (d # 0 => d - 1 \in 0 .. k /\ d - 1 # k + 1)
        BY <3>2
      <4>2. h[d] = f[d] /\ (d # 0 => h[d - 1] = f[d - 1])
        BY <3>2, <4>1
      <4>3. f[d] = IF d = 0 THEN begin ELSE St(d, f[d - 1])
        BY <2>2, <4>1
      <4> HIDE DEF h
      <4>4. QED
        BY <4>2, <4>3
    <3>3. QED
      BY <3>1, <3>2
  <2>4. h = rhs(k + 1, h)
    BY <2>3
  <2> HIDE DEF h, rhs
  <2>5. QED
    BY <2>4
<1> HIDE DEF S
<1>5. turns \in S
  BY <1>2, <1>3, <1>4, Induction
<1>6. loop = rhs(turns, loop)
  <2> HIDE DEF rhs
  <2>1. QED
    BY <1>5 DEF S
<1> HIDE DEF loop
<1>7. loop[0] = begin
  BY <1>2, <1>6
<1>8. ASSUME NEW d \in 0 .. turns - 1 PROVE loop[d + 1] = St(d + 1, loop[d])
  <2>1. d + 1 \in 0 .. turns /\ d + 1 # 0 /\ (d + 1) - 1 = d
    BY <1>2
  <2>2. loop[d + 1] = St(d + 1, loop[(d + 1) - 1])
    BY <1>6, <2>1
  <2>3. QED
    BY <2>1, <2>2
<1>9. QED
  BY <1>1, <1>7, <1>8 DEF begin, turns, St, Finding

(***************************************************************************)
(* A flood from v, after m turns: `done` have been popped and numbered,    *)
(* and are m unless the stack is empty.  M is what was marked before.      *)
(***************************************************************************)
Done(n, M, f) == {u \in 0 .. n - 1 : u \in f.marked /\ u \notin M /\ ~OnList(f.list, u)}

Stacked(n, next, M, v, f) ==
  /\ f.list \in Orders(n) /\ Distinct(f.list)
  /\ \A t : OnList(f.list, t) => t \in f.marked /\ t \notin M
  /\ f.marked \subseteq 0 .. n - 1 /\ M \subseteq f.marked /\ v \in f.marked
  /\ \A t \in f.marked : t \in M \/ t \in Reachable(next, v)
  /\ \A u \in Done(n, M, f) : \A i \in 1 .. Len(next[u]) : next[u][i] \in f.marked

Given(n, found, f) ==
  /\ f.ids \in [0 .. n - 1 -> Int]
  /\ \A u \in 0 .. n - 1 :
       f.ids[u] = IF u \in Done(n, found.marked, f) THEN found.count ELSE found.ids[u]

Flooded(n, next, found, v, m, f) ==
  /\ Stacked(n, next, found.marked, v, f) /\ Given(n, found, f)
  /\ f.list = <<>> \/ m <= Cardinality(Done(n, found.marked, f))

\* The components numbered so far.
Numbering(n, next, found) ==
  /\ found.marked \subseteq 0 .. n - 1 /\ Closed(next, found.marked)
  /\ found.count \in Nat /\ found.ids \in [0 .. n - 1 -> Int]

\* The vertices that the flood is done with are finitely many.
LEMMA DoneFinite ==
  ASSUME NEW n \in Nat, NEW M, NEW f
  PROVE  /\ IsFiniteSet(Done(n, M, f)) /\ Cardinality(Done(n, M, f)) \in Nat
         /\ Cardinality(Done(n, M, f)) <= n
         /\ Cardinality(Done(n, M, f)) = n => Done(n, M, f) = 0 .. n - 1
<1>1. IsFiniteSet(0 .. n - 1) /\ Cardinality(0 .. n - 1) = n
  BY FS_Interval
<1>2. Done(n, M, f) \in SUBSET (0 .. n - 1)
  BY DEF Done
<1>3. QED
  BY <1>1, <1>2, FS_Subset, FS_CardinalityType

\* A turn of the flood.
LEMMA PopFloods ==
  ASSUME NEW n \in Nat, NEW next \in Net(n), NEW found, Numbering(n, next, found),
         NEW v \in 0 .. n - 1, NEW m \in Nat, NEW w, w = m + 1,
         NEW f, Flooded(n, next, found, v, m, f), f.list # <<>>
  PROVE  Flooded(n, next, found, v, w, Pop(next, found.count, f))
<1> DEFINE M == found.marked
           q == f.list
           top == Last(q)
           s0 == [marked |-> f.marked, list |-> Front(q)]
           s == PushAll(s0, next[top])
           g == Pop(next, found.count, f)
<1>1. /\ g.marked = s.marked /\ g.list = s.list
      /\ g.ids = [f.ids EXCEPT ![top] = found.count]
  BY DEF Pop
<1>2. q \in Orders(n) /\ Distinct(q) /\ q # <<>>
      /\ \A t : OnList(q, t) => t \in f.marked /\ t \notin M
  BY DEF Flooded, Stacked
<1>3. /\ top \in 0 .. n - 1 /\ Front(q) \in Orders(n) /\ Distinct(Front(q))
      /\ \A t : OnList(Front(q), t) <=> OnList(q, t) /\ t # top
      /\ OnList(q, top)
  <2> HIDE DEF q
  <2>1. QED
    BY <1>2, PoppedIs
<1>4. top \in f.marked /\ top \notin M /\ top \in Reachable(next, v)
  BY <1>2, <1>3 DEF Flooded, Stacked
<1>5. /\ Len(next[top]) \in Nat
      /\ \A i \in 1 .. Len(next[top]) :
           next[top][i] \in 0 .. n - 1 /\ next[top][i] \in Reachable(next, v)
  <2> HIDE DEF top
  <2>1. \A i \in 1 .. Len(next[top]) : next[top][i] \in Reachable(next, top)
    BY <1>3, ReachesNext
  <2>2. QED
    BY <1>3, <1>4, <2>1, NetIs, ReachesOn
<1>6. s0.marked = f.marked /\ s0.list = Front(q)
  OBVIOUS
<1> HIDE DEF top, s0, s, g
<1>7. Pushes(n, next[top], Len(next[top]), s0, s)
  <2> DEFINE targets == next[top]
  <2>1. Len(targets) \in Nat /\ \A j \in 1 .. Len(targets) : targets[j] \in 0 .. n - 1
    BY <1>5
  <2>2. s0.list \in Seq(0 .. n - 1)
    BY <1>3, <1>6 DEF Orders
  <2> HIDE DEF targets
  <2>3. Pushes(n, targets, Len(targets), s0, PushAll(s0, targets))
    BY <2>1, <2>2, PushAllPushes
  <2>4. QED
    BY <2>3 DEF targets, s
<1>8. \A t : t \in g.marked <=> t \in f.marked \/ \E i \in 1 .. Len(next[top]) : next[top][i] = t
  BY <1>1, <1>6, <1>7 DEF Pushes
<1>9. /\ g.list \in Orders(n) /\ Distinct(g.list)
      /\ \A t : OnList(g.list, t) <=> OnList(Front(q), t) \/ (t \in g.marked /\ t \notin f.marked)
  <2>1. /\ s0.list \in Orders(n) /\ Distinct(s0.list)
        /\ \A t : OnList(s0.list, t) => t \in s0.marked
    BY <1>2, <1>3, <1>6
  <2>2. /\ s.list \in Orders(n) /\ Distinct(s.list)
        /\ \A t : OnList(s.list, t) <=> OnList(s0.list, t) \/ (t \in s.marked /\ t \notin s0.marked)
    BY <1>7, <2>1, PushesList
  <2>3. QED
    BY <1>1, <1>6, <2>2
<1> DEFINE P == Done(n, M, f)
           P2 == Done(n, M, g)
<1>10. P2 = P \cup {top} /\ top \notin P
  <2>1. \A u \in 0 .. n - 1 : u \in P2 <=> u \in P \/ u = top
    <3> SUFFICES ASSUME NEW u \in 0 .. n - 1 PROVE u \in P2 <=> u \in P \/ u = top
      OBVIOUS
    <3>1. u \in P2 <=> u \in g.marked /\ u \notin M /\ ~OnList(g.list, u)
      BY DEF Done
    <3>2. u \in P <=> u \in f.marked /\ u \notin M /\ ~OnList(q, u)
      BY DEF Done
    <3>3. u \in f.marked => u \in g.marked
      BY <1>8
    <3>4. QED
      BY <1>3, <1>4, <1>9, <3>1, <3>2, <3>3
  <2>2. P2 \subseteq 0 .. n - 1 /\ P \subseteq 0 .. n - 1 /\ top \notin P
    BY <1>3 DEF Done
  <2>3. QED
    BY <1>3, <2>1, <2>2
<1>11. Stacked(n, next, M, v, g)
  <2>1. \A t : OnList(g.list, t) => t \in g.marked /\ t \notin M
    <3>1. M \subseteq f.marked
      BY DEF Flooded, Stacked
    <3>2. QED
      BY <1>2, <1>3, <1>8, <1>9, <3>1
  <2>2. /\ g.marked \subseteq 0 .. n - 1 /\ M \subseteq g.marked /\ v \in g.marked
        /\ \A t \in g.marked : t \in M \/ t \in Reachable(next, v)
    <3>1. /\ f.marked \subseteq 0 .. n - 1 /\ M \subseteq f.marked /\ v \in f.marked
          /\ \A t \in f.marked : t \in M \/ t \in Reachable(next, v)
      BY DEF Flooded, Stacked
    <3>2. \A t \in g.marked : t \in f.marked \/ (t \in 0 .. n - 1 /\ t \in Reachable(next, v))
      BY <1>5, <1>8
    <3>3. QED
      BY <1>8, <3>1, <3>2
  <2>3. ASSUME NEW u \in P2, NEW i \in 1 .. Len(next[u]) PROVE next[u][i] \in g.marked
    <3>1. CASE u = top
      BY <1>8, <3>1
    <3>2. CASE u \in P
      <4>1. next[u][i] \in f.marked
        BY <3>2 DEF Flooded, Stacked
      <4>2. QED
        BY <1>8, <4>1
    <3>3. QED
      BY <1>10, <3>1, <3>2
  <2>4. QED
    BY <1>9, <2>1, <2>2, <2>3 DEF Stacked
<1>12. Given(n, found, g)
  <2>1. f.ids \in [0 .. n - 1 -> Int] /\ found.count \in Int
    BY DEF Flooded, Given, Numbering
  <2>2. /\ g.ids \in [0 .. n - 1 -> Int] /\ g.ids[top] = found.count
        /\ \A u \in 0 .. n - 1 : u # top => g.ids[u] = f.ids[u]
    BY <1>1, <1>3, <2>1
  <2>3. \A u \in 0 .. n - 1 : f.ids[u] = IF u \in P THEN found.count ELSE found.ids[u]
    BY DEF Flooded, Given
  <2> HIDE DEF P, P2
  <2>4. \A u \in 0 .. n - 1 : g.ids[u] = IF u \in P2 THEN found.count ELSE found.ids[u]
    BY <1>10, <2>2, <2>3
  <2>5. QED
    BY <2>2, <2>4 DEF Given, P2
<1>13. w <= Cardinality(P2)
  <2>1. IsFiniteSet(P) /\ Cardinality(P) \in Nat /\ m <= Cardinality(P)
    BY DoneFinite DEF Flooded
  <2> HIDE DEF P, P2
  <2>2. Cardinality(P2) = Cardinality(P) + 1
    BY <1>10, <2>1, FS_AddElement
  <2>3. QED
    BY <2>1, <2>2
<1>14. QED
  BY <1>11, <1>12, <1>13 DEF Flooded, g

\* A flood numbers what it reaches.
LEMMA FloodIs ==
  ASSUME NEW n \in Nat, NEW next \in Net(n), BothWaysIn(n, next),
         NEW found, Numbering(n, next, found),
         NEW v \in 0 .. n - 1, v \notin found.marked
  PROVE  LET r == Flood(next, found, v)
         IN /\ r.marked = found.marked \cup Reachable(next, v)
            /\ r.count = found.count + 1 /\ r.ids \in [0 .. n - 1 -> Int]
            /\ \A u \in 0 .. n - 1 :
                 r.ids[u] = IF u \in Reachable(next, v) THEN found.count ELSE found.ids[u]
<1> DEFINE M == found.marked
           r == Flood(next, found, v)
           R == Reachable(next, v)
<1>1. Cardinality(DOMAIN next) = n
  BY NetIs
<1>2. PICK f : /\ r = [marked |-> f[n].marked, ids |-> f[n].ids, count |-> found.count + 1]
               /\ Flooding(next, found, v, f)
  BY <1>1, FloodTurns
<1> DEFINE S == {m \in Nat : m <= n => Flooded(n, next, found, v, m, f[m])}
<1>3. 0 \in S
  <2> DEFINE g == f[0]
             one == <<v>>
  <2>1. g.marked = M \cup {v} /\ g.list = one /\ g.ids = found.ids
    BY <1>2 DEF Flooding
  <2>2. one \in Orders(n) /\ Len(one) = 1 /\ one[1] = v
    BY DEF Orders
  <2> HIDE DEF g, one
  <2>3. Distinct(g.list) /\ \A t : OnList(g.list, t) <=> t = v
    BY <2>1, <2>2 DEF Distinct, OnList
  <2>4. Done(n, M, g) = {}
    BY <2>1, <2>3 DEF Done
  <2>5. M \subseteq 0 .. n - 1 /\ found.ids \in [0 .. n - 1 -> Int]
    BY DEF Numbering
  <2>6. Stacked(n, next, M, v, g)
    <3>1. v \in Reachable(next, v)
      BY ReachableIs
    <3>2. QED
      BY <2>1, <2>2, <2>3, <2>4, <2>5, <3>1 DEF Stacked
  <2>7. Given(n, found, g)
    BY <2>1, <2>4, <2>5 DEF Given
  <2>8. Cardinality(Done(n, M, g)) >= 0
    BY DoneFinite
  <2>9. QED
    BY <2>6, <2>7, <2>8 DEF Flooded, g
<1>4. ASSUME NEW m \in Nat, m \in S PROVE m + 1 \in S
  <2> SUFFICES ASSUME m + 1 <= n PROVE Flooded(n, next, found, v, m + 1, f[m + 1])
    OBVIOUS
  <2> DEFINE w == m + 1
             g == f[m]
  <2>1. m \in 0 .. n - 1 /\ Flooded(n, next, found, v, m, g)
    BY <1>4
  <2>2. f[w] = IF g.list = <<>> THEN g ELSE Pop(next, found.count, g)
    BY <1>1, <1>2, <2>1 DEF Flooding
  <2>3. w = m + 1
    OBVIOUS
  <2> HIDE DEF w, g
  <2>4. CASE g.list = <<>>
    <3>1. Flooded(n, next, found, v, w, g)
      BY <2>1, <2>4 DEF Flooded
    <3>2. QED
      BY <2>2, <2>3, <2>4, <3>1
  <2>5. CASE g.list # <<>>
    <3>1. Flooded(n, next, found, v, w, Pop(next, found.count, g))
      BY <2>1, <2>3, <2>5, PopFloods
    <3>2. QED
      BY <2>2, <2>3, <2>5, <3>1
  <2>6. QED
    BY <2>4, <2>5
<1> HIDE DEF S
<1>5. Nat \subseteq S
  BY <1>3, <1>4, Induction
<1> DEFINE g == f[n]
           P == Done(n, M, g)
<1>6. Flooded(n, next, found, v, n, g)
  BY <1>5 DEF S
<1>7. r.marked = g.marked /\ r.ids = g.ids /\ r.count = found.count + 1
  BY <1>2
<1> HIDE DEF g, r
<1>8. g.list = <<>>
  <2> SUFFICES ASSUME g.list # <<>> PROVE FALSE
    OBVIOUS
  <2>1. n <= Cardinality(P)
    BY <1>6 DEF Flooded
  <2>2. P = 0 .. n - 1
    <3>1. Cardinality(P) \in Nat /\ Cardinality(P) <= n /\ (Cardinality(P) = n => P = 0 .. n - 1)
      BY DoneFinite
    <3> HIDE DEF P
    <3>2. QED
      BY <2>1, <3>1
  <2> DEFINE q == g.list
  <2>3. q \in Orders(n) /\ Distinct(q) /\ q # <<>>
    BY <1>6 DEF Flooded, Stacked
  <2> HIDE DEF q
  <2>4. Last(q) \in 0 .. n - 1 /\ OnList(q, Last(q))
    BY <2>3, PoppedIs
  <2>5. QED
    BY <2>2, <2>4 DEF Done, q
<1>9. \A t : ~OnList(g.list, t)
  BY <1>8 DEF OnList
<1>10. g.marked \subseteq 0 .. n - 1 /\ M \subseteq g.marked /\ v \in g.marked
       /\ \A t \in g.marked : t \in M \/ t \in R
  BY <1>6 DEF Flooded, Stacked
<1>11. P = g.marked \ M
  BY <1>9, <1>10 DEF Done
<1>12. Closed(next, P)
  <2> SUFFICES ASSUME NEW u \in P, NEW i \in 1 .. Len(next[u]) PROVE next[u][i] \in P
    BY DEF Closed
  <2>1. next[u][i] \in g.marked
    BY <1>6 DEF Flooded, Stacked
  <2>2. Closed(next, (0 .. n - 1) \ M)
    BY OutsideClosed DEF Numbering
  <2>3. u \in (0 .. n - 1) \ M
    BY <1>10, <1>11
  <2>4. next[u][i] \notin M
    BY <2>2, <2>3 DEF Closed
  <2>5. QED
    BY <1>11, <2>1, <2>4
<1>13. P = R
  <2>1. v \in P /\ P \subseteq R
    BY <1>10, <1>11
  <2> HIDE DEF P
  <2>2. QED
    BY <1>12, <2>1, ReachableIs
<1>14. r.marked = M \cup R
  BY <1>7, <1>10, <1>11, <1>13
<1>15. /\ r.ids \in [0 .. n - 1 -> Int]
       /\ \A u \in 0 .. n - 1 : r.ids[u] = IF u \in R THEN found.count ELSE found.ids[u]
  BY <1>6, <1>7, <1>13 DEF Flooded, Given
<1>16. QED
  BY <1>7, <1>14, <1>15 DEF r

(***************************************************************************)
(* The first m vertices have been looked at.                               *)
(***************************************************************************)
Apart(n, next, f) ==
  /\ \A u \in f.marked : f.ids[u] \in 0 .. f.count - 1
  /\ \A c \in 0 .. f.count - 1 : \E u \in f.marked : f.ids[u] = c
  /\ \A u, w \in f.marked : f.ids[u] = f.ids[w] <=> w \in Reachable(next, u)

\* Another component is numbered.
LEMMA NumberNext ==
  ASSUME NEW n \in Nat, NEW next \in Net(n), BothWaysIn(n, next),
         NEW found, Numbering(n, next, found), Apart(n, next, found),
         NEW v \in 0 .. n - 1, v \notin found.marked, NEW r, r = Flood(next, found, v)
  PROVE  Numbering(n, next, r) /\ Apart(n, next, r) /\ found.marked \cup {v} \subseteq r.marked
<1> DEFINE M == found.marked
           R == Reachable(next, v)
           c == found.count
<1>1. /\ r.marked = M \cup R /\ r.count = c + 1 /\ r.ids \in [0 .. n - 1 -> Int]
      /\ \A u \in 0 .. n - 1 : r.ids[u] = IF u \in R THEN c ELSE found.ids[u]
  BY FloodIs
<1>2. M \subseteq 0 .. n - 1 /\ Closed(next, M) /\ c \in Nat
  BY DEF Numbering
<1>3. v \in R /\ R \subseteq 0 .. n - 1 /\ Closed(next, R)
  BY ReachableIs
<1>4. \A u \in M : u \notin R
  <2>1. Closed(next, (0 .. n - 1) \ M)
    BY <1>2, OutsideClosed
  <2>2. R \subseteq (0 .. n - 1) \ M
    BY <2>1, ReachableIs
  <2>3. QED
    BY <2>2
<1> HIDE DEF R, M, c
<1>5. Numbering(n, next, r)
  <2>1. Closed(next, r.marked)
    BY <1>1, <1>2, <1>3 DEF Closed
  <2>2. QED
    BY <1>1, <1>2, <1>3, <2>1 DEF Numbering
<1>6. (\A u \in M : r.ids[u] = found.ids[u]) /\ \A u \in R : r.ids[u] = c
  BY <1>1, <1>2, <1>3, <1>4
<1>7. \A u \in M : found.ids[u] \in 0 .. c - 1
  BY DEF Apart, M, c
<1>8. \A u \in r.marked : r.ids[u] \in 0 .. r.count - 1
  <2> SUFFICES ASSUME NEW u \in r.marked PROVE r.ids[u] \in 0 .. c
    BY <1>1, <1>2
  <2>1. CASE u \in M
    <3>1. r.ids[u] = found.ids[u] /\ found.ids[u] \in 0 .. c - 1
      BY <1>6, <1>7, <2>1
    <3>2. QED
      BY <1>2, <3>1
  <2>2. CASE u \in R
    <3>1. r.ids[u] = c
      BY <1>6, <2>2
    <3>2. QED
      BY <1>2, <3>1
  <2>3. QED
    BY <1>1, <2>1, <2>2
<1>9. ASSUME NEW d \in 0 .. r.count - 1 PROVE \E u \in r.marked : r.ids[u] = d
  <2>1. CASE d = c
    BY <1>1, <1>3, <1>6, <2>1
  <2>2. CASE d # c
    <3>1. d \in 0 .. c - 1
      BY <1>1, <1>2, <2>2
    <3>2. PICK u \in M : found.ids[u] = d
      BY <3>1 DEF Apart, M, c
    <3>3. QED
      BY <1>1, <1>6, <3>2
  <2>3. QED
    BY <2>1, <2>2
<1>10. ASSUME NEW u \in r.marked, NEW w \in r.marked
       PROVE  r.ids[u] = r.ids[w] <=> w \in Reachable(next, u)
  <2>0. u \in 0 .. n - 1 /\ w \in 0 .. n - 1
    BY <1>1, <1>2, <1>3
  <2>1. CASE u \in M /\ w \in M
    BY <1>6, <2>1 DEF Apart, M
  <2>2. CASE u \in R /\ w \in R
    <3>1. v \in Reachable(next, u)
      BY <2>2, ReachesBack DEF R
    <3>2. Reachable(next, v) \subseteq Reachable(next, u)
      BY <2>0, <3>1, ReachesOn
    <3>3. QED
      BY <1>6, <2>2, <3>2 DEF R
  <2>3. CASE u \in M /\ w \in R
    <3>1. Reachable(next, u) \subseteq M
      BY <1>2, <2>0, <2>3, ReachableIs
    <3>2. w \notin Reachable(next, u)
      BY <1>4, <2>3, <3>1
    <3>3. r.ids[u] # r.ids[w]
      BY <1>2, <1>6, <1>7, <2>3
    <3>4. QED
      BY <3>2, <3>3
  <2>4. CASE u \in R /\ w \in M
    <3>1. Reachable(next, u) \subseteq R
      BY <1>3, <2>0, <2>4, ReachableIs
    <3>2. w \notin Reachable(next, u)
      BY <1>4, <2>4, <3>1
    <3>3. r.ids[u] # r.ids[w]
      BY <1>2, <1>6, <1>7, <2>4
    <3>4. QED
      BY <3>2, <3>3
  <2>5. QED
    BY <1>1, <2>1, <2>2, <2>3, <2>4
<1>11. QED
  BY <1>1, <1>3, <1>5, <1>8, <1>9, <1>10 DEF Apart, M

\* connected_components tells the components apart.
LEMMA ComponentsAreRight ==
  ASSUME NEW n \in Nat, NEW next \in Net(n), BothWaysIn(n, next)
  PROVE  ComponentsRight(next)
<1>1. Cardinality(DOMAIN next) = n /\ DOMAIN next = 0 .. n - 1
  BY NetIs
<1>2. PICK f : connected_components(next) = f[n] /\ Finding(next, f)
  BY <1>1, ComponentsTurns
<1> DEFINE Good(m, g) == /\ Numbering(n, next, g) /\ Apart(n, next, g)
                         /\ \A u \in 0 .. n - 1 : u < m => u \in g.marked
           S == {m \in Nat : m <= n => Good(m, f[m])}
<1>3. 0 \in S
  <2> DEFINE g == f[0]
  <2>1. g.marked = {} /\ g.ids = [v \in 0 .. n - 1 |-> NoVertex] /\ g.count = 0
    BY <1>1, <1>2 DEF Finding
  <2> HIDE DEF g
  <2>2. Numbering(n, next, g)
    BY <2>1 DEF Numbering, Closed, NoVertex
  <2>3. Apart(n, next, g)
    BY <2>1 DEF Apart
  <2>4. Good(0, g)
    BY <2>2, <2>3
  <2>5. QED
    BY <2>4 DEF g
<1>4. ASSUME NEW m \in Nat, m \in S PROVE m + 1 \in S
  <2> SUFFICES ASSUME m + 1 <= n PROVE Good(m + 1, f[m + 1])
    OBVIOUS
  <2> DEFINE g == f[m]
             r == f[m + 1]
  <2>1. m \in 0 .. n - 1 /\ Good(m, g) /\ (m + 1) - 1 = m
    BY <1>4
  <2>2. r = IF m \in g.marked THEN g ELSE Flood(next, g, m)
    BY <1>1, <1>2, <2>1 DEF Finding
  <2>3. \A u \in 0 .. n - 1 : u < m + 1 <=> u < m \/ u = m
    OBVIOUS
  <2> HIDE DEF g, r
  <2>4. CASE m \in g.marked
    <3>1. Good(m + 1, r)
      BY <2>1, <2>2, <2>3, <2>4
    <3>2. QED
      BY <3>1 DEF r
  <2>5. CASE m \notin g.marked
    <3>1. r = Flood(next, g, m)
      BY <2>2, <2>5
    <3>2. Numbering(n, next, r) /\ Apart(n, next, r) /\ g.marked \cup {m} \subseteq r.marked
      BY <2>1, <2>5, <3>1, NumberNext
    <3>3. Good(m + 1, r)
      BY <2>1, <2>3, <3>2
    <3>4. QED
      BY <3>3 DEF r
  <2>6. QED
    BY <2>4, <2>5
<1> HIDE DEF S
<1>5. Nat \subseteq S
  BY <1>3, <1>4, Induction
<1> DEFINE c == f[n]
<1>6. Good(n, c)
  BY <1>5 DEF S
<1>7. connected_components(next) = c
  BY <1>2
<1> HIDE DEF c
<1>8. c.marked = 0 .. n - 1
  <2>1. \A u \in 0 .. n - 1 : u < n
    OBVIOUS
  <2>2. QED
    BY <1>6, <2>1 DEF Numbering
<1>9. \A u, v \in DOMAIN next : c.ids[u] = c.ids[v] <=> v \in Reachable(next, u)
  BY <1>1, <1>6, <1>8 DEF Apart
<1>10. Range(c.ids) = 0 .. c.count - 1
  <2>1. DOMAIN c.ids = 0 .. n - 1
    BY <1>6 DEF Numbering
  <2>2. QED
    BY <1>6, <1>8, <2>1 DEF Apart, Range
<1>11. QED
  BY <1>7, <1>9, <1>10 DEF ComponentsRight
-----------------------------------------------------------------------------
(***************************************************************************)
(* The edges of graph.c are on the lists of both their ends, with the same *)
(* weight.                                                                 *)
(***************************************************************************)
LinksTo(array, u, t, w) ==
  \E i \in DOMAIN array[u].adj : array[u].adj[i].to = t /\ array[u].adj[i].weight = w

Mutual(array, used) ==
  \A u, t \in used : \A w : LinksTo(array, u, t, w) => w \in Weight /\ LinksTo(array, t, u, w)

SInv == MCInv /\ (impl = "graph" => Mutual(vertices, Used))

\* A new link is one more target.
LEMMA LinkAddsTo ==
  ASSUME NEW array, NEW n \in Nat, NEW v \in 0 .. n - 1, NEW edge,
         Joined(array, 0 .. n - 1),
         \A u \in 0 .. n - 1 : u \in DOMAIN array /\ IsCell(array[u])
  PROVE  \A u \in 0 .. n - 1 : \A t, w :
           LinksTo(Linked(array, v, edge), u, t, w)
             <=> LinksTo(array, u, t, w) \/ (u = v /\ t = edge.to /\ w = edge.weight)
<1> DEFINE new == Linked(array, v, edge)
           l == array[v].adj
           cell == [array[v] EXCEPT !.adj = <<edge>> \o @]
<1>1. cell.adj = <<edge>> \o l
  BY CellLinked
<1>2. new = [array EXCEPT ![v] = cell]
  BY DEF Linked
<1>3. l \in Seq(Link)
  BY DEF Joined
<1> HIDE DEF new, l, cell
<1>4. ASSUME NEW u \in 0 .. n - 1, u # v, NEW t, NEW w
      PROVE  LinksTo(new, u, t, w) <=> LinksTo(array, u, t, w)
  <2>1. new[u] = array[u]
    BY <1>2, <1>4
  <2>2. QED
    BY <2>1 DEF LinksTo
<1>5. ASSUME NEW t, NEW w
      PROVE  LinksTo(new, v, t, w)
               <=> LinksTo(array, v, t, w) \/ (t = edge.to /\ w = edge.weight)
  <2> DEFINE m == new[v].adj
  <2>1. m = <<edge>> \o l
    BY <1>1, <1>2
  <2> HIDE DEF m
  <2>2. /\ DOMAIN l = 1 .. Len(l) /\ Len(l) \in Nat /\ DOMAIN m = 1 .. Len(l) + 1 /\ m[1] = edge
        /\ \A i \in DOMAIN l : m[i + 1] = l[i]
    BY <1>3, <2>1
  <2>3. ASSUME NEW i \in DOMAIN l PROVE i + 1 \in DOMAIN m /\ m[i + 1] = l[i]
    BY <2>2
  <2>4. 1 \in DOMAIN m /\ m[1] = edge
    BY <2>2
  <2>5. ASSUME NEW i \in DOMAIN m, i # 1 PROVE i - 1 \in DOMAIN l /\ m[i] = l[i - 1]
    <3>1. i - 1 \in DOMAIN l /\ (i - 1) + 1 = i
      BY <2>2, <2>5
    <3>2. QED
      BY <2>2, <3>1
  <2>6. (\E i \in DOMAIN m : m[i].to = t /\ m[i].weight = w)
          <=> (\E i \in DOMAIN l : l[i].to = t /\ l[i].weight = w)
              \/ (t = edge.to /\ w = edge.weight)
    BY <2>3, <2>4, <2>5
  <2>7. QED
    BY <2>6 DEF LinksTo, l, m
<1>6. QED
  BY <1>4, <1>5 DEF new

\* Adding an edge keeps links both ways.
LEMMA EdgeMutual ==
  ASSUME RInv, NEW u \in Key, NEW v \in Key, NEW w \in Weight, AddEdge(u, v, w),
         Mutual(vertices, Used)
  PROVE  Mutual(vertices', Used')
<1> IInv
  BY DEF RInv
<1>1. CASE EdgeRefused("edge", u, v, <<u, v, w>>) \/ EdgeFailed("edge", u, v, <<u, v, w>>)
  <2>1. vertices' = vertices /\ Used' = Used
    BY <1>1 DEF EdgeRefused, EdgeFailed, Used
  <2>2. QED
    BY <2>1
<1>2. ASSUME alive, UNCHANGED <<hash, alive, size, map>>,
             NEW i \in map_get(u), NEW j \in map_get(v), vertices' = BothWays(i, j, w)
      PROVE  Mutual(vertices', Used')
  <2> DEFINE e == [to |-> j, weight |-> w]
             f == [to |-> i, weight |-> w]
             half == Linked(vertices, i, e)
  <2>1. /\ i \in DOMAIN vertices /\ j \in DOMAIN vertices /\ SameCells(vertices)
        /\ i \in 0 .. size - 1 /\ j \in 0 .. size - 1 /\ size \in Nat
    BY <1>2, Inside, Named, MapInOrder
  <2>2. SameCells(half)
    BY <2>1, LinkedCells
  <2>3. vertices' = Linked(half, j, f)
    BY <1>2 DEF BothWays
  <2>4. e \in Link /\ e.to = j /\ f.to = i /\ e.weight = w /\ f.weight = w
    BY <2>1 DEF Link
  <2>5. Joined(vertices, 0 .. size - 1) /\ Used' = Used /\ Used = 0 .. size - 1
    BY <1>2 DEF RInv, Used
  <2> HIDE DEF half, e, f
  <2>6. \A x \in 0 .. size - 1 : x \in DOMAIN vertices /\ IsCell(vertices[x])
    BY <2>1, Cells
  <2>7. \A x \in 0 .. size - 1 : x \in DOMAIN half /\ IsCell(half[x])
    BY <2>2, Cells
  <2>8. Joined(half, 0 .. size - 1)
    BY <2>1, <2>4, <2>5, <2>6, LinkAdds DEF half
  <2>9. \A x \in 0 .. size - 1 : \A t, z :
          LinksTo(half, x, t, z) <=> LinksTo(vertices, x, t, z) \/ (x = i /\ t = j /\ z = w)
    BY <2>1, <2>4, <2>5, <2>6, LinkAddsTo DEF half
  <2>10. \A x \in 0 .. size - 1 : \A t, z :
           LinksTo(vertices', x, t, z) <=> LinksTo(half, x, t, z) \/ (x = j /\ t = i /\ z = w)
    BY <2>1, <2>3, <2>4, <2>7, <2>8, LinkAddsTo
  <2>11. QED
    BY <2>5, <2>9, <2>10 DEF Mutual
<1>3. QED
  BY <1>1, <1>2 DEF AddEdge

\* Adding a vertex keeps links both ways.
LEMMA VertexMutual ==
  ASSUME RInv, NEW k \in Key, AddVertex(k), Mutual(vertices, Used)
  PROVE  Mutual(vertices', Used')
<1>1. alive /\ vertices' = WithVertex(k) /\ size' = size + 1 /\ IInv
  BY DEF AddVertex, RInv
<1>2. size \in Nat /\ Used = 0 .. size - 1 /\ Used' = 0 .. size /\ Joined(vertices, Used)
  BY <1>1 DEF RInv, IInv, Shape, Used
<1>3. (\A v \in Used : vertices'[v] = vertices[v]) /\ vertices'[size].adj = <<>>
  BY <1>1, WithVertexIs
<1>4. \A u \in Used : \A t, w :
        /\ LinksTo(vertices', u, t, w) <=> LinksTo(vertices, u, t, w)
        /\ LinksTo(vertices, u, t, w) => t \in Used
  BY <1>2, <1>3 DEF LinksTo, Joined
<1>5. \A t, w : ~LinksTo(vertices', size, t, w)
  BY <1>3 DEF LinksTo
<1>6. \A u : u \in Used' <=> u \in Used \/ u = size
  BY <1>2
<1>7. QED
  BY <1>4, <1>5, <1>6 DEF Mutual

\* The run's steps keep the invariant.
LEMMA SearchStep == SInv /\ [MCNext]_mcvars => SInv'
<1> SUFFICES ASSUME SInv, [MCNext]_mcvars PROVE SInv'
  OBVIOUS
<1>1. MCInv' /\ RInv /\ impl' = impl
  BY MCStep DEF SInv, MCInv, MCNext, mcvars
<1>2. CASE impl # "graph"
  BY <1>1, <1>2 DEF SInv
<1>3. CASE UNCHANGED mcvars
  BY <1>1, <1>3 DEF SInv, mcvars, vars, Used
<1>4. CASE impl = "graph" /\ BuildGraph
  <2>1. Mutual(vertices, Used) /\ Used \subseteq Key
    BY <1>4, LinkedAssumption DEF SInv, MCInv
  <2>2. ASSUME NEW m \in Capacities, Create(m) PROVE Mutual(vertices', Used')
    <3>1. size' = 0
      BY <1>1, <2>2 DEF Create, RInv, IInv, Room
    <3>2. Used' = {}
      BY <3>1 DEF Used
    <3>3. QED
      BY <3>2 DEF Mutual
  <2>3. ASSUME size \in GraphKeys, AddVertex(size) PROVE Mutual(vertices', Used')
    BY <1>1, <2>1, <2>3, VertexMutual, LinkedAssumption
  <2>4. ASSUME NEW u \in Used, NEW v \in Used, NEW w \in Weight, AddEdge(u, v, w)
        PROVE  Mutual(vertices', Used')
    BY <1>1, <2>1, <2>4, EdgeMutual
  <2>5. QED
    BY <1>1, <1>4, <2>2, <2>3, <2>4 DEF BuildGraph, Build, SInv
<1>5. QED
  BY <1>2, <1>3, <1>4 DEF MCNext

\* What the searches follow are lists of vertices.
LEMMA NeighboursAre ==
  ASSUME SInv
  PROVE  /\ size \in Nat /\ Neighbours \in Net(size)
         /\ impl = "graph" => BothWaysIn(size, Neighbours)
<1>1. RInv /\ size \in Nat /\ Used = 0 .. size - 1 /\ (impl = "graph" => Mutual(vertices, Used))
  BY DEF SInv, MCInv, RInv, IInv, Shape, Used
<1>2. Neighbours = Successors
  BY DEF Neighbours, Successors
<1>3. Neighbours \in Net(size)
  BY <1>1, <1>2, SuccessorsAre
<1>4. \A u \in 0 .. size - 1 : \A t :
        To(Neighbours, u, t) <=> \E w : LinksTo(vertices, u, t, w)
  <2> SUFFICES ASSUME NEW u \in 0 .. size - 1, NEW t
               PROVE  To(Neighbours, u, t) <=> \E w : LinksTo(vertices, u, t, w)
    OBVIOUS
  <2> DEFINE l == vertices[u].adj
  <2>1. Neighbours[u] = [i \in DOMAIN l |-> l[i].to]
    BY <1>1 DEF Neighbours
  <2>2. DOMAIN Neighbours[u] = 1 .. Len(Neighbours[u])
    BY <1>1, <1>3, NetIs
  <2> HIDE DEF l
  <2>3. DOMAIN l = 1 .. Len(Neighbours[u]) /\ \A i \in DOMAIN l : Neighbours[u][i] = l[i].to
    BY <2>1, <2>2
  <2>4. QED
    BY <2>3 DEF To, LinksTo, l
<1>5. QED
  BY <1>1, <1>3, <1>4 DEF BothWaysIn, Mutual

(***************************************************************************)
(* On whatever graph or digraph callers have built, bfs and dfs show what  *)
(* their start reaches, each vertex once, nearer ones first and deeper     *)
(* ones first; and in graph.c connected_components gives two vertices the  *)
(* same id just when one reaches the other, and uses the ids from 0.       *)
(***************************************************************************)
THEOREM GraphSearches == MCSpec => []Searching
<1>1. MCInit => SInv
  <2> SUFFICES ASSUME MCInit PROVE SInv
    OBVIOUS
  <2>1. Init /\ Used = {}
    BY DEF MCInit, Init, Used
  <2>2. QED
    BY <2>1, InitRefines DEF SInv, MCInv, Mutual
<1>2. SInv => Searching
  <2> SUFFICES ASSUME SInv
               PROVE  /\ SearchesRight(Neighbours)
                      /\ impl = "graph" => ComponentsRight(Neighbours)
    BY DEF Searching
  <2> DEFINE next == Neighbours
             n == size
  <2>1. n \in Nat /\ next \in Net(n) /\ (impl = "graph" => BothWaysIn(n, next))
    BY NeighboursAre
  <2> HIDE DEF next, n
  <2>2. SearchesRight(next)
    <3>1. DOMAIN next = 0 .. n - 1
      BY <2>1, NetIs
    <3>2. ASSUME NEW start \in 0 .. n - 1
          PROVE  /\ ShowsReachable(next, start, bfs(next, start))
                 /\ BreadthFirst(next, start, bfs(next, start))
                 /\ ShowsReachable(next, start, dfs(next, start))
                 /\ DepthFirst(next, dfs(next, start))
      BY <2>1, <3>2, BfsIsRight, DfsIsRight
    <3>3. QED
      BY <3>1, <3>2 DEF SearchesRight
  <2>3. impl = "graph" => ComponentsRight(next)
    BY <2>1, ComponentsAreRight
  <2>4. QED
    BY <2>2, <2>3 DEF next
<1>3. QED
  BY <1>1, <1>2, SearchStep, PTL DEF MCSpec
-----------------------------------------------------------------------------
(***************************************************************************)
(* Sets of edges.  An edge is between the two vertices it joins, and a set *)
(* of vertices is whole when no edge leaves it.                            *)
(***************************************************************************)
Edged(E) ==
  /\ size \in Nat /\ Used = 0 .. size - 1 /\ IsFiniteSet(E)
  /\ \A e \in E : e.u \in 0 .. size - 1 /\ e.v \in 0 .. size - 1

Between(e, a, b) == (e.u = a /\ e.v = b) \/ (e.u = b /\ e.v = a)

Whole(E, C) == \A e \in E : e.u \in C <=> e.v \in C

\* A finite set as a sequence.
LEMMA SetToSeqIs ==
  ASSUME NEW S, IsFiniteSet(S)
  PROVE  /\ SetToSeq(S) \in Seq(S)
         /\ \A t : t \in S <=> \E i \in 1 .. Len(SetToSeq(S)) : SetToSeq(S)[i] = t
<1> DEFINE m == Cardinality(S)
           q == SetToSeq(S)
<1>1. m \in Nat /\ ExistsBijection(1 .. m, S)
  BY FS_CardinalityType
<1>2. \E f \in [1 .. m -> S] : IsInjective(f)
  BY <1>1 DEF ExistsBijection, Bijection, Injection
<1>3. q \in [1 .. m -> S] /\ IsInjective(q)
  BY <1>2 DEF SetToSeq
<1>4. q \in Surjection(1 .. m, S)
  <2>1. q \in Injection(1 .. m, S)
    BY <1>3 DEF Injection
  <2>2. IsFiniteSet(1 .. m) /\ Cardinality(1 .. m) = m
    <3> HIDE DEF m
    <3>1. QED
      BY <1>1, FS_Bijection, FS_CountingElements, FS_NatBijection, FS_Interval
  <2> HIDE DEF q
  <2>3. QED
    BY <2>1, <2>2, FS_Injection
<1> HIDE DEF q, m
<1>5. q \in Seq(S) /\ Len(q) = m
  BY <1>1, <1>3
<1>6. QED
  BY <1>1, <1>3, <1>4, <1>5 DEF Surjection, q

\* An edge set as lists of neighbours.
LEMMA ListsAre ==
  ASSUME NEW E, Edged(E)
  PROVE  /\ Lists(E) \in Net(size)
         /\ \A a, b \in 0 .. size - 1 : To(Lists(E), a, b) <=> \E e \in E : Between(e, a, b)
         /\ BothWaysIn(size, Lists(E))
<1> DEFINE B(v) == {e.u : e \in {f \in E : f.v = v}} \cup {e.v : e \in {f \in E : f.u = v}}
<1>1. size \in Nat /\ Used = 0 .. size - 1 /\ \A e \in E : e.u \in Used /\ e.v \in Used
  BY DEF Edged
<1>2. ASSUME NEW v \in Used
      PROVE  /\ Lists(E)[v] \in Seq(Used)
             /\ \A b : To(Lists(E), v, b) <=> \E e \in E : Between(e, v, b)
  <2>1. Lists(E)[v] = SetToSeq(B(v))
    BY DEF Lists
  <2>2. B(v) \subseteq Used
    BY <1>1
  <2>3. IsFiniteSet(Used)
    BY <1>1, FS_Interval
  <2>4. \A b : b \in B(v) <=> \E e \in E : Between(e, v, b)
    BY DEF Between
  <2> HIDE DEF B
  <2>5. IsFiniteSet(B(v))
    BY <2>2, <2>3, FS_Subset
  <2> DEFINE S == B(v)
  <2> HIDE DEF S
  <2>6. /\ SetToSeq(S) \in Seq(S)
        /\ \A t : t \in S <=> \E i \in 1 .. Len(SetToSeq(S)) : SetToSeq(S)[i] = t
    BY <2>5, SetToSeqIs DEF S
  <2>7. SetToSeq(S) \in Seq(Used)
    BY <2>2, <2>6 DEF S
  <2>8. QED
    BY <2>1, <2>4, <2>6, <2>7 DEF S, To
<1>3. Lists(E) \in Net(size)
  <2>1. DOMAIN Lists(E) = Used
    BY DEF Lists
  <2>2. Lists(E) = [v \in Used |-> Lists(E)[v]]
    BY DEF Lists
  <2>3. QED
    BY <1>1, <1>2, <2>2 DEF Net
<1>4. QED
  BY <1>1, <1>2, <1>3 DEF BothWaysIn, Between
Grown(E, v, f) ==
  /\ f[0] = {v}
  /\ \A d \in 0 .. size - 1 :
       f[d + 1] = f[d] \cup UNION {{e.u, e.v} : e \in {g \in E : g.u \in f[d] \/ g.v \in f[d]}}

\* A component is grown by the step.
LEMMA GrownIs ==
  ASSUME NEW E, NEW v, size \in Nat
  PROVE  \E f : /\ Component(E, v) = f[size]
              /\ Grown(E, v, f)
<1> DEFINE begin == {v}
           turns == size
           St(d, x) == x \cup UNION {{e.u, e.v} : e \in {g \in E : g.u \in x \/ g.v \in x}}
           rhs(top, f) == [d \in 0 .. top |-> IF d = 0 THEN begin ELSE St(d, f[d - 1])]
           S == {k \in Nat : \E f : f = rhs(k, f)}
           loop == CHOOSE f : f = rhs(turns, f)
<1>1. Component(E, v) = loop[turns]
  BY Zenon DEF Component
<1>2. turns \in Nat
  OBVIOUS
<1> HIDE DEF begin, turns, St
<1>3. 0 \in S
  <2>1. [d \in 0 .. 0 |-> begin] = rhs(0, [d \in 0 .. 0 |-> begin])
    OBVIOUS
  <2>2. QED
    BY <2>1
<1>4. ASSUME NEW k \in Nat, k \in S PROVE k + 1 \in S
  <2>1. PICK f : f = rhs(k, f)
    BY <1>4
  <2> DEFINE h == [d \in 0 .. k + 1 |-> IF d = k + 1 THEN St(d, f[k]) ELSE f[d]]
  <2>2. \A d \in 0 .. k : f[d] = IF d = 0 THEN begin ELSE St(d, f[d - 1])
    BY <2>1
  <2>3. ASSUME NEW d \in 0 .. k + 1
        PROVE  h[d] = IF d = 0 THEN begin ELSE St(d, h[d - 1])
    <3>1. CASE d = k + 1
      BY <3>1
    <3>2. CASE d # k + 1
      <4>1. d \in 0 .. k /\ (d # 0 => d - 1 \in 0 .. k /\ d - 1 # k + 1)
        BY <3>2
      <4>2. h[d] = f[d] /\ (d # 0 => h[d - 1] = f[d - 1])
        BY <3>2, <4>1
      <4>3. f[d] = IF d = 0 THEN begin ELSE St(d, f[d - 1])
        BY <2>2, <4>1
      <4> HIDE DEF h
      <4>4. QED
        BY <4>2, <4>3
    <3>3. QED
      BY <3>1, <3>2
  <2>4. h = rhs(k + 1, h)
    BY <2>3
  <2> HIDE DEF h, rhs
  <2>5. QED
    BY <2>4
<1> HIDE DEF S
<1>5. turns \in S
  BY <1>2, <1>3, <1>4, Induction
<1>6. loop = rhs(turns, loop)
  <2> HIDE DEF rhs
  <2>1. QED
    BY <1>5 DEF S
<1> HIDE DEF loop
<1>7. loop[0] = begin
  BY <1>2, <1>6
<1>8. ASSUME NEW d \in 0 .. turns - 1 PROVE loop[d + 1] = St(d + 1, loop[d])
  <2>1. d + 1 \in 0 .. turns /\ d + 1 # 0 /\ (d + 1) - 1 = d
    BY <1>2
  <2>2. loop[d + 1] = St(d + 1, loop[(d + 1) - 1])
    BY <1>6, <2>1
  <2>3. QED
    BY <2>1, <2>2
<1>9. QED
  BY <1>1, <1>7, <1>8 DEF begin, turns, St, Grown

\* What is joined is what is reached by the lists.
LEMMA ComponentReached ==
  ASSUME NEW E, Edged(E), NEW v \in 0 .. size - 1
  PROVE  Component(E, v) = Reachable(Lists(E), v)
<1> DEFINE next == Lists(E)
<1>1. size \in Nat /\ next \in Net(size)
  BY ListsAre DEF Edged
<1>2. \A a, b \in 0 .. size - 1 : To(next, a, b) <=> \E e \in E : Between(e, a, b)
  BY ListsAre
<1>3. \A e \in E : e.u \in 0 .. size - 1 /\ e.v \in 0 .. size - 1
  BY DEF Edged
<1>4. PICK f : Component(E, v) = f[size] /\ Grown(E, v, f)
  BY <1>1, GrownIs
<1>5. Reachable(next, v) = Within(next, v, size)
  BY <1>1, NetIs DEF Reachable
<1> HIDE DEF next
<1> DEFINE S == {d \in Nat : d <= size => f[d] = Within(next, v, d)}
<1>6. 0 \in S
  BY <1>4, WithinNext DEF Grown
<1>7. ASSUME NEW d \in Nat, d \in S PROVE d + 1 \in S
  <2> SUFFICES ASSUME d + 1 <= size PROVE f[d + 1] = Within(next, v, d + 1)
    OBVIOUS
  <2> DEFINE C == Within(next, v, d)
             D == UNION {{e.u, e.v} : e \in {g \in E : g.u \in C \/ g.v \in C}}
  <2>1. f[d] = C /\ d \in 0 .. size - 1
    BY <1>1, <1>7
  <2>2. f[d + 1] = C \cup D
    BY <1>4, <2>1 DEF Grown
  <2>3. /\ C \subseteq 0 .. size - 1
        /\ \A t : t \in Within(next, v, d + 1) <=> t \in C \/ OneOn(next, C, t)
    BY <1>1, WithinStep
  <2> DEFINE W == Within(next, v, d + 1)
  <2> HIDE DEF C, W
  <2>4. \A t : t \in D <=> \E e \in E : (e.u \in C \/ e.v \in C) /\ (t = e.u \/ t = e.v)
    OBVIOUS
  <2> HIDE DEF D
  <2>5. ASSUME NEW t PROVE t \in C \/ t \in D <=> t \in C \/ OneOn(next, C, t)
    <3>1. ASSUME t \in D PROVE t \in C \/ OneOn(next, C, t)
      <4>1. PICK e \in E : (e.u \in C \/ e.v \in C) /\ (t = e.u \/ t = e.v)
        BY <2>4, <3>1
      <4>2. t \in C \/ \E x \in C : To(next, x, t)
        BY <1>2, <1>3, <4>1 DEF Between
      <4>3. QED
        BY <4>2 DEF To, OneOn
    <3>2. ASSUME OneOn(next, C, t) PROVE t \in C \/ t \in D
      <4>1. PICK x \in C : To(next, x, t)
        BY <3>2 DEF To, OneOn
      <4>2. t \in 0 .. size - 1
        BY <1>1, <2>3, <4>1, NetIs DEF To
      <4>3. PICK e \in E : Between(e, x, t)
        BY <1>2, <2>3, <4>1, <4>2
      <4>4. QED
        BY <2>4, <4>1, <4>3 DEF Between
    <3>3. QED
      BY <3>1, <3>2
  <2>6. f[d + 1] = W
    BY <2>2, <2>3, <2>5 DEF W
  <2>7. QED
    BY <2>6 DEF W
<1> HIDE DEF S
<1>8. size \in S
  BY <1>1, <1>6, <1>7, Induction
<1>9. QED
  BY <1>1, <1>4, <1>5, <1>8 DEF S, next

(***************************************************************************)
(* A component is the least whole set with its vertex, and so components   *)
(* are the classes of a partition.                                         *)
(***************************************************************************)
LEMMA ComponentIs ==
  ASSUME NEW E, Edged(E), NEW v \in 0 .. size - 1
  PROVE  /\ v \in Component(E, v) /\ Component(E, v) \subseteq 0 .. size - 1
         /\ Whole(E, Component(E, v))
         /\ \A C : v \in C /\ Whole(E, C) => Component(E, v) \subseteq C
<1> DEFINE next == Lists(E)
           R == Reachable(next, v)
<1>1. size \in Nat /\ next \in Net(size)
  BY ListsAre DEF Edged
<1>2. \A a, b \in 0 .. size - 1 : To(next, a, b) <=> \E e \in E : Between(e, a, b)
  BY ListsAre
<1>3. \A e \in E : e.u \in 0 .. size - 1 /\ e.v \in 0 .. size - 1
  BY DEF Edged
<1>4. Component(E, v) = R
  BY ComponentReached
<1> HIDE DEF next
<1>5. /\ v \in R /\ R \subseteq 0 .. size - 1 /\ Closed(next, R)
      /\ \A C : v \in C /\ Closed(next, C) => R \subseteq C
  BY <1>1, ReachableIs
<1> HIDE DEF R
<1>6. Whole(E, R)
  <2> SUFFICES ASSUME NEW e \in E PROVE e.u \in R <=> e.v \in R
    BY DEF Whole
  <2>1. To(next, e.u, e.v) /\ To(next, e.v, e.u)
    BY <1>2, <1>3 DEF Between
  <2>2. QED
    BY <1>5, <2>1 DEF To, Closed
<1>7. ASSUME NEW C, v \in C, Whole(E, C) PROVE R \subseteq C
  <2> DEFINE D == C \cap (0 .. size - 1)
  <2>1. Closed(next, D)
    <3> SUFFICES ASSUME NEW x \in D, NEW i \in 1 .. Len(next[x]) PROVE next[x][i] \in D
      BY DEF Closed
    <3>1. next[x][i] \in 0 .. size - 1 /\ To(next, x, next[x][i])
      BY <1>1, NetIs DEF To
    <3>2. PICK e \in E : Between(e, x, next[x][i])
      BY <1>2, <3>1
    <3>3. QED
      BY <1>7, <3>1, <3>2 DEF Between, Whole
  <2>2. R \subseteq D
    BY <1>5, <1>7, <2>1
  <2>3. QED
    BY <2>2
<1>8. QED
  BY <1>4, <1>5, <1>6, <1>7

\* Components are the classes of an equivalence.
LEMMA ComponentClass ==
  ASSUME NEW E, Edged(E), NEW a \in 0 .. size - 1, NEW b \in 0 .. size - 1
  PROVE  /\ b \in Component(E, a) <=> Component(E, a) = Component(E, b)
         /\ b \in Component(E, a) <=> a \in Component(E, b)
         /\ b \notin Component(E, a) => Component(E, a) \cap Component(E, b) = {}
<1> DEFINE C(x) == Component(E, x)
<1>1. ASSUME NEW x \in 0 .. size - 1, NEW y \in C(x) PROVE C(x) = C(y)
  <2>1. y \in 0 .. size - 1 /\ Whole(E, C(x)) /\ x \in C(x)
    BY ComponentIs
  <2>2. C(y) \subseteq C(x)
    BY <2>1, ComponentIs
  <2>3. x \in C(y)
    <3> SUFFICES ASSUME x \notin C(y) PROVE FALSE
      OBVIOUS
    <3> DEFINE D == C(x) \ C(y)
    <3>1. Whole(E, C(y)) /\ y \in C(y)
      BY <2>1, ComponentIs
    <3> HIDE DEF C
    <3>2. Whole(E, D)
      BY <2>1, <3>1 DEF Whole
    <3>3. x \in D /\ y \notin D
      BY <2>1, <3>1
    <3> HIDE DEF D
    <3> USE DEF C
    <3>4. C(x) \subseteq D
      BY <3>2, <3>3, ComponentIs
    <3>5. QED
      BY <1>1, <3>3, <3>4
  <2>4. C(x) \subseteq C(y)
    BY <2>1, <2>3, ComponentIs
  <2>5. QED
    BY <2>2, <2>4
<1>2. a \in C(a) /\ b \in C(b) /\ C(a) \subseteq 0 .. size - 1
  BY ComponentIs
<1>3. \A t \in C(a) : C(t) = C(a)
  BY <1>1
<1>4. \A t \in C(b) : C(t) = C(b)
  BY <1>1
<1> HIDE DEF C
<1>5. b \in C(a) <=> C(a) = C(b)
  BY <1>2, <1>3
<1>6. a \in C(b) <=> C(a) = C(b)
  BY <1>2, <1>4
<1>7. \A t : t \in C(a) /\ t \in C(b) => C(a) = C(b)
  BY <1>3, <1>4
<1>8. QED
  BY <1>5, <1>6, <1>7 DEF C

\* More edges join more.
LEMMA ComponentGrows ==
  ASSUME NEW E, Edged(E), NEW F, Edged(F), NEW v \in 0 .. size - 1,
         \A e \in E : e.v \in Component(F, e.u)
  PROVE  Component(E, v) \subseteq Component(F, v)
<1> DEFINE C == Component(F, v)
<1>1. v \in C
  BY ComponentIs
<1>2. Whole(E, C)
  <2> SUFFICES ASSUME NEW e \in E PROVE e.u \in C <=> e.v \in C
    BY DEF Whole
  <2>1. e.u \in 0 .. size - 1 /\ e.v \in 0 .. size - 1 /\ e.v \in Component(F, e.u)
    BY DEF Edged
  <2>2. Component(F, e.u) = Component(F, e.v)
    BY <2>1, ComponentClass
  <2>3. QED
    BY <2>1, <2>2, ComponentClass
<1> HIDE DEF C
<1>3. QED
  BY <1>1, <1>2, ComponentIs DEF C

\* Edge sets made smaller and larger.
LEMMA EdgedPart ==
  ASSUME NEW E, Edged(E), NEW F, F \subseteq E
  PROVE  Edged(F) /\ Cardinality(F) \in Nat /\ Cardinality(F) <= Cardinality(E)
<1>1. IsFiniteSet(E) /\ F \in SUBSET E
  BY DEF Edged
<1>2. IsFiniteSet(F) /\ Cardinality(F) <= Cardinality(E)
  BY <1>1, FS_Subset
<1>3. QED
  BY <1>1, <1>2, FS_CardinalityType DEF Edged

\* An edge more.
LEMMA EdgedMore ==
  ASSUME NEW E, Edged(E), NEW e, e.u \in 0 .. size - 1, e.v \in 0 .. size - 1
  PROVE  /\ Edged(E \cup {e})
         /\ e \notin E => Cardinality(E \cup {e}) = Cardinality(E) + 1
<1>1. IsFiniteSet(E)
  BY DEF Edged
<1>2. IsFiniteSet(E \cup {e})
      /\ Cardinality(E \cup {e}) = IF e \in E THEN Cardinality(E) ELSE Cardinality(E) + 1
  BY <1>1, FS_AddElement
<1>3. QED
  BY <1>2 DEF Edged

(***************************************************************************)
(* An edge makes one component of those at its ends.                       *)
(***************************************************************************)
LEMMA ComponentAdds ==
  ASSUME NEW E, Edged(E), NEW e, e.u \in 0 .. size - 1, e.v \in 0 .. size - 1,
         NEW U, U = Component(E, e.u) \cup Component(E, e.v), NEW x \in 0 .. size - 1
  PROVE  Component(E \cup {e}, x) = IF x \in U THEN U ELSE Component(E, x)
<1> DEFINE A == Component(E, e.u)
           B == Component(E, e.v)
           X == Component(E, x)
           K == Component(E \cup {e}, x)
           Y == IF x \in U THEN U ELSE X
<1>1. Edged(E \cup {e})
  BY EdgedMore
<1>2. e.u \in A /\ e.v \in B /\ x \in X /\ Whole(E, A) /\ Whole(E, B) /\ Whole(E, X)
  BY ComponentIs
<1>3. (e.u \in X <=> x \in A) /\ (e.v \in X <=> x \in B)
  BY ComponentClass
<1>4. x \in K /\ Whole(E \cup {e}, K) /\ \A C : x \in C /\ Whole(E \cup {e}, C) => K \subseteq C
  BY <1>1, ComponentIs
<1>5. X \subseteq K
  <2>1. Whole(E, K)
    BY <1>4 DEF Whole
  <2> HIDE DEF K
  <2>2. QED
    BY <1>4, <2>1, ComponentIs
<1>6. e.u \in K => A \subseteq K
  <2>1. Whole(E, K)
    BY <1>4 DEF Whole
  <2> HIDE DEF K
  <2>2. QED
    BY <2>1, ComponentIs
<1>7. e.v \in K => B \subseteq K
  <2>1. Whole(E, K)
    BY <1>4 DEF Whole
  <2> HIDE DEF K
  <2>2. QED
    BY <2>1, ComponentIs
<1>8. e.u \in K <=> e.v \in K
  BY <1>4 DEF Whole
<1>9. U = A \cup B
  OBVIOUS
<1> HIDE DEF A, B, X, K
<1>10. Whole(E \cup {e}, Y)
  <2>1. ASSUME NEW g \in E PROVE g.u \in Y <=> g.v \in Y
    BY <1>2, <1>9 DEF Whole
  <2>2. e.u \in Y <=> e.v \in Y
    BY <1>2, <1>3, <1>9
  <2> HIDE DEF Y
  <2>3. QED
    BY <2>1, <2>2 DEF Whole
<1>11. K \subseteq Y
  <2>1. x \in Y
    BY <1>2
  <2> HIDE DEF Y
  <2>2. QED
    BY <1>4, <1>10, <2>1
<1>12. Y \subseteq K
  BY <1>3, <1>5, <1>6, <1>7, <1>8, <1>9
<1>13. QED
  BY <1>11, <1>12 DEF K, X

-----------------------------------------------------------------------------
\* Components are finitely many.
LEMMA ComponentsFinite ==
  ASSUME NEW E, Edged(E)
  PROVE  /\ IsFiniteSet(Components(E)) /\ Cardinality(Components(E)) \in Nat
         /\ \A C : C \in Components(E) <=> \E v \in 0 .. size - 1 : C = Component(E, v)
<1> DEFINE f == [v \in Used |-> Component(E, v)]
<1>1. size \in Nat /\ Used = 0 .. size - 1
  BY DEF Edged
<1>2. \A C : C \in Components(E) <=> \E v \in Used : C = Component(E, v)
  BY DEF Components
<1>3. f \in Surjection(Used, Components(E))
  BY <1>2 DEF Surjection
<1>4. IsFiniteSet(Used)
  BY <1>1, FS_Interval
<1> HIDE DEF f
<1>5. IsFiniteSet(Components(E))
  BY <1>3, <1>4, FS_Surjection
<1>6. QED
  BY <1>1, <1>2, <1>5, FS_CardinalityType

\* An edge between two components leaves one less.
LEMMA ComponentsAdd ==
  ASSUME NEW E, Edged(E), NEW e, e.u \in 0 .. size - 1, e.v \in 0 .. size - 1
  PROVE  Cardinality(Components(E \cup {e})) =
           IF e.v \in Component(E, e.u) THEN Cardinality(Components(E))
           ELSE Cardinality(Components(E)) - 1
<1> DEFINE A == Component(E, e.u)
           B == Component(E, e.v)
           U == A \cup B
           all == Components(E)
           rest == all \ {A, B}
           more == Components(E \cup {e})
<1>1. /\ IsFiniteSet(all) /\ Cardinality(all) \in Nat
      /\ \A C : C \in all <=> \E v \in 0 .. size - 1 : C = Component(E, v)
  BY ComponentsFinite
<1>2. \A C : C \in more <=> \E v \in 0 .. size - 1 : C = Component(E \cup {e}, v)
  BY EdgedMore, ComponentsFinite
<1>3. \A v \in 0 .. size - 1 :
        Component(E \cup {e}, v) = IF v \in U THEN U ELSE Component(E, v)
  BY ComponentAdds
<1>4. e.u \in A /\ e.v \in B /\ (e.v \in A <=> A = B)
  BY ComponentIs, ComponentClass
<1>5. \A v \in 0 .. size - 1 :
        /\ v \in Component(E, v)
        /\ v \in A <=> A = Component(E, v)
        /\ v \in B <=> B = Component(E, v)
        /\ e.u \in Component(E, v) <=> A = Component(E, v)
  BY ComponentIs, ComponentClass
<1>6. A \in all /\ B \in all
  BY <1>1
<1> HIDE DEF A, B, all
<1>7. more = rest \cup {U}
  <2>1. ASSUME NEW C \in more PROVE C \in rest \cup {U}
    <3>1. PICK v \in 0 .. size - 1 : C = Component(E \cup {e}, v)
      BY <1>2
    <3>2. CASE v \in U
      BY <1>3, <3>1, <3>2
    <3>3. CASE v \notin U
      BY <1>1, <1>3, <1>5, <3>1, <3>3
    <3>4. QED
      BY <3>2, <3>3
  <2>2. ASSUME NEW C \in rest PROVE C \in more
    <3>1. PICK v \in 0 .. size - 1 : C = Component(E, v)
      BY <1>1
    <3>2. v \notin U
      BY <1>5, <3>1
    <3>3. QED
      BY <1>2, <1>3, <3>1, <3>2
  <2>3. U \in more
    BY <1>2, <1>3, <1>4
  <2>4. QED
    BY <2>1, <2>2, <2>3
<1>8. U \notin rest
  <2> SUFFICES ASSUME U \in rest PROVE FALSE
    OBVIOUS
  <2>1. PICK v \in 0 .. size - 1 : U = Component(E, v)
    BY <1>1
  <2>2. U = A
    BY <1>4, <1>5, <2>1
  <2>3. QED
    BY <2>2
<1>9. IsFiniteSet(rest) /\ Cardinality(rest) = Cardinality(all) - (IF A = B THEN 1 ELSE 2)
  <2>1. /\ IsFiniteSet(all \ {A})
        /\ Cardinality(all \ {A}) = Cardinality(all) - 1
    BY <1>1, <1>6, FS_RemoveElement
  <2>2. /\ IsFiniteSet((all \ {A}) \ {B})
        /\ Cardinality((all \ {A}) \ {B}) =
             IF B \in all \ {A} THEN Cardinality(all \ {A}) - 1 ELSE Cardinality(all \ {A})
    BY <2>1, FS_RemoveElement
  <2>3. rest = (all \ {A}) \ {B}
    OBVIOUS
  <2>4. B \in all \ {A} <=> A # B
    BY <1>6
  <2> HIDE DEF rest
  <2>5. QED
    BY <1>1, <2>1, <2>2, <2>3, <2>4
<1> HIDE DEF rest, U
<1>10. Cardinality(more) = Cardinality(rest) + 1
  BY <1>7, <1>8, <1>9, FS_AddElement
<1> HIDE DEF more
<1>11. Cardinality(more) = IF A = B THEN Cardinality(all) ELSE Cardinality(all) - 1
  BY <1>1, <1>9, <1>10
<1>12. QED
  BY <1>4, <1>11 DEF A, all, more

\* Without edges everyone is alone.
LEMMA NoEdges ==
  ASSUME size \in Nat, Used = 0 .. size - 1
  PROVE  /\ Edged({}) /\ Cardinality({}) = 0
         /\ \A v \in 0 .. size - 1 : Component({}, v) = {v}
         /\ Cardinality(Components({})) = size
<1>1. Edged({}) /\ Cardinality({}) = 0
  BY FS_EmptySet DEF Edged
<1>2. ASSUME NEW v \in 0 .. size - 1 PROVE Component({}, v) = {v}
  <2>1. v \in {v} /\ Whole({}, {v})
    BY DEF Whole
  <2>2. v \in Component({}, v) /\ Component({}, v) \subseteq {v}
    BY <1>1, <2>1, ComponentIs
  <2>3. QED
    BY <2>2
<1>3. Cardinality(Components({})) = size
  <2> DEFINE f == [v \in Used |-> {v}]
  <2>1. /\ \A C : C \in Components({}) <=> \E v \in Used : C = {v}
    BY <1>2 DEF Components
  <2>2. f \in [Used -> Components({})] /\ (\A x, y \in Used : f[x] = f[y] => x = y)
        /\ \A C \in Components({}) : \E x \in Used : f[x] = C
    BY <2>1
  <2>3. IsFiniteSet(Used) /\ Cardinality(Used) = size
    BY FS_Interval, CellsCount
  <2> DEFINE T == Components({})
  <2> HIDE DEF f, T
  <2>4. f \in [Used -> T] /\ (\A x, y \in Used : f[x] = f[y] => x = y)
        /\ \A C \in T : \E x \in Used : f[x] = C
    BY <2>2 DEF T
  <2>5. Cardinality(T) = Cardinality(Used)
    <3>1. f \in Bijection(Used, T)
      BY <2>4 DEF Bijection, Injection, Surjection, IsInjective
    <3>2. QED
      BY <2>3, <3>1, FS_Bijection DEF ExistsBijection
  <2>6. QED
    BY <2>3, <2>5 DEF T
<1>4. QED
  BY <1>1, <1>2, <1>3

(***************************************************************************)
(* Each edge left out adds at most one component.                          *)
(***************************************************************************)
LEMMA FewerEdges ==
  ASSUME NEW E, Edged(E), NEW F, F \subseteq E
  PROVE  /\ Cardinality(Components(E)) <= Cardinality(Components(F))
         /\ Cardinality(Components(F)) + Cardinality(F)
              <= Cardinality(Components(E)) + Cardinality(E)
<1> DEFINE Few(D) == /\ Cardinality(Components(E)) <= Cardinality(Components(D))
                     /\ Cardinality(Components(D)) + Cardinality(D)
                          <= Cardinality(Components(E)) + Cardinality(E)
           S == {k \in Nat : \A D \in SUBSET E : Cardinality(D) + k = Cardinality(E) => Few(D)}
<1>1. IsFiniteSet(E) /\ Cardinality(E) \in Nat /\ Cardinality(Components(E)) \in Nat
  BY ComponentsFinite, FS_CardinalityType DEF Edged
<1>2. 0 \in S
  <2> SUFFICES ASSUME NEW D \in SUBSET E, Cardinality(D) + 0 = Cardinality(E) PROVE Few(D)
    OBVIOUS
  <2>1. Cardinality(D) \in Nat
    BY EdgedPart
  <2>2. D = E
    BY <1>1, <2>1, FS_Subset
  <2>3. QED
    BY <1>1, <2>2
<1>3. ASSUME NEW k \in Nat, k \in S PROVE k + 1 \in S
  <2> SUFFICES ASSUME NEW D \in SUBSET E, Cardinality(D) + (k + 1) = Cardinality(E) PROVE Few(D)
    OBVIOUS
  <2>1. Edged(D) /\ Cardinality(D) \in Nat /\ Cardinality(Components(D)) \in Nat
    BY EdgedPart, ComponentsFinite
  <2>2. PICK e \in E : e \notin D
    <3>1. D = E => Cardinality(E) + (k + 1) = Cardinality(E)
      OBVIOUS
    <3>2. D # E
      BY <1>1, <3>1
    <3>3. QED
      BY <3>2
  <2>3. e.u \in 0 .. size - 1 /\ e.v \in 0 .. size - 1
    BY DEF Edged
  <2>4. Cardinality(D \cup {e}) = Cardinality(D) + 1
    BY <2>1, <2>2, <2>3, EdgedMore
  <2>5. Cardinality(Components(D \cup {e})) \in
          {Cardinality(Components(D)), Cardinality(Components(D)) - 1}
    BY <2>1, <2>3, ComponentsAdd
  <2>6. Few(D \cup {e})
    <3>1. D \cup {e} \in SUBSET E /\ Cardinality(D \cup {e}) + k = Cardinality(E)
      BY <2>1, <2>4
    <3> HIDE DEF Few
    <3>2. QED
      BY <1>3, <3>1
  <2>7. QED
    BY <1>1, <2>1, <2>4, <2>5, <2>6
<1> HIDE DEF S
<1>4. Cardinality(F) \in Nat /\ Cardinality(F) <= Cardinality(E)
  BY EdgedPart
<1>5. Cardinality(E) - Cardinality(F) \in Nat
  BY <1>1, <1>4
<1>6. Cardinality(E) - Cardinality(F) \in S
  BY <1>2, <1>3, <1>5, Induction
<1>7. Few(F)
  <2>1. Cardinality(F) + (Cardinality(E) - Cardinality(F)) = Cardinality(E)
    BY <1>1, <1>4
  <2> HIDE DEF Few
  <2>2. QED
    BY <1>6, <2>1 DEF S
<1>8. QED
  BY <1>7

(***************************************************************************)
(* A forest has as many edges as it takes, and so has each part of it.     *)
(***************************************************************************)
Thrifty(E) == Cardinality(E) + Cardinality(Components(E)) = size

\* No set of edges has fewer edges than a forest of its components.
LEMMA ThriftyParts ==
  ASSUME NEW E, Edged(E), NEW F, F \subseteq E
  PROVE  /\ Cardinality(F) + Cardinality(Components(F)) >= size
         /\ Thrifty(E) => Thrifty(F)
<1>1. Edged(F) /\ Cardinality(F) \in Nat /\ Cardinality(E) \in Nat
  BY EdgedPart
<1>2. Cardinality(Components(F)) \in Nat /\ Cardinality(Components(E)) \in Nat
  BY <1>1, ComponentsFinite
<1>3. size \in Nat /\ Used = 0 .. size - 1
  BY DEF Edged
<1>4. size + 0 <= Cardinality(Components(F)) + Cardinality(F)
  BY <1>1, <1>3, FewerEdges, NoEdges
<1>5. Cardinality(Components(F)) + Cardinality(F) <= Cardinality(Components(E)) + Cardinality(E)
  BY FewerEdges
<1>6. QED
  BY <1>1, <1>2, <1>3, <1>4, <1>5 DEF Thrifty
-----------------------------------------------------------------------------
(***************************************************************************)
(* Totals.  Sums of a set's parts, each as its fold makes it: one edge is  *)
(* chosen and added to the rest's.                                         *)
(***************************************************************************)
Weighted(E) == IsFiniteSet(E) /\ \A e \in E : e.w \in Int

Pick(s) == CHOOSE x \in s : TRUE

Sums(E, f) ==
  \A s \in SUBSET E :
    /\ f[s] \in Int
    /\ f[s] = IF s = {} THEN 0 ELSE Pick(s).w + f[s \ {Pick(s)}]

\* Parts of a finite set, and one with an element less.
LEMMA PartFinite ==
  ASSUME NEW E, IsFiniteSet(E), NEW s \in SUBSET E
  PROVE  /\ IsFiniteSet(s) /\ Cardinality(s) \in Nat /\ (Cardinality(s) = 0 <=> s = {})
         /\ \A x \in s : IsFiniteSet(s \ {x}) /\ Cardinality(s \ {x}) = Cardinality(s) - 1
<1>1. IsFiniteSet(s)
  BY FS_Subset
<1>2. Cardinality(s) \in Nat /\ (Cardinality(s) = 0 <=> s = {})
  BY <1>1, FS_CardinalityType, FS_EmptySet
<1>3. QED
  BY <1>1, <1>2, FS_RemoveElement

\* The fold is a sum of parts.
LEMMA TotalIs ==
  ASSUME NEW E, Weighted(E)
  PROVE  \E f : Total(E) = f[E] /\ Sums(E, f)
<1> DEFINE D == SUBSET E
           W == [s \in D |-> Int]
           F == Into(D, Int, W)
           sum(s, f) == IF s = {} THEN 0 ELSE Pick(s).w + f[s \ {Pick(s)}]
           step == [y \in D \X F |-> sum(y[1], y[2])]
           rank == [s \in D |-> Cardinality(s)]
           base == [s \in D |-> 0]
           rhs(f) == [s \in D |-> sum(s, f)]
           found == CHOOSE f : f = rhs(f)
<1>1. \A s \in D : /\ Cardinality(s) \in Nat
                   /\ s # {} => /\ Pick(s) \in s /\ Pick(s).w \in Int
                                /\ s \ {Pick(s)} \in D
                                /\ Cardinality(s \ {Pick(s)}) < Cardinality(s)
  <2> SUFFICES ASSUME NEW s \in D
               PROVE  /\ Cardinality(s) \in Nat
                      /\ s # {} => /\ Pick(s) \in s /\ Pick(s).w \in Int
                                   /\ s \ {Pick(s)} \in D
                                   /\ Cardinality(s \ {Pick(s)}) < Cardinality(s)
    OBVIOUS
  <2>1. s # {} => Pick(s) \in s
    BY DEF Pick
  <2>2. Cardinality(s) \in Nat /\ \A x \in s : Cardinality(s \ {x}) = Cardinality(s) - 1
    BY PartFinite DEF Weighted
  <2>3. QED
    BY <2>1, <2>2 DEF Weighted
<1>2. base \in F
  BY DEF Into
<1>3. rank \in [D -> Nat]
  BY <1>1
<1>4. \A f \in F : \A s \in D : f[s] \in Int
  BY DEF Into
<1>5. ASSUME NEW s \in D, NEW f \in F PROVE sum(s, f) \in Int /\ step[<<s, f>>] = sum(s, f)
  <2>1. sum(s, f) \in Int
    <3>1. CASE s = {}
      BY <3>1
    <3>2. CASE s # {}
      <4>1. Pick(s).w \in Int /\ f[s \ {Pick(s)}] \in Int
        BY <1>1, <1>4, <3>2
      <4>2. QED
        BY <3>2, <4>1
    <3>3. QED
      BY <3>1, <3>2
  <2>2. <<s, f>> \in D \X F /\ <<s, f>>[1] = s /\ <<s, f>>[2] = f
    OBVIOUS
  <2> HIDE DEF D, F, sum
  <2>3. step[<<s, f>>] = sum(s, f)
    BY <2>2
  <2>4. QED
    BY <2>1, <2>3
<1>6. \A s \in D : \A f \in F : step[<<s, f>>] \in Int /\ step[<<s, f>>] \in W[s]
  BY <1>5
<1>7. LooksBelow(D, F, rank, step)
  <2> SUFFICES ASSUME NEW s \in D, NEW g \in F, NEW h \in F,
                      \A y \in D : rank[y] < rank[s] => g[y] = h[y]
               PROVE  step[<<s, g>>] = step[<<s, h>>]
    BY DEF LooksBelow
  <2>1. s # {} => g[s \ {Pick(s)}] = h[s \ {Pick(s)}]
    BY <1>1
  <2>2. sum(s, g) = sum(s, h)
    BY <2>1
  <2>3. QED
    BY <1>5, <2>2
<1>8. Solvable(D, F, step)
  <2> DEFINE V == Int
  <2> HIDE DEF D, W, F, step, rank, base, V
  <2>1. F = Into(D, V, W)
    BY DEF F, V
  <2>2. \A s \in D : \A f \in F : step[<<s, f>>] \in V /\ step[<<s, f>>] \in W[s]
    BY <1>6 DEF V
  <2>3. QED
    BY <1>2, <1>3, <1>7, <2>1, <2>2, RankRecursion
<1>9. PICK f \in F : \A s \in D : f[s] = step[<<s, f>>]
  BY <1>8 DEF Solvable
<1>10. f = rhs(f)
  <2>1. \A s \in D : f[s] = sum(s, f)
    BY <1>5, <1>9
  <2>2. f = [s \in D |-> f[s]]
    BY DEF Into
  <2>3. QED
    BY <2>1, <2>2
<1>11. found = rhs(found)
  <2> HIDE DEF rhs
  <2>1. QED
    BY <1>10
<1>12. Total(E) = found[E]
  BY Zenon DEF Total, FoldSet, MapThenFoldSet, Pick
<1> HIDE DEF found
<1>13. \A s \in D : found[s] = sum(s, found)
  BY <1>11
<1>14. \A s \in D : found[s] \in Int
  <2> DEFINE S == {k \in Nat : \A s \in D : Cardinality(s) = k => found[s] \in Int}
  <2>1. 0 \in S
    <3> SUFFICES ASSUME NEW s \in D, Cardinality(s) = 0 PROVE found[s] \in Int
      OBVIOUS
    <3>1. s = {}
      BY PartFinite DEF Weighted
    <3>2. found[s] = sum(s, found)
      BY <1>13
    <3>3. QED
      BY <3>1, <3>2
  <2>2. ASSUME NEW k \in Nat, k \in S PROVE k + 1 \in S
    <3> SUFFICES ASSUME NEW s \in D, Cardinality(s) = k + 1 PROVE found[s] \in Int
      OBVIOUS
    <3>1. s # {} /\ \A x \in s : Cardinality(s \ {x}) = k
      BY PartFinite DEF Weighted
    <3>2. Pick(s).w \in Int /\ found[s \ {Pick(s)}] \in Int
      BY <1>1, <2>2, <3>1
    <3>3. found[s] = sum(s, found)
      BY <1>13
    <3>4. found[s] = Pick(s).w + found[s \ {Pick(s)}]
      BY <3>1, <3>3
    <3>5. QED
      BY <3>2, <3>4
  <2> HIDE DEF S
  <2>3. Nat \subseteq S
    BY <2>1, <2>2, Induction
  <2>4. QED
    BY <1>1, <2>3 DEF S
<1>15. Sums(E, found)
  BY <1>13, <1>14 DEF Sums
<1> HIDE DEF D, W, F, step, rank, base, rhs
<1>16. QED
  BY <1>12, <1>15

\* The sums of a set are those of any larger one.
LEMMA SumsSame ==
  ASSUME NEW E, IsFiniteSet(E), NEW G \in SUBSET E, NEW f, Sums(E, f), NEW g, Sums(G, g)
  PROVE  \A s \in SUBSET G : g[s] = f[s]
<1> DEFINE S == {k \in Nat : \A s \in SUBSET G : Cardinality(s) = k => g[s] = f[s]}
<1>1. ASSUME NEW s \in SUBSET G
      PROVE  /\ g[s] = IF s = {} THEN 0 ELSE Pick(s).w + g[s \ {Pick(s)}]
             /\ f[s] = IF s = {} THEN 0 ELSE Pick(s).w + f[s \ {Pick(s)}]
  BY DEF Sums
<1>2. 0 \in S
  <2> SUFFICES ASSUME NEW s \in SUBSET G, Cardinality(s) = 0 PROVE g[s] = f[s]
    OBVIOUS
  <2>1. s = {}
    BY PartFinite
  <2>2. QED
    BY <1>1, <2>1
<1>3. ASSUME NEW k \in Nat, k \in S PROVE k + 1 \in S
  <2> SUFFICES ASSUME NEW s \in SUBSET G, Cardinality(s) = k + 1 PROVE g[s] = f[s]
    OBVIOUS
  <2>1. s \in SUBSET E
    OBVIOUS
  <2>2. s # {} /\ \A x \in s : Cardinality(s \ {x}) = k
    BY <2>1, PartFinite
  <2>3. Pick(s) \in s
    BY <2>2 DEF Pick
  <2>4. g[s \ {Pick(s)}] = f[s \ {Pick(s)}]
    BY <1>3, <2>2, <2>3
  <2>5. QED
    BY <1>1, <2>2, <2>4
<1> HIDE DEF S
<1>4. Nat \subseteq S
  BY <1>2, <1>3, Induction
<1>5. ASSUME NEW s \in SUBSET G PROVE Cardinality(s) \in Nat
  <2>1. s \in SUBSET E
    OBVIOUS
  <2>2. QED
    BY <2>1, PartFinite
<1>6. QED
  BY <1>4, <1>5 DEF S

\* Which edge is added first does not matter.
LEMMA SumsRemove ==
  ASSUME NEW E, Weighted(E), NEW f, Sums(E, f)
  PROVE  \A s \in SUBSET E : \A e \in s : f[s] = e.w + f[s \ {e}]
<1> DEFINE S == {k \in Nat : \A s \in SUBSET E : Cardinality(s) = k =>
                               \A e \in s : f[s] = e.w + f[s \ {e}]}
<1>1. 0 \in S
  <2> SUFFICES ASSUME NEW s \in SUBSET E, Cardinality(s) = 0, NEW e \in s PROVE FALSE
    OBVIOUS
  <2>1. QED
    BY PartFinite DEF Weighted
<1>2. ASSUME NEW k \in Nat, k \in S PROVE k + 1 \in S
  <2> SUFFICES ASSUME NEW s \in SUBSET E, Cardinality(s) = k + 1, NEW e \in s
               PROVE  f[s] = e.w + f[s \ {e}]
    OBVIOUS
  <2> DEFINE x == Pick(s)
  <2>1. \A y \in s : Cardinality(s \ {y}) = k /\ s \ {y} \in SUBSET E
    BY PartFinite DEF Weighted
  <2>2. x \in s /\ f[s] = x.w + f[s \ {x}]
    BY DEF Pick, Sums
  <2> HIDE DEF x
  <2>3. CASE e = x
    BY <2>2, <2>3
  <2>4. CASE e # x
    <3>1. e \in s \ {x} /\ x \in s \ {e}
      BY <2>2, <2>4
    <3>2. f[s \ {x}] = e.w + f[(s \ {x}) \ {e}]
      BY <1>2, <2>1, <2>2, <3>1
    <3>3. f[s \ {e}] = x.w + f[(s \ {e}) \ {x}]
      BY <1>2, <2>1, <3>1
    <3>4. (s \ {x}) \ {e} = (s \ {e}) \ {x}
      OBVIOUS
    <3>5. e.w \in Int /\ x.w \in Int
      BY <2>2 DEF Weighted
    <3>6. f[(s \ {e}) \ {x}] \in Int
      BY DEF Sums
    <3> DEFINE r == f[(s \ {e}) \ {x}]
    <3>7. f[s] = x.w + (e.w + r) /\ f[s \ {e}] = x.w + r
      BY <2>2, <3>2, <3>3, <3>4
    <3> HIDE DEF r
    <3>8. QED
      BY <3>5, <3>6, <3>7 DEF r
  <2>5. QED
    BY <2>3, <2>4
<1> HIDE DEF S
<1>3. Nat \subseteq S
  BY <1>1, <1>2, Induction
<1>4. \A s \in SUBSET E : Cardinality(s) \in Nat
  BY PartFinite DEF Weighted
<1>5. QED
  BY <1>3, <1>4 DEF S

\* A total is any edge and the total of the others.
LEMMA TotalRemoves ==
  ASSUME NEW E, Weighted(E)
  PROVE  /\ Total(E) \in Int
         /\ E = {} => Total(E) = 0
         /\ \A e \in E : Weighted(E \ {e}) /\ Total(E) = e.w + Total(E \ {e})
<1>1. PICK f : Total(E) = f[E] /\ Sums(E, f)
  BY TotalIs
<1>2. Total(E) \in Int /\ (E = {} => Total(E) = 0)
  BY <1>1 DEF Sums
<1>3. ASSUME NEW e \in E PROVE Weighted(E \ {e}) /\ Total(E) = e.w + Total(E \ {e})
  <2> DEFINE G == E \ {e}
  <2>1. IsFiniteSet(E) /\ IsFiniteSet(G)
    BY PartFinite DEF Weighted
  <2>2. Weighted(G)
    BY <2>1 DEF Weighted
  <2>3. G \in SUBSET E
    OBVIOUS
  <2>4. f[E] = e.w + f[G]
    BY <1>1, SumsRemove
  <2> HIDE DEF G
  <2>5. PICK g : Total(G) = g[G] /\ Sums(G, g)
    BY <2>2, TotalIs
  <2>6. g[G] = f[G]
    BY <1>1, <2>1, <2>3, <2>5, SumsSame
  <2>7. QED
    BY <1>1, <2>2, <2>4, <2>5, <2>6 DEF G
<1>4. QED
  BY <1>2, <1>3

(***************************************************************************)
(* Of two sets of as many edges, the one that has as many light edges as   *)
(* the other whatever light means weighs no more.                          *)
(***************************************************************************)
Light(E, w) == {e \in E : e.w <= w}

LightIn(k, F, T) ==
  /\ Weighted(F) /\ Weighted(T) /\ Cardinality(F) = k /\ Cardinality(T) = k
  /\ \A w \in Int : Cardinality(Light(T, w)) <= Cardinality(Light(F, w))

\* The light edges are finitely many.
LEMMA LightIs ==
  ASSUME NEW E, Weighted(E), NEW w \in Int
  PROVE  /\ IsFiniteSet(Light(E, w)) /\ Cardinality(Light(E, w)) \in Nat
         /\ Cardinality(E) \in Nat
         /\ Cardinality(Light(E, w)) <= Cardinality(E)
         /\ Cardinality(Light(E, w)) = Cardinality(E) => Light(E, w) = E
<1>1. Light(E, w) \subseteq E /\ IsFiniteSet(E)
  BY DEF Light, Weighted
<1>2. QED
  BY <1>1, FS_Subset, FS_CardinalityType

\* A set of edges has a heaviest one.
LEMMA HeaviestIs ==
  ASSUME NEW E, Weighted(E), E # {}
  PROVE  \E f \in E : \A e \in E : e.w <= f.w
<1> DEFINE S == {k \in Nat : \A s \in SUBSET E : s # {} /\ Cardinality(s) = k =>
                               \E f \in s : \A e \in s : e.w <= f.w}
<1>1. 0 \in S
  <2>1. \A s \in SUBSET E : Cardinality(s) = 0 => s = {}
    BY PartFinite DEF Weighted
  <2>2. QED
    BY <2>1
<1>2. ASSUME NEW k \in Nat, k \in S PROVE k + 1 \in S
  <2> SUFFICES ASSUME NEW s \in SUBSET E, s # {}, Cardinality(s) = k + 1
               PROVE  \E f \in s : \A e \in s : e.w <= f.w
    OBVIOUS
  <2>1. PICK x \in s : TRUE
    OBVIOUS
  <2>2. s \ {x} \in SUBSET E /\ Cardinality(s \ {x}) = k
    BY PartFinite DEF Weighted
  <2>3. \A e \in s : e.w \in Int
    BY DEF Weighted
  <2>4. CASE s \ {x} = {}
    BY <2>3, <2>4
  <2>5. CASE s \ {x} # {}
    <3>1. PICK f \in s \ {x} : \A e \in s \ {x} : e.w <= f.w
      BY <1>2, <2>2, <2>5
    <3>2. CASE x.w <= f.w
      BY <3>1, <3>2
    <3>3. CASE ~(x.w <= f.w)
      <4>1. \A e \in s : e.w <= x.w
        BY <2>3, <3>1, <3>3
      <4>2. QED
        BY <4>1
    <3>4. QED
      BY <3>2, <3>3
  <2>6. QED
    BY <2>4, <2>5
<1> HIDE DEF S
<1>3. Nat \subseteq S
  BY <1>1, <1>2, Induction
<1>4. E \in SUBSET E /\ Cardinality(E) \in Nat
  BY FS_CardinalityType DEF Weighted
<1>5. QED
  BY <1>3, <1>4 DEF S

\* The heaviest edges of both can be left out.
LEMMA LightWithout ==
  ASSUME NEW k \in Nat, NEW F, NEW T, LightIn(k + 1, F, T),
         NEW f \in F, \A e \in F : e.w <= f.w, NEW t \in T, \A e \in T : e.w <= t.w
  PROVE  f.w <= t.w /\ LightIn(k, F \ {f}, T \ {t})
<1> DEFINE F1 == F \ {f}
           T1 == T \ {t}
<1>1. /\ Weighted(F) /\ Weighted(T) /\ Cardinality(F) = k + 1 /\ Cardinality(T) = k + 1
      /\ \A w \in Int : Cardinality(Light(T, w)) <= Cardinality(Light(F, w))
  BY DEF LightIn
<1>2. (\A e \in F : e.w \in Int) /\ (\A e \in T : e.w \in Int)
  BY <1>1 DEF Weighted
<1>3. f.w <= t.w
  <2>1. Light(T, t.w) = T
    BY DEF Light
  <2>2. Light(F, t.w) = F
    BY <1>1, <1>2, <2>1, LightIs
  <2>3. QED
    BY <2>2 DEF Light
<1>4. Weighted(F1) /\ Weighted(T1)
  BY <1>1, TotalRemoves
<1>5. Cardinality(F1) = k /\ Cardinality(T1) = k
  <2>1. F \in SUBSET F /\ T \in SUBSET T /\ IsFiniteSet(F) /\ IsFiniteSet(T)
    BY <1>1 DEF Weighted
  <2>2. Cardinality(F1) = Cardinality(F) - 1 /\ Cardinality(T1) = Cardinality(T) - 1
    BY <2>1, PartFinite
  <2>3. QED
    BY <1>1, <2>2
<1>6. ASSUME NEW w \in Int PROVE Cardinality(Light(T1, w)) <= Cardinality(Light(F1, w))
  <2>1. CASE f.w <= w
    <3>1. \A e \in F1 : e.w <= w
      BY <1>2, <2>1
    <3>2. Light(F1, w) = F1
      BY <3>1 DEF Light
    <3> HIDE DEF F1, T1
    <3>3. QED
      BY <1>4, <1>5, <3>2, LightIs
  <2>2. CASE ~(f.w <= w)
    <3>1. ~(t.w <= w)
      BY <1>2, <1>3, <2>2
    <3>2. Light(F1, w) = Light(F, w) /\ Light(T1, w) = Light(T, w)
      BY <2>2, <3>1 DEF Light
    <3>3. QED
      BY <1>1, <3>2
  <2>3. QED
    BY <2>1, <2>2
<1>7. QED
  BY <1>3, <1>4, <1>5, <1>6 DEF LightIn

\* By induction, then, it weighs no more.
LEMMA LightTotal ==
  ASSUME NEW n \in Nat, NEW F, NEW T, LightIn(n, F, T)
  PROVE  Total(F) <= Total(T)
<1> DEFINE S == {k \in Nat : \A G, U : LightIn(k, G, U) => Total(G) <= Total(U)}
<1>1. 0 \in S
  <2> SUFFICES ASSUME NEW G, NEW U, LightIn(0, G, U) PROVE Total(G) <= Total(U)
    OBVIOUS
  <2>1. Weighted(G) /\ Weighted(U) /\ G = {} /\ U = {}
    BY FS_EmptySet DEF LightIn, Weighted
  <2>2. QED
    BY <2>1, TotalRemoves
<1>2. ASSUME NEW k \in Nat, k \in S PROVE k + 1 \in S
  <2> SUFFICES ASSUME NEW G, NEW U, LightIn(k + 1, G, U) PROVE Total(G) <= Total(U)
    OBVIOUS
  <2>1. Weighted(G) /\ Weighted(U) /\ G # {} /\ U # {}
    <3>1. Weighted(G) /\ Weighted(U) /\ Cardinality(G) = k + 1 /\ Cardinality(U) = k + 1
      BY DEF LightIn
    <3>2. Cardinality({}) = 0 /\ k + 1 # 0
      BY FS_EmptySet
    <3>3. QED
      BY <3>1, <3>2
  <2>2. PICK f \in G : \A e \in G : e.w <= f.w
    BY <2>1, HeaviestIs
  <2>3. PICK t \in U : \A e \in U : e.w <= t.w
    BY <2>1, HeaviestIs
  <2>4. f.w <= t.w /\ LightIn(k, G \ {f}, U \ {t})
    BY <2>2, <2>3, LightWithout
  <2>5. Total(G \ {f}) <= Total(U \ {t})
    BY <1>2, <2>4
  <2>6. Total(G) = f.w + Total(G \ {f}) /\ Total(U) = t.w + Total(U \ {t})
    BY <2>1, TotalRemoves
  <2>7. Total(G \ {f}) \in Int /\ Total(U \ {t}) \in Int
    BY <2>4, TotalRemoves DEF LightIn
  <2>8. f.w \in Int /\ t.w \in Int
    BY <2>1 DEF Weighted
  <2>9. QED
    BY <2>4, <2>5, <2>6, <2>7, <2>8
<1> HIDE DEF S
<1>3. n \in S
  BY <1>1, <1>2, Induction
<1>4. QED
  BY <1>3 DEF S

-----------------------------------------------------------------------------
(***************************************************************************)
(* A set of edges bridges another when it joins the ends of each of the    *)
(* other's edges by edges no heavier.                                      *)
(***************************************************************************)
Bridged(F, E) == \A e \in E : e.v \in Component(Light(F, e.w), e.u)

\* What bridges light edges has as few components as they have, at most.
LEMMA JoinsCount ==
  ASSUME NEW E, Edged(E), NEW F, Edged(F), \A e \in E : e.v \in Component(F, e.u)
  PROVE  Cardinality(Components(F)) <= Cardinality(Components(E))
<1> DEFINE B == E \cup F
<1>1. Edged(B)
  BY FS_Union DEF Edged
<1>2. \A e \in B : e.v \in Component(F, e.u)
  <2>1. \A e \in F : e.u \in 0 .. size - 1
    BY DEF Edged
  <2>2. ASSUME NEW e \in F PROVE e.v \in Component(F, e.u)
    <3>1. e.u \in Component(F, e.u) /\ Whole(F, Component(F, e.u))
      BY <2>1, ComponentIs
    <3>2. QED
      BY <3>1 DEF Whole
  <2>3. QED
    BY <2>2
<1>3. \A e \in F : e.v \in Component(B, e.u)
  <2> SUFFICES ASSUME NEW e \in F PROVE e.v \in Component(B, e.u)
    OBVIOUS
  <2>1. e.u \in 0 .. size - 1 /\ e \in B
    BY DEF Edged
  <2> HIDE DEF B
  <2>2. e.u \in Component(B, e.u) /\ Whole(B, Component(B, e.u))
    BY <1>1, <2>1, ComponentIs
  <2>3. QED
    BY <2>1, <2>2 DEF Whole
<1>4. E \subseteq B
  OBVIOUS
<1> HIDE DEF B
<1>5. \A v \in 0 .. size - 1 : Component(B, v) = Component(F, v)
  <2> SUFFICES ASSUME NEW v \in 0 .. size - 1 PROVE Component(B, v) = Component(F, v)
    OBVIOUS
  <2>1. Component(B, v) \subseteq Component(F, v)
    BY <1>1, <1>2, ComponentGrows
  <2>2. Component(F, v) \subseteq Component(B, v)
    BY <1>1, <1>3, ComponentGrows
  <2>3. QED
    BY <2>1, <2>2
<1>6. Components(B) = Components(F)
  <2>1. Used = 0 .. size - 1
    BY DEF Edged
  <2>2. QED
    BY <1>5, <2>1 DEF Components
<1>7. QED
  BY <1>1, <1>4, <1>6, FewerEdges

\* The light edges of a part.
LEMMA LightEdged ==
  ASSUME NEW E, Edged(E), NEW F, F \subseteq E, NEW w
  PROVE  Edged(Light(F, w)) /\ Light(F, w) \subseteq F /\ Light(F, w) \subseteq E
<1>1. Light(F, w) \subseteq F
  BY DEF Light
<1>2. QED
  BY <1>1, EdgedPart

\* Larger bounds join more.
LEMMA LightGrows ==
  ASSUME NEW E, Edged(E), Weighted(E), NEW F, F \subseteq E, NEW G, G \subseteq F,
         NEW w \in Int, NEW x \in Int, w <= x, NEW v \in 0 .. size - 1
  PROVE  /\ Component(Light(G, w), v) \subseteq Component(Light(F, x), v)
         /\ Component(Light(G, w), v) \subseteq Component(F, v)
<1>1. Light(G, w) \subseteq Light(F, x) /\ Light(G, w) \subseteq F
  BY DEF Light, Weighted
<1>2. Edged(Light(G, w)) /\ Edged(Light(F, x)) /\ Edged(F)
  BY LightEdged, EdgedPart
<1>3. ASSUME NEW A, Edged(A), NEW B, Edged(B), A \subseteq B
      PROVE  Component(A, v) \subseteq Component(B, v)
  <2>1. \A e \in A : e.v \in Component(B, e.u)
    <3> SUFFICES ASSUME NEW e \in A PROVE e.v \in Component(B, e.u)
      OBVIOUS
    <3>1. e.u \in 0 .. size - 1 /\ e \in B
      BY <1>3 DEF Edged
    <3>2. e.u \in Component(B, e.u) /\ Whole(B, Component(B, e.u))
      BY <1>3, <3>1, ComponentIs
    <3>3. QED
      BY <3>1, <3>2 DEF Whole
  <2>2. QED
    BY <1>3, <2>1, ComponentGrows
<1>4. QED
  BY <1>1, <1>2, <1>3

\* A forest that bridges all edges joins what they join and is the lightest
\* that does.
LEMMA BridgedJoins ==
  ASSUME NEW E, Edged(E), Weighted(E), NEW F, F \subseteq E, Bridged(F, E)
  PROVE  /\ Edged(F) /\ Weighted(F)
         /\ \A v \in 0 .. size - 1 : Component(F, v) = Component(E, v)
         /\ Components(F) = Components(E)
<1>1. Edged(F) /\ Weighted(F)
  <2>1. Edged(F)
    BY EdgedPart
  <2>2. QED
    BY <2>1 DEF Edged, Weighted
<1>2. ASSUME NEW v \in 0 .. size - 1 PROVE Component(F, v) = Component(E, v)
  <2>1. \A e \in E : e.v \in Component(F, e.u)
    <3> SUFFICES ASSUME NEW e \in E PROVE e.v \in Component(F, e.u)
      OBVIOUS
    <3>1. e.u \in 0 .. size - 1 /\ e.w \in Int /\ e.v \in Component(Light(F, e.w), e.u)
      BY DEF Edged, Weighted, Bridged
    <3>2. F \subseteq F /\ e.w <= e.w
      BY <3>1
    <3>3. QED
      BY <1>1, <3>1, <3>2, LightGrows
  <2>2. \A e \in F : e.v \in Component(E, e.u)
    <3> SUFFICES ASSUME NEW e \in F PROVE e.v \in Component(E, e.u)
      OBVIOUS
    <3>1. e.u \in 0 .. size - 1 /\ e \in E
      BY DEF Edged
    <3>2. e.u \in Component(E, e.u) /\ Whole(E, Component(E, e.u))
      BY <3>1, ComponentIs
    <3>3. QED
      BY <3>1, <3>2 DEF Whole
  <2>3. Component(F, v) \subseteq Component(E, v)
    BY <1>1, <2>2, ComponentGrows
  <2>4. Component(E, v) \subseteq Component(F, v)
    BY <1>1, <2>1, ComponentGrows
  <2>5. QED
    BY <2>3, <2>4
<1>3. Used = 0 .. size - 1
  BY DEF Edged
<1>4. Components(F) = Components(E)
  BY <1>2, <1>3 DEF Components
<1>5. QED
  BY <1>1, <1>2, <1>4

\* Another forest has no more light edges than one that bridges it.
LEMMA BridgedLight ==
  ASSUME NEW E, Edged(E), Weighted(E), NEW F, F \subseteq E, Thrifty(F), Bridged(F, E),
         NEW T, T \subseteq E, Thrifty(T), NEW w \in Int
  PROVE  Cardinality(Light(T, w)) <= Cardinality(Light(F, w))
<1> DEFINE LF == Light(F, w)
           LT == Light(T, w)
<1>1. /\ Edged(F) /\ Edged(T) /\ LF \subseteq F /\ LT \subseteq T
      /\ Edged(LF) /\ Edged(LT)
  BY EdgedPart, LightEdged
<1>2. \A e \in LT : e.v \in Component(LF, e.u)
  <2> SUFFICES ASSUME NEW e \in LT PROVE e.v \in Component(LF, e.u)
    OBVIOUS
  <2>1. e \in E /\ e.w <= w
    BY DEF Light
  <2>2. e.u \in 0 .. size - 1 /\ e.w \in Int /\ e.v \in Component(Light(F, e.w), e.u)
    BY <2>1 DEF Edged, Weighted, Bridged
  <2>3. F \subseteq F
    OBVIOUS
  <2>4. QED
    BY <2>1, <2>2, <2>3, LightGrows
<1> HIDE DEF LF, LT
<1>3. Cardinality(Components(LF)) <= Cardinality(Components(LT))
  BY <1>1, <1>2, JoinsCount
<1>4. Thrifty(LF) /\ Thrifty(LT)
  BY <1>1, ThriftyParts
<1>5. /\ Cardinality(LF) \in Nat /\ Cardinality(LT) \in Nat
      /\ Cardinality(Components(LF)) \in Nat /\ Cardinality(Components(LT)) \in Nat
      /\ size \in Nat
  BY <1>1, EdgedPart, ComponentsFinite DEF Edged
<1>6. Cardinality(LT) <= Cardinality(LF)
  BY <1>3, <1>4, <1>5 DEF Thrifty
<1>7. QED
  BY <1>6 DEF LF, LT

\* Such a forest is a minimum one.
LEMMA BridgedMinimum ==
  ASSUME NEW E, Edged(E), Weighted(E), NEW F, F \subseteq E, Thrifty(F), Bridged(F, E)
  PROVE  MinimumForest(F, E)
<1> DEFINE n == Cardinality(F)
           all == Components(E)
<1>1. Edged(F) /\ Weighted(F) /\ Components(F) = all
  BY BridgedJoins
<1>2. n \in Nat /\ Cardinality(all) \in Nat /\ size \in Nat
  BY <1>1, EdgedPart, ComponentsFinite DEF Edged
<1>3. SpanningForest(F, E)
  BY <1>1, <1>2 DEF Thrifty, SpanningForest
<1>4. ASSUME NEW T \in kSubset(n, E), Total(T) < Total(F), SpanningForest(T, E) PROVE FALSE
  <2>1. T \subseteq E /\ Cardinality(T) = n
    BY DEF kSubset
  <2>2. Weighted(T)
    <3>1. Edged(T)
      BY <2>1, EdgedPart
    <3>2. QED
      BY <2>1, <3>1 DEF Edged, Weighted
  <2>3. Thrifty(T)
    BY <1>2, <1>4 DEF Thrifty, SpanningForest
  <2>4. \A w \in Int : Cardinality(Light(T, w)) <= Cardinality(Light(F, w))
    BY <2>1, <2>3, BridgedLight
  <2>5. LightIn(n, F, T)
    BY <1>1, <2>1, <2>2, <2>4 DEF LightIn
  <2>6. Total(F) <= Total(T)
    BY <1>2, <2>5, LightTotal
  <2>7. Total(F) \in Int /\ Total(T) \in Int
    BY <1>1, <2>2, TotalRemoves
  <2>8. QED
    BY <1>4, <2>6, <2>7
<1>5. QED
  BY <1>3, <1>4 DEF MinimumForest
-----------------------------------------------------------------------------
(***************************************************************************)
(* Kruskal.  The edges taken are a forest that bridges all edges that have *)
(* been considered, the union-find's classes are its components, and no    *)
(* edge left is lighter than one that has been considered.                 *)
(***************************************************************************)
KruskalInv(E, k) ==
  /\ k.rest \subseteq E /\ k.mst \subseteq E \ k.rest
  /\ \A e \in E \ k.rest : \A f \in k.rest : e.w <= f.w
  /\ Bridged(k.mst, E \ k.rest)
  /\ Thrifty(k.mst)
  /\ \A a, b \in 0 .. size - 1 : k.rep[a] = k.rep[b] <=> b \in Component(k.mst, a)

\* Before any edge is considered.
LEMMA KruskalBegins ==
  ASSUME NEW E, Edged(E), NEW k, k = [rest |-> E, mst |-> {}, rep |-> [v \in Used |-> v]]
  PROVE  KruskalInv(E, k)
<1>1. k.rest = E /\ k.mst = {} /\ k.rep = [v \in Used |-> v]
  OBVIOUS
<1>2. Used = 0 .. size - 1 /\ size \in Nat
  BY DEF Edged
<1>3. /\ Thrifty({})
      /\ \A v \in 0 .. size - 1 : Component({}, v) = {v}
  BY <1>2, NoEdges DEF Thrifty
<1>4. Bridged({}, E \ E)
  BY DEF Bridged
<1>5. \A a, b \in 0 .. size - 1 : k.rep[a] = k.rep[b] <=> b \in Component(k.mst, a)
  BY <1>1, <1>2, <1>3
<1>6. QED
  BY <1>1, <1>3, <1>4, <1>5 DEF KruskalInv

\* What bridges goes on doing so when there is more of it.
LEMMA BridgedMore ==
  ASSUME NEW E, Edged(E), Weighted(E), NEW F, F \subseteq E, NEW G, G \subseteq F,
         NEW D, D \subseteq E, Bridged(G, D)
  PROVE  Bridged(F, D)
<1> SUFFICES ASSUME NEW e \in D PROVE e.v \in Component(Light(F, e.w), e.u)
  BY DEF Bridged
<1>1. e.u \in 0 .. size - 1 /\ e.w \in Int /\ e.w <= e.w
  BY DEF Edged, Weighted
<1>2. e.v \in Component(Light(G, e.w), e.u)
  BY DEF Bridged
<1>3. QED
  BY <1>1, <1>2, LightGrows

\* An edge whose ends are joined already is left out.
LEMMA KruskalLeaves ==
  ASSUME NEW E, Edged(E), Weighted(E), NEW k, KruskalInv(E, k), NEW e \in Lightest(k.rest),
         k.rep[e.u] = k.rep[e.v]
  PROVE  KruskalInv(E, [k EXCEPT !.rest = @ \ {e}])
<1>1. /\ k.rest \subseteq E /\ k.mst \subseteq E \ k.rest
      /\ \A d \in E \ k.rest : \A f \in k.rest : d.w <= f.w
      /\ Bridged(k.mst, E \ k.rest) /\ Thrifty(k.mst)
      /\ \A a, b \in 0 .. size - 1 : k.rep[a] = k.rep[b] <=> b \in Component(k.mst, a)
  BY DEF KruskalInv
<1>2. e \in k.rest /\ e \in E /\ \A f \in k.rest : e.w <= f.w
  BY <1>1 DEF Lightest
<1>3. e.u \in 0 .. size - 1 /\ e.v \in 0 .. size - 1
  BY <1>2 DEF Edged
<1>4. Light(k.mst, e.w) = k.mst
  BY <1>1, <1>2 DEF Light
<1>5. e.v \in Component(Light(k.mst, e.w), e.u)
  BY <1>1, <1>3, <1>4
<1>6. Bridged(k.mst, E \ (k.rest \ {e}))
  BY <1>1, <1>5 DEF Bridged
<1> DEFINE n == [k EXCEPT !.rest = @ \ {e}]
<1>7. n.rest = k.rest \ {e} /\ n.mst = k.mst /\ n.rep = k.rep
  BY DEF KruskalInv
<1> HIDE DEF n
<1>8. QED
  BY <1>1, <1>2, <1>6, <1>7 DEF KruskalInv, n

\* An edge whose ends are not is taken.
LEMMA KruskalTakes ==
  ASSUME NEW E, Edged(E), Weighted(E), NEW k, KruskalInv(E, k), NEW e \in Lightest(k.rest),
         k.rep[e.u] # k.rep[e.v], NEW n, n.rest = k.rest \ {e}, n.mst = k.mst \cup {e},
         n.rep = UF!Merged(k.rep, k.rep[e.u], k.rep[e.v])
  PROVE  KruskalInv(E, n)
<1>1. /\ k.rest \subseteq E /\ k.mst \subseteq E \ k.rest
      /\ \A d \in E \ k.rest : \A f \in k.rest : d.w <= f.w
      /\ Bridged(k.mst, E \ k.rest) /\ Thrifty(k.mst)
      /\ \A a, b \in 0 .. size - 1 : k.rep[a] = k.rep[b] <=> b \in Component(k.mst, a)
  BY DEF KruskalInv
<1>2. e \in k.rest /\ e \in E /\ \A f \in k.rest : e.w <= f.w
  BY <1>1 DEF Lightest
<1>3. e.u \in 0 .. size - 1 /\ e.v \in 0 .. size - 1
  BY <1>2 DEF Edged
<1>4. Edged(k.mst) /\ Edged(n.mst) /\ n.mst \subseteq E /\ e \in n.mst
  BY <1>1, <1>2, EdgedPart
<1>5. Light(n.mst, e.w) = n.mst
  BY <1>1, <1>2 DEF Light, Weighted
<1>6. e.v \in Component(Light(n.mst, e.w), e.u)
  <2>1. e.u \in Component(n.mst, e.u) /\ Whole(n.mst, Component(n.mst, e.u))
    BY <1>3, <1>4, ComponentIs
  <2>2. QED
    BY <1>4, <1>5, <2>1 DEF Whole
<1>7. Bridged(n.mst, E \ n.rest)
  <2>1. Bridged(n.mst, E \ k.rest)
    <3>1. E \ k.rest \subseteq E /\ k.mst \subseteq n.mst
      OBVIOUS
    <3>2. QED
      BY <1>1, <1>4, <3>1, BridgedMore
  <2>2. QED
    BY <1>6, <2>1 DEF Bridged
<1>8. Thrifty(n.mst)
  <2>1. e.v \notin Component(k.mst, e.u)
    BY <1>1, <1>3
  <2>2. Cardinality(Components(n.mst)) = Cardinality(Components(k.mst)) - 1
    BY <1>3, <1>4, <2>1, ComponentsAdd
  <2>3. Cardinality(n.mst) = Cardinality(k.mst) + 1
    BY <1>1, <1>2, <1>3, <1>4, EdgedMore
  <2>4. Cardinality(k.mst) \in Nat /\ Cardinality(Components(k.mst)) \in Nat
    BY <1>4, EdgedPart, ComponentsFinite
  <2>5. QED
    BY <1>1, <2>2, <2>3, <2>4 DEF Thrifty
<1>9. ASSUME NEW a \in 0 .. size - 1, NEW b \in 0 .. size - 1
      PROVE  n.rep[a] = n.rep[b] <=> b \in Component(n.mst, a)
  <2> DEFINE A == Component(k.mst, e.u)
             B == Component(k.mst, e.v)
             U == A \cup B
             r == k.rep
  <2>1. Component(n.mst, a) = IF a \in U THEN U ELSE Component(k.mst, a)
    <3> DEFINE M == k.mst
    <3>1. U = Component(M, e.u) \cup Component(M, e.v) /\ Edged(M)
      BY <1>4
    <3> HIDE DEF M, U
    <3>2. Component(M \cup {e}, a) = IF a \in U THEN U ELSE Component(M, a)
      BY <1>3, <3>1, ComponentAdds
    <3>3. QED
      BY <3>2 DEF M
  <2>2. \A x \in 0 .. size - 1 : (x \in A <=> r[x] = r[e.u]) /\ (x \in B <=> r[x] = r[e.v])
    BY <1>1, <1>3
  <2>3. r[a] = r[b] <=> b \in Component(k.mst, a)
    BY <1>1
  <2>4. \A x \in 0 .. size - 1 : n.rep[x] = IF r[x] = r[e.u] THEN r[e.v] ELSE r[x]
    BY DEF UF!Merged, UF!Elem
  <2> HIDE DEF A, B, r
  <2>5. CASE a \in U
    BY <2>1, <2>2, <2>3, <2>4, <2>5
  <2>6. CASE a \notin U
    BY <2>1, <2>2, <2>3, <2>4, <2>6
  <2>7. QED
    BY <2>5, <2>6
<1>10. QED
  BY <1>1, <1>2, <1>4, <1>7, <1>8, <1>9 DEF KruskalInv

\* Either way there is one edge less to consider.
LEMMA KruskalConsiders ==
  ASSUME NEW E, Edged(E), Weighted(E), NEW k, KruskalInv(E, k), NEW e \in Lightest(k.rest),
         NEW n, n = Consider(k, e)
  PROVE  KruskalInv(E, n) /\ Cardinality(n.rest) = Cardinality(k.rest) - 1
<1>1. KruskalInv(E, n) /\ n.rest = k.rest \ {e}
  <2>1. CASE k.rep[e.u] = k.rep[e.v]
    <3>1. n = [k EXCEPT !.rest = @ \ {e}]
      BY <2>1 DEF Consider
    <3>2. KruskalInv(E, n)
      BY <2>1, <3>1, KruskalLeaves
    <3>3. QED
      BY <3>1, <3>2
  <2>2. CASE k.rep[e.u] # k.rep[e.v]
    <3>1. n = [rest |-> k.rest \ {e}, mst |-> k.mst \cup {e},
               rep |-> UF!Merged(k.rep, k.rep[e.u], k.rep[e.v])]
      BY <2>2 DEF Consider
    <3>2. /\ n.rest = k.rest \ {e} /\ n.mst = k.mst \cup {e}
          /\ n.rep = UF!Merged(k.rep, k.rep[e.u], k.rep[e.v])
      BY <3>1
    <3>3. KruskalInv(E, n)
      BY <2>2, <3>2, KruskalTakes
    <3>4. QED
      BY <3>2, <3>3
  <2>3. QED
    BY <2>1, <2>2
<1>2. e \in k.rest /\ k.rest \in SUBSET E /\ IsFiniteSet(E)
  BY DEF KruskalInv, Lightest, Edged
<1>3. QED
  BY <1>1, <1>2, PartFinite

KruskalTurns(E, m, f) ==
  /\ f[0] = {[rest |-> E, mst |-> {}, rep |-> [v \in Used |-> v]]}
  /\ \A d \in 0 .. m - 1 :
       f[d + 1] = UNION {Step(k) : k \in f[d]}

\* The loop over the edges by the step.
LEMMA KruskalTurnsAre ==
  ASSUME NEW E, NEW m \in Nat, m = Cardinality(E)
  PROVE  \E f : /\ mst_forests(E) = {k.mst : k \in f[m]}
              /\ KruskalTurns(E, m, f)
<1> DEFINE begin == {[rest |-> E, mst |-> {}, rep |-> [v \in Used |-> v]]}
           turns == m
           St(d, x) == UNION {Step(k) : k \in x}
           rhs(top, f) == [d \in 0 .. top |-> IF d = 0 THEN begin ELSE St(d, f[d - 1])]
           S == {k \in Nat : \E f : f = rhs(k, f)}
           loop == CHOOSE f : f = rhs(turns, f)
<1>1. mst_forests(E) = {k.mst : k \in loop[turns]}
  BY Zenon DEF mst_forests
<1>2. turns \in Nat
  OBVIOUS
<1> HIDE DEF begin, turns, St
<1>3. 0 \in S
  <2>1. [d \in 0 .. 0 |-> begin] = rhs(0, [d \in 0 .. 0 |-> begin])
    OBVIOUS
  <2>2. QED
    BY <2>1
<1>4. ASSUME NEW k \in Nat, k \in S PROVE k + 1 \in S
  <2>1. PICK f : f = rhs(k, f)
    BY <1>4
  <2> DEFINE h == [d \in 0 .. k + 1 |-> IF d = k + 1 THEN St(d, f[k]) ELSE f[d]]
  <2>2. \A d \in 0 .. k : f[d] = IF d = 0 THEN begin ELSE St(d, f[d - 1])
    BY <2>1
  <2>3. ASSUME NEW d \in 0 .. k + 1
        PROVE  h[d] = IF d = 0 THEN begin ELSE St(d, h[d - 1])
    <3>1. CASE d = k + 1
      BY <3>1
    <3>2. CASE d # k + 1
      <4>1. d \in 0 .. k /\ (d # 0 => d - 1 \in 0 .. k /\ d - 1 # k + 1)
        BY <3>2
      <4>2. h[d] = f[d] /\ (d # 0 => h[d - 1] = f[d - 1])
        BY <3>2, <4>1
      <4>3. f[d] = IF d = 0 THEN begin ELSE St(d, f[d - 1])
        BY <2>2, <4>1
      <4> HIDE DEF h
      <4>4. QED
        BY <4>2, <4>3
    <3>3. QED
      BY <3>1, <3>2
  <2>4. h = rhs(k + 1, h)
    BY <2>3
  <2> HIDE DEF h, rhs
  <2>5. QED
    BY <2>4
<1> HIDE DEF S
<1>5. turns \in S
  BY <1>2, <1>3, <1>4, Induction
<1>6. loop = rhs(turns, loop)
  <2> HIDE DEF rhs
  <2>1. QED
    BY <1>5 DEF S
<1> HIDE DEF loop
<1>7. loop[0] = begin
  BY <1>2, <1>6
<1>8. ASSUME NEW d \in 0 .. turns - 1 PROVE loop[d + 1] = St(d + 1, loop[d])
  <2>1. d + 1 \in 0 .. turns /\ d + 1 # 0 /\ (d + 1) - 1 = d
    BY <1>2
  <2>2. loop[d + 1] = St(d + 1, loop[(d + 1) - 1])
    BY <1>6, <2>1
  <2>3. QED
    BY <2>1, <2>2
<1>9. QED
  BY <1>1, <1>7, <1>8 DEF begin, turns, St, KruskalTurns

\* A forest of all edges but one that there can be is one tree.
LEMMA OneTree ==
  ASSUME NEW F, Edged(F), Thrifty(F), Cardinality(F) + 1 >= size,
         NEW a \in 0 .. size - 1, NEW b \in 0 .. size - 1
  PROVE  b \in Component(F, a)
<1> DEFINE all == Components(F)
<1>1. /\ IsFiniteSet(all) /\ Cardinality(all) \in Nat /\ Cardinality(F) \in Nat
      /\ Component(F, a) \in all /\ Component(F, b) \in all
  BY ComponentsFinite, EdgedPart
<1>2. Cardinality(all) <= 1
  BY <1>1 DEF Thrifty, Edged
<1>3. CASE Component(F, a) # Component(F, b)
  <2> DEFINE A == Component(F, a)
  <2> HIDE DEF A, all
  <2>1. A \in all /\ all \in SUBSET all
    BY <1>1 DEF A
  <2>2. Cardinality(all \ {A}) = Cardinality(all) - 1 /\ all \ {A} \in SUBSET all
    BY <1>1, <2>1, PartFinite
  <2>3. Cardinality(all \ {A}) \in Nat /\ (Cardinality(all \ {A}) = 0 <=> all \ {A} = {})
    BY <1>1, <2>2, PartFinite
  <2>4. all \ {A} = {}
    BY <1>1, <1>2, <2>2, <2>3
  <2>5. QED
    BY <1>1, <1>3, <2>4 DEF A
<1>4. CASE Component(F, a) = Component(F, b)
  BY <1>4, ComponentClass
<1>5. QED
  BY <1>3, <1>4

\* In the end each edge has been considered or the forest is one tree.
LEMMA ForestsAre ==
  ASSUME NEW E, Edged(E), Weighted(E), NEW mst \in mst_forests(E)
  PROVE  mst \subseteq E /\ Thrifty(mst) /\ Bridged(mst, E)
<1> DEFINE m == Cardinality(E)
<1>1. m \in Nat /\ IsFiniteSet(E) /\ size \in Nat /\ Used = 0 .. size - 1
  BY FS_CardinalityType DEF Edged
<1> HIDE DEF m
<1>2. PICK f : mst_forests(E) = {k.mst : k \in f[m]} /\ KruskalTurns(E, m, f)
  BY <1>1, KruskalTurnsAre DEF m
<1> DEFINE Far(k, d) == Cardinality(k.rest) + d = m \/ Cardinality(k.mst) + 1 >= size
           S == {d \in Nat : d <= m => \A k \in f[d] : KruskalInv(E, k) /\ Far(k, d)}
<1>3. 0 \in S
  <2> SUFFICES ASSUME NEW k \in f[0] PROVE KruskalInv(E, k) /\ Far(k, 0)
    OBVIOUS
  <2>1. k = [rest |-> E, mst |-> {}, rep |-> [v \in Used |-> v]]
    BY <1>2 DEF KruskalTurns
  <2>2. k.rest = E
    BY <2>1
  <2>3. KruskalInv(E, k)
    BY <2>1, KruskalBegins
  <2>4. QED
    BY <1>1, <2>2, <2>3 DEF m
<1>4. ASSUME NEW d \in Nat, d \in S PROVE d + 1 \in S
  <2> SUFFICES ASSUME d + 1 <= m, NEW n \in f[d + 1] PROVE KruskalInv(E, n) /\ Far(n, d + 1)
    OBVIOUS
  <2>1. d \in 0 .. m - 1
    BY <1>1
  <2>2. PICK k \in f[d] : n \in Step(k)
    BY <1>2, <2>1 DEF KruskalTurns
  <2>3. KruskalInv(E, k) /\ Far(k, d)
    BY <1>1, <1>4, <2>1
  <2>4. /\ IsFiniteSet(k.rest) /\ Cardinality(k.rest) \in Nat /\ Cardinality(k.mst) \in Nat
        /\ Cardinality(k.rest) = 0 <=> k.rest = {}
    <3>1. k.rest \in SUBSET E /\ k.mst \in SUBSET E
      BY <2>3 DEF KruskalInv
    <3>2. QED
      BY <1>1, <3>1, PartFinite
  <2>5. CASE Cardinality(k.mst) + 1 < size /\ k.rest # {}
    <3>1. PICK e \in Lightest(k.rest) : n = Consider(k, e)
      BY <2>2, <2>5 DEF Step
    <3>2. KruskalInv(E, n) /\ Cardinality(n.rest) = Cardinality(k.rest) - 1
      BY <2>3, <3>1, KruskalConsiders
    <3>3. Cardinality(k.rest) + d = m
      BY <1>1, <2>3, <2>4, <2>5
    <3>4. QED
      BY <1>1, <2>4, <3>2, <3>3
  <2>6. CASE ~(Cardinality(k.mst) + 1 < size /\ k.rest # {})
    <3>1. n = k
      BY <2>2, <2>6 DEF Step
    <3>2. Cardinality(k.mst) + 1 >= size
      BY <1>1, <2>1, <2>3, <2>4, <2>6
    <3>3. QED
      BY <2>3, <3>1, <3>2
  <2>7. QED
    BY <2>5, <2>6
<1> HIDE DEF S
<1>5. m \in S
  BY <1>1, <1>3, <1>4, Induction
<1>6. PICK k \in f[m] : mst = k.mst
  BY <1>2
<1>7. KruskalInv(E, k) /\ Far(k, m)
  BY <1>1, <1>5 DEF S
<1>8. mst \subseteq E /\ Thrifty(mst) /\ Bridged(mst, E \ k.rest) /\ k.rest \in SUBSET E
  BY <1>6, <1>7 DEF KruskalInv
<1>9. CASE Cardinality(k.rest) + m = m
  <2>1. Cardinality(k.rest) \in Nat /\ (Cardinality(k.rest) = 0 <=> k.rest = {})
    BY <1>1, <1>8, PartFinite
  <2>2. k.rest = {}
    BY <1>1, <1>9, <2>1
  <2>3. E \ k.rest = E
    BY <2>2
  <2>4. QED
    BY <1>8, <2>3
<1>10. CASE Cardinality(mst) + 1 >= size
  <2> SUFFICES ASSUME NEW e \in E PROVE e.v \in Component(Light(mst, e.w), e.u)
    BY <1>8 DEF Bridged
  <2>1. CASE e \notin k.rest
    BY <1>8, <2>1 DEF Bridged
  <2>2. CASE e \in k.rest
    <3>1. \A d \in mst : d.w <= e.w
      BY <1>6, <1>7, <2>2 DEF KruskalInv
    <3>2. Light(mst, e.w) = mst
      BY <3>1 DEF Light
    <3>3. e.u \in 0 .. size - 1 /\ e.v \in 0 .. size - 1
      BY DEF Edged
    <3>4. QED
      BY <1>8, <1>10, <3>2, <3>3, EdgedPart, OneTree
  <2>3. QED
    BY <2>1, <2>2
<1>11. QED
  BY <1>6, <1>7, <1>8, <1>9, <1>10
-----------------------------------------------------------------------------
(***************************************************************************)
(* Parents.  A vertex is on the list of the first one it is found from,    *)
(* which is nearer to the start than it is.                                *)
(***************************************************************************)
FirstFrom(next, order, v) == Min({i \in DOMAIN order : v \in ToSet(next[order[i]])})

FoundFrom(n, next, r, v, u) ==
  /\ u \in 0 .. n - 1 /\ To(next, u, v)
  /\ \A d \in Nat : v \in Within(next, r, d + 1) /\ v \notin Within(next, r, d)
                      => u \in Within(next, r, d)

\* Who a vertex hangs from.
LEMMA FirstFromIs ==
  ASSUME NEW n \in Nat, NEW next \in Net(n), NEW r \in 0 .. n - 1,
         NEW order, order = bfs(next, r), NEW v \in Reachable(next, r), v # r
  PROVE  FoundFrom(n, next, r, v, order[FirstFrom(next, order, v)])
<1> DEFINE F == {i \in DOMAIN order : v \in ToSet(next[order[i]])}
           first == Min(F)
<1>1. /\ order \in Seq(0 .. n - 1) /\ Len(order) \in Nat /\ DOMAIN order = 1 .. Len(order)
      /\ \A i \in 1 .. Len(order) : order[i] \in 0 .. n - 1
  BY BfsIsRight, LenProperties, ElementOfSeq
<1>2. Nearer(next, r, order) /\ ToSet(order) = Reachable(next, r)
  BY BfsIsRight DEF ShowsReachable
<1>3. \A i : i \in F <=> i \in 1 .. Len(order) /\ To(next, order[i], v)
  <2>1. \A x \in 0 .. n - 1 : v \in ToSet(next[x]) <=> To(next, x, v)
    <3>1. \A x \in 0 .. n - 1 : \A t :
            t \in ToSet(next[x]) <=> \E i \in 1 .. Len(next[x]) : t = next[x][i]
      BY NetIs
    <3>2. QED
      BY <3>1 DEF To
  <2>2. \A i \in 1 .. Len(order) : v \in ToSet(next[order[i]]) <=> To(next, order[i], v)
    BY <1>1, <2>1
  <2>3. QED
    BY <1>1, <2>2
<1>4. F \subseteq Nat
  BY <1>1
<1>5. first = FirstFrom(next, order, v)
  BY DEF FirstFrom
<1> HIDE DEF F
<1>6. F # {} => first \in F /\ \A i \in F : first <= i
  BY <1>4, MinIs
<1> HIDE DEF first
<1>7. ASSUME NEW d \in Nat, v \in Within(next, r, d + 1), v \notin Within(next, r, d)
      PROVE  F # {} /\ order[first] \in Within(next, r, d)
  <2>1. PICK u \in Within(next, r, d) : To(next, u, v)
    <3>1. OneOn(next, Within(next, r, d), v)
      BY <1>7, WithinStep
    <3>2. QED
      BY <3>1 DEF OneOn, To
  <2>2. u \in Reachable(next, r)
    <3>1. Within(next, r, d) \subseteq Reachable(next, r)
      BY ReachableIs, WithinClosed
    <3>2. QED
      BY <2>1, <3>1
  <2>3. PICK b \in 1 .. Len(order) : order[b] = u
    BY <1>1, <1>2, <2>2 DEF ToSet
  <2>4. b \in F
    BY <1>3, <2>1, <2>3
  <2>5. first \in 1 .. Len(order) /\ first <= b
    BY <1>3, <1>6, <2>4
  <2>6. order[first] \in Within(next, r, d)
    BY <1>1, <1>2, <2>1, <2>3, <2>5 DEF Nearer
  <2>7. QED
    BY <2>4, <2>6
<1>8. F # {}
  <2> DEFINE D == {d \in Nat : v \in Within(next, r, d)}
  <2>1. n \in D
    BY NetIs DEF Reachable
  <2>2. PICK d \in D : \A m \in D : d <= m
    BY <2>1, LeastOf
  <2>3. d # 0
    BY WithinNext
  <2>4. d - 1 \in Nat /\ (d - 1) + 1 = d /\ d - 1 \notin D
    BY <2>2, <2>3
  <2>5. QED
    BY <1>7, <2>4
<1>9. QED
  BY <1>1, <1>3, <1>5, <1>6, <1>7, <1>8 DEF FoundFrom

(***************************************************************************)
(* Parents of an edge set: of each component the lowest index has none,    *)
(* the others hang from an end of one of their edges, and the edges they   *)
(* hang by join them all.                                                  *)
(***************************************************************************)
Links(F, parent) ==
  {e \in F : \E v \in 0 .. size - 1 : parent[v] # NoVertex /\ Between(e, v, parent[v])}

Hanging(F, parent) ==
  /\ \A v \in 0 .. size - 1 :
       parent[v] # NoVertex => \E e \in F : Between(e, v, parent[v])
  /\ \A f \in F : f.v \in Component(Links(F, parent), f.u)

\* The parent of one vertex.
LEMMA ParentIs ==
  ASSUME NEW F, Edged(F), NEW v \in 0 .. size - 1,
         NEW r, r = Min(Component(F, v))
  PROVE  /\ r \in Component(F, v) /\ r \in 0 .. size - 1 /\ Component(F, r) = Component(F, v)
         /\ v = r => Parents(F)[v] = NoVertex
         /\ v # r => FoundFrom(size, Lists(F), r, v, Parents(F)[v])
<1> DEFINE next == Lists(F)
           order == bfs(next, r)
<1>1. size \in Nat /\ Used = 0 .. size - 1 /\ next \in Net(size)
  BY ListsAre DEF Edged
<1>2. Component(F, v) = Reachable(next, v)
  BY ComponentReached
<1>3. v \in Component(F, v) /\ Component(F, v) \subseteq 0 .. size - 1
  BY ComponentIs
<1>4. r \in Component(F, v)
  <2> DEFINE C == Component(F, v)
  <2>1. C \subseteq Nat /\ C # {}
    BY <1>1, <1>3
  <2> HIDE DEF C
  <2>2. Min(C) \in C
    BY <2>1, MinIs
  <2>3. QED
    BY <2>2 DEF C
<1>5. r \in 0 .. size - 1 /\ Component(F, r) = Component(F, v)
  <2>1. r \in 0 .. size - 1
    BY <1>3, <1>4
  <2>2. QED
    BY <1>4, <2>1, ComponentClass
<1>6. v \in Reachable(next, r)
  BY <1>3, <1>5, ComponentReached
<1>7. Parents(F)[v] = IF v = r THEN NoVertex ELSE order[FirstFrom(next, order, v)]
  BY <1>1, <1>2, Zenon DEF Parents, FirstFrom
<1> HIDE DEF next
<1>8. v # r => FoundFrom(size, next, r, v, order[FirstFrom(next, order, v)])
  BY <1>1, <1>5, <1>6, FirstFromIs
<1>9. QED
  BY <1>4, <1>5, <1>7, <1>8 DEF next

\* All parents.
LEMMA ParentsAre ==
  ASSUME NEW F, Edged(F)
  PROVE  /\ Hanging(F, Parents(F))
         /\ {v \in Used : Parents(F)[v] = NoVertex} = {Min(C) : C \in Components(F)}
<1> DEFINE next == Lists(F)
           parent == Parents(F)
           M == Links(F, parent)
<1>1. size \in Nat /\ Used = 0 .. size - 1 /\ next \in Net(size)
  BY ListsAre DEF Edged
<1>2. \A a, b \in 0 .. size - 1 : To(next, a, b) <=> \E e \in F : Between(e, a, b)
  BY ListsAre
<1>3. ASSUME NEW v \in 0 .. size - 1, NEW r, r = Min(Component(F, v))
      PROVE  /\ r \in 0 .. size - 1 /\ Component(F, r) = Component(F, v)
             /\ v = r <=> parent[v] = NoVertex
             /\ v # r => /\ FoundFrom(size, next, r, v, parent[v])
                         /\ \E e \in M : Between(e, v, parent[v])
  <2>1. /\ r \in 0 .. size - 1 /\ Component(F, r) = Component(F, v)
        /\ v = r => parent[v] = NoVertex
        /\ v # r => FoundFrom(size, next, r, v, parent[v])
    BY <1>3, ParentIs
  <2> HIDE DEF parent, next
  <2>2. ASSUME v # r PROVE parent[v] # NoVertex /\ \E e \in M : Between(e, v, parent[v])
    <3>1. parent[v] \in 0 .. size - 1 /\ To(next, parent[v], v)
      BY <2>1, <2>2 DEF FoundFrom
    <3>2. PICK e \in F : Between(e, parent[v], v)
      BY <1>2, <3>1
    <3>3. parent[v] # NoVertex
      BY <1>1, <3>1 DEF NoVertex
    <3>4. e \in M /\ Between(e, v, parent[v])
      BY <3>2, <3>3 DEF Links, Between
    <3>5. QED
      BY <3>3, <3>4
  <2>3. QED
    BY <2>1, <2>2
<1>4. Edged(M) /\ M \subseteq F
  <2>1. M \subseteq F
    BY DEF Links
  <2>2. QED
    BY <2>1, EdgedPart
<1> HIDE DEF parent, next, M
<1>5. ASSUME NEW r \in 0 .. size - 1, r = Min(Component(F, r))
      PROVE  \A v \in Component(F, r) : v \in Component(M, r)
  <2> DEFINE S == {d \in Nat : \A v \in Component(F, r) :
                                 v \in Within(next, r, d) => v \in Component(M, r)}
  <2>1. Component(F, r) = Reachable(next, r) /\ r \in Component(M, r)
    BY <1>4, ComponentReached, ComponentIs DEF next
  <2>2. 0 \in S
    BY <2>1, WithinNext
  <2>3. ASSUME NEW d \in Nat, d \in S PROVE d + 1 \in S
    <3> SUFFICES ASSUME NEW v \in Component(F, r), v \in Within(next, r, d + 1),
                        v \notin Within(next, r, d)
                 PROVE  v \in Component(M, r)
      BY <2>3
    <3>1. v \in 0 .. size - 1 /\ Component(F, v) = Component(F, r)
      <4>1. v \in 0 .. size - 1
        BY ComponentIs
      <4>2. QED
        BY <4>1, ComponentClass
    <3>2. CASE v = r
      BY <2>1, <3>2
    <3>3. CASE v # r
      <4> DEFINE u == parent[v]
      <4>1. r = Min(Component(F, v))
        BY <1>5, <3>1
      <4>2. FoundFrom(size, next, r, v, u) /\ \E e \in M : Between(e, v, u)
        BY <1>3, <3>1, <3>3, <4>1
      <4> HIDE DEF u
      <4>3. u \in Within(next, r, d)
        BY <4>2 DEF FoundFrom
      <4>4. u \in Component(F, r)
        BY <1>1, <2>1, <4>3, ReachableIs, WithinClosed
      <4>5. u \in Component(M, r)
        BY <2>3, <4>3, <4>4
      <4>6. Whole(M, Component(M, r))
        BY <1>4, ComponentIs
      <4>7. QED
        BY <4>2, <4>5, <4>6 DEF Whole, Between
    <3>4. QED
      BY <3>2, <3>3
  <2> HIDE DEF S
  <2>4. size \in S
    BY <1>1, <2>2, <2>3, Induction
  <2>5. Reachable(next, r) = Within(next, r, size)
    BY <1>1, NetIs DEF Reachable
  <2>6. QED
    BY <2>1, <2>4, <2>5 DEF S
<1>6. ASSUME NEW f \in F PROVE f.v \in Component(M, f.u)
  <2> DEFINE r == Min(Component(F, f.u))
  <2>1. f.u \in 0 .. size - 1 /\ f.v \in 0 .. size - 1
    BY DEF Edged
  <2>2. r \in 0 .. size - 1 /\ Component(F, r) = Component(F, f.u)
    BY <1>3, <2>1
  <2>3. r = Min(Component(F, r))
    BY <2>2
  <2>4. f.u \in Component(F, r) /\ f.v \in Component(F, r)
    <3>1. f.u \in Component(F, f.u) /\ Whole(F, Component(F, f.u))
      BY <2>1, ComponentIs
    <3>2. QED
      BY <2>2, <3>1 DEF Whole
  <2> HIDE DEF r
  <2>5. f.u \in Component(M, r) /\ f.v \in Component(M, r)
    BY <1>5, <2>2, <2>3, <2>4
  <2>6. Component(M, r) = Component(M, f.u)
    BY <1>4, <2>1, <2>2, <2>5, ComponentClass
  <2>7. QED
    BY <2>5, <2>6
<1>7. Hanging(F, parent)
  <2>1. M \subseteq F
    BY <1>4
  <2>2. ASSUME NEW v \in 0 .. size - 1, parent[v] # NoVertex
        PROVE  \E e \in F : Between(e, v, parent[v])
    BY <1>3, <2>1, <2>2
  <2>3. QED
    BY <1>6, <2>2 DEF Hanging, M
<1>8. {v \in Used : parent[v] = NoVertex} = {Min(C) : C \in Components(F)}
  <2>1. \A v \in Used : parent[v] = NoVertex <=> v = Min(Component(F, v))
    BY <1>1, <1>3
  <2>2. \A v \in Used : /\ Min(Component(F, v)) \in Used
                        /\ Component(F, Min(Component(F, v))) = Component(F, v)
    BY <1>1, <1>3
  <2>3. \A C : C \in Components(F) <=> \E v \in Used : C = Component(F, v)
    BY DEF Components
  <2>4. QED
    BY <2>1, <2>2, <2>3
<1>9. QED
  BY <1>7, <1>8 DEF parent
-----------------------------------------------------------------------------
\* A set of edges has a lightest one.
LEMMA LightestIs ==
  ASSUME NEW E, Weighted(E), E # {}
  PROVE  Lightest(E) # {}
<1> DEFINE S == {k \in Nat : \A s \in SUBSET E : s # {} /\ Cardinality(s) = k =>
                               \E f \in s : \A e \in s : f.w <= e.w}
<1>1. 0 \in S
  <2>1. \A s \in SUBSET E : Cardinality(s) = 0 => s = {}
    BY PartFinite DEF Weighted
  <2>2. QED
    BY <2>1
<1>2. ASSUME NEW k \in Nat, k \in S PROVE k + 1 \in S
  <2> SUFFICES ASSUME NEW s \in SUBSET E, s # {}, Cardinality(s) = k + 1
               PROVE  \E f \in s : \A e \in s : f.w <= e.w
    OBVIOUS
  <2>1. PICK x \in s : TRUE
    OBVIOUS
  <2>2. s \ {x} \in SUBSET E /\ Cardinality(s \ {x}) = k
    BY PartFinite DEF Weighted
  <2>3. \A e \in s : e.w \in Int
    BY DEF Weighted
  <2>4. CASE s \ {x} = {}
    BY <2>3, <2>4
  <2>5. CASE s \ {x} # {}
    <3>1. PICK f \in s \ {x} : \A e \in s \ {x} : f.w <= e.w
      BY <1>2, <2>2, <2>5
    <3>2. CASE f.w <= x.w
      BY <3>1, <3>2
    <3>3. CASE ~(f.w <= x.w)
      <4>1. \A e \in s : x.w <= e.w
        BY <2>3, <3>1, <3>3
      <4>2. QED
        BY <4>1
    <3>4. QED
      BY <3>2, <3>3
  <2>6. QED
    BY <2>4, <2>5
<1> HIDE DEF S
<1>3. Nat \subseteq S
  BY <1>1, <1>2, Induction
<1>4. E \in SUBSET E /\ Cardinality(E) \in Nat
  BY FS_CardinalityType DEF Weighted
<1>5. PICK f \in E : \A e \in E : f.w <= e.w
  BY <1>3, <1>4 DEF S
<1>6. QED
  BY <1>5 DEF Lightest

\* What LinkEdge chooses.
LEMMA LinkIs ==
  ASSUME NEW E, Weighted(E), NEW v, NEW p, NEW d \in E, Between(d, v, p)
  PROVE  /\ LinkEdge(E, v, p) \in E /\ Between(LinkEdge(E, v, p), v, p)
         /\ \A f \in E : Between(f, v, p) => LinkEdge(E, v, p).w <= f.w
<1> DEFINE B == {f \in E : {f.u, f.v} = {v, p}}
           l == LinkEdge(E, v, p)
<1>1. \A f : f \in B <=> f \in E /\ Between(f, v, p)
  BY DEF Between
<1>2. l = CHOOSE e \in Lightest(B) : TRUE
  BY DEF LinkEdge
<1>3. B \subseteq E
  OBVIOUS
<1> HIDE DEF B, l
<1>4. B # {} /\ Weighted(B)
  BY <1>1, <1>3, FS_Subset DEF Weighted
<1>5. l \in Lightest(B)
  BY <1>2, <1>4, LightestIs
<1>6. l \in B /\ \A f \in B : l.w <= f.w
  BY <1>5 DEF Lightest
<1>7. QED
  BY <1>1, <1>6 DEF l

\* Which end hangs from which does not matter.
LEMMA LinkSame ==
  ASSUME NEW E, NEW v, NEW p, NEW d, Between(d, v, p)
  PROVE  LinkEdge(E, v, p) = LinkEdge(E, d.u, d.v)
<1>1. {v, p} = {d.u, d.v}
  BY DEF Between
<1>2. QED
  BY <1>1 DEF LinkEdge

(***************************************************************************)
(* Parents that hang in a forest are one: the links' lightest edges bridge *)
(* what the forest does, and they are no more.                             *)
(***************************************************************************)
LEMMA ParentForest ==
  ASSUME NEW E, Edged(E), Weighted(E), NEW F, F \subseteq E, Thrifty(F), Bridged(F, E),
         NEW parent, Hanging(F, parent)
  PROVE  MinimumForest(ParentEdges(E, parent), E)
<1> DEFINE M == Links(F, parent)
           P == ParentEdges(E, parent)
           link == [f \in F |-> LinkEdge(E, f.u, f.v)]
<1>1. Edged(F) /\ Weighted(F) /\ Components(F) = Components(E)
  BY BridgedJoins
<1>2. M \subseteq F /\ Edged(M)
  <2>1. M \subseteq F
    BY DEF Links
  <2> HIDE DEF M
  <2>2. QED
    BY <1>1, <2>1, EdgedPart
<1>3. M = F
  <2>1. Cardinality(Components(M)) <= Cardinality(Components(F))
    BY <1>1, <1>2, JoinsCount DEF Hanging
  <2> HIDE DEF M
  <2>2. /\ Cardinality(M) \in Nat /\ Cardinality(F) \in Nat /\ Cardinality(M) <= Cardinality(F)
        /\ Cardinality(Components(M)) \in Nat /\ Cardinality(Components(F)) \in Nat
    BY <1>1, <1>2, EdgedPart, ComponentsFinite
  <2>3. Thrifty(M) /\ size \in Nat
    BY <1>1, <1>2, ThriftyParts DEF Edged
  <2>4. Cardinality(M) = Cardinality(F)
    BY <2>1, <2>2, <2>3 DEF Thrifty
  <2>5. IsFiniteSet(F)
    BY <1>1 DEF Edged
  <2>6. QED
    BY <1>2, <2>4, <2>5, FS_Subset
<1>4. \A f \in F : /\ link[f] \in E /\ Between(link[f], f.u, f.v) /\ link[f].w <= f.w
  <2> SUFFICES ASSUME NEW f \in F
               PROVE  link[f] \in E /\ Between(link[f], f.u, f.v) /\ link[f].w <= f.w
    OBVIOUS
  <2>1. f \in E /\ Between(f, f.u, f.v)
    BY DEF Between
  <2>2. QED
    BY <2>1, LinkIs
<1>5. Used = 0 .. size - 1
  BY DEF Edged
<1>6. \A e : e \in P <=> \E f \in F : e = link[f]
  <2>1. ASSUME NEW e \in P PROVE \E f \in F : e = link[f]
    <3>1. PICK v \in 0 .. size - 1 : parent[v] # NoVertex /\ e = LinkEdge(E, v, parent[v])
      BY <1>5 DEF ParentEdges
    <3>2. PICK f \in F : Between(f, v, parent[v])
      BY <3>1 DEF Hanging
    <3>3. QED
      BY <3>1, <3>2, LinkSame
  <2>2. ASSUME NEW f \in F PROVE link[f] \in P
    <3>1. f \in M
      BY <1>3
    <3>2. PICK v \in 0 .. size - 1 : parent[v] # NoVertex /\ Between(f, v, parent[v])
      BY <3>1 DEF Links
    <3>3. link[f] = LinkEdge(E, v, parent[v])
      BY <3>2, LinkSame
    <3>4. QED
      BY <1>5, <3>2, <3>3 DEF ParentEdges
  <2>3. QED
    BY <2>1, <2>2
<1> HIDE DEF M, P, link
<1>7. P \subseteq E
  BY <1>4, <1>6
<1>8. Cardinality(P) <= Cardinality(F)
  <2> DEFINE g == [f \in F |-> link[f]]
  <2>1. g \in Surjection(F, P)
    BY <1>6 DEF Surjection
  <2>2. IsFiniteSet(F)
    BY <1>1 DEF Edged
  <2> HIDE DEF g
  <2>3. QED
    BY <2>1, <2>2, FS_Surjection
<1>9. Edged(P)
  BY <1>7, EdgedPart
<1>10. Bridged(P, F)
  <2> SUFFICES ASSUME NEW f \in F PROVE f.v \in Component(Light(P, f.w), f.u)
    BY DEF Bridged
  <2>1. link[f] \in Light(P, f.w)
    BY <1>4, <1>6 DEF Light
  <2>2. f.u \in 0 .. size - 1 /\ Edged(Light(P, f.w))
    BY <1>1, <1>7, LightEdged DEF Edged
  <2>3. /\ f.u \in Component(Light(P, f.w), f.u)
        /\ Whole(Light(P, f.w), Component(Light(P, f.w), f.u))
    BY <2>2, ComponentIs
  <2>4. QED
    BY <1>4, <2>1, <2>3 DEF Whole, Between
<1>11. Bridged(P, E)
  <2> SUFFICES ASSUME NEW e \in E PROVE e.v \in Component(Light(P, e.w), e.u)
    BY DEF Bridged
  <2> DEFINE A == Light(F, e.w)
             B == Light(P, e.w)
  <2>1. e.u \in 0 .. size - 1 /\ e.w \in Int /\ e.v \in Component(A, e.u)
    BY DEF Edged, Weighted, Bridged
  <2>2. Edged(A) /\ Edged(B)
    BY <1>7, LightEdged
  <2>3. \A f \in A : f.v \in Component(B, f.u)
    <3> SUFFICES ASSUME NEW f \in A PROVE f.v \in Component(B, f.u)
      OBVIOUS
    <3>1. f \in F /\ f.w <= e.w
      BY DEF Light
    <3>2. f.u \in 0 .. size - 1 /\ f.w \in Int /\ f.v \in Component(Light(P, f.w), f.u)
      BY <1>1, <1>10, <3>1 DEF Edged, Weighted, Bridged
    <3>3. P \subseteq P
      OBVIOUS
    <3>4. Component(Light(P, f.w), f.u) \subseteq Component(Light(P, e.w), f.u)
      BY <1>7, <2>1, <3>1, <3>2, <3>3, LightGrows
    <3>5. QED
      BY <3>2, <3>4
  <2> HIDE DEF A, B
  <2>4. Component(A, e.u) \subseteq Component(B, e.u)
    BY <2>1, <2>2, <2>3, ComponentGrows
  <2>5. QED
    BY <2>1, <2>4 DEF B
<1>12. Thrifty(P)
  <2>1. Components(P) = Components(E)
    BY <1>7, <1>11, BridgedJoins
  <2>2. /\ Cardinality(P) \in Nat /\ Cardinality(F) \in Nat /\ size \in Nat
        /\ Cardinality(Components(E)) \in Nat
    BY <1>1, <1>9, EdgedPart, ComponentsFinite DEF Edged
  <2>3. Cardinality(P) + Cardinality(Components(P)) >= size
    BY <1>9, ThriftyParts
  <2>4. QED
    BY <1>1, <1>8, <2>1, <2>2, <2>3 DEF Thrifty
<1>13. MinimumForest(P, E)
  BY <1>7, <1>11, <1>12, BridgedMinimum
<1>14. QED
  BY <1>13 DEF P

(***************************************************************************)
(* Kruskal's result.                                                       *)
(***************************************************************************)
LEMMA KruskalIsRight ==
  ASSUME Edged(edges), Weighted(edges), size > 0
  PROVE  KruskalRight
<1> DEFINE E == edges
           roots == {Min(C) : C \in Components(E)}
<1>1. size \in Nat /\ Used = 0 .. size - 1
  BY DEF Edged
<1> HIDE DEF E
<1>2. Edged(E) /\ Weighted(E)
  BY DEF E
<1> SUFFICES ASSUME NEW k \in mst_kruskal
             PROVE  /\ {v \in Used : k.parent[v] = NoVertex} = roots
                    /\ MinimumForest(ParentEdges(E, k.parent), E)
                    /\ k.rc = 0 <=> Cardinality(roots) = 1
  BY DEF KruskalRight, E
<1>3. PICK mst \in mst_forests(E) :
        k = [parent |-> Parents(mst), rc |-> IF Cardinality(mst) + 1 < size THEN 1 ELSE 0]
  BY DEF mst_kruskal, E
<1>4. mst \subseteq E /\ Thrifty(mst) /\ Bridged(mst, E)
  BY <1>2, ForestsAre
<1>5. k.parent = Parents(mst) /\ (k.rc = 0 <=> ~(Cardinality(mst) + 1 < size))
  BY <1>3
<1>6. Edged(mst) /\ Components(mst) = Components(E)
  BY <1>2, <1>4, BridgedJoins
<1>7. Hanging(mst, Parents(mst)) /\ {v \in Used : Parents(mst)[v] = NoVertex} = roots
  BY <1>6, ParentsAre
<1>8. MinimumForest(ParentEdges(E, Parents(mst)), E)
  BY <1>2, <1>4, <1>7, ParentForest
<1>9. Cardinality(roots) = Cardinality(Components(E))
  <2> DEFINE all == Components(E)
             f == [C \in all |-> Min(C)]
  <2>1. IsFiniteSet(all) /\ \A C \in all : \E v \in 0 .. size - 1 : C = Component(E, v)
    BY <1>2, ComponentsFinite
  <2>2. \A C \in all : Min(C) \in C /\ Min(C) \in 0 .. size - 1 /\ C = Component(E, Min(C))
    <3> SUFFICES ASSUME NEW C \in all
                 PROVE  Min(C) \in C /\ Min(C) \in 0 .. size - 1 /\ C = Component(E, Min(C))
      OBVIOUS
    <3>1. PICK v \in 0 .. size - 1 : C = Component(E, v)
      BY <2>1
    <3>2. v \in C /\ C \subseteq 0 .. size - 1
      BY <1>2, <3>1, ComponentIs
    <3>3. C \subseteq Nat /\ C # {}
      BY <1>1, <3>2
    <3>4. Min(C) \in C
      BY <3>3, MinIs
    <3>5. QED
      BY <1>2, <3>1, <3>2, <3>4, ComponentClass
  <2> HIDE DEF all
  <2>3. \A C, D \in all : f[C] = f[D] => C = D
    BY <2>2
  <2>4. roots = {Min(C) : C \in all}
    BY DEF all
  <2> HIDE DEF roots
  <2>5. f \in [all -> roots] /\ \A r \in roots : \E C \in all : f[C] = r
    BY <2>4
  <2> HIDE DEF f
  <2>6. f \in Bijection(all, roots)
    BY <2>3, <2>5 DEF Bijection, Injection, Surjection, IsInjective
  <2>7. QED
    BY <2>1, <2>6, FS_Bijection DEF ExistsBijection, all
<1>10. Cardinality(mst) + 1 < size <=> Cardinality(Components(E)) # 1
  <2>1. Cardinality(mst) \in Nat /\ Cardinality(Components(E)) \in Nat
    BY <1>2, <1>6, EdgedPart, ComponentsFinite
  <2>2. Cardinality(mst) + Cardinality(Components(E)) = size
    BY <1>4, <1>6 DEF Thrifty
  <2>3. Cardinality(Components(E)) # 0
    <3>1. Component(E, 0) \in Components(E)
      BY <1>1 DEF Components
    <3>2. IsFiniteSet(Components(E))
      BY <1>2, ComponentsFinite
    <3>3. QED
      BY <3>1, <3>2, FS_EmptySet
  <2>4. QED
    BY <1>1, <2>1, <2>2, <2>3
<1>11. QED
  BY <1>5, <1>7, <1>8, <1>9, <1>10
-----------------------------------------------------------------------------
(***************************************************************************)
(* The edges Kruskal collects are what the lists link.                     *)
(***************************************************************************)
LinkedBy(E) ==
  \A a, b \in 0 .. size - 1 : \A w :
    a # b => (LinksTo(vertices, a, b, w) <=> \E e \in E : Between(e, a, b) /\ e.w = w)

\* What is known of them.
LEMMA EdgesAre ==
  ASSUME SInv, impl = "graph"
  PROVE  /\ Edged(edges) /\ Weighted(edges) /\ LinkedBy(edges)
         /\ \A e \in edges : e.u # e.v
         /\ \A e \in edges : e.w \in Weight
<1> DEFINE at(i, n) == [u |-> i, v |-> vertices[i].adj[n].to,
                        w |-> vertices[i].adj[n].weight, at |-> n]
           next == Neighbours
<1>1. /\ RInv /\ size \in Nat /\ Used = 0 .. size - 1 /\ Mutual(vertices, Used)
      /\ next \in Net(size)
  BY NeighboursAre DEF SInv, MCInv, RInv, IInv, Shape, Used
<1>2. \A i \in Used :
        /\ \A n \in DOMAIN vertices[i].adj : vertices[i].adj[n].to \in Used
        /\ DOMAIN vertices[i].adj = 1 .. Len(next[i])
  <2> SUFFICES ASSUME NEW i \in Used
               PROVE  /\ \A n \in DOMAIN vertices[i].adj : vertices[i].adj[n].to \in Used
                      /\ DOMAIN vertices[i].adj = 1 .. Len(next[i])
    OBVIOUS
  <2>1. \A n \in DOMAIN vertices[i].adj : vertices[i].adj[n].to \in Used
    BY <1>1 DEF RInv, Joined
  <2>2. DOMAIN next[i] = DOMAIN vertices[i].adj
    BY DEF Neighbours
  <2>3. DOMAIN next[i] = 1 .. Len(next[i])
    BY <1>1, NetIs
  <2>4. QED
    BY <2>1, <2>2, <2>3
<1>3. \A e : e \in edges <=>
        \E i \in Used : \E n \in DOMAIN vertices[i].adj :
          i < vertices[i].adj[n].to /\ e = at(i, n)
  BY DEF edges
<1>4. \A i \in Used : \A n \in DOMAIN vertices[i].adj :
        LinksTo(vertices, i, vertices[i].adj[n].to, vertices[i].adj[n].weight)
  BY DEF LinksTo
<1>5. ASSUME NEW e \in edges
      PROVE  /\ e.u \in Used /\ e.v \in Used /\ e.u < e.v /\ e.w \in Weight
             /\ LinksTo(vertices, e.u, e.v, e.w)
  <2>1. PICK i \in Used : \E n \in DOMAIN vertices[i].adj :
          i < vertices[i].adj[n].to /\ e = at(i, n)
    BY <1>3
  <2>2. PICK n \in DOMAIN vertices[i].adj : i < vertices[i].adj[n].to /\ e = at(i, n)
    BY <2>1
  <2>3. e.u = i /\ e.v = vertices[i].adj[n].to /\ e.w = vertices[i].adj[n].weight
    BY <2>2
  <2>4. e.v \in Used /\ LinksTo(vertices, e.u, e.v, e.w)
    BY <1>2, <1>4, <2>3
  <2>5. QED
    BY <1>1, <2>2, <2>3, <2>4 DEF Mutual
<1>6. ASSUME NEW a \in Used, NEW b \in Used, a < b, NEW w, LinksTo(vertices, a, b, w)
      PROVE  \E e \in edges : e.u = a /\ e.v = b /\ e.w = w
  <2>1. PICK n \in DOMAIN vertices[a].adj :
          vertices[a].adj[n].to = b /\ vertices[a].adj[n].weight = w
    BY <1>6 DEF LinksTo
  <2>2. at(a, n) \in edges
    BY <1>3, <1>6, <2>1
  <2>3. at(a, n).u = a /\ at(a, n).v = b /\ at(a, n).w = w
    BY <2>1
  <2>4. QED
    BY <2>2, <2>3
<1>7. IsFiniteSet(edges)
  <2> DEFINE arcs == ArcSet(size, next)
             all == {at(x[1], x[2]) : x \in arcs}
             f == [x \in arcs |-> at(x[1], x[2])]
  <2>1. IsFiniteSet(arcs)
    BY <1>1, ArcSetFinite
  <2>2. edges \subseteq all
    <3> SUFFICES ASSUME NEW e \in edges PROVE e \in all
      OBVIOUS
    <3>1. PICK i \in Used : \E n \in DOMAIN vertices[i].adj : e = at(i, n)
      BY <1>3
    <3>2. PICK n \in DOMAIN vertices[i].adj : e = at(i, n)
      BY <3>1
    <3>3. i \in 0 .. size - 1 /\ n \in 1 .. Len(next[i])
      BY <1>1, <1>2
    <3>4. <<i, n>> \in arcs /\ <<i, n>>[1] = i /\ <<i, n>>[2] = n
      BY <1>1, <3>3, IsArc
    <3> HIDE DEF arcs
    <3>5. QED
      BY <3>2, <3>4
  <2> HIDE DEF arcs
  <2>3. f \in Surjection(arcs, all)
    BY DEF Surjection
  <2> HIDE DEF f, all
  <2>4. IsFiniteSet(all)
    BY <2>1, <2>3, FS_Surjection
  <2>5. QED
    BY <2>2, <2>4, FS_Subset
<1>8. Edged(edges) /\ Weighted(edges)
  BY <1>1, <1>5, <1>7, WeightAssumption DEF Edged, Weighted
<1>9. LinkedBy(edges)
  <2> SUFFICES ASSUME NEW a \in Used, NEW b \in Used, NEW w, a # b
               PROVE  LinksTo(vertices, a, b, w) <=> \E e \in edges : Between(e, a, b) /\ e.w = w
    BY <1>1 DEF LinkedBy
  <2>1. ASSUME LinksTo(vertices, a, b, w) PROVE \E e \in edges : Between(e, a, b) /\ e.w = w
    <3>1. LinksTo(vertices, b, a, w)
      BY <1>1, <2>1 DEF Mutual
    <3>2. a < b \/ b < a
      BY <1>1
    <3>3. QED
      BY <1>6, <2>1, <3>1, <3>2 DEF Between
  <2>2. ASSUME NEW e \in edges, Between(e, a, b), e.w = w PROVE LinksTo(vertices, a, b, w)
    BY <1>1, <1>5, <2>2 DEF Mutual, Between
  <2>3. QED
    BY <2>1, <2>2
<1>10. \A e \in edges : e.u # e.v /\ e.w \in Weight
  BY <1>1, <1>5
<1>11. QED
  BY <1>8, <1>9, <1>10
-----------------------------------------------------------------------------
(***************************************************************************)
(* Prim.  A tree P of the vertices S joins any two of them by edges no     *)
(* heavier than those by which they are joined at all.                     *)
(***************************************************************************)
JoinsLightly(L, S, P) ==
  \A w \in Int : \A a, b \in S :
    b \in Component(Light(L, w), a) => b \in Component(Light(P, w), a)

TreeOf(L, start, S, P) ==
  /\ P \subseteq L /\ start \in S /\ S \subseteq 0 .. size - 1
  /\ \A e \in P : e.u \in S /\ e.v \in S
  /\ Thrifty(P)
  /\ S \subseteq Component(P, start)
  /\ JoinsLightly(L, S, P)

\* The start alone is a tree.
LEMMA TreeBegins ==
  ASSUME NEW L, Edged(L), NEW start \in 0 .. size - 1
  PROVE  TreeOf(L, start, {start}, {})
<1>1. /\ Edged({}) /\ Thrifty({})
      /\ \A v \in 0 .. size - 1 : Component({}, v) = {v}
  BY NoEdges DEF Edged, Thrifty
<1>2. \A w : Light({}, w) = {}
  BY DEF Light
<1>3. JoinsLightly(L, {start}, {})
  BY <1>1, <1>2 DEF JoinsLightly
<1>4. QED
  BY <1>1, <1>3 DEF TreeOf

\* The ends of an edge are joined by it.
LEMMA EndsJoined ==
  ASSUME NEW E, Edged(E), NEW e \in E, NEW a \in 0 .. size - 1
  PROVE  /\ e.v \in Component(E, e.u) /\ e.u \in Component(E, e.v)
         /\ \A p, q : Between(e, p, q) /\ p \in Component(E, a) => q \in Component(E, a)
<1>1. e.u \in 0 .. size - 1 /\ e.v \in 0 .. size - 1
  BY DEF Edged
<1>2. /\ e.u \in Component(E, e.u) /\ Whole(E, Component(E, e.u))
      /\ e.v \in Component(E, e.v) /\ Whole(E, Component(E, e.v))
      /\ Whole(E, Component(E, a))
  BY <1>1, ComponentIs
<1>3. QED
  BY <1>2 DEF Whole, Between

\* What is joined to S from outside is joined to it by an edge that leaves S.
LEMMA LeavesBy ==
  ASSUME NEW E, Edged(E), NEW S, NEW a \in S, a \in 0 .. size - 1,
         NEW u \in Component(E, a), u \notin S
  PROVE  \E e \in E : ~(e.u \in S <=> e.v \in S)
<1> SUFFICES ASSUME Whole(E, S) PROVE FALSE
  BY DEF Whole
<1>1. Component(E, a) \subseteq S
  BY ComponentIs
<1>2. QED
  BY <1>1

(***************************************************************************)
(* The tree grows by a lightest of the edges that leave it.                *)
(***************************************************************************)
LEMMA TreeGrows ==
  ASSUME NEW L, Edged(L), Weighted(L), NEW start, NEW S, NEW P, TreeOf(L, start, S, P),
         NEW u \in 0 .. size - 1, u \notin S, NEW q \in S, NEW l \in L, Between(l, u, q),
         \A e \in L : ~(e.u \in S <=> e.v \in S) => l.w <= e.w
  PROVE  TreeOf(L, start, S \cup {u}, P \cup {l})
<1> DEFINE S1 == S \cup {u}
           P1 == P \cup {l}
<1>1. /\ P \subseteq L /\ start \in S /\ S \subseteq 0 .. size - 1
      /\ \A e \in P : e.u \in S /\ e.v \in S
      /\ Thrifty(P)
      /\ S \subseteq Component(P, start)
      /\ JoinsLightly(L, S, P)
  BY DEF TreeOf
<1>2. P \subseteq P1 /\ P1 \subseteq L /\ l \in P1 /\ \A e \in P1 : e.u \in S1 /\ e.v \in S1
  BY <1>1 DEF Between
<1>3. Edged(P) /\ Edged(P1) /\ q \in 0 .. size - 1 /\ start \in 0 .. size - 1 /\ l.w \in Int
  BY <1>1, <1>2, EdgedPart DEF Weighted
<1>4. l.u \in 0 .. size - 1 /\ l.v \in 0 .. size - 1
  BY DEF Edged
<1>5. Thrifty(P1)
  <2>1. Whole(P, S)
    BY <1>1 DEF Whole
  <2>2. Component(P, q) \subseteq S
    BY <1>3, <2>1, ComponentIs
  <2>3. u \notin Component(P, q) /\ q \notin Component(P, u)
    BY <1>3, <2>2, ComponentClass
  <2>4. l.v \notin Component(P, l.u)
    BY <2>3 DEF Between
  <2>5. l \notin P
    BY <1>3, <2>4, EndsJoined
  <2>6. Cardinality(P1) = Cardinality(P) + 1
    BY <1>3, <1>4, <2>5, EdgedMore
  <2>7. Cardinality(Components(P1)) = Cardinality(Components(P)) - 1
    BY <1>3, <1>4, <2>4, ComponentsAdd
  <2>8. Cardinality(P) \in Nat /\ Cardinality(Components(P)) \in Nat
    BY <1>3, EdgedPart, ComponentsFinite
  <2> HIDE DEF P1
  <2>9. QED
    BY <1>1, <2>6, <2>7, <2>8 DEF Thrifty
<1> HIDE DEF P1
<1>6. S1 \subseteq Component(P1, start)
  <2>1. \A e \in P : e.v \in Component(P1, e.u)
    BY <1>2, <1>3, EndsJoined
  <2>2. Component(P, start) \subseteq Component(P1, start)
    BY <1>3, <2>1, ComponentGrows
  <2>3. Between(l, q, u)
    BY DEF Between
  <2>4. q \in Component(P1, start)
    BY <1>1, <2>2
  <2>5. u \in Component(P1, start)
    BY <1>2, <1>3, <2>3, <2>4, EndsJoined
  <2>6. QED
    BY <1>1, <2>2, <2>5
<1>7. ASSUME NEW w \in Int, NEW a \in S, NEW b \in S, b \in Component(Light(L, w), a)
      PROVE  b \in Component(Light(P1, w), a)
  <2>1. b \in Component(Light(P, w), a)
    BY <1>1, <1>7 DEF JoinsLightly
  <2>2. a \in 0 .. size - 1 /\ w <= w
    BY <1>1
  <2>3. QED
    BY <1>2, <2>1, <2>2, LightGrows
<1>8. ASSUME NEW w \in Int, NEW a \in S, u \in Component(Light(L, w), a)
      PROVE  u \in Component(Light(P1, w), a)
  <2> DEFINE A == Light(L, w)
             B == Light(P1, w)
  <2>1. Edged(A) /\ Edged(B) /\ a \in 0 .. size - 1 /\ L \subseteq L
    BY <1>1, <1>2, LightEdged
  <2>2. PICK e \in A : ~(e.u \in S <=> e.v \in S)
    BY <1>8, <2>1, LeavesBy
  <2>3. e \in L /\ e.w <= w
    BY <2>2 DEF Light
  <2>4. l.w <= w
    BY <1>3, <2>2, <2>3 DEF Weighted
  <2>5. l \in A /\ l \in B
    BY <1>2, <2>4 DEF Light
  <2>6. q \in Component(A, a)
    BY <1>8, <2>1, <2>5, EndsJoined
  <2>7. q \in Component(B, a)
    BY <1>7, <2>6
  <2>8. Between(l, q, u)
    BY DEF Between
  <2>9. QED
    BY <2>1, <2>5, <2>7, <2>8, EndsJoined
<1>9. ASSUME NEW w \in Int, NEW a \in S1, NEW b \in S1, b \in Component(Light(L, w), a)
      PROVE  b \in Component(Light(P1, w), a)
  <2>1. /\ Edged(Light(L, w)) /\ Edged(Light(P1, w))
        /\ a \in 0 .. size - 1 /\ b \in 0 .. size - 1
    BY <1>1, <1>2, LightEdged
  <2>2. a \in Component(Light(L, w), b)
    BY <1>9, <2>1, ComponentClass
  <2>3. CASE a \in S /\ b \in S
    BY <1>7, <1>9, <2>3
  <2>4. CASE a \in S /\ b = u
    BY <1>8, <1>9, <2>4
  <2>5. CASE a = u /\ b \in S
    <3>1. a \in Component(Light(P1, w), b)
      BY <1>8, <2>2, <2>5
    <3>2. QED
      BY <2>1, <3>1, ComponentClass
  <2>6. CASE a = u /\ b = u
    BY <2>1, <2>6, ComponentIs
  <2>7. QED
    BY <2>3, <2>4, <2>5, <2>6
<1>10. JoinsLightly(L, S1, P1)
  BY <1>9 DEF JoinsLightly
<1>11. start \in S1 /\ S1 \subseteq 0 .. size - 1
  BY <1>1
<1> HIDE DEF S1
<1>12. TreeOf(L, start, S1, P1)
  BY <1>2, <1>5, <1>6, <1>10, <1>11 DEF TreeOf
<1>13. QED
  BY <1>12 DEF S1, P1
-----------------------------------------------------------------------------
(***************************************************************************)
(* What relaxing an edge and all edges of a vertex do to keys and parents. *)
(***************************************************************************)
PrimStates ==
  [in_mst : SUBSET Used, rc : 0 .. 1, key : [Used -> Int], parent : [Used -> Int]]

Kept(p, r, v) == r.key[v] = p.key[v] /\ r.parent[v] = p.parent[v]

Improved(p, u, e, r) ==
  /\ r \in PrimStates /\ r.in_mst = p.in_mst /\ r.rc = p.rc
  /\ \A v \in Used :
       IF v = e.to /\ v \notin p.in_mst /\ e.weight < p.key[v]
       THEN r.key[v] = e.weight /\ r.parent[v] = u
       ELSE Kept(p, r, v)

\* What an edge improves.
LEMMA ImproveIs ==
  ASSUME NEW p \in PrimStates, NEW u \in Used, u \in Int, NEW e, e.to \in Used, e.weight \in Int
  PROVE  Improved(p, u, e, Improve(p, u, e))
<1> DEFINE r == Improve(p, u, e)
<1>1. CASE e.to \notin p.in_mst /\ e.weight < p.key[e.to]
  <2>1. r = [p EXCEPT !.key[e.to] = e.weight, !.parent[e.to] = u]
    BY <1>1 DEF Improve
  <2>2. /\ r.in_mst = p.in_mst /\ r.rc = p.rc
        /\ r.key = [p.key EXCEPT ![e.to] = e.weight]
        /\ r.parent = [p.parent EXCEPT ![e.to] = u]
        /\ r = [in_mst |-> r.in_mst, rc |-> r.rc, key |-> r.key, parent |-> r.parent]
    BY <2>1 DEF PrimStates
  <2>3. /\ p.key \in [Used -> Int] /\ p.parent \in [Used -> Int]
        /\ p.in_mst \in SUBSET Used /\ p.rc \in 0 .. 1
    BY DEF PrimStates
  <2>4. r.key \in [Used -> Int] /\ r.parent \in [Used -> Int]
    BY <2>2, <2>3
  <2>5. r \in PrimStates
    BY <2>2, <2>3, <2>4 DEF PrimStates
  <2>6. \A v \in Used : IF v = e.to THEN r.key[v] = e.weight /\ r.parent[v] = u
                        ELSE Kept(p, r, v)
    BY <2>2, <2>3 DEF Kept
  <2> HIDE DEF r
  <2>7. Improved(p, u, e, r)
    BY <1>1, <2>2, <2>5, <2>6 DEF Improved
  <2>8. QED
    BY <2>7 DEF r
<1>2. CASE ~(e.to \notin p.in_mst /\ e.weight < p.key[e.to])
  <2>1. r = p
    BY <1>2 DEF Improve
  <2> HIDE DEF r
  <2>2. Improved(p, u, e, r)
    BY <1>2, <2>1 DEF Kept, Improved
  <2>3. QED
    BY <2>2 DEF r
<1>3. QED
  BY <1>1, <1>2

(***************************************************************************)
(* After the first n edges of u: who is in the tree keeps key and parent,  *)
(* another's key is at most the weight of those to it, and if it is less   *)
(* than it was it is the weight of one, and the parent is u.               *)
(***************************************************************************)
Relaxed(p, u, n, r) ==
  /\ r \in PrimStates /\ r.rc = p.rc /\ r.in_mst = p.in_mst \cup {u}
  /\ \A v \in r.in_mst : Kept(p, r, v)
  /\ \A v \in Used \ r.in_mst :
       /\ r.key[v] <= p.key[v]
       /\ \A i \in 1 .. n : vertices[u].adj[i].to = v => r.key[v] <= vertices[u].adj[i].weight
       /\ \/ Kept(p, r, v)
          \/ /\ r.key[v] < p.key[v] /\ r.parent[v] = u
             /\ \E i \in 1 .. n : /\ vertices[u].adj[i].to = v
                                  /\ vertices[u].adj[i].weight = r.key[v]

\* One edge more.
LEMMA RelaxedOne ==
  ASSUME NEW p \in PrimStates, NEW u \in Used, u \in Int, NEW n \in Nat, NEW s,
         Relaxed(p, u, n, s), NEW e, e = vertices[u].adj[n + 1],
         e.to \in Used, e.weight \in Int,
         \A i \in 1 .. n : vertices[u].adj[i].weight \in Int
  PROVE  Relaxed(p, u, n + 1, Improve(s, u, e))
<1> DEFINE r == Improve(s, u, e)
           l == vertices[u].adj
<1>1. /\ s \in PrimStates /\ s.rc = p.rc /\ s.in_mst = p.in_mst \cup {u}
      /\ \A v \in s.in_mst : Kept(p, s, v)
      /\ \A v \in Used \ s.in_mst :
           /\ s.key[v] <= p.key[v]
           /\ \A i \in 1 .. n : l[i].to = v => s.key[v] <= l[i].weight
           /\ \/ Kept(p, s, v)
              \/ /\ s.key[v] < p.key[v] /\ s.parent[v] = u
                 /\ \E i \in 1 .. n : l[i].to = v /\ l[i].weight = s.key[v]
  BY DEF Relaxed
<1>2. /\ r \in PrimStates /\ r.in_mst = s.in_mst /\ r.rc = s.rc
      /\ \A v \in Used :
           IF v = e.to /\ v \notin s.in_mst /\ e.weight < s.key[v]
           THEN r.key[v] = e.weight /\ r.parent[v] = u
           ELSE Kept(s, r, v)
  <2>1. Improved(s, u, e, Improve(s, u, e))
    BY <1>1, ImproveIs
  <2>2. QED
    BY <2>1 DEF Improved
<1>3. \A i : i \in 1 .. n + 1 <=> i \in 1 .. n \/ i = n + 1
  OBVIOUS
<1>4. /\ s.in_mst \subseteq Used
      /\ \A v \in Used : s.key[v] \in Int /\ r.key[v] \in Int /\ p.key[v] \in Int
  BY <1>1, <1>2 DEF PrimStates
<1> HIDE DEF r
<1>5. \A v \in r.in_mst : Kept(p, r, v)
  BY <1>1, <1>2, <1>4 DEF Kept
<1>6. ASSUME NEW v \in Used \ r.in_mst
      PROVE  /\ r.key[v] <= p.key[v]
             /\ \A i \in 1 .. n + 1 : l[i].to = v => r.key[v] <= l[i].weight
             /\ \/ Kept(p, r, v)
                \/ /\ r.key[v] < p.key[v] /\ r.parent[v] = u
                   /\ \E i \in 1 .. n + 1 : l[i].to = v /\ l[i].weight = r.key[v]
  <2> DEFINE rk == r.key[v]
             sk == s.key[v]
             pk == p.key[v]
  <2>1. v \in Used /\ v \notin s.in_mst /\ rk \in Int /\ sk \in Int /\ pk \in Int /\ sk <= pk
    BY <1>1, <1>2, <1>4
  <2>2. CASE v = e.to /\ e.weight < s.key[v]
    <3>1. r.key[v] = e.weight /\ r.parent[v] = u
      BY <1>2, <2>2
    <3>2. r.key[v] < p.key[v]
      <4>1. rk = e.weight /\ e.weight < sk
        BY <2>2, <3>1
      <4> HIDE DEF rk, sk, pk
      <4>2. rk < pk
        BY <2>1, <4>1
      <4>3. QED
        BY <4>2 DEF rk, pk
    <3>3. ASSUME NEW i \in 1 .. n + 1, l[i].to = v PROVE r.key[v] <= l[i].weight
      <4>1. CASE i = n + 1
        BY <3>1, <4>1
      <4>2. CASE i \in 1 .. n
        <5>1. s.key[v] <= l[i].weight
          BY <1>1, <1>2, <3>3, <4>2
        <5> DEFINE lw == l[i].weight
        <5>2. rk = e.weight /\ e.weight < sk /\ sk <= lw /\ lw \in Int
          BY <2>2, <3>1, <4>2, <5>1
        <5> HIDE DEF rk, sk, lw
        <5>3. rk <= lw
          BY <2>1, <5>2
        <5>4. QED
          BY <5>3 DEF rk, lw
      <4>3. QED
        BY <1>3, <4>1, <4>2
    <3>4. n + 1 \in 1 .. n + 1 /\ l[n + 1].to = v /\ l[n + 1].weight = r.key[v]
      BY <2>2, <3>1
    <3>5. r.key[v] <= p.key[v]
      BY <2>1, <3>2
    <3>6. QED
      BY <3>1, <3>2, <3>3, <3>4, <3>5
  <2>3. CASE ~(v = e.to /\ e.weight < s.key[v])
    <3>1. Kept(s, r, v)
      BY <1>2, <2>3
    <3>2. r.key[v] = s.key[v] /\ r.parent[v] = s.parent[v]
      BY <3>1 DEF Kept
    <3>3. ASSUME NEW i \in 1 .. n + 1, l[i].to = v PROVE r.key[v] <= l[i].weight
      BY <1>1, <1>2, <1>3, <1>4, <2>3, <3>2, <3>3
    <3>4. \/ Kept(p, s, v)
          \/ /\ s.key[v] < p.key[v] /\ s.parent[v] = u
             /\ \E i \in 1 .. n + 1 : l[i].to = v /\ l[i].weight = s.key[v]
      BY <1>1, <1>2, <1>3
    <3>5. QED
      BY <1>1, <1>2, <3>2, <3>3, <3>4 DEF Kept
  <2>4. QED
    BY <2>2, <2>3
<1>7. Relaxed(p, u, n + 1, r)
  BY <1>1, <1>2, <1>5, <1>6 DEF Relaxed
<1>8. QED
  BY <1>7 DEF r

RelaxTurns(p, u, m, f) ==
  /\ f[0] = [p EXCEPT !.in_mst = @ \cup {u}]
  /\ \A d \in 0 .. m - 1 :
       f[d + 1] = Improve(f[d], u, vertices[u].adj[d + 1])

\* The loop over a vertex's edges by the step.
LEMMA RelaxTurnsAre ==
  ASSUME NEW p, NEW u, NEW m \in Nat, m = Len(vertices[u].adj)
  PROVE  \E f : /\ Relax(p, u) = f[m]
              /\ RelaxTurns(p, u, m, f)
<1> DEFINE begin == [p EXCEPT !.in_mst = @ \cup {u}]
           turns == m
           St(d, x) == Improve(x, u, vertices[u].adj[d])
           rhs(top, f) == [d \in 0 .. top |-> IF d = 0 THEN begin ELSE St(d, f[d - 1])]
           S == {k \in Nat : \E f : f = rhs(k, f)}
           loop == CHOOSE f : f = rhs(turns, f)
<1>1. Relax(p, u) = loop[turns]
  BY Zenon DEF Relax
<1>2. turns \in Nat
  OBVIOUS
<1> HIDE DEF begin, turns, St
<1>3. 0 \in S
  <2>1. [d \in 0 .. 0 |-> begin] = rhs(0, [d \in 0 .. 0 |-> begin])
    OBVIOUS
  <2>2. QED
    BY <2>1
<1>4. ASSUME NEW k \in Nat, k \in S PROVE k + 1 \in S
  <2>1. PICK f : f = rhs(k, f)
    BY <1>4
  <2> DEFINE h == [d \in 0 .. k + 1 |-> IF d = k + 1 THEN St(d, f[k]) ELSE f[d]]
  <2>2. \A d \in 0 .. k : f[d] = IF d = 0 THEN begin ELSE St(d, f[d - 1])
    BY <2>1
  <2>3. ASSUME NEW d \in 0 .. k + 1
        PROVE  h[d] = IF d = 0 THEN begin ELSE St(d, h[d - 1])
    <3>1. CASE d = k + 1
      BY <3>1
    <3>2. CASE d # k + 1
      <4>1. d \in 0 .. k /\ (d # 0 => d - 1 \in 0 .. k /\ d - 1 # k + 1)
        BY <3>2
      <4>2. h[d] = f[d] /\ (d # 0 => h[d - 1] = f[d - 1])
        BY <3>2, <4>1
      <4>3. f[d] = IF d = 0 THEN begin ELSE St(d, f[d - 1])
        BY <2>2, <4>1
      <4> HIDE DEF h
      <4>4. QED
        BY <4>2, <4>3
    <3>3. QED
      BY <3>1, <3>2
  <2>4. h = rhs(k + 1, h)
    BY <2>3
  <2> HIDE DEF h, rhs
  <2>5. QED
    BY <2>4
<1> HIDE DEF S
<1>5. turns \in S
  BY <1>2, <1>3, <1>4, Induction
<1>6. loop = rhs(turns, loop)
  <2> HIDE DEF rhs
  <2>1. QED
    BY <1>5 DEF S
<1> HIDE DEF loop
<1>7. loop[0] = begin
  BY <1>2, <1>6
<1>8. ASSUME NEW d \in 0 .. turns - 1 PROVE loop[d + 1] = St(d + 1, loop[d])
  <2>1. d + 1 \in 0 .. turns /\ d + 1 # 0 /\ (d + 1) - 1 = d
    BY <1>2
  <2>2. loop[d + 1] = St(d + 1, loop[(d + 1) - 1])
    BY <1>6, <2>1
  <2>3. QED
    BY <2>1, <2>2
<1>9. QED
  BY <1>1, <1>7, <1>8 DEF begin, turns, St, RelaxTurns

\* After all of them.
LEMMA RelaxIs ==
  ASSUME NEW p \in PrimStates, NEW u \in Used, u \in Int, Len(vertices[u].adj) \in Nat,
         \A i \in 1 .. Len(vertices[u].adj) :
           vertices[u].adj[i].to \in Used /\ vertices[u].adj[i].weight \in Int
  PROVE  Relaxed(p, u, Len(vertices[u].adj), Relax(p, u))
<1> DEFINE m == Len(vertices[u].adj)
<1>1. PICK f : Relax(p, u) = f[m] /\ RelaxTurns(p, u, m, f)
  BY RelaxTurnsAre
<1> DEFINE S == {n \in Nat : n <= m => Relaxed(p, u, n, f[n])}
<1>2. 0 \in S
  <2> DEFINE r == [p EXCEPT !.in_mst = @ \cup {u}]
  <2>1. f[0] = r
    BY <1>1 DEF RelaxTurns
  <2>2. /\ r.in_mst = p.in_mst \cup {u} /\ r.rc = p.rc /\ r.key = p.key /\ r.parent = p.parent
        /\ r = [in_mst |-> r.in_mst, rc |-> r.rc, key |-> r.key, parent |-> r.parent]
    <3> DEFINE x == p.in_mst \cup {u}
    <3>1. r = [p EXCEPT !.in_mst = x]
      BY Zenon
    <3> HIDE DEF x, r
    <3>2. /\ r.in_mst = x /\ r.rc = p.rc /\ r.key = p.key /\ r.parent = p.parent
          /\ r = [in_mst |-> r.in_mst, rc |-> r.rc, key |-> r.key, parent |-> r.parent]
      BY <3>1 DEF PrimStates
    <3>3. QED
      BY <3>2 DEF x
  <2> HIDE DEF r
  <2>3. r \in PrimStates /\ \A v \in Used : r.key[v] \in Int /\ r.key[v] <= p.key[v]
    <3>1. /\ p.key \in [Used -> Int] /\ p.parent \in [Used -> Int]
          /\ p.in_mst \in SUBSET Used /\ p.rc \in 0 .. 1
      BY DEF PrimStates
    <3>2. QED
      BY <2>2, <3>1 DEF PrimStates
  <2>4. \A v : Kept(p, r, v)
    BY <2>2 DEF Kept
  <2>5. Relaxed(p, u, 0, r)
    BY <2>2, <2>3, <2>4 DEF Relaxed
  <2>6. QED
    BY <2>1, <2>5
<1>3. ASSUME NEW n \in Nat, n \in S PROVE n + 1 \in S
  <2> SUFFICES ASSUME n + 1 <= m PROVE Relaxed(p, u, n + 1, f[n + 1])
    OBVIOUS
  <2>1. n \in 0 .. m - 1 /\ n <= m /\ n + 1 \in 1 .. m
    OBVIOUS
  <2>2. f[n + 1] = Improve(f[n], u, vertices[u].adj[n + 1])
    BY <1>1, <2>1 DEF RelaxTurns
  <2>3. Relaxed(p, u, n, f[n]) /\ \A i \in 1 .. n : vertices[u].adj[i].weight \in Int
    BY <1>3, <2>1
  <2> DEFINE e == vertices[u].adj[n + 1]
  <2>4. e.to \in Used /\ e.weight \in Int
    BY <2>1
  <2> HIDE DEF e
  <2>5. e = vertices[u].adj[n + 1]
    BY DEF e
  <2>6. Relaxed(p, u, n + 1, Improve(f[n], u, e))
    BY <2>3, <2>4, <2>5, RelaxedOne
  <2>7. QED
    BY <2>2, <2>6 DEF e
<1> HIDE DEF S
<1>4. m \in S
  BY <1>2, <1>3, Induction
<1>5. QED
  BY <1>1, <1>4 DEF S
-----------------------------------------------------------------------------
(***************************************************************************)
(* What Prim reads: lists of links, and the edges they are.                *)
(***************************************************************************)
Wired ==
  /\ Edged(edges) /\ Weighted(edges) /\ LinkedBy(edges) /\ \A e \in edges : e.u # e.v
  /\ \A u \in Used :
       /\ Len(vertices[u].adj) \in Nat /\ DOMAIN vertices[u].adj = 1 .. Len(vertices[u].adj)
       /\ \A i \in 1 .. Len(vertices[u].adj) :
            vertices[u].adj[i].to \in Used /\ vertices[u].adj[i].weight \in Int

NearestOf(p, u) ==
  /\ u \in Used \ p.in_mst /\ p.key[u] < DBL_MAX
  /\ \A v \in Used \ p.in_mst : p.key[v] < DBL_MAX => p.key[u] <= p.key[v]

\* Nearest is a vertex of the smallest key below DBL_MAX, if there is one.
LEMMA NearestIs ==
  ASSUME size \in Nat, Used = 0 .. size - 1, NEW p \in PrimStates
  PROVE  /\ \A u \in Nearest(p) : NearestOf(p, u)
         /\ Nearest(p) = {} => \A v \in Used \ p.in_mst : ~(p.key[v] < DBL_MAX)
<1> DEFINE near == {v \in Used \ p.in_mst : p.key[v] < DBL_MAX}
           least == {v \in near : \A t \in near : p.key[v] <= p.key[t]}
           at(v) == [w |-> p.key[v], at |-> v]
           E == {at(v) : v \in near}
<1>1. Nearest(p) = {v \in least : \A t \in least : v <= t}
  BY DEF Nearest
<1>2. \A v \in Used : p.key[v] \in Int
  BY DEF PrimStates
<1>3. near \subseteq Used /\ \A v : v \in near <=> v \in Used \ p.in_mst /\ p.key[v] < DBL_MAX
  OBVIOUS
<1>4. \A v : v \in least <=> v \in near /\ \A t \in near : p.key[v] <= p.key[t]
  OBVIOUS
<1> HIDE DEF near, least
<1>5. ASSUME NEW u \in Nearest(p) PROVE NearestOf(p, u)
  BY <1>1, <1>3, <1>4 DEF NearestOf
<1>6. ASSUME near # {} PROVE Nearest(p) # {}
  <2>1. IsFiniteSet(near)
    <3>1. size - 1 \in Int /\ 0 \in Int
      OBVIOUS
    <3>2. IsFiniteSet(Used)
      BY <3>1, FS_Interval
    <3>3. QED
      BY <1>3, <3>2, FS_Subset
  <2>2. IsFiniteSet(E)
    <3> DEFINE f == [v \in near |-> at(v)]
    <3>1. f \in Surjection(near, E)
      BY DEF Surjection
    <3> HIDE DEF f, E
    <3>2. QED
      BY <2>1, <3>1, FS_Surjection
  <2>3. \A v \in near : at(v) \in E /\ at(v).w = p.key[v]
    OBVIOUS
  <2>4. \A e \in E : \E v \in near : e = at(v) /\ e.w = p.key[v]
    OBVIOUS
  <2> HIDE DEF E
  <2>5. Weighted(E) /\ E # {}
    BY <1>2, <1>3, <1>6, <2>2, <2>3, <2>4 DEF Weighted
  <2>6. PICK e \in E : \A f \in E : e.w <= f.w
    BY <2>5, LightestIs DEF Lightest
  <2>7. PICK v \in near : e = at(v) /\ e.w = p.key[v]
    BY <2>4
  <2>8. v \in least
    BY <1>4, <2>3, <2>6, <2>7
  <2>9. least \subseteq Nat
    BY <1>3, <1>4
  <2>10. PICK u \in least : \A t \in least : u <= t
    BY <2>8, <2>9, LeastOf
  <2>11. QED
    BY <1>1, <2>10
<1>7. QED
  BY <1>3, <1>5, <1>6

(***************************************************************************)
(* Who is not in the tree has the weight of its lightest link into it for  *)
(* a key, if that is below DBL_MAX, and the link's other end for a parent. *)
(***************************************************************************)
PrimKeys(start, p) ==
  \A v \in Used \ (p.in_mst \cup {start}) :
    /\ p.key[v] <= DBL_MAX
    /\ \A u \in p.in_mst : \A w : LinksTo(vertices, u, v, w) => p.key[v] <= w
    /\ IF p.key[v] = DBL_MAX THEN p.parent[v] = NoVertex
       ELSE p.parent[v] \in p.in_mst /\ LinksTo(vertices, p.parent[v], v, p.key[v])

TookIn(start, p, u, r) ==
  /\ r \in PrimStates /\ r.rc = p.rc /\ r.in_mst = p.in_mst \cup {u}
  /\ \A v \in r.in_mst : Kept(p, r, v)
  /\ PrimKeys(start, r)

\* Taking a vertex in keeps keys and parents true.
LEMMA RelaxKeys ==
  ASSUME Wired, NEW p \in PrimStates, NEW u \in Used, NEW start, PrimKeys(start, p),
         NEW r, r = Relax(p, u)
  PROVE  TookIn(start, p, u, r)
<1> DEFINE l == vertices[u].adj
           m == Len(l)
<1>1. u \in Int /\ \A i \in 1 .. m : l[i].to \in Used /\ l[i].weight \in Int
  BY DEF Wired, Edged
<1>2. m \in Nat /\ DOMAIN l = 1 .. m
  BY DEF Wired
<1>3. Relaxed(p, u, m, r)
  BY <1>1, <1>2, RelaxIs
<1> HIDE DEF m
<1>4. /\ r \in PrimStates /\ r.rc = p.rc /\ r.in_mst = p.in_mst \cup {u}
      /\ \A v \in r.in_mst : Kept(p, r, v)
      /\ \A v \in Used \ r.in_mst :
           /\ r.key[v] <= p.key[v]
           /\ \A i \in 1 .. m : l[i].to = v => r.key[v] <= l[i].weight
           /\ \/ Kept(p, r, v)
              \/ /\ r.key[v] < p.key[v] /\ r.parent[v] = u
                 /\ \E i \in 1 .. m : l[i].to = v /\ l[i].weight = r.key[v]
  BY <1>3 DEF Relaxed
<1>5. DBL_MAX \in Int /\ \A v \in Used : r.key[v] \in Int /\ p.key[v] \in Int
  BY <1>4, WeightAssumption DEF PrimStates
<1>6. \A t, w : LinksTo(vertices, u, t, w) <=> \E i \in 1 .. m : l[i].to = t /\ l[i].weight = w
  BY <1>2 DEF LinksTo
<1> HIDE DEF l
<1>7. ASSUME NEW v \in Used \ (r.in_mst \cup {start})
      PROVE  /\ r.key[v] <= DBL_MAX
             /\ \A x \in r.in_mst : \A w : LinksTo(vertices, x, v, w) => r.key[v] <= w
             /\ IF r.key[v] = DBL_MAX THEN r.parent[v] = NoVertex
                ELSE r.parent[v] \in r.in_mst /\ LinksTo(vertices, r.parent[v], v, r.key[v])
  <2> DEFINE rk == r.key[v]
             pk == p.key[v]
  <2>1. /\ v \in Used \ (p.in_mst \cup {start}) /\ v \in Used \ r.in_mst
        /\ rk \in Int /\ pk \in Int /\ DBL_MAX \in Int
    BY <1>4, <1>5
  <2>2. /\ pk <= DBL_MAX
        /\ \A x \in p.in_mst : \A w : LinksTo(vertices, x, v, w) => pk <= w
        /\ IF pk = DBL_MAX THEN p.parent[v] = NoVertex
           ELSE p.parent[v] \in p.in_mst /\ LinksTo(vertices, p.parent[v], v, pk)
    BY <2>1 DEF PrimKeys
  <2>3. /\ rk <= pk /\ \A i \in 1 .. m : l[i].to = v => rk <= l[i].weight
        /\ \/ rk = pk /\ r.parent[v] = p.parent[v]
           \/ /\ rk < pk /\ r.parent[v] = u
              /\ \E i \in 1 .. m : l[i].to = v /\ l[i].weight = rk
    BY <1>4, <2>1 DEF Kept
  <2> HIDE DEF rk, pk
  <2>4. rk <= DBL_MAX
    BY <2>1, <2>2, <2>3
  <2>5. ASSUME NEW x \in r.in_mst, NEW w, LinksTo(vertices, x, v, w) PROVE rk <= w
    <3>1. CASE x \in p.in_mst
      <4>1. pk <= w
        BY <2>2, <2>5, <3>1
      <4>2. w \in Int
        <5>1. x \in Used
          BY <3>1 DEF PrimStates
        <5>2. QED
          BY <2>5, <5>1 DEF LinksTo, Wired
      <4>3. QED
        BY <2>1, <2>3, <4>1, <4>2
    <3>2. CASE x = u
      BY <1>6, <2>3, <2>5, <3>2
    <3>3. QED
      BY <1>4, <3>1, <3>2
  <2>6. IF rk = DBL_MAX THEN r.parent[v] = NoVertex
        ELSE r.parent[v] \in r.in_mst /\ LinksTo(vertices, r.parent[v], v, rk)
    <3>1. CASE rk = pk /\ r.parent[v] = p.parent[v]
      BY <1>4, <2>2, <3>1
    <3>2. CASE /\ rk < pk /\ r.parent[v] = u
               /\ \E i \in 1 .. m : l[i].to = v /\ l[i].weight = rk
      <4>1. rk # DBL_MAX
        BY <2>1, <2>2, <3>2
      <4>2. QED
        BY <1>4, <1>6, <3>2, <4>1
    <3>3. QED
      BY <2>3, <3>1, <3>2
  <2>7. QED
    BY <2>4, <2>5, <2>6 DEF rk
<1>8. PrimKeys(start, r)
  BY <1>7 DEF PrimKeys
<1>9. QED
  BY <1>4, <1>8 DEF TookIn

PrimTurns(start, m, f) ==
  /\ f[0] = [in_mst |-> {}, rc |-> 0,
                      key |-> [v \in Used |-> IF v = start THEN 0 ELSE DBL_MAX],
                      parent |-> [v \in Used |-> NoVertex]]
  /\ \A d \in 0 .. m - 1 :
       f[d + 1] = IF Nearest(f[d]) = {} THEN [f[d] EXCEPT !.rc = 1]
                  ELSE Relax(f[d], CHOOSE u \in Nearest(f[d]) : TRUE)

\* The loop over the turns by the step.
LEMMA PrimTurnsAre ==
  ASSUME NEW start, NEW m \in Nat, m = size
  PROVE  \E f : /\ mst_prim(start) = f[m]
              /\ PrimTurns(start, m, f)
<1> DEFINE begin == [in_mst |-> {}, rc |-> 0,
                      key |-> [v \in Used |-> IF v = start THEN 0 ELSE DBL_MAX],
                      parent |-> [v \in Used |-> NoVertex]]
           turns == m
           St(d, x) == IF Nearest(x) = {} THEN [x EXCEPT !.rc = 1]
                      ELSE Relax(x, CHOOSE u \in Nearest(x) : TRUE)
           rhs(top, f) == [d \in 0 .. top |-> IF d = 0 THEN begin ELSE St(d, f[d - 1])]
           S == {k \in Nat : \E f : f = rhs(k, f)}
           loop == CHOOSE f : f = rhs(turns, f)
<1>1. mst_prim(start) = loop[turns]
  BY Zenon DEF mst_prim
<1>2. turns \in Nat
  OBVIOUS
<1> HIDE DEF begin, turns, St
<1>3. 0 \in S
  <2>1. [d \in 0 .. 0 |-> begin] = rhs(0, [d \in 0 .. 0 |-> begin])
    OBVIOUS
  <2>2. QED
    BY <2>1
<1>4. ASSUME NEW k \in Nat, k \in S PROVE k + 1 \in S
  <2>1. PICK f : f = rhs(k, f)
    BY <1>4
  <2> DEFINE h == [d \in 0 .. k + 1 |-> IF d = k + 1 THEN St(d, f[k]) ELSE f[d]]
  <2>2. \A d \in 0 .. k : f[d] = IF d = 0 THEN begin ELSE St(d, f[d - 1])
    BY <2>1
  <2>3. ASSUME NEW d \in 0 .. k + 1
        PROVE  h[d] = IF d = 0 THEN begin ELSE St(d, h[d - 1])
    <3>1. CASE d = k + 1
      BY <3>1
    <3>2. CASE d # k + 1
      <4>1. d \in 0 .. k /\ (d # 0 => d - 1 \in 0 .. k /\ d - 1 # k + 1)
        BY <3>2
      <4>2. h[d] = f[d] /\ (d # 0 => h[d - 1] = f[d - 1])
        BY <3>2, <4>1
      <4>3. f[d] = IF d = 0 THEN begin ELSE St(d, f[d - 1])
        BY <2>2, <4>1
      <4> HIDE DEF h
      <4>4. QED
        BY <4>2, <4>3
    <3>3. QED
      BY <3>1, <3>2
  <2>4. h = rhs(k + 1, h)
    BY <2>3
  <2> HIDE DEF h, rhs
  <2>5. QED
    BY <2>4
<1> HIDE DEF S
<1>5. turns \in S
  BY <1>2, <1>3, <1>4, Induction
<1>6. loop = rhs(turns, loop)
  <2> HIDE DEF rhs
  <2>1. QED
    BY <1>5 DEF S
<1> HIDE DEF loop
<1>7. loop[0] = begin
  BY <1>2, <1>6
<1>8. ASSUME NEW d \in 0 .. turns - 1 PROVE loop[d + 1] = St(d + 1, loop[d])
  <2>1. d + 1 \in 0 .. turns /\ d + 1 # 0 /\ (d + 1) - 1 = d
    BY <1>2
  <2>2. loop[d + 1] = St(d + 1, loop[(d + 1) - 1])
    BY <1>6, <2>1
  <2>3. QED
    BY <2>1, <2>2
<1>9. QED
  BY <1>1, <1>7, <1>8 DEF begin, turns, St, PrimTurns

(***************************************************************************)
(* After the first turn the tree of the vertices taken in hangs from its   *)
(* start by the lightest edges between parents and children.               *)
(***************************************************************************)
BelowMax == {e \in edges : e.w < DBL_MAX}

Hung(start, p) == {LinkEdge(BelowMax, v, p.parent[v]) : v \in p.in_mst \ {start}}

PrimInv(start, p) ==
  /\ p \in PrimStates /\ start \in p.in_mst /\ p.parent[start] = NoVertex
  /\ PrimKeys(start, p)
  /\ \A v \in p.in_mst \ {start} :
       p.parent[v] \in p.in_mst /\ \E e \in BelowMax : Between(e, v, p.parent[v])
  /\ TreeOf(BelowMax, start, p.in_mst, Hung(start, p))

\* The edges Prim can use.
LEMMA BelowMaxIs ==
  ASSUME Wired
  PROVE  /\ Edged(BelowMax) /\ Weighted(BelowMax) /\ size \in Nat /\ Used = 0 .. size - 1
         /\ \A e : e \in BelowMax <=> e \in edges /\ e.w < DBL_MAX
<1>1. BelowMax \subseteq edges
  BY DEF BelowMax
<1>2. Edged(edges) /\ Weighted(edges)
  BY DEF Wired
<1>3. Edged(BelowMax) /\ IsFiniteSet(BelowMax)
  BY <1>1, <1>2, EdgedPart DEF Edged
<1>4. Weighted(BelowMax)
  BY <1>1, <1>2, <1>3 DEF Weighted
<1>5. QED
  BY <1>2, <1>3, <1>4 DEF Edged, BelowMax

\* An edge below DBL_MAX that leaves the tree is no lighter than the key of
\* its outer end.
LEMMA CrossingKeys ==
  ASSUME Wired, NEW start, NEW p, PrimInv(start, p), NEW e \in BelowMax,
         ~(e.u \in p.in_mst <=> e.v \in p.in_mst)
  PROVE  \E v \in Used \ p.in_mst : p.key[v] <= e.w /\ p.key[v] < DBL_MAX
<1>1. e \in edges /\ e.w < DBL_MAX /\ e.w \in Int /\ e.u \in Used /\ e.v \in Used
  BY BelowMaxIs DEF Edged, Weighted
<1>2. ASSUME NEW x \in Used, NEW v \in Used, Between(e, x, v), x \in p.in_mst, v \notin p.in_mst
      PROVE  p.key[v] <= e.w /\ p.key[v] < DBL_MAX
  <2>1. LinksTo(vertices, x, v, e.w)
    <3>1. x \in 0 .. size - 1 /\ v \in 0 .. size - 1 /\ x # v /\ LinkedBy(edges)
      BY <1>2, BelowMaxIs DEF Wired
    <3>2. QED
      BY <1>1, <1>2, <3>1 DEF LinkedBy
  <2>2. v \in Used \ (p.in_mst \cup {start})
    BY <1>2 DEF PrimInv
  <2>3. p.key[v] <= e.w
    BY <1>2, <2>1, <2>2 DEF PrimInv, PrimKeys
  <2>4. p.key[v] \in Int /\ DBL_MAX \in Int
    BY WeightAssumption DEF PrimInv, PrimStates
  <2> DEFINE k == p.key[v]
             w == e.w
  <2>5. k \in Int /\ w \in Int /\ k <= w /\ w < DBL_MAX
    BY <1>1, <2>3, <2>4
  <2> HIDE DEF k, w
  <2>6. k < DBL_MAX
    BY <2>4, <2>5
  <2>7. QED
    BY <2>3, <2>6 DEF k
<1>3. CASE e.u \in p.in_mst /\ e.v \notin p.in_mst
  BY <1>1, <1>2, <1>3 DEF Between
<1>4. CASE e.v \in p.in_mst /\ e.u \notin p.in_mst
  BY <1>1, <1>2, <1>4 DEF Between
<1>5. QED
  BY <1>3, <1>4

\* The first turn takes the start in.
LEMMA PrimFirst ==
  ASSUME Wired, NEW start \in Used, NEW p, NEW r, r = Relax(p, start),
         p = [in_mst |-> {}, rc |-> 0,
              key |-> [v \in Used |-> IF v = start THEN 0 ELSE DBL_MAX],
              parent |-> [v \in Used |-> NoVertex]]
  PROVE  /\ Nearest(p) = {start} /\ r.rc = 0 /\ r.in_mst = {start}
         /\ PrimInv(start, r)
<1>1. size \in Nat /\ Used = 0 .. size - 1 /\ Edged(BelowMax)
  BY BelowMaxIs
<1>2. DBL_MAX \in Int /\ 0 < DBL_MAX /\ NoVertex \in Int
  BY WeightAssumption DEF NoVertex
<1>3. p.in_mst = {} /\ p.rc = 0
  OBVIOUS
<1>4. \A v \in Used : /\ p.key[v] = IF v = start THEN 0 ELSE DBL_MAX
                      /\ p.parent[v] = NoVertex
  OBVIOUS
<1>5. p \in PrimStates
  BY <1>2 DEF PrimStates
<1>6. Nearest(p) = {start}
  <2>1. \A u \in Nearest(p) : u = start
    BY <1>1, <1>2, <1>4, <1>5, NearestIs DEF NearestOf
  <2>2. Nearest(p) # {}
    BY <1>1, <1>2, <1>3, <1>4, <1>5, NearestIs
  <2>3. QED
    BY <2>1, <2>2
<1>7. PrimKeys(start, p)
  BY <1>2, <1>3, <1>4 DEF PrimKeys
<1>8. /\ r \in PrimStates /\ r.rc = 0 /\ r.in_mst = {start} /\ Kept(p, r, start)
      /\ PrimKeys(start, r)
  <2>1. TookIn(start, p, start, r)
    BY <1>5, <1>7, RelaxKeys
  <2>2. QED
    BY <1>3, <2>1 DEF TookIn
<1>9. r.parent[start] = NoVertex
  BY <1>4, <1>8 DEF Kept
<1>10. Hung(start, r) = {}
  BY <1>8 DEF Hung
<1>11. TreeOf(BelowMax, start, r.in_mst, Hung(start, r))
  <2>1. start \in 0 .. size - 1
    BY <1>1
  <2>2. TreeOf(BelowMax, start, {start}, {})
    BY <1>1, <2>1, TreeBegins
  <2>3. QED
    BY <1>8, <1>10, <2>2
<1>12. QED
  BY <1>6, <1>8, <1>9, <1>11 DEF PrimInv

\* Each further turn takes in one vertex by the lightest edge that leaves the tree.
LEMMA PrimStep ==
  ASSUME Wired, NEW start, NEW p, PrimInv(start, p), NEW u \in Nearest(p),
         NEW r, r = Relax(p, u)
  PROVE  /\ PrimInv(start, r) /\ r.rc = p.rc /\ r.in_mst = p.in_mst \cup {u}
         /\ u \in Used \ p.in_mst
<1> DEFINE L == BelowMax
           S == p.in_mst
           q == p.parent[u]
           l == LinkEdge(L, u, q)
<1>1. /\ Edged(L) /\ Weighted(L) /\ size \in Nat /\ Used = 0 .. size - 1
      /\ \A e : e \in L <=> e \in edges /\ e.w < DBL_MAX
  BY BelowMaxIs
<1>2. /\ p \in PrimStates /\ start \in S /\ p.parent[start] = NoVertex /\ PrimKeys(start, p)
      /\ \A v \in S \ {start} : p.parent[v] \in S /\ \E e \in L : Between(e, v, p.parent[v])
      /\ TreeOf(L, start, S, Hung(start, p))
  BY DEF PrimInv
<1>3. /\ u \in Used /\ u \notin S /\ u # start /\ p.key[u] < DBL_MAX
      /\ \A v \in Used \ S : p.key[v] < DBL_MAX => p.key[u] <= p.key[v]
  BY <1>1, <1>2, NearestIs DEF NearestOf
<1>4. /\ S \subseteq Used /\ DBL_MAX \in Int
      /\ \A v \in Used : p.key[v] \in Int
  BY <1>2, WeightAssumption DEF PrimStates
<1>5. q \in S /\ LinksTo(vertices, q, u, p.key[u])
  <2>1. u \in Used \ (p.in_mst \cup {start}) /\ p.key[u] # DBL_MAX
    BY <1>3, <1>4
  <2>2. QED
    BY <1>2, <2>1 DEF PrimKeys
<1>6. PICK d \in L : Between(d, u, q) /\ d.w = p.key[u]
  <2>1. q \in 0 .. size - 1 /\ u \in 0 .. size - 1 /\ q # u /\ LinkedBy(edges)
    BY <1>1, <1>3, <1>4, <1>5 DEF Wired
  <2>2. PICK d \in edges : Between(d, q, u) /\ d.w = p.key[u]
    BY <1>5, <2>1 DEF LinkedBy
  <2>3. QED
    BY <1>1, <1>3, <2>2 DEF Between
<1>7. l \in L /\ Between(l, u, q) /\ l.w <= p.key[u]
  BY <1>1, <1>6, LinkIs
<1>8. ASSUME NEW e \in L, ~(e.u \in S <=> e.v \in S) PROVE l.w <= e.w
  <2>1. PICK v \in Used \ S : p.key[v] <= e.w /\ p.key[v] < DBL_MAX
    BY <1>8, CrossingKeys
  <2>2. p.key[u] <= p.key[v]
    BY <1>3, <2>1
  <2> DEFINE a == l.w
             b == p.key[u]
             c == p.key[v]
             w == e.w
  <2>3. /\ a \in Int /\ b \in Int /\ c \in Int /\ w \in Int
        /\ a <= b /\ b <= c /\ c <= w
    BY <1>1, <1>3, <1>4, <1>7, <2>1, <2>2 DEF Weighted
  <2> HIDE DEF a, b, c, w
  <2>4. a <= w
    BY <2>3
  <2>5. QED
    BY <2>4 DEF a, w
<1>9. /\ r \in PrimStates /\ r.rc = p.rc /\ r.in_mst = S \cup {u} /\ PrimKeys(start, r)
      /\ \A v \in S \cup {u} : r.parent[v] = p.parent[v]
  BY <1>2, <1>3, RelaxKeys DEF Kept, TookIn
<1>10. Hung(start, r) = Hung(start, p) \cup {l}
  <2>1. \A e : e \in Hung(start, r) <=>
          \E v \in (S \cup {u}) \ {start} : e = LinkEdge(L, v, r.parent[v])
    BY <1>9 DEF Hung
  <2>2. \A e : e \in Hung(start, p) <=>
          \E v \in S \ {start} : e = LinkEdge(L, v, p.parent[v])
    BY DEF Hung
  <2>3. r.parent[u] = q /\ \A v \in S : r.parent[v] = p.parent[v]
    BY <1>9
  <2> HIDE DEF L
  <2>4. QED
    BY <1>3, <2>1, <2>2, <2>3
<1>11. TreeOf(L, start, S \cup {u}, Hung(start, p) \cup {l})
  <2> DEFINE P == Hung(start, p)
  <2>1. u \in 0 .. size - 1 /\ TreeOf(L, start, S, P)
    BY <1>1, <1>2, <1>3
  <2> HIDE DEF L, S, l, q, P
  <2>2. TreeOf(L, start, S \cup {u}, P \cup {l})
    BY <1>1, <1>3, <1>5, <1>7, <1>8, <2>1, TreeGrows
  <2>3. QED
    BY <2>2 DEF P
<1>12. \A v \in (S \cup {u}) \ {start} :
         r.parent[v] \in S \cup {u} /\ \E e \in L : Between(e, v, r.parent[v])
  BY <1>2, <1>5, <1>6, <1>9
<1>13. r.parent[start] = NoVertex
  BY <1>2, <1>9
<1> HIDE DEF l, q
<1>14. PrimInv(start, r)
  BY <1>2, <1>9, <1>10, <1>11, <1>12, <1>13 DEF PrimInv
<1>15. QED
  BY <1>3, <1>9, <1>14

\* Giving up changes nothing but what is returned.
LEMMA PrimStops ==
  ASSUME NEW start, NEW p, PrimInv(start, p), NEW r, r = [p EXCEPT !.rc = 1]
  PROVE  PrimInv(start, r) /\ r.rc = 1 /\ r.in_mst = p.in_mst /\ Nearest(r) = Nearest(p)
<1>1. p \in PrimStates
  BY DEF PrimInv
<1>2. /\ r.rc = 1 /\ r.in_mst = p.in_mst /\ r.key = p.key /\ r.parent = p.parent
      /\ r = [in_mst |-> r.in_mst, rc |-> r.rc, key |-> r.key, parent |-> r.parent]
  BY <1>1 DEF PrimStates
<1>3. r \in PrimStates
  <2>1. /\ p.key \in [Used -> Int] /\ p.parent \in [Used -> Int]
        /\ p.in_mst \in SUBSET Used /\ 1 \in 0 .. 1
    BY <1>1 DEF PrimStates
  <2>2. QED
    BY <1>2, <2>1 DEF PrimStates
<1>4. Nearest(r) = Nearest(p) /\ Hung(start, r) = Hung(start, p)
  BY <1>2 DEF Nearest, Hung
<1>5. PrimKeys(start, r)
  BY <1>2 DEF PrimInv, PrimKeys
<1>6. QED
  BY <1>2, <1>3, <1>4, <1>5 DEF PrimInv

(***************************************************************************)
(* Every turn but the first takes in one more vertex, until none is near.  *)
(***************************************************************************)
PrimTurn(i, p) ==
  IF p.rc = 0 THEN Cardinality(p.in_mst) = i
  ELSE p.in_mst # Used /\ Nearest(p) = {}

\* After as many turns as there are vertices.
LEMMA PrimEnds ==
  ASSUME Wired, NEW start \in Used, NEW p, p = mst_prim(start)
  PROVE  /\ PrimInv(start, p)
         /\ p.rc = 0 => p.in_mst = Used
         /\ p.rc # 0 => p.in_mst # Used /\ Nearest(p) = {}
<1>1. size \in Nat /\ Used = 0 .. size - 1 /\ size > 0
  BY BelowMaxIs
<1>2. PICK f : p = f[size] /\ PrimTurns(start, size, f)
  BY <1>1, PrimTurnsAre
<1>3. IsFiniteSet(Used) /\ Cardinality(Used) = size
  <2>1. PICK m \in Int : m = size - 1
    BY <1>1
  <2>2. 0 \in Int /\ Used = 0 .. m
    BY <1>1, <2>1
  <2>3. IsFiniteSet(0 .. m) /\ Cardinality(0 .. m) = IF 0 > m THEN 0 ELSE m - 0 + 1
    BY <2>2, FS_Interval
  <2>4. QED
    BY <1>1, <2>1, <2>2, <2>3
<1> DEFINE S == {i \in Nat : i < size => PrimInv(start, f[i + 1]) /\ PrimTurn(i + 1, f[i + 1])}
<1>4. 0 \in S
  <2>1. /\ f[0] = [in_mst |-> {}, rc |-> 0,
                   key |-> [v \in Used |-> IF v = start THEN 0 ELSE DBL_MAX],
                   parent |-> [v \in Used |-> NoVertex]]
        /\ f[1] = IF Nearest(f[0]) = {} THEN [f[0] EXCEPT !.rc = 1]
                  ELSE Relax(f[0], CHOOSE u \in Nearest(f[0]) : TRUE)
    <3>1. 0 \in 0 .. size - 1 /\ 0 + 1 = 1
      BY <1>1
    <3>2. QED
      BY <1>2, <3>1 DEF PrimTurns
  <2> DEFINE r == Relax(f[0], start)
  <2>2. Nearest(f[0]) = {start} /\ r.rc = 0 /\ r.in_mst = {start} /\ PrimInv(start, r)
    BY <2>1, PrimFirst
  <2>3. (CHOOSE u \in Nearest(f[0]) : TRUE) = start
    BY <2>2
  <2>4. f[1] = r
    BY <2>1, <2>2, <2>3
  <2> HIDE DEF r
  <2>5. Cardinality({start}) = 1
    BY FS_Singleton
  <2>6. PrimInv(start, f[1]) /\ PrimTurn(1, f[1])
    BY <2>2, <2>4, <2>5 DEF PrimTurn
  <2>7. QED
    BY <2>6
<1>5. ASSUME NEW k \in Nat, k \in S PROVE k + 1 \in S
  <2> SUFFICES ASSUME k + 1 < size
               PROVE  PrimInv(start, f[k + 1 + 1]) /\ PrimTurn(k + 1 + 1, f[k + 1 + 1])
    OBVIOUS
  <2>1. PICK i \in Nat : i = k + 1
    OBVIOUS
  <2> DEFINE s == f[i]
             t == f[i + 1]
  <2>2. i < size /\ i \in 0 .. size - 1 /\ PrimInv(start, s) /\ PrimTurn(i, s)
    BY <1>1, <1>5, <2>1
  <2>3. t = IF Nearest(s) = {} THEN [s EXCEPT !.rc = 1]
            ELSE Relax(s, CHOOSE u \in Nearest(s) : TRUE)
    BY <1>2, <2>2 DEF PrimTurns
  <2>4. s.in_mst \subseteq Used /\ s.rc \in 0 .. 1
    BY <2>2 DEF PrimInv, PrimStates
  <2> HIDE DEF s, t
  <2>5. PrimInv(start, t) /\ PrimTurn(i + 1, t)
    <3>1. CASE Nearest(s) = {}
      <4>1. PrimInv(start, t) /\ t.rc = 1 /\ t.in_mst = s.in_mst /\ Nearest(t) = {}
        BY <2>2, <2>3, <3>1, PrimStops
      <4>2. s.in_mst # Used
        BY <1>1, <1>3, <2>2 DEF PrimTurn
      <4>3. QED
        BY <4>1, <4>2 DEF PrimTurn
    <3>2. CASE Nearest(s) # {}
      <4>1. PICK u \in Nearest(s) : t = Relax(s, u)
        BY <2>3, <3>2
      <4>2. /\ PrimInv(start, t) /\ t.rc = s.rc /\ t.in_mst = s.in_mst \cup {u}
            /\ u \in Used \ s.in_mst
        BY <2>2, <4>1, PrimStep
      <4>3. s.rc = 0 /\ Cardinality(s.in_mst) = i
        BY <2>2, <3>2 DEF PrimTurn
      <4>4. IsFiniteSet(s.in_mst)
        BY <1>3, <2>4, FS_Subset
      <4>5. Cardinality(t.in_mst) = i + 1
        <5> DEFINE T == s.in_mst
        <5>1. IsFiniteSet(T) /\ u \notin T
          BY <4>2, <4>4
        <5> HIDE DEF T
        <5>2. Cardinality(T \cup {u}) = Cardinality(T) + 1
          BY <5>1, FS_AddElement
        <5>3. QED
          BY <4>2, <4>3, <5>2 DEF T
      <4>6. QED
        BY <4>2, <4>3, <4>5 DEF PrimTurn
    <3>3. QED
      BY <3>1, <3>2
  <2>6. QED
    BY <2>1, <2>5 DEF t
<1> HIDE DEF S
<1>6. size - 1 \in S
  <2>1. size - 1 \in Nat
    BY <1>1
  <2>2. QED
    BY <1>4, <1>5, <2>1, Induction
<1>7. PrimInv(start, p) /\ PrimTurn(size, p)
  <2>1. size - 1 < size /\ (size - 1) + 1 = size
    BY <1>1
  <2>2. QED
    BY <1>2, <1>6, <2>1 DEF S
<1>8. p.in_mst \in SUBSET Used
  BY <1>7 DEF PrimInv, PrimStates
<1>9. Cardinality(p.in_mst) = size => p.in_mst = Used
  BY <1>3, <1>8, FS_Subset
<1>10. QED
  BY <1>7, <1>9 DEF PrimTurn
-----------------------------------------------------------------------------
(***************************************************************************)
(* Prim's result.                                                          *)
(***************************************************************************)
LEMMA PrimIsRight ==
  ASSUME Wired, NEW start \in Used
  PROVE  PrimRight(start)
<1> DEFINE p == mst_prim(start)
           L == BelowMax
           S == p.in_mst
           tree == Component(L, start)
           within == {e \in L : e.u \in tree}
           P == Hung(start, p)
<1>1. /\ Edged(L) /\ Weighted(L) /\ size \in Nat /\ Used = 0 .. size - 1
      /\ \A e : e \in L <=> e \in edges /\ e.w < DBL_MAX
  BY BelowMaxIs
<1>2. /\ PrimInv(start, p)
      /\ p.rc = 0 => S = Used
      /\ p.rc # 0 => S # Used /\ Nearest(p) = {}
  BY PrimEnds
<1> HIDE DEF p
<1>3. /\ p \in PrimStates /\ start \in S /\ p.parent[start] = NoVertex /\ PrimKeys(start, p)
      /\ \A v \in S \ {start} : p.parent[v] \in S /\ \E e \in L : Between(e, v, p.parent[v])
      /\ TreeOf(L, start, S, P)
  BY <1>2 DEF PrimInv
<1>4. S \subseteq Used /\ DBL_MAX \in Int /\ \A v \in Used : p.key[v] \in Int
  BY <1>3, WeightAssumption DEF PrimStates
<1>5. \A v \in Used : v \notin S => p.key[v] = DBL_MAX /\ p.parent[v] = NoVertex
  <2> SUFFICES ASSUME NEW v \in Used, v \notin S
               PROVE  p.key[v] = DBL_MAX /\ p.parent[v] = NoVertex
    OBVIOUS
  <2>1. ~(p.key[v] < DBL_MAX)
    BY <1>1, <1>2, <1>3, NearestIs
  <2>2. v \in Used \ (S \cup {start})
    BY <1>3
  <2>3. /\ p.key[v] <= DBL_MAX
        /\ p.key[v] = DBL_MAX => p.parent[v] = NoVertex
    BY <1>3, <2>2 DEF PrimKeys
  <2>4. QED
    BY <1>4, <2>1, <2>3
<1>6. tree = S
  <2>1. S \subseteq tree
    <3>1. P \subseteq L /\ S \subseteq Component(P, start) /\ start \in 0 .. size - 1
      BY <1>1, <1>3 DEF TreeOf
    <3> HIDE DEF P, L, S
    <3>2. Edged(P)
      BY <1>1, <3>1, EdgedPart
    <3>3. \A e \in P : e.v \in Component(L, e.u)
      <4>1. \A e \in P : e \in L /\ e.u \in 0 .. size - 1
        BY <1>1, <3>1 DEF Edged
      <4>2. QED
        BY <1>1, <4>1, EndsJoined
    <3>4. Component(P, start) \subseteq Component(L, start)
      BY <1>1, <3>1, <3>2, <3>3, ComponentGrows
    <3>5. QED
      BY <3>1, <3>4
  <2>2. ASSUME NEW u \in tree, u \notin S PROVE FALSE
    <3>1. PICK e \in L : ~(e.u \in S <=> e.v \in S)
      BY <1>1, <1>3, <2>2, LeavesBy
    <3>2. PICK v \in Used \ S : p.key[v] < DBL_MAX
      BY <1>2, <3>1, CrossingKeys
    <3>3. QED
      BY <1>4, <1>5, <3>2
  <2>3. QED
    BY <2>1, <2>2
<1>7. \A v \in Used : p.parent[v] = NoVertex <=> v \notin tree \ {start}
  <2> HIDE DEF tree
  <2>1. ASSUME NEW v \in S \ {start} PROVE p.parent[v] # NoVertex
    <3>1. p.parent[v] \in 0 .. size - 1
      BY <1>1, <1>3, <1>4
    <3>2. QED
      BY <1>1, <3>1 DEF NoVertex
  <2>2. QED
    BY <1>3, <1>5, <1>6, <2>1
<1>8. p.rc = 0 <=> tree = Used
  BY <1>2, <1>6
<1>9. /\ Edged(within) /\ Weighted(within)
      /\ \A e : e \in within <=> e \in L /\ e.u \in S /\ e.v \in S
  <2>1. start \in 0 .. size - 1
    BY <1>1
  <2>2. Whole(L, tree)
    BY <1>1, <2>1, ComponentIs
  <2>3. \A e : e \in within <=> e \in L /\ e.u \in S /\ e.v \in S
    BY <1>6, <2>2 DEF Whole
  <2>4. within \subseteq L
    OBVIOUS
  <2> HIDE DEF within, L, tree, S
  <2>5. Edged(within) /\ IsFiniteSet(within)
    BY <1>1, <2>4, EdgedPart DEF Edged
  <2>6. Weighted(within)
    BY <1>1, <2>4, <2>5 DEF Weighted
  <2>7. QED
    BY <2>3, <2>5, <2>6
<1> HIDE DEF within, tree
<1>10. P = ParentEdges(within, p.parent)
  <2>1. ASSUME NEW v \in S \ {start}
        PROVE  LinkEdge(within, v, p.parent[v]) = LinkEdge(L, v, p.parent[v])
    <3>1. p.parent[v] \in S
      BY <1>3
    <3>2. {f \in within : {f.u, f.v} = {v, p.parent[v]}}
            = {f \in L : {f.u, f.v} = {v, p.parent[v]}}
      BY <1>9, <3>1
    <3>3. QED
      BY <3>2 DEF LinkEdge
  <2>2. \A v : v \in {u \in Used : p.parent[u] # NoVertex} <=> v \in S \ {start}
    BY <1>4, <1>6, <1>7
  <2>3. \A e : e \in ParentEdges(within, p.parent) <=>
          \E v \in {u \in Used : p.parent[u] # NoVertex} : e = LinkEdge(within, v, p.parent[v])
    BY DEF ParentEdges
  <2>4. \A e : e \in P <=> \E v \in S \ {start} : e = LinkEdge(L, v, p.parent[v])
    BY DEF Hung
  <2> HIDE DEF P, L, S
  <2>5. QED
    BY <2>1, <2>2, <2>3, <2>4
<1>11. P \subseteq within /\ Thrifty(P)
  BY <1>3, <1>9 DEF TreeOf
<1>12. Bridged(P, within)
  <2> SUFFICES ASSUME NEW e \in within PROVE e.v \in Component(Light(P, e.w), e.u)
    BY DEF Bridged
  <2>1. e \in L /\ e.u \in S /\ e.v \in S /\ e.w \in Int /\ e.u \in 0 .. size - 1
    BY <1>1, <1>9 DEF Edged, Weighted
  <2>2. e \in Light(L, e.w) /\ Edged(Light(L, e.w))
    <3>1. e \in Light(L, e.w)
      BY <2>1 DEF Light
    <3> HIDE DEF L
    <3>2. QED
      BY <1>1, <3>1, LightEdged
  <2>3. e.v \in Component(Light(L, e.w), e.u)
    BY <2>1, <2>2, EndsJoined
  <2>4. QED
    BY <1>3, <2>1, <2>3 DEF TreeOf, JoinsLightly
<1> HIDE DEF P, L, S
<1>13. MinimumForest(ParentEdges(within, p.parent), within)
  BY <1>9, <1>10, <1>11, <1>12, BridgedMinimum
<1>14. PrimRight(start)
  <2>1. L = {e \in edges : e.w < DBL_MAX}
    BY DEF L, BelowMax
  <2>2. QED
    BY <1>7, <1>8, <1>13, <2>1, Zenon DEF PrimRight, p, tree, within
<1>15. QED
  BY <1>14

LEMMA SInvHolds == MCSpec => []SInv
<1>1. MCInit => SInv
  <2> SUFFICES ASSUME MCInit PROVE SInv
    OBVIOUS
  <2>1. Init /\ Used = {}
    BY DEF MCInit, Init, Used
  <2>2. QED
    BY <2>1, InitRefines DEF SInv, MCInv, Mutual
<1>2. QED
  BY <1>1, SearchStep, PTL DEF MCSpec

LEMMA TreesHold == SInv => SpanningTrees
<1> SUFFICES ASSUME SInv, impl = "graph", size > 0
             PROVE  KruskalRight /\ \A s \in Used : PrimRight(s)
  BY DEF SpanningTrees, Searched
<1>1. /\ Edged(edges) /\ Weighted(edges) /\ LinkedBy(edges)
      /\ \A e \in edges : e.u # e.v
  BY EdgesAre
<1>2. ASSUME NEW u \in Used
      PROVE  /\ Len(vertices[u].adj) \in Nat
             /\ DOMAIN vertices[u].adj = 1 .. Len(vertices[u].adj)
             /\ \A i \in 1 .. Len(vertices[u].adj) :
                  vertices[u].adj[i].to \in Used /\ vertices[u].adj[i].weight \in Int
  <2>1. Joined(vertices, Used) /\ Mutual(vertices, Used)
    BY DEF SInv, MCInv, RInv
  <2> DEFINE l == vertices[u].adj
  <2>2. l \in Seq(Link) /\ \A i \in DOMAIN l : l[i].to \in Used
    BY <2>1 DEF Joined
  <2>3. Len(l) \in Nat /\ DOMAIN l = 1 .. Len(l)
    BY <2>2, LenProperties
  <2>4. ASSUME NEW i \in 1 .. Len(l) PROVE l[i].to \in Used /\ l[i].weight \in Int
    <3>1. l[i].to \in Used
      BY <2>2, <2>3
    <3>2. LinksTo(vertices, u, l[i].to, l[i].weight)
      BY <2>3 DEF LinksTo
    <3>3. QED
      BY <2>1, <3>1, <3>2, WeightAssumption DEF Mutual
  <2>5. QED
    BY <2>3, <2>4
<1>3. Wired
  BY <1>1, <1>2 DEF Wired
<1>4. QED
  BY <1>1, <1>3, KruskalIsRight, PrimIsRight

(***************************************************************************)
(* On whatever graph callers have built, through loops, parallel edges and *)
(* weights that are equal, negative or DBL_MAX: Kruskal's parents are a    *)
(* spanning forest no other is lighter than, whatever order qsort puts     *)
(* equal weights in, rooted at the lowest indices, and its 0 means that    *)
(* the graph is connected.  Prim's from any start are such a tree of what  *)
(* edges below DBL_MAX join to it, and its 0 means that they join all.     *)
(***************************************************************************)
THEOREM GraphTrees == MCSpec => []SpanningTrees
BY SInvHolds, TreesHold, PTL

(***************************************************************************)
(* Prim's return code tells whether the graph is connected, as             *)
(* docs/graph.md:62 says, when no edge weighs DBL_MAX.  The hypothesis is  *)
(* needed: without it two vertices and one edge are a counterexample.      *)
(***************************************************************************)
THEOREM GraphPrimConnected ==
  ASSUME \A w \in Weight : w < DBL_MAX
  PROVE  MCSpec => []PrimConnected
<1>1. SInv => PrimConnected
  <2> SUFFICES ASSUME SInv, impl = "graph", size > 0, NEW s \in Used
               PROVE  mst_prim(s).rc = 0 <=> Component(edges, s) = Used
    BY DEF PrimConnected, Searched
  <2>1. PrimRight(s)
    BY TreesHold DEF SpanningTrees, Searched
  <2>2. {e \in edges : e.w < DBL_MAX} = edges
    BY EdgesAre
  <2>3. QED
    BY <2>1, <2>2, Zenon DEF PrimRight
<1>2. QED
  BY <1>1, SInvHolds, PTL
=============================================================================
