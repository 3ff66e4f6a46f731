---------------------------- MODULE HashLP_proof ----------------------------
(***************************************************************************)
(* Proofs about hash_lp.c, for every set of items, every capacity and      *)
(* every hash function: no item is ever out of reach of its own probe, no  *)
(* key is held twice, the load bound holds and no resize runs into         *)
(* another, and the table answers as an atomic dictionary does.            *)
(***************************************************************************)
EXTENDS HashLP, FiniteSetTheorems, TLAPS

(***************************************************************************)
(* Slot x is passed on the way from h to s round the array.  The model's   *)
(* Reachable says the same with distances and remainders.                  *)
(***************************************************************************)
OnPath(h, x, s) == IF h <= s THEN h <= x /\ x <= s ELSE h <= x \/ x <= s

Home(k) == hash[k] % capacity

Slots == 0 .. capacity - 1

Live == LiveIn(entries)

Left == {l \in LiveIn(old) : l >= i}

-----------------------------------------------------------------------------
(***************************************************************************)
(* The inductive invariant.  TypeOK leaves open what a call under way has  *)
(* as its argument, and Load what a resize must still find room for.       *)
(***************************************************************************)
Control ==
  /\ capacity \in Nat /\ oldcap \in Nat
  /\ pc # "none" => capacity > 0
  /\ pc = "none" => entries = NoTable
  /\ pc \notin {"rehash", "reprobe"} => old = NoTable /\ i = 0
  /\ pc \notin {"probe", "reprobe"} => tomb = NoTomb
  /\ pc = "probe" =>
       /\ item = call.arg
       /\ \/ call.op = "put" /\ call.arg \in Item
          \/ call.op \in {"get", "delete"} /\ call.arg \in Key
  /\ pc = "grow" => call.op = "put" /\ call.arg \in Item
  /\ pc = "shrink" => call.op = "delete"
  /\ pc \in {"rehash", "reprobe"} =>
       \/ call.op = "delete"
       \/ call.op = "put" /\ call.arg \in Item
  /\ pc = "reprobe" => i < oldcap /\ old[i] \in Item /\ item = old[i]

Chains ==
  \A s \in Live : \A x \in Slots :
    OnPath(Home(entries[s].key), x, s) => entries[x] # EMPTY

Unique ==
  /\ \A s, t \in Live : s # t => entries[s].key # entries[t].key
  /\ \A s, t \in Left : s # t => old[s].key # old[t].key
  /\ \A s \in Live : \A t \in Left : entries[s].key # old[t].key

Room ==
  /\ size = Cardinality(Live)
  /\ pc # "none" => size * 10 < capacity * 7
  /\ pc = "probe" /\ call.op = "put" => (size + 1) * 10 < capacity * 7
  /\ pc = "shrink" => capacity > 8 /\ size * 10 <= capacity * 2
  /\ pc \in {"rehash", "reprobe"} =>
       /\ (size + Cardinality(Left)) * 10 < capacity * 7
       /\ call.op = "put" => (size + Cardinality(Left) + 1) * 10 < capacity * 7
  /\ pc # "nested"

(***************************************************************************)
(* A probe for k has met neither k nor an empty slot before idx, and the   *)
(* tombstone it remembers could be reached from k's home.                  *)
(***************************************************************************)
Probing(k) ==
  /\ idx \in Slots
  /\ \A x \in Slots :
       OnPath(Home(k), x, idx) /\ x # idx =>
         /\ entries[x] # EMPTY
         /\ entries[x] \in Item => entries[x].key # k
  /\ tomb # NoTomb =>
       /\ tomb \in Slots /\ entries[tomb] = TOMB
       /\ \A x \in Slots : OnPath(Home(k), x, tomb) => entries[x] # EMPTY

ProbeInv == pc \in {"probe", "reprobe"} => Probing(Probed)

IInv == TypeOK /\ Control /\ Chains /\ Unique /\ Room /\ ProbeInv

-----------------------------------------------------------------------------
\* Remainders, as the C code uses them: of a slot number, of the slot after
\* the last, and of a difference of slots.
LEMMA Remainders ==
  ASSUME NEW n \in Nat \ {0}
  PROVE  /\ \A a \in Int : a % n \in 0 .. n - 1
         /\ \A a \in 0 .. n - 1 : a % n = a
         /\ \A a \in n .. 2 * n - 1 : a % n = a - n
         /\ \A a \in -n .. -1 : a % n = a + n
<1>1. \A a \in Int : a % n \in 0 .. n - 1
  OBVIOUS
<1>2. \A a \in 0 .. n - 1 : a % n = a
  OBVIOUS
<1>3. \A a \in n .. 2 * n - 1 : a % n = a - n
  OBVIOUS
<1>4. \A a \in -n .. -1 : a % n = a + n
  OBVIOUS
<1>5. QED
  BY <1>1, <1>2, <1>3, <1>4

LEMMA Paths ==
  ASSUME NEW n \in Nat, NEW h \in 0 .. n - 1, NEW s \in 0 .. n - 1,
         NEW x \in 0 .. n - 1, NEW t \in 0 .. n - 1
  PROVE  /\ OnPath(h, x, h) => x = h
         /\ OnPath(h, s, s)
         /\ OnPath(h, t, s) \/ OnPath(h, s, t)
BY DEF OnPath

LEMMA PathNext ==
  ASSUME NEW n \in Nat \ {0}, NEW h \in 0 .. n - 1, NEW s \in 0 .. n - 1,
         NEW x \in 0 .. n - 1,
         OnPath(h, x, (s + 1) % n), x # (s + 1) % n
  PROVE  OnPath(h, x, s)
<1>1. (s + 1) % n = IF s = n - 1 THEN 0 ELSE s + 1
  <2>1. CASE s = n - 1
    <3>1. s + 1 \in n .. 2 * n - 1 /\ s + 1 - n = 0
      BY <2>1
    <3>2. QED
      BY <2>1, <3>1, Remainders
  <2>2. CASE s # n - 1
    <3>1. s + 1 \in 0 .. n - 1
      BY <2>2
    <3>2. QED
      BY <2>2, <3>1, Remainders
  <2>3. QED
    BY <2>1, <2>2
<1>2. QED
  BY <1>1 DEF OnPath

\* The slots at distances 0 .. d from h, d being the distance to s.
LEMMA Around ==
  ASSUME NEW n \in Nat \ {0}, NEW h \in 0 .. n - 1, NEW s \in 0 .. n - 1,
         NEW d \in 0 .. (s - h) % n
  PROVE  (h + d) % n \in 0 .. n - 1 /\ OnPath(h, (h + d) % n, s)
<1>1. (s - h) % n = IF h <= s THEN s - h ELSE s - h + n
  <2>1. CASE h <= s
    <3>1. s - h \in 0 .. n - 1
      BY <2>1
    <3>2. QED
      BY <2>1, <3>1, Remainders
  <2>2. CASE h > s
    <3>1. s - h \in -n .. -1
      BY <2>2
    <3>2. (s - h) % n = s - h + n
      BY <3>1, Remainders
    <3>3. QED
      BY <2>2, <3>2
  <2>3. QED
    BY <2>1, <2>2
<1>2. CASE h + d < n
  <2>1. d \in Int /\ h + d \in 0 .. n - 1
    BY <1>1, <1>2
  <2>2. (h + d) % n = h + d
    BY <2>1, Remainders
  <2>3. QED
    BY <1>1, <2>1, <2>2 DEF OnPath
<1>3. CASE h + d >= n
  <2>1. d \in Int /\ h > s /\ h + d \in n .. 2 * n - 1 /\ h + d - n <= s
    BY <1>1, <1>3
  <2>2. \A a \in n .. 2 * n - 1 : a % n = a - n
    BY Remainders
  <2>3. (h + d) % n = h + d - n
    BY <2>1, <2>2
  <2>4. QED
    BY <2>1, <2>3 DEF OnPath
<1>4. QED
  BY <1>1, <1>2, <1>3

LEMMA BlankTable ==
  ASSUME NEW n \in Nat
  PROVE  /\ Cardinality(DOMAIN Blank(n)) = n
         /\ Blank(n) \in [0 .. n - 1 -> Item \cup {EMPTY, TOMB}]
         /\ LiveIn(Blank(n)) = {}
<1>1. DOMAIN Blank(n) = 0 .. n - 1
  BY DEF Blank
<1>2. Cardinality(0 .. n - 1) = n
  BY FS_Interval
<1>3. QED
  BY <1>1, <1>2, SlotAssumption DEF Blank, LiveIn

LEMMA NoTableFacts ==
  /\ Cardinality(DOMAIN NoTable) = 0
  /\ NoTable \in [0 .. -1 -> Item \cup {EMPTY, TOMB}]
  /\ LiveIn(NoTable) = {}
<1>1. DOMAIN NoTable = {}
  BY DEF NoTable
<1>2. 0 .. -1 = {}
  OBVIOUS
<1>3. QED
  BY <1>1, <1>2, FS_EmptySet DEF NoTable, LiveIn

LEMMA LiveFinite ==
  ASSUME TypeOK, Control
  PROVE  /\ DOMAIN entries = Slots /\ DOMAIN old = 0 .. oldcap - 1
         /\ Live \subseteq Slots /\ Left \subseteq 0 .. oldcap - 1
         /\ IsFiniteSet(Live) /\ IsFiniteSet(Left)
         /\ Cardinality(Live) \in Nat /\ Cardinality(Left) \in Nat
<1>1. DOMAIN entries = Slots /\ DOMAIN old = 0 .. oldcap - 1
  BY DEF TypeOK, Slots
<1>2. Live \subseteq Slots /\ Left \subseteq 0 .. oldcap - 1
  BY <1>1 DEF Live, Left, LiveIn
<1>3. IsFiniteSet(Slots) /\ IsFiniteSet(0 .. oldcap - 1)
  BY FS_Interval DEF Slots, Control
<1>4. IsFiniteSet(Live) /\ IsFiniteSet(Left)
  BY <1>2, <1>3, FS_Subset
<1>5. QED
  BY <1>1, <1>2, <1>4, FS_CardinalityType

LEMMA HomeInside ==
  ASSUME TypeOK, Control, capacity > 0, NEW k \in Key
  PROVE  Home(k) \in Slots
<1>1. hash[k] \in Nat /\ capacity \in Nat \ {0}
  BY HashAssumption DEF TypeOK, Control
<1>2. QED
  BY <1>1, Remainders DEF Home, Slots

-----------------------------------------------------------------------------
(***************************************************************************)
(* A probe that stops at an empty slot has proved its key absent: a live   *)
(* slot with the key lies before idx, where the probe would have met it,   *)
(* or behind, and then the empty slot cuts its chain.                      *)
(***************************************************************************)
LEMMA MissMeansAbsent ==
  ASSUME TypeOK, Control, Chains, capacity > 0, NEW k \in Key,
         Probing(k), entries[idx] = EMPTY, NEW s \in Live
  PROVE  entries[s].key # k
<1> SUFFICES ASSUME entries[s].key = k PROVE FALSE
  OBVIOUS
<1>1. s \in Slots /\ idx \in Slots /\ Home(k) \in Slots /\ entries[s] \in Item
  BY LiveFinite, HomeInside DEF Probing, Live, LiveIn
<1>2. s # idx
  BY <1>1, SlotAssumption
<1>3. OnPath(Home(k), s, idx) \/ OnPath(Home(k), idx, s)
  BY <1>1, Paths DEF Slots, Control
<1>4. ~OnPath(Home(k), s, idx)
  BY <1>1, <1>2 DEF Probing
<1>5. ~OnPath(Home(k), idx, s)
  BY <1>1 DEF Chains
<1>6. QED
  BY <1>3, <1>4, <1>5

\* And one that stops at a hit has found the only slot with the key.
LEMMA HitIsOnly ==
  ASSUME TypeOK, Control, Unique, NEW k,
         idx \in Slots, entries[idx] \in Item, entries[idx].key = k
  PROVE  /\ idx \in Live
         /\ \A s \in Live : entries[s].key = k => s = idx
BY LiveFinite DEF Live, LiveIn, Unique

(***************************************************************************)
(* Storing an absent key, at the tombstone remembered or the empty slot:   *)
(* every slot from its home to there is in use, so the item can be found,  *)
(* and no other chain loses a link.                                        *)
(***************************************************************************)
LEMMA StoreKeeps ==
  ASSUME TypeOK, Control, Chains, Unique, capacity > 0, NEW it \in Item,
         Probing(it.key), entries[idx] = EMPTY, Store(it), hash' = hash
  PROVE  /\ Target \in Slots /\ Target \notin Live
         /\ entries' = [s \in Slots |-> IF s = Target THEN it ELSE entries[s]]
         /\ entries' \in [Slots -> Item \cup {EMPTY, TOMB}] /\ capacity' = capacity
         /\ Live' = Live \cup {Target}
         /\ Cardinality(Live') = Cardinality(Live) + 1
         /\ Chains'
         /\ \A s, t \in Live' : s # t => entries'[s].key # entries'[t].key
<1>1. idx \in Slots /\ DOMAIN entries = Slots /\ Live \subseteq Slots
  BY LiveFinite DEF Probing
<1>2. Target \in Slots /\ entries[Target] \in {EMPTY, TOMB}
  BY <1>1 DEF Target, Probing
<1>3. Target \notin Live
  BY <1>2, SlotAssumption DEF Live, LiveIn
<1>4. entries' = [s \in Slots |-> IF s = Target THEN it ELSE entries[s]]
  BY <1>1 DEF Store, TypeOK, Slots
<1>5. capacity' = capacity /\ entries' \in [Slots -> Item \cup {EMPTY, TOMB}]
  <2>1. DOMAIN entries' = DOMAIN entries
    BY <1>1, <1>4
  <2>2. capacity' = capacity
    BY <2>1 DEF capacity
  <2>3. \A s \in Slots : entries[s] \in Item \cup {EMPTY, TOMB}
    BY DEF TypeOK, Slots
  <2>4. QED
    BY <1>4, <2>2, <2>3
<1>6. Live' = Live \cup {Target}
  BY <1>1, <1>2, <1>4 DEF Live, LiveIn
<1>7. Cardinality(Live') = Cardinality(Live) + 1
  BY <1>3, <1>6, LiveFinite, FS_AddElement
<1>8. it.key \in Key /\ Home(it.key) \in Slots
  BY HomeInside DEF Key
<1>9. \A x \in Slots : OnPath(Home(it.key), x, Target) => entries'[x] # EMPTY
  <2> SUFFICES ASSUME NEW x \in Slots, OnPath(Home(it.key), x, Target), x # Target
               PROVE  entries[x] # EMPTY
    BY <1>4, SlotAssumption
  <2>1. QED
    BY <1>1 DEF Probing, Target
<1>10. Chains'
  <2> SUFFICES ASSUME NEW s \in Live', NEW x \in Slots, OnPath(Home(entries'[s].key), x, s)
               PROVE  entries'[x] # EMPTY
    BY <1>5 DEF Chains, Home, Slots
  <2>1. CASE s = Target
    BY <1>2, <1>4, <1>9, <2>1
  <2>2. CASE s \in Live /\ s # Target
    <3>1. entries[x] # EMPTY
      BY <1>1, <1>4, <2>2 DEF Chains
    <3>2. QED
      BY <1>4, <3>1, SlotAssumption
  <2>3. QED
    BY <1>6, <2>1, <2>2
<1>11. \A s \in Live : entries[s].key # it.key
  BY <1>8, MissMeansAbsent
<1>12. \A s, t \in Live' : s # t => entries'[s].key # entries'[t].key
  BY <1>1, <1>2, <1>3, <1>4, <1>6, <1>11 DEF Unique
<1>13. QED
  BY <1>2, <1>3, <1>4, <1>5, <1>6, <1>7, <1>10, <1>12

\* A probe has met nothing yet when it starts at its home.
LEMMA StartsProbing ==
  ASSUME TypeOK, Control, capacity > 0, NEW k \in Key,
         idx' = Home(k), tomb' = NoTomb, UNCHANGED <<hash, entries>>
  PROVE  Probing(k)' /\ idx' \in DOMAIN entries
<1>1. capacity' = capacity
  BY DEF capacity
<1>2. Home(k)' = Home(k) /\ Home(k) \in Slots
  BY <1>1, HomeInside DEF Home
<1>3. \A x \in Slots : OnPath(Home(k), x, Home(k)) => x = Home(k)
  BY <1>2, Paths DEF Slots, Control
<1>4. QED
  BY <1>1, <1>2, <1>3, LiveFinite DEF Probing, Slots

\* What a turn of the probe loop adds: the slot just looked at.
LEMMA Advances ==
  ASSUME TypeOK, Control, capacity > 0, NEW k \in Key, Probing(k),
         entries[idx] # EMPTY, entries[idx] \in Item => entries[idx].key # k,
         idx' = NextSlot(idx),
         tomb' = IF entries[idx] = TOMB /\ tomb = NoTomb THEN idx ELSE tomb,
         UNCHANGED <<hash, entries>>
  PROVE  Probing(k)' /\ idx' \in DOMAIN entries /\ tomb' \in DOMAIN entries \cup {NoTomb}
<1>1. /\ capacity' = capacity /\ Home(k)' = Home(k) /\ Slots' = Slots
      /\ Home(k) \in Slots /\ idx \in Slots /\ DOMAIN entries = Slots
  <2>1. capacity' = capacity
    BY DEF capacity
  <2>2. Home(k)' = Home(k) /\ Slots' = Slots
    BY <2>1 DEF Home, Slots
  <2>3. QED
    BY <2>1, <2>2, HomeInside, LiveFinite DEF Probing
<1>2. idx' = (idx + 1) % capacity /\ idx' \in Slots
  <2>1. capacity \in Nat \ {0} /\ idx + 1 \in Int
    BY <1>1 DEF Control, Slots
  <2>2. (idx + 1) % capacity \in 0 .. capacity - 1
    BY <2>1, Remainders
  <2>3. QED
    BY <2>2 DEF NextSlot, Slots
<1>3. \A x \in Slots : OnPath(Home(k), x, idx') /\ x # idx' => OnPath(Home(k), x, idx)
  <2> SUFFICES ASSUME NEW x \in Slots, OnPath(Home(k), x, idx'), x # idx'
               PROVE  OnPath(Home(k), x, idx)
    OBVIOUS
  <2>1. capacity \in Nat \ {0}
    BY DEF Control
  <2>2. QED
    BY <1>1, <1>2, <2>1, PathNext DEF Slots
<1>4. \A x \in Slots : OnPath(Home(k), x, idx) => entries[x] # EMPTY
  BY DEF Probing
<1>5. QED
  BY <1>1, <1>2, <1>3, <1>4, LiveFinite DEF Probing, TypeOK

-----------------------------------------------------------------------------
(***************************************************************************)
(* The invariant, action by action.  First the steps that leave the table  *)
(* and what is still to be copied as they are.                             *)
(***************************************************************************)
LEMMA StillTable ==
  ASSUME IInv, UNCHANGED <<hash, entries, size, old, i>>
  PROVE  /\ capacity' = capacity /\ oldcap' = oldcap /\ Live' = Live /\ Left' = Left
         /\ Chains' /\ Unique' /\ size' = Cardinality(Live')
<1>1. capacity' = capacity /\ oldcap' = oldcap
  BY DEF capacity, oldcap
<1>2. Live' = Live /\ Left' = Left /\ Slots' = Slots
  BY <1>1 DEF Live, Left, LiveIn, Slots
<1>3. Chains'
  BY <1>1, <1>2 DEF IInv, Chains, Home
<1>4. Unique' /\ size' = Cardinality(Live')
  BY <1>2 DEF IInv, Unique, Room
<1>5. QED
  BY <1>1, <1>2, <1>3, <1>4

LEMMA ProbedKey ==
  ASSUME IInv, pc \in {"probe", "reprobe"}
  PROVE  Probed \in Key /\ Probing(Probed) /\ capacity > 0
<1>1. CASE pc = "probe"
  BY <1>1 DEF IInv, Control, ProbeInv, Probed, KeyOf, Key
<1>2. CASE pc = "reprobe"
  BY <1>2 DEF IInv, Control, ProbeInv, Probed, Key
<1>3. QED
  BY <1>1, <1>2

LEMMA EmptyInv ==
  ASSUME hash' \in HashFns, entries' = NoTable, size' = 0, pc' = "none",
         call'.op \in {"none", "put", "get", "delete"},
         tomb' = NoTomb, old' = NoTable, i' = 0
  PROVE  IInv'
<1>1. capacity' = 0 /\ oldcap' = 0 /\ Live' = {} /\ Left' = {}
  BY NoTableFacts DEF capacity, oldcap, Live, Left, LiveIn
<1>2. TypeOK' /\ Control'
  BY <1>1, NoTableFacts DEF TypeOK, Control
<1>3. Chains' /\ Unique' /\ ProbeInv'
  BY <1>1 DEF Chains, Unique, ProbeInv
<1>4. Room'
  BY <1>1, FS_EmptySet DEF Room
<1>5. QED
  BY <1>2, <1>3, <1>4 DEF IInv

LEMMA InitInv == Init => IInv
<1> SUFFICES ASSUME Init PROVE IInv
  OBVIOUS
<1>1. capacity = 0 /\ oldcap = 0 /\ Live = {} /\ Left = {}
  BY NoTableFacts DEF Init, capacity, oldcap, Live, Left, LiveIn
<1>2. TypeOK /\ Control
  BY <1>1, NoTableFacts DEF Init, TypeOK, Control, NoCall
<1>3. Chains /\ Unique /\ ProbeInv
  BY <1>1 DEF Init, Chains, Unique, ProbeInv
<1>4. Room
  BY <1>1, FS_EmptySet DEF Init, Room
<1>5. QED
  BY <1>2, <1>3, <1>4 DEF IInv

\* Between calls, or waiting for memory, nothing is probed for.
LEMMA RestingInv ==
  ASSUME IInv, UNCHANGED <<hash, entries, size, old, i>>, pc # "none",
         old = NoTable, i = 0, tomb' = NoTomb,
         call'.op \in {"none", "put", "get", "delete"},
         \/ pc' = "idle"
         \/ pc' = "grow" /\ call'.op = "put" /\ call'.arg \in Item
  PROVE  IInv'
<1>1. /\ capacity' = capacity /\ oldcap' = oldcap
      /\ Chains' /\ Unique' /\ size' = Cardinality(Live')
  BY StillTable
<1>2. TypeOK' /\ Control'
  BY <1>1 DEF IInv, TypeOK, Control
<1>3. Room' /\ ProbeInv'
  BY <1>1 DEF IInv, Room, ProbeInv
<1>4. QED
  BY <1>1, <1>2, <1>3 DEF IInv

LEMMA CreateInv ==
  ASSUME IInv, NEW c \in Capacities, Create(c)
  PROVE  IInv'
<1>1. CASE UNCHANGED <<pc, entries>>
  <2>1. entries = NoTable /\ old = NoTable /\ i = 0 /\ tomb = NoTomb /\ pc = "none"
    BY DEF IInv, Control, Create
  <2>2. size = 0
    BY <2>1, NoTableFacts, FS_EmptySet DEF IInv, Room, Live
  <2>3. QED
    BY <1>1, <2>1, <2>2, EmptyInv DEF IInv, TypeOK, Create, probe, copy
<1>2. CASE pc' = "idle" /\ entries' = Blank(c)
  <2>1. c \in Nat /\ c > 0
    BY CapacityAssumption
  <2>2. entries = NoTable /\ old = NoTable /\ i = 0 /\ tomb = NoTomb /\ pc = "none"
    BY DEF IInv, Control, Create
  <2>3. size = 0
    BY <2>2, NoTableFacts, FS_EmptySet DEF IInv, Room, Live
  <2>4. /\ capacity' = c /\ oldcap' = 0 /\ Live' = {} /\ Left' = {}
        /\ entries' \in [0 .. c - 1 -> Item \cup {EMPTY, TOMB}]
    BY <1>2, <2>1, <2>2, BlankTable, NoTableFacts
       DEF Create, copy, capacity, oldcap, Live, Left, LiveIn
  <2>5. UNCHANGED <<hash, call, item, idx, tomb, size, old, i>>
    BY DEF Create, probe, copy
  <2>6. TypeOK'
    BY <1>2, <2>1, <2>2, <2>3, <2>4, <2>5, NoTableFacts DEF IInv, TypeOK
  <2>7. Control'
    BY <1>2, <2>1, <2>2, <2>4, <2>5 DEF Control
  <2>8. Chains' /\ Unique' /\ ProbeInv'
    BY <1>2, <2>4 DEF Chains, Unique, ProbeInv
  <2>9. Room'
    BY <1>2, <2>1, <2>3, <2>4, FS_EmptySet DEF Room, Create
  <2>10. QED
    BY <2>6, <2>7, <2>8, <2>9 DEF IInv
<1>3. QED
  BY <1>1, <1>2 DEF Create

LEMMA DestroyInv ==
  ASSUME IInv, Destroy
  PROVE  IInv'
<1>1. old = NoTable /\ i = 0 /\ tomb = NoTomb
  BY DEF IInv, Control, Destroy
<1>2. QED
  BY <1>1, EmptyInv DEF IInv, TypeOK, Destroy, probe, copy

LEMMA RefuseInv ==
  ASSUME IInv, UNCHANGED <<hash, entries, size, pc, call, item, idx, tomb, old, i>>
  PROVE  IInv'
<1>1. /\ capacity' = capacity /\ oldcap' = oldcap /\ Left' = Left
      /\ Chains' /\ Unique' /\ size' = Cardinality(Live')
  BY StillTable
<1>2. TypeOK' /\ Control' /\ Room'
  BY <1>1 DEF IInv, TypeOK, Control, Room
<1>3. ProbeInv'
  BY <1>1 DEF IInv, ProbeInv, Probing, Probed, KeyOf, Slots, Home
<1>4. QED
  BY <1>1, <1>2, <1>3 DEF IInv

(***************************************************************************)
(* A probe begins: put's once it has room, get's and delete's at once.     *)
(***************************************************************************)
LEMMA BeginProbeInv ==
  ASSUME IInv, UNCHANGED <<hash, entries, size>>, capacity > 0,
         old' = NoTable, i' = 0, pc' = "probe", item' = call'.arg,
         size * 10 < capacity * 7,
         \/ call'.op = "put" /\ call'.arg \in Item /\ (size + 1) * 10 < capacity * 7
         \/ call'.op \in {"get", "delete"} /\ call'.arg \in Key,
         idx' = Home(KeyOf(call'.op, call'.arg)), tomb' = NoTomb
  PROVE  IInv'
<1>1. PICK k \in Key : k = KeyOf(call'.op, call'.arg)
  BY DEF KeyOf, Key
<1>2. Probing(k)' /\ idx' \in DOMAIN entries
  BY <1>1, StartsProbing DEF IInv
<1>3. capacity' = capacity /\ oldcap' = 0 /\ Live' = Live /\ Left' = {} /\ Slots' = Slots
  <2>1. capacity' = capacity
    BY DEF capacity
  <2>2. oldcap' = 0 /\ Left' = {}
    BY NoTableFacts DEF oldcap, Left
  <2>3. QED
    BY <2>1, <2>2 DEF Live, LiveIn, Slots
<1>4. TypeOK' /\ Control'
  BY <1>2, <1>3, NoTableFacts DEF IInv, TypeOK, Control
<1>5. Chains'
  BY <1>3 DEF IInv, Chains, Home
<1>6. Unique'
  BY <1>3 DEF IInv, Unique
<1>7. Room'
  BY <1>3 DEF IInv, Room
<1>8. Probed' = k
  BY <1>1 DEF Probed
<1>9. ProbeInv'
  BY <1>2, <1>8 DEF ProbeInv
<1>10. QED
  BY <1>4, <1>5, <1>6, <1>7, <1>9 DEF IInv

LEMMA PutCallInv ==
  ASSUME IInv, NEW it \in Item, PutCall(it)
  PROVE  IInv'
<1>1. /\ pc = "idle" /\ old = NoTable /\ i = 0 /\ tomb = NoTomb
      /\ capacity > 0 /\ size * 10 < capacity * 7
      /\ call'.op = "put" /\ call'.arg = it
  BY DEF IInv, Control, Room, PutCall
<1>2. UNCHANGED <<hash, entries, size, old, i>>
  BY DEF PutCall, table, copy
<1>3. CASE GrowthDue(size, capacity) /\ pc' = "grow" /\ UNCHANGED probe
  BY <1>1, <1>2, <1>3, RestingInv DEF probe
<1>4. CASE ~GrowthDue(size, capacity) /\ pc' = "probe" /\ StartProbe(it, it.key, capacity)
  <2>1. (size + 1) * 10 < capacity * 7
    BY <1>4 DEF GrowthDue, IInv, TypeOK, Control
  <2>2. item' = it /\ idx' = Home(it.key) /\ tomb' = NoTomb
    BY <1>4 DEF StartProbe, Home
  <2>3. QED
    BY <1>1, <1>2, <1>4, <2>1, <2>2, BeginProbeInv DEF KeyOf
<1>5. QED
  BY <1>3, <1>4 DEF PutCall

LEMMA KeyCallInv ==
  ASSUME IInv, NEW k \in Key, NEW op \in {"get", "delete"}, KeyCall(op, k)
  PROVE  IInv'
<1>1. /\ pc = "idle" /\ old = NoTable /\ i = 0
      /\ capacity > 0 /\ size * 10 < capacity * 7
      /\ call'.op = op /\ call'.arg = k
  BY DEF IInv, Control, Room, KeyCall
<1>2. UNCHANGED <<hash, entries, size, old, i>> /\ pc' = "probe"
  BY DEF KeyCall, table, copy
<1>3. item' = k /\ idx' = Home(k) /\ tomb' = NoTomb
  BY DEF KeyCall, StartProbe, Home
<1>4. QED
  BY <1>1, <1>2, <1>3, BeginProbeInv DEF KeyOf

LEMMA AdvanceInv ==
  ASSUME IInv, Advance
  PROVE  IInv'
<1>1. Probed \in Key /\ Probing(Probed) /\ capacity > 0 /\ pc \in {"probe", "reprobe"}
  BY ProbedKey DEF Advance
<1>2. UNCHANGED <<hash, entries, size, pc, call, item, old, i>>
  BY DEF Advance, table, copy
<1>3. entries[idx] # EMPTY /\ (entries[idx] \in Item => entries[idx].key # Probed)
  BY DEF Advance, Hit, Miss, Here
<1>4. Probing(Probed)' /\ idx' \in DOMAIN entries /\ tomb' \in DOMAIN entries \cup {NoTomb}
  <2>1. ASSUME NEW k \in Key, k = Probed
        PROVE  Probing(k)' /\ idx' \in DOMAIN entries /\ tomb' \in DOMAIN entries \cup {NoTomb}
    BY <1>1, <1>2, <1>3, <2>1, Advances DEF Advance, Here, IInv
  <2>2. Probed' = Probed
    BY <1>2 DEF Probed, KeyOf
  <2>3. QED
    BY <1>1, <2>1, <2>2
<1>5. /\ capacity' = capacity /\ oldcap' = oldcap /\ Left' = Left
      /\ Chains' /\ Unique' /\ size' = Cardinality(Live')
  BY <1>2, StillTable
<1>6. TypeOK' /\ Control' /\ Room'
  BY <1>1, <1>2, <1>4, <1>5 DEF IInv, TypeOK, Control, Room
<1>7. QED
  BY <1>4, <1>5, <1>6 DEF IInv, ProbeInv

-----------------------------------------------------------------------------
\* put, get and delete come to their ends.
LEMMA AnsweredInv ==
  ASSUME IInv, PutExisting \/ GetHit \/ KeyMiss
  PROVE  IInv'
<1>1. /\ pc = "probe" /\ pc' = "idle" /\ tomb' = NoTomb /\ call' = NoCall
      /\ UNCHANGED <<hash, entries, size, old, i>>
  BY DEF PutExisting, GetHit, KeyMiss, Finish, StopProbe, table, copy
<1>2. old = NoTable /\ i = 0
  BY <1>1 DEF IInv, Control
<1>3. QED
  BY <1>1, <1>2, RestingInv DEF NoCall

LEMMA PutNewInv ==
  ASSUME IInv, PutNew
  PROVE  IInv'
<1>1. /\ pc = "probe" /\ call.op = "put" /\ item \in Item /\ entries[idx] = EMPTY
      /\ old = NoTable /\ i = 0 /\ capacity > 0
      /\ Probing(item.key) /\ (size + 1) * 10 < capacity * 7
  BY DEF PutNew, Miss, Here, IInv, Control, ProbeInv, Probed, KeyOf, Room
<1>2. UNCHANGED <<hash, old, i>> /\ pc' = "idle" /\ call' = NoCall /\ tomb' = NoTomb
  BY DEF PutNew, Finish, StopProbe, copy
<1>3. Store(item) /\ size' = size + 1
  BY DEF PutNew, Store
<1>4. /\ entries' \in [Slots -> Item \cup {EMPTY, TOMB}] /\ capacity' = capacity
      /\ Cardinality(Live') = Cardinality(Live) + 1 /\ Chains'
      /\ \A s, t \in Live' : s # t => entries'[s].key # entries'[t].key
  BY <1>1, <1>2, <1>3, StoreKeeps DEF IInv
<1>5. Left' = {} /\ oldcap' = 0
  BY <1>1, <1>2, NoTableFacts DEF Left, oldcap
<1>6. TypeOK' /\ Control'
  BY <1>1, <1>2, <1>3, <1>4, <1>5, NoTableFacts DEF IInv, TypeOK, Control, NoCall, Slots
<1>7. Unique' /\ Room' /\ ProbeInv'
  BY <1>1, <1>2, <1>3, <1>4, <1>5 DEF IInv, Unique, Room, ProbeInv
<1>8. QED
  BY <1>4, <1>6, <1>7 DEF IInv

(***************************************************************************)
(* A tombstone cuts no chain; that is what it is for.                      *)
(***************************************************************************)
LEMMA BuryKeeps ==
  ASSUME IInv, idx \in Live, entries' = Buried(idx), hash' = hash
  PROVE  /\ entries' = [s \in Slots |-> IF s = idx THEN TOMB ELSE entries[s]]
         /\ entries' \in [Slots -> Item \cup {EMPTY, TOMB}] /\ capacity' = capacity
         /\ Live' = Live \ {idx}
         /\ Cardinality(Live') = Cardinality(Live) - 1
         /\ Chains'
<1>1. idx \in Slots /\ DOMAIN entries = Slots /\ Live \subseteq Slots
  BY LiveFinite DEF IInv
<1>2. entries' = [s \in Slots |-> IF s = idx THEN TOMB ELSE entries[s]]
  BY <1>1 DEF Buried, IInv, TypeOK, Slots
<1>3. capacity' = capacity
  <2>1. DOMAIN entries' = DOMAIN entries
    BY <1>1, <1>2
  <2>2. QED
    BY <2>1 DEF capacity
<1>4. entries' \in [Slots -> Item \cup {EMPTY, TOMB}]
  BY <1>1, <1>2 DEF IInv, TypeOK, Slots
<1>5. Live' = Live \ {idx}
  BY <1>1, <1>2, SlotAssumption DEF Live, LiveIn
<1>6. Cardinality(Live') = Cardinality(Live) - 1
  BY <1>5, LiveFinite, FS_RemoveElement DEF IInv
<1>7. Chains'
  <2> SUFFICES ASSUME NEW s \in Live', NEW x \in Slots, OnPath(Home(entries'[s].key), x, s)
               PROVE  entries'[x] # EMPTY
    BY <1>3 DEF Chains, Home, Slots
  <2>1. s \in Live /\ entries'[s] = entries[s]
    BY <1>1, <1>2, <1>5
  <2>2. entries[x] # EMPTY
    BY <2>1 DEF IInv, Chains
  <2>3. QED
    BY <1>2, <2>2, SlotAssumption
<1>8. QED
  BY <1>2, <1>3, <1>4, <1>5, <1>6, <1>7

LEMMA DeleteHitInv ==
  ASSUME IInv, DeleteHit
  PROVE  IInv'
<1>1. /\ pc = "probe" /\ call.op = "delete" /\ old = NoTable /\ i = 0 /\ capacity > 0
      /\ size * 10 < capacity * 7
  BY DEF DeleteHit, IInv, Control, Room
<1>2. idx \in Live
  BY <1>1, LiveFinite DEF DeleteHit, Hit, Here, IInv, ProbeInv, Probing, Live, LiveIn
<1>3. /\ UNCHANGED <<hash, old, i>> /\ tomb' = NoTomb /\ size' = size - 1
      /\ entries' = Buried(idx)
      /\ \/ pc' = "shrink" /\ call' = call /\ ShrinkDue(size', capacity)
         \/ pc' = "idle" /\ call' = NoCall
  BY DEF DeleteHit, StopProbe, copy
<1>4. /\ entries' \in [Slots -> Item \cup {EMPTY, TOMB}] /\ capacity' = capacity
      /\ Live' = Live \ {idx} /\ Cardinality(Live') = Cardinality(Live) - 1 /\ Chains'
      /\ \A s \in Live' : entries'[s] = entries[s]
  BY <1>2, <1>3, BuryKeeps, LiveFinite DEF IInv
<1>5. Left' = {} /\ oldcap' = 0
  BY <1>1, <1>3, NoTableFacts DEF Left, oldcap
<1>6. size' \in Nat /\ size' = Cardinality(Live')
  <2>1. IsFiniteSet(Live')
    BY <1>4, LiveFinite, FS_RemoveElement DEF IInv
  <2>2. QED
    BY <1>3, <1>4, <2>1, FS_CardinalityType DEF IInv, Room
<1>7. TypeOK' /\ Control'
  BY <1>1, <1>3, <1>4, <1>5, <1>6, NoTableFacts DEF IInv, TypeOK, Control, NoCall, Slots
<1>8. Unique' /\ ProbeInv'
  BY <1>3, <1>4, <1>5 DEF IInv, Unique, ProbeInv
<1>9. Room'
  BY <1>1, <1>3, <1>4, <1>6 DEF IInv, TypeOK, Control, Room, ShrinkDue, NoCall
<1>10. QED
  BY <1>4, <1>7, <1>8, <1>9 DEF IInv

-----------------------------------------------------------------------------
\* resize
LEMMA ResizeFailsInv ==
  ASSUME IInv, ResizeFails
  PROVE  IInv'
<1>1. /\ pc \in {"grow", "shrink"} /\ pc' = "idle" /\ call' = NoCall
      /\ UNCHANGED <<hash, entries, size, tomb, old, i>>
  BY DEF ResizeFails, Finish, table, probe, copy
<1>2. old = NoTable /\ i = 0 /\ tomb = NoTomb
  BY <1>1 DEF IInv, Control
<1>3. QED
  BY <1>1, <1>2, RestingInv DEF NoCall

(***************************************************************************)
(* The new table has room for all there is to copy: one more than that     *)
(* after a growth, when put goes on to add its item.                       *)
(***************************************************************************)
LEMMA NewRoom ==
  ASSUME IInv, pc \in {"grow", "shrink"}
  PROVE  /\ NewCapacity \in Nat \ {0}
         /\ size * 10 < NewCapacity * 7
         /\ call.op = "put" => (size + 1) * 10 < NewCapacity * 7
<1>1. capacity \in Nat \ {0} /\ size \in Nat /\ size * 10 < capacity * 7
  BY DEF IInv, TypeOK, Control, Room
<1>2. CASE pc = "grow"
  BY <1>1, <1>2 DEF NewCapacity
<1>3. CASE pc = "shrink"
  <2>1. capacity > 8 /\ size * 10 <= capacity * 2 /\ call.op = "delete"
    BY <1>3 DEF IInv, Control, Room
  <2>2. NewCapacity \in Nat /\ 2 * NewCapacity + 1 >= capacity
    BY <1>1, <1>3 DEF NewCapacity
  <2>3. QED
    BY <1>1, <2>1, <2>2
<1>4. QED
  BY <1>2, <1>3

LEMMA ResizeBeginsInv ==
  ASSUME IInv, ResizeBegins
  PROVE  IInv'
<1>1. pc \in {"grow", "shrink"} /\ old = NoTable /\ i = 0 /\ tomb = NoTomb
  BY DEF ResizeBegins, IInv, Control
<1>2. PICK n \in Nat \ {0} :
        /\ n = NewCapacity /\ size * 10 < n * 7
        /\ call.op = "put" => (size + 1) * 10 < n * 7
  BY <1>1, NewRoom
<1>3. /\ UNCHANGED <<hash, call, item, idx, tomb>> /\ pc' = "rehash"
      /\ old' = entries /\ i' = 0 /\ entries' = Blank(n) /\ size' = 0
  BY <1>2 DEF ResizeBegins, probe
<1>4. /\ capacity' = n /\ Live' = {}
      /\ entries' \in [0 .. n - 1 -> Item \cup {EMPTY, TOMB}]
  BY <1>3, BlankTable DEF capacity, Live
<1>5. oldcap' = capacity
  BY <1>3 DEF capacity, oldcap
<1>6. Left' = Live
  BY <1>3, LiveFinite DEF Left, Live, LiveIn, Slots, IInv
<1>7. TypeOK'
  BY <1>1, <1>3, <1>4, <1>5 DEF IInv, TypeOK, Control
<1>8. Control'
  BY <1>1, <1>3, <1>4, <1>5 DEF IInv, Control
<1>9. Chains' /\ ProbeInv'
  BY <1>3, <1>4 DEF Chains, ProbeInv
<1>10. Unique'
  BY <1>3, <1>4, <1>6 DEF IInv, Unique
<1>11. Room'
  BY <1>2, <1>3, <1>4, <1>6, FS_EmptySet DEF IInv, Room, TypeOK
<1>12. QED
  BY <1>7, <1>8, <1>9, <1>10, <1>11 DEF IInv

LEMMA CopySkipInv ==
  ASSUME IInv, CopySkip
  PROVE  IInv'
<1>1. /\ UNCHANGED <<hash, entries, size, pc, call, item, idx, tomb, old>>
      /\ pc = "rehash" /\ i < oldcap /\ old[i] \notin Item /\ i' = i + 1
  BY DEF CopySkip, table, probe
<1>2. capacity' = capacity /\ oldcap' = oldcap /\ Live' = Live /\ Slots' = Slots
  <2>1. capacity' = capacity /\ oldcap' = oldcap
    BY <1>1 DEF capacity, oldcap
  <2>2. QED
    BY <1>1, <2>1 DEF Live, LiveIn, Slots
<1>3. Left' = Left
  BY <1>1, LiveFinite DEF Left, LiveIn, IInv, TypeOK, Control
<1>4. TypeOK' /\ Control'
  BY <1>1, <1>2 DEF IInv, TypeOK, Control
<1>5. Chains'
  BY <1>1, <1>2 DEF IInv, Chains, Home
<1>6. Unique' /\ Room' /\ ProbeInv'
  BY <1>1, <1>2, <1>3 DEF IInv, Unique, Room, ProbeInv
<1>7. QED
  BY <1>4, <1>5, <1>6 DEF IInv

\* The item a resize has come to is one of those it must still find room for.
LEMMA NextIsLeft ==
  ASSUME IInv, pc \in {"rehash", "reprobe"}, i < oldcap, old[i] \in Item
  PROVE  i \in Left /\ Cardinality(Left) >= 1 /\ ~GrowthDue(size, capacity)
<1>1. i \in Left
  BY LiveFinite DEF IInv, TypeOK, Control, Left, LiveIn
<1>2. Cardinality(Left) \in Nat /\ Cardinality(Left) # 0
  BY <1>1, LiveFinite, FS_EmptySet DEF IInv
<1>3. ~GrowthDue(size, capacity)
  BY <1>2 DEF IInv, TypeOK, Control, Room, GrowthDue
<1>4. QED
  BY <1>1, <1>2, <1>3

LEMMA CopyPutInv ==
  ASSUME IInv, CopyPut
  PROVE  IInv'
<1>1. /\ UNCHANGED <<hash, entries, size, call, old, i>>
      /\ pc = "rehash" /\ i < oldcap /\ old[i] \in Item
  BY DEF CopyPut, table, copy
<1>2. pc' = "reprobe" /\ item' = old[i] /\ idx' = Home(old[i].key) /\ tomb' = NoTomb
  BY <1>1, NextIsLeft DEF CopyPut, StartProbe, Home
<1>3. old[i].key \in Key /\ capacity > 0
  BY <1>1 DEF Key, IInv, Control
<1>4. Probing(old[i].key)' /\ idx' \in DOMAIN entries
  <2>1. ASSUME NEW k \in Key, k = old[i].key
        PROVE  Probing(k)' /\ idx' \in DOMAIN entries
    BY <1>1, <1>2, <1>3, <2>1, StartsProbing DEF IInv
  <2>2. QED
    BY <1>1, <1>3, <2>1
<1>5. /\ capacity' = capacity /\ oldcap' = oldcap /\ Left' = Left
      /\ Chains' /\ Unique' /\ size' = Cardinality(Live')
  BY <1>1, StillTable
<1>6. TypeOK' /\ Control'
  BY <1>1, <1>2, <1>4, <1>5 DEF IInv, TypeOK, Control
<1>7. Room'
  BY <1>1, <1>2, <1>5 DEF IInv, Room
<1>8. ProbeInv'
  BY <1>1, <1>2, <1>4 DEF ProbeInv, Probed
<1>9. QED
  BY <1>5, <1>6, <1>7, <1>8 DEF IInv

\* The put inside a resize never meets its key, so it never drops an item.
LEMMA CopyMisses ==
  ASSUME IInv, pc = "reprobe"
  PROVE  ~Hit
<1>1. i \in Left /\ item = old[i]
  BY NextIsLeft DEF IInv, Control
<1>2. idx \in Slots
  BY DEF IInv, ProbeInv, Probing
<1>3. QED
  BY <1>1, <1>2, HitIsOnly DEF Hit, Here, Probed, IInv, Unique

LEMMA CopyNextInv ==
  ASSUME IInv, CopyNext
  PROVE  IInv'
<1>1. /\ pc = "reprobe" /\ i < oldcap /\ item \in Item /\ item = old[i]
      /\ capacity > 0 /\ Probing(item.key)
  BY DEF CopyNext, IInv, Control, ProbeInv, Probed
<1>2. entries[idx] = EMPTY /\ Store(item) /\ size' = size + 1
  BY <1>1, CopyMisses DEF CopyNext, Miss, Here, Store
<1>3. UNCHANGED <<hash, call, old>> /\ i' = i + 1 /\ pc' = "rehash" /\ tomb' = NoTomb
  BY DEF CopyNext, StopProbe
<1>4. /\ Target \in Slots
      /\ entries' = [s \in Slots |-> IF s = Target THEN item ELSE entries[s]]
      /\ entries' \in [Slots -> Item \cup {EMPTY, TOMB}] /\ capacity' = capacity
      /\ Live' = Live \cup {Target} /\ Target \notin Live
      /\ Cardinality(Live') = Cardinality(Live) + 1 /\ Chains'
      /\ \A s, t \in Live' : s # t => entries'[s].key # entries'[t].key
  BY <1>1, <1>2, <1>3, StoreKeeps DEF IInv
<1>5. i \in Left /\ oldcap' = oldcap
  BY <1>1, <1>3, NextIsLeft DEF oldcap
<1>6. Left' = Left \ {i}
  BY <1>1, <1>3, LiveFinite DEF Left, LiveIn, IInv, TypeOK, Control
<1>7. Cardinality(Left') = Cardinality(Left) - 1 /\ Cardinality(Left) \in Nat
  BY <1>5, <1>6, LiveFinite, FS_RemoveElement DEF IInv
<1>8. TypeOK' /\ Control'
  BY <1>1, <1>2, <1>3, <1>4, <1>5 DEF IInv, TypeOK, Control, Slots
<1>9. Unique'
  <2>1. \A s \in Live' : \A t \in Left' : entries'[s].key # old'[t].key
    <3> SUFFICES ASSUME NEW s \in Live', NEW t \in Left'
                 PROVE  entries'[s].key # old[t].key
      BY <1>3
    <3>1. CASE s = Target
      BY <1>1, <1>4, <1>5, <1>6, <3>1 DEF IInv, Unique
    <3>2. CASE s # Target
      BY <1>4, <1>6, <3>2, LiveFinite DEF IInv, Unique
    <3>3. QED
      BY <3>1, <3>2
  <2>2. \A s, t \in Left' : s # t => old'[s].key # old'[t].key
    BY <1>3, <1>6 DEF IInv, Unique
  <2>3. QED
    BY <1>4, <2>1, <2>2 DEF Unique
<1>10. Room'
  <2>1. size' + Cardinality(Left') = size + Cardinality(Left) /\ size' <= size + Cardinality(Left)
    <3>1. Cardinality(Left) >= 1
      BY <1>1, NextIsLeft
    <3>2. QED
      BY <1>2, <1>7, <3>1 DEF IInv, TypeOK
  <2>2. size' = Cardinality(Live')
    BY <1>2, <1>4 DEF IInv, Room
  <2>3. size' * 10 < capacity * 7
    <3>1. pc \in {"rehash", "reprobe"} /\ capacity \in Nat /\ size \in Nat
      BY <1>1 DEF IInv, TypeOK, Control
    <3>2. (size + Cardinality(Left)) * 10 < capacity * 7
      BY <1>1, <3>1 DEF IInv, Room
    <3>3. QED
      BY <1>2, <1>7, <2>1, <3>1, <3>2
  <2>4. QED
    BY <1>1, <1>3, <1>4, <2>1, <2>2, <2>3 DEF IInv, Room
<1>11. ProbeInv'
  BY <1>3 DEF ProbeInv
<1>12. QED
  BY <1>4, <1>8, <1>9, <1>10, <1>11 DEF IInv

LEMMA CopyDoneInv ==
  ASSUME IInv, CopyDone
  PROVE  IInv'
<1>1. /\ pc = "rehash" /\ i = oldcap /\ old' = NoTable /\ i' = 0
      /\ UNCHANGED <<hash, entries, size>> /\ tomb = NoTomb /\ capacity > 0
  BY DEF CopyDone, table, IInv, Control
<1>2. Left = {} /\ Cardinality(Left) = 0
  <2>1. oldcap \in Nat /\ LiveIn(old) \subseteq 0 .. oldcap - 1
    BY DEF IInv, TypeOK, Control, LiveIn
  <2>2. QED
    BY <1>1, <2>1, FS_EmptySet DEF Left
<1>3. size * 10 < capacity * 7 /\ (call.op = "put" => (size + 1) * 10 < capacity * 7)
  BY <1>1, <1>2 DEF IInv, Room, TypeOK
<1>4. CASE call.op = "put" /\ pc' = "probe" /\ StartProbe(call.arg, call.arg.key, capacity)
           /\ UNCHANGED <<call, res>>
  <2>1. call.arg \in Item
    BY <1>1, <1>4 DEF IInv, Control
  <2>2. item' = call.arg /\ idx' = Home(call.arg.key) /\ tomb' = NoTomb
    BY <1>4 DEF StartProbe, Home
  <2>3. QED
    BY <1>1, <1>3, <1>4, <2>1, <2>2, BeginProbeInv DEF KeyOf
<1>5. CASE call.op = "delete" /\ Finish(res) /\ UNCHANGED probe
  <2>1. pc' = "idle" /\ call' = NoCall /\ tomb' = NoTomb
    BY <1>1, <1>5 DEF Finish, probe
  <2>2. /\ capacity' = capacity /\ oldcap' = 0 /\ Live' = Live /\ Left' = {} /\ Slots' = Slots
    <3>1. capacity' = capacity /\ oldcap' = 0 /\ Left' = {}
      BY <1>1, NoTableFacts DEF capacity, oldcap, Left
    <3>2. QED
      BY <1>1, <3>1 DEF Live, LiveIn, Slots
  <2>3. TypeOK' /\ Control'
    BY <1>1, <2>1, <2>2, NoTableFacts DEF IInv, TypeOK, Control, NoCall
  <2>4. Chains'
    BY <1>1, <2>2 DEF IInv, Chains, Home
  <2>5. Unique' /\ ProbeInv'
    BY <1>1, <2>1, <2>2 DEF IInv, Unique, ProbeInv
  <2>6. Room'
    BY <1>1, <1>3, <2>1, <2>2 DEF IInv, Room
  <2>7. QED
    BY <2>3, <2>4, <2>5, <2>6 DEF IInv
<1>6. QED
  BY <1>4, <1>5 DEF CopyDone

LEMMA IInvStep == IInv /\ [Next]_vars => IInv'
<1> SUFFICES ASSUME IInv, [Next]_vars PROVE IInv'
  OBVIOUS
<1>1. CASE Request
  <2>1. CASE Refuse
    BY <2>1, RefuseInv DEF Refuse, table, probe, copy
  <2>2. QED
    BY <1>1, <2>1, CreateInv, DestroyInv, PutCallInv, KeyCallInv DEF Request
<1>2. CASE Work
  BY <1>2, AdvanceInv, PutNewInv, AnsweredInv, DeleteHitInv, ResizeFailsInv,
     ResizeBeginsInv, CopySkipInv, CopyPutInv, CopyNextInv, CopyDoneInv DEF Work
<1>3. CASE UNCHANGED vars
  BY <1>3, RefuseInv DEF vars
<1>4. QED
  BY <1>1, <1>2, <1>3 DEF Next

-----------------------------------------------------------------------------
(***************************************************************************)
(* The invariant in the model's words: the slots OnPath from home to s are *)
(* those at distances 0 .. Distance(home, s).                              *)
(***************************************************************************)
LEMMA ChainsReach ==
  ASSUME TypeOK, Control, Chains, NEW s \in Live
  PROVE  Reachable(s)
<1>1. /\ s \in Slots /\ Slots = 0 .. capacity - 1 /\ capacity \in Nat \ {0}
      /\ entries[s].key \in Key
  BY LiveFinite DEF Live, LiveIn, Key, Slots, Control
<1>2. PICK h \in Slots : h = hash[entries[s].key] % capacity
  BY <1>1, HomeInside DEF Home
<1>3. \A x \in Slots : OnPath(h, x, s) => entries[x] # EMPTY
  BY <1>2 DEF Chains, Home
<1>4. ASSUME NEW d \in 0 .. Distance(h, s)
      PROVE  (h + d) % capacity \in Slots /\ OnPath(h, (h + d) % capacity, s)
  BY <1>1, Around DEF Distance
<1>5. QED
  BY <1>2, <1>3, <1>4 DEF Reachable

LEMMA InvFindable == IInv => Findable
<1> SUFFICES ASSUME IInv PROVE Findable
  OBVIOUS
<1>1. ProbeChains
  BY ChainsReach DEF IInv, ProbeChains, Live
<1>2. Uncopied = {old[l] : l \in Left}
  BY DEF Uncopied, Left
<1>3. NoDuplicates
  BY <1>2 DEF IInv, Unique, NoDuplicates, Live
<1>4. QED
  BY <1>1, <1>3 DEF IInv, Findable

(***************************************************************************)
(* For every capacity and hash function: whatever was put, deleted and     *)
(* resized before, every live item is reachable by its own probe and no    *)
(* key is stored twice, not even in the middle of a resize.                *)
(***************************************************************************)
THEOREM HashLPFindable == Spec => []Findable
<1>1. QED
  BY InitInv, IInvStep, InvFindable, PTL DEF Spec

(***************************************************************************)
(* For every capacity: size is the number of live slots, the load stays    *)
(* under 0.7, and no put inside a resize ever starts another resize.       *)
(***************************************************************************)
THEOREM HashLPLoad == Spec => []Load
<1>1. IInv => Load
  BY DEF IInv, Room, Load, Live
<1>2. QED
  BY InitInv, IInvStep, <1>1, PTL DEF Spec

-----------------------------------------------------------------------------
(***************************************************************************)
(* The refinement.  What the dictionary holds is what the two arrays hold. *)
(***************************************************************************)
LEMMA HeldIs == Held = {entries[s] : s \in Live} \cup {old[l] : l \in Left}
BY DEF Held, Uncopied, Live, Left

LEMMA HeldStill ==
  ASSUME UNCHANGED <<entries, old, i>>
  PROVE  Held' = Held
BY DEF Held, Uncopied, LiveIn

LEMMA HeldOne ==
  ASSUME IInv, pc \notin {"rehash", "reprobe"}
  PROVE  Held = {entries[s] : s \in Live}
<1>1. Left = {}
  BY NoTableFacts DEF IInv, Control, Left
<1>2. QED
  BY <1>1, HeldIs

LEMMA ProbeMisses ==
  ASSUME IInv, pc = "probe", Miss, NEW k, k = Probed
  PROVE  Dict!With(k) = {}
<1>1. \A s \in Live : entries[s].key # k
  BY ProbedKey, MissMeansAbsent DEF IInv, Miss, Here
<1>2. QED
  BY <1>1, HeldOne DEF Dict!With

LEMMA ProbeHits ==
  ASSUME IInv, pc = "probe", Hit, NEW k, k = Probed
  PROVE  idx \in Live /\ Dict!With(k) = {Here}
<1>1. idx \in Live /\ \A s \in Live : entries[s].key = k => s = idx
  BY ProbedKey, HitIsOnly DEF Hit, Here, Probing, IInv
<1>2. QED
  BY <1>1, HeldOne DEF Dict!With, Hit, Here

LEMMA InitRefines == Init => Dict!Init
<1> SUFFICES ASSUME Init PROVE Dict!Init
  OBVIOUS
<1>1. Held = {}
  BY NoTableFacts DEF Init, Held, Uncopied
<1>2. (pc # "none") = FALSE /\ res = Dict!Pending
  BY DEF Init, Pending, Answer, Dict!Pending, Dict!Answer
<1>3. QED
  BY <1>1, <1>2 DEF Dict!Init

LEMMA CreateRefines ==
  ASSUME IInv, NEW c \in Capacities, Create(c)
  PROVE  Dict!Create
<1>1. pc = "none" /\ entries = NoTable /\ old = NoTable /\ UNCHANGED <<old, i>>
  BY DEF Create, copy, IInv, Control
<1>2. LiveIn(entries') = {} /\ LiveIn(old') = {}
  BY <1>1, BlankTable, NoTableFacts, CapacityAssumption DEF Create
<1>3. Held' = {}
  BY <1>2 DEF Held, Uncopied
<1>4. res' = Dict!Pending
  BY DEF Create, Pending, Answer, Dict!Pending, Dict!Answer
<1>5. QED
  BY <1>1, <1>3, <1>4 DEF Dict!Create

LEMMA DestroyRefines ==
  ASSUME IInv, Destroy
  PROVE  Dict!Destroy
<1>1. pc = "idle" /\ pc' = "none" /\ entries' = NoTable /\ UNCHANGED <<old, i>>
  BY DEF Destroy, copy
<1>2. old = NoTable /\ Held = {entries[s] : s \in LiveIn(entries)}
  BY <1>1, HeldOne DEF IInv, Control, Live
<1>3. Held' = {}
  BY <1>1, <1>2, NoTableFacts DEF Held, Uncopied
<1>4. res' = Dict!Answer("destroy", {}, 0, Held)
  BY <1>2 DEF Destroy, Answer, Dict!Answer
<1>5. QED
  BY <1>1, <1>3, <1>4 DEF Dict!Destroy

\* A call begins: the caller sees nothing yet.
LEMMA CallRefines ==
  ASSUME IInv,
         \/ \E it \in Item : PutCall(it)
         \/ \E k \in Key, op \in {"get", "delete"} : KeyCall(op, k)
  PROVE  Dict!Begin
<1>1. /\ pc = "idle" /\ pc' \in {"grow", "probe"} /\ res' = Pending
      /\ UNCHANGED <<entries, old, i>>
  BY DEF PutCall, KeyCall, table, copy
<1>2. QED
  BY <1>1, HeldStill DEF Dict!Begin, Pending, Answer, Dict!Pending, Dict!Answer

LEMMA PutNewRefines ==
  ASSUME IInv, PutNew
  PROVE  call.arg \in Item /\ Dict!Put(call.arg)
<1>1. /\ pc = "probe" /\ call.op = "put" /\ item \in Item /\ item = call.arg
      /\ Probed = item.key /\ entries[idx] = EMPTY /\ Probing(item.key) /\ capacity > 0
      /\ pc' = "idle" /\ UNCHANGED <<hash, old, i>> /\ Store(item)
  BY DEF PutNew, Miss, Here, Finish, Store, copy, IInv, Control, ProbeInv, Probed, KeyOf
<1>2. Dict!With(call.arg.key) = {}
  BY <1>1, ProbeMisses DEF PutNew
<1>3. /\ entries' = [s \in Slots |-> IF s = Target THEN item ELSE entries[s]]
      /\ Target \in Slots /\ Target \notin Live /\ Live' = Live \cup {Target}
  BY <1>1, StoreKeeps DEF IInv
<1>4. {entries'[s] : s \in Live'} = {entries[s] : s \in Live} \cup {item}
  BY <1>3, LiveFinite DEF IInv
<1>5. Left' = {} /\ Left = {}
  BY <1>1, NoTableFacts DEF IInv, Control, Left
<1>6. Held' = Held \cup {call.arg}
  <2>1. Held' = {entries'[s] : s \in Live'} \cup {old'[l] : l \in Left'}
    BY DEF Held, Uncopied, Live, Left
  <2>2. QED
    BY <1>1, <1>4, <1>5, <2>1, HeldIs
<1>7. res' = Dict!Answer("put", call.arg, 0, {})
  BY DEF PutNew, Finish, Answer, Dict!Answer
<1>8. QED
  BY <1>1, <1>2, <1>6, <1>7 DEF Dict!Put

LEMMA PutExistingRefines ==
  ASSUME IInv, PutExisting
  PROVE  call.arg \in Item /\ Dict!PutExisting(call.arg)
<1>1. /\ pc = "probe" /\ item \in Item /\ item = call.arg /\ Probed = item.key
      /\ pc' = "idle" /\ UNCHANGED <<entries, old, i>>
      /\ res' = Answer("put", call.arg, 1, {})
  BY DEF PutExisting, Finish, table, copy, IInv, Control, Probed, KeyOf
<1>2. Dict!With(call.arg.key) # {}
  BY <1>1, ProbeHits DEF PutExisting
<1>3. QED
  BY <1>1, <1>2, HeldStill DEF Dict!PutExisting, Answer, Dict!Answer

\* get and delete share their answers; only a deletion that hits changes Held.
LEMMA KeyMissRefines ==
  ASSUME IInv, KeyMiss
  PROVE  call.arg \in Key /\ (Dict!Get(call.arg) \/ Dict!Delete(call.arg))
<1>1. /\ pc = "probe" /\ call.arg \in Key /\ Probed = call.arg
      /\ pc' = "idle" /\ UNCHANGED <<entries, old, i>>
      /\ call.op \in {"get", "delete"} /\ res' = Answer(call.op, call.arg, 1, {})
  BY DEF KeyMiss, Finish, table, copy, IInv, Control, Probed, KeyOf
<1>2. Dict!With(call.arg) = {}
  BY <1>1, ProbeMisses DEF KeyMiss
<1>3. Held' = Held /\ Held' = Held \ Dict!With(call.arg)
  BY <1>1, <1>2, HeldStill
<1>4. QED
  BY <1>1, <1>2, <1>3 DEF Dict!Get, Dict!Delete, Answer, Dict!Answer

LEMMA GetHitRefines ==
  ASSUME IInv, GetHit
  PROVE  call.arg \in Key /\ Dict!Get(call.arg)
<1>1. /\ pc = "probe" /\ call.arg \in Key /\ Probed = call.arg
      /\ pc' = "idle" /\ UNCHANGED <<entries, old, i>>
      /\ res' = Answer("get", call.arg, 0, {Here})
  BY DEF GetHit, Finish, table, copy, IInv, Control, Probed, KeyOf
<1>2. Dict!With(call.arg) = {Here}
  BY <1>1, ProbeHits DEF GetHit
<1>3. QED
  BY <1>1, <1>2, HeldStill DEF Dict!Get, Answer, Dict!Answer

LEMMA DeleteHitRefines ==
  ASSUME IInv, DeleteHit
  PROVE  call.arg \in Key /\ Dict!Delete(call.arg)
<1>1. /\ pc = "probe" /\ call.arg \in Key /\ Probed = call.arg
      /\ pc' # "none" /\ UNCHANGED <<hash, old, i>> /\ entries' = Buried(idx)
      /\ res' = Answer("delete", call.arg, 0, {Here})
  BY DEF DeleteHit, copy, IInv, Control, Probed, KeyOf
<1>2. idx \in Live /\ Dict!With(call.arg) = {Here}
  BY <1>1, ProbeHits DEF DeleteHit
<1>3. /\ Live' = Live \ {idx}
      /\ entries' = [s \in Slots |-> IF s = idx THEN TOMB ELSE entries[s]]
  BY <1>1, <1>2, BuryKeeps
<1>4. \A s \in Live : s # idx => entries[s] # Here
  BY <1>2 DEF IInv, Unique, Here
<1>5. {entries'[s] : s \in Live'} = {entries[s] : s \in Live} \ {Here}
  BY <1>2, <1>3, <1>4, LiveFinite DEF IInv, Here
<1>6. Left' = {} /\ Left = {}
  BY <1>1, NoTableFacts DEF IInv, Control, Left
<1>7. Held' = Held \ {Here}
  <2>1. Held' = {entries'[s] : s \in Live'} \cup {old'[l] : l \in Left'}
    BY DEF Held, Uncopied, Live, Left
  <2>2. QED
    BY <1>5, <1>6, <2>1, HeldIs
<1>8. QED
  BY <1>1, <1>2, <1>7 DEF Dict!Delete, Answer, Dict!Answer

LEMMA ResizeFailsRefines ==
  ASSUME IInv, ResizeFails
  PROVE  \/ call.arg \in Item /\ Dict!PutFailed(call.arg)
         \/ UNCHANGED Dict!vars
<1>1. pc \in {"grow", "shrink"} /\ pc' = "idle" /\ UNCHANGED <<entries, old, i>>
  BY DEF ResizeFails, Finish, table, copy
<1>2. CASE pc = "grow"
  <2>1. call.arg \in Item /\ res' = Answer("put", call.arg, -1, {})
    BY <1>2 DEF ResizeFails, Finish, IInv, Control
  <2>2. QED
    BY <1>1, <2>1, HeldStill DEF Dict!PutFailed, Answer, Dict!Answer
<1>3. CASE pc = "shrink"
  BY <1>1, <1>3, HeldStill DEF ResizeFails, Finish, Dict!vars
<1>4. QED
  BY <1>1, <1>2, <1>3

\* Copying moves items between the arrays; what is held stays what it is.
LEMMA CopyHeld ==
  ASSUME IInv, ResizeBegins \/ CopySkip \/ CopyNext \/ CopyDone
  PROVE  Held' = Held
<1>1. Held' = {entries'[s] : s \in Live'} \cup {old'[l] : l \in Left'}
  BY DEF Held, Uncopied, Live, Left
<1>2. CASE ResizeBegins
  <2>1. old' = entries /\ i' = 0 /\ Left = {}
    BY <1>2, NoTableFacts DEF ResizeBegins, Left, IInv, Control
  <2>2. Live' = {}
    BY <1>2, NewRoom, BlankTable DEF ResizeBegins, Live
  <2>3. Left' = Live
    BY <2>1, LiveFinite DEF Left, Live, LiveIn, Slots, IInv
  <2>4. QED
    BY <1>1, <2>1, <2>2, <2>3, HeldIs
<1>3. CASE CopySkip
  <2>1. /\ UNCHANGED <<entries, old>> /\ i' = i + 1 /\ i < oldcap /\ old[i] \notin Item
    BY <1>3 DEF CopySkip, table
  <2>2. Left' = Left /\ Live' = Live
    BY <2>1, LiveFinite DEF Left, Live, LiveIn, IInv, TypeOK, Control
  <2>3. QED
    BY <1>1, <2>1, <2>2, HeldIs
<1>4. CASE CopyNext
  <2>1. /\ pc = "reprobe" /\ i < oldcap /\ old[i] \in Item /\ item = old[i]
        /\ capacity > 0 /\ Probing(item.key)
        /\ UNCHANGED <<hash, old>> /\ i' = i + 1
    BY <1>4 DEF CopyNext, IInv, Control, ProbeInv, Probed
  <2>2. entries[idx] = EMPTY /\ Store(item)
    BY <1>4, <2>1, CopyMisses DEF CopyNext, Miss, Here
  <2>3. /\ entries' = [s \in Slots |-> IF s = Target THEN item ELSE entries[s]]
        /\ Target \in Slots /\ Target \notin Live /\ Live' = Live \cup {Target}
    BY <2>1, <2>2, StoreKeeps DEF IInv
  <2>4. {entries'[s] : s \in Live'} = {entries[s] : s \in Live} \cup {item}
    BY <2>3, LiveFinite DEF IInv
  <2>5. i \in Left /\ Left' = Left \ {i}
    BY <2>1, LiveFinite DEF Left, LiveIn, IInv, TypeOK, Control
  <2>6. {old[l] : l \in Left} = {old[l] : l \in Left'} \cup {item}
    BY <2>1, <2>5
  <2>7. QED
    BY <1>1, <2>1, <2>4, <2>6, HeldIs
<1>5. CASE CopyDone
  <2>1. entries' = entries /\ old' = NoTable /\ i = oldcap
    BY <1>5 DEF CopyDone, table
  <2>2. Live' = Live /\ Left' = {}
    BY <2>1, NoTableFacts DEF Live, Left, LiveIn
  <2>3. Left = {}
    BY <2>1, LiveFinite DEF Left, IInv, Control
  <2>4. QED
    BY <1>1, <2>1, <2>2, <2>3, HeldIs
<1>6. QED
  BY <1>2, <1>3, <1>4, <1>5

LEMMA StepRefines == IInv /\ [Next]_vars => [Dict!Next]_(Dict!vars)
<1> SUFFICES ASSUME IInv, [Next]_vars PROVE [Dict!Next]_(Dict!vars)
  OBVIOUS
<1>1. CASE Request
  <2>1. CASE Refuse
    BY <2>1, HeldStill DEF Refuse, table, copy, Refusal, Answer,
       Dict!Next, Dict!Refuse, Dict!Refusal, Dict!Answer
  <2>2. QED
    BY <1>1, <2>1, CreateRefines, DestroyRefines, CallRefines DEF Request, Dict!Next
<1>2. CASE PutNew \/ PutExisting \/ GetHit \/ KeyMiss \/ DeleteHit
  <2>1. Dict!Key = Key
    BY DEF Dict!Key, Key
  <2>2. QED
    BY <1>2, <2>1, PutNewRefines, PutExistingRefines, GetHitRefines, KeyMissRefines,
       DeleteHitRefines DEF Dict!Next
<1>3. CASE ResizeFails
  BY <1>3, ResizeFailsRefines DEF Dict!Next
<1>4. CASE Advance \/ CopyPut
  <2>1. UNCHANGED <<entries, old, i, res>> /\ pc # "none" /\ pc' # "none"
    BY <1>4 DEF Advance, CopyPut, table, copy
  <2>2. QED
    BY <2>1, HeldStill DEF Dict!vars
<1>5. CASE ResizeBegins \/ CopySkip \/ CopyNext \/ CopyDone
  <2>1. res' = res /\ pc # "none" /\ pc' # "none"
    BY <1>5 DEF ResizeBegins, CopySkip, CopyNext, CopyDone, Finish
  <2>2. QED
    BY <1>5, <2>1, CopyHeld DEF Dict!vars
<1>6. CASE UNCHANGED vars
  BY <1>6, HeldStill DEF vars, Dict!vars
<1>7. QED
  BY <1>1, <1>2, <1>3, <1>4, <1>5, <1>6 DEF Next, Work

(***************************************************************************)
(* For every capacity and hash function hash_lp.c answers as an atomic     *)
(* dictionary does: probing, tombstones and resizes never show.            *)
(***************************************************************************)
THEOREM HashLPImplements == Spec => Implements
<1>1. QED
  BY InitInv, IInvStep, InitRefines, StepRefines, PTL DEF Spec, Implements, Dict!Spec
=============================================================================
