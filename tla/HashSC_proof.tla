---------------------------- MODULE HashSC_proof ----------------------------
(***************************************************************************)
(* Proofs about hash_sc.c, for every set of items, every capacity and      *)
(* every hash function: each item is on the list of its key, once; the     *)
(* load bound holds and no resize runs into another; and while copying     *)
(* finds memory the table answers as an atomic dictionary does and loses   *)
(* nothing.                                                                *)
(***************************************************************************)
EXTENDS HashSC, SequenceTheorems, FiniteSetTheorems, TLAPS

(***************************************************************************)
(* No two nodes of a table, on one list or on two, hold the same key.      *)
(***************************************************************************)
Apart(t) ==
  \A b, c \in DOMAIN t : \A m \in DOMAIN t[b], n \in DOMAIN t[c] :
    b # c \/ m # n => t[b][m].key # t[c][n].key

-----------------------------------------------------------------------------
(***************************************************************************)
(* The inductive invariant.  Beyond Findable it keeps the lists of the old *)
(* table apart, since they are what the new one is filled from, and beyond *)
(* Load it keeps the room that a resize and the put after it need.         *)
(***************************************************************************)
Lists ==
  /\ hash \in HashFns
  /\ capacity \in Nat /\ buckets \in [0 .. capacity - 1 -> Seq(Item)]
  /\ oldcap \in Nat /\ old \in [0 .. oldcap - 1 -> Seq(Item)]
  /\ size \in Nat /\ i \in 0 .. oldcap

Control ==
  /\ pc \in {"none", "idle", "put", "grow", "shrink", "copy"}
  /\ pc # "none" => capacity > 0
  /\ pc = "none" => buckets = NoTable
  /\ pc # "copy" => old = NoTable /\ i = 0
  /\ pc \in {"put", "grow"} => call.op = "put" /\ call.arg \in Item
  /\ pc = "shrink" => call.op = "delete"
  /\ pc = "copy" =>
       \/ call.op = "delete"
       \/ call.op = "put" /\ call.arg \in Item
  /\ \A b \in DOMAIN old : b < i => old[b] = <<>>

AtHome == \A b \in DOMAIN buckets : \A n \in DOMAIN buckets[b] : Home(buckets[b][n].key) = b

Chained ==
  /\ AtHome
  /\ Apart(buckets) /\ Apart(old)
  /\ \A x \in ItemsIn(buckets), y \in ItemsIn(old) : x.key # y.key

Room ==
  /\ IsFiniteSet(ItemsIn(buckets)) /\ IsFiniteSet(ItemsIn(old))
  /\ size = Cardinality(ItemsIn(buckets))
  /\ size <= capacity * 2
  /\ pc = "put" => size + 1 <= capacity * 2
  /\ pc = "shrink" => capacity > 8 /\ size * 4 < capacity
  /\ pc = "copy" =>
       /\ size + Cardinality(ItemsIn(old)) <= capacity * 2
       /\ call.op = "put" => size + Cardinality(ItemsIn(old)) + 1 <= capacity * 2

IInv == Lists /\ Control /\ Chained /\ Room

-----------------------------------------------------------------------------
\* A list with a node linked in front, without its first, without one.
LEMMA WithFront ==
  ASSUME NEW S, NEW s \in Seq(S), NEW e \in S
  PROVE  /\ <<e>> \o s \in Seq(S) /\ DOMAIN (<<e>> \o s) = 1 .. Len(s) + 1
         /\ (<<e>> \o s)[1] = e
         /\ \A n \in 1 .. Len(s) : (<<e>> \o s)[n + 1] = s[n]
OBVIOUS

LEMMA WithoutFront ==
  ASSUME NEW S, NEW s \in Seq(S), s # <<>>
  PROVE  /\ Tail(s) \in Seq(S) /\ DOMAIN Tail(s) = 1 .. Len(s) - 1
         /\ Head(s) = s[1] /\ Head(s) \in S /\ Len(s) \in Nat /\ Len(s) >= 1
         /\ \A n \in 1 .. Len(s) - 1 : Tail(s)[n] = s[n + 1]
OBVIOUS

LEMMA WithoutOne ==
  ASSUME NEW S, NEW s \in Seq(S), NEW at \in 1 .. Len(s)
  PROVE  /\ RemoveAt(s, at) \in Seq(S) /\ DOMAIN RemoveAt(s, at) = 1 .. Len(s) - 1
         /\ \A n \in 1 .. Len(s) - 1 :
              RemoveAt(s, at)[n] = IF n < at THEN s[n] ELSE s[n + 1]
<1> DEFINE u == SubSeq(s, 1, at - 1)
           v == SubSeq(s, at + 1, Len(s))
<1>1. u \in Seq(S) /\ Len(u) = at - 1 /\ \A n \in 1 .. at - 1 : u[n] = s[n]
  BY SubSeqProperties
<1>2. v \in Seq(S) /\ Len(v) = Len(s) - at /\ \A n \in 1 .. Len(s) - at : v[n] = s[n + at]
  OBVIOUS
<1>3. RemoveAt(s, at) = u \o v
  BY DEF RemoveAt
<1> HIDE DEF u, v
<1>4. u \o v \in Seq(S) /\ Len(u \o v) = Len(s) - 1
  BY <1>1, <1>2
<1>5. \A n \in 1 .. Len(s) - 1 : (u \o v)[n] = IF n < at THEN s[n] ELSE s[n + 1]
  BY <1>1, <1>2
<1>6. QED
  BY <1>3, <1>4, <1>5

LEMMA InItems ==
  ASSUME NEW t, NEW x
  PROVE  x \in ItemsIn(t) <=> \E b \in DOMAIN t : \E n \in DOMAIN t[b] : x = t[b][n]
BY DEF ItemsIn, ToSet

LEMMA BlankTable ==
  ASSUME NEW n \in Nat
  PROVE  /\ Cardinality(DOMAIN Blank(n)) = n
         /\ Blank(n) \in [0 .. n - 1 -> Seq(Item)]
         /\ \A b \in DOMAIN Blank(n) : Blank(n)[b] = <<>>
         /\ ItemsIn(Blank(n)) = {}
<1>1. DOMAIN Blank(n) = 0 .. n - 1
  BY DEF Blank
<1>2. Cardinality(0 .. n - 1) = n
  BY FS_Interval
<1>3. \A b \in DOMAIN Blank(n) : Blank(n)[b] = <<>>
  BY DEF Blank
<1>4. ItemsIn(Blank(n)) = {}
  BY <1>3, InItems
<1>5. QED
  BY <1>1, <1>2, <1>3, <1>4 DEF Blank

LEMMA NoTableFacts ==
  /\ Cardinality(DOMAIN NoTable) = 0 /\ DOMAIN NoTable = {}
  /\ NoTable \in [0 .. -1 -> Seq(Item)]
  /\ ItemsIn(NoTable) = {}
<1>1. DOMAIN NoTable = {}
  BY DEF NoTable
<1>2. 0 .. -1 = {}
  OBVIOUS
<1>3. ItemsIn(NoTable) = {}
  BY <1>1, InItems
<1>4. QED
  BY <1>1, <1>2, <1>3, FS_EmptySet DEF NoTable

\* Tables without a node have nothing that could be out of place.
LEMMA EmptyApart ==
  ASSUME NEW t, ItemsIn(t) = {}
  PROVE  Apart(t)
BY InItems DEF Apart

LEMMA HomeInside ==
  ASSUME Lists, capacity > 0, NEW k \in Key
  PROVE  Home(k) \in DOMAIN buckets
<1>1. hash[k] \in Nat /\ capacity \in Nat \ {0}
  BY HashAssumption DEF Lists
<1>2. hash[k] % capacity \in 0 .. capacity - 1
  BY <1>1
<1>3. QED
  BY <1>2 DEF Home, Lists

LEMMA CapacityStill ==
  ASSUME DOMAIN buckets' = DOMAIN buckets, hash' = hash
  PROVE  capacity' = capacity /\ \A k : Home(k)' = Home(k)
<1>1. capacity' = capacity
  BY DEF capacity
<1>2. QED
  BY <1>1 DEF Home

-----------------------------------------------------------------------------
(***************************************************************************)
(* A key is looked for on one list and that is the only place it can be.   *)
(***************************************************************************)
LEMMA HitsAre ==
  ASSUME Lists, Chained, capacity > 0, NEW k \in Key
  PROVE  Hits(k) = {it \in ItemsIn(buckets) : it.key = k}
<1>1. Home(k) \in DOMAIN buckets
  BY HomeInside
<1>2. \A it : it \in Hits(k) <=> it.key = k /\ \E n \in DOMAIN buckets[Home(k)] : it = buckets[Home(k)][n]
  BY DEF Hits, ToSet
<1>3. QED
  BY <1>1, <1>2, InItems DEF Chained, AtHome

LEMMA OneHit ==
  ASSUME Lists, Chained, capacity > 0, NEW k \in Key, Hits(k) # {}
  PROVE  \E n \in DOMAIN buckets[Home(k)] :
           /\ buckets[Home(k)][n].key = k
           /\ Hits(k) = {buckets[Home(k)][n]}
<1>1. PICK n \in DOMAIN buckets[Home(k)] : buckets[Home(k)][n].key = k
  BY DEF Hits, ToSet
<1>2. \A m \in DOMAIN buckets[Home(k)] : buckets[Home(k)][m].key = k => m = n
  BY <1>1, HomeInside DEF Chained, Apart
<1>3. Hits(k) = {buckets[Home(k)][n]}
  BY <1>1, <1>2 DEF Hits, ToSet
<1>4. QED
  BY <1>1, <1>3

(***************************************************************************)
(* A node in front of the list of its key, the key being absent.           *)
(***************************************************************************)
LEMMA PrependKeeps ==
  ASSUME Lists, Chained, capacity > 0, NEW it \in Item, Hits(it.key) = {},
         Prepend(it), hash' = hash
  PROVE  /\ capacity' = capacity /\ buckets' \in [0 .. capacity - 1 -> Seq(Item)]
         /\ AtHome' /\ Apart(buckets)'
         /\ it \notin ItemsIn(buckets)
         /\ ItemsIn(buckets)' = ItemsIn(buckets) \cup {it}
<1> DEFINE h == Home(it.key)
           new == <<it>> \o buckets[h]
<1>1. it.key \in Key /\ h \in DOMAIN buckets /\ DOMAIN buckets = 0 .. capacity - 1
  BY HomeInside DEF Key, Lists
<1>2. \A b \in DOMAIN buckets : buckets[b] \in Seq(Item)
  BY DEF Lists
<1>3. buckets' = [b \in DOMAIN buckets |-> IF b = h THEN new ELSE buckets[b]]
  BY <1>1 DEF Prepend, Lists
<1>4. /\ new \in Seq(Item) /\ DOMAIN new = 1 .. Len(buckets[h]) + 1
      /\ new[1] = it /\ \A n \in 1 .. Len(buckets[h]) : new[n + 1] = buckets[h][n]
  BY <1>1, <1>2, WithFront
<1>5. DOMAIN buckets[h] = 1 .. Len(buckets[h]) /\ Len(buckets[h]) \in Nat
  BY <1>1, <1>2
<1> HIDE DEF new
<1>6. \A n \in DOMAIN new : n = 1 \/ (n - 1 \in DOMAIN buckets[h] /\ new[n] = buckets[h][n - 1])
  BY <1>4, <1>5
<1>7. \A x \in ItemsIn(buckets) : x.key # it.key
  BY <1>1, HitsAre
<1>8. capacity' = capacity /\ \A k : Home(k)' = Home(k)
  BY <1>3, CapacityStill
<1>9. AtHome'
  <2> SUFFICES ASSUME NEW b \in DOMAIN buckets, NEW n \in DOMAIN buckets'[b]
               PROVE  Home(buckets'[b][n].key) = b
    BY <1>3, <1>8 DEF AtHome
  <2>1. CASE b = h
    BY <1>3, <1>4, <1>6, <2>1 DEF Chained, AtHome
  <2>2. CASE b # h
    BY <1>3, <2>2 DEF Chained, AtHome
  <2>3. QED
    BY <2>1, <2>2
<1>10. Apart(buckets)'
  <2> SUFFICES ASSUME NEW b \in DOMAIN buckets, NEW c \in DOMAIN buckets,
                      NEW m \in DOMAIN buckets'[b], NEW n \in DOMAIN buckets'[c],
                      b # c \/ m # n
               PROVE  buckets'[b][m].key # buckets'[c][n].key
    BY <1>3 DEF Apart
  <2>0. ASSUME NEW d \in DOMAIN buckets, NEW j \in DOMAIN buckets'[d], ~(d = h /\ j = 1)
        PROVE  buckets'[d][j].key # it.key
    <3>1. \E x \in DOMAIN buckets[d] : buckets'[d][j] = buckets[d][x]
      <4>1. CASE d = h
        BY <1>3, <1>6, <2>0, <4>1
      <4>2. CASE d # h
        BY <1>3, <2>0, <4>2
      <4>3. QED
        BY <4>1, <4>2
    <3>2. buckets'[d][j] \in ItemsIn(buckets)
      BY <3>1, InItems
    <3>3. QED
      BY <1>7, <3>2
  <2>4. buckets'[h][1] = it
    BY <1>1, <1>3, <1>4
  <2>1. CASE b = h /\ m = 1
    BY <2>0, <2>4, <2>1
  <2>2. CASE c = h /\ n = 1
    BY <2>0, <2>4, <2>2
  <2>3. CASE ~(b = h /\ m = 1) /\ ~(c = h /\ n = 1)
    <3>1. PICK m0 \in DOMAIN buckets[b] :
            buckets'[b][m] = buckets[b][m0] /\ m0 = IF b = h THEN m - 1 ELSE m
      BY <1>3, <1>6, <2>3
    <3>2. PICK n0 \in DOMAIN buckets[c] :
            buckets'[c][n] = buckets[c][n0] /\ n0 = IF c = h THEN n - 1 ELSE n
      BY <1>3, <1>6, <2>3
    <3>3. b # c \/ m0 # n0
      BY <1>3, <1>4, <1>5, <3>1, <3>2
    <3>4. QED
      BY <3>1, <3>2, <3>3 DEF Chained, Apart
  <2>5. QED
    BY <2>1, <2>2, <2>3
<1>11. ItemsIn(buckets)' = ItemsIn(buckets) \cup {it}
  <2>1. ASSUME NEW x \in ItemsIn(buckets)' PROVE x \in ItemsIn(buckets) \cup {it}
    <3>1. PICK b \in DOMAIN buckets : \E n \in DOMAIN buckets'[b] : x = buckets'[b][n]
      BY <1>3, <2>1, InItems
    <3>2. PICK n \in DOMAIN buckets'[b] : x = buckets'[b][n]
      BY <3>1
    <3>3. CASE b = h
      <4>1. x = it \/ \E j \in DOMAIN buckets[h] : x = buckets[h][j]
        BY <1>1, <1>3, <1>4, <1>6, <3>2, <3>3
      <4>2. QED
        BY <1>1, <4>1, InItems
    <3>4. CASE b # h
      BY <1>3, <3>2, <3>4, InItems
    <3>5. QED
      BY <3>3, <3>4
  <2>2. ASSUME NEW x \in ItemsIn(buckets) PROVE x \in ItemsIn(buckets)'
    <3>1. PICK b \in DOMAIN buckets : \E n \in DOMAIN buckets[b] : x = buckets[b][n]
      BY <2>2, InItems
    <3>2. PICK n \in DOMAIN buckets[b] : x = buckets[b][n]
      BY <3>1
    <3>3. \E m \in DOMAIN buckets'[b] : x = buckets'[b][m]
      <4>1. CASE b = h
        BY <1>3, <1>4, <1>5, <3>2, <4>1
      <4>2. CASE b # h
        BY <1>3, <3>2, <4>2
      <4>3. QED
        BY <4>1, <4>2
    <3>4. QED
      BY <1>3, <3>3, InItems
  <2>3. it \in ItemsIn(buckets)'
    <3>1. 1 \in DOMAIN buckets'[h] /\ it = buckets'[h][1] /\ h \in DOMAIN buckets'
      BY <1>1, <1>3, <1>4, <1>5
    <3>2. QED
      BY <3>1, InItems
  <2>4. QED
    BY <2>1, <2>2, <2>3
<1>12. buckets' \in [0 .. capacity - 1 -> Seq(Item)]
  BY <1>1, <1>2, <1>3, <1>4
<1>13. QED
  BY <1>7, <1>8, <1>9, <1>10, <1>11, <1>12

(***************************************************************************)
(* A list of a table loses one node: the others stay on their lists.       *)
(***************************************************************************)
\* u holds all that t does but x.
LessOne(u, t, x) == ItemsIn(u) = ItemsIn(t) \ {x}

LEMMA DropKeeps ==
  ASSUME NEW t, Apart(t), NEW u, DOMAIN u = DOMAIN t,
         NEW b \in DOMAIN t, t[b] \in Seq(Item), NEW at \in DOMAIN t[b],
         DOMAIN u[b] = 1 .. Len(t[b]) - 1,
         \A n \in 1 .. Len(t[b]) - 1 : u[b][n] = IF n < at THEN t[b][n] ELSE t[b][n + 1],
         \A c \in DOMAIN t \ {b} : u[c] = t[c]
  PROVE  /\ Apart(u)
         /\ \A c \in DOMAIN t : \A n \in DOMAIN u[c] : \E m \in DOMAIN t[c] : u[c][n] = t[c][m]
         /\ LessOne(u, t, t[b][at])
<1> DEFINE from(c, n) == IF c = b /\ n >= at THEN n + 1 ELSE n
<1>1. /\ DOMAIN u = DOMAIN t /\ \A c \in DOMAIN t : c # b => u[c] = t[c]
      /\ DOMAIN u[b] = 1 .. Len(t[b]) - 1
      /\ \A n \in DOMAIN u[b] : u[b][n] = IF n < at THEN t[b][n] ELSE t[b][n + 1]
  OBVIOUS
<1>2. Len(t[b]) \in Nat /\ DOMAIN t[b] = 1 .. Len(t[b])
  OBVIOUS
<1>3. \A c \in DOMAIN t : \A n \in DOMAIN u[c] :
        /\ from(c, n) \in DOMAIN t[c] /\ u[c][n] = t[c][from(c, n)]
        /\ ~(c = b /\ from(c, n) = at)
  <2> SUFFICES ASSUME NEW c \in DOMAIN t, NEW n \in DOMAIN u[c]
               PROVE  /\ from(c, n) \in DOMAIN t[c] /\ u[c][n] = t[c][from(c, n)]
                      /\ ~(c = b /\ from(c, n) = at)
    OBVIOUS
  <2>1. CASE c = b
    BY <1>1, <1>2, <2>1
  <2>2. CASE c # b
    BY <1>1, <2>2
  <2>3. QED
    BY <2>1, <2>2
<1>4. Apart(u)
  <2> SUFFICES ASSUME NEW c \in DOMAIN t, NEW d \in DOMAIN t, NEW m \in DOMAIN u[c], NEW n \in DOMAIN u[d],
                      c # d \/ m # n
               PROVE  u[c][m].key # u[d][n].key
    BY <1>1 DEF Apart
  <2>1. c # d \/ from(c, m) # from(d, n)
    <3>1. CASE c = b /\ d = b
      BY <1>1, <3>1
    <3>2. CASE ~(c = b /\ d = b)
      BY <3>2
    <3>3. QED
      BY <3>1, <3>2
  <2>2. QED
    BY <1>3, <2>1 DEF Apart
<1>5. \A c \in DOMAIN t : \A m \in DOMAIN t[c] :
        ~(c = b /\ m = at) => \E n \in DOMAIN u[c] : u[c][n] = t[c][m]
  <2> SUFFICES ASSUME NEW c \in DOMAIN t, NEW m \in DOMAIN t[c], ~(c = b /\ m = at)
               PROVE  \E n \in DOMAIN u[c] : u[c][n] = t[c][m]
    OBVIOUS
  <2>1. CASE c = b /\ m < at
    <3>1. m \in DOMAIN u[c] /\ u[c][m] = t[c][m]
      BY <1>1, <1>2, <2>1
    <3>2. QED
      BY <3>1
  <2>2. CASE c = b /\ m > at
    <3>1. m - 1 \in DOMAIN u[c] /\ u[c][m - 1] = t[c][m]
      BY <1>1, <1>2, <2>2
    <3>2. QED
      BY <3>1
  <2>3. CASE c # b
    BY <1>1, <2>3
  <2>4. QED
    BY <1>2, <2>1, <2>2, <2>3
<1>6. ItemsIn(u) \subseteq ItemsIn(t) \ {t[b][at]}
  <2> SUFFICES ASSUME NEW x \in ItemsIn(u) PROVE x \in ItemsIn(t) /\ x # t[b][at]
    OBVIOUS
  <2>0. PICK c \in DOMAIN t : \E n \in DOMAIN u[c] : x = u[c][n]
    BY <1>1, InItems
  <2>1. PICK n \in DOMAIN u[c] : x = u[c][n]
    BY <2>0
  <2>2. x = t[c][from(c, n)] /\ from(c, n) \in DOMAIN t[c] /\ ~(c = b /\ from(c, n) = at)
    BY <1>3, <2>1
  <2>3. x.key # t[b][at].key
    BY <1>2, <2>2 DEF Apart
  <2>4. QED
    BY <2>2, <2>3, InItems
<1>7. ItemsIn(t) \ {t[b][at]} \subseteq ItemsIn(u)
  <2> SUFFICES ASSUME NEW x \in ItemsIn(t), x # t[b][at] PROVE x \in ItemsIn(u)
    OBVIOUS
  <2>0. PICK c \in DOMAIN t : \E m \in DOMAIN t[c] : x = t[c][m]
    BY InItems
  <2>1. PICK m \in DOMAIN t[c] : x = t[c][m]
    BY <2>0
  <2>2. \E n \in DOMAIN u[c] : x = u[c][n]
    BY <1>5, <2>1
  <2>3. QED
    BY <1>1, <2>2, InItems
<1>8. \A c \in DOMAIN t : \A n \in DOMAIN u[c] : \E m \in DOMAIN t[c] : u[c][n] = t[c][m]
  BY <1>3
<1>9. QED
  BY <1>4, <1>6, <1>7, <1>8 DEF LessOne

\* delete unlinks the only node with its key.
LEMMA UnlinkKeeps ==
  ASSUME Lists, Chained, capacity > 0, NEW k \in Key, Hits(k) # {},
         buckets' = [buckets EXCEPT ![Home(k)] = Unlinked(k)], hash' = hash
  PROVE  /\ capacity' = capacity /\ buckets' \in [0 .. capacity - 1 -> Seq(Item)]
         /\ AtHome' /\ Apart(buckets)'
         /\ ItemsIn(buckets)' = ItemsIn(buckets) \ Hits(k)
         /\ \E x \in ItemsIn(buckets) : Hits(k) = {x}
<1> DEFINE list == buckets[Home(k)]
<1>1. Home(k) \in DOMAIN buckets /\ DOMAIN buckets = 0 .. capacity - 1 /\ list \in Seq(Item)
  BY HomeInside DEF Lists
<1>2. PICK hit \in DOMAIN list : list[hit].key = k /\ Hits(k) = {list[hit]}
  BY OneHit
<1>3. \A n \in DOMAIN list : list[n].key = k => n = hit
  BY <1>1, <1>2 DEF Chained, Apart
<1>4. DOMAIN list = 1 .. Len(list) /\ Len(list) \in Nat
  BY <1>1
<1> DEFINE at == CHOOSE n \in DOMAIN list :
                   list[n].key = k /\ \A m \in 1 .. n - 1 : list[m].key # k
<1>5. at = hit
  <2>1. list[hit].key = k /\ \A m \in 1 .. hit - 1 : list[m].key # k
    BY <1>2, <1>3, <1>4
  <2>2. QED
    BY <1>3, <2>1
<1>6. Unlinked(k) = RemoveAt(list, hit)
  BY <1>5 DEF Unlinked
<1> HIDE DEF at
<1>7. /\ RemoveAt(list, hit) \in Seq(Item) /\ DOMAIN RemoveAt(list, hit) = 1 .. Len(list) - 1
      /\ \A n \in 1 .. Len(list) - 1 :
           RemoveAt(list, hit)[n] = IF n < hit THEN list[n] ELSE list[n + 1]
  BY <1>1, <1>4, WithoutOne
<1>8. /\ buckets' \in [0 .. capacity - 1 -> Seq(Item)] /\ Apart(buckets')
      /\ \A c \in 0 .. capacity - 1 : \A n \in DOMAIN buckets'[c] :
           \E m \in DOMAIN buckets[c] : buckets'[c][n] = buckets[c][m]
      /\ ItemsIn(buckets') = ItemsIn(buckets) \ {list[hit]}
  <2>1. buckets \in [0 .. capacity - 1 -> Seq(Item)] /\ Apart(buckets)
    BY DEF Lists, Chained
  <2>2. /\ buckets' \in [0 .. capacity - 1 -> Seq(Item)]
        /\ DOMAIN buckets'[Home(k)] = 1 .. Len(buckets[Home(k)]) - 1
        /\ \A n \in 1 .. Len(buckets[Home(k)]) - 1 : buckets'[Home(k)][n] =
             IF n < hit THEN buckets[Home(k)][n] ELSE buckets[Home(k)][n + 1]
        /\ \A c \in DOMAIN buckets \ {Home(k)} : buckets'[c] = buckets[c]
        /\ DOMAIN buckets' = DOMAIN buckets
    BY <1>1, <1>6, <1>7, <2>1
  <2>3. Home(k) \in DOMAIN buckets /\ hit \in DOMAIN buckets[Home(k)]
    BY <1>1
  <2>4. Apart(buckets')
    BY <1>1, <2>1, <2>2, <2>3, DropKeeps
  <2>5. LessOne(buckets', buckets, buckets[Home(k)][hit])
    BY <1>1, <2>1, <2>2, <2>3, DropKeeps
  <2>6. \A c \in DOMAIN buckets : \A n \in DOMAIN buckets'[c] :
          \E m \in DOMAIN buckets[c] : buckets'[c][n] = buckets[c][m]
    BY <1>1, <2>1, <2>2, <2>3, <2>4, DropKeeps
  <2>7. QED
    BY <1>1, <2>2, <2>4, <2>5, <2>6 DEF LessOne
<1>9. capacity' = capacity /\ \A j : Home(j)' = Home(j)
  BY <1>1, <1>8, CapacityStill
<1>10. AtHome'
  BY <1>1, <1>8, <1>9 DEF Chained, AtHome
<1>11. list[hit] \in ItemsIn(buckets)
  BY <1>1, InItems
<1>12. QED
  BY <1>2, <1>8, <1>9, <1>10, <1>11

\* resize takes the first node off an old list.
LEMMA HeadKeeps ==
  ASSUME Lists, Chained, i < oldcap, old[i] # <<>>, old' = [old EXCEPT ![i] = Rest(@)]
  PROVE  /\ old' \in [0 .. oldcap - 1 -> Seq(Item)] /\ oldcap' = oldcap
         /\ Apart(old)' /\ Head(old[i]) \in ItemsIn(old) /\ Head(old[i]) \in Item
         /\ ItemsIn(old)' = ItemsIn(old) \ {Head(old[i])}
         /\ \A b \in 0 .. oldcap - 1 : b # i => old'[b] = old[b]
<1>1. i \in 0 .. oldcap - 1 /\ old[i] \in Seq(Item) /\ DOMAIN old = 0 .. oldcap - 1
  BY DEF Lists
<1>2. /\ Tail(old[i]) \in Seq(Item) /\ DOMAIN Tail(old[i]) = 1 .. Len(old[i]) - 1
      /\ Head(old[i]) = old[i][1] /\ Head(old[i]) \in Item
      /\ Len(old[i]) \in Nat /\ Len(old[i]) >= 1
      /\ \A n \in 1 .. Len(old[i]) - 1 : Tail(old[i])[n] = old[i][n + 1]
  BY <1>1, WithoutFront
<1>3. \A n \in 1 .. Len(old[i]) - 1 :
        Tail(old[i])[n] = IF n < 1 THEN old[i][n] ELSE old[i][n + 1]
  BY <1>2
<1>4. old' = [old EXCEPT ![i] = Tail(old[i])]
  BY DEF Rest
<1>5. /\ old' \in [0 .. oldcap - 1 -> Seq(Item)] /\ Apart(old')
      /\ ItemsIn(old') = ItemsIn(old) \ {old[i][1]}
  <2>1. old \in [0 .. oldcap - 1 -> Seq(Item)] /\ Apart(old) /\ 1 \in 1 .. Len(old[i])
    BY <1>2 DEF Lists, Chained
  <2>2. /\ old' \in [0 .. oldcap - 1 -> Seq(Item)]
        /\ DOMAIN old'[i] = 1 .. Len(old[i]) - 1
        /\ \A n \in 1 .. Len(old[i]) - 1 :
             old'[i][n] = IF n < 1 THEN old[i][n] ELSE old[i][n + 1]
        /\ \A c \in DOMAIN old \ {i} : old'[c] = old[c]
        /\ DOMAIN old' = DOMAIN old
    BY <1>1, <1>2, <1>3, <1>4, <2>1
  <2>3. i \in DOMAIN old /\ 1 \in DOMAIN old[i]
    BY <1>1, <1>2
  <2>4. Apart(old')
    BY <1>1, <2>1, <2>2, <2>3, DropKeeps
  <2>5. LessOne(old', old, old[i][1])
    BY <1>1, <2>1, <2>2, <2>3, DropKeeps
  <2>6. QED
    BY <2>2, <2>4, <2>5 DEF LessOne
<1>6. oldcap' = oldcap
  BY <1>1, <1>5 DEF oldcap
<1>7. Head(old[i]) \in ItemsIn(old)
  <2>1. 1 \in DOMAIN old[i]
    BY <1>1, <1>2
  <2>2. QED
    BY <1>1, <1>2, <2>1, InItems
<1>8. \A b \in 0 .. oldcap - 1 : b # i => old'[b] = old[b]
  BY <1>1, <1>4
<1>9. QED
  BY <1>2, <1>5, <1>6, <1>7, <1>8
-----------------------------------------------------------------------------
(***************************************************************************)
(* The invariant holds in each initial state and every action keeps it.    *)
(***************************************************************************)
LEMMA InitInv == Init => IInv
<1> SUFFICES ASSUME Init PROVE IInv
  OBVIOUS
<1>1. capacity = 0 /\ oldcap = 0 /\ buckets = NoTable /\ old = NoTable /\ size = 0 /\ i = 0
  BY NoTableFacts DEF Init, capacity, oldcap
<1>2. Lists
  BY <1>1, NoTableFacts DEF Init, Lists
<1>3. Control
  BY <1>1, NoTableFacts DEF Init, Control
<1>4. Chained
  BY <1>1, NoTableFacts, EmptyApart DEF Chained, AtHome
<1>5. Room
  BY <1>1, NoTableFacts, FS_EmptySet DEF Init, Room
<1>6. QED
  BY <1>2, <1>3, <1>4, <1>5 DEF IInv

\* What does not touch the lists leaves them as they were.
LEMMA ListsStill ==
  ASSUME IInv, UNCHANGED <<hash, buckets, size, old, i>>
  PROVE  /\ Lists' /\ Chained'
         /\ capacity' = capacity /\ oldcap' = oldcap
         /\ ItemsIn(buckets)' = ItemsIn(buckets) /\ ItemsIn(old)' = ItemsIn(old)
<1>1. capacity' = capacity /\ oldcap' = oldcap /\ \A k : Home(k)' = Home(k)
  BY CapacityStill DEF oldcap
<1>2. Lists'
  BY <1>1 DEF IInv, Lists
<1>3. AtHome'
  BY <1>1 DEF IInv, Chained, AtHome
<1>4. Apart(buckets)' /\ Apart(old)'
  BY DEF IInv, Chained
<1>5. ItemsIn(buckets)' = ItemsIn(buckets) /\ ItemsIn(old)' = ItemsIn(old)
  OBVIOUS
<1>6. Chained'
  BY <1>3, <1>4, <1>5 DEF IInv, Chained
<1>7. QED
  BY <1>1, <1>2, <1>5, <1>6

LEMMA CreateInv ==
  ASSUME IInv, NEW c \in Capacities, Create(c)
  PROVE  IInv'
<1>1. /\ pc = "none" /\ buckets = NoTable /\ old = NoTable /\ i = 0 /\ size = 0
      /\ UNCHANGED <<hash, size, call, old, i>>
  <2>1. pc = "none" /\ buckets = NoTable /\ old = NoTable /\ i = 0
    BY DEF Create, IInv, Control
  <2>2. size = 0
    BY <2>1, NoTableFacts, FS_EmptySet DEF IInv, Room
  <2>3. QED
    BY <2>1, <2>2 DEF Create, copy
<1>2. CASE pc' = "idle" /\ buckets' = Blank(c)
  <2>1. c \in Nat /\ c > 0
    BY CapacityAssumption
  <2>2. /\ capacity' = c /\ oldcap' = 0 /\ buckets' \in [0 .. c - 1 -> Seq(Item)]
        /\ ItemsIn(buckets)' = {} /\ ItemsIn(old)' = {}
        /\ \A b \in DOMAIN buckets' : buckets'[b] = <<>>
    BY <1>1, <1>2, <2>1, BlankTable, NoTableFacts DEF capacity, oldcap
  <2>3. Lists'
    BY <1>1, <2>1, <2>2, NoTableFacts DEF IInv, Lists
  <2>4. Control'
    BY <1>1, <1>2, <2>1, <2>2, NoTableFacts DEF Control
  <2>5. Chained'
    BY <2>2, EmptyApart DEF Chained, AtHome
  <2>6. Room'
    BY <1>1, <1>2, <2>1, <2>2, FS_EmptySet DEF Room
  <2>7. QED
    BY <2>3, <2>4, <2>5, <2>6 DEF IInv
<1>3. CASE UNCHANGED <<pc, buckets>>
  <2>1. /\ Lists' /\ Chained' /\ capacity' = capacity /\ oldcap' = oldcap
        /\ ItemsIn(buckets)' = ItemsIn(buckets) /\ ItemsIn(old)' = ItemsIn(old)
    BY <1>1, <1>3, ListsStill
  <2>2. Control' /\ Room'
    BY <1>1, <1>3, <2>1 DEF IInv, Control, Room
  <2>3. QED
    BY <2>1, <2>2 DEF IInv
<1>4. QED
  BY <1>2, <1>3 DEF Create

LEMMA DestroyInv ==
  ASSUME IInv, Destroy
  PROVE  IInv'
<1>1. /\ pc = "idle" /\ pc' = "none" /\ buckets' = NoTable /\ size' = 0
      /\ old = NoTable /\ i = 0 /\ UNCHANGED <<hash, call, old, i>>
  BY DEF Destroy, copy, IInv, Control
<1>2. /\ capacity' = 0 /\ oldcap' = 0 /\ ItemsIn(buckets)' = {} /\ ItemsIn(old)' = {}
  BY <1>1, NoTableFacts DEF capacity, oldcap
<1>3. Lists'
  BY <1>1, <1>2, NoTableFacts DEF IInv, Lists
<1>4. Control'
  BY <1>1, <1>2, NoTableFacts DEF Control
<1>5. Chained'
  BY <1>1, <1>2, NoTableFacts, EmptyApart DEF Chained, AtHome
<1>6. Room'
  BY <1>1, <1>2, FS_EmptySet DEF Room
<1>7. QED
  BY <1>3, <1>4, <1>5, <1>6 DEF IInv

\* Calls refused, begun, or answered without a change to the lists.
LEMMA AnswerInv ==
  ASSUME IInv,
         \/ Refuse
         \/ \E it \in Item : PutCall(it)
         \/ \E k \in Key : Get(k) \/ DeleteMiss(k)
         \/ PutExisting \/ PutFailed \/ ResizeFails
  PROVE  IInv'
<1>1. UNCHANGED <<hash, buckets, size, old, i>>
  BY DEF Refuse, PutCall, Get, DeleteMiss, PutExisting, PutFailed, ResizeFails, table, copy
<1>2. /\ Lists' /\ Chained' /\ capacity' = capacity /\ oldcap' = oldcap
      /\ ItemsIn(buckets)' = ItemsIn(buckets) /\ ItemsIn(old)' = ItemsIn(old)
  BY <1>1, ListsStill
<1>3. CASE \E it \in Item : PutCall(it)
  <2>1. PICK it \in Item : PutCall(it)
    BY <1>3
  <2>2. /\ pc = "idle" /\ call' = [op |-> "put", arg |-> it]
        /\ pc' = IF size + 1 > capacity * 2 THEN "grow" ELSE "put"
    BY <2>1 DEF PutCall, GrowthDue
  <2>3. Control'
    BY <1>1, <1>2, <2>2 DEF IInv, Control
  <2>4. Room'
    BY <1>1, <1>2, <2>2 DEF IInv, Room, Lists
  <2>5. QED
    BY <1>2, <2>3, <2>4 DEF IInv
<1>4. CASE PutExisting \/ PutFailed \/ ResizeFails
  <2>1. pc \in {"put", "grow", "shrink"} /\ pc' = "idle"
    BY <1>4 DEF PutExisting, PutFailed, ResizeFails, Finish
  <2>2. Control' /\ Room'
    BY <1>1, <1>2, <2>1 DEF IInv, Control, Room
  <2>3. QED
    BY <1>2, <2>2 DEF IInv
<1>5. CASE Refuse \/ \E k \in Key : Get(k) \/ DeleteMiss(k)
  <2>1. UNCHANGED <<pc, call>>
    BY <1>5 DEF Refuse, Get, DeleteMiss
  <2>2. Control' /\ Room'
    BY <1>1, <1>2, <2>1 DEF IInv, Control, Room
  <2>3. QED
    BY <1>2, <2>2 DEF IInv
<1>6. QED
  BY <1>3, <1>4, <1>5

LEMMA PutNewInv ==
  ASSUME IInv, PutNew
  PROVE  IInv'
<1>1. /\ pc = "put" /\ pc' = "idle" /\ call.arg \in Item /\ capacity > 0
      /\ old = NoTable /\ UNCHANGED <<hash, old, i>>
      /\ Prepend(call.arg) /\ Hits(call.arg.key) = {} /\ size' = size + 1
  BY DEF PutNew, Prepend, Finish, copy, IInv, Control
<1>2. PICK it \in Item : it = call.arg
  BY <1>1
<1>3. /\ capacity' = capacity /\ buckets' \in [0 .. capacity - 1 -> Seq(Item)]
      /\ AtHome' /\ Apart(buckets)' /\ it \notin ItemsIn(buckets)
      /\ ItemsIn(buckets)' = ItemsIn(buckets) \cup {it}
  BY <1>1, <1>2, PrependKeeps DEF IInv
<1>4. oldcap' = oldcap /\ ItemsIn(old)' = {}
  BY <1>1, NoTableFacts DEF oldcap
<1>5. Lists'
  BY <1>1, <1>3, <1>4 DEF IInv, Lists
<1>6. Control'
  BY <1>1, <1>3, <1>4 DEF IInv, Control
<1>7. Chained'
  BY <1>3, <1>4, EmptyApart DEF Chained
<1>8. Room'
  <2>1. /\ IsFiniteSet(ItemsIn(buckets)')
        /\ Cardinality(ItemsIn(buckets)') = Cardinality(ItemsIn(buckets)) + 1
    BY <1>3, FS_AddElement DEF IInv, Room
  <2>2. QED
    BY <1>1, <1>3, <1>4, <2>1, FS_EmptySet DEF IInv, Room
<1>9. QED
  BY <1>5, <1>6, <1>7, <1>8 DEF IInv

LEMMA DeleteHitInv ==
  ASSUME IInv, NEW k \in Key, DeleteHit(k)
  PROVE  IInv'
<1>1. /\ pc = "idle" /\ capacity > 0 /\ old = NoTable /\ UNCHANGED <<hash, old, i>>
      /\ Hits(k) # {} /\ buckets' = [buckets EXCEPT ![Home(k)] = Unlinked(k)]
      /\ size' = size - 1
  BY DEF DeleteHit, copy, IInv, Control
<1>2. /\ capacity' = capacity /\ buckets' \in [0 .. capacity - 1 -> Seq(Item)]
      /\ AtHome' /\ Apart(buckets)' /\ ItemsIn(buckets)' = ItemsIn(buckets) \ Hits(k)
      /\ \E x \in ItemsIn(buckets) : Hits(k) = {x}
  BY <1>1, UnlinkKeeps DEF IInv
<1>3. PICK x \in ItemsIn(buckets) : Hits(k) = {x}
  BY <1>2
<1>4. /\ IsFiniteSet(ItemsIn(buckets)') /\ Cardinality(ItemsIn(buckets)') \in Nat
      /\ Cardinality(ItemsIn(buckets)') = Cardinality(ItemsIn(buckets)) - 1
  BY <1>2, <1>3, FS_RemoveElement, FS_CardinalityType DEF IInv, Room
<1>5. \/ /\ pc' = "shrink" /\ call' = [op |-> "delete", arg |-> k]
         /\ capacity > 8 /\ size' < capacity \div 4
      \/ UNCHANGED <<pc, call>>
  BY <1>2 DEF DeleteHit, ShrinkDue
<1>6. oldcap' = oldcap /\ ItemsIn(old)' = {} /\ size' \in Nat
  BY <1>1, <1>4, NoTableFacts DEF oldcap, IInv, Room
<1>7. Lists'
  BY <1>1, <1>2, <1>6 DEF IInv, Lists
<1>8. Control'
  BY <1>1, <1>2, <1>5, <1>6 DEF IInv, Control
<1>9. Chained'
  BY <1>2, <1>6, EmptyApart DEF Chained
<1>10. Room'
  <2>1. capacity \in Nat /\ size \in Nat
    BY DEF IInv, Lists
  <2>2. pc' = "shrink" => capacity' > 8 /\ size' * 4 < capacity'
    BY <1>1, <1>2, <1>5, <1>6, <2>1
  <2>3. QED
    BY <1>1, <1>2, <1>4, <1>5, <1>6, <2>1, <2>2, FS_EmptySet DEF IInv, Room
<1>11. QED
  BY <1>7, <1>8, <1>9, <1>10 DEF IInv

LEMMA ResizeBeginsInv ==
  ASSUME IInv, ResizeBegins
  PROVE  IInv'
<1>1. /\ pc \in {"grow", "shrink"} /\ pc' = "copy" /\ old' = buckets /\ i' = 0 /\ size' = 0
      /\ UNCHANGED <<hash, call>> /\ capacity > 0 /\ capacity \in Nat /\ size \in Nat
  BY DEF ResizeBegins, IInv, Control, Lists
<1>2. /\ NewCapacity \in Nat /\ NewCapacity > 0
      /\ size <= NewCapacity * 2
      /\ pc = "grow" => size + 1 <= NewCapacity * 2
  <2>1. CASE pc = "grow"
    BY <1>1, <2>1 DEF NewCapacity, IInv, Room
  <2>2. CASE pc = "shrink"
    BY <1>1, <2>2 DEF NewCapacity, IInv, Room
  <2>3. QED
    BY <1>1, <2>1, <2>2
<1>3. PICK n \in Nat : n = NewCapacity
  BY <1>2
<1>4. /\ buckets' = Blank(n) /\ capacity' = n /\ buckets' \in [0 .. n - 1 -> Seq(Item)]
      /\ ItemsIn(buckets)' = {} /\ \A b \in DOMAIN buckets' : buckets'[b] = <<>>
  BY <1>3, BlankTable DEF ResizeBegins, capacity
<1>5. oldcap' = capacity /\ ItemsIn(old)' = ItemsIn(buckets)
  BY <1>1 DEF oldcap, capacity
<1>6. Lists'
  BY <1>1, <1>4, <1>5 DEF IInv, Lists
<1>7. Control'
  BY <1>1, <1>2, <1>3, <1>4, <1>5, <1>6 DEF IInv, Control, Lists
<1>8. Chained'
  BY <1>1, <1>4, <1>5, EmptyApart DEF IInv, Chained, AtHome
<1>9. Room'
  <2>1. size + 1 <= n * 2 \/ call.op # "put"
    BY <1>1, <1>2, <1>3 DEF IInv, Control
  <2>2. size = Cardinality(ItemsIn(buckets)) /\ IsFiniteSet(ItemsIn(buckets))
    BY DEF IInv, Room
  <2>3. /\ size' = Cardinality(ItemsIn(buckets)')
        /\ IsFiniteSet(ItemsIn(buckets)') /\ IsFiniteSet(ItemsIn(old)')
    BY <1>1, <1>4, <1>5, <2>2, FS_EmptySet
  <2>4. /\ size' + Cardinality(ItemsIn(old)') <= capacity' * 2
        /\ call'.op = "put" => size' + Cardinality(ItemsIn(old)') + 1 <= capacity' * 2
    BY <1>1, <1>2, <1>3, <1>4, <1>5, <2>1, <2>2
  <2>5. QED
    BY <1>1, <1>3, <1>4, <2>3, <2>4 DEF Room
<1>10. QED
  BY <1>6, <1>7, <1>8, <1>9 DEF IInv

LEMMA CopyNextBucketInv ==
  ASSUME IInv, CopyNextBucket
  PROVE  IInv'
<1>1. /\ pc = "copy" /\ i < oldcap /\ old[i] = <<>> /\ i' = i + 1
      /\ UNCHANGED <<hash, buckets, size, pc, call, old>>
  BY DEF CopyNextBucket, table
<1>2. capacity' = capacity /\ oldcap' = oldcap /\ \A k : Home(k)' = Home(k)
  BY <1>1, CapacityStill DEF oldcap
<1>3. ItemsIn(buckets)' = ItemsIn(buckets) /\ ItemsIn(old)' = ItemsIn(old)
  BY <1>1
<1>4. Lists'
  BY <1>1, <1>2 DEF IInv, Lists
<1>5. Control'
  <2>1. DOMAIN old \subseteq Int /\ i \in Int
    BY DEF IInv, Lists
  <2>2. \A b \in DOMAIN old : b < i + 1 => b < i \/ b = i
    BY <2>1
  <2>3. \A b \in DOMAIN old : b < i + 1 => old[b] = <<>>
    BY <1>1, <2>2 DEF IInv, Control
  <2>4. QED
    BY <1>1, <1>2, <2>3 DEF IInv, Control
<1>6. AtHome'
  BY <1>1, <1>2 DEF IInv, Chained, AtHome
<1>7. Chained'
  BY <1>1, <1>3, <1>6 DEF IInv, Chained
<1>8. Room'
  BY <1>1, <1>2, <1>3 DEF IInv, Room
<1>9. QED
  BY <1>4, <1>5, <1>7, <1>8 DEF IInv

(***************************************************************************)
(* One node of the copy: the inner put never wants to grow the table, and  *)
(* never finds the key there, so it prepends the item or has no memory.    *)
(***************************************************************************)
LEMMA CopyNodeDoes ==
  ASSUME IInv, CopyNode
  PROVE  \E it \in Item :
           /\ it = Head(old[i]) /\ it \in ItemsIn(old)
           /\ pc = "copy" /\ i < oldcap /\ capacity > 0 /\ UNCHANGED <<hash, pc, call, i, res>>
           /\ old' \in [0 .. oldcap - 1 -> Seq(Item)] /\ oldcap' = oldcap /\ Apart(old)'
           /\ ItemsIn(old)' = ItemsIn(old) \ {it}
           /\ \A b \in 0 .. oldcap - 1 : b # i => old'[b] = old[b]
           /\ \A x \in ItemsIn(old) : x # it => x.key # it.key
           /\ IsFiniteSet(ItemsIn(old)') /\ Cardinality(ItemsIn(old)') \in Nat
           /\ Cardinality(ItemsIn(old)) = Cardinality(ItemsIn(old)') + 1
           /\ Hits(it.key) = {}
           /\ \/ Prepend(it)
              \/ CopyMayFail /\ UNCHANGED table
<1>1. /\ pc = "copy" /\ i < oldcap /\ capacity > 0 /\ UNCHANGED <<hash, call, i, res>>
      /\ old[i] # <<>> /\ old' = [old EXCEPT ![i] = Rest(@)]
  BY DEF CopyNode, IInv, Control
<1>2. /\ old' \in [0 .. oldcap - 1 -> Seq(Item)] /\ oldcap' = oldcap /\ Apart(old)'
      /\ Head(old[i]) \in ItemsIn(old) /\ Head(old[i]) \in Item
      /\ ItemsIn(old)' = ItemsIn(old) \ {Head(old[i])}
      /\ \A b \in 0 .. oldcap - 1 : b # i => old'[b] = old[b]
  BY <1>1, HeadKeeps DEF IInv
<1>3. PICK it \in Item : it = Head(old[i])
  BY <1>2
<1>4. \A x \in ItemsIn(old) : x # it => x.key # it.key
  <2> SUFFICES ASSUME NEW x \in ItemsIn(old), x # it PROVE x.key # it.key
    OBVIOUS
  <2>1. PICK b \in DOMAIN old : \E n \in DOMAIN old[b] : x = old[b][n]
    BY InItems
  <2>2. PICK n \in DOMAIN old[b] : x = old[b][n]
    BY <2>1
  <2>3. PICK c \in DOMAIN old : \E m \in DOMAIN old[c] : it = old[c][m]
    BY <1>2, <1>3, InItems
  <2>4. PICK m \in DOMAIN old[c] : it = old[c][m]
    BY <2>3
  <2>5. b # c \/ n # m
    BY <2>2, <2>4
  <2>6. QED
    BY <2>2, <2>4, <2>5 DEF IInv, Chained, Apart
<1>5. /\ IsFiniteSet(ItemsIn(old)') /\ Cardinality(ItemsIn(old)') \in Nat
      /\ Cardinality(ItemsIn(old)) = Cardinality(ItemsIn(old)') + 1
  <2>1. IsFiniteSet(ItemsIn(old)) /\ it \in ItemsIn(old) /\ ItemsIn(old)' = ItemsIn(old) \ {it}
    BY <1>2, <1>3 DEF IInv, Room
  <2>2. /\ IsFiniteSet(ItemsIn(old) \ {it})
        /\ Cardinality(ItemsIn(old) \ {it}) = Cardinality(ItemsIn(old)) - 1
        /\ Cardinality(ItemsIn(old)) \in Nat /\ Cardinality(ItemsIn(old) \ {it}) \in Nat
    BY <2>1, FS_RemoveElement, FS_CardinalityType
  <2>3. QED
    BY <2>1, <2>2
<1>6. ~GrowthDue(size, capacity)
  <2>1. size + Cardinality(ItemsIn(old)) <= capacity * 2 /\ size \in Nat /\ capacity \in Nat
    BY <1>1 DEF IInv, Room, Lists
  <2>2. QED
    BY <1>5, <2>1 DEF GrowthDue
<1>7. Hits(it.key) = {}
  <2>1. it.key \in Key
    BY DEF Key
  <2>2. \A x \in ItemsIn(buckets) : x.key # it.key
    BY <1>2, <1>3 DEF IInv, Chained
  <2>3. QED
    BY <1>1, <2>1, <2>2, HitsAre DEF IInv
<1>8. pc' = pc /\ (Prepend(it) \/ (CopyMayFail /\ UNCHANGED table))
  <2>1. PICK fails \in {FALSE, CopyMayFail} :
          LET x == Head(old[i])
          IN IF GrowthDue(size, capacity)
               THEN pc' = "nested" /\ UNCHANGED table
               ELSE /\ pc' = pc
                    /\ IF fails \/ Hits(x.key) # {} THEN UNCHANGED table
                                                   ELSE Prepend(x)
    BY DEF CopyNode
  <2>2. pc' = pc /\ IF fails THEN UNCHANGED table ELSE Prepend(it)
    BY <1>3, <1>6, <1>7, <2>1
  <2>3. CASE fails = FALSE
    BY <2>2, <2>3
  <2>4. CASE fails = CopyMayFail
    BY <2>2, <2>4, CopyAssumption
  <2>5. QED
    BY <2>3, <2>4
<1>9. QED
  BY <1>1, <1>2, <1>3, <1>4, <1>5, <1>7, <1>8

LEMMA CopyNodeInv ==
  ASSUME IInv, CopyNode
  PROVE  IInv'
<1>1. PICK it \in Item :
           /\ it = Head(old[i]) /\ it \in ItemsIn(old)
           /\ pc = "copy" /\ i < oldcap /\ capacity > 0 /\ UNCHANGED <<hash, pc, call, i, res>>
           /\ old' \in [0 .. oldcap - 1 -> Seq(Item)] /\ oldcap' = oldcap /\ Apart(old)'
           /\ ItemsIn(old)' = ItemsIn(old) \ {it}
           /\ \A b \in 0 .. oldcap - 1 : b # i => old'[b] = old[b]
           /\ \A x \in ItemsIn(old) : x # it => x.key # it.key
           /\ IsFiniteSet(ItemsIn(old)') /\ Cardinality(ItemsIn(old)') \in Nat
           /\ Cardinality(ItemsIn(old)) = Cardinality(ItemsIn(old)') + 1
           /\ Hits(it.key) = {}
           /\ \/ Prepend(it)
              \/ CopyMayFail /\ UNCHANGED table
  BY CopyNodeDoes
<1>2. \A b \in DOMAIN old' : b < i' => old'[b] = <<>>
  BY <1>1 DEF IInv, Control, Lists
<1>3. CASE Prepend(it)
  <2>1. /\ capacity' = capacity /\ buckets' \in [0 .. capacity - 1 -> Seq(Item)]
        /\ AtHome' /\ Apart(buckets)' /\ it \notin ItemsIn(buckets)
        /\ ItemsIn(buckets)' = ItemsIn(buckets) \cup {it} /\ size' = size + 1
    BY <1>1, <1>3, PrependKeeps DEF IInv, Prepend
  <2>2. Lists'
    <3>1. /\ hash \in HashFns /\ capacity \in Nat /\ oldcap \in Nat
          /\ size + 1 \in Nat /\ i \in 0 .. oldcap
      BY DEF IInv, Lists
    <3>2. QED
      BY <1>1, <2>1, <3>1 DEF Lists
  <2>3. Control'
    BY <1>1, <1>2, <2>1 DEF IInv, Control
  <2>4. Chained'
    BY <1>1, <2>1 DEF IInv, Chained
  <2>5. Room'
    <3>1. /\ IsFiniteSet(ItemsIn(buckets)')
          /\ Cardinality(ItemsIn(buckets)') = Cardinality(ItemsIn(buckets)) + 1
      BY <2>1, FS_AddElement DEF IInv, Room
    <3>2. size' + Cardinality(ItemsIn(old)') = size + Cardinality(ItemsIn(old))
      BY <1>1, <2>1 DEF IInv, Lists
    <3>3. size' <= capacity * 2
      <4>1. size + Cardinality(ItemsIn(old)) <= capacity * 2
        BY <1>1 DEF IInv, Room
      <4>2. size \in Nat /\ capacity \in Nat
        BY DEF IInv, Lists
      <4>3. QED
        BY <1>1, <2>1, <4>1, <4>2
    <3>4. size' = Cardinality(ItemsIn(buckets)')
      BY <2>1, <3>1 DEF IInv, Room
    <3>5. QED
      BY <1>1, <2>1, <3>1, <3>2, <3>3, <3>4 DEF IInv, Room
  <2>6. QED
    BY <2>2, <2>3, <2>4, <2>5 DEF IInv
<1>4. CASE UNCHANGED table
  <2>1. capacity' = capacity /\ buckets' = buckets /\ size' = size /\ \A k : Home(k)' = Home(k)
    BY <1>1, <1>4, CapacityStill DEF table
  <2>2. ItemsIn(buckets)' = ItemsIn(buckets)
    BY <2>1
  <2>3. Lists'
    BY <1>1, <2>1 DEF IInv, Lists
  <2>4. Control'
    BY <1>1, <1>2, <2>1 DEF IInv, Control
  <2>5. AtHome'
    BY <2>1 DEF IInv, Chained, AtHome
  <2>6. Chained'
    BY <1>1, <2>1, <2>2, <2>5 DEF IInv, Chained
  <2>7. Room'
    BY <1>1, <2>1, <2>2 DEF IInv, Room, Lists
  <2>8. QED
    BY <2>3, <2>4, <2>6, <2>7 DEF IInv
<1>5. QED
  BY <1>1, <1>3, <1>4

LEMMA CopyDoneInv ==
  ASSUME IInv, CopyDone
  PROVE  IInv'
<1>1. /\ pc = "copy" /\ old' = NoTable /\ i' = 0 /\ UNCHANGED <<hash, buckets, size>>
      /\ \/ call.op = "put" /\ pc' = "put" /\ UNCHANGED call
         \/ pc' = "idle"
  BY DEF CopyDone, table, Finish
<1>2. capacity' = capacity /\ \A k : Home(k)' = Home(k)
  BY <1>1, CapacityStill
<1>3. ItemsIn(buckets)' = ItemsIn(buckets) /\ oldcap' = 0 /\ ItemsIn(old)' = {}
  BY <1>1, NoTableFacts DEF oldcap
<1>4. Lists'
  BY <1>1, <1>2, <1>3, NoTableFacts DEF IInv, Lists
<1>5. Control'
  BY <1>1, <1>2, <1>3, NoTableFacts DEF IInv, Control
<1>6. AtHome'
  BY <1>1, <1>2 DEF IInv, Chained, AtHome
<1>7. Chained'
  BY <1>1, <1>3, <1>6, EmptyApart DEF IInv, Chained
<1>8. Room'
  <2>1. call.op = "put" => size + 1 <= capacity * 2
    BY <1>1, FS_CardinalityType DEF IInv, Room, Lists
  <2>2. QED
    BY <1>1, <1>2, <1>3, <2>1, FS_EmptySet DEF IInv, Room
<1>9. QED
  BY <1>4, <1>5, <1>7, <1>8 DEF IInv

LEMMA IInvStep == IInv /\ [Next]_vars => IInv'
<1> SUFFICES ASSUME IInv, [Next]_vars PROVE IInv'
  OBVIOUS
<1>1. CASE Request
  BY <1>1, CreateInv, DestroyInv, AnswerInv, DeleteHitInv DEF Request
<1>2. CASE Work
  BY <1>2, AnswerInv, PutNewInv, ResizeBeginsInv, CopyNextBucketInv, CopyNodeInv,
     CopyDoneInv DEF Work
<1>3. CASE UNCHANGED vars
  <2>1. /\ Lists' /\ Chained' /\ capacity' = capacity /\ oldcap' = oldcap
        /\ ItemsIn(buckets)' = ItemsIn(buckets) /\ ItemsIn(old)' = ItemsIn(old)
    BY <1>3, ListsStill DEF vars, table, copy
  <2>2. Control' /\ Room'
    BY <1>3, <2>1 DEF IInv, Control, Room, vars, table, copy
  <2>3. QED
    BY <2>1, <2>2 DEF IInv
<1>4. QED
  BY <1>1, <1>2, <1>3 DEF Next

-----------------------------------------------------------------------------
LEMMA InvFindable == IInv => Findable
<1> SUFFICES ASSUME IInv PROVE Findable
  OBVIOUS
<1>1. \A b \in DOMAIN buckets : buckets[b] \in Seq(Item)
  BY DEF IInv, Lists
<1>2. \A b \in DOMAIN old : old[b] \in Seq(Item)
  BY DEF IInv, Lists
<1>3. TypeOK
  <2>1. \A b \in DOMAIN buckets : ToSet(buckets[b]) \subseteq Item
    BY <1>1 DEF ToSet
  <2>2. \A b \in DOMAIN old : ToSet(old[b]) \subseteq Item
    BY <1>2 DEF ToSet
  <2>3. QED
    BY <2>1, <2>2 DEF IInv, Lists, Control, TypeOK
<1>4. \A b \in DOMAIN buckets : IsInjective(buckets[b])
  BY DEF IInv, Chained, Apart, IsInjective
<1>5. \A b \in DOMAIN buckets : \A it \in ToSet(buckets[b]) : Home(it.key) = b
  BY DEF IInv, Chained, AtHome, ToSet
<1>6. ASSUME NEW t, Apart(t), NEW x \in ItemsIn(t), NEW y \in ItemsIn(t), x.key = y.key
      PROVE  x = y
  <2>1. PICK b \in DOMAIN t : \E n \in DOMAIN t[b] : x = t[b][n]
    BY InItems
  <2>2. PICK n \in DOMAIN t[b] : x = t[b][n]
    BY <2>1
  <2>3. PICK c \in DOMAIN t : \E m \in DOMAIN t[c] : y = t[c][m]
    BY InItems
  <2>4. PICK m \in DOMAIN t[c] : y = t[c][m]
    BY <2>3
  <2>5. QED
    BY <1>6, <2>2, <2>4 DEF Apart
<1>7. \A x, y \in Held : x.key = y.key => x = y
  <2>1. Apart(buckets) /\ Apart(old)
    BY DEF IInv, Chained
  <2>2. \A x, y \in ItemsIn(buckets) : x.key = y.key => x = y
    BY <1>6, <2>1
  <2>3. \A x, y \in ItemsIn(old) : x.key = y.key => x = y
    BY <1>6, <2>1
  <2>4. \A x \in ItemsIn(buckets), y \in ItemsIn(old) : x.key # y.key
    BY DEF IInv, Chained
  <2>5. QED
    BY <2>2, <2>3, <2>4 DEF Held
<1>8. ItemsIn(buckets) \cap ItemsIn(old) = {}
  BY DEF IInv, Chained
<1>9. QED
  BY <1>3, <1>4, <1>5, <1>7, <1>8 DEF Findable

(***************************************************************************)
(* For every capacity and hash function: each item is on the one list      *)
(* where its key is looked for, once, and no key is held twice, not even   *)
(* while a resize has the items on two tables.                             *)
(***************************************************************************)
THEOREM HashSCFindable == Spec => []Findable
<1>1. QED
  BY InitInv, IInvStep, InvFindable, PTL DEF Spec

(***************************************************************************)
(* For every capacity: size counts the items of the table being filled, at *)
(* most two per bucket, and no put inside a resize starts another resize,  *)
(* whatever malloc refuses it.                                             *)
(***************************************************************************)
THEOREM HashSCLoad == Spec => []Load
<1>1. IInv => Load
  BY DEF IInv, Room, Control, Load
<1>2. QED
  BY InitInv, IInvStep, <1>1, PTL DEF Spec

-----------------------------------------------------------------------------
(***************************************************************************)
(* The refinement.  What the dictionary holds is what the two tables hold. *)
(***************************************************************************)
LEMMA HeldStill ==
  ASSUME UNCHANGED <<buckets, old>>
  PROVE  Held' = Held
BY DEF Held

LEMMA HeldOne ==
  ASSUME IInv, pc # "copy"
  PROVE  Held = ItemsIn(buckets)
BY NoTableFacts DEF IInv, Control, Held

LEMMA LookupFinds ==
  ASSUME IInv, pc \notin {"none", "copy"}, NEW k \in Key
  PROVE  Dict!With(k) = Hits(k)
<1>1. Hits(k) = {it \in ItemsIn(buckets) : it.key = k}
  BY HitsAre DEF IInv, Control
<1>2. QED
  BY <1>1, HeldOne DEF Dict!With

LEMMA InitRefines == Init => Dict!Init
<1> SUFFICES ASSUME Init PROVE Dict!Init
  OBVIOUS
<1>1. Held = {}
  BY NoTableFacts DEF Init, Held
<1>2. (pc # "none") = FALSE /\ res = Dict!Pending
  BY DEF Init, Pending, Answer, Dict!Pending, Dict!Answer
<1>3. QED
  BY <1>1, <1>2 DEF Dict!Init

LEMMA CreateRefines ==
  ASSUME IInv, NEW c \in Capacities, Create(c)
  PROVE  Dict!Create
<1>1. pc = "none" /\ buckets = NoTable /\ old = NoTable /\ UNCHANGED old
  BY DEF Create, copy, IInv, Control
<1>2. ItemsIn(buckets') = {} /\ ItemsIn(old') = {}
  BY <1>1, BlankTable, NoTableFacts, CapacityAssumption DEF Create
<1>3. Held' = {}
  BY <1>2 DEF Held
<1>4. res' = Dict!Pending
  BY DEF Create, Pending, Answer, Dict!Pending, Dict!Answer
<1>5. QED
  BY <1>1, <1>3, <1>4 DEF Dict!Create

LEMMA DestroyRefines ==
  ASSUME IInv, Destroy
  PROVE  Dict!Destroy
<1>1. pc = "idle" /\ pc' = "none" /\ buckets' = NoTable /\ UNCHANGED old
  BY DEF Destroy, copy
<1>2. old = NoTable /\ Held = ItemsIn(buckets)
  BY <1>1, HeldOne DEF IInv, Control
<1>3. Held' = {}
  BY <1>1, <1>2, NoTableFacts DEF Held
<1>4. res' = Dict!Answer("destroy", {}, 0, Held)
  BY <1>2 DEF Destroy, Answer, Dict!Answer
<1>5. QED
  BY <1>1, <1>3, <1>4 DEF Dict!Destroy

\* A call begins: the caller sees nothing yet.
LEMMA CallRefines ==
  ASSUME IInv, NEW it \in Item, PutCall(it)
  PROVE  Dict!Begin
<1>1. pc = "idle" /\ pc' \in {"grow", "put"} /\ res' = Pending /\ UNCHANGED <<buckets, old>>
  BY DEF PutCall, table, copy
<1>2. QED
  BY <1>1, HeldStill DEF Dict!Begin, Pending, Answer, Dict!Pending, Dict!Answer

LEMMA GetRefines ==
  ASSUME IInv, NEW k \in Key, Get(k)
  PROVE  Dict!Get(k)
<1>1. pc = "idle" /\ pc' = pc /\ UNCHANGED <<buckets, old>>
  BY DEF Get, table, copy
<1>2. Dict!With(k) = Hits(k)
  BY <1>1, LookupFinds
<1>3. res' = Dict!Answer("get", k, IF Dict!With(k) = {} THEN 1 ELSE 0, Dict!With(k))
  BY <1>2 DEF Get, Answer, Dict!Answer
<1>4. QED
  BY <1>1, <1>3, HeldStill DEF Dict!Get

LEMMA DeleteRefines ==
  ASSUME IInv, NEW k \in Key, DeleteMiss(k) \/ DeleteHit(k)
  PROVE  Dict!Delete(k)
<1>1. pc = "idle" /\ pc' # "none" /\ UNCHANGED <<hash, old>> /\ old = NoTable /\ capacity > 0
  BY DEF DeleteMiss, DeleteHit, copy, IInv, Control
<1>2. Dict!With(k) = Hits(k) /\ Held = ItemsIn(buckets)
  BY <1>1, LookupFinds, HeldOne
<1>3. res' = Dict!Answer("delete", k, IF Dict!With(k) = {} THEN 1 ELSE 0, Dict!With(k))
  BY <1>2 DEF DeleteMiss, DeleteHit, Answer, Dict!Answer
<1>4. Held' = Held \ Dict!With(k)
  <2>1. CASE DeleteMiss(k)
    BY <1>1, <1>2, <2>1, HeldStill DEF DeleteMiss, table
  <2>2. CASE DeleteHit(k)
    <3>1. Hits(k) # {} /\ buckets' = [buckets EXCEPT ![Home(k)] = Unlinked(k)]
      BY <2>2 DEF DeleteHit
    <3>2. ItemsIn(buckets)' = ItemsIn(buckets) \ Hits(k)
      BY <1>1, <3>1, UnlinkKeeps DEF IInv
    <3>3. ItemsIn(old)' = {}
      BY <1>1, NoTableFacts
    <3>4. QED
      BY <1>2, <3>2, <3>3 DEF Held
  <2>3. QED
    BY <2>1, <2>2
<1>5. QED
  BY <1>1, <1>3, <1>4 DEF Dict!Delete

LEMMA PutRefines ==
  ASSUME IInv, PutExisting \/ PutNew \/ PutFailed
  PROVE  /\ call.arg \in Item
         /\ Dict!PutExisting(call.arg) \/ Dict!Put(call.arg) \/ Dict!PutFailed(call.arg)
<1>1. /\ pc = "put" /\ pc' = "idle" /\ call.arg \in Item /\ capacity > 0
      /\ old = NoTable /\ UNCHANGED <<hash, old>>
  BY DEF PutExisting, PutNew, PutFailed, Finish, copy, IInv, Control
<1>2. call.arg.key \in Key
  BY <1>1 DEF Key
<1>3. Dict!With(call.arg.key) = Hits(call.arg.key) /\ Held = ItemsIn(buckets)
  BY <1>1, <1>2, LookupFinds, HeldOne
<1>4. CASE PutExisting
  BY <1>1, <1>3, <1>4, HeldStill DEF PutExisting, Finish, table, Dict!PutExisting,
     Answer, Dict!Answer
<1>5. CASE PutFailed
  BY <1>1, <1>5, HeldStill DEF PutFailed, Finish, table, Dict!PutFailed, Answer, Dict!Answer
<1>6. CASE PutNew
  <2>1. PICK it \in Item : it = call.arg
    BY <1>1
  <2>2. ItemsIn(buckets)' = ItemsIn(buckets) \cup {it}
    BY <1>1, <1>6, <2>1, PrependKeeps DEF IInv, PutNew
  <2>3. ItemsIn(old)' = {}
    BY <1>1, NoTableFacts
  <2>4. Held' = Held \cup {call.arg}
    BY <1>3, <2>1, <2>2, <2>3 DEF Held
  <2>5. res' = Dict!Answer("put", call.arg, 0, {})
    BY <1>6 DEF PutNew, Finish, Answer, Dict!Answer
  <2>6. QED
    BY <1>1, <1>3, <1>6, <2>4, <2>5 DEF PutNew, Dict!Put
<1>7. QED
  BY <1>1, <1>4, <1>5, <1>6

LEMMA ResizeFailsRefines ==
  ASSUME IInv, ResizeFails
  PROVE  \/ call.arg \in Item /\ Dict!PutFailed(call.arg)
         \/ UNCHANGED Dict!vars
<1>1. pc \in {"grow", "shrink"} /\ pc' = "idle" /\ UNCHANGED <<buckets, old>>
  BY DEF ResizeFails, Finish, table, copy
<1>2. CASE pc = "grow"
  <2>1. call.arg \in Item /\ res' = Answer("put", call.arg, -1, {})
    BY <1>2 DEF ResizeFails, Finish, IInv, Control
  <2>2. QED
    BY <1>1, <2>1, HeldStill DEF Dict!PutFailed, Answer, Dict!Answer
<1>3. CASE pc = "shrink"
  BY <1>1, <1>3, HeldStill DEF ResizeFails, Finish, Dict!vars
<1>4. QED
  BY <1>1, <1>2, <1>3

(***************************************************************************)
(* Copying moves items between the tables; with memory for every node,     *)
(* what is held stays what it is.                                          *)
(***************************************************************************)
LEMMA CopyHeld ==
  ASSUME IInv, ~CopyMayFail, ResizeBegins \/ CopyNextBucket \/ CopyNode \/ CopyDone
  PROVE  Held' = Held
<1>1. CASE ResizeBegins
  <2>1. old = NoTable /\ old' = buckets
    BY <1>1 DEF ResizeBegins, IInv, Control
  <2>2. ItemsIn(buckets') = {}
    <3>1. capacity \in Nat
      BY DEF IInv, Lists
    <3>2. NewCapacity \in Nat
      BY <3>1 DEF NewCapacity
    <3>3. QED
      BY <1>1, <3>2, BlankTable DEF ResizeBegins
  <2>3. QED
    BY <2>1, <2>2, NoTableFacts DEF Held
<1>2. CASE CopyNextBucket
  BY <1>2, HeldStill DEF CopyNextBucket, table
<1>3. CASE CopyNode
  <2>1. PICK it \in ItemsIn(old) :
          /\ ItemsIn(old)' = ItemsIn(old) \ {it}
          /\ capacity > 0 /\ hash' = hash /\ Hits(it.key) = {} /\ it = Head(old[i])
          /\ Prepend(it)
    BY <1>3, CopyNodeDoes
  <2>2. it \in Item
    BY InItems DEF IInv, Lists
  <2>3. ItemsIn(buckets)' = ItemsIn(buckets) \cup {it}
    BY <2>1, <2>2, PrependKeeps DEF IInv
  <2>4. QED
    BY <2>1, <2>3 DEF Held
<1>4. CASE CopyDone
  <2>1. buckets' = buckets /\ old' = NoTable /\ i = oldcap /\ pc = "copy"
    BY <1>4 DEF CopyDone, table
  <2>2. \A b \in DOMAIN old : old[b] = <<>>
    BY <2>1 DEF IInv, Control, Lists
  <2>3. ItemsIn(old) = {}
    BY <2>2, InItems
  <2>4. QED
    BY <2>1, <2>3, NoTableFacts DEF Held
<1>5. QED
  BY <1>1, <1>2, <1>3, <1>4

LEMMA StepRefines ==
  ASSUME IInv, ~CopyMayFail, [Next]_vars
  PROVE  [Dict!Next]_(Dict!vars)
<1>1. CASE Request
  <2>1. CASE Refuse
    BY <2>1, HeldStill DEF Refuse, table, copy, Refusal, Answer,
       Dict!Next, Dict!Refuse, Dict!Refusal, Dict!Answer
  <2>2. Dict!Key = Key
    BY DEF Dict!Key, Key
  <2>3. QED
    BY <1>1, <2>1, <2>2, CreateRefines, DestroyRefines, CallRefines, GetRefines,
       DeleteRefines DEF Request, Dict!Next
<1>2. CASE PutExisting \/ PutNew \/ PutFailed
  BY <1>2, PutRefines DEF Dict!Next
<1>3. CASE ResizeFails
  BY <1>3, ResizeFailsRefines DEF Dict!Next
<1>4. CASE ResizeBegins \/ CopyNextBucket \/ CopyNode \/ CopyDone
  <2>1. res' = res /\ pc # "none" /\ pc' # "none"
    <3>1. CASE CopyNode
      BY <3>1, CopyNodeDoes
    <3>2. CASE ResizeBegins \/ CopyNextBucket \/ CopyDone
      BY <3>2 DEF ResizeBegins, CopyNextBucket, CopyDone, Finish
    <3>3. QED
      BY <1>4, <3>1, <3>2
  <2>2. QED
    BY <1>4, <2>1, CopyHeld DEF Dict!vars
<1>5. CASE UNCHANGED vars
  BY <1>5, HeldStill DEF vars, table, copy, Dict!vars
<1>6. QED
  BY <1>1, <1>2, <1>3, <1>4, <1>5 DEF Next, Work

(***************************************************************************)
(* For every capacity and hash function, when copying finds memory for its *)
(* nodes, hash_sc.c answers as an atomic dictionary does: chains and       *)
(* resizes never show.                                                     *)
(***************************************************************************)
THEOREM HashSCImplements ==
  ASSUME CopyMayFail = FALSE
  PROVE  Spec => Implements
<1>1. IInv /\ [Next]_vars => [Dict!Next]_(Dict!vars)
  BY StepRefines
<1>2. QED
  BY InitInv, IInvStep, InitRefines, <1>1, PTL DEF Spec, Implements, Dict!Spec

\* No step of the abstract dictionary but delete and destroy gives items up.
LEMMA StepHandsBack ==
  ASSUME IInv, ~CopyMayFail, [Next]_vars
  PROVE  [OnlyHandedBack]_vars
<1>1. CASE Dict!Next
  <2>1. CASE \E k \in Dict!Key : Dict!Delete(k)
    BY <2>1 DEF Dict!Delete, Dict!Answer, OnlyHandedBack
  <2>2. CASE Dict!Destroy
    BY <2>2 DEF Dict!Destroy, Dict!Answer, OnlyHandedBack
  <2>3. CASE Dict!Create
    <3>1. Held = {}
      BY <2>3, HeldOne, NoTableFacts DEF Dict!Create, IInv, Control
    <3>2. QED
      BY <3>1 DEF OnlyHandedBack
  <2>4. CASE \E it \in Item : Dict!Put(it)
    BY <2>4 DEF Dict!Put, OnlyHandedBack
  <2>5. CASE Held' = Held
    BY <2>5 DEF OnlyHandedBack
  <2>6. QED
    BY <1>1, <2>1, <2>2, <2>3, <2>4, <2>5 DEF Dict!Next, Dict!Begin, Dict!Refuse,
       Dict!PutExisting, Dict!PutFailed, Dict!Get, Dict!Traverse
<1>2. CASE UNCHANGED Dict!vars
  BY <1>2 DEF Dict!vars, OnlyHandedBack
<1>3. QED
  BY <1>1, <1>2, StepRefines

(***************************************************************************)
(* When copying finds memory for its nodes an item leaves the table only   *)
(* into its caller's hands, by delete or destroy.                          *)
(***************************************************************************)
THEOREM HashSCNothingLost ==
  ASSUME CopyMayFail = FALSE
  PROVE  Spec => NothingLost
<1>1. IInv /\ [Next]_vars => [OnlyHandedBack]_vars
  BY StepHandsBack
<1>2. QED
  BY InitInv, IInvStep, <1>1, PTL DEF Spec, NothingLost
=============================================================================
