------------------------------- MODULE HashSC -------------------------------
(***************************************************************************)
(* hash_sc.c: separate chaining.  A bucket is the sequence of the items on *)
(* its list.  A walk of one list is part of its operation's step; resize   *)
(* moves one node per step, since each node needs a malloc that may fail.  *)
(***************************************************************************)
EXTENDS Integers, FiniteSets, SequencesExt

CONSTANTS
  Item,             \* items callers put: records with a key and a val
  Capacities,       \* capacities callers give to create
  HashFns,          \* the hash functions considered: key |-> hash value
  CopyMayFail       \* may malloc fail while resize copies nodes?

Key == {it.key : it \in Item}

ASSUME CapacityAssumption == Capacities \subseteq Nat \ {0}
ASSUME HashAssumption == HashFns \subseteq [Key -> Nat]
ASSUME CopyAssumption == CopyMayFail \in BOOLEAN

VARIABLES
  hash,             \* table->hash
  buckets, size,    \* the lists, indexed from 0, and the count of items
  pc,               \* "none": no table; "idle"; or where a call has got to
  call,             \* operation and argument of the call under way
  old, i,           \* resize: old_buckets with what is left on them; index
  res               \* last answer

table == <<buckets, size>>
copy == <<old, i>>
vars == <<hash, buckets, size, pc, call, old, i, res>>

NoCall == [op |-> "none", arg |-> {}]
NoTable == [b \in {} |-> <<>>]
Blank(n) == [b \in 0 .. n - 1 |-> <<>>]

capacity == Cardinality(DOMAIN buckets)
oldcap == Cardinality(DOMAIN old)

ItemsIn(t) == UNION {ToSet(t[b]) : b \in DOMAIN t}

Answer(op, arg, rc, out) == [op |-> op, arg |-> arg, rc |-> rc, out |-> out]
Pending == Answer("none", {}, 0, {})
Refusal == Answer("refused", {}, -1, {})

Init ==
  /\ hash \in HashFns
  /\ buckets = NoTable /\ size = 0
  /\ pc = "none" /\ call = NoCall
  /\ old = NoTable /\ i = 0
  /\ res = Pending

-----------------------------------------------------------------------------
Create(c) ==
  /\ pc = "none"
  /\ \/ pc' = "idle" /\ buckets' = Blank(c)
     \/ UNCHANGED <<pc, buckets>>
  /\ res' = Pending
  /\ UNCHANGED <<hash, size, call, copy>>

Destroy ==
  /\ pc = "idle"
  /\ pc' = "none"
  /\ buckets' = NoTable /\ size' = 0
  /\ res' = Answer("destroy", {}, 0, ItemsIn(buckets))
  /\ UNCHANGED <<hash, call, copy>>

Refuse ==
  /\ pc \in {"none", "idle"}
  /\ res' = Refusal
  /\ UNCHANGED <<hash, table, pc, call, copy>>

\* The list that a key belongs on, as capacity is now.
Home(k) == hash[k] % capacity

\* A plausible slip: only the first node is compared.
HitsHead(k) ==
  {it \in ToSet(SubSeq(buckets[Home(k)], 1, Min({1, Len(buckets[Home(k)])}))) : it.key = k}

\* The nodes on that list that cmp finds equal to k.
Hits(k) == {it \in ToSet(buckets[Home(k)]) : it.key = k}

Finish(answer) == pc' = "idle" /\ call' = NoCall /\ res' = answer

\* A plausible slip: the check made for the size before the item is added.
GrowthLate(n, cap) == n > cap * 2

GrowthDue(n, cap) == n + 1 > cap * 2

\* node->next = buckets[idx]; buckets[idx] = node; size++
Prepend(it) ==
  /\ buckets' = [buckets EXCEPT ![Home(it.key)] = <<it>> \o @]
  /\ size' = size + 1

PutCall(it) ==
  /\ pc = "idle"
  /\ call' = [op |-> "put", arg |-> it]
  /\ res' = Pending
  /\ pc' = IF GrowthDue(size, capacity) THEN "grow" ELSE "put"
  /\ UNCHANGED <<hash, table, copy>>

PutExisting ==
  /\ pc = "put"
  /\ Hits(call.arg.key) # {}
  /\ Finish(Answer("put", call.arg, 1, {}))
  /\ UNCHANGED <<hash, table, copy>>

PutNew ==
  /\ pc = "put"
  /\ Hits(call.arg.key) = {}
  /\ Prepend(call.arg)
  /\ Finish(Answer("put", call.arg, 0, {}))
  /\ UNCHANGED <<hash, copy>>

\* No memory for the node.
PutFailed ==
  /\ pc = "put"
  /\ Hits(call.arg.key) = {}
  /\ Finish(Answer("put", call.arg, -1, {}))
  /\ UNCHANGED <<hash, table, copy>>

Get(k) ==
  /\ pc = "idle"
  /\ res' = Answer("get", k, IF Hits(k) = {} THEN 1 ELSE 0, Hits(k))
  /\ UNCHANGED <<hash, table, pc, call, copy>>

DeleteMiss(k) ==
  /\ pc = "idle"
  /\ Hits(k) = {}
  /\ res' = Answer("delete", k, 1, {})
  /\ UNCHANGED <<hash, table, pc, call, copy>>

ShrinkDue(n, cap) == cap > 8 /\ n < cap \div 4

\* A plausible slip: the bucket made to start after the node wherever it is.
UnlinkedToHead(k) ==
  LET list == buckets[Home(k)]
      at == CHOOSE n \in DOMAIN list : list[n].key = k
  IN SubSeq(list, at + 1, Len(list))

\* The list without the first node that matches.
Unlinked(k) ==
  LET list == buckets[Home(k)]
      at == CHOOSE n \in DOMAIN list :
              list[n].key = k /\ \A m \in 1 .. n - 1 : list[m].key # k
  IN RemoveAt(list, at)

\* The answer is settled before the shrinking, whose result is ignored.
DeleteHit(k) ==
  /\ pc = "idle"
  /\ Hits(k) # {}
  /\ buckets' = [buckets EXCEPT ![Home(k)] = Unlinked(k)]
  /\ size' = size - 1
  /\ res' = Answer("delete", k, 0, Hits(k))
  /\ IF ShrinkDue(size', capacity)
       THEN pc' = "shrink" /\ call' = [op |-> "delete", arg |-> k]
       ELSE UNCHANGED <<pc, call>>
  /\ UNCHANGED <<hash, copy>>

-----------------------------------------------------------------------------
\* resize: calloc may fail, and then the table is as it was.
ResizeFails ==
  /\ \/ pc = "grow" /\ Finish(Answer("put", call.arg, -1, {}))
     \/ pc = "shrink" /\ Finish(res)
  /\ UNCHANGED <<hash, table, copy>>

NewCapacity == IF pc = "grow" THEN capacity * 2 ELSE capacity \div 2

ResizeBegins ==
  /\ pc \in {"grow", "shrink"}
  /\ old' = buckets /\ i' = 0
  /\ buckets' = Blank(NewCapacity) /\ size' = 0
  /\ pc' = "copy"
  /\ UNCHANGED <<hash, call, res>>

CopyNextBucket ==
  /\ pc = "copy" /\ i < oldcap
  /\ old[i] = <<>>
  /\ i' = i + 1
  /\ UNCHANGED <<hash, table, pc, call, old, res>>

\* Plausible slips: node->next read after it was set to NULL; the bucket's
\* head read again in place of the saved next.
RestCut(list) == <<>>
RestSame(list) == list

\* next, saved before node->next = NULL.
Rest(list) == Tail(list)

(***************************************************************************)
(* One node: put(node->item), whose return code nobody reads, and then     *)
(* free(node).  Were the inner put's own load check to hold, it would      *)
(* resize within the resize: the trap state "nested".  When the inner put  *)
(* finds the key or no memory, the item is in neither table from here on.  *)
(***************************************************************************)
CopyNode ==
  /\ pc = "copy" /\ i < oldcap
  /\ old[i] # <<>>
  /\ \E fails \in {FALSE, CopyMayFail} :
       LET it == Head(old[i])
       IN IF GrowthDue(size, capacity)
            THEN pc' = "nested" /\ UNCHANGED table
            ELSE /\ pc' = pc
                 /\ IF fails \/ Hits(it.key) # {} THEN UNCHANGED table
                                                 ELSE Prepend(it)
  /\ old' = [old EXCEPT ![i] = Rest(@)]
  /\ UNCHANGED <<hash, call, i, res>>

CopyDone ==
  /\ pc = "copy" /\ i = oldcap
  /\ old' = NoTable /\ i' = 0
  /\ \/ call.op = "put" /\ pc' = "put" /\ UNCHANGED <<call, res>>
     \/ call.op = "delete" /\ Finish(res)
  /\ UNCHANGED <<hash, table>>

-----------------------------------------------------------------------------
Request ==
  \/ \E c \in Capacities : Create(c)
  \/ Destroy
  \/ Refuse
  \/ \E it \in Item : PutCall(it)
  \/ \E k \in Key : Get(k) \/ DeleteMiss(k) \/ DeleteHit(k)

Work ==
  \/ PutExisting \/ PutNew \/ PutFailed
  \/ ResizeFails \/ ResizeBegins
  \/ CopyNextBucket \/ CopyNode \/ CopyDone

Next == Request \/ Work

\* A call that has begun runs on: the library never waits.
Spec == Init /\ [][Next]_vars /\ WF_vars(Work)

-----------------------------------------------------------------------------
TypeOK ==
  /\ hash \in HashFns
  /\ \A b \in DOMAIN buckets : ToSet(buckets[b]) \subseteq Item
  /\ \A b \in DOMAIN old : ToSet(old[b]) \subseteq Item
  /\ DOMAIN buckets = 0 .. capacity - 1 /\ DOMAIN old = 0 .. oldcap - 1
  /\ size \in Nat /\ i \in 0 .. oldcap
  /\ pc \in {"none", "idle", "put", "grow", "shrink", "copy", "nested"}

Held == ItemsIn(buckets) \cup ItemsIn(old)

(***************************************************************************)
(* Every item is on the one list where its key is looked for, once, and no *)
(* key is held twice even while a resize has its items on two tables.      *)
(***************************************************************************)
Findable ==
  /\ TypeOK
  /\ \A b \in DOMAIN buckets :
       /\ IsInjective(buckets[b])
       /\ \A it \in ToSet(buckets[b]) : Home(it.key) = b
  /\ \A x, y \in Held : x.key = y.key => x = y
  /\ ItemsIn(buckets) \cap ItemsIn(old) = {}

(***************************************************************************)
(* size counts the items of the table being filled, at most two per bucket *)
(* on average, and copying never asks for another resize.                  *)
(***************************************************************************)
Load ==
  /\ size = Cardinality(ItemsIn(buckets))
  /\ size <= capacity * 2
  /\ pc # "nested"

Dict == INSTANCE Dictionary WITH alive <- (pc # "none"), held <- Held

\* The table answers as an atomic dictionary does, through every resize.
Implements == Dict!Spec

(***************************************************************************)
(* Every call comes back, with its answer: the lists hold no cycle and the *)
(* copying loop ends.                                                      *)
(***************************************************************************)
Busy == pc \notin {"none", "idle"}

Returns == Busy ~> ~Busy

(***************************************************************************)
(* An item leaves the table only into its caller's hands: docs/hash.md has *)
(* delete write the item it removes to *out and destroy pass each to its   *)
(* callback, and SPEC.md promises no hidden side effects.                  *)
(***************************************************************************)
OnlyHandedBack == Held \ Held' \subseteq res'.out

NothingLost == [][OnlyHandedBack]_vars
=============================================================================
