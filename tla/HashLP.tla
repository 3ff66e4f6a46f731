------------------------------- MODULE HashLP -------------------------------
(***************************************************************************)
(* hash_lp.c: open addressing with linear probing and tombstones.  Every   *)
(* turn of a probe loop and of resize's copying loop is a step.            *)
(***************************************************************************)
EXTENDS Integers, FiniteSets

CONSTANTS
  Item,             \* items callers put: records with a key and a val
  Capacities,       \* capacities callers give to create
  HashFns,          \* the hash functions considered: key |-> hash value
  EMPTY, TOMB       \* slot states 0 and 2; a slot in state 1 is its item

Key == {it.key : it \in Item}

ASSUME CapacityAssumption == Capacities \subseteq Nat \ {0}
ASSUME HashAssumption == HashFns \subseteq [Key -> Nat]
ASSUME SlotAssumption == EMPTY \notin Item /\ TOMB \notin Item /\ EMPTY # TOMB

VARIABLES
  hash,             \* table->hash
  entries, size,    \* the slots, indexed from 0, and the count of live ones
  pc,               \* "none": no table; "idle"; or where a call has got to
  call,             \* operation and argument of the call under way
  item,             \* the key or item that put / get / delete probes for
  idx, tomb,        \* probe position and first_tombstone (NoTomb: none)
  old, i,           \* resize: old_entries and its loop index
  res               \* last answer

table == <<entries, size>>
probe == <<item, idx, tomb>>
copy == <<old, i>>
vars == <<hash, entries, size, pc, call, item, idx, tomb, old, i, res>>

NoTomb == -1
NoTable == [s \in {} |-> EMPTY]
NoCall == [op |-> "none", arg |-> {}]
Blank(n) == [s \in 0 .. n - 1 |-> EMPTY]

capacity == Cardinality(DOMAIN entries)
oldcap == Cardinality(DOMAIN old)

LiveIn(t) == {s \in DOMAIN t : t[s] \in Item}

Answer(op, arg, rc, out) == [op |-> op, arg |-> arg, rc |-> rc, out |-> out]
Pending == Answer("none", {}, 0, {})
Refusal == Answer("refused", {}, -1, {})

Init ==
  /\ hash \in HashFns
  /\ entries = NoTable /\ size = 0
  /\ pc = "none" /\ call = NoCall
  /\ item = {} /\ idx = 0 /\ tomb = NoTomb
  /\ old = NoTable /\ i = 0
  /\ res = Pending

-----------------------------------------------------------------------------
\* create: either allocation may fail and then nothing is left behind.
Create(c) ==
  /\ pc = "none"
  /\ \/ pc' = "idle" /\ entries' = Blank(c)
     \/ UNCHANGED <<pc, entries>>
  /\ res' = Pending
  /\ UNCHANGED <<hash, size, call, probe, copy>>

\* destroy hands every live item to the callback and frees the slots.
Destroy ==
  /\ pc = "idle"
  /\ pc' = "none"
  /\ entries' = NoTable /\ size' = 0
  /\ res' = Answer("destroy", {}, 0, {entries[s] : s \in LiveIn(entries)})
  /\ UNCHANGED <<hash, call, probe, copy>>

Refuse ==
  /\ pc \in {"none", "idle"}
  /\ res' = Refusal
  /\ UNCHANGED <<hash, table, pc, call, probe, copy>>

KeyOf(op, arg) == IF op = "put" THEN arg.key ELSE arg

\* Every probe starts at the home slot of its key, as capacity is now.
StartProbe(arg, k, n) ==
  /\ item' = arg
  /\ idx' = hash[k] % n
  /\ tomb' = NoTomb

StopProbe == item' = {} /\ idx' = 0 /\ tomb' = NoTomb

Finish(answer) == pc' = "idle" /\ call' = NoCall /\ res' = answer

\* A plausible slip: the check made for the size before the item is added.
GrowthLate(n, cap) == n * 10 >= cap * 7

\* put's load check, with size as it stands.
GrowthDue(n, cap) == (n + 1) * 10 >= cap * 7

PutCall(it) ==
  /\ pc = "idle"
  /\ call' = [op |-> "put", arg |-> it]
  /\ res' = Pending
  /\ \/ GrowthDue(size, capacity) /\ pc' = "grow" /\ UNCHANGED probe
     \/ ~GrowthDue(size, capacity) /\ pc' = "probe" /\ StartProbe(it, it.key, capacity)
  /\ UNCHANGED <<hash, table, copy>>

KeyCall(op, k) ==
  /\ pc = "idle"
  /\ call' = [op |-> op, arg |-> k]
  /\ res' = Pending
  /\ pc' = "probe"
  /\ StartProbe(k, k, capacity)
  /\ UNCHANGED <<hash, table, copy>>

-----------------------------------------------------------------------------
\* The probe loops.  A slot is a hit when it is live with the key sought.
Probed == IF pc = "reprobe" THEN item.key ELSE KeyOf(call.op, item)

Here == entries[idx]
Hit == Here \in Item /\ Here.key = Probed

\* A plausible slip: a probe that stops at a tombstone.
MissAtTomb == Here \in {EMPTY, TOMB}

Miss == Here = EMPTY

\* A plausible slip: a stride of two, which passes by every other slot when
\* the capacity is even.
NextByTwo(s) == (s + 2) % capacity

NextSlot(s) == (s + 1) % capacity

Advance ==
  /\ pc \in {"probe", "reprobe"}
  /\ ~Hit /\ ~Miss
  /\ idx' = NextSlot(idx)
  /\ tomb' = IF Here = TOMB /\ tomb = NoTomb THEN idx ELSE tomb
  /\ UNCHANGED <<hash, table, pc, call, item, copy, res>>

\* Where put stores: the first tombstone it passed, else the empty slot.
Target == IF tomb # NoTomb THEN tomb ELSE idx

Store(it) ==
  /\ entries' = [entries EXCEPT ![Target] = it]
  /\ size' = size + 1

PutNew ==
  /\ pc = "probe" /\ call.op = "put" /\ Miss
  /\ Store(item)
  /\ Finish(Answer("put", call.arg, 0, {}))
  /\ StopProbe
  /\ UNCHANGED <<hash, copy>>

PutExisting ==
  /\ pc = "probe" /\ call.op = "put" /\ Hit
  /\ Finish(Answer("put", call.arg, 1, {}))
  /\ StopProbe
  /\ UNCHANGED <<hash, table, copy>>

GetHit ==
  /\ pc = "probe" /\ call.op = "get" /\ Hit
  /\ Finish(Answer("get", call.arg, 0, {Here}))
  /\ StopProbe
  /\ UNCHANGED <<hash, table, copy>>

KeyMiss ==
  /\ pc = "probe" /\ call.op \in {"get", "delete"} /\ Miss
  /\ Finish(Answer(call.op, call.arg, 1, {}))
  /\ StopProbe
  /\ UNCHANGED <<hash, table, copy>>

ShrinkDue(n, cap) == cap > 8 /\ n * 10 <= cap * 2

\* A plausible slip: a deleted slot is made empty again.
Cleared(s) == [entries EXCEPT ![s] = EMPTY]

Buried(s) == [entries EXCEPT ![s] = TOMB]

(***************************************************************************)
(* delete's *out and return code are settled here: the result of the       *)
(* shrinking that may follow is ignored.                                   *)
(***************************************************************************)
DeleteHit ==
  /\ pc = "probe" /\ call.op = "delete" /\ Hit
  /\ entries' = Buried(idx)
  /\ size' = size - 1
  /\ res' = Answer("delete", call.arg, 0, {Here})
  /\ IF ShrinkDue(size', capacity)
       THEN pc' = "shrink" /\ UNCHANGED call
       ELSE pc' = "idle" /\ call' = NoCall
  /\ StopProbe
  /\ UNCHANGED <<hash, copy>>

-----------------------------------------------------------------------------
\* resize: calloc may fail, and then the table is as it was.
ResizeFails ==
  /\ \/ pc = "grow" /\ Finish(Answer("put", call.arg, -1, {}))
     \/ pc = "shrink" /\ Finish(res)
  /\ UNCHANGED <<hash, table, probe, copy>>

NewCapacity == IF pc = "grow" THEN capacity * 2 ELSE capacity \div 2

ResizeBegins ==
  /\ pc \in {"grow", "shrink"}
  /\ old' = entries /\ i' = 0
  /\ entries' = Blank(NewCapacity) /\ size' = 0
  /\ pc' = "rehash"
  /\ UNCHANGED <<hash, call, probe, res>>

(***************************************************************************)
(* The copying loop puts each live item into the new table.  That put is   *)
(* the whole put: were its own load check to hold it would resize within   *)
(* the resize, which is the trap state "nested".                           *)
(***************************************************************************)
CopySkip ==
  /\ pc = "rehash" /\ i < oldcap
  /\ old[i] \notin Item
  /\ i' = i + 1
  /\ UNCHANGED <<hash, table, pc, call, probe, old, res>>

CopyPut ==
  /\ pc = "rehash" /\ i < oldcap
  /\ old[i] \in Item
  /\ IF GrowthDue(size, capacity)
       THEN pc' = "nested" /\ UNCHANGED probe
       ELSE pc' = "reprobe" /\ StartProbe(old[i], old[i].key, capacity)
  /\ UNCHANGED <<hash, table, call, copy, res>>

\* The inner put has stored its item, or met its key and dropped it.
CopyNext ==
  /\ pc = "reprobe" /\ (Miss \/ Hit)
  /\ IF Miss THEN Store(item) ELSE UNCHANGED table
  /\ pc' = "rehash" /\ i' = i + 1
  /\ StopProbe
  /\ UNCHANGED <<hash, call, old, res>>

\* Back in put, which goes on to probe the larger table, or in delete.
CopyDone ==
  /\ pc = "rehash" /\ i = oldcap
  /\ old' = NoTable /\ i' = 0
  /\ \/ /\ call.op = "put"
        /\ pc' = "probe" /\ StartProbe(call.arg, call.arg.key, capacity)
        /\ UNCHANGED <<call, res>>
     \/ /\ call.op = "delete"
        /\ Finish(res)
        /\ UNCHANGED probe
  /\ UNCHANGED <<hash, table>>

-----------------------------------------------------------------------------
Request ==
  \/ \E c \in Capacities : Create(c)
  \/ Destroy
  \/ Refuse
  \/ \E it \in Item : PutCall(it)
  \/ \E k \in Key, op \in {"get", "delete"} : KeyCall(op, k)

Work ==
  \/ Advance
  \/ PutNew \/ PutExisting \/ GetHit \/ KeyMiss \/ DeleteHit
  \/ ResizeFails \/ ResizeBegins
  \/ CopySkip \/ CopyPut \/ CopyNext \/ CopyDone

Next == Request \/ Work

\* A call that has begun runs on: the library never waits.
Spec == Init /\ [][Next]_vars /\ WF_vars(Work)

-----------------------------------------------------------------------------
TypeOK ==
  /\ hash \in HashFns
  /\ entries \in [0 .. capacity - 1 -> Item \cup {EMPTY, TOMB}]
  /\ old \in [0 .. oldcap - 1 -> Item \cup {EMPTY, TOMB}]
  /\ size \in Nat /\ i \in 0 .. oldcap
  /\ pc \in {"none", "idle", "probe", "grow", "shrink", "rehash", "reprobe", "nested"}
  /\ call.op \in {"none", "put", "get", "delete"}
  /\ pc \in {"probe", "reprobe"} => idx \in DOMAIN entries
  /\ tomb \in DOMAIN entries \cup {NoTomb}

(***************************************************************************)
(* What a resize has still to copy.                                        *)
(***************************************************************************)
Uncopied == {old[s] : s \in {l \in LiveIn(old) : l >= i}}

Held == {entries[s] : s \in LiveIn(entries)} \cup Uncopied

(***************************************************************************)
(* Every live item can be found: no slot between its home slot and its     *)
(* place is empty, going round the end of the array, so neither a deletion *)
(* nor a resize half done ever cuts an item off from its own probe.        *)
(***************************************************************************)
Distance(from, to) == (to - from) % capacity

Reachable(s) ==
  LET home == hash[entries[s].key] % capacity
  IN \A d \in 0 .. Distance(home, s) : entries[(home + d) % capacity] # EMPTY

ProbeChains == \A s \in LiveIn(entries) : Reachable(s)

(***************************************************************************)
(* No key is stored twice, not even across the old and the new array of a  *)
(* resize: a second copy would come back to life when the first is deleted.*)
(***************************************************************************)
NoDuplicates ==
  /\ \A s, t \in LiveIn(entries) : s # t => entries[s].key # entries[t].key
  /\ \A s \in LiveIn(entries) : \A it \in Uncopied : entries[s].key # it.key

Findable == TypeOK /\ ProbeChains /\ NoDuplicates

(***************************************************************************)
(* size counts the live slots of the table being filled, the load stays    *)
(* under 0.7 (docs/hash.md), and copying into a resized table never asks   *)
(* for another resize.                                                     *)
(***************************************************************************)
Load ==
  /\ size = Cardinality(LiveIn(entries))
  /\ pc # "none" => size * 10 < capacity * 7
  /\ pc # "nested"

Dict == INSTANCE Dictionary WITH alive <- (pc # "none"), held <- Held

\* The table answers as an atomic dictionary does, through every resize.
Implements == Dict!Spec

(***************************************************************************)
(* Calls come back as long as the array has an empty slot to stop at.      *)
(***************************************************************************)
Busy == pc \notin {"none", "idle"}

HasEmpty == \E s \in DOMAIN entries : entries[s] = EMPTY

ReturnsIfEmpty == (Busy /\ HasEmpty) ~> ~Busy

(***************************************************************************)
(* docs/hash.md gives every get and delete a return code, "1 if not        *)
(* found" among them: every call comes back.                               *)
(***************************************************************************)
Returns == Busy ~> ~Busy
=============================================================================
