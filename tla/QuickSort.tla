----------------------------- MODULE QuickSort ------------------------------
(***************************************************************************)
(* sort_quick.c: quick sort in place, one step for each turn of a loop and *)
(* each call.  Calls wait on `stack`; the one on top is the current one.   *)
(* The val of an item is where it was, which the code never looks at.      *)
(***************************************************************************)
EXTENDS Integers, Sequences

CONSTANTS
  Key,              \* the keys, which cmp orders as integers
  MaxLen            \* bounds n

ASSUME KeyAssumption == Key \subseteq Int
ASSUME MaxLenAssumption == MaxLen \in Nat

VARIABLES
  n, input,         \* the length, and the array as it was
  items,            \* the array, indexed from 0
  pc,
  stack,            \* <<low, high>> of the current call and of those after it
  i, j, pivot       \* of the current partition; of the pivot, its key

vars == <<n, input, items, pc, stack, i, j, pivot>>

Cells == 0 .. n - 1
Item == [key : Key, val : 0 .. MaxLen]

low == stack[1][1]
high == stack[1][2]

Init ==
  /\ n \in 0 .. MaxLen
  /\ \E keys \in [Cells -> Key] : input = [p \in Cells |-> [key |-> keys[p], val |-> p]]
  /\ items = input
  /\ pc = "start"
  /\ stack = <<>>
  /\ i = 0 /\ j = 0 /\ pivot = 0

\* Without items or without cmp, -1 is returned.
Refuse ==
  /\ pc = "start"
  /\ pc' = "refused"
  /\ UNCHANGED <<n, input, items, stack, i, j, pivot>>

Sort ==
  /\ pc = "start"
  /\ IF n < 2 THEN pc' = "done" /\ UNCHANGED stack
              ELSE pc' = "call" /\ stack' = << <<0, n - 1>> >>
  /\ UNCHANGED <<n, input, items, i, j, pivot>>

-----------------------------------------------------------------------------
Return ==
  /\ pc = "call"
  /\ low >= high
  /\ stack' = Tail(stack)
  /\ pc' = IF Len(stack) = 1 THEN "done" ELSE "call"
  /\ UNCHANGED <<n, input, items, i, j, pivot>>

\* A plausible slip: a middle rounded up, which may be high.
MiddleUp(a, b) == a + (b - a + 1) \div 2

Middle(a, b) == a + (b - a) \div 2

Enter ==
  /\ pc = "call"
  /\ low < high
  /\ pivot' = items[Middle(low, high)].key
  /\ i' = low /\ j' = high
  /\ pc' = "partition"
  /\ UNCHANGED <<n, input, items, stack>>

ScanUp ==
  /\ pc = "partition"
  /\ items[i].key < pivot
  /\ i' = i + 1
  /\ UNCHANGED <<n, input, items, pc, stack, j, pivot>>

ScanDown ==
  /\ pc = "partition"
  /\ items[i].key >= pivot
  /\ items[j].key > pivot
  /\ j' = j - 1
  /\ UNCHANGED <<n, input, items, pc, stack, i, pivot>>

Stopped ==
  /\ pc = "partition"
  /\ items[i].key >= pivot
  /\ items[j].key <= pivot

\* A plausible slip: the scans do not step over what was swapped.
SwapInPlace ==
  /\ Stopped
  /\ i < j
  /\ items' = [items EXCEPT ![i] = items[j], ![j] = items[i]]
  /\ UNCHANGED <<n, input, pc, stack, i, j, pivot>>

Swap ==
  /\ Stopped
  /\ i < j
  /\ items' = [items EXCEPT ![i] = items[j], ![j] = items[i]]
  /\ i' = i + 1 /\ j' = j - 1
  /\ UNCHANGED <<n, input, pc, stack, pivot>>

\* partition returns j, and both halves are sorted, the lower one first.
Cut ==
  /\ Stopped
  /\ i >= j
  /\ stack' = << <<low, j>>, <<j + 1, high>> >> \o Tail(stack)
  /\ pc' = "call"
  /\ UNCHANGED <<n, input, items, i, j, pivot>>

Next == Refuse \/ Sort \/ Return \/ Enter \/ ScanUp \/ ScanDown \/ Swap \/ Cut

Spec == Init /\ [][Next]_vars /\ WF_vars(Next)

-----------------------------------------------------------------------------
TypeOK ==
  /\ n \in 0 .. MaxLen
  /\ input \in [Cells -> Item] /\ items \in [Cells -> Item]
  /\ pc \in {"start", "refused", "call", "partition", "done"}
  /\ stack \in Seq(Int \X Int)
  /\ i \in Int /\ j \in Int /\ pivot \in Int

\* No item is lost or doubled.
Rearranged ==
  /\ \A p \in Cells : \E q \in Cells : items[q] = input[p]
  /\ \A p, q \in Cells : items[p] = items[q] => p = q

\* What waits is apart, in ascending order and never empty.
Ranges ==
  /\ \A r \in DOMAIN stack :
       0 <= stack[r][1] /\ stack[r][1] <= stack[r][2] /\ stack[r][2] < n
  /\ \A r, s \in DOMAIN stack : r < s => stack[r][2] < stack[s][1]
  /\ stack = <<>> <=> pc \in {"start", "refused", "done"}

Together(p, q) == \E r \in DOMAIN stack : stack[r][1] <= p /\ q <= stack[r][2]

\* Two items in the wrong order are still to be sorted by one call.
Settled ==
  pc \in {"call", "partition", "done"} =>
    \A p, q \in Cells : p < q => items[p].key <= items[q].key \/ Together(p, q)

\* Both scans have something to stop at, and the halves will both be smaller.
Partition ==
  pc = "partition" =>
    /\ low < high
    /\ i \in low .. high /\ j \in low .. high
    /\ \A p \in low .. i - 1 : items[p].key <= pivot
    /\ \A p \in j + 1 .. high : items[p].key >= pivot
    /\ \E p \in i .. high : items[p].key >= pivot
    /\ \E p \in low .. j : items[p].key <= pivot
    /\ j < high \/ (i <= Middle(low, high) /\ items[Middle(low, high)].key = pivot)

(***************************************************************************)
(* The scans of the partition never leave their range, whatever keys are   *)
(* equal; both halves are smaller than it; and what no pending call will   *)
(* sort is in its place.                                                   *)
(***************************************************************************)
QuickInv == TypeOK /\ Rearranged /\ Ranges /\ Settled /\ Partition

(***************************************************************************)
(* Quick sort comes to an end.                                             *)
(***************************************************************************)
Terminates == <>(pc \in {"refused", "done"})
=============================================================================
