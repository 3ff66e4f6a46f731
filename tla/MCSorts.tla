------------------------------- MODULE MCSorts -------------------------------
(***************************************************************************)
(* The five sorts on every array of up to MaxLen items: quick sort runs    *)
(* step by step, and what the others make of its input is computed.        *)
(***************************************************************************)
EXTENDS QuickSort, Sorts

Ascending(a) == \A p, q \in Cells : p < q => a[p].key <= a[q].key

Stable(a) ==
  \A p, q \in Cells : p < q /\ a[p].key = a[q].key => a[p].val < a[q].val

Permuted(a) == \A p \in Cells : \E q \in Cells : a[q] = input[p]

(***************************************************************************)
(* Every sort leaves the items it was given in ascending order of their    *)
(* keys, and insertion and merge sort keep items of equal keys in order.   *)
(***************************************************************************)
Sorts ==
  /\ pc = "done" => Permuted(items) /\ Ascending(items)
  /\ pc = "start" =>
       LET insertion == sort_insertion(input)
           shell == sort_shell(input)
           merged == sort_merge(input)
           heap == sort_heap(input)
       IN /\ \A a \in {insertion, shell, merged, heap} : Permuted(a) /\ Ascending(a)
          /\ Stable(insertion) /\ Stable(merged)
==============================================================================
