------------------------------- MODULE MCHeap -------------------------------
EXTENDS Heap

\* Two items of one key tell which of them moves; the sizes allow repeats.
MCItem == [key : 1 .. 3, val : {"v"}] \cup [key : {2}, val : {"w"}]
=============================================================================
