------------------------------ MODULE MCLinear ------------------------------
EXTENDS Linear, TLC

\* Addresses and items are only ever compared for equality.
Names == Permutations(Node) \cup Permutations(Item)
=============================================================================
