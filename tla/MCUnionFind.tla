----------------------------- MODULE MCUnionFind -----------------------------
(***************************************************************************)
(* The three implementations in one run.  `impl` never changes: it says    *)
(* whose calls a behaviour has, and the variables of the others stay as    *)
(* they were.  Each property is about the variables of one of them.        *)
(***************************************************************************)
EXTENDS QuickFind, QuickUnion, WeightedQuickUnion

VARIABLE impl

\* One index past the end stands for every out-of-range argument.
MCIndex == 0 .. N

mcvars == <<qfvars, wvars, impl>>

MCInit == QFInit /\ WInit /\ impl \in {"qf", "qu", "wqupc"}

MCNext ==
  /\ impl' = impl
  /\ \/ impl = "qf" /\ QFNext /\ UNCHANGED wvars
     \/ impl = "qu" /\ Next /\ UNCHANGED <<size, qfvars>>
     \/ impl = "wqupc" /\ WNext /\ UNCHANGED qfvars

MCWork ==
  /\ impl' = impl
  /\ \/ impl = "qf" /\ QFWork /\ UNCHANGED wvars
     \/ impl = "qu" /\ Work /\ UNCHANGED <<size, qfvars>>
     \/ impl = "wqupc" /\ WWork /\ UNCHANGED qfvars

MCSpec == MCInit /\ [][MCNext]_mcvars /\ WF_mcvars(MCWork)

\* The weights belong to uf_wqupc.c alone.
Weights == (impl = "wqupc") => (SizeType /\ SizeInv)

FlatTrees == (impl = "wqupc") => LogDepth
=============================================================================
