-------------------------- MODULE MCFactoryHandoff --------------------------
(***************************************************************************)
(* Instances of FactoryHandoff for TLC.                                    *)
(***************************************************************************)
EXTENDS FactoryHandoff, TLC

CONSTANT MaxRows    \* bound on the handoff rows that are created

(* A target can be replaced, a case recalculated and a packet generated    *)
(* again under one approved current workflow.                              *)
MCMaxVersion == [k \in Kinds |-> IF k = "current" THEN 1 ELSE 2]

FewRows == Cardinality({x \in Rows : status[x] # "ABSENT"}) <= MaxRows

Symmetry ==
    Permutations(Models) \cup Permutations(Opportunities)
    \cup Permutations(Readinesses) \cup Permutations(Packages)
    \cup Permutations(Keys)
=============================================================================
