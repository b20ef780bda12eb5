------------------------ MODULE MC_ActionGovernance ------------------------
(* The small instances: one chair, requests coming in at the API process;  *)
(* they are interchangeable.                                                *)
EXTENDS ActionGovernance, TLC

CONSTANTS c1, c2

Alike == Permutations(Threads)

MCRoots == << "chair" >>
MCHome  == [th \in Threads |-> "api"]
============================================================================
