--------------------------- MODULE MCLineageGraph ---------------------------
(* Instances of the analysis of a lineage graph for TLC. *)
EXTENDS LineageGraph, TLC

AnyEdge == Candidate \X Candidate
NoLoop == {e \in Candidate \X Candidate : e[1] # e[2]}
CandidateSymmetry == Permutations(Candidate)
=============================================================================
