-------------------------- MODULE LineageAnalysis --------------------------
(***************************************************************************)
(* What resolve_same_value_lineage relies on when it has a lineage graph   *)
(* analysed: one answer, the strongly connected components of the graph,   *)
(* with a topological order exactly when no candidate is on a cycle.       *)
(***************************************************************************)
EXTENDS CandidateGraph

VARIABLES
  successors,  \* the graph
  answered,    \* whether the analysis has been returned
  components,  \* the components it found
  order        \* the topological order, empty when there is a cycle

avars == <<successors, answered, components, order>>

Asked ==
  /\ successors \in Graphs
  /\ answered = FALSE
  /\ components = {}
  /\ order = <<>>

Answer ==
  /\ ~answered
  /\ answered' = TRUE
  /\ components' = StrongComponents(successors)
  /\ IF OnCycle(successors) = {} THEN IsTopological(successors, order') ELSE order' = <<>>
  /\ UNCHANGED successors

Spec == Asked /\ [][Answer]_avars
=============================================================================
