-------------------------- MODULE MCRelationGraph ---------------------------
(***************************************************************************)
(* Six facts with the few declarations that reach the rejection by the     *)
(* constructor of PredicateOutcome: a cycle in1, in2, in3 that also        *)
(* replaces old, which the current fact cur1 replaces too, beside another  *)
(* current fact cur2.  A second way from in1 to in3 makes the search meet  *)
(* facts it has left.  Any subset of the declarations may be made.         *)
(***************************************************************************)
EXTENDS RelationGraph, MCPredicateCoordinator

CONSTANTS in1, in2, in3, old, cur1, cur2

CycleFacts == {in1, in2, in3, old, cur1, cur2}
CyclePairs ==
  {<<in1, in2>>, <<in2, in3>>, <<in3, in1>>, <<in1, in3>>, <<in1, old>>, <<cur1, old>>}
CycleKinds == {Project, Memory}

\* None of these facts is a source of truth: that part of the policy decides nothing.
CycleInit == GraphInit /\ ~policy.sot
CycleSpec == CycleInit /\ [][GraphNext]_gvars
=============================================================================
