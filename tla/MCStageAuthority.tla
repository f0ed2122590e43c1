-------------------------- MODULE MCStageAuthority --------------------------
(* Instances of the stage authority for TLC. *)
EXTENDS StageAuthority, TLC

CONSTANTS k1

\* One invocation after another, of two facts each.
TwoFacts == k1 :> {1, 2}
Addresses == 1..20
=============================================================================
