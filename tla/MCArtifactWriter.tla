-------------------------- MODULE MCArtifactWriter --------------------------
(* Instances of the artifact writers for TLC. *)
EXTENDS ArtifactWriter

CONSTANTS r1, s1, d1, d2
=============================================================================
