-------------------------- MODULE MCShadowCollector --------------------------
(* Instances of the Shadow collector for TLC. *)
EXTENDS ShadowCollector, TLC

RunSymmetry == Permutations(Run)

AnyPart == Part
TheFile == {4}
HeadAndFile == {1, 4}
=============================================================================
