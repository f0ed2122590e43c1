------------------------- MODULE ClassifiedDecision --------------------------
(***************************************************************************)
(* What classify_group can hand over.  An activation witness (hence sot    *)
(* and cur) exists only in an ACTIVE decision, whose value is KNOWN and    *)
(* which is therefore a plausible competitor; it is not strictly           *)
(* historical.  DEPRECATED decisions never compete.                        *)
(***************************************************************************)
BaseDecision ==
  {b \in [status : {"ACTIVE", "PENDING", "DEPRECATED"}, plausible : BOOLEAN,
          sot : BOOLEAN, cur : BOOLEAN, historical : BOOLEAN] :
     /\ b.status = "ACTIVE" => b.plausible /\ ~b.historical
     /\ b.status # "ACTIVE" => ~b.sot /\ ~b.cur
     /\ b.status = "DEPRECATED" => ~b.plausible}
=============================================================================
