------------------------------- MODULE Claim --------------------------------
(***************************************************************************)
(* One candidate of a same-value group, as the rules of the State          *)
(* Reconciler read it: what it declares about itself, when it is valid,    *)
(* and the gates it passes alone (reconcile/rules.py and precedence.py).   *)
(*                                                                         *)
(* A field whose evidence is not KNOWN is "nonknown", or NoTime for a      *)
(* time.  Confidence is compared with the threshold of the policy, and the *)
(* observation time with the allowed clock skew, before a claim is made.   *)
(***************************************************************************)
EXTENDS Naturals

CONSTANTS
  NoTime,   \* stands for a time that is not known
  Now,      \* the instant of the reconciliation
  Override  \* policy.allow_explicit_source_of_truth_override

ASSUME ClockAssumption == Now \in Nat /\ NoTime \notin Nat /\ Override \in BOOLEAN

Time == Nat \union {NoTime}

Hints == {"CURRENT_FACT", "SOURCE_OF_TRUTH", "DEPRECATED", "HISTORICAL", "PLAN",
          "HYPOTHESIS", "nonknown"}
Sources == {"USER_EXPLICIT", "CURRENT_EVIDENCE", "HISTORICAL_MEMORY", "other"}

Claims ==
  [hint : Hints, source : Sources, instruction : {"true", "false", "nonknown"},
   deprecated : BOOLEAN, confidence : {"enough", "low", "nonknown"},
   valued : BOOLEAN, skewed : BOOLEAN, from : Time, until : Time]

Known(time) == time # NoTime

-----------------------------------------------------------------------------
(* The warnings of assess_temporal. *)

InvalidOrder(m) == Known(m.from) /\ Known(m.until) /\ m.until < m.from
FutureValidity(m) == Known(m.from) /\ m.from > Now
Expired(m) == Known(m.until) /\ m.until <= Now

Eligible(m) == ~InvalidOrder(m) /\ ~m.skewed /\ ~FutureValidity(m) /\ ~Expired(m)

-----------------------------------------------------------------------------
(* What the claim says of itself. *)

Instructed(m) == Override /\ m.source = "USER_EXPLICIT" /\ m.instruction = "true"

SourceOfTruth(m) == Instructed(m) /\ m.hint = "SOURCE_OF_TRUTH"
DirectEvidence(m) == m.source = "CURRENT_EVIDENCE" /\ m.hint = "CURRENT_FACT"
StrictHistorical(m) == m.source = "HISTORICAL_MEMORY" /\ m.hint = "HISTORICAL"

DeclaresCurrent(m) == m.hint = "CURRENT_FACT" \/ SourceOfTruth(m)
Retired(m) == m.deprecated \/ m.hint = "DEPRECATED"
Current(m) == DeclaresCurrent(m) /\ ~Retired(m)

PassesGates(m) == m.valued /\ DeclaresCurrent(m) /\ Eligible(m) /\ m.confidence = "enough"
ActivationCapable(m) == PassesGates(m) /\ ~Retired(m)

-----------------------------------------------------------------------------
(* Which of its warnings ask for a human. *)

TemporalReview(m) ==
  \/ InvalidOrder(m) \/ m.skewed
  \/ (FutureValidity(m) \/ Expired(m)) /\ m.hint \in {"CURRENT_FACT", "SOURCE_OF_TRUTH"}

SemanticReview(m) ==
  \/ (~m.valued \/ m.confidence = "nonknown") /\ DeclaresCurrent(m)
  \/ m.hint = "nonknown" /\ (m.source = "CURRENT_EVIDENCE" \/ Instructed(m))
  \/ /\ Override /\ m.source = "USER_EXPLICIT"
     /\ m.hint = "SOURCE_OF_TRUTH" /\ m.instruction = "nonknown"
=============================================================================
