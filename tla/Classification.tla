--------------------------- MODULE Classification ---------------------------
(***************************************************************************)
(* The classification of one same-value group (reconcile/rules.py,         *)
(* classify_group): the lineage of the group, then the status of the fact  *)
(* and the activation witnesses it rests on, then the record of candidates *)
(* whose value is not known.  What it decides is the input of              *)
(* PredicateCoordinator.                                                   *)
(***************************************************************************)
EXTENDS SameValueLineage

VARIABLES
  status,     \* the status of the fact, "none" until it is classified
  method,     \* the rule recorded for it
  witnesses,  \* the activation witnesses it keeps
  review,     \* whether it asks for a human
  verdict     \* "open", "recorded", or "refused" with the whole input

decision == <<status, method, witnesses, review>>
cvars == <<vars, decision, verdict>>

ClassifyInit ==
  /\ Init
  /\ status = "none" /\ method = "none" /\ witnesses = {} /\ review = FALSE
  /\ verdict = "open"

Resolve == Next /\ UNCHANGED <<decision, verdict>>

Ready == stage = "answered" /\ status = "none"

\* Mutant: a replaced candidate is a witness too.
AllWitnesses == {c \in Candidate : PassesGates(claim[c])}

\* Activation witnesses that survive.  The gates do not ask whether a
\* candidate is retired as well.
LocalWitnesses == {c \in survivors : PassesGates(claim[c])}

ActiveApplies == LocalWitnesses # {} /\ outcome \notin {"DEPRECATED", "UNRESOLVED"}

DeprecatedApplies ==
  \/ outcome = "DEPRECATED"
  \/ outcome # "UNRESOLVED" /\ \E c \in survivors : IsRetired(c)

ClassifyActive ==
  /\ Ready /\ ActiveApplies
  /\ status' = "ACTIVE"
  /\ method' = IF outcome = "REACTIVATED" THEN "SAME_VALUE_REACTIVATION"
               ELSE IF Cardinality(Candidate) > 1 THEN "SAME_VALUE_MERGE"
               ELSE "DIRECT_CURRENT"
  /\ witnesses' = LocalWitnesses
  /\ review' = FALSE
  /\ UNCHANGED <<vars, verdict>>

AnyTemporalReview == outcome = "UNRESOLVED" \/ \E c \in Candidate : TemporalReview(claim[c])

ClassifyDeprecated ==
  /\ Ready /\ ~ActiveApplies /\ DeprecatedApplies
  /\ status' = "DEPRECATED"
  /\ method' = "EXPLICIT_DEPRECATION"
  /\ review' = AnyTemporalReview
  /\ UNCHANGED <<vars, witnesses, verdict>>

PendingMethod ==
  IF \E c \in Candidate : ~Eligible(claim[c]) THEN "TEMPORAL_PENDING"
  ELSE IF \E c \in Candidate : DeclaresCurrent(claim[c]) /\ claim[c].confidence = "low"
  THEN "INSUFFICIENT_EVIDENCE"
  ELSE "PENDING_SEMANTICS"

ClassifyPending ==
  /\ Ready /\ ~ActiveApplies /\ ~DeprecatedApplies
  /\ status' = "PENDING"
  /\ method' = PendingMethod
  /\ review' = (AnyTemporalReview \/ \E c \in Candidate : SemanticReview(claim[c]))
  /\ UNCHANGED <<vars, witnesses, verdict>>

NonKnown == {c \in Candidate : ~claim[c].valued}

\* A fact of a value that is not known must be PENDING, or the input is refused.
RecordUnresolved ==
  /\ status # "none" /\ verdict = "open"
  /\ verdict' = IF NonKnown # {} /\ status # "PENDING" THEN "refused" ELSE "recorded"
  /\ UNCHANGED <<vars, decision>>

ClassifyNext ==
  Resolve \/ ClassifyActive \/ ClassifyDeprecated \/ ClassifyPending \/ RecordUnresolved

ClassifySpec == ClassifyInit /\ [][ClassifyNext]_cvars

-----------------------------------------------------------------------------
(* Properties. *)

\* The types of the variables.
ClassifyTypeOK ==
  /\ TypeOK
  /\ status \in {"none", "ACTIVE", "PENDING", "DEPRECATED"}
  /\ method \in {"none", "SAME_VALUE_REACTIVATION", "SAME_VALUE_MERGE", "DIRECT_CURRENT",
                 "EXPLICIT_DEPRECATION", "TEMPORAL_PENDING", "INSUFFICIENT_EVIDENCE",
                 "PENDING_SEMANTICS"}
  /\ witnesses \subseteq Candidate /\ review \in BOOLEAN
  /\ verdict \in {"open", "recorded", "refused"}

\* A fact is current only on the word of candidates that are not replaced and
\* not retired, although the gates of a witness do not look at retirement,
\* and every retirement in the group is replaced by one of them.
ActiveIsWitnessed ==
  status = "ACTIVE" =>
    /\ witnesses # {} /\ witnesses \intersect superseded = {}
    /\ \A c \in witnesses : ActivationCapable(claim[c])
    /\ \A r \in Candidate : IsRetired(r) =>
         \E c \in witnesses : r \in Ancestors(Successors, c)

\* The sweep over two sorted lists, the flags along whichever topological order
\* the analysis returned, the two passes for the fork and the collection of
\* ancestors arrive at what the reachability of the candidates alone tells; the
\* constructor of SameValueLineage accepts it; and the status, its rule, its
\* witnesses and the call for a human are those of the one-step decision.
Reference == INSTANCE GroupDecision

ImplementsGroupDecision ==
  /\ stage # "rejected"
  /\ verdict # "open" =>
       LET lineage == Reference!LineageOf(claim, declared, Candidate)
       IN  /\ lineage = [outcome |-> outcome, survivors |-> survivors,
                         superseded |-> superseded, fork |-> fork]
           /\ Reference!DecisionOf(claim, Candidate, lineage)
                = [status |-> status, method |-> method, witnesses |-> witnesses,
                   review |-> review]

\* The assertion of _derive_unresolved_candidates: "non-known value candidates
\* must produce a PENDING fact".
NonKnownIsPending == NonKnown # {} /\ status # "none" => status = "PENDING"
=============================================================================
