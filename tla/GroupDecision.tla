--------------------------- MODULE GroupDecision ----------------------------
(***************************************************************************)
(* What the candidates of one same-value group amount to, by reachability  *)
(* alone: the lineage of the group, the status of its fact and what the    *)
(* predicate coordinator reads of it.  SameValueLineage and Classification *)
(* are the algorithms of reconcile/rules.py that compute it; Reconcile     *)
(* uses it as one step.                                                    *)
(*                                                                         *)
(* A group is a set G of candidates with their claims m; D is the set of   *)
(* pairs <<successor, predecessor>> of their "supersedes" declarations.    *)
(***************************************************************************)
EXTENDS CandidateGraph, Claim

\* The activation d begins no earlier than the retirement c ends, and not after now.
Reinstates(m, d, c) ==
  /\ Retired(m[c]) /\ Known(m[c].until) /\ ~InvalidOrder(m[c])
  /\ ActivationCapable(m[d]) /\ Known(m[d].from)
  /\ m[c].until <= m[d].from /\ m[d].from <= Now

\* The graph of replacements: by declaration, or by reinstatement.
Replacements(m, D, G) ==
  [c \in Candidate |->
     IF c \in G THEN {d \in G : <<d, c>> \in D \/ (d # c /\ Reinstates(m, d, c))} ELSE {}]

Declarations(D, G) ==
  [c \in Candidate |-> IF c \in G THEN {d \in G : <<d, c>> \in D} ELSE {}]

Tips(graph, G) == {c \in G : graph[c] = {}}

\* The pairs of a candidate and one it leads to.
Reaches(graph, G) == UNION {{c} \X Descendants(graph, c) : c \in G}

\* The candidates on paths from a candidate that leads to both sides.
Forked(graph, G, left, right) ==
  LET reaches == {<<c, c>> : c \in G} \union Reaches(graph, G)
      lead(S) == {e[1] : e \in {p \in reaches : p[2] \in S}}
      forks == lead(left) \intersect lead(right)
  IN  {e[2] : e \in {p \in reaches : p[1] \in forks}} \intersect lead(left \union right)

LineageOf(m, D, G) ==
  LET graph == Replacements(m, D, G)
      tips == Tips(graph, G)
      current == {c \in tips : Current(m[c])}
      retired == {c \in tips : Retired(m[c])}
      neutral == tips \ (current \union retired)
      above == Reaches(graph, G)
      belowCurrent == {e[2] : e \in {p \in above : Current(m[p[1]])}}
      belowRetired == {e[2] : e \in {p \in above : Retired(m[p[1]])}}
      reactivating == current \intersect belowRetired
      unresolved(left, fork) ==
        [outcome |-> "UNRESOLVED", survivors |-> left, superseded |-> {}, fork |-> fork]
      settled(outcome, winners) ==
        [outcome |-> outcome, survivors |-> tips,
         superseded |-> {e[1] : e \in {p \in above : p[2] \in winners}}, fork |-> {}]
  IN
  IF \E c \in G : <<c, c>> \in D THEN unresolved(G, {})
  ELSE IF \E e \in above : e[1] = e[2] THEN unresolved({}, {})
  ELSE IF current # {} /\ retired # {}
    THEN unresolved(tips, Forked(Declarations(D, G), G, current, retired))
  ELSE IF \/ neutral \intersect (belowCurrent \union belowRetired) # {}
          \/ (\E c \in G : InvalidOrder(m[c])) /\ (current # {} \/ retired = {})
          \/ \E c \in reactivating : ~ActivationCapable(m[c])
    THEN unresolved(tips, {})
  ELSE IF current # {}
    THEN settled(IF reactivating # {} THEN "REACTIVATED" ELSE "CURRENT", current)
  ELSE IF retired # {} THEN settled("DEPRECATED", retired)
  ELSE settled("NEUTRAL", tips)

-----------------------------------------------------------------------------
(* The status of the fact. *)

Needed(m, G, lineage) ==
  lineage.outcome = "UNRESOLVED" \/ \E c \in G : TemporalReview(m[c])

PendingRule(m, G) ==
  IF \E c \in G : ~Eligible(m[c]) THEN "TEMPORAL_PENDING"
  ELSE IF \E c \in G : DeclaresCurrent(m[c]) /\ m[c].confidence = "low"
  THEN "INSUFFICIENT_EVIDENCE"
  ELSE "PENDING_SEMANTICS"

\* Mutant: a replaced candidate still activates.
DecisionOfAll(m, G, lineage) ==
  LET word == {c \in G : PassesGates(m[c])}
  IN
  IF word # {} /\ lineage.outcome \notin {"DEPRECATED", "UNRESOLVED"}
    THEN [status |-> "ACTIVE", witnesses |-> word, review |-> FALSE, method |-> "DIRECT_CURRENT"]
  ELSE [status |-> "PENDING", witnesses |-> {}, review |-> FALSE, method |-> PendingRule(m, G)]

DecisionOf(m, G, lineage) ==
  LET word == {c \in lineage.survivors : PassesGates(m[c])}
  IN
  IF word # {} /\ lineage.outcome \notin {"DEPRECATED", "UNRESOLVED"}
    THEN [status |-> "ACTIVE", witnesses |-> word, review |-> FALSE,
          method |-> IF lineage.outcome = "REACTIVATED" THEN "SAME_VALUE_REACTIVATION"
                     ELSE IF Cardinality(G) > 1 THEN "SAME_VALUE_MERGE" ELSE "DIRECT_CURRENT"]
  ELSE IF \/ lineage.outcome = "DEPRECATED"
          \/ lineage.outcome # "UNRESOLVED" /\ \E c \in lineage.survivors : Retired(m[c])
    THEN [status |-> "DEPRECATED", witnesses |-> {}, review |-> Needed(m, G, lineage),
          method |-> "EXPLICIT_DEPRECATION"]
  ELSE [status |-> "PENDING", witnesses |-> {}, method |-> PendingRule(m, G),
        review |-> Needed(m, G, lineage) \/ \E c \in G : SemanticReview(m[c])]

\* Mutant: a retired fact competes.
CompetesRetired(m, G, decision) == \A c \in G : m[c].valued

\* Whether a fact may be replaced by another of its predicate.
Competes(m, G, decision) ==
  /\ \A c \in G : m[c].valued
  /\ \/ decision.status = "ACTIVE"
     \/ /\ decision.status = "PENDING" /\ ~decision.review
        /\ \E c \in G : /\ StrictHistorical(m[c]) /\ m[c].confidence # "nonknown"
                        /\ ~Retired(m[c]) /\ Eligible(m[c])

\* What the predicate coordinator reads of a decision.
Handover(m, G, decision) ==
  [status |-> decision.status, plausible |-> Competes(m, G, decision),
   sot |-> \E c \in decision.witnesses : SourceOfTruth(m[c]),
   cur |-> \E c \in decision.witnesses : DirectEvidence(m[c]),
   historical |-> \A c \in G : StrictHistorical(m[c])]
=============================================================================
