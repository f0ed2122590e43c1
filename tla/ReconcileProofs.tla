-------------------------- MODULE ReconcileProofs ---------------------------
(***************************************************************************)
(* Proofs about one call of reconcile(), for any candidates, predicates,   *)
(* claims and references.                                                  *)
(***************************************************************************)
EXTENDS Reconcile, TLAPS

-----------------------------------------------------------------------------
(* The grouping of candidates. *)

\* A fact of a predicate is a fact, and of no other predicate.
LEMMA FactsAreDisjoint ==
  ASSUME NEW p \in Predicate, NEW f \in FactsOf[p]
  PROVE  /\ f \in Fact
         /\ \A q \in Predicate : f \in FactsOf[q] => q = p
  BY DEF FactsOf

\* The members of a fact are the candidates it is made from.
LEMMA MembersAreCandidates ==
  ASSUME NEW f \in Fact
  PROVE  /\ Members[f] \subseteq Candidate
         /\ \A c \in Members[f] : FactOf[c] = f
         /\ \E c \in Candidate : c \in Members[f]
  BY DEF Members, Fact

\* The claims and references of an input.
LEMMA InputFacts ==
  ASSUME NEW i \in Inputs
  PROVE  /\ i.claim \in [Candidate -> Claims]
         /\ \A c \in Candidate : i.claim[c].valued <=> About[c].value # Withheld
         /\ i.references \subseteq Candidate \X Candidate
  BY InputsAssumption

\* The value of a fact is known to all its candidates or to none.
LEMMA ValuedTogether ==
  ASSUME NEW f \in Fact, NEW c \in Members[f], NEW d \in Members[f],
         About[c].value # Withheld
  PROVE  About[d].value # Withheld
<1>1. FactOf[c] = f /\ FactOf[d] = f /\ c \in Candidate /\ d \in Candidate
  BY MembersAreCandidates
<1>2. FactOf[c] = <<About[c].predicate, <<"known", About[c].value>> >>
  BY <1>1 DEF FactOf
<1>3. ASSUME About[d].value = Withheld
      PROVE  FactOf[d] = <<About[d].predicate, <<"unresolved", d>> >>
  BY <1>1, <1>3 DEF FactOf
<1> QED
  BY <1>1, <1>2, <1>3

-----------------------------------------------------------------------------
(* The classification of one group. *)

LEMMA TipsAreMembers ==
  ASSUME NEW graph, NEW G
  PROVE  Tips(graph, G) \subseteq G
  BY DEF Tips

\* What a lineage says of those it leaves: they are of the group, and where it
\* is settled for a current or neutral end, nothing replaces them and none is
\* retired.
LEMMA SurvivorsOfLineage ==
  ASSUME NEW m, NEW D, NEW G \in SUBSET Candidate
  PROVE  /\ LineageOf(m, D, G).survivors \subseteq G
         /\ LineageOf(m, D, G).outcome \notin {"DEPRECATED", "UNRESOLVED"} =>
              \A c \in LineageOf(m, D, G).survivors :
                /\ ~Retired(m[c])
                /\ \A d \in G : <<d, c>> \notin D
<1> DEFINE graph == Replacements(m, D, G)
           tips == Tips(graph, G)
           current == {c \in tips : Current(m[c])}
           retired == {c \in tips : Retired(m[c])}
<1>1. tips \subseteq G
  BY TipsAreMembers
<1>2. ASSUME NEW c \in tips, NEW d \in G
      PROVE  <<d, c>> \notin D
  BY DEF Tips, Replacements
<1>3. LineageOf(m, D, G).survivors \in {G, {}, tips}
  BY DEF LineageOf
<1>4. ASSUME LineageOf(m, D, G).outcome \notin {"DEPRECATED", "UNRESOLVED"}
      PROVE  retired = {} /\ LineageOf(m, D, G).survivors = tips
  <2> HIDE DEF graph
  <2>1. ~(current # {} /\ retired # {})
    BY <1>4 DEF LineageOf, graph
  <2>2. ~(current = {} /\ retired # {})
    BY <1>4 DEF LineageOf, graph
  <2>3. LineageOf(m, D, G).survivors = tips
    BY <1>4 DEF LineageOf, graph
  <2> QED
    BY <2>1, <2>2, <2>3
<1> QED
  BY <1>1, <1>2, <1>3, <1>4

\* What a decision says of its group.
LEMMA DecisionOfGroup ==
  ASSUME NEW m, NEW G, NEW L, NEW own,
         own = DecisionOf(m, G, L), L.survivors \subseteq G
  PROVE  /\ own.status \in {"ACTIVE", "PENDING", "DEPRECATED"}
         /\ own.witnesses \subseteq G
         /\ own.status = "ACTIVE" =>
              /\ own.witnesses # {}
              /\ own.witnesses \subseteq L.survivors
              /\ \A c \in own.witnesses : PassesGates(m[c])
              /\ L.outcome \notin {"DEPRECATED", "UNRESOLVED"}
         /\ own.status # "ACTIVE" => own.witnesses = {}
<1> DEFINE word == {c \in L.survivors : PassesGates(m[c])}
           needed == Needed(m, G, L)
           pending == PendingRule(m, G)
           review == needed \/ \E c \in G : SemanticReview(m[c])
           method == IF L.outcome = "REACTIVATED" THEN "SAME_VALUE_REACTIVATION"
                     ELSE IF Cardinality(G) > 1 THEN "SAME_VALUE_MERGE" ELSE "DIRECT_CURRENT"
<1>1. CASE word # {} /\ L.outcome \notin {"DEPRECATED", "UNRESOLVED"}
  <2>1. own = [status |-> "ACTIVE", witnesses |-> word, review |-> FALSE, method |-> method]
    BY <1>1 DEF DecisionOf
  <2> HIDE DEF method
  <2> QED
    BY <1>1, <2>1
<1>2. CASE ~(word # {} /\ L.outcome \notin {"DEPRECATED", "UNRESOLVED"})
  <2>1. \/ own = [status |-> "DEPRECATED", witnesses |-> {}, review |-> needed,
                  method |-> "EXPLICIT_DEPRECATION"]
        \/ own = [status |-> "PENDING", witnesses |-> {}, method |-> pending, review |-> review]
    BY <1>2 DEF DecisionOf
  <2> HIDE DEF needed, pending, review
  <2> QED
    BY <2>1
<1> QED
  BY <1>1, <1>2

\* What the classification hands over is a decision the coordinator assumes.
LEMMA HandoverIsBase ==
  ASSUME NEW m \in [Candidate -> Claims], NEW D, NEW f \in Fact,
         \A c \in Candidate : m[c].valued <=> About[c].value # Withheld
  PROVE  /\ Classified(m, D, f).base \in BaseDecision
         /\ Classified(m, D, f).witnesses \subseteq Members[f]
         /\ Classified(m, D, f).base.sot => Override
         /\ Classified(m, D, f).witnesses # {} => Classified(m, D, f).base.status = "ACTIVE"
<1> DEFINE G == Members[f]
           L == LineageOf(m, D, G)
           own == DecisionOf(m, G, L)
           plausible == Competes(m, G, own)
           sot == \E c \in own.witnesses : SourceOfTruth(m[c])
           cur == \E c \in own.witnesses : DirectEvidence(m[c])
           historical == \A c \in G : StrictHistorical(m[c])
<1>1. G \subseteq Candidate /\ L.survivors \subseteq G
  BY MembersAreCandidates, SurvivorsOfLineage
<1>2. Classified(m, D, f) =
        [base |-> [status |-> own.status, plausible |-> plausible, sot |-> sot, cur |-> cur,
                   historical |-> historical],
         witnesses |-> own.witnesses]
  BY DEF Classified, Handover
<1>3. /\ own.status \in {"ACTIVE", "PENDING", "DEPRECATED"}
      /\ own.witnesses \subseteq G
      /\ own.status = "ACTIVE" => \E c \in own.witnesses : c \in G /\ PassesGates(m[c])
      /\ own.status # "ACTIVE" => own.witnesses = {}
  <2> HIDE DEF G, L
  <2> QED
    BY <1>1, DecisionOfGroup
<1>4. sot => Override
  BY DEF SourceOfTruth, Instructed
<1>5. own.status = "ACTIVE" => ~historical
  <2> SUFFICES ASSUME NEW c \in G, PassesGates(m[c])
               PROVE  ~StrictHistorical(m[c])
    BY <1>3
  <2> QED
    BY DEF PassesGates, DeclaresCurrent, SourceOfTruth, StrictHistorical
<1>6. own.status = "ACTIVE" => plausible
  <2> SUFFICES ASSUME own.status = "ACTIVE", NEW c \in G, PassesGates(m[c])
               PROVE  \A d \in G : m[d].valued
    BY <1>3 DEF Competes
  <2>1. About[c].value # Withheld
    BY <1>1 DEF PassesGates
  <2> QED
    BY <1>1, <2>1, ValuedTogether
<1>7. own.status = "DEPRECATED" => ~plausible
  BY DEF Competes
<1>8. plausible \in BOOLEAN
  BY DEF Competes
<1> HIDE DEF own, plausible, sot, cur, historical
<1>9. sot \in BOOLEAN /\ cur \in BOOLEAN /\ historical \in BOOLEAN
  BY DEF sot, cur, historical
<1>10. own.status # "ACTIVE" => ~sot /\ ~cur
  BY <1>3 DEF sot, cur
<1> QED
  BY <1>2, <1>3, <1>4, <1>5, <1>6, <1>7, <1>8, <1>9, <1>10 DEF BaseDecision

\* The candidate a current fact rests on.
LEMMA CurrentRestsOnCandidate ==
  ASSUME NEW m, NEW D, NEW f \in Fact, Classified(m, D, f).base.status = "ACTIVE"
  PROVE  \E c \in Members[f] : /\ ActivationCapable(m[c])
                               /\ \A d \in Members[f] : <<d, c>> \notin D
<1> DEFINE G == Members[f]
           L == LineageOf(m, D, G)
           own == DecisionOf(m, G, L)
<1>1. G \subseteq Candidate
  BY MembersAreCandidates
<1>2. /\ L.survivors \subseteq G
      /\ L.outcome \notin {"DEPRECATED", "UNRESOLVED"} =>
           \A c \in L.survivors : ~Retired(m[c]) /\ \A d \in G : <<d, c>> \notin D
  BY <1>1, SurvivorsOfLineage
<1>3. own.status = "ACTIVE"
  BY DEF Classified, Handover
<1> HIDE DEF G, L
<1>4. \E c \in L.survivors : PassesGates(m[c]) /\ L.outcome \notin {"DEPRECATED", "UNRESOLVED"}
  BY <1>2, <1>3, DecisionOfGroup
<1> QED
  BY <1>2, <1>4 DEF ActivationCapable, G


\* What is given up rests on a candidate that is retired.
LEMMA GivenUpIsRetired ==
  ASSUME NEW m, NEW D, NEW G \in SUBSET Candidate,
         DecisionOf(m, G, LineageOf(m, D, G)).status = "DEPRECATED"
  PROVE  \E c \in G : Retired(m[c])
<1> DEFINE L == LineageOf(m, D, G)
<1>1. L.survivors \subseteq G
  BY SurvivorsOfLineage
<1>2. CASE L.outcome = "DEPRECATED"
  <2>1. {c \in Tips(Replacements(m, D, G), G) : Retired(m[c])} # {}
    BY <1>2 DEF LineageOf
  <2> QED
    BY <2>1, TipsAreMembers
<1>3. CASE L.outcome # "DEPRECATED"
  <2>1. \E c \in L.survivors : Retired(m[c])
    <3> HIDE DEF L
    <3> QED
      BY <1>3 DEF DecisionOf, L
  <2> QED
    BY <1>1, <2>1
<1> QED
  BY <1>2, <1>3

\* A value that is not known has a fact of its own, which is never current, does
\* not compete, and is given up only if its candidate is retired.
LEMMA UnknownStandsAlone ==
  ASSUME NEW m \in [Candidate -> Claims], NEW D, NEW f \in Fact, NEW c \in Members[f],
         \A d \in Candidate : m[d].valued <=> About[d].value # Withheld,
         ~m[c].valued
  PROVE  LET b == Classified(m, D, f).base
         IN  /\ b.status \in {"PENDING", "DEPRECATED"} /\ ~b.plausible
             /\ b.status = "DEPRECATED" => Retired(m[c])
<1> DEFINE G == Members[f]
           L == LineageOf(m, D, G)
           own == DecisionOf(m, G, L)
<1>1. G \subseteq Candidate /\ FactOf[c] = f /\ \A d \in G : FactOf[d] = f
  BY MembersAreCandidates
<1>2. G = {c}
  <2> SUFFICES ASSUME NEW d \in G PROVE d = c
    OBVIOUS
  <2>1. f = <<About[c].predicate, <<"unresolved", c>> >>
    BY <1>1 DEF FactOf
  <2>2. CASE About[d].value = Withheld
    <3>1. f = <<About[d].predicate, <<"unresolved", d>> >>
      BY <1>1, <2>2 DEF FactOf
    <3> QED
      BY <2>1, <3>1
  <2>3. CASE About[d].value # Withheld
    <3>1. f = <<About[d].predicate, <<"known", About[d].value>> >>
      BY <1>1, <2>3 DEF FactOf
    <3> QED
      BY <2>1, <3>1
  <2> QED
    BY <2>2, <2>3
<1>3. /\ Classified(m, D, f).base.status = own.status
      /\ Classified(m, D, f).base.plausible = Competes(m, G, own)
  BY DEF Classified, Handover
<1>4. ~Competes(m, G, own)
  BY <1>2 DEF Competes
<1>5. own.status # "ACTIVE" /\ own.status \in {"ACTIVE", "PENDING", "DEPRECATED"}
  <2>1. L.survivors \subseteq G
    BY <1>1, SurvivorsOfLineage
  <2>2. \A d \in L.survivors : ~PassesGates(m[d])
    BY <1>2, <2>1 DEF PassesGates
  <2> HIDE DEF L, G
  <2>3. own.status = "ACTIVE" =>
          own.witnesses # {} /\ own.witnesses \subseteq L.survivors
          /\ \A d \in own.witnesses : PassesGates(m[d])
    BY <2>1, DecisionOfGroup
  <2>4. own.status \in {"ACTIVE", "PENDING", "DEPRECATED"}
    BY <2>1, DecisionOfGroup
  <2> QED
    BY <2>2, <2>3, <2>4
<1>6. own.status = "DEPRECATED" => Retired(m[c])
  BY <1>1, <1>2, GivenUpIsRetired
<1> HIDE DEF own, G, L
<1> QED
  BY <1>3, <1>4, <1>5, <1>6

-----------------------------------------------------------------------------
(* The coordinator at work. *)

\* What is proved of the coordinator, for the predicate at hand.  The relation
\* graph comes later in the call; its variables are as they are at the start.
Judge ==
  INSTANCE PredicateCoordinatorProofs WITH
    facts <- FactsOf[at], Bases <- BaseDecision, Declarable <- Fact \X Fact,
    check <- "none", relations <- {}, index <- <<>>, stack <- <<>>, gray <- {}, black <- {}

\* It is the coordinator of the call: the same rules on the same facts.
LEMMA JudgeIsCoordinator ==
  /\ Coordinator!Init <=> Judge!Init
  /\ Coordinator!TypeOK <=> Judge!TypeOK
  /\ Coordinator!Step <=> Judge!Step
  BY
  DEF Coordinator!Init, Judge!Init, Coordinator!TypeOK, Judge!TypeOK, Coordinator!Step,
      Judge!Step, Coordinator!Phases, Judge!Phases, Coordinator!Terminal, Judge!Terminal,
      Coordinator!Rejections, Judge!Rejections, Coordinator!Status, Judge!Status,
      Coordinator!Rules, Judge!Rules, Coordinator!ConflictRules, Judge!ConflictRules,
      Coordinator!Request, Judge!Request, Coordinator!BaseDecision, Judge!BaseDecision,
      Coordinator!ApplyExplicit, Judge!ApplyExplicit, Coordinator!ExplicitEdges,
      Judge!ExplicitEdges, Coordinator!DropMutual, Judge!DropMutual, Coordinator!Plausible,
      Judge!Plausible, Coordinator!ExplicitTargets, Judge!ExplicitTargets,
      Coordinator!ExplicitSources, Judge!ExplicitSources, Coordinator!MakeRequests,
      Judge!MakeRequests, Coordinator!Decided, Judge!Decided, Coordinator!inputs, Judge!inputs,
      Coordinator!Finalize, Judge!Finalize, Coordinator!Settled, Judge!Settled,
      Coordinator!AtMostOne, Judge!AtMostOne, Coordinator!WithStatus, Judge!WithStatus,
      Coordinator!Contradictory, Judge!Contradictory, Coordinator!Mutual, Judge!Mutual,
      Coordinator!RollBack, Judge!RollBack, Coordinator!Invalidated, Judge!Invalidated,
      Coordinator!Restored, Judge!Restored, Coordinator!RaiseConflicts, Judge!RaiseConflicts,
      Coordinator!ConflictRule, Judge!ConflictRule, Coordinator!AllPairs, Judge!AllPairs,
      Coordinator!ApplyWinnerRule, Judge!ApplyWinnerRule, Coordinator!ApplySourceOfTruth,
      Judge!ApplySourceOfTruth, Coordinator!ApplyCurrentEvidence, Judge!ApplyCurrentEvidence,
      Coordinator!NoWinner, Judge!NoWinner, Coordinator!Win, Judge!Win,
      Coordinator!SourceOfTruthApplies, Judge!SourceOfTruthApplies,
      Coordinator!SourceOfTruthGroups, Judge!SourceOfTruthGroups,
      Coordinator!SourceOfTruthCompetitors, Judge!SourceOfTruthCompetitors,
      Coordinator!CurrentEvidenceApplies, Judge!CurrentEvidenceApplies,
      Coordinator!CurrentGroups, Judge!CurrentGroups, Coordinator!Remaining, Judge!Remaining,
      Coordinator!Governed, Judge!Governed, Coordinator!Construct, Judge!Construct,
      Coordinator!OutcomeIsCanonical, Judge!OutcomeIsCanonical,
      Coordinator!CanonicalSupersedes, Judge!CanonicalSupersedes, Coordinator!Edges,
      Judge!Edges, Coordinator!Incoming, Judge!Incoming, Coordinator!Outgoing, Judge!Outgoing,
      Coordinator!Priority, Judge!Priority, Coordinator!PrimaryRulesHold,
      Judge!PrimaryRulesHold, Coordinator!RequestedBy, Judge!RequestedBy,
      Coordinator!WinnerRulesHold, Judge!WinnerRulesHold, Coordinator!ConflictsAreComplete,
      Judge!ConflictsAreComplete, Coordinator!Validate, Judge!Validate,
      Coordinator!GraphIsValid, Judge!GraphIsValid, Coordinator!Acyclic, Judge!Acyclic,
      Coordinator!StatusesMatchRelations, Judge!StatusesMatchRelations

\* What the coordinator assumes of the decisions it is given is so.
LEMMA JudgeAssumption == Judge!BasesAssumption
<1>1. BaseDecision \subseteq Judge!BaseDecision
  BY DEF BaseDecision, Judge!BaseDecision
<1> QED
  BY <1>1 DEF Judge!BasesAssumption

\* The step before the validation never ends in what the validation decides.
LEMMA NotYetValidated ==
  ASSUME Judge!Step, phase # "validate"
  PROVE  phase' \notin {"published", "rejected_invariant"} \/ phase' = phase
  BY
  DEF Judge!Step, Judge!ApplyExplicit, Judge!ApplyWinnerRule, Judge!ApplySourceOfTruth,
      Judge!ApplyCurrentEvidence, Judge!Win, Judge!NoWinner, Judge!Finalize, Judge!RollBack,
      Judge!RaiseConflicts, Judge!Construct, Judge!Validate

-----------------------------------------------------------------------------
(* The inductive invariant. *)

Statuses == {"ACTIVE", "SUPERSEDED", "CONFLICTED", "PENDING", "DEPRECATED"}

\* The input is as it was, and classified once.
InputOK ==
  /\ claim \in [Candidate -> Claims]
  /\ \A c \in Candidate : claim[c].valued <=> About[c].value # Withheld
  /\ classified = [f \in Fact |-> Classified(claim, references, f)]
  /\ policy \in [sot : {Override}, current : BOOLEAN]

\* The current facts that another declares replaced and that do not object.
Overruled(p) ==
  {f \in FactsOf[p] : /\ classified[f].base.status = "ACTIVE"
                      /\ \E g \in FactsOf[p] : <<g, f>> \in OneDirectional(p)}

\* Current facts that declare each other replaced in a cycle.
Cyclic(p) ==
  \E S \in (SUBSET {f \in Fact : classified[f].base.status = "ACTIVE"}) \ {{}} :
    \A f \in S : \E g \in S : <<g, f>> \in OneDirectional(p)

\* A decision changes the status of a fact in three ways only.
Sound(p, D) ==
  \A f \in FactsOf[p] :
    LET before == classified[f].base
        after == D[f].status
    IN  /\ after \in Statuses
        /\ after \in {"ACTIVE", "CONFLICTED"} => before.status = "ACTIVE"
        /\ after = "SUPERSEDED" => before.plausible
        /\ after \in {"PENDING", "DEPRECATED"} => after = before.status

\* What the constructor of an outcome lets through: a current fact is alone,
\* was not overruled, and every replacement comes from a current fact or from
\* one that is replaced itself.
Agreed(p, D, R) ==
  /\ \A f, g \in FactsOf[p] :
       D[f].status = "ACTIVE" /\ D[g].status \in {"ACTIVE", "CONFLICTED"} => f = g
  /\ \A f \in Overruled(p) : D[f].status # "ACTIVE"
  /\ \A r \in R : r.type = "SUPERSEDES" =>
       D[r.from].status = "ACTIVE" \/ \E q \in R : q.type = "SUPERSEDES" /\ q.to = r.from

\* The coordinator works on what it was given for the predicate at hand.
Given ==
  /\ base = [f \in FactsOf[at] |-> classified[f].base]
  /\ declared = Declared(at)
  /\ phase \notin {"published", "rejected_invariant"}

\* The coordinator has just been given a predicate.
Started ==
  /\ at \in Predicate /\ phase = "explicit"
  /\ decision = [f \in FactsOf[at] |-> [status |-> base[f].status, rule |-> "classified"]]
  /\ requests = {} /\ conflictIds = {}

CollectedFor(p) == {r \in collected : r.from \in FactsOf[p]}

\* A predicate waits, is with the coordinator, or has been decided; then its
\* graph is valid, unless current facts declare each other replaced in a cycle.
Progress(p) ==
  /\ at = p => p \notin left /\ Given /\ Judge!IInv
  /\ p \in left \/ at = p => CollectedFor(p) = {}
  /\ p \notin left /\ at # p =>
       /\ Sound(p, final) /\ Agreed(p, final, CollectedFor(p))
       /\ Assembled(p)!GraphIsValid \/ Cyclic(p)

Pipeline ==
  /\ stage \in {"coordinate", "assemble", "published", "refused"}
  /\ left \subseteq Predicate /\ at \in Predicate \union {NoPredicate}
  /\ \A r \in collected : r.from \in Fact /\ r.to \in Fact
  /\ stage \in {"assemble", "published"} => left = {} /\ at = NoPredicate

RInv == InputOK /\ Pipeline /\ \A p \in Predicate : Progress(p)

-----------------------------------------------------------------------------
(* What the input says of the facts of one predicate. *)

\* The classified decision of a fact, and what its witnesses mean.
LEMMA ClassifiedFacts ==
  ASSUME InputOK, NEW f \in Fact
  PROVE  /\ classified[f].base \in BaseDecision
         /\ classified[f].witnesses \subseteq Members[f]
         /\ classified[f].base.sot => policy.sot
         /\ classified[f].witnesses # {} => classified[f].base.status = "ACTIVE"
<1>1. classified[f] = Classified(claim, references, f)
  BY DEF InputOK
<1>2. policy.sot = Override
  BY DEF InputOK
<1> QED
  BY <1>1, <1>2, HandoverIsBase DEF InputOK

\* Only current facts declare another replaced.
LEMMA DeclaredFacts ==
  ASSUME InputOK, NEW p \in Predicate, NEW e \in Declared(p)
  PROVE  /\ e \in FactsOf[p] \X FactsOf[p] /\ e = <<e[1], e[2]>> /\ e[1] # e[2]
         /\ classified[e[1]].base.status = "ACTIVE"
<1>1. e \in FactsOf[p] \X FactsOf[p] /\ e[1] # e[2] /\ classified[e[1]].witnesses # {}
  BY DEF Declared
<1>2. e[1] \in Fact
  BY <1>1, FactsAreDisjoint
<1> QED
  BY <1>1, <1>2, ClassifiedFacts

\* Nothing that is said of the input changes while it does not.
LEMMA InputFixed ==
  ASSUME claim' = claim, references' = references, classified' = classified
  PROVE  \A p \in Predicate : /\ Declared(p)' = Declared(p) /\ Overruled(p)' = Overruled(p)
                              /\ Cyclic(p)' <=> Cyclic(p)
  BY DEF Declared, Overruled, OneDirectional, Cyclic

LEMMA InputOKFixed == InputOK /\ UNCHANGED input => InputOK'
  BY DEF InputOK, input

-----------------------------------------------------------------------------
(* What the coordinator concludes for the predicate at hand. *)

\* It starts in a state its rules are specified for.
LEMMA StartsWell == InputOK /\ Given /\ Started => Judge!Init /\ Judge!IInv
<1> SUFFICES ASSUME InputOK, Given, Started PROVE Judge!Init
  BY JudgeAssumption, Judge!InitEstablishes
<1> USE DEF Started
<1>1. \A f \in FactsOf[at] : /\ f \in Fact /\ base[f] = classified[f].base
                             /\ classified[f].base \in BaseDecision
                             /\ classified[f].base.sot => policy.sot
  BY ClassifiedFacts, FactsAreDisjoint DEF Given
<1>2. base \in [FactsOf[at] -> BaseDecision]
  BY <1>1 DEF Given
<1>3. policy \in [sot : BOOLEAN, current : BOOLEAN]
  BY ClockAssumption DEF InputOK
<1>4. \A e \in declared : /\ e \in FactsOf[at] \X FactsOf[at] /\ e[1] # e[2]
                          /\ base[e[1]].status = "ACTIVE"
  <2>1. \A e \in Declared(at) : /\ e \in FactsOf[at] \X FactsOf[at] /\ e[1] # e[2]
                                /\ classified[e[1]].base.status = "ACTIVE"
    BY DeclaredFacts
  <2> QED
    BY <1>1, <2>1 DEF Given
<1>5. declared \in SUBSET {e \in (Fact \X Fact) \intersect (FactsOf[at] \X FactsOf[at]) :
                             e[1] # e[2] /\ base[e[1]].status = "ACTIVE"}
  BY <1>1, <1>4
<1>6. FactsOf[at] \in Payloads
  BY DEF Payloads
<1> QED
  BY <1>1, <1>2, <1>3, <1>5, <1>6 DEF Judge!Init

\* The judge reads what was classified of the facts of the predicate.
LEMMA JudgeReads ==
  ASSUME InputOK, at \in Predicate, Given, Judge!IInv
  PROVE  /\ \A f \in FactsOf[at] : f \in Fact /\ base[f] = classified[f].base
         /\ decision \in [FactsOf[at] -> [status : Statuses,
                            rule : Judge!Rules \union Judge!ConflictRules \union {"classified"}]]
         /\ \A r \in requests : r.from \in FactsOf[at] /\ r.to \in FactsOf[at]
         /\ Judge!TypeOK /\ Judge!InputsOK
         /\ Judge!BaseActive \subseteq {f \in Fact : classified[f].base.status = "ACTIVE"}
         /\ Judge!ExplicitEdges \subseteq OneDirectional(at)
         /\ Overruled(at) \subseteq Judge!ExplicitTargets
<1>1. Judge!TypeOK /\ Judge!InputsOK
  BY DEF Judge!IInv
<1>2. \A f \in FactsOf[at] : f \in Fact /\ base[f] = classified[f].base
  BY FactsAreDisjoint DEF Given
<1>3. decision \in [FactsOf[at] -> [status : Statuses,
         rule : Judge!Rules \union Judge!ConflictRules \union {"classified"}]]
  BY <1>1 DEF Judge!TypeOK, Judge!Status, Statuses
<1>4. \A r \in requests : r.from \in FactsOf[at] /\ r.to \in FactsOf[at]
  BY <1>1 DEF Judge!TypeOK, Judge!Request
<1>5. Judge!BaseActive \subseteq {f \in Fact : classified[f].base.status = "ACTIVE"}
  BY <1>2 DEF Judge!BaseActive
<1>6. Judge!DropMutual(declared) = OneDirectional(at)
  BY DEF Judge!DropMutual, OneDirectional, Given
<1>7. Judge!ExplicitEdges \subseteq OneDirectional(at)
  BY <1>6 DEF Judge!ExplicitEdges
<1>8. ASSUME NEW f \in Overruled(at)
      PROVE  f \in Judge!ExplicitTargets
  <2>1. PICK g \in FactsOf[at] : <<g, f>> \in OneDirectional(at)
    BY DEF Overruled
  <2>2. f \in FactsOf[at] /\ classified[f].base.status = "ACTIVE"
    BY DEF Overruled
  <2>3. base[f].plausible
    BY <1>2, <2>2, ClassifiedFacts DEF BaseDecision
  <2>4. <<g, f>> \in Judge!ExplicitEdges
    BY <1>6, <2>1, <2>3 DEF Judge!ExplicitEdges, Judge!Plausible
  <2> QED
    BY <2>4 DEF Judge!ExplicitTargets
<1> QED
  BY <1>1, <1>2, <1>3, <1>4, <1>5, <1>7, <1>8

\* A cycle of declarations is one of current facts.
LEMMA CycleIsOfCurrent ==
  ASSUME InputOK, at \in Predicate, Given, Judge!IInv, ~Judge!Acyclic(Judge!ExplicitEdges)
  PROVE  Cyclic(at)
<1>1. Judge!TypeOK /\ Judge!InputsOK
  BY JudgeReads
<1>2. PICK S \in (SUBSET Judge!BaseActive) \ {{}} :
        \A x \in S : \E y \in S : <<y, x>> \in Judge!ExplicitEdges
  BY <1>1, JudgeAssumption, Judge!CurrentFactsOnACycle
<1> QED
  BY <1>2, JudgeReads DEF Cyclic

\* A predicate that has been decided is soundly decided.
LEMMA DecidedIsSound ==
  ASSUME InputOK, at \in Predicate, Given, Judge!IInv
  PROVE  Sound(at, decision)
<1>1. Judge!NeverPromoted
  BY DEF Judge!IInv
<1> QED
  BY <1>1, JudgeReads DEF Judge!NeverPromoted, Judge!Plausible, Sound, Statuses

LEMMA DecidedIsAgreed ==
  ASSUME InputOK, at \in Predicate, Given, Judge!IInv, phase = "validate"
  PROVE  Agreed(at, decision, requests)
<1>1. Judge!OutcomeIsCanonical /\ Judge!Concluded
  BY DEF Judge!IInv, Judge!Resolved
<1>2. \A f, g \in FactsOf[at] :
        decision[f].status = "ACTIVE" /\ decision[g].status = "ACTIVE" => f = g
  BY <1>1 DEF Judge!OutcomeIsCanonical, Judge!WinnerRulesHold, Judge!AtMostOne, Judge!WithStatus
<1>3. \A f, g \in FactsOf[at] :
        ~(decision[f].status = "ACTIVE" /\ decision[g].status = "CONFLICTED")
  BY <1>1 DEF Judge!OutcomeIsCanonical, Judge!ConflictsAreComplete, Judge!WithStatus
<1>4. \A f \in Overruled(at) : decision[f].status # "ACTIVE"
  <2>1. Judge!TypeOK /\ Judge!InputsOK
    BY JudgeReads
  <2>2. \A f \in Judge!ExplicitTargets : decision[f].status # "ACTIVE"
    BY <1>1, <2>1, JudgeAssumption, Judge!ReplacedIsNotCurrent
  <2> QED
    BY <2>2, JudgeReads
<1>5. \A r \in requests : r.type = "SUPERSEDES" =>
        decision[r.from].status = "ACTIVE" \/ \E q \in requests : q.type = "SUPERSEDES" /\ q.to = r.from
  BY <1>1 DEF Judge!OutcomeIsCanonical, Judge!Incoming, Judge!Edges
<1> QED
  BY <1>2, <1>3, <1>4, <1>5 DEF Agreed

-----------------------------------------------------------------------------
(* The relation graph of one predicate. *)

\* It is what it was while the requests and decisions of the predicate are.
LEMMA GraphKept ==
  ASSUME NEW p \in Predicate, CollectedFor(p)' = CollectedFor(p),
         \A f \in FactsOf[p] : final'[f] = final[f]
  PROVE  Assembled(p)!GraphIsValid' <=> Assembled(p)!GraphIsValid
<1>1. [f \in FactsOf[p] |-> final'[f]] = [f \in FactsOf[p] |-> final[f]]
  OBVIOUS
<1>2. \A type : Assembled(p)!Edges(type)' = Assembled(p)!Edges(type)
  BY DEF Assembled!Edges, CollectedFor
<1>3. \A status : Assembled(p)!WithStatus(status)' = Assembled(p)!WithStatus(status)
  BY DEF Assembled!WithStatus
<1>4. /\ Assembled(p)!Incoming' = Assembled(p)!Incoming
      /\ Assembled(p)!Outgoing' = Assembled(p)!Outgoing
  BY <1>2 DEF Assembled!Incoming, Assembled!Outgoing
<1>5. Assembled(p)!Acyclic(Assembled(p)!Edges("SUPERSEDES"))'
        <=> Assembled(p)!Acyclic(Assembled(p)!Edges("SUPERSEDES"))
  BY <1>2 DEF Assembled!Acyclic
<1>6. Assembled(p)!StatusesMatchRelations' <=> Assembled(p)!StatusesMatchRelations
  BY <1>2, <1>3, <1>4 DEF Assembled!StatusesMatchRelations
<1>7. Assembled(p)!ConflictsAreComplete' <=> Assembled(p)!ConflictsAreComplete
  BY <1>1, <1>2, <1>3 DEF Assembled!ConflictsAreComplete, Assembled!Decided, CollectedFor
<1> QED
  BY <1>5, <1>6, <1>7 DEF Assembled!GraphIsValid

\* What is collected of a predicate is the graph the coordinator left.
LEMMA GraphCollected ==
  ASSUME NEW p \in Predicate, at = p, DOMAIN decision = FactsOf[p],
         decision = [f \in DOMAIN decision |-> decision[f]],
         CollectedFor(p)' = requests, \A f \in FactsOf[p] : final'[f] = decision[f]
  PROVE  Assembled(p)!GraphIsValid' <=> Judge!GraphIsValid
<1>1. [f \in FactsOf[p] |-> final'[f]] = decision
  OBVIOUS
<1>2. \A type : Assembled(p)!Edges(type)' = Judge!Edges(type)
  BY DEF Assembled!Edges, Judge!Edges, CollectedFor
<1>3. \A status : Assembled(p)!WithStatus(status)' = Judge!WithStatus(status)
  BY DEF Assembled!WithStatus, Judge!WithStatus
<1>4. /\ Assembled(p)!Incoming' = Judge!Incoming
      /\ Assembled(p)!Outgoing' = Judge!Outgoing
  BY <1>2 DEF Assembled!Incoming, Assembled!Outgoing, Judge!Incoming, Judge!Outgoing
<1>5. Assembled(p)!Acyclic(Assembled(p)!Edges("SUPERSEDES"))'
        <=> Judge!Acyclic(Judge!Edges("SUPERSEDES"))
  BY <1>2 DEF Assembled!Acyclic, Judge!Acyclic
<1>6. Assembled(p)!StatusesMatchRelations' <=> Judge!StatusesMatchRelations
  BY <1>2, <1>3, <1>4 DEF Assembled!StatusesMatchRelations, Judge!StatusesMatchRelations
<1>7. Assembled(p)!ConflictsAreComplete' <=> Judge!ConflictsAreComplete
  BY <1>1, <1>2, <1>3
  DEF Assembled!ConflictsAreComplete, Assembled!Decided, Assembled!ConflictRules,
      Assembled!AllPairs, Judge!ConflictsAreComplete, Judge!Decided, Judge!ConflictRules,
      Judge!AllPairs, CollectedFor
<1> QED
  BY <1>5, <1>6, <1>7 DEF Assembled!GraphIsValid, Judge!GraphIsValid

-----------------------------------------------------------------------------
(* The steps of the pipeline. *)

\* What has been decided of a predicate, while the result is not added to.
LEMMA DecidedKept ==
  ASSUME NEW p \in Predicate, UNCHANGED <<claim, references, classified>>,
         CollectedFor(p)' = CollectedFor(p), \A f \in FactsOf[p] : final'[f] = final[f],
         Sound(p, final) /\ Agreed(p, final, CollectedFor(p)),
         Assembled(p)!GraphIsValid \/ Cyclic(p)
  PROVE  /\ Sound(p, final)' /\ Agreed(p, final, CollectedFor(p))'
         /\ Assembled(p)!GraphIsValid' \/ Cyclic(p)'
<1>1. /\ Overruled(p)' = Overruled(p) /\ Overruled(p) \subseteq FactsOf[p]
      /\ Cyclic(p)' <=> Cyclic(p)
  BY InputFixed DEF Overruled
<1>2. \A r \in CollectedFor(p) : r.from \in FactsOf[p]
  BY DEF CollectedFor
<1>3. Sound(p, final)'
  BY DEF Sound
<1>4. Agreed(p, final, CollectedFor(p))'
  BY <1>1, <1>2 DEF Agreed
<1> QED
  BY <1>1, <1>3, <1>4, GraphKept

\* What the coordinator has is kept while nothing of it changes.
LEMMA CoordinatedKept ==
  ASSUME at \in Predicate, Given /\ Judge!IInv, UNCHANGED <<input, at, coordinating>>
  PROVE  (Given /\ Judge!IInv)'
<1>1. Declared(at)' = Declared(at)
  BY DEF Declared, input
<1>2. Given'
  BY <1>1 DEF Given, input, coordinating
<1>3. UNCHANGED Judge!vars
  BY DEF Judge!vars, input, coordinating
<1> QED
  BY <1>2, <1>3, JudgeAssumption, Judge!StutterPreserves

\* A step that moves the stage only.
LEMMA ProgressKept ==
  ASSUME NEW p \in Predicate, Progress(p), UNCHANGED <<input, left, at, coordinating, result>>
  PROVE  Progress(p)'
<1>1. UNCHANGED <<claim, references, classified, final, collected, left, at>>
  BY DEF input, result
<1>2. CollectedFor(p)' = CollectedFor(p)
  BY <1>1 DEF CollectedFor
<1>3. CASE at = p
  <2>1. (Given /\ Judge!IInv)'
    BY <1>3, CoordinatedKept DEF Progress
  <2> QED
    BY <1>1, <1>2, <1>3, <2>1 DEF Progress
<1>4. CASE at # p /\ p \notin left
  <2>1. /\ Sound(p, final)' /\ Agreed(p, final, CollectedFor(p))'
        /\ Assembled(p)!GraphIsValid' \/ Cyclic(p)'
    BY <1>1, <1>2, <1>4, DecidedKept DEF Progress
  <2> QED
    BY <1>1, <1>4, <2>1 DEF Progress
<1>5. CASE at # p /\ p \in left
  BY <1>1, <1>2, <1>5 DEF Progress
<1> QED
  BY <1>3, <1>4, <1>5

LEMMA InitEstablishes == Init => RInv
<1> SUFFICES ASSUME Init PROVE RInv
  OBVIOUS
<1>1. InputOK
  <2>1. PICK i \in Inputs :
          /\ claim = i.claim /\ references = i.references
          /\ classified = [f \in Fact |-> Classified(i.claim, i.references, f)]
    BY DEF Init
  <2>2. policy \in [sot : {Override}, current : BOOLEAN]
    BY DEF Init
  <2> QED
    BY <2>1, <2>2, InputFacts DEF InputOK
<1>2. Pipeline
  BY DEF Init, Pipeline
<1>3. ASSUME NEW p \in Predicate
      PROVE  Progress(p)
  BY NoPredicateAssumption DEF Init, Progress, CollectedFor
<1> QED
  BY <1>1, <1>2, <1>3 DEF RInv

LEMMA BeginKeeps ==
  ASSUME RInv, NEW q \in Predicate, Begin(q)
  PROVE  RInv'
<1>1. /\ stage = "coordinate" /\ at = NoPredicate /\ q \in left
      /\ at' = q /\ left' = left \ {q} /\ phase' = "explicit"
      /\ base' = [f \in FactsOf[q] |-> classified[f].base]
      /\ declared' = Declared(q) /\ requests' = {} /\ conflictIds' = {}
      /\ decision' = [f \in FactsOf[q] |-> [status |-> base'[f].status, rule |-> "classified"]]
      /\ UNCHANGED <<claim, references, policy, classified, stage, final, collected>>
  BY DEF Begin, input, result
<1>2. InputOK /\ Pipeline /\ \A p \in Predicate : Progress(p)
  BY DEF RInv
<1>3. InputOK'
  BY <1>1, <1>2, InputOKFixed DEF input
<1>4. Pipeline'
  BY <1>1, <1>2 DEF Pipeline
<1>5. Given'
  <2>1. Declared(q)' = Declared(q)
    BY <1>1, InputFixed
  <2>2. Declared(at)' = Declared(q)'
    BY <1>1 DEF Declared
  <2> QED
    BY <1>1, <2>1, <2>2 DEF Given
<1>6. Judge!IInv'
  <2>1. Started'
    BY <1>1 DEF Started
  <2> QED
    BY <1>3, <1>5, <2>1, StartsWell, PTL
<1>7. ASSUME NEW p \in Predicate
      PROVE  Progress(p)'
  <2>1. CollectedFor(p)' = CollectedFor(p)
    BY <1>1 DEF CollectedFor
  <2>2. CASE p = q
    BY <1>1, <1>2, <1>5, <1>6, <2>1, <2>2 DEF Progress
  <2>3. CASE p # q /\ p \in left
    BY <1>1, <1>2, <2>1, <2>3 DEF Progress
  <2>4. CASE p # q /\ p \notin left
    <3>1. /\ Sound(p, final)' /\ Agreed(p, final, CollectedFor(p))'
          /\ Assembled(p)!GraphIsValid' \/ Cyclic(p)'
      BY <1>1, <1>2, <2>1, <2>4, DecidedKept, NoPredicateAssumption DEF Progress
    <3> QED
      BY <1>1, <2>4, <3>1 DEF Progress
  <2> QED
    BY <2>2, <2>3, <2>4
<1> QED
  BY <1>3, <1>4, <1>7 DEF RInv

LEMMA CoordinateKeeps ==
  ASSUME RInv, Coordinate
  PROVE  RInv'
<1>1. /\ stage = "coordinate" /\ at # NoPredicate /\ phase # "validate"
      /\ UNCHANGED <<claim, references, classified, stage, left, at, final, collected>>
      /\ Judge!Step
  BY JudgeIsCoordinator DEF Coordinate, result
<1>2. InputOK /\ Pipeline /\ \A p \in Predicate : Progress(p)
  BY DEF RInv
<1>3. at \in Predicate /\ Given /\ Judge!IInv
  BY <1>1, <1>2 DEF Pipeline, Progress
<1>4. /\ Judge!IInv'
      /\ UNCHANGED <<base, declared, policy>>
  <2>1. [Judge!Next]_(Judge!vars)
    BY <1>1 DEF Judge!Next
  <2>2. UNCHANGED Judge!inputs
    BY <2>1, JudgeAssumption, Judge!StepKeepsInputs
  <2> QED
    BY <1>3, <2>1, <2>2, JudgeAssumption, Judge!NextPreserves DEF Judge!inputs
<1>5. InputOK' /\ Pipeline'
  BY <1>1, <1>2, <1>4 DEF InputOK, Pipeline
<1>6. Given'
  <2>1. Declared(at)' = Declared(at)
    BY <1>1 DEF Declared
  <2>2. phase' \notin {"published", "rejected_invariant"}
    BY <1>1, <1>3, NotYetValidated DEF Given
  <2> QED
    BY <1>1, <1>3, <1>4, <2>1, <2>2 DEF Given
<1>7. ASSUME NEW p \in Predicate
      PROVE  Progress(p)'
  <2>1. CollectedFor(p)' = CollectedFor(p)
    BY <1>1 DEF CollectedFor
  <2>2. CASE at = p
    BY <1>1, <1>2, <1>4, <1>6, <2>1, <2>2 DEF Progress
  <2>3. CASE at # p /\ p \in left
    BY <1>1, <1>2, <2>1, <2>3 DEF Progress
  <2>4. CASE at # p /\ p \notin left
    <3>1. /\ Sound(p, final)' /\ Agreed(p, final, CollectedFor(p))'
          /\ Assembled(p)!GraphIsValid' \/ Cyclic(p)'
      BY <1>1, <1>2, <2>1, <2>4, DecidedKept DEF Progress
    <3> QED
      BY <1>1, <2>4, <3>1 DEF Progress
  <2> QED
    BY <2>2, <2>3, <2>4
<1> QED
  BY <1>5, <1>7 DEF RInv

LEMMA StageKeeps ==
  ASSUME RInv, UNCHANGED <<input, left, at, coordinating, result>>,
         stage' \in {"coordinate", "assemble", "published", "refused"},
         stage' \in {"assemble", "published"} => left = {} /\ at = NoPredicate
  PROVE  RInv'
<1>1. InputOK'
  BY InputOKFixed DEF RInv
<1>2. Pipeline'
  BY DEF RInv, Pipeline, result
<1> QED
  BY <1>1, <1>2, ProgressKept DEF RInv

LEMMA CollectKeeps ==
  ASSUME RInv, Collect
  PROVE  RInv'
<1>1. CASE phase = "rejected_input"
  <2>1. UNCHANGED <<input, left, at, coordinating, result>> /\ stage' = "refused"
    BY <1>1 DEF Collect, Refuse
  <2> QED
    BY <2>1, StageKeeps
<1>2. CASE phase # "rejected_input"
  <2>1. InputOK /\ Pipeline /\ \A p \in Predicate : Progress(p)
    BY DEF RInv
  <2>2. PICK q \in Predicate : at = q
    BY <2>1 DEF Pipeline, Collect
  <2>3. /\ phase = "validate" /\ at' = NoPredicate /\ stage = "coordinate"
        /\ final' = [f \in Fact |-> IF f \in DOMAIN decision THEN decision[f] ELSE final[f]]
        /\ collected' = collected \union requests
        /\ UNCHANGED <<claim, references, classified, policy, stage, left>>
    BY <1>2 DEF Collect, input
  <2>4. q \notin left /\ Given /\ Judge!IInv /\ CollectedFor(q) = {}
    BY <2>1, <2>2 DEF Progress
  <2>5. /\ DOMAIN decision = FactsOf[q] /\ decision = [f \in DOMAIN decision |-> decision[f]]
        /\ \A r \in requests : r.from \in FactsOf[q] /\ r.to \in FactsOf[q]
    BY <2>1, <2>2, <2>4, JudgeReads
  <2>6. InputOK'
    BY <2>1, <2>3, InputOKFixed DEF input
  <2>7. Pipeline'
    BY <2>1, <2>3, <2>5, FactsAreDisjoint DEF Pipeline
  <2>8. ASSUME NEW p \in Predicate, p # q
        PROVE  Progress(p)'
    <3>1. \A f \in FactsOf[p] : final'[f] = final[f]
      BY <2>3, <2>5, <2>8, FactsAreDisjoint
    <3>2. CollectedFor(p)' = CollectedFor(p)
      BY <2>3, <2>5, <2>8, FactsAreDisjoint DEF CollectedFor
    <3>3. CASE p \in left
      BY <2>1, <2>2, <2>3, <2>8, <3>2, <3>3, NoPredicateAssumption DEF Progress
    <3>4. CASE p \notin left
      <4>1. /\ Sound(p, final)' /\ Agreed(p, final, CollectedFor(p))'
            /\ Assembled(p)!GraphIsValid' \/ Cyclic(p)'
        BY <2>1, <2>2, <2>3, <2>8, <3>1, <3>2, <3>4, DecidedKept DEF Progress
      <4> QED
        BY <2>3, <3>4, <4>1, NoPredicateAssumption DEF Progress
    <3> QED
      BY <3>3, <3>4
  <2>9. Progress(q)'
    <3>1. \A f \in FactsOf[q] : final'[f] = decision[f]
      BY <2>3, <2>5, FactsAreDisjoint
    <3>2. CollectedFor(q)' = requests
      BY <2>3, <2>4, <2>5 DEF CollectedFor
    <3>3. /\ Overruled(q)' = Overruled(q) /\ Overruled(q) \subseteq FactsOf[q]
          /\ Cyclic(q)' <=> Cyclic(q)
      BY <2>3, InputFixed DEF Overruled
    <3>4. Sound(q, final)'
      <4>1. Sound(q, decision)
        BY <2>1, <2>2, <2>4, DecidedIsSound
      <4> QED
        BY <2>3, <3>1, <4>1 DEF Sound
    <3>5. Agreed(q, final, CollectedFor(q))'
      <4>1. Agreed(q, decision, requests)
        BY <2>1, <2>2, <2>3, <2>4, DecidedIsAgreed
      <4> QED
        BY <2>5, <3>1, <3>2, <3>3, <4>1 DEF Agreed
    <3>6. Assembled(q)!GraphIsValid' \/ Cyclic(q)'
      <4>1. CASE Judge!Acyclic(Judge!ExplicitEdges)
        <5>1. Judge!TypeOK /\ Judge!InputsOK /\ Judge!Concluded
          BY <2>3, <2>4 DEF Judge!IInv, Judge!Resolved
        <5>2. Judge!GraphIsValid
          BY <4>1, <5>1, JudgeAssumption, Judge!ConcludedPasses
        <5> QED
          BY <2>2, <2>5, <3>1, <3>2, <5>2, GraphCollected
      <4>2. CASE ~Judge!Acyclic(Judge!ExplicitEdges)
        <5>1. Cyclic(q)
          BY <2>1, <2>2, <2>4, <4>2, CycleIsOfCurrent
        <5> QED
          BY <3>3, <5>1
      <4> QED
        BY <4>1, <4>2
    <3> QED
      BY <2>3, <2>4, <3>4, <3>5, <3>6, NoPredicateAssumption DEF Progress
  <2> QED
    BY <2>6, <2>7, <2>8, <2>9 DEF RInv
<1> QED
  BY <1>1, <1>2

LEMMA NextKeeps == RInv /\ [Next]_rvars => RInv'
<1> SUFFICES ASSUME RInv, [Next]_rvars PROVE RInv'
  OBVIOUS
<1>1. CASE RefuseDangling \/ RefuseUnresolved
  BY <1>1, StageKeeps DEF RefuseDangling, RefuseUnresolved, Refuse
<1>2. CASE Collect
  BY <1>2, CollectKeeps
<1>3. CASE DeriveUnresolved
  BY <1>3, StageKeeps DEF DeriveUnresolved, Resolved
<1>4. CASE Assemble
  <2>1. stage = "assemble" /\ stage' \in {"published", "refused"}
        /\ UNCHANGED <<input, left, at, coordinating, result>>
    BY <1>4 DEF Assemble
  <2>2. left = {} /\ at = NoPredicate
    BY <2>1 DEF RInv, Pipeline
  <2> QED
    BY <2>1, <2>2, StageKeeps
<1>5. CASE Coordinate \/ \E p \in Predicate : Begin(p)
  BY <1>5, BeginKeeps, CoordinateKeeps
<1>6. CASE UNCHANGED rvars
  <2>1. UNCHANGED <<input, left, at, coordinating, result>> /\ stage' = stage
    BY <1>6 DEF rvars
  <2>2. /\ stage \in {"coordinate", "assemble", "published", "refused"}
        /\ stage \in {"assemble", "published"} => left = {} /\ at = NoPredicate
    BY DEF RInv, Pipeline
  <2> QED
    BY <2>1, <2>2, StageKeeps
<1> QED
  BY <1>1, <1>2, <1>3, <1>4, <1>5, <1>6 DEF Next

\* The inductive invariant holds in every reachable state.
THEOREM AlwaysInvariant == Spec => []RInv
<1>1. Init => RInv
  BY InitEstablishes
<1>2. RInv /\ [Next]_rvars => RInv'
  BY NextKeeps
<1> QED
  BY <1>1, <1>2, PTL DEF Spec

-----------------------------------------------------------------------------
(* What holds of every call. *)

\* Every variable keeps its type (TypeOK).
THEOREM PipelineTypeCorrect == Spec => []TypeOK
<1>1. ASSUME RInv
      PROVE  TypeOK
  <2>1. InputOK /\ Pipeline
    BY <1>1 DEF RInv
  <2>2. \A f \in Fact : /\ classified[f].base \in BaseDecision
                        /\ classified[f].witnesses \subseteq Members[f]
    BY <2>1, ClassifiedFacts
  <2>3. ASSUME at # NoPredicate
        PROVE  Coordinator!TypeOK
    <3>1. Judge!IInv
      BY <1>1, <2>1, <2>3 DEF RInv, Pipeline, Progress
    <3> QED
      BY <3>1, JudgeIsCoordinator DEF Judge!IInv
  <2> QED
    BY <2>1, <2>2, <2>3 DEF Pipeline, TypeOK
<1> QED
  BY AlwaysInvariant, <1>1, PTL

\* Whatever the claims, the classification hands the coordinator a state its
\* rules are specified for (CoordinatorStartsWell).
THEOREM AlwaysStartsWell == Spec => []CoordinatorStartsWell
<1>1. ASSUME RInv, at # NoPredicate, phase = "explicit"
      PROVE  Coordinator!Init
  <2>1. InputOK /\ at \in Predicate /\ Given /\ Judge!IInv
    BY <1>1 DEF RInv, Pipeline, Progress
  <2>2. decision = [f \in FactsOf[at] |-> [status |-> base[f].status, rule |-> "classified"]]
    <3>1. decision = [f \in FactsOf[at] |-> decision[f]]
      BY <2>1, JudgeReads
    <3>2. \A f \in FactsOf[at] : decision[f] = [status |-> base[f].status, rule |-> "classified"]
      BY <1>1, <2>1 DEF Judge!IInv, Judge!AsClassified, Judge!Decided
    <3> QED
      BY <3>1, <3>2
  <2>3. requests = {} /\ conflictIds = {}
    BY <1>1, <2>1 DEF Judge!IInv, Judge!AsClassified
  <2> QED
    BY <1>1, <2>1, <2>2, <2>3, StartsWell, JudgeIsCoordinator DEF Started
<1>2. RInv => CoordinatorStartsWell
  BY <1>1 DEF CoordinatorStartsWell
<1> QED
  BY AlwaysInvariant, <1>2, PTL

\* A published current fact rests on a candidate that may activate it alone, is
\* alone, and is not declared replaced without objecting (CurrentFactStands).
THEOREM AlwaysCurrentStands == Spec => []CurrentFactStands
<1>1. ASSUME RInv, NEW p \in Predicate, NEW f \in FactsOf[p], Published(f, "ACTIVE")
      PROVE  /\ \E c \in Members[f] : /\ ActivationCapable(claim[c])
                                      /\ \A d \in Members[f] : <<d, c>> \notin references
             /\ \A g \in FactsOf[p] \ {f} :
                  /\ final[g].status \notin {"ACTIVE", "CONFLICTED"}
                  /\ <<g, f>> \notin OneDirectional(p)
  <2>1. InputOK /\ left = {} /\ at = NoPredicate /\ final[f].status = "ACTIVE"
    BY <1>1 DEF RInv, Pipeline, Published
  <2>2. Sound(p, final) /\ Agreed(p, final, CollectedFor(p))
    BY <1>1, <2>1, NoPredicateAssumption DEF RInv, Progress
  <2>3. classified[f].base.status = "ACTIVE" /\ f \in Fact
    BY <2>1, <2>2, FactsAreDisjoint DEF Sound
  <2>4. classified[f] = Classified(claim, references, f)
    BY <2>1, <2>3 DEF InputOK
  <2>5. f \notin Overruled(p)
    BY <2>1, <2>2 DEF Agreed
  <2>6. \A g \in FactsOf[p] : <<g, f>> \notin OneDirectional(p)
    BY <2>3, <2>5 DEF Overruled
  <2>7. \A g \in FactsOf[p] \ {f} : final[g].status \notin {"ACTIVE", "CONFLICTED"}
    BY <2>1, <2>2 DEF Agreed
  <2> QED
    BY <2>3, <2>4, <2>6, <2>7, CurrentRestsOnCandidate
<1>2. RInv => CurrentFactStands
  BY <1>1 DEF CurrentFactStands
<1> QED
  BY AlwaysInvariant, <1>2, PTL

-----------------------------------------------------------------------------
(* Why a call is refused. *)

Explained ==
  \/ \E p \in Predicate : Dangling(p)
  \/ \E c \in Candidate : ~claim[c].valued /\ Retired(claim[c])
  \/ \E p \in Predicate : Cyclic(p)

\* A value that is not known and is not pending at the end is of a retired
\* candidate: nothing supersedes it or makes it current.
LEMMA UnresolvedIsRetired ==
  ASSUME RInv, Resolved, ~AllUnknownArePending
  PROVE  \E c \in Candidate : ~claim[c].valued /\ Retired(claim[c])
<1>0. PICK f \in UnknownValued : final[f].status # "PENDING"
  BY DEF AllUnknownArePending
<1>1. f \in Fact /\ \E c \in Members[f] : ~claim[c].valued
  BY DEF UnknownValued
<1>2. PICK c \in Members[f] : ~claim[c].valued
  BY <1>1
<1>3. InputOK /\ left = {} /\ at = NoPredicate
  BY DEF RInv, Resolved
<1>4. c \in Candidate /\ FactOf[c] = f
  BY <1>1, <1>2, MembersAreCandidates
<1>5. PICK p \in Predicate : f \in FactsOf[p]
  <2>1. f[1] = About[c].predicate
    BY <1>4 DEF FactOf
  <2>2. f[1] \in Predicate
    BY <1>4, <2>1, AboutAssumption
  <2> QED
    BY <1>1, <2>2 DEF FactsOf
<1>6. Sound(p, final)
  BY <1>3, NoPredicateAssumption DEF RInv, Progress
<1>7. /\ classified[f].base.status \in {"PENDING", "DEPRECATED"} /\ ~classified[f].base.plausible
      /\ classified[f].base.status = "DEPRECATED" => Retired(claim[c])
  BY <1>1, <1>2, <1>3, UnknownStandsAlone DEF InputOK
<1>8. final[f].status = classified[f].base.status
  BY <1>5, <1>6, <1>7 DEF Sound, Statuses
<1> QED
  BY <1>0, <1>2, <1>4, <1>7, <1>8

\* The constructor of an outcome refuses cycles of current facts only.
LEMMA RejectedIsCyclic ==
  ASSUME RInv, at \in Predicate, phase = "rejected_input"
  PROVE  Cyclic(at)
<1>1. InputOK /\ Given /\ Judge!IInv
  BY DEF RInv, Progress
<1>2. ~Judge!Acyclic(Judge!ExplicitEdges)
  BY <1>1 DEF Judge!IInv, Judge!OnlyCyclesAreRejected, Judge!Rejections
<1> QED
  BY <1>1, <1>2, CycleIsOfCurrent

LEMMA RefusalHasAReason ==
  ASSUME RInv, stage # "refused", Next, stage' = "refused"
  PROVE  Explained
<1>1. CASE RefuseDangling
  BY <1>1 DEF RefuseDangling, RInv, Pipeline, Explained
<1>2. CASE Collect
  <2>1. at \in Predicate /\ phase = "rejected_input"
    BY <1>2 DEF Collect, RInv, Pipeline
  <2> QED
    BY <2>1, RejectedIsCyclic DEF Explained
<1>3. CASE RefuseUnresolved
  BY <1>3, UnresolvedIsRetired DEF RefuseUnresolved, Explained
<1>4. CASE Assemble
  <2>1. stage = "assemble" /\ \E p \in Predicate : ~Assembled(p)!GraphIsValid
    BY <1>4 DEF Assemble
  <2>2. left = {} /\ at = NoPredicate
    BY <2>1 DEF RInv, Pipeline
  <2> QED
    BY <2>1, <2>2, NoPredicateAssumption DEF RInv, Progress, Explained
<1>5. CASE Coordinate \/ DeriveUnresolved \/ \E p \in Predicate : Begin(p)
  BY <1>5 DEF Coordinate, DeriveUnresolved, Begin
<1> QED
  BY <1>1, <1>2, <1>3, <1>4, <1>5 DEF Next

\* A whole input is refused for the three stated reasons only
\* (RefusalIsExplained): neither the constructor of an outcome nor the
\* validation of the graph refuses what the coordinator decided, but for cycles.
THEOREM AlwaysExplained == Spec => []RefusalIsExplained
<1>1. Init => RefusalIsExplained
  BY DEF Init, RefusalIsExplained
<1>2. RInv /\ RefusalIsExplained /\ [Next]_rvars => RefusalIsExplained'
  <2> SUFFICES ASSUME RInv, RefusalIsExplained, [Next]_rvars, stage' = "refused"
               PROVE  Explained'
    BY DEF RefusalIsExplained, Explained, Cyclic
  <2>1. UNCHANGED <<claim, references, classified>>
    BY DEF Next, RefuseDangling, Collect, DeriveUnresolved, RefuseUnresolved, Refuse, Assemble,
           Begin, Coordinate, rvars, input
  <2>2. stage = "refused" => Explained
    BY DEF RefusalIsExplained, Explained, Cyclic
  <2>3. Explained
    BY <2>2, RefusalHasAReason DEF rvars
  <2>4. \A p \in Predicate : (Dangling(p)' <=> Dangling(p)) /\ (Cyclic(p)' <=> Cyclic(p))
    BY <2>1, InputFixed DEF Dangling
  <2> QED
    BY <2>1, <2>3, <2>4 DEF Explained
<1> QED
  BY <1>1, <1>2, AlwaysInvariant, PTL DEF Spec

-----------------------------------------------------------------------------
-----------------------------------------------------------------------------
(* The contract of each predicate. *)

\* Where nothing is current, nothing is replaced: every chain of replacements
\* starts at a current fact, or it would be a cycle.
LEMMA ReplacedNeedsCurrent ==
  ASSUME NEW p \in Predicate, Agreed(p, final, CollectedFor(p)), Assembled(p)!GraphIsValid,
         \A f \in FactsOf[p] : final[f].status # "ACTIVE",
         NEW g \in FactsOf[p]
  PROVE  final[g].status # "SUPERSEDED"
<1> DEFINE replacing == {r \in CollectedFor(p) : r.type = "SUPERSEDES"}
           sources == {r.from : r \in replacing}
           edges == {<<r.from, r.to>> : r \in replacing}
<1> SUFFICES ASSUME final[g].status = "SUPERSEDED"
             PROVE  FALSE
  OBVIOUS
<1>1. edges = Assembled(p)!Edges("SUPERSEDES")
  BY DEF Assembled!Edges, CollectedFor
<1>2. \E r \in replacing : r.to = g
  <2>1. g \in Assembled(p)!WithStatus("SUPERSEDED")
    BY DEF Assembled!WithStatus
  <2>2. g \in Assembled(p)!Incoming
    BY <2>1 DEF Assembled!GraphIsValid, Assembled!StatusesMatchRelations
  <2>3. PICK e \in edges : e[2] = g
    BY <1>1, <2>2 DEF Assembled!Incoming
  <2> QED
    BY <2>3
<1>3. sources \in (SUBSET FactsOf[p]) \ {{}}
  BY <1>2 DEF CollectedFor
<1>4. Assembled(p)!Acyclic(edges)
  BY <1>1 DEF Assembled!GraphIsValid
<1>5. PICK x \in sources : \A y \in sources : <<y, x>> \notin edges
  BY <1>3, <1>4 DEF Assembled!Acyclic
<1>6. \E q \in replacing : q.to = x
  BY <1>3, <1>5 DEF Agreed
<1> QED
  BY <1>5, <1>6

\* A conflict has two sides.
LEMMA ConflictedInPairs ==
  ASSUME NEW p \in Predicate, Assembled(p)!GraphIsValid,
         NEW f \in FactsOf[p], final[f].status = "CONFLICTED"
  PROVE  \E g \in FactsOf[p] : g # f /\ final[g].status = "CONFLICTED"
<1> DEFINE sides == Assembled(p)!WithStatus("CONFLICTED")
           pairs == Assembled(p)!AllPairs(sides)
<1>1. sides = {g \in FactsOf[p] : final[g].status = "CONFLICTED"}
  BY DEF Assembled!WithStatus
<1>2. sides = {e[1] : e \in pairs}
  BY DEF Assembled!GraphIsValid, Assembled!ConflictsAreComplete
<1>3. \A e \in pairs : e[1] # e[2] /\ e[2] \in sides
  BY DEF Assembled!AllPairs
<1> HIDE DEF sides, pairs
<1> QED
  BY <1>1, <1>2, <1>3

\* What is published of a predicate is what its contract allows.
LEMMA PublicationIsContracted ==
  ASSUME RInv, Assemble, stage' = "published", NEW p \in Predicate
  PROVE  Contract(p)!Publish
<1> DEFINE before == [f \in FactsOf[p] |-> classified[f].base.status]
           after == [f \in FactsOf[p] |-> final[f].status]
           current == {f \in FactsOf[p] : before[f] = "ACTIVE"}
<1>1. /\ stage = "assemble" /\ Assembled(p)!GraphIsValid
      /\ UNCHANGED <<claim, references, classified, final>>
  BY DEF Assemble, input, result
<1>2. Sound(p, final) /\ Agreed(p, final, CollectedFor(p))
  BY <1>1, NoPredicateAssumption DEF RInv, Pipeline, Progress
<1>3. \A f \in FactsOf[p] :
        /\ after[f] \in Statuses
        /\ after[f] \in {"ACTIVE", "CONFLICTED"} => before[f] = "ACTIVE"
        /\ after[f] = "SUPERSEDED" => classified[f].base.plausible
        /\ after[f] \in {"PENDING", "DEPRECATED"} => after[f] = before[f]
  BY <1>2 DEF Sound
<1>4. \A f, g \in FactsOf[p] :
        after[f] = "ACTIVE" /\ after[g] \in {"ACTIVE", "CONFLICTED"} => f = g
  BY <1>2 DEF Agreed
<1>5. (\A f \in FactsOf[p] : after[f] # "ACTIVE") => \A g \in FactsOf[p] : after[g] # "SUPERSEDED"
  BY <1>1, <1>2, ReplacedNeedsCurrent
<1>6. \A f \in FactsOf[p] : after[f] = "CONFLICTED" =>
        \E g \in FactsOf[p] : g # f /\ after[g] = "CONFLICTED"
  BY <1>1, ConflictedInPairs
<1>7. Contract(p)!Current = current
  BY DEF Contract!Current
<1>8. (IF stage' = "published" THEN after' ELSE before') = after
  BY <1>1
<1> HIDE DEF before, after
<1>9. CASE \E f \in FactsOf[p] : after[f] = "CONFLICTED"
  <2>1. \A f \in FactsOf[p] : after[f] # "ACTIVE" /\ after[f] # "SUPERSEDED"
    BY <1>4, <1>5, <1>9
  <2>2. \A f \in FactsOf[p] : after[f] = IF f \in current THEN "CONFLICTED" ELSE before[f]
    BY <1>3, <2>1 DEF Statuses
  <2>3. \E f, g \in current : f # g
    BY <1>3, <1>6, <1>9
  <2>4. after = [f \in FactsOf[p] |-> IF f \in current THEN "CONFLICTED" ELSE before[f]]
    BY <2>2 DEF after
  <2>5. Contract(p)!Conflict
    BY <1>7, <1>8, <2>3, <2>4 DEF Contract!Conflict, before, after
  <2> QED
    BY <1>1, <2>5, InputFixed DEF Contract!Publish
<1>10. CASE /\ \A f \in FactsOf[p] : after[f] # "CONFLICTED"
            /\ \E w \in FactsOf[p] : after[w] = "ACTIVE"
  <2>1. PICK w \in FactsOf[p] : after[w] = "ACTIVE"
    BY <1>10
  <2>2. PICK replaced : replaced = {f \in FactsOf[p] : after[f] = "SUPERSEDED"}
    OBVIOUS
  <2>3. w \in current \ replaced
    BY <1>3, <2>1, <2>2
  <2>4. current \ {w} \subseteq replaced
    BY <1>3, <1>4, <1>10, <2>1, <2>2 DEF Statuses
  <2>5. \A f \in FactsOf[p] : after[f] = IF f \in replaced THEN "SUPERSEDED" ELSE before[f]
    BY <1>3, <1>10, <2>2 DEF Statuses
  <2>6. after = [f \in FactsOf[p] |-> IF f \in replaced THEN "SUPERSEDED" ELSE before[f]]
    BY <2>5 DEF after
  <2>7. replaced \in SUBSET Contract(p)!Plausible
    BY <1>3, <2>2 DEF Contract!Plausible
  <2> HIDE DEF current
  <2>8. Contract(p)!Wins(w, replaced)
    BY <1>7, <1>8, <2>3, <2>4, <2>6 DEF Contract!Wins, before, after
  <2>9. \E v \in Contract(p)!Current, S \in SUBSET Contract(p)!Plausible : Contract(p)!Wins(v, S)
    BY <1>7, <2>3, <2>7, <2>8
  <2> QED
    BY <1>1, <2>9, InputFixed DEF Contract!Publish
<1>11. CASE \A f \in FactsOf[p] : after[f] \notin {"CONFLICTED", "ACTIVE"}
  <2>1. \A f \in FactsOf[p] : after[f] = before[f] /\ before[f] # "ACTIVE"
    BY <1>3, <1>5, <1>11 DEF Statuses
  <2>2. after = before
    BY <2>1 DEF after, before
  <2>3. current = {}
    BY <2>1
  <2>4. Contract(p)!NothingCurrent
    BY <1>1, <1>7, <1>8, <2>2, <2>3 DEF Contract!NothingCurrent, before, after
  <2> QED
    BY <1>1, <2>4, InputFixed DEF Contract!Publish
<1> QED
  BY <1>9, <1>10, <1>11

LEMMA ContractsStart ==
  ASSUME Init, NEW p \in Predicate
  PROVE  Contract(p)!Open
<1>1. stage = "coordinate"
  BY DEF Init
<1> QED
  BY <1>1 DEF Contract!Open, Contract!Classified

\* Nothing is seen of a predicate before the publication, or after it.
LEMMA NothingSeen ==
  ASSUME RInv, [Next]_rvars, ~(Assemble /\ stage' = "published"), NEW p \in Predicate
  PROVE  UNCHANGED Contract(p)!rvars
<1>1. UNCHANGED <<claim, references, classified>>
  BY DEF Next, RefuseDangling, Collect, DeriveUnresolved, RefuseUnresolved, Refuse, Assemble,
         Begin, Coordinate, rvars, input
<1>2. \/ stage # "published" /\ stage' # "published"
      \/ stage' = stage /\ final' = final
  BY DEF Next, RefuseDangling, Collect, DeriveUnresolved, RefuseUnresolved, Refuse, Assemble,
         Begin, Coordinate, Resolved, rvars, result
<1>3. Declared(p)' = Declared(p)
  BY <1>1, InputFixed
<1> QED
  BY <1>1, <1>2, <1>3 DEF Contract!rvars

\* For each predicate, whatever the others are, the call keeps the contract of
\* the coordinator (ImplementsContracts).
THEOREM ImplementsEveryContract == Spec => ImplementsContracts
<1>1. Init => \A p \in Predicate : Contract(p)!Open
  BY ContractsStart
<1>2. RInv /\ [Next]_rvars =>
        [\A p \in Predicate : UNCHANGED Contract(p)!rvars \/ Contract(p)!Publish]_rvars
  <2> SUFFICES ASSUME RInv, [Next]_rvars, NEW p \in Predicate
               PROVE  UNCHANGED Contract(p)!rvars \/ Contract(p)!Publish
    OBVIOUS
  <2> QED
    BY NothingSeen, PublicationIsContracted
<1> QED
  BY <1>1, <1>2, AlwaysInvariant, PTL DEF Spec, ImplementsContracts
=============================================================================
