------------------------ MODULE PredicateCoordinator ------------------------
(***************************************************************************)
(* The predicate coordinator of the State Reconciler                       *)
(* (reconcile/rules.py, resolve_predicate and _resolve_predicate_payload). *)
(*                                                                         *)
(* All the facts about one (subject, predicate) pair have been classified; *)
(* the coordinator decides between them.  It applies the explicit          *)
(* "supersedes" declarations, then at most one winner rule (an explicit    *)
(* source of truth, or direct current evidence over historical memory),    *)
(* and, when two current facts remain or two declarations contradict each  *)
(* other, takes replacements back one layer at a time until it can mark    *)
(* every current fact as conflicted.  The result passes through the        *)
(* constructor of PredicateOutcome, which re-derives what it may contain,  *)
(* and through the validation of the relation graph; either may reject it. *)
(*                                                                         *)
(* A fact is a model value.  Of its classified decision only what the      *)
(* rules read is kept: the status, whether it is a plausible competitor,   *)
(* whether an activation witness of it is a source of truth or direct      *)
(* current evidence, and whether all its candidates are historical memory. *)
(* Texts, provenance tuples, fingerprints and authorizations are left out. *)
(***************************************************************************)
EXTENDS Naturals, ClassifiedDecision

CONSTANTS
  Payloads,    \* the sets of facts an instance starts from
  Bases,       \* the classified decisions an instance starts from
  Declarable   \* the ordered pairs of facts that may declare a replacement

Rules == {"explicit_supersedes", "source_of_truth", "current_over_historical"}
ConflictRules == {"unresolved_current", "contradictory_supersedes"}
Status == {"ACTIVE", "SUPERSEDED", "CONFLICTED", "PENDING", "DEPRECATED"}

ASSUME BasesAssumption == Bases \subseteq BaseDecision

VARIABLES
  facts,      \* the facts of one subject and predicate, never changed
  base,       \* the classified decision of each fact, never changed
  declared,   \* pairs <<source, target>>: a witness of source names a candidate of target
  policy,     \* allow_explicit_source_of_truth_override, allow_current_evidence_over_historical
  phase,      \* where the coordinator is
  decision,   \* the resolved status of each fact and the rule recorded for it
  requests,   \* the relation requests collected so far
  conflictIds \* facts that take part in the conflict being raised

vars == <<facts, base, declared, policy, phase, decision, requests, conflictIds>>
inputs == <<facts, base, declared, policy>>

Request == [type : {"SUPERSEDES", "CONFLICTS"}, from : facts, to : facts,
            rule : Rules \union ConflictRules]
Rejections == {"rejected_input", "rejected_invariant"}
Terminal == {"published"} \union Rejections
Phases == {"explicit", "winner", "finalize", "rollback", "construct", "validate"}
            \union Terminal

TypeOK ==
  /\ base \in [facts -> BaseDecision]
  /\ declared \in SUBSET (facts \X facts)
  /\ policy \in [sot : BOOLEAN, current : BOOLEAN]
  /\ phase \in Phases
  /\ decision \in [facts -> [status : Status,
                            rule : Rules \union ConflictRules \union {"classified"}]]
  /\ requests \in SUBSET Request
  /\ conflictIds \in SUBSET facts

-----------------------------------------------------------------------------
(* Sets and graphs of facts *)

AtMostOne(S) == \A x, y \in S : x = y

\* A finite edge set is acyclic when every non-empty set of nodes has a member
\* that no edge enters from inside the set.
Acyclic(edges) ==
  \A S \in (SUBSET facts) \ {{}} : \E x \in S : \A y \in S : <<y, x>> \notin edges

Edges(type) == {<<r.from, r.to>> : r \in {q \in requests : q.type = type}}

WithStatus(s) == {f \in facts : decision[f].status = s}

MakeRequests(type, edges, rule) ==
  {[type |-> type, from |-> e[1], to |-> e[2], rule |-> rule] : e \in edges}

DropMutual(edges) == {e \in edges : <<e[2], e[1]>> \notin edges}

-----------------------------------------------------------------------------
(* What the rules read *)

Plausible(f) == base[f].plausible

\* Facts that declare, and are declared, replaced by one and the same fact.
Mutual == {f \in facts : \E g \in facts : <<f, g>> \in declared /\ <<g, f>> \in declared}

Contradictory == {f \in Mutual : base[f].status = "ACTIVE"}

\* The one-directional declarations whose target is worth replacing.
ExplicitEdges == {e \in DropMutual(declared) : Plausible(e[2])}
ExplicitSources == {e[1] : e \in ExplicitEdges}
ExplicitTargets == {e[2] : e \in ExplicitEdges}
Governed == ExplicitSources \union ExplicitTargets \union Mutual

SourceOfTruthGroups == {f \in facts : base[f].sot}

SourceOfTruthCompetitors(w) ==
  {f \in facts \ Governed : f # w /\ Plausible(f)}

Remaining == facts \ Governed
CurrentGroups == {f \in Remaining : base[f].cur}

\* Mutant: any of several sources of truth may win.
SourceOfTruthAppliesToAny(w) ==
  /\ w \in SourceOfTruthGroups
  /\ w \notin ExplicitTargets \union Mutual
  /\ SourceOfTruthCompetitors(w) # {}

SourceOfTruthApplies(w) ==
  /\ SourceOfTruthGroups = {w}
  /\ w \notin ExplicitTargets \union Mutual
  /\ SourceOfTruthCompetitors(w) # {}

CurrentEvidenceApplies(w) ==
  /\ policy.current
  /\ CurrentGroups = {w}
  /\ Remaining # {w}
  /\ \A f \in Remaining \ {w} : Plausible(f) /\ base[f].historical

-----------------------------------------------------------------------------
(* The coordinator, one action per step of _resolve_predicate_payload *)

Init ==
  /\ facts \in Payloads
  /\ base \in [facts -> Bases]
  /\ policy \in [sot : BOOLEAN, current : BOOLEAN]
  /\ \A f \in facts : base[f].sot => policy.sot
  /\ declared \in SUBSET {e \in Declarable \intersect (facts \X facts) :
                           e[1] # e[2] /\ base[e[1]].status = "ACTIVE"}
  /\ phase = "explicit"
  /\ decision = [f \in facts |-> [status |-> base[f].status, rule |-> "classified"]]
  /\ requests = {}
  /\ conflictIds = {}

Decided(status, rule) == [status |-> status, rule |-> rule]

\* Every one-directional declaration is applied at once: its target is
\* SUPERSEDED, and a source that is no target stays ACTIVE.
ApplyExplicit ==
  /\ phase = "explicit"
  /\ decision' = [f \in facts |->
       IF f \in ExplicitTargets THEN Decided("SUPERSEDED", "explicit_supersedes")
       ELSE IF f \in ExplicitSources THEN Decided("ACTIVE", "explicit_supersedes")
       ELSE decision[f]]
  /\ requests' = MakeRequests("SUPERSEDES", ExplicitEdges, "explicit_supersedes")
  /\ phase' = "winner"
  /\ UNCHANGED <<inputs, conflictIds>>

\* Mutant: the winner always records the rule that won, even if it also replaces
\* another fact by declaration.
WinForgetsDeclaration(w, targets, rule) ==
  /\ decision' = [f \in facts |->
       IF f \in targets THEN Decided("SUPERSEDED", rule)
       ELSE IF f = w THEN Decided("ACTIVE", rule)
       ELSE decision[f]]
  /\ requests' = requests \union MakeRequests("SUPERSEDES", {w} \X targets, rule)
  /\ phase' = "finalize"
  /\ UNCHANGED <<inputs, conflictIds>>

\* The winner rule replaces every target by w.  A winner that already replaces
\* another fact by declaration keeps the stronger rule it has recorded.
Win(w, targets, rule) ==
  /\ decision' = [f \in facts |->
       IF f \in targets THEN Decided("SUPERSEDED", rule)
       ELSE IF f = w /\ w \notin ExplicitSources THEN Decided("ACTIVE", rule)
       ELSE decision[f]]
  /\ requests' = requests \union MakeRequests("SUPERSEDES", {w} \X targets, rule)
  /\ phase' = "finalize"
  /\ UNCHANGED <<inputs, conflictIds>>

ApplySourceOfTruth(w) ==
  /\ phase = "winner"
  /\ SourceOfTruthApplies(w)
  /\ Win(w, SourceOfTruthCompetitors(w), "source_of_truth")

\* Reached only when no fact has a source-of-truth witness: the code returns
\* early as soon as there is one, applicable or not.
ApplyCurrentEvidence(w) ==
  /\ phase = "winner"
  /\ SourceOfTruthGroups = {}
  /\ CurrentEvidenceApplies(w)
  /\ Win(w, Remaining \ {w}, "current_over_historical")

NoWinner ==
  /\ phase = "winner"
  /\ ~ \E w \in facts : SourceOfTruthApplies(w)
  /\ ~ (SourceOfTruthGroups = {} /\ \E w \in facts : CurrentEvidenceApplies(w))
  /\ phase' = "finalize"
  /\ UNCHANGED <<inputs, decision, requests, conflictIds>>

ApplyWinnerRule ==
  \/ \E w \in facts : ApplySourceOfTruth(w) \/ ApplyCurrentEvidence(w)
  \/ NoWinner

-----------------------------------------------------------------------------
(* _finalize_predicate_payload *)

\* Mutant: a contradiction between replaced facts is overlooked.
SettledDespiteContradiction == AtMostOne(WithStatus("ACTIVE"))

Settled == AtMostOne(WithStatus("ACTIVE")) /\ Contradictory = {}

Finalize ==
  /\ phase = "finalize"
  /\ IF Settled
       THEN phase' = "construct" /\ UNCHANGED conflictIds
       ELSE /\ phase' = "rollback"
            /\ conflictIds' = WithStatus("ACTIVE") \union Contradictory
  /\ UNCHANGED <<inputs, decision, requests>>

Invalidated == {r \in requests : r.type = "SUPERSEDES" /\ r.from \in conflictIds}
Restored == {r.to : r \in Invalidated}

\* Mutants: a restored fact is left pending; the invalidated requests stay.
RollBackToPending ==
  /\ phase = "rollback"
  /\ Invalidated # {}
  /\ requests' = requests \ Invalidated
  /\ decision' = [f \in facts |->
       IF f \in Restored THEN Decided("PENDING", "classified") ELSE decision[f]]
  /\ UNCHANGED <<inputs, phase, conflictIds>>
RollBackKeepsRequests ==
  /\ phase = "rollback"
  /\ Invalidated # {}
  /\ decision' = [f \in facts |->
       IF f \in Restored THEN Decided(base[f].status, "classified") ELSE decision[f]]
  /\ conflictIds' = conflictIds \union {f \in Restored : base[f].status = "ACTIVE"}
  /\ UNCHANGED <<inputs, phase, requests>>

\* One round of the loop: what conflicting facts replaced is put back as it was
\* classified, and what was current joins the conflict.
RollBack ==
  /\ phase = "rollback"
  /\ Invalidated # {}
  /\ requests' = requests \ Invalidated
  /\ decision' = [f \in facts |->
       IF f \in Restored THEN Decided(base[f].status, "classified") ELSE decision[f]]
  /\ conflictIds' = conflictIds \union {f \in Restored : base[f].status = "ACTIVE"}
  /\ UNCHANGED <<inputs, phase>>

\* Mutant: a conflicting fact goes on recording its classification.
ConflictRuleForgotten == "classified"

ConflictRule ==
  IF Contradictory # {} THEN "contradictory_supersedes" ELSE "unresolved_current"

AllPairs(S) == {e \in S \X S : e[1] # e[2]}

\* The code also returns without a conflict when fewer than two facts conflict;
\* ConflictHasTwoSides shows that this never happens.
RaiseConflicts ==
  /\ phase = "rollback"
  /\ Invalidated = {}
  /\ IF AtMostOne(conflictIds)
       THEN UNCHANGED <<decision, requests>>
       ELSE /\ decision' = [f \in facts |->
                 IF f \in conflictIds THEN Decided("CONFLICTED", ConflictRule) ELSE decision[f]]
            /\ requests' = requests \union
                 MakeRequests("CONFLICTS", AllPairs(conflictIds), ConflictRule)
  /\ phase' = "construct"
  /\ UNCHANGED <<inputs, conflictIds>>

-----------------------------------------------------------------------------
(* What the constructor of PredicateOutcome accepts *)

Incoming == {e[2] : e \in Edges("SUPERSEDES")}
Outgoing == {e[1] : e \in Edges("SUPERSEDES")}

\* A replacement must be one its rule could have produced.
CanonicalSupersedes(r) ==
  /\ decision[r.to].rule = r.rule
  /\ Plausible(r.to)
  /\ \/ r.rule = "explicit_supersedes" /\ <<r.from, r.to>> \in declared
     \/ r.rule = "source_of_truth" /\ policy.sot /\ base[r.from].sot
     \/ /\ r.rule = "current_over_historical"
        /\ policy.current /\ base[r.from].cur /\ base[r.to].historical

Priority(rule) ==
  CASE rule = "explicit_supersedes" -> 1
    [] rule = "source_of_truth" -> 2
    [] rule = "current_over_historical" -> 3

\* A replacing fact records the strongest rule by which it replaces another.
PrimaryRulesHold ==
  \A f \in Outgoing :
    LET used == {r.rule : r \in {q \in requests : q.type = "SUPERSEDES" /\ q.from = f}}
    IN /\ decision[f].rule \in used
       /\ \A u \in used : Priority(decision[f].rule) =< Priority(u)

RequestedBy(rule) == {<<r.from, r.to>> : r \in {q \in requests : q.rule = rule}}

\* A winner rule, when it was used, applied and was used on all its targets.
WinnerRulesHold ==
  LET sot == RequestedBy("source_of_truth")
      current == RequestedBy("current_over_historical")
  IN /\ AtMostOne(WithStatus("ACTIVE"))
     /\ sot = {} \/ current = {}
     /\ sot # {} => \E w \in facts : /\ SourceOfTruthApplies(w)
                                     /\ sot = {w} \X SourceOfTruthCompetitors(w)
     /\ current # {} => \E w \in facts : /\ CurrentEvidenceApplies(w)
                                         /\ current = {w} \X (Remaining \ {w})

ConflictsAreComplete ==
  /\ \A r \in requests : r.type = "CONFLICTS" =>
       /\ r.rule \in ConflictRules
       /\ \A f \in {r.from, r.to} : decision[f] = Decided("CONFLICTED", r.rule)
  /\ WithStatus("CONFLICTED") # {} => WithStatus("ACTIVE") = {}
  /\ Edges("CONFLICTS") = AllPairs(WithStatus("CONFLICTED"))
  /\ WithStatus("CONFLICTED") = {e[1] : e \in Edges("CONFLICTS")}

OutcomeIsCanonical ==
  /\ \A r \in requests : r.type = "SUPERSEDES" =>
       /\ CanonicalSupersedes(r)
       /\ decision[r.to].status = "SUPERSEDED"
       /\ decision[r.from].status = "ACTIVE" \/ r.from \in Incoming
  /\ PrimaryRulesHold
  /\ WinnerRulesHold
  /\ WithStatus("SUPERSEDED") \subseteq Incoming
  /\ ConflictsAreComplete

Construct ==
  /\ phase = "construct"
  /\ phase' = IF OutcomeIsCanonical THEN "validate" ELSE "rejected_input"
  /\ UNCHANGED <<inputs, decision, requests, conflictIds>>

-----------------------------------------------------------------------------
(* The validation of the relation graph, when the result is assembled *)

StatusesMatchRelations ==
  /\ WithStatus("ACTIVE") \intersect Incoming = {}
  /\ WithStatus("SUPERSEDED") \subseteq Incoming
  /\ WithStatus("CONFLICTED") \subseteq {e[1] : e \in Edges("CONFLICTS")}
  /\ WithStatus("CONFLICTED") \intersect (Incoming \union Outgoing) = {}
  /\ WithStatus("DEPRECATED") \intersect Outgoing = {}

\* Mutant: cycles of replacements are not looked for.
GraphIsValidWithCycles == ConflictsAreComplete /\ StatusesMatchRelations

GraphIsValid == Acyclic(Edges("SUPERSEDES")) /\ ConflictsAreComplete /\ StatusesMatchRelations

Validate ==
  /\ phase = "validate"
  /\ phase' = IF GraphIsValid THEN "published" ELSE "rejected_invariant"
  /\ UNCHANGED <<inputs, decision, requests, conflictIds>>

\* The result, or the exception, is with the caller.
Done == phase \in Terminal /\ UNCHANGED vars

Step ==
  \/ ApplyExplicit
  \/ ApplyWinnerRule
  \/ Finalize
  \/ RollBack
  \/ RaiseConflicts
  \/ Construct
  \/ Validate

Next == Step \/ Done

Spec == Init /\ [][Next]_vars
FairSpec == Spec /\ WF_vars(Step)

-----------------------------------------------------------------------------
(* Properties *)

\* The coordinator has decided, whatever the checks after it will say.
Resolved == phase \in {"construct", "validate"} \union Terminal

\* A decided predicate has at most one current fact, and none beside a
\* conflict, whichever rules applied and however far replacements were taken
\* back (_finalize_predicate_payload).
SingleCurrentFact ==
  Resolved => /\ AtMostOne(WithStatus("ACTIVE"))
              /\ WithStatus("CONFLICTED") # {} => WithStatus("ACTIVE") = {}

\* No sequence of rules and roll backs makes a fact current, or a side of a
\* conflict, that classification did not make current; only a plausible
\* competitor is superseded (_with_predicate_resolution_status).
NeverPromoted ==
  \A f \in facts :
    /\ decision[f].status \in {"ACTIVE", "CONFLICTED"} => base[f].status = "ACTIVE"
    /\ decision[f].status = "SUPERSEDED" => Plausible(f)
    /\ decision[f].status \in {"PENDING", "DEPRECATED"} => decision[f].status = base[f].status

\* Once a conflict is being raised it has two sides, so the early return for
\* fewer than two conflicting facts is dead code, and stays dead while the
\* roll back goes on.
ConflictHasTwoSides == phase = "rollback" => ~AtMostOne(conflictIds)

\* Both checks after the coordinator accept everything it produces, except for
\* declarations that form a cycle: PredicateOutcome and the graph validation
\* re-derive the rules independently and agree with them.
OnlyCyclesAreRejected == phase \in Rejections => ~Acyclic(ExplicitEdges)

\* Every superseded fact of a published predicate is replaced, possibly through
\* other superseded facts, by a current one: no group of superseded facts is
\* replaced from within itself only.
ReplacedByCurrent ==
  phase = "published" =>
    \A S \in (SUBSET WithStatus("SUPERSEDED")) \ {{}} :
      \E x \in S, y \in WithStatus("ACTIVE") \union (WithStatus("SUPERSEDED") \ S) :
        <<y, x>> \in Edges("SUPERSEDES")

\* A conflict is total: every fact that was current is a side of it, every
\* other fact is as it was classified, and no replacement survives it.
ConflictIsTotal ==
  phase = "published" /\ WithStatus("CONFLICTED") # {} =>
    /\ WithStatus("CONFLICTED") = {f \in facts : base[f].status = "ACTIVE"}
    /\ WithStatus("SUPERSEDED") = {}
    /\ Edges("SUPERSEDES") = {}

\* Two current facts that declare each other replaced end in conflict, even
\* when another fact is an explicit source of truth.
ContradictionIsRetained ==
  phase = "published" /\ Contradictory # {} => Contradictory \subseteq WithStatus("CONFLICTED")

\* An explicit source of truth yields only to a declaration against it or to a
\* conflict, and, standing alone with no declarations, it is what is current.
SourceOfTruthStands ==
  phase = "published" =>
    \A w \in SourceOfTruthGroups :
      /\ decision[w].status = "SUPERSEDED" => w \in ExplicitTargets
      /\ declared = {} /\ SourceOfTruthGroups = {w} => WithStatus("ACTIVE") = {w}

\* Taking replacements back never adds one, and never lets a fact out of the
\* conflict: the loop works on a shrinking set of requests.
RollBackShrinks ==
  [][phase = "rollback" /\ phase' = "rollback" =>
       /\ requests' \subseteq requests /\ requests' # requests
       /\ conflictIds \subseteq conflictIds']_vars

\* The coordinator always ends with a result or an exception.
Terminates == <>(phase \in Terminal)

\* What a caller sees of the coordinator.
VisibleOutcome ==
  CASE phase = "published" -> "published" [] phase \in Rejections -> "refused" [] OTHER -> "open"
VisibleStatus ==
  [f \in facts |-> IF phase = "published" THEN decision[f].status ELSE base[f].status]

Resolution == INSTANCE PredicateResolution
                WITH outcome <- VisibleOutcome, status <- VisibleStatus

\* The coordinator with both validations implements the contract.
ImplementsResolution == Resolution!Spec

=============================================================================
