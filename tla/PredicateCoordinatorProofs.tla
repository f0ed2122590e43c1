--------------------- MODULE PredicateCoordinatorProofs ---------------------
(***************************************************************************)
(* Proofs about the predicate coordinator, for any set of facts, any       *)
(* classified decisions and any declarations.                              *)
(*                                                                         *)
(* The inductive invariant IInv says, phase by phase, what the requests    *)
(* and the decisions have to do with each other: what the rules produce    *)
(* (Provisional), what every round of the roll back keeps (Collecting),    *)
(* and what a conflict looks like once it is raised (ConflictRaised).      *)
(*                                                                         *)
(* The last part shows that merging the requests, the checks of the        *)
(* relation graph and the search for cycles are together the one step that *)
(* the coordinator takes for them.  The search invariant has two halves.   *)
(* The gray facts are a path, so a gray child closes a cycle; and what is  *)
(* black is closed under replacement and acyclic, so that a search that    *)
(* ends with every fact black has shown that there is no cycle.            *)
(***************************************************************************)
EXTENDS RelationGraph, SequenceTheorems, TLAPS

BaseActive == {f \in facts : base[f].status = "ACTIVE"}

\* What Init says of the inputs, and no action changes.
InputsOK ==
  /\ \A f \in facts : base[f].sot => policy.sot
  /\ \A e \in declared : e[1] # e[2] /\ e[1] \in BaseActive

AsClassified ==
  /\ requests = {}
  /\ \A f \in facts : decision[f] = Decided(base[f].status, "classified")

ExplicitRequests == MakeRequests("SUPERSEDES", ExplicitEdges, "explicit_supersedes")

ByDeclarationOf(f) ==
  IF f \in ExplicitTargets THEN Decided("SUPERSEDED", "explicit_supersedes")
  ELSE IF f \in ExplicitSources THEN Decided("ACTIVE", "explicit_supersedes")
  ELSE Decided(base[f].status, "classified")

ByDeclaration ==
  /\ requests = ExplicitRequests
  /\ \A f \in facts : decision[f] = ByDeclarationOf(f)

\* The requests and decisions after w has replaced all of T by a winner rule.
WonBy(w, T, rule) ==
  /\ requests = ExplicitRequests \union MakeRequests("SUPERSEDES", {w} \X T, rule)
  /\ \A f \in facts :
       decision[f] = IF f \in T THEN Decided("SUPERSEDED", rule)
                     ELSE IF f = w /\ w \notin ExplicitSources THEN Decided("ACTIVE", rule)
                     ELSE ByDeclarationOf(f)

WonByTruth(w) ==
  SourceOfTruthApplies(w) /\ WonBy(w, SourceOfTruthCompetitors(w), "source_of_truth")

WonByEvidence(w) ==
  /\ SourceOfTruthGroups = {}
  /\ CurrentEvidenceApplies(w)
  /\ WonBy(w, Remaining \ {w}, "current_over_historical")

Provisional ==
  \/ ByDeclaration
  \/ \E w \in facts : WonByTruth(w)
  \/ \E w \in facts : WonByEvidence(w)

\* Only current facts replace others; a decision differs from its
\* classification only by being superseded, and then a request says by what.
Collecting ==
  /\ \A r \in requests : r.type = "SUPERSEDES" /\ r.from \in BaseActive
  /\ \A f \in facts : \/ decision[f].status = base[f].status
                      \/ decision[f].status = "SUPERSEDED" /\ f \in Incoming
  /\ Acyclic(ExplicitEdges) => Acyclic(Edges("SUPERSEDES"))

Conflicting ==
  /\ ~AtMostOne(conflictIds)
  /\ conflictIds \subseteq BaseActive

ConflictRaised ==
  /\ Conflicting
  /\ WithStatus("ACTIVE") = {}
  /\ Acyclic(ExplicitEdges) => Acyclic(Edges("SUPERSEDES"))
  /\ Acyclic(Edges("SUPERSEDES")) =>
       /\ requests = MakeRequests("CONFLICTS", AllPairs(conflictIds), ConflictRule)
       /\ \A f \in conflictIds : decision[f] = Decided("CONFLICTED", ConflictRule)
       /\ \A f \in facts \ conflictIds : decision[f].status \in {"PENDING", "DEPRECATED"}

Concluded ==
  IF conflictIds = {} THEN Provisional /\ Settled ELSE ConflictRaised

IInv ==
  /\ TypeOK
  /\ NeverPromoted
  /\ InputsOK
  /\ phase = "explicit" => AsClassified /\ conflictIds = {}
  /\ phase = "winner" => ByDeclaration /\ conflictIds = {}
  /\ phase = "finalize" => Provisional /\ conflictIds = {}
  /\ phase = "rollback" => Collecting /\ Conflicting /\ WithStatus("ACTIVE") \subseteq conflictIds
  /\ Resolved => Concluded
  /\ phase \in {"validate", "published"} => OutcomeIsCanonical
  /\ phase = "published" => GraphIsValid
  /\ OnlyCyclesAreRejected
-----------------------------------------------------------------------------
(* Requests and their edges *)

\* A request built from an edge names its endpoints and its rule.
LEMMA RequestOfEdge ==
  ASSUME NEW type, NEW rule, NEW edges \in SUBSET (facts \X facts),
         NEW r \in MakeRequests(type, edges, rule)
  PROVE  /\ r.type = type /\ r.rule = rule
         /\ r.from \in facts /\ r.to \in facts /\ <<r.from, r.to>> \in edges
  BY DEF MakeRequests

\* Conversely every edge has its request.
LEMMA EdgeHasRequest ==
  ASSUME NEW type, NEW rule, NEW edges \in SUBSET (facts \X facts), NEW e \in edges
  PROVE  [type |-> type, from |-> e[1], to |-> e[2], rule |-> rule]
            \in MakeRequests(type, edges, rule)
  BY DEF MakeRequests

LEMMA RequestsAreTyped ==
  ASSUME NEW type \in {"SUPERSEDES", "CONFLICTS"}, NEW rule \in Rules \union ConflictRules,
         NEW edges \in SUBSET (facts \X facts)
  PROVE  MakeRequests(type, edges, rule) \subseteq Request
  BY DEF MakeRequests, Request

\* A set without cycles has none after edges are taken away.
LEMMA AcyclicShrinks ==
  ASSUME NEW A, NEW B, A \subseteq B, Acyclic(B)
  PROVE  Acyclic(A)
  BY DEF Acyclic

-----------------------------------------------------------------------------
(* The inputs *)

\* Only current facts declare, and only plausible competitors are replaced.
LEMMA InputFacts ==
  ASSUME TypeOK, InputsOK
  PROVE  /\ ExplicitEdges \subseteq facts \X facts
         /\ \A e \in ExplicitEdges :
              e \in declared /\ e[1] \in BaseActive /\ e[1] # e[2] /\ Plausible(e[2])
         /\ \A f \in BaseActive : f \in facts /\ Plausible(f) /\ ~base[f].historical
         /\ SourceOfTruthGroups \subseteq BaseActive
         /\ CurrentGroups \subseteq BaseActive
         /\ ExplicitSources \subseteq BaseActive
         /\ \A f \in ExplicitTargets : f \in facts /\ Plausible(f)
         /\ Contradictory \subseteq BaseActive
<1>1. \A f \in facts : base[f] \in BaseDecision
  BY DEF TypeOK
<1>2. /\ ExplicitEdges \subseteq facts \X facts
      /\ \A e \in ExplicitEdges :
           e \in declared /\ e[1] \in BaseActive /\ e[1] # e[2] /\ Plausible(e[2])
  BY DEF TypeOK, InputsOK, ExplicitEdges, DropMutual
<1>3. \A f \in BaseActive : f \in facts /\ Plausible(f) /\ ~base[f].historical
  BY <1>1 DEF BaseActive, Plausible, BaseDecision
<1>4. SourceOfTruthGroups \subseteq BaseActive /\ CurrentGroups \subseteq BaseActive
  BY <1>1 DEF SourceOfTruthGroups, CurrentGroups, Remaining, BaseActive, BaseDecision
<1>5. ExplicitSources \subseteq BaseActive /\ \A f \in ExplicitTargets : f \in facts /\ Plausible(f)
  BY <1>2 DEF ExplicitSources, ExplicitTargets
<1> QED
  BY <1>2, <1>3, <1>4, <1>5 DEF Contradictory, Mutual, BaseActive

\* What is computed from the inputs alone stays as it is.
LEMMA InputsFixed ==
  ASSUME UNCHANGED inputs
  PROVE  /\ UNCHANGED <<facts, base, declared, policy>>
         /\ ExplicitEdges' = ExplicitEdges
         /\ BaseActive' = BaseActive
         /\ ExplicitSources' = ExplicitSources
         /\ ExplicitTargets' = ExplicitTargets
         /\ Mutual' = Mutual
         /\ Contradictory' = Contradictory
         /\ ConflictRule' = ConflictRule
         /\ \A f \in facts : Plausible(f)' = Plausible(f)
         /\ InputsOK' = InputsOK
  BY DEF inputs, ExplicitEdges, DropMutual, BaseActive, ExplicitSources, ExplicitTargets,
         Mutual, Contradictory, ConflictRule, Plausible, InputsOK

-----------------------------------------------------------------------------
(* Type correctness *)

LEMMA DecidedIsTyped ==
  ASSUME NEW s \in Status, NEW r \in Rules \union ConflictRules \union {"classified"}
  PROVE  Decided(s, r) \in [status : Status,
                            rule : Rules \union ConflictRules \union {"classified"}]
  BY DEF Decided

LEMMA EdgesAreTyped ==
  ASSUME TypeOK
  PROVE  /\ ExplicitEdges \in SUBSET (facts \X facts)
         /\ \A f \in facts : base[f].status \in Status
         /\ Contradictory \subseteq facts
         /\ \A type : WithStatus(type) \subseteq facts
         /\ \A f \in facts : decision[f].status \in Status
<1>1. ExplicitEdges \in SUBSET (facts \X facts)
  BY DEF TypeOK, ExplicitEdges, DropMutual
<1>2. \A f \in facts : base[f].status \in Status
  <2>1. \A f \in facts : base[f] \in BaseDecision
    BY DEF TypeOK
  <2> QED
    BY <2>1 DEF BaseDecision, Status
<1>3. \A f \in facts : decision[f].status \in Status
  BY DEF TypeOK
<1> QED
  BY <1>1, <1>2, <1>3 DEF Contradictory, Mutual, WithStatus

LEMMA InitIsTyped == Init => TypeOK
<1> SUFFICES ASSUME Init PROVE TypeOK
  OBVIOUS
<1>1. base \in [facts -> BaseDecision]
  BY BasesAssumption DEF Init
<1>2. declared \in SUBSET (facts \X facts)
  BY DEF Init
<1>3. \A f \in facts : base[f].status \in Status
  BY <1>1 DEF BaseDecision, Status
<1>4. \A f \in facts : Decided(base[f].status, "classified") \in
         [status : Status, rule : Rules \union ConflictRules \union {"classified"}]
  BY <1>3, DecidedIsTyped
<1>5. decision \in [facts -> [status : Status,
                             rule : Rules \union ConflictRules \union {"classified"}]]
  BY <1>4 DEF Init, Decided
<1> QED
  BY <1>1, <1>2, <1>5 DEF Init, TypeOK, Phases, Terminal

\* No step changes what the coordinator was given.
LEMMA StepKeepsInputs == [Next]_vars => UNCHANGED inputs /\ Request' = Request
<1>1. [Next]_vars => UNCHANGED inputs
  BY DEF Next, Step, Done, vars, inputs, ApplyExplicit, ApplyWinnerRule, ApplySourceOfTruth,
         ApplyCurrentEvidence, Win, NoWinner, Finalize, RollBack, RaiseConflicts, Construct,
         Validate
<1>2. UNCHANGED inputs => Request' = Request
  BY DEF inputs, Request
<1> QED
  BY <1>1, <1>2

LEMMA WinIsTyped ==
  ASSUME TypeOK, NEW w \in facts, NEW targets \in SUBSET facts, NEW rule \in Rules,
         Win(w, targets, rule)
  PROVE  TypeOK'
<1>1. decision' \in [facts -> [status : Status,
                              rule : Rules \union ConflictRules \union {"classified"}]]
  BY DEF Win, TypeOK, Status, Decided
<1>2. requests' \in SUBSET Request
  BY RequestsAreTyped DEF Win, TypeOK
<1>3. UNCHANGED inputs /\ Request' = Request
  BY DEF Win, inputs, Request
<1> QED
  BY <1>1, <1>2, <1>3 DEF Win, TypeOK, inputs, Phases

LEMMA StepIsTyped == TypeOK /\ [Next]_vars => TypeOK'
<1> SUFFICES ASSUME TypeOK, [Next]_vars PROVE TypeOK'
  OBVIOUS
<1>0. facts' = facts /\ Request' = Request
  BY StepKeepsInputs DEF inputs
<1> USE <1>0 DEF Phases, Terminal, Rejections
<1>1. CASE ApplyExplicit
  <2>1. decision' \in [facts -> [status : Status,
                                rule : Rules \union ConflictRules \union {"classified"}]]
    BY <1>1 DEF ApplyExplicit, TypeOK, Decided, Status, Rules
  <2>2. requests' \in SUBSET Request
    BY <1>1, EdgesAreTyped, RequestsAreTyped DEF ApplyExplicit, Rules
  <2> QED
    BY <1>1, <2>1, <2>2 DEF ApplyExplicit, TypeOK, inputs
<1>2. ASSUME NEW w \in facts, ApplySourceOfTruth(w) PROVE TypeOK'
  BY <1>2, WinIsTyped DEF ApplySourceOfTruth, SourceOfTruthCompetitors, Rules
<1>3. ASSUME NEW w \in facts, ApplyCurrentEvidence(w) PROVE TypeOK'
  BY <1>3, WinIsTyped DEF ApplyCurrentEvidence, Remaining, Rules
<1>4. CASE NoWinner
  BY <1>4 DEF NoWinner, TypeOK, inputs
<1>5. CASE Finalize
  BY <1>5, EdgesAreTyped DEF Finalize, TypeOK, inputs
<1>6. CASE RollBack
  <2>1. \A f \in facts : Decided(base[f].status, "classified") \in
           [status : Status, rule : Rules \union ConflictRules \union {"classified"}]
    BY EdgesAreTyped, DecidedIsTyped
  <2>2. decision' \in [facts -> [status : Status,
                                rule : Rules \union ConflictRules \union {"classified"}]]
    BY <1>6, <2>1 DEF RollBack, TypeOK
  <2>3. Restored \subseteq facts
    BY DEF Restored, Invalidated, TypeOK, Request
  <2> QED
    BY <1>6, <2>2, <2>3 DEF RollBack, TypeOK, inputs
<1>7. CASE RaiseConflicts
  <2>1. CASE AtMostOne(conflictIds)
    BY <1>7, <2>1 DEF RaiseConflicts, TypeOK, inputs
  <2>2. CASE ~AtMostOne(conflictIds)
    <3>1. ConflictRule \in ConflictRules
      BY DEF ConflictRule, ConflictRules
    <3>2. decision' \in [facts -> [status : Status,
                                  rule : Rules \union ConflictRules \union {"classified"}]]
      BY <1>7, <2>2, <3>1 DEF RaiseConflicts, TypeOK, Decided, Status
    <3>3. AllPairs(conflictIds) \in SUBSET (facts \X facts)
      BY DEF AllPairs, TypeOK
    <3>4. requests' \in SUBSET Request
      BY <1>7, <2>2, <3>1, <3>3, RequestsAreTyped DEF RaiseConflicts, TypeOK
    <3> QED
      BY <1>7, <3>2, <3>4 DEF RaiseConflicts, TypeOK, inputs
  <2> QED
    BY <2>1, <2>2
<1>8. CASE Construct
  BY <1>8 DEF Construct, TypeOK, inputs
<1>9. CASE Validate
  BY <1>9 DEF Validate, TypeOK, inputs
<1>10. CASE UNCHANGED vars
  BY <1>10 DEF TypeOK, vars
<1> QED
  BY <1>1, <1>2, <1>3, <1>4, <1>5, <1>6, <1>7, <1>8, <1>9, <1>10
     DEF Next, Step, ApplyWinnerRule, Done

\* Every value the coordinator holds has its type, in every instance.
THEOREM TypeCorrect == Spec => []TypeOK
  BY InitIsTyped, StepIsTyped, PTL DEF Spec

-----------------------------------------------------------------------------
(* What the rules produce *)

\* What both winner rules make sure of before w replaces T.
CanWin(w, T) ==
  /\ w \in BaseActive \ (T \union ExplicitTargets)
  /\ T \subseteq facts \ (ExplicitSources \union ExplicitTargets)
  /\ T # {}
  /\ \A f \in T : Plausible(f)

LEMMA TruthCanWin ==
  ASSUME TypeOK, InputsOK, NEW w \in facts, SourceOfTruthApplies(w)
  PROVE  CanWin(w, SourceOfTruthCompetitors(w))
  BY InputFacts DEF SourceOfTruthApplies, SourceOfTruthCompetitors, Governed, CanWin, BaseActive

LEMMA EvidenceCanWin ==
  ASSUME TypeOK, InputsOK, NEW w \in facts, CurrentEvidenceApplies(w)
  PROVE  CanWin(w, Remaining \ {w})
<1>1. w \in CurrentGroups /\ w \in Remaining
  BY DEF CurrentEvidenceApplies, CurrentGroups
<1>2. Remaining \ {w} # {}
  BY <1>1 DEF CurrentEvidenceApplies
<1> QED
  BY <1>1, <1>2, InputFacts DEF CurrentEvidenceApplies, Remaining, Governed, CanWin

LEMMA ProvisionalIsWon ==
  ASSUME TypeOK, InputsOK, Provisional
  PROVE  \/ ByDeclaration
         \/ \E w \in facts, T \in SUBSET facts, rule \in Rules :
              CanWin(w, T) /\ WonBy(w, T, rule)
<1>1. CASE \E w \in facts : WonByTruth(w)
  <2>1. PICK w \in facts : WonByTruth(w)
    BY <1>1
  <2>2. CanWin(w, SourceOfTruthCompetitors(w))
    BY <2>1, TruthCanWin DEF WonByTruth
  <2>3. WonBy(w, SourceOfTruthCompetitors(w), "source_of_truth")
    BY <2>1 DEF WonByTruth
  <2>4. SourceOfTruthCompetitors(w) \in SUBSET facts /\ "source_of_truth" \in Rules
    BY DEF SourceOfTruthCompetitors, Rules
  <2> QED
    BY <2>2, <2>3, <2>4
<1>2. CASE \E w \in facts : WonByEvidence(w)
  <2>1. PICK w \in facts : WonByEvidence(w)
    BY <1>2
  <2>2. CanWin(w, Remaining \ {w})
    BY <2>1, EvidenceCanWin DEF WonByEvidence
  <2>3. WonBy(w, Remaining \ {w}, "current_over_historical")
    BY <2>1 DEF WonByEvidence
  <2>4. Remaining \ {w} \in SUBSET facts /\ "current_over_historical" \in Rules
    BY DEF Remaining, Rules
  <2> QED
    BY <2>2, <2>3, <2>4
<1> QED
  BY <1>1, <1>2 DEF Provisional

\* The replacement graph is the declared edges and the winner's.
LEMMA EdgesOfDeclaration ==
  ASSUME TypeOK, ByDeclaration
  PROVE  Edges("SUPERSEDES") = ExplicitEdges
<1>1. ExplicitEdges \in SUBSET (facts \X facts)
  BY EdgesAreTyped
<1>2. \A r \in requests : <<r.from, r.to>> \in ExplicitEdges
  BY <1>1, RequestOfEdge DEF ByDeclaration, ExplicitRequests
<1>3. \A e \in ExplicitEdges :
        \E r \in requests : r.type = "SUPERSEDES" /\ <<r.from, r.to>> = e
  <2> SUFFICES ASSUME NEW e \in ExplicitEdges
               PROVE \E r \in requests : r.type = "SUPERSEDES" /\ <<r.from, r.to>> = e
    OBVIOUS
  <2>1. [type |-> "SUPERSEDES", from |-> e[1], to |-> e[2], rule |-> "explicit_supersedes"]
          \in requests
    BY <1>1, EdgeHasRequest DEF ByDeclaration, ExplicitRequests
  <2> QED
    BY <2>1, <1>1
<1> QED
  BY <1>2, <1>3 DEF Edges

LEMMA EdgesOfWin ==
  ASSUME TypeOK, NEW w \in facts, NEW T \in SUBSET facts, NEW rule, WonBy(w, T, rule)
  PROVE  Edges("SUPERSEDES") = ExplicitEdges \union ({w} \X T)
<1> DEFINE all == ExplicitEdges \union ({w} \X T)
<1>1. ExplicitEdges \in SUBSET (facts \X facts) /\ {w} \X T \in SUBSET (facts \X facts)
  BY EdgesAreTyped
<1>2. \A r \in requests : <<r.from, r.to>> \in all
  <2> SUFFICES ASSUME NEW r \in requests PROVE <<r.from, r.to>> \in all
    OBVIOUS
  <2>1. \/ r \in MakeRequests("SUPERSEDES", ExplicitEdges, "explicit_supersedes")
        \/ r \in MakeRequests("SUPERSEDES", {w} \X T, rule)
    BY DEF WonBy, ExplicitRequests
  <2> QED
    BY <2>1, <1>1, RequestOfEdge
<1>3. \A e \in all : \E r \in requests : r.type = "SUPERSEDES" /\ <<r.from, r.to>> = e
  <2> SUFFICES ASSUME NEW e \in all
               PROVE \E r \in requests : r.type = "SUPERSEDES" /\ <<r.from, r.to>> = e
    OBVIOUS
  <2>1. CASE e \in ExplicitEdges
    <3>1. [type |-> "SUPERSEDES", from |-> e[1], to |-> e[2], rule |-> "explicit_supersedes"]
            \in requests
      BY <1>1, <2>1, EdgeHasRequest DEF WonBy, ExplicitRequests
    <3> QED
      BY <3>1, <2>1, <1>1
  <2>2. CASE e \in {w} \X T
    <3>1. [type |-> "SUPERSEDES", from |-> e[1], to |-> e[2], rule |-> rule] \in requests
      BY <1>1, <2>2, EdgeHasRequest DEF WonBy
    <3> QED
      BY <3>1, <2>2, <1>1
  <2> QED
    BY <2>1, <2>2
<1> QED
  BY <1>2, <1>3 DEF Edges

\* The winner is replaced by nobody and its targets declare nothing, so the
\* winner's edges close no cycle.
LEMMA WinAddsNoCycle ==
  ASSUME TypeOK, NEW w \in facts, NEW T \in SUBSET facts, CanWin(w, T), Acyclic(ExplicitEdges)
  PROVE  Acyclic(ExplicitEdges \union ({w} \X T))
<1> SUFFICES ASSUME NEW S \in (SUBSET facts) \ {{}}
             PROVE \E x \in S : \A y \in S : <<y, x>> \notin ExplicitEdges \union ({w} \X T)
  BY DEF Acyclic
<1>1. CASE w \in S
  <2>1. \A y \in S : <<y, w>> \notin ExplicitEdges
    BY DEF CanWin, ExplicitTargets
  <2>2. \A y \in S : <<y, w>> \notin {w} \X T
    BY DEF CanWin
  <2> QED
    BY <1>1, <2>1, <2>2
<1>2. CASE w \notin S
  BY <1>2 DEF Acyclic
<1> QED
  BY <1>1, <1>2

LEMMA DeclaredRequests ==
  ASSUME TypeOK, InputsOK, NEW r \in ExplicitRequests
  PROVE  /\ r.type = "SUPERSEDES" /\ r.rule = "explicit_supersedes"
         /\ <<r.from, r.to>> \in ExplicitEdges
         /\ r.from \in BaseActive /\ r.to \in facts /\ Plausible(r.to)
<1>1. /\ r.type = "SUPERSEDES" /\ r.rule = "explicit_supersedes"
      /\ r.from \in facts /\ r.to \in facts
      /\ <<r.from, r.to>> \in ExplicitEdges
  BY EdgesAreTyped, RequestOfEdge DEF ExplicitRequests
<1>2. <<r.from, r.to>>[1] \in BaseActive /\ Plausible(<<r.from, r.to>>[2])
  BY <1>1, InputFacts
<1> QED
  BY <1>1, <1>2

LEMMA ProvisionalIsCollecting ==
  ASSUME TypeOK, InputsOK, Provisional
  PROVE  /\ Collecting
         /\ \A f \in facts : decision[f].status = "SUPERSEDED" => Plausible(f)
<1>0. /\ \A e \in ExplicitEdges : e[1] \in BaseActive
      /\ ExplicitEdges \in SUBSET (facts \X facts)
      /\ \A f \in ExplicitTargets : Plausible(f)
      /\ ExplicitSources \subseteq BaseActive
  BY InputFacts
<1>00. \A f \in facts : base[f].status # "SUPERSEDED"
  BY DEF TypeOK, BaseDecision
<1>1. CASE ByDeclaration
  <2>1. \A r \in requests : r.type = "SUPERSEDES" /\ r.from \in BaseActive
    BY <1>1, DeclaredRequests DEF ByDeclaration
  <2>2. Edges("SUPERSEDES") = ExplicitEdges
    BY <1>1, EdgesOfDeclaration
  <2>3. ASSUME NEW f \in facts
        PROVE  /\ \/ decision[f].status = base[f].status
                  \/ decision[f].status = "SUPERSEDED" /\ f \in Incoming
               /\ decision[f].status = "SUPERSEDED" => f \in ExplicitTargets
    <3>1. decision[f] = ByDeclarationOf(f)
      BY <1>1 DEF ByDeclaration
    <3>2. f \in ExplicitTargets => f \in Incoming
      BY <2>2 DEF Incoming, ExplicitTargets
    <3>3. f \in ExplicitSources => base[f].status = "ACTIVE"
      BY <1>0 DEF BaseActive
    <3> QED
      BY <3>1, <3>2, <3>3, <1>00 DEF ByDeclarationOf, Decided
  <2> QED
    BY <2>1, <2>2, <2>3, <1>0 DEF Collecting
<1>2. ASSUME NEW w \in facts, NEW T \in SUBSET facts, NEW rule \in Rules,
             CanWin(w, T), WonBy(w, T, rule)
      PROVE  /\ Collecting
             /\ \A f \in facts : decision[f].status = "SUPERSEDED" => Plausible(f)
  <2>0. {w} \X T \in SUBSET (facts \X facts)
    OBVIOUS
  <2>1. \A r \in requests : r.type = "SUPERSEDES" /\ r.from \in BaseActive
    <3> SUFFICES ASSUME NEW r \in requests PROVE r.type = "SUPERSEDES" /\ r.from \in BaseActive
      OBVIOUS
    <3>1. CASE r \in ExplicitRequests
      BY <3>1, DeclaredRequests
    <3>2. CASE r \in MakeRequests("SUPERSEDES", {w} \X T, rule)
      <4>1. r.type = "SUPERSEDES" /\ <<r.from, r.to>> \in {w} \X T
        BY <3>2, <2>0, RequestOfEdge
      <4> QED
        BY <4>1, <1>2 DEF CanWin
    <3> QED
      BY <3>1, <3>2, <1>2 DEF WonBy
  <2>2. Edges("SUPERSEDES") = ExplicitEdges \union ({w} \X T)
    BY <1>2, EdgesOfWin
  <2>3. ExplicitTargets \union T \subseteq Incoming
    <3>1. ExplicitTargets \subseteq Incoming
      BY <2>2 DEF Incoming, ExplicitTargets
    <3>2. \A f \in T : <<w, f>> \in Edges("SUPERSEDES") /\ <<w, f>>[2] = f
      BY <2>2
    <3> QED
      BY <3>1, <3>2 DEF Incoming
  <2>4. ASSUME NEW f \in facts
        PROVE  /\ \/ decision[f].status = base[f].status
                  \/ decision[f].status = "SUPERSEDED" /\ f \in Incoming
               /\ decision[f].status = "SUPERSEDED" => f \in T \union ExplicitTargets
    <3>1. decision[f] = IF f \in T THEN Decided("SUPERSEDED", rule)
                        ELSE IF f = w /\ w \notin ExplicitSources THEN Decided("ACTIVE", rule)
                        ELSE ByDeclarationOf(f)
      BY <1>2 DEF WonBy
    <3>2. CASE f \in T \union ExplicitTargets
      <4>1. decision[f].status = "SUPERSEDED"
        BY <3>1, <3>2, <1>2 DEF ByDeclarationOf, Decided, CanWin
      <4> QED
        BY <3>2, <4>1, <2>3
    <3>3. CASE f \notin T \union ExplicitTargets
      <4>1. base[w].status = "ACTIVE"
        BY <1>2 DEF CanWin, BaseActive
      <4>2. f \in ExplicitSources => base[f].status = "ACTIVE"
        BY <1>0 DEF BaseActive
      <4> QED
        BY <3>1, <3>3, <4>1, <4>2, <1>00 DEF ByDeclarationOf, Decided
    <3> QED
      BY <3>2, <3>3
  <2>6. Acyclic(ExplicitEdges) => Acyclic(Edges("SUPERSEDES"))
    BY <1>2, <2>2, WinAddsNoCycle
  <2> QED
    BY <2>1, <2>4, <2>6, <1>0, <1>2 DEF Collecting, CanWin
<1> QED
  BY <1>1, <1>2, ProvisionalIsWon

-----------------------------------------------------------------------------
(* What the rules produce passes both validations *)

\* A request for a replacement that its rule explains and the decisions carry.
Accepted(r) ==
  /\ decision[r.to] = Decided("SUPERSEDED", r.rule)
  /\ r.from \in WithStatus("ACTIVE") \union ExplicitTargets

LEMMA DecidedStatus ==
  ASSUME NEW f \in facts, NEW s, NEW r, decision[f] = Decided(s, r)
  PROVE  decision[f].status = s /\ decision[f].rule = r /\ f \in WithStatus(s)
  BY DEF Decided, WithStatus

LEMMA WinDecisions ==
  ASSUME TypeOK, InputsOK, NEW w \in facts, NEW T \in SUBSET facts, NEW rule \in Rules,
         CanWin(w, T), WonBy(w, T, rule)
  PROVE  /\ \A f \in T : decision[f] = Decided("SUPERSEDED", rule)
         /\ \A f \in ExplicitTargets : decision[f] = Decided("SUPERSEDED", "explicit_supersedes")
         /\ \A f \in ExplicitSources \ ExplicitTargets :
              decision[f] = Decided("ACTIVE", "explicit_supersedes")
         /\ w \notin ExplicitSources => decision[w] = Decided("ACTIVE", rule)
<1>1. ExplicitSources \subseteq facts /\ ExplicitTargets \subseteq facts
  BY InputFacts DEF BaseActive
<1>2. w \notin T \union ExplicitTargets
  BY DEF CanWin
<1>3. \A f \in ExplicitSources \union ExplicitTargets : f \notin T
  BY DEF CanWin
<1>4. \A f \in facts :
        decision[f] = IF f \in T THEN Decided("SUPERSEDED", rule)
                      ELSE IF f = w /\ w \notin ExplicitSources THEN Decided("ACTIVE", rule)
                      ELSE ByDeclarationOf(f)
  BY DEF WonBy
<1> QED
  BY <1>1, <1>2, <1>3, <1>4 DEF ByDeclarationOf

LEMMA WinIsAccepted ==
  ASSUME TypeOK, InputsOK, NEW w \in facts, NEW T \in SUBSET facts, NEW rule \in Rules,
         CanWin(w, T), WonBy(w, T, rule), NEW r \in requests
  PROVE  /\ Accepted(r)
         /\ Plausible(r.to)
         /\ \/ r \in ExplicitRequests
            \/ r.rule = rule /\ r.from = w /\ r.to \in T
<1>1. CASE r \in ExplicitRequests
  <2>1. r.rule = "explicit_supersedes" /\ <<r.from, r.to>> \in ExplicitEdges /\ Plausible(r.to)
    BY <1>1, DeclaredRequests
  <2>2. <<r.from, r.to>>[1] \in ExplicitSources /\ <<r.from, r.to>>[2] \in ExplicitTargets
    BY <2>1 DEF ExplicitSources, ExplicitTargets
  <2>3. r.from \in facts
    BY <1>1, DeclaredRequests, InputFacts
  <2>4. r.from \notin ExplicitTargets => r.from \in WithStatus("ACTIVE")
    BY <2>2, <2>3, WinDecisions, DecidedStatus
  <2> QED
    BY <1>1, <2>1, <2>2, <2>4, WinDecisions DEF Accepted
<1>2. CASE r \in MakeRequests("SUPERSEDES", {w} \X T, rule)
  <2>1. r.rule = rule /\ <<r.from, r.to>> \in {w} \X T
    BY <1>2, RequestOfEdge
  <2>2. w \in WithStatus("ACTIVE")
    <3>1. CASE w \in ExplicitSources
      BY <3>1, WinDecisions, DecidedStatus DEF CanWin
    <3>2. CASE w \notin ExplicitSources
      BY <3>2, WinDecisions, DecidedStatus
    <3> QED
      BY <3>1, <3>2
  <2> QED
    BY <2>1, <2>2, WinDecisions DEF Accepted, CanWin
<1> QED
  BY <1>1, <1>2 DEF WonBy

LEMMA WinRequestedBy ==
  ASSUME TypeOK, InputsOK, NEW w \in facts, NEW T \in SUBSET facts,
         NEW rule \in {"source_of_truth", "current_over_historical"},
         CanWin(w, T), WonBy(w, T, rule)
  PROVE  /\ RequestedBy(rule) = {w} \X T
         /\ \A other \in {"source_of_truth", "current_over_historical"} \ {rule} :
              RequestedBy(other) = {}
<1>0. {w} \X T \in SUBSET (facts \X facts) /\ rule \in Rules
  BY DEF Rules
<1>1. \A r \in requests :
        \/ r.rule = "explicit_supersedes"
        \/ r.rule = rule /\ <<r.from, r.to>> \in {w} \X T
  <2> SUFFICES ASSUME NEW r \in requests
               PROVE \/ r.rule = "explicit_supersedes"
                     \/ r.rule = rule /\ <<r.from, r.to>> \in {w} \X T
    OBVIOUS
  <2>1. CASE r \in ExplicitRequests
    BY <2>1, DeclaredRequests
  <2>2. CASE r \notin ExplicitRequests
    BY <2>2, <1>0, WinIsAccepted
  <2> QED
    BY <2>1, <2>2
<1>2. \A e \in {w} \X T : \E r \in requests : r.rule = rule /\ <<r.from, r.to>> = e
  <2> SUFFICES ASSUME NEW e \in {w} \X T
               PROVE \E r \in requests : r.rule = rule /\ <<r.from, r.to>> = e
    OBVIOUS
  <2>1. [type |-> "SUPERSEDES", from |-> e[1], to |-> e[2], rule |-> rule] \in requests
    BY <1>0, EdgeHasRequest DEF WonBy
  <2> QED
    BY <2>1
<1> QED
  BY <1>1, <1>2 DEF RequestedBy

LEMMA ExplicitSourceHasRequest ==
  ASSUME TypeOK, InputsOK, NEW f \in ExplicitSources
  PROVE  \E r \in ExplicitRequests : r.from = f /\ r.rule = "explicit_supersedes"
<1>1. PICK e \in ExplicitEdges : e[1] = f
  BY DEF ExplicitSources
<1>2. [type |-> "SUPERSEDES", from |-> e[1], to |-> e[2], rule |-> "explicit_supersedes"]
        \in ExplicitRequests
  BY EdgesAreTyped, EdgeHasRequest DEF ExplicitRequests
<1> QED
  BY <1>1, <1>2

LEMMA RequestSource ==
  ASSUME TypeOK, InputsOK, NEW r \in ExplicitRequests
  PROVE  r.from \in ExplicitSources /\ r.to \in ExplicitTargets
<1>1. <<r.from, r.to>> \in ExplicitEdges
  BY DeclaredRequests
<1>2. <<r.from, r.to>>[1] \in ExplicitSources /\ <<r.from, r.to>>[2] \in ExplicitTargets
  BY <1>1 DEF ExplicitSources, ExplicitTargets
<1> QED
  BY <1>2

LEMMA PriorityOrder ==
  ASSUME NEW r \in Rules
  PROVE  /\ Priority(r) =< Priority(r)
         /\ Priority("explicit_supersedes") =< Priority(r)
  BY DEF Priority, Rules

LEMMA WinPrimaryRules ==
  ASSUME TypeOK, InputsOK, NEW w \in facts, NEW T \in SUBSET facts, NEW rule \in Rules,
         CanWin(w, T), WonBy(w, T, rule)
  PROVE  PrimaryRulesHold
<1> SUFFICES ASSUME NEW f \in Outgoing
             PROVE /\ \E r \in requests : /\ r.type = "SUPERSEDES" /\ r.from = f
                                          /\ r.rule = decision[f].rule
                   /\ \A r \in requests : r.type = "SUPERSEDES" /\ r.from = f
                        => Priority(decision[f].rule) =< Priority(r.rule)
  BY DEF PrimaryRulesHold
<1>1. \A r \in requests : r.rule \in Rules
  BY WinIsAccepted, DeclaredRequests DEF Rules
<1>2. CASE f \in ExplicitSources
  <2>1. f \in facts
    BY <1>2, InputFacts DEF BaseActive
  <2>2. decision[f].rule = "explicit_supersedes"
    BY <1>2, <2>1, WinDecisions, DecidedStatus
  <2>3. \E r \in requests : /\ r.type = "SUPERSEDES" /\ r.from = f
                            /\ r.rule = "explicit_supersedes"
    BY <1>2, ExplicitSourceHasRequest, DeclaredRequests DEF WonBy
  <2> QED
    BY <2>2, <2>3, <1>1, PriorityOrder
<1>3. CASE f \notin ExplicitSources
  <2>1. \A r \in requests : r.from = f => r.rule = rule /\ f = w
    BY <1>3, WinIsAccepted, RequestSource
  <2>2. \E r \in requests : r.type = "SUPERSEDES" /\ r.from = f
    BY DEF Outgoing, Edges
  <2>3. decision[f].rule = rule
    BY <1>3, <2>1, <2>2, WinDecisions, DecidedStatus
  <2> QED
    BY <2>1, <2>2, <2>3, PriorityOrder
<1> QED
  BY <1>2, <1>3

\* Nothing is in conflict as long as only the rules have been applied.
LEMMA NoConflictYet ==
  ASSUME TypeOK, InputsOK, Provisional
  PROVE  ConflictsAreComplete
<1>1. Collecting
  BY ProvisionalIsCollecting
<1>2. \A f \in facts : base[f].status # "CONFLICTED"
  BY DEF TypeOK, BaseDecision
<1>3. WithStatus("CONFLICTED") = {}
  BY <1>1, <1>2 DEF WithStatus, Collecting
<1>4. \A r \in requests : r.type # "CONFLICTS"
  BY <1>1 DEF Collecting
<1>5. Edges("CONFLICTS") = {}
  BY <1>4 DEF Edges
<1> QED
  BY <1>3, <1>4, <1>5 DEF ConflictsAreComplete, AllPairs

\* A winner rule has put every request where PredicateOutcome wants it.
LEMMA WinIsCanonical ==
  ASSUME TypeOK, InputsOK, Provisional, Settled,
         NEW w \in facts, NEW T \in SUBSET facts,
         NEW rule \in {"source_of_truth", "current_over_historical"},
         CanWin(w, T), WonBy(w, T, rule), WinnerRulesHold,
         \A r \in requests : r.rule = rule => CanonicalSupersedes(r)
  PROVE  OutcomeIsCanonical
<1>0. rule \in Rules
  BY DEF Rules
<1>1. Edges("SUPERSEDES") = ExplicitEdges \union ({w} \X T)
  BY <1>0, EdgesOfWin
<1>2. ExplicitTargets \subseteq Incoming
  BY <1>1 DEF Incoming, ExplicitTargets
<1>3. ASSUME NEW r \in requests
      PROVE /\ CanonicalSupersedes(r)
            /\ decision[r.to].status = "SUPERSEDED"
            /\ decision[r.from].status = "ACTIVE" \/ r.from \in Incoming
  <2>1. Accepted(r) /\ Plausible(r.to)
    BY <1>0, WinIsAccepted
  <2>2. CanonicalSupersedes(r)
    <3>1. CASE r \in ExplicitRequests
      <4>1. <<r.from, r.to>> \in ExplicitEdges /\ r.rule = "explicit_supersedes"
        BY <3>1, DeclaredRequests
      <4> QED
        BY <4>1, <2>1, InputFacts DEF CanonicalSupersedes, Accepted, Decided
    <3>2. CASE r \notin ExplicitRequests
      BY <3>2, <1>0, WinIsAccepted
    <3> QED
      BY <3>1, <3>2
  <2> QED
    BY <2>1, <2>2, <1>2 DEF Accepted, Decided, WithStatus
<1>4. PrimaryRulesHold
  BY <1>0, WinPrimaryRules
<1>5. WithStatus("SUPERSEDED") \subseteq Incoming
  <2>1. \A f \in facts : base[f].status # "SUPERSEDED"
    BY DEF TypeOK, BaseDecision
  <2> QED
    BY <2>1, ProvisionalIsCollecting DEF WithStatus, Collecting
<1> QED
  BY <1>3, <1>4, <1>5, NoConflictYet DEF OutcomeIsCanonical

LEMMA TruthIsCanonical ==
  ASSUME TypeOK, InputsOK, Provisional, Settled, NEW w \in facts, WonByTruth(w)
  PROVE  OutcomeIsCanonical
<1> DEFINE T == SourceOfTruthCompetitors(w)
           rule == "source_of_truth"
<1>1. /\ T \in SUBSET facts
      /\ rule \in {"source_of_truth", "current_over_historical"} /\ rule \in Rules
  BY DEF SourceOfTruthCompetitors, Rules
<1>2. SourceOfTruthApplies(w) /\ CanWin(w, T) /\ WonBy(w, T, rule)
  BY TruthCanWin DEF WonByTruth
<1>3. RequestedBy("source_of_truth") = {w} \X T /\ RequestedBy("current_over_historical") = {}
  BY <1>1, <1>2, WinRequestedBy
<1>4. WinnerRulesHold
  BY <1>2, <1>3 DEF WinnerRulesHold, Settled
<1>5. base[w].sot /\ policy.sot
  BY <1>2 DEF SourceOfTruthApplies, SourceOfTruthGroups, InputsOK
<1>6. \A r \in requests : r.rule = rule => CanonicalSupersedes(r)
  <2> SUFFICES ASSUME NEW r \in requests, r.rule = rule PROVE CanonicalSupersedes(r)
    OBVIOUS
  <2>1. Accepted(r) /\ Plausible(r.to)
    BY <1>1, <1>2, WinIsAccepted
  <2>2. r \notin ExplicitRequests
    BY DeclaredRequests
  <2>3. r.from = w
    BY <1>1, <1>2, <2>2, WinIsAccepted
  <2> QED
    BY <2>1, <2>3, <1>5 DEF Accepted, Decided, CanonicalSupersedes
<1> HIDE DEF T, rule
<1> QED
  BY <1>1, <1>2, <1>4, <1>6, WinIsCanonical

LEMMA EvidenceIsCanonical ==
  ASSUME TypeOK, InputsOK, Provisional, Settled, NEW w \in facts, WonByEvidence(w)
  PROVE  OutcomeIsCanonical
<1> DEFINE T == Remaining \ {w}
           rule == "current_over_historical"
<1>1. /\ T \in SUBSET facts
      /\ rule \in {"source_of_truth", "current_over_historical"} /\ rule \in Rules
  BY DEF Remaining, Rules
<1>2. CurrentEvidenceApplies(w) /\ CanWin(w, T) /\ WonBy(w, T, rule)
  BY EvidenceCanWin DEF WonByEvidence
<1>3. RequestedBy("current_over_historical") = {w} \X T /\ RequestedBy("source_of_truth") = {}
  BY <1>1, <1>2, WinRequestedBy
<1>4. WinnerRulesHold
  BY <1>2, <1>3 DEF WinnerRulesHold, Settled
<1>5. base[w].cur /\ policy.current /\ \A f \in T : base[f].historical
  BY <1>2 DEF CurrentEvidenceApplies, CurrentGroups
<1>6. \A r \in requests : r.rule = rule => CanonicalSupersedes(r)
  <2> SUFFICES ASSUME NEW r \in requests, r.rule = rule PROVE CanonicalSupersedes(r)
    OBVIOUS
  <2>1. Accepted(r) /\ Plausible(r.to)
    BY <1>1, <1>2, WinIsAccepted
  <2>2. r \notin ExplicitRequests
    BY DeclaredRequests
  <2>3. r.from = w /\ r.to \in T
    BY <1>1, <1>2, <2>2, WinIsAccepted
  <2> QED
    BY <2>1, <2>3, <1>5 DEF Accepted, Decided, CanonicalSupersedes
<1> HIDE DEF T, rule
<1> QED
  BY <1>1, <1>2, <1>4, <1>6, WinIsCanonical

LEMMA DeclarationIsCanonical ==
  ASSUME TypeOK, InputsOK, Provisional, Settled, ByDeclaration
  PROVE  OutcomeIsCanonical
<1>1. /\ \A f \in ExplicitTargets : f \in facts /\ decision[f] = Decided("SUPERSEDED", "explicit_supersedes")
      /\ \A f \in ExplicitSources \ ExplicitTargets :
           f \in facts /\ decision[f] = Decided("ACTIVE", "explicit_supersedes")
  BY InputFacts DEF ByDeclaration, ByDeclarationOf, BaseActive
<1>2. ExplicitTargets \subseteq Incoming
  BY EdgesOfDeclaration DEF Incoming, ExplicitTargets
<1>3. ASSUME NEW r \in requests
      PROVE /\ CanonicalSupersedes(r)
            /\ decision[r.to].status = "SUPERSEDED"
            /\ decision[r.from].status = "ACTIVE" \/ r.from \in Incoming
            /\ decision[r.from].rule = "explicit_supersedes"
  <2>1. r \in ExplicitRequests
    BY DEF ByDeclaration
  <2>2. /\ r.rule = "explicit_supersedes" /\ <<r.from, r.to>> \in declared /\ Plausible(r.to)
        /\ r.from \in ExplicitSources /\ r.to \in ExplicitTargets
    BY <2>1, DeclaredRequests, RequestSource, InputFacts
  <2> QED
    BY <2>2, <1>1, <1>2 DEF CanonicalSupersedes, Decided
<1>4. PrimaryRulesHold
  <2> SUFFICES ASSUME NEW f \in Outgoing
               PROVE /\ \E r \in requests : /\ r.type = "SUPERSEDES" /\ r.from = f
                                            /\ r.rule = decision[f].rule
                     /\ \A r \in requests : r.type = "SUPERSEDES" /\ r.from = f
                          => Priority(decision[f].rule) =< Priority(r.rule)
    BY DEF PrimaryRulesHold
  <2>1. \E r \in requests : r.type = "SUPERSEDES" /\ r.from = f
    BY DEF Outgoing, Edges
  <2>2. \A r \in requests : r.rule = "explicit_supersedes"
    BY DeclaredRequests DEF ByDeclaration
  <2> QED
    BY <2>1, <2>2, <1>3, PriorityOrder DEF Rules
<1>5. WinnerRulesHold
  <2>1. \A r \in requests : r.rule = "explicit_supersedes"
    BY DeclaredRequests DEF ByDeclaration
  <2>2. RequestedBy("source_of_truth") = {} /\ RequestedBy("current_over_historical") = {}
    BY <2>1 DEF RequestedBy
  <2> QED
    BY <2>2 DEF WinnerRulesHold, Settled
<1>6. WithStatus("SUPERSEDED") \subseteq Incoming
  <2>1. \A f \in facts : base[f].status # "SUPERSEDED"
    BY DEF TypeOK, BaseDecision
  <2> QED
    BY <2>1, ProvisionalIsCollecting DEF WithStatus, Collecting
<1> QED
  BY <1>3, <1>4, <1>5, <1>6, NoConflictYet DEF OutcomeIsCanonical

LEMMA SettledIsCanonical ==
  ASSUME TypeOK, InputsOK, Provisional, Settled
  PROVE  OutcomeIsCanonical
  BY TruthIsCanonical, EvidenceIsCanonical, DeclarationIsCanonical DEF Provisional

\* What PredicateOutcome accepts is a valid graph unless it has a cycle.
LEMMA CanonicalIsValid ==
  ASSUME TypeOK, OutcomeIsCanonical, Acyclic(Edges("SUPERSEDES"))
  PROVE  GraphIsValid
<1>1. \A f \in Incoming : decision[f].status = "SUPERSEDED"
  BY DEF OutcomeIsCanonical, Incoming, Edges
<1>2. \A f \in Outgoing : decision[f].status \in {"ACTIVE", "SUPERSEDED"}
  BY <1>1 DEF OutcomeIsCanonical, Outgoing, Edges
<1> QED
  BY <1>1, <1>2 DEF OutcomeIsCanonical, ConflictsAreComplete, GraphIsValid,
                    StatusesMatchRelations, WithStatus

LEMMA ConflictIsCanonical ==
  ASSUME TypeOK, ConflictRaised, Acyclic(Edges("SUPERSEDES"))
  PROVE  OutcomeIsCanonical /\ Edges("SUPERSEDES") = {}
<1>1. /\ requests = MakeRequests("CONFLICTS", AllPairs(conflictIds), ConflictRule)
      /\ \A f \in conflictIds : decision[f] = Decided("CONFLICTED", ConflictRule)
      /\ \A f \in facts \ conflictIds : decision[f].status \in {"PENDING", "DEPRECATED"}
  BY DEF ConflictRaised
<1>2. AllPairs(conflictIds) \in SUBSET (facts \X facts) /\ conflictIds \subseteq facts
  BY DEF AllPairs, TypeOK
<1>3. ConflictRule \in ConflictRules
  BY DEF ConflictRule, ConflictRules
<1>4. \A r \in requests : /\ r.type = "CONFLICTS" /\ r.rule = ConflictRule
                          /\ <<r.from, r.to>> \in AllPairs(conflictIds)
                          /\ r.from \in conflictIds /\ r.to \in conflictIds
  <2> SUFFICES ASSUME NEW r \in requests
               PROVE /\ r.type = "CONFLICTS" /\ r.rule = ConflictRule
                     /\ <<r.from, r.to>> \in AllPairs(conflictIds)
                     /\ r.from \in conflictIds /\ r.to \in conflictIds
    OBVIOUS
  <2>1. r.type = "CONFLICTS" /\ r.rule = ConflictRule /\ <<r.from, r.to>> \in AllPairs(conflictIds)
    BY <1>1, <1>2, RequestOfEdge
  <2> QED
    BY <2>1 DEF AllPairs
<1>5. Edges("SUPERSEDES") = {}
  BY <1>4 DEF Edges
<1>6. Edges("CONFLICTS") = AllPairs(conflictIds)
  <2>1. \A e \in AllPairs(conflictIds) : \E r \in requests : <<r.from, r.to>> = e
    <3> SUFFICES ASSUME NEW e \in AllPairs(conflictIds)
                 PROVE \E r \in requests : <<r.from, r.to>> = e
      OBVIOUS
    <3>1. [type |-> "CONFLICTS", from |-> e[1], to |-> e[2], rule |-> ConflictRule] \in requests
      BY <1>1, <1>2, EdgeHasRequest
    <3> QED
      BY <3>1, <1>2
  <2> QED
    BY <2>1, <1>4 DEF Edges
<1>7. WithStatus("CONFLICTED") = conflictIds
  BY <1>1, <1>2 DEF WithStatus, Decided
<1>8. WithStatus("SUPERSEDED") = {} /\ WithStatus("ACTIVE") = {}
  BY <1>1, <1>2 DEF WithStatus, Decided
<1>9. conflictIds = {e[1] : e \in AllPairs(conflictIds)}
  <2>1. \A f \in conflictIds : \E g \in conflictIds : f # g
    BY DEF ConflictRaised, Conflicting, AtMostOne
  <2>2. \A f \in conflictIds : \E e \in AllPairs(conflictIds) : f = e[1]
    <3> SUFFICES ASSUME NEW f \in conflictIds
                 PROVE \E e \in AllPairs(conflictIds) : f = e[1]
      OBVIOUS
    <3>1. PICK g \in conflictIds : f # g
      BY <2>1
    <3>2. <<f, g>> \in AllPairs(conflictIds) /\ f = <<f, g>>[1]
      BY <3>1 DEF AllPairs
    <3> QED
      BY <3>2
  <2> QED
    BY <2>2 DEF AllPairs
<1>10. ConflictsAreComplete
  <2>1. \A r \in requests : r.type = "CONFLICTS" =>
          /\ r.rule \in ConflictRules
          /\ \A f \in {r.from, r.to} : decision[f] = Decided("CONFLICTED", r.rule)
    BY <1>1, <1>3, <1>4
  <2>2. Edges("CONFLICTS") = AllPairs(WithStatus("CONFLICTED"))
    BY <1>6, <1>7
  <2>3. WithStatus("CONFLICTED") = {e[1] : e \in Edges("CONFLICTS")}
    BY <1>6, <1>7, <1>9
  <2> QED
    BY <1>8, <2>1, <2>2, <2>3 DEF ConflictsAreComplete
<1>11. PrimaryRulesHold
  BY <1>5 DEF PrimaryRulesHold, Outgoing
<1>12. WinnerRulesHold
  <2>1. RequestedBy("source_of_truth") = {} /\ RequestedBy("current_over_historical") = {}
    BY <1>3, <1>4 DEF RequestedBy, ConflictRules
  <2> QED
    BY <2>1, <1>8 DEF WinnerRulesHold, AtMostOne
<1> QED
  BY <1>4, <1>5, <1>8, <1>10, <1>11, <1>12 DEF OutcomeIsCanonical

\* Without a cycle of declarations, whatever the coordinator concluded passes.
LEMMA ConcludedPasses ==
  TypeOK /\ InputsOK /\ Concluded /\ Acyclic(ExplicitEdges) => OutcomeIsCanonical /\ GraphIsValid
<1> SUFFICES ASSUME TypeOK, InputsOK, Concluded, Acyclic(ExplicitEdges)
             PROVE  OutcomeIsCanonical /\ GraphIsValid
  OBVIOUS
<1>1. CASE conflictIds = {}
  <2>1. Provisional /\ Settled
    BY <1>1 DEF Concluded
  <2>2. Acyclic(Edges("SUPERSEDES"))
    BY <2>1, ProvisionalIsCollecting DEF Collecting
  <2> QED
    BY <2>1, <2>2, SettledIsCanonical, CanonicalIsValid
<1>2. CASE conflictIds # {}
  <2>1. ConflictRaised /\ Acyclic(Edges("SUPERSEDES"))
    BY <1>2 DEF Concluded, ConflictRaised
  <2> QED
    BY <2>1, ConflictIsCanonical, CanonicalIsValid
<1> QED
  BY <1>1, <1>2

\* A fact that is declared replaced, and does not declare the opposite, is not
\* current once the predicate is decided.
LEMMA ReplacedIsNotCurrent ==
  TypeOK /\ InputsOK /\ Concluded => \A f \in ExplicitTargets : decision[f].status # "ACTIVE"
<1> SUFFICES ASSUME TypeOK, InputsOK, Concluded, NEW f \in ExplicitTargets
             PROVE  decision[f].status # "ACTIVE"
  OBVIOUS
<1>1. f \in facts
  BY InputFacts
<1>2. CASE conflictIds # {}
  BY <1>1, <1>2 DEF Concluded, ConflictRaised, WithStatus
<1>3. CASE conflictIds = {} /\ ByDeclaration
  <2>1. decision[f] = Decided("SUPERSEDED", "explicit_supersedes")
    BY <1>1, <1>3 DEF ByDeclaration, ByDeclarationOf
  <2> QED
    BY <2>1 DEF Decided
<1>4. ASSUME NEW w \in facts, NEW T \in SUBSET facts, NEW rule \in Rules,
             CanWin(w, T), WonBy(w, T, rule)
      PROVE  decision[f].status # "ACTIVE"
  <2>1. f # w /\ f \notin T
    BY <1>4 DEF CanWin
  <2>2. decision[f] = Decided("SUPERSEDED", "explicit_supersedes")
    BY <1>1, <1>4, <2>1 DEF WonBy, ByDeclarationOf
  <2> QED
    BY <2>2 DEF Decided
<1>5. conflictIds = {} => Provisional
  BY DEF Concluded
<1> QED
  BY <1>2, <1>3, <1>4, <1>5, ProvisionalIsWon

\* Where declarations form a cycle, current facts do: what is on a cycle
\* declares, and only current facts do.
LEMMA CurrentFactsOnACycle ==
  TypeOK /\ InputsOK /\ ~Acyclic(ExplicitEdges) =>
    \E S \in (SUBSET BaseActive) \ {{}} : \A x \in S : \E y \in S : <<y, x>> \in ExplicitEdges
<1> SUFFICES ASSUME TypeOK, InputsOK, ~Acyclic(ExplicitEdges)
             PROVE  \E S \in (SUBSET BaseActive) \ {{}} :
                      \A x \in S : \E y \in S : <<y, x>> \in ExplicitEdges
  OBVIOUS
<1>1. PICK S \in (SUBSET facts) \ {{}} : \A x \in S : \E y \in S : <<y, x>> \in ExplicitEdges
  BY DEF Acyclic
<1> DEFINE T == {y \in S : \E x \in S : <<y, x>> \in ExplicitEdges}
<1>2. \A y \in T : y \in BaseActive
  <2> SUFFICES ASSUME NEW y \in S, NEW x \in S, <<y, x>> \in ExplicitEdges
               PROVE  y \in BaseActive
    OBVIOUS
  <2>1. <<y, x>>[1] \in BaseActive
    BY InputFacts
  <2> QED
    BY <2>1
<1>3. T # {}
  BY <1>1
<1>4. \A x \in T : \E y \in T : <<y, x>> \in ExplicitEdges
  BY <1>1
<1> QED
  BY <1>2, <1>3, <1>4

-----------------------------------------------------------------------------
(* The invariant is inductive *)

\* Steps that only move on leave every judgement as it was.
LEMMA JudgementsFixed ==
  ASSUME UNCHANGED <<inputs, decision, requests, conflictIds>>
  PROVE  /\ NeverPromoted' = NeverPromoted
         /\ ByDeclaration' = ByDeclaration
         /\ Provisional' = Provisional
         /\ Settled' = Settled
         /\ ConflictRaised' = ConflictRaised
         /\ Concluded' = Concluded
         /\ OutcomeIsCanonical' = OutcomeIsCanonical
         /\ GraphIsValid' = GraphIsValid
         /\ InputsOK' = InputsOK
<1>1. /\ UNCHANGED <<facts, base, declared, policy>>
      /\ ExplicitEdges' = ExplicitEdges
      /\ BaseActive' = BaseActive
      /\ ExplicitSources' = ExplicitSources
      /\ ExplicitTargets' = ExplicitTargets
      /\ Mutual' = Mutual
      /\ Contradictory' = Contradictory
      /\ ConflictRule' = ConflictRule
      /\ InputsOK' = InputsOK
  BY InputsFixed
<1>2. NeverPromoted' = NeverPromoted
  BY <1>1 DEF NeverPromoted, Plausible
<1>3. ByDeclaration' = ByDeclaration
  BY <1>1 DEF ByDeclaration, ByDeclarationOf, ExplicitRequests
<1>4. /\ Remaining' = Remaining /\ SourceOfTruthGroups' = SourceOfTruthGroups
      /\ \A w \in facts : SourceOfTruthCompetitors(w)' = SourceOfTruthCompetitors(w)
      /\ CurrentGroups' = CurrentGroups
  BY <1>1 DEF Remaining, Governed, SourceOfTruthGroups, SourceOfTruthCompetitors, Plausible,
              CurrentGroups
<1>5. \A w \in facts : /\ SourceOfTruthApplies(w)' = SourceOfTruthApplies(w)
                       /\ CurrentEvidenceApplies(w)' = CurrentEvidenceApplies(w)
  BY <1>1, <1>4 DEF SourceOfTruthApplies, CurrentEvidenceApplies, Plausible
<1>6. \A w \in facts : WonByTruth(w)' = WonByTruth(w) /\ WonByEvidence(w)' = WonByEvidence(w)
  <2>1. ExplicitRequests' = ExplicitRequests /\ \A f \in facts : ByDeclarationOf(f)' = ByDeclarationOf(f)
    BY <1>1 DEF ExplicitRequests, ByDeclarationOf
  <2>2. \A T, rule : \A w \in facts : WonBy(w, T, rule)' = WonBy(w, T, rule)
    BY <1>1, <2>1 DEF WonBy
  <2> QED
    BY <1>4, <1>5, <2>2 DEF WonByTruth, WonByEvidence
<1>7. Provisional' = Provisional
  BY <1>1, <1>3, <1>6 DEF Provisional
<1>8. \A st : WithStatus(st)' = WithStatus(st) /\ Edges(st)' = Edges(st) /\ RequestedBy(st)' = RequestedBy(st)
  BY <1>1 DEF WithStatus, Edges, RequestedBy
<1>9. Settled' = Settled /\ ConflictRaised' = ConflictRaised
  BY <1>1, <1>8 DEF Settled, ConflictRaised, Conflicting, Acyclic
<1>10. Concluded' = Concluded
  BY <1>7, <1>9 DEF Concluded
<1>11. ConflictsAreComplete' = ConflictsAreComplete
  BY <1>8 DEF ConflictsAreComplete
<1>12. StatusesMatchRelations' = StatusesMatchRelations
  BY <1>8 DEF StatusesMatchRelations, Incoming, Outgoing
<1>13. GraphIsValid' = GraphIsValid
  BY <1>1, <1>8, <1>11, <1>12 DEF GraphIsValid, Acyclic
<1>14. WinnerRulesHold' = WinnerRulesHold
  BY <1>1, <1>4, <1>5, <1>8 DEF WinnerRulesHold
<1>15. PrimaryRulesHold' = PrimaryRulesHold
  BY <1>8 DEF PrimaryRulesHold, Outgoing
<1>16. \A r \in requests : CanonicalSupersedes(r)' = CanonicalSupersedes(r)
  BY <1>1 DEF CanonicalSupersedes, Plausible
<1>17. OutcomeIsCanonical' = OutcomeIsCanonical
  BY <1>8, <1>11, <1>14, <1>15, <1>16 DEF OutcomeIsCanonical, Incoming
<1> QED
  BY <1>1, <1>2, <1>3, <1>7, <1>9, <1>10, <1>13, <1>17

LEMMA InitEstablishes == Init => IInv
<1> SUFFICES ASSUME Init PROVE IInv
  OBVIOUS
<1>1. TypeOK
  BY InitIsTyped
<1>2. InputsOK
  <2>1. declared \subseteq facts \X facts
    BY <1>1 DEF TypeOK
  <2>2. \A e \in declared : e[1] # e[2] /\ base[e[1]].status = "ACTIVE"
    BY DEF Init
  <2>3. \A e \in declared : e[1] \in facts
    BY <2>1
  <2> QED
    BY <2>2, <2>3 DEF Init, InputsOK, BaseActive
<1>3. AsClassified /\ conflictIds = {}
  BY DEF Init, AsClassified, Decided
<1>4. NeverPromoted
  <2>1. \A f \in facts : base[f].status \in {"ACTIVE", "PENDING", "DEPRECATED"}
    BY <1>1 DEF TypeOK, BaseDecision
  <2> QED
    BY <2>1 DEF Init, NeverPromoted
<1> QED
  BY <1>1, <1>2, <1>3, <1>4
     DEF Init, IInv, Resolved, Terminal, OnlyCyclesAreRejected, Rejections

LEMMA ExplicitPreserves == IInv /\ ApplyExplicit => IInv'
<1> SUFFICES ASSUME IInv, ApplyExplicit PROVE IInv'
  OBVIOUS
<1>1. TypeOK' /\ TypeOK /\ InputsOK /\ AsClassified /\ conflictIds = {}
  BY StepIsTyped DEF IInv, ApplyExplicit, Next, Step
<1>2. /\ UNCHANGED <<facts, base, declared, policy>>
      /\ ExplicitEdges' = ExplicitEdges
      /\ ExplicitSources' = ExplicitSources /\ ExplicitTargets' = ExplicitTargets
      /\ InputsOK' = InputsOK
  BY InputsFixed DEF ApplyExplicit
<1>3. ASSUME NEW f \in facts PROVE decision'[f] = ByDeclarationOf(f)
  BY <1>1 DEF ApplyExplicit, AsClassified, ByDeclarationOf, TypeOK
<1>4. ByDeclaration'
  BY <1>2, <1>3 DEF ApplyExplicit, ByDeclaration, ByDeclarationOf, ExplicitRequests
<1>5. NeverPromoted'
  <2> SUFFICES ASSUME NEW f \in facts
               PROVE /\ decision'[f].status \in {"ACTIVE", "CONFLICTED"} => base[f].status = "ACTIVE"
                     /\ decision'[f].status = "SUPERSEDED" => Plausible(f)
                     /\ decision'[f].status \in {"PENDING", "DEPRECATED"}
                          => decision'[f].status = base[f].status
    BY <1>2 DEF NeverPromoted, Plausible
  <2>1. base[f].status \in {"ACTIVE", "PENDING", "DEPRECATED"}
    BY <1>1 DEF TypeOK, BaseDecision
  <2>2. f \in ExplicitTargets => Plausible(f)
    BY <1>1, InputFacts
  <2>3. f \in ExplicitSources => base[f].status = "ACTIVE"
    BY <1>1, InputFacts DEF BaseActive
  <2>4. decision'[f].status = IF f \in ExplicitTargets THEN "SUPERSEDED"
                              ELSE IF f \in ExplicitSources THEN "ACTIVE"
                              ELSE base[f].status
    <3>1. decision'[f] = ByDeclarationOf(f)
      BY <1>3
    <3>2. ByDeclarationOf(f).status = IF f \in ExplicitTargets THEN "SUPERSEDED"
                                      ELSE IF f \in ExplicitSources THEN "ACTIVE"
                                      ELSE base[f].status
      BY DEF ByDeclarationOf, Decided
    <3> QED
      BY <3>1, <3>2
  <2> QED
    BY <2>1, <2>2, <2>3, <2>4
<1>6. phase' = "winner" /\ conflictIds' = {}
  BY <1>1 DEF ApplyExplicit
<1> QED
  BY <1>1, <1>2, <1>4, <1>5, <1>6
     DEF IInv, Resolved, Terminal, OnlyCyclesAreRejected, Rejections

\* The part that both winner rules share.
LEMMA WinPreserves ==
  ASSUME TypeOK, InputsOK, ByDeclaration, NeverPromoted, NEW w \in facts, NEW T \in SUBSET facts,
         NEW rule \in Rules, CanWin(w, T), Win(w, T, rule)
  PROVE  WonBy(w, T, rule)' /\ NeverPromoted'
<1>1. /\ UNCHANGED <<facts, base, declared, policy>>
      /\ ExplicitEdges' = ExplicitEdges
      /\ ExplicitSources' = ExplicitSources /\ ExplicitTargets' = ExplicitTargets
  BY InputsFixed DEF Win
<1>2. ASSUME NEW f \in facts
      PROVE decision'[f] = IF f \in T THEN Decided("SUPERSEDED", rule)
                           ELSE IF f = w /\ w \notin ExplicitSources THEN Decided("ACTIVE", rule)
                           ELSE decision[f]
  BY DEF Win, TypeOK
<1>3. \A f \in facts : decision[f] = ByDeclarationOf(f)
  BY DEF ByDeclaration
<1>4. WonBy(w, T, rule)'
  BY <1>1, <1>2, <1>3 DEF Win, WonBy, ByDeclaration, ExplicitRequests, ByDeclarationOf
<1>5. NeverPromoted'
  <2> SUFFICES ASSUME NEW f \in facts
               PROVE /\ decision'[f].status \in {"ACTIVE", "CONFLICTED"} => base[f].status = "ACTIVE"
                     /\ decision'[f].status = "SUPERSEDED" => Plausible(f)
                     /\ decision'[f].status \in {"PENDING", "DEPRECATED"}
                          => decision'[f].status = base[f].status
    BY <1>1 DEF NeverPromoted, Plausible
  <2>1. f \in T => Plausible(f)
    BY DEF CanWin
  <2>2. base[w].status = "ACTIVE"
    BY DEF CanWin, BaseActive
  <2> QED
    BY <1>2, <2>1, <2>2 DEF NeverPromoted, Decided
<1> QED
  BY <1>4, <1>5

LEMMA WinnerFixed ==
  ASSUME UNCHANGED inputs, NEW w \in facts
  PROVE  /\ SourceOfTruthGroups' = SourceOfTruthGroups
         /\ SourceOfTruthCompetitors(w)' = SourceOfTruthCompetitors(w)
         /\ SourceOfTruthApplies(w)' = SourceOfTruthApplies(w)
         /\ Remaining' = Remaining
         /\ CurrentEvidenceApplies(w)' = CurrentEvidenceApplies(w)
<1>1. /\ UNCHANGED <<facts, base, declared, policy>>
      /\ ExplicitSources' = ExplicitSources /\ ExplicitTargets' = ExplicitTargets
      /\ Mutual' = Mutual
  BY InputsFixed
<1>2. /\ Remaining' = Remaining /\ SourceOfTruthGroups' = SourceOfTruthGroups
      /\ SourceOfTruthCompetitors(w)' = SourceOfTruthCompetitors(w)
      /\ CurrentGroups' = CurrentGroups
  BY <1>1 DEF Remaining, Governed, SourceOfTruthGroups, SourceOfTruthCompetitors, Plausible,
              CurrentGroups
<1> QED
  BY <1>1, <1>2 DEF SourceOfTruthApplies, CurrentEvidenceApplies, Plausible

LEMMA WinnerRulePreserves == IInv /\ ApplyWinnerRule => IInv'
<1> SUFFICES ASSUME IInv, ApplyWinnerRule PROVE IInv'
  OBVIOUS
<1>1. phase = "winner" /\ phase' = "finalize" /\ UNCHANGED inputs /\ UNCHANGED conflictIds
  BY DEF ApplyWinnerRule, ApplySourceOfTruth, ApplyCurrentEvidence, Win, NoWinner
<1>2. /\ TypeOK' /\ TypeOK /\ InputsOK /\ InputsOK' /\ ByDeclaration /\ NeverPromoted
      /\ conflictIds = {}
  BY <1>1, StepIsTyped, InputsFixed DEF IInv, Next, Step
<1>3. Provisional' /\ NeverPromoted'
  <2>1. ASSUME NEW w \in facts, ApplySourceOfTruth(w) PROVE Provisional' /\ NeverPromoted'
    <3>1. /\ SourceOfTruthApplies(w)
          /\ Win(w, SourceOfTruthCompetitors(w), "source_of_truth")
          /\ SourceOfTruthCompetitors(w) \in SUBSET facts /\ "source_of_truth" \in Rules
      BY <2>1 DEF ApplySourceOfTruth, SourceOfTruthCompetitors, Rules
    <3>2. CanWin(w, SourceOfTruthCompetitors(w))
      BY <3>1, <1>2, TruthCanWin
    <3>3. WonBy(w, SourceOfTruthCompetitors(w), "source_of_truth")' /\ NeverPromoted'
      <4> DEFINE T == SourceOfTruthCompetitors(w)
      <4>1. T' = T
        BY <1>1, WinnerFixed
      <4> HIDE DEF T
      <4>2. WonBy(w, T, "source_of_truth")' /\ NeverPromoted'
        <5>1. T \in SUBSET facts /\ CanWin(w, T) /\ Win(w, T, "source_of_truth")
          BY <3>1, <3>2 DEF T
        <5>2. PICK U \in SUBSET facts : U = T
          BY <5>1
        <5>3. WonBy(w, U, "source_of_truth")' /\ NeverPromoted'
          BY <5>1, <5>2, <3>1, <1>2, WinPreserves
        <5> QED
          BY <5>2, <5>3, <4>1 DEF WonBy
      <4> QED
        BY <4>2 DEF T
    <3>4. WonByTruth(w)'
      BY <3>1, <3>3, <1>1, WinnerFixed DEF WonByTruth
    <3> QED
      BY <1>1, <3>3, <3>4 DEF Provisional, inputs
  <2>2. ASSUME NEW w \in facts, ApplyCurrentEvidence(w) PROVE Provisional' /\ NeverPromoted'
    <3>1. /\ CurrentEvidenceApplies(w) /\ SourceOfTruthGroups = {}
          /\ Win(w, Remaining \ {w}, "current_over_historical")
          /\ Remaining \ {w} \in SUBSET facts /\ "current_over_historical" \in Rules
      BY <2>2 DEF ApplyCurrentEvidence, Remaining, Rules
    <3>2. CanWin(w, Remaining \ {w})
      BY <3>1, <1>2, EvidenceCanWin
    <3>3. PICK U \in SUBSET facts : U = Remaining \ {w}
      BY <3>1
    <3>4. WonBy(w, U, "current_over_historical")' /\ NeverPromoted'
      BY <3>1, <3>2, <3>3, <1>2, WinPreserves
    <3>5. WonBy(w, Remaining \ {w}, "current_over_historical")'
      BY <3>3, <3>4, <1>1, WinnerFixed DEF WonBy
    <3>6. WonByEvidence(w)'
      BY <3>1, <3>5, <1>1, WinnerFixed DEF WonByEvidence
    <3> QED
      BY <1>1, <3>4, <3>6 DEF Provisional, inputs
  <2>3. CASE NoWinner
    BY <2>3, <1>1, <1>2, JudgementsFixed DEF NoWinner, Provisional
  <2> QED
    BY <2>1, <2>2, <2>3 DEF ApplyWinnerRule
<1> QED
  BY <1>1, <1>2, <1>3 DEF IInv, Resolved, Terminal, OnlyCyclesAreRejected, Rejections

\* A contradiction always has two current sides.
LEMMA ContradictionHasTwoSides ==
  ASSUME TypeOK, InputsOK, NEW f \in Contradictory
  PROVE  \E g \in Contradictory : f # g
<1>1. PICK g \in facts : <<f, g>> \in declared /\ <<g, f>> \in declared
  BY DEF Contradictory, Mutual
<1>2. f \in facts
  BY DEF Contradictory, Mutual
<1>3. <<f, g>>[1] # <<f, g>>[2] /\ <<g, f>>[1] \in BaseActive
  BY <1>1 DEF InputsOK
<1>4. f # g /\ g \in BaseActive
  BY <1>3
<1>5. g \in Contradictory
  BY <1>1, <1>2, <1>4 DEF Contradictory, Mutual, BaseActive
<1> QED
  BY <1>4, <1>5

LEMMA FinalizePreserves == IInv /\ Finalize => IInv'
<1> SUFFICES ASSUME IInv, Finalize PROVE IInv'
  OBVIOUS
<1>1. /\ phase = "finalize" /\ conflictIds = {} /\ Provisional
      /\ TypeOK /\ TypeOK' /\ InputsOK /\ InputsOK' /\ NeverPromoted
      /\ UNCHANGED <<facts, base, declared, policy, decision, requests>>
  <2>1. UNCHANGED inputs /\ phase = "finalize"
    BY DEF Finalize
  <2> QED
    BY <2>1, StepIsTyped, InputsFixed DEF IInv, Finalize, Next, Step
<1>2. NeverPromoted'
  BY <1>1 DEF NeverPromoted, Plausible
<1>3. CASE Settled
  <2>1. phase' = "construct" /\ UNCHANGED conflictIds
    BY <1>3 DEF Finalize
  <2>2. Provisional' /\ Settled' /\ conflictIds' = {}
    BY <1>1, <1>3, <2>1, JudgementsFixed DEF inputs
  <2> QED
    BY <1>1, <1>2, <2>1, <2>2
       DEF IInv, Concluded, OnlyCyclesAreRejected, Rejections
<1>4. CASE ~Settled
  <2>1. phase' = "rollback" /\ conflictIds' = WithStatus("ACTIVE") \union Contradictory
    BY <1>4 DEF Finalize
  <2>2. Collecting'
    <3>1. Collecting
      BY <1>1, ProvisionalIsCollecting
    <3>2. ExplicitEdges' = ExplicitEdges /\ BaseActive' = BaseActive
      BY <1>1, InputsFixed DEF inputs
    <3> QED
      BY <1>1, <3>1, <3>2 DEF Collecting, Incoming, Edges, Acyclic
  <2>3. conflictIds' \subseteq BaseActive
    BY <1>1, <2>1, InputFacts DEF NeverPromoted, WithStatus, BaseActive
  <2>4. ~AtMostOne(conflictIds')
    <3>1. CASE ~AtMostOne(WithStatus("ACTIVE"))
      BY <2>1, <3>1 DEF AtMostOne
    <3>2. CASE Contradictory # {}
      <4>1. PICK f \in Contradictory : TRUE
        BY <3>2
      <4>2. PICK g \in Contradictory : f # g
        BY <1>1, ContradictionHasTwoSides
      <4> QED
        BY <2>1, <4>2 DEF AtMostOne
    <3> QED
      BY <1>4, <3>1, <3>2 DEF Settled
  <2>5. Conflicting' /\ WithStatus("ACTIVE")' \subseteq conflictIds'
    BY <1>1, <2>1, <2>3, <2>4 DEF Conflicting, BaseActive, WithStatus
  <2> QED
    BY <1>1, <1>2, <2>1, <2>2, <2>5
       DEF IInv, Resolved, Terminal, OnlyCyclesAreRejected, Rejections
<1> QED
  BY <1>3, <1>4

LEMMA RollBackPreserves == IInv /\ RollBack => IInv'
<1> SUFFICES ASSUME IInv, RollBack PROVE IInv'
  OBVIOUS
<1>1. /\ phase = "rollback" /\ Collecting /\ Conflicting
      /\ WithStatus("ACTIVE") \subseteq conflictIds
      /\ TypeOK /\ TypeOK' /\ InputsOK' /\ NeverPromoted
      /\ UNCHANGED <<facts, base, declared, policy, phase>>
      /\ ExplicitEdges' = ExplicitEdges /\ BaseActive' = BaseActive
  <2>1. UNCHANGED inputs /\ phase = "rollback" /\ phase' = phase
    BY DEF RollBack
  <2> QED
    BY <2>1, StepIsTyped, InputsFixed DEF IInv, Next, Step
<1>2. /\ requests' = requests \ Invalidated
      /\ conflictIds' = conflictIds \union {f \in Restored : base[f].status = "ACTIVE"}
  BY DEF RollBack
<1>3. ASSUME NEW f \in facts
      PROVE  decision'[f].status = IF f \in Restored THEN base[f].status ELSE decision[f].status
  BY <1>1 DEF RollBack, Decided, TypeOK
<1>4. \A f \in facts : base[f].status \in {"ACTIVE", "PENDING", "DEPRECATED"}
  BY <1>1 DEF TypeOK, BaseDecision
<1>5. Restored \subseteq facts
  BY <1>1 DEF Restored, Invalidated, TypeOK, Request
<1>6. NeverPromoted'
  BY <1>1, <1>3, <1>4 DEF NeverPromoted, Plausible
<1>7. Collecting'
  <2>1. \A r \in requests' : r.type = "SUPERSEDES" /\ r.from \in BaseActive'
    BY <1>1, <1>2 DEF Collecting
  <2>2. ASSUME NEW f \in facts
        PROVE  \/ decision'[f].status = base'[f].status
               \/ decision'[f].status = "SUPERSEDED" /\ f \in Incoming'
    <3>1. CASE f \in Restored
      BY <1>1, <1>3, <3>1
    <3>2. CASE f \notin Restored /\ f \in Incoming
      <4>1. PICK r \in requests : r.type = "SUPERSEDES" /\ r.to = f
        BY <3>2 DEF Incoming, Edges
      <4>2. r \in requests'
        BY <1>2, <3>2, <4>1 DEF Restored
      <4>3. <<r.from, r.to>> \in Edges("SUPERSEDES")'
        BY <4>1, <4>2 DEF Edges
      <4>4. <<r.from, r.to>>[2] = f
        BY <4>1
      <4>5. f \in Incoming'
        BY <4>3, <4>4 DEF Incoming
      <4> QED
        BY <1>1, <1>3, <3>2, <4>5 DEF Collecting
    <3>3. CASE f \notin Restored /\ f \notin Incoming
      BY <1>1, <1>3, <3>3 DEF Collecting
    <3> QED
      BY <3>1, <3>2, <3>3
  <2>3. Acyclic(ExplicitEdges) => Acyclic(Edges("SUPERSEDES")')
    <3>1. Edges("SUPERSEDES")' \subseteq Edges("SUPERSEDES")
      BY <1>2 DEF Edges
    <3> QED
      BY <1>1, <3>1, AcyclicShrinks DEF Collecting
  <2> QED
    BY <1>1, <2>1, <2>2, <2>3 DEF Collecting, Acyclic
<1>8. Conflicting'
  BY <1>1, <1>2, <1>5 DEF Conflicting, AtMostOne, BaseActive
<1>9. WithStatus("ACTIVE")' \subseteq conflictIds'
  <2> SUFFICES ASSUME NEW f \in facts, decision'[f].status = "ACTIVE" PROVE f \in conflictIds'
    BY <1>1 DEF WithStatus
  <2> QED
    BY <1>1, <1>2, <1>3 DEF WithStatus
<1> QED
  BY <1>1, <1>6, <1>7, <1>8, <1>9
     DEF IInv, Resolved, Terminal, OnlyCyclesAreRejected, Rejections

\* When the roll back has nothing left to take back and the replacements have no
\* cycle, none of them is left: a replacing fact outside the conflict
\* would itself be replaced, by a fact of the same kind, without end.
LEMMA NothingLeftToReplace ==
  ASSUME TypeOK, Collecting, WithStatus("ACTIVE") \subseteq conflictIds,
         Invalidated = {}, Acyclic(Edges("SUPERSEDES"))
  PROVE  requests = {}
<1> DEFINE S == {r.from : r \in requests}
<1>1. S \subseteq facts
  BY DEF TypeOK, Request
<1>2. ASSUME NEW x \in S PROVE \E y \in S : <<y, x>> \in Edges("SUPERSEDES")
  <2>1. PICK r \in requests : r.from = x
    OBVIOUS
  <2>2. x \in BaseActive /\ x \notin conflictIds
    BY <2>1 DEF Collecting, Invalidated
  <2>3. decision[x].status # "ACTIVE"
    BY <2>2 DEF WithStatus, BaseActive
  <2>4. x \in Incoming
    BY <2>2, <2>3 DEF Collecting, BaseActive
  <2>5. PICK q \in requests : q.type = "SUPERSEDES" /\ q.to = x
    BY <2>4 DEF Incoming, Edges
  <2>6. <<q.from, x>> \in Edges("SUPERSEDES") /\ q.from \in S
    BY <2>5 DEF Edges
  <2> QED
    BY <2>6
<1>3. S = {}
  <2> HIDE DEF S
  <2> QED
    BY <1>1, <1>2 DEF Acyclic
<1> QED
  BY <1>3

LEMMA RaiseConflictsPreserves == IInv /\ RaiseConflicts => IInv'
<1> SUFFICES ASSUME IInv, RaiseConflicts PROVE IInv'
  OBVIOUS
<1>1. /\ phase = "rollback" /\ phase' = "construct" /\ Collecting /\ Conflicting
      /\ WithStatus("ACTIVE") \subseteq conflictIds /\ Invalidated = {}
      /\ TypeOK /\ TypeOK' /\ InputsOK' /\ NeverPromoted
      /\ UNCHANGED <<facts, base, declared, policy, conflictIds>>
      /\ ExplicitEdges' = ExplicitEdges /\ BaseActive' = BaseActive
      /\ ConflictRule' = ConflictRule
  <2>1. UNCHANGED inputs /\ UNCHANGED conflictIds /\ phase = "rollback" /\ phase' = "construct"
        /\ Invalidated = {}
    BY DEF RaiseConflicts
  <2> QED
    BY <2>1, StepIsTyped, InputsFixed DEF IInv, Next, Step
<1>2. /\ requests' = requests \union MakeRequests("CONFLICTS", AllPairs(conflictIds), ConflictRule)
      /\ \A f \in facts : decision'[f] = IF f \in conflictIds THEN Decided("CONFLICTED", ConflictRule)
                                        ELSE decision[f]
  BY <1>1 DEF RaiseConflicts, Conflicting, TypeOK
<1>3. \A f \in conflictIds : f \in facts /\ base[f].status = "ACTIVE"
  BY <1>1 DEF Conflicting, BaseActive
<1>4. \A f \in facts \ conflictIds : decision[f].status # "ACTIVE"
  BY <1>1 DEF WithStatus
<1>5. NeverPromoted'
  BY <1>1, <1>2, <1>3 DEF NeverPromoted, Plausible, Decided
<1>6. WithStatus("ACTIVE")' = {}
  BY <1>1, <1>2, <1>4 DEF WithStatus, Decided
<1>7. ASSUME Acyclic(Edges("SUPERSEDES"))
      PROVE  /\ requests' = MakeRequests("CONFLICTS", AllPairs(conflictIds), ConflictRule)
             /\ \A f \in conflictIds : decision'[f] = Decided("CONFLICTED", ConflictRule)
             /\ \A f \in facts \ conflictIds : decision'[f].status \in {"PENDING", "DEPRECATED"}
  <2>1. requests = {}
    BY <1>1, <1>7, NothingLeftToReplace
  <2>2. \A f \in facts : decision[f].status = base[f].status
    BY <1>1, <2>1 DEF Collecting, Incoming, Edges
  <2>3. \A f \in facts : base[f].status \in {"ACTIVE", "PENDING", "DEPRECATED"}
    BY <1>1 DEF TypeOK, BaseDecision
  <2> QED
    BY <1>2, <1>3, <1>4, <2>1, <2>2, <2>3
<1>8. ConflictRaised'
  <2>2. \A r \in MakeRequests("CONFLICTS", AllPairs(conflictIds), ConflictRule) : r.type = "CONFLICTS"
    BY DEF MakeRequests
  <2>3. Edges("SUPERSEDES")' = Edges("SUPERSEDES")
    BY <1>2, <2>2 DEF Edges
  <2>4. AllPairs(conflictIds)' = AllPairs(conflictIds)
    BY <1>1 DEF AllPairs
  <2> QED
    BY <1>1, <1>6, <1>7, <2>3, <2>4
       DEF ConflictRaised, Conflicting, MakeRequests, Decided, Acyclic, Collecting
<1>9. conflictIds' # {}
  BY <1>1 DEF Conflicting, AtMostOne
<1> QED
  BY <1>1, <1>5, <1>8, <1>9
     DEF IInv, Concluded, OnlyCyclesAreRejected, Rejections

LEMMA ChecksPreserve == IInv /\ (Construct \/ Validate) => IInv'
<1> SUFFICES ASSUME IInv, Construct \/ Validate PROVE IInv'
  OBVIOUS
<1>1. /\ UNCHANGED <<inputs, decision, requests, conflictIds>>
      /\ Concluded /\ TypeOK /\ InputsOK
      /\ \/ /\ phase = "construct"
            /\ phase' = IF OutcomeIsCanonical THEN "validate" ELSE "rejected_input"
         \/ /\ phase = "validate"
            /\ phase' = IF GraphIsValid THEN "published" ELSE "rejected_invariant"
  BY DEF IInv, Construct, Validate, Resolved, Terminal
<1>2. TypeOK'
  BY StepIsTyped DEF IInv, Next, Step
<1>3. /\ NeverPromoted' /\ InputsOK' /\ Concluded'
      /\ OutcomeIsCanonical' = OutcomeIsCanonical /\ GraphIsValid' = GraphIsValid
      /\ ExplicitEdges' = ExplicitEdges
  BY <1>1, JudgementsFixed, InputsFixed DEF IInv
<1>4. phase' \in Rejections => ~Acyclic(ExplicitEdges)
  BY <1>1, ConcludedPasses DEF Rejections
<1>5. OnlyCyclesAreRejected'
  BY <1>1, <1>3, <1>4 DEF OnlyCyclesAreRejected, Acyclic, inputs
<1>6. phase' \in {"validate", "published"} => OutcomeIsCanonical
  BY <1>1 DEF IInv
<1>7. phase' = "published" => GraphIsValid
  BY <1>1
<1>8. phase' \notin {"explicit", "winner", "finalize", "rollback"}
  BY <1>1
<1> QED
  BY <1>2, <1>3, <1>5, <1>6, <1>7, <1>8 DEF IInv

LEMMA StutterPreserves == IInv /\ UNCHANGED vars => IInv'
<1> SUFFICES ASSUME IInv, UNCHANGED vars PROVE IInv'
  OBVIOUS
<1>1. UNCHANGED <<inputs, decision, requests, conflictIds>> /\ phase' = phase
  BY DEF vars, inputs
<1>2. TypeOK'
  BY StepIsTyped DEF IInv
<1>3. /\ NeverPromoted' /\ InputsOK'
      /\ ByDeclaration' = ByDeclaration /\ Provisional' = Provisional
      /\ Concluded' = Concluded
      /\ OutcomeIsCanonical' = OutcomeIsCanonical /\ GraphIsValid' = GraphIsValid
      /\ ExplicitEdges' = ExplicitEdges /\ BaseActive' = BaseActive
  BY <1>1, JudgementsFixed, InputsFixed DEF IInv
<1>4. /\ AsClassified' = AsClassified /\ OnlyCyclesAreRejected' = OnlyCyclesAreRejected
      /\ Resolved' = Resolved
  BY <1>1, <1>3 DEF AsClassified, inputs, OnlyCyclesAreRejected, Acyclic, Resolved
<1>5. Collecting' = Collecting
  BY <1>1, <1>3 DEF Collecting, inputs, Incoming, Edges, Acyclic
<1>6. Conflicting' = Conflicting /\ WithStatus("ACTIVE")' = WithStatus("ACTIVE")
  BY <1>1, <1>3 DEF Conflicting, WithStatus, inputs
<1> QED
  BY <1>1, <1>2, <1>3, <1>4, <1>5, <1>6 DEF IInv

LEMMA NextPreserves == IInv /\ [Next]_vars => IInv'
  BY ExplicitPreserves, WinnerRulePreserves, FinalizePreserves, RollBackPreserves,
     RaiseConflictsPreserves, ChecksPreserve, StutterPreserves DEF Next, Step, Done

\* The inductive invariant: in every phase the requests and the decisions have
\* to do with each other what that phase promises the next.
THEOREM Inductive == Spec => []IInv
  BY InitEstablishes, NextPreserves, PTL DEF Spec

-----------------------------------------------------------------------------
(* What the invariant gives *)

\* For any number of facts, a decided predicate has at most one current fact,
\* and none beside a conflict.
THEOREM AlwaysSingleCurrentFact == Spec => []SingleCurrentFact
<1>1. IInv => SingleCurrentFact
  <2> SUFFICES ASSUME IInv, Resolved
               PROVE  /\ AtMostOne(WithStatus("ACTIVE"))
                      /\ WithStatus("CONFLICTED") # {} => WithStatus("ACTIVE") = {}
    BY DEF SingleCurrentFact
  <2>1. Concluded /\ TypeOK /\ InputsOK
    BY DEF IInv
  <2>2. CASE conflictIds = {}
    <3>1. Provisional /\ Settled
      BY <2>1, <2>2 DEF Concluded
    <3>2. \A f \in facts : decision[f].status # "CONFLICTED"
      <4>1. Collecting
        BY <2>1, <3>1, ProvisionalIsCollecting
      <4> QED
        BY <2>1, <4>1 DEF Collecting, TypeOK, BaseDecision
    <3> QED
      BY <3>1, <3>2 DEF Settled, WithStatus
  <2>3. CASE conflictIds # {}
    BY <2>1, <2>3 DEF Concluded, ConflictRaised, AtMostOne
  <2> QED
    BY <2>2, <2>3
<1> QED
  BY <1>1, Inductive, PTL

\* No rule and no roll back makes a fact current that classification did not.
THEOREM AlwaysNeverPromoted == Spec => []NeverPromoted
<1>1. IInv => NeverPromoted
  BY DEF IInv
<1> QED
  BY <1>1, Inductive, PTL

\* A conflict that is being raised always has two sides.
THEOREM AlwaysTwoSides == Spec => []ConflictHasTwoSides
<1>1. IInv => ConflictHasTwoSides
  BY DEF IInv, Conflicting, ConflictHasTwoSides
<1> QED
  BY <1>1, Inductive, PTL

\* Both validations accept whatever the coordinator decides, unless the
\* declarations form a cycle.
THEOREM AlwaysOnlyCyclesAreRejected == Spec => []OnlyCyclesAreRejected
<1>1. IInv => OnlyCyclesAreRejected
  BY DEF IInv
<1> QED
  BY <1>1, Inductive, PTL

\* The facts that replace a superseded fact of a valid outcome are current or
\* superseded themselves, and not only from within the same group.
LEMMA ValidIsReplacedByCurrent ==
  ASSUME TypeOK, OutcomeIsCanonical, GraphIsValid,
         NEW S \in SUBSET WithStatus("SUPERSEDED"), S # {}
  PROVE  \E x \in S, y \in WithStatus("ACTIVE") \union (WithStatus("SUPERSEDED") \ S) :
           <<y, x>> \in Edges("SUPERSEDES")
<1>1. S \in (SUBSET facts) \ {{}}
  BY DEF WithStatus
<1>2. PICK x \in S : \A y \in S : <<y, x>> \notin Edges("SUPERSEDES")
  BY <1>1 DEF GraphIsValid, Acyclic
<1>3. PICK r \in requests : r.type = "SUPERSEDES" /\ r.to = x
  BY <1>2 DEF OutcomeIsCanonical, Incoming, Edges
<1>4. <<r.from, x>> \in Edges("SUPERSEDES") /\ r.from \in facts /\ r.from \notin S
  BY <1>2, <1>3 DEF Edges, TypeOK, Request
<1>5. decision[r.from].status \in {"ACTIVE", "SUPERSEDED"}
  <2>1. CASE r.from \in Incoming
    <3>1. PICK q \in requests : q.type = "SUPERSEDES" /\ q.to = r.from
      BY <2>1 DEF Incoming, Edges
    <3> QED
      BY <3>1 DEF OutcomeIsCanonical
  <2> QED
    BY <1>3, <2>1 DEF OutcomeIsCanonical
<1> QED
  BY <1>4, <1>5 DEF WithStatus

\* Every superseded fact of a published predicate is replaced, in the end, by a
\* current one.
THEOREM AlwaysReplacedByCurrent == Spec => []ReplacedByCurrent
<1>1. IInv => ReplacedByCurrent
  BY ValidIsReplacedByCurrent DEF IInv, ReplacedByCurrent
<1> QED
  BY <1>1, Inductive, PTL

\* What a conflict looks like in a graph that is valid.
LEMMA ValidatedConflict ==
  ASSUME IInv, Resolved, GraphIsValid, conflictIds # {}
  PROVE  /\ WithStatus("CONFLICTED") = BaseActive
         /\ Contradictory \subseteq BaseActive
         /\ ~AtMostOne(BaseActive)
         /\ \A f \in facts \ BaseActive : decision[f].status = base[f].status
         /\ Edges("SUPERSEDES") = {}
         /\ WithStatus("SUPERSEDED") = {}
<1>1. /\ ConflictRaised /\ GraphIsValid /\ TypeOK /\ InputsOK /\ NeverPromoted
  BY DEF IInv, Concluded, Resolved, Terminal
<1>2. /\ Acyclic(Edges("SUPERSEDES")) /\ conflictIds \subseteq BaseActive
      /\ ~AtMostOne(conflictIds)
  BY <1>1 DEF GraphIsValid, ConflictRaised, Conflicting
<1>3. /\ \A f \in conflictIds : decision[f] = Decided("CONFLICTED", ConflictRule)
      /\ \A f \in facts \ conflictIds : decision[f].status \in {"PENDING", "DEPRECATED"}
  BY <1>1, <1>2 DEF ConflictRaised
<1>4. BaseActive \subseteq conflictIds
  BY <1>1, <1>3 DEF NeverPromoted, BaseActive
<1>5. WithStatus("CONFLICTED") = conflictIds /\ WithStatus("SUPERSEDED") = {}
  BY <1>2, <1>3 DEF WithStatus, Decided, BaseActive
<1>6. Edges("SUPERSEDES") = {}
  BY <1>1, <1>2, ConflictIsCanonical
<1>7. conflictIds = BaseActive
  BY <1>2, <1>4
<1>8. \A f \in facts \ BaseActive : decision[f].status = base[f].status
  BY <1>1, <1>3, <1>7 DEF NeverPromoted
<1>9. Contradictory \subseteq BaseActive
  BY <1>1, InputFacts
<1> QED
  BY <1>2, <1>5, <1>6, <1>7, <1>8, <1>9

\* What a published outcome without a conflict looks like.
LEMMA PublishedWithoutConflict ==
  ASSUME IInv, phase \in {"validate", "published"}, conflictIds = {}
  PROVE  /\ Settled
         /\ \A f \in facts : decision[f].status \in {base[f].status, "SUPERSEDED"}
         /\ WithStatus("CONFLICTED") = {}
<1>1. Provisional /\ Settled /\ TypeOK /\ InputsOK
  BY DEF IInv, Concluded, Resolved, Terminal
<1>2. Collecting
  BY <1>1, ProvisionalIsCollecting
<1> QED
  BY <1>1, <1>2 DEF Collecting, WithStatus, TypeOK, BaseDecision

\* A published conflict takes in every fact that was current and leaves no
\* replacement behind.
THEOREM AlwaysTotalConflict == Spec => []ConflictIsTotal
<1>1. IInv => ConflictIsTotal
  BY ValidatedConflict, PublishedWithoutConflict DEF IInv, Resolved, Terminal, ConflictIsTotal, BaseActive
<1> QED
  BY <1>1, Inductive, PTL

\* Current facts that declare each other replaced end in conflict.
THEOREM AlwaysRetainsContradiction == Spec => []ContradictionIsRetained
<1>1. IInv => ContradictionIsRetained
  BY ValidatedConflict, PublishedWithoutConflict
     DEF IInv, Resolved, Terminal, ContradictionIsRetained, Settled
<1> QED
  BY <1>1, Inductive, PTL

\* A round of the roll back takes requests away and keeps the conflict.
THEOREM AlwaysShrinking == Spec => RollBackShrinks
<1>1. [Next]_vars => [phase = "rollback" /\ phase' = "rollback" =>
                        /\ requests' \subseteq requests /\ requests' # requests
                        /\ conflictIds \subseteq conflictIds']_vars
  <2> SUFFICES ASSUME Next, phase = "rollback", phase' = "rollback", ~UNCHANGED vars
               PROVE /\ requests' \subseteq requests /\ requests' # requests
                     /\ conflictIds \subseteq conflictIds'
    OBVIOUS
  <2>1. RollBack
    BY DEF Next, Step, Done, ApplyExplicit, ApplyWinnerRule, ApplySourceOfTruth,
           ApplyCurrentEvidence, Win, NoWinner, Finalize, RaiseConflicts, Construct, Validate
  <2> QED
    BY <2>1 DEF RollBack, Invalidated
<1> QED
  BY <1>1, PTL DEF Spec, RollBackShrinks

-----------------------------------------------------------------------------
(* The explicit source of truth *)

\* With no declarations, w is the only source of truth there is.
OnlyTruth(w) == declared = {} /\ SourceOfTruthGroups = {w}

\* From the winner rules on it is what is current, and no conflict is raised.
TruthKept ==
  phase \notin {"explicit", "winner"} =>
    \A w \in facts : OnlyTruth(w) =>
      WithStatus("ACTIVE") = {w} /\ conflictIds = {} /\ phase # "rollback"

LEMMA NothingDeclared ==
  ASSUME declared = {}
  PROVE  /\ ExplicitEdges = {} /\ ExplicitSources = {} /\ ExplicitTargets = {}
         /\ Mutual = {} /\ Governed = {} /\ Contradictory = {}
<1>1. ExplicitEdges = {} /\ Mutual = {}
  BY DEF ExplicitEdges, DropMutual, Mutual
<1> QED
  BY <1>1 DEF ExplicitSources, ExplicitTargets, Governed, Contradictory

\* The rules leave the only source of truth current, whether it replaces what
\* competes with it or nothing does.
LEMMA WinnerRuleKeepsTruth ==
  ASSUME IInv, ApplyWinnerRule, NEW w \in facts, OnlyTruth(w)
  PROVE  WithStatus("ACTIVE")' = {w} /\ conflictIds' = {}
<1>1. /\ ByDeclaration /\ conflictIds = {} /\ TypeOK /\ InputsOK
      /\ UNCHANGED <<inputs, conflictIds>>
  BY DEF IInv, ApplyWinnerRule, ApplySourceOfTruth, ApplyCurrentEvidence, Win, NoWinner
<1>2. /\ ExplicitSources = {} /\ ExplicitTargets = {} /\ Mutual = {} /\ Governed = {}
  BY NothingDeclared DEF OnlyTruth
<1>3. \A f \in facts : decision[f].status = base[f].status
  <2>1. \A f \in facts : decision[f] = Decided(base[f].status, "classified")
    BY <1>1, <1>2 DEF ByDeclaration, ByDeclarationOf
  <2>2. \A s, r : Decided(s, r).status = s
    BY DEF Decided
  <2> QED
    BY <2>1, <2>2
<1>4. \A f \in facts : base[f].status = "ACTIVE" => Plausible(f)
  BY <1>1, InputFacts DEF BaseActive
<1>5. base[w].status = "ACTIVE"
  BY <1>1, InputFacts DEF OnlyTruth, BaseActive
<1>6. SourceOfTruthCompetitors(w) = {f \in facts : f # w /\ Plausible(f)}
  BY <1>2 DEF SourceOfTruthCompetitors
<1>7. CASE SourceOfTruthApplies(w)
  <2>1. ApplySourceOfTruth(w)
    BY <1>7 DEF ApplyWinnerRule, ApplySourceOfTruth, ApplyCurrentEvidence, NoWinner, OnlyTruth,
                SourceOfTruthApplies
  <2>2. \A f \in facts : decision'[f].status =
          IF f \in SourceOfTruthCompetitors(w) THEN "SUPERSEDED"
          ELSE IF f = w THEN "ACTIVE" ELSE base[f].status
    BY <1>2, <1>3, <2>1 DEF ApplySourceOfTruth, Win, Decided
  <2> QED
    BY <1>1, <1>4, <1>6, <2>2 DEF WithStatus, inputs
<1>8. CASE ~SourceOfTruthApplies(w)
  <2>1. SourceOfTruthCompetitors(w) = {}
    BY <1>2, <1>8 DEF SourceOfTruthApplies, OnlyTruth
  <2>2. UNCHANGED decision
    BY <1>8 DEF ApplyWinnerRule, ApplySourceOfTruth, ApplyCurrentEvidence, NoWinner, OnlyTruth,
                SourceOfTruthApplies
  <2> QED
    BY <1>1, <1>3, <1>4, <1>5, <1>6, <2>1, <2>2 DEF WithStatus, inputs
<1> QED
  BY <1>7, <1>8

LEMMA NextKeepsTruth == IInv /\ TruthKept /\ [Next]_vars => TruthKept'
<1> SUFFICES ASSUME IInv, TruthKept, [Next]_vars, NEW w \in facts, OnlyTruth(w)',
                    phase' \notin {"explicit", "winner"}
             PROVE  WithStatus("ACTIVE")' = {w} /\ conflictIds' = {} /\ phase' # "rollback"
  BY StepKeepsInputs DEF TruthKept, inputs
<1>1. UNCHANGED inputs
  BY StepKeepsInputs
<1>2. OnlyTruth(w)
  BY <1>1 DEF OnlyTruth, inputs, SourceOfTruthGroups
<1>3. CASE phase = "winner"
  <2>1. ApplyWinnerRule /\ phase' = "finalize"
    BY <1>3 DEF Next, Step, Done, vars, ApplyExplicit, ApplyWinnerRule, ApplySourceOfTruth,
                ApplyCurrentEvidence, Win, NoWinner, Finalize, RollBack, RaiseConflicts,
                Construct, Validate
  <2> QED
    BY <1>2, <2>1, WinnerRuleKeepsTruth
<1>4. CASE phase # "winner"
  <2>1. phase # "explicit"
    BY DEF Next, Step, Done, vars, ApplyExplicit, ApplyWinnerRule, ApplySourceOfTruth,
           ApplyCurrentEvidence, Win, NoWinner, Finalize, RollBack, RaiseConflicts,
           Construct, Validate
  <2>2. WithStatus("ACTIVE") = {w} /\ conflictIds = {} /\ phase # "rollback"
    BY <1>2, <1>4, <2>1 DEF TruthKept
  <2>3. Settled
    BY <1>2, <2>2, NothingDeclared DEF Settled, AtMostOne, OnlyTruth
  <2>4. UNCHANGED <<decision, conflictIds>> /\ phase' # "rollback"
    BY <1>4, <2>1, <2>2, <2>3
       DEF Next, Step, Done, vars, ApplyExplicit, ApplyWinnerRule, ApplySourceOfTruth,
           ApplyCurrentEvidence, Win, NoWinner, Finalize, RollBack, RaiseConflicts,
           Construct, Validate
  <2> QED
    BY <1>1, <2>2, <2>4 DEF WithStatus, inputs
<1> QED
  BY <1>3, <1>4

\* Only a declaration ever supersedes a source of truth.
LEMMA TruthYieldsToDeclarations ==
  ASSUME IInv, phase = "published", NEW w \in SourceOfTruthGroups,
         decision[w].status = "SUPERSEDED"
  PROVE  w \in ExplicitTargets
<1>1. w \in facts /\ TypeOK /\ InputsOK /\ Concluded /\ GraphIsValid /\ base[w].status = "ACTIVE"
  BY InputFacts DEF IInv, Resolved, Terminal, SourceOfTruthGroups, BaseActive
<1>2. conflictIds = {}
  BY <1>1, ValidatedConflict DEF Resolved, Terminal, WithStatus
<1>3. Provisional
  BY <1>1, <1>2 DEF Concluded
<1>4. decision[w] = ByDeclarationOf(w)
  <2>1. CASE ByDeclaration
    BY <1>1, <2>1 DEF ByDeclaration
  <2>2. ASSUME NEW v \in facts, WonByTruth(v) PROVE decision[w] = ByDeclarationOf(w)
    <3>1. v = w
      BY <2>2 DEF WonByTruth, SourceOfTruthApplies
    <3>2. decision[w].status = "SUPERSEDED" => w \in SourceOfTruthCompetitors(w) \/
                                               decision[w] = ByDeclarationOf(w)
      BY <1>1, <2>2, <3>1 DEF WonByTruth, WonBy, Decided
    <3> QED
      BY <3>2 DEF SourceOfTruthCompetitors
  <2>3. ~ \E v \in facts : WonByEvidence(v)
    BY DEF WonByEvidence
  <2> QED
    BY <1>3, <2>1, <2>2, <2>3 DEF Provisional
<1> QED
  BY <1>1, <1>4 DEF ByDeclarationOf, Decided

\* A source of truth yields only to a declaration against it or to a conflict, and
\* when it is the only one and nothing is declared it is what is current.
THEOREM AlwaysTruthStands == Spec => []SourceOfTruthStands
<1>1. Init => TruthKept
  BY DEF Init, TruthKept
<1>2. Spec => []TruthKept
  BY <1>1, NextKeepsTruth, Inductive, PTL DEF Spec
<1>3. IInv /\ TruthKept => SourceOfTruthStands
  <2> SUFFICES ASSUME IInv, TruthKept, phase = "published", NEW w \in SourceOfTruthGroups
               PROVE  /\ decision[w].status = "SUPERSEDED" => w \in ExplicitTargets
                      /\ declared = {} /\ SourceOfTruthGroups = {w} => WithStatus("ACTIVE") = {w}
    BY DEF SourceOfTruthStands
  <2> QED
    BY TruthYieldsToDeclarations DEF TruthKept, OnlyTruth, SourceOfTruthGroups
<1> QED
  BY <1>2, <1>3, Inductive, PTL

-----------------------------------------------------------------------------
(* The coordinator implements the contract of PredicateResolution *)

LEMMA PublishingIsAContractStep ==
  ASSUME IInv, phase = "validate", phase' = "published", GraphIsValid,
         UNCHANGED <<inputs, decision, requests, conflictIds>>
  PROVE  Resolution!Publish
<1>1. /\ TypeOK /\ NeverPromoted /\ OutcomeIsCanonical
      /\ UNCHANGED <<facts, base, declared, decision>>
  BY DEF IInv, inputs
<1>2. /\ VisibleOutcome = "open" /\ VisibleOutcome' = "published"
      /\ VisibleStatus = [f \in facts |-> base[f].status]
      /\ VisibleStatus' = [f \in facts |-> decision[f].status]
  BY <1>1 DEF VisibleOutcome, VisibleStatus, Rejections
<1>3. Resolution!Current = BaseActive
  BY DEF Resolution!Current, BaseActive
<1>4. CASE conflictIds = {}
  <2>1. /\ AtMostOne(WithStatus("ACTIVE"))
        /\ \A f \in facts : decision[f].status \in {base[f].status, "SUPERSEDED"}
    BY <1>4, PublishedWithoutConflict DEF Settled
  <2>2. \A f \in facts : base[f].status # "SUPERSEDED"
    BY <1>1 DEF TypeOK, BaseDecision
  <2>3. CASE WithStatus("ACTIVE") # {}
    <3>1. PICK w \in facts : WithStatus("ACTIVE") = {w}
      BY <2>1, <2>3 DEF AtMostOne, WithStatus
    <3> DEFINE replaced == WithStatus("SUPERSEDED")
    <3>2. w \in BaseActive \ replaced /\ BaseActive \ {w} \subseteq replaced
      <4>1. decision[w].status = "ACTIVE"
        BY <3>1 DEF WithStatus
      <4>2. ASSUME NEW f \in BaseActive, f # w PROVE f \in replaced
        BY <2>1, <3>1, <4>2 DEF BaseActive, WithStatus
      <4> QED
        BY <1>1, <4>1, <4>2 DEF NeverPromoted, BaseActive, WithStatus
    <3>3. VisibleStatus' = [f \in facts |-> IF f \in replaced THEN "SUPERSEDED" ELSE base[f].status]
      BY <1>2, <2>1 DEF WithStatus
    <3>4. replaced \in SUBSET Resolution!Plausible
      BY <1>1 DEF NeverPromoted, WithStatus, Plausible, Resolution!Plausible
    <3>5. w \in Resolution!Current /\ Resolution!Wins(w, replaced)
      BY <1>3, <3>2, <3>3 DEF Resolution!Wins
    <3> QED
      BY <1>1, <1>2, <3>4, <3>5 DEF Resolution!Publish
  <2>4. CASE WithStatus("ACTIVE") = {}
    <3>1. WithStatus("SUPERSEDED") = {}
      <4>1. WithStatus("SUPERSEDED") \in SUBSET WithStatus("SUPERSEDED")
        OBVIOUS
      <4> QED
        BY <1>1, <2>4, <4>1, ValidIsReplacedByCurrent
    <3>2. \A f \in facts : decision[f].status = base[f].status
      BY <2>1, <3>1 DEF WithStatus
    <3>3. VisibleStatus' = VisibleStatus /\ BaseActive = {}
      BY <1>2, <2>4, <3>2 DEF BaseActive, WithStatus
    <3> QED
      BY <1>1, <1>2, <1>3, <3>3 DEF Resolution!Publish, Resolution!NothingCurrent
  <2> QED
    BY <2>3, <2>4
<1>5. CASE conflictIds # {}
  <2>1. /\ WithStatus("CONFLICTED") = BaseActive /\ ~AtMostOne(BaseActive)
        /\ \A f \in facts \ BaseActive : decision[f].status = base[f].status
    BY <1>5, ValidatedConflict DEF Resolved
  <2>2. \E f, g \in Resolution!Current : f # g
    BY <1>3, <2>1 DEF AtMostOne
  <2>3. VisibleStatus' = [f \in facts |-> IF f \in BaseActive THEN "CONFLICTED" ELSE base[f].status]
    BY <1>2, <2>1 DEF WithStatus
  <2> QED
    BY <1>1, <1>2, <1>3, <2>2, <2>3 DEF Resolution!Publish, Resolution!Conflict
<1> QED
  BY <1>4, <1>5

LEMMA RefusingIsAContractStep ==
  ASSUME VisibleOutcome = "open", VisibleOutcome' = "refused", OnlyCyclesAreRejected',
         phase' \in Rejections, VisibleStatus' = VisibleStatus, UNCHANGED inputs
  PROVE  Resolution!Refuse
<1>1. ~Acyclic(ExplicitEdges) /\ UNCHANGED <<facts, base, declared>>
  BY InputsFixed DEF OnlyCyclesAreRejected, Acyclic
<1>2. ExplicitEdges \subseteq Resolution!OneDirectional
  BY DEF ExplicitEdges, DropMutual, Resolution!OneDirectional
<1>3. ~Acyclic(Resolution!OneDirectional)
  BY <1>1, <1>2, AcyclicShrinks
<1>4. ~Resolution!Acyclic(Resolution!OneDirectional)
  BY <1>3 DEF Acyclic, Resolution!Acyclic
<1> QED
  BY <1>1, <1>4 DEF Resolution!Refuse

\* The coordinator, with both validations, shows its caller nothing that the
\* contract does not allow: one winner, a total conflict or nothing current, and
\* a refusal only for declarations in a cycle.
THEOREM Implements == Spec => ImplementsResolution
<1>1. Init => Resolution!Open
  BY DEF Init, Resolution!Open, Resolution!Classified, VisibleOutcome, VisibleStatus, Rejections
<1>2. IInv /\ IInv' /\ [Next]_vars =>
        [Resolution!Publish \/ Resolution!Refuse]_(Resolution!rvars)
  <2> SUFFICES ASSUME IInv, IInv', [Next]_vars
               PROVE Resolution!Publish \/ Resolution!Refuse \/ UNCHANGED Resolution!rvars
    OBVIOUS
  <2>1. UNCHANGED inputs
    BY DEF Next, Step, Done, vars, inputs, ApplyExplicit, ApplyWinnerRule, ApplySourceOfTruth,
           ApplyCurrentEvidence, Win, NoWinner, Finalize, RollBack, RaiseConflicts, Construct,
           Validate
  <2>2. CASE Construct
    <3>1. CASE OutcomeIsCanonical
      BY <2>1, <2>2, <3>1
         DEF Construct, inputs, Resolution!rvars, VisibleOutcome, VisibleStatus, Rejections
    <3>2. CASE ~OutcomeIsCanonical
      <4>1. /\ phase = "construct" /\ phase' = "rejected_input"
            /\ UNCHANGED <<facts, base, decision>>
        BY <2>1, <2>2, <3>2 DEF Construct, inputs
      <4>2. /\ VisibleOutcome = "open" /\ VisibleOutcome' = "refused"
            /\ VisibleStatus' = VisibleStatus /\ phase' \in Rejections
        BY <4>1 DEF VisibleOutcome, VisibleStatus, Rejections
      <4> QED
        BY <2>1, <4>2, RefusingIsAContractStep DEF IInv
    <3> QED
      BY <3>1, <3>2
  <2>3. CASE Validate
    <3>1. CASE GraphIsValid
      BY <2>3, <3>1, PublishingIsAContractStep DEF Validate
    <3>2. CASE ~GraphIsValid
      <4>1. /\ phase = "validate" /\ phase' = "rejected_invariant"
            /\ UNCHANGED <<facts, base, decision>>
        BY <2>1, <2>3, <3>2 DEF Validate, inputs
      <4>2. /\ VisibleOutcome = "open" /\ VisibleOutcome' = "refused"
            /\ VisibleStatus' = VisibleStatus /\ phase' \in Rejections
        BY <4>1 DEF VisibleOutcome, VisibleStatus, Rejections
      <4> QED
        BY <2>1, <4>2, RefusingIsAContractStep DEF IInv
    <3> QED
      BY <3>1, <3>2
  <2>4. CASE Next /\ ~Construct /\ ~Validate /\ ~Done
    <3>1. /\ phase \in {"explicit", "winner", "finalize", "rollback"}
          /\ phase' \in {"winner", "finalize", "rollback", "construct"}
      BY <2>4 DEF Next, Step, ApplyExplicit, ApplyWinnerRule, ApplySourceOfTruth,
                  ApplyCurrentEvidence, Win, NoWinner, Finalize, RollBack, RaiseConflicts
    <3> QED
      BY <2>1, <3>1
         DEF inputs, Resolution!rvars, VisibleOutcome, VisibleStatus, Rejections
  <2>5. CASE Done \/ UNCHANGED vars
    BY <2>5 DEF Done, vars, Resolution!rvars, VisibleOutcome, VisibleStatus
  <2> QED
    BY <2>2, <2>3, <2>4, <2>5
<1> QED
  BY <1>1, <1>2, Inductive, PTL DEF Spec, ImplementsResolution, Resolution!Spec

-----------------------------------------------------------------------------
(* The relation graph: the invariant of its search. *)

Replaces(f) == index[f].supersedes
Entry == [node : facts, rest : SUBSET facts]

\* Each gray fact leads to the next, which was popped from its children.
StackIsAPath ==
  \A i \in DOMAIN stack : i < Len(stack) =>
    stack[i + 1].node \in Replaces(stack[i].node) \ stack[i].rest

\* No fact is on the stack twice, or has a child to come that is below it.
StackIsClimbing ==
  \A i, j \in DOMAIN stack :
    /\ i # j => stack[i].node # stack[j].node
    /\ j =< i => stack[j].node \notin stack[i].rest

\* The children to come are children, and those left out are black or next.
RestIsToCome ==
  \A i \in DOMAIN stack :
    /\ stack[i].rest \subseteq Replaces(stack[i].node)
    /\ i < Len(stack) =>
         Replaces(stack[i].node) \subseteq stack[i].rest \union black \union {stack[i + 1].node}
    /\ i = Len(stack) => Replaces(stack[i].node) \subseteq stack[i].rest \union black

GrayIsTheStack == gray = {stack[i].node : i \in DOMAIN stack} /\ gray \intersect black = {}

BlackIsClosed == \A f \in black : Replaces(f) \subseteq black

BlackIsAcyclic ==
  \A S \in (SUBSET black) \ {{}} : \E x \in S : \A y \in S : x \notin Replaces(y)

SearchInv ==
  /\ StackIsAPath /\ StackIsClimbing /\ RestIsToCome
  /\ GrayIsTheStack /\ BlackIsClosed /\ BlackIsAcyclic

NotSearched == stack = <<>> /\ gray = {} /\ black = {}

\* The graph is made from a constructed outcome, and every check it is past holds.
Judged ==
  /\ relations = Merged /\ index = DerivedIndexes(relations)
  /\ check \in {"indexes", "statuses", "cycles"} => ConflictsAreSound
  /\ check = "cycles" => StatusesAreSound

GInv ==
  /\ GraphTypeOK
  /\ check = "none" => relations = {}
  /\ check # "none" => phase \in {"validate"} \union Terminal
  /\ check # "cycles" => NotSearched
  /\ phase = "validate" /\ check # "none" => Judged
  /\ phase = "validate" => SearchInv
-----------------------------------------------------------------------------
(* Merging *)

\* The rules are tried in an order without ties.
LEMMA PrioritiesAreDistinct ==
  ASSUME NEW u \in Rules \union ConflictRules, NEW v \in Rules \union ConflictRules
  PROVE  /\ RequestPriority(u) \in 1..5
         /\ RequestPriority(u) = RequestPriority(v) => u = v
<1>1. /\ RequestPriority("contradictory_supersedes") = 1
      /\ RequestPriority("unresolved_current") = 2
      /\ RequestPriority("explicit_supersedes") = 3
      /\ RequestPriority("source_of_truth") = 4
      /\ RequestPriority("current_over_historical") = 5
  BY DEF RequestPriority, Priority
<1> QED
  BY <1>1 DEF Rules, ConflictRules

LEMMA RequestsAreRequests ==
  ASSUME TypeOK, NEW r \in requests
  PROVE  /\ r \in Request
         /\ r.type \in {"SUPERSEDES", "CONFLICTS"} /\ r.from \in facts /\ r.to \in facts
         /\ r.rule \in Rules \union ConflictRules
BY DEF TypeOK, Request

\* Merging keeps one request for every relation that was requested.
LEMMA MergingKeepsOne ==
  ASSUME TypeOK, NEW r \in requests
  PROVE  \E q \in Merged : Key(q) = Key(r)
<1> DEFINE Same == {q \in requests : Key(q) = Key(r)}
           Rank(q) == RequestPriority(q.rule)
<1>1. \A q \in Same : Rank(q) \in 1..5
  BY RequestsAreRequests, PrioritiesAreDistinct
<1>2. r \in Same
  OBVIOUS
<1>3. \E q \in Same : \A p \in Same : Rank(q) =< Rank(p)
  <2> HIDE DEF Same, Rank
  <2>1. CASE \E q \in Same : Rank(q) = 1
    BY <1>1, <2>1
  <2>2. CASE (\E q \in Same : Rank(q) = 2) /\ (\A q \in Same : Rank(q) # 1)
    BY <1>1, <2>2
  <2>3. CASE (\E q \in Same : Rank(q) = 3) /\ (\A q \in Same : Rank(q) \notin {1, 2})
    BY <1>1, <2>3
  <2>4. CASE (\E q \in Same : Rank(q) = 4) /\ (\A q \in Same : Rank(q) \notin {1, 2, 3})
    BY <1>1, <2>4
  <2>5. CASE \A q \in Same : Rank(q) \notin {1, 2, 3, 4}
    BY <1>1, <1>2, <2>5
  <2> QED
    BY <1>1, <2>1, <2>2, <2>3, <2>4, <2>5
<1> QED
  BY <1>3 DEF Merged

\* Two merged requests for one relation are the same request.
LEMMA MergingKeepsNoMore ==
  ASSUME TypeOK, NEW r \in Merged, NEW q \in Merged, Key(r) = Key(q)
  PROVE  r = q
<1>1. r \in requests /\ q \in requests
  BY DEF Merged
<1>2. RequestPriority(r.rule) =< RequestPriority(q.rule)
      /\ RequestPriority(q.rule) =< RequestPriority(r.rule)
  BY <1>1 DEF Merged
<1>3. r.rule = q.rule
  BY <1>1, <1>2, RequestsAreRequests, PrioritiesAreDistinct
<1>4. r \in Request /\ q \in Request /\ r.type = q.type /\ r.from = q.from /\ r.to = q.to
  BY <1>1, RequestsAreRequests DEF Key
<1> QED
  BY <1>3, <1>4 DEF Request

\* The merged requests have the edges that were requested.
LEMMA MergedEdges ==
  ASSUME TypeOK, NEW type
  PROVE  {<<r.from, r.to>> : r \in {q \in Merged : q.type = type}} = Edges(type)
<1>1. ASSUME NEW r \in requests, r.type = type
      PROVE  \E q \in Merged : q.type = type /\ <<q.from, q.to>> = <<r.from, r.to>>
  <2>1. PICK q \in Merged : Key(q) = Key(r)
    BY MergingKeepsOne
  <2> QED
    BY <1>1, <2>1 DEF Key
<1>2. Merged \subseteq requests
  BY DEF Merged
<1> QED
  BY <1>1, <1>2 DEF Edges

\* A fact never replaces or opposes itself.
LEMMA NoSelfRelation ==
  ASSUME TypeOK, InputsOK, OutcomeIsCanonical, NEW r \in requests
  PROVE  r.from # r.to
<1>1. CASE r.type = "SUPERSEDES"
  <2>1. CanonicalSupersedes(r) /\ WinnerRulesHold
    BY <1>1 DEF OutcomeIsCanonical
  <2>2. CASE r.rule = "explicit_supersedes"
    BY <2>1, <2>2, RequestsAreRequests DEF CanonicalSupersedes, InputsOK
  <2>3. CASE r.rule = "source_of_truth"
    <3>1. <<r.from, r.to>> \in RequestedBy("source_of_truth")
      BY <2>3 DEF RequestedBy
    <3>2. PICK w \in facts : RequestedBy("source_of_truth") = {w} \X SourceOfTruthCompetitors(w)
      BY <2>1, <3>1 DEF WinnerRulesHold
    <3> QED
      BY <3>1, <3>2 DEF SourceOfTruthCompetitors
  <2>4. CASE r.rule = "current_over_historical"
    <3>1. <<r.from, r.to>> \in RequestedBy("current_over_historical")
      BY <2>4 DEF RequestedBy
    <3>2. PICK w \in facts : RequestedBy("current_over_historical") = {w} \X (Remaining \ {w})
      BY <2>1, <3>1 DEF WinnerRulesHold
    <3> QED
      BY <3>1, <3>2
  <2> QED
    BY <2>1, <2>2, <2>3, <2>4 DEF CanonicalSupersedes
<1>2. CASE r.type = "CONFLICTS"
  <2>1. <<r.from, r.to>> \in AllPairs(WithStatus("CONFLICTED"))
    BY <1>2 DEF OutcomeIsCanonical, ConflictsAreComplete, Edges
  <2> QED
    BY <2>1 DEF AllPairs
<1> QED
  BY <1>1, <1>2, RequestsAreRequests

\* Every conflict has been requested in both directions.
LEMMA MergedIsSymmetric ==
  ASSUME TypeOK, OutcomeIsCanonical
  PROVE  Symmetric(Merged)
<1> SUFFICES ASSUME NEW r \in Merged, r.type = "CONFLICTS"
             PROVE  [r EXCEPT !.from = r.to, !.to = r.from] \in Merged
  BY DEF Symmetric
<1>1. r \in requests /\ r \in Request
  BY RequestsAreRequests DEF Merged
<1>2. \A q \in requests : q.type = "CONFLICTS" =>
        \A f \in {q.from, q.to} : decision[f] = Decided("CONFLICTED", q.rule)
  BY DEF OutcomeIsCanonical, ConflictsAreComplete
<1>3. \A u, v : Decided("CONFLICTED", u) = Decided("CONFLICTED", v) => u = v
  BY DEF Decided
<1>4. PICK q \in requests : q.type = "CONFLICTS" /\ q.from = r.to /\ q.to = r.from
  <2>1. <<r.from, r.to>> \in Edges("CONFLICTS")
    BY <1>1 DEF Edges
  <2>2. <<r.to, r.from>> \in Edges("CONFLICTS")
    BY <2>1 DEF OutcomeIsCanonical, ConflictsAreComplete, AllPairs
  <2> QED
    BY <2>2 DEF Edges
<1>5. \A p \in requests : Key(p) = Key(q) => p.rule = q.rule
  BY <1>2, <1>3, <1>4 DEF Key
<1>6. q.rule = r.rule
  BY <1>1, <1>2, <1>3, <1>4
<1>7. q \in Merged
  <2>1. RequestPriority(q.rule) \in 1..5
    BY RequestsAreRequests, PrioritiesAreDistinct
  <2>2. \A p \in requests : Key(q) = Key(p) => RequestPriority(q.rule) =< RequestPriority(p.rule)
    BY <1>5, <2>1
  <2> QED
    BY <2>2 DEF Merged
<1>8. q = [r EXCEPT !.from = r.to, !.to = r.from]
  <2>1. q \in Request
    BY RequestsAreRequests
  <2> QED
    BY <1>1, <1>4, <1>6, <2>1 DEF Request
<1> QED
  BY <1>7, <1>8
-----------------------------------------------------------------------------
(* The checks *)

\* A fact is replaced, or replaces another, when some request says so.
LEMMA EndPoints ==
  ASSUME NEW f
  PROVE  /\ f \in Incoming <=> \E r \in requests : r.type = "SUPERSEDES" /\ r.to = f
         /\ f \in Outgoing <=> \E r \in requests : r.type = "SUPERSEDES" /\ r.from = f
<1>1. ASSUME NEW r \in requests, r.type = "SUPERSEDES"
      PROVE  r.to \in Incoming /\ r.from \in Outgoing
  <2>1. <<r.from, r.to>> \in Edges("SUPERSEDES")
    BY <1>1 DEF Edges
  <2>2. <<r.from, r.to>>[1] = r.from /\ <<r.from, r.to>>[2] = r.to
    OBVIOUS
  <2> QED
    BY <2>1, <2>2 DEF Incoming, Outgoing
<1>2. f \in Incoming => \E r \in requests : r.type = "SUPERSEDES" /\ r.to = f
  BY DEF Incoming, Edges
<1>3. f \in Outgoing => \E r \in requests : r.type = "SUPERSEDES" /\ r.from = f
  BY DEF Outgoing, Edges
<1> QED
  BY <1>1, <1>2, <1>3

LEMMA RelationsByType ==
  ASSUME TypeOK, relations = Merged
  PROVE  Opposed = Edges("CONFLICTS") /\ Replaced = Incoming /\ Replacing = Outgoing
<1>1. Opposed = Edges("CONFLICTS")
  BY MergedEdges DEF Opposed
<1>2. ASSUME NEW r \in requests, r.type = "SUPERSEDES"
      PROVE  \E q \in relations : q.type = "SUPERSEDES" /\ q.from = r.from /\ q.to = r.to
  BY <1>2, MergingKeepsOne DEF Key
<1>3. \A r \in relations : r \in requests
  BY DEF Merged
<1>4. \A f \in Replaced \union Replacing \union Incoming \union Outgoing : f \in facts
  BY EndPoints, RequestsAreRequests DEF Replaced, Replacing
<1>5. \A f \in facts : (f \in Replaced <=> f \in Incoming) /\ (f \in Replacing <=> f \in Outgoing)
  BY <1>2, <1>3, EndPoints DEF Replaced, Replacing
<1> QED
  BY <1>1, <1>4, <1>5

\* On a constructed outcome the checks before the search look for nothing but
\* statuses that do not match the relations.
LEMMA ChecksAreStatuses ==
  ASSUME TypeOK, InputsOK, OutcomeIsCanonical, relations = Merged
  PROVE  /\ IdentitiesAreSound
         /\ StatusesMatchRelations => ConflictsAreSound /\ StatusesAreSound
         /\ ConflictsAreSound /\ StatusesAreSound => StatusesMatchRelations
<1>1. relations \subseteq requests
  BY DEF Merged
<1>2. IdentitiesAreSound
  BY <1>1, NoSelfRelation, MergingKeepsNoMore DEF IdentitiesAreSound
<1>3. ConflictsAreComplete
  BY DEF OutcomeIsCanonical
<1>4. \A r \in relations : r.type = "CONFLICTS" =>
        /\ r.rule \in ConflictRules
        /\ \A f \in {r.from, r.to} : decision[f] = Decided("CONFLICTED", r.rule)
  BY <1>1, <1>3 DEF ConflictsAreComplete
<1>5. Symmetric(relations)
  BY MergedIsSymmetric
<1>6. Opposed = AllPairs(WithStatus("CONFLICTED"))
  BY <1>3, RelationsByType DEF ConflictsAreComplete
<1>7. ConflictsAreSound <=> WithStatus("CONFLICTED") \intersect (Incoming \union Outgoing) = {}
  BY <1>4, <1>5, <1>6, RelationsByType DEF ConflictsAreSound
<1> QED
  BY <1>2, <1>7, RelationsByType DEF StatusesAreSound, StatusesMatchRelations

LEMMA IndexesAreTyped ==
  ASSUME NEW edges \in SUBSET Request
  PROVE  DerivedIndexes(edges) \in
           [facts -> [supersedes : SUBSET facts, superseded_by : SUBSET facts, conflicts : SUBSET facts]]
<1>1. \A r \in edges : r.from \in facts /\ r.to \in facts
  BY DEF Request
<1> SUFFICES ASSUME NEW f \in facts
             PROVE  /\ {r.to : r \in {q \in edges : q.type = "SUPERSEDES" /\ q.from = f}} \subseteq facts
                    /\ {r.from : r \in {q \in edges : q.type = "SUPERSEDES" /\ q.to = f}} \subseteq facts
                    /\ UNION {{r.from, r.to} \ {f} :
                                r \in {q \in edges : q.type = "CONFLICTS" /\ f \in {q.from, q.to}}}
                         \subseteq facts
  BY DEF DerivedIndexes
<1> QED
  BY <1>1

\* The search walks along the replacements.
LEMMA SearchedEdges ==
  ASSUME TypeOK, Judged, NEW f \in facts
  PROVE  /\ Replaces(f) \subseteq facts
         /\ \A g : g \in Replaces(f) <=> <<f, g>> \in Edges("SUPERSEDES")
<1>1. relations = Merged /\ index = DerivedIndexes(relations)
  BY DEF Judged
<1>2. {<<r.from, r.to>> : r \in {q \in relations : q.type = "SUPERSEDES"}} = Edges("SUPERSEDES")
  BY <1>1, MergedEdges
<1>3. Replaces(f) = {r.to : r \in {q \in relations : q.type = "SUPERSEDES" /\ q.from = f}}
  BY <1>1 DEF Replaces, DerivedIndexes
<1>4. Replaces(f) \subseteq facts
  BY <1>1, <1>3, RequestsAreRequests DEF Merged
<1>5. ASSUME NEW g PROVE g \in Replaces(f) <=> <<f, g>> \in Edges("SUPERSEDES")
  <2>1. g \in Replaces(f) <=> \E r \in relations : r.type = "SUPERSEDES" /\ r.from = f /\ r.to = g
    BY <1>3
  <2>2. <<f, g>> \in Edges("SUPERSEDES") <=>
          \E r \in relations : r.type = "SUPERSEDES" /\ <<f, g>> = <<r.from, r.to>>
    BY <1>2
  <2> QED
    BY <2>1, <2>2
<1> QED
  BY <1>4, <1>5

-----------------------------------------------------------------------------
(* Stacks *)

LEMMA WithoutTop ==
  ASSUME NEW S, NEW s \in Seq(S), s # <<>>
  PROVE  LET t == SubSeq(s, 1, Len(s) - 1)
         IN  /\ t \in Seq(S) /\ Len(t) = Len(s) - 1
             /\ \A i \in 1..Len(t) : t[i] = s[i]
<1>1. Len(s) \in Nat \ {0}
  BY EmptySeq
<1> DEFINE n == Len(s) - 1
           t == SubSeq(s, 1, n)
<1>2. n \in Int /\ n >= 0 /\ \A i \in 1..n : s[i] \in S
  BY <1>1, ElementOfSeq
<1>3. /\ t \in Seq(S) /\ Len(t) = IF 1 <= n THEN n - 1 + 1 ELSE 0
      /\ \A i \in 1..(n - 1 + 1) : t[i] = s[1 + i - 1]
  <2> HIDE DEF n
  <2> QED
    BY <1>2, SubSeqProperties
<1>4. Len(t) = n /\ \A i \in 1..n : t[i] = s[i]
  <2> HIDE DEF n, t
  <2>1. n - 1 + 1 = n /\ \A i \in 1..n : 1 + i - 1 = i
    BY <1>2
  <2> QED
    BY <1>2, <1>3, <2>1
<1> QED
  BY <1>3, <1>4

LEMMA ReplacedTop ==
  ASSUME NEW S, NEW s \in Seq(S), s # <<>>, NEW e \in S
  PROVE  LET t == Append(SubSeq(s, 1, Len(s) - 1), e)
         IN  /\ t \in Seq(S) /\ Len(t) = Len(s)
             /\ \A i \in 1..Len(s) : t[i] = IF i < Len(s) THEN s[i] ELSE e
<1>1. Len(s) \in Nat \ {0}
  BY EmptySeq
<1>2. \A i \in 1..(Len(s) - 1) : s[i] \in S
  BY <1>1, ElementOfSeq
<1> DEFINE b == SubSeq(s, 1, Len(s) - 1)
<1>3. b \in Seq(S) /\ Len(b) = Len(s) - 1 /\ \A i \in 1..Len(b) : b[i] = s[i]
  BY WithoutTop
<1> HIDE DEF b
<1>4. /\ Append(b, e) \in Seq(S) /\ Len(Append(b, e)) = Len(b) + 1
      /\ \A i \in 1..Len(b) : Append(b, e)[i] = b[i]
      /\ Append(b, e)[Len(b) + 1] = e
  BY <1>3, AppendProperties
<1>5. /\ Append(b, e) \in Seq(S) /\ Len(Append(b, e)) = Len(s)
      /\ \A i \in 1..Len(s) : Append(b, e)[i] = IF i < Len(s) THEN s[i] ELSE e
  BY <1>1, <1>3, <1>4
<1> QED
  BY <1>5 DEF b

\* What is known of a stack that is not empty.
LEMMA TopOfStack ==
  ASSUME NEW s \in Seq(Entry), s # <<>>
  PROVE  /\ Len(s) \in Nat \ {0} /\ DOMAIN s = 1..Len(s)
         /\ s[Len(s)] \in Entry
<1>1. Len(s) \in Nat \ {0}
  BY EmptySeq
<1> QED
  BY <1>1, ElementOfSeq, LenProperties

-----------------------------------------------------------------------------
(* The search *)

LEMMA BeforeTheSearch == NotSearched => SearchInv
<1> SUFFICES ASSUME NotSearched PROVE SearchInv
  OBVIOUS
<1>1. Len(stack) = 0 /\ DOMAIN stack = {}
  BY LenProperties, EmptySeq DEF NotSearched
<1> QED
  BY <1>1 DEF NotSearched, SearchInv, StackIsAPath, StackIsClimbing, RestIsToCome,
              GrayIsTheStack, BlackIsClosed, BlackIsAcyclic

\* A fact goes on top of the path, and is no longer to come where it was popped.
LEMMA LongerPath ==
  ASSUME SearchInv, NEW f, f \notin gray, f \notin black,
         Replaces(f) \intersect (gray \union {f}) = {},
         NEW L \in Nat, Len(stack) = L, DOMAIN stack = 1..L,
         Len(stack') = L + 1, DOMAIN stack' = 1..(L + 1),
         \A i \in 1..L : stack'[i].node = stack[i].node,
         \A i \in 1..L : i # L => stack'[i].rest = stack[i].rest,
         L # 0 => f \in stack[L].rest /\ stack'[L].rest = stack[L].rest \ {f},
         stack'[L + 1].node = f, stack'[L + 1].rest = Replaces(f) \ black,
         gray' = gray \union {f}, UNCHANGED <<black, index>>
  PROVE  SearchInv'
<1>1. \A i \in 1..(L + 1) : i \in 1..L \/ i = L + 1
  OBVIOUS
<1>2. \A i \in 1..L : i \in 1..(L + 1) /\ (i < L => i + 1 \in 1..L) /\ (i < L \/ i = L)
  OBVIOUS
<1>7. \A g : Replaces(g)' = Replaces(g)
  BY DEF Replaces
<1>8. \A i \in 1..L : stack[i].node \in gray
  BY DEF SearchInv, GrayIsTheStack
<1>9. StackIsAPath'
  <2> SUFFICES ASSUME NEW i \in 1..L
               PROVE  stack'[i + 1].node \in Replaces(stack'[i].node) \ stack'[i].rest
    BY <1>7 DEF StackIsAPath
  <2>1. CASE i < L
    <3>1. i + 1 \in 1..L /\ i # L
      BY <2>1
    <3>2. stack[i + 1].node \in Replaces(stack[i].node) \ stack[i].rest
      BY <2>1 DEF SearchInv, StackIsAPath
    <3> QED
      BY <3>1, <3>2
  <2>2. CASE i = L
    BY <1>2, <2>2 DEF SearchInv, RestIsToCome
  <2> QED
    BY <1>1, <2>1, <2>2
<1>10. StackIsClimbing'
  <2> SUFFICES ASSUME NEW i \in 1..(L + 1), NEW j \in 1..(L + 1)
               PROVE  /\ i # j => stack'[i].node # stack'[j].node
                      /\ j =< i => stack'[j].node \notin stack'[i].rest
    BY DEF StackIsClimbing
  <2>1. CASE i \in 1..L /\ j \in 1..L
    <3>1. /\ i # j => stack[i].node # stack[j].node
          /\ j =< i => stack[j].node \notin stack[i].rest
      BY <2>1 DEF SearchInv, StackIsClimbing
    <3>2. stack'[i].node = stack[i].node /\ stack'[j].node = stack[j].node
      BY <2>1
    <3>3. stack'[i].rest \subseteq stack[i].rest
      BY <2>1
    <3> QED
      BY <3>1, <3>2, <3>3
  <2>2. CASE i \in 1..L /\ j = L + 1
    BY <1>2, <1>8, <2>2
  <2>3. CASE i = L + 1 /\ j \in 1..L
    BY <1>2, <1>8, <2>3
  <2>4. CASE i = L + 1 /\ j = L + 1
    BY <1>2, <2>4
  <2> QED
    BY <1>1, <2>1, <2>2, <2>3, <2>4
<1>11. RestIsToCome'
  <2> SUFFICES ASSUME NEW i \in 1..(L + 1)
               PROVE  /\ stack'[i].rest \subseteq Replaces(stack'[i].node)
                      /\ i < L + 1 => Replaces(stack'[i].node) \subseteq
                                        stack'[i].rest \union black \union {stack'[i + 1].node}
                      /\ i = L + 1 => Replaces(stack'[i].node) \subseteq stack'[i].rest \union black
    BY <1>7 DEF RestIsToCome
  <2>1. CASE i \in 1..L /\ i < L
    <3>1. i + 1 \in 1..L
      BY <1>1, <2>1
    <3> QED
      BY <1>2, <2>1, <3>1 DEF SearchInv, RestIsToCome
  <2>2. CASE i = L /\ i \in 1..L
    BY <1>2, <2>2 DEF SearchInv, RestIsToCome
  <2>3. CASE i = L + 1
    BY <1>2, <2>3
  <2> QED
    BY <1>1, <2>1, <2>2, <2>3
<1>12. GrayIsTheStack'
  <2>1. \A g \in gray' : \E i \in 1..(L + 1) : g = stack'[i].node
    <3> SUFFICES ASSUME NEW g \in gray' PROVE \E i \in 1..(L + 1) : g = stack'[i].node
      OBVIOUS
    <3>1. CASE g = f
      BY <1>2, <3>1
    <3>2. CASE g \in gray
      <4>1. PICK i \in 1..L : g = stack[i].node
        BY <1>1, <3>2 DEF SearchInv, GrayIsTheStack
      <4> QED
        BY <1>2, <4>1
    <3> QED
      BY <3>1, <3>2
  <2>2. \A i \in 1..(L + 1) : stack'[i].node \in gray'
    BY <1>1, <1>8
  <2>3. gray' \intersect black' = {}
    BY DEF SearchInv, GrayIsTheStack
  <2> QED
    BY <2>1, <2>2, <2>3 DEF GrayIsTheStack
<1>13. BlackIsClosed' /\ BlackIsAcyclic'
  BY <1>7 DEF SearchInv, BlackIsClosed, BlackIsAcyclic
<1> QED
  BY <1>9, <1>10, <1>11, <1>12, <1>13 DEF SearchInv

\* A new fact, with all its children that are not black, goes on top of what led
\* to it.
LEMMA EnterSearch ==
  ASSUME SearchInv, stack \in Seq(Entry), NEW f \in facts, f \notin gray, f \notin black,
         NEW beneath \in Seq(Entry), Len(beneath) = Len(stack),
         \A i \in 1..Len(stack) :
           /\ beneath[i].node = stack[i].node
           /\ beneath[i].rest = IF i < Len(stack) THEN stack[i].rest ELSE stack[i].rest \ {f},
         stack # <<>> => f \in Top.rest,
         Replaces(f) \intersect (gray \union {f}) = {}, Replaces(f) \subseteq facts,
         stack' = Append(beneath, [node |-> f, rest |-> Replaces(f) \ black]),
         gray' = gray \union {f}, UNCHANGED <<black, index>>
  PROVE  SearchInv' /\ stack' \in Seq(Entry)
<1> DEFINE L == Len(stack)
           new == [node |-> f, rest |-> Replaces(f) \ black]
<1>1. L \in Nat /\ DOMAIN stack = 1..L /\ (stack # <<>> => L # 0)
  BY LenProperties, TopOfStack
<1>2. new \in Entry /\ new.node = f /\ new.rest = Replaces(f) \ black
  BY DEF Entry
<1>3. stack' \in Seq(Entry) /\ Len(stack') = L + 1 /\ DOMAIN stack' = 1..(L + 1)
  BY <1>1, <1>2, AppendProperties, LenProperties
<1>4. /\ \A i \in 1..L : stack'[i] = beneath[i]
      /\ stack'[L + 1] = new
  BY <1>1, <1>2, AppendProperties
<1>5. /\ \A i \in 1..L :
           /\ stack'[i].node = stack[i].node
           /\ stack'[i].rest = IF i < L THEN stack[i].rest ELSE stack[i].rest \ {f}
      /\ stack'[L + 1].node = f /\ stack'[L + 1].rest = Replaces(f) \ black
  BY <1>2, <1>4
<1>6. \A i \in 1..L : i = L => f \in stack[i].rest
  BY <1>1 DEF Top
<1> HIDE DEF L, new
<1>7. /\ \A i \in 1..L : stack'[i].node = stack[i].node
      /\ \A i \in 1..L : i # L => stack'[i].rest = stack[i].rest
      /\ L # 0 => f \in stack[L].rest /\ stack'[L].rest = stack[L].rest \ {f}
  <2>1. \A i \in 1..L : i # L => i < L
    BY <1>1
  <2>2. L # 0 => L \in 1..L /\ ~(L < L)
    BY <1>1
  <2> QED
    BY <1>5, <1>6, <2>1, <2>2
<1>8. Len(stack) = L
  BY DEF L
<1>9. SearchInv'
  BY <1>1, <1>3, <1>5, <1>7, <1>8, LongerPath
<1> QED
  BY <1>3, <1>9
\* A fact without children to come is left.  It turns black, and as no black fact
\* leads to it, it is where any group of black facts it is in can begin.
LEMMA ShorterPath ==
  ASSUME SearchInv, NEW L \in Nat, Len(stack) = L + 1, DOMAIN stack = 1..(L + 1),
         Len(stack') = L, DOMAIN stack' = 1..L,
         \A i \in 1..L : stack'[i] = stack[i],
         NEW n, n = stack[L + 1].node, stack[L + 1].rest = {},
         gray' = gray \ {n}, black' = black \union {n}, UNCHANGED index
  PROVE  SearchInv'
<1>1. \A i \in 1..L : i \in 1..(L + 1) /\ i # L + 1 /\ (i < L => i + 1 \in 1..L) /\ (i < L \/ i = L)
  OBVIOUS
<1>2. L + 1 \in 1..(L + 1) /\ \A i \in 1..(L + 1) : i \in 1..L \/ i = L + 1
  OBVIOUS
<1>3. \A g : Replaces(g)' = Replaces(g)
  BY DEF Replaces
<1>4. \A i \in 1..L : stack[i].node # n
  BY <1>1, <1>2 DEF SearchInv, StackIsClimbing
<1>5. n \in gray /\ n \notin black
  BY <1>2 DEF SearchInv, GrayIsTheStack
<1>6. Replaces(n) \subseteq black
  BY <1>2 DEF SearchInv, RestIsToCome
<1>7. StackIsAPath'
  <2> SUFFICES ASSUME NEW i \in 1..L, i < L
               PROVE  stack[i + 1].node \in Replaces(stack[i].node) \ stack[i].rest
    BY <1>1, <1>3 DEF StackIsAPath
  <2> QED
    BY <1>1 DEF SearchInv, StackIsAPath
<1>8. StackIsClimbing'
  BY <1>1 DEF SearchInv, StackIsClimbing
<1>9. RestIsToCome'
  <2> SUFFICES ASSUME NEW i \in 1..L
               PROVE  /\ stack[i].rest \subseteq Replaces(stack[i].node)
                      /\ i < L => Replaces(stack[i].node) \subseteq
                                    stack[i].rest \union black' \union {stack[i + 1].node}
                      /\ i = L => Replaces(stack[i].node) \subseteq stack[i].rest \union black'
    BY <1>1, <1>3 DEF RestIsToCome
  <2>1. /\ stack[i].rest \subseteq Replaces(stack[i].node)
        /\ Replaces(stack[i].node) \subseteq
             stack[i].rest \union black \union {stack[i + 1].node}
    BY <1>1 DEF SearchInv, RestIsToCome
  <2> QED
    BY <2>1
<1>10. GrayIsTheStack'
  <2>1. \A g \in gray' : \E i \in 1..L : g = stack'[i].node
    BY <1>2 DEF SearchInv, GrayIsTheStack
  <2>2. \A i \in 1..L : stack'[i].node \in gray'
    BY <1>1, <1>4 DEF SearchInv, GrayIsTheStack
  <2> QED
    BY <2>1, <2>2, <1>5 DEF SearchInv, GrayIsTheStack
<1>11. BlackIsClosed'
  BY <1>3, <1>6 DEF SearchInv, BlackIsClosed
<1>12. BlackIsAcyclic'
  <2> SUFFICES ASSUME NEW S \in (SUBSET black') \ {{}}
               PROVE  \E x \in S : \A y \in S : x \notin Replaces(y)
    BY <1>3 DEF BlackIsAcyclic
  <2>1. CASE n \in S
    BY <1>5, <1>6, <2>1 DEF SearchInv, BlackIsClosed
  <2>2. CASE n \notin S
    BY <2>2 DEF SearchInv, BlackIsAcyclic
  <2> QED
    BY <2>1, <2>2
<1> QED
  BY <1>7, <1>8, <1>9, <1>10, <1>11, <1>12 DEF SearchInv

\* A child that has been left since it was pushed is passed over.
LEMMA PassedOver ==
  ASSUME SearchInv, NEW L \in Nat \ {0}, Len(stack) = L, DOMAIN stack = 1..L,
         Len(stack') = L, DOMAIN stack' = 1..L,
         \A i \in 1..L : stack'[i].node = stack[i].node,
         \A i \in 1..L : i # L => stack'[i].rest = stack[i].rest,
         NEW f \in black, stack'[L].rest = stack[L].rest \ {f},
         UNCHANGED <<gray, black, index>>
  PROVE  SearchInv'
<1>1. \A i \in 1..L : (i < L => i + 1 \in 1..L /\ i # L) /\ (i < L \/ i = L)
  OBVIOUS
<1>2. \A g : Replaces(g)' = Replaces(g)
  BY DEF Replaces
<1>3. \A i \in 1..L : /\ stack'[i].rest \subseteq stack[i].rest
                      /\ stack[i].rest \subseteq stack'[i].rest \union black
  BY <1>1
<1>4. StackIsAPath'
  <2> SUFFICES ASSUME NEW i \in 1..L, i < L
               PROVE  stack'[i + 1].node \in Replaces(stack'[i].node) \ stack'[i].rest
    BY <1>2 DEF StackIsAPath
  <2>1. stack[i + 1].node \in Replaces(stack[i].node) \ stack[i].rest
    BY DEF SearchInv, StackIsAPath
  <2> QED
    BY <1>1, <2>1
<1>5. StackIsClimbing'
  BY <1>3 DEF SearchInv, StackIsClimbing
<1>6. RestIsToCome'
  <2> SUFFICES ASSUME NEW i \in 1..L
               PROVE  /\ stack'[i].rest \subseteq Replaces(stack'[i].node)
                      /\ i < L => Replaces(stack'[i].node) \subseteq
                                    stack'[i].rest \union black \union {stack'[i + 1].node}
                      /\ i = L => Replaces(stack'[i].node) \subseteq stack'[i].rest \union black
    BY <1>2 DEF RestIsToCome
  <2>1. /\ stack[i].rest \subseteq Replaces(stack[i].node)
        /\ i < L => Replaces(stack[i].node) \subseteq
                      stack[i].rest \union black \union {stack[i + 1].node}
        /\ i = L => Replaces(stack[i].node) \subseteq stack[i].rest \union black
    BY DEF SearchInv, RestIsToCome
  <2>2. stack'[i].node = stack[i].node /\ (i < L => stack'[i + 1].node = stack[i + 1].node)
    BY <1>1
  <2> QED
    BY <1>3, <2>1, <2>2
<1>7. GrayIsTheStack' /\ BlackIsClosed' /\ BlackIsAcyclic'
  BY <1>2 DEF SearchInv, GrayIsTheStack, BlackIsClosed, BlackIsAcyclic
<1> QED
  BY <1>4, <1>5, <1>6, <1>7 DEF SearchInv

\* A gray child closes a cycle: the path from it to its parent.
LEMMA GrayClosesACycle ==
  ASSUME TypeOK, Judged, SearchInv, stack \in Seq(Entry), NEW f \in facts,
         stack # <<>> => f \in Top.rest,
         NEW c \in Replaces(f), c \in gray \union {f}
  PROVE  ~Acyclic(Edges("SUPERSEDES"))
<1> SUFFICES ASSUME NEW S \in (SUBSET facts) \ {{}}, \A x \in S : \E y \in S : x \in Replaces(y)
             PROVE  ~Acyclic(Edges("SUPERSEDES"))
  <2>1. \E S \in (SUBSET facts) \ {{}} : \A x \in S : \E y \in S : x \in Replaces(y)
    <3>1. CASE c = f
      <4>1. {f} \in (SUBSET facts) \ {{}} /\ \A x \in {f} : \E y \in {f} : x \in Replaces(y)
        BY <3>1
      <4> QED
        BY <4>1
    <3>2. CASE c # f
      <4>1. PICK j \in DOMAIN stack : c = stack[j].node
        BY <3>2 DEF SearchInv, GrayIsTheStack
      <4>2. stack # <<>> /\ Len(stack) \in Nat \ {0} /\ DOMAIN stack = 1..Len(stack)
        BY <4>1, LenProperties, EmptySeq
      <4> DEFINE S == {stack[i].node : i \in j..Len(stack)} \union {f}
      <4>3. \A i \in j..Len(stack) : i \in DOMAIN stack /\ stack[i] \in Entry
        BY <4>1, <4>2, ElementOfSeq
      <4>4. S \in (SUBSET facts) \ {{}}
        BY <4>3 DEF Entry
      <4>5. ASSUME NEW i \in j..Len(stack) PROVE \E y \in S : stack[i].node \in Replaces(y)
        <5>1. CASE i = j
          BY <4>1, <5>1
        <5>2. CASE i # j
          <6>1. i - 1 \in j..Len(stack) /\ i - 1 \in DOMAIN stack /\ i - 1 < Len(stack) /\ (i - 1) + 1 = i
            BY <4>1, <4>2, <5>2
          <6>2. stack[i].node \in Replaces(stack[i - 1].node)
            BY <6>1 DEF SearchInv, StackIsAPath
          <6> QED
            BY <6>1, <6>2
        <5> QED
          BY <5>1, <5>2
      <4>6. \E y \in S : f \in Replaces(y)
        <5>1. Len(stack) \in j..Len(stack) /\ Len(stack) \in DOMAIN stack
          BY <4>1, <4>2
        <5>2. f \in Replaces(stack[Len(stack)].node)
          BY <4>2, <5>1 DEF SearchInv, RestIsToCome, Top
        <5> QED
          BY <5>1, <5>2
      <4>7. \A x \in S : \E y \in S : x \in Replaces(y)
        BY <4>5, <4>6
      <4> QED
        BY <4>4, <4>7
    <3> QED
      BY <3>1, <3>2
  <2> QED
    BY <2>1
<1>1. \A x \in S : \E y \in S : <<y, x>> \in Edges("SUPERSEDES")
  BY SearchedEdges
<1> QED
  BY <1>1 DEF Acyclic

\* When every fact is black there is no cycle.
LEMMA AllBlackIsAcyclic ==
  ASSUME TypeOK, Judged, SearchInv, black = facts
  PROVE  Acyclic(Edges("SUPERSEDES"))
<1> SUFFICES ASSUME NEW S \in (SUBSET facts) \ {{}}
             PROVE  \E x \in S : \A y \in S : <<y, x>> \notin Edges("SUPERSEDES")
  BY DEF Acyclic
<1>1. PICK x \in S : \A y \in S : x \notin Replaces(y)
  BY DEF SearchInv, BlackIsAcyclic
<1> QED
  BY <1>1, SearchedEdges
-----------------------------------------------------------------------------
(* Every step of the graph is a step of the coordinator, or none. *)

\* What the coordinator has established when the graph is judged.
LEMMA WhatIsValidated ==
  ASSUME IInv, phase = "validate"
  PROVE  /\ TypeOK /\ InputsOK /\ OutcomeIsCanonical
         /\ GraphIsValid <=> Acyclic(Edges("SUPERSEDES")) /\ StatusesMatchRelations
  BY DEF IInv, GraphIsValid, OutcomeIsCanonical

\* The judgements on a graph depend on nothing else.
LEMMA JudgedFixed ==
  ASSUME UNCHANGED <<facts, decision, requests, relations, index>>
  PROVE  /\ Merged' = Merged /\ DerivedIndexes(relations)' = DerivedIndexes(relations)
         /\ ConflictsAreSound' = ConflictsAreSound /\ StatusesAreSound' = StatusesAreSound
<1>1. Merged' = Merged /\ DerivedIndexes(relations)' = DerivedIndexes(relations)
  BY DEF Merged, DerivedIndexes, Key, RequestPriority, Priority
<1>2. /\ Replaced' = Replaced /\ Replacing' = Replacing /\ Opposed' = Opposed
      /\ \A s : WithStatus(s)' = WithStatus(s)
  BY DEF Replaced, Replacing, Opposed, WithStatus
<1>3. Symmetric(relations)' = Symmetric(relations)
  BY DEF Symmetric
<1>4. AllPairs(WithStatus("CONFLICTED"))' = AllPairs(WithStatus("CONFLICTED"))
  BY <1>2 DEF AllPairs
<1>5. StatusesAreSound' = StatusesAreSound
  BY <1>2 DEF StatusesAreSound
<1> QED
  BY <1>1, <1>2, <1>3, <1>4, <1>5 DEF ConflictsAreSound, Decided

LEMMA SearchFixed ==
  ASSUME SearchInv, UNCHANGED <<index, searching>>
  PROVE  SearchInv'
  BY DEF SearchInv, searching, StackIsAPath, StackIsClimbing, RestIsToCome, GrayIsTheStack,
         BlackIsClosed, BlackIsAcyclic, Replaces

LEMMA GraphTypeFixed ==
  ASSUME GraphTypeOK, relations \subseteq requests', UNCHANGED <<facts, graph>>
  PROVE  GraphTypeOK'
  BY DEF GraphTypeOK, graph, searching

\* Once the graph is published or rejected nothing is asked of it any more.
LEMMA ConcludingKeepsGInv ==
  ASSUME GInv, check # "none", phase' \in Terminal, UNCHANGED <<facts, requests, graph>>
  PROVE  GInv'
<1>1. relations \subseteq requests'
  BY DEF GInv, GraphTypeOK
<1>2. phase' # "validate"
  BY DEF Terminal, Rejections
<1> QED
  BY <1>1, <1>2, GraphTypeFixed DEF GInv, graph, searching, NotSearched

\* A failing check or search is the coordinator's rejection of an invalid graph.
LEMMA RejectingIsValidate ==
  ASSUME IInv, phase = "validate", ~Acyclic(Edges("SUPERSEDES")) \/ ~StatusesMatchRelations,
         phase' = "rejected_invariant", UNCHANGED <<inputs, decision, requests, conflictIds>>
  PROVE  Next
<1>1. ~GraphIsValid
  BY WhatIsValidated
<1> QED
  BY <1>1 DEF Next, Step, Validate

LEMMA CoordinateStep ==
  ASSUME IInv, GInv, Coordinate
  PROVE  Next /\ GInv'
<1>1. Next
  BY DEF Coordinate, Next, Step
<1>2. CASE Done
  <2>1. /\ UNCHANGED <<facts, decision, requests, relations, index, check, phase, searching>>
        /\ UNCHANGED graph
    BY <1>2 DEF Done, vars, Coordinate, graph
  <2>2. phase' # "validate"
    BY <1>2 DEF Done, vars, Terminal, Rejections
  <2>3. GraphTypeOK'
    BY <2>1, GraphTypeFixed DEF GInv, GraphTypeOK
  <2> QED
    BY <1>1, <2>1, <2>2, <2>3 DEF GInv, NotSearched, searching
<1>3. CASE ~Done
  <2>1. phase \in {"explicit", "winner", "finalize", "rollback", "construct"}
    BY <1>3 DEF Coordinate, ApplyExplicit, ApplyWinnerRule, ApplySourceOfTruth, ApplyCurrentEvidence,
                Win, NoWinner, Finalize, RollBack, RaiseConflicts, Construct
  <2>2. check = "none" /\ relations = {} /\ NotSearched
    BY <2>1 DEF GInv, Terminal, Rejections
  <2>3. UNCHANGED <<facts, relations, index, check, searching>> /\ UNCHANGED graph
    BY <1>1, StepKeepsInputs DEF Coordinate, graph, inputs
  <2>4. GraphTypeOK'
    BY <2>2, <2>3, GraphTypeFixed DEF GInv
  <2>5. SearchInv' /\ NotSearched'
    BY <2>2, <2>3, BeforeTheSearch, SearchFixed DEF NotSearched, searching
  <2> QED
    BY <1>1, <2>2, <2>3, <2>4, <2>5 DEF GInv
<1> QED
  BY <1>2, <1>3

LEMMA MaterializeStep ==
  ASSUME IInv, GInv, Materialize
  PROVE  UNCHANGED vars /\ GInv'
<1>1. /\ phase = "validate" /\ check = "none" /\ TypeOK /\ InputsOK /\ OutcomeIsCanonical
      /\ NotSearched
  BY WhatIsValidated DEF Materialize, GInv
<1>2. Symmetric(Merged) /\ \A r \in requests : r.from # r.to
  BY <1>1, MergedIsSymmetric, NoSelfRelation
<1>3. /\ relations' = Merged /\ index' = DerivedIndexes(Merged) /\ check' = "identity"
      /\ UNCHANGED <<phase, searching>> /\ UNCHANGED <<inputs, decision, requests, conflictIds>>
  BY <1>2 DEF Materialize
<1>4. Merged \subseteq requests /\ Merged \in SUBSET Request
  BY <1>1 DEF Merged, TypeOK
<1>5. GraphTypeOK'
  BY <1>3, <1>4, IndexesAreTyped DEF GInv, GraphTypeOK, Checks, searching, inputs
<1>6. NotSearched' /\ SearchInv'
  <2>1. NotSearched'
    BY <1>1, <1>3 DEF NotSearched, searching
  <2>2. NotSearched' => SearchInv'
    BY BeforeTheSearch, PTL
  <2> QED
    BY <2>1, <2>2
<1>7. Merged' = Merged /\ DerivedIndexes(relations)' = index'
  BY <1>3 DEF Merged, DerivedIndexes, Key, RequestPriority, Priority, inputs
<1>8. Judged'
  BY <1>3, <1>7 DEF Judged
<1> QED
  BY <1>1, <1>3, <1>5, <1>6, <1>8 DEF GInv, vars, inputs

LEMMA CheckStep ==
  ASSUME IInv, GInv, Check
  PROVE  (Next \/ UNCHANGED vars) /\ GInv'
<1>1. /\ phase = "validate" /\ check \in {"identity", "conflicts", "indexes", "statuses"}
      /\ TypeOK /\ InputsOK /\ OutcomeIsCanonical /\ Judged /\ NotSearched
      /\ UNCHANGED <<inputs, decision, requests, conflictIds, relations, index, searching>>
  BY WhatIsValidated DEF Check, After, GInv
<1>2. relations = Merged /\ index = DerivedIndexes(relations)
  BY <1>1 DEF Judged
<1>3. /\ IdentitiesAreSound
      /\ StatusesMatchRelations => ConflictsAreSound /\ StatusesAreSound
  BY <1>1, <1>2, ChecksAreStatuses
<1>4. CASE Passes(check)
  <2>1. check' = After[check] /\ UNCHANGED phase
    BY <1>4 DEF Check
  <2>2. /\ check' \in {"conflicts", "indexes", "statuses", "cycles"}
        /\ check = "identity" <=> check' = "conflicts"
        /\ check = "conflicts" <=> check' = "indexes"
        /\ check = "indexes" <=> check' = "statuses"
        /\ check = "statuses" <=> check' = "cycles"
    BY <1>1, <2>1 DEF After
  <2>3. /\ check' = "indexes" => ConflictsAreSound
        /\ check' = "cycles" => StatusesAreSound
    BY <1>4, <2>2 DEF Passes
  <2>4. Judged'
    BY <1>1, <2>2, <2>3, JudgedFixed DEF Judged, inputs
  <2>5. GraphTypeOK'
    BY <1>1, <2>2 DEF GInv, GraphTypeOK, Checks, searching, inputs
  <2>6. SearchInv' /\ NotSearched'
    BY <1>1, BeforeTheSearch, SearchFixed DEF NotSearched, searching
  <2> QED
    BY <1>1, <2>1, <2>2, <2>4, <2>5, <2>6 DEF GInv, vars, inputs
<1>5. CASE ~Passes(check)
  <2>1. phase' = "rejected_invariant" /\ UNCHANGED <<check, relations, index, searching>>
    BY <1>1, <1>5 DEF Check
  <2>2. ~StatusesMatchRelations
    BY <1>1, <1>2, <1>3, <1>5 DEF Passes
  <2>3. Next
    BY <1>1, <2>1, <2>2, RejectingIsValidate
  <2>4. GInv'
    <3>1. check # "none" /\ phase' \in Terminal /\ UNCHANGED <<requests, graph>>
      BY <1>1, <2>1 DEF Terminal, Rejections, graph
    <3> QED
      BY <1>1, <3>1, ConcludingKeepsGInv DEF inputs
  <2> QED
    BY <2>3, <2>4
<1> QED
  BY <1>4, <1>5
\* What a search step leaves alone, and what it finds.
LEMMA WhatIsSearched ==
  ASSUME IInv, GInv, Searching
  PROVE  /\ phase = "validate" /\ check = "cycles" /\ TypeOK /\ InputsOK /\ OutcomeIsCanonical
         /\ Judged /\ SearchInv /\ StatusesMatchRelations /\ GraphTypeOK
         /\ stack \in Seq(Entry)
         /\ \A f \in facts : Replaces(f) \subseteq facts
<1>1. /\ phase = "validate" /\ check = "cycles" /\ TypeOK /\ InputsOK /\ OutcomeIsCanonical
      /\ Judged /\ SearchInv /\ GraphTypeOK
  BY WhatIsValidated DEF Searching, GInv
<1>2. StatusesMatchRelations
  BY <1>1, ChecksAreStatuses DEF Judged
<1> QED
  BY <1>1, <1>2, SearchedEdges DEF GraphTypeOK, Entry

\* A step of the search that goes on.
LEMMA SearchGoesOn ==
  ASSUME IInv, GInv, Searching, SearchInv', stack' \in Seq(Entry),
         gray' \subseteq facts, black' \subseteq facts, UNCHANGED phase,
         UNCHANGED <<inputs, decision, requests, conflictIds, check, relations, index>>
  PROVE  UNCHANGED vars /\ GInv'
<1>1. phase = "validate" /\ check = "cycles" /\ Judged /\ GraphTypeOK
  BY WhatIsSearched
<1>2. Judged'
  BY <1>1, JudgedFixed DEF Judged, inputs
<1>3. GraphTypeOK'
  BY <1>1 DEF GraphTypeOK, Entry, inputs
<1> QED
  BY <1>1, <1>2, <1>3 DEF GInv, vars, inputs

\* A step of the search that fails.
LEMMA SearchFails ==
  ASSUME IInv, GInv, Searching, Fail, ~Acyclic(Edges("SUPERSEDES")),
         UNCHANGED <<inputs, decision, requests, conflictIds, check, relations, index>>
  PROVE  Next /\ GInv'
<1>1. phase = "validate" /\ check = "cycles"
  BY DEF Searching
<1>2. Next
  BY <1>1, RejectingIsValidate DEF Fail
<1>3. check # "none" /\ phase' \in Terminal /\ UNCHANGED <<requests, graph>>
  BY <1>1 DEF Fail, Terminal, Rejections, graph
<1> QED
  BY <1>2, <1>3, ConcludingKeepsGInv DEF inputs

LEMMA EnterStep ==
  ASSUME IInv, GInv, Searching, NEW f \in facts, f \notin gray, f \notin black,
         NEW beneath \in Seq(Entry), Len(beneath) = Len(stack),
         \A i \in 1..Len(stack) :
           /\ beneath[i].node = stack[i].node
           /\ beneath[i].rest = IF i < Len(stack) THEN stack[i].rest ELSE stack[i].rest \ {f},
         stack # <<>> => f \in Top.rest,
         Enter(f, beneath),
         UNCHANGED <<inputs, decision, requests, conflictIds, check, relations, index>>
  PROVE  (Next \/ UNCHANGED vars) /\ GInv'
<1>1. /\ TypeOK /\ Judged /\ SearchInv /\ stack \in Seq(Entry) /\ GraphTypeOK
      /\ Replaces(f) \subseteq facts
  BY WhatIsSearched
<1>2. CASE Replaces(f) \intersect (gray \union {f}) # {}
  <2>1. Fail
    BY <1>2 DEF Enter, Replaces
  <2>2. ~Acyclic(Edges("SUPERSEDES"))
    BY <1>1, <1>2, GrayClosesACycle
  <2> QED
    BY <2>1, <2>2, SearchFails
<1>3. CASE Replaces(f) \intersect (gray \union {f}) = {}
  <2>1. /\ stack' = Append(beneath, [node |-> f, rest |-> Replaces(f) \ black])
        /\ gray' = gray \union {f} /\ UNCHANGED <<phase, black>>
    BY <1>3 DEF Enter, Replaces
  <2>2. SearchInv' /\ stack' \in Seq(Entry)
    BY <1>1, <1>3, <2>1, EnterSearch
  <2>3. gray' \subseteq facts /\ black' \subseteq facts
    BY <1>1, <2>1 DEF GraphTypeOK
  <2> QED
    BY <2>1, <2>2, <2>3, SearchGoesOn
<1> QED
  BY <1>2, <1>3

LEMMA SearchFromStep ==
  ASSUME IInv, GInv, NEW f \in facts, SearchFrom(f)
  PROVE  (Next \/ UNCHANGED vars) /\ GInv'
<1>1. /\ Searching /\ stack = <<>> /\ f \notin black /\ Enter(f, <<>>)
      /\ UNCHANGED <<inputs, decision, requests, conflictIds, check, relations, index>>
  BY DEF SearchFrom
<1>2. <<>> \in Seq(Entry) /\ Len(stack) = 0 /\ DOMAIN stack = {}
  BY <1>1, EmptySeq, LenProperties
<1>3. f \notin gray
  BY <1>1, <1>2, WhatIsSearched DEF SearchInv, GrayIsTheStack
<1>4. 1..Len(stack) = {} /\ Len(<<>>) = Len(stack)
  BY <1>1, <1>2
<1> QED
  BY <1>1, <1>2, <1>3, <1>4, EnterStep

LEMMA PopStep ==
  ASSUME IInv, GInv, NEW f \in facts, Pop(f)
  PROVE  (Next \/ UNCHANGED vars) /\ GInv'
<1> DEFINE smaller == [Top EXCEPT !.rest = @ \ {f}]
           beneath == Append(Below, smaller)
<1>1. /\ Searching /\ stack # <<>> /\ f \in Top.rest
      /\ UNCHANGED <<inputs, decision, requests, conflictIds, check, relations, index>>
      /\ f \notin gray /\ f \in black =>
           stack' = beneath /\ UNCHANGED <<phase, gray, black>>
      /\ f \notin gray /\ f \notin black => Enter(f, beneath)
  BY DEF Pop
<1>2. /\ SearchInv /\ stack \in Seq(Entry) /\ GraphTypeOK
      /\ Len(stack) \in Nat \ {0} /\ DOMAIN stack = 1..Len(stack) /\ Top \in Entry
  BY <1>1, WhatIsSearched, TopOfStack DEF Top
<1>3. f \notin gray
  BY <1>1, <1>2 DEF SearchInv, StackIsClimbing, GrayIsTheStack, Top
<1>4. smaller \in Entry /\ smaller.node = Top.node /\ smaller.rest = Top.rest \ {f}
  BY <1>2 DEF Entry
<1>5. /\ beneath \in Seq(Entry) /\ Len(beneath) = Len(stack)
      /\ \A i \in 1..Len(stack) : beneath[i] = IF i < Len(stack) THEN stack[i] ELSE smaller
  <2> HIDE DEF smaller
  <2>1. stack \in Seq(Entry) /\ stack # <<>> /\ smaller \in Entry
    BY <1>1, <1>2, <1>4
  <2> QED
    BY <2>1, ReplacedTop DEF Below
<1> HIDE DEF smaller, beneath
<1>6. \A i \in 1..Len(stack) : i < Len(stack) \/ (i = Len(stack) /\ ~(i < Len(stack)))
  <2>1. Len(stack) \in Nat
    BY <1>2
  <2> QED
    BY <2>1
<1>7. \A i \in 1..Len(stack) :
        /\ beneath[i].node = stack[i].node
        /\ beneath[i].rest = IF i < Len(stack) THEN stack[i].rest ELSE stack[i].rest \ {f}
  BY <1>4, <1>5, <1>6 DEF Top
<1>8. CASE f \in black
  <2>1. stack' = beneath /\ UNCHANGED <<phase, gray, black>>
    BY <1>1, <1>3, <1>8
  <2>2. Len(stack') = Len(stack) /\ DOMAIN stack' = 1..Len(stack) /\ stack' \in Seq(Entry)
    BY <1>5, <2>1, LenProperties
  <2>3. /\ \A i \in 1..Len(stack) : stack'[i].node = stack[i].node
        /\ \A i \in 1..Len(stack) : i # Len(stack) => stack'[i].rest = stack[i].rest
        /\ stack'[Len(stack)].rest = stack[Len(stack)].rest \ {f}
    <3>1. Len(stack) \in 1..Len(stack) /\ ~(Len(stack) < Len(stack))
      BY <1>2
    <3>2. \A i \in 1..Len(stack) : i # Len(stack) => beneath[i].rest = stack[i].rest
      BY <1>6, <1>7
    <3>3. beneath[Len(stack)].rest = stack[Len(stack)].rest \ {f}
      BY <1>7, <3>1
    <3> QED
      BY <1>7, <2>1, <3>2, <3>3
  <2>4. SearchInv'
    BY <1>1, <1>2, <1>8, <2>1, <2>2, <2>3, PassedOver
  <2>5. gray' \subseteq facts /\ black' \subseteq facts
    BY <1>2, <2>1 DEF GraphTypeOK
  <2> QED
    BY <1>1, <2>1, <2>2, <2>4, <2>5, SearchGoesOn
<1>9. CASE f \notin black
  BY <1>1, <1>3, <1>5, <1>7, <1>9, EnterStep
<1> QED
  BY <1>8, <1>9

LEMMA LeaveStep ==
  ASSUME IInv, GInv, Leave
  PROVE  UNCHANGED vars /\ GInv'
<1>1. /\ Searching /\ stack # <<>> /\ Top.rest = {} /\ stack' = Below
      /\ gray' = gray \ {Top.node} /\ black' = black \union {Top.node} /\ UNCHANGED phase
      /\ UNCHANGED <<inputs, decision, requests, conflictIds, check, relations, index>>
  BY DEF Leave
<1>2. /\ SearchInv /\ stack \in Seq(Entry) /\ GraphTypeOK
      /\ Len(stack) \in Nat \ {0} /\ DOMAIN stack = 1..Len(stack) /\ Top \in Entry
  BY <1>1, WhatIsSearched, TopOfStack DEF Top
<1>3. /\ stack' \in Seq(Entry) /\ Len(stack') = Len(stack) - 1
      /\ \A i \in 1..Len(stack') : stack'[i] = stack[i]
  BY <1>1, <1>2, WithoutTop DEF Below
<1> DEFINE L == Len(stack')
<1>4. L \in Nat /\ Len(stack) = L + 1 /\ DOMAIN stack' = 1..L
  BY <1>2, <1>3, LenProperties
<1>5. SearchInv'
  <2> HIDE DEF L
  <2>1. Top = stack[L + 1] /\ Len(stack') = L
    BY <1>4 DEF Top, L
  <2>2. \A i \in 1..L : stack'[i] = stack[i]
    BY <1>3 DEF L
  <2>3. DOMAIN stack = 1..(L + 1)
    BY <1>2, <1>4
  <2> QED
    BY <1>1, <1>2, <1>4, <2>1, <2>2, <2>3, ShorterPath
<1>6. gray' \subseteq facts /\ black' \subseteq facts
  BY <1>1, <1>2 DEF GraphTypeOK, Entry
<1> QED
  BY <1>1, <1>3, <1>5, <1>6, SearchGoesOn

LEMMA PublishStep ==
  ASSUME IInv, GInv, Publish
  PROVE  Next /\ GInv'
<1>1. /\ Searching /\ black = facts /\ phase' = "published"
      /\ UNCHANGED <<inputs, decision, requests, conflictIds, graph>>
  BY DEF Publish
<1>2. Acyclic(Edges("SUPERSEDES")) /\ StatusesMatchRelations /\ phase = "validate" /\ check = "cycles"
  BY <1>1, WhatIsSearched, AllBlackIsAcyclic
<1>3. GraphIsValid
  BY <1>2, WhatIsValidated
<1>4. Next
  BY <1>1, <1>2, <1>3 DEF Next, Step, Validate
<1> QED
  BY <1>1, <1>2, <1>4, ConcludingKeepsGInv DEF Terminal, inputs

LEMMA GraphStep == IInv /\ GInv /\ [GraphNext]_gvars => [Next]_vars /\ GInv'
<1> SUFFICES ASSUME IInv, GInv, [GraphNext]_gvars PROVE [Next]_vars /\ GInv'
  OBVIOUS
<1>1. CASE Coordinate
  BY <1>1, CoordinateStep
<1>2. CASE Materialize
  BY <1>2, MaterializeStep
<1>3. CASE Check
  BY <1>3, CheckStep
<1>4. CASE Leave
  BY <1>4, LeaveStep
<1>5. CASE Publish
  BY <1>5, PublishStep
<1>6. ASSUME NEW f \in facts, SearchFrom(f) \/ Pop(f) PROVE [Next]_vars /\ GInv'
  BY <1>6, SearchFromStep, PopStep
<1>7. CASE UNCHANGED gvars
  <2>1. /\ UNCHANGED vars /\ UNCHANGED <<facts, decision, requests, phase>> /\ UNCHANGED graph
        /\ UNCHANGED <<check, relations, index, searching>>
    BY <1>7 DEF gvars, vars, graph
  <2>2. GraphTypeOK'
    BY <2>1, GraphTypeFixed DEF GInv, GraphTypeOK
  <2>3. phase = "validate" /\ check # "none" => Judged'
    BY <2>1, JudgedFixed DEF GInv, Judged
  <2>4. phase = "validate" => SearchInv'
    BY <2>1, SearchFixed DEF GInv
  <2> QED
    BY <2>1, <2>2, <2>3, <2>4 DEF GInv, NotSearched, searching
<1> QED
  BY <1>1, <1>2, <1>3, <1>4, <1>5, <1>6, <1>7 DEF GraphNext

LEMMA GraphInitInv == GraphInit => Init /\ IInv /\ GInv
<1> SUFFICES ASSUME GraphInit PROVE GInv
  BY InitEstablishes DEF GraphInit
<1>1. NotSearched /\ check = "none" /\ relations = {} /\ phase = "explicit"
  BY DEF GraphInit, Init, NotSearched
<1>2. GraphTypeOK
  BY <1>1, EmptySeq DEF GraphInit, GraphTypeOK, Checks, NotSearched
<1> QED
  BY <1>1, <1>2 DEF GInv

\* The search and the coordinator keep their invariants together.
LEMMA GraphInductive == GraphSpec => [](IInv /\ GInv) /\ [][Next]_vars
<1>1. IInv /\ GInv /\ [GraphNext]_gvars => (IInv /\ GInv)' /\ [Next]_vars
  BY GraphStep, NextPreserves
<1> QED
  BY GraphInitInv, <1>1, PTL DEF GraphSpec

-----------------------------------------------------------------------------
(* What the invariant gives *)

\* The variables of the graph have their types.
THEOREM GraphTypeCorrect == GraphSpec => []GraphTypeOK
<1>1. GInv => GraphTypeOK
  BY DEF GInv
<1> QED
  BY GraphInductive, <1>1, PTL

\* The gray facts are the path that is being searched, black facts lead only to
\* black ones, and no gray fact is ever popped.
THEOREM GrayIsAlwaysAPath == GraphSpec => []GrayIsAPath
<1>1. SearchInv /\ GraphTypeOK => GrayIsAPath
  <2> SUFFICES ASSUME SearchInv, GraphTypeOK PROVE GrayIsAPath
    OBVIOUS
  <2>1. stack \in Seq(Entry) /\ Len(stack) \in Nat /\ DOMAIN stack = 1..Len(stack)
    BY LenProperties DEF GraphTypeOK, Entry
  <2>2. ASSUME NEW i \in DOMAIN stack
        PROVE  Replaces(stack[i].node) \ (stack[i].rest \union black)
                 = IF i < Len(stack) THEN {stack[i + 1].node} \ stack[i].rest ELSE {}
    <3>1. CASE i < Len(stack)
      <4>1. i + 1 \in DOMAIN stack
        BY <2>1, <3>1
      <4>2. stack[i + 1].node \in gray /\ gray \intersect black = {}
        BY <4>1 DEF SearchInv, GrayIsTheStack
      <4>3. stack[i + 1].node \in Replaces(stack[i].node) \ stack[i].rest
        BY <3>1 DEF SearchInv, StackIsAPath
      <4>4. Replaces(stack[i].node) \subseteq stack[i].rest \union black \union {stack[i + 1].node}
        BY <3>1 DEF SearchInv, RestIsToCome
      <4> QED
        BY <3>1, <4>2, <4>3, <4>4
    <3>2. CASE ~(i < Len(stack))
      <4>1. i = Len(stack)
        BY <2>1, <3>2
      <4> QED
        BY <3>2, <4>1 DEF SearchInv, RestIsToCome
    <3> QED
      BY <3>1, <3>2
  <2>3. stack # <<>> => Top.rest \intersect gray = {}
    <3> SUFFICES ASSUME stack # <<>> PROVE Top.rest \intersect gray = {}
      OBVIOUS
    <3>1. Len(stack) \in DOMAIN stack /\ \A j \in DOMAIN stack : j =< Len(stack)
      BY <2>1, TopOfStack
    <3> QED
      BY <3>1 DEF SearchInv, StackIsClimbing, GrayIsTheStack, Top
  <2> QED
    BY <2>2, <2>3 DEF GrayIsAPath, SearchInv, GrayIsTheStack, BlackIsClosed, Replaces
<1>2. GInv => GrayIsAPath
  BY <1>1 DEF GInv, GrayIsAPath
<1> QED
  BY GraphInductive, <1>2, PTL

\* Merging, the checks and the search accept exactly the graphs the coordinator's
\* one step accepts: those without a cycle whose statuses match their relations.
THEOREM GraphImplements == GraphSpec => ImplementsCoordinator
<1>1. GraphInit => Init
  BY DEF GraphInit
<1> QED
  BY <1>1, GraphInductive, PTL DEF GraphSpec, ImplementsCoordinator, Spec

\* So what is proved of the coordinator is true of it when its graph is searched
\* step by step.
COROLLARY SearchRejectsOnlyCycles == GraphSpec => []OnlyCyclesAreRejected
  BY GraphImplements, AlwaysOnlyCyclesAreRejected, PTL DEF ImplementsCoordinator
=============================================================================
