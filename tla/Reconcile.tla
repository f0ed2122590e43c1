----------------------------- MODULE Reconcile ------------------------------
(***************************************************************************)
(* One call of reconcile() (reconcile/reconciler.py), from the candidates  *)
(* to the result or the exception.                                         *)
(*                                                                         *)
(* Candidates that assert the same value of the same predicate form a      *)
(* group, and a candidate whose value is not known is a group of its own;  *)
(* a group is a fact.  Every group is classified, then the facts of each   *)
(* predicate go through the coordinator, one predicate after another, and  *)
(* what it decides is collected.  Then the facts of values that are not    *)
(* known are looked at again, the relation graph is validated, and         *)
(* everything is published at once.  Any exception on the way ends the     *)
(* call for all predicates.                                                *)
(*                                                                         *)
(* The classification is the one step of GroupDecision, the coordinator is *)
(* PredicateCoordinator on the facts of the predicate at hand, and the     *)
(* validation is its one step, which RelationGraph implements.             *)
(***************************************************************************)
EXTENDS GroupDecision, ClassifiedDecision

CONSTANTS
  Predicate,   \* the pairs of a subject and a predicate
  NoPredicate, \* none of them
  Withheld,    \* stands for a value that is not known
  About,       \* what each candidate asserts: [predicate, value]
  Inputs       \* the claims and references an instance starts from

\* The bucket key of group_candidates: the value, or the candidate itself.
FactOf ==
  [c \in Candidate |->
     <<About[c].predicate,
       IF About[c].value = Withheld THEN <<"unresolved", c>> ELSE <<"known", About[c].value>> >>]

Fact == {FactOf[c] : c \in Candidate}
FactsOf == [p \in Predicate |-> {f \in Fact : f[1] = p}]
Members == [f \in Fact |-> {c \in Candidate : FactOf[c] = f}]

ASSUME NoPredicateAssumption == NoPredicate \notin Predicate

ASSUME AboutAssumption == \A c \in Candidate : About[c].predicate \in Predicate

ASSUME InputsAssumption ==
  \A i \in Inputs :
    /\ i.claim \in [Candidate -> Claims]
    /\ \A c \in Candidate : i.claim[c].valued <=> About[c].value # Withheld
    /\ i.references \subseteq Candidate \X Candidate

VARIABLES
  claim,       \* the claim of each candidate, never changed
  references,  \* the pairs <<source, target>> of "supersedes", never changed
  policy,      \* the policy, never changed
  classified,  \* of each fact what the coordinator reads, and its witnesses
  stage,       \* "coordinate", "assemble", "published" or "refused"
  left,        \* the predicates that have not been resolved
  at,          \* the predicate with the coordinator
  base, declared, phase, decision, requests, conflictIds,  \* the coordinator's
  final,       \* the decisions collected so far
  collected    \* the relation requests collected so far

input == <<claim, references, policy, classified>>
coordinating == <<base, declared, phase, decision, requests, conflictIds>>
result == <<final, collected>>
rvars == <<input, stage, left, at, coordinating, result>>

\* The coordinator on the facts of the predicate at hand.
Payloads == {FactsOf[p] : p \in Predicate}

Coordinator ==
  INSTANCE PredicateCoordinator WITH
    facts <- FactsOf[at], Bases <- BaseDecision, Declarable <- Fact \X Fact

-----------------------------------------------------------------------------

Classified(m, D, f) ==
  LET own == DecisionOf(m, Members[f], LineageOf(m, D, Members[f]))
  IN  [base |-> Handover(m, Members[f], own), witnesses |-> own.witnesses]

Undecided == [status |-> "none", rule |-> "none"]

\* Grouping and classification are functions of the input, no group's depends
\* on another's, and nothing is seen of them before the coordinator starts.
Init ==
  /\ \E i \in Inputs :
       /\ claim = i.claim /\ references = i.references
       /\ classified = [f \in Fact |-> Classified(i.claim, i.references, f)]
  /\ policy \in [sot : {Override}, current : BOOLEAN]
  /\ stage = "coordinate"
  /\ left = Predicate /\ at = NoPredicate
  /\ base = <<>> /\ declared = {} /\ phase = "validate" /\ decision = <<>>
  /\ requests = {} /\ conflictIds = {}
  /\ final = [f \in Fact |-> Undecided] /\ collected = {}

\* A reference, of whichever candidate, must be to a candidate of its predicate.
Dangling(p) ==
  \E e \in references : About[e[1]].predicate = p /\ About[e[2]].predicate # p

\* Mutant: every candidate of a fact speaks for it.
DeclaredByAny(p) ==
  {e \in FactsOf[p] \X FactsOf[p] :
     /\ e[1] # e[2]
     /\ \E c \in Members[e[1]], d \in Members[e[2]] : <<c, d>> \in references}

\* The replacements that activation witnesses declare.
Declared(p) ==
  {e \in FactsOf[p] \X FactsOf[p] :
     /\ e[1] # e[2]
     /\ \E c \in classified[e[1]].witnesses, d \in Members[e[2]] : <<c, d>> \in references}

Refuse ==
  /\ stage' = "refused"
  /\ UNCHANGED <<input, left, at, coordinating, result>>

\* resolve_predicate checks the references and hands over to the coordinator.
Begin(p) ==
  /\ stage = "coordinate" /\ at = NoPredicate /\ p \in left /\ ~Dangling(p)
  /\ at' = p /\ left' = left \ {p}
  /\ base' = [f \in FactsOf[p] |-> classified[f].base]
  /\ declared' = Declared(p)
  /\ phase' = "explicit"
  /\ decision' = [f \in FactsOf[p] |-> [status |-> base'[f].status, rule |-> "classified"]]
  /\ requests' = {} /\ conflictIds' = {}
  /\ UNCHANGED <<input, stage, result>>

RefuseDangling ==
  /\ stage = "coordinate" /\ at = NoPredicate /\ \E p \in left : Dangling(p)
  /\ Refuse

Coordinate ==
  /\ stage = "coordinate" /\ at # NoPredicate /\ phase # "validate"
  /\ UNCHANGED <<claim, references, classified, stage, left, at, result>>
  /\ Coordinator!Step

\* Mutant: the requests of a predicate take the place of those before it.
CollectLast ==
  /\ stage = "coordinate" /\ phase = "validate"
  /\ at # NoPredicate /\ at' = NoPredicate
  /\ final' = [f \in Fact |-> IF f \in DOMAIN decision THEN decision[f] ELSE final[f]]
  /\ collected' = requests
  /\ UNCHANGED <<input, stage, left, coordinating>>

\* The outcome of a predicate joins the others, unless its constructor refused
\* it, which it never does (RefusalIsExplained).
Collect ==
  /\ stage = "coordinate" /\ at # NoPredicate /\ phase \in {"validate", "rejected_input"}
  /\ IF phase = "rejected_input"
       THEN Refuse
       ELSE /\ at' = NoPredicate
            /\ final' = [f \in Fact |-> IF f \in DOMAIN decision THEN decision[f] ELSE final[f]]
            /\ collected' = collected \union requests
            /\ UNCHANGED <<input, stage, left, coordinating>>

Resolved == stage = "coordinate" /\ left = {} /\ at = NoPredicate

UnknownValued == {f \in Fact : \E c \in Members[f] : ~claim[c].valued}
AllUnknownArePending == \A f \in UnknownValued : final[f].status = "PENDING"

\* _derive_unresolved_candidates.
DeriveUnresolved ==
  /\ Resolved /\ AllUnknownArePending
  /\ stage' = "assemble"
  /\ UNCHANGED <<input, left, at, coordinating, result>>

RefuseUnresolved == Resolved /\ ~AllUnknownArePending /\ Refuse

\* The requests and decisions of one predicate, as the graph validation sees them.
Assembled(p) ==
  INSTANCE PredicateCoordinator WITH
    facts <- FactsOf[p], Bases <- BaseDecision, Declarable <- Fact \X Fact,
    base <- [f \in FactsOf[p] |-> classified[f].base],
    decision <- [f \in FactsOf[p] |-> final[f]],
    requests <- {r \in collected : r.from \in FactsOf[p]}

\* assemble_result: the graph of all predicates is valid, or nothing is published.
Assemble ==
  /\ stage = "assemble"
  /\ stage' = IF \A p \in Predicate : Assembled(p)!GraphIsValid THEN "published" ELSE "refused"
  /\ UNCHANGED <<input, left, at, coordinating, result>>

Next ==
  \/ RefuseDangling \/ Coordinate \/ Collect \/ DeriveUnresolved \/ RefuseUnresolved \/ Assemble
  \/ \E p \in Predicate : Begin(p)

Spec == Init /\ [][Next]_rvars

-----------------------------------------------------------------------------
(* Properties. *)

\* The types of the variables.
TypeOK ==
  /\ stage \in {"coordinate", "assemble", "published", "refused"}
  /\ left \subseteq Predicate /\ at \in Predicate \union {NoPredicate}
  /\ \A f \in Fact : classified[f].base \in BaseDecision
                    /\ classified[f].witnesses \subseteq Members[f]
  /\ at # NoPredicate => Coordinator!TypeOK
  /\ \A r \in collected : r.from \in Fact /\ r.to \in Fact

\* The coordinator is started in a state it is specified for: what the
\* classification hands over is a decision the coordinator's rules assume, a
\* source of truth only where the policy allows it, and only current facts
\* declare replacements.
CoordinatorStartsWell ==
  at # NoPredicate /\ phase = "explicit" => Coordinator!Init

OneDirectional(p) == {e \in Declared(p) : <<e[2], e[1]>> \notin Declared(p)}

\* The whole input is refused for three reasons only: a reference to a
\* candidate of another predicate, a retired candidate whose value is not
\* known, and current facts that declare each other replaced in a longer cycle.
RefusalIsExplained ==
  stage = "refused" =>
    \/ \E p \in Predicate : Dangling(p)
    \/ \E c \in Candidate : ~claim[c].valued /\ Retired(claim[c])
    \/ \E p \in Predicate, S \in (SUBSET {f \in Fact : classified[f].base.status = "ACTIVE"}) \ {{}} :
         \A f \in S : \E g \in S : <<g, f>> \in OneDirectional(p)

Published(f, status) == stage = "published" /\ final[f].status = status

\* A published current fact rests on a candidate that may activate it alone
\* and that no other candidate of the fact names as replaced; it is the only
\* current fact of its predicate, and no fact that stood when it was classified
\* declares it replaced without being declared replaced by it.
CurrentFactStands ==
  \A p \in Predicate : \A f \in FactsOf[p] : Published(f, "ACTIVE") =>
    /\ \E c \in Members[f] : ActivationCapable(claim[c])
                             /\ \A d \in Members[f] : <<d, c>> \notin references
    /\ \A g \in FactsOf[p] \ {f} :
         final[g].status \notin {"ACTIVE", "CONFLICTED"} /\ <<g, f>> \notin OneDirectional(p)

\* For each predicate alone, the call keeps the contract of the coordinator,
\* whatever the other predicates are; it publishes all of them or none, and
\* where the input is refused nothing of this one is seen.
Contract(p) ==
  INSTANCE PredicateResolution WITH
    facts <- FactsOf[p],
    base <- [f \in FactsOf[p] |-> classified[f].base],
    declared <- Declared(p),
    outcome <- IF stage = "published" THEN "published" ELSE "open",
    status <- [f \in FactsOf[p] |->
                 IF stage = "published" THEN final[f].status ELSE classified[f].base.status]

ImplementsContracts ==
  /\ \A p \in Predicate : Contract(p)!Open
  /\ [][\A p \in Predicate :
          UNCHANGED Contract(p)!rvars \/ Contract(p)!Publish]_rvars
=============================================================================
