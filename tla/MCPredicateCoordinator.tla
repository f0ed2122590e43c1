----------------------- MODULE MCPredicateCoordinator -----------------------
(* Instances of the predicate coordinator for TLC. *)
EXTENDS PredicateCoordinator, TLC

CONSTANT Fact

OnePayload == {Fact}

ActiveKind(sot, cur) ==
  [status |-> "ACTIVE", plausible |-> TRUE, sot |-> sot, cur |-> cur, historical |-> FALSE]
PendingKind(plausible, historical) ==
  [status |-> "PENDING", plausible |-> plausible, sot |-> FALSE, cur |-> FALSE,
   historical |-> historical]
Deprecated ==
  [status |-> "DEPRECATED", plausible |-> FALSE, sot |-> FALSE, cur |-> FALSE,
   historical |-> FALSE]

Project == ActiveKind(FALSE, FALSE)   \* current, by a document or a session
Evidence == ActiveKind(FALSE, TRUE)   \* direct current evidence
Truth == ActiveKind(TRUE, FALSE)      \* an explicit source of truth
Memory == PendingKind(TRUE, TRUE)     \* historical memory only
Mixed == PendingKind(TRUE, FALSE)     \* historical memory among other candidates
Weak == PendingKind(FALSE, FALSE)     \* a plan, or too weak to compete

AllKinds == {Project, Evidence, Truth, ActiveKind(TRUE, TRUE), Memory, Mixed, Weak, Deprecated}
MainKinds == {Project, Truth, Evidence, Memory}
CurrentKinds == {Project}

AnyPair == Fact \X Fact
FactSymmetry == Permutations(Fact)

=============================================================================
