\* Every kind of decision, every policy and every set of declarations on three facts.
SPECIFICATION FairSpec
CONSTANTS
  Fact = {f1, f2, f3}
  Payloads <- OnePayload
  Bases <- AllKinds
  Declarable <- AnyPair
INVARIANTS
  TypeOK
  ReplacedByCurrent
  ContradictionIsRetained
  SourceOfTruthStands
PROPERTIES
  Terminates
  ImplementsResolution
