\* Six facts, a cycle of declarations beside two current facts.
SPECIFICATION CycleSpec
CONSTANTS
  in1 = in1
  in2 = in2
  in3 = in3
  old = old
  cur1 = cur1
  cur2 = cur2
  Fact <- CycleFacts
  Payloads <- OnePayload
  Bases <- CycleKinds
  Declarable <- CyclePairs
INVARIANTS
  GraphTypeOK
  OnlyCyclesAreRejected
  GrayIsAPath
PROPERTIES
  ImplementsCoordinator
