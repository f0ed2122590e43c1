\* Invocations of two facts, one after another, and all that can become of their records.
SPECIFICATION Spec
CONSTANTS
  k1 = k1
  None = None
  Call = {k1}
  Facts <- TwoFacts
  Slot <- Addresses
  Draws = {0, 1, 2}
INVARIANTS
  TypeOK
  RegistryIsExact
  ResultStaysValid
PROPERTIES
  OnlyCopiesAreRefused
