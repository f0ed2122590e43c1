\* One candidate whose value is not known.
SPECIFICATION ClassifySpec
CONSTANTS
  Candidate = {c1}
  NoTime = NoTime
  Now = 1
  Override = TRUE
  Groups <- WithheldCandidate
INVARIANTS
  NonKnownIsPending
CHECK_DEADLOCK FALSE
