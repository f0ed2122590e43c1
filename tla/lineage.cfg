\* Four candidates without times, or three with intervals around now, or three of the
\* kinds whose meeting decides the status, and every set of declarations between them.
SPECIFICATION ClassifySpec
CONSTANTS
  Candidate = {c1, c2, c3, c4}
  NoTime = NoTime
  Now = 1
  Override = TRUE
  Groups <- LineageAndStatus
SYMMETRY CandidateSymmetry
INVARIANTS
  ClassifyTypeOK
  NothingIsLost
  ActiveIsWitnessed
  ImplementsGroupDecision
\* The classification stops when it is recorded or refused, the lineage when it is rejected.
CHECK_DEADLOCK FALSE
