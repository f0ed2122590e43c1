\* Two predicates: three facts that compete, a value that is not known, every claim of one candidate.
SPECIFICATION Spec
CONSTANTS
  p = p
  q = q
  v1 = v1
  v2 = v2
  v3 = v3
  a = a
  again = again
  b = b
  c = c
  hidden = hidden
  alone = alone
  NoPredicate = NoPredicate
  Withheld = Withheld
  NoTime = NoTime
  Now = 1
  Override = TRUE
  Candidate <- Six
  Predicate <- Pairs
  About <- Assertions
  Inputs <- AllInputs
INVARIANTS
  TypeOK
  CoordinatorStartsWell
  RefusalIsExplained
  CurrentFactStands
PROPERTIES
  ImplementsContracts
\* The call ends with a result or an exception.
CHECK_DEADLOCK FALSE
