\* A writer of a result and one of a snapshot with one output, two directories its name may lead to.
SPECIFICATION Spec
CONSTANTS
  r1 = r1
  s1 = s1
  d1 = d1
  d2 = d2
  Result = {r1}
  Snapshot = {s1}
  Directory = {d1, d2}
  Elsewhere = Elsewhere
  Missing = Missing
  Nothing = Nothing
  Folder = Folder
  MaxRedirects = 3
INVARIANTS
  TypeOK
  ResultsStayBelow
  LitterIsExplained
PROPERTIES
  ImplementsArtifactStore
\* A writer ends, and the owner may leave everything as it is.
CHECK_DEADLOCK FALSE
