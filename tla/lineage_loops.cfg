\* Every graph on three candidates, loops included.
SPECIFICATION Spec
CONSTANTS
  Candidate = {c1, c2, c3}
  Edge <- AnyEdge
INVARIANTS
  TypeOK
  ComponentFinishesLast
PROPERTIES
  ImplementsAnalysis
  EveryAnalysisEnds
\* The analysis stops when it has answered.
CHECK_DEADLOCK FALSE
