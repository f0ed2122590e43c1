\* Two runs that share the output path; the tracked file changes and may be unreadable.
SPECIFICATION Spec
CONSTANTS
  Run = {r1, r2}
  TrackedFiles = 1
  MaxVersion = 1
  MayChange <- TheFile
  MayFail <- TheFile
  Attached = TRUE
  None = None
  Unreadable = Unreadable
  NoRun = NoRun
CHECK_DEADLOCK FALSE
SYMMETRY RunSymmetry
INVARIANTS
  ArtifactIsProven
  ExitTellsTheArtifact
PROPERTIES
  ImplementsStore
