\* One run; HEAD and a tracked file change, any read may fail.
SPECIFICATION FairSpec
CONSTANTS
  Run = {r1}
  TrackedFiles = 1
  MaxVersion = 2
  MayChange <- HeadAndFile
  MayFail <- AnyPart
  Attached = TRUE
  None = None
  Unreadable = Unreadable
  NoRun = NoRun
CHECK_DEADLOCK FALSE
INVARIANTS
  TypeOK
  PassIsASnapshot
PROPERTIES
  ViolationIsReal
  EveryRunEnds
