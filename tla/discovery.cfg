\* Every project of six directories and seven files, limits it can meet, and two changes during the walk.
SPECIFICATION Spec
CONSTANTS
  root = root
  package = package
  outer = outer
  inner = inner
  deep = deep
  generated = generated
  t_root = t_root
  t_package = t_package
  t_deep = t_deep
  t_generated = t_generated
  t_link = t_link
  config = config
  manifest = manifest
  Directory <- Directories
  Root = root
  Parent <- Parents
  Depth <- Depths
  Pruned <- GeneratedDirectories
  Foreign <- Links
  Test <- Tests
  Config <- Configs
  Manifest <- Manifests
  MayFail <- Fragile
  MaxFiles = 3
  MaxDepth = 2
  MaxChanges = 2
INVARIANTS
  TypeOK
  KnownIsBetween
\* The walk ends, and the owner may leave the project as it is.
CHECK_DEADLOCK FALSE
