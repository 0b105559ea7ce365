SPECIFICATION Spec
CONSTANTS
  code = code
  env = env
  feature = feature
  main = main
  v1 = v1
  v2 = v2
  Gone = Gone
  Marked = Marked
  Files <- TwoFiles
  Ignored <- EnvIgnored
  Names <- OneName
  Main = main
  Versions <- TwoVersions
  MaxEdits = 3
  MaxApplies = 2
SYMMETRY VersionSymmetry
INVARIANTS BaseRecoverable
PROPERTIES BranchIsCopy FirstApplyKeepsEdits
CHECK_DEADLOCK FALSE
