SPECIFICATION FairSpec
CONSTANTS
  s1 = s1
  s2 = s2
  v1 = v1
  v2 = v2
  Sessions <- TwoSessions
  Refs <- TwoRefs
INVARIANTS TypeOK RestoreInOrder AcceptedNotLost ReachableAlone
PROPERTIES RestoreEnds
