SPECIFICATION TwoSpec
CONSTANTS
  Procs = {"p1", "p2"}
  Commands = {"restore", "list"}
  MaxVol = 3
  MaxVer = 2
  MaxTag = 1
VIEW Seen
INVARIANT RestoreDelivers
CHECK_DEADLOCK FALSE
