SPECIFICATION Spec
CONSTANTS
  Procs = {"p1"}
  Commands = {"open", "snapshot", "restore", "update", "list", "delete"}
  MaxVol = 4
  MaxVer = 2
  MaxTag = 2
VIEW Seen
INVARIANTS WritesReachHome RestoreDelivers UsableBetweenCommands
CHECK_DEADLOCK FALSE
