SPECIFICATION Spec
CONSTANTS
  p1 = p1
  p2 = p2
  app1 = app1
  app2 = app2
  app3 = app3
  Procs <- OneProc
  Apps <- ThreeApps
  BasePort = 8080
SYMMETRY AppSymmetry
INVARIANTS UniquePorts EntryMatchesContainer
