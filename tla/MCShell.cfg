SPECIFICATION Spec
CONSTANTS
  h1 = h1
  h2 = h2
  web = web
  d1 = d1
  d2 = d2
  Hosts = {h1, web}
  Logins = {h1, h2}
  Resolve <- Aliases
  Deleters = {d1, d2}
  None = None
  MaxLines = 3
  MaxEvents = 1
INVARIANTS WipedAsAsked DeletedAsConfirmed SyncFlagIsTrue
SYMMETRY Symmetry
CHECK_DEADLOCK FALSE
