SPECIFICATION Spec
CONSTANTS
  Openers = {"client"}
  Writers = {"server"}
  Kinds = {"data"}
  MaxId = 1
  MaxSent = 2
  ChanCap = 1
  WireCap = 2
INVARIANTS TypeOK PeerCannotPanicPush NoStreamOutlivesMux SweepNotSelfBlocked
PROPERTIES KeepsPromise
CHECK_DEADLOCK FALSE
ACTION_CONSTRAINT ServerFirstWhenDown
