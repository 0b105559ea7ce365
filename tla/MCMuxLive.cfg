SPECIFICATION FairSpec
CONSTANTS
  Openers = {"client"}
  Writers = {"client"}
  Kinds = {"msg"}
  MaxId = 1
  MaxSent = 1
  ChanCap = 1
  WireCap = 1
PROPERTIES SentIsRead MuxCloseEnds
CHECK_DEADLOCK FALSE
ACTION_CONSTRAINT ServerFirstWhenDown
