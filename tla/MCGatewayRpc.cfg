SPECIFICATION FairSpec
CONSTANTS
  Callers = {c1, c2}
  MaxCalls = 3
INVARIANTS TypeOK AnswersItsCaller OneResultPerCall OnlyLateCallsStranded
PROPERTIES CallReturns
CHECK_DEADLOCK FALSE
