CONSTANTS
  MaxCmds = 3
  MaxBreaks = 0
  MaxMsgs = 2
  MaxOwn = 1
  AutoResume = FALSE
  Hazards = {}
SPECIFICATION Spec
INVARIANTS
    TurnsAreTold
CHECK_DEADLOCK FALSE
