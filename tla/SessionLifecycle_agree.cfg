CONSTANTS
  MaxCmds = 2
  MaxBreaks = 2
  MaxMsgs = 0
  MaxOwn = 0
  AutoResume = FALSE
  Hazards = {}
SPECIFICATION FairSpec
INVARIANTS
    TypeOK
    Agree
PROPERTIES
    RequestsSettle
CHECK_DEADLOCK FALSE
