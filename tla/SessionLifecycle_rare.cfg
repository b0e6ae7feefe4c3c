CONSTANTS
  MaxCmds = 2
  MaxBreaks = 1
  MaxMsgs = 0
  MaxOwn = 0
  AutoResume = TRUE
  Hazards = {"hang-up", "clean exit", "late refusal", "early resume", "stale beat"}
SPECIFICATION Spec
CHECK_DEADLOCK FALSE
INVARIANTS
  NotifiedOnce
