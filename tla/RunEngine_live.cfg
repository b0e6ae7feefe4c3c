CONSTANTS
  Order <- OneStep
  DependsOn <- NoneFirst
  AutoResume = TRUE
  Hazards = {"own turn", "message", "escalate", "hang-up", "stale beat", "refusal",
             "late answer", "early lead"}
  MaxTries = 1
  MaxBreaks = 1
  MaxActs = 1
SPECIFICATION FairSpec
PROPERTIES
    WorkSettles
CHECK_DEADLOCK FALSE
