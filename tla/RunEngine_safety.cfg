CONSTANTS
  Order <- TwoSteps
  DependsOn <- InTurn
  AutoResume = FALSE
  Hazards = {"early lead"}
  MaxTries = 2
  MaxBreaks = 1
  MaxActs = 1
SPECIFICATION Spec
VIEW ButWhatIsOwed
INVARIANTS
    TypeOK
    JudgedByItsTurn
    DispatchedOnce
    OneWriter
    PlanIsKept
CHECK_DEADLOCK FALSE
