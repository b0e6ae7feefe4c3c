CONSTANTS
    s1 = s1
    s2 = s2
    Sessions = {s1, s2}
    MaxTime = 2
    MaxRequests = 2
    MaxSends = 1
    MaxUses = 1
    MaxBreaks = 1
SPECIFICATION FairSpec
INVARIANTS
    TypeOK
    GoneTogether
PROPERTIES
    UsedIsKept
    LockIsReleased
CHECK_DEADLOCK FALSE
