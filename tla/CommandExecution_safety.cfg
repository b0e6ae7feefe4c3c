\* Two commands of one task that may overlap, and a session that wants their
\* checkout, without faults.
CONSTANTS
    c1 = c1
    c2 = c2
    Execs = {c1, c2}
    MaxBreaks = 0
    MaxCrashes = 0
    MaxFrames = 2
    Overlap = TRUE
    Shared = TRUE
SPECIFICATION Spec
INVARIANTS
    TypeOK
    FenceCovers
    OutcomeAgrees
CHECK_DEADLOCK FALSE
