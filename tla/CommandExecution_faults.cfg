\* One command, a lost connection or Host restart, the death of the Node or of
\* the supervisor.  No direction ever carries more than six frames.
CONSTANTS
    c1 = c1
    Execs = {c1}
    MaxBreaks = 1
    MaxCrashes = 1
    MaxFrames = 9
    Overlap = FALSE
    Shared = TRUE
SPECIFICATION FairSpec
INVARIANTS
    CheckoutHeld
PROPERTIES
    RunsOnceAndTruly
    CommandSettles
CHECK_DEADLOCK FALSE
