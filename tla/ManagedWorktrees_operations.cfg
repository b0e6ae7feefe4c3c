\* As main.ts configures it: sessions and operations exclude each other in the
\* participation registry.  Two faults of any kind.
CONSTANTS
    Registry = TRUE
    MaxOps = 3
    MaxUses = 1
    MaxFaults = 2
SPECIFICATION FairSpec
INVARIANTS
    TypeOK
    SessionInPlace
    RecordIsTrue
PROPERTIES
    OperationSettles
\* With all operations and faults used up the system stops.
CHECK_DEADLOCK FALSE
