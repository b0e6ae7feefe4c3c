\* The console: two events, one local prompt, one command of the Host, one
\* trouble of any kind.  The outbox: as OutboxDelivery_safety, without storage
\* failures and with a quick catalog.
CONSTANTS
    MaxOutput = 2
    MaxLocal = 1
    MaxWork = 1
    MaxTroubles = 1
    BatchEvents = 1
    BatchControls = 1
    Window = 2
    Rebound = TRUE
    Overlapping = FALSE
    MaxEvents = 3
    MaxConns = 3
    Capacity = 2
    Orphans = {2}
    StateEvents = {1}
    StorageFails = FALSE
    CatalogSlow = FALSE
    LateReady = FALSE
SPECIFICATION BothFairSpec
INVARIANTS
    HistoryIsPrefix
    ControlFirst
    LocalOnce
PROPERTIES
    HostWaitsItsTurn
    ConsoleSettles
    OutboxRelays
    OutboxSettles
CHECK_DEADLOCK FALSE
