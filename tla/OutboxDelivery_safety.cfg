CONSTANTS
  MaxEvents = 3
  MaxConns = 3
  Capacity = 2
  Orphans = {2}
  StateEvents = {1}
  StorageFails = TRUE
  CatalogSlow = TRUE
  LateReady = TRUE
SPECIFICATION Spec
INVARIANTS
    TypeOK
    NothingHeldIsLost
    SameBatch
CHECK_DEADLOCK FALSE
