SPECIFICATION ClosingSpec
CONSTANTS
  Requests = {"a", "s"}
  Sync = {"s"}
  Stubborn = {}
  MaxConcurrency = 1
  Faults = {"exit", "join"}
  Nobody = Nobody
INVARIANTS NothingLost ClosedSettlesAll RefusedForCause
PROPERTIES OracleSpec SettlesInTime CloseEnds
CHECK_DEADLOCK FALSE
