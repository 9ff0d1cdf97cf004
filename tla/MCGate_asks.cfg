SPECIFICATION FairSpec
CONSTANTS
  Calls = {"get", "put", "odd"}
  NoCall = "none"
  Broken = {"odd"}
  Ahead = {"peek1", "peek2"}
  Prejudge = {"stream"}
  Levels = {0, 1}
  MinPolicy = 1
  MaxSide = 0
  MaxWorkers = 2
INVARIANTS AskedOnce AuditFirst FailsClosed
PROPERTY CallersReturn
CHECK_DEADLOCK FALSE
