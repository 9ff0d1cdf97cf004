SPECIFICATION FairSpec
CONSTANTS
  Keys = {"read", "ask", "send", "web"}
  Always = {"read", "web"}
  Judged = {"ask"}
  Async = {"web"}
  Programs <- TurnPrograms
  Modes = {"plain", "early", "afterCommit"}
  MaxParallel = 1
  Faults = {"stream", "crash", "plan", "ask", "tool"}
INVARIANTS TypeOK DeniedCallsWait UnsafeRunsAlone NoStaleResults UsedOnce PlainTurnWaits NoErrorMeansAllRan NoSpareForeseen
PROPERTIES PlainSpec QuietWhileUnsafe TurnEndsUnlessLost
CHECK_DEADLOCK FALSE
