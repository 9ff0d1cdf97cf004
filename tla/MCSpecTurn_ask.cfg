SPECIFICATION FairSpec
CONSTANTS
  Keys = {"read", "ask", "send", "web"}
  Always = {"read", "web"}
  Judged = {"ask"}
  Async = {"web"}
  Programs <- AskPrograms
  Modes = {"early"}
  MaxParallel = 1
  Faults = {"ask"}
PROPERTY TurnEnds
CHECK_DEADLOCK FALSE
