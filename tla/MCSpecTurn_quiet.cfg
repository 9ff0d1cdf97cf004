SPECIFICATION FairSpec
CONSTANTS
  Keys = {"read", "ask", "send", "web"}
  Always = {"read", "web"}
  Judged = {"ask"}
  Async = {"web"}
  Programs <- WebPrograms
  Modes = {"early"}
  MaxParallel = 1
  Faults = {}
PROPERTY QuietWhileUnsafe
