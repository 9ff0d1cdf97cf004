SPECIFICATION Spec
CONSTANTS
  Users = {"u1"}
  Tools = {"kv"}
  Async = {}
  Registered <- Early
  Ways = {"run_turn"}
  MaxTurns = 2
  MaxRun = 0
  MaxChanges = 1
  Nobody = Nobody
PROPERTIES UnmarkedStaysPut
CHECK_DEADLOCK FALSE
