SPECIFICATION FairSpec
CONSTANTS
  Users = {"u1"}
  Tools = {"fetch"}
  Async = {"fetch"}
  Registered <- Judged
  Ways = {"run_turn", "arun_turn"}
  MaxTurns = 2
  MaxRun = 2
  MaxChanges = 0
  Nobody = Nobody
PROPERTIES UsersReturn
CHECK_DEADLOCK FALSE
