SPECIFICATION Spec
CONSTANTS
  Users = {u1, u2}
  Tools = {"fetch"}
  Async = {"fetch"}
  Registered <- Judged
  Ways = {"run_turn", "arun_turn"}
  MaxTurns = 2
  MaxRun = 1
  MaxChanges = 1
  Nobody = Nobody
INVARIANTS TypeOK OneTurnAtATime NothingLeftBehind LockHeldForCause AskedOnce AnswersAreItsOwn
PROPERTIES DoneComesLast
CHECK_DEADLOCK FALSE
SYMMETRY UsersAlike
