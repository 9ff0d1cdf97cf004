SPECIFICATION Spec
CONSTANTS
  Tools = {"read", "ask", "send"}
  Always = {"read"}
  MaxUnroll = 8
  Programs <- Codes
  Namespaces <- AfterTurns
INVARIANTS PlannedAreMade NothingSkipped 
CHECK_DEADLOCK FALSE
