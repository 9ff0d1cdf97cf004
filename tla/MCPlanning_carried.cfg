SPECIFICATION Spec
CONSTANTS
  Tools = {"read", "ask", "send"}
  Always = {"read"}
  MaxUnroll = 8
  Programs <- CarriedCodes
  Namespaces <- AfterTurns
INVARIANT PlannedAreMade
CHECK_DEADLOCK FALSE
