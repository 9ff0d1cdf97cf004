SPECIFICATION Spec
CONSTANTS
  Looks = {"python", "bare", "data", "tilde", "simple", "head", "quote", "body", "else", "filler"}
  MaxLines = 6
CONSTRAINT Worthwhile
INVARIANT AsIfReadAtOnce
PROPERTIES CodeOnlyGrows OpenIsCertain
CHECK_DEADLOCK FALSE
