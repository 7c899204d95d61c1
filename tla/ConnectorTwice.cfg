SPECIFICATION Spec
CONSTANTS
  Calls = {"call"}
  Hello = "hello"
  None = None
  MaxSess = 2
INVARIANT
  AnsweredOnce
CHECK_DEADLOCK FALSE
