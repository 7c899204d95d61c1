SPECIFICATION FairSpec
CONSTANTS
  Calls = {"call"}
  Hello = "hello"
  None = None
  MaxSess = 2
PROPERTIES
  EachAnswered
CHECK_DEADLOCK FALSE
