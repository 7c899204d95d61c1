SPECIFICATION FairSpec
CONSTANTS
  Calls = {"call"}
  Hello = "hello"
  None = None
  MaxSess = 2
PROPERTY
  EachCallEnds
CHECK_DEADLOCK FALSE
