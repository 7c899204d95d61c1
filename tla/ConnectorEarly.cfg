SPECIFICATION Spec
CONSTANTS
  Calls = {"call"}
  Hello = "hello"
  None = None
  MaxSess = 2
PROPERTY
  HandshakeFirst
CHECK_DEADLOCK FALSE
