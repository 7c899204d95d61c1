SPECIFICATION Spec
CONSTANTS
  Chunks = 2
  Publishes = 3
  Breaks = 2
  Habits = {"restarts", "cuts", "closes", "expires"}
INVARIANT
  ToldIsWhole
CHECK_DEADLOCK FALSE
