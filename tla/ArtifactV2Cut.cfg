SPECIFICATION Spec
CONSTANTS
  Chunks = 2
  Publishes = 2
  Breaks = 1
  Habits = {"restarts", "cuts"}
INVARIANT
  CommittedWhole
CHECK_DEADLOCK FALSE
