SPECIFICATION Spec
CONSTANTS
  legacy1 = legacy1
  legacy2 = legacy2
  modern1 = modern1
  modern2 = modern2
  Clients <- TwoModern
  Modern <- TwoModern
  MaxId = 12
  MaxAsks = 4
  Sizes = {1}
  MaxRequests = 3
  MaxClientRequests = 2
  MaxInternal = 2
  MaxBytes = 3
  MaxClientBytes = 3
  MaxMessage = 2
  Habits = {"pipelines"}
INVARIANT LeaseExclusive
CHECK_DEADLOCK FALSE
