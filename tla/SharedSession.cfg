SPECIFICATION Spec
CONSTANTS
  legacy1 = legacy1
  legacy2 = legacy2
  modern1 = modern1
  modern2 = modern2
  Clients <- OneOfEach
  Modern <- OneModern
  MaxId = 10
  MaxAsks = 3
  Sizes = {1, 2}
  MaxRequests = 3
  MaxClientRequests = 2
  MaxInternal = 2
  MaxBytes = 4
  MaxClientBytes = 3
  MaxMessage = 2
  Habits = {"slowInit", "stubborn", "sendRaises"}
INVARIANTS
  TypeOK
  QueueBounded
  BytesAccounted
  NoOvertaking
  TablesAgree
  OneAnswer
  LeaseKept
  AnswersFirst
PROPERTIES
  QueueSpec
CHECK_DEADLOCK FALSE
