SPECIFICATION FairSpec
CONSTANTS
  Conns = {"c1", "c2"}
  Queries = {}
  Deaths = 1
  Habits = {}
PROPERTY
  SurvivorLetsGo
CHECK_DEADLOCK FALSE
