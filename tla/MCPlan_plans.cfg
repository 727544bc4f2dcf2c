\* Creations, programs, the debugger; sessions and background programs on consoles.
SPECIFICATION PlanSpec
CONSTANTS
  NP = 3
  NSLOT = 3
  NCON = 2
  Calls = {"launch", "session", "memory", "debugger", "read", "attach", "assign"}
  Answers = {"retry"}
  LoadAnswers = {"retry"}
  MaxDepth = 1
INVARIANTS
  ImagesIntact
  SegmentsKept
  PoolAccounted
  ConsolesOwned
