\* The operator gives a program up while it is loading another.
SPECIFICATION Spec
CONSTANTS
  NP = 2
  NSLOT = 1
  NCON = 1
  Calls = {"launch", "loaderror"}
  Answers = {"retry"}
  LoadAnswers = {"abort"}
  MaxDepth = 1
INVARIANTS
  NoyldOnlyInLoad
