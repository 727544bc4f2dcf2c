\* A descriptor is used again after its program died owning a console.
SPECIFICATION Spec
CONSTANTS
  NP = 3
  NSLOT = 2
  NCON = 1
  Calls = {"launch", "read"}
  Answers = {"retry"}
  LoadAnswers = {"retry"}
  MaxDepth = 1
INVARIANTS
  OneOwner
