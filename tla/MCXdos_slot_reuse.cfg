\* A queue deleted and its slot made into another while a reader is parked.
SPECIFICATION Spec
CONSTANTS
  NP = 3
  NFLAG = 0
  NQ = 1
  DEPTH = 1
  Names = {a}
  Msgs = {m}
  MaxMakes = 2
PROPERTIES
  SameQueue
