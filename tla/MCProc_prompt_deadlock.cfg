\* A disk error in one program while another, at the lock, owns the console.
SPECIFICATION Spec
CONSTANTS
  NP = 3
  NSLOT = 2
  NCON = 1
  Calls = {"launch", "fs", "read", "error"}
  Answers = {"retry"}
  LoadAnswers = {"retry"}
  MaxDepth = 1
INVARIANTS
  LockOwnerReachable
