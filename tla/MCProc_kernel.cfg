\* Three processes that launch each other, read the console and call
\* wait for a time, call the file system with nested locks and disk errors.
SPECIFICATION KernelSpec
CONSTANTS
  NP = 3
  NSLOT = 3
  NCON = 1
  Calls = {"launch", "fs", "read", "error", "loaderror", "delay"}
  Answers = {"retry", "abort"}
  LoadAnswers = {"retry"}
  MaxDepth = 2
INVARIANTS
  TypeOK
  WaitCount
  LockExcludes
  LockWaiters
  ClaimsDisjoint
  NoyldOnlyInLoad
