\* The round robin and timed waits of three processes, one disk transfer,
\* one file transfer; fairness assumed.
SPECIFICATION LiveSpec
CONSTANTS
  NP = 3
  NSLOT = 2
  NCON = 1
  Calls = {"launch", "delay"}
  Answers = {"retry"}
  LoadAnswers = {"retry"}
  MaxDepth = 1
  WDRETRY = 3
  WDWAIT = 2
  SPIN = 5
  CHECK = 2
  a = 1
  b = 2
  FILES <- SentFiles
  CAP_AT = {FALSE}
  SEQNOS = 4
  RETRY = 1
  WSLOTS = 2
  OBUF = 2
  IDLES = 1
  ROOMS = {0, 2}
  NOISE = 1
INVARIANTS
  DoneIsMoved
PROPERTIES
  ReadyRuns
  DelayEnds
  TransferEnds
  ReceiverStops
CHECK_DEADLOCK FALSE
