\* Bytes of four bits, of which two are a digit of base three: every width
\* and boundary of the executors in small.  A batch of two characters.
\* For the command processor: records of four tokens.
SPECIFICATION ProgramSpec
CONSTANTS
  LINES <- Typed
  LINELEN = 21
  FILES <- SubFiles
  RECLEN = 4
  ANSWERS <- Answered
  PROGRAMS = {"P"}
  PROFILE = TRUE
  HANDLER = "P"
  FLOW = TRUE
  IFMAX = 2
  AREAS = {0, 1}
  BITS = 4
  HALF = 2
  DIGITS = 3
  OPERANDS = {6, 8}
  WORDS = {15, 128}
  PSWS = {{}, {"CY", "AC"}, {"SI", "PA"}, {"CY", "PA", "AC", "ZE", "SI"}}
  LOOPS = {2, 15}
  DIGITS86 = 3
  BYTES = {6, 8}
  WIDES = {15, 128}
  COUNTS = {1, 9}
  PSWS86 = {{}, {"CF", "AF"}, {"SF", "OF"}, {"CF", "PF", "AF", "ZF", "SF"}}
  LOOPS86 = {2, 15}
  Z80OBUF = 2
  TOPRECORD = 3
  MAXMULT = 2
  Z80CALLS = 4
  I86OBUF = 2
  SEGRECORDS = 3
  MAXCOUNT = 2
  I86CALLS = 4
INVARIANTS
  RecordsStandForFlags
  DelaysAreSteps
  CallsComeInOrder
  BridgesAgree

PROPERTY
  ScriptKept
