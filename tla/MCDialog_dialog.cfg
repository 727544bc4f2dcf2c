\* Three processes, one flag and one queue of depth up to two; a cache of two
\* buffers; three programs on two consoles; a line of three characters; texts of
\* up to thirteen bytes; a file of up to three blocks over a bad line.
SPECIFICATION DialogSpec
CONSTANTS
  NP = 3
  NFLAG = 1
  NQ = 1
  DEPTH = 2
  Names = {a}
  Msgs = {m1, m2}
  MaxMakes = 1
  NWAY = 2
  NSET = 1
  RPS = 2
  Touched = {0, 2, 3, 4}
  DirRecs = {0}
  DataRecs = {2, 3}
  Vals = {0, 1}
  Zero = 0
  PROCS = {"a", "b", "c"}
  CONS = {0, 1}
  CON <- Consoles
  STATUS_ONLY = {"c"}
  NOTERM = {"b"}
  CONBRK_POLL = 2
  KEYS = 2
  RING = 2
  CONSOLES = {0}
  CHARS = {"a", "tab", "ctl"}
  LINEMAX = 3
  PROMPTS = {0, 2}
  TABS = 4
  WIDTH = 18
  ECHODEL = TRUE
  TEXTS <- Texts
  MAXL = 15
  BCT = {1, 3}
  RPTMAX = 3
  FILES <- SentFiles
  CAP_AT = {TRUE, FALSE}
  SEQNOS = 4
  RETRY = 1
  WSLOTS = 2
  OBUF = 2
  IDLES = 1
  ROOMS = {0, 1, 2, 4}
  NOISE = 3
INVARIANTS
  NoLostWakeup
  OneFlagWaiter
  BuffersAgree
  TypedOrder
  NoDeafReader
  ScreenShowsLine
  RoundTrip
  InOrder
  DoneIsDelivered
PROPERTIES
  RingsAreFifo
  KeepsWrites
