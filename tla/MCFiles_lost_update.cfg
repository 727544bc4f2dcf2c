\* A refused directory write is retried after another process has written.
SPECIFICATION Spec
CONSTANTS
  NP = 2
  NENT = 2
  PERREC = 2
  NBLK = 1
  Names = {a, b}
  Gone = Gone
  Casts <- AskingMakers
  ReadFails = {}
  Answers <- Patient
PROPERTIES
  NoLostUpdate
