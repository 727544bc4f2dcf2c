\* INITDIR on the current drive, then a search on it.
SPECIFICATION HashSpec
CONSTANTS
  HASHEN <- Hashed
  HUSERS <- Formatter
  NSLOT = 2
  PERSEC = 1
  DIRENTS <- SecondExtent
  FCBS <- FirstExtent
  HASHES <- Hashing
  EXM = 2
  FAULTS = {}
INVARIANTS
  FoundAfterFormat
CHECK_DEADLOCK FALSE
