\* Three casts on a directory of two records, two drives with signatures,
\* three partitions, a directory of eight entries being converted.
SPECIFICATION StorageSpec
CONSTANTS
  NP = 3
  NENT = 3
  PERREC = 2
  NBLK = 2
  Names = {a, b}
  Gone = Gone
  Casts <- Mixed
  ReadFails = {"scan"}
  Answers <- Patient
  NDRIVE = 3
  Tables <- Contiguous
  MINBCNT = 4
  MAXBCNT = 12
  BLSBLKS = 2
  ALVPOOL = 5
  BYTE = 2
  HASHEN <- Hashed
  HUSERS <- Users
  NSLOT = 2
  PERSEC = 2
  DIRENTS <- SecondExtent
  FCBS <- FirstExtent
  HASHES <- Hashing
  EXM = 2
  FAULTS = {"read", "write"}
  DRM = 7
  NENTREC = 3
SYMMETRY Renaming
INVARIANTS
  TypeOK
  CacheFresh
  BlocksTaken
  BlocksDisjoint
  NamesUnique
  DrivesApart
  HiddenOnlyIfSpoiled
  Preserved
PROPERTIES
  NoLostUpdate
