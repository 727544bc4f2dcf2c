------------------------------ MODULE MCStorage ------------------------------
(* What must never happen in the file system and what it keeps about its    *)
(* drives, and in INITDIR.  A behaviour is about one of them, which `part'  *)
(* names, and the others stay where they start.                             *)
EXTENDS MCFiles, Drives, MCDirHash, InitDir, FiniteSetsExt

(* Partitions one after another, in the order of the letters or backwards.  *)
Sizes == {0, 3, 4, 7, 13}
Laid(c, S) == FoldSet(LAMBDA d, n : c[d] + n, 0, S)
Contiguous ==
  {[d \in Letters |-> [bstart |-> Laid(c, 0 .. d - 1), bcount |-> c[d]]] : c \in [Letters -> Sizes]}
  \cup
  {[d \in Letters |-> [bstart |-> Laid(c, d + 1 .. NDRIVE - 1), bcount |-> c[d]]] : c \in [Letters -> Sizes]}

VARIABLE part
storageVars == <<part, vars, drivevars, hashvars, initvars>>

StorageInit ==
  /\ part \in {"files", "drives", "hash", "initdir"}
  /\ Init /\ (part = "files" \/ cast = CHOOSE c \in Casts : TRUE)
  /\ IF part = "drives" THEN DrivesInit ELSE ColdStart([d \in Letters |-> [bstart |-> 0, bcount |-> 0]])
  /\ HashInit
  /\ IF part = "initdir" THEN InitDirInit ELSE Starting([i \in ISlots |-> Free])

Is(x) == part = x /\ UNCHANGED part
StorageNext ==
  \/ Is("files") /\ Next /\ UNCHANGED <<drivevars, hashvars, initvars>>
  \/ Is("drives") /\ DrivesNext /\ UNCHANGED <<vars, hashvars, initvars>>
  \/ Is("hash") /\ HashNext /\ UNCHANGED <<vars, drivevars, initvars>>
  \/ Is("initdir") /\ InitDirNext /\ UNCHANGED <<vars, drivevars, hashvars>>
  \/ part = "initdir" /\ UNCHANGED storageVars   \* INITDIR comes to an end
StorageSpec == StorageInit /\ [][StorageNext]_storageVars
=============================================================================
