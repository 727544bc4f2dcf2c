------------------------------- MODULE InitDir -------------------------------
(***************************************************************************)
(* INITDIR (cmd/initdir.c): the conversion of a drive's directory to one   *)
(* with time stamps, in which the last slot of every record is an SFCB.    *)
(* One record is read and written at a time, through the BIOS, and the     *)
(* power may fail between any two writes.                                  *)
(*                                                                         *)
(* A slot holds "free", a file, or the set of the slots an SFCB has stamps *)
(* for.  A file is named by the slot it was found in.                      *)
(***************************************************************************)
EXTENDS Integers, FiniteSets

CONSTANTS DRM,          \* the highest slot
          NENTREC       \* slots in a record, the last of them for the SFCB

ASSUME InitDirAssumption == DRM \in Nat /\ NENTREC \in Nat \ {0, 1}

VARIABLES ondisk,       \* the directory on the disk
          found,        \* the directory INITDIR started with
          ipc,          \* "count", "build", "write", "done", "refused", "failed"
          irec,         \* the record it has come to
          rec,          \* rec[], the record it converts
          freebm        \* freebm[], and the counts of pass 1 with it

initvars == <<ondisk, found, ipc, irec, rec, freebm>>

ISlots  == 0 .. DRM
nrec    == (DRM + NENTREC) \div NENTREC
ISec(i) == i \div NENTREC
Within(r) == {i \in ISlots : ISec(i) = r}
Fourth(i) == i % NENTREC = NENTREC - 1
Free      == [is |-> "free"]
File(i)   == [is |-> "file", of |-> i]
Sfcb(s)   == [is |-> "sfcb", stamps |-> s]
Ordinary(r) == {i \in Within(r) : ~ Fourth(i)}

IsFile(e) == e.is = "file"
IsSfcb(e) == e.is = "sfcb"

(* Any directory, stale stamps of deleted files included: sfcbs gives the  *)
(* stamps of the last slots that are SFCBs already.                        *)
Stamps == UNION {[last -> SUBSET (0 .. NENTREC - 2)] :
                   last \in SUBSET {i \in ISlots : Fourth(i)}}

Directory(files, sfcbs) ==
  [i \in ISlots |-> CASE i \in files -> File(i)
                     [] i \in DOMAIN sfcbs -> Sfcb(sfcbs[i])
                     [] OTHER -> Free]

Starting(d) ==
  /\ ondisk = d
  /\ found = ondisk
  /\ ipc = "count" /\ irec = 0
  /\ rec = [i \in {} |-> Free]
  /\ freebm = {}

InitDirInit == \E sfcbs \in Stamps : \E files \in SUBSET (ISlots \ DOMAIN sfcbs) :
                 Starting(Directory(files, sfcbs))

-----------------------------------------------------------------------------
Record(r) == [i \in Within(r) |-> ondisk[i]]

(* Pass 1, and the refusals decided from it.                               *)
countdir ==
  /\ ipc = "count" /\ irec < nrec
  /\ freebm' = freebm \cup {i \in Ordinary(irec) : ondisk[i] = Free}
  /\ irec' = irec + 1
  /\ UNCHANGED <<ondisk, found, ipc, rec>>

Relocs == {i \in ISlots : Fourth(i) /\ IsFile(ondisk[i])}
Already == \A i \in ISlots : Fourth(i) => IsSfcb(ondisk[i])

EnoughRoom == Cardinality(Relocs) <= Cardinality(freebm)

Decide ==
  /\ ipc = "count" /\ irec = nrec
  /\ ipc' = IF ~ EnoughRoom \/ (Already /\ \E i \in ISlots : Fourth(i))
            THEN "refused" ELSE "build"
  /\ irec' = 0
  /\ UNCHANGED <<ondisk, found, rec, freebm>>

(* putent(): the entry in slot dst of record b, without the stamps of the  *)
(* file that had the slot before.                                          *)
putent(b, dst, e) ==
  [i \in DOMAIN b |->
     CASE i = dst -> e
       [] Fourth(i) /\ IsSfcb(b[i]) -> Sfcb(b[i].stamps \ {dst % NENTREC})
       [] OTHER -> b[i]]

lastslot == irec * NENTREC + NENTREC - 1
freeslot == CHOOSE i \in freebm : \A j \in freebm : i <= j

(* Pass 2.  The record is read; an SFCB stays, a file in the last slot is  *)
(* moved, into another record by a write of its own.                       *)
Kept == irec' = irec + 1 /\ UNCHANGED <<ondisk, ipc, rec, freebm>>

RecordWritten(r, b) == ondisk' = [i \in ISlots |-> IF ISec(i) = r THEN b[i] ELSE ondisk[i]]

Reserved(b) == [b EXCEPT ![lastslot] = Sfcb({})]

(* The old slot is given up before the entry has its new one.              *)
Moved_late(b) ==
  /\ freebm # {}
  /\ freebm' = freebm \ {freeslot}
  /\ rec' = putent(Record(ISec(freeslot)), freeslot, b[lastslot])
  /\ RecordWritten(irec, Reserved(b))

Moved(b) ==
  /\ freebm # {}
  /\ freebm' = freebm \ {freeslot}
  /\ IF ISec(freeslot) = irec
     THEN /\ rec' = Reserved(putent(b, freeslot, b[lastslot]))
          /\ UNCHANGED ondisk
     ELSE /\ rec' = Reserved(b)
          /\ RecordWritten(ISec(freeslot), putent(Record(ISec(freeslot)), freeslot, b[lastslot]))

buildnew ==
  /\ ipc = "build" /\ irec < nrec /\ lastslot <= DRM
  /\ LET b == Record(irec)
     IN  CASE IsSfcb(b[lastslot]) -> Kept
           [] b[lastslot] = Free  -> /\ rec' = Reserved(b)
                                     /\ ipc' = "write"
                                     /\ UNCHANGED <<ondisk, irec, freebm>>
           [] OTHER               -> Moved(b) /\ ipc' = "write" /\ UNCHANGED irec
  /\ UNCHANGED found

Rewrite ==
  /\ ipc = "write"
  /\ RecordWritten(irec, rec)
  /\ ipc' = "build" /\ irec' = irec + 1
  /\ UNCHANGED <<found, rec, freebm>>

(* A read or a write that the disk refuses ends the program.               *)
DiskFails ==
  /\ ipc \in {"count", "build", "write"}
  /\ ipc' = "failed"
  /\ UNCHANGED <<ondisk, found, irec, rec, freebm>>

buildends ==
  /\ ipc = "build" /\ (irec = nrec \/ lastslot > DRM)
  /\ ipc' = "done"
  /\ UNCHANGED <<ondisk, found, irec, rec, freebm>>

InitDirNext == countdir \/ Decide \/ buildnew \/ Rewrite \/ DiskFails \/ buildends

InitDirSpec == InitDirInit /\ [][InitDirNext]_initvars

-----------------------------------------------------------------------------
At(f) == {i \in ISlots : ondisk[i] = f}

Stamped(d, i) == \E j \in ISlots : /\ Fourth(j) /\ ISec(j) = ISec(i)
                                   /\ IsSfcb(d[j]) /\ i % NENTREC \in d[j].stamps

(* "A duplicate is repairable by hand; a lost FCB is a lost file"          *)
(* (buildnew()): wherever the power fails, every file of the directory is  *)
(* in some slot.  When INITDIR has finished, every file has exactly one    *)
(* slot and no slot it was moved to has the stamps of another file, a file *)
(* that stayed has the stamps it had, and every last slot is an SFCB.      *)
(* When it refuses, the directory is as it was.                            *)
Preserved ==
  LET files == {found[i] : i \in {j \in ISlots : IsFile(found[j])}}
  IN  /\ \A f \in files : At(f) # {}
      /\ ipc \in {"count", "refused"} => ondisk = found
      /\ ipc = "done" =>
           /\ \A i \in ISlots : Fourth(i) => IsSfcb(ondisk[i])
           /\ \A f \in files : \E i \in ISlots :
                /\ At(f) = {i}
                /\ Stamped(ondisk, i) <=> (i = f.of /\ Stamped(found, i))
==============================================================================
