------------------------------- MODULE DirHash -------------------------------
(***************************************************************************)
(* The directory signatures (dskhash.c) that let a scan for an exact name  *)
(* pass over entries without reading them, with everything that keeps the  *)
(* table or fails to: the login scan of seldsk() (fileio.c), dir_wr()      *)
(* (dskutil.c), the switch of drives, function 13, and INITDIR             *)
(* (cmd/initdir.c), which writes directory records through the BIOS.       *)
(*                                                                         *)
(* There is one table for the machine.  `dir' is what a read through the   *)
(* sector cache returns: a refused write has changed it, as dskwrite()     *)
(* (bios900.c) copies the record into its buffer before it writes it out.  *)
(* Drives are fixed disks (cks = 0).  Other processes may run between any  *)
(* two steps, which is more than the parking places of the code allow.     *)
(***************************************************************************)
EXTENDS Integers, FiniteSets

CONSTANTS HASHEN,       \* per drive, the values hashen[] may have there
          HUSERS,       \* the processes, and which of "scan", "reset" and
                        \* "format" each does: every one selects drives
          NSLOT, PERSEC, \* directory entries, and how many a record holds
          DIRENTS, FCBS, \* the entries files may have, and the FCBs asked for
          HASHES,       \* the hash of each name: dhname()
          EXM,          \* extents per directory entry
          FAULTS        \* which of "read" and "write" may be refused

ASSUME DirHashAssumption ==
  /\ \A d \in DOMAIN HASHEN : HASHEN[d] \in (SUBSET BOOLEAN) \ {{}}
  /\ NSLOT \in Nat \ {0} /\ PERSEC \in Nat \ {0} /\ EXM \in Nat \ {0}
  /\ \A e \in DIRENTS \cup FCBS : e.nam \in DOMAIN HASHES
  /\ "" \in DOMAIN HASHES

VARIABLES dir, login,   \* the entries of every drive; log_dsk
          table,        \* dhok, dhbld, dhdrv
          sig,          \* the signatures, as the entries they were made of
          dlock,        \* who holds the file-system lock for a login
          drive,        \* curdsk of each process
          work,         \* what each process is doing
          spoiled       \* the records whose signatures were not made of them

hashvars == <<dir, login, table, sig, dlock, drive, work, spoiled>>

HDrives == DOMAIN HASHEN
HProcs  == DOMAIN HUSERS
HSlots  == 0 .. NSLOT - 1
Sec(i)  == i \div PERSEC
HSecs   == {Sec(i) : i \in HSlots}
Empty   == [usr |-> 229, nam |-> "", ext |-> 0]
TimeSlot == [usr |-> 33, nam |-> "", ext |-> 0]  \* a slot of time stamps
Nobody  == "nobody"
Poison  == -1           \* curdsk 0xff

ASSUME NobodyAssumption == Nobody \notin HProcs

Resting == [doing |-> "user"]

HashInit ==
  /\ dir \in [HDrives -> [HSlots -> {Empty}]]
  /\ login = {}
  /\ table = [ok |-> FALSE, bld |-> FALSE, drv |-> 0]
  /\ sig = [i \in HSlots |-> Empty]     \* the BSS the table starts as
  /\ dlock = Nobody
  /\ drive = [p \in HProcs |-> Poison]
  /\ work = [p \in HProcs |-> Resting]
  /\ spoiled = {}

-----------------------------------------------------------------------------
(* Matching.  A scan is for a kind of function: "ext" matches the extent   *)
(* as well (matchit, openfile, close), "name" does not (delete, rename,    *)
(* set_attr, fsize), "free" wants an empty slot (create).  An FCB is an    *)
(* entry whose user or extent may be -1, the '?'.                          *)

Kinds == {"ext", "name", "free"}

SameExtent(a, b) == a \div EXM = b \div EXM

match(f, e, chkext) ==
  /\ f.nam = e.nam
  /\ f.usr \in {-1, e.usr}
  /\ chkext => f.ext = -1 \/ SameExtent(f.ext, e.ext)

Wants(kind, f, e) ==
  IF kind = "free" THEN e = Empty ELSE match(f, e, kind = "ext")

(* dhstart(): no filter unless the table describes this drive, logged in.  *)
dhstart(p) == table.ok /\ table.drv = drive[p] /\ table.drv \in login

(* The comparison of dhcand() with the signature of entry e.               *)
Selected(kind, f, e) ==
  IF kind = "free" THEN e.usr = 229
  ELSE /\ HASHES[f.nam] = HASHES[e.nam]
       /\ f.usr \in {-1, e.usr}
       /\ (kind = "ext" /\ f.ext # -1) => SameExtent(f.ext, e.ext)

(* Without the question for the drive.                                     *)
dhcand_anydrive(q, i) == ~ table.ok \/ Selected(q.kind, q.fcb, sig[i])

dhcand(q, i) == \/ ~ table.ok
                \/ table.drv # q.drv
                \/ Selected(q.kind, q.fcb, sig[i])

-----------------------------------------------------------------------------
(* Selecting a drive.  A drive that is not logged in is scanned, record    *)
(* by record under the lock; a table that is still valid is left as it is. *)

dhopen(d) ==
  IF table.ok /\ table.drv = d THEN UNCHANGED table
  ELSE \E on \in HASHEN[d] : table' = [ok |-> FALSE, bld |-> on, drv |-> d]

Select(p, d) ==
  /\ drive' = [drive EXCEPT ![p] = d]
  /\ IF d \in login THEN UNCHANGED <<table, dlock, work>>
     ELSE /\ dlock = Nobody
          /\ dlock' = p
          /\ dhopen(d)
          /\ work' = [work EXCEPT ![p] = [doing |-> "login", sec |-> 0]]
  /\ UNCHANGED <<dir, login, sig, spoiled>>

seldsk(p) == /\ work[p] = Resting
             /\ \E d \in HDrives : Select(p, d)

(* A record of the login scan.  One that cannot be read is passed over,    *)
(* and its entries keep whatever signatures were there.                    *)
LoginRecord(p) ==
  /\ work[p].doing = "login" /\ work[p].sec \in HSecs
  /\ LET d == drive[p]
         s == work[p].sec
     IN  IF ~ table.bld THEN UNCHANGED <<sig, spoiled>>
         ELSE \/ /\ sig' = [i \in HSlots |-> IF Sec(i) = s THEN dir[d][i] ELSE sig[i]]
                 /\ spoiled' = spoiled \ {<<d, s>>}
              \/ /\ "read" \in FAULTS
                 /\ spoiled' = spoiled \cup {<<d, s>>}
                 /\ UNCHANGED sig
  /\ work' = [work EXCEPT ![p].sec = @ + 1]
  /\ UNCHANGED <<dir, login, table, dlock, drive>>

dhdone(p) ==
  /\ work[p].doing = "login" /\ work[p].sec \notin HSecs
  /\ login' = login \cup {drive[p]}
  /\ table' = IF table.bld THEN [table EXCEPT !.ok = TRUE, !.bld = FALSE]
              ELSE table
  /\ dlock' = Nobody
  /\ work' = [work EXCEPT ![p] = Resting]
  /\ UNCHANGED <<dir, sig, drive, spoiled>>

-----------------------------------------------------------------------------
(* A directory scan.                                                       *)

BeginScan(p) ==
  /\ work[p] = Resting /\ drive[p] \in login /\ "scan" \in HUSERS[p]
  /\ \E k \in Kinds, f \in FCBS :
       work' = [work EXCEPT ![p] =
                  [doing |-> "scan", pos |-> 0, kind |-> k, fcb |-> f,
                   drv |-> table.drv, filter |-> dhstart(p)]]
  /\ UNCHANGED <<dir, login, table, sig, dlock, drive, spoiled>>

Passes(p) == LET w == work[p]
             IN  \/ w.filter /\ ~ dhcand(w, w.pos)
                 \/ ~ Wants(w.kind, w.fcb, dir[drive[p]][w.pos])

Skip(p) ==
  /\ work[p].doing = "scan" /\ work[p].pos \in HSlots
  /\ Passes(p)
  /\ work' = [work EXCEPT ![p].pos = @ + 1]
  /\ UNCHANGED <<dir, login, table, sig, dlock, drive, spoiled>>

ScanEnds(p) ==
  /\ work[p].doing = "scan" /\ work[p].pos \notin HSlots
  /\ work' = [work EXCEPT ![p] = Resting]
  /\ UNCHANGED <<dir, login, table, sig, dlock, drive, spoiled>>

(* What the scan's function leaves at the entry it wanted.                 *)
Outcomes(w, e) ==
  CASE w.kind = "ext"  -> {x \in DIRENTS : x.usr = e.usr /\ x.nam = e.nam}
    [] w.kind = "name" -> {Empty} \cup {x \in DIRENTS : x.usr = e.usr}
    [] w.kind = "free" -> DIRENTS

(* dhrec(), at the end of a dir_wr() that worked.                          *)
dhrec(d, i, now) ==
  IF (table.ok \/ table.bld) /\ table.drv = d
  THEN /\ sig' = [j \in HSlots |-> IF Sec(j) # Sec(i) THEN sig[j]
                                   ELSE IF j = i THEN now ELSE dir[d][j]]
       /\ spoiled' = spoiled \ {<<d, Sec(i)>>}
  ELSE UNCHANGED <<sig, spoiled>>

(* The wanted entry is written back; a refused write ends the call with    *)
(* the new record in the sector cache and the old signatures.              *)
dir_wr(p) ==
  /\ work[p].doing = "scan" /\ work[p].pos \in HSlots
  /\ ~ Passes(p) /\ dlock = Nobody
  /\ LET w == work[p]
         d == drive[p]
     IN  \E now \in Outcomes(w, dir[d][w.pos]) :
           /\ dir' = [dir EXCEPT ![d][w.pos] = now]
           /\ \/ dhrec(d, w.pos, now)
              \/ /\ "write" \in FAULTS
                 /\ spoiled' = spoiled \cup {<<d, Sec(w.pos)>>}
                 /\ UNCHANGED sig
           /\ work' = [work EXCEPT ![p] = IF w.kind = "name"
                                          THEN [w EXCEPT !.pos = @ + 1]
                                          ELSE Resting]
  /\ UNCHANGED <<login, table, dlock, drive>>

-----------------------------------------------------------------------------
(* Function 13, and INITDIR: it selects the drive it formats and writes    *)
(* its records through the BIOS.  An entry is first put in a free slot,    *)
(* then its old one, like every free slot INITDIR reserves, becomes an     *)
(* SFCB.  In the end it resets the disk system.                            *)

LogOff(p) == /\ login' = {}
             /\ drive' = [drive EXCEPT ![p] = Poison]

ResetDisks(p) ==
  /\ work[p] = Resting /\ "reset" \in HUSERS[p]
  /\ LogOff(p)
  /\ UNCHANGED <<dir, table, sig, dlock, work, spoiled>>

Formatting(d) == [doing |-> "format", of |-> d, from |-> {}]

Formats(p, d) == work[p].doing = "format" /\ work[p].of = d

Format(p) ==
  /\ work[p] = Resting /\ drive[p] # Poison /\ "format" \in HUSERS[p]
  /\ work' = [work EXCEPT ![p] = Formatting(drive[p])]
  /\ UNCHANGED <<dir, login, table, sig, dlock, drive, spoiled>>

writerec(d, i, e) == /\ dir' = [dir EXCEPT ![d][i] = e]
                     /\ spoiled' = spoiled \cup {<<d, Sec(i)>>}
                     /\ UNCHANGED <<login, table, sig, dlock, drive>>

Relocate(p) ==
  /\ work[p].doing = "format" /\ work[p].from = {}
  /\ LET d == work[p].of
     IN  \E src, dst \in HSlots :
           /\ dir[d][src] \in DIRENTS /\ dir[d][dst] = Empty
           /\ writerec(d, dst, dir[d][src])
           /\ work' = [work EXCEPT ![p].from = {src}]

Reserve(p) ==
  /\ work[p].doing = "format"
  /\ LET d == work[p].of
     IN  \E i \in HSlots :
           /\ i \in work[p].from \/ (work[p].from = {} /\ dir[d][i] = Empty)
           /\ writerec(d, i, TimeSlot)
           /\ work' = [work EXCEPT ![p].from = {}]

restore(p) ==
  /\ work[p].doing = "format" /\ work[p].from = {}
  /\ LogOff(p)
  /\ work' = [work EXCEPT ![p] = Resting]
  /\ UNCHANGED <<dir, table, sig, dlock, spoiled>>

HashNext ==
  \E p \in HProcs :
    \/ seldsk(p) \/ LoginRecord(p) \/ dhdone(p)
    \/ BeginScan(p) \/ Skip(p) \/ ScanEnds(p) \/ dir_wr(p)
    \/ ResetDisks(p) \/ Format(p) \/ Relocate(p) \/ Reserve(p) \/ restore(p)

HashSpec == HashInit /\ [][HashNext]_hashvars

-----------------------------------------------------------------------------
(* The entries a filter passes over although the scan wants them: for the  *)
(* scans under way, and for every scan that could start.                   *)
Startable == [kind : Kinds, fcb : FCBS, drv : {table.drv}]

UnderWay(d, i) ==
  {work[p] : p \in {x \in HProcs : /\ work[x].doing = "scan" /\ work[x].filter
                                  /\ drive[x] = d /\ work[x].pos <= i}}

Filters(d, i) == UnderWay(d, i) \cup
  IF table.ok /\ table.drv = d /\ d \in login THEN Startable ELSE {}

Hidden == {x \in HDrives \X HSlots :
             \E q \in Filters(x[1], x[2]) : /\ Wants(q.kind, q.fcb, dir[x[1]][x[2]])
                                           /\ ~ dhcand(q, x[2])}

(* "A false answer is final": the signatures hide an entry from a scan     *)
(* that wants it only in a record that was written past them, or whose     *)
(* write or login read was refused, since they were last made of it.       *)
(* Switches of the drive the table describes, logouts and directory writes *)
(* of other programs in the middle of a scan hide nothing (dhcand() asks   *)
(* for the drive again, dir_wr() keeps the table).                         *)
HiddenOnlyIfSpoiled == \A x \in Hidden : <<x[1], Sec(x[2])>> \in spoiled

(* initdir.c:175-184: after function 13 "the next select re-logs the drive *)
(* and rebuilds ... its directory hash signatures".  So once INITDIR has   *)
(* given the drive back, no scan misses an entry that is on the disk.      *)
FoundAfterFormat ==
  \A x \in Hidden : \E p \in HProcs : Formats(p, x[1])
==============================================================================
