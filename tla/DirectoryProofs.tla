--------------------------- MODULE DirectoryProofs ---------------------------
(***************************************************************************)
(* The directory, for every size and every number of programs and drives:  *)
(* what the signatures may hide from a scan, what INITDIR keeps of a       *)
(* directory it converts, and what the BDOS keeps of it when several       *)
(* programs edit it at once.                                               *)
(***************************************************************************)
EXTENDS Files, DirHash, InitDir, WellFoundedInduction, TLAPS

-----------------------------------------------------------------------------
(* The signatures.  What a scan wants it selects, when the signature is    *)
(* the entry's own.                                                        *)
LEMMA WantedIsSelected ==
  ASSUME NEW kind \in Kinds, NEW f, NEW e, Wants(kind, f, e)
  PROVE  Selected(kind, f, e)
  <1>1. CASE kind = "free"
    <2>1. e = Empty
      BY <1>1 DEF Wants
    <2>2. e.usr = 229
      BY <2>1 DEF Empty
    <2>3. QED BY <1>1, <2>2, Zenon DEF Selected
  <1>2. CASE kind # "free"
    <2>1. match(f, e, kind = "ext")
      BY <1>2 DEF Wants
    <2>2. /\ f.nam = e.nam /\ f.usr \in {-1, e.usr}
          /\ kind = "ext" => f.ext = -1 \/ SameExtent(f.ext, e.ext)
      BY <2>1 DEF match
    <2>3. QED BY <1>2, <2>2 DEF Selected
  <1>3. QED BY <1>1, <1>2

LEMMA SecIsNat == \A i \in HSlots : Sec(i) \in Nat /\ ~ (Sec(i) < 0)
  <1>1. NSLOT \in Nat \ {0} /\ PERSEC \in Nat \ {0}
    BY DirHashAssumption
  <1>2. ASSUME NEW i \in 0 .. NSLOT - 1 PROVE i \div PERSEC \in Nat
    BY <1>1
  <1>3. QED BY <1>2 DEF Sec, HSlots

(* Records are numbered without a gap from nought, so a login that has     *)
(* come to a number that is no record's has been through them all.         *)
LEMMA RecordsDownward ==
  ASSUME NEW n \in Nat, n \notin HSecs, NEW i \in HSlots
  PROVE  Sec(i) \in Nat /\ Sec(i) < n
  <1>1. NSLOT \in Nat \ {0} /\ PERSEC \in Nat \ {0} /\ i \in 0 .. NSLOT - 1
    BY DirHashAssumption DEF HSlots
  <1>2. PICK s : s = i \div PERSEC
    OBVIOUS
  <1>3. s \in Nat /\ s * PERSEC <= i
    <2>1. s \in Nat /\ i = PERSEC * s + (i % PERSEC) /\ i % PERSEC \in 0 .. PERSEC - 1
      BY <1>1, <1>2
    <2>2. QED BY <1>1, <2>1
  <1>4. ASSUME n <= s PROVE FALSE
    <2>1. n * PERSEC <= s * PERSEC
      BY <1>1, <1>3, <1>4
    <2>2. n * PERSEC \in HSlots
      BY <1>1, <1>3, <2>1 DEF HSlots
    <2>3. (n * PERSEC) \div PERSEC = n
      BY <1>1
    <2>4. QED BY <2>2, <2>3 DEF HSecs, Sec
  <1>5. QED BY <1>2, <1>3, <1>4 DEF Sec

(* What there is in the directory, and what a process may be doing.        *)
HEntries == DIRENTS \cup {Empty, TimeSlot}

Logins  == [doing : {"login"}, sec : Nat]
Scans   == [doing : {"scan"}, pos : Nat, kind : Kinds, fcb : FCBS,
            drv : HDrives \cup {0}, filter : BOOLEAN]
Conversions == [doing : {"format"}, of : HDrives, from : SUBSET HSlots]

HTypes ==
  /\ dir \in [HDrives -> [HSlots -> HEntries]] /\ login \in SUBSET HDrives
  /\ table \in [ok : BOOLEAN, bld : BOOLEAN, drv : HDrives \cup {0}]
  /\ sig \in [HSlots -> HEntries]
  /\ drive \in [HProcs -> HDrives \cup {Poison}]
  /\ work \in [HProcs -> {Resting} \cup Logins \cup Scans \cup Conversions]

(* A signature was made of the entry as it is, or its record is spoiled.   *)
Made(d, i) == sig[i] = dir[d][i] \/ <<d, Sec(i)>> \in spoiled

(* So it is with all of a table in use, and with the records a login has   *)
(* been through; a scan keeps to the drive it began on.                    *)
TableMade == table.ok => /\ ~ table.bld /\ table.drv \in HDrives
                         /\ \A i \in HSlots : Made(table.drv, i)

LoginMade ==
  \A p \in HProcs : work[p].doing = "login" =>
    /\ dlock = p /\ drive[p] \in HDrives /\ table.drv = drive[p]
    /\ table.bld => \A i \in HSlots : Sec(i) < work[p].sec => Made(drive[p], i)

ScanDrive ==
  \A p \in HProcs : work[p].doing = "scan" =>
    drive[p] \in HDrives /\ (work[p].filter => work[p].drv = drive[p])

HInv == HTypes /\ TableMade /\ LoginMade /\ ScanDrive

LEMMA WorkIs ==
  ASSUME HTypes, NEW p \in HProcs
  PROVE  /\ work[p].doing = "user" => work[p] = Resting
         /\ work[p].doing = "login" => work[p] \in Logins
         /\ work[p].doing = "scan" => work[p] \in Scans
         /\ work[p].doing = "format" => work[p] \in Conversions
         /\ work[p] = Resting => work[p].doing = "user"
  <1>1. work[p] \in {Resting} \cup Logins \cup Scans \cup Conversions
    BY DEF HTypes
  <1>2. QED BY <1>1 DEF Resting, Logins, Scans, Conversions

LEMMA HashStarts ==
  ASSUME HashInit
  PROVE  HInv
  <1>2. HTypes
    <2>1. [HSlots -> {Empty}] \in SUBSET [HSlots -> HEntries]
      BY DEF HEntries
    <2>2. dir \in [HDrives -> [HSlots -> HEntries]]
      BY <2>1 DEF HashInit
    <2>3. QED BY <2>2 DEF HashInit, HTypes, HEntries
  <1>3. \A p \in HProcs : work[p].doing = "user"
    BY DEF HashInit, Resting
  <1>4. table.ok = FALSE
    BY DEF HashInit
  <1>5. QED BY <1>2, <1>3, <1>4 DEF HInv, TableMade, LoginMade, ScanDrive

(* A filter hides what a scan wants only where a signature was not made of *)
(* the entry.                                                              *)
LEMMA HiddenIsSpoiled == HInv => HiddenOnlyIfSpoiled
  <1>1. SUFFICES ASSUME HInv, NEW d \in HDrives, NEW i \in HSlots,
                        NEW q \in Filters(d, i), Wants(q.kind, q.fcb, dir[d][i]),
                        ~ dhcand(q, i)
                 PROVE  <<d, Sec(i)>> \in spoiled
    BY DEF HiddenOnlyIfSpoiled, Hidden
  <1>2. table.ok /\ table.drv = q.drv /\ ~ Selected(q.kind, q.fcb, sig[i])
    BY <1>1 DEF dhcand
  <1>3. q.kind \in Kinds /\ q.drv = d
    <2>1. CASE q \in UnderWay(d, i)
      <3>1. PICK p \in HProcs : /\ work[p].doing = "scan" /\ work[p].filter /\ drive[p] = d
                                /\ q = work[p]
        BY <2>1 DEF UnderWay
      <3>2. work[p] \in Scans
        BY <1>1, <3>1, WorkIs DEF HInv
      <3>3. QED BY <1>1, <3>1, <3>2 DEF HInv, ScanDrive, Scans
    <2>2. CASE q \notin UnderWay(d, i)
      <3>1. q \in Startable /\ table.drv = d
        BY <1>1, <2>2 DEF Filters
      <3>2. QED BY <3>1 DEF Startable
    <2>3. QED BY <2>1, <2>2
  <1>4. sig[i] # dir[d][i]
    BY <1>1, <1>2, <1>3, WantedIsSelected
  <1>5. QED BY <1>1, <1>2, <1>3, <1>4 DEF HInv, TableMade, Made

(* A record that is written past the signatures is spoiled.                *)
LEMMA MadeKept ==
  ASSUME HInv, UNCHANGED sig, NEW d \in HDrives, NEW i \in HSlots, NEW e,
         dir' = [dir EXCEPT ![d][i] = e], spoiled' = spoiled \cup {<<d, Sec(i)>>}
  PROVE  \A c \in HDrives, j \in HSlots : Made(c, j) => Made(c, j)'
  BY DEF HInv, HTypes, Made

(* Between the steps of a login nobody else changes the table, nor the     *)
(* drive of the process that logs it in.                                   *)
LEMMA TableKept ==
  ASSUME HInv, HTypes', UNCHANGED <<table, dlock>>,
         \A c \in HDrives, j \in HSlots : Made(c, j) => Made(c, j)',
         \A q \in HProcs : work'[q].doing = "login" => work'[q] = work[q] /\ drive'[q] = drive[q],
         ScanDrive'
  PROVE  HInv'
  <1>1. TableMade'
    BY DEF HInv, TableMade
  <1>2. LoginMade'
    BY DEF HInv, LoginMade
  <1>3. QED BY <1>1, <1>2 DEF HInv

LEMMA SelectStep == ASSUME HInv, NEW p \in HProcs, seldsk(p) PROVE HInv'
  <1>1. work[p] = Resting /\ work[p].doing = "user"
    BY WorkIs DEF seldsk, HInv
  <1>2. PICK d \in HDrives : Select(p, d)
    BY DEF seldsk
  <1>3. drive' = [drive EXCEPT ![p] = d] /\ UNCHANGED <<dir, login, sig, spoiled>>
    BY <1>2 DEF Select
  <1>4. drive' \in [HProcs -> HDrives \cup {Poison}]
        /\ drive'[p] = d /\ \A q \in HProcs : q # p => drive'[q] = drive[q]
    BY <1>3 DEF HInv, HTypes
  <1>5. \A c \in HDrives, j \in HSlots : Made(c, j) => Made(c, j)'
    BY <1>3 DEF Made
  <1>6. CASE d \in login
    <2>1. UNCHANGED <<table, dlock, work>>
      BY <1>2, <1>6 DEF Select
    <2>2. HTypes'
      BY <1>3, <1>4, <2>1 DEF HInv, HTypes
    <2>3. ScanDrive'
      BY <1>1, <1>4, <2>1 DEF HInv, ScanDrive
    <2>4. \A q \in HProcs : work'[q].doing = "login" => work'[q] = work[q] /\ drive'[q] = drive[q]
      BY <1>1, <1>4, <2>1
    <2>5. QED BY <1>5, <2>1, <2>2, <2>3, <2>4, TableKept
  <1>7. CASE d \notin login
    <2>1. /\ dlock = Nobody /\ dlock' = p /\ dhopen(d)
          /\ work' = [work EXCEPT ![p] = [doing |-> "login", sec |-> 0]]
      BY <1>2, <1>7 DEF Select
    <2>2. /\ work'[p] = [doing |-> "login", sec |-> 0] /\ work'[p] \in Logins
          /\ \A q \in HProcs : q # p => work'[q] = work[q]
      BY <2>1 DEF HInv, HTypes, Logins
    <2>3. /\ table' \in [ok : BOOLEAN, bld : BOOLEAN, drv : HDrives \cup {0}]
          /\ table'.drv = d /\ (table'.ok => UNCHANGED table)
      <3>1. CASE table.ok /\ table.drv = d
        BY <2>1, <3>1 DEF dhopen, HInv, HTypes
      <3>2. CASE ~ (table.ok /\ table.drv = d)
        <4>1. PICK on \in HASHEN[d] : table' = [ok |-> FALSE, bld |-> on, drv |-> d]
          BY <2>1, <3>2 DEF dhopen
        <4>2. on \in BOOLEAN
          BY <4>1, DirHashAssumption DEF HDrives
        <4>3. QED BY <4>1, <4>2
      <3>3. QED BY <3>1, <3>2
    <2>4. HTypes'
      <3>1. work' \in [HProcs -> {Resting} \cup Logins \cup Scans \cup Conversions]
        BY <2>1, <2>2 DEF HInv, HTypes
      <3>2. QED BY <1>3, <1>4, <2>3, <3>1 DEF HInv, HTypes
    <2>5. TableMade'
      BY <1>5, <2>3 DEF HInv, TableMade
    <2>6. \A q \in HProcs : work[q].doing # "login"
      BY <2>1, NobodyAssumption DEF HInv, LoginMade
    <2>7. \A i \in HSlots : ~ (Sec(i) < 0)
      BY SecIsNat
    <2>8. LoginMade'
      BY <1>4, <2>1, <2>2, <2>3, <2>6, <2>7 DEF LoginMade
    <2>9. ScanDrive'
      BY <1>4, <2>2 DEF HInv, ScanDrive
    <2>10. QED BY <2>4, <2>5, <2>8, <2>9 DEF HInv
  <1>8. QED BY <1>6, <1>7

LEMMA LoginRecordStep == ASSUME HInv, NEW p \in HProcs, LoginRecord(p) PROVE HInv'
  <1>1. PICK d, s : d = drive[p] /\ s = work[p].sec
    OBVIOUS
  <1>2. work[p].doing = "login" /\ work[p] \in Logins /\ s \in Nat
        /\ dlock = p /\ d \in HDrives /\ table.drv = d
    BY <1>1, WorkIs DEF LoginRecord, HInv, LoginMade, Logins
  <1>3. UNCHANGED <<dir, login, table, dlock, drive>> /\ work' = [work EXCEPT ![p].sec = @ + 1]
    BY DEF LoginRecord
  <1>4. /\ work'[p] = [doing |-> "login", sec |-> s + 1] /\ work'[p] \in Logins
        /\ \A q \in HProcs : q # p => work'[q] = work[q]
    BY <1>1, <1>2, <1>3 DEF HInv, HTypes, Logins
  <1>5. \A q \in HProcs : q # p => work[q].doing # "login"
    BY <1>2 DEF HInv, LoginMade
  <1>6. \/ ~ table.bld /\ UNCHANGED <<sig, spoiled>>
        \/ /\ table.bld
           /\ sig' = [i \in HSlots |-> IF Sec(i) = s THEN dir[d][i] ELSE sig[i]]
           /\ spoiled' = spoiled \ {<<d, s>>}
        \/ table.bld /\ spoiled' = spoiled \cup {<<d, s>>} /\ UNCHANGED sig
    BY <1>1 DEF LoginRecord
  <1>7. sig' \in [HSlots -> HEntries]
    BY <1>2, <1>6 DEF HInv, HTypes
  <1>8. \A i \in HSlots : /\ Sec(i) # s /\ Made(d, i) => Made(d, i)'
                          /\ table.bld /\ Sec(i) = s => Made(d, i)'
    BY <1>2, <1>3, <1>6 DEF HInv, HTypes, Made
  <1>9. HTypes'
    <2>1. work' \in [HProcs -> {Resting} \cup Logins \cup Scans \cup Conversions]
      BY <1>3, <1>4 DEF HInv, HTypes
    <2>2. QED BY <1>3, <1>7, <2>1 DEF HInv, HTypes
  <1>10. TableMade'
    BY <1>2, <1>3, <1>6 DEF HInv, TableMade, Made
  <1>11. LoginMade'
    <2>1. ASSUME table.bld, NEW i \in HSlots, Sec(i) < s + 1 PROVE Made(d, i)'
      <3>1. Sec(i) \in Nat
        BY SecIsNat
      <3>2. CASE Sec(i) = s
        BY <1>8, <2>1, <3>2
      <3>3. CASE Sec(i) < s
        BY <1>1, <1>2, <1>8, <2>1, <3>3 DEF HInv, LoginMade
      <3>4. QED BY <1>2, <2>1, <3>1, <3>2, <3>3
    <2>2. QED BY <1>1, <1>2, <1>3, <1>4, <1>5, <2>1 DEF LoginMade
  <1>12. ScanDrive'
    BY <1>3, <1>4 DEF HInv, ScanDrive
  <1>13. QED BY <1>9, <1>10, <1>11, <1>12 DEF HInv

LEMMA LoggedInStep == ASSUME HInv, NEW p \in HProcs, dhdone(p) PROVE HInv'
  <1>1. PICK d, s : d = drive[p] /\ s = work[p].sec
    OBVIOUS
  <1>2. work[p].doing = "login" /\ work[p] \in Logins /\ s \in Nat /\ s \notin HSecs
        /\ dlock = p /\ d \in HDrives /\ table.drv = d
    BY <1>1, WorkIs DEF dhdone, HInv, LoginMade, Logins
  <1>3. UNCHANGED <<dir, sig, drive, spoiled>> /\ work' = [work EXCEPT ![p] = Resting]
        /\ login' = login \cup {d}
        /\ table' = IF table.bld THEN [table EXCEPT !.ok = TRUE, !.bld = FALSE] ELSE table
    BY <1>1 DEF dhdone
  <1>4. work'[p] = Resting /\ \A q \in HProcs : q # p => work'[q] = work[q]
    BY <1>3 DEF HInv, HTypes
  <1>5. \A q \in HProcs : work'[q].doing # "login"
    BY <1>2, <1>4 DEF HInv, LoginMade, Resting
  <1>6. \A i \in HSlots : Made(d, i) => Made(d, i)'
    BY <1>3 DEF Made
  <1>7. /\ table' \in [ok : BOOLEAN, bld : BOOLEAN, drv : HDrives \cup {0}]
        /\ table'.drv = d /\ (table.bld => table'.ok /\ ~ table'.bld)
        /\ (~ table.bld => table' = table)
    BY <1>2, <1>3 DEF HInv, HTypes
  <1>8. HTypes'
    <2>1. work' \in [HProcs -> {Resting} \cup Logins \cup Scans \cup Conversions]
      BY <1>3, <1>4 DEF HInv, HTypes
    <2>2. login' \in SUBSET HDrives
      BY <1>2, <1>3 DEF HInv, HTypes
    <2>3. QED BY <1>3, <1>7, <2>1, <2>2 DEF HInv, HTypes
  <1>9. TableMade'
    <2>1. CASE table.bld
      <3>1. \A i \in HSlots : Sec(i) < s
        BY <1>2, RecordsDownward
      <3>2. \A i \in HSlots : Made(d, i)
        BY <1>1, <1>2, <2>1, <3>1 DEF HInv, LoginMade
      <3>3. QED BY <1>2, <1>6, <1>7, <2>1, <3>2 DEF TableMade
    <2>2. CASE ~ table.bld
      BY <1>2, <1>6, <1>7, <2>2 DEF HInv, TableMade
    <2>3. QED BY <2>1, <2>2
  <1>10. LoginMade'
    BY <1>5 DEF LoginMade
  <1>11. ScanDrive'
    BY <1>3, <1>4 DEF HInv, ScanDrive, Resting
  <1>12. QED BY <1>8, <1>9, <1>10, <1>11 DEF HInv

LEMMA BeginScanStep == ASSUME HInv, NEW p \in HProcs, BeginScan(p) PROVE HInv'
  <1>1. work[p].doing = "user" /\ drive[p] \in login
    BY WorkIs DEF BeginScan, HInv
  <1>2. PICK k \in Kinds, f \in FCBS :
          work' = [work EXCEPT ![p] = [doing |-> "scan", pos |-> 0, kind |-> k, fcb |-> f,
                                       drv |-> table.drv, filter |-> dhstart(p)]]
    BY DEF BeginScan
  <1>3. UNCHANGED <<dir, login, table, sig, dlock, drive, spoiled>>
    BY DEF BeginScan
  <1>4. PICK b \in BOOLEAN : b = dhstart(p)
    BY DEF dhstart
  <1>5. b => table.drv = drive[p]
    BY <1>4 DEF dhstart
  <1>6. /\ work'[p] = [doing |-> "scan", pos |-> 0, kind |-> k, fcb |-> f,
                       drv |-> table.drv, filter |-> b]
        /\ \A q \in HProcs : q # p => work'[q] = work[q]
    BY <1>2, <1>4 DEF HInv, HTypes
  <1>7. work'[p] \in Scans
    BY <1>6 DEF Scans, HInv, HTypes
  <1>8. HTypes'
    <2>1. work' \in [HProcs -> {Resting} \cup Logins \cup Scans \cup Conversions]
      BY <1>2, <1>6, <1>7 DEF HInv, HTypes
    <2>2. QED BY <1>3, <2>1 DEF HInv, HTypes
  <1>9. ScanDrive'
    BY <1>1, <1>3, <1>5, <1>6 DEF HInv, HTypes, ScanDrive
  <1>10. \A c \in HDrives, j \in HSlots : Made(c, j) => Made(c, j)'
    BY <1>3 DEF Made
  <1>11. \A q \in HProcs : work'[q].doing = "login" => work'[q] = work[q] /\ drive'[q] = drive[q]
    BY <1>3, <1>6
  <1>12. UNCHANGED <<table, dlock>>
    BY <1>3
  <1>13. QED BY <1>8, <1>9, <1>10, <1>11, <1>12, TableKept

(* A scan that goes on, or ends.                                           *)
LEMMA ScanOn ==
  ASSUME HInv, NEW p \in HProcs, work[p].doing = "scan", NEW w,
         w = Resting \/ (w = [work[p] EXCEPT !.pos = @ + 1]),
         work' = [work EXCEPT ![p] = w]
  PROVE  /\ work' \in [HProcs -> {Resting} \cup Logins \cup Scans \cup Conversions]
         /\ \A q \in HProcs : work'[q].doing = "login" => work'[q] = work[q]
         /\ UNCHANGED drive => ScanDrive'
  <1>1. work[p] \in Scans
    BY WorkIs DEF HInv
  <1>2. \/ w = Resting
        \/ /\ w \in Scans /\ w.doing = "scan" /\ w.drv = work[p].drv
           /\ w.filter = work[p].filter
    BY <1>1 DEF Scans
  <1>3. work'[p] = w /\ \A q \in HProcs : q # p => work'[q] = work[q]
    BY DEF HInv, HTypes
  <1>4. work' \in [HProcs -> {Resting} \cup Logins \cup Scans \cup Conversions]
    BY <1>2, <1>3 DEF HInv, HTypes
  <1>5. \A q \in HProcs : work'[q].doing = "login" => work'[q] = work[q]
    BY <1>2, <1>3 DEF Resting
  <1>6. UNCHANGED drive => ScanDrive'
    BY <1>2, <1>3 DEF HInv, ScanDrive, Resting
  <1>7. QED BY <1>4, <1>5, <1>6

LEMMA SkipStep == ASSUME HInv, NEW p \in HProcs, Skip(p) \/ ScanEnds(p) PROVE HInv'
  <1>1. work[p].doing = "scan" /\ UNCHANGED <<dir, login, table, sig, dlock, drive, spoiled>>
    BY DEF Skip, ScanEnds
  <1>2. PICK w : /\ w = Resting \/ (w = [work[p] EXCEPT !.pos = @ + 1])
                 /\ work' = [work EXCEPT ![p] = w]
    <2>1. CASE Skip(p)
      <3>1. work' = [work EXCEPT ![p] = [work[p] EXCEPT !.pos = @ + 1]]
        BY <2>1 DEF Skip, HInv, HTypes
      <3>2. QED BY <3>1
    <2>2. CASE ScanEnds(p)
      BY <2>2 DEF ScanEnds
    <2>3. QED BY <2>1, <2>2
  <1>3. /\ work' \in [HProcs -> {Resting} \cup Logins \cup Scans \cup Conversions]
        /\ \A q \in HProcs : work'[q].doing = "login" => work'[q] = work[q]
        /\ ScanDrive'
    BY <1>1, <1>2, ScanOn
  <1>4. HTypes'
    BY <1>1, <1>3 DEF HInv, HTypes
  <1>5. \A c \in HDrives, j \in HSlots : Made(c, j) => Made(c, j)'
    BY <1>1 DEF Made
  <1>6. QED BY <1>1, <1>3, <1>4, <1>5, TableKept

(* dir_wr(): the table keeps up with it, or the record is spoiled.         *)
LEMMA DirWrStep == ASSUME HInv, NEW p \in HProcs, dir_wr(p) PROVE HInv'
  <1>1. PICK d, i : d = drive[p] /\ i = work[p].pos
    OBVIOUS
  <1>2. /\ work[p].doing = "scan" /\ work[p] \in Scans /\ i \in HSlots /\ d \in HDrives
        /\ dlock = Nobody
    BY <1>1, WorkIs DEF dir_wr, HInv, ScanDrive
  <1>3. PICK now \in Outcomes(work[p], dir[d][i]) :
          /\ dir' = [dir EXCEPT ![d][i] = now]
          /\ \/ dhrec(d, i, now)
             \/ spoiled' = spoiled \cup {<<d, Sec(i)>>} /\ UNCHANGED sig
          /\ work' = [work EXCEPT ![p] = IF work[p].kind = "name"
                                         THEN [work[p] EXCEPT !.pos = @ + 1] ELSE Resting]
    BY <1>1 DEF dir_wr
  <1>4. UNCHANGED <<login, table, dlock, drive>>
    BY DEF dir_wr
  <1>5. now \in HEntries
    <2>1. work[p].kind \in Kinds
      BY <1>2 DEF Scans
    <2>2. CASE work[p].kind = "ext"
      BY <1>3, <2>2 DEF Outcomes, HEntries
    <2>3. CASE work[p].kind = "name"
      BY <1>3, <2>3 DEF Outcomes, HEntries
    <2>4. CASE work[p].kind = "free"
      BY <1>3, <2>4 DEF Outcomes, HEntries
    <2>5. QED BY <2>1, <2>2, <2>3, <2>4 DEF Kinds
  <1>6. /\ dir' \in [HDrives -> [HSlots -> HEntries]]
        /\ \A c \in HDrives, j \in HSlots : dir'[c][j] = IF c = d /\ j = i THEN now ELSE dir[c][j]
    BY <1>2, <1>3, <1>5 DEF HInv, HTypes
  <1>7. \A q \in HProcs : work[q].doing # "login"
    BY <1>2, NobodyAssumption DEF HInv, LoginMade
  <1>8. /\ work' \in [HProcs -> {Resting} \cup Logins \cup Scans \cup Conversions]
        /\ \A q \in HProcs : work'[q].doing = "login" => work'[q] = work[q]
        /\ ScanDrive'
    <2>1. PICK w : w = IF work[p].kind = "name" THEN [work[p] EXCEPT !.pos = @ + 1] ELSE Resting
      OBVIOUS
    <2>2. w = Resting \/ (w = [work[p] EXCEPT !.pos = @ + 1])
      BY <2>1
    <2>3. work' = [work EXCEPT ![p] = w]
      BY <1>3, <2>1
    <2>4. QED BY <1>2, <1>4, <2>2, <2>3, ScanOn
  <1>9. LoginMade'
    BY <1>7, <1>8 DEF LoginMade
  <1>10. sig' \in [HSlots -> HEntries] /\ TableMade'
    <2>1. CASE (table.ok \/ table.bld) /\ table.drv = d /\ dhrec(d, i, now)
      <3>1. /\ sig' = [j \in HSlots |-> IF Sec(j) # Sec(i) THEN sig[j]
                                        ELSE IF j = i THEN now ELSE dir[d][j]]
            /\ spoiled' = spoiled \ {<<d, Sec(i)>>}
        BY <2>1 DEF dhrec
      <3>2. sig' \in [HSlots -> HEntries]
        BY <1>2, <1>5, <3>1 DEF HInv, HTypes
      <3>3. ASSUME NEW j \in HSlots, Made(d, j) PROVE Made(d, j)'
        <4>1. CASE Sec(j) = Sec(i)
          BY <1>2, <1>6, <3>1, <4>1 DEF Made
        <4>2. CASE Sec(j) # Sec(i)
          BY <1>2, <1>6, <3>1, <3>3, <4>2 DEF Made
        <4>3. QED BY <4>1, <4>2
      <3>4. QED BY <1>2, <1>4, <2>1, <3>2, <3>3 DEF HInv, TableMade
    <2>2. CASE ~ ((table.ok \/ table.bld) /\ table.drv = d) /\ dhrec(d, i, now)
      <3>1. UNCHANGED <<sig, spoiled>>
        BY <2>2 DEF dhrec
      <3>2. table.ok => table.drv # d
        BY <2>2
      <3>3. \A c \in HDrives, j \in HSlots : c # d /\ Made(c, j) => Made(c, j)'
        BY <1>6, <3>1 DEF Made
      <3>4. QED BY <1>4, <3>1, <3>2, <3>3 DEF HInv, HTypes, TableMade
    <2>3. CASE spoiled' = spoiled \cup {<<d, Sec(i)>>} /\ UNCHANGED sig
      <3>1. \A c \in HDrives, j \in HSlots : Made(c, j) => Made(c, j)'
        BY <1>2, <1>3, <2>3, MadeKept
      <3>2. QED BY <1>4, <2>3, <3>1 DEF HInv, HTypes, TableMade
    <2>4. QED BY <1>3, <2>1, <2>2, <2>3
  <1>11. HTypes'
    BY <1>4, <1>6, <1>8, <1>10 DEF HInv, HTypes
  <1>12. QED BY <1>8, <1>9, <1>10, <1>11 DEF HInv

(* A step of function 13 or of INITDIR: the process is in no scan and no   *)
(* login, before and after.                                                *)
LEMMA Elsewhere ==
  ASSUME HInv, NEW p \in HProcs, work[p].doing \notin {"scan", "login"},
         NEW w \in {Resting} \cup Conversions, work' = [work EXCEPT ![p] = w],
         NEW d \in HDrives \cup {Poison}, drive' = [drive EXCEPT ![p] = d],
         UNCHANGED <<table, dlock, sig>>, login' \in {{}, login},
         dir' \in [HDrives -> [HSlots -> HEntries]],
         \A c \in HDrives, j \in HSlots : Made(c, j) => Made(c, j)'
  PROVE  HInv'
  <1>1. w.doing \notin {"scan", "login"}
    BY DEF Resting, Conversions
  <1>2. work'[p] = w /\ \A q \in HProcs : q # p => work'[q] = work[q] /\ drive'[q] = drive[q]
    BY DEF HInv, HTypes
  <1>3. HTypes'
    <2>1. /\ work' \in [HProcs -> {Resting} \cup Logins \cup Scans \cup Conversions]
          /\ drive' \in [HProcs -> HDrives \cup {Poison}]
      BY DEF HInv, HTypes
    <2>2. QED BY <2>1 DEF HInv, HTypes
  <1>4. ScanDrive'
    BY <1>1, <1>2 DEF HInv, ScanDrive
  <1>5. \A q \in HProcs : work'[q].doing = "login" => work'[q] = work[q] /\ drive'[q] = drive[q]
    BY <1>1, <1>2
  <1>6. QED BY <1>3, <1>4, <1>5, TableKept

LEMMA ConversionStep ==
  ASSUME HInv, NEW p \in HProcs,
         ResetDisks(p) \/ Format(p) \/ Relocate(p) \/ Reserve(p) \/ restore(p)
  PROVE  HInv'
  <1>1. drive[p] \in HDrives \cup {Poison} /\ drive = [drive EXCEPT ![p] = drive[p]]
        /\ work = [work EXCEPT ![p] = work[p]] /\ dir \in [HDrives -> [HSlots -> HEntries]]
        /\ Poison \in HDrives \cup {Poison}
    BY DEF HInv, HTypes
  <1>2. work[p] = Resting => work[p].doing = "user"
    BY WorkIs DEF HInv
  <1>3. Resting \in {Resting} \cup Conversions
    OBVIOUS
  <1>4. UNCHANGED <<dir, sig, spoiled>> =>
          \A c \in HDrives, j \in HSlots : Made(c, j) => Made(c, j)'
    BY DEF Made
  <1>5. CASE ResetDisks(p)
    <2>1. /\ work[p] = Resting /\ UNCHANGED <<dir, table, sig, dlock, work, spoiled>>
          /\ login' = {} /\ drive' = [drive EXCEPT ![p] = Poison]
      BY <1>5 DEF ResetDisks, LogOff
    <2>2. work[p] \in {Resting} \cup Conversions /\ work' = [work EXCEPT ![p] = work[p]]
          /\ work[p].doing \notin {"scan", "login"}
      BY <1>1, <1>2, <2>1
    <2>3. /\ UNCHANGED <<table, dlock, sig>> /\ login' \in {{}, login}
          /\ dir' \in [HDrives -> [HSlots -> HEntries]]
          /\ \A c \in HDrives, j \in HSlots : Made(c, j) => Made(c, j)'
      BY <1>1, <1>4, <2>1
    <2>4. QED BY <1>1, <2>1, <2>2, <2>3, Elsewhere
  <1>6. CASE Format(p)
    <2>1. /\ work[p] = Resting /\ drive[p] # Poison
          /\ work' = [work EXCEPT ![p] = Formatting(drive[p])]
          /\ UNCHANGED <<dir, login, table, sig, dlock, drive, spoiled>>
      BY <1>6 DEF Format
    <2>2. Formatting(drive[p]) \in {Resting} \cup Conversions
      BY <1>1, <2>1 DEF Formatting, Conversions
    <2>3. /\ UNCHANGED <<table, dlock, sig>> /\ login' \in {{}, login}
          /\ dir' \in [HDrives -> [HSlots -> HEntries]]
          /\ drive' = [drive EXCEPT ![p] = drive[p]]
          /\ work[p].doing \notin {"scan", "login"}
          /\ \A c \in HDrives, j \in HSlots : Made(c, j) => Made(c, j)'
      BY <1>1, <1>2, <1>4, <2>1
    <2>4. QED BY <1>1, <2>1, <2>2, <2>3, Elsewhere
  <1>7. CASE Relocate(p) \/ Reserve(p)
    <2>1. work[p].doing = "format" /\ work[p] \in Conversions
      BY <1>7, WorkIs DEF Relocate, Reserve, HInv
    <2>2. PICK d \in HDrives : d = work[p].of
      BY <2>1 DEF Conversions
    <2>3. PICK i \in HSlots, e \in HEntries, from \in SUBSET HSlots :
            writerec(d, i, e) /\ work' = [work EXCEPT ![p].from = from]
      <3>1. CASE Relocate(p)
        <4>1. PICK src \in HSlots, dst \in HSlots :
                /\ dir[d][src] \in DIRENTS /\ writerec(d, dst, dir[d][src])
                /\ work' = [work EXCEPT ![p].from = {src}]
          BY <2>2, <3>1 DEF Relocate
        <4>2. dir[d][src] \in HEntries /\ {src} \in SUBSET HSlots
          BY <4>1 DEF HEntries
        <4>3. QED BY <4>1, <4>2
      <3>2. CASE Reserve(p)
        <4>1. PICK i \in HSlots : /\ writerec(d, i, TimeSlot)
                                  /\ work' = [work EXCEPT ![p].from = {}]
          BY <2>2, <3>2 DEF Reserve
        <4>2. TimeSlot \in HEntries /\ {} \in SUBSET HSlots
          BY DEF HEntries
        <4>3. QED BY <4>1, <4>2
      <3>3. QED BY <1>7, <3>1, <3>2
    <2>4. /\ dir' = [dir EXCEPT ![d][i] = e] /\ spoiled' = spoiled \cup {<<d, Sec(i)>>}
          /\ UNCHANGED <<login, table, sig, dlock, drive>>
      BY <2>3 DEF writerec
    <2>5. PICK w : w = [work[p] EXCEPT !.from = from]
      OBVIOUS
    <2>6. w \in {Resting} \cup Conversions /\ work' = [work EXCEPT ![p] = w]
          /\ work[p].doing \notin {"scan", "login"}
      BY <2>1, <2>3, <2>5 DEF Conversions, HInv, HTypes
    <2>7. \A c \in HDrives, j \in HSlots : Made(c, j) => Made(c, j)'
      BY <2>4, MadeKept
    <2>8. /\ UNCHANGED <<table, dlock, sig>> /\ login' \in {{}, login}
          /\ dir' \in [HDrives -> [HSlots -> HEntries]]
          /\ drive' = [drive EXCEPT ![p] = drive[p]]
      BY <1>1, <2>4
    <2>9. QED BY <1>1, <2>6, <2>7, <2>8, Elsewhere
  <1>8. CASE restore(p)
    <2>1. /\ work[p].doing = "format" /\ work' = [work EXCEPT ![p] = Resting]
          /\ UNCHANGED <<dir, table, sig, dlock, spoiled>>
          /\ login' = {} /\ drive' = [drive EXCEPT ![p] = Poison]
      BY <1>8 DEF restore, LogOff
    <2>2. /\ UNCHANGED <<table, dlock, sig>> /\ login' \in {{}, login}
          /\ dir' \in [HDrives -> [HSlots -> HEntries]]
          /\ work[p].doing \notin {"scan", "login"}
          /\ \A c \in HDrives, j \in HSlots : Made(c, j) => Made(c, j)'
      BY <1>1, <1>4, <2>1
    <2>3. QED BY <1>1, <1>3, <2>1, <2>2, Elsewhere
  <1>9. QED BY <1>5, <1>6, <1>7, <1>8

LEMMA HashStep == ASSUME HInv, [HashNext]_hashvars PROVE HInv'
  <1>1. CASE HashNext
    <2>1. PICK p \in HProcs :
            \/ seldsk(p) \/ LoginRecord(p) \/ dhdone(p)
            \/ BeginScan(p) \/ Skip(p) \/ ScanEnds(p) \/ dir_wr(p)
            \/ ResetDisks(p) \/ Format(p) \/ Relocate(p) \/ Reserve(p) \/ restore(p)
      BY <1>1 DEF HashNext
    <2>2. QED BY <2>1, SelectStep, LoginRecordStep, LoggedInStep, BeginScanStep, SkipStep,
                 DirWrStep, ConversionStep
  <1>2. CASE UNCHANGED hashvars
    BY <1>2 DEF hashvars, HInv, HTypes, TableMade, LoginMade, ScanDrive, Made
  <1>3. QED BY <1>1, <1>2

(* "A false answer is final": a scan that wants an entry is told so by the *)
(* signatures unless the record was written past them, or its write or     *)
(* login read was refused, since they were last made of it -- whatever     *)
(* drives are selected, logged out and written to in the middle of a scan. *)
THEOREM SignaturesHideNothing == HashSpec => []HiddenOnlyIfSpoiled
  <1>1. HashInit => HInv
    BY HashStarts
  <1>2. HInv /\ [HashNext]_hashvars => HInv'
    BY HashStep
  <1>3. QED BY <1>1, <1>2, HiddenIsSpoiled, PTL DEF HashSpec

-----------------------------------------------------------------------------
(* INITDIR.  Slots and records: the last slot of a record is the one       *)
(* Fourth() tells.                                                         *)
Last(r) == r * NENTREC + NENTREC - 1

LEMMA SlotArithmetic ==
  /\ \A i \in ISlots : ISec(i) \in Nat /\ ISec(i) < nrec /\ i % NENTREC \in 0 .. NENTREC - 1
  /\ \A i \in ISlots : Fourth(i) => i = Last(ISec(i))
  /\ \A r \in Nat : Last(r) \in Nat /\ ISec(Last(r)) = r /\ Fourth(Last(r))
  /\ \A r, t \in Nat : r <= t => Last(r) <= Last(t)
  <1>1. DRM \in Nat /\ NENTREC \in Nat /\ NENTREC > 1
    BY InitDirAssumption
  <1>2. ASSUME NEW i \in ISlots
        PROVE  /\ ISec(i) \in Nat /\ ISec(i) < nrec /\ i % NENTREC \in 0 .. NENTREC - 1
               /\ Fourth(i) => i = Last(ISec(i))
    <2>1. PICK q \in Int : q = i \div NENTREC
      BY <1>1, <1>2 DEF ISlots
    <2>2. /\ i \in Nat /\ i <= DRM /\ q \in Nat /\ i % NENTREC \in 0 .. NENTREC - 1
          /\ i = NENTREC * q + (i % NENTREC)
      BY <1>1, <1>2, <2>1 DEF ISlots
    <2>3. (q + 1) * NENTREC <= DRM + NENTREC
      BY <1>1, <2>2
    <2>4. PICK k \in Int : k = nrec
      BY <1>1 DEF nrec
    <2>5. DRM + NENTREC < (k + 1) * NENTREC
      BY <1>1, <2>4 DEF nrec
    <2>6. ASSUME k < q + 1 PROVE FALSE
      <3>1. (k + 1) * NENTREC <= (q + 1) * NENTREC
        BY <1>1, <2>2, <2>6
      <3>2. QED BY <1>1, <2>2, <2>3, <2>5, <3>1
    <2>7. Fourth(i) => i = Last(q)
      BY <1>1, <2>2 DEF Fourth, Last
    <2>8. QED BY <2>1, <2>2, <2>4, <2>6, <2>7 DEF ISec
  <1>3. ASSUME NEW r \in Nat
        PROVE  Last(r) \in Nat /\ ISec(Last(r)) = r /\ Fourth(Last(r))
    <2>1. r * NENTREC \in Nat
      BY <1>1
    <2>2. Last(r) \in Nat
      BY <1>1, <2>1 DEF Last
    <2>3. (r * NENTREC + NENTREC - 1) \div NENTREC = r
      BY <1>1, <2>1
    <2>4. (r * NENTREC + NENTREC - 1) % NENTREC = NENTREC - 1
      BY <1>1, <2>1, <2>3
    <2>5. QED BY <2>2, <2>3, <2>4 DEF ISec, Fourth, Last
  <1>4. ASSUME NEW r \in Nat, NEW t \in Nat, r <= t PROVE Last(r) <= Last(t)
    <2>1. r * NENTREC <= t * NENTREC
      BY <1>1, <1>4
    <2>2. QED BY <1>1, <2>1 DEF Last
  <1>5. QED BY <1>2, <1>3, <1>4

(* What may be in a slot; what INITDIR may find there.                     *)
Files     == {File(i) : i \in ISlots}
Sfcbs     == {Sfcb(t) : t \in SUBSET (0 .. NENTREC - 2)}
Contents  == {Free} \cup Files \cup Sfcbs
Finds(i)  == {Free, File(i)} \cup (IF Fourth(i) THEN Sfcbs ELSE {})

LEMMA ContentsAre ==
  /\ \A i \in ISlots : Finds(i) \in SUBSET Contents
  /\ \A e \in Contents : /\ IsFile(e) => e = File(e.of) /\ e.of \in ISlots
                         /\ IsSfcb(e) => e = Sfcb(e.stamps) /\ e.stamps \in SUBSET (0 .. NENTREC - 2)
                         /\ e = Free \/ IsFile(e) \/ IsSfcb(e)
                         /\ ~ (IsFile(e) /\ IsSfcb(e))
  /\ ~ IsFile(Free) /\ ~ IsSfcb(Free)
  /\ \A i : IsFile(File(i)) /\ ~ IsSfcb(File(i)) /\ File(i).of = i
  /\ \A t : IsSfcb(Sfcb(t)) /\ ~ IsFile(Sfcb(t)) /\ Sfcb(t).stamps = t
  /\ \A i, j : File(i) = File(j) => i = j
  <1>1. \A i \in ISlots : Finds(i) \in SUBSET Contents
    BY DEF Finds, Contents, Files
  <1>2. ~ IsFile(Free) /\ ~ IsSfcb(Free)
    BY DEF IsFile, IsSfcb, Free
  <1>3. \A i : IsFile(File(i)) /\ ~ IsSfcb(File(i)) /\ File(i).of = i
    BY DEF IsFile, IsSfcb, File
  <1>4. \A t : IsSfcb(Sfcb(t)) /\ ~ IsFile(Sfcb(t)) /\ Sfcb(t).stamps = t
    BY DEF IsFile, IsSfcb, Sfcb
  <1>5. \A i, j : File(i) = File(j) => i = j
    BY <1>3
  <1>6. ASSUME NEW e \in Contents
        PROVE  /\ IsFile(e) => e = File(e.of) /\ e.of \in ISlots
               /\ IsSfcb(e) => e = Sfcb(e.stamps) /\ e.stamps \in SUBSET (0 .. NENTREC - 2)
               /\ e = Free \/ IsFile(e) \/ IsSfcb(e)
               /\ ~ (IsFile(e) /\ IsSfcb(e))
    <2>1. CASE e = Free
      BY <1>2, <2>1
    <2>2. CASE e \in Files
      <3>1. PICK i \in ISlots : e = File(i)
        BY <2>2 DEF Files
      <3>2. QED BY <1>3, <3>1
    <2>3. CASE e \in Sfcbs
      <3>1. PICK t \in SUBSET (0 .. NENTREC - 2) : e = Sfcb(t)
        BY <2>3 DEF Sfcbs
      <3>2. QED BY <1>4, <3>1
    <2>4. QED BY <2>1, <2>2, <2>3 DEF Contents
  <1>7. QED BY <1>1, <1>2, <1>3, <1>4, <1>5, <1>6

(* The free slots of the last records are for the SFCBs.                   *)
FreeIn(d) == {i \in ISlots : ~ Fourth(i) /\ d[i] = Free}

(* The directory as it will be when the record at hand is written.         *)
Coming == [i \in ISlots |-> IF ipc = "write" /\ ISec(i) = irec THEN rec[i] ELSE ondisk[i]]
Past(j) == ISec(j) < irec \/ (ISec(j) = irec /\ ipc = "write")

ITypes ==
  /\ ipc \in {"count", "build", "write", "done", "refused", "failed"} /\ irec \in Nat
  /\ found \in [ISlots -> Contents] /\ ondisk \in [ISlots -> Contents]
  /\ \A i \in ISlots : found[i] \in Finds(i)

(* Before the conversion the disk is as it was found, and what pass 1 has  *)
(* come to is counted.                                                     *)
Counting ==
  /\ ipc \in {"count", "refused"} => ondisk = found
  /\ ipc = "count" => freebm = {i \in FreeIn(found) : ISec(i) < irec}

(* During it, of the directory that is coming: a file outside the last     *)
(* slots stays; the slots still held free are free; an SFCB that was there *)
(* has lost the stamps of the slots given away, and no others; a last slot *)
(* come past is an SFCB, and one not come past is as it was found; no file *)
(* is in two slots, or in none.                                            *)
Converted(d, F) ==
  /\ d \in [ISlots -> Contents] /\ F \in SUBSET FreeIn(found)
  /\ \A i \in ISlots : ~ Fourth(i) /\ found[i] = File(i) => d[i] = File(i)
  /\ \A i \in F : d[i] = Free
  /\ \A j \in ISlots : Fourth(j) /\ IsSfcb(found[j]) =>
       /\ IsSfcb(d[j])
       /\ \A i \in ISlots : ISec(i) = ISec(j) /\ ~ Fourth(i) =>
            (i % NENTREC \in d[j].stamps <=>
               i % NENTREC \in found[j].stamps /\ (found[i] # Free \/ i \in F))
  /\ \A i, k \in ISlots : IsFile(d[i]) /\ d[i] = d[k] => i = k
  /\ \A k \in ISlots : found[k] = File(k) => \E i \in ISlots : d[i] = File(k)

LastSlots(d, P) ==
  \A j \in ISlots : Fourth(j) /\ ~ IsSfcb(found[j]) => d[j] = IF j \in P THEN Sfcb({}) ELSE found[j]

PastSlots == {j \in ISlots : Past(j)}
Converting == ipc \in {"build", "write", "done"} =>
                Converted(Coming, freebm) /\ LastSlots(Coming, PastSlots)

(* On the disk no file is missing at any time.                             *)
NoneLost == \A k \in ISlots : found[k] = File(k) => \E i \in ISlots : ondisk[i] = File(k)

Finished == ipc = "done" => \A j \in ISlots : Fourth(j) => Past(j)

IDInv == ITypes /\ Counting /\ Converting /\ NoneLost /\ Finished

(* The counts may refuse the directory or have been through all of it.     *)
LEMMA InitDirStarts == ASSUME InitDirInit PROVE IDInv
  <1>1. PICK sfcbs \in Stamps : \E files \in SUBSET (ISlots \ DOMAIN sfcbs) :
                                  Starting(Directory(files, sfcbs))
    BY DEF InitDirInit
  <1>2. PICK files \in SUBSET (ISlots \ DOMAIN sfcbs) : Starting(Directory(files, sfcbs))
    BY <1>1
  <1>3. PICK last \in SUBSET {i \in ISlots : Fourth(i)} : sfcbs \in [last -> SUBSET (0 .. NENTREC - 2)]
    BY DEF Stamps
  <1>4. /\ ondisk = Directory(files, sfcbs) /\ found = ondisk /\ ipc = "count" /\ irec = 0
        /\ freebm = {}
    BY <1>2 DEF Starting
  <1>5. ASSUME NEW i \in ISlots PROVE Directory(files, sfcbs)[i] \in Finds(i)
    <2>1. CASE i \in files
      BY <2>1 DEF Directory, Finds
    <2>2. CASE i \notin files /\ i \in last
      <3>1. Directory(files, sfcbs)[i] = Sfcb(sfcbs[i]) /\ Fourth(i)
        BY <1>3, <2>2 DEF Directory
      <3>2. sfcbs[i] \in SUBSET (0 .. NENTREC - 2)
        BY <1>3, <2>2
      <3>3. QED BY <3>1, <3>2 DEF Finds, Sfcbs
    <2>3. CASE i \notin files /\ i \notin last
      BY <1>3, <2>3 DEF Directory, Finds
    <2>4. QED BY <2>1, <2>2, <2>3
  <1>6. Directory(files, sfcbs) \in [ISlots -> Contents]
    <2>1. \A i \in ISlots : Directory(files, sfcbs)[i] \in Contents
      BY <1>5, ContentsAre
    <2>2. QED BY <2>1 DEF Directory
  <1>7. ITypes /\ NoneLost
    BY <1>4, <1>5, <1>6 DEF ITypes, NoneLost
  <1>8. \A i \in ISlots : ~ (ISec(i) < 0)
    BY SlotArithmetic
  <1>9. Counting
    BY <1>4, <1>8 DEF Counting, FreeIn
  <1>10. QED BY <1>4, <1>7, <1>9 DEF IDInv, Converting, Finished

LEMMA ComingIs ==
  /\ ITypes /\ ipc # "write" => Coming = ondisk
  /\ ITypes' /\ ipc' # "write" => Coming' = ondisk'
  BY DEF Coming, ITypes

LEMMA CountStep == ASSUME IDInv, countdir PROVE IDInv'
  <1>1. /\ ipc = "count" /\ ipc' = "count" /\ UNCHANGED <<ondisk, found>> /\ irec' = irec + 1
        /\ freebm' = freebm \cup {i \in Ordinary(irec) : ondisk[i] = Free}
    BY DEF countdir
  <1>2. irec \in Nat /\ ondisk = found /\ freebm = {i \in FreeIn(found) : ISec(i) < irec}
    BY <1>1 DEF IDInv, ITypes, Counting
  <1>3. \A i \in ISlots : ISec(i) \in Nat
    BY SlotArithmetic
  <1>4. \A i \in ISlots : ISec(i) < irec + 1 <=> ISec(i) < irec \/ ISec(i) = irec
    BY <1>2, <1>3
  <1>5. freebm' = {i \in FreeIn(found) : ISec(i) < irec'}
    BY <1>1, <1>2, <1>4 DEF FreeIn, Ordinary, Within
  <1>6. ITypes'
    BY <1>1, <1>2 DEF IDInv, ITypes
  <1>7. QED BY <1>1, <1>2, <1>5, <1>6
            DEF IDInv, Counting, Converting, NoneLost, Finished

LEMMA DecideStep == ASSUME IDInv, Decide PROVE IDInv'
  <1>1. /\ ipc = "count" /\ irec = nrec /\ ipc' \in {"refused", "build"} /\ irec' = 0
        /\ UNCHANGED <<ondisk, found, rec, freebm>>
    BY DEF Decide
  <1>2. ondisk = found /\ freebm = {i \in FreeIn(found) : ISec(i) < nrec}
    BY <1>1 DEF IDInv, Counting
  <1>3. freebm = FreeIn(found)
    BY <1>2, SlotArithmetic DEF FreeIn
  <1>4. ITypes'
    BY <1>1 DEF IDInv, ITypes
  <1>5. /\ found \in [ISlots -> Contents] /\ \A i \in ISlots : found[i] \in Finds(i)
    BY DEF IDInv, ITypes
  <1>6. \A i \in ISlots : IsFile(found[i]) => found[i] = File(i)
    <2>1. ASSUME NEW i \in ISlots, IsFile(found[i]) PROVE found[i] = File(i)
      <3>1. \A e \in Sfcbs : ~ IsFile(e)
        BY ContentsAre DEF Sfcbs
      <3>2. QED BY <1>5, <2>1, <3>1, ContentsAre DEF Finds
    <2>2. QED BY <2>1
  <1>7. Converted(found, freebm)
    <2>1. \A i, k \in ISlots : IsFile(found[i]) /\ found[i] = found[k] => i = k
      BY <1>6, ContentsAre
    <2>2. \A j \in ISlots : Fourth(j) /\ IsSfcb(found[j]) =>
           \A i \in ISlots : ISec(i) = ISec(j) /\ ~ Fourth(i) =>
            (i % NENTREC \in found[j].stamps <=>
               i % NENTREC \in found[j].stamps /\ (found[i] # Free \/ i \in freebm))
      BY <1>3 DEF FreeIn
    <2>3. QED BY <1>3, <1>5, <2>1, <2>2 DEF Converted, FreeIn
  <1>8. Coming' = found
    BY <1>1, <1>2, <1>4, ComingIs
  <1>9. LastSlots(found, PastSlots')
    <2>1. \A j \in ISlots : ~ (ISec(j) < 0)
      BY SlotArithmetic
    <2>2. PastSlots' = {}
      BY <1>1, <2>1 DEF PastSlots, Past
    <2>3. QED BY <2>2 DEF LastSlots
  <1>10. Converting'
    BY <1>1, <1>7, <1>8, <1>9 DEF Converting, Converted, LastSlots, FreeIn
  <1>11. QED BY <1>1, <1>2, <1>4, <1>10
             DEF IDInv, Counting, NoneLost, Finished

LEMMA SamePlace ==
  ASSUME NEW i \in ISlots, NEW k \in ISlots, ISec(i) = ISec(k), i % NENTREC = k % NENTREC
  PROVE  i = k
  <1>1. NENTREC \in Nat \ {0} /\ i \in Nat /\ k \in Nat
    BY InitDirAssumption DEF ISlots
  <1>2. i = NENTREC * (i \div NENTREC) + (i % NENTREC)
        /\ k = NENTREC * (k \div NENTREC) + (k % NENTREC)
    BY <1>1
  <1>3. QED BY <1>2 DEF ISec

(* The last slots come past are those before and the one at hand.          *)
Passing(P, Q, l) == \A j \in ISlots : Fourth(j) => (j \in Q <=> j \in P \/ j = l)

(* A last slot that was not come past is as it was found.                  *)
LEMMA NotPast ==
  ASSUME ITypes, NEW d, NEW F, NEW P, Converted(d, F), LastSlots(d, P),
         NEW l \in ISlots, Fourth(l), l \notin P, ~ IsSfcb(d[l])
  PROVE  ~ IsSfcb(found[l]) /\ d[l] = found[l] /\ d[l] \in {Free, File(l)}
  <1>1. ~ IsSfcb(found[l])
    BY DEF Converted
  <1>2. d[l] = found[l]
    BY <1>1 DEF LastSlots
  <1>3. found[l] \in Finds(l) /\ \A e \in Sfcbs : IsSfcb(e)
    BY ContentsAre DEF ITypes, Sfcbs
  <1>4. QED BY <1>1, <1>2, <1>3 DEF Finds

LEMMA ReservedIs ==
  ASSUME ITypes, NEW d, NEW F, NEW P, NEW Q, Converted(d, F), LastSlots(d, P),
         NEW l \in ISlots, Fourth(l), l \notin P, d[l] = Free, Passing(P, Q, l),
         NEW e, e = [d EXCEPT ![l] = Sfcb({})]
  PROVE  Converted(e, F) /\ LastSlots(e, Q)
  <1>1. ~ IsSfcb(found[l]) /\ found[l] = Free
    BY NotPast, ContentsAre
  <1>2. d \in [ISlots -> Contents] /\ F \in SUBSET FreeIn(found)
    BY DEF Converted
  <1>3. e[l] = Sfcb({}) /\ \A i \in ISlots : i # l => e[i] = d[i]
    BY <1>2
  <1>4. e \in [ISlots -> Contents]
    <2>1. Sfcb({}) \in Contents
      BY DEF Contents, Sfcbs
    <2>2. QED BY <1>2, <2>1
  <1>5. IsSfcb(e[l]) /\ ~ IsFile(e[l]) /\ ~ IsFile(d[l])
    BY <1>3, ContentsAre
  <1>6. \A i \in ISlots : ~ Fourth(i) => i # l
    OBVIOUS
  <1>7. Converted(e, F)
    <2>1. \A i \in ISlots : ~ Fourth(i) /\ found[i] = File(i) => e[i] = File(i)
      BY <1>3 DEF Converted
    <2>2. \A i \in F : e[i] = Free
      BY <1>2, <1>3 DEF Converted, FreeIn
    <2>3. \A j \in ISlots : Fourth(j) /\ IsSfcb(found[j]) => j # l /\ e[j] = d[j]
      BY <1>1, <1>3
    <2>4. \A i, k \in ISlots : IsFile(e[i]) /\ e[i] = e[k] => i = k
      BY <1>3, <1>5 DEF Converted
    <2>5. \A k \in ISlots : found[k] = File(k) => \E i \in ISlots : e[i] = File(k)
      <3>1. \A k : d[l] # File(k)
        BY <1>5, ContentsAre
      <3>2. QED BY <1>3, <3>1 DEF Converted
    <2>6. QED BY <1>2, <1>4, <2>1, <2>2, <2>3, <2>4, <2>5 DEF Converted
  <1>8. LastSlots(e, Q)
    BY <1>3 DEF LastSlots, Passing
  <1>9. QED BY <1>7, <1>8

(* The file of slot l goes to slot s, whose old stamps go.                 *)
Stripped(d, s, i) == Fourth(i) /\ ISec(i) = ISec(s) /\ IsSfcb(d[i])
MovedTo(d, s, l) ==
  [i \in ISlots |-> IF i = s THEN File(l) ELSE IF i = l THEN Sfcb({})
                    ELSE IF Stripped(d, s, i) THEN Sfcb(d[i].stamps \ {s % NENTREC}) ELSE d[i]]

LEMMA MovedIs ==
  ASSUME ITypes, NEW d, NEW F, NEW P, NEW Q, Converted(d, F), LastSlots(d, P),
         NEW l \in ISlots, Fourth(l), l \notin P, IsFile(d[l]), Passing(P, Q, l),
         NEW s \in F, NEW e, e = MovedTo(d, s, l)
  PROVE  Converted(e, F \ {s}) /\ LastSlots(e, Q)
  <1>1. d \in [ISlots -> Contents] /\ F \in SUBSET FreeIn(found)
    BY DEF Converted
  <1>11. \A e1 \in Contents : /\ ~ (IsFile(e1) /\ IsSfcb(e1))
                              /\ IsSfcb(e1) => e1.stamps \in SUBSET (0 .. NENTREC - 2)
    BY ContentsAre
  <1>12. \A i \in ISlots : d[i] \in Contents
    BY <1>1
  <1>2. ~ IsSfcb(d[l])
    BY <1>11, <1>12
  <1>3. ~ IsSfcb(found[l]) /\ found[l] = File(l) /\ d[l] = File(l)
    BY <1>2, NotPast, ContentsAre
  <1>4. s \in ISlots /\ ~ Fourth(s) /\ found[s] = Free /\ d[s] = Free /\ s # l
    BY <1>1 DEF FreeIn, Converted
  <1>5. /\ e[s] = File(l) /\ e[l] = Sfcb({})
        /\ \A i \in ISlots : i # s /\ i # l =>
              e[i] = IF Stripped(d, s, i) THEN Sfcb(d[i].stamps \ {s % NENTREC}) ELSE d[i]
    BY <1>4 DEF MovedTo
  <1>6. /\ \A i \in ISlots : IsFile(d[i]) /\ i # l => e[i] = d[i]
        /\ \A i \in ISlots : IsFile(e[i]) /\ i # s => i # l /\ e[i] = d[i]
    <2>1. \A i \in ISlots : IsFile(d[i]) => ~ Stripped(d, s, i)
      BY <1>11, <1>12 DEF Stripped
    <2>2. ~ IsFile(d[s])
      BY <1>4, ContentsAre
    <2>3. \A t : ~ IsFile(Sfcb(t))
      BY ContentsAre
    <2>4. QED BY <1>5, <2>1, <2>2, <2>3
  <1>7. e \in [ISlots -> Contents]
    <2>1. File(l) \in Contents /\ Sfcb({}) \in Contents
      BY DEF Contents, Files, Sfcbs
    <2>2. ASSUME NEW i \in ISlots, Stripped(d, s, i)
          PROVE  Sfcb(d[i].stamps \ {s % NENTREC}) \in Contents
      <3>1. d[i].stamps \in SUBSET (0 .. NENTREC - 2)
        BY <1>11, <1>12, <2>2 DEF Stripped
      <3>2. d[i].stamps \ {s % NENTREC} \in SUBSET (0 .. NENTREC - 2)
        BY <3>1
      <3>3. QED BY <3>2, Zenon DEF Contents, Sfcbs
    <2>3. QED BY <1>1, <2>1, <2>2 DEF MovedTo
  <1>8. Converted(e, F \ {s})
    <2>1. ASSUME NEW i \in ISlots, ~ Fourth(i), found[i] = File(i) PROVE e[i] = File(i)
      <3>1. d[i] = File(i) /\ i # l
        BY <2>1 DEF Converted
      <3>2. QED BY <1>6, <3>1, ContentsAre
    <2>2. ASSUME NEW i \in F \ {s} PROVE e[i] = Free
      <3>1. i \in ISlots /\ ~ Fourth(i) /\ i # l /\ d[i] = Free
        BY <1>1, <2>2 DEF FreeIn, Converted
      <3>2. QED BY <1>5, <2>2, <3>1 DEF Stripped
    <2>3. ASSUME NEW j \in ISlots, Fourth(j), IsSfcb(found[j])
          PROVE  /\ IsSfcb(e[j])
                 /\ \A i \in ISlots : ISec(i) = ISec(j) /\ ~ Fourth(i) =>
                      (i % NENTREC \in e[j].stamps <=>
                         i % NENTREC \in found[j].stamps /\ (found[i] # Free \/ i \in F \ {s}))
      <3>1. j # l /\ j # s /\ IsSfcb(d[j])
        BY <1>3, <1>4, <2>3 DEF Converted
      <3>2. e[j] = IF ISec(j) = ISec(s) THEN Sfcb(d[j].stamps \ {s % NENTREC}) ELSE d[j]
        BY <1>5, <2>3, <3>1 DEF Stripped
      <3>3. IsSfcb(e[j]) /\ e[j].stamps = IF ISec(j) = ISec(s) THEN d[j].stamps \ {s % NENTREC}
                                          ELSE d[j].stamps
        BY <3>1, <3>2, ContentsAre
      <3>4. ASSUME NEW i \in ISlots, ISec(i) = ISec(j), ~ Fourth(i)
            PROVE  i % NENTREC \in e[j].stamps <=>
                     i % NENTREC \in found[j].stamps /\ (found[i] # Free \/ i \in F \ {s})
        <4>1. i % NENTREC \in d[j].stamps <=>
                i % NENTREC \in found[j].stamps /\ (found[i] # Free \/ i \in F)
          BY <2>3, <3>4 DEF Converted
        <4>2. CASE i = s
          BY <1>4, <3>3, <3>4, <4>2
        <4>3. CASE i # s
          <5>1. ISec(i) = ISec(s) => i % NENTREC # s % NENTREC
            BY <1>4, <4>3, SamePlace
          <5>2. QED BY <3>3, <3>4, <4>1, <4>3, <5>1
        <4>4. QED BY <4>2, <4>3
      <3>5. QED BY <3>3, <3>4
    <2>4. ASSUME NEW i \in ISlots, NEW k \in ISlots, IsFile(e[i]), e[i] = e[k] PROVE i = k
      <3>1. \A x, y \in ISlots : IsFile(d[x]) /\ d[x] = d[y] => x = y
        BY DEF Converted
      <3>2. \A x \in ISlots : x # l => d[x] # File(l)
        BY <1>3, <3>1, ContentsAre
      <3>3. CASE i = s
        BY <1>5, <1>6, <2>4, <3>2, <3>3
      <3>4. CASE k = s
        BY <1>5, <1>6, <2>4, <3>2, <3>4
      <3>5. CASE i # s /\ k # s
        BY <1>6, <2>4, <3>1, <3>5
      <3>6. QED BY <3>3, <3>4, <3>5
    <2>5. ASSUME NEW k \in ISlots, found[k] = File(k) PROVE \E i \in ISlots : e[i] = File(k)
      <3>1. PICK i \in ISlots : d[i] = File(k)
        BY <2>5 DEF Converted
      <3>2. CASE i = l
        BY <1>3, <1>4, <1>5, <3>1, <3>2, ContentsAre
      <3>3. CASE i # l
        BY <1>6, <3>1, <3>3, ContentsAre
      <3>4. QED BY <3>2, <3>3
    <2>6. F \ {s} \in SUBSET FreeIn(found)
      BY <1>1
    <2>7. QED BY <1>7, <2>1, <2>2, <2>3, <2>4, <2>5, <2>6 DEF Converted
  <1>9. LastSlots(e, Q)
    <2>1. SUFFICES ASSUME NEW j \in ISlots, Fourth(j), ~ IsSfcb(found[j])
                   PROVE  e[j] = IF j \in Q THEN Sfcb({}) ELSE found[j]
      BY DEF LastSlots
    <2>2. CASE j = l
      BY <1>5, <2>2 DEF Passing
    <2>3. CASE j # l
      <3>1. j # s /\ (j \in Q <=> j \in P) /\ d[j] = IF j \in P THEN Sfcb({}) ELSE found[j]
        BY <1>4, <2>1, <2>3 DEF Passing, LastSlots
      <3>2. CASE j \in P
        <4>1. d[j].stamps \ {s % NENTREC} = {}
          BY <3>1, <3>2, ContentsAre
        <4>2. QED BY <1>5, <2>3, <3>1, <3>2, <4>1
      <3>3. CASE j \notin P
        BY <1>5, <2>1, <2>3, <3>1, <3>3 DEF Stripped
      <3>4. QED BY <3>2, <3>3
    <2>4. QED BY <2>2, <2>3
  <1>10. QED BY <1>8, <1>9

(* What pass 2 finds at a record: the disk is what is coming, and the last *)
(* slot of the record is one it has not come past.                         *)
LEMMA BuildIs ==
  ASSUME IDInv, ipc = "build", lastslot <= DRM
  PROVE  /\ lastslot \in ISlots /\ Fourth(lastslot) /\ ISec(lastslot) = irec
         /\ Coming = ondisk /\ Converted(ondisk, freebm) /\ LastSlots(ondisk, PastSlots)
         /\ lastslot \notin PastSlots
         /\ \A i \in ISlots : ISec(i) = irec => Record(irec)[i] = ondisk[i]
  <1>1. irec \in Nat /\ ITypes
    BY DEF IDInv, ITypes
  <1>2. lastslot = Last(irec)
    BY DEF lastslot, Last
  <1>3. lastslot \in Nat /\ Fourth(lastslot) /\ ISec(lastslot) = irec
    BY <1>1, <1>2, SlotArithmetic
  <1>4. lastslot \in ISlots
    BY <1>3, InitDirAssumption DEF ISlots
  <1>5. Coming = ondisk
    BY <1>1, ComingIs
  <1>6. Converted(ondisk, freebm) /\ LastSlots(ondisk, PastSlots)
    BY <1>5 DEF IDInv, Converting
  <1>7. lastslot \notin PastSlots
    BY <1>1, <1>3 DEF PastSlots, Past
  <1>8. \A i \in ISlots : ISec(i) = irec => Record(irec)[i] = ondisk[i]
    BY DEF Record, Within
  <1>9. QED BY <1>3, <1>4, <1>5, <1>6, <1>7, <1>8

LEMMA LowestFree ==
  ASSUME freebm \in SUBSET ISlots, freebm # {}
  PROVE  freeslot \in freebm
  <1> DEFINE R == OpToRel(<, Nat)
  <1>1. IsWellFoundedOn(R, Nat)
    BY NatLessThanWellFounded
  <1>2. R = {ss \in Nat \X Nat : ss[1] < ss[2]}
    BY Zenon DEF R, OpToRel
  <1> HIDE DEF R
  <1>3. freebm \in SUBSET Nat
    BY InitDirAssumption DEF ISlots
  <1>4. PICK x \in freebm : \A y \in freebm : ~ (<<y, x>> \in R)
    BY <1>1, <1>3, WFMin
  <1>5. \A y \in freebm : x <= y
    <2>1. TAKE y \in freebm
    <2>2. ~ (y < x)
      BY <1>2, <1>3, <1>4
    <2>3. QED BY <1>3, <2>2
  <1>6. QED BY <1>5 DEF freeslot

(* The record is come past when it stays and when it is to be rewritten.   *)
LEMMA RecordPast ==
  ASSUME irec \in Nat, ipc = "build", lastslot \in ISlots, Fourth(lastslot), ISec(lastslot) = irec,
         \/ ipc' = "build" /\ irec' = irec + 1
         \/ ipc' = "write" /\ irec' = irec
  PROVE  Passing(PastSlots, PastSlots', lastslot)
  <1>1. SUFFICES ASSUME NEW j \in ISlots, Fourth(j)
                 PROVE  j \in PastSlots' <=> j \in PastSlots \/ j = lastslot
    BY DEF Passing
  <1>2. ISec(j) \in Nat /\ j = Last(ISec(j)) /\ lastslot = Last(irec)
    BY <1>1, SlotArithmetic
  <1>3. ISec(j) = irec <=> j = lastslot
    BY <1>2
  <1>4. Past(j)' <=> ISec(j) < irec \/ ISec(j) = irec
    BY <1>2 DEF Past
  <1>5. Past(j) <=> ISec(j) < irec
    BY DEF Past
  <1>6. QED BY <1>1, <1>3, <1>4, <1>5 DEF PastSlots

(* A step of pass 2 preserves the invariant when what is coming does.      *)
LEMMA Converts ==
  ASSUME IDInv, NEW d, d = Coming', Converted(d, freebm'), LastSlots(d, PastSlots'),
         UNCHANGED found, ipc' \in {"build", "write"}, irec' \in Nat,
         ondisk' \in [ISlots -> Contents],
         \A k \in ISlots : found[k] = File(k) => \E i \in ISlots : ondisk'[i] = File(k)
  PROVE  IDInv'
  <1>1. ITypes'
    BY DEF IDInv, ITypes
  <1>2. Counting' /\ NoneLost' /\ Finished'
    BY DEF Counting, NoneLost, Finished
  <1>3. Converted(Coming', freebm') /\ LastSlots(Coming', PastSlots')
    OBVIOUS
  <1>4. Converting'
    BY <1>3 DEF Converting, Converted, LastSlots, FreeIn
  <1>5. QED BY <1>1, <1>2, <1>4 DEF IDInv

LEMMA KeptStep ==
  ASSUME IDInv, ipc = "build", lastslot <= DRM, IsSfcb(ondisk[lastslot]), Kept, UNCHANGED found
  PROVE  IDInv'
  <1>1. irec \in Nat /\ ITypes /\ NoneLost /\ ondisk \in [ISlots -> Contents]
    BY DEF IDInv, ITypes
  <1>2. irec' = irec + 1 /\ UNCHANGED <<ondisk, ipc, rec, freebm>>
    BY DEF Kept
  <1>3. Passing(PastSlots, PastSlots', lastslot)
    BY <1>1, <1>2, BuildIs, RecordPast
  <1>4. Coming' = ondisk
    BY <1>1, <1>2 DEF Coming
  <1>5. \A j \in ISlots : Fourth(j) /\ ~ IsSfcb(found[j]) => j # lastslot
    <2>1. IsSfcb(found[lastslot]) \/ found[lastslot] = ondisk[lastslot]
      BY BuildIs DEF LastSlots
    <2>2. QED BY <2>1
  <1>6. LastSlots(ondisk, PastSlots')
    BY <1>3, <1>5, BuildIs DEF LastSlots, Passing
  <1>7. QED BY <1>1, <1>2, <1>4, <1>6, BuildIs, Converts DEF NoneLost

LEMMA ReservedStep ==
  ASSUME IDInv, ipc = "build", lastslot <= DRM, ondisk[lastslot] = Free,
         rec' = Reserved(Record(irec)), ipc' = "write", UNCHANGED <<ondisk, irec, freebm, found>>
  PROVE  IDInv'
  <1>1. irec \in Nat /\ ITypes /\ NoneLost /\ ondisk \in [ISlots -> Contents]
    BY DEF IDInv, ITypes
  <1>2. Passing(PastSlots, PastSlots', lastslot)
    BY <1>1, BuildIs, RecordPast
  <1>3. PICK d : d = [ondisk EXCEPT ![lastslot] = Sfcb({})]
    OBVIOUS
  <1>4. Coming' = d
    <2>1. \A i \in ISlots : ISec(i) = irec =>
            rec'[i] = IF i = lastslot THEN Sfcb({}) ELSE ondisk[i]
      BY DEF Reserved, Record, Within
    <2>2. Coming' = [i \in ISlots |-> IF ISec(i) = irec THEN rec'[i] ELSE ondisk[i]]
      BY DEF Coming
    <2>3. Coming' = [i \in ISlots |-> IF i = lastslot THEN Sfcb({}) ELSE ondisk[i]]
      BY <2>1, <2>2, BuildIs
    <2>4. QED BY <1>1, <1>3, <2>3, BuildIs
  <1>5. Converted(d, freebm) /\ LastSlots(d, PastSlots')
    BY <1>1, <1>2, <1>3, BuildIs, ReservedIs
  <1>6. QED BY <1>1, <1>4, <1>5, Converts DEF NoneLost

(* A file's entry is in its new slot before the last slot is given up.     *)
LEMMA MovedStep ==
  ASSUME IDInv, ipc = "build", lastslot <= DRM, IsFile(ondisk[lastslot]),
         Moved(Record(irec)), ipc' = "write", UNCHANGED <<irec, found>>
  PROVE  IDInv'
  <1> DEFINE l == lastslot
             s == freeslot
             b == Record(irec)
  <1>1. irec \in Nat /\ ITypes /\ NoneLost /\ ondisk \in [ISlots -> Contents]
    BY DEF IDInv, ITypes
  <1>2. /\ l \in ISlots /\ Fourth(l) /\ ISec(l) = irec /\ l \notin PastSlots
        /\ Converted(ondisk, freebm) /\ LastSlots(ondisk, PastSlots)
        /\ \A i \in ISlots : ISec(i) = irec => b[i] = ondisk[i]
    BY BuildIs
  <1>3. Passing(PastSlots, PastSlots', l)
    BY <1>1, <1>2, RecordPast
  <1>4. freebm # {} /\ freebm' = freebm \ {s} /\ freebm \in SUBSET FreeIn(found)
    BY <1>2 DEF Moved, Converted
  <1>5. s \in freebm
    BY <1>4, LowestFree DEF FreeIn
  <1>6. s \in ISlots /\ ~ Fourth(s) /\ s # l
    BY <1>2, <1>4, <1>5 DEF FreeIn
  <1>7. \A i \in ISlots : Fourth(i) => i = Last(ISec(i))
    BY SlotArithmetic
  <1>8. ondisk[l] = File(l) /\ ~ IsSfcb(ondisk[l])
    <2>1. ondisk[l] \in Contents
      BY <1>1, <1>2
    <2>2. ~ IsSfcb(ondisk[l])
      BY <2>1, ContentsAre
    <2>3. QED BY <1>1, <1>2, <2>2, NotPast, ContentsAre
  <1>9. PICK d : d = MovedTo(ondisk, s, l)
    OBVIOUS
  <1>10. /\ d[s] = File(l) /\ d[l] = Sfcb({})
         /\ \A i \in ISlots : i # s /\ i # l =>
               d[i] = IF Stripped(ondisk, s, i) THEN Sfcb(ondisk[i].stamps \ {s % NENTREC}) ELSE ondisk[i]
         /\ d = [i \in ISlots |-> d[i]]
    BY <1>2, <1>6, <1>9 DEF MovedTo
  <1>11. Converted(d, freebm') /\ LastSlots(d, PastSlots')
    <2>1. freebm' = freebm \ {s}
      BY <1>4
    <2>2. Converted(d, freebm \ {s}) /\ LastSlots(d, PastSlots')
      BY <1>1, <1>2, <1>3, <1>5, <1>9, MovedIs
    <2>3. QED BY <2>1, <2>2
  <1>12. /\ Coming' = d
         /\ ondisk' \in [ISlots -> Contents]
         /\ \A i \in ISlots : i # l => ondisk'[i] = ondisk[i] \/ ondisk'[i] = d[i]
         /\ ondisk'[l] = ondisk[l]
    <2>1. Coming' = [i \in ISlots |-> IF ISec(i) = irec THEN rec'[i] ELSE ondisk'[i]]
      BY DEF Coming
    <2>2. CASE ISec(s) = irec
      <3>1. rec' = Reserved(putent(b, s, b[l])) /\ ondisk' = ondisk
        BY <2>2 DEF Moved
      <3>2. \A i \in ISlots : ISec(i) = irec => i \in DOMAIN b
        BY DEF Record, Within
      <3>3. \A i \in ISlots : ISec(i) = irec =>
              rec'[i] = IF i = l THEN Sfcb({}) ELSE putent(b, s, b[l])[i]
        BY <3>1, <3>2 DEF Reserved, putent
      <3>4. \A i \in ISlots : ISec(i) = irec /\ i # l =>
              rec'[i] = IF i = s THEN b[l] ELSE b[i]
        BY <1>2, <1>7, <3>2, <3>3 DEF putent
      <3>5. \A i \in ISlots : ~ Stripped(ondisk, s, i)
        BY <1>2, <1>7, <1>8, <2>2 DEF Stripped
      <3>6. \A i \in ISlots : d[i] = IF i = s THEN File(l) ELSE IF i = l THEN Sfcb({}) ELSE ondisk[i]
        BY <1>10, <3>5
      <3>7. \A i \in ISlots : d[i] = IF ISec(i) = irec THEN rec'[i] ELSE ondisk'[i]
        BY <1>2, <1>6, <1>8, <2>2, <3>1, <3>3, <3>4, <3>6
      <3>8. Coming' = d
        BY <1>10, <2>1, <3>7
      <3>9. QED BY <1>1, <3>1, <3>8
    <2>3. CASE ISec(s) # irec
      <3>1. /\ rec' = Reserved(b)
            /\ ondisk' = [i \in ISlots |-> IF ISec(i) = ISec(s) THEN putent(Record(ISec(s)), s, b[l])[i]
                                           ELSE ondisk[i]]
        BY <2>3 DEF Moved, RecordWritten
      <3>2. \A i \in ISlots : ISec(i) = ISec(s) =>
              /\ i \in DOMAIN Record(ISec(s)) /\ Record(ISec(s))[i] = ondisk[i]
              /\ i # l
        BY <1>2, <2>3 DEF Record, Within
      <3>3. b[l] = File(l)
        BY <1>2, <1>8
      <3>4. \A i \in ISlots : ISec(i) = ISec(s) => ondisk'[i] = d[i]
        <4>1. SUFFICES ASSUME NEW i \in ISlots, ISec(i) = ISec(s) PROVE ondisk'[i] = d[i]
          OBVIOUS
        <4>2. ondisk'[i] = putent(Record(ISec(s)), s, b[l])[i]
          BY <3>1, <4>1
        <4>3. PICK q : q = Record(ISec(s))
          OBVIOUS
        <4>4. i \in DOMAIN q /\ q[i] = ondisk[i] /\ i # l
          BY <3>2, <4>1, <4>3
        <4>5. ondisk'[i] = CASE i = s -> b[l]
                             [] Fourth(i) /\ IsSfcb(q[i]) -> Sfcb(q[i].stamps \ {s % NENTREC})
                             [] OTHER -> q[i]
          BY <4>2, <4>3, <4>4 DEF putent
        <4>6. CASE i = s
          BY <1>6, <1>10, <3>3, <4>5, <4>6
        <4>7. CASE i # s
          <5>1. Stripped(ondisk, s, i) <=> Fourth(i) /\ IsSfcb(q[i])
            BY <4>1, <4>4 DEF Stripped
          <5>2. QED BY <1>10, <4>4, <4>5, <4>7, <5>1
        <4>8. QED BY <4>6, <4>7
      <3>5. \A i \in ISlots : ISec(i) # ISec(s) => ondisk'[i] = ondisk[i] /\ (i # l => d[i] = ondisk[i])
        BY <1>10, <3>1 DEF Stripped
      <3>6. \A i \in ISlots : ISec(i) = irec => rec'[i] = IF i = l THEN Sfcb({}) ELSE ondisk[i]
        BY <1>2, <3>1 DEF Reserved, Record, Within
      <3>7. \A i \in ISlots : d[i] = IF ISec(i) = irec THEN rec'[i] ELSE ondisk'[i]
        BY <1>2, <1>10, <2>3, <3>4, <3>5, <3>6
      <3>8. Coming' = d
        BY <1>10, <2>1, <3>7
      <3>9. \A i \in ISlots : ondisk'[i] \in Contents
        <4>1. \A i \in ISlots : ondisk[i] \in Contents /\ d[i] \in Contents
          BY <1>1, <1>11 DEF Converted
        <4>2. QED BY <3>4, <3>5, <4>1
      <3>10. ondisk' \in [ISlots -> Contents]
        BY <3>1, <3>9
      <3>11. QED BY <1>2, <2>3, <3>4, <3>5, <3>8, <3>10
    <2>4. QED BY <2>2, <2>3
  <1>13. ASSUME NEW k \in ISlots, found[k] = File(k) PROVE \E i \in ISlots : ondisk'[i] = File(k)
    <2>1. PICK i \in ISlots : ondisk[i] = File(k)
      BY <1>1, <1>13 DEF NoneLost
    <2>2. CASE i = l
      BY <1>12, <2>1, <2>2
    <2>3. CASE i # l
      <3>1. i # s
        BY <1>2, <1>5, <2>1, ContentsAre DEF Converted
      <3>2. ~ Stripped(ondisk, s, i)
        BY <2>1, ContentsAre DEF Stripped
      <3>3. d[i] = ondisk[i]
        BY <1>10, <2>3, <3>1, <3>2
      <3>4. QED BY <1>12, <2>1, <2>3, <3>3
    <2>4. QED BY <2>2, <2>3
  <1>14. d = Coming' /\ ipc' \in {"build", "write"} /\ irec' \in Nat /\ UNCHANGED found
         /\ ondisk' \in [ISlots -> Contents]
    BY <1>1, <1>12
  <1>15. QED BY <1>11, <1>13, <1>14, Converts

LEMMA BuildStep == ASSUME IDInv, buildnew PROVE IDInv'
  <1>1. ipc = "build" /\ lastslot <= DRM /\ UNCHANGED found
    BY DEF buildnew
  <1>2. lastslot \in ISlots /\ Record(irec)[lastslot] = ondisk[lastslot]
    BY <1>1, BuildIs
  <1>3. CASE IsSfcb(ondisk[lastslot])
    <2>1. ondisk[lastslot] # Free
      BY <1>3, ContentsAre
    <2>2. Kept
      BY <1>2, <1>3, <2>1 DEF buildnew
    <2>3. QED BY <1>1, <1>3, <2>2, KeptStep
  <1>4. CASE ondisk[lastslot] = Free
    <2>1. ~ IsSfcb(Free)
      BY ContentsAre
    <2>2. /\ rec' = Reserved(Record(irec)) /\ ipc' = "write"
          /\ UNCHANGED <<ondisk, irec, freebm>>
      BY <1>2, <1>4, <2>1 DEF buildnew
    <2>3. QED BY <1>1, <1>4, <2>2, ReservedStep
  <1>5. CASE ~ IsSfcb(ondisk[lastslot]) /\ ondisk[lastslot] # Free
    <2>1. Moved(Record(irec)) /\ ipc' = "write" /\ UNCHANGED irec
      BY <1>2, <1>5 DEF buildnew
    <2>2. ondisk[lastslot] \in Contents
      BY <1>2 DEF IDInv, ITypes
    <2>3. IsFile(ondisk[lastslot])
      BY <1>5, <2>2, ContentsAre
    <2>4. QED BY <1>1, <2>1, <2>3, MovedStep
  <1>6. QED BY <1>3, <1>4, <1>5

LEMMA RewriteStep == ASSUME IDInv, Rewrite PROVE IDInv'
  <1>1. /\ ipc = "write" /\ ipc' = "build" /\ irec' = irec + 1 /\ UNCHANGED <<found, rec, freebm>>
        /\ ondisk' = [i \in ISlots |-> IF ISec(i) = irec THEN rec[i] ELSE ondisk[i]]
    BY DEF Rewrite, RecordWritten
  <1>2. irec \in Nat /\ Converted(Coming, freebm) /\ LastSlots(Coming, PastSlots)
    BY <1>1 DEF IDInv, ITypes, Converting
  <1>3. ondisk' = Coming
    BY <1>1 DEF Coming
  <1>4. Coming' = Coming
    <2>1. Coming' = [i \in ISlots |-> ondisk'[i]]
      BY <1>1 DEF Coming
    <2>2. QED BY <1>1, <1>3, <2>1
  <1>5. PastSlots' = PastSlots
    <2>1. \A j \in ISlots : ISec(j) < irec + 1 <=> ISec(j) < irec \/ ISec(j) = irec
      BY <1>2, SlotArithmetic
    <2>2. QED BY <1>1, <2>1 DEF PastSlots, Past
  <1>6. PICK d : d = Coming
    OBVIOUS
  <1>7. /\ Converted(d, freebm') /\ LastSlots(d, PastSlots') /\ d = Coming' /\ d = ondisk'
    BY <1>1, <1>2, <1>3, <1>4, <1>5, <1>6
  <1>8. /\ ondisk' \in [ISlots -> Contents]
        /\ \A k \in ISlots : found[k] = File(k) => \E i \in ISlots : ondisk'[i] = File(k)
    BY <1>7 DEF Converted
  <1>9. irec' \in Nat
    BY <1>1, <1>2
  <1>10. QED BY <1>1, <1>7, <1>8, <1>9, Converts

(* A program that has come to the end has come past every last slot.       *)
LEMMA EndStep == ASSUME IDInv, buildends PROVE IDInv'
  <1>1. /\ ipc = "build" /\ ipc' = "done" /\ UNCHANGED <<ondisk, found, irec, rec, freebm>>
        /\ irec = nrec \/ lastslot > DRM
    BY DEF buildends
  <1>2. irec \in Nat /\ ITypes /\ Converted(Coming, freebm) /\ LastSlots(Coming, PastSlots)
    BY <1>1 DEF IDInv, ITypes, Converting
  <1>3. ASSUME NEW j \in ISlots, Fourth(j) PROVE ISec(j) < irec
    <2>1. ISec(j) \in Nat /\ ISec(j) < nrec /\ j = Last(ISec(j)) /\ j \in Nat /\ j <= DRM
      BY <1>3, SlotArithmetic, InitDirAssumption DEF ISlots
    <2>2. CASE irec = nrec
      BY <2>1, <2>2
    <2>3. CASE lastslot > DRM
      <3>1. Last(irec) > DRM /\ Last(irec) \in Nat
        BY <1>2, <2>3, SlotArithmetic DEF lastslot, Last
      <3>2. irec <= ISec(j) => Last(irec) <= j
        BY <1>2, <2>1, SlotArithmetic
      <3>3. QED BY <1>2, <2>1, <3>1, <3>2, InitDirAssumption
    <2>4. QED BY <1>1, <2>2, <2>3
  <1>4. ITypes' /\ Counting' /\ NoneLost'
    BY <1>1 DEF IDInv, ITypes, Counting, NoneLost
  <1>5. Finished'
    BY <1>1, <1>3 DEF Finished, Past
  <1>6. Coming' = Coming /\ PastSlots' = PastSlots
    BY <1>1 DEF Coming, PastSlots, Past
  <1>7. Converting'
    BY <1>1, <1>2, <1>6 DEF Converting, Converted, LastSlots, FreeIn
  <1>8. QED BY <1>4, <1>5, <1>7 DEF IDInv

LEMMA InitDirStep == ASSUME IDInv, [InitDirNext]_initvars PROVE IDInv'
  <1>1. CASE DiskFails
    BY <1>1 DEF DiskFails, IDInv, ITypes, Counting, Converting, NoneLost, Finished
  <1>2. CASE UNCHANGED initvars
    <2>1. UNCHANGED <<ondisk, found, ipc, irec, rec, freebm>>
      BY <1>2 DEF initvars
    <2>2. Coming' = Coming /\ PastSlots' = PastSlots
      BY <2>1 DEF Coming, PastSlots, Past
    <2>3. Converting'
      BY <2>1, <2>2 DEF IDInv, Converting, Converted, LastSlots, FreeIn
    <2>4. QED BY <2>1, <2>3 DEF IDInv, ITypes, Counting, NoneLost, Finished, Past
  <1>3. QED BY <1>1, <1>2, CountStep, DecideStep, BuildStep, RewriteStep, EndStep DEF InitDirNext

(* A file that was moved has no stamps: its new slot's are gone, and a     *)
(* file that stayed is where the SFCB that was there has its own.          *)
LEMMA StampsAreOwn ==
  ASSUME ITypes, NEW F, Converted(ondisk, F), LastSlots(ondisk, ISlots),
         NEW k \in ISlots, found[k] = File(k), NEW i \in ISlots, ondisk[i] = File(k)
  PROVE  Stamped(ondisk, i) <=> (i = k /\ Stamped(found, i))
  <1>1. \A j \in ISlots : Fourth(j) => IsSfcb(ondisk[j])
    BY ContentsAre DEF Converted, LastSlots
  <1>2. ~ Fourth(i)
    <2>1. IsFile(ondisk[i]) /\ ondisk[i] \in Contents
      BY ContentsAre DEF ITypes
    <2>2. QED BY <1>1, <2>1, ContentsAre
  <1>3. \A j \in ISlots : Fourth(j) /\ ~ IsSfcb(found[j]) => ondisk[j].stamps = {}
    BY ContentsAre DEF LastSlots
  <1>4. i # k => found[i] = Free /\ i \notin F
    <2>1. ASSUME i # k PROVE found[i] = Free /\ i \notin F
      <3>1. found[i] \in Finds(i)
        BY DEF ITypes
      <3>2. found[i] # File(i)
        BY <1>2, <2>1, ContentsAre DEF Converted
      <3>3. i \notin F
        BY ContentsAre DEF Converted
      <3>4. QED BY <1>2, <3>1, <3>2, <3>3 DEF Finds
    <2>2. QED BY <2>1
  <1>5. i = k => found[i] # Free
    BY ContentsAre
  <1>6. ASSUME NEW j \in ISlots, Fourth(j), ISec(j) = ISec(i)
        PROVE  i % NENTREC \in ondisk[j].stamps
                 <=> i = k /\ IsSfcb(found[j]) /\ i % NENTREC \in found[j].stamps
    <2>1. CASE IsSfcb(found[j])
      <3>1. i % NENTREC \in ondisk[j].stamps <=>
              i % NENTREC \in found[j].stamps /\ (found[i] # Free \/ i \in F)
        BY <1>2, <1>6, <2>1 DEF Converted
      <3>2. QED BY <1>4, <1>5, <2>1, <3>1
    <2>2. CASE ~ IsSfcb(found[j])
      BY <1>3, <1>6, <2>2
    <2>3. QED BY <2>1, <2>2
  <1>7. QED BY <1>1, <1>6 DEF Stamped

LEMMA ConversionIsSafe == IDInv => Preserved
  <1>1. SUFFICES ASSUME IDInv PROVE Preserved
    OBVIOUS
  <1> DEFINE files == {found[i] : i \in {j \in ISlots : IsFile(found[j])}}
  <1>2. ITypes /\ NoneLost
    BY <1>1 DEF IDInv
  <1>3. ASSUME NEW f \in files PROVE \E k \in ISlots : found[k] = File(k) /\ f = File(k)
    <2>1. PICK i \in ISlots : IsFile(found[i]) /\ f = found[i]
      BY <1>3
    <2>2. found[i] \in Finds(i)
      BY <1>2 DEF ITypes
    <2>3. \A e \in Sfcbs : ~ IsFile(e)
      BY ContentsAre DEF Sfcbs
    <2>4. found[i] = File(i)
      BY <2>1, <2>2, <2>3, ContentsAre DEF Finds
    <2>5. QED BY <2>1, <2>4
  <1>4. \A f \in files : At(f) # {}
    <2>1. TAKE f \in files
    <2>2. PICK k \in ISlots : found[k] = File(k) /\ f = File(k)
      BY <1>3
    <2>3. PICK i \in ISlots : ondisk[i] = f
      BY <1>2, <2>2 DEF NoneLost
    <2>4. QED BY <2>3 DEF At
  <1>5. ipc \in {"count", "refused"} => ondisk = found
    BY <1>1 DEF IDInv, Counting
  <1>6. ASSUME ipc = "done"
        PROVE  /\ \A i \in ISlots : Fourth(i) => IsSfcb(ondisk[i])
               /\ \A f \in files : \E i \in ISlots :
                    /\ At(f) = {i}
                    /\ Stamped(ondisk, i) <=> (i = f.of /\ Stamped(found, i))
    <2>1. Converted(ondisk, freebm) /\ LastSlots(ondisk, PastSlots)
      <3>1. Coming = ondisk
        BY <1>2, <1>6, ComingIs
      <3>2. Converted(Coming, freebm) /\ LastSlots(Coming, PastSlots)
        BY <1>1, <1>6 DEF IDInv, Converting
      <3>3. QED BY <3>1, <3>2
    <2>2. LastSlots(ondisk, ISlots)
      BY <1>1, <1>6, <2>1 DEF LastSlots, IDInv, Finished, PastSlots
    <2>3. \A i \in ISlots : Fourth(i) => IsSfcb(ondisk[i])
      BY <2>1, <2>2, ContentsAre DEF Converted, LastSlots
    <2>4. ASSUME NEW f \in files
          PROVE  \E i \in ISlots : /\ At(f) = {i}
                                   /\ Stamped(ondisk, i) <=> (i = f.of /\ Stamped(found, i))
      <3>1. PICK k \in ISlots : found[k] = File(k) /\ f = File(k)
        BY <1>3, <2>4
      <3>2. PICK i \in ISlots : ondisk[i] = f
        BY <1>2, <3>1 DEF NoneLost
      <3>3. At(f) = {i}
        BY <2>1, <3>1, <3>2, ContentsAre DEF At, Converted
      <3>4. f.of = k
        BY <3>1, ContentsAre
      <3>5. Stamped(ondisk, i) <=> (i = k /\ Stamped(found, i))
        BY <1>2, <2>1, <2>2, <3>1, <3>2, StampsAreOwn
      <3>6. QED BY <3>3, <3>4, <3>5
    <2>5. QED BY <2>3, <2>4
  <1>7. QED BY <1>4, <1>5, <1>6 DEF Preserved

(* Wherever the power fails or the disk refuses, every file is in some     *)
(* slot; a conversion that ends has left each in exactly one, and stamps   *)
(* only to those that stayed; one that is refused has changed nothing.     *)
THEOREM ConversionPreserves == InitDirSpec => []Preserved
  <1>1. InitDirInit => IDInv
    BY InitDirStarts
  <1>2. IDInv /\ [InitDirNext]_initvars => IDInv'
    BY InitDirStep
  <1>3. QED BY <1>1, <1>2, ConversionIsSafe, PTL DEF InitDirSpec

-----------------------------------------------------------------------------
(* The directory as the BDOS edits it: module Files.                       *)

Sites == {"user", "scan", "refused"} \cup AtLock \cup Asking

CallTypes == [op : Ops \cup {"none"}, name : Names \cup {Gone}, new : Names \cup {Gone},
              stage : {"none", "exists", "scan", "login"}, pos : 0 .. NENT, gone : 0 .. NBLK]

FcbTypes == [name : Names \cup {Gone}, blk : 0 .. NBLK, dirty : BOOLEAN]

(* The entry a call is about is in its buffer.                             *)
InHand(a, c) == a \in {"enter", "write", "wask"} \/ (a = "refused" /\ c.op # "write")

Placed(a, c, b) ==
  /\ InHand(a, c) => c.pos \in Entries /\ b.rec = Rec(c.pos)
  /\ a \in {"read", "rask"} => c.pos \in Entries
  /\ a = "alloc" => c.op = "write"

FTypes == /\ TypeOK
          /\ call \in [Procs -> CallTypes]
          /\ \A p \in Procs : Placed(at[p], call[p], buf[p])

-----------------------------------------------------------------------------
(* A program given up while it has part of the directory in hand.          *)
GivenUp == (Abort /\ at[pcur] \in {"rask", "wask"}) \/ (WriteRefused /\ asks)

AtEase(a, c) == a \in {"user", "scan", "login", "alloc"}
                  \/ (a = "enter" /\ c.op \in {"truncate", "close"})

Writing(a) == a \in {"write", "wask"}

Pending(r) == \E q \in Procs : Writing(at[q]) /\ Rec(call[q].pos) = r

AsOnDisk(b) == \A i \in Members(b.rec) : b.data[i] = disk[i]

FreshInv ==
  /\ \A p \in fresh : AtEase(at[p], call[p]) /\ buf[p].rec # -1 =>
       AsOnDisk(buf[p]) \/ Pending(buf[p].rec)
  /\ \A p \in Procs : at[p] = "dask" => buf[p].rec = -1

-----------------------------------------------------------------------------
Edits == {"make", "rename", "delete", "truncate", "close"}

(* Who edits the directory and asks the operator is the only one to edit.  *)
OneAsker == \A c \in Casts : \A p, q \in Procs :
              p # q /\ c[p].asks /\ c[p].ops \cap Edits # {} => c[q].ops \cap Edits = {}

AloneInv ==
  /\ \A p \in Procs : call[p].op \in Edits => call[p].op \in cast[p].ops
  /\ \A p \in Procs : InHand(at[p], call[p]) => call[p].op \in Edits
  /\ \A p \in Procs : at[p] \in Asking => cast[p].asks
  /\ \A p \in Procs : at[p] = "user" => call[p] = NoCall
  /\ \A p \in Procs \ {pcur} : at[p] \in {"user"} \cup Asking \cup AtLock
  /\ \A p \in Procs \ {pcur} : call[p].op \in Edits => cast[p].asks
  /\ lk \notin {-1, pcur} => at[lk] = "wask"
  /\ lk = pcur => \/ at[pcur] \in {"scan", "read"} /\ call[pcur].stage = "login"
                  \/ InHand(at[pcur], call[pcur]) /\ at[pcur] # "enter"

EditInv ==
  \A p \in Procs : InHand(at[p], call[p]) =>
    \A i \in Members(buf[p].rec) \ {call[p].pos} : buf[p].data[i] = disk[i]

-----------------------------------------------------------------------------
(* Types.                                                                  *)
LEMMA RecOfEntry ==
  ASSUME NEW i \in Entries
  PROVE  /\ Rec(i) \in Records /\ i \in Members(Rec(i)) /\ Rec(i) \in Int /\ Rec(i) # -1
         /\ i \in Int
  <1>1. i \in Nat /\ PERREC \in Nat \ {0}
    BY FilesAssumption DEF Entries
  <1>2. i \div PERREC \in Nat
    BY <1>1
  <1>3. QED BY <1>1, <1>2 DEF Rec, Records, Members

LEMMA ReadBuf ==
  ASSUME FTypes, NEW r \in Records
  PROVE  [rec |-> r, data |-> [i \in Members(r) |-> disk[i]]] \in Bufs
  <1>1. [i \in Members(r) |-> disk[i]] \in [Members(r) -> DirEntries]
    BY DEF FTypes, TypeOK, Members
  <1>2. QED BY <1>1 DEF Bufs

(* The record of a buffer that has one.                                    *)
LEMMA BufShape ==
  ASSUME NEW b \in Bufs, NEW i \in Entries, b.rec = Rec(i)
  PROVE  /\ b = [rec |-> Rec(i), data |-> b.data]
         /\ b.data \in [Members(Rec(i)) -> DirEntries]
         /\ i \in Members(Rec(i))
  <1>1. Rec(i) # -1 /\ i \in Members(Rec(i))
    BY RecOfEntry
  <1>2. b # NoBuf
    BY <1>1 DEF NoBuf
  <1>3. PICK r \in Records : b \in [rec : {r}, data : [Members(r) -> DirEntries]]
    BY <1>2 DEF Bufs
  <1>4. r = Rec(i)
    BY <1>3
  <1>5. QED BY <1>1, <1>3, <1>4

LEMMA EditedBuf ==
  ASSUME NEW b \in Bufs, NEW i \in Entries, b.rec = Rec(i), NEW e \in DirEntries
  PROVE  /\ [b EXCEPT !.data[i] = e] \in Bufs
         /\ [b EXCEPT !.data[i] = e].rec = Rec(i)
         /\ [b EXCEPT !.data[i] = e].data = [b.data EXCEPT ![i] = e]
  <1> DEFINE d == [b.data EXCEPT ![i] = e]
  <1>1. /\ b = [rec |-> Rec(i), data |-> b.data]
        /\ b.data \in [Members(Rec(i)) -> DirEntries]
    BY BufShape
  <1>2. d \in [Members(Rec(i)) -> DirEntries]
    BY <1>1
  <1>3. [b EXCEPT !.data[i] = e] = [rec |-> Rec(i), data |-> d]
    BY <1>1
  <1>4. Rec(i) \in Records
    BY RecOfEntry
  <1> HIDE DEF d
  <1>5. [rec |-> Rec(i), data |-> d] \in Bufs
    BY <1>2, <1>4 DEF Bufs
  <1>6. QED BY <1>3, <1>5 DEF d

LEMMA StoredTypes ==
  ASSUME FTypes, InHand(at[pcur], me)
  PROVE  Stored \in [Entries -> DirEntries]
  <1>1. /\ me.pos \in Entries /\ buf[pcur] \in Bufs /\ buf[pcur].rec = Rec(me.pos)
        /\ disk \in [Entries -> DirEntries]
    BY DEF FTypes, TypeOK, Placed, me
  <1>2. buf[pcur].data \in [Members(Rec(me.pos)) -> DirEntries]
    BY <1>1, BufShape
  <1>3. ASSUME NEW i \in Entries, Rec(i) = Rec(me.pos) PROVE buf[pcur].data[i] \in DirEntries
    BY <1>2, <1>3 DEF Members
  <1>4. QED BY <1>1, <1>3 DEF Stored

-----------------------------------------------------------------------------
SharedTypes(l, d, v, h, g, r, f) ==
  /\ l \in Procs \cup {-1}
  /\ d \in [Entries -> DirEntries]
  /\ v \subseteq 0 .. NBLK
  /\ h \in Entries
  /\ g \in BOOLEAN /\ r \in BOOLEAN
  /\ f \subseteq Procs

Shared == SharedTypes(lk, disk, alv, hiwater, logged, ro, fresh)

LEMMA FFacts ==
  ASSUME FTypes
  PROVE  /\ pcur \in Procs /\ Shared /\ me \in CallTypes /\ at[pcur] \in Sites
         /\ buf[pcur] \in Bufs /\ fcb[pcur] \in FcbTypes
         /\ Placed(at[pcur], me, buf[pcur])
         /\ at = [at EXCEPT ![pcur] = at[pcur]] /\ call = [call EXCEPT ![pcur] = me]
         /\ buf = [buf EXCEPT ![pcur] = buf[pcur]] /\ fcb = [fcb EXCEPT ![pcur] = fcb[pcur]]
  BY DEF FTypes, TypeOK, Shared, SharedTypes, me, FcbTypes, Sites

(* A step moves the running process only.                                  *)
Mine == /\ at' = [at EXCEPT ![pcur] = at'[pcur]]
        /\ call' = [call EXCEPT ![pcur] = call'[pcur]]
        /\ buf' = [buf EXCEPT ![pcur] = buf'[pcur]]
        /\ fcb' = [fcb EXCEPT ![pcur] = fcb'[pcur]]

LEMMA Moves ==
  ASSUME FTypes, UNCHANGED <<cast, pcur>>, Mine, Shared',
         at'[pcur] \in Sites, call'[pcur] \in CallTypes, buf'[pcur] \in Bufs,
         fcb'[pcur] \in FcbTypes, Placed(at'[pcur], call'[pcur], buf'[pcur])
  PROVE  FTypes'
  <1>1. /\ pcur \in Procs /\ at \in [Procs -> Sites] /\ call \in [Procs -> CallTypes]
        /\ buf \in [Procs -> Bufs] /\ fcb \in [Procs -> FcbTypes] /\ cast \in Casts
    BY DEF FTypes, TypeOK, Sites, FcbTypes
  <1>2. /\ at' \in [Procs -> Sites] /\ call' \in [Procs -> CallTypes]
        /\ buf' \in [Procs -> Bufs] /\ fcb' \in [Procs -> FcbTypes]
    BY <1>1 DEF Mine
  <1>3. ASSUME NEW p \in Procs PROVE Placed(at'[p], call'[p], buf'[p])
    <2>1. CASE p = pcur
      BY <2>1
    <2>2. CASE p # pcur
      BY <1>1, <2>2 DEF FTypes, Mine
    <2>3. QED BY <2>1, <2>2
  <1>4. ASSUME NEW p \in Procs PROVE call'[p].pos \in 0 .. NENT /\ call'[p].gone \in 0 .. NBLK
    BY <1>2 DEF CallTypes
  <1>5. TypeOK'
    BY <1>1, <1>2, <1>4 DEF TypeOK, Shared, SharedTypes, Sites, FcbTypes
  <1>6. QED BY <1>2, <1>3, <1>5 DEF FTypes

(* The running process stands here and its call has become this.           *)
Stands(a, c) == at' = [at EXCEPT ![pcur] = a] /\ call' = [call EXCEPT ![pcur] = c]

LEMMA Standing ==
  ASSUME FTypes, NEW a, NEW c, Stands(a, c)
  PROVE  /\ at'[pcur] = a /\ call'[pcur] = c
         /\ at' = [at EXCEPT ![pcur] = at'[pcur]] /\ call' = [call EXCEPT ![pcur] = call'[pcur]]
  BY DEF FTypes, TypeOK, Stands

LEMMA KeepsTypes ==
  ASSUME FTypes
  PROVE  /\ UNCHANGED buf => buf'[pcur] = buf[pcur] /\ buf' = [buf EXCEPT ![pcur] = buf'[pcur]]
         /\ UNCHANGED fcb => fcb'[pcur] = fcb[pcur] /\ fcb' = [fcb EXCEPT ![pcur] = fcb'[pcur]]
         /\ dirdrop => buf'[pcur] = NoBuf /\ buf' = [buf EXCEPT ![pcur] = buf'[pcur]]
         /\ \A a : Goto(a) /\ UNCHANGED call => Stands(a, me)
         /\ \A a, c : Step(c, a) => Stands(a, c)
  <1>1. call = [call EXCEPT ![pcur] = me]
    BY FFacts
  <1>2. QED BY <1>1 DEF FTypes, TypeOK, dirdrop, Goto, Step, Stands

LEMMA Constants ==
  /\ NoCall \in CallTypes /\ NoBuf \in Bufs /\ NoFile \in FcbTypes
  /\ 0 \in 0 .. NENT /\ 0 \in 0 .. NBLK
  /\ NENT \in Nat \ {0} /\ NBLK \in Nat
  BY FilesAssumption DEF NoCall, CallTypes, Ops, NoBuf, Bufs, NoFile, FcbTypes

LEMMA ScanTops ==
  ASSUME FTypes
  PROVE  /\ ScanTop \in Entries
         /\ Scanning => me.pos \in Entries
  <1>1. hiwater \in Entries /\ me.pos \in 0 .. NENT /\ NENT - 1 \in Entries
    BY FFacts, Constants DEF Shared, SharedTypes, CallTypes, Entries
  <1>2. QED BY <1>1, Constants DEF ScanTop, Scanning, Entries

LEMMA NextTypes ==
  ASSUME FTypes, me.pos \in Entries
  PROVE  NextEntry \in CallTypes
  <1>1. me.pos + 1 \in 0 .. NENT /\ me \in CallTypes
    BY FFacts, Constants DEF Entries
  <1>2. PICK k \in 0 .. NENT : k = me.pos + 1
    BY <1>1
  <1>3. NextEntry = [me EXCEPT !.pos = k]
    BY <1>2 DEF NextEntry
  <1>4. QED BY <1>1, <1>3 DEF CallTypes

LEMMA NextTyped ==
  ASSUME FTypes, UNCHANGED <<cast, pcur>>, NEW a \in Sites, NEW c \in CallTypes, Stands(a, c),
         buf' = [buf EXCEPT ![pcur] = buf'[pcur]], buf'[pcur] \in Bufs,
         fcb' = [fcb EXCEPT ![pcur] = fcb'[pcur]], fcb'[pcur] \in FcbTypes,
         Placed(a, c, buf'[pcur]), Shared'
  PROVE  FTypes'
  BY Standing, Moves DEF Mine

LEMMA SiteTypes ==
  ASSUME FTypes, NEW op \in Ops, NEW c, c.op = op
  PROVE  /\ Site(op) \in {"scan", "alloc", "data", "refused"}
         /\ ~ InHand(Site(op), c) /\ (Site(op) = "alloc" => op = "write")
  BY DEF Site, Tested, InHand

LEMMA BeginTypes ==
  ASSUME FTypes, NEW op \in Ops, NEW n \in Names, NEW m \in Names, Begin(op, n, m)
  PROVE  FTypes'
  <1> DEFINE c == [NoCall EXCEPT !.op = op, !.name = n, !.new = m, !.stage = Stage(op)]
             a == IF logged THEN Site(op) ELSE "login"
  <1>1. c \in CallTypes /\ c.op = op
    BY Constants DEF CallTypes, NoCall, Stage
  <1>2. a \in Sites /\ ~ InHand(a, c) /\ a \notin {"read", "rask"} /\ (a = "alloc" => c.op = "write")
    BY <1>1, SiteTypes DEF Sites, AtLock, InHand
  <1>3. Step(c, a) /\ UNCHANGED <<cast, pcur, lk, dirVars, fresh, fcb>>
        /\ (UNCHANGED buf \/ dirdrop)
    BY DEF Begin
  <1> HIDE DEF c, a
  <1>4. Stands(a, c) /\ buf' = [buf EXCEPT ![pcur] = buf'[pcur]] /\ buf'[pcur] \in Bufs
        /\ fcb' = [fcb EXCEPT ![pcur] = fcb'[pcur]] /\ fcb'[pcur] \in FcbTypes
    BY <1>3, KeepsTypes, FFacts, Constants
  <1>5. Shared'
    BY <1>3, FFacts DEF Shared, dirVars
  <1>6. Placed(a, c, buf'[pcur])
    BY <1>2 DEF Placed
  <1>7. QED BY <1>1, <1>2, <1>3, <1>4, <1>5, <1>6, NextTyped

LEMMA QuitTypes ==
  ASSUME FTypes, Quit \/ Reset
  PROVE  FTypes'
  <1>1. /\ UNCHANGED <<cast, pcur, at, call, lk, disk, alv, hiwater, fresh>>
        /\ UNCHANGED buf \/ dirdrop
        /\ fcb' = fcb \/ fcb' = [fcb EXCEPT ![pcur] = NoFile]
        /\ logged' \in BOOLEAN /\ ro' \in BOOLEAN /\ at[pcur] = "user"
    BY FFacts DEF Quit, Reset, dirVars, Shared, SharedTypes
  <1>2. Stands(at[pcur], me)
    BY <1>1, FFacts DEF Stands
  <1>3. buf' = [buf EXCEPT ![pcur] = buf'[pcur]] /\ buf'[pcur] \in Bufs
    BY <1>1, KeepsTypes, FFacts, Constants
  <1>4. fcb' = [fcb EXCEPT ![pcur] = fcb'[pcur]] /\ fcb'[pcur] \in FcbTypes
    BY <1>1, KeepsTypes, FFacts, Constants DEF FTypes, TypeOK
  <1>5. Shared'
    BY <1>1, FFacts DEF Shared, SharedTypes
  <1>6. Placed(at[pcur], me, buf'[pcur])
    BY <1>1 DEF Placed, InHand
  <1>7. QED BY <1>1, <1>2, <1>3, <1>4, <1>5, <1>6, FFacts, NextTyped

LEMMA LoginTypes ==
  ASSUME FTypes, LoginBegin \/ LoginEnd
  PROVE  FTypes'
  <1>1. CASE LoginBegin
    <2> DEFINE c == [me EXCEPT !.stage = "login"]
    <2>1. Step(c, "scan") /\ UNCHANGED <<cast, pcur, disk, hiwater, logged, ro, buf, fresh, fcb>>
          /\ lk' = pcur /\ alv' = {0}
      BY <1>1 DEF LoginBegin, mineVars
    <2>2. c \in CallTypes
      BY FFacts DEF CallTypes
    <2> HIDE DEF c
    <2>3. Stands("scan", c)
      BY <2>1, KeepsTypes
    <2>4. Shared'
      BY <2>1, FFacts, Constants DEF Shared, SharedTypes
    <2>5. Placed("scan", c, buf'[pcur])
      BY DEF Placed, InHand
    <2>6. QED BY <2>1, <2>2, <2>3, <2>4, <2>5, KeepsTypes, FFacts, NextTyped DEF Sites
  <1>2. CASE LoginEnd
    <2> DEFINE c == [me EXCEPT !.stage = Stage(me.op), !.pos = 0]
               a == Site(me.op)
    <2>1. Step(c, a) /\ UNCHANGED <<cast, pcur, disk, alv, hiwater, ro, buf, fresh, fcb>>
          /\ lk' = -1 /\ logged' = TRUE
      BY <1>2 DEF LoginEnd, mineVars
    <2>2. c \in CallTypes /\ c.op = me.op
      BY FFacts, Constants DEF CallTypes, Stage
    <2>3. /\ a \in {"scan", "alloc", "data", "refused"} /\ ~ InHand(a, c)
          /\ a = "alloc" => c.op = "write"
      BY <2>2 DEF Site, Tested, InHand
    <2> HIDE DEF c, a
    <2>4. Stands(a, c)
      BY <2>1, KeepsTypes
    <2>5. Shared'
      BY <2>1, FFacts DEF Shared, SharedTypes
    <2>6. Placed(a, c, buf'[pcur]) /\ a \in Sites
      BY <2>3 DEF Placed, Sites, AtLock
    <2>7. QED BY <2>1, <2>2, <2>4, <2>5, <2>6, KeepsTypes, FFacts, NextTyped
  <1>3. QED BY <1>1, <1>2

LEMMA ReadingTypes ==
  ASSUME FTypes, Fetch \/ ReadOk \/ ReadFail \/ (at[pcur] = "rask" /\ Unread)
  PROVE  FTypes'
  <1>1. CASE Fetch
    <2>1. Goto("read") /\ UNCHANGED <<cast, pcur, call, lk, dirVars, buf, fcb>>
          /\ fresh' = fresh \cup {pcur} /\ me.pos \in Entries
      BY <1>1, ScanTops DEF Fetch
    <2>2. Stands("read", me)
      BY <2>1, KeepsTypes
    <2>3. Shared'
      BY <2>1, FFacts DEF Shared, SharedTypes, dirVars
    <2>4. Placed("read", me, buf'[pcur])
      BY <2>1 DEF Placed, InHand
    <2>5. QED BY <2>1, <2>2, <2>3, <2>4, KeepsTypes, FFacts, NextTyped DEF Sites, AtLock
  <1>2. CASE ReadOk
    <2> DEFINE b == [rec |-> Rec(me.pos), data |-> [i \in Members(Rec(me.pos)) |-> disk[i]]]
    <2>1. Goto("scan") /\ UNCHANGED <<cast, pcur, call, lk, dirVars, fresh, fcb>>
          /\ buf' = [buf EXCEPT ![pcur] = b]
      BY <1>2 DEF ReadOk
    <2>2. me.pos \in Entries
      BY <1>2, FFacts DEF ReadOk, Locks, Placed
    <2>3. b \in Bufs
      BY <2>2, RecOfEntry, ReadBuf
    <2> HIDE DEF b
    <2>4. buf'[pcur] = b /\ buf' = [buf EXCEPT ![pcur] = buf'[pcur]]
      BY <2>1 DEF FTypes, TypeOK
    <2>5. Stands("scan", me)
      BY <2>1, KeepsTypes
    <2>6. Shared'
      BY <2>1, FFacts DEF Shared, SharedTypes, dirVars
    <2>7. Placed("scan", me, buf'[pcur])
      BY DEF Placed, InHand
    <2>8. QED BY <2>1, <2>3, <2>4, <2>5, <2>6, <2>7, KeepsTypes, FFacts, NextTyped DEF Sites
  <1>3. ASSUME Unread, at[pcur] \in {"read", "rask"} PROVE FTypes'
    <2>1. me.pos \in Entries
      BY <1>3, FFacts DEF Placed
    <2>2. dirdrop /\ Step(NextEntry, "scan") /\ UNCHANGED <<cast, pcur, lk, dirVars, fresh, fcb>>
      BY <1>3 DEF Unread
    <2>3. Stands("scan", NextEntry) /\ NextEntry \in CallTypes
      BY <2>1, <2>2, KeepsTypes, NextTypes
    <2>4. Shared'
      BY <2>2, FFacts DEF Shared, SharedTypes, dirVars
    <2>5. Placed("scan", NextEntry, buf'[pcur])
      BY DEF Placed, InHand
    <2>6. QED BY <2>2, <2>3, <2>4, <2>5, KeepsTypes, Constants, FFacts, NextTyped DEF Sites
  <1>4. CASE ReadFail
    <2>1. CASE asks
      <3>1. Goto("rask") /\ UNCHANGED <<cast, pcur, call, lk, dirVars, buf, fresh, fcb>>
            /\ at[pcur] = "read"
        BY <1>4, <2>1 DEF ReadFail, mineVars, Locks
      <3>2. Stands("rask", me) /\ Placed("rask", me, buf'[pcur])
        BY <3>1, KeepsTypes, FFacts DEF Placed, InHand
      <3>3. Shared'
        BY <3>1, FFacts DEF Shared, SharedTypes, dirVars
      <3>4. QED BY <3>1, <3>2, <3>3, KeepsTypes, FFacts, NextTyped DEF Sites, Asking
    <2>2. CASE ~ asks
      BY <1>3, <1>4, <2>2 DEF ReadFail, Locks
    <2>3. QED BY <2>1, <2>2
  <1>5. QED BY <1>1, <1>2, <1>3, <1>4

LEMMA HereTypes ==
  ASSUME FTypes, Offered \/ InHand(at[pcur], me)
  PROVE  /\ me.pos \in Entries /\ buf[pcur].rec = Rec(me.pos)
         /\ Here \in DirEntries /\ Here.name \in Names \cup {Gone} /\ Here.blk \in 0 .. NBLK
  <1>1. me.pos \in Entries /\ buf[pcur].rec = Rec(me.pos) /\ buf[pcur] \in Bufs
    BY ScanTops, FFacts DEF Offered, dirhave, Placed
  <1>2. Here \in DirEntries
    BY <1>1, BufShape DEF Here
  <1>3. QED BY <1>1, <1>2 DEF DirEntries

LEMMA EditTypes ==
  ASSUME FTypes, Offered \/ InHand(at[pcur], me), NEW e \in DirEntries, Edit(e)
  PROVE  /\ buf' = [buf EXCEPT ![pcur] = buf'[pcur]] /\ buf'[pcur] \in Bufs
         /\ buf'[pcur].rec = Rec(me.pos)
         /\ buf'[pcur].data = [buf[pcur].data EXCEPT ![me.pos] = e]
  <1> DEFINE b == [buf[pcur] EXCEPT !.data[me.pos] = e]
  <1>1. /\ b \in Bufs /\ b.rec = Rec(me.pos)
        /\ b.data = [buf[pcur].data EXCEPT ![me.pos] = e]
    BY HereTypes, FFacts, EditedBuf
  <1>2. buf' = [buf EXCEPT ![pcur] = b]
    BY DEF Edit
  <1> HIDE DEF b
  <1>3. buf'[pcur] = b
    BY <1>2 DEF FTypes, TypeOK
  <1>4. QED BY <1>1, <1>2, <1>3

LEMMA WordsTypes ==
  /\ Erased \in DirEntries
  /\ \A n \in Names \cup {Gone}, k \in 0 .. NBLK : Entry(n, k) \in DirEntries
  BY Constants DEF Erased, Entry, DirEntries

LEMMA ScanTypes ==
  ASSUME FTypes, Alloc \/ PassOver \/ ScanEnd \/ Exists \/ Match \/ Approach
  PROVE  FTypes'
  <1>1. CASE Alloc
    <2>1. Offered /\ Step(NextEntry, "scan") /\ UNCHANGED <<cast, pcur, lk, disk, logged, ro, buf, fresh, fcb>>
          /\ alv' = Claimed(Here) /\ (hiwater' = hiwater \/ hiwater' = me.pos)
      BY <1>1 DEF Alloc, mineVars
    <2>2. me.pos \in Entries /\ Here.blk \in 0 .. NBLK
      BY <2>1, HereTypes
    <2>3. Stands("scan", NextEntry) /\ NextEntry \in CallTypes
      BY <2>1, <2>2, KeepsTypes, NextTypes
    <2>4. Shared'
      BY <2>1, <2>2, FFacts DEF Shared, SharedTypes, Claimed
    <2>5. Placed("scan", NextEntry, buf'[pcur])
      BY DEF Placed, InHand
    <2>6. QED BY <2>1, <2>3, <2>4, <2>5, KeepsTypes, FFacts, NextTyped DEF Sites
  <1>2. CASE PassOver
    <2>1. Offered /\ Step(NextEntry, "scan") /\ UNCHANGED <<cast, pcur, lk, dirVars, buf, fresh, fcb>>
      BY <1>2 DEF PassOver, mineVars
    <2>2. Stands("scan", NextEntry) /\ NextEntry \in CallTypes
      BY <2>1, HereTypes, KeepsTypes, NextTypes
    <2>3. Shared'
      BY <2>1, FFacts DEF Shared, SharedTypes, dirVars
    <2>4. Placed("scan", NextEntry, buf'[pcur])
      BY DEF Placed, InHand
    <2>5. QED BY <2>1, <2>2, <2>3, <2>4, KeepsTypes, FFacts, NextTyped DEF Sites
  <1>3. CASE ScanEnd
    <2> DEFINE c == [me EXCEPT !.stage = "scan", !.pos = 0]
    <2>1. Step(c, "scan") \/ Step(NoCall, "user")
      BY <1>3 DEF ScanEnd, Return
    <2>2. UNCHANGED <<cast, pcur, lk, dirVars, buf, fresh>>
          /\ (fcb' = fcb \/ fcb' = [fcb EXCEPT ![pcur] = NoFile])
      BY <1>3 DEF ScanEnd
    <2>3. c \in CallTypes /\ NoCall \in CallTypes
      BY FFacts, Constants DEF CallTypes
    <2> HIDE DEF c
    <2>4. Stands("scan", c) \/ Stands("user", NoCall)
      BY <2>1, KeepsTypes
    <2>5. fcb' = [fcb EXCEPT ![pcur] = fcb'[pcur]] /\ fcb'[pcur] \in FcbTypes
      BY <2>2, KeepsTypes, FFacts, Constants DEF FTypes, TypeOK
    <2>6. Shared'
      BY <2>2, FFacts DEF Shared, SharedTypes, dirVars
    <2>7. Placed("scan", c, buf'[pcur]) /\ Placed("user", NoCall, buf'[pcur])
      BY DEF Placed, InHand
    <2>8. QED BY <2>2, <2>3, <2>4, <2>5, <2>6, <2>7, KeepsTypes, FFacts, NextTyped DEF Sites
  <1>4. CASE Exists
    <2>1. Step(NoCall, "user") /\ UNCHANGED <<cast, pcur, lk, dirVars, buf, fresh, fcb>>
      BY <1>4 DEF Exists, mineVars, Return
    <2>2. Shared' /\ Placed("user", NoCall, buf'[pcur])
      BY <2>1, FFacts DEF Shared, SharedTypes, dirVars, Placed, InHand
    <2>3. QED BY <2>1, <2>2, Constants, KeepsTypes, FFacts, NextTyped DEF Sites
  <1>5. CASE Match
    <2> DEFINE f == [name |-> Here.name, blk |-> Here.blk, dirty |-> FALSE]
    <2>1. Step(NoCall, "user") /\ UNCHANGED <<cast, pcur, lk, dirVars, buf, fresh>>
          /\ (fcb' = fcb \/ fcb' = [fcb EXCEPT ![pcur] = f]) /\ Offered
      BY <1>5 DEF Match, Return, Found
    <2>2. f \in FcbTypes
      BY <2>1, HereTypes DEF FcbTypes
    <2> HIDE DEF f
    <2>3. fcb' = [fcb EXCEPT ![pcur] = fcb'[pcur]] /\ fcb'[pcur] \in FcbTypes
      BY <2>1, <2>2, KeepsTypes, FFacts DEF FTypes, TypeOK
    <2>4. Shared' /\ Placed("user", NoCall, buf'[pcur])
      BY <2>1, FFacts DEF Shared, SharedTypes, dirVars, Placed, InHand
    <2>5. QED BY <2>1, <2>3, <2>4, Constants, KeepsTypes, FFacts, NextTyped DEF Sites
  <1>6. CASE Approach
    <2>1. Goto("enter") /\ UNCHANGED <<cast, pcur, call, lk, dirVars, buf, fresh, fcb>> /\ Offered
      BY <1>6 DEF Approach, Found, mineVars
    <2>2. Stands("enter", me)
      BY <2>1, KeepsTypes
    <2>3. Shared'
      BY <2>1, FFacts DEF Shared, SharedTypes, dirVars
    <2>4. Placed("enter", me, buf'[pcur])
      BY <2>1, HereTypes DEF Placed
    <2>5. QED BY <2>1, <2>2, <2>3, <2>4, KeepsTypes, FFacts, NextTyped DEF Sites, AtLock
  <1>7. QED BY <1>1, <1>2, <1>3, <1>4, <1>5, <1>6

(* Where an edited record is brought to.                                   *)
LEMMA EditedTypes ==
  ASSUME FTypes, UNCHANGED <<cast, pcur, disk, alv, hiwater, logged, ro, fresh, fcb>>,
         lk' \in {lk, pcur},
         Offered \/ InHand(at[pcur], me), NEW e \in DirEntries, Edit(e) \/ UNCHANGED buf,
         NEW a \in {"write", "refused", "enter"}, NEW c \in CallTypes, Stands(a, c),
         c.pos = me.pos
  PROVE  FTypes'
  <1>1. /\ buf' = [buf EXCEPT ![pcur] = buf'[pcur]] /\ buf'[pcur] \in Bufs
        /\ buf'[pcur].rec = Rec(me.pos) /\ me.pos \in Entries
    BY EditTypes, HereTypes, KeepsTypes, FFacts
  <1>2. Shared'
    BY FFacts DEF Shared, SharedTypes
  <1>3. Placed(a, c, buf'[pcur])
    BY <1>1 DEF Placed
  <1>4. QED BY <1>1, <1>2, <1>3, KeepsTypes, FFacts, NextTyped DEF Sites, AtLock

LEMMA EditingTypes ==
  ASSUME FTypes, Amend \/ Erase \/ EnterDelete \/ EnterTruncate \/ Merge
  PROVE  FTypes'
  <1>0. /\ me.new \in Names \cup {Gone} /\ fcb[pcur].blk \in 0 .. NBLK
        /\ me \in CallTypes /\ 0 \in 0 .. NBLK
        /\ Tested("write") \in {"write", "refused"}
    BY FFacts, Constants DEF CallTypes, FcbTypes, Tested
  <1>1. CASE Amend
    <2> DEFINE e == Entry(me.new, IF me.op = "make" THEN 0 ELSE Here.blk)
    <2>1. /\ Offered /\ Edit(e) /\ Stands(Tested("write"), me)
          /\ UNCHANGED <<cast, pcur, lk, disk, alv, hiwater, logged, ro, fresh, fcb>>
      BY <1>1, KeepsTypes DEF Amend, Found, dirVars
    <2>2. e \in DirEntries
      BY <2>1, <1>0, HereTypes, WordsTypes
    <2> HIDE DEF e
    <2>3. QED BY <1>0, <2>1, <2>2, EditedTypes
  <1>2. CASE Erase
    <2> DEFINE c == [me EXCEPT !.gone = Here.blk]
    <2>1. /\ Offered /\ Edit(Erased) /\ Stands("enter", c)
          /\ UNCHANGED <<cast, pcur, lk, disk, alv, hiwater, logged, ro, fresh, fcb>>
      BY <1>2, KeepsTypes DEF Erase, Found, dirVars
    <2>2. c \in CallTypes /\ c.pos = me.pos
      BY <1>0, <2>1, HereTypes DEF CallTypes
    <2> HIDE DEF c
    <2>3. QED BY <2>1, <2>2, WordsTypes, EditedTypes
  <1>3. CASE EnterDelete
    <2>1. /\ InHand(at[pcur], me) /\ UNCHANGED buf /\ Stands(Tested("write"), me) /\ lk' = pcur
          /\ UNCHANGED <<cast, pcur, disk, alv, hiwater, logged, ro, fresh, fcb>>
      BY <1>3, KeepsTypes DEF EnterDelete, Locks, dirVars, mineVars, InHand
    <2>2. QED BY <1>0, <2>1, WordsTypes, EditedTypes
  <1>4. CASE EnterTruncate
    <2> DEFINE c == [me EXCEPT !.gone = Here.blk]
    <2>1. /\ InHand(at[pcur], me) /\ Edit(Entry(Here.name, 0)) /\ Stands(Tested("write"), c) /\ lk' = pcur
          /\ UNCHANGED <<cast, pcur, disk, alv, hiwater, logged, ro, fresh, fcb>>
      BY <1>4, KeepsTypes DEF EnterTruncate, Locks, dirVars, InHand
    <2>2. c \in CallTypes /\ c.pos = me.pos /\ Entry(Here.name, 0) \in DirEntries
      BY <1>0, <2>1, HereTypes, WordsTypes DEF CallTypes
    <2> HIDE DEF c
    <2>3. QED BY <1>0, <2>1, <2>2, EditedTypes
  <1>5. CASE Merge
    <2> DEFINE e == Entry(Here.name, IF Here.blk = 0 THEN fcb[pcur].blk ELSE Here.blk)
    <2>1. /\ InHand(at[pcur], me) /\ Edit(e) /\ Stands(Tested("write"), me) /\ lk' = pcur
          /\ UNCHANGED <<cast, pcur, disk, alv, hiwater, logged, ro, fresh, fcb>>
      BY <1>5, KeepsTypes DEF Merge, Locks, dirVars, InHand
    <2>2. e \in DirEntries
      BY <1>0, <2>1, HereTypes, WordsTypes
    <2> HIDE DEF e
    <2>3. QED BY <1>0, <2>1, <2>2, EditedTypes
  <1>6. QED BY <1>1, <1>2, <1>3, <1>4, <1>5

(* A written record stays in the buffer, one that was refused does not.    *)
LEMMA WrittenBuf ==
  ASSUME FTypes, InHand(at[pcur], me), NEW ok \in BOOLEAN, Written(ok)
  PROVE  IF ok THEN UNCHANGED buf ELSE dirdrop
  <1>1. CASE ok
    <2> DEFINE b == [buf[pcur] EXCEPT !.rec = Rec(me.pos)]
    <2>1. buf[pcur] = [rec |-> Rec(me.pos), data |-> buf[pcur].data]
      BY HereTypes, FFacts, BufShape
    <2>2. b = buf[pcur]
      BY <2>1
    <2>3. buf' = [buf EXCEPT ![pcur] = b]
      BY <1>1 DEF Written
    <2> HIDE DEF b
    <2>4. buf' = buf
      BY <2>2, <2>3, FFacts
    <2>5. QED BY <1>1, <2>4
  <1>2. CASE ~ ok
    BY <1>2 DEF Written
  <1>3. QED BY <1>1, <1>2

LEMMA WrittenTypes ==
  ASSUME FTypes, InHand(at[pcur], me), NEW ok \in BOOLEAN, Written(ok),
         disk' \in [Entries -> DirEntries]
  PROVE  FTypes'
  <1> DEFINE f == [name |-> me.name, blk |-> 0, dirty |-> TRUE]
  <1>1. me.pos \in Entries /\ me \in CallTypes
    BY HereTypes, FFacts
  <1>2. buf' = [buf EXCEPT ![pcur] = buf'[pcur]] /\ buf'[pcur] \in Bufs
    BY WrittenBuf, KeepsTypes, FFacts, Constants
  <1>3. f \in FcbTypes
    BY <1>1, Constants DEF FcbTypes, CallTypes
  <1>4. fcb' = fcb \/ fcb' = [fcb EXCEPT ![pcur] = f] \/ fcb' = [fcb EXCEPT ![pcur] = NoFile]
    BY DEF Written, Opened
  <1> HIDE DEF f
  <1>5. fcb' = [fcb EXCEPT ![pcur] = fcb'[pcur]] /\ fcb'[pcur] \in FcbTypes
    BY <1>3, <1>4, KeepsTypes, FFacts, Constants DEF FTypes, TypeOK
  <1>6. Stands("user", NoCall) \/ Stands("scan", NextEntry)
    BY KeepsTypes DEF Written, Return
  <1>7. UNCHANGED <<cast, pcur, logged, ro>> /\ fresh' \subseteq {pcur}
        /\ lk' \in {-1, lk} /\ alv' \subseteq alv /\ hiwater' \in {hiwater, me.pos}
    BY DEF Written, Published, Freed, clraloc, Raised
  <1>8. Shared'
    BY <1>1, <1>7, FFacts DEF Shared, SharedTypes
  <1>9. Placed("user", NoCall, buf'[pcur]) /\ Placed("scan", NextEntry, buf'[pcur])
    BY DEF Placed, InHand
  <1>10. NextEntry \in CallTypes
    BY <1>1, NextTypes
  <1>11. QED BY <1>2, <1>5, <1>6, <1>7, <1>8, <1>9, <1>10, Constants, FFacts, NextTyped DEF Sites

LEMMA WarmBootTypes ==
  ASSUME FTypes, WarmBoot, disk' \in [Entries -> DirEntries], UNCHANGED buf \/ dirdrop
  PROVE  FTypes'
  <1>1. Stands("user", NoCall) /\ UNCHANGED <<cast, pcur, alv, hiwater, logged, ro, fresh>>
        /\ lk' \in {-1, lk} /\ fcb' = [fcb EXCEPT ![pcur] = NoFile]
    BY KeepsTypes DEF WarmBoot, Return
  <1>2. fcb' = [fcb EXCEPT ![pcur] = fcb'[pcur]] /\ fcb'[pcur] \in FcbTypes
    BY <1>1, Constants DEF FTypes, TypeOK
  <1>3. Shared' /\ Placed("user", NoCall, buf'[pcur])
    BY <1>1, FFacts DEF Shared, SharedTypes, Placed, InHand
  <1>4. QED BY <1>1, <1>2, <1>3, KeepsTypes, Constants, FFacts, NextTyped DEF Sites

LEMMA ReturnTypes ==
  ASSUME FTypes, Return, UNCHANGED <<cast, pcur, lk, disk, hiwater, logged, ro, fresh, fcb>>,
         alv' \subseteq 0 .. NBLK, UNCHANGED buf \/ dirdrop
  PROVE  FTypes'
  <1>1. Stands("user", NoCall) /\ Placed("user", NoCall, buf'[pcur])
    BY KeepsTypes DEF Return, Placed, InHand
  <1>2. Shared'
    BY FFacts DEF Shared, SharedTypes
  <1>3. QED BY <1>1, <1>2, KeepsTypes, Constants, FFacts, NextTyped DEF Sites

LEMMA WritingTypes ==
  ASSUME FTypes, WriteOk \/ WriteFail \/ WriteRefused \/ BadMerge
  PROVE  FTypes'
  <1>0. disk \in [Entries -> DirEntries]
    BY FFacts DEF Shared, SharedTypes
  <1>1. CASE WriteOk
    <2>1. InHand(at[pcur], me) /\ disk' = Stored /\ Written(TRUE)
      BY <1>1 DEF WriteOk, Locks, InHand
    <2>2. QED BY <2>1, StoredTypes, WrittenTypes
  <1>2. CASE WriteFail
    <2>1. InHand(at[pcur], me) /\ disk' \in {disk, Stored} /\ at[pcur] = "write"
      BY <1>2 DEF WriteFail, Locks, InHand
    <2>2. disk' \in [Entries -> DirEntries]
      BY <2>1, StoredTypes, FFacts DEF Shared, SharedTypes
    <2>3. CASE asks
      <3>1. Goto("wask") /\ UNCHANGED <<cast, pcur, call, lk, alv, hiwater, logged, ro, buf, fresh, fcb>>
        BY <1>2, <2>3 DEF WriteFail, mineVars
      <3>2. Stands("wask", me) /\ Placed("wask", me, buf'[pcur])
        BY <2>1, <3>1, KeepsTypes, FFacts DEF Placed, InHand
      <3>3. Shared'
        BY <2>2, <3>1, FFacts DEF Shared, SharedTypes
      <3>4. QED BY <3>1, <3>2, <3>3, KeepsTypes, FFacts, NextTyped DEF Sites, Asking
    <2>4. CASE ~ asks
      BY <1>2, <2>1, <2>2, <2>4, WrittenTypes DEF WriteFail
    <2>5. QED BY <2>3, <2>4
  <1>3. CASE WriteRefused
    <2>1. InHand(at[pcur], me) /\ UNCHANGED disk
      BY <1>3 DEF WriteRefused, InHand
    <2>2. QED BY <1>0, <1>3, <2>1, WrittenTypes, WarmBootTypes DEF WriteRefused
  <1>4. CASE BadMerge
    <2>1. /\ Step(NextEntry, "scan") /\ ro' = TRUE /\ InHand(at[pcur], me)
          /\ UNCHANGED <<cast, pcur, lk, disk, alv, hiwater, logged, buf, fresh, fcb>>
      BY <1>4 DEF BadMerge, Locks, mineVars, InHand
    <2>2. Stands("scan", NextEntry) /\ NextEntry \in CallTypes
      BY <2>1, HereTypes, NextTypes, KeepsTypes
    <2>3. Shared' /\ Placed("scan", NextEntry, buf'[pcur])
      BY <2>1, FFacts DEF Shared, SharedTypes, Placed, InHand
    <2>4. QED BY <2>1, <2>2, <2>3, KeepsTypes, FFacts, NextTyped DEF Sites
  <1>5. QED BY <1>1, <1>2, <1>3, <1>4

LEMMA DataTypes ==
  ASSUME FTypes, GetBlock \/ Data \/ DataFail \/ DataRefused
  PROVE  FTypes'
  <1>0. alv \subseteq 0 .. NBLK /\ disk \in [Entries -> DirEntries]
    BY FFacts DEF Shared, SharedTypes
  <1>1. CASE GetBlock
    <2>1. CASE getaloc = {}
      BY <1>0, <1>1, <2>1, ReturnTypes DEF GetBlock
    <2>2. CASE getaloc # {}
      <3>1. PICK b \in getaloc : /\ alv' = alv \cup {b}
                                 /\ fcb' = [fcb EXCEPT ![pcur].blk = b, ![pcur].dirty = TRUE]
                                 /\ Goto(Tested("data")) /\ UNCHANGED call
        BY <1>1, <2>2 DEF GetBlock
      <3>2. b \in 0 .. NBLK /\ UNCHANGED <<cast, pcur, lk, disk, hiwater, logged, ro, buf, fresh>>
        BY <1>1 DEF GetBlock, getaloc
      <3> DEFINE f == [fcb[pcur] EXCEPT !.blk = b, !.dirty = TRUE]
      <3>3. fcb' = [fcb EXCEPT ![pcur] = f] /\ f \in FcbTypes
        BY <3>1, <3>2, FFacts DEF FTypes, TypeOK, FcbTypes
      <3> HIDE DEF f
      <3>4. fcb' = [fcb EXCEPT ![pcur] = fcb'[pcur]] /\ fcb'[pcur] \in FcbTypes
        BY <3>3 DEF FTypes, TypeOK
      <3>5. Stands(Tested("data"), me) /\ Tested("data") \in {"data", "refused"}
        BY <3>1, KeepsTypes DEF Tested
      <3>6. me.op = "write"
        BY <1>1, FFacts DEF GetBlock, Locks, Placed
      <3>7. Placed(Tested("data"), me, buf'[pcur])
        BY <3>5, <3>6 DEF Placed, InHand
      <3>8. Shared'
        BY <3>1, <3>2, FFacts DEF Shared, SharedTypes
      <3>9. QED BY <3>2, <3>4, <3>5, <3>7, <3>8, KeepsTypes, FFacts, NextTyped DEF Sites, AtLock
    <2>3. QED BY <2>1, <2>2
  <1>2. CASE Data
    BY <1>0, <1>2, ReturnTypes DEF Data, dirVars
  <1>3. CASE DataFail
    <2>1. Goto("dask") /\ dirdrop /\ UNCHANGED <<cast, pcur, call, lk, dirVars, fresh, fcb>>
      BY <1>3 DEF DataFail
    <2>2. Stands("dask", me) /\ Placed("dask", me, buf'[pcur])
      BY <2>1, KeepsTypes DEF Placed, InHand
    <2>3. Shared'
      BY <2>1, FFacts DEF Shared, SharedTypes, dirVars
    <2>4. QED BY <2>1, <2>2, <2>3, KeepsTypes, Constants, FFacts, NextTyped DEF Sites, Asking
  <1>4. CASE DataRefused
    BY <1>0, <1>4, ReturnTypes, WarmBootTypes DEF DataRefused, dirVars
  <1>5. QED BY <1>1, <1>2, <1>3, <1>4

LEMMA OperatorTypes ==
  ASSUME FTypes, Operator
  PROVE  FTypes'
  <1>0. disk \in [Entries -> DirEntries] /\ alv \subseteq 0 .. NBLK
    BY FFacts DEF Shared, SharedTypes
  <1>1. CASE Retry
    <2>1. PICK a \in {"read", "write", "data"} :
            /\ Goto(a)
            /\ a = "read" <=> at[pcur] = "rask"
            /\ a = "write" <=> at[pcur] = "wask"
      BY <1>1 DEF Retry, Answered, Asking
    <2>2. UNCHANGED <<cast, pcur, call, lk, dirVars, buf, fresh, fcb>>
      BY <1>1 DEF Retry, mineVars
    <2>3. Stands(a, me) /\ Placed(a, me, buf'[pcur])
      BY <2>1, <2>2, KeepsTypes, FFacts DEF Placed, InHand
    <2>4. Shared'
      BY <2>2, FFacts DEF Shared, SharedTypes, dirVars
    <2>5. QED BY <2>1, <2>2, <2>3, <2>4, KeepsTypes, FFacts, NextTyped DEF Sites, AtLock
  <1>2. CASE Continue
    <2>1. CASE at[pcur] = "rask" /\ Unread
      BY <2>1, ReadingTypes
    <2>2. CASE at[pcur] = "wask" /\ Written(FALSE) /\ UNCHANGED disk
      BY <1>0, <2>2, WrittenTypes DEF InHand
    <2>3. CASE at[pcur] = "dask" /\ Return /\ UNCHANGED <<cast, pcur, lk, dirVars, mineVars>>
      BY <1>0, <2>3, ReturnTypes DEF dirVars, mineVars
    <2>4. QED BY <1>2, <2>1, <2>2, <2>3 DEF Continue
  <1>3. CASE Abort
    BY <1>0, <1>3, WarmBootTypes DEF Abort
  <1>4. QED BY <1>1, <1>2, <1>3 DEF Operator

LEMMA SwitchTypes ==
  ASSUME FTypes, NEW q \in Procs, Switch(q)
  PROVE  FTypes'
  BY DEF FTypes, TypeOK, Switch, dirVars, mineVars

LEMMA FilesStart == Init => FTypes
  <1> SUFFICES ASSUME Init PROVE FTypes
    OBVIOUS
  <1>1. 0 \in Procs /\ 0 \in Entries /\ Erased \in DirEntries
    BY FilesAssumption, WordsTypes DEF Procs, Entries
  <1>2. TypeOK
    BY <1>1, Constants DEF Init, TypeOK, FcbTypes, NoCall
  <1>3. QED BY <1>2, Constants DEF Init, FTypes, Placed, InHand

LEMMA TypesStep == FTypes /\ [Next]_vars => FTypes'
  <1> SUFFICES ASSUME FTypes, [Next]_vars PROVE FTypes'
    OBVIOUS
  <1>1. CASE Calls
    BY <1>1, BeginTypes, QuitTypes DEF Calls
  <1>2. CASE Scan
    <2>1. CASE LoginBegin \/ LoginEnd
      BY <2>1, LoginTypes
    <2>2. CASE Fetch \/ ReadOk \/ ReadFail
      BY <2>2, ReadingTypes
    <2>3. CASE Alloc \/ PassOver \/ ScanEnd \/ Exists \/ Match \/ Approach
      BY <2>3, ScanTypes
    <2>4. CASE Amend \/ Erase
      BY <2>4, EditingTypes
    <2>5. QED BY <1>2, <2>1, <2>2, <2>3, <2>4 DEF Scan
  <1>3. CASE Update
    BY <1>3, EditingTypes, WritingTypes, DataTypes DEF Update
  <1>4. CASE Operator
    BY <1>4, OperatorTypes
  <1>5. CASE \E q \in Procs : Switch(q)
    BY <1>5, SwitchTypes
  <1>6. CASE UNCHANGED vars
    BY <1>6 DEF vars, dirVars, mineVars, FTypes, TypeOK
  <1>7. QED BY <1>1, <1>2, <1>3, <1>4, <1>5, <1>6 DEF Next

(* What reaches the directory, the vector and the buffers is of their      *)
(* types, whatever is refused and whatever the operator answers.           *)
THEOREM FilesTypes == Spec => []TypeOK
  <1>1. FTypes => TypeOK
    BY DEF FTypes
  <1>2. QED BY <1>1, FilesStart, TypesStep, PTL DEF Spec

-----------------------------------------------------------------------------
(* Every step but a switch is the running process's own.                   *)
LEMMA Frames ==
  ASSUME FTypes
  PROVE  /\ \A a : Goto(a) => at' = [at EXCEPT ![pcur] = at'[pcur]] /\ at'[pcur] = a
         /\ \A a, c : Step(c, a) => /\ at' = [at EXCEPT ![pcur] = at'[pcur]] /\ at'[pcur] = a
                                  /\ call' = [call EXCEPT ![pcur] = call'[pcur]] /\ call'[pcur] = c
         /\ UNCHANGED at => at' = [at EXCEPT ![pcur] = at'[pcur]]
         /\ UNCHANGED call => call' = [call EXCEPT ![pcur] = call'[pcur]] /\ call'[pcur] = me
         /\ UNCHANGED buf => buf' = [buf EXCEPT ![pcur] = buf'[pcur]]
         /\ UNCHANGED fcb => fcb' = [fcb EXCEPT ![pcur] = fcb'[pcur]]
         /\ dirdrop => buf' = [buf EXCEPT ![pcur] = buf'[pcur]] /\ buf'[pcur].rec = -1
         /\ \A e : Edit(e) => buf' = [buf EXCEPT ![pcur] = buf'[pcur]]
         /\ \A b : buf' = [buf EXCEPT ![pcur] = b] => buf' = [buf EXCEPT ![pcur] = buf'[pcur]] /\ buf'[pcur] = b
         /\ \A f : fcb' = [fcb EXCEPT ![pcur] = f] => fcb' = [fcb EXCEPT ![pcur] = fcb'[pcur]] /\ fcb'[pcur] = f
         /\ at[pcur] \in Sites
  <1>1. /\ call = [call EXCEPT ![pcur] = me] /\ buf = [buf EXCEPT ![pcur] = buf[pcur]]
        /\ fcb = [fcb EXCEPT ![pcur] = fcb[pcur]] /\ at = [at EXCEPT ![pcur] = at[pcur]]
    BY FFacts
  <1>2. pcur \in Procs /\ DOMAIN at = Procs /\ DOMAIN call = Procs /\ DOMAIN buf = Procs
        /\ DOMAIN fcb = Procs
    BY DEF FTypes, TypeOK
  <1>3. ASSUME NEW e, Edit(e) PROVE buf' = [buf EXCEPT ![pcur] = buf'[pcur]]
    <2> DEFINE b == [buf[pcur] EXCEPT !.data[me.pos] = e]
    <2>1. buf' = [buf EXCEPT ![pcur] = b]
      BY <1>3 DEF Edit
    <2> HIDE DEF b
    <2>2. QED BY <2>1, <1>2
  <1>4. /\ \A a : Goto(a) => at' = [at EXCEPT ![pcur] = at'[pcur]] /\ at'[pcur] = a
        /\ \A a, c : Step(c, a) => /\ at' = [at EXCEPT ![pcur] = at'[pcur]] /\ at'[pcur] = a
                                 /\ call' = [call EXCEPT ![pcur] = call'[pcur]] /\ call'[pcur] = c
    BY <1>2 DEF Goto, Step
  <1>5. /\ UNCHANGED at => at' = [at EXCEPT ![pcur] = at'[pcur]]
        /\ UNCHANGED call => call' = [call EXCEPT ![pcur] = call'[pcur]] /\ call'[pcur] = me
        /\ UNCHANGED buf => buf' = [buf EXCEPT ![pcur] = buf'[pcur]]
        /\ UNCHANGED fcb => fcb' = [fcb EXCEPT ![pcur] = fcb'[pcur]]
    BY <1>1 DEF me
  <1>6. /\ dirdrop => buf' = [buf EXCEPT ![pcur] = buf'[pcur]] /\ buf'[pcur].rec = -1
        /\ \A b : buf' = [buf EXCEPT ![pcur] = b] => buf' = [buf EXCEPT ![pcur] = buf'[pcur]] /\ buf'[pcur] = b
        /\ \A f : fcb' = [fcb EXCEPT ![pcur] = f] => fcb' = [fcb EXCEPT ![pcur] = fcb'[pcur]] /\ fcb'[pcur] = f
    BY <1>2 DEF dirdrop, NoBuf
  <1>7. QED BY <1>3, <1>4, <1>5, <1>6, FFacts

LEMMA MineWritten ==
  ASSUME FTypes, InHand(at[pcur], me), NEW ok \in BOOLEAN, Written(ok)
  PROVE  Mine /\ UNCHANGED <<cast, pcur>>
  <1>1. (Return \/ Step(NextEntry, "scan")) /\ UNCHANGED <<cast, pcur>>
        /\ (fcb' = fcb \/ \E f : fcb' = [fcb EXCEPT ![pcur] = f])
    BY DEF Written, Opened
  <1>2. QED BY <1>1, WrittenBuf, Frames DEF Mine, Return

LEMMA OnlyMine ==
  ASSUME FTypes, Calls \/ Scan \/ Update \/ Operator
  PROVE  Mine /\ UNCHANGED <<cast, pcur>>
  <1>1. CASE Calls
    <2>1. CASE Quit \/ Reset
      BY <2>1, Frames DEF Quit, Reset, Mine, dirVars
    <2>2. CASE \E op \in Ops, n, m \in Names : Begin(op, n, m)
      BY <2>2, Frames DEF Begin, Mine
    <2>3. QED BY <1>1, <2>1, <2>2 DEF Calls
  <1>2. CASE LoginBegin \/ LoginEnd \/ Alloc \/ PassOver \/ Exists
    BY <1>2, Frames DEF LoginBegin, LoginEnd, Alloc, PassOver, Exists, mineVars, Mine, Return
  <1>3. CASE Fetch \/ ReadOk \/ Approach
    BY <1>3, Frames DEF Fetch, ReadOk, Approach, mineVars, Mine
  <1>4. ASSUME Unread PROVE Mine /\ UNCHANGED <<cast, pcur>>
    BY <1>4, Frames DEF Unread, Mine
  <1>5. CASE ReadFail
    BY <1>4, <1>5, Frames DEF ReadFail, Mine, mineVars
  <1>6. CASE ScanEnd
    BY <1>6, Frames DEF ScanEnd, Return, Mine
  <1>7. CASE Match
    BY <1>7, Frames DEF Match, Return, Mine
  <1>8. CASE Amend \/ Erase \/ EnterDelete \/ EnterTruncate
    BY <1>8, Frames DEF Amend, Erase, EnterDelete, EnterTruncate, mineVars, Mine
  <1>9. CASE Merge \/ BadMerge
    BY <1>9, Frames DEF Merge, BadMerge, mineVars, Mine
  <1>10. ASSUME WarmBoot, UNCHANGED buf \/ dirdrop PROVE Mine /\ UNCHANGED <<cast, pcur>>
    BY <1>10, Frames DEF WarmBoot, Return, Mine
  <1>11. CASE WriteOk
    BY <1>11, MineWritten DEF WriteOk, Locks, InHand
  <1>12. CASE WriteFail
    <2>1. CASE asks
      BY <1>12, <2>1, Frames DEF WriteFail, mineVars, Mine
    <2>2. CASE ~ asks
      BY <1>12, <2>2, MineWritten DEF WriteFail, Locks, InHand
    <2>3. QED BY <2>1, <2>2
  <1>13. CASE WriteRefused
    BY <1>10, <1>13, MineWritten DEF WriteRefused, InHand
  <1>14. CASE GetBlock
    <2>1. CASE getaloc = {}
      BY <1>14, <2>1, Frames DEF GetBlock, Return, Mine
    <2>2. CASE getaloc # {}
      <3>1. PICK b \in getaloc : /\ fcb' = [fcb EXCEPT ![pcur].blk = b, ![pcur].dirty = TRUE]
                                 /\ Goto(Tested("data")) /\ UNCHANGED call
        BY <1>14, <2>2 DEF GetBlock
      <3> DEFINE f == [fcb[pcur] EXCEPT !.blk = b, !.dirty = TRUE]
      <3>2. fcb' = [fcb EXCEPT ![pcur] = f]
        BY <3>1 DEF FTypes, TypeOK
      <3> HIDE DEF f
      <3>3. QED BY <1>14, <3>1, <3>2, Frames DEF GetBlock, Mine
    <2>3. QED BY <2>1, <2>2
  <1>15. CASE Data \/ DataFail
    BY <1>15, Frames DEF Data, DataFail, Return, Mine
  <1>16. CASE DataRefused
    BY <1>10, <1>16, Frames DEF DataRefused, Return, Mine
  <1>17. CASE Retry
    BY <1>17, Frames DEF Retry, mineVars, Mine
  <1>18. CASE Continue
    <2>1. CASE at[pcur] = "rask" /\ Unread
      BY <1>4, <2>1
    <2>2. CASE at[pcur] = "wask" /\ Written(FALSE) /\ UNCHANGED disk
      BY <2>2, MineWritten DEF InHand
    <2>3. CASE at[pcur] = "dask" /\ Return /\ UNCHANGED <<cast, pcur, lk, dirVars, mineVars>>
      BY <2>3, Frames DEF mineVars, Return, Mine
    <2>4. QED BY <1>18, <2>1, <2>2, <2>3 DEF Continue
  <1>19. CASE Abort
    BY <1>10, <1>19 DEF Abort
  <1>20. CASE Scan
    BY <1>20, <1>2, <1>3, <1>5, <1>6, <1>7, <1>8 DEF Scan
  <1>21. CASE Update
    BY <1>21, <1>8, <1>9, <1>11, <1>12, <1>13, <1>14, <1>15, <1>16 DEF Update
  <1>22. CASE Operator
    BY <1>22, <1>17, <1>18, <1>19 DEF Operator
  <1>23. QED BY <1>1, <1>20, <1>21, <1>22

-----------------------------------------------------------------------------
(* Where the running process goes, in the terms the invariants are in.     *)
FreshHere ==
  /\ pcur \in fresh' /\ AtEase(at'[pcur], call'[pcur]) /\ buf'[pcur].rec # -1 =>
       \/ \A i \in Members(buf'[pcur].rec) : buf'[pcur].data[i] = disk'[i]
       \/ \E q \in Procs \ {pcur} : Writing(at[q]) /\ Rec(call[q].pos) = buf'[pcur].rec
  /\ at'[pcur] = "dask" => buf'[pcur].rec = -1

LEMMA FreshStill ==
  ASSUME FTypes, FreshInv, Mine, UNCHANGED <<pcur, disk>>, fresh' \subseteq fresh \cup {pcur},
         Writing(at[pcur]) => Writing(at'[pcur]) /\ call'[pcur] = me,
         FreshHere
  PROVE  FreshInv'
  <1>1. ASSUME NEW p \in Procs, p # pcur
        PROVE  at'[p] = at[p] /\ call'[p] = call[p] /\ buf'[p] = buf[p]
    BY <1>1 DEF Mine, FTypes, TypeOK
  <1>2. pcur \in Procs /\ fresh \subseteq Procs
    BY DEF FTypes, TypeOK
  <1>3. ASSUME NEW r, NEW q \in Procs, Writing(at[q]), Rec(call[q].pos) = r
        PROVE  Pending(r)'
    <2>1. Writing(at'[q]) /\ call'[q] = call[q]
      BY <1>1, <1>3 DEF me
    <2>2. QED BY <1>3, <2>1 DEF Pending, Writing
  <1>4. ASSUME NEW p \in fresh', AtEase(at'[p], call'[p]), buf'[p].rec # -1
        PROVE  AsOnDisk(buf[p])' \/ Pending(buf[p].rec)'
    <2>1. CASE p = pcur
      <3>1. CASE \A i \in Members(buf'[pcur].rec) : buf'[pcur].data[i] = disk'[i]
        BY <2>1, <3>1 DEF AsOnDisk, Members, Entries
      <3>2. CASE \E q \in Procs \ {pcur} : Writing(at[q]) /\ Rec(call[q].pos) = buf'[pcur].rec
        BY <1>3, <2>1, <3>2
      <3>3. QED BY <1>4, <2>1, <3>1, <3>2 DEF FreshHere
    <2>2. CASE p # pcur
      <3>1. p \in fresh /\ p \in Procs
        BY <1>2, <2>2
      <3>2. AsOnDisk(buf[p]) \/ Pending(buf[p].rec)
        BY <1>1, <1>4, <2>2, <3>1 DEF FreshInv
      <3>3. CASE AsOnDisk(buf[p])
        BY <1>1, <2>2, <3>1, <3>3 DEF AsOnDisk, Members, Entries
      <3>4. CASE Pending(buf[p].rec)
        BY <1>1, <1>3, <2>2, <3>1, <3>4 DEF Pending, Writing
      <3>5. QED BY <3>2, <3>3, <3>4
    <2>3. QED BY <2>1, <2>2
  <1>5. ASSUME NEW p \in Procs, at'[p] = "dask" PROVE buf'[p].rec = -1
    <2>1. CASE p = pcur
      BY <1>5, <2>1 DEF FreshHere
    <2>2. CASE p # pcur
      BY <1>1, <1>5, <2>2 DEF FreshInv
    <2>3. QED BY <2>1, <2>2
  <1>6. QED BY <1>4, <1>5 DEF FreshInv

(* An unchanged buffer is as good as before.                               *)
LEMMA FreshKeeps ==
  ASSUME FTypes, FreshInv, UNCHANGED <<pcur, disk, buf, fresh>>,
         AtEase(at[pcur], me), at'[pcur] # "dask"
  PROVE  FreshHere
  <1>1. pcur \in fresh /\ buf[pcur].rec # -1 => AsOnDisk(buf[pcur]) \/ Pending(buf[pcur].rec)
    BY DEF FreshInv, me
  <1>2. ASSUME NEW q \in Procs, Writing(at[q]) PROVE q # pcur
    BY <1>2 DEF AtEase, Writing
  <1>3. QED BY <1>1, <1>2 DEF FreshHere, AsOnDisk, Pending, Writing

(* The cache is written to or read from.                                   *)
LEMMA FreshRead ==
  ASSUME FTypes, FreshInv, ReadOk
  PROVE  FreshInv'
  <1> DEFINE r == Rec(me.pos)
             b == [rec |-> r, data |-> [i \in Members(r) |-> disk[i]]]
  <1>1. /\ Goto("scan") /\ UNCHANGED <<cast, pcur, call, lk, dirVars, fresh, fcb>>
        /\ buf' = [buf EXCEPT ![pcur] = b] /\ at[pcur] = "read"
    BY DEF ReadOk, Locks
  <1>2. b.rec = r /\ \A i \in Members(b.rec) : b.data[i] = disk[i]
    OBVIOUS
  <1> HIDE DEF b
  <1>3. buf'[pcur] = b /\ at'[pcur] = "scan" /\ Mine
    BY <1>1, Frames DEF Mine
  <1>4. FreshHere
    BY <1>1, <1>2, <1>3 DEF FreshHere, dirVars
  <1>5. QED BY <1>1, <1>3, <1>4, FreshStill DEF Writing, dirVars

(* A directory write leaves nobody else's record current.                  *)
LEMMA FreshWritten ==
  ASSUME FTypes, FreshInv, InHand(at[pcur], me), NEW ok \in BOOLEAN, Written(ok),
         ok => disk' = Stored
  PROVE  FreshInv'
  <1>1. Mine /\ UNCHANGED pcur /\ fresh' = IF ok THEN {pcur} ELSE {}
    BY MineWritten DEF Written, Published
  <1>2. at'[pcur] \in {"user", "scan"}
    BY Frames DEF Written, Return
  <1>3. ASSUME NEW p \in Procs, at'[p] = "dask" PROVE buf'[p].rec = -1
    BY <1>1, <1>2, <1>3 DEF Mine, FTypes, TypeOK, FreshInv
  <1>4. ASSUME ok PROVE AsOnDisk(buf[pcur])'
    <2>1. buf' = buf /\ disk' = Stored /\ buf[pcur].rec = Rec(me.pos)
      BY <1>4, WrittenBuf, HereTypes
    <2>2. ASSUME NEW i \in Members(Rec(me.pos)) PROVE disk'[i] = buf[pcur].data[i]
      BY <2>1 DEF Stored, Members
    <2>3. QED BY <1>1, <2>1, <2>2 DEF AsOnDisk, Members, Entries
  <1>5. QED BY <1>1, <1>3, <1>4 DEF FreshInv

(* A refused one may have got as far as the cache, and is pending.         *)
LEMMA FreshAsked ==
  ASSUME FTypes, FreshInv, WriteFail, asks
  PROVE  FreshInv'
  <1>1. /\ at[pcur] = "write" /\ Goto("wask") /\ disk' \in {disk, Stored}
        /\ UNCHANGED <<cast, pcur, call, lk, alv, hiwater, logged, ro, buf, fresh, fcb>>
    BY DEF WriteFail, Locks, mineVars
  <1>2. pcur \in Procs /\ \A p \in Procs : at'[p] = IF p = pcur THEN "wask" ELSE at[p]
    BY <1>1 DEF Goto, FTypes, TypeOK
  <1>3. ASSUME NEW r, Pending(r) PROVE Pending(r)'
    BY <1>1, <1>2, <1>3 DEF Pending, Writing
  <1>4. ASSUME NEW p \in fresh, AtEase(at'[p], call'[p]), buf'[p].rec # -1
        PROVE  AsOnDisk(buf[p])' \/ Pending(buf[p].rec)'
    <2>1. p \in Procs /\ p # pcur
      BY <1>2, <1>4 DEF AtEase, FTypes, TypeOK
    <2>2. AsOnDisk(buf[p]) \/ Pending(buf[p].rec)
      BY <1>1, <1>2, <1>4, <2>1 DEF FreshInv
    <2>3. CASE Pending(buf[p].rec)
      BY <1>1, <1>3, <2>3
    <2>4. CASE buf[p].rec = Rec(me.pos)
      <3>1. at'[pcur] = "wask" /\ Rec(call'[pcur].pos) = buf'[p].rec
        BY <1>1, <1>2, <2>4 DEF me
      <3>2. QED BY <1>1, <1>2, <3>1 DEF Pending, Writing
    <2>5. CASE AsOnDisk(buf[p]) /\ buf[p].rec # Rec(me.pos)
      <3>1. ASSUME NEW i \in Members(buf[p].rec) PROVE disk'[i] = disk[i]
        BY <1>1, <2>5 DEF Stored, Members, FTypes, TypeOK
      <3>2. QED BY <1>1, <2>5, <3>1 DEF AsOnDisk, Members, Entries
    <2>6. QED BY <2>2, <2>3, <2>4, <2>5
  <1>5. \A p \in Procs : at'[p] = "dask" => buf'[p].rec = -1
    BY <1>1, <1>2 DEF FreshInv
  <1>6. QED BY <1>1, <1>4, <1>5 DEF FreshInv

(* The other steps: the buffer is dropped, kept, or in no state to be used.*)
LEMMA FreshPlain ==
  ASSUME FTypes, FreshInv, Mine, UNCHANGED <<pcur, disk>>, fresh' \subseteq fresh \cup {pcur},
         Writing(at[pcur]) => Writing(at'[pcur]) /\ call'[pcur] = me,
         \/ buf'[pcur].rec = -1
         \/ UNCHANGED <<buf, fresh>> /\ AtEase(at[pcur], me) /\ at'[pcur] # "dask"
         \/ ~ AtEase(at'[pcur], call'[pcur]) /\ at'[pcur] # "dask"
  PROVE  FreshInv'
  <1>1. FreshHere
    BY FreshKeeps DEF FreshHere
  <1>2. QED BY <1>1, FreshStill

LEMMA FreshCalls ==
  ASSUME FTypes, FreshInv, Calls
  PROVE  FreshInv'
  <1>1. Mine
    BY OnlyMine
  <1>2. CASE Quit \/ Reset
    <2>1. /\ UNCHANGED <<pcur, disk, at, fresh>> /\ at[pcur] = "user"
          /\ UNCHANGED buf \/ dirdrop
      BY <1>2 DEF Quit, Reset, dirVars
    <2>2. QED BY <1>1, <2>1, Frames, FreshPlain DEF AtEase, Writing
  <1>3. ASSUME NEW op \in Ops, NEW n \in Names, NEW m \in Names, Begin(op, n, m)
        PROVE  FreshInv'
    <2>1. /\ UNCHANGED <<pcur, disk, fresh>> /\ at[pcur] = "user"
          /\ UNCHANGED buf \/ dirdrop
          /\ at'[pcur] = IF logged THEN Site(op) ELSE "login"
      BY <1>3, Frames DEF Begin, dirVars
    <2>2. at'[pcur] # "dask"
      BY <2>1 DEF Site, Tested
    <2>3. QED BY <1>1, <2>1, <2>2, Frames, FreshPlain DEF AtEase, Writing
  <1>4. QED BY <1>2, <1>3 DEF Calls

LEMMA FreshScans ==
  ASSUME FTypes, FreshInv, Scan
  PROVE  FreshInv'
  <1>1. Mine /\ at[pcur] \in Sites
    BY OnlyMine, FFacts
  <1>2. CASE LoginBegin \/ Alloc \/ PassOver \/ ScanEnd \/ Exists \/ Match
    <2>1. /\ UNCHANGED <<pcur, disk, buf, fresh>> /\ at[pcur] \in {"login", "scan"}
          /\ at'[pcur] \in {"scan", "user"}
      BY <1>2, Frames DEF LoginBegin, Alloc, PassOver, ScanEnd, Exists, Match, Return, Found,
            Offered, Scanning, Locks, dirVars, mineVars
    <2>2. QED BY <1>1, <2>1, FreshPlain DEF AtEase, Writing
  <1>3. CASE LoginEnd
    <2>1. /\ UNCHANGED <<pcur, disk, buf, fresh>> /\ at[pcur] = "scan"
          /\ at'[pcur] = Site(me.op)
      BY <1>3, Frames DEF LoginEnd, mineVars
    <2>2. at'[pcur] # "dask"
      BY <2>1 DEF Site, Tested
    <2>3. QED BY <1>1, <2>1, <2>2, FreshPlain DEF AtEase, Writing
  <1>4. CASE Fetch
    <2>1. /\ UNCHANGED <<pcur, disk, buf>> /\ at[pcur] = "scan" /\ at'[pcur] = "read"
          /\ fresh' = fresh \cup {pcur}
      BY <1>4, Frames DEF Fetch, Scanning, dirVars
    <2>2. QED BY <1>1, <2>1, FreshPlain DEF AtEase, Writing
  <1>5. CASE ReadOk
    BY <1>5, FreshRead
  <1>6. CASE ReadFail
    <2>1. /\ UNCHANGED <<pcur, disk, fresh>> /\ at[pcur] = "read"
          /\ (at'[pcur] = "rask" \/ buf'[pcur].rec = -1)
      BY <1>6, Frames DEF ReadFail, Unread, Locks, dirVars, mineVars
    <2>2. QED BY <1>1, <2>1, FreshPlain DEF AtEase, Writing
  <1>7. CASE Amend
    <2>1. /\ UNCHANGED <<pcur, disk, fresh>> /\ at[pcur] = "scan"
          /\ at'[pcur] \in {"write", "refused"}
      BY <1>7, Frames DEF Amend, Found, Offered, Scanning, dirVars, Tested
    <2>2. QED BY <1>1, <2>1, FreshPlain DEF AtEase, Writing
  <1>8. CASE Erase
    <2>1. /\ UNCHANGED <<pcur, disk, fresh>> /\ at[pcur] = "scan" /\ me.op = "delete"
          /\ at'[pcur] = "enter" /\ call'[pcur] = [me EXCEPT !.gone = Here.blk]
      BY <1>8, Frames DEF Erase, Found, Offered, Scanning, dirVars
    <2>2. call'[pcur].op = "delete"
      BY <2>1, FFacts DEF CallTypes
    <2>3. QED BY <1>1, <2>1, <2>2, FreshPlain DEF AtEase, Writing
  <1>9. CASE Approach
    <2>1. /\ UNCHANGED <<pcur, disk, buf, fresh>> /\ at[pcur] = "scan" /\ at'[pcur] = "enter"
      BY <1>9, Frames DEF Approach, Found, Offered, Scanning, dirVars, mineVars
    <2>2. QED BY <1>1, <2>1, FreshPlain DEF AtEase, Writing
  <1>10. QED BY <1>2, <1>3, <1>4, <1>5, <1>6, <1>7, <1>8, <1>9 DEF Scan

LEMMA FreshUpdates ==
  ASSUME FTypes, FreshInv, ~ GivenUp, Update
  PROVE  FreshInv'
  <1>1. Mine /\ at[pcur] \in Sites
    BY OnlyMine, FFacts
  <1>2. CASE EnterDelete \/ EnterTruncate \/ Merge
    <2>1. /\ UNCHANGED <<pcur, disk, fresh>> /\ at[pcur] = "enter"
          /\ at'[pcur] \in {"write", "refused"}
      BY <1>2, Frames DEF EnterDelete, EnterTruncate, Merge, Locks, dirVars, mineVars, Tested
    <2>2. QED BY <1>1, <2>1, FreshPlain DEF AtEase, Writing
  <1>3. CASE BadMerge
    <2>1. /\ UNCHANGED <<pcur, disk, buf, fresh>> /\ at[pcur] = "enter" /\ me.op = "close"
          /\ at'[pcur] = "scan"
      BY <1>3, Frames DEF BadMerge, Locks, mineVars
    <2>2. QED BY <1>1, <2>1, FreshPlain DEF AtEase, Writing
  <1>4. CASE WriteOk
    BY <1>4, FreshWritten DEF WriteOk, Locks, InHand
  <1>5. CASE WriteFail
    BY <1>5, FreshAsked, FreshWritten DEF WriteFail, Locks, InHand
  <1>6. CASE WriteRefused
    BY <1>6, FreshWritten DEF WriteRefused, InHand, GivenUp
  <1>7. CASE GetBlock
    <2>1. /\ UNCHANGED <<pcur, disk, buf, fresh>> /\ at[pcur] = "alloc"
          /\ at'[pcur] \in {"user", "data", "refused"}
      BY <1>7, Frames DEF GetBlock, Return, Locks, Tested
    <2>2. QED BY <1>1, <2>1, FreshPlain DEF AtEase, Writing
  <1>8. CASE Data \/ DataFail \/ DataRefused
    <2>1. /\ UNCHANGED <<pcur, disk, fresh>> /\ at[pcur] \in {"data", "refused"}
          /\ buf'[pcur].rec = -1
      BY <1>8, Frames DEF Data, DataFail, DataRefused, WarmBoot, Locks, dirVars
    <2>2. QED BY <1>1, <2>1, FreshPlain DEF Writing
  <1>9. QED BY <1>2, <1>3, <1>4, <1>5, <1>6, <1>7, <1>8 DEF Update

LEMMA FreshAnswers ==
  ASSUME FTypes, FreshInv, ~ GivenUp, Operator
  PROVE  FreshInv'
  <1>1. Mine /\ at[pcur] \in Sites
    BY OnlyMine, FFacts
  <1>2. CASE Retry
    <2>1. PICK a \in {"read", "write", "data"} : Goto(a) /\ (at[pcur] = "wask" <=> a = "write")
                                               /\ (at[pcur] = "dask" <=> a = "data")
      BY <1>2 DEF Retry, Answered, Asking
    <2>2. UNCHANGED <<pcur, disk, buf, fresh>> /\ at'[pcur] = a /\ call'[pcur] = me
          /\ at[pcur] \in Asking
      BY <1>2, <2>1, Frames DEF Retry, dirVars, mineVars, Answered
    <2>3. QED BY <1>1, <2>1, <2>2, FreshPlain DEF AtEase, Writing, Asking
  <1>3. CASE Continue
    <2>1. CASE at[pcur] = "rask" /\ Unread
      <3>1. UNCHANGED <<pcur, disk, fresh>> /\ buf'[pcur].rec = -1
        BY <2>1, Frames DEF Unread, dirVars
      <3>2. QED BY <1>1, <2>1, <3>1, FreshPlain DEF Writing
    <2>2. CASE at[pcur] = "wask" /\ Written(FALSE) /\ UNCHANGED disk
      BY <2>2, FreshWritten DEF InHand
    <2>3. CASE at[pcur] = "dask" /\ Return /\ UNCHANGED <<cast, pcur, lk, dirVars, mineVars>>
      <3>1. UNCHANGED <<pcur, disk, buf, fresh>> /\ buf'[pcur].rec = -1
        BY <2>3, FFacts DEF FreshInv, dirVars, mineVars
      <3>2. QED BY <1>1, <2>3, <3>1, FreshPlain DEF Writing
    <2>4. QED BY <1>3, <2>1, <2>2, <2>3 DEF Continue
  <1>4. CASE Abort
    <2>1. at[pcur] = "dask" /\ UNCHANGED <<pcur, disk, buf, fresh>>
      BY <1>4 DEF Abort, Answered, Asking, GivenUp, WarmBoot
    <2>2. buf'[pcur].rec = -1
      BY <2>1, FFacts DEF FreshInv
    <2>3. QED BY <1>1, <2>1, <2>2, FreshPlain DEF Writing
  <1>5. QED BY <1>2, <1>3, <1>4 DEF Operator

LEMMA FreshSwitch ==
  ASSUME FreshInv, UNCHANGED <<at, call, disk, buf, fresh>>
  PROVE  FreshInv'
  BY DEF FreshInv, AsOnDisk, Pending, AtEase, Members, Entries

LEMMA FreshStep == FTypes /\ FreshInv /\ ~ GivenUp /\ [Next]_vars => FreshInv'
  <1> SUFFICES ASSUME FTypes, FreshInv, ~ GivenUp, [Next]_vars PROVE FreshInv'
    OBVIOUS
  <1>1. CASE \E q \in Procs : Switch(q)
    BY <1>1, FreshSwitch DEF Switch, dirVars, mineVars
  <1>2. CASE UNCHANGED vars
    BY <1>2, FreshSwitch DEF vars, dirVars, mineVars
  <1>3. QED BY <1>1, <1>2, FreshCalls, FreshScans, FreshUpdates, FreshAnswers DEF Next

LEMMA FreshStart == Init => FreshInv
  BY DEF Init, FreshInv

(* A cached directory record is the record, whoever writes it and whatever *)
(* the medium refuses, as long as no program is given up at a prompt or on *)
(* a read-only drive while it has part of the directory in hand.           *)
THEOREM CachesAreFresh == Spec /\ [][~ GivenUp]_vars => []CacheFresh
  <1>1. Init => FTypes /\ FreshInv
    BY FilesStart, FreshStart
  <1>2. ASSUME FTypes, FreshInv, [Next]_vars, [~ GivenUp]_vars PROVE FTypes' /\ FreshInv'
    <2>1. CASE UNCHANGED vars
      BY <1>2, <2>1, TypesStep, FreshSwitch DEF vars, dirVars, mineVars
    <2>2. QED BY <1>2, <2>1, TypesStep, FreshStep
  <1>3. FreshInv => CacheFresh
    BY DEF FreshInv, CacheFresh, AsOnDisk, Pending, Writing, AtEase
  <1>4. QED BY <1>1, <1>2, <1>3, PTL DEF Spec

-----------------------------------------------------------------------------
(* Who edits the directory is alone.                                       *)
AloneHere ==
  /\ call'[pcur].op \in Edits => call'[pcur].op \in cast[pcur].ops
  /\ InHand(at'[pcur], call'[pcur]) => call'[pcur].op \in Edits
  /\ at'[pcur] \in Asking => asks
  /\ at'[pcur] = "user" => call'[pcur] = NoCall
  /\ lk' \in {lk, -1, pcur}
  /\ lk' = pcur => \/ at'[pcur] \in {"scan", "read"} /\ call'[pcur].stage = "login"
                   \/ InHand(at'[pcur], call'[pcur]) /\ at'[pcur] # "enter"

LEMMA AloneStill ==
  ASSUME FTypes, AloneInv, Mine, UNCHANGED <<cast, pcur>>, AloneHere
  PROVE  AloneInv'
  <1>1. ASSUME NEW p \in Procs, p # pcur
        PROVE  at'[p] = at[p] /\ call'[p] = call[p]
    BY <1>1 DEF Mine, FTypes, TypeOK
  <1>2. pcur \in Procs /\ lk \in Procs \cup {-1}
    BY DEF FTypes, TypeOK
  <1>3. ASSUME NEW p \in Procs
        PROVE  /\ call'[p].op \in Edits => call'[p].op \in cast'[p].ops
               /\ InHand(at'[p], call'[p]) => call'[p].op \in Edits
               /\ at'[p] \in Asking => cast'[p].asks
               /\ at'[p] = "user" => call'[p] = NoCall
    <2>1. CASE p = pcur
      BY <2>1 DEF AloneHere, asks
    <2>2. CASE p # pcur
      BY <1>1, <2>2 DEF AloneInv
    <2>3. QED BY <2>1, <2>2
  <1>4. ASSUME NEW p \in Procs \ {pcur'}
        PROVE  /\ at'[p] \in {"user"} \cup Asking \cup AtLock
               /\ call'[p].op \in Edits => cast'[p].asks
    BY <1>1, <1>4 DEF AloneInv
  <1>5. lk' \notin {-1, pcur'} => at'[lk'] = "wask"
    BY <1>1, <1>2 DEF AloneHere, AloneInv
  <1>6. QED BY <1>3, <1>4, <1>5 DEF AloneHere, AloneInv

(* The lock is held by the running process only where the code locks.      *)
LEMMA AloneFacts ==
  ASSUME FTypes, AloneInv
  PROVE  /\ me.op \in Edits => me.op \in cast[pcur].ops
         /\ InHand(at[pcur], me) => me.op \in Edits
         /\ at[pcur] \in Asking => asks
         /\ at[pcur] = "user" => me = NoCall
         /\ lk = pcur => \/ at[pcur] \in {"scan", "read"} /\ me.stage = "login"
                         \/ InHand(at[pcur], me) /\ at[pcur] # "enter"
  BY DEF FTypes, TypeOK, AloneInv, me, asks

LEMMA Fields ==
  ASSUME FTypes
  PROVE  /\ NextEntry.op = me.op /\ NextEntry.stage = me.stage /\ NextEntry.name = me.name
         /\ NextEntry.new = me.new /\ NextEntry.pos = me.pos + 1 /\ NextEntry.gone = me.gone
         /\ me.op \in Ops \cup {"none"}
  <1>1. me \in CallTypes
    BY FFacts
  <1>2. QED BY <1>1 DEF NextEntry, CallTypes

LEMMA AloneWritten ==
  ASSUME FTypes, AloneInv, InHand(at[pcur], me), NEW ok \in BOOLEAN, Written(ok)
  PROVE  AloneInv'
  <1>1. Mine /\ UNCHANGED <<cast, pcur>>
    BY MineWritten
  <1>2. \/ at'[pcur] = "user" /\ call'[pcur] = NoCall
        \/ at'[pcur] = "scan" /\ call'[pcur] = NextEntry
    BY Frames DEF Written, Return
  <1>3. pcur # -1 /\ lk' = IF lk = pcur THEN -1 ELSE lk
    BY FilesAssumption DEF Written, FTypes, TypeOK, Procs
  <1>4. NoCall.op \notin Edits /\ ~ InHand("user", NoCall) /\ ~ InHand("scan", NextEntry)
    BY DEF NoCall, Edits, InHand
  <1>5. AloneHere
    BY <1>2, <1>3, <1>4, Fields, AloneFacts DEF AloneHere, Asking
  <1>6. QED BY <1>1, <1>5, AloneStill

LEMMA AloneWarmBoot ==
  ASSUME FTypes, AloneInv, Mine, UNCHANGED <<cast, pcur>>, Return,
         (lk' = lk /\ lk # pcur) \/ lk' = IF lk = pcur THEN -1 ELSE lk
  PROVE  AloneInv'
  <1>1. at'[pcur] = "user" /\ call'[pcur] = NoCall
    BY Frames DEF Return
  <1>2. pcur # -1
    BY FilesAssumption DEF FTypes, TypeOK, Procs
  <1>3. NoCall.op \notin Edits /\ ~ InHand("user", NoCall)
    BY DEF NoCall, Edits, InHand
  <1>4. AloneHere
    BY <1>1, <1>2, <1>3 DEF AloneHere, Asking
  <1>5. QED BY <1>4, AloneStill

LEMMA AloneCalls ==
  ASSUME FTypes, AloneInv, Calls
  PROVE  AloneInv'
  <1>1. Mine /\ UNCHANGED <<cast, pcur>>
    BY OnlyMine
  <1>2. at[pcur] = "user" /\ UNCHANGED lk
    BY DEF Calls, Quit, Reset, Begin
  <1>3. lk # pcur
    BY <1>2, AloneFacts DEF InHand
  <1>4. CASE Quit \/ Reset
    <2>1. UNCHANGED <<at, call>>
      BY <1>4 DEF Quit, Reset
    <2>2. AloneHere
      BY <1>1, <1>2, <1>3, <2>1, AloneFacts DEF AloneHere, me, Asking, InHand
    <2>3. QED BY <1>1, <2>2, AloneStill
  <1>5. ASSUME NEW op \in Ops, NEW n \in Names, NEW m \in Names, Begin(op, n, m)
        PROVE  AloneInv'
    <2> DEFINE c == [NoCall EXCEPT !.op = op, !.name = n, !.new = m, !.stage = Stage(op)]
    <2>1. call'[pcur] = c /\ at'[pcur] = IF logged THEN Site(op) ELSE "login"
      BY <1>5, Frames DEF Begin
    <2>2. c.op = op /\ op \in cast[pcur].ops
      BY <1>5 DEF NoCall, Begin
    <2> HIDE DEF c
    <2>3. at'[pcur] \in {"scan", "alloc", "data", "refused", "login"} /\ ~ InHand(at'[pcur], c)
      BY <2>1, <2>2, SiteTypes DEF InHand
    <2>4. AloneHere
      BY <1>2, <1>3, <2>1, <2>2, <2>3 DEF AloneHere, Asking
    <2>5. QED BY <1>1, <2>4, AloneStill
  <1>6. QED BY <1>4, <1>5 DEF Calls

LEMMA AloneScans ==
  ASSUME FTypes, AloneInv, "login" \notin ReadFails, Scan
  PROVE  AloneInv'
  <1>1. Mine /\ UNCHANGED <<cast, pcur>>
    BY OnlyMine
  <1>2. CASE LoginBegin
    <2> DEFINE c == [me EXCEPT !.stage = "login"]
    <2>1. at'[pcur] = "scan" /\ call'[pcur] = c /\ lk' = pcur
      BY <1>2, Frames DEF LoginBegin
    <2>2. c.op = me.op /\ c.stage = "login"
      BY FFacts DEF CallTypes
    <2> HIDE DEF c
    <2>3. AloneHere
      BY <2>1, <2>2, AloneFacts DEF AloneHere, Asking, InHand
    <2>4. QED BY <1>1, <2>3, AloneStill
  <1>3. CASE LoginEnd
    <2> DEFINE c == [me EXCEPT !.stage = Stage(me.op), !.pos = 0]
    <2>1. at'[pcur] = Site(me.op) /\ call'[pcur] = c /\ lk' = -1
      BY <1>3, Frames DEF LoginEnd
    <2>2. c.op = me.op /\ pcur # -1
      BY FFacts, FilesAssumption DEF CallTypes, Procs
    <2> HIDE DEF c
    <2>3. at'[pcur] \in {"scan", "alloc", "data", "refused"} /\ ~ InHand(at'[pcur], c)
      BY <2>1, <2>2 DEF InHand, Site, Tested
    <2>4. AloneHere
      BY <2>1, <2>2, <2>3, AloneFacts DEF AloneHere, Asking
    <2>5. QED BY <1>1, <2>4, AloneStill
  <1>4. CASE Alloc \/ PassOver
    <2>1. at[pcur] = "scan" /\ at'[pcur] = "scan" /\ call'[pcur] = NextEntry /\ lk' = lk
      BY <1>4, Frames DEF Alloc, PassOver, Offered, Scanning
    <2>2. AloneHere
      BY <2>1, Fields, AloneFacts DEF AloneHere, Asking, InHand
    <2>3. QED BY <1>1, <2>2, AloneStill
  <1>5. CASE Fetch \/ ReadOk
    <2>1. at[pcur] \in {"scan", "read"} /\ at'[pcur] \in {"scan", "read"} /\ call'[pcur] = me /\ lk' = lk
      BY <1>5, Frames DEF Fetch, ReadOk, Scanning, Locks
    <2>2. AloneHere
      BY <2>1, AloneFacts DEF AloneHere, Asking, InHand
    <2>3. QED BY <1>1, <2>2, AloneStill
  <1>6. CASE ReadFail
    <2>1. at[pcur] = "read" /\ me.stage # "login" /\ lk' = lk
      BY <1>6 DEF ReadFail, Locks, Unread
    <2>2. \/ at'[pcur] = "rask" /\ call'[pcur] = me /\ asks
          \/ at'[pcur] = "scan" /\ call'[pcur] = NextEntry
      BY <1>6, Frames DEF ReadFail, Unread
    <2>3. lk # pcur
      BY <2>1, AloneFacts DEF InHand
    <2>4. AloneHere
      BY <2>1, <2>2, <2>3, Fields, AloneFacts DEF AloneHere, InHand, Asking
    <2>5. QED BY <1>1, <2>4, AloneStill
  <1>7. CASE ScanEnd
    <2> DEFINE c == [me EXCEPT !.stage = "scan", !.pos = 0]
    <2>1. at[pcur] = "scan" /\ me.stage # "login" /\ lk' = lk
      BY <1>7 DEF ScanEnd
    <2>2. lk # pcur
      BY <2>1, AloneFacts DEF InHand
    <2>3. \/ at'[pcur] = "scan" /\ call'[pcur] = c
          \/ at'[pcur] = "user" /\ call'[pcur] = NoCall
      BY <1>7, Frames DEF ScanEnd, Return
    <2>4. c.op = me.op /\ NoCall.op \notin Edits
      BY FFacts DEF CallTypes, NoCall, Edits
    <2> HIDE DEF c
    <2>5. AloneHere
      BY <2>1, <2>2, <2>3, <2>4, AloneFacts DEF AloneHere, InHand, Asking
    <2>6. QED BY <1>1, <2>5, AloneStill
  <1>8. CASE Exists \/ Match
    <2>1. at[pcur] = "scan" /\ me.stage # "login" /\ lk' = lk /\ Return
      BY <1>8 DEF Exists, Match, Found, Offered, Scanning
    <2>2. lk # pcur
      BY <2>1, AloneFacts DEF InHand
    <2>3. QED BY <1>1, <2>1, <2>2, AloneWarmBoot
  <1>9. CASE Amend \/ Erase \/ Approach
    <2>1. /\ at[pcur] = "scan" /\ me.stage # "login" /\ lk' = lk /\ me.op \in Edits
          /\ at'[pcur] \in {"write", "refused", "enter"}
      BY <1>9, Frames DEF Amend, Erase, Approach, Found, Offered, Scanning, Edits, Tested
    <2>2. lk # pcur
      BY <2>1, AloneFacts DEF InHand
    <2>3. call'[pcur].op = me.op
      <3>1. [me EXCEPT !.gone = Here.blk].op = me.op
        BY FFacts DEF CallTypes
      <3>2. QED BY <1>9, <3>1, Frames DEF Amend, Erase, Approach
    <2>4. AloneHere
      BY <2>1, <2>2, <2>3, AloneFacts DEF AloneHere, InHand, Asking
    <2>5. QED BY <1>1, <2>4, AloneStill
  <1>10. QED BY <1>2, <1>3, <1>4, <1>5, <1>6, <1>7, <1>8, <1>9 DEF Scan

LEMMA AloneUpdates ==
  ASSUME FTypes, AloneInv, ~ GivenUp, Update
  PROVE  AloneInv'
  <1>1. Mine /\ UNCHANGED <<cast, pcur>> /\ at[pcur] \in Sites
    BY OnlyMine, FFacts
  <1>2. CASE EnterDelete \/ EnterTruncate \/ Merge
    <2>1. /\ lk' = pcur /\ at'[pcur] \in {"write", "refused"}
          /\ me.op \in {"delete", "truncate", "close"}
      BY <1>2, Frames DEF EnterDelete, EnterTruncate, Merge, Tested
    <2>2. call'[pcur].op = me.op
      <3>1. [me EXCEPT !.gone = Here.blk].op = me.op
        BY FFacts DEF CallTypes
      <3>2. QED BY <1>2, <3>1, Frames DEF EnterDelete, EnterTruncate, Merge, mineVars
    <2>3. AloneHere
      BY <2>1, <2>2, AloneFacts DEF AloneHere, Asking, InHand, Edits
    <2>4. QED BY <1>1, <2>3, AloneStill
  <1>3. CASE BadMerge
    <2>1. at[pcur] = "enter" /\ lk' = lk /\ at'[pcur] = "scan" /\ call'[pcur] = NextEntry
      BY <1>3, Frames DEF BadMerge, Locks
    <2>2. lk # pcur
      BY <2>1, AloneFacts
    <2>3. AloneHere
      BY <2>1, <2>2, Fields, AloneFacts DEF AloneHere, Asking, InHand
    <2>4. QED BY <1>1, <2>3, AloneStill
  <1>4. CASE WriteOk
    BY <1>4, AloneWritten DEF WriteOk, Locks, InHand
  <1>5. CASE WriteFail
    <2>1. CASE asks
      <3>1. /\ at[pcur] = "write" /\ lk' = lk /\ at'[pcur] = "wask" /\ call'[pcur] = me
        BY <1>5, <2>1, Frames DEF WriteFail, Locks, mineVars
      <3>2. AloneHere
        BY <2>1, <3>1, AloneFacts DEF AloneHere, InHand
      <3>3. QED BY <1>1, <3>2, AloneStill
    <2>2. CASE ~ asks
      BY <1>5, <2>2, AloneWritten DEF WriteFail, Locks, InHand
    <2>3. QED BY <2>1, <2>2
  <1>6. CASE WriteRefused
    BY <1>6, AloneWritten DEF WriteRefused, InHand, GivenUp
  <1>7. CASE GetBlock
    <2>1. at[pcur] = "alloc" /\ lk' = lk
      BY <1>7 DEF GetBlock, Locks
    <2>2. lk # pcur /\ me.op = "write"
      BY <2>1, AloneFacts, FFacts DEF InHand, Placed
    <2>3. CASE Return
      BY <1>1, <2>1, <2>2, <2>3, AloneWarmBoot
    <2>4. CASE Goto(Tested("data")) /\ UNCHANGED call
      <3>1. at'[pcur] \in {"data", "refused"} /\ call'[pcur] = me
        BY <2>4, Frames DEF Tested
      <3>2. AloneHere
        BY <2>1, <2>2, <3>1 DEF AloneHere, Asking, InHand, Edits
      <3>3. QED BY <1>1, <3>2, AloneStill
    <2>5. QED BY <1>7, <2>3, <2>4 DEF GetBlock
  <1>8. CASE Data \/ DataRefused
    <2>1. /\ at[pcur] = "data" \/ (at[pcur] = "refused" /\ me.op = "write")
          /\ Return /\ (lk' = lk \/ lk' = IF lk = pcur THEN -1 ELSE lk)
      BY <1>8 DEF Data, DataRefused, Locks, WarmBoot
    <2>2. lk # pcur
      BY <2>1, AloneFacts DEF InHand
    <2>3. QED BY <1>1, <2>1, <2>2, AloneWarmBoot
  <1>9. CASE DataFail
    <2>1. at[pcur] = "data" /\ lk' = lk /\ asks /\ at'[pcur] = "dask" /\ call'[pcur] = me
      BY <1>9, Frames DEF DataFail, Locks
    <2>2. lk # pcur
      BY <2>1, AloneFacts DEF InHand
    <2>3. AloneHere
      BY <2>1, <2>2, AloneFacts DEF AloneHere, InHand
    <2>4. QED BY <1>1, <2>3, AloneStill
  <1>10. QED BY <1>2, <1>3, <1>4, <1>5, <1>6, <1>7, <1>8, <1>9 DEF Update

LEMMA AloneAnswers ==
  ASSUME FTypes, AloneInv, Operator
  PROVE  AloneInv'
  <1>1. Mine /\ UNCHANGED <<cast, pcur>> /\ at[pcur] \in Sites
    BY OnlyMine, FFacts
  <1>2. CASE Retry
    <2>1. PICK a \in {"read", "write", "data"} : Goto(a) /\ (at[pcur] = "wask" <=> a = "write")
      BY <1>2 DEF Retry, Answered, Asking
    <2>2. at'[pcur] = a /\ call'[pcur] = me /\ at[pcur] \in Asking /\ lk' = lk
      BY <1>2, <2>1, Frames DEF Retry, Answered
    <2>3. AloneHere
      BY <2>1, <2>2, AloneFacts DEF AloneHere, Asking, InHand
    <2>4. QED BY <1>1, <2>3, AloneStill
  <1>3. CASE Continue
    <2>1. CASE at[pcur] = "rask" /\ Unread
      <3>1. at'[pcur] = "scan" /\ call'[pcur] = NextEntry /\ lk' = lk
        BY <2>1, Frames DEF Unread
      <3>2. AloneHere
        BY <2>1, <3>1, Fields, AloneFacts DEF AloneHere, Asking, InHand
      <3>3. QED BY <1>1, <3>2, AloneStill
    <2>2. CASE at[pcur] = "wask" /\ Written(FALSE) /\ UNCHANGED disk
      BY <2>2, AloneWritten DEF InHand
    <2>3. CASE at[pcur] = "dask" /\ Return /\ UNCHANGED <<cast, pcur, lk, dirVars, mineVars>>
      <3>1. lk # pcur
        BY <2>3, AloneFacts DEF InHand
      <3>2. QED BY <1>1, <2>3, <3>1, AloneWarmBoot
    <2>4. QED BY <1>3, <2>1, <2>2, <2>3 DEF Continue
  <1>4. CASE Abort
    BY <1>1, <1>4, AloneWarmBoot DEF Abort, WarmBoot
  <1>5. QED BY <1>2, <1>3, <1>4 DEF Operator

(* Whose edit is not his alone does not let go of the processor in it.     *)
LEMMA OnlyEditor ==
  ASSUME OneAsker, cast \in Casts, NEW p \in Procs, NEW q \in Procs, p # q,
         cast[p].asks, call[p].op \in Edits, call[p].op \in cast[p].ops
  PROVE  cast[q].ops \cap Edits = {}
  BY DEF OneAsker

LEMMA AloneSwitch ==
  ASSUME FTypes, AloneInv, OneAsker, NEW n \in Procs, Switch(n)
  PROVE  AloneInv'
  <1>1. /\ n # pcur /\ pcur' = n /\ UNCHANGED <<cast, at, call, lk>>
        /\ at[pcur] \in {"user"} \cup Asking \/ (at[pcur] \in AtLock /\ ~ LockFree)
        /\ pcur \in Procs /\ cast \in Casts /\ lk \in Procs \cup {-1}
    BY DEF Switch, FTypes, TypeOK
  <1>2. ASSUME ~ LockFree PROVE /\ lk \in Procs \ {pcur} /\ at[lk] = "wask" /\ cast[lk].asks
                               /\ call[lk].op \in Edits /\ call[lk].op \in cast[lk].ops
    BY <1>1, <1>2 DEF AloneInv, LockFree, InHand, Asking
  <1>3. call[pcur].op \in Edits => cast[pcur].asks
    <2>1. CASE at[pcur] = "user"
      BY <1>1, <2>1 DEF AloneInv, NoCall, Edits
    <2>2. CASE at[pcur] \in Asking
      BY <1>1, <2>2 DEF AloneInv
    <2>3. CASE ~ LockFree
      <3>1. cast[pcur].ops \cap Edits = {}
        BY <1>1, <1>2, <2>3, OnlyEditor
      <3>2. QED BY <1>1, <3>1 DEF AloneInv
    <2>4. QED BY <1>1, <2>1, <2>2, <2>3
  <1>4. lk # -1 /\ lk # n => at[lk] = "wask"
    <2>1. CASE lk = pcur
      BY <1>1, <2>1 DEF AloneInv, InHand, Asking, AtLock, LockFree
    <2>2. CASE lk # pcur
      BY <2>2 DEF AloneInv
    <2>3. QED BY <2>1, <2>2
  <1>5. lk = n => InHand(at[n], call[n]) /\ at[n] # "enter"
    <2>1. n # -1
      BY FilesAssumption DEF Procs
    <2>2. lk = n => at[n] = "wask"
      BY <1>1, <2>1 DEF AloneInv
    <2>3. QED BY <2>2 DEF InHand
  <1>6. QED BY <1>1, <1>3, <1>4, <1>5 DEF AloneInv

LEMMA AloneStep ==
  ASSUME OneAsker, "login" \notin ReadFails, FTypes, AloneInv, ~ GivenUp, Next
  PROVE  AloneInv'
  BY AloneCalls, AloneScans, AloneUpdates, AloneAnswers, AloneSwitch DEF Next

LEMMA AloneStart == Init => AloneInv
  <1> SUFFICES ASSUME Init PROVE AloneInv
    OBVIOUS
  <1>1. 0 \in Procs /\ -1 \notin Procs
    BY FilesAssumption DEF Procs
  <1>2. NoCall.op \notin Edits /\ ~ InHand("user", NoCall)
    BY DEF NoCall, Edits, InHand
  <1>3. QED BY <1>1, <1>2 DEF Init, AloneInv, Asking

-----------------------------------------------------------------------------
(* What is in hand is the directory, but for the entry that is edited.     *)
LEMMA OneEdit ==
  ASSUME FTypes, AloneInv, OneAsker, NEW p \in Procs, NEW q \in Procs,
         call[p].op \in Edits, call[q].op \in Edits
  PROVE  p = q
  <1> SUFFICES ASSUME p # q PROVE FALSE
    OBVIOUS
  <1>1. /\ call[p].op \in cast[p].ops /\ call[q].op \in cast[q].ops /\ cast \in Casts
        /\ p # pcur => cast[p].asks
        /\ q # pcur => cast[q].asks
    BY DEF AloneInv, FTypes, TypeOK
  <1>2. CASE p # pcur
    <2>1. cast[q].ops \cap Edits = {}
      BY <1>1, <1>2, OnlyEditor
    <2>2. QED BY <1>1, <2>1
  <1>3. CASE q # pcur
    <2>1. cast[p].ops \cap Edits = {}
      BY <1>1, <1>3, OnlyEditor
    <2>2. QED BY <1>1, <2>1
  <1>4. QED BY <1>2, <1>3

(* An editor is offered the entry as it is on the disk.                    *)
LEMMA OfferedOnDisk ==
  ASSUME FTypes, FreshInv, AloneInv, OneAsker, Offered, me.op \in Edits
  PROVE  /\ AsOnDisk(buf[pcur]) /\ Here = disk[me.pos] /\ buf[pcur].rec = Rec(me.pos)
         /\ me.pos \in Entries
  <1>1. /\ pcur \in fresh /\ buf[pcur].rec = Rec(me.pos) /\ at[pcur] = "scan"
        /\ me.pos \in Entries
    BY HereTypes DEF Offered, dirhave, Scanning
  <1>2. AsOnDisk(buf[pcur]) \/ Pending(buf[pcur].rec)
    BY <1>1, RecOfEntry DEF FreshInv, AtEase
  <1>3. ASSUME NEW q \in Procs, at[q] \in {"write", "wask"} PROVE FALSE
    <2>1. call[q].op \in Edits
      BY <1>3 DEF AloneInv, InHand
    <2>2. q = pcur
      BY <2>1, FFacts, OneEdit DEF me
    <2>3. QED BY <1>1, <1>3, <2>2
  <1>4. AsOnDisk(buf[pcur])
    BY <1>2, <1>3 DEF Pending, Writing
  <1>5. Here = disk[me.pos]
    BY <1>1, <1>4, RecOfEntry DEF AsOnDisk, Here
  <1>6. QED BY <1>1, <1>4, <1>5

EditHere ==
  InHand(at'[pcur], call'[pcur]) =>
    \A i \in Members(buf'[pcur].rec) \ {call'[pcur].pos} : buf'[pcur].data[i] = disk'[i]

LEMMA EditStill ==
  ASSUME FTypes, EditInv, Mine, UNCHANGED pcur,
         \/ UNCHANGED disk
         \/ \A p \in Procs \ {pcur} : ~ InHand(at[p], call[p]),
         EditHere
  PROVE  EditInv'
  <1>1. ASSUME NEW p \in Procs, p # pcur
        PROVE  at'[p] = at[p] /\ call'[p] = call[p] /\ buf'[p] = buf[p]
    BY <1>1 DEF Mine, FTypes, TypeOK
  <1>2. ASSUME NEW p \in Procs, InHand(at'[p], call'[p]),
               NEW i \in Members(buf'[p].rec) \ {call'[p].pos}
        PROVE  buf'[p].data[i] = disk'[i]
    <2>1. CASE p = pcur
      BY <1>2, <2>1 DEF EditHere
    <2>2. CASE p # pcur
      BY <1>1, <1>2, <2>2 DEF EditInv
    <2>3. QED BY <2>1, <2>2
  <1>3. QED BY <1>2 DEF EditInv, Members, Entries

(* Only the edited entry differs from the directory afterwards.            *)
LEMMA EditedOne ==
  ASSUME FTypes, NEW e \in DirEntries, Edit(e) \/ UNCHANGED buf,
         Offered \/ InHand(at[pcur], me),
         \A i \in Members(buf[pcur].rec) \ {me.pos} : buf[pcur].data[i] = disk[i],
         UNCHANGED <<pcur, disk>>, call'[pcur].pos = me.pos
  PROVE  EditHere
  <1>1. /\ me.pos \in Entries /\ buf[pcur].rec = Rec(me.pos) /\ buf'[pcur].rec = Rec(me.pos)
        /\ buf[pcur] \in Bufs
    BY HereTypes, EditTypes, FFacts
  <1>2. ASSUME NEW i \in Members(Rec(me.pos)) \ {me.pos} PROVE buf'[pcur].data[i] = buf[pcur].data[i]
    <2>1. CASE UNCHANGED buf
      BY <2>1
    <2>2. CASE Edit(e)
      <3>1. buf[pcur].data \in [Members(Rec(me.pos)) -> DirEntries]
        BY <1>1, BufShape
      <3>2. buf'[pcur].data = [buf[pcur].data EXCEPT ![me.pos] = e]
        BY <2>2, EditTypes
      <3>3. QED BY <3>1, <3>2
    <2>3. QED BY <2>1, <2>2
  <1>3. QED BY <1>1, <1>2 DEF EditHere

LEMMA OthersNotInHand ==
  ASSUME FTypes, AloneInv, OneAsker, me.op \in Edits
  PROVE  \A p \in Procs \ {pcur} : ~ InHand(at[p], call[p])
  <1>1. ASSUME NEW p \in Procs \ {pcur}, InHand(at[p], call[p]) PROVE FALSE
    <2>1. call[p].op \in Edits
      BY <1>1 DEF AloneInv
    <2>2. QED BY <1>1, <2>1, OneEdit, FFacts DEF me
  <1>2. QED BY <1>1

LEMMA EditUpdates ==
  ASSUME FTypes, AloneInv, EditInv, OneAsker, InHand(at[pcur], me),
         Update \/ Retry
  PROVE  EditInv'
  <1>1. Mine /\ UNCHANGED <<cast, pcur>>
    BY OnlyMine DEF Operator
  <1>2. \A i \in Members(buf[pcur].rec) \ {me.pos} : buf[pcur].data[i] = disk[i]
    BY FFacts DEF EditInv, me
  <1>3. me.op \in Edits /\ me \in CallTypes
    BY AloneFacts, FFacts
  <1>4. /\ fcb[pcur].blk \in 0 .. NBLK /\ Here.blk \in 0 .. NBLK /\ Here.name \in Names \cup {Gone}
    BY HereTypes, FFacts DEF FcbTypes
  <1>5. CASE EnterDelete
    <2>1. UNCHANGED <<disk, buf>> /\ call'[pcur] = me
      BY <1>5, Frames DEF EnterDelete, dirVars, mineVars
    <2>2. EditHere
      BY <1>1, <1>2, <2>1, WordsTypes, EditedOne
    <2>3. QED BY <1>1, <2>1, <2>2, EditStill
  <1>6. CASE EnterTruncate
    <2>1. /\ UNCHANGED disk /\ Edit(Entry(Here.name, 0))
          /\ call'[pcur] = [me EXCEPT !.gone = Here.blk]
      BY <1>6, Frames DEF EnterTruncate, dirVars
    <2>2. call'[pcur].pos = me.pos /\ Entry(Here.name, 0) \in DirEntries
      BY <1>3, <1>4, <2>1, Constants, WordsTypes DEF CallTypes
    <2>3. EditHere
      BY <1>1, <1>2, <2>1, <2>2, EditedOne
    <2>4. QED BY <1>1, <2>1, <2>3, EditStill
  <1>7. CASE Merge
    <2> DEFINE e == Entry(Here.name, IF Here.blk = 0 THEN fcb[pcur].blk ELSE Here.blk)
    <2>1. UNCHANGED disk /\ Edit(e) /\ call'[pcur] = me
      BY <1>7, Frames DEF Merge, dirVars
    <2>2. e \in DirEntries
      BY <1>4, WordsTypes
    <2> HIDE DEF e
    <2>3. EditHere
      BY <1>1, <1>2, <2>1, <2>2, EditedOne
    <2>4. QED BY <1>1, <2>1, <2>3, EditStill
  <1>8. CASE at'[pcur] \in {"user", "scan"} /\ (disk' = disk \/ me.op \in Edits)
    <2>1. EditHere
      BY <1>8 DEF EditHere, InHand
    <2>2. QED BY <1>1, <1>3, <2>1, EditStill, OthersNotInHand
  <1>9. CASE WriteFail /\ asks
    <2>1. /\ disk' \in {disk, Stored} /\ UNCHANGED buf /\ call'[pcur] = me
      BY <1>9, Frames DEF WriteFail, mineVars
    <2>2. buf[pcur].rec = Rec(me.pos)
      BY HereTypes
    <2>3. EditHere
      BY <1>1, <1>2, <2>1, <2>2 DEF EditHere, Stored, Members
    <2>4. QED BY <1>1, <1>3, <2>3, EditStill, OthersNotInHand
  <1>10. CASE Retry
    <2>1. UNCHANGED <<disk, buf, call>>
      BY <1>10 DEF Retry, dirVars, mineVars
    <2>2. EditHere
      BY <1>1, <1>2, <2>1 DEF EditHere, me
    <2>3. QED BY <1>1, <2>1, <2>2, EditStill
  <1>11. ASSUME NEW ok \in BOOLEAN, Written(ok) PROVE at'[pcur] \in {"user", "scan"}
    BY <1>11, Frames DEF Written, Return
  <1>12. CASE WriteOk \/ (WriteFail /\ ~ asks) \/ WriteRefused \/ BadMerge
    <2>1. at'[pcur] \in {"user", "scan"}
      BY <1>11, <1>12, Frames DEF WriteOk, WriteFail, WriteRefused, BadMerge, WarmBoot, Return
    <2>2. QED BY <1>3, <1>8, <2>1
  <1>13. ~ (GetBlock \/ Data \/ DataFail \/ DataRefused)
    BY <1>3 DEF GetBlock, Data, DataFail, DataRefused, Locks, InHand
  <1>14. QED BY <1>5, <1>6, <1>7, <1>9, <1>10, <1>12, <1>13 DEF Update

LEMMA EditPlain ==
  ASSUME FTypes, EditInv, Mine, UNCHANGED <<pcur, disk>>, ~ InHand(at'[pcur], call'[pcur])
  PROVE  EditInv'
  BY EditStill DEF EditHere

LEMMA EditCalls ==
  ASSUME FTypes, AloneInv, EditInv, Calls
  PROVE  EditInv'
  <1>1. Mine /\ UNCHANGED <<cast, pcur>>
    BY OnlyMine
  <1>2. at[pcur] = "user" /\ ~ InHand(at[pcur], me)
    BY DEF Calls, Quit, Reset, Begin, InHand
  <1>3. CASE Quit \/ Reset
    <2>1. UNCHANGED <<at, call, disk>>
      BY <1>3 DEF Quit, Reset, dirVars
    <2>2. QED BY <1>1, <1>2, <2>1, EditPlain DEF me
  <1>4. ASSUME NEW op \in Ops, NEW n \in Names, NEW m \in Names, Begin(op, n, m)
        PROVE  EditInv'
    <2> DEFINE c == [NoCall EXCEPT !.op = op, !.name = n, !.new = m, !.stage = Stage(op)]
    <2>1. call'[pcur] = c /\ at'[pcur] = (IF logged THEN Site(op) ELSE "login") /\ UNCHANGED disk
      BY <1>4, Frames DEF Begin, dirVars
    <2>2. c.op = op
      BY DEF NoCall
    <2> HIDE DEF c
    <2>3. ~ InHand(at'[pcur], c)
      BY <2>1, <2>2 DEF InHand, Site, Tested
    <2>4. QED BY <1>1, <2>1, <2>3, EditPlain
  <1>5. QED BY <1>3, <1>4 DEF Calls

LEMMA EditScans ==
  ASSUME FTypes, FreshInv, AloneInv, EditInv, OneAsker, Scan
  PROVE  EditInv'
  <1>1. Mine /\ UNCHANGED <<cast, pcur, disk>>
    BY OnlyMine DEF Scan, LoginBegin, LoginEnd, Alloc, Fetch, ReadOk, ReadFail, Unread,
       PassOver, ScanEnd, Exists, Match, Amend, Erase, Approach, dirVars
  <1>2. CASE Amend \/ Erase \/ Approach
    <2>1. Offered /\ me.op \in Edits
      BY <1>2 DEF Amend, Erase, Approach, Found, Edits
    <2>2. \A i \in Members(buf[pcur].rec) \ {me.pos} : buf[pcur].data[i] = disk[i]
      BY <2>1, OfferedOnDisk DEF AsOnDisk
    <2>3. me \in CallTypes /\ Here \in DirEntries /\ Erased \in DirEntries
      BY <2>1, FFacts, HereTypes, WordsTypes
    <2>4. Here.blk \in 0 .. NBLK /\ 0 \in 0 .. NBLK
      BY <2>3, Constants DEF DirEntries
    <2>5. CASE Amend
      <3> DEFINE e == Entry(me.new, IF me.op = "make" THEN 0 ELSE Here.blk)
      <3>1. e \in DirEntries
        BY <2>3, <2>4, WordsTypes DEF CallTypes
      <3>2. Edit(e) /\ call'[pcur] = me
        BY <2>5, Frames DEF Amend
      <3> HIDE DEF e
      <3>3. EditHere
        BY <1>1, <2>1, <2>2, <3>1, <3>2, EditedOne
      <3>4. QED BY <1>1, <3>3, EditStill
    <2>6. CASE Erase
      <3>1. Edit(Erased) /\ call'[pcur] = [me EXCEPT !.gone = Here.blk]
        BY <2>6, Frames DEF Erase
      <3>2. call'[pcur].pos = me.pos
        BY <2>3, <3>1 DEF CallTypes
      <3>3. EditHere
        BY <1>1, <2>1, <2>2, <2>3, <3>1, <3>2, EditedOne
      <3>4. QED BY <1>1, <3>3, EditStill
    <2>7. CASE Approach
      <3>1. UNCHANGED buf /\ call'[pcur] = me
        BY <2>7, Frames DEF Approach, mineVars
      <3>2. EditHere
        BY <1>1, <2>1, <2>2, <2>3, <3>1, EditedOne
      <3>3. QED BY <1>1, <3>2, EditStill
    <2>8. QED BY <1>2, <2>5, <2>6, <2>7
  <1>3. CASE LoginEnd
    <2> DEFINE c == [me EXCEPT !.stage = Stage(me.op), !.pos = 0]
    <2>1. at'[pcur] = Site(me.op) /\ call'[pcur] = c
      BY <1>3, Frames DEF LoginEnd
    <2>2. c.op = me.op
      BY FFacts DEF CallTypes
    <2> HIDE DEF c
    <2>3. ~ InHand(at'[pcur], c)
      BY <2>1, <2>2 DEF InHand, Site, Tested
    <2>4. QED BY <1>1, <2>1, <2>3, EditPlain
  <1>4. CASE ~ (Amend \/ Erase \/ Approach \/ LoginEnd)
    <2>1. at'[pcur] \in {"scan", "read", "rask", "user"}
      BY <1>4, Frames DEF Scan, LoginBegin, Alloc, Fetch, ReadOk, ReadFail, Unread,
         PassOver, ScanEnd, Exists, Match, Return
    <2>2. QED BY <1>1, <2>1, EditPlain DEF InHand
  <1>5. QED BY <1>2, <1>3, <1>4

LEMMA EditOthers ==
  ASSUME FTypes, AloneInv, EditInv, ~ InHand(at[pcur], me), Update \/ Operator
  PROVE  EditInv'
  <1>1. Mine /\ UNCHANGED <<cast, pcur>>
    BY OnlyMine
  <1>2. CASE Update
    <2>1. GetBlock \/ Data \/ DataFail \/ DataRefused
      BY <1>2 DEF Update, EnterDelete, EnterTruncate, Merge, BadMerge, WriteOk, WriteFail,
         WriteRefused, Locks, InHand
    <2>2. UNCHANGED disk
      BY <2>1 DEF GetBlock, Data, DataFail, DataRefused, dirVars
    <2>3. \/ at'[pcur] \in {"user", "dask"}
          \/ at'[pcur] \in {"data", "refused"} /\ call'[pcur] = me /\ at[pcur] = "alloc"
      BY <2>1, Frames DEF GetBlock, Data, DataFail, DataRefused, WarmBoot, Return, Tested, Locks
    <2>4. at[pcur] = "alloc" => me.op = "write"
      BY FFacts DEF Placed
    <2>5. QED BY <1>1, <2>2, <2>3, <2>4, EditPlain DEF InHand
  <1>3. CASE Operator
    <2>1. at[pcur] # "wask" /\ UNCHANGED disk
      BY <1>3 DEF InHand, Operator, Retry, Continue, Abort, Unread, dirVars
    <2>2. at'[pcur] \in {"read", "data", "scan", "user"}
      BY <1>3, <2>1, Frames DEF Operator, Retry, Continue, Abort, Answered, Asking,
         Unread, WarmBoot, Return
    <2>3. QED BY <1>1, <2>1, <2>2, EditPlain DEF InHand
  <1>4. QED BY <1>2, <1>3

LEMMA EditAnswers ==
  ASSUME FTypes, EditInv, at[pcur] = "wask", Continue \/ Abort
  PROVE  EditInv'
  <1>1. Mine /\ UNCHANGED <<cast, pcur, disk>>
    BY OnlyMine DEF Operator, Continue, Abort
  <1>2. at'[pcur] \in {"user", "scan"}
    BY Frames DEF Continue, Abort, Written, WarmBoot, Return
  <1>3. QED BY <1>1, <1>2, EditPlain DEF InHand

LEMMA EditStep ==
  ASSUME FTypes, FreshInv, AloneInv, EditInv, OneAsker, Next
  PROVE  EditInv'
  <1>1. CASE Calls
    BY <1>1, EditCalls
  <1>2. CASE Scan
    BY <1>2, EditScans
  <1>3. CASE Update \/ Operator
    <2>1. CASE ~ InHand(at[pcur], me)
      BY <1>3, <2>1, EditOthers
    <2>2. CASE InHand(at[pcur], me) /\ (Update \/ Retry)
      BY <2>2, EditUpdates
    <2>3. CASE InHand(at[pcur], me) /\ (Continue \/ Abort)
      <3>1. at[pcur] = "wask"
        BY <2>3 DEF InHand, Continue, Abort, Answered, Asking
      <3>2. QED BY <2>3, <3>1, EditAnswers
    <2>4. QED BY <1>3, <2>1, <2>2, <2>3 DEF Operator
  <1>4. CASE \E q \in Procs : Switch(q)
    BY <1>4 DEF Switch, EditInv, dirVars, mineVars
  <1>5. QED BY <1>1, <1>2, <1>3, <1>4 DEF Next

LEMMA EditStart == Init => EditInv
  BY DEF Init, EditInv, InHand

(* A record is written over one that differs from it in the entry the call *)
(* is about.                                                               *)
LEMMA OnlyItsEntry ==
  ASSUME FTypes, AloneInv, EditInv, Next, NEW i \in Entries, disk'[i] # disk[i]
  PROVE  i = call[pcur].pos
  <1>1. disk' # disk
    OBVIOUS
  <1>2. WriteOk \/ WriteFail
    BY <1>1 DEF Next, Calls, Quit, Reset, Begin, Scan, LoginBegin, LoginEnd, Alloc, Fetch,
       ReadOk, ReadFail, Unread, PassOver, ScanEnd, Exists, Match, Amend, Erase, Approach,
       Update, EnterDelete, EnterTruncate, Merge, BadMerge, WriteRefused, GetBlock, Data,
       DataFail, DataRefused, Operator, Retry, Continue, Abort, Switch, dirVars
  <1>3. at[pcur] = "write" /\ disk' = Stored
    BY <1>1, <1>2 DEF WriteOk, WriteFail, Locks
  <1>4. /\ InHand(at[pcur], me) /\ buf[pcur].rec = Rec(me.pos)
        /\ \A j \in Members(buf[pcur].rec) \ {me.pos} : buf[pcur].data[j] = disk[j]
    BY <1>3, FFacts DEF InHand, Placed, EditInv, me
  <1>5. Rec(i) = Rec(me.pos) /\ disk'[i] = buf[pcur].data[i]
    BY <1>3 DEF Stored
  <1>6. QED BY <1>4, <1>5 DEF Members, me

(* A directory write changes the entry its call is about and no other,     *)
(* where nobody edits the directory beside a program that leaves its disk  *)
(* errors to the operator, no record is missing from a login, and no       *)
(* program is given up with part of the directory in hand.                 *)
THEOREM NoUpdateIsLost ==
  ASSUME OneAsker, "login" \notin ReadFails
  PROVE  Spec /\ [][~ GivenUp]_vars => NoLostUpdate
  <1> DEFINE Inv == FTypes /\ FreshInv /\ AloneInv /\ EditInv
  <1>1. Init => Inv
    BY FilesStart, FreshStart, AloneStart, EditStart
  <1>2. Inv /\ [Next]_vars /\ [~ GivenUp]_vars => Inv'
    <2> SUFFICES ASSUME Inv, [Next]_vars, [~ GivenUp]_vars PROVE Inv'
      OBVIOUS
    <2>1. CASE UNCHANGED vars
      BY <2>1 DEF vars, dirVars, mineVars, FTypes, TypeOK, FreshInv, AloneInv, EditInv,
         AsOnDisk, Pending, LockFree
    <2>2. CASE Next /\ ~ GivenUp
      BY <2>2, TypesStep, FreshStep, AloneStep, EditStep
    <2>3. QED BY <2>1, <2>2
  <1>3. Inv /\ [Next]_vars =>
          [\A i \in Entries : disk'[i] # disk[i] => i = call[pcur].pos]_vars
    BY OnlyItsEntry DEF vars, dirVars
  <1>4. QED BY <1>1, <1>2, <1>3, PTL DEF Spec, NoLostUpdate

-----------------------------------------------------------------------------
(* Nobody resets the drive where somebody who asks edits the directory.    *)
EditorAsks(c) == \E p \in Procs : c[p].asks /\ c[p].ops \cap Edits # {}

NoReset == \A c \in Casts : EditorAsks(c) => \A q \in Procs : "reset" \notin c[q].ops

(* The drive is logged in wherever its vector is relied on.                *)
LogAt(p, a, c) ==
  /\ a = "login" => p = pcur /\ ~ logged /\ c.pos = 0
  /\ c.stage = "login" => p = pcur /\ ~ logged /\ lk = p /\ a \in {"scan", "read"}
  /\ c.op \in Edits => /\ c.name \in Names /\ c.new \in Names
                       /\ logged \/ a = "login" \/ c.stage = "login"
  /\ a = "alloc" => logged /\ (p = pcur \/ EditorAsks(cast))

LogInv == /\ \A p \in Procs : LogAt(p, at[p], call[p])
          /\ ~ logged => \A p \in Procs : ~ fcb[p].dirty

-----------------------------------------------------------------------------
(* What a step leaves of the call, and what it does to the FCB.            *)
SameCall(c, d) == c.op = d.op /\ c.name = d.name /\ c.new = d.new

Moving == \/ Alloc \/ Fetch \/ ReadOk \/ ReadFail \/ PassOver \/ ScanEnd
          \/ Exists \/ Match \/ Amend \/ Erase \/ Approach

LEMMA CallFields ==
  ASSUME FTypes
  PROVE  /\ SameCall(me, me) /\ SameCall(NextEntry, me) /\ NextEntry.stage = me.stage
         /\ \A k : LET c == [me EXCEPT !.gone = k]
                  IN  SameCall(c, me) /\ c.stage = me.stage /\ c.pos = me.pos /\ c.gone = k
         /\ \A t, k : LET c == [me EXCEPT !.stage = t, !.pos = k]
                     IN  SameCall(c, me) /\ c.stage = t /\ c.pos = k
         /\ LET c == [me EXCEPT !.stage = "login"]
            IN  SameCall(c, me) /\ c.stage = "login" /\ c.pos = me.pos
  <1>1. me \in CallTypes
    BY FFacts
  <1>2. QED BY <1>1 DEF NextEntry, CallTypes, SameCall

Midway == {"scan", "read", "rask", "write", "refused", "enter", "wask", "data", "dask"}

LEMMA CallMoves ==
  ASSUME FTypes, Moving \/ Update \/ Operator
  PROVE  \/ at'[pcur] = "user" /\ call'[pcur] = NoCall
         \/ /\ SameCall(call'[pcur], me) /\ at'[pcur] \in Midway
            /\ \/ call'[pcur].stage = me.stage
               \/ ScanEnd /\ me.stage = "exists" /\ call'[pcur].stage = "scan"
  <1> DEFINE Ended == at'[pcur] = "user" /\ call'[pcur] = NoCall
             Goes  == call'[pcur] \in {me, NextEntry} /\ at'[pcur] \in Midway
  <1>1. ASSUME Goes
        PROVE  /\ SameCall(call'[pcur], me) /\ at'[pcur] \in Midway
               /\ call'[pcur].stage = me.stage
    BY <1>1, CallFields
  <1>2. CASE ScanEnd
    <2> DEFINE c == [me EXCEPT !.stage = "scan", !.pos = 0]
    <2>1. SameCall(c, me) /\ c.stage = "scan"
      BY CallFields
    <2>2. \/ at'[pcur] = "scan" /\ call'[pcur] = c /\ me.stage = "exists"
          \/ Ended
      BY <1>2, Frames DEF ScanEnd, Return
    <2> HIDE DEF c
    <2>3. QED BY <1>2, <2>1, <2>2 DEF Midway
  <1>3. CASE Erase \/ EnterTruncate
    <2> DEFINE c == [me EXCEPT !.gone = Here.blk]
    <2>1. SameCall(c, me) /\ c.stage = me.stage
      BY CallFields
    <2>2. at'[pcur] \in {"enter", "write", "refused"} /\ call'[pcur] = c
      BY <1>3, Frames DEF Erase, EnterTruncate, Tested
    <2> HIDE DEF c
    <2>3. QED BY <2>1, <2>2 DEF Midway
  <1>4. CASE Alloc \/ Fetch \/ ReadOk \/ ReadFail \/ PassOver \/ Exists \/ Match \/ Amend \/ Approach
    <2>1. Goes \/ Ended
      BY <1>4, Frames DEF Alloc, Fetch, ReadOk, ReadFail, Unread, PassOver, Exists,
         Match, Amend, Approach, Return, Tested, mineVars, Midway
    <2>2. QED BY <1>1, <2>1
  <1>5. ASSUME NEW ok \in BOOLEAN, Written(ok) PROVE Goes \/ Ended
    BY <1>5, Frames DEF Written, Return, Midway
  <1>6. ASSUME EnterDelete \/ Merge \/ BadMerge \/ GetBlock \/ Data \/ DataFail \/ DataRefused
        PROVE  Goes \/ Ended
    BY <1>6, Frames DEF EnterDelete, Merge, BadMerge, GetBlock, Data, DataFail,
       DataRefused, WarmBoot, Return, Tested, mineVars, Midway
  <1>7. ASSUME WriteOk \/ WriteFail \/ WriteRefused PROVE Goes \/ Ended
    BY <1>5, <1>7, Frames DEF WriteOk, WriteFail, WriteRefused, WarmBoot, Return, mineVars, Midway
  <1>8. ASSUME Retry PROVE Goes
    <2>1. at'[pcur] \in {"read", "write", "data"}
      BY <1>8, Frames DEF Retry, Answered, Asking
    <2>2. QED BY <1>8, <2>1, Frames DEF Retry, mineVars, Midway
  <1>9. ASSUME Continue \/ Abort PROVE Goes \/ Ended
    BY <1>5, <1>9, Frames DEF Continue, Unread, Return, Midway, Abort, WarmBoot
  <1> HIDE DEF Goes, Ended
  <1>10. Ended \/ Goes => \/ at'[pcur] = "user" /\ call'[pcur] = NoCall
                         \/ /\ SameCall(call'[pcur], me) /\ at'[pcur] \in Midway
                            /\ call'[pcur].stage = me.stage
    BY <1>1 DEF Ended
  <1>11. QED
    BY <1>2, <1>3, <1>4, <1>6, <1>7, <1>8, <1>9, <1>10 DEF Moving, Update, Operator

LEMMA FcbMoves ==
  ASSUME FTypes, Calls \/ Scan \/ Update \/ Operator
  PROVE  \/ fcb'[pcur] = fcb[pcur]
         \/ fcb'[pcur] = NoFile
         \/ /\ InHand(at[pcur], me) /\ me.op = "make" /\ at'[pcur] = "user" /\ ~ Match
            /\ fcb'[pcur] = [name |-> me.name, blk |-> 0, dirty |-> TRUE]
         \/ Match /\ fcb'[pcur] = [name |-> Here.name, blk |-> Here.blk, dirty |-> FALSE]
         \/ GetBlock /\ \E b \in getaloc : /\ alv' = alv \cup {b}
                                          /\ fcb'[pcur].name = fcb[pcur].name
                                          /\ fcb'[pcur].blk = b /\ fcb'[pcur].dirty = TRUE
  <1>1. /\ pcur \in Procs /\ fcb \in [Procs -> FcbTypes]
        /\ \A f : fcb' = [fcb EXCEPT ![pcur] = f] => fcb'[pcur] = f
    BY DEF FTypes, TypeOK, FcbTypes
  <1>2. ASSUME NEW ok \in BOOLEAN, Written(ok), InHand(at[pcur], me)
        PROVE  \/ fcb'[pcur] = fcb[pcur] \/ fcb'[pcur] = NoFile
               \/ /\ me.op = "make" /\ at'[pcur] = "user"
                  /\ fcb'[pcur] = [name |-> me.name, blk |-> 0, dirty |-> TRUE]
    BY <1>1, <1>2, Frames DEF Written, Opened, Return
  <1>3. CASE Calls
    BY <1>1, <1>3 DEF Calls, Quit, Reset, Begin
  <1>4. CASE Scan
    <2>1. CASE Match
      BY <1>1, <2>1 DEF Match
    <2>2. CASE ScanEnd
      BY <1>1, <2>2 DEF ScanEnd
    <2>3. QED BY <1>4, <2>1, <2>2 DEF Scan, LoginBegin, LoginEnd, Alloc, Fetch, ReadOk, ReadFail,
                Unread, PassOver, Exists, Amend, Erase, Approach, mineVars
  <1>5. CASE WriteOk \/ WriteFail \/ WriteRefused \/ (Continue /\ at[pcur] = "wask")
    <2>1. InHand(at[pcur], me) /\ ~ Match
      BY <1>5 DEF WriteOk, WriteFail, WriteRefused, Locks, InHand, Match, Found, Offered, Scanning
    <2>2. CASE \E ok \in BOOLEAN : Written(ok)
      BY <1>2, <2>1, <2>2
    <2>3. CASE fcb'[pcur] \in {fcb[pcur], NoFile}
      BY <2>3
    <2>4. QED BY <1>1, <1>5, <2>2, <2>3 DEF WriteOk, WriteFail, WriteRefused, Continue, WarmBoot, mineVars
  <1>6. CASE GetBlock
    <2>1. CASE UNCHANGED fcb
      BY <2>1
    <2>2. ASSUME NEW b \in getaloc, alv' = alv \cup {b},
                 fcb' = [fcb EXCEPT ![pcur].blk = b, ![pcur].dirty = TRUE]
          PROVE  /\ fcb'[pcur].name = fcb[pcur].name
                 /\ fcb'[pcur].blk = b /\ fcb'[pcur].dirty = TRUE
      BY <1>1, <2>2 DEF FcbTypes
    <2>3. QED BY <1>6, <2>1, <2>2 DEF GetBlock
  <1>7. CASE Update /\ ~ (WriteOk \/ WriteFail \/ WriteRefused \/ GetBlock)
    BY <1>1, <1>7 DEF Update, EnterDelete, EnterTruncate, Merge, BadMerge, Data, DataFail,
       DataRefused, WarmBoot, mineVars
  <1>8. CASE Operator /\ ~ (Continue /\ at[pcur] = "wask")
    BY <1>1, <1>8 DEF Operator, Retry, Continue, Unread, Abort, WarmBoot, mineVars
  <1>9. QED BY <1>3, <1>4, <1>5, <1>6, <1>7, <1>8 DEF Update

-----------------------------------------------------------------------------
(* The drive is logged in wherever its vector is relied on.                *)
LogHere ==
  /\ at'[pcur] = "login" => ~ logged' /\ call'[pcur].pos = 0
  /\ call'[pcur].stage = "login" => ~ logged' /\ lk' = pcur /\ at'[pcur] \in {"scan", "read"}
  /\ call'[pcur].op \in Edits =>
       /\ call'[pcur].name \in Names /\ call'[pcur].new \in Names
       /\ logged' \/ at'[pcur] = "login" \/ call'[pcur].stage = "login"
  /\ at'[pcur] = "alloc" => logged'

LEMMA LogStill ==
  ASSUME FTypes, LogInv, Mine, UNCHANGED <<cast, pcur>>, LogHere,
         logged' = logged \/ logged' = TRUE,
         fcb'[pcur].dirty => fcb[pcur].dirty \/ logged'
  PROVE  LogInv'
  <1>1. ASSUME NEW p \in Procs, p # pcur
        PROVE  at'[p] = at[p] /\ call'[p] = call[p] /\ fcb'[p] = fcb[p]
    BY <1>1 DEF Mine, FTypes, TypeOK
  <1>2. ASSUME NEW p \in Procs PROVE LogAt(p, at[p], call[p])'
    <2>1. CASE p = pcur
      BY <2>1 DEF LogHere, LogAt
    <2>2. CASE p # pcur
      <3>1. LogAt(p, at[p], call[p])
        BY DEF LogInv
      <3>2. QED BY <1>1, <2>2, <3>1 DEF LogAt
    <2>3. QED BY <2>1, <2>2
  <1>3. ASSUME ~ logged', NEW p \in Procs PROVE ~ fcb'[p].dirty
    BY <1>1, <1>3 DEF LogInv
  <1>4. QED BY <1>2, <1>3 DEF LogInv

LEMMA LogFacts ==
  ASSUME FTypes, LogInv
  PROVE  /\ LogAt(pcur, at[pcur], me)
         /\ ~ logged => ~ fcb[pcur].dirty
  BY DEF FTypes, TypeOK, LogInv, me

LEMMA NotLogging ==
  ASSUME FTypes, LogInv, at[pcur] \notin {"scan", "read"}
  PROVE  me.stage # "login"
  BY LogFacts DEF LogAt

(* A step of a call that does not log in.                                  *)
LEMMA LogMoves ==
  ASSUME FTypes, AloneInv, LogInv, "login" \notin ReadFails, Moving \/ Update \/ Operator
  PROVE  LogInv'
  <1>1. Mine /\ UNCHANGED <<cast, pcur>>
    BY OnlyMine DEF Moving, Scan
  <1>2. /\ UNCHANGED logged /\ at[pcur] \notin {"login", "user"}
    BY DEF Moving, Update, Operator, Alloc, Fetch, ReadOk, ReadFail, Unread, PassOver, ScanEnd,
       Exists, Match, Amend, Erase, Approach, Found, Offered, Scanning, Locks, EnterDelete,
       EnterTruncate, Merge, BadMerge, WriteOk, WriteFail, WriteRefused, Written, WarmBoot,
       GetBlock, Data, DataFail, DataRefused, Retry, Continue, Abort, Answered, Asking, dirVars
  <1>3. ASSUME me.stage = "login"
        PROVE  at'[pcur] \in {"scan", "read"} /\ UNCHANGED lk
    <2>1. at[pcur] \in {"scan", "read"}
      BY <1>3, NotLogging
    <2>2. ~ Update /\ ~ Operator
      BY <2>1 DEF Update, Operator, EnterDelete, EnterTruncate, Merge, BadMerge, WriteOk, WriteFail,
         WriteRefused, GetBlock, Data, DataFail, DataRefused, Retry, Continue, Abort, Answered,
         Asking, Locks
    <2>3. Alloc \/ Fetch \/ ReadOk
      BY <1>3, <2>2 DEF Moving, ReadFail, PassOver, ScanEnd, Exists, Match, Amend, Erase, Approach, Found
    <2>4. QED BY <2>3, Frames DEF Alloc, Fetch, ReadOk
  <1>4. LogHere
    <2>1. CASE at'[pcur] = "user" /\ call'[pcur] = NoCall
      BY <2>1 DEF LogHere, NoCall, Edits
    <2>2. CASE SameCall(call'[pcur], me) /\ at'[pcur] \in Midway /\ call'[pcur].stage = me.stage
      BY <1>2, <1>3, <2>2, LogFacts DEF LogHere, LogAt, SameCall, Midway
    <2>3. CASE /\ SameCall(call'[pcur], me) /\ at'[pcur] \in Midway
               /\ me.stage = "exists" /\ call'[pcur].stage = "scan"
      BY <1>2, <2>3, LogFacts DEF LogHere, LogAt, SameCall, Midway
    <2>4. QED BY <2>1, <2>2, <2>3, CallMoves
  <1>5. fcb'[pcur].dirty => fcb[pcur].dirty \/ logged
    <2>1. InHand(at[pcur], me) => logged
      BY <1>2, NotLogging, LogFacts, AloneFacts DEF LogAt, InHand
    <2>2. GetBlock => logged
      BY LogFacts DEF LogAt, GetBlock, Locks
    <2>3. QED BY <2>1, <2>2, FcbMoves DEF NoFile, Moving, Scan
  <1>6. QED BY <1>1, <1>2, <1>4, <1>5, LogStill

LEMMA LogLogin ==
  ASSUME FTypes, LogInv, LoginBegin \/ LoginEnd
  PROVE  LogInv'
  <1>1. Mine /\ UNCHANGED <<cast, pcur, fcb>> /\ logged \in BOOLEAN
    BY OnlyMine DEF Scan, LoginBegin, LoginEnd, mineVars, FTypes, TypeOK
  <1>2. CASE LoginBegin
    <2> DEFINE c == [me EXCEPT !.stage = "login"]
    <2>1. /\ call'[pcur] = c /\ at'[pcur] = "scan" /\ UNCHANGED logged /\ lk' = pcur
          /\ at[pcur] = "login"
      BY <1>2, Frames DEF LoginBegin, Locks
    <2>2. SameCall(c, me) /\ c.stage = "login"
      BY CallFields
    <2> HIDE DEF c
    <2>3. LogHere
      BY <2>1, <2>2, LogFacts DEF LogHere, LogAt, SameCall
    <2>4. QED BY <1>1, <2>1, <2>3, LogStill
  <1>3. CASE LoginEnd
    <2> DEFINE c == [me EXCEPT !.stage = Stage(me.op), !.pos = 0]
    <2>1. /\ call'[pcur] = c /\ at'[pcur] = Site(me.op) /\ logged' = TRUE
      BY <1>3, Frames DEF LoginEnd
    <2>2. SameCall(c, me) /\ c.stage = Stage(me.op)
      BY CallFields
    <2> HIDE DEF c
    <2>3. at'[pcur] # "login" /\ Stage(me.op) # "login"
      BY <2>1 DEF Site, Tested, Stage
    <2>4. LogHere
      BY <2>1, <2>2, <2>3, LogFacts DEF LogHere, LogAt, SameCall
    <2>5. QED BY <1>1, <2>1, <2>4, LogStill
  <1>4. QED BY <1>2, <1>3

LEMMA LogCalls ==
  ASSUME FTypes, AloneInv, LogInv, NoReset, Calls
  PROVE  LogInv'
  <1>1. Mine /\ UNCHANGED <<cast, pcur>> /\ cast \in Casts /\ pcur \in Procs
    BY OnlyMine DEF FTypes, TypeOK
  <1>2. CASE Quit
    <2>1. UNCHANGED <<at, call, logged, lk>> /\ fcb'[pcur] = NoFile
      BY <1>2, Frames DEF Quit, dirVars
    <2>2. LogHere
      BY <1>1, <2>1, LogFacts DEF LogHere, LogAt, me
    <2>3. QED BY <1>1, <2>1, <2>2, LogStill DEF NoFile
  <1>3. CASE Reset
    <2>1. /\ UNCHANGED <<at, call, fcb, lk, cast, pcur>> /\ at[pcur] = "user" /\ me = NoCall
          /\ "reset" \in cast[pcur].ops /\ \A p \in Procs : ~ fcb[p].dirty
      BY <1>3, AloneFacts DEF Reset
    <2>2. ~ EditorAsks(cast)
      BY <1>1, <2>1 DEF NoReset
    <2>3. ASSUME NEW p \in Procs PROVE at[p] # "alloc" /\ call[p].op \notin Edits
      <3>1. CASE p = pcur
        BY <2>1, <3>1 DEF me, NoCall, Edits
      <3>2. CASE p # pcur
        <4>1. LogAt(p, at[p], call[p])
          BY DEF LogInv
        <4>2. at[p] # "alloc"
          BY <2>2, <3>2, <4>1 DEF LogAt
        <4>3. call[p].op \in Edits => cast[p].asks /\ call[p].op \in cast[p].ops
          BY <3>2 DEF AloneInv
        <4>4. QED BY <2>2, <4>2, <4>3 DEF EditorAsks
      <3>3. QED BY <3>1, <3>2
    <2>4. ASSUME NEW p \in Procs PROVE LogAt(p, at[p], call[p])'
      <3>1. LogAt(p, at[p], call[p]) /\ logged' = FALSE
        BY <1>3 DEF LogInv, Reset
      <3>2. QED BY <2>1, <2>3, <3>1 DEF LogAt
    <2>5. QED BY <2>1, <2>4 DEF LogInv
  <1>4. ASSUME NEW op \in Ops, NEW n \in Names, NEW m \in Names, Begin(op, n, m)
        PROVE  LogInv'
    <2> DEFINE c == [NoCall EXCEPT !.op = op, !.name = n, !.new = m, !.stage = Stage(op)]
    <2>1. /\ call'[pcur] = c /\ at'[pcur] = (IF logged THEN Site(op) ELSE "login")
          /\ UNCHANGED <<logged, fcb>>
      BY <1>4, Frames DEF Begin, dirVars
    <2>2. c.op = op /\ c.name = n /\ c.new = m /\ c.pos = 0 /\ c.stage = Stage(op)
      BY DEF NoCall
    <2>3. Stage(op) # "login" /\ Site(op) # "login"
      BY DEF Stage, Site, Tested
    <2> HIDE DEF c
    <2>4. LogHere
      BY <2>1, <2>2, <2>3 DEF LogHere
    <2>5. QED BY <1>1, <2>1, <2>4, LogStill
  <1>5. QED BY <1>2, <1>3, <1>4 DEF Calls

(* Whoever gives the processor away at a lock gives it to nobody who could *)
(* log the drive out.                                                      *)
LEMMA LogSwitch ==
  ASSUME FTypes, AloneInv, LogInv, NEW n \in Procs, Switch(n)
  PROVE  LogInv'
  <1>1. /\ n # pcur /\ pcur' = n /\ UNCHANGED <<cast, at, call, lk, logged, fcb>>
        /\ at[pcur] \in {"user"} \cup Asking \/ (at[pcur] \in AtLock /\ ~ LockFree)
        /\ pcur \in Procs /\ lk \in Procs \cup {-1}
    BY DEF Switch, FTypes, TypeOK, dirVars, mineVars
  <1>2. ASSUME ~ LockFree PROVE logged /\ EditorAsks(cast) /\ lk # pcur
    <2>1. /\ lk \in Procs \ {pcur} /\ at[lk] = "wask" /\ cast[lk].asks
          /\ call[lk].op \in Edits /\ call[lk].op \in cast[lk].ops
      BY <1>1, <1>2 DEF AloneInv, LockFree, InHand, Asking
    <2>2. LogAt(lk, at[lk], call[lk])
      BY <2>1 DEF LogInv
    <2>3. QED BY <2>1, <2>2 DEF LogAt, EditorAsks
  <1>3. ASSUME NEW p \in Procs PROVE LogAt(p, at[p], call[p])'
    <2>1. LogAt(p, at[p], call[p])
      BY DEF LogInv
    <2>2. CASE p = pcur
      <3>1. at[p] # "login" /\ call[p].stage # "login"
        BY <1>1, <1>2, <2>1, <2>2 DEF LogAt, Asking, AtLock
      <3>2. at[p] = "alloc" => EditorAsks(cast)
        BY <1>1, <1>2, <2>2 DEF Asking
      <3>3. QED BY <1>1, <2>1, <3>1, <3>2 DEF LogAt
    <2>3. CASE p # pcur
      BY <1>1, <2>1, <2>3 DEF LogAt
    <2>4. QED BY <2>2, <2>3
  <1>4. QED BY <1>1, <1>3 DEF LogInv

LEMMA LogStep ==
  ASSUME FTypes, AloneInv, LogInv, NoReset, "login" \notin ReadFails, Next
  PROVE  LogInv'
  BY LogCalls, LogLogin, LogMoves, LogSwitch DEF Next, Scan, Moving

LEMMA LogStart == Init => LogInv
  BY DEF Init, LogInv, LogAt, NoCall, NoFile, Edits

-----------------------------------------------------------------------------
(* Names.  What is known of the name in hand, and of those a make or a     *)
(* rename has passed, with the login's and the mark's part in it.          *)
Naming(a, c, s) == c.op \in {"make", "rename"} /\ c.stage = s /\ a \in {"scan", "read", "rask"}

NameAt(a, c, b, d, h) ==
  /\ InHand(a, c) =>
       LET n == b.data[c.pos].name
       IN  \A i \in Entries \ {c.pos} : /\ n # Gone => d[i].name # n
                                        /\ c.op = "rename" => d[i].name # c.name
  /\ InHand(a, c) => c.stage = "scan" /\ (c.op # "make" => c.pos <= h)
  /\ Naming(a, c, "exists") =>
       a # "rask" /\ \A i \in Entries : i < c.pos => d[i].name # c.new
  /\ Naming(a, c, "scan") =>
       \/ \A i \in Entries : d[i].name # c.new
       \/ c.op = "rename" /\ \A i \in Entries : i >= c.pos => d[i].name # c.name
  /\ c.stage = "login" => \A i \in Entries : i < c.pos /\ d[i].name # Gone => i <= h

MakingAt(i) == \E q \in Procs : Writing(at[q]) /\ call[q].op = "make" /\ call[q].pos = i

BelowMark == logged => \A i \in Entries : disk[i].name # Gone => i <= hiwater \/ MakingAt(i)

NameInv == /\ NamesUnique /\ BelowMark
           /\ \A p \in Procs : NameAt(at[p], call[p], buf[p], disk, hiwater)

LEMMA NameIdle ==
  ASSUME NEW a, NEW c, NEW b, NEW d, NEW h, ~ InHand(a, c), c.stage # "login",
         a \notin {"scan", "read", "rask"} \/ c.op \notin {"make", "rename"}
  PROVE  NameAt(a, c, b, d, h)
  BY DEF NameAt, Naming

(* A call that starts its scan.                                            *)
LEMMA NameFresh ==
  ASSUME NEW a, NEW c, NEW b, NEW d, NEW h, c.pos = 0, c.stage = Stage(c.op),
         ~ InHand(a, c), a # "rask"
  PROVE  NameAt(a, c, b, d, h)
  <1>1. \A i \in Entries : ~ (i < 0)
    BY FilesAssumption DEF Entries
  <1>2. c.stage # "login" /\ ~ Naming(a, c, "scan")
    BY DEF Stage, Naming
  <1>3. QED BY <1>1, <1>2 DEF NameAt

LEMMA NameFacts ==
  ASSUME FTypes, NameInv
  PROVE  NameAt(at[pcur], me, buf[pcur], disk, hiwater)
  BY DEF FTypes, TypeOK, NameInv, me

LEMMA NameOthers ==
  ASSUME FTypes, AloneInv, LogInv, NameInv, Mine, UNCHANGED <<cast, pcur>>,
         NameAt(at'[pcur], call'[pcur], buf'[pcur], disk', hiwater'),
         \/ UNCHANGED <<disk, hiwater>>
         \/ \A p \in Procs \ {pcur} : call[p].op \notin Edits
  PROVE  \A p \in Procs : NameAt(at'[p], call'[p], buf'[p], disk', hiwater')
  <1>1. ASSUME NEW p \in Procs, p # pcur
        PROVE  NameAt(at'[p], call'[p], buf'[p], disk', hiwater')
    <2>1. at'[p] = at[p] /\ call'[p] = call[p] /\ buf'[p] = buf[p]
      BY <1>1 DEF Mine, FTypes, TypeOK
    <2>2. CASE UNCHANGED <<disk, hiwater>>
      BY <2>1, <2>2 DEF NameInv
    <2>3. CASE call[p].op \notin Edits
      <3>1. ~ InHand(at[p], call[p]) /\ call[p].stage # "login"
        BY <1>1, <2>3 DEF AloneInv, LogInv, LogAt
      <3>2. QED BY <2>1, <2>3, <3>1, NameIdle DEF Edits
    <2>4. QED BY <1>1, <2>2, <2>3
  <1>2. QED BY <1>1

LEMMA NameQuiet ==
  ASSUME FTypes, AloneInv, LogInv, NameInv, Mine, UNCHANGED <<cast, pcur, disk, hiwater>>,
         logged' => logged,
         Writing(at[pcur]) => Writing(at'[pcur]) /\ call'[pcur] = me,
         NameAt(at'[pcur], call'[pcur], buf'[pcur], disk, hiwater)
  PROVE  NameInv'
  <1>1. ASSUME NEW i, MakingAt(i) PROVE MakingAt(i)'
    <2>1. PICK q \in Procs : Writing(at[q]) /\ call[q].op = "make" /\ call[q].pos = i
      BY <1>1 DEF MakingAt
    <2>2. q # pcur => at'[q] = at[q] /\ call'[q] = call[q]
      BY DEF Mine, FTypes, TypeOK
    <2>3. Writing(at'[q]) /\ call'[q] = call[q]
      BY <2>1, <2>2 DEF me
    <2>4. QED BY <2>1, <2>3 DEF MakingAt
  <1>2. BelowMark'
    BY <1>1 DEF NameInv, BelowMark
  <1>3. NamesUnique'
    BY DEF NameInv, NamesUnique
  <1>4. QED BY <1>2, <1>3, NameOthers DEF NameInv

LEMMA NameCalls ==
  ASSUME FTypes, AloneInv, LogInv, NameInv, Calls
  PROVE  NameInv'
  <1>1. Mine /\ UNCHANGED <<cast, pcur, disk, hiwater>>
    BY OnlyMine DEF Calls, Quit, Reset, Begin, dirVars
  <1>2. at[pcur] = "user" /\ ~ Writing(at[pcur])
    BY DEF Calls, Quit, Reset, Begin, Writing
  <1>0. logged' => logged
    BY DEF Calls, Quit, Reset, Begin, dirVars
  <1>3. CASE Quit \/ Reset
    <2>1. UNCHANGED <<at, call>> /\ me.stage # "login"
      BY <1>2, <1>3, NotLogging DEF Quit, Reset
    <2>2. NameAt(at'[pcur], call'[pcur], buf'[pcur], disk, hiwater)
      BY <1>2, <2>1, NameIdle DEF me, InHand
    <2>3. QED BY <1>1, <1>2, <2>2, NameQuiet, <1>0
  <1>4. ASSUME NEW op \in Ops, NEW n \in Names, NEW m \in Names, Begin(op, n, m)
        PROVE  NameInv'
    <2> DEFINE c == [NoCall EXCEPT !.op = op, !.name = n, !.new = m, !.stage = Stage(op)]
    <2>1. call'[pcur] = c /\ at'[pcur] = (IF logged THEN Site(op) ELSE "login")
      BY <1>4, Frames DEF Begin
    <2>2. c.op = op /\ c.stage = Stage(op) /\ c.pos = 0
      BY DEF NoCall
    <2> HIDE DEF c
    <2>3. ~ InHand(at'[pcur], c) /\ at'[pcur] # "rask"
      BY <1>4, <2>1, <2>2 DEF InHand, Site, Tested, Begin
    <2>4. NameAt(at'[pcur], c, buf'[pcur], disk, hiwater)
      BY <2>2, <2>3, NameFresh
    <2>5. QED BY <1>1, <1>2, <2>1, <2>4, NameQuiet, <1>0
  <1>5. QED BY <1>3, <1>4 DEF Calls

(* During a login nobody edits, and it is offered what is on the disk.     *)
LEMMA LoginOnDisk ==
  ASSUME FTypes, FreshInv, AloneInv, LogInv, Offered, me.stage = "login"
  PROVE  /\ \A q \in Procs \ {pcur} : call[q].op \notin Edits
         /\ ~ logged /\ Here = disk[me.pos] /\ me.pos \in Entries
  <1>1. /\ pcur \in fresh /\ buf[pcur].rec = Rec(me.pos) /\ at[pcur] = "scan"
        /\ me.pos \in Entries /\ ~ logged
    BY HereTypes, LogFacts DEF Offered, dirhave, Scanning, LogAt
  <1>2. ASSUME NEW q \in Procs, q # pcur PROVE call[q].op \notin Edits
    <2>1. LogAt(q, at[q], call[q])
      BY DEF LogInv
    <2>2. QED BY <1>1, <1>2, <2>1 DEF LogAt
  <1>3. ASSUME NEW q \in Procs, Writing(at[q]) PROVE FALSE
    <2>1. q # pcur
      BY <1>1, <1>3 DEF Writing
    <2>2. QED BY <1>2, <1>3, <2>1 DEF AloneInv, InHand, Writing
  <1>4. AsOnDisk(buf[pcur])
    BY <1>1, <1>3, RecOfEntry DEF FreshInv, AtEase, Pending
  <1>5. Here = disk[me.pos]
    BY <1>1, <1>4, RecOfEntry DEF AsOnDisk, Here
  <1>6. QED BY <1>1, <1>2, <1>5

LEMMA NameLogin ==
  ASSUME FTypes, FreshInv, AloneInv, LogInv, NameInv, LoginBegin \/ LoginEnd \/ (Alloc /\ me.stage = "login")
  PROVE  NameInv'
  <1>1. Mine /\ UNCHANGED <<cast, pcur, disk>>
    BY OnlyMine DEF Scan, LoginBegin, LoginEnd, Alloc
  <1>2. CASE LoginBegin
    <2> DEFINE c == [me EXCEPT !.stage = "login"]
    <2>1. /\ call'[pcur] = c /\ at'[pcur] = "scan" /\ at[pcur] = "login" /\ UNCHANGED <<hiwater, logged>>
      BY <1>2, Frames DEF LoginBegin, Locks
    <2>2. c.stage = "login" /\ c.pos = 0
      BY <2>1, CallFields, LogFacts DEF LogAt
    <2> HIDE DEF c
    <2>3. NameAt("scan", c, buf'[pcur], disk, hiwater)
      BY <2>2 DEF NameAt, Naming, InHand, Entries
    <2>4. QED BY <1>1, <2>1, <2>3, NameQuiet DEF Writing
  <1>3. CASE LoginEnd
    <2> DEFINE c == [me EXCEPT !.stage = Stage(me.op), !.pos = 0]
    <2>1. /\ call'[pcur] = c /\ at'[pcur] = Site(me.op) /\ UNCHANGED hiwater
          /\ at[pcur] = "scan" /\ me.stage = "login" /\ me.pos = NENT
      BY <1>3, Frames DEF LoginEnd
    <2>2. c.op = me.op /\ c.stage = Stage(me.op) /\ c.pos = 0
      BY CallFields DEF SameCall
    <2> HIDE DEF c
    <2>3. ~ InHand(at'[pcur], c) /\ at'[pcur] # "rask"
      BY <2>1, <2>2 DEF InHand, Site, Tested
    <2>4. NameAt(at'[pcur], c, buf'[pcur], disk, hiwater)
      BY <2>2, <2>3, NameFresh
    <2>5. BelowMark'
      <3>1. \A i \in Entries : i < NENT
        BY FilesAssumption DEF Entries
      <3>2. \A i \in Entries : disk[i].name # Gone => i <= hiwater
        BY <2>1, <3>1, NameFacts DEF NameAt
      <3>3. QED BY <1>1, <2>1, <3>2 DEF BelowMark
    <2>6. NamesUnique'
      BY <1>1 DEF NameInv, NamesUnique
    <2>7. QED BY <1>1, <2>1, <2>4, <2>5, <2>6, NameOthers DEF NameInv
  <1>4. CASE Alloc /\ me.stage = "login"
    <2>1. /\ \A q \in Procs \ {pcur} : call[q].op \notin Edits
          /\ ~ logged /\ Here = disk[me.pos] /\ me.pos \in Entries
      BY <1>4, LoginOnDisk DEF Alloc
    <2>2. /\ call'[pcur] = NextEntry /\ at'[pcur] = "scan" /\ UNCHANGED logged
          /\ hiwater' = IF Here.name = Gone THEN hiwater ELSE me.pos
      BY <1>4, Frames DEF Alloc
    <2>3. NextEntry.stage = "login" /\ NextEntry.pos = me.pos + 1
      BY <1>4, Fields
    <2>4. ASSUME NEW i \in Entries, i < me.pos + 1, disk[i].name # Gone
          PROVE  i <= hiwater'
      <3>1. i \in Int /\ me.pos \in Int /\ hiwater \in Int
        BY <2>1, RecOfEntry DEF FTypes, TypeOK, Entries
      <3>2. i < me.pos => i <= hiwater
        BY <1>4, <2>4, NameFacts DEF NameAt
      <3>3. QED BY <2>1, <2>2, <2>4, <3>1, <3>2
    <2>5. NameAt("scan", NextEntry, buf'[pcur], disk, hiwater')
      BY <2>3, <2>4 DEF NameAt, Naming, InHand
    <2>6. BelowMark' /\ NamesUnique'
      BY <1>1, <2>1, <2>2 DEF BelowMark, NameInv, NamesUnique
    <2>7. QED BY <1>1, <2>1, <2>2, <2>5, <2>6, NameOthers DEF NameInv
  <1>5. QED BY <1>2, <1>3, <1>4

(* The edited entry is the one written.                                    *)
LEMMA EditedHere ==
  ASSUME FTypes, Offered \/ InHand(at[pcur], me), NEW e \in DirEntries, Edit(e)
  PROVE  buf'[pcur].data[me.pos] = e
  <1>1. /\ me.pos \in Entries /\ buf[pcur].rec = Rec(me.pos) /\ buf[pcur] \in Bufs
    BY HereTypes, FFacts
  <1>2. buf[pcur].data \in [Members(Rec(me.pos)) -> DirEntries]
    BY <1>1, BufShape
  <1>3. me.pos \in Members(Rec(me.pos))
    BY <1>1 DEF Members
  <1>4. QED BY <1>2, <1>3, EditTypes

(* Nobody edits beside an editor.                                          *)
LEMMA NobodyBeside ==
  ASSUME FTypes, AloneInv, OneAsker, me.op \in Edits
  PROVE  /\ \A p \in Procs \ {pcur} : call[p].op \notin Edits
         /\ \A i : MakingAt(i) => Writing(at[pcur]) /\ me.op = "make" /\ me.pos = i
  <1>1. ASSUME NEW p \in Procs, call[p].op \in Edits PROVE p = pcur
    BY <1>1, OneEdit, FFacts DEF me
  <1>2. ASSUME NEW i, MakingAt(i) PROVE Writing(at[pcur]) /\ me.op = "make" /\ me.pos = i
    BY <1>1, <1>2 DEF MakingAt, me, Edits
  <1>3. QED BY <1>1, <1>2

(* A scan goes on: the same entry, or the next one when this one is not    *)
(* the name that is looked for.                                            *)
LEMMA NameGoesOn ==
  ASSUME FTypes, NameInv, ~ InHand(at[pcur], me), me.stage # "login",
         NEW a \in {"scan", "read", "rask"}, NEW c \in {me, NextEntry}, NEW b,
         at[pcur] \in {"scan", "read", "rask"},
         Naming(at[pcur], me, "exists") =>
           /\ a # "rask"
           /\ c = NextEntry => me.pos \in Entries /\ disk[me.pos].name # me.new
  PROVE  NameAt(a, c, b, disk, hiwater)
  <1>1. /\ c.op = me.op /\ c.name = me.name /\ c.new = me.new /\ c.stage = me.stage
        /\ c.pos \in {me.pos, me.pos + 1} /\ (c.pos # me.pos => c = NextEntry) /\ me.pos \in Int
    BY Fields, FFacts DEF CallTypes
  <1>2. ~ InHand(a, c)
    BY DEF InHand
  <1>3. ASSUME Naming(a, c, "exists"), NEW i \in Entries, i < c.pos
        PROVE  a # "rask" /\ disk[i].name # c.new
    <2>1. Naming(at[pcur], me, "exists") /\ i \in Int
      BY <1>1, <1>3 DEF Naming, Entries
    <2>2. i < me.pos => disk[i].name # me.new
      BY <2>1, NameFacts DEF NameAt
    <2>3. i < me.pos \/ (c = NextEntry /\ i = me.pos)
      BY <1>1, <1>3, <2>1
    <2>4. QED BY <1>1, <2>1, <2>2, <2>3
  <1>4. ASSUME Naming(a, c, "scan")
        PROVE  \/ \A i \in Entries : disk[i].name # c.new
               \/ c.op = "rename" /\ \A i \in Entries : i >= c.pos => disk[i].name # c.name
    <2>1. Naming(at[pcur], me, "scan")
      BY <1>1, <1>4 DEF Naming
    <2>2. CASE \A i \in Entries : disk[i].name # me.new
      BY <1>1, <2>2
    <2>3. CASE me.op = "rename" /\ \A i \in Entries : i >= me.pos => disk[i].name # me.name
      <3>1. \A i \in Entries : i >= c.pos => i >= me.pos
        BY <1>1 DEF Entries
      <3>2. QED BY <1>1, <2>3, <3>1
    <2>4. QED BY <2>1, <2>2, <2>3, NameFacts DEF NameAt
  <1>5. Naming(a, c, "exists") => a # "rask"
    BY <1>1 DEF Naming
  <1>6. QED BY <1>1, <1>2, <1>3, <1>4, <1>5 DEF NameAt

LEMMA NameScans ==
  ASSUME FTypes, FreshInv, AloneInv, LogInv, NameInv, OneAsker,
         "login" \notin ReadFails, "exists" \notin ReadFails,
         Fetch \/ ReadOk \/ ReadFail \/ PassOver \/ ScanEnd \/ Exists \/ Match
  PROVE  NameInv'
  <1>1. Mine /\ UNCHANGED <<cast, pcur, disk, hiwater, logged>>
    BY OnlyMine DEF Scan, Fetch, ReadOk, ReadFail, Unread, PassOver, ScanEnd, Exists, Match, dirVars
  <1>2. at[pcur] \in {"scan", "read"} /\ ~ InHand(at[pcur], me) /\ ~ Writing(at[pcur])
    BY DEF Fetch, ReadOk, ReadFail, PassOver, ScanEnd, Exists, Match, Found, Offered, Scanning,
       Locks, InHand, Writing
  <1>3. SUFFICES NameAt(at'[pcur], call'[pcur], buf'[pcur], disk, hiwater)
    BY <1>1, <1>2, NameQuiet
  <1>4. CASE Fetch \/ ReadOk
    <2>1. call'[pcur] = me /\ at'[pcur] \in {"scan", "read"}
      BY <1>4, Frames DEF Fetch, ReadOk
    <2>2. CASE me.stage = "login"
      BY <1>2, <2>1, <2>2, NameFacts DEF NameAt, Naming, InHand
    <2>3. CASE me.stage # "login"
      <3>1. me # NextEntry
        BY Fields, FFacts DEF CallTypes
      <3>2. QED BY <1>2, <2>1, <2>3, <3>1, NameGoesOn
    <2>4. QED BY <2>2, <2>3
  <1>5. CASE ReadFail
    <2>1. /\ me.stage \notin {"login", "exists"}
          /\ call'[pcur] \in {me, NextEntry} /\ at'[pcur] \in {"scan", "rask"}
      BY <1>5, Frames DEF ReadFail, Unread
    <2>2. QED BY <1>2, <2>1, NameGoesOn DEF Naming
  <1>6. CASE PassOver
    <2>1. me.stage # "login" /\ call'[pcur] = NextEntry /\ at'[pcur] = "scan" /\ Offered /\ ~ Wanted
      BY <1>6, Frames DEF PassOver
    <2>2. ASSUME Naming(at[pcur], me, "exists")
          PROVE  me.pos \in Entries /\ disk[me.pos].name # me.new
      BY <2>1, <2>2, OfferedOnDisk DEF Naming, Edits, Wanted
    <2>3. QED BY <1>2, <2>1, <2>2, NameGoesOn
  <1>7. CASE at'[pcur] = "user" /\ call'[pcur] = NoCall
    BY <1>7, NameIdle DEF InHand, NoCall
  <1>8. CASE ScanEnd /\ me.stage = "exists"
    <2> DEFINE c == [me EXCEPT !.stage = "scan", !.pos = 0]
    <2>1. /\ call'[pcur] = c /\ at'[pcur] = "scan" /\ me.pos > hiwater /\ at[pcur] = "scan"
      BY <1>8, Frames DEF ScanEnd, ScanTop
    <2>2. SameCall(c, me) /\ c.stage = "scan"
      BY CallFields
    <2> HIDE DEF c
    <2>3. ASSUME c.op \in {"make", "rename"}, NEW i \in Entries PROVE disk[i].name # me.new
      <3>1. Naming(at[pcur], me, "exists") /\ me.op \in Edits
        BY <1>8, <2>1, <2>2, <2>3 DEF Naming, SameCall, Edits
      <3>2. logged /\ me.new \in Names
        BY <1>8, <2>1, <3>1, LogFacts DEF LogAt
      <3>3. me.new # Gone
        BY <3>2, FilesAssumption
      <3>4. ~ MakingAt(i)
        BY <1>2, <3>1, NobodyBeside
      <3>5. i \in Int /\ hiwater \in Int /\ me.pos \in Int
        BY FFacts DEF CallTypes, Entries, FTypes, TypeOK
      <3>6. disk[i].name # Gone => i < me.pos
        BY <2>1, <3>2, <3>4, <3>5 DEF NameInv, BelowMark
      <3>7. i < me.pos => disk[i].name # me.new
        BY <3>1, NameFacts DEF NameAt
      <3>8. QED BY <3>3, <3>6, <3>7
    <2>4. QED BY <2>1, <2>2, <2>3 DEF NameAt, Naming, InHand, SameCall
  <1>9. CASE (ScanEnd /\ me.stage # "exists") \/ Exists \/ Match
    BY <1>7, <1>9, Frames DEF ScanEnd, Exists, Match, Return
  <1>10. QED BY <1>4, <1>5, <1>6, <1>8, <1>9

(* An editor takes an entry in hand.                                       *)
LEMMA NameTakes ==
  ASSUME FTypes, FreshInv, AloneInv, LogInv, NameInv, OneAsker, Amend \/ Erase \/ Approach
  PROVE  NameInv'
  <1>1. Mine /\ UNCHANGED <<cast, pcur, disk, hiwater, logged>>
    BY OnlyMine DEF Scan, Amend, Erase, Approach, dirVars
  <1>2. /\ Offered /\ Wanted /\ me.stage = "scan" /\ me.op \in Edits /\ at[pcur] = "scan"
        /\ me.pos <= ScanTop
    BY DEF Amend, Erase, Approach, Found, Offered, Scanning, Edits
  <1>3. /\ Here = disk[me.pos] /\ me.pos \in Entries /\ buf[pcur].rec = Rec(me.pos)
        /\ me.op # "make" => Here.name = me.name /\ me.pos <= hiwater
        /\ Here \in DirEntries
    BY <1>2, OfferedOnDisk, HereTypes DEF Wanted, ScanTop
  <1>4. me.name \in Names /\ me.new \in Names /\ Gone \notin Names
    BY <1>2, LogFacts, FilesAssumption DEF LogAt
  <1>5. SUFFICES NameAt(at'[pcur], call'[pcur], buf'[pcur], disk, hiwater)
    BY <1>1, <1>2, NameQuiet DEF Writing
  <1>6. ASSUME NEW a \in {"enter", "write", "refused"}, NEW c, NEW b,
               SameCall(c, me), c.stage = "scan", c.pos = me.pos,
               LET n == b.data[me.pos].name
               IN  \A i \in Entries \ {me.pos} : /\ n # Gone => disk[i].name # n
                                                 /\ me.op = "rename" => disk[i].name # me.name
        PROVE  NameAt(a, c, b, disk, hiwater)
    BY <1>3, <1>6 DEF NameAt, SameCall, Naming
  <1>7. \A i \in Entries \ {me.pos} : Here.name # Gone => disk[i].name # Here.name
    BY <1>3 DEF NameInv, NamesUnique
  <1>8. CASE Amend
    <2> DEFINE e == Entry(me.new, IF me.op = "make" THEN 0 ELSE Here.blk)
    <2>1. /\ Edit(e) /\ at'[pcur] \in {"write", "refused"} /\ call'[pcur] = me
          /\ me.op \in {"make", "rename"}
      BY <1>8, Frames DEF Amend, Tested, Found
    <2>2. e.name = me.new /\ e \in DirEntries
      BY <1>3, <1>4, Constants, WordsTypes DEF Entry, DirEntries
    <2> HIDE DEF e
    <2>3. buf'[pcur].data[me.pos] = e
      BY <1>2, <1>3, <2>1, <2>2, EditTypes, EditedHere
    <2>4. Naming(at[pcur], me, "scan")
      BY <1>2, <2>1 DEF Naming
    <2>5. ASSUME NEW i \in Entries \ {me.pos}
          PROVE  disk[i].name # me.new /\ (me.op = "rename" => disk[i].name # me.name)
      <3>1. me.op = "rename" => disk[i].name # me.name
        BY <1>3, <1>4, <1>7
      <3>2. ~ (me.op = "rename" /\ \A j \in Entries : j >= me.pos => disk[j].name # me.name)
        BY <1>3 DEF Entries
      <3>3. QED BY <2>4, <3>1, <3>2, NameFacts DEF NameAt
    <2>6. QED BY <1>2, <1>6, <2>1, <2>2, <2>3, <2>5 DEF SameCall
  <1>9. CASE Erase
    <2> DEFINE c == [me EXCEPT !.gone = Here.blk]
    <2>1. Edit(Erased) /\ at'[pcur] = "enter" /\ call'[pcur] = c /\ me.op = "delete"
      BY <1>9, Frames DEF Erase, Found
    <2>2. SameCall(c, me) /\ c.stage = me.stage /\ c.pos = me.pos
      BY CallFields
    <2> HIDE DEF c
    <2>3. buf'[pcur].data[me.pos].name = Gone
      BY <1>2, <1>3, <2>1, EditTypes, EditedHere, WordsTypes DEF Erased, Entry
    <2>4. QED BY <1>2, <1>6, <2>1, <2>2, <2>3
  <1>10. CASE Approach
    <2>1. UNCHANGED buf /\ at'[pcur] = "enter" /\ call'[pcur] = me /\ me.op # "rename"
      BY <1>10, Frames DEF Approach, Found, mineVars
    <2>2. QED BY <1>2, <1>6, <1>7, <2>1 DEF SameCall, Here
  <1>11. QED BY <1>8, <1>9, <1>10

(* What a write leaves on the disk: the entry in hand and the others.      *)
LEMMA StoredOne ==
  ASSUME FTypes, EditInv, InHand(at[pcur], me)
  PROVE  /\ me.pos \in Entries /\ Stored[me.pos] = Here
         /\ \A i \in Entries \ {me.pos} : Stored[i] = disk[i]
  <1>1. me.pos \in Entries /\ buf[pcur].rec = Rec(me.pos)
    BY HereTypes
  <1>2. \A i \in Members(buf[pcur].rec) \ {me.pos} : buf[pcur].data[i] = disk[i]
    BY FFacts DEF EditInv, me
  <1>3. QED BY <1>1, <1>2 DEF Stored, Members, Here

(* With the entry in hand written or not, and the mark raised or the entry *)
(* still being made.                                                       *)
LEMMA NameWrites ==
  ASSUME FTypes, AloneInv, EditInv, NameInv, OneAsker, InHand(at[pcur], me),
         disk' \in {disk, Stored}, UNCHANGED logged, hiwater' \in {hiwater, Raised},
         \/ hiwater' = Raised
         \/ me.op # "make" 
         \/ Writing(at'[pcur]) /\ call'[pcur] = me
         \/ UNCHANGED disk /\ ~ Writing(at[pcur])
  PROVE  NamesUnique' /\ BelowMark'
  <1>1. /\ me.pos \in Entries /\ Stored[me.pos] = Here
        /\ \A i \in Entries \ {me.pos} : Stored[i] = disk[i]
    BY StoredOne
  <1>2. /\ me.op \in Edits /\ (me.op # "make" => me.pos <= hiwater)
        /\ \A i \in Entries \ {me.pos} : Here.name # Gone => disk[i].name # Here.name
    BY AloneFacts, NameFacts DEF NameAt, Here
  <1>3. NamesUnique'
    <2>1. CASE disk' = disk
      BY <2>1 DEF NameInv, NamesUnique
    <2>2. CASE disk' = Stored
      BY <1>1, <1>2, <2>2 DEF NameInv, NamesUnique
    <2>3. QED BY <2>1, <2>2
  <1>4. me.pos \in Int /\ hiwater \in Int /\ hiwater' \in Int /\ hiwater <= hiwater'
        /\ (hiwater' = Raised /\ me.op = "make" => me.pos <= hiwater')
    BY FFacts DEF CallTypes, Entries, FTypes, TypeOK, Raised
  <1>5. ASSUME logged', NEW i \in Entries, disk'[i].name # Gone
        PROVE  i <= hiwater' \/ MakingAt(i)'
    <2>0. i \in Int
      BY DEF Entries
    <2>1. CASE i # me.pos
      <3>1. disk[i].name # Gone /\ ~ MakingAt(i)
        BY <1>1, <1>2, <1>5, <2>1, NobodyBeside
      <3>2. QED BY <1>4, <1>5, <2>0, <3>1 DEF NameInv, BelowMark
    <2>2. CASE i = me.pos
      <3>1. CASE me.op # "make" \/ hiwater' = Raised
        BY <1>2, <1>4, <2>0, <2>2, <3>1
      <3>2. CASE me.op = "make" /\ Writing(at'[pcur]) /\ call'[pcur] = me
        BY <2>2, <3>2, FFacts DEF MakingAt
      <3>3. CASE UNCHANGED disk /\ ~ Writing(at[pcur])
        <4>1. ~ MakingAt(i)
          BY <1>2, <3>3, NobodyBeside
        <4>2. QED BY <1>4, <1>5, <2>0, <3>3, <4>1 DEF NameInv, BelowMark
      <3>4. QED BY <3>1, <3>2, <3>3
    <2>3. QED BY <2>1, <2>2
  <1>6. QED BY <1>3, <1>5 DEF BelowMark

LEMMA NameWritten ==
  ASSUME FTypes, AloneInv, LogInv, EditInv, NameInv, OneAsker, InHand(at[pcur], me),
         NEW ok \in BOOLEAN, Written(ok), disk' \in {disk, Stored}
  PROVE  NameInv'
  <1>1. Mine /\ UNCHANGED <<cast, pcur>>
    BY MineWritten
  <1>2. NamesUnique' /\ BelowMark'
    BY NameWrites DEF Written
  <1>3. /\ me.op \in Edits /\ me.stage = "scan" /\ me.pos \in Entries
        /\ \A p \in Procs \ {pcur} : call[p].op \notin Edits
        /\ me.op = "rename" => \A i \in Entries \ {me.pos} : disk[i].name # me.name
        /\ \A i \in Entries \ {me.pos} : disk'[i] = disk[i]
    BY AloneFacts, NameFacts, NobodyBeside, StoredOne DEF NameAt
  <1>4. NameAt(at'[pcur], call'[pcur], buf'[pcur], disk', hiwater')
    <2>1. CASE at'[pcur] = "user" /\ call'[pcur] = NoCall
      BY <2>1, NameIdle DEF InHand, NoCall
    <2>2. CASE call'[pcur] = NextEntry /\ at'[pcur] = "scan" /\ me.op # "make"
      <3>1. /\ NextEntry.op = me.op /\ NextEntry.name = me.name /\ NextEntry.stage = "scan"
            /\ NextEntry.pos = me.pos + 1
        BY <1>3, Fields
      <3>2. \A i \in Entries : i >= me.pos + 1 => i # me.pos
        BY <1>3 DEF Entries
      <3>3. QED BY <1>3, <2>2, <3>1, <3>2 DEF NameAt, Naming, InHand
    <2>3. QED BY <2>1, <2>2, Frames DEF Written, Return
  <1>5. QED BY <1>1, <1>2, <1>3, <1>4, NameOthers DEF NameInv

LEMMA NameUpdates ==
  ASSUME FTypes, AloneInv, LogInv, EditInv, NameInv, OneAsker, ~ GivenUp, Update
  PROVE  NameInv'
  <1>1. Mine /\ UNCHANGED <<cast, pcur>>
    BY OnlyMine
  <1>2. CASE EnterDelete \/ EnterTruncate \/ Merge
    <2>1. /\ InHand(at[pcur], me) /\ at[pcur] = "enter" /\ UNCHANGED <<disk, hiwater, logged>>
          /\ at'[pcur] \in {"write", "refused"} /\ me.op \in {"delete", "truncate", "close"}
      BY <1>2, Frames DEF EnterDelete, EnterTruncate, Merge, Locks, InHand, Tested, dirVars
    <2>2. SameCall(call'[pcur], me) /\ call'[pcur].pos = me.pos /\ call'[pcur].stage = me.stage
      <3> DEFINE c == [me EXCEPT !.gone = Here.blk]
      <3>1. SameCall(c, me) /\ c.stage = me.stage /\ c.pos = me.pos
        BY CallFields
      <3>2. call'[pcur] = me \/ call'[pcur] = c
        BY <1>2, Frames DEF EnterDelete, EnterTruncate, Merge
      <3> HIDE DEF c
      <3>3. QED BY <3>1, <3>2 DEF SameCall
    <2>3. Here.name \in Names \cup {Gone} /\ Here.blk \in 0 .. NBLK /\ fcb[pcur].blk \in 0 .. NBLK
      BY <2>1, HereTypes, FFacts DEF FcbTypes
    <2>4. buf'[pcur].data[me.pos].name = Here.name
      <3>1. CASE UNCHANGED buf
        BY <3>1 DEF Here
      <3>2. ASSUME NEW k \in 0 .. NBLK, Edit(Entry(Here.name, k))
            PROVE  buf'[pcur].data[me.pos].name = Here.name
        <4>1. Entry(Here.name, k) \in DirEntries
          BY <2>3, WordsTypes
        <4>2. buf'[pcur].data[me.pos] = Entry(Here.name, k)
          BY <2>1, <3>2, <4>1, EditedHere
        <4>3. QED BY <4>2 DEF Entry
      <3>3. CASE EnterTruncate
        BY <3>2, <3>3, Constants DEF EnterTruncate
      <3>4. CASE Merge
        BY <2>3, <3>2, <3>4 DEF Merge
      <3>5. QED BY <1>2, <3>1, <3>3, <3>4 DEF EnterDelete, mineVars
    <2>5. NameAt(at'[pcur], call'[pcur], buf'[pcur], disk, hiwater)
      BY <2>1, <2>2, <2>4, NameFacts DEF NameAt, Naming, SameCall, Here
    <2>6. QED BY <1>1, <2>1, <2>5, NameQuiet DEF Writing
  <1>3. CASE BadMerge
    <2>1. /\ UNCHANGED <<disk, hiwater, logged>> /\ at[pcur] = "enter" /\ me.op = "close"
          /\ call'[pcur] = NextEntry /\ at'[pcur] = "scan"
      BY <1>3, Frames DEF BadMerge, Locks
    <2>2. NextEntry.op = "close" /\ NextEntry.stage = "scan"
      BY <2>1, Fields, NameFacts DEF NameAt, InHand
    <2>3. NameAt(at'[pcur], call'[pcur], buf'[pcur], disk, hiwater)
      BY <2>1, <2>2, NameIdle DEF InHand
    <2>4. QED BY <1>1, <2>1, <2>3, NameQuiet DEF Writing
  <1>4. CASE WriteOk \/ (WriteFail /\ ~ asks) \/ WriteRefused
    <2>1. InHand(at[pcur], me) /\ disk' \in {disk, Stored} /\ \E ok \in BOOLEAN : Written(ok)
      BY <1>4 DEF WriteOk, WriteFail, WriteRefused, Locks, InHand, GivenUp
    <2>2. QED BY <2>1, NameWritten
  <1>5. CASE WriteFail /\ asks
    <2>1. /\ InHand(at[pcur], me) /\ at[pcur] = "write" /\ at'[pcur] = "wask" /\ call'[pcur] = me
          /\ disk' \in {disk, Stored} /\ UNCHANGED <<buf, hiwater, logged>>
      BY <1>5, Frames DEF WriteFail, Locks, InHand, mineVars
    <2>2. NamesUnique' /\ BelowMark'
      BY <2>1, NameWrites DEF Writing
    <2>3. NameAt("wask", me, buf[pcur], disk', hiwater)
      BY <2>1, StoredOne, NameFacts DEF NameAt, Naming, InHand
    <2>4. \A p \in Procs \ {pcur} : call[p].op \notin Edits
      BY <2>1, AloneFacts, NobodyBeside
    <2>5. QED BY <1>1, <2>1, <2>2, <2>3, <2>4, NameOthers DEF NameInv
  <1>6. CASE GetBlock \/ Data \/ DataFail \/ DataRefused
    <2>1. /\ UNCHANGED <<disk, hiwater, logged>> /\ at[pcur] \in {"alloc", "data", "refused"}
          /\ \/ at'[pcur] = "user" /\ call'[pcur] = NoCall
             \/ at'[pcur] \in {"data", "dask"} /\ call'[pcur] = me
             \/ at'[pcur] = "refused" /\ call'[pcur] = me /\ at[pcur] = "alloc"
      BY <1>6, Frames DEF GetBlock, Data, DataFail, DataRefused, Locks, Return, WarmBoot, Tested, dirVars
    <2>2. me.stage # "login" /\ (at[pcur] = "alloc" => me.op = "write")
      BY <2>1, NotLogging, FFacts DEF Placed
    <2>3. NameAt(at'[pcur], call'[pcur], buf'[pcur], disk, hiwater)
      BY <2>1, <2>2, NameIdle DEF InHand, NoCall
    <2>4. QED BY <1>1, <2>1, <2>3, NameQuiet DEF Writing
  <1>7. QED BY <1>2, <1>3, <1>4, <1>5, <1>6 DEF Update

LEMMA NameAnswers ==
  ASSUME FTypes, AloneInv, LogInv, EditInv, NameInv, OneAsker, ~ GivenUp, Operator
  PROVE  NameInv'
  <1>1. Mine /\ UNCHANGED <<cast, pcur>>
    BY OnlyMine
  <1>2. me.stage # "login"
    BY NotLogging DEF Operator, Retry, Continue, Abort, Answered, Asking
  <1>3. CASE Continue /\ at[pcur] = "wask"
    <2>1. InHand(at[pcur], me) /\ Written(FALSE) /\ UNCHANGED disk
      BY <1>3 DEF Continue, InHand
    <2>2. QED BY <2>1, NameWritten
  <1>4. CASE at[pcur] = "wask" /\ Retry
    <2>1. UNCHANGED <<disk, hiwater, logged, buf>> /\ call'[pcur] = me /\ at'[pcur] = "write"
      BY <1>4, Frames DEF Retry, dirVars, mineVars
    <2>2. NameAt("write", me, buf[pcur], disk, hiwater)
      BY <1>4, NameFacts DEF NameAt, InHand, Naming
    <2>3. QED BY <1>1, <2>1, <2>2, NameQuiet DEF Writing
  <1>5. CASE at[pcur] = "rask" /\ ~ Abort
    <2>1. /\ UNCHANGED <<disk, hiwater, logged>> /\ call'[pcur] \in {me, NextEntry}
          /\ at'[pcur] \in {"scan", "read"}
      BY <1>5, Frames DEF Operator, Retry, Continue, Unread, dirVars
    <2>2. ~ Naming(at[pcur], me, "exists")
      BY <1>5, NameFacts DEF NameAt
    <2>3. NameAt(at'[pcur], call'[pcur], buf'[pcur], disk, hiwater)
      BY <1>2, <1>5, <2>1, <2>2, NameGoesOn DEF InHand
    <2>4. QED BY <1>1, <1>5, <2>1, <2>3, NameQuiet DEF Writing
  <1>6. CASE at[pcur] = "dask"
    <2>1. /\ UNCHANGED <<disk, hiwater, logged>>
          /\ \/ at'[pcur] = "user" /\ call'[pcur] = NoCall
             \/ at'[pcur] = "data" /\ call'[pcur] = me
      BY <1>6, Frames DEF Operator, Retry, Continue, Abort, WarmBoot, Return, dirVars
    <2>2. NameAt(at'[pcur], call'[pcur], buf'[pcur], disk, hiwater)
      BY <1>2, <2>1, NameIdle DEF InHand, NoCall
    <2>3. QED BY <1>1, <1>6, <2>1, <2>2, NameQuiet DEF Writing
  <1>7. QED
    <2>1. at[pcur] \in {"rask", "wask", "dask"}
      BY DEF Operator, Retry, Continue, Abort, Answered, Asking
    <2>2. at[pcur] \in {"rask", "wask"} => ~ Abort
      BY DEF GivenUp
    <2>3. QED BY <1>3, <1>4, <1>5, <1>6, <2>1, <2>2 DEF Operator

LEMMA NameStep ==
  ASSUME FTypes, FreshInv, AloneInv, EditInv, LogInv, NameInv, OneAsker,
         "login" \notin ReadFails, "exists" \notin ReadFails, ~ GivenUp, Next
  PROVE  NameInv'
  <1>1. CASE Alloc
    BY <1>1, NameLogin DEF Alloc
  <1>2. CASE Scan
    BY <1>1, <1>2, NameLogin, NameScans, NameTakes DEF Scan
  <1>3. CASE \E q \in Procs : Switch(q)
    <2>1. UNCHANGED <<at, call, dirVars, mineVars>>
      BY <1>3 DEF Switch
    <2>2. QED BY <2>1 DEF NameInv, NamesUnique, BelowMark, MakingAt, dirVars, mineVars
  <1>4. QED BY <1>2, <1>3, NameCalls, NameUpdates, NameAnswers DEF Next

LEMMA NameStart == Init => NameInv
  <1> SUFFICES ASSUME Init PROVE NameInv
    OBVIOUS
  <1>1. NamesUnique /\ BelowMark
    BY DEF Init, NamesUnique, BelowMark, Erased, Entry
  <1>2. ASSUME NEW p \in Procs PROVE NameAt(at[p], call[p], buf[p], disk, hiwater)
    BY NameIdle DEF Init, NoCall, InHand
  <1>3. QED BY <1>1, <1>2 DEF NameInv

(* No two entries of a directory have one name.  It takes a drive that is  *)
(* not reset under an edit, and a name that fexists() could look up: where *)
(* a read it does is refused, make and rename write without having looked. *)
THEOREM NamesStayUnique ==
  ASSUME OneAsker, NoReset, "login" \notin ReadFails, "exists" \notin ReadFails
  PROVE  Spec /\ [][~ GivenUp]_vars => []NamesUnique
  <1> DEFINE Inv == FTypes /\ FreshInv /\ AloneInv /\ EditInv /\ LogInv /\ NameInv
  <1>1. Init => Inv
    BY FilesStart, FreshStart, AloneStart, EditStart, LogStart, NameStart
  <1>2. Inv /\ [Next]_vars /\ [~ GivenUp]_vars => Inv'
    <2> SUFFICES ASSUME Inv, [Next]_vars, [~ GivenUp]_vars PROVE Inv'
      OBVIOUS
    <2>1. CASE UNCHANGED vars
      <3>1. FTypes' /\ FreshInv' /\ AloneInv' /\ EditInv'
        BY <2>1 DEF vars, dirVars, mineVars, FTypes, TypeOK, FreshInv, AloneInv, EditInv,
           AsOnDisk, Pending, LockFree
      <3>2. LogInv'
        BY <2>1 DEF vars, dirVars, mineVars, LogInv, LogAt
      <3>3. NameInv'
        BY <2>1 DEF vars, dirVars, mineVars, NameInv, NamesUnique, BelowMark, MakingAt
      <3>4. QED BY <3>1, <3>2, <3>3
    <2>2. CASE Next /\ ~ GivenUp
      BY <2>2, TypesStep, FreshStep, AloneStep, EditStep, LogStep, NameStep
    <2>3. QED BY <2>1, <2>2
  <1>3. Inv => NamesUnique
    BY DEF NameInv
  <1> HIDE DEF Inv
  <1>4. QED BY <1>1, <1>2, <1>3, PTL DEF Spec

-----------------------------------------------------------------------------
(* Blocks.                                                                 *)

HeldBy(q, b, f) == f[q].dirty /\ f[q].blk = b

(* What is known of the entry in hand, e, before it reaches the disk.      *)
EditedAt(p, a, c, e, d, v, f) ==
  /\ e.name = Gone => e.blk = 0
  /\ e.blk # 0 => /\ e.blk \in v
                  /\ \A i \in Entries \ {c.pos} : d[i].blk # e.blk
                  /\ \A q \in Procs : HeldBy(q, e.blk, f) => q = p /\ c.op = "close"
  /\ c.op = "close" => e.name = c.name /\ d[c.pos].name = c.name
  /\ a = "enter" /\ c.op \in {"truncate", "close"} => e = d[c.pos]
  /\ c.op \in {"delete", "truncate"} /\ ~ (a = "enter" /\ c.op = "truncate") =>
       /\ e.blk = 0 /\ d[c.pos].blk \in {0, c.gone}
       /\ c.gone # 0 => /\ c.gone \in v
                        /\ \A i \in Entries \ {c.pos} : d[i].blk # c.gone
                        /\ \A q \in Procs : ~ HeldBy(q, c.gone, f)

BlockAt(p, a, c, b, d, v, f) ==
  /\ c.stage = "login" => 0 \in v /\ \A i \in Entries : i < c.pos => d[i].blk \in v
  /\ c.stage = "exists" => c.op \in {"make", "rename"}
  /\ c.op = "close" => f[p].dirty /\ f[p].name = c.name
  /\ InHand(a, c) => EditedAt(p, a, c, b.data[c.pos], d, v, f)

GoneEmpty == \A i \in Entries : disk[i].name = Gone => disk[i].blk = 0

Apart == \A i, j \in Entries : i # j /\ disk[i].blk # 0 => disk[i].blk # disk[j].blk

Taken == logged => /\ 0 \in alv
                   /\ \A i \in Entries : disk[i].blk \in alv
                   /\ \A p \in Procs : fcb[p].dirty => fcb[p].blk \in alv

(* A block of a file that is open for writing is in no entry, but in the   *)
(* one its close is writing.                                               *)
HeldApart ==
  /\ \A p \in Procs, i \in Entries : Holds(p) /\ fcb[p].blk = disk[i].blk =>
       InHand(at[p], call[p]) /\ call[p].op = "close" /\ i = call[p].pos
  /\ \A p, q \in Procs : Holds(p) /\ Holds(q) /\ fcb[p].blk = fcb[q].blk => p = q

BlockInv == /\ GoneEmpty /\ Apart /\ Taken /\ HeldApart
            /\ \A p \in Procs : BlockAt(p, at[p], call[p], buf[p], disk, alv, fcb)

LEMMA BlockFacts ==
  ASSUME FTypes, BlockInv
  PROVE  BlockAt(pcur, at[pcur], me, buf[pcur], disk, alv, fcb)
  BY DEF FTypes, TypeOK, BlockInv, me

LEMMA BlockIdle ==
  ASSUME NEW p, NEW a, NEW c, NEW b, NEW d, NEW v, NEW f, ~ InHand(a, c),
         c.stage \notin {"login", "exists"}, c.op # "close"
  PROVE  BlockAt(p, a, c, b, d, v, f)
  BY DEF BlockAt

(* Who has the entry in hand has the drive logged in.                      *)
LEMMA HandLogged ==
  ASSUME FTypes, AloneInv, LogInv, NEW p \in Procs, InHand(at[p], call[p])
  PROVE  logged /\ call[p].stage # "login" /\ call[p].op \in Edits
  <1>1. LogAt(p, at[p], call[p]) /\ call[p].op \in Edits
    BY DEF AloneInv, LogInv
  <1>2. QED BY <1>1 DEF LogAt, InHand

LEMMA OthersStay ==
  ASSUME FTypes, Mine, NEW p \in Procs \ {pcur}
  PROVE  at'[p] = at[p] /\ call'[p] = call[p] /\ buf'[p] = buf[p] /\ fcb'[p] = fcb[p]
  BY DEF Mine, FTypes, TypeOK

LEMMA BlockOthers ==
  ASSUME FTypes, AloneInv, BlockInv, Mine, UNCHANGED <<cast, pcur>>,
         BlockAt(pcur, at'[pcur], call'[pcur], buf'[pcur], disk', alv', fcb'),
         \/ /\ UNCHANGED disk /\ alv \subseteq alv'
            /\ fcb'[pcur].dirty => fcb'[pcur] = fcb[pcur] \/ fcb'[pcur].blk \notin alv
         \/ \A p \in Procs \ {pcur} : call[p].op \notin Edits /\ call[p].stage # "login"
  PROVE  \A p \in Procs : BlockAt(p, at'[p], call'[p], buf'[p], disk', alv', fcb')
  <1>1. ASSUME NEW p \in Procs \ {pcur}
        PROVE  BlockAt(p, at[p], call[p], buf[p], disk', alv', fcb')
    <2>1. BlockAt(p, at[p], call[p], buf[p], disk, alv, fcb) /\ fcb'[p] = fcb[p]
      BY OthersStay DEF BlockInv
    <2>2. CASE /\ UNCHANGED disk /\ alv \subseteq alv'
               /\ fcb'[pcur].dirty => fcb'[pcur] = fcb[pcur] \/ fcb'[pcur].blk \notin alv
      <3>1. ASSUME NEW q \in Procs, NEW b \in alv, HeldBy(q, b, fcb') PROVE HeldBy(q, b, fcb)
        <4>1. q # pcur => fcb'[q] = fcb[q]
          BY OthersStay
        <4>2. QED BY <2>2, <3>1, <4>1 DEF HeldBy
      <3>2. ASSUME InHand(at[p], call[p])
            PROVE  EditedAt(p, at[p], call[p], buf[p].data[call[p].pos], disk, alv', fcb')
        <4>1. EditedAt(p, at[p], call[p], buf[p].data[call[p].pos], disk, alv, fcb)
          BY <2>1, <3>2 DEF BlockAt
        <4>2. QED BY <2>2, <3>1, <4>1 DEF EditedAt
      <3>3. QED BY <2>1, <2>2, <3>2 DEF BlockAt
    <2>3. CASE call[p].op \notin Edits /\ call[p].stage # "login"
      <3>1. ~ InHand(at[p], call[p])
        BY <2>3 DEF AloneInv
      <3>2. QED BY <2>1, <2>3, <3>1 DEF BlockAt, Edits
    <2>4. QED BY <2>2, <2>3
  <1>2. QED BY <1>1, OthersStay

(* What a file held for writing may share with the directory.              *)
HeldHere ==
  \A i \in Entries : fcb'[pcur].dirty /\ fcb'[pcur].blk # 0 /\ fcb'[pcur].blk = disk'[i].blk =>
    InHand(at'[pcur], call'[pcur]) /\ call'[pcur].op = "close" /\ i = call'[pcur].pos

LEMMA BlockQuiet ==
  ASSUME FTypes, AloneInv, BlockInv, Mine, UNCHANGED <<cast, pcur, disk>>, alv \subseteq alv',
         logged' => logged, fcb'[pcur].dirty => fcb'[pcur] = fcb[pcur], HeldHere,
         BlockAt(pcur, at'[pcur], call'[pcur], buf'[pcur], disk, alv', fcb')
  PROVE  BlockInv'
  <1>1. ASSUME NEW p \in Procs, fcb'[p].dirty PROVE fcb'[p] = fcb[p]
    BY <1>1, OthersStay
  <1>2. GoneEmpty' /\ Apart'
    BY DEF BlockInv, GoneEmpty, Apart
  <1>3. Taken'
    BY <1>1 DEF BlockInv, Taken
  <1>4. HeldApart'
    <2>1. ASSUME NEW p \in Procs, NEW i \in Entries, Holds(p)', fcb'[p].blk = disk'[i].blk
          PROVE  InHand(at'[p], call'[p]) /\ call'[p].op = "close" /\ i = call'[p].pos
      <3>1. CASE p = pcur
        BY <2>1, <3>1 DEF Holds, HeldHere
      <3>2. CASE p # pcur
        BY <2>1, <3>2, OthersStay DEF Holds, BlockInv, HeldApart
      <3>3. QED BY <3>1, <3>2
    <2>2. ASSUME NEW p \in Procs, NEW q \in Procs, Holds(p)', Holds(q)', fcb'[p].blk = fcb'[q].blk
          PROVE  p = q
      BY <1>1, <2>2 DEF Holds, BlockInv, HeldApart
    <2>3. QED BY <2>1, <2>2 DEF HeldApart
  <1>5. QED BY <1>2, <1>3, <1>4, BlockOthers DEF BlockInv

(* A program that had nothing in hand shares no block with the directory.  *)
LEMMA HeldNothing ==
  ASSUME FTypes, BlockInv, ~ InHand(at[pcur], me) \/ me.op # "close", UNCHANGED disk,
         fcb'[pcur].dirty => fcb'[pcur] = fcb[pcur]
  PROVE  HeldHere
  BY DEF FTypes, TypeOK, HeldHere, BlockInv, HeldApart, Holds, me

-----------------------------------------------------------------------------
LEMMA BlockCalls ==
  ASSUME FTypes, AloneInv, LogInv, BlockInv, Calls
  PROVE  BlockInv'
  <1>1. Mine /\ UNCHANGED <<cast, pcur, disk, alv>>
    BY OnlyMine DEF Calls, Quit, Reset, Begin, dirVars
  <1>2. at[pcur] = "user" /\ me = NoCall /\ ~ InHand(at[pcur], me)
    BY AloneFacts DEF Calls, Quit, Reset, Begin, InHand
  <1>0. logged' => logged
    BY DEF Calls, Quit, Reset, Begin, dirVars
  <1>3. fcb'[pcur].dirty => fcb'[pcur] = fcb[pcur]
    <2>1. UNCHANGED fcb \/ fcb' = [fcb EXCEPT ![pcur] = NoFile]
      BY DEF Calls, Quit, Reset, Begin
    <2>2. QED BY <2>1, Frames DEF NoFile
  <1>4. HeldHere
    BY <1>1, <1>2, <1>3, HeldNothing
  <1>5. SUFFICES BlockAt(pcur, at'[pcur], call'[pcur], buf'[pcur], disk, alv', fcb')
    BY <1>1, <1>0, <1>3, <1>4, BlockQuiet
  <1>6. CASE Quit \/ Reset
    <2>1. at'[pcur] = "user" /\ call'[pcur] = NoCall
      BY <1>2, <1>6 DEF Quit, Reset, me
    <2>2. QED BY <2>1, BlockIdle DEF InHand, NoCall
  <1>7. ASSUME NEW op \in Ops, NEW n \in Names, NEW m \in Names, Begin(op, n, m)
        PROVE  BlockAt(pcur, at'[pcur], call'[pcur], buf'[pcur], disk, alv', fcb')
    <2> DEFINE c == [NoCall EXCEPT !.op = op, !.name = n, !.new = m, !.stage = Stage(op)]
    <2>1. /\ call'[pcur] = c /\ at'[pcur] = (IF logged THEN Site(op) ELSE "login")
          /\ op = "close" => fcb'[pcur].dirty /\ fcb'[pcur].name = n
      BY <1>7, Frames DEF Begin, Sensible
    <2>2. c.op = op /\ c.name = n /\ c.stage = Stage(op)
      BY DEF NoCall
    <2> HIDE DEF c
    <2>3. ~ InHand(at'[pcur], c)
      BY <2>1, <2>2 DEF InHand, Site, Tested
    <2>4. c.stage # "login" /\ (c.stage = "exists" => c.op \in {"make", "rename"})
      BY <2>2 DEF Stage
    <2>5. QED BY <2>1, <2>2, <2>3, <2>4 DEF BlockAt
  <1>8. QED BY <1>6, <1>7 DEF Calls

LEMMA BlockLogin ==
  ASSUME FTypes, FreshInv, AloneInv, LogInv, BlockInv,
         LoginBegin \/ LoginEnd \/ (Alloc /\ me.stage = "login")
  PROVE  BlockInv'
  <1>1. Mine /\ UNCHANGED <<cast, pcur, disk, fcb>>
    BY OnlyMine DEF Scan, LoginBegin, LoginEnd, Alloc, mineVars
  <1>2. ~ InHand(at[pcur], me) /\ ~ logged
    BY LogFacts DEF LoginBegin, LoginEnd, Alloc, Offered, Scanning, Locks, InHand, LogAt
  <1>3. HeldHere
    BY <1>1, <1>2, HeldNothing
  <1>4. CASE LoginBegin
    <2> DEFINE c == [me EXCEPT !.stage = "login"]
    <2>1. /\ call'[pcur] = c /\ at'[pcur] = "scan" /\ at[pcur] = "login" /\ alv' = {0}
          /\ UNCHANGED logged
      BY <1>4, Frames DEF LoginBegin, Locks
    <2>2. SameCall(c, me) /\ c.stage = "login" /\ c.pos = 0
      BY <2>1, CallFields, LogFacts DEF LogAt
    <2> HIDE DEF c
    <2>3. \A i \in Entries : ~ (i < 0)
      BY FilesAssumption DEF Entries
    <2>4. BlockAt(pcur, at'[pcur], c, buf'[pcur], disk, {0}, fcb)
      BY <2>1, <2>2, <2>3, BlockFacts DEF BlockAt, InHand, SameCall
    <2>5. ASSUME NEW p \in Procs \ {pcur} PROVE call[p].op \notin Edits /\ call[p].stage # "login"
      <3>1. LogAt(p, at[p], call[p])
        BY DEF LogInv
      <3>2. QED BY <1>2, <3>1 DEF LogAt
    <2>6. \A p \in Procs : BlockAt(p, at'[p], call'[p], buf'[p], disk', alv', fcb')
      BY <1>1, <2>1, <2>4, <2>5, BlockOthers
    <2>7. GoneEmpty' /\ Apart' /\ Taken'
      BY <1>1, <1>2, <2>1 DEF BlockInv, GoneEmpty, Apart, Taken
    <2>8. HeldApart'
      <3>1. \A p \in Procs : ~ fcb'[p].dirty
        BY <1>1, <1>2 DEF LogInv
      <3>2. QED BY <3>1 DEF HeldApart, Holds
    <2>9. QED BY <2>6, <2>7, <2>8 DEF BlockInv
  <1>5. CASE LoginEnd
    <2> DEFINE c == [me EXCEPT !.stage = Stage(me.op), !.pos = 0]
    <2>1. /\ call'[pcur] = c /\ at'[pcur] = Site(me.op) /\ UNCHANGED alv
          /\ me.stage = "login" /\ me.pos = NENT
      BY <1>5, Frames DEF LoginEnd
    <2>2. SameCall(c, me) /\ c.stage = Stage(me.op)
      BY CallFields
    <2> HIDE DEF c
    <2>3. ~ InHand(at'[pcur], c)
      BY <2>1, <2>2 DEF InHand, Site, Tested, SameCall
    <2>4. c.stage # "login" /\ (c.stage = "exists" => c.op \in {"make", "rename"})
      BY <2>2 DEF Stage, SameCall
    <2>5. BlockAt(pcur, at'[pcur], c, buf'[pcur], disk, alv, fcb)
      BY <2>2, <2>3, <2>4, BlockFacts DEF BlockAt, SameCall
    <2>6. \A p \in Procs : BlockAt(p, at'[p], call'[p], buf'[p], disk', alv', fcb')
      BY <1>1, <2>1, <2>5, BlockOthers
    <2>7. Taken'
      <3>1. \A i \in Entries : i < NENT
        BY FilesAssumption DEF Entries
      <3>2. 0 \in alv /\ \A i \in Entries : disk[i].blk \in alv
        BY <2>1, <3>1, BlockFacts DEF BlockAt
      <3>3. \A p \in Procs : ~ fcb[p].dirty
        BY <1>2 DEF LogInv
      <3>4. QED BY <1>1, <2>1, <3>2, <3>3 DEF Taken
    <2>8. GoneEmpty' /\ Apart'
      BY <1>1 DEF BlockInv, GoneEmpty, Apart
    <2>9. HeldApart'
      <3>1. \A p \in Procs : ~ fcb'[p].dirty
        BY <1>1, <1>2 DEF LogInv
      <3>2. QED BY <3>1 DEF HeldApart, Holds
    <2>10. QED BY <2>6, <2>7, <2>8, <2>9 DEF BlockInv
  <1>6. CASE Alloc /\ me.stage = "login"
    <2>1. /\ Here = disk[me.pos] /\ me.pos \in Entries
      BY <1>6, LoginOnDisk DEF Alloc
    <2>2. /\ call'[pcur] = NextEntry /\ at'[pcur] = "scan" /\ UNCHANGED logged
          /\ alv' = Claimed(Here)
      BY <1>6, Frames DEF Alloc
    <2>3. /\ NextEntry.stage = "login" /\ NextEntry.pos = me.pos + 1 /\ NextEntry.op = me.op
          /\ NextEntry.name = me.name
      BY <1>6, Fields
    <2>4. /\ alv \subseteq alv' /\ 0 \in alv
          /\ \A i \in Entries : i < me.pos => disk[i].blk \in alv
      BY <1>6, <2>2, BlockFacts DEF Claimed, BlockAt
    <2>5. disk[me.pos].blk \in alv'
      BY <2>1, <2>2, <2>4 DEF Claimed, BlockInv, GoneEmpty
    <2>6. ASSUME NEW i \in Entries, i < me.pos + 1 PROVE disk[i].blk \in alv'
      <3>1. i < me.pos \/ i = me.pos
        BY <2>1, <2>6 DEF Entries
      <3>2. QED BY <2>4, <2>5, <3>1
    <2>7. BlockAt(pcur, "scan", NextEntry, buf'[pcur], disk, alv', fcb)
      BY <2>3, <2>4, <2>6, BlockFacts DEF BlockAt, InHand
    <2>8. QED BY <1>1, <1>3, <2>2, <2>4, <2>7, BlockQuiet
  <1>7. QED BY <1>4, <1>5, <1>6

LEMMA BlockScans ==
  ASSUME FTypes, AloneInv, LogInv, BlockInv, "login" \notin ReadFails,
         Fetch \/ ReadOk \/ ReadFail \/ PassOver \/ ScanEnd \/ Exists \/ Match
  PROVE  BlockInv'
  <1>1. Mine /\ UNCHANGED <<cast, pcur, disk, alv, logged>>
    BY OnlyMine DEF Scan, Fetch, ReadOk, ReadFail, Unread, PassOver, ScanEnd, Exists, Match, dirVars
  <1>2. ~ InHand(at[pcur], me)
    BY DEF Fetch, ReadOk, ReadFail, PassOver, ScanEnd, Exists, Match, Found, Offered, Scanning,
       Locks, InHand
  <1>3. fcb'[pcur].dirty => fcb'[pcur] = fcb[pcur]
    <2>1. fcb' = fcb \/ fcb' = [fcb EXCEPT ![pcur] = NoFile]
          \/ fcb' = [fcb EXCEPT ![pcur] = [name |-> Here.name, blk |-> Here.blk, dirty |-> FALSE]]
      BY DEF Fetch, ReadOk, ReadFail, Unread, PassOver, ScanEnd, Exists, Match, mineVars
    <2>2. QED BY <2>1, Frames DEF NoFile
  <1>4. HeldHere
    BY <1>1, <1>2, <1>3, HeldNothing
  <1>5. SUFFICES BlockAt(pcur, at'[pcur], call'[pcur], buf'[pcur], disk, alv, fcb')
    BY <1>1, <1>3, <1>4, BlockQuiet
  <1>6. CASE at'[pcur] = "user" /\ call'[pcur] = NoCall
    BY <1>6, BlockIdle DEF InHand, NoCall
  <1>7. CASE Fetch \/ ReadOk
    <2>1. call'[pcur] = me /\ at'[pcur] \in {"scan", "read"} /\ UNCHANGED fcb
      BY <1>7, Frames DEF Fetch, ReadOk
    <2>2. QED BY <2>1, BlockFacts DEF BlockAt, InHand
  <1>8. CASE ReadFail \/ PassOver
    <2>1. /\ call'[pcur] \in {me, NextEntry} /\ at'[pcur] \in {"scan", "rask"} /\ UNCHANGED fcb
          /\ me.stage # "login"
      BY <1>8, Frames DEF ReadFail, Unread, PassOver, mineVars
    <2>2. QED BY <2>1, Fields, BlockFacts DEF BlockAt, InHand
  <1>9. CASE ScanEnd /\ me.stage = "exists"
    <2> DEFINE c == [me EXCEPT !.stage = "scan", !.pos = 0]
    <2>1. call'[pcur] = c /\ at'[pcur] = "scan"
      BY <1>9, Frames DEF ScanEnd
    <2>2. SameCall(c, me) /\ c.stage = "scan"
      BY CallFields
    <2> HIDE DEF c
    <2>3. c.op # "close"
      BY <1>9, <2>2, BlockFacts DEF BlockAt, SameCall
    <2>4. QED BY <2>1, <2>2, <2>3, BlockIdle DEF InHand
  <1>10. CASE (ScanEnd /\ me.stage # "exists") \/ Exists \/ Match
    BY <1>6, <1>10, Frames DEF ScanEnd, Exists, Match, Return
  <1>11. QED BY <1>7, <1>8, <1>9, <1>10

-----------------------------------------------------------------------------
(* What is on the disk before an editor takes it in hand.                  *)
LEMMA FoundBlock ==
  ASSUME FTypes, FreshInv, AloneInv, LogInv, BlockInv, OneAsker, Offered, me.op \in Edits,
         me.stage = "scan"
  PROVE  /\ me.pos \in Entries /\ Here = disk[me.pos]
         /\ Here.name = Gone => Here.blk = 0
         /\ Here.blk # 0 => /\ Here.blk \in alv
                            /\ \A i \in Entries \ {me.pos} : disk[i].blk # Here.blk
                            /\ \A q \in Procs : ~ HeldBy(q, Here.blk, fcb)
  <1>1. me.pos \in Entries /\ Here = disk[me.pos] /\ at[pcur] = "scan"
    BY OfferedOnDisk DEF Offered, Scanning
  <1>2. logged
    BY <1>1, LogFacts DEF LogAt
  <1>3. ASSUME NEW q \in Procs, Here.blk # 0, HeldBy(q, Here.blk, fcb) PROVE FALSE
    <2>1. InHand(at[q], call[q]) /\ call[q].op = "close"
      BY <1>1, <1>3 DEF HeldBy, Holds, BlockInv, HeldApart
    <2>2. q = pcur
      BY <2>1, OneEdit, FFacts DEF me, Edits
    <2>3. QED BY <1>1, <2>1, <2>2 DEF InHand
  <1>4. QED BY <1>1, <1>2, <1>3 DEF BlockInv, GoneEmpty, Apart, Taken

LEMMA BlockTakes ==
  ASSUME FTypes, FreshInv, AloneInv, LogInv, BlockInv, OneAsker, Amend \/ Erase \/ Approach
  PROVE  BlockInv'
  <1>1. Mine /\ UNCHANGED <<cast, pcur, disk, alv, logged, fcb>>
    BY OnlyMine DEF Scan, Amend, Erase, Approach, dirVars, mineVars
  <1>2. /\ Offered /\ Wanted /\ me.stage = "scan" /\ me.op \in Edits /\ ~ InHand(at[pcur], me)
    BY DEF Amend, Erase, Approach, Found, Offered, Scanning, Edits, InHand
  <1>3. HeldHere
    BY <1>1, <1>2, HeldNothing
  <1>4. SUFFICES BlockAt(pcur, at'[pcur], call'[pcur], buf'[pcur], disk, alv, fcb)
    BY <1>1, <1>3, BlockQuiet
  <1>5. /\ me.pos \in Entries /\ Here = disk[me.pos] /\ Here.blk \in 0 .. NBLK
        /\ me.new \in Names /\ me.name \in Names /\ Gone \notin Names
    BY <1>2, FoundBlock, HereTypes, LogFacts, FilesAssumption DEF LogAt
  <1>6. /\ Here.name = Gone => Here.blk = 0
        /\ Here.blk # 0 => /\ Here.blk \in alv
                           /\ \A i \in Entries \ {me.pos} : disk[i].blk # Here.blk
                           /\ \A q \in Procs : ~ HeldBy(q, Here.blk, fcb)
    BY <1>2, FoundBlock
  <1>7. CASE Amend
    <2> DEFINE e == Entry(me.new, IF me.op = "make" THEN 0 ELSE Here.blk)
    <2>1. /\ Edit(e) /\ at'[pcur] \in {"write", "refused"} /\ call'[pcur] = me
          /\ me.op \in {"make", "rename"}
      BY <1>7, Frames DEF Amend, Tested, Found
    <2>2. e.name = me.new /\ e.blk \in {0, Here.blk} /\ e \in DirEntries
      BY <1>5, Constants, WordsTypes DEF Entry
    <2> HIDE DEF e
    <2>3. buf'[pcur].data[me.pos] = e
      BY <1>2, <2>1, <2>2, EditedHere
    <2>4. EditedAt(pcur, at'[pcur], me, e, disk, alv, fcb)
      BY <1>5, <1>6, <2>1, <2>2 DEF EditedAt
    <2>5. QED BY <1>2, <2>1, <2>3, <2>4 DEF BlockAt
  <1>8. CASE Erase
    <2> DEFINE c == [me EXCEPT !.gone = Here.blk]
    <2>1. Edit(Erased) /\ at'[pcur] = "enter" /\ call'[pcur] = c /\ me.op = "delete"
      BY <1>8, Frames DEF Erase, Found
    <2>2. SameCall(c, me) /\ c.stage = me.stage /\ c.pos = me.pos /\ c.gone = Here.blk
      BY CallFields
    <2> HIDE DEF c
    <2>3. buf'[pcur].data[me.pos] = Erased /\ Erased.name = Gone /\ Erased.blk = 0
      BY <1>2, <2>1, EditedHere, WordsTypes DEF Erased, Entry
    <2>4. EditedAt(pcur, "enter", c, Erased, disk, alv, fcb)
      BY <1>5, <1>6, <2>1, <2>2, <2>3 DEF EditedAt, SameCall
    <2>5. QED BY <1>2, <2>1, <2>2, <2>3, <2>4 DEF BlockAt, SameCall
  <1>9. CASE Approach
    <2>1. /\ UNCHANGED buf /\ at'[pcur] = "enter" /\ call'[pcur] = me
          /\ me.op \in {"truncate", "close"}
      BY <1>9, Frames DEF Approach, Found, mineVars
    <2>2. Here.name = me.name
      BY <1>2, <2>1 DEF Wanted
    <2>3. EditedAt(pcur, "enter", me, Here, disk, alv, fcb)
      BY <1>5, <1>6, <2>1, <2>2 DEF EditedAt
    <2>4. QED BY <1>2, <2>1, <2>3, BlockFacts DEF BlockAt, Here
  <1>10. QED BY <1>7, <1>8, <1>9

(* The entry in hand, as the disk is about to take it.                     *)
LEMMA InHandBlock ==
  ASSUME FTypes, AloneInv, LogInv, BlockInv, InHand(at[pcur], me)
  PROVE  /\ EditedAt(pcur, at[pcur], me, Here, disk, alv, fcb)
         /\ logged /\ me.op \in Edits
  BY BlockFacts, HandLogged, FFacts DEF BlockAt, Here, me

LEMMA BlockWrites ==
  ASSUME FTypes, AloneInv, LogInv, EditInv, BlockInv, OneAsker, Mine,
         InHand(at[pcur], me), at[pcur] # "enter",
         disk' \in {disk, Stored}, UNCHANGED logged,
         \/ UNCHANGED alv
         \/ disk' = Stored /\ me.op \in {"delete", "truncate"} /\ alv' = clraloc(me.gone),
         fcb'[pcur].dirty => fcb'[pcur] = fcb[pcur] \/ fcb'[pcur].blk = 0,
         me.op = "close" /\ fcb'[pcur].dirty => InHand(at'[pcur], call'[pcur]) /\ call'[pcur] = me
  PROVE  GoneEmpty' /\ Apart' /\ Taken' /\ HeldApart'
  <1>1. /\ me.pos \in Entries /\ Stored[me.pos] = Here
        /\ \A i \in Entries \ {me.pos} : Stored[i] = disk[i]
    BY StoredOne
  <1>2. EditedAt(pcur, at[pcur], me, Here, disk, alv, fcb) /\ logged /\ pcur \in Procs
    BY InHandBlock, HandLogged, FFacts DEF me
  <1>3. ASSUME NEW i \in Entries
        PROVE  disk'[i] = disk[i] \/ (i = me.pos /\ disk'[i] = Here)
    BY <1>1
  <1>4. GoneEmpty'
    BY <1>2, <1>3 DEF GoneEmpty, BlockInv, EditedAt
  <1>5. Apart'
    BY <1>2, <1>3 DEF Apart, BlockInv, EditedAt
  <1>6. ASSUME NEW q \in Procs, fcb'[q].dirty
        PROVE  fcb'[q] = fcb[q] \/ fcb'[q].blk = 0
    BY <1>6, OthersStay
  <1>7. Taken'
    <2>1. /\ 0 \in alv /\ \A i \in Entries : disk[i].blk \in alv
          /\ \A p \in Procs : fcb[p].dirty => fcb[p].blk \in alv
      BY <1>2 DEF BlockInv, Taken
    <2>2. \A i \in Entries : disk'[i].blk \in alv
      BY <1>2, <1>3, <2>1 DEF EditedAt
    <2>3. \A p \in Procs : fcb'[p].dirty => fcb'[p].blk \in alv
      BY <1>6, <2>1
    <2>4. CASE UNCHANGED alv
      BY <2>1, <2>2, <2>3, <2>4 DEF Taken
    <2>5. CASE disk' = Stored /\ me.op \in {"delete", "truncate"} /\ alv' = clraloc(me.gone)
      <3>1. CASE me.gone = 0
        <4>1. alv' = alv
          BY <2>5, <3>1 DEF clraloc, Blocks
        <4>2. QED BY <2>4, <4>1
      <3>2. CASE me.gone # 0
        <4>1. /\ Here.blk = 0
              /\ \A i \in Entries \ {me.pos} : disk[i].blk # me.gone
              /\ \A q \in Procs : ~ HeldBy(q, me.gone, fcb)
          BY <1>2, <2>5, <3>2 DEF EditedAt
        <4>2. alv \ {me.gone} \subseteq alv'
          BY <2>5 DEF clraloc
        <4>3. \A i \in Entries : disk'[i].blk # me.gone
          BY <1>1, <2>5, <3>2, <4>1
        <4>4. \A p \in Procs : fcb'[p].dirty => fcb'[p].blk # me.gone
          BY <1>6, <3>2, <4>1 DEF HeldBy
        <4>5. QED BY <2>1, <2>2, <2>3, <3>2, <4>2, <4>3, <4>4 DEF Taken
      <3>3. QED BY <3>1, <3>2
    <2>6. QED BY <2>4, <2>5
  <1>8. HeldApart'
    <2>1. ASSUME NEW p \in Procs, NEW i \in Entries, Holds(p)', fcb'[p].blk = disk'[i].blk
          PROVE  InHand(at'[p], call'[p]) /\ call'[p].op = "close" /\ i = call'[p].pos
      <3>1. fcb'[p] = fcb[p] /\ Holds(p)
        BY <1>6, <2>1 DEF Holds
      <3>2. CASE disk'[i] = disk[i]
        <4>1. InHand(at[p], call[p]) /\ call[p].op = "close" /\ i = call[p].pos
          BY <2>1, <3>1, <3>2 DEF BlockInv, HeldApart
        <4>2. CASE p = pcur
          BY <2>1, <3>1, <4>1, <4>2 DEF me, Holds
        <4>3. CASE p # pcur
          BY <4>1, <4>3, OthersStay
        <4>4. QED BY <4>2, <4>3
      <3>3. CASE i = me.pos /\ disk'[i] = Here
        <4>1. p = pcur /\ me.op = "close"
          BY <1>2, <2>1, <3>1, <3>3 DEF EditedAt, HeldBy, Holds
        <4>2. QED BY <2>1, <3>1, <3>3, <4>1 DEF Holds
      <3>4. QED BY <1>3, <3>2, <3>3
    <2>2. ASSUME NEW p \in Procs, NEW q \in Procs, Holds(p)', Holds(q)', fcb'[p].blk = fcb'[q].blk
          PROVE  p = q
      BY <1>6, <2>2 DEF Holds, BlockInv, HeldApart
    <2>3. QED BY <2>1, <2>2 DEF HeldApart
  <1>9. QED BY <1>4, <1>5, <1>7, <1>8

LEMMA BlockWritten ==
  ASSUME FTypes, AloneInv, LogInv, EditInv, BlockInv, OneAsker,
         InHand(at[pcur], me), at[pcur] # "enter",
         NEW ok \in BOOLEAN, Written(ok), disk' \in {disk, Stored}, ok => disk' = Stored
  PROVE  BlockInv'
  <1>1. Mine /\ UNCHANGED <<cast, pcur, logged>>
    BY MineWritten DEF Written
  <1>2. /\ fcb'[pcur].dirty => fcb'[pcur] = fcb[pcur] \/ fcb'[pcur].blk = 0
        /\ me.op = "close" => ~ fcb'[pcur].dirty
    <2> DEFINE f == [name |-> me.name, blk |-> 0, dirty |-> TRUE]
    <2>1. \/ me.op # "close" /\ fcb' = fcb
          \/ fcb' = [fcb EXCEPT ![pcur] = NoFile]
          \/ me.op # "close" /\ fcb' = [fcb EXCEPT ![pcur] = f]
      BY DEF Written, Opened
    <2>2. f.blk = 0 /\ ~ NoFile.dirty
      BY DEF NoFile
    <2> HIDE DEF f
    <2>3. QED BY <2>1, <2>2, Frames
  <1>3. \/ UNCHANGED alv
        \/ disk' = Stored /\ me.op \in {"delete", "truncate"} /\ alv' = clraloc(me.gone)
    BY DEF Written, Freed
  <1>4. GoneEmpty' /\ Apart' /\ Taken' /\ HeldApart'
    BY <1>1, <1>2, <1>3, BlockWrites
  <1>5. BlockAt(pcur, at'[pcur], call'[pcur], buf'[pcur], disk', alv', fcb')
    <2>1. CASE at'[pcur] = "user" /\ call'[pcur] = NoCall
      BY <2>1, BlockIdle DEF InHand, NoCall
    <2>2. CASE call'[pcur] = NextEntry /\ at'[pcur] = "scan" /\ me.op # "close"
      <3>1. NextEntry.op = me.op /\ NextEntry.stage = me.stage
        BY Fields
      <3>2. me.stage # "login"
        BY HandLogged, FFacts DEF me
      <3>3. QED BY <2>2, <3>1, <3>2, BlockFacts DEF BlockAt, InHand
    <2>3. QED BY <2>1, <2>2, Frames DEF Written, Return
  <1>6. \A p \in Procs \ {pcur} : call[p].op \notin Edits /\ call[p].stage # "login"
    <2>1. me.op \in Edits /\ logged
      BY HandLogged, FFacts DEF me
    <2>2. ASSUME NEW p \in Procs \ {pcur} PROVE call[p].stage # "login"
      BY <2>1 DEF LogInv, LogAt
    <2>3. QED BY <2>1, <2>2, NobodyBeside
  <1>7. QED BY <1>1, <1>4, <1>5, <1>6, BlockOthers DEF BlockInv

(* Between taking an entry in hand and writing it.                         *)
LEMMA BlockEnters ==
  ASSUME FTypes, AloneInv, LogInv, BlockInv, EnterDelete \/ EnterTruncate \/ Merge \/ BadMerge
  PROVE  BlockInv'
  <1>1. Mine /\ UNCHANGED <<cast, pcur, disk, alv, logged, fcb>>
    BY OnlyMine DEF Update, EnterDelete, EnterTruncate, Merge, BadMerge, dirVars, mineVars
  <1>2. InHand(at[pcur], me) /\ at[pcur] = "enter" /\ pcur \in Procs
    BY FFacts DEF EnterDelete, EnterTruncate, Merge, BadMerge, Locks, InHand
  <1>3. /\ EditedAt(pcur, "enter", me, Here, disk, alv, fcb) /\ logged
        /\ me.stage # "login" /\ me.op \in Edits
        /\ me.stage = "exists" => me.op \in {"make", "rename"}
        /\ me.op = "close" => fcb[pcur].dirty /\ fcb[pcur].name = me.name
    BY <1>2, BlockFacts, HandLogged DEF BlockAt, Here, me
  <1>4. /\ me.pos \in Entries /\ Here.name \in Names \cup {Gone} /\ Here.blk \in 0 .. NBLK
        /\ fcb[pcur].blk \in 0 .. NBLK
    BY <1>2, HereTypes, FFacts DEF FcbTypes
  <1>5. CASE EnterDelete
    <2>1. UNCHANGED buf /\ call'[pcur] = me /\ at'[pcur] \in {"write", "refused"} /\ me.op = "delete"
      BY <1>5, Frames DEF EnterDelete, Tested, mineVars
    <2>2. EditedAt(pcur, at'[pcur], me, Here, disk, alv, fcb)
      BY <1>3, <2>1 DEF EditedAt
    <2>3. BlockAt(pcur, at'[pcur], me, buf'[pcur], disk, alv, fcb)
      BY <1>3, <2>1, <2>2 DEF BlockAt, Here
    <2>4. QED BY <1>1, <2>1, <2>3, BlockQuiet, HeldNothing
  <1>6. CASE EnterTruncate
    <2> DEFINE c == [me EXCEPT !.gone = Here.blk]
    <2>1. /\ Edit(Entry(Here.name, 0)) /\ call'[pcur] = c /\ at'[pcur] \in {"write", "refused"}
          /\ me.op = "truncate"
      BY <1>6, Frames DEF EnterTruncate, Tested
    <2>2. SameCall(c, me) /\ c.stage = me.stage /\ c.pos = me.pos /\ c.gone = Here.blk
      BY CallFields
    <2> HIDE DEF c
    <2>3. /\ buf'[pcur].data[me.pos] = Entry(Here.name, 0)
          /\ Entry(Here.name, 0).blk = 0
      BY <1>2, <1>4, <2>1, EditedHere, WordsTypes, Constants DEF Entry
    <2>4. EditedAt(pcur, at'[pcur], c, Entry(Here.name, 0), disk, alv, fcb)
      BY <1>3, <2>1, <2>2, <2>3 DEF EditedAt, SameCall
    <2>5. BlockAt(pcur, at'[pcur], c, buf'[pcur], disk, alv, fcb)
      BY <1>3, <2>1, <2>2, <2>3, <2>4 DEF BlockAt, SameCall
    <2>6. QED BY <1>1, <2>1, <2>5, BlockQuiet, HeldNothing
  <1>7. CASE Merge
    <2> DEFINE k == IF Here.blk = 0 THEN fcb[pcur].blk ELSE Here.blk
    <2>1. /\ Edit(Entry(Here.name, k)) /\ call'[pcur] = me /\ at'[pcur] \in {"write", "refused"}
          /\ me.op = "close"
      BY <1>7, Frames DEF Merge, Tested
    <2>2. k \in 0 .. NBLK /\ (k = Here.blk \/ (Here.blk = 0 /\ k = fcb[pcur].blk))
      BY <1>4
    <2> HIDE DEF k
    <2>3. /\ buf'[pcur].data[me.pos] = Entry(Here.name, k)
          /\ Entry(Here.name, k).blk = k /\ Entry(Here.name, k).name = Here.name
      BY <1>2, <1>4, <2>1, <2>2, EditedHere, WordsTypes DEF Entry
    <2>4. fcb[pcur].dirty /\ Here.name = me.name /\ disk[me.pos] = Here /\ me.name \in Names
      BY <1>3, <2>1, LogFacts DEF EditedAt, LogAt
    <2>5. ASSUME k # 0, Here.blk = 0, k = fcb[pcur].blk
          PROVE  /\ k \in alv
                 /\ \A i \in Entries \ {me.pos} : disk[i].blk # k
                 /\ \A q \in Procs : HeldBy(q, k, fcb) => q = pcur
      <3>1. Holds(pcur)
        BY <2>4, <2>5 DEF Holds
      <3>2. k \in alv
        BY <1>2, <1>3, <2>4, <2>5 DEF BlockInv, Taken
      <3>3. QED BY <1>2, <2>5, <3>1, <3>2 DEF BlockInv, HeldApart, HeldBy, Holds, me
    <2>6. EditedAt(pcur, at'[pcur], me, Entry(Here.name, k), disk, alv, fcb)
      BY <1>3, <2>1, <2>2, <2>3, <2>4, <2>5, FilesAssumption DEF EditedAt
    <2>7. BlockAt(pcur, at'[pcur], me, buf'[pcur], disk, alv, fcb)
      BY <1>3, <2>1, <2>3, <2>6 DEF BlockAt
    <2>8. HeldHere
      BY <1>1, <1>2, <2>1 DEF HeldHere, BlockInv, HeldApart, Holds, InHand, me
    <2>9. QED BY <1>1, <2>1, <2>7, <2>8, BlockQuiet
  <1>8. CASE BadMerge
    <2>1. /\ call'[pcur] = NextEntry /\ at'[pcur] = "scan" /\ me.op = "close"
          /\ Here.blk # fcb[pcur].blk
      BY <1>8, Frames DEF BadMerge, Agree
    <2>2. Here = disk[me.pos]
      BY <1>3, <2>1 DEF EditedAt
    <2>3. HeldHere
      BY <1>1, <1>2, <2>1, <2>2 DEF HeldHere, BlockInv, HeldApart, Holds, me
    <2>4. BlockAt(pcur, at'[pcur], NextEntry, buf'[pcur], disk, alv, fcb)
      BY <1>3, <2>1, Fields DEF BlockAt, InHand
    <2>5. QED BY <1>1, <2>1, <2>3, <2>4, BlockQuiet
  <1>9. QED BY <1>5, <1>6, <1>7, <1>8

(* The block a file is given is nobody's.                                  *)
LEMMA BlockGiven ==
  ASSUME FTypes, AloneInv, LogInv, BlockInv, GetBlock
  PROVE  BlockInv'
  <1>1. Mine /\ UNCHANGED <<cast, pcur, disk, logged, buf>> /\ pcur \in Procs
    BY OnlyMine, FFacts DEF Update, GetBlock
  <1>2. at[pcur] = "alloc" /\ me.op = "write" /\ me.stage # "login" /\ ~ InHand(at[pcur], me)
        /\ logged
    BY NotLogging, LogFacts, FFacts DEF GetBlock, Locks, Placed, InHand, LogAt
  <1>3. CASE Return /\ UNCHANGED <<alv, fcb>>
    <2>1. at'[pcur] = "user" /\ call'[pcur] = NoCall
      BY <1>3, Frames DEF Return
    <2>2. BlockAt(pcur, at'[pcur], call'[pcur], buf'[pcur], disk, alv, fcb')
      BY <2>1, BlockIdle DEF InHand, NoCall
    <2>3. QED BY <1>1, <1>2, <1>3, <2>2, BlockQuiet, HeldNothing
  <1>4. ASSUME NEW b \in getaloc, alv' = alv \cup {b},
               fcb' = [fcb EXCEPT ![pcur].blk = b, ![pcur].dirty = TRUE],
               Goto(Tested("data")) /\ UNCHANGED call
        PROVE  BlockInv'
    <2>1. /\ b \notin alv /\ fcb'[pcur].blk = b /\ fcb'[pcur].dirty
          /\ call'[pcur] = me /\ at'[pcur] \in {"data", "refused"} /\ alv' = alv \cup {b}
      BY <1>1, <1>4, Frames DEF getaloc, Tested, FTypes, TypeOK
    <2>2. BlockAt(pcur, at'[pcur], call'[pcur], buf'[pcur], disk, alv', fcb')
      BY <1>2, <2>1, BlockFacts DEF BlockAt, InHand
    <2>3. /\ 0 \in alv /\ \A i \in Entries : disk[i].blk \in alv
          /\ \A p \in Procs : fcb[p].dirty => fcb[p].blk \in alv
      BY <1>2 DEF BlockInv, Taken
    <2>4. \A p \in Procs \ {pcur} : fcb'[p] = fcb[p]
      BY <1>1, OthersStay
    <2>5. Taken'
      <3>1. \A p \in Procs : fcb'[p].dirty => fcb'[p].blk \in alv'
        BY <2>1, <2>3, <2>4
      <3>2. QED BY <1>1, <2>1, <2>3, <3>1 DEF Taken
    <2>6. HeldApart'
      <3>1. ASSUME NEW p \in Procs, NEW i \in Entries, Holds(p)', fcb'[p].blk = disk'[i].blk
            PROVE  InHand(at'[p], call'[p]) /\ call'[p].op = "close" /\ i = call'[p].pos
        <4>1. p # pcur
          BY <1>1, <2>1, <2>3, <3>1
        <4>2. Holds(p) /\ fcb[p].blk = disk[i].blk
          BY <1>1, <2>4, <3>1, <4>1 DEF Holds
        <4>3. QED BY <1>1, <4>1, <4>2, OthersStay DEF BlockInv, HeldApart
      <3>2. ASSUME NEW p \in Procs, NEW q \in Procs, Holds(p)', Holds(q)', fcb'[p].blk = fcb'[q].blk
            PROVE  p = q
        <4>1. ASSUME NEW r \in Procs \ {pcur}, Holds(r)' PROVE Holds(r) /\ fcb'[r].blk # b
          BY <2>1, <2>3, <2>4, <4>1 DEF Holds
        <4>2. QED BY <2>1, <2>4, <3>2, <4>1 DEF BlockInv, HeldApart
      <3>3. QED BY <3>1, <3>2 DEF HeldApart
    <2>7. GoneEmpty' /\ Apart'
      BY <1>1 DEF BlockInv, GoneEmpty, Apart
    <2>8. \A p \in Procs : BlockAt(p, at'[p], call'[p], buf'[p], disk', alv', fcb')
      BY <1>1, <1>4, <2>1, <2>2, BlockOthers
    <2>9. QED BY <2>5, <2>6, <2>7, <2>8 DEF BlockInv
  <1>5. QED BY <1>3, <1>4 DEF GetBlock

LEMMA BlockUpdates ==
  ASSUME FTypes, AloneInv, LogInv, EditInv, BlockInv, OneAsker, ~ GivenUp, Update
  PROVE  BlockInv'
  <1>1. Mine /\ UNCHANGED <<cast, pcur>> /\ pcur \in Procs
    BY OnlyMine, FFacts
  <1>2. CASE EnterDelete \/ EnterTruncate \/ Merge \/ BadMerge
    BY <1>2, BlockEnters
  <1>3. CASE WriteOk \/ (WriteFail /\ ~ asks) \/ WriteRefused
    <2>1. /\ InHand(at[pcur], me) /\ at[pcur] # "enter"
          /\ disk' \in {disk, Stored}
          /\ \E ok \in BOOLEAN : Written(ok) /\ (ok => disk' = Stored)
      BY <1>3 DEF WriteOk, WriteFail, WriteRefused, Locks, InHand, GivenUp
    <2>2. QED BY <2>1, BlockWritten
  <1>4. CASE WriteFail /\ asks
    <2>1. /\ InHand(at[pcur], me) /\ at[pcur] = "write" /\ at'[pcur] = "wask" /\ call'[pcur] = me
          /\ disk' \in {disk, Stored} /\ UNCHANGED <<buf, fcb, alv, logged>>
      BY <1>4, Frames DEF WriteFail, Locks, InHand, mineVars
    <2>2. GoneEmpty' /\ Apart' /\ Taken' /\ HeldApart'
      BY <1>1, <2>1, BlockWrites DEF InHand
    <2>3. /\ me.pos \in Entries /\ Stored[me.pos] = Here
          /\ \A i \in Entries \ {me.pos} : Stored[i] = disk[i]
      BY <2>1, StoredOne
    <2>4. EditedAt(pcur, "write", me, Here, disk, alv, fcb)
      BY <2>1, BlockFacts DEF BlockAt, Here
    <2>5. EditedAt(pcur, "wask", me, Here, disk', alv, fcb)
      BY <2>1, <2>3, <2>4 DEF EditedAt
    <2>6. logged /\ me.stage # "login" /\ me.op \in Edits
      BY <1>1, <2>1, HandLogged DEF me
    <2>7. BlockAt(pcur, "wask", me, buf[pcur], disk', alv, fcb)
      BY <2>5, <2>6, BlockFacts DEF BlockAt, Here
    <2>8. \A p \in Procs \ {pcur} : call[p].op \notin Edits /\ call[p].stage # "login"
      BY <2>6, NobodyBeside DEF LogInv, LogAt
    <2>9. QED BY <1>1, <2>1, <2>2, <2>7, <2>8, BlockOthers DEF BlockInv
  <1>5. CASE GetBlock
    BY <1>5, BlockGiven
  <1>6. CASE Data \/ DataFail \/ DataRefused
    <2>1. /\ UNCHANGED <<disk, alv, logged>> /\ ~ InHand(at[pcur], me)
          /\ \/ at'[pcur] = "user" /\ call'[pcur] = NoCall
             \/ at'[pcur] = "dask" /\ call'[pcur] = me /\ UNCHANGED fcb
          /\ UNCHANGED fcb \/ fcb' = [fcb EXCEPT ![pcur] = NoFile]
      BY <1>6, Frames DEF Data, DataFail, DataRefused, Locks, Return, WarmBoot, InHand, dirVars
    <2>2. fcb'[pcur].dirty => fcb'[pcur] = fcb[pcur]
      BY <2>1, Frames DEF NoFile
    <2>3. BlockAt(pcur, at'[pcur], call'[pcur], buf'[pcur], disk, alv, fcb')
      <3>1. CASE at'[pcur] = "user" /\ call'[pcur] = NoCall
        BY <3>1, BlockIdle DEF InHand, NoCall
      <3>2. CASE at'[pcur] = "dask" /\ call'[pcur] = me /\ UNCHANGED fcb
        BY <3>2, BlockFacts DEF BlockAt, InHand
      <3>3. QED BY <2>1, <3>1, <3>2
    <2>4. QED BY <1>1, <2>1, <2>2, <2>3, BlockQuiet, HeldNothing
  <1>7. QED BY <1>2, <1>3, <1>4, <1>5, <1>6 DEF Update

LEMMA BlockAnswers ==
  ASSUME FTypes, AloneInv, LogInv, EditInv, BlockInv, OneAsker, ~ GivenUp, Operator
  PROVE  BlockInv'
  <1>1. Mine /\ UNCHANGED <<cast, pcur>> /\ pcur \in Procs
    BY OnlyMine, FFacts
  <1>2. me.stage # "login"
    BY NotLogging DEF Operator, Retry, Continue, Abort, Answered, Asking
  <1>3. CASE Continue /\ at[pcur] = "wask"
    <2>1. InHand(at[pcur], me) /\ Written(FALSE) /\ UNCHANGED disk
      BY <1>3 DEF Continue, InHand
    <2>2. QED BY <1>3, <2>1, BlockWritten
  <1>4. CASE at[pcur] = "wask" /\ Retry
    <2>1. /\ UNCHANGED <<disk, alv, logged, buf, fcb>> /\ call'[pcur] = me /\ at'[pcur] = "write"
      BY <1>4, Frames DEF Retry, dirVars, mineVars
    <2>2. EditedAt(pcur, "wask", me, Here, disk, alv, fcb)
      BY <1>4, BlockFacts DEF BlockAt, Here, InHand
    <2>3. EditedAt(pcur, "write", me, Here, disk, alv, fcb)
      BY <2>2 DEF EditedAt
    <2>4. BlockAt(pcur, "write", me, buf[pcur], disk, alv, fcb)
      BY <2>3, BlockFacts DEF BlockAt, Here
    <2>5. HeldHere
      BY <1>1, <2>1 DEF HeldHere, BlockInv, HeldApart, Holds, InHand, me
    <2>6. QED BY <1>1, <2>1, <2>4, <2>5, BlockQuiet
  <1>5. CASE at[pcur] \in {"rask", "dask"} /\ (at[pcur] = "rask" => ~ Abort)
    <2>1. /\ UNCHANGED <<disk, alv, logged>> /\ ~ InHand(at[pcur], me)
          /\ \/ at'[pcur] = "user" /\ call'[pcur] = NoCall
             \/ /\ at'[pcur] \in {"scan", "read", "data"} /\ call'[pcur] \in {me, NextEntry}
                /\ UNCHANGED fcb
          /\ UNCHANGED fcb \/ fcb' = [fcb EXCEPT ![pcur] = NoFile]
      BY <1>5, Frames DEF Operator, Retry, Continue, Abort, Unread, WarmBoot, Return, InHand,
         dirVars, mineVars
    <2>2. fcb'[pcur].dirty => fcb'[pcur] = fcb[pcur]
      BY <2>1, Frames DEF NoFile
    <2>3. BlockAt(pcur, at'[pcur], call'[pcur], buf'[pcur], disk, alv, fcb')
      <3>1. CASE at'[pcur] = "user" /\ call'[pcur] = NoCall
        BY <3>1, BlockIdle DEF InHand, NoCall
      <3>2. CASE /\ at'[pcur] \in {"scan", "read", "data"} /\ call'[pcur] \in {me, NextEntry}
                 /\ UNCHANGED fcb
        BY <1>2, <3>2, Fields, BlockFacts DEF BlockAt, InHand
      <3>3. QED BY <2>1, <3>1, <3>2
    <2>4. QED BY <1>1, <2>1, <2>2, <2>3, BlockQuiet, HeldNothing
  <1>6. QED
    <2>1. at[pcur] \in {"rask", "wask", "dask"}
      BY DEF Operator, Retry, Continue, Abort, Answered, Asking
    <2>2. at[pcur] \in {"rask", "wask"} => ~ Abort
      BY DEF GivenUp
    <2>3. QED BY <1>3, <1>4, <1>5, <2>1, <2>2 DEF Operator

LEMMA BlockStep ==
  ASSUME FTypes, FreshInv, AloneInv, EditInv, LogInv, BlockInv, OneAsker,
         "login" \notin ReadFails, ~ GivenUp, Next
  PROVE  BlockInv'
  <1>1. CASE Alloc
    BY <1>1, BlockLogin DEF Alloc
  <1>2. CASE Scan
    BY <1>1, <1>2, BlockLogin, BlockScans, BlockTakes DEF Scan
  <1>3. CASE \E q \in Procs : Switch(q)
    <2>1. UNCHANGED <<at, call, dirVars, mineVars>>
      BY <1>3 DEF Switch
    <2>2. QED BY <2>1 DEF BlockInv, GoneEmpty, Apart, Taken, HeldApart, Holds, dirVars, mineVars
  <1>4. QED BY <1>2, <1>3, BlockCalls, BlockUpdates, BlockAnswers DEF Next

LEMMA BlockStart == Init => BlockInv
  <1> SUFFICES ASSUME Init PROVE BlockInv
    OBVIOUS
  <1>1. GoneEmpty /\ Apart /\ Taken /\ HeldApart
    BY DEF Init, GoneEmpty, Apart, Taken, HeldApart, Holds, Erased, Entry, NoFile
  <1>2. ASSUME NEW p \in Procs PROVE BlockAt(p, at[p], call[p], buf[p], disk, alv, fcb)
    BY BlockIdle DEF Init, NoCall, InHand
  <1>3. QED BY <1>1, <1>2 DEF BlockInv

LEMMA BlocksKept ==
  ASSUME OneAsker, NoReset, "login" \notin ReadFails
  PROVE  Spec /\ [][~ GivenUp]_vars => [](BlocksTaken /\ BlocksDisjoint)
  <1> DEFINE Inv == FTypes /\ FreshInv /\ AloneInv /\ EditInv /\ LogInv /\ BlockInv
  <1>1. Init => Inv
    BY FilesStart, FreshStart, AloneStart, EditStart, LogStart, BlockStart
  <1>2. Inv /\ [Next]_vars /\ [~ GivenUp]_vars => Inv'
    <2> SUFFICES ASSUME Inv, [Next]_vars, [~ GivenUp]_vars PROVE Inv'
      OBVIOUS
    <2>1. CASE UNCHANGED vars
      <3>1. FTypes' /\ FreshInv' /\ AloneInv' /\ EditInv'
        BY <2>1 DEF vars, dirVars, mineVars, FTypes, TypeOK, FreshInv, AloneInv, EditInv,
           AsOnDisk, Pending, LockFree
      <3>2. LogInv'
        BY <2>1 DEF vars, dirVars, mineVars, LogInv, LogAt
      <3>3. BlockInv'
        BY <2>1 DEF vars, dirVars, mineVars, BlockInv, GoneEmpty, Apart, Taken, HeldApart, Holds
      <3>4. QED BY <3>1, <3>2, <3>3
    <2>2. CASE Next /\ ~ GivenUp
      BY <2>2, TypesStep, FreshStep, AloneStep, EditStep, LogStep, BlockStep
    <2>3. QED BY <2>1, <2>2
  <1>3. Inv => BlocksTaken
    BY DEF BlockInv, Taken, BlocksTaken
  <1>4. Inv => BlocksDisjoint
    <2> SUFFICES ASSUME Inv PROVE BlocksDisjoint
      OBVIOUS
    <2>1. ASSUME NEW p \in Procs, NEW i \in Entries, Holds(p), fcb[p].blk = disk[i].blk
          PROVE  fcb[p].name = disk[i].name
      <3>1. InHand(at[p], call[p]) /\ call[p].op = "close" /\ i = call[p].pos
        BY <2>1 DEF BlockInv, HeldApart
      <3>2. BlockAt(p, at[p], call[p], buf[p], disk, alv, fcb)
        BY DEF BlockInv
      <3>3. QED BY <3>1, <3>2 DEF BlockAt, EditedAt
    <2>2. ASSUME NEW p \in Procs, NEW q \in Procs, Holds(p), Holds(q), fcb[p].blk = fcb[q].blk
          PROVE  fcb[p].name = fcb[q].name
      BY <2>2 DEF BlockInv, HeldApart
    <2>3. QED BY <2>1, <2>2 DEF BlocksDisjoint, BlockInv, Apart
  <1> HIDE DEF Inv
  <1>5. QED BY <1>1, <1>2, <1>3, <1>4, PTL DEF Spec

(* No block is given to a second file: every block the directory or an     *)
(* unclosed file has is taken in the allocation vector.                    *)
THEOREM BlocksStayTaken ==
  ASSUME OneAsker, NoReset, "login" \notin ReadFails
  PROVE  Spec /\ [][~ GivenUp]_vars => []BlocksTaken
  BY BlocksKept, PTL

(* No block is in two files.                                               *)
THEOREM BlocksStayApart ==
  ASSUME OneAsker, NoReset, "login" \notin ReadFails
  PROVE  Spec /\ [][~ GivenUp]_vars => []BlocksDisjoint
  BY BlocksKept, PTL
=============================================================================
