--------------------------------- MODULE Files ---------------------------------
(***************************************************************************)
(* One drive's directory and allocation vector as several programs use     *)
(* them at once: dskutil.c (the directory scan and the per-process         *)
(* directory record it works on), the scan functions of fileio.c, and the  *)
(* block allocation of bdosrw.c.                                           *)
(*                                                                         *)
(* A file is one directory entry with at most one block.  Entries that     *)
(* cannot match are read and passed over like the others: the signature    *)
(* table (dskhash.c) only saves that work.  The drive is a fixed disk,     *)
(* without checksums (cks = 0, bios900.c), label, stamps or passwords.     *)
(* `disk' is what reads return, that is through the sector cache.          *)
(*                                                                         *)
(* A BDOS call goes on until it parks, so only pcur moves.  It parks where *)
(* a LOCK finds the lock taken and where a disk error asks the operator;   *)
(* `at' names those places and the steps between them:                     *)
(*   "user"                    between calls                               *)
(*   "scan"                    the loop of dirscan()                       *)
(*   "login" "enter" "alloc"   before the LOCK of seldsk(), of delete(),   *)
(*                             truncit() or close(), and of getaloc()      *)
(*   "read" "write" "data"     before the LOCK of do_phio()                *)
(*   "rask" "wask" "dask"      at the operator's prompt                    *)
(*   "refused"                 rdwrt() has found the drive read-only       *)
(***************************************************************************)
EXTENDS Integers, FiniteSets

CONSTANTS NP,           \* number of processes
          NENT, PERREC, \* directory entries, and how many a record holds
          NBLK,         \* data blocks
          Names, Gone,  \* file names, and the 0xE5 of an empty entry
          Casts,        \* who does what, see Roles
          ReadFails,    \* the stages of a call in which a read may be refused
          Answers       \* what the operator may answer at which prompt: R, C, A

ASSUME FilesAssumption ==
  /\ NP \in Nat \ {0} /\ NENT \in Nat \ {0} /\ PERREC \in Nat \ {0}
  /\ NBLK \in Nat
  /\ Gone \notin Names

Asking == {"rask", "wask", "dask"}

ASSUME AnswersAssumption == Answers \in [Asking -> SUBSET {"R", "C", "A"}]

Procs   == 0 .. NP - 1
Entries == 0 .. NENT - 1
Blocks  == 1 .. NBLK    \* block 0 holds the directory, and 0 in a map means none

Ops == {"search", "open", "make", "delete", "rename", "truncate", "close",
        "write", "reset"}

(* asks: error mode 0, a disk error goes to the operator; otherwise fn 45  *)
(* returns it to the program.  ops: the calls the programs make.           *)
Roles == [asks : BOOLEAN, ops : SUBSET Ops]

ASSUME CastsAssumption == Casts \subseteq [Procs -> Roles]

VARIABLES cast,         \* the roles of this behaviour
          pcur, at, call, lk,
          disk,         \* the directory
          alv, hiwater, logged, ro,
          buf,          \* pdirbuf with dirsecn, per process
          fresh,        \* the processes whose dirgen equals the drive's dirwgen
          fcb           \* the file each program has open

dirVars  == <<disk, alv, hiwater, logged, ro>>
mineVars == <<buf, fresh, fcb>>
vars == <<cast, pcur, at, call, lk, dirVars, mineVars>>

Entry(n, b) == [name |-> n, blk |-> b]
Erased == Entry(Gone, 0)

NoBuf  == [rec |-> -1, data |-> <<>>]
NoFile == [name |-> Gone, blk |-> 0, dirty |-> FALSE]
NoCall == [op |-> "none", name |-> Gone, new |-> Gone, stage |-> "none",
           pos |-> 0, gone |-> 0]

Rec(i) == i \div PERREC

Members(r) == {i \in Entries : Rec(i) = r}

Init ==                 \* an empty drive nobody has selected yet
  /\ cast \in Casts
  /\ pcur = 0
  /\ at = [p \in Procs |-> "user"]
  /\ call = [p \in Procs |-> NoCall]
  /\ lk = -1
  /\ disk = [i \in Entries |-> Erased]
  /\ alv = {}
  /\ hiwater = 0
  /\ logged = FALSE
  /\ ro = FALSE
  /\ buf = [p \in Procs |-> NoBuf]
  /\ fresh = {}
  /\ fcb = [p \in Procs |-> NoFile]

-----------------------------------------------------------------------------
(* Who runs.                                                               *)

me   == call[pcur]
asks == cast[pcur].asks

LockFree == lk \in {-1, pcur}

AtLock == {"login", "enter", "alloc", "read", "write", "data"}

Goto(s)    == at' = [at EXCEPT ![pcur] = s]
Step(c, s) == Goto(s) /\ call' = [call EXCEPT ![pcur] = c]
Return     == Step(NoCall, "user")

Switch(q) ==
  /\ q # pcur /\ cast[q].ops # {}
  /\ at[pcur] \in {"user"} \cup Asking \/ (at[pcur] \in AtLock /\ ~ LockFree)
  /\ pcur' = q
  /\ UNCHANGED <<cast, at, call, lk, dirVars, mineVars>>

(* At this site with the lock to be had.                                   *)
Locks(s) == at[pcur] = s /\ LockFree

-----------------------------------------------------------------------------
(* The directory buffer.                                                   *)

dirhave_tag_only(r) == buf[pcur].rec = r

dirhave(r) == buf[pcur].rec = r /\ pcur \in fresh

dirdrop == buf' = [buf EXCEPT ![pcur] = NoBuf]

Here == buf[pcur].data[me.pos]          \* the entry offered

Edit(e) == buf' = [buf EXCEPT ![pcur].data[me.pos] = e]

Stored ==               \* the directory with this buffer written to it
  [i \in Entries |-> IF Rec(i) = Rec(me.pos) THEN buf[pcur].data[i] ELSE disk[i]]

Published_quietly == fresh \cup {pcur}

(* dirwgen moves on: everybody else's record is suspect.                   *)
Published == {pcur}

-----------------------------------------------------------------------------
(* The allocation vector.                                                  *)

getaloc_one_more == {b \in 0 .. NBLK + 1 : b \notin alv /\ \A c \in 0 .. b - 1 : c \in alv}

(* The first free block, none on a full disk.                              *)
getaloc == {b \in 0 .. NBLK : b \notin alv /\ \A c \in 0 .. b - 1 : c \in alv}

clraloc(b) == alv \ ({b} \cap Blocks)

Claimed_none(e) == alv

Claimed(e) == IF e.name = Gone THEN alv ELSE alv \cup {e.blk}

-----------------------------------------------------------------------------
(* Calls.  tmp_sel() selects the drive; one nobody has logged in, or that  *)
(* was reset, is logged in first.                                          *)

InUse(n) == \E p \in Procs : fcb[p].name = n

(* What programs are assumed to do: no file is erased, renamed, cut or     *)
(* made while it is open, and FCBs are used for the file they name.        *)
Sensible(op, n, m) ==
  /\ op \in {"delete", "truncate", "make", "rename"} => ~ InUse(n)
  /\ op \in {"close", "write"} => n = fcb[pcur].name
  /\ op = "close" => fcb[pcur].dirty    \* else it ends after the flush
  /\ op = "rename" => m # n /\ ~ InUse(m)
  /\ op # "rename" => m = n

Stage(op) == IF op \in {"make", "rename"} THEN "exists" ELSE "scan"

(* rdwrt() tests ro_dsk once, before the transfer and its retries.         *)
Tested(s) == IF ro THEN "refused" ELSE s

Site(op) == IF op # "write" THEN "scan"
            ELSE IF fcb[pcur].blk = 0 THEN "alloc" ELSE Tested("data")

Begin(op, n, m) ==
  /\ at[pcur] = "user"
  /\ op \in cast[pcur].ops \ {"reset"}
  /\ Sensible(op, n, m)
  /\ Step([NoCall EXCEPT !.op = op, !.name = n, !.new = m, !.stage = Stage(op)],
          IF logged THEN Site(op) ELSE "login")
  /\ IF logged THEN UNCHANGED buf ELSE dirdrop
  /\ UNCHANGED <<cast, pcur, lk, dirVars, fresh, fcb>>

Quit ==                 \* a program ends, or forgets the file it had open
  /\ at[pcur] = "user"
  /\ fcb[pcur] # NoFile
  /\ fcb' = [fcb EXCEPT ![pcur] = NoFile]
  /\ UNCHANGED <<cast, pcur, at, call, lk, dirVars, buf, fresh>>

(* Functions 13, 37 and 98, while no file is open for writing.  37 leaves  *)
(* the drive selected and 98 leaves it read-only.                          *)
Reset ==
  /\ at[pcur] = "user"
  /\ "reset" \in cast[pcur].ops
  /\ \A p \in Procs : ~ fcb[p].dirty
  /\ logged' = FALSE
  /\ \/ ro' = FALSE /\ dirdrop
     \/ ro' = FALSE /\ UNCHANGED buf
     \/ UNCHANGED ro /\ dirdrop
  /\ UNCHANGED <<cast, pcur, at, call, lk, disk, alv, hiwater, fresh, fcb>>

LoginBegin ==
  /\ Locks("login")
  /\ lk' = pcur
  /\ alv' = {0}
  /\ Step([me EXCEPT !.stage = "login"], "scan")
  /\ UNCHANGED <<cast, pcur, disk, hiwater, logged, ro, mineVars>>

LoginEnd ==
  /\ at[pcur] = "scan" /\ me.stage = "login" /\ me.pos = NENT
  /\ logged' = TRUE
  /\ lk' = -1
  /\ Step([me EXCEPT !.stage = Stage(me.op), !.pos = 0], Site(me.op))
  /\ UNCHANGED <<cast, pcur, disk, alv, hiwater, ro, mineVars>>

-----------------------------------------------------------------------------
(* dirscan().  create() and the login look past the high water mark.       *)

ScanTop == IF me.stage = "login" \/ (me.stage = "scan" /\ me.op = "make")
           THEN NENT - 1 ELSE hiwater

Scanning == at[pcur] = "scan" /\ me.pos <= ScanTop

NextEntry == [me EXCEPT !.pos = @ + 1]

Fetch ==                \* dir_rd(): dirgen is sampled before the transfer
  /\ Scanning
  /\ ~ dirhave(Rec(me.pos))
  /\ fresh' = fresh \cup {pcur}
  /\ Goto("read")
  /\ UNCHANGED <<cast, pcur, call, lk, dirVars, buf, fcb>>

ReadOk ==
  /\ Locks("read")
  /\ LET r == Rec(me.pos)
     IN  buf' = [buf EXCEPT ![pcur] =
                   [rec |-> r, data |-> [i \in Members(r) |-> disk[i]]]]
  /\ Goto("scan")
  /\ UNCHANGED <<cast, pcur, call, lk, dirVars, fresh, fcb>>

(* The record could not be read: its entries are passed over one by one,   *)
(* each after another try.                                                 *)
Unread ==
  /\ dirdrop
  /\ Step(NextEntry, "scan")
  /\ UNCHANGED <<cast, pcur, lk, dirVars, fresh, fcb>>

ReadFail ==
  /\ Locks("read")
  /\ me.stage \in ReadFails
  /\ IF asks
     THEN Goto("rask") /\ UNCHANGED <<cast, pcur, call, lk, dirVars, mineVars>>
     ELSE Unread

Offered == Scanning /\ dirhave(Rec(me.pos))

Wanted ==
  IF me.stage = "exists" THEN Here.name = me.new
  ELSE Here.name = IF me.op = "make" THEN Gone ELSE me.name

Alloc ==                \* alloc(), for every entry of a login
  /\ Offered
  /\ me.stage = "login"
  /\ alv' = Claimed(Here)
  /\ hiwater' = IF Here.name = Gone THEN hiwater ELSE me.pos
  /\ Step(NextEntry, "scan")
  /\ UNCHANGED <<cast, pcur, lk, disk, logged, ro, mineVars>>

PassOver ==
  /\ Offered
  /\ me.stage # "login" /\ ~ Wanted
  /\ Step(NextEntry, "scan")
  /\ UNCHANGED <<cast, pcur, lk, dirVars, mineVars>>

ScanEnd ==              \* fexists() found nothing, or the call is over
  /\ at[pcur] = "scan" /\ me.stage # "login" /\ me.pos > ScanTop
  /\ IF me.stage = "exists"
     THEN Step([me EXCEPT !.stage = "scan", !.pos = 0], "scan")
     ELSE Return
  /\ fcb' = IF me.op = "close" THEN [fcb EXCEPT ![pcur] = NoFile] ELSE fcb
  /\ UNCHANGED <<cast, pcur, lk, dirVars, buf, fresh>>

Found(stage, ops) == Offered /\ me.stage = stage /\ me.op \in ops /\ Wanted

Exists ==               \* error 8: the name is taken
  /\ Found("exists", Ops)
  /\ Return
  /\ UNCHANGED <<cast, pcur, lk, dirVars, mineVars>>

Match ==                \* matchit() and openfile()
  /\ Found("scan", {"search", "open"})
  /\ fcb' = IF me.op = "search" THEN fcb
            ELSE [fcb EXCEPT ![pcur] = [name |-> Here.name, blk |-> Here.blk,
                                        dirty |-> FALSE]]
  /\ Return
  /\ UNCHANGED <<cast, pcur, lk, dirVars, buf, fresh>>

Amend ==                \* create() and rename(): no LOCK of their own
  /\ Found("scan", {"make", "rename"})
  /\ Edit(Entry(me.new, IF me.op = "make" THEN 0 ELSE Here.blk))
  /\ Goto(Tested("write"))
  /\ UNCHANGED <<cast, pcur, call, lk, dirVars, fresh, fcb>>

Erase ==                \* delete() edits the record, then takes the lock
  /\ Found("scan", {"delete"})
  /\ Edit(Erased)
  /\ Step([me EXCEPT !.gone = Here.blk], "enter")
  /\ UNCHANGED <<cast, pcur, lk, dirVars, fresh, fcb>>

Approach ==             \* truncit() and close() take it first
  /\ Found("scan", {"truncate", "close"})
  /\ Goto("enter")
  /\ UNCHANGED <<cast, pcur, call, lk, dirVars, mineVars>>

-----------------------------------------------------------------------------
(* Inside the LOCK of delete(), truncit() and close().                     *)

EnterDelete ==
  /\ Locks("enter") /\ me.op = "delete"
  /\ lk' = pcur
  /\ Goto(Tested("write"))
  /\ UNCHANGED <<cast, pcur, call, dirVars, mineVars>>

EnterTruncate ==
  /\ Locks("enter") /\ me.op = "truncate"
  /\ lk' = pcur
  /\ Edit(Entry(Here.name, 0))
  /\ Step([me EXCEPT !.gone = Here.blk], Tested("write"))
  /\ UNCHANGED <<cast, pcur, dirVars, fresh, fcb>>

Agree == Here.blk = 0 \/ fcb[pcur].blk = 0 \/ Here.blk = fcb[pcur].blk

Merge ==                \* a block of the FCB that the entry lacks, or the reverse
  /\ Locks("enter") /\ me.op = "close"
  /\ Agree
  /\ lk' = pcur
  /\ Edit(Entry(Here.name, IF Here.blk = 0 THEN fcb[pcur].blk ELSE Here.blk))
  /\ Goto(Tested("write"))
  /\ UNCHANGED <<cast, pcur, call, dirVars, fresh, fcb>>

BadMerge ==             \* the drive becomes read-only and the scan goes on
  /\ Locks("enter") /\ me.op = "close"
  /\ ~ Agree
  /\ ro' = TRUE
  /\ Step(NextEntry, "scan")
  /\ UNCHANGED <<cast, pcur, lk, disk, alv, hiwater, logged, mineVars>>

-----------------------------------------------------------------------------
(* dir_wr() and what its callers do with the answer.                       *)

Freed_always(ok) == IF me.op \in {"delete", "truncate"} THEN clraloc(me.gone) ELSE alv

Freed(ok) == IF ok /\ me.op \in {"delete", "truncate"} THEN clraloc(me.gone) ELSE alv

Raised_not == hiwater

Raised == IF me.op = "make" /\ me.pos > hiwater THEN me.pos ELSE hiwater

Opened(ok) ==           \* a program told of the error does not use the FCB
  IF me.op = "make" /\ (ok \/ asks)
  THEN [fcb EXCEPT ![pcur] = [name |-> me.name, blk |-> 0, dirty |-> TRUE]]
  ELSE IF me.op = "close" THEN [fcb EXCEPT ![pcur] = NoFile] ELSE fcb

Written(ok) ==
  /\ IF ok THEN buf' = [buf EXCEPT ![pcur].rec = Rec(me.pos)] ELSE dirdrop
  /\ fresh' = IF ok THEN Published ELSE Published \ {pcur}
  /\ alv' = Freed(ok)
  /\ hiwater' = Raised
  /\ fcb' = Opened(ok)
  /\ lk' = IF lk = pcur THEN -1 ELSE lk
  /\ IF me.op \in {"make", "close"} THEN Return ELSE Step(NextEntry, "scan")
  /\ UNCHANGED <<cast, pcur, logged, ro>>

(* A program is given up: warmboot() and procdead(), see module Proc.      *)
WarmBoot ==
  /\ lk' = IF lk = pcur THEN -1 ELSE lk
  /\ fcb' = [fcb EXCEPT ![pcur] = NoFile]
  /\ Return
  /\ UNCHANGED <<cast, pcur, alv, hiwater, logged, ro, fresh>>

WriteOk ==
  /\ Locks("write")
  /\ disk' = Stored
  /\ Written(TRUE)

(* A refused write has changed nothing, or has got as far as the sector    *)
(* cache and is read from there from now on.                               *)
WriteFail ==
  /\ Locks("write")
  /\ disk' \in {disk, Stored}
  /\ IF asks
     THEN /\ Goto("wask")
          /\ UNCHANGED <<cast, pcur, call, lk, alv, hiwater, logged, ro, mineVars>>
     ELSE Written(FALSE)

WriteRefused ==         \* a read-only drive: error(4) asks nothing
  /\ at[pcur] = "refused" /\ me.op # "write"
  /\ UNCHANGED disk
  /\ IF asks THEN WarmBoot /\ UNCHANGED buf ELSE Written(FALSE)

-----------------------------------------------------------------------------
(* Writing a record of the open file.                                      *)

GetBlock ==
  /\ Locks("alloc")
  /\ IF getaloc = {}
     THEN Return /\ UNCHANGED <<alv, fcb>>
     ELSE \E b \in getaloc :
            /\ alv' = alv \cup {b}
            /\ fcb' = [fcb EXCEPT ![pcur].blk = b, ![pcur].dirty = TRUE]
            /\ Goto(Tested("data")) /\ UNCHANGED call
  /\ UNCHANGED <<cast, pcur, lk, disk, hiwater, logged, ro, buf, fresh>>

(* rdwrt() for a program's memory: dirsecn is forgotten either way.  An    *)
(* error that is returned to the program ends the call like a success.     *)
Data ==
  /\ Locks("data")
  /\ dirdrop
  /\ Return
  /\ UNCHANGED <<cast, pcur, lk, dirVars, fresh, fcb>>

DataFail ==
  /\ Locks("data")
  /\ asks
  /\ dirdrop
  /\ Goto("dask")
  /\ UNCHANGED <<cast, pcur, call, lk, dirVars, fresh, fcb>>

DataRefused ==
  /\ at[pcur] = "refused" /\ me.op = "write"
  /\ dirdrop
  /\ IF asks THEN WarmBoot /\ UNCHANGED disk
     ELSE Return /\ UNCHANGED <<cast, pcur, lk, dirVars, fresh, fcb>>

-----------------------------------------------------------------------------
(* The operator's answers.                                                 *)

Answered(a) == at[pcur] \in Asking /\ a \in Answers[at[pcur]]

Retry ==
  /\ Answered("R")
  /\ Goto(CASE at[pcur] = "rask" -> "read" [] at[pcur] = "wask" -> "write"
            [] at[pcur] = "dask" -> "data")
  /\ UNCHANGED <<cast, pcur, call, lk, dirVars, mineVars>>

Continue ==
  /\ Answered("C")
  /\ \/ at[pcur] = "rask" /\ Unread
     \/ at[pcur] = "wask" /\ Written(FALSE) /\ UNCHANGED disk
     \/ at[pcur] = "dask" /\ Return /\ UNCHANGED <<cast, pcur, lk, dirVars, mineVars>>

Abort ==
  /\ Answered("A")
  /\ WarmBoot
  /\ UNCHANGED <<disk, buf>>

Calls == Quit \/ Reset \/ \E op \in Ops, n, m \in Names : Begin(op, n, m)

Scan == \/ LoginBegin \/ LoginEnd \/ Alloc \/ Fetch \/ ReadOk \/ ReadFail
        \/ PassOver \/ ScanEnd \/ Exists \/ Match \/ Amend \/ Erase \/ Approach

Update == \/ EnterDelete \/ EnterTruncate \/ Merge \/ BadMerge
          \/ WriteOk \/ WriteFail \/ WriteRefused
          \/ GetBlock \/ Data \/ DataFail \/ DataRefused

Operator == Retry \/ Continue \/ Abort

Next == Calls \/ Scan \/ Update \/ Operator \/ \E q \in Procs : Switch(q)

Spec == Init /\ [][Next]_vars

-----------------------------------------------------------------------------
(* Properties.                                                             *)

Records == {Rec(i) : i \in Entries}

DirEntries == [name : Names \cup {Gone}, blk : 0 .. NBLK]

Bufs == {NoBuf} \cup UNION {[rec : {r}, data : [Members(r) -> DirEntries]] : r \in Records}

(* The types of the variables: a block number that reaches a map or the    *)
(* vector is one the drive has.                                            *)
TypeOK ==
  /\ cast \in Casts
  /\ pcur \in Procs
  /\ at \in [Procs -> {"user", "scan", "refused"} \cup AtLock \cup Asking]
  /\ \A p \in Procs : call[p].pos \in 0 .. NENT /\ call[p].gone \in 0 .. NBLK
  /\ lk \in Procs \cup {-1}
  /\ disk \in [Entries -> DirEntries]
  /\ alv \subseteq 0 .. NBLK
  /\ hiwater \in Entries
  /\ logged \in BOOLEAN /\ ro \in BOOLEAN
  /\ buf \in [Procs -> Bufs]
  /\ fresh \subseteq Procs
  /\ fcb \in [Procs -> [name : Names \cup {Gone}, blk : 0 .. NBLK, dirty : BOOLEAN]]

(* A process's cached directory record is the record as the disk now has   *)
(* it, whenever the next scan would go by it instead of reading -- except  *)
(* while a write of that very record that the medium refused is retried.   *)
CacheFresh ==
  \A p \in fresh :
    LET r == buf[p].rec
    IN  r # -1 /\ at[p] \in {"user", "scan"} =>
          \/ \A i \in Members(r) : buf[p].data[i] = disk[i]
          \/ \E q \in Procs : at[q] \in {"write", "wask"} /\ Rec(call[q].pos) = r

(* A directory write changes the entry its call is about and no other:     *)
(* nobody hands back a record that has moved underneath it.                *)
NoLostUpdate ==
  [][\A i \in Entries : disk'[i] # disk[i] => i = call[pcur].pos]_vars

Holds(p) == fcb[p].dirty /\ fcb[p].blk # 0

LoggingIn == \E p \in Procs : call[p].stage = "login"

(* Every block in use is taken: the directory's own, those of the files on *)
(* the disk, also when a delete or a close was refused by the medium, and  *)
(* those written to files not yet closed.                                  *)
BlocksTaken ==
  (logged /\ ~ LoggingIn) =>
    /\ 0 \in alv
    /\ \A i \in Entries : disk[i].name # Gone => disk[i].blk \in alv
    /\ \A p \in Procs : fcb[p].dirty => fcb[p].blk \in alv

(* No block is in two files: two entries, an entry and a file of another   *)
(* name that is open for writing, or two such files.                       *)
BlocksDisjoint ==
  /\ \A i, j \in Entries : i # j /\ disk[i].blk # 0 => disk[i].blk # disk[j].blk
  /\ \A p \in Procs, i \in Entries :
        Holds(p) /\ fcb[p].blk = disk[i].blk => fcb[p].name = disk[i].name
  /\ \A p, q \in Procs :
        Holds(p) /\ Holds(q) /\ fcb[p].blk = fcb[q].blk => fcb[p].name = fcb[q].name

(* A name is in the directory once.  make and rename look up to the high   *)
(* water mark and make writes past it.                                     *)
NamesUnique ==
  \A i, j \in Entries : i # j /\ disk[i].name # Gone => disk[i].name # disk[j].name

=============================================================================
