------------------------------- MODULE Drives -------------------------------
(***************************************************************************)
(* The drive table the BIOS builds at a cold start (drvinit, bios900.c),   *)
(* and the selection the BDOS leaves out when it transfers to the drive it *)
(* selected last (do_phio, iosys.c).                                       *)
(***************************************************************************)
EXTENDS Naturals
CONSTANTS NDRIVE,
          Tables,        \* partition tables a loader may hand over
          MINBCNT, MAXBCNT, BLSBLKS, ALVPOOL, BYTE  \* limits; BYTE is 8

Letters == 0 .. NDRIVE - 1
Slot(p, d) == p[d].bstart .. p[d].bstart + p[d].bcount - 1
Disjoint(p) == \A d, e \in Letters : d # e => Slot(p, d) \cap Slot(p, e) = {}
ASSUME DrivesAssumption ==
  /\ NDRIVE \in Nat \ {0} /\ BLSBLKS \in Nat \ {0} /\ BYTE \in Nat \ {0} /\ ALVPOOL \in Nat
  /\ MINBCNT \in Nat /\ MAXBCNT \in Nat /\ BLSBLKS <= MINBCNT /\ MINBCNT <= MAXBCNT
  /\ \A p \in Tables : p \in [Letters -> [bstart : Nat, bcount : Nat]] /\ Disjoint(p)

VARIABLES parts,         \* the loader's partition table
          drives,        \* letter -> its row, for the drives there are
          lastdsk, curbase,
          strayed,       \* a program has selected a drive since the BDOS did
          reached        \* [dsk, blk, own] : the BDOS's last transfer
drivevars == <<parts, drives, lastdsk, curbase, strayed, reached>>

Row(p, used, d) ==
  LET count == IF p[d].bcount > MAXBCNT THEN MAXBCNT ELSE p[d].bcount
      dsm   == count \div BLSBLKS - 1
  IN [base |-> p[d].bstart, dsm |-> dsm, alv |-> used, alvlen |-> dsm \div BYTE + 1]

(* Drive by drive: a slot too small, or whose vector no longer fits the     *)
(* pool, is no drive; the next one may still be.  `used' and the rows after *)
(* the first n letters.                                                     *)
Fits(r) == r.alv + r.alvlen <= ALVPOOL
Added(t, d, r) ==
  [used |-> r.alv + r.alvlen,
   rows |-> [x \in DOMAIN t.rows \cup {d} |-> IF x = d THEN r ELSE t.rows[x]]]
NextDrive(p, t, d) ==
  IF p[d].bcount >= MINBCNT /\ Fits(Row(p, t.used, d)) THEN Added(t, d, Row(p, t.used, d)) ELSE t
drvinit(p) ==
  LET after[n \in 0 .. NDRIVE] == IF n = 0 THEN [used |-> 0, rows |-> [x \in {} |-> 0]]
                                  ELSE NextDrive(p, after[n - 1], n - 1)
  IN after[NDRIVE].rows

ColdStart(p) ==
              /\ parts = p
              /\ drives = drvinit(parts)
              /\ lastdsk = 0 /\ strayed = FALSE
              /\ curbase = IF 0 \in DOMAIN drives THEN drives[0].base ELSE 0
              /\ reached = [dsk |-> 0, blk |-> curbase, own |-> TRUE]
DrivesInit == \E p \in Tables : ColdStart(p)

-----------------------------------------------------------------------------
bseldsk(d) == IF d \in DOMAIN drives THEN drives[d].base ELSE curbase

(* do_phio(): the request to select, and a transfer to a block of the       *)
(* drive, which selects again only when another drive came between.         *)
SelInfo_quiet(d) == /\ curbase' = bseldsk(d) /\ strayed' = FALSE
                    /\ UNCHANGED <<parts, drives, lastdsk, reached>>
SelInfo(d) == /\ lastdsk' = d /\ curbase' = bseldsk(d) /\ strayed' = FALSE
              /\ UNCHANGED <<parts, drives, reached>>
Transfer(d, n) == /\ d \in DOMAIN drives /\ n < (drives[d].dsm + 1) * BLSBLKS
                  /\ lastdsk' = d
                  /\ IF lastdsk # d THEN curbase' = bseldsk(d) /\ strayed' = FALSE
                     ELSE UNCHANGED <<curbase, strayed>>
                  /\ reached' = [dsk |-> d, blk |-> curbase' + n, own |-> ~ strayed']
                  /\ UNCHANGED <<parts, drives>>

(* Function 50 hands a program BIOS function 9, SELDSK (bioscl).            *)
UserSelect(d) == /\ curbase' = bseldsk(d) /\ strayed' = TRUE
                 /\ UNCHANGED <<parts, drives, lastdsk, reached>>

DrivesNext == \/ \E d \in Letters : SelInfo(d) \/ UserSelect(d)
              \/ \E d \in Letters, n \in 0 .. MAXBCNT - 1 : Transfer(d, n)
DrivesSpec == DrivesInit /\ [][DrivesNext]_drivevars
-----------------------------------------------------------------------------
(* The comment in seldsk(): "so curbase always belongs to the drive the     *)
(* next read or write is for".  A transfer of the BDOS goes to a block of   *)
(* the partition of the drive it names, and of no other -- unless a program *)
(* has selected a drive through function 50 since the BDOS last did.        *)
ReachesItsDrive ==
  reached.dsk \in DOMAIN drives /\ reached.own =>
    \A d \in Letters : reached.blk \in Slot(parts, d) <=> d = reached.dsk

(* "drives share a directory buffer but need separate live allocation       *)
(* maps": each map has a bit for every block of its drive, inside the pool, *)
(* and no two share a byte.                                                 *)
VectorsApart ==
  /\ \A d \in DOMAIN drives : /\ drives[d].dsm < drives[d].alvlen * BYTE
                              /\ drives[d].alv + drives[d].alvlen <= ALVPOOL
  /\ \A d, e \in DOMAIN drives : d < e => drives[d].alv + drives[d].alvlen <= drives[e].alv

(* No drive's transfers or map touch another's.                             *)
DrivesApart == ReachesItsDrive /\ VectorsApart
=============================================================================
