------------------------------ MODULE BufCache ------------------------------
(***************************************************************************)
(* The set-associative write-back cache (bcb.c) and the BIOS calls that    *)
(* use it (bios900.c).  Every call runs under the file-system lock         *)
(* (do_phio), so a call is one step; what can happen inside it is that a   *)
(* transfer fails, and between calls that the power goes.  A sector        *)
(* reaches the medium whole or not at all.                                 *)
(***************************************************************************)
EXTENDS Integers, FiniteSets
CONSTANTS NWAY, NSET,    \* bcb.c has 4 ways
          RPS,           \* records per sector (4 on this machine)
          Touched,       \* the records used, numbered from the medium's start
          DirRecs, DataRecs, \* those the BDOS writes, by the kind of block
          Vals, Zero     \* contents of a record; what mem_clr() leaves
ASSUME CacheAssumption == /\ NWAY \in Nat \ {0} /\ NSET \in Nat \ {0} /\ RPS \in Nat \ {0}
                          /\ Touched \subseteq Nat /\ DirRecs \cup DataRecs \subseteq Touched /\ Zero \in Vals

NBCB      == NWAY * NSET
Buffers      == 0 .. NBCB - 1
Places    == 0 .. RPS - 1
Block(r)  == r \div RPS
Place(r)  == r % RPS
Sectors    == {Block(r) : r \in Touched}
Set(b)    == (b % NSET) * NWAY
Sharing(r) == {q \in Touched \ {r} : Block(q) = Block(r)}

VARIABLES medium,        \* [Blocks -> [Places -> Vals]]
          pool,          \* bblk, bval, bdrt, the buffers and lru of bcb.c
          current,       \* [ix, blk] : curix and curblk of bios900.c
          answer, maybe  \* what the caller got; history, see Medium
diskvars == <<medium, pool, current, answer, maybe>>

Ok      == <<0>>
Refused == <<1>>

bcbinit == [blk |-> [i \in Buffers |-> 0], val |-> [i \in Buffers |-> FALSE],
            drt |-> [i \in Buffers |-> FALSE],
            held |-> [i \in Buffers |-> [p \in Places |-> Zero]],
            lru |-> [i \in Buffers |-> i]]
NoBuffer == [ix |-> -1, blk |-> 0]

DiskInit == /\ medium = [b \in Sectors |-> [p \in Places |-> Zero]]
            /\ pool = bcbinit /\ current = NoBuffer
            /\ answer = Ok /\ maybe = [r \in Touched |-> {Zero}]

-----------------------------------------------------------------------------
(* bcb.c.  The operators take and give a cache and a medium; where a        *)
(* transfer may fail they give the set of what may come of it.  A write     *)
(* that is reported refused may have been made.                             *)
Dirty(c) == {i \in Buffers : c.val[i] /\ c.drt[i]}
Reached(md, c, W) == [b \in Sectors |-> IF \E i \in W : c.blk[i] = b
                                        THEN c.held[CHOOSE i \in W : c.blk[i] = b] ELSE md[b]]
Cleaned(c, W) == [c EXCEPT !.drt = [i \in Buffers |-> @[i] /\ i \notin W]]

Put(c, md, ok) == [pool |-> c, medium |-> md, ok |-> ok]
bcbput_careless(c, md, ix) ==
  IF ix \notin Dirty(c) THEN {Put(c, md, TRUE)}
  ELSE {Put(Cleaned(c, {ix}), Reached(md, c, {ix}), TRUE), Put(Cleaned(c, {ix}), md, FALSE)}
bcbput(c, md, ix) ==
  IF ix \notin Dirty(c) THEN {Put(c, md, TRUE)}
  ELSE {Put(Cleaned(c, {ix}), Reached(md, c, {ix}), TRUE),
        Put(c, md, FALSE), Put(c, Reached(md, c, {ix}), FALSE)}

(* Every buffer is tried, whatever became of the one before it.             *)
bcbflush(c, md) ==
  UNION {{Put(Cleaned(c, W), Reached(md, c, W \cup L), W = Dirty(c)) : L \in SUBSET (Dirty(c) \ W)}
         : W \in SUBSET Dirty(c)}

bcbmru_none(c, bse, pos) == c
bcbmru(c, bse, pos) ==
  [c EXCEPT !.lru = [i \in Buffers |-> IF i = bse THEN @[bse + pos]
                                    ELSE IF i \in bse + 1 .. bse + pos THEN @[i - 1] ELSE @[i]]]

Emptied(c, ix) == [c EXCEPT !.val[ix] = FALSE]
Hits(c, b) == {p \in 0 .. NWAY - 1 : LET i == c.lru[Set(b) + p] IN c.val[i] /\ c.blk[i] = b}

Fetched(c, md, ix) == [pool |-> c, medium |-> md, ix |-> ix]
bcbfind(c, md, b, fill) ==
  IF Hits(c, b) # {}
  THEN LET p == CHOOSE p \in Hits(c, b) : \A q \in Hits(c, b) : p <= q
       IN {Fetched(bcbmru(c, Set(b), p), md, c.lru[Set(b) + p])}
  ELSE LET ix == c.lru[Set(b) + NWAY - 1]
           \* a read that fails may have filled the buffer all the same
           Over(put) == [Emptied(put.pool, ix) EXCEPT
                           !.held[ix] = IF fill THEN put.medium[b] ELSE [p \in Places |-> Zero]]
           Taken(put) == [Over(put) EXCEPT !.blk[ix] = b, !.val[ix] = TRUE, !.drt[ix] = ~fill]
       IN UNION {IF put.ok
                 THEN {Fetched(bcbmru(Taken(put), Set(b), NWAY - 1), put.medium, ix)}
                      \cup (IF fill THEN {Fetched(Over(put), put.medium, -1)} ELSE {})
                 ELSE {Fetched(put.pool, put.medium, -1)} : put \in bcbput(c, md, ix)}

-----------------------------------------------------------------------------
(* bios900.c.                                                               *)
getbuf(b, fill) == IF current.ix >= 0 /\ current.blk = b THEN {Fetched(pool, medium, current.ix)}
                   ELSE bcbfind(pool, medium, b, fill)
Current(f, b) == [ix |-> f.ix, blk |-> IF f.ix >= 0 THEN b ELSE current.blk]

dskread(r) ==
  \E f \in getbuf(Block(r), TRUE) :
     /\ pool' = f.pool /\ medium' = f.medium /\ current' = Current(f, Block(r))
     /\ answer' = IF f.ix < 0 THEN Refused ELSE <<0, f.pool.held[f.ix][Place(r)]>>
     /\ UNCHANGED maybe

Wrote(f, r, v) == [f.pool EXCEPT !.held[f.ix][Place(r)] = v, !.drt[f.ix] = TRUE]
dskwrite(r, v, mode) ==
  \E f \in getbuf(Block(r), ~(mode = 2 /\ Place(r) = 0)) :
     /\ current' = Current(f, Block(r))
     /\ IF f.ix < 0
        THEN pool' = f.pool /\ medium' = f.medium /\ answer' = Refused
        ELSE \E put \in IF mode = 1 THEN bcbput(Wrote(f, r, v), f.medium, f.ix)
                        ELSE {Put(Wrote(f, r, v), f.medium, TRUE)} :
               pool' = put.pool /\ medium' = put.medium /\ answer' = IF put.ok THEN Ok ELSE Refused

Write(r, v) == /\ dskwrite(r, v, 0)
               /\ maybe' = [maybe EXCEPT ![r] = @ \cup {v}]
WriteDir(r, v) == /\ dskwrite(r, v, 1)
                  /\ maybe' = [maybe EXCEPT ![r] = IF answer' = Ok THEN {v} ELSE @ \cup {v}]
WriteNew(r, v) == /\ dskwrite(r, v, 2)
                  /\ maybe' = [q \in Touched |-> maybe[q] \cup (IF q = r THEN {v}
                                                   ELSE IF q \in Sharing(r) THEN {Zero} ELSE {})]
(* What a read of r would find.                                             *)
Reads(r) == IF \E i \in Buffers : pool.val[i] /\ pool.blk[i] = Block(r)
            THEN pool.held[CHOOSE i \in Buffers : pool.val[i] /\ pool.blk[i] = Block(r)][Place(r)]
            ELSE medium[Block(r)][Place(r)]
Flush == /\ \E put \in bcbflush(pool, medium) :
              /\ pool' = put.pool /\ medium' = put.medium
              /\ answer' = IF put.ok THEN Ok ELSE Refused
              /\ maybe' = IF put.ok THEN [r \in Touched |-> {Reads(r)}] ELSE maybe
         /\ UNCHANGED current

(* The power goes; biosinit() starts with empty buffers.                    *)
PowerCut == /\ pool' = bcbinit /\ current' = NoBuffer
            /\ maybe' = [r \in Touched |-> {medium[Block(r)][Place(r)]}]
            /\ answer' = Ok /\ UNCHANGED medium

DiskNext == \/ \E r \in Touched : dskread(r)
            \/ \E r \in DataRecs, v \in Vals : Write(r, v) \/ WriteNew(r, v)
            \/ \E r \in DirRecs, v \in Vals : WriteDir(r, v)
            \/ Flush \/ PowerCut
DiskSpec == DiskInit /\ [][DiskNext]_diskvars

-----------------------------------------------------------------------------
(* No sector is in two buffers or outside its set; a buffer that is not     *)
(* marked dirty is what the medium has; and, of the comment on curblk, "the *)
(* named buffer is always the cache's most recently used one, so it cannot  *)
(* be the buffer a later bcbfind() evicts".                                 *)
OneBuffer == \A i \in Buffers : pool.val[i] =>
               /\ i \in Set(pool.blk[i]) .. Set(pool.blk[i]) + NWAY - 1
               /\ \A j \in Buffers \ {i} : pool.val[j] => pool.blk[j] # pool.blk[i]
CleanIsStored == \A i \in Buffers : pool.val[i] /\ ~pool.drt[i] => pool.held[i] = medium[pool.blk[i]]
CurrentIsNewest == current.ix >= 0 =>
                     /\ pool.val[current.ix] /\ pool.blk[current.ix] = current.blk
                     /\ pool.lru[Set(current.blk)] = current.ix
BuffersAgree == OneBuffer /\ CleanIsStored /\ CurrentIsNewest

(* Reads answer the last write, refused or not; an acknowledged directory   *)
(* write, and all that precedes an acknowledged flush, survives a power     *)
(* cut; no other record is disturbed.                                       *)
Promise == INSTANCE Medium WITH Recs <- Touched, Shared <- Sharing,
                                store <- [r \in Touched |-> Reads(r)]
KeepsWrites == Promise!Spec
=============================================================================
