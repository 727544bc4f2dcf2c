----------------------------- MODULE DiskProofs -----------------------------
(***************************************************************************)
(* The disk below the file system: a transfer wdsec() reports done was     *)
(* done, for every number of attempts and every spin budget, and the       *)
(* sector cache keeps the promise of module Medium, for every number of    *)
(* ways and sets, every sector size and every set of records; and the      *)
(* drives laid on the disk are apart, for every partition table.           *)
(***************************************************************************)
EXTENDS WdDisk, BufCache, Drives, WellFoundedInduction, TLAPS

(* DoneIsMoved is not inductive: while the driver polls or looks at what   *)
(* it got, the completion byte is this command's own.                      *)
OwnStatus == wdpc \in {"poll", "answer"} /\ status = "done" => moved

WdInv == OwnStatus /\ DoneIsMoved

(* No step of the driver, the controller or the tick breaks it: Begin       *)
(* overwrites the byte an earlier command left before anybody polls it.     *)
LEMMA WdStep == ASSUME WdInv, [WdNext]_wdvars PROVE WdInv'
<1> USE DEF WdInv, OwnStatus, DoneIsMoved
<1>1. CASE wdsec
  BY <1>1 DEF wdsec
<1>2. CASE Begin
  BY <1>2 DEF Begin
<1>3. CASE Poll
  BY <1>3 DEF Poll
<1>4. CASE Answer
  BY <1>4 DEF Answer
<1>5. CASE Controller
  BY <1>5 DEF Controller
<1>6. CASE Tick
  BY <1>6 DEF Tick
<1>7. CASE UNCHANGED wdvars
  BY <1>7 DEF wdvars
<1> QED
  BY <1>1, <1>2, <1>3, <1>4, <1>5, <1>6, <1>7 DEF WdNext, Driver

(* What the cache takes for granted of every transfer.                      *)
THEOREM ReportedDoneIsDone == WdSpec => []DoneIsMoved
<1>1. WdInit => WdInv
  BY DEF WdInit, WdInv, OwnStatus, DoneIsMoved
<1>2. WdInv /\ [WdNext]_wdvars => WdInv'
  BY WdStep
<1>3. WdInv => DoneIsMoved
  BY DEF WdInv
<1> QED
  BY <1>1, <1>2, <1>3, PTL DEF WdSpec

-----------------------------------------------------------------------------
(* Records, sectors and sets.                                              *)

Bases == {k * NWAY : k \in 0 .. NSET - 1}

InSet(i, s) == s <= i /\ i < s + NWAY

LEMMA TimesMonotone ==
  ASSUME NEW k \in Nat, NEW l \in Nat, k < l, NEW n \in Nat
  PROVE  k * n + n <= l * n
  <1>1. PICK d \in Nat : l = k + 1 + d
    BY l - k - 1 \in Nat
  <1>2. l * n = k * n + n + d * n
    BY <1>1
  <1>3. d * n \in Nat
    OBVIOUS
  <1>4. k * n \in Nat
    OBVIOUS
  <1>5. QED BY <1>2, <1>3, <1>4

LEMMA BasesAre ==
  /\ \A b \in Nat : Set(b) \in Bases
  /\ \A s \in Bases : s \in Nat /\ s + NWAY <= NBCB
  /\ \A s, t \in Bases : \A i \in Int : InSet(i, s) /\ InSet(i, t) => s = t
  <1>1. ASSUME NEW b \in Nat PROVE Set(b) \in Bases
    <2>1. b % NSET \in 0 .. NSET - 1
      BY CacheAssumption
    <2>2. QED BY <2>1 DEF Set, Bases
  <1>2. ASSUME NEW s \in Bases PROVE s \in Nat /\ s + NWAY <= NBCB
    <2>1. PICK k \in 0 .. NSET - 1 : s = k * NWAY
      BY DEF Bases
    <2>2. k * NWAY + NWAY <= NSET * NWAY
      BY CacheAssumption, TimesMonotone
    <2>3. NSET * NWAY = NBCB /\ k * NWAY \in Nat
      BY CacheAssumption DEF NBCB
    <2>4. QED BY <2>1, <2>2, <2>3
  <1>3. ASSUME NEW s \in Bases, NEW t \in Bases, NEW i \in Int, InSet(i, s), InSet(i, t)
        PROVE  s = t
    <2>1. PICK k \in 0 .. NSET - 1, l \in 0 .. NSET - 1 : s = k * NWAY /\ t = l * NWAY
      BY DEF Bases
    <2>2. s \in Nat /\ t \in Nat /\ NWAY \in Nat /\ k \in Nat /\ l \in Nat
      BY <1>2, CacheAssumption
    <2>3. k < l => s + NWAY <= t
      BY <2>1, <2>2, TimesMonotone
    <2>4. l < k => t + NWAY <= s
      BY <2>1, <2>2, TimesMonotone
    <2>5. k = l
      BY <1>3, <2>2, <2>3, <2>4 DEF InSet
    <2>6. QED BY <2>1, <2>5
  <1>4. QED BY <1>1, <1>2, <1>3

(* A record is found by its sector and its place there.                    *)
LEMMA RecordsAre ==
  /\ \A r \in Touched : Block(r) \in Sectors /\ Block(r) \in Nat /\ Place(r) \in Places
  /\ \A q, r \in Touched : Block(q) = Block(r) /\ Place(q) = Place(r) => q = r
  <1>1. ASSUME NEW r \in Touched
        PROVE  Block(r) \in Sectors /\ Block(r) \in Nat /\ Place(r) \in Places
    <2>1. r \in Nat /\ RPS \in Nat \ {0}
      BY CacheAssumption
    <2>2. r \div RPS \in Nat /\ r % RPS \in 0 .. RPS - 1
      BY <2>1
    <2>3. QED BY <2>2 DEF Sectors, Block, Place, Places
  <1>2. ASSUME NEW q \in Touched, NEW r \in Touched, Block(q) = Block(r), Place(q) = Place(r)
        PROVE  q = r
    <2>1. r \in Nat /\ q \in Nat /\ RPS \in Nat \ {0}
      BY CacheAssumption
    <2>2. r = RPS * (r \div RPS) + (r % RPS) /\ q = RPS * (q \div RPS) + (q % RPS)
      BY <2>1
    <2>3. QED BY <1>2, <2>2 DEF Block, Place
  <1>3. QED BY <1>1, <1>2
-----------------------------------------------------------------------------
(* A cache c over a medium md: what a read of a sector finds, and when the *)
(* two are sound.  The order of a set names each of its buffers; a sector  *)
(* has one buffer, of its own set; a clean buffer is what the medium has.  *)
View(c, md) ==
  [b \in Sectors |-> IF \E i \in Buffers : c.val[i] /\ c.blk[i] = b
                     THEN c.held[CHOOSE i \in Buffers : c.val[i] /\ c.blk[i] = b]
                     ELSE md[b]]

Cells  == [Places -> Vals]
Media  == [Sectors -> Cells]
Caches == [blk : [Buffers -> Int], val : [Buffers -> BOOLEAN], drt : [Buffers -> BOOLEAN],
           held : [Buffers -> Cells], lru : [Buffers -> Buffers]]

Turning(c) ==
  \A s \in Bases :
    /\ \A j \in Buffers : InSet(j, s) => InSet(c.lru[j], s)
    /\ \A i \in Buffers : InSet(i, s) => \E j \in Buffers : InSet(j, s) /\ c.lru[j] = i

Alone(c) ==
  \A i \in Buffers : c.val[i] =>
    /\ c.blk[i] \in Sectors /\ InSet(i, Set(c.blk[i]))
    /\ \A j \in Buffers : c.val[j] /\ c.blk[j] = c.blk[i] => j = i

Stored(c, md) == \A i \in Buffers : c.val[i] /\ ~ c.drt[i] => c.held[i] = md[c.blk[i]]

Good(c, md) == c \in Caches /\ md \in Media /\ Turning(c) /\ Alone(c) /\ Stored(c, md)

LEMMA ViewIs ==
  ASSUME NEW c \in Caches, NEW md \in Media, Alone(c)
  PROVE  /\ View(c, md) \in Media
         /\ \A i \in Buffers : c.val[i] => View(c, md)[c.blk[i]] = c.held[i]
         /\ \A b \in Sectors : (\A i \in Buffers : c.val[i] => c.blk[i] # b) =>
                                View(c, md)[b] = md[b]
  <1>1. \A i \in Buffers : c.held[i] \in Cells
    BY DEF Caches
  <1>2. ASSUME NEW b \in Sectors, NEW i \in Buffers, c.val[i], c.blk[i] = b
        PROVE  View(c, md)[b] = c.held[i]
    <2>1. (CHOOSE j \in Buffers : c.val[j] /\ c.blk[j] = b) = i
      BY <1>2 DEF Alone
    <2>2. QED BY <1>2, <2>1 DEF View
  <1>3. ASSUME NEW b \in Sectors, \A i \in Buffers : c.val[i] => c.blk[i] # b
        PROVE  View(c, md)[b] = md[b]
    BY <1>3 DEF View
  <1>4. ASSUME NEW b \in Sectors PROVE View(c, md)[b] \in Cells
    <2>1. CASE \E i \in Buffers : c.val[i] /\ c.blk[i] = b
      BY <1>1, <1>2, <2>1
    <2>2. CASE ~ \E i \in Buffers : c.val[i] /\ c.blk[i] = b
      BY <1>3, <2>2 DEF Media
    <2>3. QED BY <2>1, <2>2
  <1>5. View(c, md) \in Media
    <2>1. DOMAIN View(c, md) = Sectors /\ View(c, md) = [b \in Sectors |-> View(c, md)[b]]
      BY DEF View
    <2>2. QED BY <1>4, <2>1 DEF Media
  <1>6. \A i \in Buffers : c.val[i] => c.blk[i] \in Sectors
    BY DEF Alone
  <1>7. QED BY <1>2, <1>3, <1>5, <1>6

(* What the cache says of every sector determines the view.                *)
LEMMA ViewOnly ==
  ASSUME NEW c \in Caches, NEW md \in Media, Alone(c), NEW V \in Media,
         \A i \in Buffers : c.val[i] => V[c.blk[i]] = c.held[i],
         \A b \in Sectors : (\A i \in Buffers : c.val[i] => c.blk[i] # b) => V[b] = md[b]
  PROVE  View(c, md) = V
  <1>1. \A b \in Sectors : View(c, md)[b] = V[b]
    BY ViewIs
  <1>2. View(c, md) \in Media
    BY ViewIs
  <1>3. QED BY <1>1, <1>2 DEF Media

-----------------------------------------------------------------------------
(* bcbput() and bcbflush(): the buffers L are written to the medium, those *)
(* of W are marked clean.                                                  *)
LEMMA Writes ==
  ASSUME NEW c, NEW md, Good(c, md), NEW L \in SUBSET Dirty(c), NEW W \in SUBSET L
  PROVE  LET d  == Cleaned(c, W)
             me == Reached(md, c, L)
         IN  /\ Good(d, me) /\ View(d, me) = View(c, md)
             /\ d.blk = c.blk /\ d.val = c.val /\ d.held = c.held /\ d.lru = c.lru
             /\ \A i \in Buffers : d.drt[i] <=> c.drt[i] /\ i \notin W
             /\ \A b \in Sectors : me[b] \in {md[b], View(c, md)[b]}
             /\ \A i \in L : me[c.blk[i]] = c.held[i]
  <1> DEFINE d  == Cleaned(c, W)
             me == Reached(md, c, L)
  <1>1. c \in Caches /\ md \in Media /\ Turning(c) /\ Alone(c) /\ Stored(c, md)
    BY DEF Good
  <1>2. PICK t : t = [i \in Buffers |-> c.drt[i] /\ i \notin W]
    OBVIOUS
  <1>3. t \in [Buffers -> BOOLEAN]
    BY <1>2
  <1>4. d = [c EXCEPT !.drt = t]
    BY <1>1, <1>2 DEF Cleaned
  <1>5. /\ d \in Caches
        /\ d.blk = c.blk /\ d.val = c.val /\ d.held = c.held /\ d.lru = c.lru /\ d.drt = t
    BY <1>1, <1>3, <1>4 DEF Caches
  <1>6. Turning(d) /\ Alone(d)
    BY <1>1, <1>5 DEF Turning, Alone
  <1>7. \A i \in L : i \in Buffers /\ c.val[i] /\ c.blk[i] \in Sectors
    BY <1>1 DEF Dirty, Alone
  <1>8. ASSUME NEW i \in L PROVE me[c.blk[i]] = c.held[i]
    <2>1. (CHOOSE j \in L : c.blk[j] = c.blk[i]) = i
      BY <1>1, <1>7 DEF Alone
    <2>2. QED BY <1>7, <2>1 DEF Reached
  <1>9. ASSUME NEW b \in Sectors, \A i \in L : c.blk[i] # b PROVE me[b] = md[b]
    BY <1>9 DEF Reached
  <1>10. \A i \in Buffers : c.val[i] => View(c, md)[c.blk[i]] = c.held[i]
    BY <1>1, ViewIs
  <1>11. ASSUME NEW b \in Sectors PROVE me[b] \in {md[b], View(c, md)[b]}
    <2>1. CASE \E i \in L : c.blk[i] = b
      BY <1>7, <1>8, <1>10, <2>1
    <2>2. CASE ~ \E i \in L : c.blk[i] = b
      BY <1>9, <2>2
    <2>3. QED BY <2>1, <2>2
  <1>12. me \in Media
    <2>1. View(c, md) \in Media
      BY <1>1, ViewIs
    <2>2. me = [b \in Sectors |-> me[b]]
      BY DEF Reached
    <2> HIDE DEF me
    <2>3. \A b \in Sectors : me[b] \in Cells
      BY <1>1, <1>11, <2>1 DEF Media
    <2>4. QED BY <2>2, <2>3 DEF Media
  <1> HIDE DEF d, me
  <1>13. Stored(d, me)
    <2>1. ASSUME NEW i \in Buffers, c.val[i], ~ d.drt[i] PROVE c.held[i] = me[c.blk[i]]
      <3>1. CASE i \in L
        BY <1>8, <3>1
      <3>2. CASE i \notin L
        <4>1. ~ c.drt[i] /\ c.blk[i] \in Sectors
          BY <1>1, <1>2, <1>5, <2>1, <3>2 DEF Alone
        <4>2. \A j \in L : c.blk[j] # c.blk[i]
          BY <1>1, <1>7, <2>1, <3>2 DEF Alone
        <4>3. QED BY <1>1, <1>9, <2>1, <4>1, <4>2 DEF Stored
      <3>3. QED BY <3>1, <3>2
    <2>2. QED BY <1>5, <2>1 DEF Stored
  <1>14. View(d, me) = View(c, md)
    <2>1. \A b \in Sectors : (\A i \in Buffers : d.val[i] => d.blk[i] # b) =>
                             View(c, md)[b] = me[b]
      BY <1>1, <1>5, <1>7, <1>9, ViewIs
    <2>2. View(c, md) \in Media
      BY <1>1, ViewIs
    <2>3. QED BY <1>5, <1>6, <1>10, <1>12, <2>1, <2>2, ViewOnly
  <1>15. \A i \in Buffers : d.drt[i] <=> c.drt[i] /\ i \notin W
    BY <1>2, <1>5
  <1>16. QED BY <1>5, <1>6, <1>8, <1>11, <1>12, <1>13, <1>14, <1>15 DEF Good, d, me

LEMMA NothingWritten ==
  ASSUME NEW c \in Caches, NEW md \in Media
  PROVE  Cleaned(c, {}) = c /\ Reached(md, c, {}) = md
  <1>1. [i \in Buffers |-> c.drt[i] /\ i \notin {}] = c.drt
    BY DEF Caches
  <1>2. Cleaned(c, {}) = [c EXCEPT !.drt = c.drt]
    BY <1>1 DEF Cleaned, Caches
  <1>3. [c EXCEPT !.drt = c.drt] = c
    BY DEF Caches
  <1>4. Reached(md, c, {}) = md
    BY DEF Reached, Media
  <1>5. QED BY <1>2, <1>3, <1>4

(* What a put leaves: only what the buffers say reaches the medium, and    *)
(* the buffer it was for is clean or the answer is no.                     *)
PutKeeps(c, md, ix, p) ==
  /\ Good(p.pool, p.medium) /\ View(p.pool, p.medium) = View(c, md)
  /\ p.pool.blk = c.blk /\ p.pool.val = c.val /\ p.pool.held = c.held
  /\ p.pool.lru = c.lru /\ p.ok \in BOOLEAN
  /\ \A b \in Sectors : p.medium[b] \in {md[b], View(c, md)[b]}
  /\ p.ok => ~ (p.pool.val[ix] /\ p.pool.drt[ix])

(* A put that wrote the buffers L and marked W clean.                      *)
LEMMA PutOf ==
  ASSUME NEW c, NEW md, Good(c, md), NEW ix \in Buffers, NEW p, NEW ok \in BOOLEAN,
         NEW L \in SUBSET Dirty(c), NEW W \in SUBSET L,
         p = Put(Cleaned(c, W), Reached(md, c, L), ok),
         ok => ix \notin Dirty(c) \/ ix \in W
  PROVE  PutKeeps(c, md, ix, p)
  <1>1. p.pool = Cleaned(c, W) /\ p.medium = Reached(md, c, L) /\ p.ok = ok
    BY DEF Put
  <1>2. LET d  == Cleaned(c, W)
            me == Reached(md, c, L)
        IN  /\ Good(d, me) /\ View(d, me) = View(c, md)
            /\ d.blk = c.blk /\ d.val = c.val /\ d.held = c.held /\ d.lru = c.lru
            /\ \A i \in Buffers : d.drt[i] <=> c.drt[i] /\ i \notin W
            /\ \A b \in Sectors : me[b] \in {md[b], View(c, md)[b]}
    BY Writes
  <1>3. ok => ~ (c.val[ix] /\ c.drt[ix] /\ ix \notin W)
    BY DEF Dirty
  <1>4. QED BY <1>1, <1>2, <1>3 DEF PutKeeps

LEMMA PutIs ==
  ASSUME NEW c, NEW md, Good(c, md), NEW ix \in Buffers, NEW p \in bcbput(c, md, ix)
  PROVE  PutKeeps(c, md, ix, p)
  <1>1. Cleaned(c, {}) = c /\ Reached(md, c, {}) = md
    BY NothingWritten DEF Good
  <1>2. {} \in SUBSET Dirty(c) /\ {} \in SUBSET {} /\ {} \in SUBSET {ix} /\ {ix} \in SUBSET {ix}
        /\ TRUE \in BOOLEAN /\ FALSE \in BOOLEAN
    OBVIOUS
  <1>3. CASE ix \notin Dirty(c)
    <2>1. p = Put(Cleaned(c, {}), Reached(md, c, {}), TRUE)
      BY <1>1, <1>3 DEF bcbput
    <2>2. QED BY <1>2, <1>3, <2>1, PutOf
  <1>4. CASE ix \in Dirty(c)
    <2>1. {ix} \in SUBSET Dirty(c)
      BY <1>4
    <2>2. \/ p = Put(Cleaned(c, {ix}), Reached(md, c, {ix}), TRUE)
          \/ p = Put(c, md, FALSE)
          \/ p = Put(c, Reached(md, c, {ix}), FALSE)
      BY <1>4 DEF bcbput
    <2>3. CASE p = Put(Cleaned(c, {ix}), Reached(md, c, {ix}), TRUE)
      BY <1>2, <2>1, <2>3, PutOf
    <2>4. CASE p = Put(c, md, FALSE)
      <3>1. p = Put(Cleaned(c, {}), Reached(md, c, {}), FALSE)
        BY <1>1, <2>4
      <3>2. QED BY <1>2, <3>1, PutOf
    <2>5. CASE p = Put(c, Reached(md, c, {ix}), FALSE)
      <3>1. p = Put(Cleaned(c, {}), Reached(md, c, {ix}), FALSE)
        BY <1>1, <2>5
      <3>2. QED BY <1>2, <2>1, <3>1, PutOf
    <2>6. QED BY <2>2, <2>3, <2>4, <2>5
  <1>5. QED BY <1>3, <1>4
-----------------------------------------------------------------------------
(* bcbmru() and bcbfind().                                                 *)

LEMMA MruIs ==
  ASSUME NEW c, NEW md, Good(c, md), NEW s \in Bases, NEW pos \in 0 .. NWAY - 1
  PROVE  LET d == bcbmru(c, s, pos)
         IN  /\ Good(d, md) /\ View(d, md) = View(c, md)
             /\ d.blk = c.blk /\ d.val = c.val /\ d.lru[s] = c.lru[s + pos]
  <1>1. /\ c \in Caches /\ md \in Media /\ Turning(c) /\ Alone(c) /\ Stored(c, md)
        /\ c.lru \in [Buffers -> Buffers]
    BY DEF Good, Caches
  <1>2. s \in Nat /\ s + NWAY <= NBCB /\ NWAY \in Nat \ {0} /\ NBCB \in Int
    BY BasesAre, CacheAssumption DEF NBCB
  <1>3. \A i \in Int : InSet(i, s) => i \in Buffers
    BY <1>2 DEF InSet, Buffers
  <1>4. PICK l : l = [i \in Buffers |-> IF i = s THEN c.lru[s + pos]
                                        ELSE IF i \in s + 1 .. s + pos THEN c.lru[i - 1]
                                        ELSE c.lru[i]]
    OBVIOUS
  <1>5. PICK d : d = bcbmru(c, s, pos)
    OBVIOUS
  <1>6. d = [c EXCEPT !.lru = l]
    BY <1>1, <1>4, <1>5 DEF bcbmru, Caches
  <1>7. l \in [Buffers -> Buffers]
    <2>1. s + pos \in Buffers /\ \A i \in s + 1 .. s + pos : i - 1 \in Buffers
      BY <1>2 DEF Buffers
    <2>2. \A i \in Buffers : l[i] \in Buffers
      BY <1>1, <1>4, <2>1
    <2>3. QED BY <1>4, <2>2
  <1>8. /\ d \in Caches /\ d.blk = c.blk /\ d.val = c.val /\ d.drt = c.drt
        /\ d.held = c.held /\ d.lru = l
    BY <1>1, <1>6, <1>7 DEF Caches
  <1>9. Turning(d)
    <2>1. ASSUME NEW t \in Bases, NEW j \in Buffers, InSet(j, t) PROVE InSet(l[j], t)
      <3>1. \A i \in Buffers : InSet(i, t) => InSet(c.lru[i], t)
        BY <1>1 DEF Turning
      <3>2. CASE t = s
        <4>1. s + pos \in Buffers /\ InSet(s + pos, s)
          BY <1>2 DEF Buffers, InSet
        <4>2. j \in s + 1 .. s + pos => j - 1 \in Buffers /\ InSet(j - 1, s)
          BY <1>2 DEF Buffers, InSet
        <4>3. QED BY <1>4, <2>1, <3>1, <3>2, <4>1, <4>2
      <3>3. CASE t # s
        <4>1. j \in Int /\ ~ InSet(j, s)
          BY <2>1, <3>3, BasesAre DEF Buffers
        <4>2. l[j] = c.lru[j]
          BY <1>2, <1>4, <4>1 DEF InSet
        <4>3. QED BY <2>1, <3>1, <4>2
      <3>4. QED BY <3>2, <3>3
    <2>2. ASSUME NEW t \in Bases, NEW i \in Buffers, InSet(i, t)
          PROVE  \E j \in Buffers : InSet(j, t) /\ l[j] = i
      <3>1. PICK j \in Buffers : InSet(j, t) /\ c.lru[j] = i
        BY <1>1, <2>2 DEF Turning
      <3>2. j \in Int
        BY DEF Buffers
      <3>3. CASE t = s
        <4>1. CASE j = s + pos
          <5>1. s \in Buffers /\ InSet(s, s) /\ l[s] = i
            BY <1>2, <1>3, <1>4, <3>1, <4>1 DEF InSet
          <5>2. QED BY <3>3, <5>1
        <4>2. CASE s <= j /\ j < s + pos
          <5>1. j + 1 \in Buffers /\ InSet(j + 1, s)
            BY <1>2, <1>3, <3>2, <4>2 DEF InSet
          <5>2. j + 1 # s /\ j + 1 \in s + 1 .. s + pos /\ (j + 1) - 1 = j
            BY <1>2, <3>2, <4>2
          <5>3. l[j + 1] = i
            BY <1>4, <3>1, <5>1, <5>2
          <5>4. QED BY <3>3, <5>1, <5>3
        <4>3. CASE j > s + pos
          <5>1. j # s /\ j \notin s + 1 .. s + pos
            BY <1>2, <3>2, <4>3
          <5>2. QED BY <1>4, <3>1, <5>1
        <4>4. s <= j
          BY <3>1, <3>3 DEF InSet
        <4>5. QED BY <1>2, <3>2, <4>1, <4>2, <4>3, <4>4
      <3>4. CASE t # s
        <4>1. ~ InSet(j, s)
          BY <3>1, <3>2, <3>4, BasesAre
        <4>2. l[j] = c.lru[j]
          BY <1>2, <1>4, <3>2, <4>1 DEF InSet
        <4>3. QED BY <3>1, <4>2
      <3>5. QED BY <3>3, <3>4
    <2>3. QED BY <1>8, <2>1, <2>2 DEF Turning
  <1>10. Alone(d) /\ Stored(d, md)
    BY <1>1, <1>8 DEF Alone, Stored
  <1>11. View(d, md) = View(c, md)
    BY <1>8 DEF View
  <1>12. d.lru[s] = c.lru[s + pos]
    BY <1>2, <1>3, <1>4, <1>8 DEF InSet
  <1>13. QED BY <1>1, <1>5, <1>8, <1>9, <1>10, <1>11, <1>12 DEF Good

(* What is not found in the order of its set is in no buffer.              *)
LEMMA MissMeansAbsent ==
  ASSUME NEW c, Turning(c), Alone(c), NEW b \in Sectors, Hits(c, b) = {}
  PROVE  \A i \in Buffers : c.val[i] => c.blk[i] # b
  <1>1. SUFFICES ASSUME NEW i \in Buffers, c.val[i], c.blk[i] = b PROVE FALSE
    OBVIOUS
  <1>2. b \in Nat /\ Set(b) \in Bases /\ InSet(i, Set(b))
    BY <1>1, RecordsAre, BasesAre DEF Alone, Sectors
  <1>3. PICK j \in Buffers : InSet(j, Set(b)) /\ c.lru[j] = i
    BY <1>2 DEF Turning
  <1>4. PICK s \in Nat : s = Set(b)
    BY <1>2, BasesAre
  <1>5. j - s \in 0 .. NWAY - 1 /\ s + (j - s) = j
    BY <1>3, <1>4, CacheAssumption DEF InSet, Buffers
  <1>6. j - s \in Hits(c, b)
    BY <1>1, <1>3, <1>4, <1>5 DEF Hits
  <1>7. QED BY <1>6

(* A non-empty set of naturals has a least element.                        *)
LEMMA NatLeast ==
  ASSUME NEW T, T \subseteq Nat, T # {}
  PROVE  \E x \in T : \A y \in T : x <= y
  <1> DEFINE R == OpToRel(<, Nat)
  <1>1. IsWellFoundedOn(R, Nat)
    BY NatLessThanWellFounded
  <1> HIDE DEF R
  <1>2. \E x \in T : \A y \in T : ~ (<<y, x>> \in R)
    BY <1>1, WFMin
  <1>3. R = {ss \in Nat \X Nat : ss[1] < ss[2]}
    BY Zenon DEF R, OpToRel
  <1>4. \A x, y \in Nat : y < x => <<y, x>> \in R
    BY <1>3
  <1>5. PICK x \in T : \A y \in T : ~ (<<y, x>> \in R)
    BY <1>2
  <1>6. ASSUME NEW y \in T PROVE x <= y
    <2>1. x \in Nat /\ y \in Nat
      OBVIOUS
    <2>2. ~ (y < x)
      BY <1>4, <1>5, <2>1
    <2>3. QED
      BY <2>1, <2>2
  <1>7. QED
    BY <1>6

LEMMA FirstHit ==
  ASSUME NEW T \in SUBSET Nat, T # {}
  PROVE  (CHOOSE p \in T : \A q \in T : p <= q) \in T
  BY NatLeast

(* A buffer that is clean may be given up and overwritten.                 *)
LEMMA EmptiedIs ==
  ASSUME NEW c, NEW md, Good(c, md), NEW ix \in Buffers, ~ (c.val[ix] /\ c.drt[ix]),
         NEW h \in Cells
  PROVE  LET d == [Emptied(c, ix) EXCEPT !.held[ix] = h]
         IN  /\ Good(d, md) /\ View(d, md) = View(c, md) /\ ~ d.val[ix] /\ d.held[ix] = h
             /\ d.lru = c.lru
             /\ \A i \in Buffers : d.val[i] => c.val[i] /\ d.blk[i] = c.blk[i]
  <1>1. c \in Caches /\ md \in Media /\ Turning(c) /\ Alone(c) /\ Stored(c, md)
    BY DEF Good
  <1>2. PICK v, hs : v = [c.val EXCEPT ![ix] = FALSE] /\ hs = [c.held EXCEPT ![ix] = h]
    OBVIOUS
  <1>3. v \in [Buffers -> BOOLEAN] /\ hs \in [Buffers -> Cells]
    BY <1>1, <1>2 DEF Caches
  <1>4. PICK d : d = [Emptied(c, ix) EXCEPT !.held[ix] = h]
    OBVIOUS
  <1>5. d = [c EXCEPT !.val = v, !.held = hs]
    BY <1>1, <1>2, <1>4 DEF Emptied, Caches
  <1>6. /\ d \in Caches /\ d.blk = c.blk /\ d.val = v /\ d.drt = c.drt
        /\ d.held = hs /\ d.lru = c.lru
    BY <1>1, <1>3, <1>5 DEF Caches
  <1>7. \A i \in Buffers : d.val[i] => i # ix /\ c.val[i] /\ d.held[i] = c.held[i]
    BY <1>1, <1>2, <1>6 DEF Caches
  <1>8. Turning(d) /\ Alone(d) /\ Stored(d, md)
    BY <1>1, <1>6, <1>7 DEF Turning, Alone, Stored
  <1>9. ~ d.val[ix] /\ d.held[ix] = h
    BY <1>1, <1>2, <1>6 DEF Caches
  <1>10. View(d, md) = View(c, md)
    <2>1. \A i \in Buffers : d.val[i] => View(c, md)[d.blk[i]] = d.held[i]
      BY <1>1, <1>6, <1>7, ViewIs
    <2>2. ASSUME NEW b \in Sectors, \A i \in Buffers : d.val[i] => d.blk[i] # b
          PROVE  View(c, md)[b] = md[b]
      <3>1. CASE c.val[ix] /\ c.blk[ix] = b
        <4>1. View(c, md)[b] = c.held[ix] /\ c.held[ix] = md[b]
          BY <1>1, <3>1, ViewIs DEF Stored
        <4>2. QED BY <4>1
      <3>2. CASE ~ (c.val[ix] /\ c.blk[ix] = b)
        <4>1. \A i \in Buffers : i # ix => d.val[i] = c.val[i]
          BY <1>1, <1>2, <1>6 DEF Caches
        <4>2. \A i \in Buffers : c.val[i] => c.blk[i] # b
          BY <1>6, <2>2, <3>2, <4>1
        <4>3. QED BY <1>1, <4>2, ViewIs
      <3>3. QED BY <3>1, <3>2
    <2>3. View(c, md) \in Media
      BY <1>1, ViewIs
    <2>4. QED BY <1>1, <1>6, <1>8, <2>1, <2>2, <2>3, ViewOnly
  <1>11. QED BY <1>1, <1>4, <1>6, <1>7, <1>8, <1>9, <1>10 DEF Good

(* An empty buffer of its set is given to a sector that is in none.        *)
GivenKeeps(c, md, ix, b, d) ==
  /\ Good(d, md) /\ View(d, md) = [View(c, md) EXCEPT ![b] = c.held[ix]]
  /\ d.val[ix] /\ d.blk[ix] = b /\ d.lru = c.lru

GivenTo(c, ix, b, e) == [c EXCEPT !.blk[ix] = b, !.val[ix] = TRUE, !.drt[ix] = e]

LEMMA TakenIs ==
  ASSUME NEW c, NEW md, Good(c, md), NEW ix \in Buffers, ~ c.val[ix],
         NEW b \in Sectors, InSet(ix, Set(b)), \A i \in Buffers : c.val[i] => c.blk[i] # b,
         NEW e \in BOOLEAN, e = TRUE \/ c.held[ix] = md[b],
         NEW d, d = GivenTo(c, ix, b, e)
  PROVE  GivenKeeps(c, md, ix, b, d)
  <1>1. /\ c \in Caches /\ md \in Media /\ Turning(c) /\ Alone(c) /\ Stored(c, md)
        /\ b \in Int /\ c.held[ix] \in Cells
    BY RecordsAre DEF Good, Sectors, Caches
  <1>2. PICK bs, v, t : /\ bs = [c.blk EXCEPT ![ix] = b] /\ v = [c.val EXCEPT ![ix] = TRUE]
                        /\ t = [c.drt EXCEPT ![ix] = e]
    OBVIOUS
  <1>3. bs \in [Buffers -> Int] /\ v \in [Buffers -> BOOLEAN] /\ t \in [Buffers -> BOOLEAN]
    BY <1>1, <1>2 DEF Caches
  <1>5. d = [c EXCEPT !.blk = bs, !.val = v, !.drt = t]
    BY <1>1, <1>2 DEF Caches, GivenTo
  <1>6. /\ d \in Caches /\ d.blk = bs /\ d.val = v /\ d.drt = t
        /\ d.held = c.held /\ d.lru = c.lru
    BY <1>1, <1>3, <1>5 DEF Caches
  <1>7. /\ d.val[ix] /\ d.blk[ix] = b /\ d.drt[ix] = e
        /\ \A i \in Buffers : i # ix => /\ d.val[i] = c.val[i] /\ d.blk[i] = c.blk[i]
                                        /\ d.drt[i] = c.drt[i]
    BY <1>1, <1>2, <1>6 DEF Caches
  <1>8. Turning(d)
    BY <1>1, <1>6 DEF Turning
  <1>9. Alone(d)
    BY <1>1, <1>7 DEF Alone
  <1>10. Stored(d, md)
    BY <1>1, <1>6, <1>7 DEF Stored
  <1>11. PICK V : V = [View(c, md) EXCEPT ![b] = c.held[ix]]
    OBVIOUS
  <1>12. V \in Media /\ \A x \in Sectors : V[x] = IF x = b THEN c.held[ix] ELSE View(c, md)[x]
    <2>1. View(c, md) \in [Sectors -> Cells]
      BY <1>1, ViewIs DEF Media
    <2>2. QED BY <1>1, <1>11, <2>1 DEF Media
  <1>13. View(d, md) = V
    <2>1. \A i \in Buffers : d.val[i] => V[d.blk[i]] = d.held[i]
      <3>1. ASSUME NEW i \in Buffers, d.val[i] PROVE V[d.blk[i]] = d.held[i]
        <4>1. CASE i = ix
          BY <1>6, <1>7, <1>12, <4>1
        <4>2. CASE i # ix
          <5>1. c.val[i] /\ c.blk[i] \in Sectors /\ c.blk[i] # b /\ d.blk[i] = c.blk[i]
            BY <1>1, <1>7, <3>1, <4>2 DEF Alone
          <5>2. View(c, md)[c.blk[i]] = c.held[i]
            BY <1>1, <5>1, ViewIs
          <5>3. QED BY <1>6, <1>12, <5>1, <5>2
        <4>3. QED BY <4>1, <4>2
      <3>2. QED BY <3>1
    <2>2. ASSUME NEW x \in Sectors, \A i \in Buffers : d.val[i] => d.blk[i] # x
          PROVE  V[x] = md[x]
      <3>1. x # b /\ \A i \in Buffers : c.val[i] => c.blk[i] # x
        BY <1>7, <2>2
      <3>2. QED BY <1>1, <1>12, <3>1, ViewIs
    <2>3. QED BY <1>1, <1>6, <1>9, <1>12, <2>1, <2>2, ViewOnly
  <1>14. QED BY <1>1, <1>6, <1>7, <1>8, <1>9, <1>10, <1>11, <1>13 DEF Good, GivenKeeps
ZeroCell == [p \in Places |-> Zero]

(* What bcbfind() leaves: only what the buffers say reaches the medium, a  *)
(* buffer it answers is the newest of its set and holds the sector, and no *)
(* other sector reads otherwise than before.                               *)
FindKeeps(c, md, b, fill, f) ==
  /\ Good(f.pool, f.medium) /\ f.ix \in Buffers \cup {-1}
  /\ \A s \in Sectors : f.medium[s] \in {md[s], View(c, md)[s]}
  /\ f.ix # -1 => f.pool.val[f.ix] /\ f.pool.blk[f.ix] = b /\ f.pool.lru[Set(b)] = f.ix
  /\ f.ix = -1 \/ fill => View(f.pool, f.medium) = View(c, md)
  /\ View(f.pool, f.medium) \in {View(c, md), [View(c, md) EXCEPT ![b] = ZeroCell]}

LEMMA FindIs ==
  ASSUME NEW c, NEW md, Good(c, md), NEW b \in Sectors, NEW fill \in BOOLEAN,
         NEW f \in bcbfind(c, md, b, fill)
  PROVE  FindKeeps(c, md, b, fill, f)
  <1>1. PICK s : s = Set(b)
    OBVIOUS
  <1>2. /\ s \in Bases /\ s \in Nat /\ s + NWAY <= NBCB /\ NWAY \in Nat \ {0} /\ NBCB \in Int
        /\ b \in Nat
    BY <1>1, RecordsAre, BasesAre, CacheAssumption DEF Sectors, NBCB
  <1>3. c \in Caches /\ md \in Media /\ Turning(c) /\ Alone(c) /\ c.lru \in [Buffers -> Buffers]
    BY DEF Good, Caches
  <1>4. CASE Hits(c, b) # {}
    <2>1. PICK p : p = CHOOSE h \in Hits(c, b) : \A q \in Hits(c, b) : h <= q
      OBVIOUS
    <2>2. p \in Hits(c, b)
      <3>1. Hits(c, b) \in SUBSET Nat
        BY <1>2 DEF Hits
      <3>2. QED BY <1>4, <2>1, <3>1, FirstHit
    <2>3. p \in 0 .. NWAY - 1 /\ c.val[c.lru[s + p]] /\ c.blk[c.lru[s + p]] = b
      BY <1>1, <2>2 DEF Hits
    <2>4. f = Fetched(bcbmru(c, s, p), md, c.lru[s + p])
      BY <1>1, <1>4, <2>1 DEF bcbfind
    <2>5. s + p \in Buffers
      BY <1>2, <2>3 DEF Buffers
    <2>6. f.pool = bcbmru(c, s, p) /\ f.medium = md /\ f.ix = c.lru[s + p] /\ f.ix \in Buffers
      BY <1>3, <2>4, <2>5 DEF Fetched
    <2>7. LET d == bcbmru(c, s, p)
          IN  /\ Good(d, md) /\ View(d, md) = View(c, md)
              /\ d.blk = c.blk /\ d.val = c.val /\ d.lru[s] = c.lru[s + p]
      BY <1>2, <2>3, MruIs
    <2>8. QED BY <1>1, <2>3, <2>6, <2>7 DEF FindKeeps
  <1>5. CASE Hits(c, b) = {}
    <2>1. PICK ix : ix = c.lru[s + NWAY - 1]
      OBVIOUS
    <2>2. ix \in Buffers /\ InSet(ix, s)
      <3>1. s + NWAY - 1 \in Buffers /\ InSet(s + NWAY - 1, s)
        BY <1>2 DEF Buffers, InSet
      <3>2. QED BY <1>2, <1>3, <2>1, <3>1 DEF Turning
    <2>3. \A i \in Buffers : c.val[i] => c.blk[i] # b
      BY <1>3, <1>5, MissMeansAbsent
    <2> DEFINE Last == c.lru[Set(b) + NWAY - 1]
               Over(put) == [Emptied(put.pool, Last) EXCEPT
                               !.held[Last] = IF fill THEN put.medium[b]
                                              ELSE [p \in Places |-> Zero]]
               Taking(put) == [Over(put) EXCEPT !.blk[Last] = b, !.val[Last] = TRUE,
                                                !.drt[Last] = ~fill]
               Comes(put) == IF put.ok
                             THEN {Fetched(bcbmru(Taking(put), Set(b), NWAY - 1), put.medium, Last)}
                                  \cup (IF fill THEN {Fetched(Over(put), put.medium, -1)} ELSE {})
                             ELSE {Fetched(put.pool, put.medium, -1)}
    <2>20. bcbfind(c, md, b, fill) = UNION {Comes(put) : put \in bcbput(c, md, Last)}
      BY <1>5, Zenon DEF bcbfind
    <2>23. Last = ix
      BY <1>1, <2>1
    <2> HIDE DEF Over, Taking, Comes, Last
    <2>21. PICK put \in bcbput(c, md, ix) : f \in Comes(put)
      BY <2>20, <2>23
    <2>4. \/ /\ put.ok
             /\ \/ f = Fetched(bcbmru(Taking(put), s, NWAY - 1), put.medium, ix)
                \/ f = Fetched(Over(put), put.medium, -1)
          \/ ~ put.ok /\ f = Fetched(put.pool, put.medium, -1)
      BY <1>1, <2>21, <2>23 DEF Comes
    <2>5. PutKeeps(c, md, ix, put)
      BY <2>2, PutIs
    <2>6. PICK me, pl : me = put.medium /\ pl = put.pool
      OBVIOUS
    <2>7. /\ Good(pl, me) /\ View(pl, me) = View(c, md) /\ pl.lru = c.lru
          /\ pl.val = c.val /\ pl.blk = c.blk
          /\ \A x \in Sectors : me[x] \in {md[x], View(c, md)[x]}
          /\ put.ok => ~ (pl.val[ix] /\ pl.drt[ix])
      BY <2>5, <2>6 DEF PutKeeps
    <2>8. CASE ~ put.ok /\ f = Fetched(put.pool, put.medium, -1)
      <3>1. f.pool = pl /\ f.medium = me /\ f.ix = -1
        BY <2>6, <2>8 DEF Fetched
      <3>2. QED BY <2>7, <3>1 DEF FindKeeps
    <2>9. CASE put.ok
      <3>1. PICK h : h = IF fill THEN me[b] ELSE ZeroCell
        OBVIOUS
      <3>2. h \in Cells
        BY <2>7, <3>1, CacheAssumption DEF Good, Media, Cells, ZeroCell
      <3>3. PICK over : over = [Emptied(pl, ix) EXCEPT !.held[ix] = h]
        OBVIOUS
      <3>4. /\ Good(over, me) /\ View(over, me) = View(c, md) /\ ~ over.val[ix]
            /\ over.held[ix] = h /\ over.lru = c.lru
            /\ \A i \in Buffers : over.val[i] => c.val[i] /\ over.blk[i] = c.blk[i]
        BY <2>2, <2>7, <2>9, <3>2, <3>3, EmptiedIs
      <3>5. CASE f = Fetched(over, me, -1)
        <4>1. f.pool = over /\ f.medium = me /\ f.ix = -1
          BY <3>5 DEF Fetched
        <4>2. QED BY <2>7, <3>4, <4>1 DEF FindKeeps
      <3>6. PICK taken : taken = [over EXCEPT !.blk[ix] = b, !.val[ix] = TRUE, !.drt[ix] = ~fill]
        OBVIOUS
      <3>7. CASE f = Fetched(bcbmru(taken, s, NWAY - 1), me, ix)
        <4>1. \A i \in Buffers : over.val[i] => over.blk[i] # b
          BY <2>3, <3>4
        <4>2. PICK e \in BOOLEAN : e = ~ fill
          OBVIOUS
        <4>14. (e = TRUE \/ over.held[ix] = me[b]) /\ InSet(ix, Set(b))
          BY <1>1, <2>2, <3>1, <3>4, <4>2
        <4>15. taken = GivenTo(over, ix, b, e)
          BY <3>6, <4>2 DEF GivenTo
        <4>3. /\ Good(taken, me) /\ View(taken, me) = [View(over, me) EXCEPT ![b] = over.held[ix]]
              /\ taken.val[ix] /\ taken.blk[ix] = b /\ taken.lru = over.lru
          <5>1. Good(over, me) /\ ix \in Buffers /\ ~ over.val[ix]
            BY <2>2, <3>4
          <5>2. GivenKeeps(over, me, ix, b, taken)
            BY <4>1, <4>2, <4>14, <4>15, <5>1, TakenIs
          <5>3. QED BY <5>2 DEF GivenKeeps
        <4>4. PICK k \in 0 .. NWAY - 1 : k = NWAY - 1 /\ s + k = s + NWAY - 1
          BY <1>2
        <4>5. PICK d : d = bcbmru(taken, s, k)
          OBVIOUS
        <4>6. /\ Good(d, me) /\ View(d, me) = View(taken, me)
              /\ d.blk = taken.blk /\ d.val = taken.val /\ d.lru[s] = taken.lru[s + k]
          <5>1. Good(taken, me) /\ s \in Bases
            BY <1>2, <4>3
          <5>2. QED BY <4>4, <4>5, <5>1, MruIs
        <4>7. f.pool = d /\ f.medium = me /\ f.ix = ix
          BY <3>7, <4>4, <4>5 DEF Fetched
        <4>8. d.lru[s] = ix
          BY <2>1, <3>4, <4>3, <4>4, <4>6
        <4>9. View(d, me) = [View(c, md) EXCEPT ![b] = h]
          BY <3>4, <4>3, <4>6
        <4>10. fill => View(d, me) = View(c, md)
          <5>1. SUFFICES ASSUME fill PROVE View(d, me) = View(c, md)
            OBVIOUS
          <5>2. View(c, md)[b] = md[b] /\ View(c, md) \in Media /\ me[b] \in {md[b], View(c, md)[b]}
            BY <1>3, <2>3, <2>7, ViewIs
          <5>3. h = View(c, md)[b]
            BY <3>1, <5>1, <5>2
          <5>4. QED BY <4>9, <5>2, <5>3 DEF Media
        <4>11. View(d, me) \in {View(c, md), [View(c, md) EXCEPT ![b] = ZeroCell]}
          BY <3>1, <4>9, <4>10
        <4>12. ix # -1
          BY <2>2 DEF Buffers
        <4>13. QED
          BY <1>1, <2>2, <2>7, <4>3, <4>6, <4>7, <4>8, <4>10, <4>11, <4>12 DEF FindKeeps
      <3>8. f = Fetched(over, me, -1) \/ f = Fetched(bcbmru(taken, s, NWAY - 1), me, ix)
        BY <2>4, <2>6, <2>9, <3>1, <3>3, <3>6, <2>23 DEF Over, Taking, ZeroCell
      <3>9. QED BY <3>5, <3>7, <3>8
    <2>10. QED BY <2>4, <2>8, <2>9
  <1>6. QED BY <1>4, <1>5
-----------------------------------------------------------------------------
(* The BIOS calls.  What the medium has of a record, and what a read of it *)
(* answers, are both among what a power cut may leave.                     *)
Med(r) == medium[Block(r)][Place(r)]

CurrentSound ==
  /\ current.ix \in Buffers \cup {-1}
  /\ current.ix # -1 => /\ pool.val[current.ix] /\ pool.blk[current.ix] = current.blk
                        /\ pool.lru[Set(current.blk)] = current.ix

Foreseen ==
  /\ maybe \in [Touched -> SUBSET Vals]
  /\ \A r \in Touched : Reads(r) \in maybe[r] /\ Med(r) \in maybe[r]

DInv == Good(pool, medium) /\ CurrentSound /\ Foreseen

LEMMA ReadsAre ==
  ASSUME NEW r \in Touched
  PROVE  /\ Reads(r) = View(pool, medium)[Block(r)][Place(r)]
         /\ Reads(r)' = View(pool', medium')[Block(r)][Place(r)]
  BY RecordsAre DEF Reads, View

(* A call that leaves every sector as a read finds it.                     *)
LEMMA ViewKept ==
  ASSUME DInv, Good(pool', medium'), View(pool', medium') = View(pool, medium),
         \A s \in Sectors : medium'[s] \in {medium[s], View(pool, medium)[s]}
  PROVE  \A q \in Touched : Reads(q)' = Reads(q) /\ Med(q)' \in {Med(q), Reads(q)}
  BY ReadsAre, RecordsAre DEF Med

LEMMA GotBuffer ==
  ASSUME DInv, NEW r \in Touched, NEW fill \in BOOLEAN, NEW f \in getbuf(Block(r), fill)
  PROVE  FindKeeps(pool, medium, Block(r), fill, f)
  <1>1. Good(pool, medium) /\ Block(r) \in Sectors
    BY RecordsAre DEF DInv
  <1>2. CASE current.ix >= 0 /\ current.blk = Block(r)
    <2>1. f = Fetched(pool, medium, current.ix) /\ current.ix \in Buffers /\ current.ix # -1
      BY <1>2 DEF getbuf, DInv, CurrentSound
    <2>2. f.pool = pool /\ f.medium = medium /\ f.ix = current.ix
      BY <2>1 DEF Fetched
    <2>3. QED BY <1>1, <1>2, <2>1, <2>2 DEF FindKeeps, DInv, CurrentSound
  <1>3. CASE ~ (current.ix >= 0 /\ current.blk = Block(r))
    BY <1>1, <1>3, FindIs DEF getbuf
  <1>4. QED BY <1>2, <1>3

(* The buffer a call got becomes the current one.                          *)
LEMMA CurrentIs ==
  ASSUME NEW b \in Sectors, NEW fill, NEW c, NEW md, NEW f, FindKeeps(c, md, b, fill, f),
         current' = Current(f, b),
         pool'.val = f.pool.val, pool'.blk = f.pool.blk, pool'.lru = f.pool.lru
  PROVE  CurrentSound'
  <1>1. current'.ix = f.ix /\ (f.ix >= 0 => current'.blk = b)
    BY DEF Current
  <1>2. f.ix \in Buffers \cup {-1} /\ (f.ix # -1 => f.ix >= 0)
    BY DEF FindKeeps, Buffers
  <1>3. QED BY <1>1, <1>2 DEF FindKeeps, CurrentSound

LEMMA ReadStep ==
  ASSUME DInv, NEW r \in Touched, dskread(r)
  PROVE  /\ Good(pool', medium') /\ CurrentSound' /\ UNCHANGED maybe
         /\ \A q \in Touched : Reads(q)' = Reads(q) /\ Med(q)' \in {Med(q), Reads(q)}
         /\ answer' \in {Refused, <<0, Reads(r)>>}
  <1>1. PICK f \in getbuf(Block(r), TRUE) :
           /\ pool' = f.pool /\ medium' = f.medium /\ current' = Current(f, Block(r))
           /\ answer' = IF f.ix < 0 THEN Refused ELSE <<0, f.pool.held[f.ix][Place(r)]>>
           /\ UNCHANGED maybe
    BY DEF dskread
  <1>2. FindKeeps(pool, medium, Block(r), TRUE, f) /\ Block(r) \in Sectors
    BY <1>1, GotBuffer, RecordsAre
  <1>3. /\ Good(pool', medium') /\ View(pool', medium') = View(pool, medium)
        /\ \A s \in Sectors : medium'[s] \in {medium[s], View(pool, medium)[s]}
    BY <1>1, <1>2 DEF FindKeeps
  <1>4. CurrentSound'
    BY <1>1, <1>2, CurrentIs
  <1>5. ASSUME ~ (f.ix < 0) PROVE f.pool.held[f.ix][Place(r)] = Reads(r)
    <2>1. f.ix \in Buffers /\ f.pool.val[f.ix] /\ f.pool.blk[f.ix] = Block(r)
      BY <1>2, <1>5 DEF FindKeeps, Buffers
    <2>2. View(pool', medium')[Block(r)] = f.pool.held[f.ix]
      BY <1>1, <1>3, <2>1, ViewIs DEF Good
    <2>3. QED BY <1>3, <2>2, ReadsAre
  <1>6. QED BY <1>1, <1>3, <1>4, <1>5, ViewKept

(* The record r of buffer ix becomes v.                                    *)
WrittenIn(c, ix, r, v) == [c EXCEPT !.held[ix][Place(r)] = v, !.drt[ix] = TRUE]

LEMMA WroteIs ==
  ASSUME NEW c, NEW md, Good(c, md), NEW r \in Touched, NEW v \in Vals,
         NEW ix \in Buffers, c.val[ix], c.blk[ix] = Block(r),
         NEW d, d = WrittenIn(c, ix, r, v)
  PROVE  /\ Good(d, md) /\ d.val = c.val /\ d.blk = c.blk /\ d.lru = c.lru
         /\ \A s \in Sectors \ {Block(r)} : View(d, md)[s] = View(c, md)[s]
         /\ \A p \in Places : View(d, md)[Block(r)][p] =
                                IF p = Place(r) THEN v ELSE View(c, md)[Block(r)][p]
  <1>1. /\ c \in Caches /\ md \in Media /\ Turning(c) /\ Alone(c) /\ Stored(c, md)
        /\ Block(r) \in Sectors /\ Place(r) \in Places
        /\ c.held \in [Buffers -> Cells] /\ c.drt \in [Buffers -> BOOLEAN]
    BY RecordsAre DEF Good, Caches
  <1>2. PICK h : h = [c.held[ix] EXCEPT ![Place(r)] = v]
    OBVIOUS
  <1>3. h \in Cells /\ \A p \in Places : h[p] = IF p = Place(r) THEN v ELSE c.held[ix][p]
    BY <1>1, <1>2 DEF Cells
  <1>4. PICK hs, t : hs = [c.held EXCEPT ![ix] = h] /\ t = [c.drt EXCEPT ![ix] = TRUE]
    OBVIOUS
  <1>5. hs \in [Buffers -> Cells] /\ t \in [Buffers -> BOOLEAN]
        /\ hs[ix] = h /\ t[ix] = TRUE
        /\ \A i \in Buffers : i # ix => hs[i] = c.held[i] /\ t[i] = c.drt[i]
    BY <1>1, <1>3, <1>4
  <1>6. d = [c EXCEPT !.held = hs, !.drt = t]
    BY <1>1, <1>2, <1>4 DEF WrittenIn, Caches
  <1>7. /\ d \in Caches /\ d.blk = c.blk /\ d.val = c.val /\ d.drt = t
        /\ d.held = hs /\ d.lru = c.lru
    BY <1>1, <1>5, <1>6 DEF Caches
  <1>8. Turning(d) /\ Alone(d)
    BY <1>1, <1>7 DEF Turning, Alone
  <1>9. Stored(d, md)
    BY <1>1, <1>5, <1>7 DEF Stored
  <1>10. View(d, md)[Block(r)] = h /\ View(c, md)[Block(r)] = c.held[ix]
    BY <1>1, <1>5, <1>7, <1>8, ViewIs
  <1>11. ASSUME NEW s \in Sectors \ {Block(r)} PROVE View(d, md)[s] = View(c, md)[s]
    <2>1. CASE \E i \in Buffers : c.val[i] /\ c.blk[i] = s
      <3>1. PICK i \in Buffers : c.val[i] /\ c.blk[i] = s
        BY <2>1
      <3>2. i # ix
        BY <3>1
      <3>3. QED BY <1>1, <1>5, <1>7, <1>8, <3>1, <3>2, ViewIs
    <2>2. CASE ~ \E i \in Buffers : c.val[i] /\ c.blk[i] = s
      BY <1>1, <1>7, <1>8, <2>2, ViewIs
    <2>3. QED BY <2>1, <2>2
  <1>12. QED BY <1>1, <1>3, <1>7, <1>8, <1>9, <1>10, <1>11 DEF Good

(* What a write leaves: the record or nothing is changed, and where the    *)
(* block is new the rest of its sector may be cleared.                     *)
WriteLeaves(r, v, mode) ==
  /\ Good(pool', medium') /\ CurrentSound' /\ answer' \in {Ok, Refused}
  /\ \A q \in Touched : Med(q)' \in {Med(q), Reads(q), Reads(q)'}
  /\ \/ answer' = Refused /\ \A q \in Touched : Reads(q)' = Reads(q)
     \/ \A q \in Touched : Reads(q)' = IF q = r THEN v ELSE Reads(q)
     \/ /\ mode = 2
        /\ \A q \in Touched : Reads(q)' = IF q = r THEN v
                                          ELSE IF q \in Sharing(r) THEN Zero ELSE Reads(q)
  /\ mode = 1 /\ answer' = Ok => Med(r)' = v

LEMMA WriteStep ==
  ASSUME DInv, NEW r \in Touched, NEW v \in Vals, NEW mode \in {0, 1, 2}, dskwrite(r, v, mode)
  PROVE  WriteLeaves(r, v, mode)
  <1>1. PICK fill \in BOOLEAN : fill = ~ (mode = 2 /\ Place(r) = 0)
    OBVIOUS
  <1>2. PICK f \in getbuf(Block(r), fill) :
           /\ current' = Current(f, Block(r))
           /\ IF f.ix < 0
              THEN pool' = f.pool /\ medium' = f.medium /\ answer' = Refused
              ELSE \E put \in IF mode = 1 THEN bcbput(Wrote(f, r, v), f.medium, f.ix)
                              ELSE {Put(Wrote(f, r, v), f.medium, TRUE)} :
                     pool' = put.pool /\ medium' = put.medium
                     /\ answer' = IF put.ok THEN Ok ELSE Refused
    BY <1>1 DEF dskwrite
  <1>3. FindKeeps(pool, medium, Block(r), fill, f) /\ Block(r) \in Sectors /\ Place(r) \in Places
    BY <1>2, GotBuffer, RecordsAre
  <1>4. f.ix \in Buffers \cup {-1} /\ (f.ix < 0 <=> f.ix = -1)
    BY <1>3 DEF FindKeeps, Buffers
  <1>5. CASE f.ix = -1
    <2>1. pool' = f.pool /\ medium' = f.medium /\ answer' = Refused
      BY <1>2, <1>4, <1>5
    <2>2. /\ Good(pool', medium') /\ View(pool', medium') = View(pool, medium)
          /\ \A s \in Sectors : medium'[s] \in {medium[s], View(pool, medium)[s]}
      BY <1>3, <1>5, <2>1 DEF FindKeeps
    <2>3. CurrentSound'
      BY <1>2, <1>3, <2>1, CurrentIs
    <2>4. \A q \in Touched : Reads(q)' = Reads(q) /\ Med(q)' \in {Med(q), Reads(q)}
      BY <2>2, ViewKept
    <2>5. Ok # Refused
      BY DEF Ok, Refused
    <2>6. QED BY <2>1, <2>2, <2>3, <2>4, <2>5 DEF WriteLeaves
  <1>6. CASE f.ix # -1
    <2>1. PICK c, md, ix : c = f.pool /\ md = f.medium /\ ix = f.ix
      OBVIOUS
    <2>2. /\ Good(c, md) /\ ix \in Buffers /\ c.val[ix] /\ c.blk[ix] = Block(r)
          /\ \A s \in Sectors : md[s] \in {medium[s], View(pool, medium)[s]}
          /\ fill => View(c, md) = View(pool, medium)
          /\ View(c, md) \in {View(pool, medium),
                              [View(pool, medium) EXCEPT ![Block(r)] = ZeroCell]}
      BY <1>3, <1>4, <1>6, <2>1 DEF FindKeeps
    <2>3. PICK d : d = WrittenIn(c, ix, r, v)
      OBVIOUS
    <2>4. /\ Good(d, md) /\ d.val = c.val /\ d.blk = c.blk /\ d.lru = c.lru
          /\ \A s \in Sectors \ {Block(r)} : View(d, md)[s] = View(c, md)[s]
          /\ \A p \in Places : View(d, md)[Block(r)][p] =
                                 IF p = Place(r) THEN v ELSE View(c, md)[Block(r)][p]
      BY <2>2, <2>3, WroteIs
    <2>5. /\ Good(pool', medium') /\ View(pool', medium') = View(d, md)
          /\ pool'.val = d.val /\ pool'.blk = d.blk /\ pool'.lru = d.lru
          /\ \A s \in Sectors : medium'[s] \in {md[s], View(d, md)[s]}
          /\ answer' \in {Ok, Refused}
          /\ mode = 1 /\ answer' = Ok => ~ (pool'.val[ix] /\ pool'.drt[ix])
      <3>1. Wrote(f, r, v) = d
        BY <2>1, <2>3 DEF Wrote, WrittenIn
      <3>2. PICK put \in IF mode = 1 THEN bcbput(d, md, ix) ELSE {Put(d, md, TRUE)} :
                   /\ pool' = put.pool /\ medium' = put.medium
                   /\ answer' = IF put.ok THEN Ok ELSE Refused
        BY <1>2, <1>4, <1>6, <2>1, <3>1
      <3>3. CASE mode = 1
        <4>1. PutKeeps(d, md, ix, put)
          BY <2>2, <2>4, <3>2, <3>3, PutIs
        <4>2. Ok # Refused
          BY DEF Ok, Refused
        <4>3. QED BY <3>2, <4>1, <4>2 DEF PutKeeps
      <3>4. CASE mode # 1
        <4>1. put.pool = d /\ put.medium = md /\ put.ok = TRUE
          BY <3>2, <3>4 DEF Put
        <4>2. QED BY <2>4, <3>2, <3>4, <4>1
      <3>5. QED BY <3>3, <3>4
    <2>6. CurrentSound'
      <3>1. pool'.val = f.pool.val /\ pool'.blk = f.pool.blk /\ pool'.lru = f.pool.lru
        BY <2>1, <2>4, <2>5
      <3>2. QED BY <1>2, <1>3, <3>1, CurrentIs
    <2>7. ASSUME NEW q \in Touched
          PROVE  Med(q)' \in {Med(q), Reads(q), Reads(q)'}
      <3>1. /\ Block(q) \in Sectors
            /\ Med(q)' = medium'[Block(q)][Place(q)] /\ Med(q) = medium[Block(q)][Place(q)]
            /\ Reads(q)' = View(pool', medium')[Block(q)][Place(q)]
            /\ Reads(q) = View(pool, medium)[Block(q)][Place(q)]
        BY RecordsAre, ReadsAre DEF Med
      <3>2. medium'[Block(q)] \in {medium[Block(q)], View(pool, medium)[Block(q)],
                                   View(pool', medium')[Block(q)]}
        BY <2>2, <2>5, <3>1
      <3>3. QED BY <3>1, <3>2
    <2>8. ASSUME NEW q \in Touched, Block(q) # Block(r) PROVE Reads(q)' = Reads(q)
      <3>1. View(pool, medium) \in Media /\ Block(q) \in Sectors \ {Block(r)}
        BY <2>8, RecordsAre, ViewIs DEF DInv, Good
      <3>2. View(c, md)[Block(q)] = View(pool, medium)[Block(q)]
        BY <2>2, <3>1 DEF Media
      <3>3. QED BY <2>4, <2>5, <3>1, <3>2, ReadsAre
    <2>9. Reads(r)' = v
      BY <1>3, <2>4, <2>5, ReadsAre
    <2>10. ASSUME NEW q \in Touched, q # r, Block(q) = Block(r)
           PROVE  Reads(q)' = View(c, md)[Block(r)][Place(q)]
      <3>1. Place(q) \in Places /\ Place(q) # Place(r)
        BY <2>10, RecordsAre
      <3>2. QED BY <2>4, <2>5, <2>10, <3>1, ReadsAre
    <2>11. mode = 1 /\ answer' = Ok => Med(r)' = v
      <3>1. SUFFICES ASSUME mode = 1, answer' = Ok PROVE Med(r)' = v
        OBVIOUS
      <3>2. ~ pool'.drt[ix] /\ pool'.val[ix] /\ pool'.blk[ix] = Block(r)
        BY <2>2, <2>4, <2>5, <3>1
      <3>3. View(pool', medium')[Block(r)] = pool'.held[ix] /\ pool'.held[ix] = medium'[Block(r)]
        BY <2>2, <2>5, <3>2, ViewIs DEF Good, Stored
      <3>4. Reads(r)' = Med(r)'
        BY <3>3, ReadsAre DEF Med
      <3>5. QED BY <2>9, <3>4
    <2>12. CASE View(c, md) = View(pool, medium)
      <3>1. \A q \in Touched : Reads(q)' = IF q = r THEN v ELSE Reads(q)
        BY <2>8, <2>9, <2>10, <2>12, ReadsAre
      <3>2. QED BY <2>5, <2>6, <2>7, <2>11, <3>1 DEF WriteLeaves
    <2>13. CASE ~ fill /\ View(c, md) = [View(pool, medium) EXCEPT ![Block(r)] = ZeroCell]
      <3>1. View(c, md)[Block(r)] = ZeroCell
        <4>1. View(pool, medium) \in Media
          BY ViewIs DEF DInv, Good
        <4>2. QED BY <1>3, <2>13, <4>1 DEF Media
      <3>2. mode = 2
        BY <1>1, <2>13
      <3>3. ASSUME NEW q \in Touched
            PROVE  Reads(q)' = IF q = r THEN v ELSE IF q \in Sharing(r) THEN Zero ELSE Reads(q)
        <4>1. CASE q = r
          BY <2>9, <4>1
        <4>2. CASE q # r /\ Block(q) = Block(r)
          <5>1. q \in Sharing(r) /\ Place(q) \in Places
            BY <4>2, RecordsAre DEF Sharing
          <5>2. Reads(q)' = Zero
            BY <2>10, <3>1, <4>2, <5>1 DEF ZeroCell
          <5>3. QED BY <4>2, <5>1, <5>2
        <4>3. CASE Block(q) # Block(r)
          BY <2>8, <2>9, <4>3 DEF Sharing
        <4>4. QED BY <4>1, <4>2, <4>3
      <3>4. QED BY <2>5, <2>6, <2>7, <2>11, <3>2, <3>3 DEF WriteLeaves
    <2>14. QED BY <2>2, <2>12, <2>13
  <1>7. QED BY <1>5, <1>6

(* A flush that answers that all went well left nothing the medium lacks.  *)
LEMMA FlushStep ==
  ASSUME DInv, Flush
  PROVE  /\ Good(pool', medium') /\ CurrentSound'
         /\ \A q \in Touched : Reads(q)' = Reads(q) /\ Med(q)' \in {Med(q), Reads(q)}
         /\ \/ /\ answer' = Ok /\ maybe' = [q \in Touched |-> {Reads(q)}]
               /\ \A q \in Touched : Med(q)' = Reads(q)
            \/ answer' = Refused /\ UNCHANGED maybe
  <1>1. PICK put \in bcbflush(pool, medium) :
          /\ pool' = put.pool /\ medium' = put.medium
          /\ answer' = IF put.ok THEN Ok ELSE Refused
          /\ maybe' = IF put.ok THEN [q \in Touched |-> {Reads(q)}] ELSE maybe
    BY DEF Flush
  <1>11. PICK W \in SUBSET Dirty(pool) :
           put \in {Put(Cleaned(pool, W), Reached(medium, pool, W \cup L), W = Dirty(pool)) :
                    L \in SUBSET (Dirty(pool) \ W)}
    BY <1>1, Zenon DEF bcbflush
  <1>12. PICK K \in SUBSET (Dirty(pool) \ W) :
           put = Put(Cleaned(pool, W), Reached(medium, pool, W \cup K), W = Dirty(pool))
    BY <1>11
  <1>2. /\ pool' = Cleaned(pool, W) /\ medium' = Reached(medium, pool, W \cup K)
        /\ answer' = IF W = Dirty(pool) THEN Ok ELSE Refused
        /\ maybe' = IF W = Dirty(pool) THEN [q \in Touched |-> {Reads(q)}] ELSE maybe
    BY <1>1, <1>12 DEF Put
  <1>3. W \cup K \in SUBSET Dirty(pool) /\ W \in SUBSET (W \cup K) /\ Good(pool, medium)
    BY <1>11, <1>12 DEF DInv
  <1>4. LET d  == Cleaned(pool, W)
            me == Reached(medium, pool, W \cup K)
        IN  /\ Good(d, me) /\ View(d, me) = View(pool, medium)
            /\ d.blk = pool.blk /\ d.val = pool.val /\ d.held = pool.held /\ d.lru = pool.lru
            /\ \A i \in Buffers : d.drt[i] <=> pool.drt[i] /\ i \notin W
            /\ \A b \in Sectors : me[b] \in {medium[b], View(pool, medium)[b]}
            /\ \A i \in W \cup K : me[pool.blk[i]] = pool.held[i]
    BY <1>3, Writes
  <1>5. /\ Good(pool', medium') /\ View(pool', medium') = View(pool, medium)
        /\ pool'.blk = pool.blk /\ pool'.val = pool.val /\ pool'.lru = pool.lru
        /\ \A i \in Buffers : pool'.drt[i] <=> pool.drt[i] /\ i \notin W
        /\ \A s \in Sectors : medium'[s] \in {medium[s], View(pool, medium)[s]}
    BY <1>2, <1>4
  <1>6. CurrentSound'
    BY <1>5 DEF DInv, CurrentSound, Flush
  <1>7. \A q \in Touched : Reads(q)' = Reads(q) /\ Med(q)' \in {Med(q), Reads(q)}
    BY <1>5, ViewKept
  <1>8. CASE W = Dirty(pool)
    <2>1. ASSUME NEW q \in Touched PROVE Med(q)' = Reads(q)
      <3>1. Block(q) \in Sectors /\ Reads(q)' = View(pool', medium')[Block(q)][Place(q)]
        BY RecordsAre, ReadsAre
      <3>2. CASE \E i \in Buffers : pool'.val[i] /\ pool'.blk[i] = Block(q)
        <4>1. PICK i \in Buffers : pool'.val[i] /\ pool'.blk[i] = Block(q)
          BY <3>2
        <4>2. ~ pool'.drt[i]
          BY <1>5, <1>8, <4>1 DEF Dirty
        <4>3. View(pool', medium')[Block(q)] = pool'.held[i] /\ pool'.held[i] = medium'[Block(q)]
          BY <1>5, <4>1, <4>2, ViewIs DEF Good, Stored
        <4>4. QED BY <1>7, <3>1, <4>3 DEF Med
      <3>3. CASE ~ \E i \in Buffers : pool'.val[i] /\ pool'.blk[i] = Block(q)
        <4>1. View(pool', medium')[Block(q)] = medium'[Block(q)]
          BY <1>5, <3>1, <3>3, ViewIs DEF Good
        <4>2. QED BY <1>7, <3>1, <4>1 DEF Med
      <3>4. QED BY <3>2, <3>3
    <2>2. QED BY <1>2, <1>5, <1>6, <1>7, <1>8, <2>1
  <1>9. CASE W # Dirty(pool)
    BY <1>2, <1>5, <1>6, <1>7, <1>9
  <1>10. QED BY <1>8, <1>9

(* With empty buffers a read finds what the medium has.                    *)
LEMMA EmptyIs ==
  ASSUME NEW md \in Media
  PROVE  Good(bcbinit, md) /\ View(bcbinit, md) = md
  <1>1. PICK c : c = bcbinit
    OBVIOUS
  <1>2. c \in Caches
    <2>1. [p \in Places |-> Zero] \in Cells /\ 0 \in Int
      BY CacheAssumption DEF Cells
    <2>2. QED BY <1>1, <2>1 DEF bcbinit, Caches
  <1>3. \A i \in Buffers : ~ c.val[i] /\ c.lru[i] = i
    BY <1>1 DEF bcbinit
  <1>4. Turning(c) /\ Alone(c) /\ Stored(c, md)
    BY <1>3 DEF Turning, Alone, Stored
  <1>5. View(c, md) = md
    BY <1>3 DEF View, Media
  <1>6. QED BY <1>1, <1>2, <1>4, <1>5 DEF Good

LEMMA DiskStarts == ASSUME DiskInit PROVE DInv /\ Promise!Init
  <1>1. medium \in Media /\ \A r \in Touched : Med(r) = Zero
    <2>1. [p \in Places |-> Zero] \in Cells
      BY CacheAssumption DEF Cells
    <2>2. QED BY <2>1, RecordsAre DEF DiskInit, Media, Med
  <1>2. Good(pool, medium) /\ View(pool, medium) = medium
    BY <1>1, EmptyIs DEF DiskInit
  <1>3. CurrentSound
    BY DEF DiskInit, CurrentSound, NoBuffer
  <1>4. \A r \in Touched : Reads(r) = Zero
    BY <1>1, <1>2, ReadsAre DEF Med
  <1>5. Foreseen
    BY <1>1, <1>4, CacheAssumption DEF Foreseen, DiskInit
  <1>6. Promise!Init
    BY <1>4, CacheAssumption DEF Promise!Init, Promise!Ok, DiskInit, Ok
  <1>7. QED BY <1>2, <1>3, <1>5, <1>6 DEF DInv

LEMMA PowerCutStep ==
  ASSUME DInv, PowerCut
  PROVE  /\ Good(pool', medium') /\ CurrentSound'
         /\ \A q \in Touched : Reads(q)' = Med(q) /\ Med(q)' = Med(q)
  <1>1. pool' = bcbinit /\ medium' = medium /\ medium \in Media /\ current' = NoBuffer
    BY DEF PowerCut, DInv, Good
  <1>2. Good(pool', medium') /\ View(pool', medium') = medium
    BY <1>1, EmptyIs
  <1>3. CurrentSound'
    BY <1>1 DEF CurrentSound, NoBuffer
  <1>4. QED BY <1>1, <1>2, <1>3, ReadsAre DEF Med

-----------------------------------------------------------------------------
(* Every call is one of the promise's, and what it leaves is foreseen.     *)

LEMMA ForeseenIs ==
  ASSUME maybe' \in [Touched -> SUBSET Vals], Good(pool', medium'), CurrentSound',
         \A q \in Touched : Reads(q)' \in maybe'[q] /\ Med(q)' \in maybe'[q]
  PROVE  DInv'
  BY DEF DInv, Foreseen

LEMMA RefinedRead ==
  ASSUME DInv, NEW r \in Touched, dskread(r)
  PROVE  DInv' /\ Promise!Next
  <1>1. /\ Good(pool', medium') /\ CurrentSound' /\ UNCHANGED maybe
        /\ \A q \in Touched : Reads(q)' = Reads(q) /\ Med(q)' \in {Med(q), Reads(q)}
        /\ answer' \in {Refused, <<0, Reads(r)>>}
    BY ReadStep
  <1>2. DInv'
    BY <1>1, ForeseenIs DEF DInv, Foreseen
  <1>3. UNCHANGED [q \in Touched |-> Reads(q)]
    BY <1>1
  <1>4. Promise!Failing \/ Promise!Reading(r)
    BY <1>1, <1>3 DEF Promise!Failing, Promise!Reading, Promise!Refused, Refused
  <1>5. QED BY <1>2, <1>4 DEF Promise!Next

(* The store after a write, as the promise has it.                         *)
LEMMA StoreIs ==
  ASSUME NEW r \in Touched, NEW v
  PROVE  /\ (\A q \in Touched : Reads(q)' = Reads(q)) => UNCHANGED [q \in Touched |-> Reads(q)]
         /\ (\A q \in Touched : Reads(q)' = IF q = r THEN v ELSE Reads(q)) =>
               [q \in Touched |-> Reads(q)]' = [[q \in Touched |-> Reads(q)] EXCEPT ![r] = v]
  OBVIOUS

LEMMA RefinedWrite ==
  ASSUME DInv, NEW r \in Touched, NEW v \in Vals, Write(r, v)
  PROVE  DInv' /\ Promise!Next
  <1>1. WriteLeaves(r, v, 0) /\ maybe' = [maybe EXCEPT ![r] = @ \cup {v}]
    BY WriteStep DEF Write
  <1>2. \/ answer' = Refused /\ \A q \in Touched : Reads(q)' = Reads(q)
        \/ \A q \in Touched : Reads(q)' = IF q = r THEN v ELSE Reads(q)
    BY <1>1 DEF WriteLeaves
  <1>3. DInv'
    <2>1. maybe' \in [Touched -> SUBSET Vals] /\ v \in maybe'[r]
          /\ \A q \in Touched : maybe[q] \in SUBSET maybe'[q]
      BY <1>1 DEF DInv, Foreseen
    <2>2. \A q \in Touched : Reads(q) \in maybe[q] /\ Med(q) \in maybe[q]
      BY DEF DInv, Foreseen
    <2>3. \A q \in Touched : Reads(q)' \in maybe'[q]
      BY <1>2, <2>1, <2>2
    <2>4. \A q \in Touched : Med(q)' \in maybe'[q]
      BY <1>1, <2>1, <2>2, <2>3 DEF WriteLeaves
    <2>5. QED BY <1>1, <2>1, <2>3, <2>4, ForeseenIs DEF WriteLeaves
  <1>4. Promise!Writing(r, v)
    BY <1>1, <1>2, StoreIs
    DEF WriteLeaves, Promise!Writing, Promise!Taken, Promise!Ok, Promise!Refused, Ok, Refused
  <1>5. QED BY <1>3, <1>4 DEF Promise!Next

LEMMA RefinedDir ==
  ASSUME DInv, NEW r \in Touched, NEW v \in Vals, WriteDir(r, v)
  PROVE  DInv' /\ Promise!Next
  <1>1. /\ WriteLeaves(r, v, 1)
        /\ maybe' = [maybe EXCEPT ![r] = IF answer' = Ok THEN {v} ELSE @ \cup {v}]
    BY WriteStep DEF WriteDir
  <1>2. \/ answer' = Refused /\ \A q \in Touched : Reads(q)' = Reads(q)
        \/ \A q \in Touched : Reads(q)' = IF q = r THEN v ELSE Reads(q)
    BY <1>1 DEF WriteLeaves
  <1>3. answer' \in {Ok, Refused} /\ Ok # Refused
    BY <1>1 DEF WriteLeaves, Ok, Refused
  <1>4. maybe \in [Touched -> SUBSET Vals]
        /\ \A q \in Touched : Reads(q) \in maybe[q] /\ Med(q) \in maybe[q]
    BY DEF DInv, Foreseen
  <1>5. CASE answer' = Ok
    <2>1. maybe' = [maybe EXCEPT ![r] = {v}] /\ Med(r)' = v /\ Reads(r)' = v
          /\ \A q \in Touched : Reads(q)' = IF q = r THEN v ELSE Reads(q)
      BY <1>1, <1>2, <1>3, <1>5 DEF WriteLeaves
    <2>2. \A q \in Touched : Med(q)' \in {Med(q), Reads(q), Reads(q)'}
      BY <1>1 DEF WriteLeaves
    <2>3. \A q \in Touched : Reads(q)' \in maybe'[q] /\ Med(q)' \in maybe'[q]
      BY <1>4, <2>1, <2>2
    <2>4. DInv'
      BY <1>1, <1>4, <2>1, <2>3, ForeseenIs DEF WriteLeaves
    <2>5. Promise!WritingThrough(r, v)
      BY <1>5, <2>1, StoreIs DEF Promise!WritingThrough, Promise!Taken, Promise!Ok, Ok
    <2>6. QED BY <2>4, <2>5 DEF Promise!Next
  <1>6. CASE answer' = Refused
    <2>1. maybe' = [maybe EXCEPT ![r] = @ \cup {v}]
      BY <1>1, <1>3, <1>6
    <2>2. /\ maybe' \in [Touched -> SUBSET Vals] /\ v \in maybe'[r]
          /\ \A q \in Touched : maybe[q] \in SUBSET maybe'[q]
      BY <1>4, <2>1
    <2>3. \A q \in Touched : Reads(q)' \in maybe'[q]
      BY <1>2, <1>4, <2>2
    <2>4. \A q \in Touched : Med(q)' \in maybe'[q]
      BY <1>1, <1>4, <2>2, <2>3 DEF WriteLeaves
    <2>5. DInv'
      BY <1>1, <2>2, <2>3, <2>4, ForeseenIs DEF WriteLeaves
    <2>6. Promise!Writing(r, v)
      BY <1>2, <1>3, <2>1, StoreIs
      DEF Promise!Writing, Promise!Taken, Promise!Ok, Promise!Refused, Ok, Refused
    <2>7. QED BY <2>5, <2>6 DEF Promise!Next
  <1>7. QED BY <1>3, <1>5, <1>6

LEMMA RefinedNew ==
  ASSUME DInv, NEW r \in Touched, NEW v \in Vals, WriteNew(r, v)
  PROVE  DInv' /\ Promise!Next
  <1>1. /\ WriteLeaves(r, v, 2)
        /\ maybe' = [q \in Touched |-> maybe[q] \cup (IF q = r THEN {v}
                                       ELSE IF q \in Sharing(r) THEN {Zero} ELSE {})]
    BY WriteStep DEF WriteNew
  <1>2. \/ answer' = Refused /\ \A q \in Touched : Reads(q)' = Reads(q)
        \/ \A q \in Touched : Reads(q)' = IF q = r THEN v ELSE Reads(q)
        \/ \A q \in Touched : Reads(q)' = IF q = r THEN v
                                          ELSE IF q \in Sharing(r) THEN Zero ELSE Reads(q)
    BY <1>1 DEF WriteLeaves
  <1>3. DInv'
    <2>1. maybe \in [Touched -> SUBSET Vals]
          /\ \A q \in Touched : Reads(q) \in maybe[q] /\ Med(q) \in maybe[q]
      BY DEF DInv, Foreseen
    <2>2. /\ maybe' \in [Touched -> SUBSET Vals] /\ v \in maybe'[r]
          /\ \A q \in Touched : maybe[q] \in SUBSET maybe'[q]
          /\ \A q \in Touched : q # r /\ q \in Sharing(r) => Zero \in maybe'[q]
      BY <1>1, <2>1, CacheAssumption
    <2>3. \A q \in Touched : Reads(q)' \in maybe'[q]
      BY <1>2, <2>1, <2>2
    <2>4. \A q \in Touched : Med(q)' \in maybe'[q]
      BY <1>1, <2>1, <2>2, <2>3 DEF WriteLeaves
    <2>5. QED BY <1>1, <2>2, <2>3, <2>4, ForeseenIs DEF WriteLeaves
  <1>4. Promise!WritingFresh(r, v, Zero)
    <2>1. \/ answer' = Refused /\ UNCHANGED [q \in Touched |-> Reads(q)]
          \/ [q \in Touched |-> Reads(q)]' = [[q \in Touched |-> Reads(q)] EXCEPT ![r] = v]
          \/ [q \in Touched |-> Reads(q)]' =
                [q \in Touched |-> IF q = r THEN v ELSE IF q \in Sharing(r) THEN Zero
                                   ELSE [p \in Touched |-> Reads(p)][q]]
      BY <1>2, StoreIs
    <2>2. answer' \in {Ok, Refused}
      BY <1>1 DEF WriteLeaves
    <2>3. QED
      BY <1>1, <2>1, <2>2
      DEF Promise!WritingFresh, Promise!Taken, Promise!Ok, Promise!Refused, Ok, Refused
  <1>5. Zero \in Vals
    BY CacheAssumption
  <1>6. QED BY <1>3, <1>4, <1>5 DEF Promise!Next

LEMMA RefinedFlush == ASSUME DInv, Flush PROVE DInv' /\ Promise!Next
  <1>1. /\ Good(pool', medium') /\ CurrentSound'
        /\ \A q \in Touched : Reads(q)' = Reads(q) /\ Med(q)' \in {Med(q), Reads(q)}
        /\ \/ /\ answer' = Ok /\ maybe' = [q \in Touched |-> {Reads(q)}]
              /\ \A q \in Touched : Med(q)' = Reads(q)
           \/ answer' = Refused /\ UNCHANGED maybe
    BY FlushStep
  <1>2. maybe \in [Touched -> SUBSET Vals]
        /\ \A q \in Touched : Reads(q) \in maybe[q] /\ Med(q) \in maybe[q]
    BY DEF DInv, Foreseen
  <1>3. maybe' \in [Touched -> SUBSET Vals]
        /\ \A q \in Touched : Reads(q)' \in maybe'[q] /\ Med(q)' \in maybe'[q]
    BY <1>1, <1>2
  <1>4. DInv'
    BY <1>1, <1>3, ForeseenIs
  <1>5. UNCHANGED [q \in Touched |-> Reads(q)]
    BY <1>1
  <1>6. Promise!Flushing \/ Promise!Failing
    BY <1>1, <1>5 DEF Promise!Flushing, Promise!Failing, Promise!Ok, Promise!Refused, Ok, Refused
  <1>7. QED BY <1>4, <1>6 DEF Promise!Next

LEMMA RefinedPowerCut == ASSUME DInv, PowerCut PROVE DInv' /\ Promise!Next
  <1>1. /\ Good(pool', medium') /\ CurrentSound'
        /\ \A q \in Touched : Reads(q)' = Med(q) /\ Med(q)' = Med(q)
    BY PowerCutStep
  <1>2. maybe' = [q \in Touched |-> {Med(q)}] /\ answer' = Ok
    BY DEF PowerCut, Med
  <1>3. maybe \in [Touched -> SUBSET Vals] /\ \A q \in Touched : Med(q) \in maybe[q]
    BY DEF DInv, Foreseen
  <1>4. DInv'
    BY <1>1, <1>2, <1>3, ForeseenIs
  <1>5. Promise!Losing
    BY <1>1, <1>2, <1>3 DEF Promise!Losing, Promise!Ok, Ok
  <1>6. QED BY <1>4, <1>5 DEF Promise!Next

LEMMA DiskStep ==
  ASSUME DInv, [DiskNext]_diskvars
  PROVE  DInv' /\ [Promise!Next]_<<[r \in Touched |-> Reads(r)], maybe, answer>>
  <1>1. DataRecs \in SUBSET Touched /\ DirRecs \in SUBSET Touched
    BY CacheAssumption
  <1>2. CASE DiskNext
    <2>1. CASE \E r \in Touched : dskread(r)
      BY <2>1, RefinedRead
    <2>2. CASE \E r \in DataRecs, v \in Vals : Write(r, v) \/ WriteNew(r, v)
      BY <1>1, <2>2, RefinedWrite, RefinedNew
    <2>3. CASE \E r \in DirRecs, v \in Vals : WriteDir(r, v)
      BY <1>1, <2>3, RefinedDir
    <2>4. CASE Flush
      BY <2>4, RefinedFlush
    <2>5. CASE PowerCut
      BY <2>5, RefinedPowerCut
    <2>6. QED BY <1>2, <2>1, <2>2, <2>3, <2>4, <2>5 DEF DiskNext
  <1>3. CASE UNCHANGED diskvars
    <2>1. /\ pool' = pool /\ medium' = medium /\ current' = current
          /\ maybe' = maybe /\ answer' = answer
      BY <1>3 DEF diskvars
    <2>2. DInv'
      BY <2>1 DEF DInv, CurrentSound, Foreseen, Reads, Med
    <2>3. \A r \in Touched : Reads(r)' = Reads(r)
      BY <2>1 DEF Reads
    <2>4. QED BY <2>1, <2>2, <2>3
  <1>4. QED BY <1>2, <1>3

(* No sector is in two buffers or outside its set, a buffer not marked     *)
(* dirty is what the medium has, and the buffer the BIOS remembers is the  *)
(* newest of its set, whatever transfers fail and whenever the power goes. *)
THEOREM BuffersAreSound == DiskSpec => []BuffersAgree
  <1>1. DInv => BuffersAgree
    <2>1. SUFFICES ASSUME DInv PROVE BuffersAgree
      OBVIOUS
    <2>2. OneBuffer
      <3>1. SUFFICES ASSUME NEW i \in Buffers, pool.val[i]
            PROVE  /\ i \in Set(pool.blk[i]) .. Set(pool.blk[i]) + NWAY - 1
                   /\ \A j \in Buffers \ {i} : pool.val[j] => pool.blk[j] # pool.blk[i]
        BY DEF OneBuffer
      <3>2. /\ pool.blk[i] \in Sectors /\ InSet(i, Set(pool.blk[i]))
            /\ \A j \in Buffers : pool.val[j] /\ pool.blk[j] = pool.blk[i] => j = i
        BY <2>1, <3>1 DEF DInv, Good, Alone
      <3>3. Set(pool.blk[i]) \in Nat /\ i \in Int /\ NWAY \in Nat
        BY <3>2, RecordsAre, BasesAre, CacheAssumption DEF Sectors, Buffers
      <3>4. QED BY <3>2, <3>3 DEF InSet
    <2>3. CleanIsStored
      BY <2>1 DEF CleanIsStored, DInv, Good, Stored
    <2>4. CurrentIsNewest
      BY <2>1 DEF CurrentIsNewest, DInv, CurrentSound, Buffers
    <2>5. QED BY <2>2, <2>3, <2>4 DEF BuffersAgree
  <1>2. DiskInit => DInv
    BY DiskStarts
  <1>3. DInv /\ [DiskNext]_diskvars => DInv'
    BY DiskStep
  <1>4. QED BY <1>1, <1>2, <1>3, PTL DEF DiskSpec

(* Reads answer the last write, refused or not; an acknowledged directory  *)
(* write, and all that precedes an acknowledged flush, survives a power    *)
(* cut; no other record is disturbed: every behaviour of the cache and the *)
(* medium is one of module Medium, step by step.                           *)
THEOREM CacheKeepsWrites == DiskSpec => KeepsWrites
  <1>1. DiskInit => DInv /\ Promise!Init
    BY DiskStarts
  <1>2. DInv /\ [DiskNext]_diskvars =>
          DInv' /\ [Promise!Next]_<<[r \in Touched |-> Reads(r)], maybe, answer>>
    BY DiskStep
  <1>3. QED BY <1>1, <1>2, PTL DEF DiskSpec, KeepsWrites, Promise!Spec
-----------------------------------------------------------------------------
(* The drive table.                                                        *)
(* Induction up to a bound, for a set of numbers.                          *)
LEMMA UpTo ==
  ASSUME NEW N \in Nat, NEW T, 0 \in T, \A n \in 0 .. N - 1 : n \in T => n + 1 \in T
  PROVE  0 .. N \subseteq T
  <1> SUFFICES ASSUME NEW m \in 0 .. N, m \notin T PROVE FALSE
    OBVIOUS
  <1> DEFINE Left == (0 .. N) \ T
  <1>1. Left \subseteq Nat /\ Left # {}
    OBVIOUS
  <1>2. PICK x \in Left : \A y \in Left : x <= y
    BY <1>1, NatLeast
  <1>3. x \in 0 .. N /\ x # 0
    BY <1>2
  <1>4. PICK w \in Nat : w = x - 1
    BY <1>3
  <1>5. w \in 0 .. N - 1 /\ ~ (x <= w) /\ w + 1 = x
    BY <1>3, <1>4
  <1>6. w \in 0 .. N /\ w \notin Left
    BY <1>2, <1>5
  <1>7. QED BY <1>2, <1>5, <1>6

(* A quotient, and the number it leaves.                                   *)
LEMMA Quotient ==
  ASSUME NEW a \in Nat, NEW b \in Nat \ {0}
  PROVE  /\ a \div b \in Nat /\ (a \div b) * b <= a /\ a < (a \div b + 1) * b
         /\ b <= a => a \div b >= 1
  <1>1. a \div b \in Nat /\ (a \div b) * b <= a /\ a < (a \div b + 1) * b
    OBVIOUS
  <1>2. ASSUME b <= a PROVE a \div b >= 1
    <2>1. CASE a \div b = 0
      <3>1. a < (0 + 1) * b
        BY <1>1, <2>1
      <3>2. QED BY <1>2, <3>1
    <2>2. QED BY <1>1, <2>1
  <1>3. QED BY <1>1, <1>2
-----------------------------------------------------------------------------
Rows == [base : Nat, dsm : Nat, alv : Nat, alvlen : Nat]

(* A table half built: the rows of letters below n, each inside its slot   *)
(* and with a vector long enough, the vectors in the order of the letters  *)
(* below the first byte that is free.                                      *)
RowRight(p, d, r) ==
  /\ r \in Rows /\ r.base = p[d].bstart
  /\ (r.dsm + 1) * BLSBLKS <= p[d].bcount
  /\ r.dsm < r.alvlen * BYTE
TableTo(p, t, n) ==
  /\ t.used \in 0 .. ALVPOOL /\ DOMAIN t.rows \subseteq 0 .. n - 1
  /\ \A d \in DOMAIN t.rows : RowRight(p, d, t.rows[d]) /\ t.rows[d].alv + t.rows[d].alvlen <= t.used
  /\ \A d, e \in DOMAIN t.rows : d < e => t.rows[d].alv + t.rows[d].alvlen <= t.rows[e].alv

LEMMA RowIsRight ==
  ASSUME NEW p \in Tables, NEW d \in Letters, NEW used \in Nat, p[d].bcount >= MINBCNT
  PROVE  RowRight(p, d, Row(p, used, d)) /\ Row(p, used, d).alv = used
  <1>1. p[d].bstart \in Nat /\ p[d].bcount \in Nat
    BY DrivesAssumption
  <1> DEFINE count == IF p[d].bcount > MAXBCNT THEN MAXBCNT ELSE p[d].bcount
             q == count \div BLSBLKS
  <1>2. count \in Nat /\ BLSBLKS <= count /\ count <= p[d].bcount /\ BLSBLKS \in Nat \ {0}
    BY <1>1, DrivesAssumption
  <1> HIDE DEF count
  <1>3. q \in Nat /\ q >= 1 /\ q * BLSBLKS <= count
    BY <1>2, Quotient
  <1> HIDE DEF q
  <1>4. PICK dsm \in Nat : dsm = q - 1
    BY <1>3
  <1>5. dsm + 1 = q
    BY <1>3, <1>4
  <1>6. (dsm + 1) * BLSBLKS <= p[d].bcount
    <2>1. q * BLSBLKS \in Nat
      BY <1>2, <1>3
    <2>2. q * BLSBLKS <= p[d].bcount
      BY <1>1, <1>2, <1>3, <2>1
    <2>3. QED BY <1>5, <2>2
  <1>7. PICK len \in Nat : len = dsm \div BYTE + 1
    BY Quotient, DrivesAssumption
  <1>8. dsm < len * BYTE
    BY <1>7, Quotient, DrivesAssumption
  <1>9. Row(p, used, d) = [base |-> p[d].bstart, dsm |-> dsm, alv |-> used, alvlen |-> len]
    BY <1>4, <1>7 DEF Row, count, q
  <1>10. QED BY <1>1, <1>6, <1>8, <1>9 DEF RowRight, Rows

LEMMA NextKeeps ==
  ASSUME NEW p \in Tables, NEW t, NEW n \in Letters, TableTo(p, t, n)
  PROVE  TableTo(p, NextDrive(p, t, n), n + 1)
  <1>0. n \in Nat /\ t.used \in Nat
    BY DrivesAssumption DEF Letters, TableTo
  <1> DEFINE r == Row(p, t.used, n)
  <1>1. CASE p[n].bcount >= MINBCNT /\ Fits(r)
    <2>1. RowRight(p, n, r) /\ r.alv = t.used
      BY <1>0, <1>1, RowIsRight
    <2>2. r \in Rows
      BY <2>1 DEF RowRight
    <2> DEFINE u == NextDrive(p, t, n)
               top == r.alv + r.alvlen
    <2>3. u = Added(t, n, r)
      BY <1>1 DEF NextDrive
    <2> HIDE DEF r
    <2>4. /\ u.used = r.alv + r.alvlen /\ DOMAIN u.rows = DOMAIN t.rows \cup {n}
          /\ u.rows[n] = r
          /\ \A d \in DOMAIN t.rows : d # n => u.rows[d] = t.rows[d]
      BY <2>3 DEF Added
    <2>5. u.used \in 0 .. ALVPOOL /\ t.used <= u.used
      BY <1>0, <1>1, <2>1, <2>2, <2>4, DrivesAssumption DEF Fits, Rows
    <2> HIDE DEF u
    <2>6. DOMAIN u.rows \subseteq 0 .. (n + 1) - 1 /\ n \notin DOMAIN t.rows
          /\ \A d \in DOMAIN t.rows : d < n
      BY <1>0, <2>4 DEF TableTo
    <2>7. \A d \in DOMAIN u.rows : RowRight(p, d, u.rows[d])
      BY <2>1, <2>4 DEF TableTo
    <2>8. \A d \in DOMAIN t.rows : u.rows[d].alv + u.rows[d].alvlen <= t.used
      BY <2>4, <2>6 DEF TableTo
    <2>9. \A d \in DOMAIN u.rows : u.rows[d].alv \in Nat /\ u.rows[d].alvlen \in Nat
      BY <2>7 DEF RowRight, Rows
    <2>10. \A d \in DOMAIN u.rows : u.rows[d].alv + u.rows[d].alvlen <= u.used
      <3>1. SUFFICES ASSUME NEW d \in DOMAIN t.rows
                     PROVE  u.rows[d].alv + u.rows[d].alvlen <= u.used
        BY <2>2, <2>4 DEF Rows
      <3>2. u.rows[d].alv + u.rows[d].alvlen \in Nat
        BY <2>4, <2>9
      <3>3. QED BY <1>0, <2>5, <2>8, <3>2, DrivesAssumption
    <2>11. ASSUME NEW d \in DOMAIN u.rows, NEW e \in DOMAIN u.rows, d < e
           PROVE  u.rows[d].alv + u.rows[d].alvlen <= u.rows[e].alv
      <3>1. d \in DOMAIN t.rows
        BY <1>0, <2>4, <2>6, <2>11
      <3>2. CASE e = n
        BY <2>1, <2>4, <2>8, <3>1, <3>2
      <3>3. CASE e # n
        BY <2>4, <2>6, <2>11, <3>1, <3>3 DEF TableTo
      <3>4. QED BY <3>2, <3>3
    <2>12. QED BY <2>5, <2>6, <2>7, <2>10, <2>11 DEF TableTo, u
  <1>2. CASE ~ (p[n].bcount >= MINBCNT /\ Fits(r))
    <2>1. NextDrive(p, t, n) = t
      BY <1>2 DEF NextDrive
    <2>2. DOMAIN t.rows \subseteq 0 .. (n + 1) - 1
      BY <1>0 DEF TableTo
    <2>3. QED BY <2>1, <2>2 DEF TableTo
  <1>3. QED BY <1>1, <1>2

(* The loop of drvinit() has a result: the tables after so many letters.   *)
NoDrives == [used |-> 0, rows |-> [x \in {} |-> 0]]
Built(p, f, n) == f = [i \in 0 .. n |-> IF i = 0 THEN NoDrives ELSE NextDrive(p, f[i - 1], i - 1)]

LEMMA LoopEnds ==
  ASSUME NEW p
  PROVE  \E f : Built(p, f, NDRIVE)
  <1> DEFINE T == {n \in Nat : \E f : Built(p, f, n)}
  <1>1. 0 \in T
    <2>1. Built(p, [i \in 0 .. 0 |-> NoDrives], 0)
      BY DEF Built
    <2>2. QED BY <2>1
  <1>2. ASSUME NEW n \in 0 .. NDRIVE - 1, n \in T PROVE n + 1 \in T
    <2>1. PICK f : Built(p, f, n)
      BY <1>2
    <2> DEFINE g == [i \in 0 .. n + 1 |-> IF i = n + 1 THEN NextDrive(p, f[n], n) ELSE f[i]]
    <2>2. n \in Nat /\ n + 1 \in Nat
      BY DrivesAssumption
    <2>3. \A i \in 0 .. n : f[i] = IF i = 0 THEN NoDrives ELSE NextDrive(p, f[i - 1], i - 1)
      BY <2>1 DEF Built
    <2>4. \A i \in 0 .. n + 1 :
            g[i] = IF i = 0 THEN NoDrives ELSE NextDrive(p, g[i - 1], i - 1)
      <3> SUFFICES ASSUME NEW i \in 0 .. n + 1
                   PROVE  g[i] = IF i = 0 THEN NoDrives ELSE NextDrive(p, g[i - 1], i - 1)
        OBVIOUS
      <3>1. CASE i = n + 1
        <4>1. i # 0 /\ i - 1 = n /\ n \in 0 .. n + 1 /\ n # n + 1
          BY <2>2, <3>1
        <4>2. g[i - 1] = f[n] /\ g[i] = NextDrive(p, f[n], n)
          BY <3>1, <4>1
        <4>3. QED BY <4>1, <4>2
      <3>2. CASE i = 0
        <4>1. i # n + 1 /\ i \in 0 .. n
          BY <2>2, <3>2
        <4>2. QED BY <2>3, <3>2, <4>1
      <3>3. CASE i # 0 /\ i # n + 1
        <4>1. i \in 0 .. n /\ i - 1 \in 0 .. n /\ i - 1 \in 0 .. n + 1 /\ i - 1 # n + 1
          BY <2>2, <3>3
        <4>2. g[i] = f[i] /\ g[i - 1] = f[i - 1]
          BY <3>3, <4>1
        <4>3. QED BY <2>3, <3>3, <4>1, <4>2
      <3>4. QED BY <3>1, <3>2, <3>3
    <2>5. g = [i \in 0 .. n + 1 |-> IF i = 0 THEN NoDrives ELSE NextDrive(p, g[i - 1], i - 1)]
      <3>1. g = [i \in 0 .. n + 1 |-> g[i]]
        OBVIOUS
      <3> HIDE DEF g
      <3>2. QED BY <2>4, <3>1
    <2>6. Built(p, g, n + 1)
      BY <2>5 DEF Built
    <2>7. QED BY <2>2, <2>6
  <1>3. NDRIVE \in T
    <2> HIDE DEF T
    <2>1. 0 .. NDRIVE \subseteq T /\ NDRIVE \in 0 .. NDRIVE
      BY <1>1, <1>2, UpTo, DrivesAssumption
    <2>2. QED BY <2>1
  <1>4. QED BY <1>3

LEMMA drvinitIs ==
  ASSUME NEW p
  PROVE  \E f : Built(p, f, NDRIVE) /\ drvinit(p) = f[NDRIVE].rows
  <1> DEFINE f == CHOOSE g : Built(p, g, NDRIVE)
  <1>1. Built(p, f, NDRIVE)
    BY LoopEnds, Zenon
  <1>2. drvinit(p) = f[NDRIVE].rows
    BY Zenon DEF drvinit, Built, NoDrives
  <1>3. QED BY <1>1, <1>2

LEMMA TableIsBuilt ==
  ASSUME NEW p \in Tables
  PROVE  \E t : TableTo(p, t, NDRIVE) /\ drvinit(p) = t.rows
  <1>1. PICK f : Built(p, f, NDRIVE) /\ drvinit(p) = f[NDRIVE].rows
    BY drvinitIs
  <1> DEFINE T == {n \in 0 .. NDRIVE : TableTo(p, f[n], n)}
  <1>2. NDRIVE \in Nat /\ Letters = 0 .. NDRIVE - 1
    BY DrivesAssumption DEF Letters
  <1>3. \A i \in 0 .. NDRIVE : f[i] = IF i = 0 THEN NoDrives ELSE NextDrive(p, f[i - 1], i - 1)
    BY <1>1 DEF Built
  <1>4. 0 \in T
    <2>1. f[0] = NoDrives /\ 0 \in 0 .. NDRIVE
      BY <1>2, <1>3
    <2>2. TableTo(p, NoDrives, 0)
      BY DrivesAssumption DEF TableTo, NoDrives
    <2>3. QED BY <2>1, <2>2
  <1>5. ASSUME NEW n \in 0 .. NDRIVE - 1, n \in T PROVE n + 1 \in T
    <2>1. n \in Letters /\ n + 1 \in 0 .. NDRIVE /\ n + 1 # 0 /\ (n + 1) - 1 = n
      BY <1>2
    <2>2. f[n + 1] = NextDrive(p, f[n], n)
      BY <1>3, <2>1
    <2>3. TableTo(p, f[n], n)
      BY <1>5
    <2>4. TableTo(p, NextDrive(p, f[n], n), n + 1)
      BY <2>1, <2>3, NextKeeps
    <2>5. QED BY <2>1, <2>2, <2>4
  <1>6. NDRIVE \in T
    <2> HIDE DEF T
    <2>1. 0 .. NDRIVE \subseteq T /\ NDRIVE \in 0 .. NDRIVE
      BY <1>2, <1>4, <1>5, UpTo
    <2>2. QED BY <2>1
  <1>7. QED BY <1>1, <1>6
-----------------------------------------------------------------------------
(* What holds of the drives at every step: the table is as drvinit() built *)
(* it, curbase is the drive's that the BDOS selected last unless a program *)
(* has been at it, and so is the block reached.                            *)
DriveInv ==
  /\ parts \in Tables /\ \E t : TableTo(parts, t, NDRIVE) /\ drives = t.rows
  /\ lastdsk \in Letters /\ strayed \in BOOLEAN
  /\ ~ strayed /\ lastdsk \in DOMAIN drives => curbase = drives[lastdsk].base
  /\ reached.dsk \in DOMAIN drives /\ reached.own => reached.blk \in Slot(parts, reached.dsk)

LEMMA DrivesAre ==
  ASSUME DriveInv
  PROVE  /\ DOMAIN drives \subseteq Letters
         /\ \A d \in DOMAIN drives : RowRight(parts, d, drives[d])
         /\ VectorsApart
  <1>1. PICK t : TableTo(parts, t, NDRIVE) /\ drives = t.rows
    BY DEF DriveInv
  <1>2. DOMAIN drives \subseteq Letters /\ \A d \in DOMAIN drives : RowRight(parts, d, drives[d])
    BY <1>1 DEF TableTo, Letters
  <1>3. ASSUME NEW d \in DOMAIN drives PROVE drives[d].alv + drives[d].alvlen <= ALVPOOL
    <2>1. drives[d].alv + drives[d].alvlen \in Nat
      BY <1>2 DEF RowRight, Rows
    <2>2. drives[d].alv + drives[d].alvlen <= t.used /\ t.used \in 0 .. ALVPOOL
      BY <1>1 DEF TableTo
    <2>3. QED BY <2>1, <2>2, DrivesAssumption
  <1>4. \A d \in DOMAIN drives : drives[d].dsm < drives[d].alvlen * BYTE
    BY <1>2 DEF RowRight
  <1>5. QED BY <1>1, <1>2, <1>3, <1>4 DEF VectorsApart, TableTo

(* A transfer bounded by the drive's size stays in its partition.          *)
LEMMA BlockInSlot ==
  ASSUME DriveInv, NEW d \in DOMAIN drives, NEW n \in Nat, n < (drives[d].dsm + 1) * BLSBLKS
  PROVE  drives[d].base + n \in Slot(parts, d)
  <1>1. RowRight(parts, d, drives[d]) /\ d \in Letters
    BY DrivesAre
  <1>2. PICK size \in Nat : size = (drives[d].dsm + 1) * BLSBLKS
    BY <1>1, DrivesAssumption DEF RowRight, Rows
  <1>3. drives[d].base = parts[d].bstart /\ size <= parts[d].bcount
    BY <1>1, <1>2 DEF RowRight
  <1>4. parts[d].bstart \in Nat /\ parts[d].bcount \in Nat
    BY <1>1, DrivesAssumption DEF DriveInv
  <1>5. n < size
    BY <1>2
  <1>6. QED BY <1>3, <1>4, <1>5 DEF Slot

LEMMA DrivesStart == DrivesInit => DriveInv
  <1> SUFFICES ASSUME NEW p \in Tables, ColdStart(p) PROVE DriveInv
    BY DEF DrivesInit
  <1>1. parts = p /\ drives = drvinit(p) /\ lastdsk = 0 /\ strayed = FALSE
        /\ reached = [dsk |-> 0, blk |-> curbase, own |-> TRUE]
    BY DEF ColdStart
  <1>2. PICK t : TableTo(p, t, NDRIVE) /\ drives = t.rows
    BY <1>1, TableIsBuilt
  <1>3. 0 \in Letters
    BY DrivesAssumption DEF Letters
  <1>4. 0 \in DOMAIN drives => curbase = drives[0].base
    BY DEF ColdStart
  <1>5. ASSUME 0 \in DOMAIN drives PROVE curbase \in Slot(parts, 0)
    <2>1. RowRight(p, 0, drives[0])
      BY <1>2, <1>5 DEF TableTo
    <2>2. PICK size \in Nat : size = (drives[0].dsm + 1) * BLSBLKS /\ size >= 1
      <3>1. drives[0].dsm + 1 \in Nat \ {0} /\ BLSBLKS \in Nat \ {0}
        BY <2>1, DrivesAssumption DEF RowRight, Rows
      <3>2. QED BY <3>1
    <2>3. p[0].bstart \in Nat /\ p[0].bcount \in Nat
      BY <1>3, DrivesAssumption
    <2>4. curbase = p[0].bstart /\ p[0].bcount >= 1
      BY <1>4, <1>5, <2>1, <2>2, <2>3 DEF RowRight
    <2>5. QED BY <1>1, <2>3, <2>4 DEF Slot
  <1>6. QED BY <1>1, <1>2, <1>3, <1>4, <1>5 DEF DriveInv

LEMMA DrivesStep == DriveInv /\ [DrivesNext]_drivevars => DriveInv'
  <1> SUFFICES ASSUME DriveInv, [DrivesNext]_drivevars PROVE DriveInv'
    OBVIOUS
  <1>1. ASSUME NEW d \in Letters, SelInfo(d) PROVE DriveInv'
    BY <1>1 DEF SelInfo, bseldsk, DriveInv, TableTo, RowRight
  <1>2. ASSUME NEW d \in Letters, UserSelect(d) PROVE DriveInv'
    BY <1>2 DEF UserSelect, bseldsk, DriveInv, TableTo, RowRight
  <1>3. ASSUME NEW d \in Letters, NEW n \in 0 .. MAXBCNT - 1, Transfer(d, n) PROVE DriveInv'
    <2>1. /\ d \in DOMAIN drives /\ n < (drives[d].dsm + 1) * BLSBLKS /\ lastdsk' = d
          /\ reached' = [dsk |-> d, blk |-> curbase' + n, own |-> ~ strayed']
          /\ parts' = parts /\ drives' = drives
      BY <1>3 DEF Transfer
    <2>2. strayed' \in BOOLEAN /\ (~ strayed' => curbase' = drives[d].base)
      BY <1>3, <2>1 DEF Transfer, bseldsk, DriveInv
    <2>3. n \in Nat
      BY DrivesAssumption
    <2>4. drives[d].base + n \in Slot(parts, d)
      BY <2>1, <2>3, BlockInSlot
    <2>5. ~ strayed' => reached'.blk \in Slot(parts, d)
      BY <2>1, <2>2, <2>4
    <2>6. reached'.dsk \in DOMAIN drives' /\ reached'.own => reached'.blk \in Slot(parts', reached'.dsk)
      BY <2>1, <2>5
    <2>7. QED BY <2>1, <2>2, <2>6 DEF DriveInv
  <1>4. CASE UNCHANGED drivevars
    BY <1>4 DEF drivevars, DriveInv
  <1>5. QED BY <1>1, <1>2, <1>3, <1>4 DEF DrivesNext

(* Whatever partitions a loader hands over, if they do not overlap, and in *)
(* whatever order programs and the BDOS select drives: a transfer goes to  *)
(* its own drive and the allocation vectors share no byte of the pool.     *)
THEOREM DrivesAreApart == DrivesSpec => []DrivesApart
  <1>1. ASSUME DriveInv PROVE DrivesApart
    <2>1. ASSUME reached.dsk \in DOMAIN drives, reached.own
          PROVE  \A d \in Letters : reached.blk \in Slot(parts, d) <=> d = reached.dsk
      <3>1. reached.blk \in Slot(parts, reached.dsk) /\ reached.dsk \in Letters
        BY <1>1, <2>1, DrivesAre DEF DriveInv
      <3>2. Disjoint(parts)
        BY <1>1, DrivesAssumption DEF DriveInv
      <3>3. QED BY <3>1, <3>2 DEF Disjoint
    <2>2. QED BY <1>1, <2>1, DrivesAre DEF DrivesApart, ReachesItsDrive
  <1>2. QED BY <1>1, DrivesStart, DrivesStep, PTL DEF DrivesSpec
=============================================================================
