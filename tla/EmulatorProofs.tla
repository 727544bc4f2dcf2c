---------------------------- MODULE EmulatorProofs ----------------------------
(***************************************************************************)
(* The emulators.  The bridges from the guests to the BDOS, for batches,   *)
(* memories and counts of any size and whatever the guests call: calls     *)
(* keep their order, and what a bridge bounds transfers by is what the     *)
(* BDOS holds.  The executors, for words of any width, any operands and    *)
(* any counts: a delay loop run to its end at once leaves what its steps   *)
(* would, and a record of the last operation stands for the flags that     *)
(* arithmetic gives.                                                       *)
(*                                                                         *)
(* The order: the bridges; numbers and their bits; what guests are; the    *)
(* delay loops; the flags of the Z80, then those of the 8086; decimal      *)
(* adjusts; shifts, a bit at a time; and the theorem about the records.    *)
(***************************************************************************)
EXTENDS Bridges, Executors, SequenceTheorems, FiniteSetTheorems, WellFoundedInduction, TLAPS

(* Numbered calls.  `InTurn' says of a log, a batch held back and a number *)
(* of calls that the log and then the batch are these calls in order; it   *)
(* is what both bridges keep, and three things may happen to it.           *)
Count(n) == [i \in 1 .. n |-> i]
InTurn(log, obuf, n) == /\ log \in Seq(Nat) /\ obuf \in Seq(Nat) /\ n \in Nat
                        /\ log \o obuf = Count(n)

LEMMA CountGrows ==
  ASSUME NEW n \in Nat
  PROVE  Count(n) \in Seq(Nat) /\ Append(Count(n), n + 1) = Count(n + 1)
  <1>1. Count(n) \in Seq(Nat) /\ Len(Count(n)) = n
    BY DEF Count
  <1>2. /\ Append(Count(n), n + 1) \in Seq(Nat)
        /\ Len(Append(Count(n), n + 1)) = n + 1
        /\ \A i \in 1 .. n + 1 : Append(Count(n), n + 1)[i] = i
    BY <1>1 DEF Count
  <1>3. Count(n + 1) \in Seq(Nat) /\ Len(Count(n + 1)) = n + 1
    BY DEF Count
  <1>4. \A i \in 1 .. n + 1 : Count(n + 1)[i] = i
    BY DEF Count
  <1>5. QED BY <1>1, <1>2, <1>3, <1>4, SeqEqual

LEMMA InTurnStarts == InTurn(<<>>, <<>>, 0)
  <1>1. <<>> \o <<>> = Count(0)
    BY DEF Count
  <1>2. QED BY <1>1 DEF InTurn

(* The batch is sent.                                                      *)
LEMMA InTurnSent ==
  ASSUME NEW log, NEW obuf, NEW n, InTurn(log, obuf, n)
  PROVE  InTurn(log \o obuf, <<>>, n)
  <1>1. log \in Seq(Nat) /\ obuf \in Seq(Nat)
    BY DEF InTurn
  <1>2. log \o obuf \in Seq(Nat)
    BY <1>1
  <1>3. (log \o obuf) \o <<>> = log \o obuf
    BY <1>2
  <1>4. QED BY <1>2, <1>3 DEF InTurn

(* A character joins the batch.                                            *)
LEMMA InTurnHeld ==
  ASSUME NEW log, NEW obuf, NEW n, InTurn(log, obuf, n)
  PROVE  InTurn(log, Append(obuf, n + 1), n + 1)
  <1>1. log \in Seq(Nat) /\ obuf \in Seq(Nat) /\ n \in Nat /\ n + 1 \in Nat
    BY DEF InTurn
  <1>2. log \o Append(obuf, n + 1) = Append(log \o obuf, n + 1)
    <2>1. /\ log \o Append(obuf, n + 1) \in Seq(Nat)
          /\ Append(log \o obuf, n + 1) \in Seq(Nat)
          /\ Len(log \o Append(obuf, n + 1)) = Len(Append(log \o obuf, n + 1))
      BY <1>1
    <2>2. \A i \in 1 .. Len(log \o Append(obuf, n + 1)) :
            (log \o Append(obuf, n + 1))[i] = Append(log \o obuf, n + 1)[i]
      BY <1>1
    <2>3. QED BY <2>1, <2>2, SeqEqual
  <1>3. Append(obuf, n + 1) \in Seq(Nat) /\ log \o obuf = Count(n)
    BY <1>1 DEF InTurn
  <1>4. Append(Count(n), n + 1) = Count(n + 1)
    BY <1>1, CountGrows
  <1>5. QED BY <1>1, <1>2, <1>3, <1>4 DEF InTurn

(* The BDOS is called, with nothing held back.                             *)
LEMMA InTurnCalled ==
  ASSUME NEW log, NEW n, InTurn(log, <<>>, n)
  PROVE  InTurn(Append(log, n + 1), <<>>, n + 1)
  <1>1. log \in Seq(Nat) /\ n \in Nat /\ n + 1 \in Nat /\ log \o <<>> = log
    BY DEF InTurn
  <1>2. Append(log, n + 1) \o <<>> = Append(log, n + 1)
    BY <1>1
  <1>3. QED BY <1>1, <1>2, CountGrows DEF InTurn
-----------------------------------------------------------------------------
(* The bridge of the CP/M-80 guest: what it holds, and what the BDOS does. *)
Bridge80 == [obuf : Seq(Nat), dma : Nat, mult : Nat, pub : BOOLEAN,
             copy : Nat, snap : Nat, running : BOOLEAN]
Native80 == [log : Seq(Nat), dma : Nat, mult : Nat]

(* The order of the calls and the agreement of the copies, of the records  *)
(* in hand: while the run goes on a batch may be held back, and only the   *)
(* door the bridge does not watch lets the counts differ.                  *)
Keeps80(s, b, n, odd) ==
  /\ s \in Bridge80 /\ b \in Native80 /\ odd \in BOOLEAN
  /\ InTurn(b.log, s.obuf, n)
  /\ s.running \/ s.obuf = <<>>
  /\ b.dma = s.dma
  /\ odd \/ b.mult = s.mult
SInv == Keeps80(z80, native, asked, straddled)

LEMMA ClampedNat ==
  ASSUME NEW v \in Nat
  PROVE  Clamped(v) \in Nat
  BY Z80SeamAssumption DEF Clamped

(* What every call but the output begins with: the batch is sent.          *)
LEMMA Sent80 ==
  ASSUME SInv
  PROVE  /\ Keeps80(z80oflush(z80), Shown(native), asked, straddled)
         /\ z80oflush(z80) = [z80 EXCEPT !.obuf = <<>>]
         /\ z80oflush(z80).obuf = <<>>
         /\ z80oflush(z80).running = z80.running
  <1>1. z80 \in Bridge80 /\ native \in Native80 /\ InTurn(native.log, z80.obuf, asked)
    BY DEF SInv, Keeps80
  <1>2. InTurn(native.log \o z80.obuf, <<>>, asked)
    BY <1>1, InTurnSent
  <1>3. PICK log \in Seq(Nat) : log = native.log \o z80.obuf
    BY <1>2 DEF InTurn
  <1>4. Shown(native) = [native EXCEPT !.log = log]
    BY <1>3 DEF Shown
  <1>5. /\ Shown(native) \in Native80 /\ Shown(native).log = log
        /\ Shown(native).dma = native.dma /\ Shown(native).mult = native.mult
    BY <1>1, <1>4 DEF Native80
  <1>6. /\ z80oflush(z80) \in Bridge80 /\ z80oflush(z80).obuf = <<>>
        /\ z80oflush(z80).running = z80.running /\ z80oflush(z80).mult = z80.mult
        /\ z80oflush(z80).dma = z80.dma
    <2>1. <<>> \in Seq(Nat)
      OBVIOUS
    <2>2. QED BY <1>1, <2>1 DEF z80oflush, Bridge80
  <1>7. QED BY <1>2, <1>3, <1>5, <1>6 DEF SInv, Keeps80, z80oflush

(* A call the BDOS sees, with nothing held back.                           *)
LEMMA Called80 ==
  ASSUME NEW s, NEW b, NEW odd, Keeps80(s, b, asked, odd), s.obuf = <<>>
  PROVE  Keeps80(s, Logged(b), asked + 1, odd)
  <1>1. InTurn(Append(b.log, asked + 1), <<>>, asked + 1)
    BY InTurnCalled DEF Keeps80
  <1>2. Append(b.log, asked + 1) \in Seq(Nat)
    BY <1>1 DEF InTurn
  <1>3. QED BY <1>1, <1>2 DEF Keeps80, Logged, Native80

(* The copies move together.                                               *)
LEMMA DmaMoved80 ==
  ASSUME NEW s, NEW b, NEW n, NEW odd, NEW d \in Nat, NEW e, Keeps80(s, b, n, odd)
  PROVE  Keeps80([s EXCEPT !.dma = d],
                 setdma([s EXCEPT !.dma = d], [b EXCEPT !.dma = e]), n, odd)
  BY DEF Keeps80, setdma, Bridge80, Native80

LEMMA CountMoved80 ==
  ASSUME NEW s, NEW b, NEW n, NEW odd, NEW v \in Nat, Keeps80(s, b, n, odd)
  PROVE  /\ Keeps80([s EXCEPT !.mult = v], [b EXCEPT !.mult = v], n, FALSE)
         /\ Keeps80(s, [b EXCEPT !.mult = v], n, TRUE)
  BY DEF Keeps80, Bridge80, Native80

(* Both ends of function 49, around what it does.                          *)
LEMMA Pushed80 ==
  ASSUME SInv
  PROVE  /\ Keeps80(Before, Told, asked, Open)
         /\ Before.obuf = <<>> /\ Before.running = z80.running
  <1>1. /\ z80 \in Bridge80 /\ Keeps80(z80oflush(z80), Shown(native), asked, straddled)
        /\ z80oflush(z80).obuf = <<>> /\ z80oflush(z80).running = z80.running
        /\ z80oflush(z80).copy = z80.copy
    BY Sent80 DEF SInv, Keeps80, Bridge80
  <1> DEFINE s == z80oflush(z80)
             b == Shown(native)
             c == Clamped(z80.copy)
  <1>2. c \in Nat /\ z80.copy \in Nat
    BY <1>1, ClampedNat DEF Bridge80
  <1>3. Keeps80([s EXCEPT !.mult = c], [b EXCEPT !.mult = c], asked, FALSE)
    BY <1>1, <1>2, CountMoved80
  <1> HIDE DEF s, b, c
  <1>4. CASE Pushes
    <2>1. Before = [s EXCEPT !.mult = c, !.snap = z80.copy] /\ Told = [b EXCEPT !.mult = c]
          /\ Open = FALSE
      BY <1>1, <1>4 DEF Before, Told, Open, scbpush, Posted, s, b, c
    <2>2. s \in Bridge80 /\ s.obuf = <<>> /\ s.running = z80.running
      BY <1>1 DEF s, Keeps80
    <2>3. QED BY <1>2, <1>3, <2>1, <2>2 DEF Keeps80, Bridge80
  <1>5. CASE ~ Pushes
    BY <1>1, <1>5 DEF Before, Told, Open, scbpush, Posted, Keeps80
  <1>6. QED BY <1>4, <1>5

LEMMA Pulled80 ==
  ASSUME NEW s, NEW b, NEW n, NEW odd, Keeps80(s, b, n, odd)
  PROVE  Keeps80(scbpull(s, b), b, n, odd)
  BY DEF Keeps80, scbpull, Bridge80, Native80

(* The run ends with nothing held back.                                    *)
LEMMA Stopped80 ==
  ASSUME NEW s, NEW b, NEW n, NEW odd, Keeps80(s, b, n, odd), s.obuf = <<>>
  PROVE  Keeps80([s EXCEPT !.running = FALSE], b, n, odd)
  BY DEF Keeps80, Bridge80

LEMMA SInit == z80bdosinit => SInv
  <1> SUFFICES ASSUME z80bdosinit PROVE SInv
    OBVIOUS
  <1>1. InTurn(<<>>, <<>>, 0) /\ <<>> \in Seq(Nat)
    BY InTurnStarts
  <1>2. QED BY <1>1 DEF z80bdosinit, SInv, Keeps80, Bridge80, Native80, PZ_DMA

LEMMA OutputOrdered ==
  ASSUME SInv, Output
  PROVE  SInv'
  <1>1. /\ z80 \in Bridge80 /\ native \in Native80 /\ z80.running /\ asked' = asked + 1
        /\ straddled' = straddled /\ InTurn(native.log, z80.obuf, asked)
    BY DEF SInv, Keeps80, Output, Asking
  <1>2. CASE Len(z80.obuf) >= Z80OBUF
    <2> DEFINE s == z80oflush(z80)
               b == Shown(native)
    <2>1. /\ Keeps80(s, b, asked, straddled) /\ s.obuf = <<>> /\ s.running = z80.running
      BY Sent80
    <2>2. z80' = [s EXCEPT !.obuf = Append(@, asked + 1)] /\ native' = b
      BY <1>2 DEF Output
    <2> HIDE DEF s, b
    <2>3. InTurn(b.log, Append(s.obuf, asked + 1), asked + 1)
      BY <2>1, InTurnHeld DEF Keeps80
    <2>4. Append(s.obuf, asked + 1) \in Seq(Nat)
      BY <2>3 DEF InTurn
    <2>5. QED BY <1>1, <2>1, <2>2, <2>3, <2>4 DEF SInv, Keeps80, Bridge80
  <1>3. CASE ~ (Len(z80.obuf) >= Z80OBUF)
    <2>2. z80' = [z80 EXCEPT !.obuf = Append(@, asked + 1)] /\ native' = native
      BY <1>3 DEF Output
    <2>3. InTurn(native.log, Append(z80.obuf, asked + 1), asked + 1)
      BY <1>1, InTurnHeld
    <2>4. Append(z80.obuf, asked + 1) \in Seq(Nat)
      BY <2>3 DEF InTurn
    <2>5. QED BY <1>1, <2>2, <2>3, <2>4 DEF SInv, Keeps80, Bridge80
  <1>4. QED BY <1>2, <1>3

LEMMA VisibleOrdered ==
  ASSUME SInv, Visible
  PROVE  SInv'
  <1>1. Keeps80(z80oflush(z80), Logged(Shown(native)), asked + 1, straddled)
    BY Sent80, Called80
  <1>2. QED BY <1>1 DEF SInv, Visible, Asking

LEMMA EndedOrdered ==
  ASSUME SInv, Ended
  PROVE  SInv'
  <1>1. Keeps80([z80oflush(z80) EXCEPT !.running = FALSE], Shown(native), asked, straddled)
    BY Sent80, Stopped80
  <1>2. QED BY <1>1 DEF SInv, Ended

LEMMA SetDmaAgrees ==
  ASSUME SInv, NEW de \in 0 .. TOPRECORD, SetDma(de)
  PROVE  SInv'
  <1>1. CASE z80addr(de, 1)
    <2> DEFINE s == z80oflush(z80)
               b == Shown(native)
    <2>1. Keeps80(s, b, asked, straddled) /\ de \in Nat
      BY Sent80, Z80SeamAssumption
    <2>2. Keeps80([s EXCEPT !.dma = de],
                  setdma([s EXCEPT !.dma = de], [b EXCEPT !.dma = b.dma]), asked, straddled)
      BY <2>1, DmaMoved80
    <2>3. z80' = [s EXCEPT !.dma = de] /\ native' = setdma(z80', b)
          /\ asked' = asked /\ straddled' = straddled
      BY <1>1 DEF SetDma
    <2>4. [b EXCEPT !.dma = b.dma] = b
      BY <2>1 DEF Keeps80, Native80
    <2>5. QED BY <2>2, <2>3, <2>4 DEF SInv
  <1>2. CASE ~ z80addr(de, 1)
    BY <1>2, EndedOrdered DEF SetDma
  <1>3. QED BY <1>1, <1>2

LEMMA ResetAgrees ==
  ASSUME SInv, ResetDisks
  PROVE  SInv'
  <1>1. Keeps80(z80oflush(z80), Logged(Shown(native)), asked + 1, straddled)
    BY Sent80, Called80
  <1>2. QED
    BY <1>1, DmaMoved80 DEF SInv, ResetDisks, Asking, PZ_DMA

LEMMA SetCountAgrees ==
  ASSUME SInv, NEW e \in Bytes80, SetCount(e)
  PROVE  SInv'
  <1> DEFINE s == z80oflush(z80)
             b == Shown(native)
  <1>1. Keeps80(s, b, asked, straddled) /\ e \in Nat /\ asked' = asked
    BY Sent80, Z80SeamAssumption DEF Bytes80, SetCount
  <1>2. CASE e \in 1 .. MAXMULT
    <2>1. Keeps80([s EXCEPT !.mult = e], [b EXCEPT !.mult = e], asked, FALSE)
      BY <1>1, CountMoved80
    <2>2. z80' = [s EXCEPT !.mult = e] /\ native' = [b EXCEPT !.mult = e] /\ straddled' = FALSE
      BY <1>2 DEF SetCount
    <2>3. QED BY <1>1, <2>1, <2>2 DEF SInv
  <1>3. CASE e \notin 1 .. MAXMULT
    <2>1. /\ z80' = [s EXCEPT !.mult = s.mult] /\ native' = [b EXCEPT !.mult = b.mult]
          /\ straddled' = straddled
      BY <1>3, <1>1 DEF SetCount, Keeps80
    <2>2. z80' = s /\ native' = b
      BY <1>1, <2>1 DEF Keeps80, Bridge80, Native80
    <2>3. QED BY <1>1, <2>1, <2>2 DEF SInv
  <1>4. QED BY <1>2, <1>3

LEMMA ScbAgrees ==
  ASSUME SInv,
         \/ ScbGet \/ ScbAddress \/ ScbRefused
         \/ \E v \in Bytes80 : ScbCount(v) \/ ScbStraddle(v)
  PROVE  SInv'
  <1> DEFINE s == Before
             b == Told
             odd == Open
  <1>1. Keeps80(s, b, asked, odd) /\ s.obuf = <<>>
    BY Pushed80
  <1>2. ASSUME NEW x, NEW y, NEW z, Keeps80(x, y, asked, z), Scb(x, y, z) PROVE SInv'
    BY <1>2, Pulled80 DEF Scb, SInv
  <1>3. CASE ScbGet
    BY <1>1, <1>2, <1>3 DEF ScbGet
  <1>4. CASE ScbAddress
    <2>1. Keeps80([s EXCEPT !.pub = TRUE], b, asked, odd)
      BY <1>1 DEF Keeps80, Bridge80
    <2>2. QED BY <1>2, <1>4, <2>1 DEF ScbAddress
  <1>5. CASE ScbRefused
    BY <1>1, <1>5, Stopped80 DEF ScbRefused, SInv
  <1>6. ASSUME NEW v \in Bytes80, ScbCount(v) \/ ScbStraddle(v) PROVE SInv'
    <2>1. Clamped(v) \in Nat
      BY ClampedNat, Z80SeamAssumption DEF Bytes80
    <2>2. /\ Keeps80([s EXCEPT !.mult = Clamped(v)], [b EXCEPT !.mult = Clamped(v)], asked, FALSE)
          /\ Keeps80(s, [b EXCEPT !.mult = Clamped(v)], asked, TRUE)
      BY <1>1, <2>1, CountMoved80
    <2>3. QED BY <1>2, <1>6, <2>2 DEF ScbCount, ScbStraddle
  <1>7. QED BY <1>3, <1>4, <1>5, <1>6

LEMMA TimeAgrees ==
  ASSUME SInv, Time
  PROVE  SInv'
  <1>1. Keeps80(z80oflush(z80), Logged(Shown(native)), asked + 1, straddled)
    BY Sent80, Called80
  <1>2. QED BY <1>1, Pulled80 DEF SInv, Time, Asking

LEMMA PokeAgrees ==
  ASSUME SInv, NEW v \in Bytes80, Poke(v)
  PROVE  SInv'
  BY Z80SeamAssumption DEF SInv, Poke, Keeps80, Bridge80, Bytes80

LEMMA SInductive == SInv /\ [SeamNext]_seamvars => SInv'
  <1> SUFFICES ASSUME SInv, [SeamNext]_seamvars PROVE SInv'
    OBVIOUS
  <1>1. CASE Output
    BY <1>1, OutputOrdered
  <1>2. CASE Visible
    BY <1>2, VisibleOrdered
  <1>3. CASE ResetDisks
    BY <1>3, ResetAgrees
  <1>4. CASE Transfer
    BY <1>4, VisibleOrdered, EndedOrdered DEF Transfer
  <1>5. CASE Time
    BY <1>5, TimeAgrees
  <1>6. CASE z80.running /\ Ended
    BY <1>6, EndedOrdered
  <1>7. ASSUME NEW de \in 0 .. TOPRECORD, SetDma(de) PROVE SInv'
    BY <1>7, SetDmaAgrees
  <1>8. ASSUME NEW v \in Bytes80, SetCount(v) \/ ScbCount(v) \/ ScbStraddle(v) \/ Poke(v)
        PROVE  SInv'
    BY <1>8, SetCountAgrees, ScbAgrees, PokeAgrees
  <1>9. CASE ScbGet \/ ScbAddress \/ ScbRefused
    BY <1>9, ScbAgrees
  <1>10. CASE UNCHANGED seamvars
    BY <1>10 DEF seamvars, SInv
  <1>11. QED
    BY <1>1, <1>2, <1>3, <1>4, <1>5, <1>6, <1>7, <1>8, <1>9, <1>10 DEF SeamNext
-----------------------------------------------------------------------------
(* The bridge of the CP/M-86 guest, in the same way.  The offset is always *)
(* one that setdma() takes, so that only the paragraph can be refused.     *)
Bridge86 == [obuf : Seq(Nat), off : 0 .. SEGRECORDS - 1, seg : Paragraphs, mult : Nat,
             held : {GuestsOwn} \cup {Beside(segment) : segment \in HostSegments}, running : BOOLEAN]
Native86 == [log : Seq(Nat), dma : [segment : {"vectors", "own", "shim"} \cup HostSegments, off : Nat],
             mult : Nat]
Agree86(s, b) == s.seg \in DOMAIN s.held => b.dma = At(s.held[s.seg], s.off)
Keeps86(s, b, n) ==
  /\ s \in Bridge86 /\ b \in Native86
  /\ InTurn(b.log, s.obuf, n)
  /\ s.running \/ s.obuf = <<>>
  /\ b.mult = s.mult
TInv == Keeps86(i86, bdos86, asked86) /\ Agree86(i86, bdos86)

LEMMA HeldIs ==
  ASSUME NEW s \in Bridge86
  PROVE  /\ s.seg \in Paragraphs
         /\ {0, 1} \subseteq DOMAIN s.held /\ s.held[0] = "vectors" /\ s.held[1] = "own"
         /\ DOMAIN s.held \subseteq Paragraphs
         /\ \A par \in DOMAIN s.held : s.held[par] \in {"vectors", "own"} \cup HostSegments
  <1>1. CASE s.held = GuestsOwn
    BY <1>1 DEF Bridge86, GuestsOwn, Paragraphs
  <1>2. CASE \E segment \in HostSegments : s.held = Beside(segment)
    <2>1. PICK segment \in HostSegments : s.held = Beside(segment)
      BY <1>2
    <2>2. QED BY <2>1 DEF Bridge86, Beside, GuestsOwn, Paragraphs
  <1>3. QED BY <1>1, <1>2 DEF Bridge86

LEMMA PlacedIsHeld ==
  ASSUME NEW s \in Bridge86
  PROVE  Placed(s) <=> s.seg \in DOMAIN s.held
  BY I86SeamAssumption DEF Placed, Bridge86

(* setdma() makes the address agree, whatever was there.                   *)
LEMMA PlacingAgrees ==
  ASSUME NEW s, NEW b, NEW n, Keeps86(s, b, n)
  PROVE  Keeps86(s, setdma86(s, b), n) /\ Agree86(s, setdma86(s, b))
  <1>1. s \in Bridge86 /\ b \in Native86
    BY DEF Keeps86
  <1>2. CASE Placed(s)
    <2>1. s.seg \in DOMAIN s.held /\ s.held[s.seg] \in {"vectors", "own"} \cup HostSegments
          /\ s.off \in Nat
      <3>1. s.seg \in DOMAIN s.held /\ s.held[s.seg] \in {"vectors", "own"} \cup HostSegments
        BY <1>1, <1>2, PlacedIsHeld, HeldIs
      <3>2. s.off \in Nat
        BY <1>1, I86SeamAssumption DEF Bridge86
      <3>3. QED BY <3>1, <3>2
    <2>2. At(s.held[s.seg], s.off) \in [segment : {"vectors", "own", "shim"} \cup HostSegments, off : Nat]
      BY <2>1 DEF At
    <2>3. QED BY <1>1, <1>2, <2>2 DEF Keeps86, Agree86, setdma86, Native86
  <1>3. CASE ~ Placed(s)
    BY <1>1, <1>3, PlacedIsHeld DEF Keeps86, Agree86, setdma86
  <1>4. QED BY <1>2, <1>3

LEMMA Sent86 ==
  ASSUME TInv
  PROVE  /\ Keeps86(i86oflush(i86), Shown86(bdos86), asked86)
         /\ Agree86(i86oflush(i86), Shown86(bdos86))
         /\ i86oflush(i86).obuf = <<>>
         /\ i86oflush(i86).running = i86.running
  <1>1. i86 \in Bridge86 /\ bdos86 \in Native86 /\ InTurn(bdos86.log, i86.obuf, asked86)
    BY DEF TInv, Keeps86
  <1>2. InTurn(bdos86.log \o i86.obuf, <<>>, asked86)
    BY <1>1, InTurnSent
  <1>3. PICK log \in Seq(Nat) : log = bdos86.log \o i86.obuf
    BY <1>2 DEF InTurn
  <1>4. Shown86(bdos86) = [bdos86 EXCEPT !.log = log]
    BY <1>3 DEF Shown86
  <1>5. /\ Shown86(bdos86) \in Native86 /\ Shown86(bdos86).log = log
        /\ Shown86(bdos86).dma = bdos86.dma /\ Shown86(bdos86).mult = bdos86.mult
    BY <1>1, <1>4 DEF Native86
  <1>6. /\ i86oflush(i86) \in Bridge86 /\ i86oflush(i86).obuf = <<>>
        /\ i86oflush(i86).running = i86.running /\ i86oflush(i86).mult = i86.mult
        /\ i86oflush(i86).off = i86.off /\ i86oflush(i86).seg = i86.seg
        /\ i86oflush(i86).held = i86.held
    <2>1. <<>> \in Seq(Nat)
      OBVIOUS
    <2>2. QED BY <1>1, <2>1 DEF i86oflush, Bridge86
  <1>7. QED BY <1>2, <1>3, <1>5, <1>6 DEF TInv, Keeps86, Agree86

LEMMA Called86 ==
  ASSUME NEW s, NEW b, Keeps86(s, b, asked86), s.obuf = <<>>
  PROVE  Keeps86(s, Logged86(b), asked86 + 1) /\ (Agree86(s, b) => Agree86(s, Logged86(b)))
  <1>1. InTurn(Append(b.log, asked86 + 1), <<>>, asked86 + 1)
    BY InTurnCalled DEF Keeps86
  <1>2. Append(b.log, asked86 + 1) \in Seq(Nat)
    BY <1>1 DEF InTurn
  <1>3. QED BY <1>1, <1>2 DEF Keeps86, Logged86, Native86, Agree86

LEMMA Stopped86 ==
  ASSUME NEW s, NEW b, NEW n, NEW go \in BOOLEAN, Keeps86(s, b, n), Agree86(s, b), s.obuf = <<>>
  PROVE  /\ Keeps86([s EXCEPT !.running = go], b, n)
         /\ Agree86([s EXCEPT !.running = go], b)
  BY DEF Keeps86, Agree86, Bridge86

LEMMA TInit == i86bdosinit => TInv
  <1> SUFFICES ASSUME i86bdosinit PROVE TInv
    OBVIOUS
  <1>1. InTurn(<<>>, <<>>, 0) /\ <<>> \in Seq(Nat)
    BY InTurnStarts
  <1>2. GuestsOwn[1] = "own" /\ 1 \in Paragraphs /\ 1 \in 0 .. SEGRECORDS - 1
    BY I86SeamAssumption DEF GuestsOwn, Paragraphs
  <1>4. i86 \in Bridge86
    BY <1>1, <1>2 DEF i86bdosinit, Bridge86
  <1>5. bdos86 \in Native86
    BY <1>1 DEF i86bdosinit, Native86, At
  <1>6. Agree86(i86, bdos86)
    BY <1>2 DEF i86bdosinit, Agree86
  <1>7. QED BY <1>1, <1>4, <1>5, <1>6 DEF i86bdosinit, TInv, Keeps86

LEMMA OutputOrdered86 ==
  ASSUME TInv, Output86
  PROVE  TInv'
  <1>1. /\ i86 \in Bridge86 /\ bdos86 \in Native86 /\ i86.running /\ asked86' = asked86 + 1
        /\ InTurn(bdos86.log, i86.obuf, asked86)
    BY DEF TInv, Keeps86, Output86, Asking86
  <1>2. ASSUME NEW s, NEW b, Keeps86(s, b, asked86), Agree86(s, b), s.running,
               i86' = [s EXCEPT !.obuf = Append(@, asked86 + 1)], bdos86' = b
        PROVE  TInv'
    <2>1. InTurn(b.log, Append(s.obuf, asked86 + 1), asked86 + 1)
      BY <1>2, InTurnHeld DEF Keeps86
    <2>2. Append(s.obuf, asked86 + 1) \in Seq(Nat)
      BY <2>1 DEF InTurn
    <2>3. QED BY <1>1, <1>2, <2>1, <2>2 DEF TInv, Keeps86, Agree86, Bridge86
  <1>3. CASE Len(i86.obuf) >= I86OBUF
    <2> DEFINE s == i86oflush(i86)
               b == Shown86(bdos86)
    <2>1. Keeps86(s, b, asked86) /\ Agree86(s, b) /\ s.running
      BY <1>1, Sent86
    <2>2. i86' = [s EXCEPT !.obuf = Append(@, asked86 + 1)] /\ bdos86' = b
      BY <1>3 DEF Output86
    <2> HIDE DEF s, b
    <2>3. QED BY <1>2, <2>1, <2>2
  <1>4. CASE ~ (Len(i86.obuf) >= I86OBUF)
    <2>1. i86' = [i86 EXCEPT !.obuf = Append(@, asked86 + 1)] /\ bdos86' = bdos86
      BY <1>4 DEF Output86
    <2>2. QED BY <1>1, <1>2, <2>1 DEF TInv
  <1>5. QED BY <1>3, <1>4

LEMMA VisibleOrdered86 ==
  ASSUME TInv, Visible86
  PROVE  TInv'
  BY Sent86, Called86 DEF TInv, Visible86, Asking86

LEMMA EndedOrdered86 ==
  ASSUME TInv, Ended86
  PROVE  TInv'
  <1>1. /\ Keeps86([i86oflush(i86) EXCEPT !.running = FALSE], Shown86(bdos86), asked86)
        /\ Agree86([i86oflush(i86) EXCEPT !.running = FALSE], Shown86(bdos86))
    BY Sent86, Stopped86
  <1>2. QED BY <1>1 DEF TInv, Ended86

(* Functions 26 and 51 from a bridge that differs from the present one in  *)
(* the offset or the paragraph.                                            *)
LEMMA MovedAgrees ==
  ASSUME TInv, NEW off \in Nat, NEW par \in Paragraphs,
         NEW s, s = [[i86 EXCEPT !.off = off] EXCEPT !.seg = par], Moved(s)
  PROVE  TInv'
  <1>1. CASE Placed(s)
    <2>1. i86 \in Bridge86 /\ off \in 0 .. SEGRECORDS - 1
      BY <1>1, I86SeamAssumption DEF TInv, Keeps86, Bridge86, Placed
    <2>2. i86oflush(s) = [[i86oflush(i86) EXCEPT !.off = off] EXCEPT !.seg = par]
      BY <2>1 DEF i86oflush, Bridge86
    <2>3. Keeps86(i86oflush(i86), Shown86(bdos86), asked86)
      BY Sent86
    <2>4. Keeps86(i86oflush(s), Shown86(bdos86), asked86)
      BY <2>1, <2>2, <2>3 DEF Keeps86, Bridge86
    <2>5. setdma86(s, Shown86(bdos86)) = setdma86(i86oflush(s), Shown86(bdos86))
      BY <2>1 DEF setdma86, Placed, i86oflush, Bridge86
    <2>6. i86' = i86oflush(s) /\ bdos86' = setdma86(s, Shown86(bdos86)) /\ asked86' = asked86
      BY <1>1 DEF Moved
    <2>7. QED BY <2>4, <2>5, <2>6, PlacingAgrees DEF TInv
  <1>2. CASE ~ Placed(s)
    BY <1>2, EndedOrdered86 DEF Moved
  <1>3. QED BY <1>1, <1>2

LEMMA ResetAgrees86 ==
  ASSUME TInv, ResetDisks86
  PROVE  TInv'
  <1> DEFINE s == [i86oflush(i86) EXCEPT !.off = 1]
             b == [Logged86(Shown86(bdos86)) EXCEPT !.dma = RecordBuffer]
  <1>1. Keeps86(i86oflush(i86), Logged86(Shown86(bdos86)), asked86 + 1)
    BY Sent86, Called86
  <1>2. Keeps86(s, b, asked86 + 1) /\ s.obuf = <<>>
    <2>1. RecordBuffer \in [segment : {"vectors", "own", "shim"} \cup HostSegments, off : Nat]
      BY DEF RecordBuffer, At
    <2>2. 1 \in 0 .. SEGRECORDS - 1
      BY I86SeamAssumption
    <2>3. QED BY <1>1, <2>1, <2>2, Sent86 DEF Keeps86, Bridge86, Native86
  <1>3. i86' = [s EXCEPT !.running = Placed(s)] /\ bdos86' = setdma86(s, b)
        /\ asked86' = asked86 + 1
    BY DEF ResetDisks86, Asking86
  <1>4. Placed(s) \in BOOLEAN
    BY DEF Placed
  <1> HIDE DEF s, b
  <1>5. Keeps86(s, setdma86(s, b), asked86 + 1) /\ Agree86(s, setdma86(s, b))
    BY <1>2, PlacingAgrees
  <1>6. QED BY <1>2, <1>3, <1>4, <1>5, Stopped86 DEF TInv

LEMMA SetCountAgrees86 ==
  ASSUME TInv, NEW e \in Nat, SetCount86(e)
  PROVE  TInv'
  <1> DEFINE s == i86oflush(i86)
             b == Shown86(bdos86)
  <1>1. Keeps86(s, b, asked86) /\ Agree86(s, b) /\ asked86' = asked86
    BY Sent86 DEF SetCount86
  <1>2. \E v \in Nat : i86' = [s EXCEPT !.mult = v] /\ bdos86' = [b EXCEPT !.mult = v]
    <2>1. s \in Bridge86 /\ b \in Native86 /\ s.mult \in Nat /\ b.mult = s.mult
      BY <1>1 DEF Keeps86, Bridge86
    <2>2. CASE e \in 1 .. MAXCOUNT
      BY <2>2 DEF SetCount86
    <2>3. CASE e \notin 1 .. MAXCOUNT
      <3>1. i86' = [s EXCEPT !.mult = s.mult] /\ bdos86' = [b EXCEPT !.mult = b.mult]
        BY <2>3 DEF SetCount86
      <3>2. QED BY <2>1, <3>1
    <2>4. QED BY <2>2, <2>3
  <1> HIDE DEF s, b
  <1>3. QED BY <1>1, <1>2 DEF TInv, Keeps86, Agree86, Bridge86, Native86

(* What the guest holds changes in these: a load that succeeds, and a free.*)
LEMMA HeldChanged ==
  ASSUME NEW s, NEW b, NEW n, Keeps86(s, b, n), Agree86(s, b), NEW segment \in HostSegments
  PROVE  /\ Keeps86(plfree(s), b, n) /\ Agree86(plfree(s), b)
         /\ Keeps86([s EXCEPT !.held = Beside(segment)], b, n)
         /\ plfree(s).obuf = s.obuf /\ plfree(s).running = s.running
  <1>1. s \in Bridge86
    BY DEF Keeps86
  <1>2. plfree(s) \in Bridge86 /\ [s EXCEPT !.held = Beside(segment)] \in Bridge86
    BY <1>1 DEF plfree, Bridge86
  <1>3. Keeps86(plfree(s), b, n) /\ Keeps86([s EXCEPT !.held = Beside(segment)], b, n)
    BY <1>1, <1>2 DEF Keeps86, plfree, Bridge86
  <1>4. plfree(s).held = GuestsOwn /\ plfree(s).seg = s.seg /\ plfree(s).off = s.off
        /\ plfree(s).obuf = s.obuf /\ plfree(s).running = s.running
    BY <1>1 DEF plfree, Bridge86
  <1>5. \A par \in DOMAIN GuestsOwn : par \in DOMAIN s.held /\ s.held[par] = GuestsOwn[par]
    BY <1>1, HeldIs DEF GuestsOwn
  <1>6. QED BY <1>3, <1>4, <1>5 DEF Agree86

LEMMA FreeAgrees ==
  ASSUME TInv, Free86 \/ NoFile
  PROVE  TInv'
  <1> DEFINE s == i86oflush(i86)
             b == Shown86(bdos86)
  <1>1. Keeps86(s, b, asked86) /\ Agree86(s, b) /\ s.obuf = <<>>
    BY Sent86
  <1>2. Keeps86(s, Logged86(b), asked86 + 1) /\ Agree86(s, Logged86(b))
    BY <1>1, Called86
  <1> HIDE DEF s, b
  <1>3. /\ Keeps86(plfree(s), b, asked86) /\ Agree86(plfree(s), b)
        /\ Keeps86(plfree(s), Logged86(b), asked86 + 1) /\ Agree86(plfree(s), Logged86(b))
    BY <1>1, <1>2, HeldChanged DEF HostSegments
  <1>4. QED BY <1>3 DEF Free86, NoFile, Asking86, TInv, s, b

(* What pload() does to the record of the BDOS while it reads the file is  *)
(* taken back, except where the paragraph is gone.                         *)
LEMMA LoadingAgrees ==
  ASSUME TInv, NEW s, Keeps86(s, Logged86(Shown86(bdos86)), asked86 + 1), pload(s)
  PROVE  TInv'
  <1> DEFINE b == Logged86(Shown86(bdos86))
             reading == [b EXCEPT !.mult = 1, !.dma = RecordBuffer]
             after == [reading EXCEPT !.mult = s.mult]
  <1>1. i86' = s /\ bdos86' = setdma86(s, after) /\ asked86' = asked86 + 1
    BY DEF pload, Asking86
  <1>2. RecordBuffer \in [segment : {"vectors", "own", "shim"} \cup HostSegments, off : Nat]
    BY DEF RecordBuffer, At
  <1> HIDE DEF b
  <1>3. Keeps86(s, b, asked86 + 1)
    BY DEF b
  <1>4. Keeps86(s, after, asked86 + 1)
    BY <1>2, <1>3 DEF Keeps86, Bridge86, Native86
  <1> HIDE DEF after
  <1>5. QED BY <1>1, <1>4, PlacingAgrees DEF TInv

LEMMA LoadAgrees ==
  ASSUME TInv, LoadFails \/ \E segment \in HostSegments : Loaded(segment)
  PROVE  TInv'
  <1> DEFINE s == i86oflush(i86)
             b == Logged86(Shown86(bdos86))
  <1>1. Keeps86(s, b, asked86 + 1) /\ Agree86(s, b)
    BY Sent86, Called86
  <1> HIDE DEF s
  <1>2. \A segment \in HostSegments :
          /\ Keeps86(plfree(s), b, asked86 + 1)
          /\ Keeps86([s EXCEPT !.held = Beside(segment)], b, asked86 + 1)
    BY <1>1, HeldChanged
  <1>3. CASE LoadFails
    BY <1>2, <1>3, LoadingAgrees DEF LoadFails, HostSegments, s
  <1>4. ASSUME NEW segment \in HostSegments, Loaded(segment) PROVE TInv'
    BY <1>2, <1>4, LoadingAgrees DEF Loaded, s
  <1>5. QED BY <1>3, <1>4

LEMMA TInductive == TInv /\ [Seam86Next]_seam86vars => TInv'
  <1> SUFFICES ASSUME TInv, [Seam86Next]_seam86vars PROVE TInv'
    OBVIOUS
  <1>1. i86 \in Bridge86 /\ i86.off \in Nat /\ i86.seg \in Paragraphs
    BY I86SeamAssumption DEF TInv, Keeps86, Bridge86
  <1>2. CASE Output86
    BY <1>2, OutputOrdered86
  <1>3. CASE Visible86
    BY <1>3, VisibleOrdered86
  <1>4. CASE ResetDisks86
    BY <1>4, ResetAgrees86
  <1>5. CASE Transfer86
    BY <1>5, VisibleOrdered86, EndedOrdered86 DEF Transfer86
  <1>6. CASE i86.running /\ Ended86
    BY <1>6, EndedOrdered86
  <1>7. ASSUME NEW off \in 0 .. SEGRECORDS, Moved([i86 EXCEPT !.off = off]) PROVE TInv'
    <2>1. [i86 EXCEPT !.off = off] = [[i86 EXCEPT !.off = off] EXCEPT !.seg = i86.seg]
      BY <1>1 DEF Bridge86
    <2>2. off \in Nat
      BY I86SeamAssumption
    <2>3. QED BY <1>1, <1>7, <2>1, <2>2, MovedAgrees
  <1>8. ASSUME NEW par \in Paragraphs, Moved([i86 EXCEPT !.seg = par]) PROVE TInv'
    <2>1. [i86 EXCEPT !.seg = par] = [[i86 EXCEPT !.off = i86.off] EXCEPT !.seg = par]
      BY <1>1 DEF Bridge86
    <2>2. QED BY <1>1, <1>8, <2>1, MovedAgrees
  <1>9. ASSUME NEW e \in 0 .. MAXCOUNT + 1, SetCount86(e) PROVE TInv'
    BY <1>9, SetCountAgrees86, I86SeamAssumption
  <1>10. CASE Free86 \/ NoFile
    BY <1>10, FreeAgrees
  <1>11. CASE LoadFails \/ \E segment \in HostSegments : Loaded(segment)
    BY <1>11, LoadAgrees
  <1>12. CASE UNCHANGED seam86vars
    BY <1>12 DEF seam86vars, TInv
  <1>13. QED
    BY <1>2, <1>3, <1>4, <1>5, <1>6, <1>7, <1>8, <1>9, <1>10, <1>11, <1>12 DEF Seam86Next
-----------------------------------------------------------------------------
LEMMA BridgesInductive == SInv /\ TInv /\ [BridgesNext]_<<seamvars, seam86vars>> => SInv' /\ TInv'
  <1>1. SInv /\ UNCHANGED seamvars => SInv'
    BY DEF seamvars, SInv
  <1>2. TInv /\ UNCHANGED seam86vars => TInv'
    BY DEF seam86vars, TInv
  <1>3. QED BY <1>1, <1>2, SInductive, TInductive DEF BridgesNext

(* However many characters a batch takes and whatever either guest calls,  *)
(* the BDOS carries the calls out in the order in which they were made.    *)
THEOREM CallsKeepOrder == BridgesSpec => []CallsComeInOrder
  <1>1. BridgesInit => SInv /\ TInv
    BY SInit, TInit DEF BridgesInit
  <1>2. SInv /\ TInv => CallsComeInOrder
    BY DEF SInv, TInv, Keeps80, Keeps86, InTurn, Count, CallsComeInOrder, CallsInOrder,
           CallsInOrder86
  <1>3. QED BY <1>1, <1>2, BridgesInductive, PTL DEF BridgesSpec

(* Whatever is refused, reset, loaded or stored into the image of the      *)
(* control block, a bridge has the BDOS's own address and count, for guest *)
(* memories and counts of any size.                                        *)
THEOREM BridgesHoldTheBdos == BridgesSpec => []BridgesAgree
  <1>1. BridgesInit => SInv /\ TInv
    BY SInit, TInit DEF BridgesInit
  <1>2. SInv /\ TInv => BridgesAgree
    BY DEF SInv, TInv, Keeps80, Keeps86, Agree86, BridgesAgree, CopiesAgree, CopiesAgree86
  <1>3. QED BY <1>1, <1>2, BridgesInductive, PTL DEF BridgesSpec

-----------------------------------------------------------------------------
(* A non-empty set of naturals has a least element.                        *)
LEMMA NatLeast ==
  ASSUME NEW T, T \subseteq Nat, T # {}
  PROVE  \E x \in T : \A y \in T : x <= y
  <1> DEFINE R == OpToRel(<, Nat)
  <1>1. IsWellFoundedOn(R, Nat)
    BY NatLessThanWellFounded
  <1> HIDE DEF R
  <1>2. \E x \in T : \A y \in T : ~ (<<y, x>> \in R)
    BY <1>1, WFMin
  <1>3. R = {ss \in Nat \X Nat : ss[1] < ss[2]}
    BY Zenon DEF R, OpToRel
  <1>4. \A x, y \in Nat : y < x => <<y, x>> \in R
    BY <1>3
  <1>5. PICK x \in T : \A y \in T : ~ (<<y, x>> \in R)
    BY <1>2
  <1>6. ASSUME NEW y \in T PROVE x <= y
    <2>1. x \in Nat /\ y \in Nat
      OBVIOUS
    <2>2. ~ (y < x)
      BY <1>4, <1>5, <2>1
    <2>3. QED
      BY <2>1, <2>2
  <1>7. QED
    BY <1>6

(* Induction from nothing up to a bound, for a set of numbers.             *)
LEMMA UpTo ==
  ASSUME NEW N \in Nat, NEW T, 0 \in T, \A k \in 0 .. N - 1 : k \in T => k + 1 \in T
  PROVE  0 .. N \subseteq T
  <1> SUFFICES ASSUME NEW k \in 0 .. N, k \notin T PROVE FALSE
    OBVIOUS
  <1> DEFINE Rest == (0 .. N) \ T
  <1>1. Rest \subseteq Nat /\ Rest # {}
    OBVIOUS
  <1>2. PICK x \in Rest : \A y \in Rest : x <= y
    BY <1>1, NatLeast
  <1>3. x \in 0 .. N /\ x # 0
    BY <1>2
  <1>4. PICK w \in Nat : w = x - 1
    BY <1>3
  <1>5. w \in 0 .. N - 1 /\ ~ (x <= w) /\ w + 1 = x
    BY <1>3, <1>4
  <1>6. w \in 0 .. N /\ w \notin Rest
    BY <1>2, <1>5
  <1>7. QED BY <1>2, <1>5, <1>6

-----------------------------------------------------------------------------
(* Numbers and their bits.                                                 *)
(* Powers of two.                                                          *)
LEMMA Step2 ==
  ASSUME NEW i \in 0 .. 2 * BITS - 1
  PROVE  2^(i + 1) = 2 * 2^i
  BY PowersAssumption

LEMMA Powers == \A i \in 0 .. 2 * BITS : 2^i \in Nat \ {0}
  <1> DEFINE T == {i \in 0 .. 2 * BITS : 2^i \in Nat \ {0}}
  <1>1. 2 * BITS \in Nat
    BY WordsAssumption
  <1>2. 0 \in T
    BY <1>1, PowersAssumption
  <1>3. ASSUME NEW k \in 0 .. 2 * BITS - 1, k \in T PROVE k + 1 \in T
    <2>1. PICK x \in Nat \ {0} : x = 2^k
      BY <1>3
    <2>2. 2^(k + 1) = 2 * x
      BY <2>1, Step2
    <2>3. 2 * x \in Nat \ {0} /\ k + 1 \in 0 .. 2 * BITS
      BY <1>1, <2>1
    <2>4. QED BY <2>2, <2>3
  <1> HIDE DEF T
  <1>4. 0 .. 2 * BITS \subseteq T
    BY <1>1, <1>2, <1>3, UpTo
  <1>5. QED BY <1>4 DEF T

LEMMA Product ==
  ASSUME NEW i \in Nat, NEW j \in Nat, i + j <= 2 * BITS
  PROVE  2^(i + j) = 2^i * 2^j
  <1> DEFINE T == {k \in 0 .. j : 2^(i + k) = 2^i * 2^k}
  <1>1. BITS \in Nat /\ i \in 0 .. 2 * BITS
    BY WordsAssumption
  <1>2. 2^i \in Nat \ {0}
    BY <1>1, Powers
  <1>3. 0 \in T
    <2>1. 2^(i + 0) = 2^i /\ 2^0 = 1
      BY PowersAssumption
    <2>2. PICK x \in Nat : x = 2^i
      BY <1>2
    <2>3. QED BY <2>1, <2>2
  <1>4. ASSUME NEW k \in 0 .. j - 1, k \in T PROVE k + 1 \in T
    <2>1. k \in 0 .. 2 * BITS - 1 /\ i + k \in 0 .. 2 * BITS - 1 /\ k + 1 \in 0 .. j
      BY <1>1
    <2>2. 2^(k + 1) = 2 * 2^k /\ 2^((i + k) + 1) = 2 * 2^(i + k)
      BY <2>1, Step2
    <2>3. 2^k \in Nat
      BY <1>1, <2>1, Powers
    <2>4. PICK x \in Nat, y \in Nat : x = 2^i /\ y = 2^k
      BY <1>2, <2>3
    <2>5. 2^(i + k) = x * y
      BY <1>4, <2>4
    <2>6. 2 * (x * y) = x * (2 * y)
      BY <2>4
    <2>7. (i + k) + 1 = i + (k + 1)
      BY <2>1
    <2>8. 2^(i + (k + 1)) = x * 2^(k + 1)
      BY <2>2, <2>4, <2>5, <2>6, <2>7
    <2>9. QED BY <2>1, <2>4, <2>8
  <1> HIDE DEF T
  <1>5. j \in 0 .. j /\ 0 .. j \subseteq T
    BY <1>3, <1>4, UpTo
  <1>6. QED BY <1>5 DEF T

(* Division, by the number and by its parts.                               *)
LEMMA Division ==
  ASSUME NEW B \in Nat \ {0}, NEW x \in Int
  PROVE  \E q \in Int, d \in 0 .. B - 1 : x = q * B + d /\ q = x \div B /\ d = x % B
  OBVIOUS

LEMMA Parts ==
  ASSUME NEW B \in Nat \ {0}, NEW q \in Int, NEW d \in 0 .. B - 1, NEW x, x = q * B + d
  PROVE  x % B = d /\ x \div B = q
  OBVIOUS

LEMMA Remainder ==
  ASSUME NEW B \in Nat \ {0}, NEW x \in Int, NEW y \in Int, NEW k \in Int, x = y + k * B
  PROVE  x % B = y % B /\ x \div B = (y \div B) + k
  <1>1. PICK q \in Int, d \in 0 .. B - 1 : y = q * B + d /\ q = y \div B /\ d = y % B
    BY Division
  <1>2. x = (q + k) * B + d
    BY <1>1
  <1>3. q + k \in Int
    BY <1>1
  <1>4. x % B = d /\ x \div B = q + k
    BY <1>2, <1>3, Parts
  <1>5. QED BY <1>1, <1>4

(* The power of the byte, of the digit and of the word.                    *)
LEMMA Sizes == \E P \in Nat : /\ P = 2^BITS /\ P > 1 /\ 2^(2 * BITS) = P * P /\ P * P \in Nat
                              /\ P * P >= P
  <1>1. BITS \in Nat /\ BITS - 1 \in Nat /\ BITS - 1 \in 0 .. 2 * BITS - 1 /\ (BITS - 1) + 1 = BITS
    BY WordsAssumption
  <1>2. PICK h \in Nat \ {0} : h = 2^(BITS - 1)
    BY <1>1, Powers
  <1>3. 2^BITS = 2 * h
    BY <1>1, <1>2, Step2
  <1>4. BITS + BITS = 2 * BITS
    BY <1>1
  <1>5. 2^(BITS + BITS) = 2^BITS * 2^BITS
    BY <1>1, <1>4, Product
  <1>6. PICK P \in Nat : P = 2 * h
    BY <1>2
  <1>7. P > 1
    BY <1>2, <1>6
  <1>8. P * P \in Nat /\ P * P >= P
    BY <1>7
  <1>9. QED BY <1>3, <1>4, <1>5, <1>6, <1>7, <1>8

(* The carry out of a digit, whatever lies above: H is the digit's size and *)
(* the word is k pairs of digits.                                          *)
LEMMA OddSum ==
  ASSUME NEW x \in Int, NEW y \in Int, NEW e \in {0, 1}, NEW t \in Int,
         NEW q, q = x + y + e - 2 * t
  PROVE  ((x % 2 = 1) # ((y % 2 = 1) # (q % 2 = 1))) <=> e = 1
  OBVIOUS
LEMMA OddDifference ==
  ASSUME NEW x \in Int, NEW y \in Int, NEW e \in {0, 1}, NEW t \in Int,
         NEW q, q = x - y - e + 2 * t
  PROVE  ((x % 2 = 1) # ((y % 2 = 1) # (q % 2 = 1))) <=> e = 1
  OBVIOUS

(* Whether something crosses a bit of weight H when r is made of a and b.   *)
Crosses(H, a, b, r) == ((a \div H) % 2 = 1) # (((b \div H) % 2 = 1) # ((r \div H) % 2 = 1))
LEMMA DistributeSum ==
  ASSUME NEW x \in Int, NEW y \in Int, NEW e \in Int, NEW t \in Int, NEW H \in Int,
         NEW q, q = x + y + e - 2 * t
  PROVE  q * H = x * H + y * H + e * H - 2 * t * H
  OBVIOUS
LEMMA DistributeDifference ==
  ASSUME NEW x \in Int, NEW y \in Int, NEW e \in Int, NEW t \in Int, NEW H \in Int,
         NEW q, q = x - y - e + 2 * t
  PROVE  q * H = x * H - y * H - e * H + 2 * t * H
  OBVIOUS

(* What crosses from digit to digit in a sum, and in a difference.         *)
LEMMA CrossingSum ==
  ASSUME NEW H \in Nat \ {0}, NEW a \in Int, NEW b \in Int, NEW c \in {0, 1},
         NEW r \in Int, NEW t \in Int, r = a + b + c - 2 * t * H
  PROVE  Crosses(H, a, b, r)
           <=> (a % H) + (b % H) + c >= H
  <1>1. PICK qa \in Int, da \in 0 .. H - 1 : a = qa * H + da /\ qa = a \div H /\ da = a % H
    BY Division
  <1>2. PICK qb \in Int, db \in 0 .. H - 1 : b = qb * H + db /\ qb = b \div H /\ db = b % H
    BY Division
  <1>3. PICK e \in {0, 1} : (e = 1 <=> da + db + c >= H) /\ da + db + c - e * H \in 0 .. H - 1
    <2>1. CASE da + db + c >= H
      <3>1. da + db + c - 1 * H \in 0 .. H - 1
        BY <1>1, <1>2, <2>1
      <3>2. QED BY <2>1, <3>1
    <2>2. CASE ~ (da + db + c >= H)
      <3>1. da + db + c - 0 * H \in 0 .. H - 1
        BY <1>1, <1>2, <2>2
      <3>2. QED BY <2>2, <3>1
    <2>3. QED BY <2>1, <2>2
  <1>4. PICK d \in 0 .. H - 1 : d = da + db + c - e * H
    BY <1>3
  <1>5. PICK q \in Int : q = qa + qb + e - 2 * t
    BY <1>1, <1>2, <1>3
  <1>6. q * H = qa * H + qb * H + e * H - 2 * t * H
    <2>1. H \in Int /\ e \in Int
      BY <1>3
    <2>2. QED BY <1>5, <2>1, DistributeSum
  <1>7. a = qa * H + da /\ b = qb * H + db
    BY <1>1, <1>2
  <1>8. r = q * H + d
    <2>1. PICK x \in Int, y \in Int, z \in Int, w \in Int, v \in Int :
             x = qa * H /\ y = qb * H /\ z = e * H /\ w = 2 * t * H /\ v = q * H
      BY <1>1, <1>2, <1>3, <1>5
    <2>2. v = x + y + z - w /\ a = x + da /\ b = y + db /\ d = da + db + c - z
      BY <1>4, <1>6, <1>7, <2>1
    <2>3. r = a + b + c - w
      BY <2>1
    <2>4. r = v + d
      BY <2>1, <2>2, <2>3
    <2>5. QED BY <2>1, <2>4
  <1>9. r \div H = q
    BY <1>8, Parts, Zenon
  <1>10. ((qa % 2 = 1) # ((qb % 2 = 1) # (q % 2 = 1))) <=> e = 1
    BY <1>5, OddSum
  <1>11. da = a % H /\ db = b % H
    BY <1>1, <1>2
  <1>12. e = 1 <=> (a % H) + (b % H) + c >= H
    <2>1. \A x, y : x = da /\ y = db => (e = 1 <=> x + y + c >= H)
      BY <1>3
    <2>2. QED BY <1>11, <2>1, Zenon
  <1>13. qa = a \div H /\ qb = b \div H
    BY <1>1, <1>2
  <1>14. QED BY <1>9, <1>10, <1>12, <1>13, Zenon DEF Crosses

LEMMA CrossingDifference ==
  ASSUME NEW H \in Nat \ {0}, NEW a \in Int, NEW b \in Int, NEW c \in {0, 1},
         NEW r \in Int, NEW t \in Int, r = a - b - c + 2 * t * H
  PROVE  Crosses(H, a, b, r)
           <=> a % H < (b % H) + c
  <1>1. PICK qa \in Int, da \in 0 .. H - 1 : a = qa * H + da /\ qa = a \div H /\ da = a % H
    BY Division
  <1>2. PICK qb \in Int, db \in 0 .. H - 1 : b = qb * H + db /\ qb = b \div H /\ db = b % H
    BY Division
  <1>3. PICK e \in {0, 1} : (e = 1 <=> da < db + c) /\ da - db - c + e * H \in 0 .. H - 1
    <2>1. CASE da < db + c
      <3>1. da - db - c + 1 * H \in 0 .. H - 1
        BY <1>1, <1>2, <2>1
      <3>2. QED BY <2>1, <3>1
    <2>2. CASE ~ (da < db + c)
      <3>1. da - db - c + 0 * H \in 0 .. H - 1
        BY <1>1, <1>2, <2>2
      <3>2. QED BY <2>2, <3>1
    <2>3. QED BY <2>1, <2>2
  <1>4. PICK d \in 0 .. H - 1 : d = da - db - c + e * H
    BY <1>3
  <1>5. PICK q \in Int : q = qa - qb - e + 2 * t
    BY <1>1, <1>2, <1>3
  <1>6. q * H = qa * H - qb * H - e * H + 2 * t * H
    <2>1. H \in Int /\ e \in Int
      BY <1>3
    <2>2. QED BY <1>5, <2>1, DistributeDifference
  <1>7. a = qa * H + da /\ b = qb * H + db
    BY <1>1, <1>2
  <1>8. r = q * H + d
    <2>1. PICK x \in Int, y \in Int, z \in Int, w \in Int, v \in Int :
             x = qa * H /\ y = qb * H /\ z = e * H /\ w = 2 * t * H /\ v = q * H
      BY <1>1, <1>2, <1>3, <1>5
    <2>2. v = x - y - z + w /\ a = x + da /\ b = y + db /\ d = da - db - c + z
      BY <1>4, <1>6, <1>7, <2>1
    <2>3. r = a - b - c + w
      BY <2>1
    <2>4. r = v + d
      BY <2>1, <2>2, <2>3
    <2>5. QED BY <2>1, <2>4
  <1>9. r \div H = q
    BY <1>8, Parts, Zenon
  <1>10. ((qa % 2 = 1) # ((qb % 2 = 1) # (q % 2 = 1))) <=> e = 1
    BY <1>5, OddDifference
  <1>11. da = a % H /\ db = b % H
    BY <1>1, <1>2
  <1>12. e = 1 <=> a % H < (b % H) + c
    BY <1>3, <1>11, Zenon
  <1>13. qa = a \div H /\ qb = b \div H
    BY <1>1, <1>2
  <1>14. QED BY <1>9, <1>10, <1>12, <1>13, Zenon DEF Crosses

(* A word of n bits holds whole pairs of digits of h bits.                 *)
LEMMA Pairs ==
  ASSUME NEW h \in Nat, NEW n \in Nat, h < n, n <= 2 * BITS
  PROVE  \E H \in Nat \ {0}, K \in Nat \ {0} : H = 2^h /\ 2^n = 2 * H * K
  <1>1. BITS \in Nat
    BY WordsAssumption
  <1>2. PICK j \in Nat : j = n - (h + 1)
    OBVIOUS
  <1>3. h \in 0 .. 2 * BITS - 1 /\ j \in 0 .. 2 * BITS /\ (h + 1) + j = n /\ h + 1 \in Nat
    BY <1>1, <1>2
  <1>4. PICK H \in Nat \ {0}, K \in Nat \ {0} : H = 2^h /\ K = 2^j
    BY <1>1, <1>3, Powers
  <1>5. 2^(h + 1) = 2 * H
    BY <1>3, <1>4, Step2
  <1>6. 2^((h + 1) + j) = 2^(h + 1) * 2^j
    BY <1>2, <1>3, Product
  <1>7. QED BY <1>3, <1>4, <1>5, <1>6

(* Bits.                                                                   *)
LEMMA BitAbove ==
  ASSUME NEW n \in 0 .. 2 * BITS, NEW v \in 0 .. 2^n - 1, NEW i \in n .. 2 * BITS
  PROVE  ~ Bit(v, i)
  <1>1. BITS \in Nat
    BY WordsAssumption
  <1>2. PICK j \in Nat : i = n + j /\ j \in 0 .. 2 * BITS
    <2>1. i - n \in Nat /\ i = n + (i - n) /\ i - n \in 0 .. 2 * BITS
      BY <1>1
    <2>2. QED BY <2>1
  <1>3. PICK x \in Nat \ {0}, y \in Nat \ {0} : x = 2^n /\ y = 2^j
    BY <1>1, <1>2, Powers
  <1>4. n \in Nat /\ n + j <= 2 * BITS
    BY <1>1, <1>2
  <1>5. 2^(n + j) = 2^n * 2^j
    BY <1>2, <1>4, Product
  <1>6. PICK z \in Nat \ {0} : z = x * y /\ z >= x
    BY <1>3
  <1>7. 2^i = z
    BY <1>2, <1>3, <1>5, <1>6
  <1>8. v \in 0 .. z - 1
    BY <1>3, <1>6
  <1>10. v \div z = 0
    <2>1. v % z = v /\ v \div z = 0
      BY <1>6, <1>8
    <2>2. QED BY <2>1
  <1>11. QED BY <1>7, <1>10 DEF Bit

(* A number of n + 1 bits is its top bit and a number of n bits, whose bits *)
(* are its own.                                                            *)
LEMMA BitTop ==
  ASSUME NEW n \in 0 .. 2 * BITS - 1, NEW u \in 0 .. 2^n - 1, NEW v, v = u + 2^n
  PROVE  /\ v \in 2^n .. 2^(n + 1) - 1
         /\ Bit(v, n)
         /\ \A i \in 0 .. n - 1 : Bit(v, i) <=> Bit(u, i)
  <1>1. BITS \in Nat
    BY WordsAssumption
  <1>2. PICK N \in Nat \ {0} : N = 2^n
    BY <1>1, Powers
  <1>3. 2^(n + 1) = 2 * N
    BY <1>2, Step2
  <1>4. v \in N .. 2 * N - 1
    BY <1>2
  <1>5. Bit(v, n)
    <2>1. v = 1 * N + u
      BY <1>2
    <2>2. v \div N = 1
      BY <1>2, <2>1
    <2>3. QED BY <1>2, <2>2 DEF Bit
  <1>6. ASSUME NEW i \in 0 .. n - 1 PROVE Bit(v, i) <=> Bit(u, i)
    <2>1. i \in Nat /\ n \in Nat /\ i < n /\ n <= 2 * BITS
      BY <1>1
    <2>2. PICK H \in Nat \ {0}, K \in Nat \ {0} : H = 2^i /\ 2^n = 2 * H * K
      BY <2>1, Pairs
    <2>3. 2 * H * K = (2 * K) * H /\ 2 * K \in Int
      BY <2>2
    <2>4. v = u + (2 * K) * H /\ u \in Int /\ v \in Int
      BY <1>2, <1>4, <2>2, <2>3
    <2>5. v \div H = u \div H + 2 * K
      BY <2>2, <2>3, <2>4, Remainder
    <2>6. PICK q \in Int : q = u \div H
      BY <2>2, <2>4
    <2>7. (q + 2 * K) % 2 = q % 2
      BY <2>2, <2>6
    <2>8. QED BY <2>2, <2>5, <2>6, <2>7 DEF Bit
  <1>7. QED BY <1>2, <1>3, <1>4, <1>5, <1>6

LEMMA BitSplit ==
  ASSUME NEW n \in 0 .. 2 * BITS - 1, NEW v \in 0 .. 2^(n + 1) - 1
  PROVE  \/ v \in 0 .. 2^n - 1 /\ ~ Bit(v, n)
         \/ /\ Bit(v, n)
            /\ \E u \in 0 .. 2^n - 1 : v = u + 2^n /\ \A i \in 0 .. n - 1 : Bit(v, i) <=> Bit(u, i)
  <1>1. BITS \in Nat
    BY WordsAssumption
  <1>2. PICK N \in Nat \ {0} : N = 2^n
    BY <1>1, Powers
  <1>3. 2^(n + 1) = 2 * N
    BY <1>2, Step2
  <1>4. CASE v < N
    <2>1. v \in 0 .. 2^n - 1
      BY <1>2, <1>3, <1>4
    <2>2. n \in 0 .. 2 * BITS /\ n \in n .. 2 * BITS
      BY <1>1
    <2>3. QED BY <2>1, <2>2, BitAbove
  <1>5. CASE ~ (v < N)
    <2>1. PICK u \in 0 .. N - 1 : v = u + N
      <3>1. v - N \in 0 .. N - 1 /\ v = (v - N) + N
        BY <1>2, <1>3, <1>5
      <3>2. QED BY <3>1
    <2>2. QED BY <1>2, <2>1, BitTop
  <1>6. QED BY <1>4, <1>5

(* Bits tell numbers apart, and every set of bits is a number's.           *)
LEMMA BitsTell ==
  ASSUME NEW n \in 0 .. 2 * BITS, NEW v \in 0 .. 2^n - 1, NEW w \in 0 .. 2^n - 1,
         \A i \in 0 .. n - 1 : Bit(v, i) <=> Bit(w, i)
  PROVE  v = w
  <1> DEFINE Apart(k) == \A x, y \in 0 .. 2^k - 1 :
                          (\A i \in 0 .. k - 1 : Bit(x, i) <=> Bit(y, i)) => x = y
             T == {k \in 0 .. n : Apart(k)}
  <1>1. BITS \in Nat /\ n \in Nat
    BY WordsAssumption
  <1>2. 0 \in T
    BY <1>1, PowersAssumption
  <1>3. ASSUME NEW k \in 0 .. n - 1, k \in T PROVE k + 1 \in T
    <2>1. k \in 0 .. 2 * BITS - 1 /\ k + 1 \in 0 .. n /\ k \in 0 .. k + 1 - 1
      BY <1>1
    <2>2. SUFFICES ASSUME NEW x \in 0 .. 2^(k + 1) - 1, NEW y \in 0 .. 2^(k + 1) - 1,
                          \A i \in 0 .. k + 1 - 1 : Bit(x, i) <=> Bit(y, i)
                   PROVE  x = y
      BY <2>1
    <2>3. Apart(k)
      BY <1>3
    <2>4. Bit(x, k) <=> Bit(y, k)
      BY <2>1, <2>2
    <2>5. \A i \in 0 .. k - 1 : Bit(x, i) <=> Bit(y, i)
      BY <1>1, <2>2
    <2>6. CASE ~ Bit(x, k)
      <3>1. x \in 0 .. 2^k - 1 /\ y \in 0 .. 2^k - 1
        BY <2>1, <2>4, <2>6, BitSplit
      <3>2. QED BY <2>3, <2>5, <3>1
    <2>7. CASE Bit(x, k)
      <3>1. PICK u \in 0 .. 2^k - 1 : x = u + 2^k /\ \A i \in 0 .. k - 1 : Bit(x, i) <=> Bit(u, i)
        BY <2>1, <2>7, BitSplit
      <3>2. PICK w1 \in 0 .. 2^k - 1 : y = w1 + 2^k /\ \A i \in 0 .. k - 1 : Bit(y, i) <=> Bit(w1, i)
        BY <2>1, <2>4, <2>7, BitSplit
      <3>3. u = w1
        BY <2>3, <2>5, <3>1, <3>2
      <3>4. QED BY <3>1, <3>2, <3>3
    <2>8. QED BY <2>6, <2>7
  <1> HIDE DEF T
  <1>4. 0 .. n \subseteq T
    BY <1>1, <1>2, <1>3, UpTo
  <1>5. n \in T
    BY <1>1, <1>4
  <1>6. QED BY <1>5 DEF T

LEMMA BitsMake ==
  ASSUME NEW n \in 0 .. 2 * BITS, NEW s
  PROVE  \E v \in 0 .. 2^n - 1 : \A i \in 0 .. n - 1 : Bit(v, i) <=> i \in s
  <1> DEFINE Madeof(k) == \E v \in 0 .. 2^k - 1 : \A i \in 0 .. k - 1 : Bit(v, i) <=> i \in s
             T == {k \in 0 .. n : Madeof(k)}
  <1>1. BITS \in Nat /\ n \in Nat
    BY WordsAssumption
  <1>2. 0 \in T
    <2>1. 0 \in 0 .. 2^0 - 1 /\ \A i \in 0 .. 0 - 1 : FALSE
      BY PowersAssumption
    <2>2. QED BY <1>1, <2>1
  <1>3. ASSUME NEW k \in 0 .. n - 1, k \in T PROVE k + 1 \in T
    <2>1. k \in 0 .. 2 * BITS - 1 /\ k + 1 \in 0 .. n /\ k \in 0 .. 2 * BITS /\ k \in k .. 2 * BITS
      BY <1>1
    <2>2. PICK u \in 0 .. 2^k - 1 : \A i \in 0 .. k - 1 : Bit(u, i) <=> i \in s
      BY <1>3
    <2>3. PICK N \in Nat \ {0} : N = 2^k
      BY <2>1, Powers
    <2>4. 2^(k + 1) = 2 * N
      BY <2>1, <2>3, Step2
    <2>5. \A i \in 0 .. k + 1 - 1 : i \in 0 .. k - 1 \/ i = k
      BY <1>1
    <2>6. CASE k \in s
      <3>1. PICK v : v = u + 2^k
        OBVIOUS
      <3>2. /\ Bit(v, k) /\ \A i \in 0 .. k - 1 : Bit(v, i) <=> Bit(u, i)
            /\ v \in 2^k .. 2^(k + 1) - 1
        BY <2>1, <3>1, BitTop
      <3>3. v \in 0 .. 2^(k + 1) - 1
        BY <2>3, <2>4, <3>2
      <3>4. \A i \in 0 .. k + 1 - 1 : Bit(v, i) <=> i \in s
        BY <2>2, <2>5, <2>6, <3>2
      <3>5. QED BY <2>1, <3>3, <3>4
    <2>7. CASE k \notin s
      <3>1. ~ Bit(u, k)
        BY <2>1, BitAbove
      <3>2. u \in 0 .. 2^(k + 1) - 1
        BY <2>3, <2>4
      <3>3. \A i \in 0 .. k + 1 - 1 : Bit(u, i) <=> i \in s
        BY <2>2, <2>5, <2>7, <3>1
      <3>4. QED BY <2>1, <3>2, <3>3
    <2>8. QED BY <2>6, <2>7
  <1> HIDE DEF T
  <1>4. 0 .. n \subseteq T
    BY <1>1, <1>2, <1>3, UpTo
  <1>5. n \in T
    BY <1>1, <1>4
  <1>6. QED BY <1>5 DEF T

LEMMA ByteIs == /\ BITS \in Nat /\ BITS \in 0 .. 2 * BITS /\ SIGN \in 0 .. 2 * BITS - 1
                /\ SIGN + 1 = BITS /\ HALF \in Nat \ {0} /\ HALF < BITS
                /\ 2 * BITS \in 0 .. 2 * BITS
                /\ Byte \subseteq Word /\ 0 \in Byte /\ 1 \in Byte /\ 2^BITS \in Nat \ {0}
  <1>1. PICK P \in Nat : P = 2^BITS /\ P > 1 /\ 2^(2 * BITS) = P * P /\ P * P \in Nat /\ P * P >= P
    BY Sizes
  <1>2. BITS \in Nat /\ BITS \in 0 .. 2 * BITS /\ SIGN \in 0 .. 2 * BITS - 1 /\ SIGN + 1 = BITS
        /\ HALF \in Nat \ {0} /\ HALF < BITS /\ 2 * BITS \in 0 .. 2 * BITS
    BY WordsAssumption DEF SIGN
  <1>3. Byte \subseteq Word /\ 0 \in Byte /\ 1 \in Byte
    BY <1>1 DEF Byte, Word
  <1>4. QED BY <1>1, <1>2, <1>3

LEMMA BitsOfByte ==
  ASSUME NEW v \in Byte
  PROVE  BitsOf[v] = {i \in 0 .. BITS - 1 : Bit(v, i)}
  <1>1. v \in Word /\ BITS \in 0 .. 2 * BITS /\ BITS \in Nat
    BY ByteIs
  <1>2. BitsOf[v] = {i \in 0 .. 2 * BITS - 1 : Bit(v, i)}
    BY <1>1 DEF BitsOf
  <1>3. \A i \in BITS .. 2 * BITS : ~ Bit(v, i)
    BY <1>1, BitAbove DEF Byte
  <1>4. ASSUME NEW i \in 0 .. 2 * BITS - 1, Bit(v, i) PROVE i \in 0 .. BITS - 1
    <2>1. i \notin BITS .. 2 * BITS
      BY <1>3, <1>4
    <2>2. QED BY <1>1, <2>1
  <1>5. 0 .. BITS - 1 \subseteq 0 .. 2 * BITS - 1
    BY <1>1
  <1>6. QED BY <1>2, <1>4, <1>5

(* The byte that has a set of bits.                                        *)
LEMMA WordOfIs ==
  ASSUME NEW v \in Byte
  PROVE  WordOf[BitsOf[v]] = v
  <1>1. v \in Word /\ BITS \in Nat /\ 2 * BITS \in 0 .. 2 * BITS
    BY ByteIs
  <1>2. ASSUME NEW w \in Word, BitsOf[w] = BitsOf[v] PROVE w = v
    <2>1. /\ BitsOf[w] = {i \in 0 .. 2 * BITS - 1 : Bit(w, i)}
          /\ BitsOf[v] = {i \in 0 .. 2 * BITS - 1 : Bit(v, i)}
      BY <1>1 DEF BitsOf
    <2>2. \A i \in 0 .. 2 * BITS - 1 : Bit(w, i) <=> Bit(v, i)
      BY <1>2, <2>1
    <2>3. w \in 0 .. 2^(2 * BITS) - 1 /\ v \in 0 .. 2^(2 * BITS) - 1
      BY <1>1 DEF Word
    <2>4. QED BY <1>1, <2>2, <2>3, BitsTell
  <1>3. BitsOf[v] \in SUBSET (0 .. 2 * BITS - 1)
    BY <1>1 DEF BitsOf
  <1>4. WordOf[BitsOf[v]] = CHOOSE w \in Word : BitsOf[w] = BitsOf[v]
    BY <1>3 DEF WordOf
  <1>5. QED BY <1>1, <1>2, <1>4

LEMMA ByteOf ==
  ASSUME NEW s, s \subseteq 0 .. BITS - 1
  PROVE  WordOf[s] \in Byte /\ BitsOf[WordOf[s]] = s
  <1>1. BITS \in 0 .. 2 * BITS
    BY ByteIs
  <1>2. PICK v \in Byte : \A i \in 0 .. BITS - 1 : Bit(v, i) <=> i \in s
    BY <1>1, BitsMake DEF Byte
  <1>3. BitsOf[v] = s
    BY <1>2, BitsOfByte
  <1>4. WordOf[s] = v
    BY <1>3, WordOfIs
  <1>5. QED BY <1>3, <1>4

LEMMA Logical ==
  ASSUME NEW v \in Byte, NEW w \in Byte
  PROVE  And(v, w) \in Byte /\ Or(v, w) \in Byte /\ Xor(v, w) \in Byte
  <1>1. BitsOf[v] \subseteq 0 .. BITS - 1 /\ BitsOf[w] \subseteq 0 .. BITS - 1
    BY BitsOfByte
  <1>2. /\ BitsOf[v] \cap BitsOf[w] \subseteq 0 .. BITS - 1
        /\ BitsOf[v] \cup BitsOf[w] \subseteq 0 .. BITS - 1
        /\ (BitsOf[v] \cup BitsOf[w]) \ (BitsOf[v] \cap BitsOf[w]) \subseteq 0 .. BITS - 1
    BY <1>1
  <1>3. QED BY <1>2, ByteOf, Zenon DEF And, Or, Xor

(* One bit.                                                                *)
LEMMA BitsOfNone == 0 \in Byte /\ BitsOf[0] = {} /\ \A i \in 0 .. 2 * BITS : ~ Bit(0, i)
  <1>1. 0 \in 0 .. 2^0 - 1
    BY PowersAssumption
  <1>2. BITS \in Nat /\ 0 \in 0 .. 2 * BITS /\ 0 \in Byte
    BY ByteIs
  <1>3. \A i \in 0 .. 2 * BITS : ~ Bit(0, i)
    BY <1>1, <1>2, BitAbove
  <1>4. \A i \in 0 .. BITS - 1 : i \in 0 .. 2 * BITS
    BY <1>2
  <1>5. BitsOf[0] = {i \in 0 .. BITS - 1 : Bit(0, i)}
    BY <1>2, BitsOfByte
  <1>6. QED BY <1>2, <1>3, <1>4, <1>5

LEMMA BitsOfOne ==
  ASSUME NEW b \in 0 .. SIGN
  PROVE  /\ 2^b \in Byte \ {0} /\ BitsOf[2^b] = {b}
         /\ \A i \in 0 .. BITS - 1 : Bit(2^b, i) <=> i = b
  <1>1. BITS \in Nat /\ SIGN + 1 = BITS /\ SIGN \in 0 .. 2 * BITS - 1
    BY ByteIs
  <1>2. b \in 0 .. 2 * BITS - 1 /\ b + 1 \in 0 .. 2 * BITS /\ b \in Nat /\ b \in 0 .. 2 * BITS
    BY <1>1
  <1>3. PICK N \in Nat \ {0} : N = 2^b
    BY <1>2, Powers
  <1>4. 2^(b + 1) = 2 * N
    BY <1>2, <1>3, Step2
  <1>5. 0 \in 0 .. 2^b - 1 /\ 2^b = 0 + 2^b
    BY <1>3
  <1>6. Bit(2^b, b) /\ \A i \in 0 .. b - 1 : Bit(2^b, i) <=> Bit(0, i)
    BY <1>2, <1>5, BitTop
  <1>7. \A i \in 0 .. b - 1 : ~ Bit(2^b, i)
    <2>1. \A i \in 0 .. b - 1 : i \in 0 .. 2 * BITS
      BY <1>1
    <2>2. QED BY <1>6, <2>1, BitsOfNone
  <1>8. 2^b \in 0 .. 2^(b + 1) - 1
    BY <1>3, <1>4
  <1>9. \A i \in b + 1 .. 2 * BITS : ~ Bit(2^b, i)
    BY <1>2, <1>8, BitAbove
  <1>10. ASSUME NEW i \in 0 .. BITS - 1 PROVE Bit(2^b, i) <=> i = b
    <2>1. i \in 0 .. b - 1 \/ i = b \/ i \in b + 1 .. 2 * BITS
      BY <1>1
    <2>2. CASE i \in 0 .. b - 1
      <3>1. i # b
        BY <2>2
      <3>2. QED BY <1>7, <2>2, <3>1
    <2>3. CASE i \in b + 1 .. 2 * BITS
      <3>1. i # b
        BY <1>2, <2>3
      <3>2. QED BY <1>9, <2>3, <3>1
    <2>4. QED BY <1>6, <2>1, <2>2, <2>3
  <1>11. 2^b \in Byte
    <2>1. PICK j \in Nat : b + 1 + j = BITS
      <3>1. BITS - (b + 1) \in Nat /\ b + 1 + (BITS - (b + 1)) = BITS
        BY <1>1
      <3>2. QED BY <3>1
    <2>2. j \in 0 .. 2 * BITS /\ b + 1 \in Nat /\ (b + 1) + j = BITS /\ (b + 1) + j <= 2 * BITS
      BY <1>1, <1>2, <2>1
    <2>3. PICK J \in Nat \ {0} : J = 2^j
      BY <2>2, Powers
    <2>4. 2^((b + 1) + j) = 2^(b + 1) * 2^j
      BY <2>1, <2>2, Product
    <2>5. 2^BITS = (2 * N) * J
      BY <1>4, <2>2, <2>3, <2>4
    <2>6. PICK z \in Nat : z = (2 * N) * J /\ z >= 2 * N
      BY <1>3, <2>3
    <2>7. N \in 0 .. z - 1
      BY <1>3, <2>6
    <2>8. QED BY <1>3, <2>5, <2>6, <2>7 DEF Byte
  <1>12. b \in 0 .. BITS - 1
    BY <1>1
  <1>13. BitsOf[2^b] = {b}
    BY <1>10, <1>11, <1>12, BitsOfByte
  <1>14. QED BY <1>3, <1>10, <1>11, <1>13

LEMMA AndOne ==
  ASSUME NEW v \in Byte, NEW b \in 0 .. SIGN
  PROVE  And(v, 2^b) = IF Bit(v, b) THEN 2^b ELSE 0
  <1>1. BitsOf[2^b] = {b} /\ 2^b \in Byte /\ BitsOf[0] = {} /\ 0 \in Byte
    BY BitsOfOne, BitsOfNone
  <1>2. b \in 0 .. BITS - 1
    BY ByteIs
  <1>3. b \in BitsOf[v] <=> Bit(v, b)
    BY <1>2, BitsOfByte
  <1>4. BitsOf[v] \cap BitsOf[2^b] = IF Bit(v, b) THEN BitsOf[2^b] ELSE BitsOf[0]
    BY <1>1, <1>3
  <1>5. QED BY <1>1, <1>4, WordOfIs DEF And

LEMMA ByteWraps == \A v \in Byte : v % 2^BITS = v
  <1>1. PICK P \in Nat \ {0} : P = 2^BITS
    BY ByteIs
  <1>2. QED BY <1>1 DEF Byte

LEMMA MaskedFlags ==
  ASSUME NEW v \in Byte, NEW b \in 0 .. SIGN
  PROVE  ByResult(And(v, 2^b)) = When(~ Bit(v, b), "ZE") \cup When(~ Bit(v, b), "PA")
                                   \cup When(b = SIGN /\ Bit(v, b), "SI")
  <1>1. SIGN \in 0 .. BITS - 1 /\ SIGN \in 0 .. 2 * BITS
    BY ByteIs
  <1>2. CASE Bit(v, b)
    <2>1. And(v, 2^b) = 2^b /\ 2^b # 0 /\ (Bit(2^b, SIGN) <=> SIGN = b) /\ 2^b \in Byte /\ BitsOf[2^b] = {b}
      BY <1>1, <1>2, AndOne, BitsOfOne
    <2>2. ~ Even(2^b)
      <3>1. Cardinality(BitsOf[2^b % 2^BITS]) = 1
        BY <2>1, ByteWraps, FS_Singleton
      <3>2. QED BY <3>1 DEF Even
    <2>3. QED BY <1>2, <2>1, <2>2 DEF ByResult, When
  <1>3. CASE ~ Bit(v, b)
    <2>1. And(v, 2^b) = 0 /\ ~ Bit(0, SIGN)
      BY <1>1, <1>3, AndOne, BitsOfNone
    <2>2. Even(0)
      <3>1. Cardinality(BitsOf[0 % 2^BITS]) = 0
        BY BitsOfNone, ByteWraps, FS_EmptySet
      <3>2. QED BY <3>1 DEF Even
    <2>3. QED BY <1>3, <2>1, <2>2 DEF ByResult, When
  <1>4. QED BY <1>2, <1>3

-----------------------------------------------------------------------------
(* Guests are records, whatever an instruction leaves in them.             *)
IsGuest(s) == s = [a |-> s.a, f |-> s.f, rec |-> s.rec]
IsGuest86(h) == h = [fl |-> h.fl, rec |-> h.rec]
ExecutorInv == IsGuest(m) /\ IsGuest86(g)

LEMMA LazyGuest ==
  ASSUME NEW s, IsGuest(s), NEW cls, NEW a, NEW b, NEW r, NEW c
  PROVE  \E f : lazy(s, cls, a, b, r, c) =
                  Guest(s.a, f, [lz |-> cls, la |-> a, lb |-> b, lr |-> r, lc |-> c])
  <1> DEFINE fold == IF cls \in {"INR", "DCR"} THEN s.rec.lz \notin {"INR", "DCR"}
                     ELSE cls \in {"BIT", "LDBLK", "CPBLK"} /\ s.rec.lz # cls
             rec == [lz |-> cls, la |-> a, lb |-> b, lr |-> r, lc |-> c]
  <1>1. PICK t : t = IF fold THEN Folded(s) ELSE s
    OBVIOUS
  <1>2. lazy(s, cls, a, b, r, c) = [t EXCEPT !.rec = rec]
    BY <1>1, Zenon DEF lazy
  <1>3. IsGuest(t) /\ t.a = s.a
    BY <1>1 DEF IsGuest, Folded, Guest
  <1> HIDE DEF rec
  <1>4. [t EXCEPT !.rec = rec] = Guest(s.a, t.f, rec)
    BY <1>3 DEF IsGuest, Guest
  <1>5. QED BY <1>2, <1>4 DEF rec

LEMMA AGuest ==
  ASSUME NEW a, NEW f, NEW rec
  PROVE  /\ IsGuest(Guest(a, f, rec))
         /\ Guest(a, f, rec).a = a /\ Guest(a, f, rec).f = f /\ Guest(a, f, rec).rec = rec
         /\ \A v : [Guest(a, f, rec) EXCEPT !.a = v] = Guest(v, f, rec)
  BY DEF IsGuest, Guest

LEMMA LazyKeeps ==
  ASSUME NEW s, IsGuest(s), NEW cls, NEW a, NEW b, NEW r, NEW c
  PROVE  IsGuest(lazy(s, cls, a, b, r, c))
  <1>1. PICK f : lazy(s, cls, a, b, r, c)
                   = Guest(s.a, f, [lz |-> cls, la |-> a, lb |-> b, lr |-> r, lc |-> c])
    BY LazyGuest
  <1>2. QED BY <1>1, AGuest

LEMMA StoreKeeps ==
  ASSUME NEW s, IsGuest(s), NEW to, NEW r
  PROVE  IsGuest(Store(s, to, r)) /\ IsGuest([s EXCEPT !.a = r])
  <1>1. IsGuest([s EXCEPT !.a = r])
    BY DEF IsGuest
  <1>2. QED BY <1>1 DEF Store

(* A DCR after a DCR makes no flags.                                       *)
LEMMA LazyAgain ==
  ASSUME NEW a, NEW f, NEW rec, rec.lz = "DCR", NEW v, NEW r
  PROVE  lazy(Guest(a, f, rec), "DCR", v, 1, r, 0)
           = Guest(a, f, [lz |-> "DCR", la |-> v, lb |-> 1, lr |-> r, lc |-> 0])
  <1>1. Guest(a, f, rec).rec = rec
    BY AGuest
  <1> DEFINE s == Guest(a, f, rec)
             new == [lz |-> "DCR", la |-> v, lb |-> 1, lr |-> r, lc |-> 0]
  <1> HIDE DEF s
  <1>2. s.rec.lz \in {"INR", "DCR"}
    BY <1>1 DEF s
  <1>3. lazy(s, "DCR", v, 1, r, 0) = [s EXCEPT !.rec = new]
    BY <1>2 DEF lazy
  <1> HIDE DEF new
  <1>4. [s EXCEPT !.rec = new] = Guest(a, f, new)
    BY DEF s, Guest
  <1>5. QED BY <1>3, <1>4 DEF s, new

LEMMA DcrKeeps ==
  ASSUME NEW s, IsGuest(s), NEW to, NEW v
  PROVE  IsGuest(dcr(s, to, v))
  BY LazyKeeps, StoreKeeps DEF dcr

LEMMA FoldedKeeps == ASSUME NEW s PROVE IsGuest(Folded(s))
  BY AGuest DEF Folded

LEMMA AluKeeps ==
  ASSUME ExecutorInv, NEW b, Alu(b)
  PROVE  IsGuest(m')
  <1>0. IsGuest(m)
    BY DEF ExecutorInv
  <1>1. IsGuest(Plain.on) /\ IsGuest(WithCarry.on)
    BY <1>0, FoldedKeeps DEF Plain, WithCarry
  <1>2. ASSUME NEW c, IsGuest(c.on), NEW a, Sum(c, a, b) PROVE IsGuest(m')
    <2>1. PICK r : m' = lazy([c.on EXCEPT !.a = r], "ADD", a, b, r, c.in)
      BY <1>2, Zenon DEF Sum
    <2>2. QED BY <1>2, <2>1, LazyKeeps, StoreKeeps
  <1>3. ASSUME NEW c, IsGuest(c.on), NEW a, NEW kept, Difference(c, a, b, kept) PROVE IsGuest(m')
    <2>1. PICK r, v : m' = lazy([c.on EXCEPT !.a = v], "SUB", a, b, r, c.in)
      BY <1>3, Zenon DEF Difference
    <2>2. QED BY <1>3, <2>1, LazyKeeps, StoreKeeps
  <1>4. ASSUME NEW cls, NEW a, NEW r, NEW half, Logic(cls, a, b, r, half) PROVE IsGuest(m')
    <2>1. m' = lazy([m EXCEPT !.a = r], cls, a, b, r, 0)
      BY <1>4, Zenon DEF Logic
    <2>2. QED BY <1>0, <2>1, LazyKeeps, StoreKeeps
  <1>5. QED BY <1>1, <1>2, <1>3, <1>4, Zenon DEF Alu

LEMMA OnRegisterKeeps ==
  ASSUME ExecutorInv, OnRegister
  PROVE  IsGuest(m')
  <1>0. IsGuest(m)
    BY DEF ExecutorInv
  <1>1. ASSUME NEW to, NEW v, Inr(to, v) PROVE IsGuest(m')
    <2>1. PICK r : m' = Store(lazy(m, "INR", v, 1, r, 0), to, r)
      BY <1>1, Zenon DEF Inr
    <2>2. QED BY <1>0, <2>1, LazyKeeps, StoreKeeps
  <1>2. ASSUME NEW to, NEW v, Dcr(to, v) PROVE IsGuest(m')
    BY <1>0, <1>2, DcrKeeps DEF Dcr
  <1>3. ASSUME NEW rotate, NEW to, NEW v, CbRotate(rotate, to, v) PROVE IsGuest(m')
    <2>1. PICK on : on = IF rotate \in {"RL", "RR"} THEN Folded(m) ELSE m
      OBVIOUS
    <2>2. PICK r, c : m' = lazy(Store(on, to, r), "ROT", v, 0, r, c)
      BY <1>3, <2>1, Zenon DEF CbRotate
    <2>3. IsGuest(on)
      BY <1>0, <2>1, FoldedKeeps
    <2>4. QED BY <2>2, <2>3, LazyKeeps, StoreKeeps
  <1>4. ASSUME NEW b, NEW v, CbBit(b, v) PROVE IsGuest(m')
    <2>1. PICK r : m' = lazy(m, "BIT", v, b, r, 0)
      BY <1>4, Zenon DEF CbBit
    <2>2. QED BY <1>0, <2>1, LazyKeeps
  <1>5. QED BY <1>1, <1>2, <1>3, <1>4, Zenon DEF OnRegister

LEMMA Z80Keeps ==
  ASSUME ExecutorInv, Z80Next
  PROVE  IsGuest(m')
  <1>0. IsGuest(m)
    BY DEF ExecutorInv
  <1>1. ASSUME NEW r \in LOOPS, Delay("A", r) PROVE IsGuest(m')
    <2>1. PICK s : s = dcr(m, "A", r + 1)
      OBVIOUS
    <2>2. m' = lazy(Store(s, "A", 0), "DCR", 1, 1, 0, 0)
      BY <1>1, <2>1 DEF Delay, z80delay
    <2>3. IsGuest(s)
      BY <1>0, <2>1, DcrKeeps
    <2>4. QED BY <2>2, <2>3, LazyKeeps, StoreKeeps
  <1>2. ASSUME NEW v, Load(v) PROVE IsGuest(m')
    BY <1>0, <1>2, StoreKeeps DEF Load
  <1>3. ASSUME Neg PROVE IsGuest(m')
    <2>1. PICK r : m' = lazy([m EXCEPT !.a = r], "SUB", 0, m.a, r, 0)
      BY <1>3, Zenon DEF Neg
    <2>2. QED BY <1>0, <2>1, LazyKeeps, StoreKeeps
  <1>4. ASSUME NEW more, NEW v, BlockMove(more) \/ BlockCompare(v, more) PROVE IsGuest(m')
    <2>1. PICK cls, a, b, r, c : m' = lazy(m, cls, a, b, r, c)
      BY <1>4, Zenon DEF BlockMove, BlockCompare
    <2>2. QED BY <1>0, <2>1, LazyKeeps
  <1>5. ASSUME \E a, f, rec : m' = Guest(a, f, rec) PROVE IsGuest(m')
    BY <1>5, AGuest
  <1>6. ASSUME NEW hl, NEW ss, AdcHl(hl, ss) \/ SbcHl(hl, ss) PROVE IsGuest(m')
    <2>1. \E a, f, rec : m' = Guest(a, f, rec)
      BY <1>6, Zenon DEF AdcHl, SbcHl
    <2>2. QED BY <1>5, <2>1
  <1>7. ASSUME NEW f, NEW rotate, NEW cy,
               Daa \/ Cmc \/ Psw \/ Condition \/ Rot(rotate) \/ SetCarry(cy) \/ PopPsw(m.a, f)
        PROVE IsGuest(m')
    <2>1. \E a, flags, rec : m' = Guest(a, flags, rec)
      BY <1>7, Zenon DEF Daa, Cmc, Psw, Condition, Rot, SetCarry, PopPsw, Folded
    <2>2. QED BY <1>5, <2>1
  <1>8. QED
    BY <1>1, <1>2, <1>3, <1>4, <1>6, <1>7, AluKeeps, OnRegisterKeeps, Zenon DEF Z80Next

(* The 8086's guest.                                                       *)
LEMMA LazyGuest86 ==
  ASSUME NEW h, IsGuest86(h), NEW cls, NEW w, NEW a, NEW b, NEW r, NEW c
  PROVE  \E fl : i86lazy(h, cls, w, a, b, r, c) =
                   [fl |-> fl, rec |-> [lz |-> cls, lw |-> w, la |-> a, lb |-> b, lr |-> r, lc |-> c]]
  <1> DEFINE fold == cls \in {"INC", "DEC"} /\ h.rec.lz \notin {"INC", "DEC"}
             rec == [lz |-> cls, lw |-> w, la |-> a, lb |-> b, lr |-> r, lc |-> c]
  <1>1. PICK t : t = IF fold THEN Made(h) ELSE h
    OBVIOUS
  <1>2. i86lazy(h, cls, w, a, b, r, c) = [t EXCEPT !.rec = rec]
    BY <1>1, Zenon DEF i86lazy
  <1>3. IsGuest86(t)
    BY <1>1 DEF IsGuest86, Made
  <1> HIDE DEF rec
  <1>4. [t EXCEPT !.rec = rec] = [fl |-> t.fl, rec |-> rec]
    BY <1>3 DEF IsGuest86
  <1>5. QED BY <1>2, <1>4 DEF rec

LEMMA AGuest86 ==
  ASSUME NEW fl, NEW rec
  PROVE  IsGuest86([fl |-> fl, rec |-> rec])
  BY DEF IsGuest86

LEMMA LazyKeeps86 ==
  ASSUME NEW h, IsGuest86(h), NEW cls, NEW w, NEW a, NEW b, NEW r, NEW c
  PROVE  IsGuest86(i86lazy(h, cls, w, a, b, r, c))
  <1>1. PICK fl : i86lazy(h, cls, w, a, b, r, c) =
                    [fl |-> fl, rec |-> [lz |-> cls, lw |-> w, la |-> a, lb |-> b, lr |-> r, lc |-> c]]
    BY LazyGuest86
  <1>2. QED BY <1>1, AGuest86

LEMMA MadeKeeps == ASSUME NEW h PROVE IsGuest86(Made(h))
  BY AGuest86 DEF Made

(* A DEC after a DEC makes no flags.                                       *)
LEMMA LazyAgain86 ==
  ASSUME NEW fl, NEW rec, rec.lz = "DEC", NEW w, NEW v, NEW r
  PROVE  i86lazy([fl |-> fl, rec |-> rec], "DEC", w, v, 1, r, 0)
           = [fl |-> fl, rec |-> [lz |-> "DEC", lw |-> w, la |-> v, lb |-> 1, lr |-> r, lc |-> 0]]
  <1> DEFINE h == [fl |-> fl, rec |-> rec]
             new == [lz |-> "DEC", lw |-> w, la |-> v, lb |-> 1, lr |-> r, lc |-> 0]
  <1>1. h.rec.lz \in {"INC", "DEC"}
    OBVIOUS
  <1>2. i86lazy(h, "DEC", w, v, 1, r, 0) = [h EXCEPT !.rec = new]
    <2> HIDE DEF h, new
    <2>1. QED BY <1>1, Zenon DEF i86lazy, new
  <1> HIDE DEF new
  <1>3. [h EXCEPT !.rec = new] = [fl |-> fl, rec |-> new]
    OBVIOUS
  <1>4. QED BY <1>2, <1>3 DEF new

(* A repeated comparison, as a function of how many pairs it may take.     *)
Round(w, pairs, untilequal, s, i) ==
  LET h == Made(i86sub(s.h, w, pairs[i][1], pairs[i][2], 0))
  IN IF s.ended THEN s ELSE [h |-> h, ended |-> ("ZF" \in h.fl) = untilequal]
Rounds(w, pairs, untilequal, f, n) ==
  f = [i \in 0 .. n |-> IF i = 0 THEN [h |-> g, ended |-> FALSE]
                        ELSE Round(w, pairs, untilequal, f[i - 1], i)]

LEMMA RoundsExist ==
  ASSUME NEW w, NEW pairs, NEW untilequal, NEW n \in Nat
  PROVE  \E f : Rounds(w, pairs, untilequal, f, n)
  <1> DEFINE T == {k \in 0 .. n : \E f : Rounds(w, pairs, untilequal, f, k)}
             start == [h |-> g, ended |-> FALSE]
  <1>1. 0 \in T
    <2>1. Rounds(w, pairs, untilequal, [i \in 0 .. 0 |-> start], 0)
      BY DEF Rounds
    <2>2. QED BY <2>1
  <1>2. ASSUME NEW k \in 0 .. n - 1, k \in T PROVE k + 1 \in T
    <2>1. PICK f : Rounds(w, pairs, untilequal, f, k)
      BY <1>2
    <2>2. f = [i \in 0 .. k |-> IF i = 0 THEN start ELSE Round(w, pairs, untilequal, f[i - 1], i)]
      BY <2>1 DEF Rounds
    <2>3. PICK next : next = Round(w, pairs, untilequal, f[k], k + 1)
      OBVIOUS
    <2> DEFINE e == [i \in 0 .. k + 1 |-> IF i = k + 1 THEN next ELSE f[i]]
    <2>4. ASSUME NEW i \in 0 .. k + 1
          PROVE  e[i] = IF i = 0 THEN start ELSE Round(w, pairs, untilequal, e[i - 1], i)
      <3>1. CASE i = k + 1
        <4>1. e[i] = next /\ i - 1 = k /\ k \in 0 .. k + 1 /\ i # 0 /\ k # k + 1
          BY <3>1
        <4>2. e[k] = f[k]
          BY <4>1
        <4>3. QED BY <2>3, <3>1, <4>1, <4>2
      <3>2. CASE i \in 1 .. k
        <4>1. i \in 0 .. k /\ i # 0 /\ i # k + 1 /\ i - 1 # k + 1 /\ i - 1 \in 0 .. k + 1
          BY <3>2
        <4>2. e[i] = f[i] /\ e[i - 1] = f[i - 1]
          BY <4>1
        <4>3. f[i] = Round(w, pairs, untilequal, f[i - 1], i)
          BY <2>2, <4>1
        <4>4. QED BY <4>1, <4>2, <4>3
      <3>3. CASE i = 0
        <4>1. e[0] = f[0]
          OBVIOUS
        <4>2. f[0] = start
          BY <2>2
        <4>3. QED BY <3>3, <4>1, <4>2
      <3>4. QED BY <3>1, <3>2, <3>3
    <2>5. e = [i \in 0 .. k + 1 |-> e[i]]
      OBVIOUS
    <2> HIDE DEF e
    <2>6. e = [i \in 0 .. k + 1 |-> IF i = 0 THEN start
                                    ELSE Round(w, pairs, untilequal, e[i - 1], i)]
      BY <2>4, <2>5
    <2>7. Rounds(w, pairs, untilequal, e, k + 1)
      BY <2>6, Zenon DEF Rounds
    <2>8. k + 1 \in 0 .. n
      OBVIOUS
    <2>9. QED BY <2>7, <2>8
  <1>3. 0 .. n \subseteq T
    BY <1>1, <1>2, UpTo
  <1>4. n \in 0 .. n
    OBVIOUS
  <1>5. n \in T
    BY <1>3, <1>4
  <1>6. QED BY <1>5, Zenon

LEMMA ComparedKeeps ==
  ASSUME ExecutorInv, NEW w, NEW pairs, Len(pairs) \in Nat, NEW untilequal
  PROVE  IsGuest86(Compared(w, pairs, untilequal))
  <1> DEFINE f == CHOOSE f : Rounds(w, pairs, untilequal, f, Len(pairs))
             n == Len(pairs)
  <1>1. Rounds(w, pairs, untilequal, f, n)
    BY RoundsExist
  <1>2. Compared(w, pairs, untilequal) = f[n].h
    BY Zenon DEF Compared, Rounds, Round
  <1> HIDE DEF f
  <1>3. \A i \in 0 .. n : f[i] = IF i = 0 THEN [h |-> g, ended |-> FALSE]
                                 ELSE Round(w, pairs, untilequal, f[i - 1], i)
    BY <1>1 DEF Rounds
  <1> DEFINE T == {i \in 0 .. n : IsGuest86(f[i].h)}
  <1>4. 0 \in T
    <2>1. f[0].h = g
      BY <1>3
    <2>2. QED BY <2>1 DEF ExecutorInv
  <1>5. ASSUME NEW k \in 0 .. n - 1, k \in T PROVE k + 1 \in T
    <2>1. k + 1 \in 0 .. n /\ k + 1 # 0 /\ (k + 1) - 1 = k
      OBVIOUS
    <2>2. f[k + 1] = Round(w, pairs, untilequal, f[k], k + 1)
      BY <1>3, <2>1
    <2>3. PICK h : h = Made(i86sub(f[k].h, w, pairs[k + 1][1], pairs[k + 1][2], 0))
      OBVIOUS
    <2>4. f[k + 1].h = h \/ f[k + 1].h = f[k].h
      BY <2>2, <2>3 DEF Round
    <2>5. QED BY <1>5, <2>1, <2>3, <2>4, MadeKeeps
  <1>6. 0 .. n \subseteq T
    BY <1>4, <1>5, UpTo
  <1>7. QED BY <1>2, <1>6

LEMMA I86Keeps ==
  ASSUME ExecutorInv, I86Next
  PROVE  IsGuest86(g')
  <1>0. IsGuest86(g)
    BY DEF ExecutorInv
  <1>1. ASSUME \E fl, rec : g' = [fl |-> fl, rec |-> rec] PROVE IsGuest86(g')
    BY <1>1, AGuest86
  <1>2. ASSUME NEW h, IsGuest86(h), NEW cls, NEW w, NEW a, NEW b, NEW r, NEW c,
               g' = i86lazy(h, cls, w, a, b, r, c)
        PROVE  IsGuest86(g')
    BY <1>2, LazyKeeps86
  <1>3. ASSUME NEW w, NEW a, NEW b, AluArith(w, a, b) \/ AluLogic(w, a, b) PROVE IsGuest86(g')
    <2>1. \E h \in {g, Made(g)} : \E cls, r, c : g' = i86lazy(h, cls, w, a, b, r, c)
      BY <1>3, Zenon DEF AluArith, AluLogic, i86add, i86sub
    <2>2. PICK h \in {g, Made(g)} : \E cls, r, c : g' = i86lazy(h, cls, w, a, b, r, c)
      BY <2>1
    <2>3. IsGuest86(h)
      BY <1>0, <2>2, MadeKeeps
    <2>4. QED BY <1>2, <2>2, <2>3
  <1>4. ASSUME NEW w, NEW a, NegOp(w, a) \/ IncOp(w, a) \/ DecOp(w, a) PROVE IsGuest86(g')
    <2>1. PICK cls, u, v, r, c : g' = i86lazy(g, cls, w, u, v, r, c)
      BY <1>4, Zenon DEF NegOp, IncOp, DecOp, i86sub, decop
    <2>2. QED BY <1>0, <1>2, <2>1
  <1>5. ASSUME NEW sop, NEW w, NEW a, NEW n, Shift(sop, w, a, n) PROVE IsGuest86(g')
    <2>1. g' = g \/ \E fl, rec : g' = [fl |-> fl, rec |-> rec]
      BY <1>5, Zenon DEF Shift, i86vars
    <2>2. QED BY <1>0, <1>1, <2>1
  <1>6. ASSUME NEW w, NEW a, DelayLoop(w, a) PROVE IsGuest86(g')
    <2>1. PICK h : h = decop(g, w, a + 1)
      OBVIOUS
    <2>2. g' = i86lazy(h, "DEC", w, 1, 1, 0, 0)
      BY <1>6, <2>1 DEF DelayLoop, delay
    <2>3. IsGuest86(h)
      BY <1>0, <2>1, LazyKeeps86 DEF decop
    <2>4. QED BY <1>2, <2>2, <2>3
  <1>7. ASSUME NEW w, NEW a, NEW b, NEW not, RepCompare(w, <<<<a, a>>, <<a, b>>, <<b, a>>>>, not)
        PROVE  IsGuest86(g')
    <2>0. \A p, q, r : Len(<<p, q, r>>) = 3
      OBVIOUS
    <2>1. PICK pairs : pairs = <<<<a, a>>, <<a, b>>, <<b, a>>>> /\ Len(pairs) = 3
      BY <2>0, Zenon
    <2>2. g' = Compared(w, pairs, not)
      BY <1>7, <2>1, Zenon DEF RepCompare
    <2>3. QED BY <2>1, <2>2, ComparedKeeps
  <1>8. ASSUME NEW al, NEW add, AsciiAdjust(al) \/ AamAad(al) \/ Adjust(al, add) PROVE IsGuest86(g')
    <2>1. CASE AamAad(al)
      <3>1. g' = i86lazy(g, "LOG", FALSE, 0, 0, al, 0)
        BY <2>1, Zenon DEF AamAad
      <3>2. QED BY <1>0, <1>2, <3>1
    <2>2. CASE AsciiAdjust(al) \/ Adjust(al, add)
      <3>1. \E fl, rec : g' = [fl |-> fl, rec |-> rec]
        BY <2>2, Zenon DEF AsciiAdjust, Adjust
      <3>2. QED BY <1>1, <3>1
    <2>3. QED BY <1>8, <2>1, <2>2
  <1>9. ASSUME NEW in, NEW f,
               Multiply(in) \/ SetCarryFlag(in) \/ Complement \/ ReadFlags \/ Popf(f) \/ Sahf(f)
        PROVE  IsGuest86(g')
    <2>1. \E fl, rec : g' = [fl |-> fl, rec |-> rec]
      BY <1>9, Zenon DEF Multiply, SetCarryFlag, Edited86, Complement, ReadFlags, Made, Popf, Sahf
    <2>2. QED BY <1>1, <2>1
  <1>10. ASSUME NEW w, NEW a, OnOperand(w, a) PROVE IsGuest86(g')
    BY <1>3, <1>4, <1>5, <1>6, <1>10, Zenon DEF OnOperand
  <1>11. QED
    BY <1>7, <1>8, <1>9, <1>10, Zenon DEF I86Next

LEMMA ExecutorsInductive ==
  /\ ExecutorsInit => ExecutorInv
  /\ ExecutorInv /\ [ExecutorsNext]_<<z80vars, i86vars>> => ExecutorInv'
  <1>1. ASSUME Z80Init PROVE IsGuest(m)
    <2>1. PICK f : m = Guest(0, f, NoRecord)
      BY <1>1, Zenon DEF Z80Init
    <2>2. QED BY <2>1, AGuest
  <1>2. ASSUME I86Init PROVE IsGuest86(g)
    <2>1. PICK f : g = [fl |-> f, rec |-> Nothing]
      BY <1>2, Zenon DEF I86Init
    <2>2. QED BY <2>1, AGuest86
  <1>3. ASSUME ExecutorInv, UNCHANGED z80vars PROVE IsGuest(m')
    BY <1>3 DEF ExecutorInv, z80vars
  <1>4. ASSUME ExecutorInv, UNCHANGED i86vars PROVE IsGuest86(g')
    BY <1>4 DEF ExecutorInv, i86vars
  <1>5. ASSUME ExecutorInv, [ExecutorsNext]_<<z80vars, i86vars>> PROVE IsGuest(m') /\ IsGuest86(g')
    BY <1>3, <1>4, <1>5, Z80Keeps, I86Keeps, Zenon DEF ExecutorsNext
  <1>6. (IsGuest(m) /\ IsGuest86(g))' <=> IsGuest(m') /\ IsGuest86(g')
    BY DEF IsGuest, IsGuest86
  <1>7. QED BY <1>1, <1>2, <1>5, <1>6, Zenon DEF ExecutorInv, ExecutorsInit

(* Words.                                                                  *)
LEMMA ByteSmall ==
  ASSUME NEW r \in Byte \ {0}
  PROVE  r \in Nat \ {0} /\ Wrap(Wrap(r + 1) - 1) = r /\ \A i \in 0 .. r - 1 : Wrap(r - i - 1) = r - i - 1
  <1>1. PICK P \in Nat : P = 2^BITS /\ P > 1
    BY Sizes
  <1>2. r \in 1 .. P - 1
    BY <1>1 DEF Byte
  <1>3. (((r + 1) % P) - 1) % P = r
    <2>1. CASE r + 1 = P
      <3>1. (r + 1) % P = 0
        BY <1>1, <2>1
      <3>2. (0 - 1) % P = P - 1
        BY <1>1
      <3>3. QED BY <1>1, <1>2, <2>1, <3>1, <3>2
    <2>2. CASE r + 1 < P
      <3>1. (r + 1) % P = r + 1
        BY <1>1, <1>2, <2>2
      <3>2. r % P = r
        BY <1>1, <1>2
      <3>3. (r + 1) - 1 = r
        BY <1>2
      <3>4. QED BY <3>1, <3>2, <3>3
    <2>3. QED BY <1>1, <1>2, <2>1, <2>2
  <1>4. \A i \in 0 .. r - 1 : (r - i - 1) % P = r - i - 1
    BY <1>1, <1>2
  <1>5. QED BY <1>1, <1>2, <1>3, <1>4 DEF Wrap

-----------------------------------------------------------------------------
(* The delay loop of the Z80, stepped, from the guest s after the first DCR *)
(* on: what the stepped loop is after k rounds.                            *)
Step80(to, r, jump, s, k) ==
  IF ~ z80lcond(s.g, "NZ") THEN s
  ELSE [g |-> dcr(s.g, to, r - k + 1), insns |-> s.insns + 2,
        owed |-> s.owed + TJump[jump].taken + T_DEC]
Steps80(s, to, r, jump, f) ==
  f = [k \in 0 .. r |-> IF k = 0 THEN [g |-> s, insns |-> 0, owed |-> T_DEC]
                        ELSE Step80(to, r, jump, f[k - 1], k)]
Dec80(la, lr) == [lz |-> "DCR", la |-> la, lb |-> 1, lr |-> lr, lc |-> 0]
Round80(a, f, to, r, first, jump, k) ==
  [g |-> Guest(IF to = "A" THEN r - k ELSE a, f, Dec80(IF k = 0 THEN first ELSE r - k + 1, r - k)),
   insns |-> 2 * k, owed |-> T_DEC + k * (TJump[jump].taken + T_DEC)]

LEMMA JumpOnZero ==
  ASSUME NEW a, NEW f, NEW la, NEW lr
  PROVE  z80lcond(Guest(a, f, Dec80(la, lr)), "NZ") <=> lr # 0
  <1>1. PICK s : s = Guest(a, f, Dec80(la, lr))
    OBVIOUS
  <1>2. s.rec.lz = "DCR" /\ s.rec.lr = lr
    BY <1>1 DEF Guest, Dec80
  <1>3. PICK carry, parity, sign :
          z80lcond(s, "NZ") = z80cond(When(s.rec.lr = 0, "ZE") \cup When(carry, "CY")
                                        \cup When(parity, "PA") \cup When(sign, "SI"), "NZ")
    BY <1>2 DEF z80lcond
  <1>4. PICK shown : shown = When(s.rec.lr = 0, "ZE") \cup When(carry, "CY")
                                        \cup When(parity, "PA") \cup When(sign, "SI")
    OBVIOUS
  <1>5. "ZE" \in shown <=> lr = 0
    BY <1>2, <1>4 DEF When
  <1>6. z80cond(shown, "NZ") <=> "ZE" \notin shown
    BY DEF z80cond
  <1>7. QED BY <1>1, <1>3, <1>4, <1>5, <1>6

LEMMA DcrAgain ==
  ASSUME NEW a, NEW f, NEW la, NEW lr, NEW to, NEW v
  PROVE  dcr(Guest(a, f, Dec80(la, lr)), to, v)
           = Guest(IF to = "A" THEN Wrap(v - 1) ELSE a, f, Dec80(v, Wrap(v - 1)))
  <1>1. PICK w : w = Wrap(v - 1)
    OBVIOUS
  <1>2. Dec80(la, lr).lz = "DCR"
    BY DEF Dec80
  <1>3. lazy(Guest(a, f, Dec80(la, lr)), "DCR", v, 1, w, 0) = Guest(a, f, Dec80(v, w))
    BY <1>2, LazyAgain DEF Dec80
  <1>4. dcr(Guest(a, f, Dec80(la, lr)), to, v) = Store(Guest(a, f, Dec80(v, w)), to, w)
    BY <1>1, <1>3 DEF dcr
  <1>5. QED BY <1>1, <1>4, AGuest DEF Store

LEMMA FirstDcr ==
  ASSUME NEW s, IsGuest(s), NEW to, NEW v
  PROVE  \E f : dcr(s, to, v) = Guest(IF to = "A" THEN Wrap(v - 1) ELSE s.a, f, Dec80(v, Wrap(v - 1)))
  <1>1. PICK w : w = Wrap(v - 1)
    OBVIOUS
  <1>2. PICK f : lazy(s, "DCR", v, 1, w, 0) = Guest(s.a, f, Dec80(v, w))
    BY LazyGuest DEF Dec80
  <1>3. dcr(s, to, v) = Store(Guest(s.a, f, Dec80(v, w)), to, w)
    BY <1>1, <1>2 DEF dcr
  <1>4. QED BY <1>1, <1>3, AGuest DEF Store

(* A round is a round.                                                     *)
LEMMA RoundsAre80 ==
  ASSUME NEW a, NEW f, NEW to, NEW r \in Byte \ {0}, NEW first, NEW jump \in DOMAIN TJump,
         NEW k \in 1 .. r
  PROVE  Step80(to, r, jump, Round80(a, f, to, r, first, jump, k - 1), k)
           = Round80(a, f, to, r, first, jump, k)
  <1>1. PICK j \in Nat : j = k - 1
    OBVIOUS
  <1>2. r \in Nat /\ j \in 0 .. r - 1 /\ k = j + 1 /\ r - j # 0 /\ k # 0 /\ r - k + 1 = r - j /\ r - j - 1 = r - k
    BY <1>1, ByteSmall
  <1>3. PICK s : s = Round80(a, f, to, r, first, jump, j)
    OBVIOUS
  <1>4. PICK b, la : s.g = Guest(b, f, Dec80(la, r - j)) /\ (to # "A" => b = a)
    BY <1>3 DEF Round80
  <1>5. z80lcond(s.g, "NZ")
    BY <1>2, <1>4, JumpOnZero
  <1>6. Wrap((r - k + 1) - 1) = r - k
    BY <1>2, ByteSmall
  <1>7. dcr(s.g, to, r - k + 1) = Guest(IF to = "A" THEN r - k ELSE a, f, Dec80(r - k + 1, r - k))
    BY <1>4, <1>6, DcrAgain
  <1>8. PICK t \in Nat : t = TJump[jump].taken
    BY DEF TJump
  <1>9. s.insns + 2 = 2 * k
    BY <1>2, <1>3 DEF Round80
  <1>10. s.owed + t + T_DEC = T_DEC + k * (t + T_DEC)
    <2>1. s.owed = 4 + j * (t + 4)
      BY <1>3, <1>8 DEF Round80, T_DEC
    <2>2. j \in Nat /\ k = j + 1
      BY <1>2
    <2>3. PICK y \in Nat : y = t + 4
      BY <1>8
    <2>4. (j + 1) * y = j * y + y /\ j * y \in Nat
      BY <2>2, <2>3
    <2>5. s.owed = 4 + j * y /\ k * y = j * y + y
      BY <2>1, <2>2, <2>3, <2>4
    <2>6. QED BY <1>8, <2>3, <2>4, <2>5 DEF T_DEC
  <1>11. Step80(to, r, jump, s, k)
           = [g |-> dcr(s.g, to, r - k + 1), insns |-> s.insns + 2, owed |-> s.owed + t + T_DEC]
    BY <1>5, <1>8 DEF Step80
  <1>12. Round80(a, f, to, r, first, jump, k)
           = [g |-> Guest(IF to = "A" THEN r - k ELSE a, f, Dec80(r - k + 1, r - k)),
              insns |-> 2 * k, owed |-> T_DEC + k * (t + T_DEC)]
    BY <1>2, <1>8 DEF Round80
  <1>13. QED BY <1>1, <1>3, <1>7, <1>9, <1>10, <1>11, <1>12, Zenon

(* A function that begins and goes on as e does is e.                      *)
LEMMA SameFunction ==
  ASSUME NEW n \in Nat, NEW e, NEW f, f[0] = e[0],
         \A k \in 1 .. n : f[k - 1] = e[k - 1] => f[k] = e[k]
  PROVE  f[n] = e[n]
  <1> DEFINE T == {k \in 0 .. n : f[k] = e[k]}
  <1>1. 0 \in T
    OBVIOUS
  <1>2. ASSUME NEW k \in 0 .. n - 1, k \in T PROVE k + 1 \in T
    <2>1. k + 1 \in 1 .. n /\ k + 1 \in 0 .. n /\ (k + 1) - 1 = k
      OBVIOUS
    <2>2. f[k + 1] = e[k + 1]
      BY <1>2, <2>1
    <2>3. QED BY <2>1, <2>2
  <1>3. 0 .. n \subseteq T
    BY <1>1, <1>2, UpTo
  <1>4. n \in 0 .. n
    OBVIOUS
  <1>5. n \in T
    BY <1>3, <1>4
  <1>6. QED BY <1>5

(* The jump that falls through.                                            *)
Finish80(x, jump) == [g |-> x.g, insns |-> x.insns + 1, owed |-> x.owed + TJump[jump].last]
LEMMA FinishIs ==
  ASSUME NEW s, NEW n, NEW o, NEW jump
  PROVE  Finish80([g |-> s, insns |-> n, owed |-> o], jump)
           = [g |-> s, insns |-> n + 1, owed |-> o + TJump[jump].last]
  BY DEF Finish80

LEMMA SteppedIs ==
  ASSUME NEW a, NEW f, NEW to, NEW r \in Byte \ {0}, NEW first, NEW jump \in DOMAIN TJump,
         NEW s, s = Round80(a, f, to, r, first, jump, 0).g
  PROVE  Stepped(s, to, r, jump)
           = Finish80(Round80(a, f, to, r, first, jump, r), jump)
  <1> DEFINE e == [k \in 0 .. r |-> Round80(a, f, to, r, first, jump, k)]
  <1>1. r \in Nat
    BY ByteSmall
  <1>2. Round80(a, f, to, r, first, jump, 0) = [g |-> s, insns |-> 0, owed |-> T_DEC]
    <2>1. PICK t \in Nat : t = TJump[jump].taken
      BY DEF TJump
    <2>2. 2 * 0 = 0 /\ T_DEC + 0 * (t + T_DEC) = T_DEC
      BY <2>1 DEF T_DEC
    <2>3. QED BY <2>1, <2>2 DEF Round80
  <1>3. Steps80(s, to, r, jump, e)
    <2>1. ASSUME NEW k \in 0 .. r
          PROVE  Round80(a, f, to, r, first, jump, k)
                   = IF k = 0 THEN [g |-> s, insns |-> 0, owed |-> T_DEC]
                     ELSE Step80(to, r, jump, e[k - 1], k)
      <3>1. CASE k = 0
        BY <1>2, <3>1
      <3>2. CASE k # 0
        <4>1. k \in 1 .. r /\ k - 1 \in 0 .. r
          BY <1>1, <3>2
        <4>2. e[k - 1] = Round80(a, f, to, r, first, jump, k - 1)
          BY <4>1
        <4>3. Step80(to, r, jump, Round80(a, f, to, r, first, jump, k - 1), k)
                = Round80(a, f, to, r, first, jump, k)
          BY <4>1, RoundsAre80
        <4>4. QED BY <3>2, <4>2, <4>3
      <3>3. QED BY <3>1, <3>2
    <2>2. e = [k \in 0 .. r |-> IF k = 0 THEN [g |-> s, insns |-> 0, owed |-> T_DEC]
                                ELSE Step80(to, r, jump, e[k - 1], k)]
      BY <2>1
    <2>3. QED BY <2>2, Zenon DEF Steps80
  <1> DEFINE h == CHOOSE h : Steps80(s, to, r, jump, h)
  <1>4. Steps80(s, to, r, jump, h)
    BY <1>3
  <1>5. Stepped(s, to, r, jump) = Finish80(h[r], jump)
    BY Zenon DEF Stepped, Steps80, Step80, Finish80
  <1> HIDE DEF h
  <1>6. \A k \in 0 .. r : h[k] = IF k = 0 THEN [g |-> s, insns |-> 0, owed |-> T_DEC]
                                ELSE Step80(to, r, jump, h[k - 1], k)
    BY <1>4 DEF Steps80
  <1>7. h[0] = e[0]
    BY <1>1, <1>2, <1>6
  <1>8. ASSUME NEW k \in 1 .. r, h[k - 1] = e[k - 1] PROVE h[k] = e[k]
    <2>1. k \in 0 .. r /\ k - 1 \in 0 .. r /\ k # 0
      BY <1>1
    <2>2. e[k - 1] = Round80(a, f, to, r, first, jump, k - 1)
          /\ e[k] = Round80(a, f, to, r, first, jump, k)
      BY <2>1
    <2>3. h[k] = Step80(to, r, jump, h[k - 1], k)
      BY <1>6, <2>1
    <2>4. Step80(to, r, jump, Round80(a, f, to, r, first, jump, k - 1), k)
                = Round80(a, f, to, r, first, jump, k)
      BY RoundsAre80
    <2>5. QED BY <1>8, <2>2, <2>3, <2>4
  <1>9. h[r] = e[r]
    <2> HIDE DEF e
    <2>1. QED BY <1>1, <1>7, <1>8, SameFunction
  <1>10. e[r] = Round80(a, f, to, r, first, jump, r)
    BY <1>1
  <1>11. QED BY <1>5, <1>9, <1>10

LEMMA Delays80 == ASSUME IsGuest(m) PROVE DelayIsStepping
  <1> SUFFICES ASSUME NEW to \in {"A", "other"}, NEW r \in LOOPS, NEW jump \in DOMAIN TJump
               PROVE  z80delay(dcr(m, to, Wrap(r + 1)), to, r, jump)
                        = Stepped(dcr(m, to, Wrap(r + 1)), to, r, jump)
    BY Zenon DEF DelayIsStepping
  <1>1. r \in Byte \ {0} /\ r \in Nat \ {0}
    BY LoopsAssumption, ByteSmall
  <1>2. PICK v : v = Wrap(r + 1)
    OBVIOUS
  <1>3. Wrap(v - 1) = r
    BY <1>1, <1>2, ByteSmall
  <1>4. PICK s : s = dcr(m, to, v)
    OBVIOUS
  <1>14. PICK a : a = m.a
    OBVIOUS
  <1>5. PICK f : s = Guest(IF to = "A" THEN r ELSE a, f, Dec80(v, r))
    <2>1. \E f : dcr(m, to, v) = Guest(IF to = "A" THEN Wrap(v - 1) ELSE m.a, f, Dec80(v, Wrap(v - 1)))
      BY FirstDcr
    <2>2. QED BY <1>3, <1>4, <1>14, <2>1
  <1>6. s = Round80(a, f, to, r, v, jump, 0).g
    <2>1. r - 0 = r
      BY <1>1
    <2>2. QED BY <1>5, <2>1 DEF Round80
  <1>7. PICK t \in Nat : TJump[jump].taken = t
    BY DEF TJump
  <1>13. PICK last \in Nat : TJump[jump].last = last
    BY DEF TJump
  <1>8. PICK end : end = Guest(IF to = "A" THEN 0 ELSE a, f, Dec80(1, 0))
    OBVIOUS
  <1>9. Stepped(s, to, r, jump)
          = [g |-> end, insns |-> 2 * r + 1, owed |-> (r + 1) * T_DEC + r * t + last]
    <2>1. Round80(a, f, to, r, v, jump, r) = [g |-> end, insns |-> 2 * r, owed |-> T_DEC + r * (t + T_DEC)]
      <3>1. r - r = 0 /\ r # 0 /\ r - r + 1 = 1
        BY <1>1
      <3>2. QED BY <1>7, <1>8, <3>1 DEF Round80
    <2>2. Stepped(s, to, r, jump)
            = Finish80(Round80(a, f, to, r, v, jump, r), jump)
      BY <1>1, <1>6, SteppedIs
    <2>3. PICK owed : owed = T_DEC + r * (t + T_DEC)
      OBVIOUS
    <2>4. Stepped(s, to, r, jump) = [g |-> end, insns |-> 2 * r + 1, owed |-> owed + last]
      BY <1>13, <2>1, <2>2, <2>3, FinishIs
    <2>5. owed + last = (r + 1) * T_DEC + r * t + last
      <3>1. PICK x \in Nat : x = r * t
        BY <1>1, <1>7
      <3>2. r * (t + 4) = x + r * 4
        BY <1>1, <1>7, <3>1
      <3>3. owed = 4 + (x + r * 4)
        BY <2>3, <3>2 DEF T_DEC
      <3>4. 4 + (x + r * 4) + last = (r + 1) * 4 + x + last
        BY <1>1, <1>13, <3>1
      <3>5. QED BY <3>1, <3>3, <3>4 DEF T_DEC
    <2>6. QED BY <2>4, <2>5
  <1>10. lazy(Store(s, to, 0), "DCR", 1, 1, 0, 0) = end
    <2>1. PICK b : Store(s, to, 0) = Guest(b, f, Dec80(v, r)) /\ b = (IF to = "A" THEN 0 ELSE a)
      BY <1>5, AGuest DEF Store
    <2>2. Dec80(v, r).lz = "DCR"
      BY DEF Dec80
    <2>3. QED BY <1>8, <2>1, <2>2, LazyAgain DEF Dec80
  <1>11. z80delay(s, to, r, jump)
           = [g |-> end, insns |-> 2 * r + 1, owed |-> (r + 1) * T_DEC + r * t + last]
    BY <1>7, <1>10, <1>13, Zenon DEF z80delay
  <1>12. QED BY <1>2, <1>4, <1>9, <1>11

LEMMA LastOfSquare ==
  ASSUME NEW P \in Nat, P > 1
  PROVE  (P * P - 1) % P = P - 1
  <1>1. PICK x \in Nat, y \in Nat : x = (P - 1) * P /\ y = P - 1
    OBVIOUS
  <1>2. (x + y) % P = y
    BY <1>1
  <1>3. QED BY <1>1, <1>2

(* A register of a byte or a word.                                         *)
LEMMA Widths ==
  ASSUME NEW w \in BOOLEAN
  PROVE  \E P \in Nat, Q \in Nat : /\ Bound(w) = P /\ 2^Width(w) = P /\ 2^(2 * BITS) = Q
                                   /\ P > 1 /\ P <= Q /\ (Q - 1) % P # 0
  <1>1. PICK B \in Nat : B = 2^BITS /\ B > 1 /\ 2^(2 * BITS) = B * B /\ B * B \in Nat /\ B * B >= B
    BY Sizes
  <1>2. PICK Q \in Nat : Q = B * B
    BY <1>1
  <1>3. Q > 1 /\ B <= Q
    BY <1>1, <1>2
  <1>4. CASE w
    <2>1. 2^Width(w) = Q /\ Bound(w) = Q
      BY <1>1, <1>2, <1>4 DEF Width, Bound
    <2>2. (Q - 1) % Q = Q - 1
      BY <1>3
    <2>3. QED BY <1>1, <1>2, <1>3, <2>1, <2>2
  <1>5. CASE ~ w
    <2>1. 2^Width(w) = B /\ Bound(w) = B
      BY <1>1, <1>5 DEF Width, Bound
    <2>2. (Q - 1) % B # 0
      <3>1. (B * B - 1) % B = B - 1
        BY <1>1, LastOfSquare
      <3>2. QED BY <1>1, <1>2, <3>1
    <2>3. QED BY <1>1, <1>2, <1>3, <2>1, <2>2
  <1>6. QED BY <1>4, <1>5

(* What the first DEC leaves, and what those after it do.                  *)
LEMMA Counting ==
  ASSUME NEW w \in BOOLEAN, NEW r \in Word \ {0}, r < Bound(w)
  PROVE  /\ r \in Nat \ {0}
         /\ Masked(i16(Masked(r + 1, w) - 1), w) # 0
         /\ \A i \in 0 .. r - 1 : i16(r - i - 1) = r - i - 1
         /\ \A i \in 1 .. r - 1 : Masked(r - i, w) # 0
  <1>1. PICK P \in Nat, Q \in Nat : /\ Bound(w) = P /\ 2^Width(w) = P /\ 2^(2 * BITS) = Q
                                    /\ P > 1 /\ P <= Q /\ (Q - 1) % P # 0
    BY Widths
  <1>2. r \in 1 .. P - 1
    BY <1>1 DEF Word
  <1>3. ((((r + 1) % P) - 1) % Q) % P # 0
    <2>1. CASE r + 1 = P
      <3>1. (r + 1) % P = 0
        BY <1>1, <2>1
      <3>2. (0 - 1) % Q = Q - 1
        BY <1>1
      <3>3. QED BY <1>1, <3>1, <3>2
    <2>2. CASE r + 1 < P
      <3>1. (r + 1) % P = r + 1
        BY <1>1, <1>2, <2>2
      <3>2. r % Q = r /\ r % P = r
        BY <1>1, <1>2
      <3>3. (r + 1) - 1 = r
        BY <1>2
      <3>4. QED BY <1>2, <3>1, <3>2, <3>3
    <2>3. QED BY <1>1, <1>2, <2>1, <2>2
  <1>4. \A i \in 0 .. r - 1 : (r - i - 1) % Q = r - i - 1
    BY <1>1, <1>2
  <1>5. \A i \in 1 .. r - 1 : (r - i) % P # 0
    BY <1>1, <1>2
  <1>6. r \in Nat \ {0}
    BY <1>1, <1>2
  <1>7. Masked(i16(Masked(r + 1, w) - 1), w) # 0
    BY <1>1, <1>3 DEF Masked, i16
  <1>8. \A i \in 0 .. r - 1 : i16(r - i - 1) = r - i - 1
    BY <1>1, <1>4 DEF i16
  <1>9. \A i \in 1 .. r - 1 : Masked(r - i, w) # 0
    BY <1>1, <1>5 DEF Masked
  <1>10. QED BY <1>6, <1>7, <1>8, <1>9

-----------------------------------------------------------------------------
(* The delay loop of the 8086, stepped.                                    *)
Step86(w, r, form, s, k) ==
  IF ~ i86lcond(s.h, "E", TRUE) THEN s
  ELSE [h |-> decop(s.h, w, r - k + 1), insns |-> s.insns + 2,
        owed |-> s.owed + ClocksOf.taken + ClocksOf[form]]
Steps86(s, w, r, form, f) ==
  f = [k \in 0 .. r |-> IF k = 0 THEN [h |-> s, insns |-> 0, owed |-> ClocksOf[form]]
                        ELSE Step86(w, r, form, f[k - 1], k)]
Dec86(w, la, lr) == [lz |-> "DEC", lw |-> w, la |-> la, lb |-> 1, lr |-> lr, lc |-> 0]
After86(fl, w, la, lr) == [fl |-> fl, rec |-> Dec86(w, la, lr)]
Round86(fl, w, r, la, lr, form, k) ==
  [h |-> IF k = 0 THEN After86(fl, w, la, lr) ELSE After86(fl, w, r - k + 1, r - k),
   insns |-> 2 * k, owed |-> ClocksOf[form] + k * (ClocksOf.taken + ClocksOf[form])]
Finish86(x) == [h |-> x.h, insns |-> x.insns + 1, owed |-> x.owed + ClocksOf.last]

LEMMA JumpOnZero86 ==
  ASSUME NEW fl, NEW w, NEW la, NEW lr
  PROVE  i86lcond(After86(fl, w, la, lr), "E", TRUE) <=> Masked(lr, w) # 0
  <1>1. PICK s : s = After86(fl, w, la, lr)
    OBVIOUS
  <1>2. s.rec.lz = "DEC" /\ s.rec.lr = lr /\ s.rec.lw = w
    BY <1>1 DEF After86, Dec86
  <1>3. i86lcond(s, "E", TRUE) = ((Masked(s.rec.lr, s.rec.lw) = 0) # TRUE)
    BY <1>2 DEF i86lcond
  <1>4. QED BY <1>1, <1>2, <1>3

LEMMA DecAgain ==
  ASSUME NEW fl, NEW w, NEW la, NEW lr, NEW v
  PROVE  decop(After86(fl, w, la, lr), w, v) = After86(fl, w, v, i16(v - 1))
  <1>1. PICK x : x = i16(v - 1)
    OBVIOUS
  <1>2. Dec86(w, la, lr).lz = "DEC"
    BY DEF Dec86
  <1>3. i86lazy([fl |-> fl, rec |-> Dec86(w, la, lr)], "DEC", w, v, 1, x, 0)
          = [fl |-> fl, rec |-> Dec86(w, v, x)]
    BY <1>2, LazyAgain86 DEF Dec86
  <1>4. QED BY <1>1, <1>3 DEF decop, After86

LEMMA ClocksAre ==
  ASSUME NEW form \in {"dec", "decrm"}
  PROVE  ClocksOf[form] \in Nat /\ ClocksOf.taken \in Nat /\ ClocksOf.last \in Nat
  BY DEF ClocksOf

LEMMA RoundsAre86 ==
  ASSUME NEW w \in BOOLEAN, NEW r \in Word \ {0}, r < Bound(w), NEW fl, NEW la, NEW lr,
         Masked(lr, w) # 0, NEW form \in {"dec", "decrm"}, NEW k \in 1 .. r
  PROVE  Step86(w, r, form, Round86(fl, w, r, la, lr, form, k - 1), k)
           = Round86(fl, w, r, la, lr, form, k)
  <1>1. PICK j \in Nat : j = k - 1
    OBVIOUS
  <1>0. r \in Nat \ {0}
    BY Counting
  <1>2. /\ r \in Nat /\ j \in 0 .. r - 1 /\ k = j + 1 /\ k # 0 /\ r - k + 1 = r - j
        /\ (r - j) - 1 = r - k
    BY <1>0, <1>1
  <1>3. PICK s : s = Round86(fl, w, r, la, lr, form, j)
    OBVIOUS
  <1>4. PICK u, x : s.h = After86(fl, w, u, x) /\ Masked(x, w) # 0
    <2>1. CASE j = 0
      BY <1>3, <2>1 DEF Round86
    <2>2. CASE j # 0
      <3>1. j \in 1 .. r - 1
        BY <1>2, <2>2
      <3>2. Masked(r - j, w) # 0
        BY <3>1, Counting
      <3>3. s.h = After86(fl, w, r - j + 1, r - j)
        BY <1>3, <2>2 DEF Round86
      <3>4. QED BY <3>2, <3>3
    <2>3. QED BY <2>1, <2>2
  <1>5. i86lcond(s.h, "E", TRUE)
    BY <1>4, JumpOnZero86
  <1>6. i16((r - k + 1) - 1) = r - k
    <2>1. i16(r - j - 1) = r - j - 1
      BY <1>2, Counting
    <2>2. QED BY <1>2, <2>1
  <1>7. decop(s.h, w, r - k + 1) = After86(fl, w, r - k + 1, r - k)
    BY <1>4, <1>6, DecAgain
  <1>8. PICK t \in Nat : t = ClocksOf.taken
    BY ClocksAre
  <1>9. PICK c \in Nat : c = ClocksOf[form]
    BY ClocksAre
  <1>10. s.insns + 2 = 2 * k
    BY <1>2, <1>3 DEF Round86
  <1>11. s.owed + t + c = c + k * (t + c)
    <2>1. s.owed = c + j * (t + c)
      BY <1>3, <1>8, <1>9 DEF Round86
    <2>2. PICK y \in Nat : y = t + c
      BY <1>8, <1>9
    <2>3. (j + 1) * y = j * y + y /\ j * y \in Nat
      BY <1>2, <2>2
    <2>4. s.owed = c + j * y /\ k * y = j * y + y
      BY <1>2, <2>1, <2>2, <2>3
    <2>5. QED BY <1>8, <1>9, <2>2, <2>3, <2>4
  <1>12. Step86(w, r, form, s, k)
           = [h |-> decop(s.h, w, r - k + 1), insns |-> s.insns + 2, owed |-> s.owed + t + c]
    BY <1>5, <1>8, <1>9 DEF Step86
  <1>13. Round86(fl, w, r, la, lr, form, k)
           = [h |-> After86(fl, w, r - k + 1, r - k), insns |-> 2 * k, owed |-> c + k * (t + c)]
    BY <1>2, <1>8, <1>9 DEF Round86
  <1>14. QED BY <1>1, <1>3, <1>7, <1>10, <1>11, <1>12, <1>13, Zenon

LEMMA SteppedIs86 ==
  ASSUME NEW w \in BOOLEAN, NEW r \in Word \ {0}, r < Bound(w), NEW fl, NEW la, NEW lr,
         Masked(lr, w) # 0, NEW form \in {"dec", "decrm"}, NEW s, s = After86(fl, w, la, lr)
  PROVE  Stepped86(s, w, r, form) = Finish86(Round86(fl, w, r, la, lr, form, r))
  <1> DEFINE e == [k \in 0 .. r |-> Round86(fl, w, r, la, lr, form, k)]
  <1>1. r \in Nat
    BY Counting
  <1>2. Round86(fl, w, r, la, lr, form, 0) = [h |-> s, insns |-> 0, owed |-> ClocksOf[form]]
    <2>1. PICK t \in Nat : t = ClocksOf.taken
      BY ClocksAre
    <2>2. PICK c \in Nat : c = ClocksOf[form]
      BY ClocksAre
    <2>3. 2 * 0 = 0 /\ c + 0 * (t + c) = c
      BY <2>1, <2>2
    <2>4. QED BY <2>1, <2>2, <2>3 DEF Round86
  <1>3. Steps86(s, w, r, form, e)
    <2>1. ASSUME NEW k \in 0 .. r
          PROVE  Round86(fl, w, r, la, lr, form, k)
                   = IF k = 0 THEN [h |-> s, insns |-> 0, owed |-> ClocksOf[form]]
                     ELSE Step86(w, r, form, e[k - 1], k)
      <3>1. CASE k = 0
        BY <1>2, <3>1
      <3>2. CASE k # 0
        <4>1. k \in 1 .. r /\ k - 1 \in 0 .. r
          BY <1>1, <3>2
        <4>2. e[k - 1] = Round86(fl, w, r, la, lr, form, k - 1)
          BY <4>1
        <4>3. Step86(w, r, form, Round86(fl, w, r, la, lr, form, k - 1), k)
                = Round86(fl, w, r, la, lr, form, k)
          BY <4>1, RoundsAre86
        <4>4. QED BY <3>2, <4>2, <4>3
      <3>3. QED BY <3>1, <3>2
    <2>2. e = [k \in 0 .. r |-> IF k = 0 THEN [h |-> s, insns |-> 0, owed |-> ClocksOf[form]]
                                ELSE Step86(w, r, form, e[k - 1], k)]
      BY <2>1
    <2>3. QED BY <2>2, Zenon DEF Steps86
  <1> DEFINE f == CHOOSE f : Steps86(s, w, r, form, f)
  <1>4. Steps86(s, w, r, form, f)
    BY <1>3
  <1>5. Stepped86(s, w, r, form) = Finish86(f[r])
    BY Zenon DEF Stepped86, Steps86, Step86, Finish86
  <1> HIDE DEF f
  <1>6. \A k \in 0 .. r : f[k] = IF k = 0 THEN [h |-> s, insns |-> 0, owed |-> ClocksOf[form]]
                                ELSE Step86(w, r, form, f[k - 1], k)
    BY <1>4 DEF Steps86
  <1>7. f[0] = e[0]
    BY <1>1, <1>2, <1>6
  <1>8. ASSUME NEW k \in 1 .. r, f[k - 1] = e[k - 1] PROVE f[k] = e[k]
    <2>1. k \in 0 .. r /\ k - 1 \in 0 .. r /\ k # 0
      BY <1>1
    <2>2. e[k - 1] = Round86(fl, w, r, la, lr, form, k - 1)
          /\ e[k] = Round86(fl, w, r, la, lr, form, k)
      BY <2>1
    <2>3. f[k] = Step86(w, r, form, f[k - 1], k)
      BY <1>6, <2>1
    <2>4. Step86(w, r, form, Round86(fl, w, r, la, lr, form, k - 1), k)
                = Round86(fl, w, r, la, lr, form, k)
      BY RoundsAre86
    <2>5. QED BY <1>8, <2>2, <2>3, <2>4
  <1>9. f[r] = e[r]
    <2> HIDE DEF e
    <2>1. QED BY <1>1, <1>7, <1>8, SameFunction
  <1>10. e[r] = Round86(fl, w, r, la, lr, form, r)
    BY <1>1
  <1>11. QED BY <1>5, <1>9, <1>10

LEMMA Delays86 == ASSUME IsGuest86(g) PROVE WideDelayIsStepping
  <1> SUFFICES ASSUME NEW w \in BOOLEAN, NEW form \in {"dec", "decrm"},
                      NEW r \in {l \in LOOPS86 : l < Bound(w)}
               PROVE  delay(decop(g, w, Masked(r + 1, w)), w, r, form)
                        = Stepped86(decop(g, w, Masked(r + 1, w)), w, r, form)
    BY Zenon DEF WideDelayIsStepping
  <1>1. r \in Word \ {0} /\ r < Bound(w)
    BY Loops86Assumption
  <1>2. r \in Nat \ {0}
    BY <1>1, Counting
  <1>3. PICK v : v = Masked(r + 1, w)
    OBVIOUS
  <1>4. PICK x : x = i16(v - 1)
    OBVIOUS
  <1>5. Masked(x, w) # 0
    BY <1>1, <1>3, <1>4, Counting
  <1>6. PICK s : s = decop(g, w, v)
    OBVIOUS
  <1>7. PICK fl : s = After86(fl, w, v, x)
    <2>1. \E f : i86lazy(g, "DEC", w, v, 1, x, 0)
                   = [fl |-> f, rec |-> [lz |-> "DEC", lw |-> w, la |-> v, lb |-> 1, lr |-> x, lc |-> 0]]
      BY LazyGuest86
    <2>2. s = i86lazy(g, "DEC", w, v, 1, x, 0)
      BY <1>4, <1>6 DEF decop
    <2>3. QED BY <2>1, <2>2 DEF After86, Dec86
  <1>8. PICK t \in Nat : t = ClocksOf.taken
    BY ClocksAre
  <1>9. PICK c \in Nat : c = ClocksOf[form]
    BY ClocksAre
  <1>10. PICK last \in Nat : last = ClocksOf.last
    BY ClocksAre
  <1>11. PICK end : end = After86(fl, w, 1, 0)
    OBVIOUS
  <1>12. Stepped86(s, w, r, form)
           = [h |-> end, insns |-> 2 * r + 1, owed |-> (r + 1) * c + r * t + last]
    <2>1. Round86(fl, w, r, v, x, form, r) = [h |-> end, insns |-> 2 * r, owed |-> c + r * (t + c)]
      <3>1. r - r = 0 /\ r # 0 /\ r - r + 1 = 1
        BY <1>2
      <3>2. QED BY <1>8, <1>9, <1>11, <3>1 DEF Round86
    <2>2. Stepped86(s, w, r, form) = Finish86(Round86(fl, w, r, v, x, form, r))
      BY <1>1, <1>5, <1>7, SteppedIs86
    <2>3. PICK owed : owed = c + r * (t + c)
      OBVIOUS
    <2>4. Finish86(Round86(fl, w, r, v, x, form, r)) = [h |-> end, insns |-> 2 * r + 1, owed |-> owed + last]
      BY <1>10, <2>1, <2>3 DEF Finish86
    <2>5. owed + last = (r + 1) * c + r * t + last
      <3>1. PICK y \in Nat, z \in Nat : y = r * t /\ z = r * c
        BY <1>2, <1>8, <1>9
      <3>2. r * (t + c) = y + z /\ (r + 1) * c = z + c
        BY <1>2, <1>8, <1>9, <3>1
      <3>3. QED BY <1>9, <1>10, <2>3, <3>1, <3>2
    <2>6. QED BY <2>2, <2>4, <2>5
  <1>13. i86lazy(s, "DEC", w, 1, 1, 0, 0) = end
    <2>1. Dec86(w, v, x).lz = "DEC"
      BY DEF Dec86
    <2>2. i86lazy([fl |-> fl, rec |-> Dec86(w, v, x)], "DEC", w, 1, 1, 0, 0)
            = [fl |-> fl, rec |-> Dec86(w, 1, 0)]
      BY <2>1, LazyAgain86 DEF Dec86
    <2>3. QED BY <1>7, <1>11, <2>2 DEF After86
  <1>14. delay(s, w, r, form)
           = [h |-> end, insns |-> 2 * r + 1, owed |-> (r + 1) * c + r * t + last]
    BY <1>8, <1>9, <1>10, <1>13, Zenon DEF delay
  <1>15. QED BY <1>3, <1>6, <1>12, <1>14

(* A delay loop run to its end at once leaves the guest, the count of      *)
(* instructions and the clocks owed that the loop stepped would, after any *)
(* sequence of instructions, for words of any width, every register width  *)
(* and every number of rounds: z80delay(), delay().                        *)
THEOREM DelaysLeaveNothingOut == ExecutorsSpec => []DelaysAreSteps
  <1>1. ExecutorInv => DelaysAreSteps
    BY Delays80, Delays86 DEF ExecutorInv, DelaysAreSteps
  <1>2. QED BY <1>1, ExecutorsInductive, PTL DEF ExecutorsSpec
-----------------------------------------------------------------------------
(* The flags.                                                              *)
Rec(cls, a, b, r, c) == [lz |-> cls, la |-> a, lb |-> b, lr |-> r, lc |-> c]
Keepers == {"INR", "DCR", "BIT", "CPBLK", "LDBLK"}

(* What a sum and a difference leave, in the record and by arithmetic.     *)
LEMMA WrapIs ==
  ASSUME NEW x \in Int
  PROVE  /\ Wrap(x) \in Byte
         /\ \E k \in Int : k = x \div 2^BITS /\ Wrap(x) = x - k * 2^BITS
  <1>1. PICK P \in Nat \ {0} : P = 2^BITS
    BY ByteIs
  <1>2. PICK q \in Int, d \in 0 .. P - 1 : x = q * P + d /\ q = x \div P /\ d = x % P
    BY <1>1, Division
  <1>3. d = x - q * P
    BY <1>2
  <1>4. QED BY <1>1, <1>2, <1>3 DEF Wrap, Byte

LEMMA OneOver ==
  ASSUME NEW P \in Nat \ {0}, NEW d \in 0 .. P - 1, NEW x, x = P + d
  PROVE  x % P = d
  OBVIOUS

LEMMA WrapSum ==
  ASSUME NEW a \in Byte, NEW b \in Byte, NEW c \in {0, 1}
  PROVE  /\ Wrap(a + b + c) \in Byte
         /\ IF a + b + c >= 2^BITS THEN Wrap(a + b + c) = a + b + c - 2^BITS
            ELSE Wrap(a + b + c) = a + b + c
  <1>1. PICK P \in Nat \ {0} : P = 2^BITS
    BY ByteIs
  <1>2. a \in 0 .. P - 1 /\ b \in 0 .. P - 1
    BY <1>1 DEF Byte
  <1>3. PICK x \in Int : x = a + b + c
    BY <1>2
  <1>4. x \in 0 .. 2 * P - 1
    BY <1>2, <1>3
  <1>5. IF x >= P THEN x % P = x - P ELSE x % P = x
    <2>1. CASE x >= P
      <3>1. x - P \in 0 .. P - 1 /\ x = P + (x - P)
        BY <1>4, <2>1
      <3>2. x % P = x - P
        BY <1>1, <3>1, OneOver
      <3>3. QED BY <2>1, <3>2
    <2>2. CASE ~ (x >= P)
      BY <1>4, <2>2
    <2>3. QED BY <2>1, <2>2
  <1>6. x % P \in 0 .. P - 1
    BY <1>1, <1>3
  <1>7. QED BY <1>1, <1>3, <1>5, <1>6 DEF Wrap, Byte

LEMMA WrapDifference ==
  ASSUME NEW a \in Byte, NEW b \in Byte, NEW c \in {0, 1}
  PROVE  /\ Wrap(a - b - c) \in Byte
         /\ IF a < b + c THEN Wrap(a - b - c) = a - b - c + 2^BITS
            ELSE Wrap(a - b - c) = a - b - c
  <1>1. PICK P \in Nat \ {0} : P = 2^BITS
    BY ByteIs
  <1>2. a \in 0 .. P - 1 /\ b \in 0 .. P - 1
    BY <1>1 DEF Byte
  <1>3. PICK x \in Int : x = a - b - c
    BY <1>2
  <1>4. x \in -P .. P - 1
    BY <1>2, <1>3
  <1>5. IF x < 0 THEN x % P = x + P ELSE x % P = x
    BY <1>1, <1>4
  <1>6. x % P \in 0 .. P - 1
    BY <1>1, <1>3
  <1>7. x < 0 <=> a < b + c
    BY <1>2, <1>3
  <1>8. QED BY <1>1, <1>3, <1>5, <1>6, <1>7 DEF Wrap, Byte

LEMMA Regroup ==
  ASSUME NEW k \in Int, NEW H \in Int, NEW K \in Int, NEW t, t = k * K
  PROVE  k * (2 * H * K) = 2 * t * H
  OBVIOUS

LEMMA CrossedSum ==
  ASSUME NEW a \in Byte, NEW b \in Byte, NEW c \in {0, 1}, NEW rec,
         rec.la = a, rec.lb = b, rec.lr = Wrap(a + b + c)
  PROVE  Crossed(rec) <=> Digit(a) + Digit(b) + c >= 2^HALF
  <1>1. HALF \in Nat /\ BITS \in Nat /\ HALF < BITS /\ BITS <= 2 * BITS
    BY ByteIs
  <1>2. PICK H \in Nat \ {0}, K \in Nat \ {0} : H = 2^HALF /\ 2^BITS = 2 * H * K
    BY <1>1, Pairs
  <1>3. a \in Int /\ b \in Int
    BY ByteIs DEF Byte
  <1>4. PICK x \in Int : x = a + b + c
    BY <1>3
  <1>5. PICK k \in Int : Wrap(x) = x - k * 2^BITS
    BY WrapIs
  <1>6. PICK t \in Int : t = k * K
    OBVIOUS
  <1>7. k * 2^BITS = 2 * t * H
    BY <1>2, <1>6, Regroup
  <1>8. PICK r \in Int : r = Wrap(x)
    BY <1>4, WrapIs DEF Byte
  <1>9. PICK w \in Int : w = 2 * t * H
    BY <1>6
  <1>10. r = a + b + c - 2 * t * H
    <2>1. r = x - w
      BY <1>5, <1>7, <1>8, <1>9, ByteIs
    <2>2. r = a + b + c - w
      BY <1>3, <1>4, <2>1
    <2>3. QED BY <1>9, <2>2
  <1>11. Crosses(H, a, b, r)
           <=> (a % H) + (b % H) + c >= H
    BY <1>3, <1>10, CrossingSum, Zenon
  <1>12. QED BY <1>2, <1>4, <1>8, <1>11 DEF Crossed, Crosses, Bit, Digit

LEMMA CrossedDifference ==
  ASSUME NEW a \in Byte, NEW b \in Byte, NEW c \in {0, 1}, NEW rec,
         rec.la = a, rec.lb = b, rec.lr = Wrap(a - b - c)
  PROVE  ~ Crossed(rec) <=> Digit(a) >= Digit(b) + c
  <1>1. HALF \in Nat /\ BITS \in Nat /\ HALF < BITS /\ BITS <= 2 * BITS
    BY ByteIs
  <1>2. PICK H \in Nat \ {0}, K \in Nat \ {0} : H = 2^HALF /\ 2^BITS = 2 * H * K
    BY <1>1, Pairs
  <1>3. a \in Int /\ b \in Int
    BY ByteIs DEF Byte
  <1>4. PICK x \in Int : x = a - b - c
    BY <1>3
  <1>5. PICK k \in Int : Wrap(x) = x - k * 2^BITS
    BY WrapIs
  <1>6. PICK t \in Int : t = (0 - k) * K
    OBVIOUS
  <1>7. (0 - k) * 2^BITS = 2 * t * H
    BY <1>2, <1>6, Regroup
  <1>8. PICK r \in Int : r = Wrap(x)
    BY <1>4, WrapIs DEF Byte
  <1>9. PICK w \in Int : w = 2 * t * H
    BY <1>6
  <1>10. r = a - b - c + 2 * t * H
    <2>1. r = x + w
      BY <1>5, <1>7, <1>8, <1>9, ByteIs
    <2>2. r = a - b - c + w
      BY <1>3, <1>4, <2>1
    <2>3. QED BY <1>9, <2>2
  <1>11. Crosses(H, a, b, r)
           <=> a % H < (b % H) + c
    BY <1>3, <1>10, CrossingDifference, Zenon
  <1>12. Crossed(rec) <=> Digit(a) < Digit(b) + c
    BY <1>2, <1>4, <1>8, <1>11 DEF Crossed, Crosses, Bit, Digit
  <1>13. Digit(a) \in Int /\ Digit(b) \in Int
    BY <1>2, <1>3 DEF Digit
  <1>14. QED BY <1>12, <1>13

LEMMA SumFlags ==
  ASSUME NEW a \in Byte, NEW b \in Byte, NEW c \in {0, 1}, NEW f
  PROVE  z80flags(f, Rec("ADD", a, b, Wrap(a + b + c), c)) = OfSum(a, b, c)
  <1>1. PICK r \in Byte : r = Wrap(a + b + c)
    BY WrapSum
  <1>2. PICK rec : rec = Rec("ADD", a, b, r, c)
    OBVIOUS
  <1>3. rec.lz = "ADD" /\ rec.la = a /\ rec.lb = b /\ rec.lr = r /\ rec.lc = c
    BY <1>2 DEF Rec
  <1>4. CarryOf(rec) <=> a + b + c >= 2^BITS
    <2>1. PICK P \in Nat \ {0} : P = 2^BITS
      BY ByteIs
    <2>2. a \in 0 .. P - 1 /\ b \in 0 .. P - 1
      BY <2>1 DEF Byte
    <2>3. IF a + b + c >= P THEN r = a + b + c - P ELSE r = a + b + c
      BY <1>1, <2>1, WrapSum
    <2>4. CarryOf(rec) <=> IF c = 1 THEN r <= a ELSE r < a
      BY <1>3 DEF CarryOf
    <2>5. (IF c = 1 THEN r <= a ELSE r < a) <=> a + b + c >= P
      BY <2>2, <2>3
    <2>6. QED BY <2>1, <2>4, <2>5
  <1>5. Crossed(rec) <=> Digit(a) + Digit(b) + c >= 2^HALF
    BY <1>1, <1>3, CrossedSum
  <1>6. z80flags(f, rec) = ByResult(r) \cup When(CarryOf(rec), "CY") \cup When(Crossed(rec), "AC")
    BY <1>3 DEF z80flags
  <1>7. QED BY <1>1, <1>2, <1>4, <1>5, <1>6 DEF OfSum, Arithmetic, When

LEMMA DifferenceFlags ==
  ASSUME NEW a \in Byte, NEW b \in Byte, NEW c \in {0, 1}, NEW f
  PROVE  z80flags(f, Rec("SUB", a, b, Wrap(a - b - c), c)) = OfDifference(a, b, c)
  <1>1. PICK r \in Byte : r = Wrap(a - b - c)
    BY WrapDifference
  <1>2. PICK rec : rec = Rec("SUB", a, b, r, c)
    OBVIOUS
  <1>3. rec.lz = "SUB" /\ rec.la = a /\ rec.lb = b /\ rec.lr = r /\ rec.lc = c
    BY <1>2 DEF Rec
  <1>4. CarryOf(rec) <=> a < b + c
    <2>1. a \in Int /\ b \in Int
      BY ByteIs DEF Byte
    <2>2. CarryOf(rec) <=> IF c = 1 THEN a <= b ELSE a < b
      BY <1>3 DEF CarryOf
    <2>3. QED BY <2>1, <2>2
  <1>5. ~ Crossed(rec) <=> Digit(a) >= Digit(b) + c
    BY <1>1, <1>3, CrossedDifference
  <1>6. z80flags(f, rec) = ByResult(r) \cup When(CarryOf(rec), "CY") \cup When(~ Crossed(rec), "AC")
    BY <1>3 DEF z80flags
  <1>7. QED BY <1>1, <1>2, <1>4, <1>5, <1>6 DEF OfDifference, Arithmetic, When

Classes == {"NONE", "ADD", "SUB", "AND", "LOG", "INR", "DCR", "ROT", "BIT", "LDBLK", "CPBLK"}
(* The classes that keep flags find them in f.                             *)
LEMMA ResultsOnly == ASSUME NEW r PROVE ByResult(r) \subseteq {"ZE", "SI", "PA"}
  BY DEF ByResult, When

LEMMA SumKeeping ==
  ASSUME NEW v \in Byte, NEW f
  PROVE  /\ z80flags(f, Rec("INR", v, 1, Wrap(v + 1), 0)) = (f \cap {"CY"}) \cup (OfSum(v, 1, 0) \ {"CY"})
         /\ Wrap(v + 1) \in Byte
  <1>1. v \in Int /\ 1 \in Byte /\ v + 1 + 0 = v + 1
    BY ByteIs DEF Byte
  <1>2. PICK r \in Byte : r = Wrap(v + 1) /\ r = Wrap(v + 1 + 0)
    BY <1>1, WrapSum
  <1>3. PICK rec : rec = Rec("INR", v, 1, r, 0)
    OBVIOUS
  <1>4. rec.lz = "INR" /\ rec.la = v /\ rec.lb = 1 /\ rec.lr = r /\ rec.lc = 0
    BY <1>3 DEF Rec
  <1>5. Crossed(rec) <=> Digit(v) + Digit(1) + 0 >= 2^HALF
    BY <1>1, <1>2, <1>4, CrossedSum
  <1>6. z80flags(f, rec) = ByResult(r) \cup (f \cap {"CY"}) \cup When(Crossed(rec), "AC")
    BY <1>4 DEF z80flags
  <1>7. OfSum(v, 1, 0) \ {"CY"} = ByResult(r) \cup When(Crossed(rec), "AC")
    BY <1>2, <1>5, ResultsOnly DEF OfSum, Arithmetic, When
  <1>8. QED BY <1>2, <1>3, <1>6, <1>7

LEMMA DifferenceKeeping ==
  ASSUME NEW v \in Byte, NEW f
  PROVE  /\ z80flags(f, Rec("DCR", v, 1, Wrap(v - 1), 0)) = (f \cap {"CY"}) \cup (OfDifference(v, 1, 0) \ {"CY"})
         /\ Wrap(v - 1) \in Byte
  <1>1. v \in Int /\ 1 \in Byte /\ v - 1 - 0 = v - 1
    BY ByteIs DEF Byte
  <1>2. PICK r \in Byte : r = Wrap(v - 1) /\ r = Wrap(v - 1 - 0)
    BY <1>1, WrapDifference
  <1>3. PICK rec : rec = Rec("DCR", v, 1, r, 0)
    OBVIOUS
  <1>4. rec.lz = "DCR" /\ rec.la = v /\ rec.lb = 1 /\ rec.lr = r /\ rec.lc = 0
    BY <1>3 DEF Rec
  <1>5. ~ Crossed(rec) <=> Digit(v) >= Digit(1) + 0
    BY <1>1, <1>2, <1>4, CrossedDifference
  <1>6. z80flags(f, rec) = ByResult(r) \cup (f \cap {"CY"}) \cup When(~ Crossed(rec), "AC")
    BY <1>4 DEF z80flags
  <1>7. OfDifference(v, 1, 0) \ {"CY"} = ByResult(r) \cup When(~ Crossed(rec), "AC")
    BY <1>2, <1>5, ResultsOnly DEF OfDifference, Arithmetic, When
  <1>8. QED BY <1>2, <1>3, <1>6, <1>7

LEMMA CompareKeeping ==
  ASSUME NEW a \in Byte, NEW v \in Byte, NEW f, NEW more \in BOOLEAN, NEW c, NEW p, NEW r \in Byte,
         c = IF more THEN 1 ELSE 0, p = When(more, "PA"), r = Wrap(a - v)
  PROVE  z80flags(f, Rec("CPBLK", a, v, r, c))
           = (f \cap {"CY"}) \cup (((OfDifference(a, v, 0) \ {"PA"}) \cup p) \ {"CY"})
  <1>1. a \in Int /\ v \in Int /\ a - v - 0 = a - v
    BY ByteIs DEF Byte
  <1>2. r = Wrap(a - v - 0)
    BY <1>1
  <1>3. PICK rec : rec = Rec("CPBLK", a, v, r, c)
    OBVIOUS
  <1>4. rec.lz = "CPBLK" /\ rec.la = a /\ rec.lb = v /\ rec.lr = r /\ (rec.lc = 1 <=> more)
    BY <1>3 DEF Rec
  <1>5. ~ Crossed(rec) <=> Digit(a) >= Digit(v) + 0
    BY <1>2, <1>4, CrossedDifference
  <1>6. z80flags(f, rec) = (ByResult(r) \ {"PA"}) \cup When(rec.lc = 1, "PA") \cup (f \cap {"CY"})
                             \cup When(~ Crossed(rec), "AC")
    BY <1>4 DEF z80flags
  <1>7. OfDifference(a, v, 0) \ {"CY"} = ByResult(r) \cup When(~ Crossed(rec), "AC")
    BY <1>2, <1>5, ResultsOnly DEF OfDifference, Arithmetic, When
  <1>8. When(rec.lc = 1, "PA") = p /\ "CY" \notin p
        /\ "PA" \notin When(~ Crossed(rec), "AC")
    BY <1>4 DEF When
  <1>9. ((OfDifference(a, v, 0) \ {"PA"}) \cup p) \ {"CY"}
          = (ByResult(r) \ {"PA"}) \cup When(~ Crossed(rec), "AC") \cup p
    BY <1>7, <1>8
  <1>10. QED BY <1>2, <1>3, <1>6, <1>8, <1>9

LEMMA BitKeeping ==
  ASSUME NEW v \in Byte, NEW b \in 0 .. SIGN, NEW f
  PROVE  z80flags(f, Rec("BIT", v, b, And(v, 2^b), 0))
           = (f \cap {"CY"}) \cup (({"AC"} \cup When(~ Bit(v, b), "ZE") \cup When(~ Bit(v, b), "PA")
                                      \cup When(b = SIGN /\ Bit(v, b), "SI")) \ {"CY"})
  <1>1. PICK r : r = And(v, 2^b)
    OBVIOUS
  <1>2. PICK rec : rec = Rec("BIT", v, b, r, 0)
    OBVIOUS
  <1>3. rec.lz = "BIT" /\ rec.lr = r
    BY <1>2 DEF Rec
  <1>4. z80flags(f, rec) = ByResult(r) \cup (f \cap {"CY"}) \cup {"AC"}
    BY <1>3 DEF z80flags
  <1>5. ByResult(r) = When(~ Bit(v, b), "ZE") \cup When(~ Bit(v, b), "PA")
                        \cup When(b = SIGN /\ Bit(v, b), "SI")
    BY <1>1, MaskedFlags
  <1>6. "CY" \notin ByResult(r)
    BY ResultsOnly
  <1>7. ({"AC"} \cup ByResult(r)) \ {"CY"} = {"AC"} \cup ByResult(r)
    BY <1>6
  <1>8. {"AC"} \cup When(~ Bit(v, b), "ZE") \cup When(~ Bit(v, b), "PA") \cup When(b = SIGN /\ Bit(v, b), "SI")
          = {"AC"} \cup ByResult(r)
    BY <1>5
  <1>9. QED BY <1>1, <1>2, <1>4, <1>7, <1>8

(* What a byte rotates to is a byte.                                       *)
LEMMA RotatedByte ==
  ASSUME NEW v \in Byte, NEW c \in {0, 1}, NEW how \in Rotates
  PROVE  Rotated(how, v, c).r \in Byte
  <1>1. SIGN \in 0 .. 2 * BITS - 1 /\ SIGN \in 0 .. 2 * BITS /\ SIGN + 1 = BITS
    BY ByteIs
  <1>2. PICK h \in Nat \ {0} : h = 2^SIGN
    BY <1>1, Powers
  <1>3. 2^BITS = 2 * h
    BY <1>1, <1>2, Step2
  <1>4. v \in 0 .. 2 * h - 1 /\ Byte = 0 .. 2 * h - 1
    BY <1>3 DEF Byte
  <1>5. ASSUME NEW in \in {0, 1} PROVE Left(v, in).r \in Byte /\ Right(v, in).r \in Byte
    <2>1. (2 * v) % (2 * h) \in 0 .. 2 * h - 2
      <3>1. CASE v < h
        <4>1. (2 * v) % (2 * h) = 2 * v
          <5>1. PICK P \in Nat \ {0}, x \in Nat : P = 2 * h /\ x = 2 * v /\ x < P
            BY <1>2, <1>4, <3>1
          <5>2. x % P = x
            BY <5>1
          <5>3. QED BY <5>1, <5>2
        <4>2. QED BY <1>4, <3>1, <4>1
      <3>2. CASE ~ (v < h)
        <4>1. PICK P \in Nat \ {0}, d \in Nat : P = 2 * h /\ d = 2 * v - 2 * h /\ d \in 0 .. P - 2
          <5>1. 2 * h \in Nat \ {0} /\ 2 * v - 2 * h \in Nat /\ 2 * v - 2 * h \in 0 .. 2 * h - 2
            BY <1>2, <1>4, <3>2
          <5>2. QED BY <5>1
        <4>2. 2 * v = P + d /\ d \in 0 .. P - 1
          BY <1>4, <4>1
        <4>3. (2 * v) % P = d
          BY <4>1, <4>2, OneOver
        <4>4. QED BY <4>1, <4>3
      <3>3. QED BY <3>1, <3>2
    <2>2. Left(v, in).r = ((2 * v) % (2 * h)) + in
      BY <1>3 DEF Left, Wrap
    <2>3. PICK x \in 0 .. 2 * h - 2 : x = (2 * v) % (2 * h)
      BY <2>1
    <2>4. x + in \in 0 .. 2 * h - 1
      BY <1>2, <2>3
    <2>5. PICK y \in 0 .. h - 1 : y = v \div 2
      BY <1>2, <1>4
    <2>6. Right(v, in).r = y + in * h
      BY <1>2, <2>5 DEF Right
    <2>7. y + in * h \in 0 .. 2 * h - 1
      <3>1. CASE in = 0
        BY <1>2, <2>5, <3>1
      <3>2. CASE in = 1
        BY <1>2, <2>5, <3>2
      <3>3. QED BY <3>1, <3>2
    <2>8. QED BY <1>4, <2>2, <2>3, <2>4, <2>6, <2>7
  <1>6. Low(v) \in {0, 1}
    BY <1>4 DEF Low
  <1>7. Top(v) \in {0, 1}
    <2>1. CASE v < h
      <3>1. v \div h = 0
        BY <1>2, <1>4, <2>1
      <3>2. QED BY <1>2, <3>1 DEF Top
    <2>2. CASE ~ (v < h)
      <3>1. PICK d \in 0 .. h - 1 : v = 1 * h + d
        <4>1. v - h \in 0 .. h - 1 /\ v = 1 * h + (v - h)
          BY <1>2, <1>4, <2>2
        <4>2. QED BY <4>1
      <3>2. v \div h = 1
        BY <1>2, <3>1
      <3>3. QED BY <1>2, <3>2 DEF Top
    <2>3. QED BY <2>1, <2>2
  <1>8. \E in \in {0, 1} : Rotated(how, v, c) \in {Left(v, in), Right(v, in)}
    BY <1>6, <1>7 DEF Rotated, Rotates
  <1>9. QED BY <1>5, <1>8

LEMMA ShiftKeeping ==
  ASSUME NEW f, NEW v, NEW r, NEW cy \in BOOLEAN, NEW no, no = FALSE
  PROVE  z80flags(f, Rec("ROT", v, 0, r, IF cy THEN 1 ELSE 0)) = Arithmetic(cy, no, r)
  <1>1. PICK rec : rec = Rec("ROT", v, 0, r, IF cy THEN 1 ELSE 0)
    OBVIOUS
  <1>2. rec.lz = "ROT" /\ rec.lr = r /\ (rec.lc = 1 <=> cy)
    BY <1>1 DEF Rec
  <1>3. z80flags(f, rec) = ByResult(r) \cup When(CarryOf(rec), "CY")
    BY <1>2 DEF z80flags
  <1>4. CarryOf(rec) <=> cy
    BY <1>2 DEF CarryOf
  <1>5. QED BY <1>1, <1>3, <1>4 DEF Arithmetic, When

LEMMA BlockFlags ==
  ASSUME NEW f, NEW more \in BOOLEAN
  PROVE  z80flags(f, Rec("LDBLK", 0, 0, 0, IF more THEN 1 ELSE 0))
           = (f \cap {"SI", "ZE", "CY"}) \cup (When(more, "PA") \ {"SI", "ZE", "CY"})
  <1>1. PICK rec : rec = Rec("LDBLK", 0, 0, 0, IF more THEN 1 ELSE 0)
    OBVIOUS
  <1>2. rec.lz = "LDBLK" /\ (rec.lc = 1 <=> more)
    BY <1>1 DEF Rec
  <1>3. z80flags(f, rec) = (f \cap {"SI", "ZE", "CY"}) \cup When(rec.lc = 1, "PA")
    BY <1>2 DEF z80flags
  <1>4. QED BY <1>1, <1>2, <1>3 DEF When

(* Pairs.                                                                  *)
PairTop == PAIR - 1
LEMMA PairIs == \E S \in Nat \ {0} : /\ S = 2^PairTop /\ 2^PAIR = 2 * S /\ Word = 0 .. 2 * S - 1
                                     /\ BITS + HALF \in Nat /\ BITS + HALF < PAIR /\ PAIR \in Nat /\ PAIR <= 2 * BITS
  <1>1. PAIR = 2 * BITS /\ BITS \in Nat /\ HALF \in Nat \ {0} /\ HALF < BITS
    BY ByteIs DEF PAIR
  <1>2. PairTop \in 0 .. 2 * BITS - 1 /\ PairTop \in 0 .. 2 * BITS /\ PairTop + 1 = PAIR
        /\ BITS + HALF \in Nat /\ BITS + HALF < PAIR /\ PAIR \in Nat /\ PAIR <= 2 * BITS
    BY <1>1 DEF PairTop
  <1>3. PICK S \in Nat \ {0} : S = 2^PairTop
    BY <1>2, Powers
  <1>4. 2^PAIR = 2 * S
    BY <1>2, <1>3, Step2
  <1>5. QED BY <1>1, <1>2, <1>3, <1>4 DEF Word

(* The top bit of a word says whether it is in the upper half, and what it *)
(* is with a sign.                                                         *)
LEMMA Multiples ==
  ASSUME NEW B \in Nat \ {0}, NEW y \in Int, NEW k \in Int
  PROVE  (y + k * B) % B = y % B
  <1>1. PICK x \in Int : x = y + k * B
    OBVIOUS
  <1>2. x % B = y % B
    BY <1>1, Remainder
  <1>3. QED BY <1>1, <1>2

LEMMA SignIs ==
  ASSUME NEW S \in Nat \ {0}, NEW v \in 0 .. 2 * S - 1, NEW s, S = 2^s
  PROVE  Bit(v, s) <=> v >= S
  <1>1. CASE v < S
    <2>0. v \in 0 .. S - 1
      BY <1>1
    <2>1. v \div S = 0
      BY <2>0
    <2>2. QED BY <1>1, <2>1 DEF Bit
  <1>2. CASE ~ (v < S)
    <2>1. PICK d \in 0 .. S - 1 : v = 1 * S + d
      <3>1. v - S \in 0 .. S - 1 /\ v = 1 * S + (v - S)
        BY <1>2
      <3>2. QED BY <3>1
    <2>2. v \div S = 1
      BY <2>1
    <2>3. QED BY <1>2, <2>2 DEF Bit
  <1>3. QED BY <1>1, <1>2

LEMMA PairSum ==
  ASSUME NEW hl \in Word, NEW ss \in Word, NEW c \in {0, 1}, NEW r, NEW total,
         r = (hl + ss + c) % 2^PAIR, total = Signed(hl, PAIR) + Signed(ss, PAIR) + c
  PROVE  /\ Bit(hl, PairTop) # Bit(r, PairTop) /\ Bit(ss, PairTop) # Bit(r, PairTop)
              <=> total \notin -(2^PairTop) .. 2^PairTop - 1
         /\ PairBit(hl, ss, r, BITS + HALF)
              <=> (hl % 2^(BITS + HALF)) + (ss % 2^(BITS + HALF)) + c >= 2^(BITS + HALF)
         /\ total % 2^PAIR = r
  <1>1. PICK S \in Nat \ {0} : /\ S = 2^PairTop /\ 2^PAIR = 2 * S /\ Word = 0 .. 2 * S - 1
                               /\ BITS + HALF \in Nat /\ BITS + HALF < PAIR
                               /\ PAIR \in Nat /\ PAIR <= 2 * BITS
    BY PairIs
  <1>2. hl \in 0 .. 2 * S - 1 /\ ss \in 0 .. 2 * S - 1
    BY <1>1
  <1>3. PICK P \in Nat \ {0} : P = 2 * S
    OBVIOUS
  <1>4. PICK w \in 0 .. 2 * P - 1 : w = hl + ss + c
    BY <1>2, <1>3
  <1>5. PICK k \in {0, 1} : r = w - k * P /\ (k = 1 <=> w >= P) /\ r \in 0 .. P - 1
    <2>1. r = w % P
      BY <1>1, <1>3, <1>4
    <2>2. CASE w >= P
      <3>1. w - P \in 0 .. P - 1 /\ w = P + (w - P) /\ w - P = w - 1 * P
        BY <1>4, <2>2
      <3>2. r = w - P
        BY <2>1, <3>1, OneOver
      <3>3. QED BY <2>2, <3>1, <3>2
    <2>3. CASE ~ (w >= P)
      <3>1. r = w /\ w = w - 0 * P /\ w \in 0 .. P - 1
        BY <1>4, <2>1, <2>3
      <3>2. QED BY <2>3, <3>1
    <2>4. QED BY <2>2, <2>3
  <1>6. (Bit(hl, PairTop) <=> hl >= S) /\ (Bit(ss, PairTop) <=> ss >= S) /\ (Bit(r, PairTop) <=> r >= S)
    BY <1>1, <1>2, <1>3, <1>5, SignIs
  <1>7. /\ Signed(hl, PAIR) = IF hl >= S THEN hl - P ELSE hl
        /\ Signed(ss, PAIR) = IF ss >= S THEN ss - P ELSE ss
    BY <1>1, <1>3, <1>6 DEF Signed, Sign, PairTop
  <1>8. PICK x \in Int, y \in Int : /\ x = Signed(hl, PAIR) /\ y = Signed(ss, PAIR)
                                    /\ x = IF hl >= S THEN hl - P ELSE hl
                                    /\ y = IF ss >= S THEN ss - P ELSE ss
    <2>1. (IF hl >= S THEN hl - P ELSE hl) \in Int /\ (IF ss >= S THEN ss - P ELSE ss) \in Int
      BY <1>2
    <2>2. QED BY <1>7, <2>1, Zenon
  <1>9. total = x + y + c
    BY <1>8
  <1>10. ((hl >= S) # (r >= S) /\ (ss >= S) # (r >= S)) <=> x + y + c \notin -S .. S - 1
    <2>1. CASE k = 0
      BY <1>2, <1>3, <1>4, <1>5, <1>8, <2>1
    <2>2. CASE k = 1
      BY <1>2, <1>3, <1>4, <1>5, <1>8, <2>2
    <2>3. QED BY <2>1, <2>2
  <1>11. (Bit(hl, PairTop) # Bit(r, PairTop) /\ Bit(ss, PairTop) # Bit(r, PairTop))
           <=> total \notin -(2^PairTop) .. 2^PairTop - 1
    <2>1. /\ Bit(hl, PairTop) # Bit(r, PairTop) <=> (hl >= S) # (r >= S)
          /\ Bit(ss, PairTop) # Bit(r, PairTop) <=> (ss >= S) # (r >= S)
      <3>1. Bit(hl, PairTop) \in BOOLEAN /\ Bit(ss, PairTop) \in BOOLEAN /\ Bit(r, PairTop) \in BOOLEAN
        BY DEF Bit
      <3>2. QED BY <1>6, <3>1
    <2>2. total \notin -(2^PairTop) .. 2^PairTop - 1 <=> x + y + c \notin -S .. S - 1
      BY <1>1, <1>9
    <2>3. QED BY <1>10, <2>1, <2>2
  <1>12. PairBit(hl, ss, r, BITS + HALF)
           <=> (hl % 2^(BITS + HALF)) + (ss % 2^(BITS + HALF)) + c >= 2^(BITS + HALF)
    <2>1. PICK H \in Nat \ {0}, K \in Nat \ {0} : H = 2^(BITS + HALF) /\ 2^PAIR = 2 * H * K
      BY <1>1, Pairs
    <2>2. PICK t \in Int : t = k * K
      BY <1>5
    <2>3. k * P = 2 * t * H
      <3>1. k \in Int /\ H \in Int /\ K \in Int
        BY <1>5, <2>1
      <3>2. k * (2 * H * K) = 2 * t * H
        BY <2>2, <3>1, Regroup
      <3>3. P = 2 * H * K
        BY <1>1, <1>3, <2>1
      <3>4. QED BY <3>2, <3>3
    <2>4. PICK z \in Int : z = 2 * t * H
      BY <2>2
    <2>5. r = hl + ss + c - z
      <3>1. k * P = z
        BY <2>3, <2>4
      <3>2. r = w - z
        BY <1>5, <3>1
      <3>3. QED BY <1>2, <1>4, <2>4, <3>2
    <2>6. r = hl + ss + c - 2 * t * H /\ hl \in Int /\ ss \in Int /\ r \in Int
      BY <1>2, <1>5, <2>4, <2>5
    <2>7. Crosses(H, hl, ss, r) <=> (hl % H) + (ss % H) + c >= H
      BY <2>6, CrossingSum, Zenon
    <2>8. QED BY <2>1, <2>7 DEF Crosses, PairBit, Bit
  <1>13. total % P = r
    <2>1. PICK k1 \in {0, 1, 2} : x + y = hl + ss - k1 * P
      <3>1. x + y = hl + ss - 0 * P \/ x + y = hl + ss - 1 * P \/ x + y = hl + ss - 2 * P
        BY <1>2, <1>8
      <3>2. QED BY <3>1
    <2>2. total = r + (k - k1) * P
      <3>1. total = w - k1 * P /\ w = r + k * P
        BY <1>2, <1>4, <1>5, <1>8, <1>9, <2>1
      <3>2. (k - k1) * P = k * P - k1 * P
        BY <1>5, <2>1
      <3>3. PICK u1 \in Int, u2 \in Int : u1 = k * P /\ u2 = k1 * P
        BY <1>5, <2>1
      <3>4. total = r + (u1 - u2)
        BY <1>4, <1>5, <3>1, <3>3
      <3>5. QED BY <3>2, <3>3, <3>4
    <2>3. total \in Int /\ r \in Int /\ k - k1 \in Int
      BY <1>5, <1>8, <1>9, <2>1
    <2>4. total % P = r % P
      <3>1. PICK n \in Int : n = k - k1
        BY <2>3
      <3>2. total = r + n * P
        BY <2>2, <3>1
      <3>3. (r + n * P) % P = r % P
        BY <2>3, Multiples
      <3>4. QED BY <3>2, <3>3, Zenon
    <2>5. r % P = r
      BY <1>5
    <2>6. QED BY <2>4, <2>5
  <1>14. QED BY <1>1, <1>3, <1>11, <1>12, <1>13

LEMMA PairDifference ==
  ASSUME NEW hl \in Word, NEW ss \in Word, NEW c \in {0, 1}, NEW r, NEW total,
         r = (hl - ss - c) % 2^PAIR, total = Signed(hl, PAIR) - Signed(ss, PAIR) - c
  PROVE  /\ Bit(hl, PairTop) # Bit(ss, PairTop) /\ Bit(hl, PairTop) # Bit(r, PairTop)
              <=> total \notin -(2^PairTop) .. 2^PairTop - 1
         /\ PairBit(hl, ss, r, BITS + HALF)
              <=> hl % 2^(BITS + HALF) < (ss % 2^(BITS + HALF)) + c
         /\ total % 2^PAIR = r
  <1>1. PICK S \in Nat \ {0} : /\ S = 2^PairTop /\ 2^PAIR = 2 * S /\ Word = 0 .. 2 * S - 1
                               /\ BITS + HALF \in Nat /\ BITS + HALF < PAIR
                               /\ PAIR \in Nat /\ PAIR <= 2 * BITS
    BY PairIs
  <1>2. hl \in 0 .. 2 * S - 1 /\ ss \in 0 .. 2 * S - 1
    BY <1>1
  <1>3. PICK P \in Nat \ {0} : P = 2 * S
    OBVIOUS
  <1>4. PICK w \in -P .. P - 1 : w = hl - ss - c
    BY <1>2, <1>3
  <1>5. PICK k \in {0, 1} : r = w + k * P /\ (k = 1 <=> w < 0) /\ r \in 0 .. P - 1
    <2>1. r = w % P
      BY <1>1, <1>3, <1>4
    <2>2. CASE w < 0
      <3>1. PICK d \in 0 .. P - 1 : d = w + P
        BY <1>4, <2>2
      <3>2. d % P = d
        OBVIOUS
      <3>3. PICK n \in Int : n = 1 /\ d = w + n * P
        BY <3>1
      <3>4. (w + n * P) % P = w % P
        <4>1. w \in Int
          BY <1>4
        <4>2. QED BY <4>1, Multiples
      <3>5. r = d
        BY <2>1, <3>2, <3>3, <3>4
      <3>6. QED BY <2>2, <3>1, <3>5
    <2>3. CASE ~ (w < 0)
      <3>1. r = w /\ w = w + 0 * P /\ w \in 0 .. P - 1
        BY <1>4, <2>1, <2>3
      <3>2. QED BY <2>3, <3>1
    <2>4. QED BY <2>2, <2>3
  <1>6. (Bit(hl, PairTop) <=> hl >= S) /\ (Bit(ss, PairTop) <=> ss >= S) /\ (Bit(r, PairTop) <=> r >= S)
    BY <1>1, <1>2, <1>3, <1>5, SignIs
  <1>7. /\ Signed(hl, PAIR) = IF hl >= S THEN hl - P ELSE hl
        /\ Signed(ss, PAIR) = IF ss >= S THEN ss - P ELSE ss
    BY <1>1, <1>3, <1>6 DEF Signed, Sign, PairTop
  <1>8. PICK x \in Int, y \in Int : /\ x = Signed(hl, PAIR) /\ y = Signed(ss, PAIR)
                                    /\ x = IF hl >= S THEN hl - P ELSE hl
                                    /\ y = IF ss >= S THEN ss - P ELSE ss
    <2>1. (IF hl >= S THEN hl - P ELSE hl) \in Int /\ (IF ss >= S THEN ss - P ELSE ss) \in Int
      BY <1>2
    <2>2. QED BY <1>7, <2>1, Zenon
  <1>9. total = x - y - c
    BY <1>8
  <1>10. ((hl >= S) # (ss >= S) /\ (hl >= S) # (r >= S)) <=> x - y - c \notin -S .. S - 1
    <2>1. CASE k = 0
      BY <1>2, <1>3, <1>4, <1>5, <1>8, <2>1
    <2>2. CASE k = 1
      BY <1>2, <1>3, <1>4, <1>5, <1>8, <2>2
    <2>3. QED BY <2>1, <2>2
  <1>11. (Bit(hl, PairTop) # Bit(ss, PairTop) /\ Bit(hl, PairTop) # Bit(r, PairTop))
           <=> total \notin -(2^PairTop) .. 2^PairTop - 1
    <2>1. /\ Bit(hl, PairTop) # Bit(r, PairTop) <=> (hl >= S) # (r >= S)
          /\ Bit(hl, PairTop) # Bit(ss, PairTop) <=> (hl >= S) # (ss >= S)
      <3>1. Bit(hl, PairTop) \in BOOLEAN /\ Bit(ss, PairTop) \in BOOLEAN /\ Bit(r, PairTop) \in BOOLEAN
        BY DEF Bit
      <3>2. QED BY <1>6, <3>1
    <2>2. total \notin -(2^PairTop) .. 2^PairTop - 1 <=> x - y - c \notin -S .. S - 1
      BY <1>1, <1>9
    <2>3. QED BY <1>10, <2>1, <2>2
  <1>12. PairBit(hl, ss, r, BITS + HALF)
           <=> hl % 2^(BITS + HALF) < (ss % 2^(BITS + HALF)) + c
    <2>1. PICK H \in Nat \ {0}, K \in Nat \ {0} : H = 2^(BITS + HALF) /\ 2^PAIR = 2 * H * K
      BY <1>1, Pairs
    <2>2. PICK t \in Int : t = k * K
      BY <1>5
    <2>3. k * P = 2 * t * H
      <3>1. k \in Int /\ H \in Int /\ K \in Int
        BY <1>5, <2>1
      <3>2. k * (2 * H * K) = 2 * t * H
        BY <2>2, <3>1, Regroup
      <3>3. P = 2 * H * K
        BY <1>1, <1>3, <2>1
      <3>4. QED BY <3>2, <3>3
    <2>4. PICK z \in Int : z = 2 * t * H
      BY <2>2
    <2>5. r = hl - ss - c + z
      <3>1. k * P = z
        BY <2>3, <2>4
      <3>2. r = w + z
        BY <1>5, <3>1
      <3>3. QED BY <1>2, <1>4, <2>4, <3>2
    <2>6. r = hl - ss - c + 2 * t * H /\ hl \in Int /\ ss \in Int /\ r \in Int
      BY <1>2, <1>5, <2>4, <2>5
    <2>7. Crosses(H, hl, ss, r) <=> hl % H < (ss % H) + c
      BY <2>6, CrossingDifference, Zenon
    <2>8. QED BY <2>1, <2>7 DEF Crosses, PairBit, Bit
  <1>13. total % P = r
    <2>1. PICK k1 \in {-1, 0, 1} : x - y = hl - ss + k1 * P
      <3>1. x - y = hl - ss + 0 * P \/ x - y = hl - ss + 1 * P \/ x - y = hl - ss + (-1) * P
        BY <1>2, <1>8
      <3>2. QED BY <3>1
    <2>2. total = r + (k1 - k) * P
      <3>1. total = w + k1 * P /\ r = w + k * P
        BY <1>2, <1>4, <1>5, <1>8, <1>9, <2>1
      <3>2. (k1 - k) * P = k1 * P - k * P
        BY <1>5, <2>1
      <3>3. PICK u1 \in Int, u2 \in Int : u1 = k * P /\ u2 = k1 * P
        BY <1>5, <2>1
      <3>4. total = r + (u2 - u1)
        BY <1>4, <1>5, <3>1, <3>3
      <3>5. QED BY <3>2, <3>3, <3>4
    <2>3. total \in Int /\ r \in Int /\ k1 - k \in Int
      BY <1>5, <1>8, <1>9, <2>1
    <2>4. total % P = r % P
      <3>1. PICK n \in Int : n = k1 - k
        BY <2>3
      <3>2. total = r + n * P
        BY <2>2, <3>1
      <3>3. (r + n * P) % P = r % P
        BY <2>3, Multiples
      <3>4. QED BY <3>2, <3>3, Zenon
    <2>5. r % P = r
      BY <1>5
    <2>6. QED BY <2>4, <2>5
  <1>14. QED BY <1>1, <1>3, <1>11, <1>12, <1>13

(* A guest whose record stands for the flags e.                            *)
Stands(s, e) == IsGuest(s) /\ s.a \in Byte /\ s.rec.lz \in Classes /\ Flags(s) = e

LEMMA CarryKept ==
  ASSUME NEW s
  PROVE  /\ s.rec.lz \in Keepers => s.f \cap {"CY"} = Flags(s) \cap {"CY"}
         /\ s.rec.lz = "LDBLK" => s.f \cap {"SI", "ZE", "CY"} = Flags(s) \cap {"SI", "ZE", "CY"}
  <1>1. CASE s.rec.lz = "INR"
    <2>1. Flags(s) = ByResult(s.rec.lr) \cup (s.f \cap {"CY"}) \cup When(Crossed(s.rec), "AC")
      BY <1>1 DEF Flags, z80flags
    <2>2. QED BY <1>1, <2>1, ResultsOnly DEF When
  <1>2. CASE s.rec.lz = "DCR"
    <2>1. Flags(s) = ByResult(s.rec.lr) \cup (s.f \cap {"CY"}) \cup When(~ Crossed(s.rec), "AC")
      BY <1>2 DEF Flags, z80flags
    <2>2. QED BY <1>2, <2>1, ResultsOnly DEF When
  <1>3. CASE s.rec.lz = "BIT"
    <2>1. Flags(s) = ByResult(s.rec.lr) \cup (s.f \cap {"CY"}) \cup {"AC"}
      BY <1>3 DEF Flags, z80flags
    <2>2. QED BY <1>3, <2>1, ResultsOnly
  <1>4. CASE s.rec.lz = "CPBLK"
    <2>1. Flags(s) = (ByResult(s.rec.lr) \ {"PA"}) \cup When(s.rec.lc = 1, "PA") \cup (s.f \cap {"CY"})
                       \cup When(~ Crossed(s.rec), "AC")
      BY <1>4 DEF Flags, z80flags
    <2>2. QED BY <1>4, <2>1, ResultsOnly DEF When
  <1>5. CASE s.rec.lz = "LDBLK"
    <2>1. Flags(s) = (s.f \cap {"SI", "ZE", "CY"}) \cup When(s.rec.lc = 1, "PA")
      BY <1>5 DEF Flags, z80flags
    <2>2. QED BY <1>5, <2>1 DEF When
  <1>6. QED BY <1>1, <1>2, <1>3, <1>4, <1>5 DEF Keepers

LEMMA LazyFlags ==
  ASSUME NEW s, IsGuest(s), NEW cls, NEW a, NEW b, NEW r, NEW c
  PROVE  \E f : /\ lazy(s, cls, a, b, r, c) = Guest(s.a, f, Rec(cls, a, b, r, c))
                /\ cls \in Keepers => f \cap {"CY"} = Flags(s) \cap {"CY"}
                /\ cls = "LDBLK" => f \cap {"SI", "ZE", "CY"} = Flags(s) \cap {"SI", "ZE", "CY"}
  <1> DEFINE fold == IF cls \in {"INR", "DCR"} THEN s.rec.lz \notin {"INR", "DCR"}
                     ELSE cls \in {"BIT", "LDBLK", "CPBLK"} /\ s.rec.lz # cls
  <1>1. PICK t : t = IF fold THEN Folded(s) ELSE s
    OBVIOUS
  <1>2. lazy(s, cls, a, b, r, c) = [t EXCEPT !.rec = Rec(cls, a, b, r, c)]
    BY <1>1, Zenon DEF lazy, Rec
  <1>3. IsGuest(t) /\ t.a = s.a /\ (fold => t.f = Flags(s)) /\ (~ fold => t = s)
    BY <1>1 DEF IsGuest, Folded, Flags, Guest
  <1>4. \A rec : [t EXCEPT !.rec = rec] = Guest(s.a, t.f, rec)
    BY <1>3 DEF IsGuest, Guest
  <1>5. ASSUME cls \in Keepers PROVE t.f \cap {"CY"} = Flags(s) \cap {"CY"}
    <2>1. CASE fold
      BY <1>3, <2>1, Zenon
    <2>2. CASE ~ fold
      <3>1. s.rec.lz \in Keepers
        BY <1>5, <2>2 DEF Keepers
      <3>2. QED BY <1>3, <2>2, <3>1, CarryKept, Zenon
    <2>3. QED BY <2>1, <2>2, Zenon
  <1>6. ASSUME cls = "LDBLK"
        PROVE t.f \cap {"SI", "ZE", "CY"} = Flags(s) \cap {"SI", "ZE", "CY"}
    <2>1. CASE fold
      BY <1>3, <2>1, Zenon
    <2>2. CASE ~ fold
      <3>1. s.rec.lz = "LDBLK"
        BY <1>6, <2>2
      <3>2. QED BY <1>3, <2>2, <3>1, CarryKept, Zenon
    <2>3. QED BY <2>1, <2>2, Zenon
  <1> HIDE DEF fold
  <1>7. QED BY <1>2, <1>4, <1>5, <1>6, Zenon

LEMMA StandsRecord ==
  ASSUME NEW a \in Byte, NEW f, NEW cls \in Classes, NEW x, NEW y, NEW r, NEW c, NEW e,
         z80flags(f, Rec(cls, x, y, r, c)) = e
  PROVE  Stands(Guest(a, f, Rec(cls, x, y, r, c)), e)
  <1>1. PICK s : s = Guest(a, f, Rec(cls, x, y, r, c))
    OBVIOUS
  <1>2. IsGuest(s) /\ s.a = a /\ s.f = f /\ s.rec = Rec(cls, x, y, r, c)
    BY <1>1, AGuest
  <1>3. s.rec.lz = cls
    BY <1>2 DEF Rec
  <1>4. Flags(s) = e
    BY <1>2, Zenon DEF Flags
  <1>5. QED BY <1>1, <1>2, <1>3, <1>4 DEF Stands

LEMMA StandsMade ==
  ASSUME NEW a \in Byte, NEW f
  PROVE  Stands(Guest(a, f, NoRecord), f)
  <1>1. PICK s : s = Guest(a, f, NoRecord)
    OBVIOUS
  <1>2. IsGuest(s) /\ s.a = a /\ s.f = f /\ s.rec = NoRecord
    BY <1>1, AGuest
  <1>3. s.rec.lz = "NONE"
    BY <1>2 DEF NoRecord
  <1>4. Flags(s) = f
    BY <1>2, <1>3 DEF Flags, z80flags
  <1>5. QED BY <1>1, <1>2, <1>3, <1>4 DEF Stands, Classes

LEMMA StandsElsewhere ==
  ASSUME NEW s, NEW e, Stands(s, e), NEW v \in Byte
  PROVE  Stands([s EXCEPT !.a = v], e)
  <1>1. PICK t : t = [s EXCEPT !.a = v]
    OBVIOUS
  <1>2. IsGuest(s)
    BY DEF Stands
  <1>3. IsGuest(t) /\ t.a = v /\ t.f = s.f /\ t.rec = s.rec
    BY <1>1, <1>2 DEF IsGuest
  <1>4. Flags(t) = Flags(s)
    BY <1>3, Zenon DEF Flags
  <1>5. QED BY <1>1, <1>3, <1>4 DEF Stands

(* A class of its own, and one that keeps flags, on a guest that stands.   *)
LEMMA StandsLazy ==
  ASSUME NEW s, IsGuest(s), s.a \in Byte, NEW cls \in Classes, NEW x, NEW y, NEW r, NEW c, NEW e,
         \A f : z80flags(f, Rec(cls, x, y, r, c)) = e
  PROVE  Stands(lazy(s, cls, x, y, r, c), e)
  <1>1. PICK f : lazy(s, cls, x, y, r, c) = Guest(s.a, f, Rec(cls, x, y, r, c))
    BY LazyFlags, Zenon
  <1>2. QED BY <1>1, StandsRecord, Zenon

LEMMA StandsKeeper ==
  ASSUME NEW s, NEW old, Stands(s, old), NEW cls \in Keepers, NEW x, NEW y, NEW r, NEW c, NEW new,
         \A f : z80flags(f, Rec(cls, x, y, r, c)) = (f \cap {"CY"}) \cup (new \ {"CY"})
  PROVE  Stands(lazy(s, cls, x, y, r, c), (old \cap {"CY"}) \cup (new \ {"CY"}))
  <1>1. IsGuest(s) /\ s.a \in Byte /\ Flags(s) = old
    BY DEF Stands
  <1>2. PICK f : /\ lazy(s, cls, x, y, r, c) = Guest(s.a, f, Rec(cls, x, y, r, c))
                 /\ cls \in Keepers => f \cap {"CY"} = Flags(s) \cap {"CY"}
    BY <1>1, LazyFlags
  <1>3. cls \in Classes
    BY DEF Keepers, Classes
  <1>4. PICK e : e = (old \cap {"CY"}) \cup (new \ {"CY"})
    OBVIOUS
  <1>5. z80flags(f, Rec(cls, x, y, r, c)) = e
    <2>1. z80flags(f, Rec(cls, x, y, r, c)) = (f \cap {"CY"}) \cup (new \ {"CY"})
      OBVIOUS
    <2>2. QED BY <1>1, <1>2, <1>4, <2>1
  <1>6. Stands(Guest(s.a, f, Rec(cls, x, y, r, c)), e)
    BY <1>1, <1>3, <1>5, StandsRecord
  <1>7. QED BY <1>2, <1>4, <1>6

LEMMA StandsStore ==
  ASSUME NEW s, NEW e, Stands(s, e), NEW to, NEW v \in Byte
  PROVE  Stands(Store(s, to, v), e)
  BY StandsElsewhere DEF Store

(* The instructions.                                                       *)
LEMMA SumStands ==
  ASSUME NEW c, IsGuest(c.on), c.in \in {0, 1}, NEW a \in Byte, NEW b \in Byte, Sum(c, a, b)
  PROVE  Stands(m', eager')
  <1>1. PICK in \in {0, 1} : in = c.in
    OBVIOUS
  <1>2. PICK r \in Byte : r = Wrap(a + b + in)
    BY WrapSum
  <1>3. m' = lazy([c.on EXCEPT !.a = r], "ADD", a, b, r, in) /\ eager' = OfSum(a, b, in)
    BY <1>1, <1>2, Zenon DEF Sum
  <1>4. PICK s : s = [c.on EXCEPT !.a = r]
    OBVIOUS
  <1>5. IsGuest(s) /\ s.a \in Byte
    BY <1>4 DEF IsGuest
  <1>6. \A f : z80flags(f, Rec("ADD", a, b, r, in)) = OfSum(a, b, in)
    BY <1>2, SumFlags
  <1>7. "ADD" \in Classes
    BY DEF Classes
  <1>8. QED BY <1>3, <1>4, <1>5, <1>6, <1>7, StandsLazy, Zenon

LEMMA DifferenceStands ==
  ASSUME NEW c, IsGuest(c.on), c.in \in {0, 1}, NEW a \in Byte, NEW b \in Byte, NEW kept,
         Difference(c, a, b, kept)
  PROVE  Stands(m', eager')
  <1>1. PICK in \in {0, 1} : in = c.in
    OBVIOUS
  <1>2. PICK r \in Byte : r = Wrap(a - b - in)
    BY WrapDifference
  <1>3. PICK v : v = IF kept THEN a ELSE r
    OBVIOUS
  <1>4. m' = lazy([c.on EXCEPT !.a = v], "SUB", a, b, r, in) /\ eager' = OfDifference(a, b, in)
    BY <1>1, <1>2, <1>3, Zenon DEF Difference
  <1>5. PICK s : s = [c.on EXCEPT !.a = v]
    OBVIOUS
  <1>6. IsGuest(s) /\ s.a \in Byte
    BY <1>3, <1>5 DEF IsGuest
  <1>7. \A f : z80flags(f, Rec("SUB", a, b, r, in)) = OfDifference(a, b, in)
    BY <1>2, DifferenceFlags
  <1>8. "SUB" \in Classes
    BY DEF Classes
  <1>9. QED BY <1>4, <1>5, <1>6, <1>7, <1>8, StandsLazy, Zenon

LEMMA LogicStands ==
  ASSUME NEW e, Stands(m, e), NEW cls \in {"AND", "LOG"}, NEW a, NEW b, NEW r \in Byte,
         NEW no, no = FALSE, NEW half, half = IF cls = "AND" THEN Bit(Or(a, b), HALF - 1) ELSE no,
         m' = lazy([m EXCEPT !.a = r], cls, a, b, r, 0), eager' = Arithmetic(no, half, r)
  PROVE  Stands(m', eager')
  <1>1. PICK t : t = [m EXCEPT !.a = r]
    OBVIOUS
  <1>2. IsGuest(t) /\ t.a \in Byte
    BY <1>1 DEF IsGuest, Stands
  <1>3. ASSUME NEW f PROVE z80flags(f, Rec(cls, a, b, r, 0)) = Arithmetic(no, half, r)
    <2>1. PICK rec : rec = Rec(cls, a, b, r, 0)
      OBVIOUS
    <2>2. rec.lz = cls /\ rec.la = a /\ rec.lb = b /\ rec.lr = r
      BY <2>1 DEF Rec
    <2>3. CASE cls = "AND"
      <3>1. z80flags(f, rec) = ByResult(r) \cup When(Bit(Or(a, b), HALF - 1), "AC")
        BY <2>2, <2>3 DEF z80flags
      <3>2. QED BY <2>1, <2>3, <3>1 DEF Arithmetic, When
    <2>4. CASE cls = "LOG"
      <3>1. z80flags(f, rec) = ByResult(r)
        BY <2>2, <2>4 DEF z80flags
      <3>2. QED BY <2>1, <2>4, <3>1 DEF Arithmetic, When
    <2>5. QED BY <2>3, <2>4
  <1>4. cls \in Classes
    BY DEF Classes
  <1>5. QED BY <1>1, <1>2, <1>3, <1>4, StandsLazy, Zenon

LEMMA CarryBit == ASSUME NEW f PROVE Carry(f) \in {0, 1}
  BY DEF Carry

LEMMA AluStands ==
  ASSUME Stands(m, eager), NEW b \in Byte, Alu(b)
  PROVE  Stands(m', eager')
  <1>1. IsGuest(m) /\ m.a \in Byte
    BY DEF Stands
  <1>2. /\ IsGuest(Plain.on) /\ Plain.in \in {0, 1}
        /\ IsGuest(WithCarry.on) /\ WithCarry.in \in {0, 1}
    BY <1>1, FoldedKeeps, CarryBit DEF Plain, WithCarry
  <1>3. And(m.a, b) \in Byte /\ Or(m.a, b) \in Byte /\ Xor(m.a, b) \in Byte
    BY <1>1, Logical
  <1>4. CASE Sum(Plain, m.a, b) \/ Sum(WithCarry, m.a, b)
    BY <1>1, <1>2, <1>4, SumStands
  <1>5. CASE \E kept : Difference(Plain, m.a, b, kept) \/ Difference(WithCarry, m.a, b, kept)
    BY <1>1, <1>2, <1>5, DifferenceStands
  <1>6. CASE Logic("AND", m.a, b, And(m.a, b), Bit(Or(m.a, b), HALF - 1))
    <2>1. PICK no, half, r : /\ no = FALSE /\ half = Bit(Or(m.a, b), HALF - 1) /\ r = And(m.a, b)
      OBVIOUS
    <2>2. Logic("AND", m.a, b, r, half)
      BY <1>6, <2>1
    <2>3. m' = lazy([m EXCEPT !.a = r], "AND", m.a, b, r, 0) /\ eager' = Arithmetic(no, half, r)
      BY <2>1, <2>2 DEF Logic
    <2>4. QED BY <1>3, <2>1, <2>3, LogicStands
  <1>7. ASSUME NEW r \in Byte, Logic("LOG", m.a, b, r, FALSE) PROVE Stands(m', eager')
    <2>1. PICK no : no = FALSE
      OBVIOUS
    <2>2. m' = lazy([m EXCEPT !.a = r], "LOG", m.a, b, r, 0) /\ eager' = Arithmetic(no, no, r)
      BY <1>7, <2>1 DEF Logic
    <2>3. QED BY <2>1, <2>2, LogicStands
  <1>8. QED BY <1>3, <1>4, <1>5, <1>6, <1>7, Zenon DEF Alu

LEMMA DcrStands ==
  ASSUME NEW s, NEW e, Stands(s, e), NEW to, NEW v \in Byte
  PROVE  Stands(dcr(s, to, v), (e \cap {"CY"}) \cup (OfDifference(v, 1, 0) \ {"CY"}))
  <1>1. PICK r \in Byte : r = Wrap(v - 1)
    BY DifferenceKeeping
  <1>2. \A f : z80flags(f, Rec("DCR", v, 1, r, 0)) = (f \cap {"CY"}) \cup (OfDifference(v, 1, 0) \ {"CY"})
    BY <1>1, DifferenceKeeping
  <1>3. "DCR" \in Keepers
    BY DEF Keepers
  <1>4. Stands(lazy(s, "DCR", v, 1, r, 0), (e \cap {"CY"}) \cup (OfDifference(v, 1, 0) \ {"CY"}))
    BY <1>2, <1>3, StandsKeeper, Zenon
  <1>5. dcr(s, to, v) = Store(lazy(s, "DCR", v, 1, r, 0), to, r)
    BY <1>1 DEF dcr
  <1>6. PICK t, new : t = lazy(s, "DCR", v, 1, r, 0) /\ new = (e \cap {"CY"}) \cup (OfDifference(v, 1, 0) \ {"CY"})
    OBVIOUS
  <1>7. Stands(Store(t, to, r), new)
    BY <1>4, <1>6, StandsStore
  <1>8. QED BY <1>5, <1>6, <1>7, Zenon

LEMMA InrStands ==
  ASSUME Stands(m, eager), NEW to, NEW v \in Byte, Inr(to, v)
  PROVE  Stands(m', eager')
  <1>1. PICK r \in Byte : r = Wrap(v + 1)
    BY SumKeeping
  <1>2. \A f : z80flags(f, Rec("INR", v, 1, r, 0)) = (f \cap {"CY"}) \cup (OfSum(v, 1, 0) \ {"CY"})
    BY <1>1, SumKeeping
  <1>3. "INR" \in Keepers
    BY DEF Keepers
  <1>4. Stands(lazy(m, "INR", v, 1, r, 0), (eager \cap {"CY"}) \cup (OfSum(v, 1, 0) \ {"CY"}))
    BY <1>2, <1>3, StandsKeeper, Zenon
  <1>5. /\ m' = Store(lazy(m, "INR", v, 1, r, 0), to, r)
        /\ eager' = (eager \cap {"CY"}) \cup (OfSum(v, 1, 0) \ {"CY"})
    BY <1>1 DEF Inr, Keeping
  <1>6. QED BY <1>4, <1>5, StandsStore, Zenon

LEMMA CbBitStands ==
  ASSUME Stands(m, eager), NEW b \in 0 .. SIGN, NEW v \in Byte, CbBit(b, v)
  PROVE  Stands(m', eager')
  <1>1. PICK new : new = {"AC"} \cup When(~ Bit(v, b), "ZE") \cup When(~ Bit(v, b), "PA")
                           \cup When(b = SIGN /\ Bit(v, b), "SI")
    OBVIOUS
  <1>2. \A f : z80flags(f, Rec("BIT", v, b, And(v, 2^b), 0)) = (f \cap {"CY"}) \cup (new \ {"CY"})
    BY <1>1, BitKeeping
  <1>3. "BIT" \in Keepers
    BY DEF Keepers
  <1>4. Stands(lazy(m, "BIT", v, b, And(v, 2^b), 0), (eager \cap {"CY"}) \cup (new \ {"CY"}))
    BY <1>2, <1>3, StandsKeeper, Zenon
  <1>5. /\ m' = lazy(m, "BIT", v, b, And(v, 2^b), 0)
        /\ eager' = (eager \cap {"CY"}) \cup (new \ {"CY"})
    BY <1>1, Zenon DEF CbBit, Keeping
  <1>6. QED BY <1>4, <1>5, Zenon

LEMMA CbRotateStands ==
  ASSUME Stands(m, eager), NEW how \in Rotates, NEW to, NEW v \in Byte, CbRotate(how, to, v)
  PROVE  Stands(m', eager')
  <1>1. PICK on : on = IF how \in {"RL", "RR"} THEN Folded(m) ELSE m
    OBVIOUS
  <1>2. IsGuest(m) /\ m.a \in Byte /\ Flags(m) = eager
    BY DEF Stands
  <1>3. IsGuest(on) /\ on.a \in Byte /\ (how \in {"RL", "RR"} => on.f = eager)
    <2>1. IsGuest(Folded(m)) /\ Folded(m).a = m.a /\ Folded(m).f = Flags(m)
      BY FoldedKeeps, AGuest DEF Folded, Flags
    <2>2. QED BY <1>1, <1>2, <2>1
  <1>4. Rotated(how, v, Carry(on.f)) = Rotated(how, v, Carry(eager))
    <2>1. CASE how \in {"RL", "RR"}
      BY <1>3, <2>1
    <2>2. CASE how \notin {"RL", "RR"}
      BY <2>2 DEF Rotated, Rotates
    <2>3. QED BY <2>1, <2>2
  <1>5. PICK s : s = Rotated(how, v, Carry(eager))
    OBVIOUS
  <1>6. s.r \in Byte
    BY <1>5, RotatedByte, CarryBit
  <1>7. s.cy \in BOOLEAN
    <2>1. PICK in : s = Left(v, in) \/ s = Right(v, in)
      BY <1>5 DEF Rotated, Rotates
    <2>2. Bit(v, SIGN) \in BOOLEAN /\ Bit(v, 0) \in BOOLEAN
      BY DEF Bit
    <2>3. Left(v, in).cy = Bit(v, SIGN) /\ Right(v, in).cy = Bit(v, 0)
      BY DEF Left, Right
    <2>4. QED BY <2>1, <2>2, <2>3
  <1>8. PICK cy \in BOOLEAN, no \in BOOLEAN : cy = s.cy /\ no = FALSE
    BY <1>7
  <1>9. \A f : z80flags(f, Rec("ROT", v, 0, s.r, IF cy THEN 1 ELSE 0)) = eager'
    <2>1. eager' = Arithmetic(s.cy, FALSE, s.r)
      BY <1>5 DEF CbRotate
    <2>2. SUFFICES ASSUME NEW f PROVE z80flags(f, Rec("ROT", v, 0, s.r, IF cy THEN 1 ELSE 0)) = eager'
      OBVIOUS
    <2>3. PICK rec : rec = Rec("ROT", v, 0, s.r, IF cy THEN 1 ELSE 0)
      OBVIOUS
    <2>4. rec.lz = "ROT" /\ rec.lr = s.r /\ (rec.lc = 1 <=> cy)
      BY <2>3 DEF Rec
    <2>5. z80flags(f, rec) = ByResult(s.r) \cup When(CarryOf(rec), "CY")
      BY <2>4 DEF z80flags
    <2>6. CarryOf(rec) <=> s.cy
      BY <1>8, <2>4 DEF CarryOf
    <2>7. QED BY <2>1, <2>3, <2>5, <2>6 DEF Arithmetic, When
  <1>10. m' = lazy(Store(on, to, s.r), "ROT", v, 0, s.r, IF cy THEN 1 ELSE 0)
    <2>1. PICK w : w = Rotated(how, v, Carry(on.f))
      OBVIOUS
    <2>2. m' = lazy(Store(on, to, w.r), "ROT", v, 0, w.r, IF w.cy THEN 1 ELSE 0)
      BY <1>1, <2>1, Zenon DEF CbRotate
    <2>3. w = s
      BY <1>4, <1>5, <2>1
    <2>4. QED BY <1>8, <2>2, <2>3
  <1>11. PICK t : t = Store(on, to, s.r)
    OBVIOUS
  <1>12. IsGuest(t) /\ t.a \in Byte
    BY <1>3, <1>6, <1>11 DEF IsGuest, Store
  <1>13. "ROT" \in Classes
    BY DEF Classes
  <1>14. Stands(lazy(t, "ROT", v, 0, s.r, IF cy THEN 1 ELSE 0), eager')
    BY <1>9, <1>12, <1>13, StandsLazy, Zenon
  <1>15. QED BY <1>10, <1>11, <1>14, Zenon

LEMMA OnRegisterStands ==
  ASSUME Stands(m, eager), OnRegister
  PROVE  Stands(m', eager')
  <1>1. m.a \in Byte /\ OPERANDS \subseteq Byte
    BY OperandsAssumption DEF Stands
  <1>2. ASSUME NEW to, NEW v \in Byte, Inr(to, v) \/ Dcr(to, v) PROVE Stands(m', eager')
    <2>1. CASE Inr(to, v)
      BY <2>1, InrStands
    <2>2. CASE Dcr(to, v)
      <3>1. m' = dcr(m, to, v) /\ eager' = (eager \cap {"CY"}) \cup (OfDifference(v, 1, 0) \ {"CY"})
        BY <2>2 DEF Dcr, Keeping
      <3>2. QED BY <3>1, DcrStands, Zenon
    <2>3. QED BY <1>2, <2>1, <2>2
  <1>3. ASSUME NEW how \in Rotates, NEW to, NEW v \in Byte, CbRotate(how, to, v)
        PROVE Stands(m', eager')
    BY <1>3, CbRotateStands
  <1>4. ASSUME NEW b \in 0 .. SIGN, NEW v \in Byte, CbBit(b, v) PROVE Stands(m', eager')
    BY <1>4, CbBitStands
  <1>5. ASSUME NEW v \in OPERANDS, Inr("other", v) \/ Dcr("other", v) PROVE Stands(m', eager')
    BY <1>1, <1>2, <1>5
  <1>6. ASSUME Inr("A", m.a) \/ Dcr("A", m.a) PROVE Stands(m', eager')
    BY <1>1, <1>2, <1>6
  <1>7. ASSUME NEW how \in Rotates, CbRotate(how, "A", m.a) \/ \E v \in OPERANDS : CbRotate(how, "other", v)
        PROVE Stands(m', eager')
    BY <1>1, <1>3, <1>7
  <1>8. ASSUME NEW b \in 0 .. SIGN, NEW v \in OPERANDS \cup {m.a}, CbBit(b, v) PROVE Stands(m', eager')
    BY <1>1, <1>4, <1>8
  <1>9. QED BY <1>5, <1>6, <1>7, <1>8, Zenon DEF OnRegister

(* Instructions that make the flags.                                       *)
LEMMA MadeStands ==
  ASSUME NEW a \in Byte, NEW f, m' = Guest(a, f, NoRecord), f = eager'
  PROVE  Stands(m', eager')
  BY StandsMade, Zenon

LEMMA PairStands ==
  ASSUME Stands(m, eager), NEW hl \in Word, NEW ss \in Word, AdcHl(hl, ss) \/ SbcHl(hl, ss)
  PROVE  Stands(m', eager')
  <1>1. m.a \in Byte /\ Flags(m) = eager
    BY DEF Stands
  <1>2. PICK c \in {0, 1} : c = Carry(Flags(m)) /\ c = Carry(eager)
    BY <1>1, CarryBit
  <1>3. CASE AdcHl(hl, ss)
    <2>1. PICK r : r = (hl + ss + c) % 2^PAIR
      OBVIOUS
    <2>2. PICK total : total = Signed(hl, PAIR) + Signed(ss, PAIR) + c
      OBVIOUS
    <2>3. /\ Bit(hl, PairTop) # Bit(r, PairTop) /\ Bit(ss, PairTop) # Bit(r, PairTop)
              <=> total \notin -(2^PairTop) .. 2^PairTop - 1
          /\ PairBit(hl, ss, r, BITS + HALF)
              <=> (hl % 2^(BITS + HALF)) + (ss % 2^(BITS + HALF)) + c >= 2^(BITS + HALF)
          /\ total % 2^PAIR = r
      BY <2>1, <2>2, PairSum
    <2>4. m' = Guest(m.a, OfPair(hl + ss + c >= 2^PAIR,
                                 Bit(hl, PairTop) # Bit(r, PairTop) /\ Bit(ss, PairTop) # Bit(r, PairTop),
                                 PairBit(hl, ss, r, BITS + HALF), r), NoRecord)
      BY <1>2, <1>3, <2>1 DEF AdcHl, PairTop
    <2>5. eager' = OfPair(hl + ss + c >= 2^PAIR, total \notin -(2^PairTop) .. 2^PairTop - 1,
                          (hl % 2^(BITS + HALF)) + (ss % 2^(BITS + HALF)) + c >= 2^(BITS + HALF),
                          total % 2^PAIR)
      BY <1>2, <1>3, <2>2 DEF AdcHl, PairTop
    <2>6. PICK f : f = OfPair(hl + ss + c >= 2^PAIR,
                              Bit(hl, PairTop) # Bit(r, PairTop) /\ Bit(ss, PairTop) # Bit(r, PairTop),
                              PairBit(hl, ss, r, BITS + HALF), r)
      OBVIOUS
    <2>7. f = eager'
      BY <2>3, <2>5, <2>6 DEF OfPair, When
    <2>8. QED BY <1>1, <2>4, <2>6, <2>7, MadeStands
  <1>4. CASE SbcHl(hl, ss)
    <2>1. PICK r : r = (hl - ss - c) % 2^PAIR
      OBVIOUS
    <2>2. PICK total : total = Signed(hl, PAIR) - Signed(ss, PAIR) - c
      OBVIOUS
    <2>3. /\ Bit(hl, PairTop) # Bit(ss, PairTop) /\ Bit(hl, PairTop) # Bit(r, PairTop)
              <=> total \notin -(2^PairTop) .. 2^PairTop - 1
          /\ PairBit(hl, ss, r, BITS + HALF)
              <=> hl % 2^(BITS + HALF) < (ss % 2^(BITS + HALF)) + c
          /\ total % 2^PAIR = r
      BY <2>1, <2>2, PairDifference
    <2>4. m' = Guest(m.a, OfPair(hl - ss - c < 0,
                                 Bit(hl, PairTop) # Bit(ss, PairTop) /\ Bit(hl, PairTop) # Bit(r, PairTop),
                                 ~ PairBit(hl, ss, r, BITS + HALF), r), NoRecord)
      BY <1>2, <1>4, <2>1 DEF SbcHl, PairTop
    <2>5. eager' = OfPair(hl < ss + c, total \notin -(2^PairTop) .. 2^PairTop - 1,
                          hl % 2^(BITS + HALF) >= (ss % 2^(BITS + HALF)) + c,
                          total % 2^PAIR)
      BY <1>2, <1>4, <2>2 DEF SbcHl, PairTop
    <2>6. PICK f : f = OfPair(hl - ss - c < 0,
                              Bit(hl, PairTop) # Bit(ss, PairTop) /\ Bit(hl, PairTop) # Bit(r, PairTop),
                              ~ PairBit(hl, ss, r, BITS + HALF), r)
      OBVIOUS
    <2>7. hl % 2^(BITS + HALF) >= (ss % 2^(BITS + HALF)) + c <=> ~ PairBit(hl, ss, r, BITS + HALF)
      <3>1. PICK H \in Nat \ {0} : H = 2^(BITS + HALF)
        <4>1. BITS + HALF \in 0 .. 2 * BITS
          BY ByteIs
        <4>2. QED BY <4>1, Powers
      <3>2. hl \in Int /\ ss \in Int
        BY PairIs
      <3>3. PICK x \in Int, y \in Int : x = hl % H /\ y = ss % H
        BY <3>1, <3>2
      <3>4. x >= y + c <=> ~ (x < y + c)
        BY <3>3
      <3>5. QED BY <2>3, <3>1, <3>3, <3>4
    <2>8. hl - ss - c < 0 <=> hl < ss + c
      <3>1. hl \in Int /\ ss \in Int
        BY PairIs
      <3>2. QED BY <3>1
    <2>9. f = eager'
      BY <2>3, <2>5, <2>6, <2>7, <2>8 DEF OfPair, When
    <2>10. QED BY <1>1, <2>4, <2>6, <2>9, MadeStands
  <1>5. QED BY <1>3, <1>4

LEMMA MakingStands ==
  ASSUME Stands(m, eager), NEW f, NEW cy, NEW how \in {"RLC", "RRC", "RL", "RR"},
         Daa \/ Cmc \/ Psw \/ Condition \/ Rot(how) \/ SetCarry(cy) \/ PopPsw(m.a, f)
  PROVE  Stands(m', eager')
  <1>1. m.a \in Byte /\ Flags(m) = eager
    BY DEF Stands
  <1>2. CASE Daa
    <2>1. PICK d : d = daa(m.a, eager)
      OBVIOUS
    <2>2. m' = Guest(d.a, d.f, NoRecord) /\ eager' = d.f
      BY <1>1, <1>2, <2>1 DEF Daa
    <2>3. d.a \in Byte
      <3>1. m.a \in Int
        BY <1>1, ByteIs DEF Byte
      <3>2. 2^HALF \in Nat /\ DIGITS \in Int
        <4>1. HALF \in 0 .. 2 * BITS
          BY ByteIs
        <4>2. QED BY <4>1, Powers, DigitsAssumption
      <3>3. QED BY <2>1, <3>1, <3>2, WrapIs DEF daa, Sixes
    <2>4. QED BY <2>2, <2>3, MadeStands
  <1>3. CASE Cmc
    BY <1>1, <1>3, MadeStands DEF Cmc
  <1>4. CASE SetCarry(cy)
    BY <1>1, <1>4, MadeStands DEF SetCarry
  <1>5. CASE PopPsw(m.a, f)
    BY <1>1, <1>5, MadeStands DEF PopPsw
  <1>6. CASE Psw \/ Condition
    <2>1. m' = Guest(m.a, eager, NoRecord) /\ eager' = eager
      BY <1>1, <1>6 DEF Psw, Condition, Folded, Flags
    <2>2. QED BY <1>1, <2>1, MadeStands
  <1>7. CASE Rot(how)
    <2>1. PICK s : s = Rotated(how, m.a, Carry(eager))
      OBVIOUS
    <2>2. m' = Guest(s.r, CarryEdited(eager, s.cy), NoRecord) /\ eager' = CarryEdited(eager, s.cy)
      BY <1>1, <1>7, <2>1 DEF Rot
    <2>3. how \in Rotates
      BY DEF Rotates
    <2>4. s.r \in Byte
      BY <1>1, <2>1, <2>3, RotatedByte, CarryBit
    <2>5. QED BY <2>2, <2>4, MadeStands
  <1>8. QED BY <1>2, <1>3, <1>4, <1>5, <1>6, <1>7

LEMMA NegStands ==
  ASSUME Stands(m, eager), Neg
  PROVE  Stands(m', eager')
  <1>1. IsGuest(m) /\ m.a \in Byte /\ 0 \in Byte
    BY ByteIs DEF Stands
  <1>2. PICK a \in Byte : a = m.a
    BY <1>1
  <1>3. a \in Int /\ 0 - a - 0 = -a
    BY ByteIs DEF Byte
  <1>4. PICK r \in Byte : r = Wrap(-a) /\ r = Wrap(0 - a - 0)
    BY <1>1, <1>3, WrapDifference
  <1>5. m' = lazy([m EXCEPT !.a = r], "SUB", 0, a, r, 0) /\ eager' = OfDifference(0, a, 0)
    BY <1>2, <1>4 DEF Neg
  <1>6. PICK s : s = [m EXCEPT !.a = r]
    OBVIOUS
  <1>7. IsGuest(s) /\ s.a \in Byte
    BY <1>1, <1>6 DEF IsGuest
  <1>8. \A f : z80flags(f, Rec("SUB", 0, a, r, 0)) = OfDifference(0, a, 0)
    BY <1>1, <1>4, DifferenceFlags
  <1>9. "SUB" \in Classes
    BY DEF Classes
  <1>10. QED BY <1>5, <1>6, <1>7, <1>8, <1>9, StandsLazy, Zenon

LEMMA BlockStands ==
  ASSUME Stands(m, eager), NEW more \in BOOLEAN, NEW v \in Byte, BlockMove(more) \/ BlockCompare(v, more)
  PROVE  Stands(m', eager')
  <1>1. IsGuest(m) /\ m.a \in Byte /\ Flags(m) = eager
    BY DEF Stands
  <1>2. PICK c : c = IF more THEN 1 ELSE 0
    OBVIOUS
  <1>3. CASE BlockMove(more)
    <2>1. m' = lazy(m, "LDBLK", 0, 0, 0, c)
      BY <1>2, <1>3 DEF BlockMove
    <2>2. eager' = (eager \cap {"SI", "ZE", "CY"}) \cup (When(more, "PA") \ {"SI", "ZE", "CY"})
      BY <1>3 DEF BlockMove, Keeping
    <2>3. PICK f : /\ lazy(m, "LDBLK", 0, 0, 0, c) = Guest(m.a, f, Rec("LDBLK", 0, 0, 0, c))
                   /\ f \cap {"SI", "ZE", "CY"} = Flags(m) \cap {"SI", "ZE", "CY"}
      BY <1>1, LazyFlags
    <2>4. z80flags(f, Rec("LDBLK", 0, 0, 0, c)) = (f \cap {"SI", "ZE", "CY"}) \cup (When(more, "PA") \ {"SI", "ZE", "CY"})
      BY <1>2, BlockFlags
    <2>5. z80flags(f, Rec("LDBLK", 0, 0, 0, c)) = eager'
      BY <1>1, <2>2, <2>3, <2>4, Zenon
    <2>6. "LDBLK" \in Classes
      BY DEF Classes
    <2>7. QED BY <1>1, <2>1, <2>3, <2>5, <2>6, StandsRecord, Zenon
  <1>4. CASE BlockCompare(v, more)
    <2>1. PICK a \in Byte : a = m.a
      BY <1>1
    <2>2. a - v = a - v - 0
      BY ByteIs DEF Byte
    <2>3. PICK r \in Byte : r = Wrap(a - v)
      BY <2>2, WrapDifference
    <2>4. PICK p, new : p = When(more, "PA") /\ new = (OfDifference(a, v, 0) \ {"PA"}) \cup p
      OBVIOUS
    <2>5. m' = lazy(m, "CPBLK", a, v, r, c) /\ eager' = (eager \cap {"CY"}) \cup (new \ {"CY"})
      BY <1>2, <1>4, <2>1, <2>3, <2>4 DEF BlockCompare, Keeping
    <2>6. \A f : z80flags(f, Rec("CPBLK", a, v, r, c)) = (f \cap {"CY"}) \cup (new \ {"CY"})
      BY <1>2, <2>3, <2>4, CompareKeeping
    <2>7. "CPBLK" \in Keepers
      BY DEF Keepers
    <2>8. QED BY <2>5, <2>6, <2>7, StandsKeeper, Zenon
  <1>5. QED BY <1>3, <1>4

(* The loop run to its end: the DCR before it has left a record that keeps *)
(* the carry, whatever number it was of.                                   *)
LEMMA DelayStands ==
  ASSUME Stands(m, eager), NEW r, Delay("A", r)
  PROVE  Stands(m', eager')
  <1>1. IsGuest(m) /\ m.a \in Byte /\ Flags(m) = eager /\ 0 \in Byte /\ 1 \in Byte
    BY ByteIs DEF Stands
  <1>2. PICK s : s = dcr(m, "A", r + 1)
    OBVIOUS
  <1>3. PICK w, x : s = [lazy(m, "DCR", x, 1, w, 0) EXCEPT !.a = w]
    BY <1>2 DEF dcr, Store
  <1>4. PICK f : /\ lazy(m, "DCR", x, 1, w, 0) = Guest(m.a, f, Rec("DCR", x, 1, w, 0))
                 /\ f \cap {"CY"} = eager \cap {"CY"}
    BY <1>1, LazyFlags DEF Keepers
  <1>5. Store(s, "A", 0) = Guest(0, f, Rec("DCR", x, 1, w, 0))
    <2>1. s = Guest(w, f, Rec("DCR", x, 1, w, 0))
      BY <1>3, <1>4, AGuest
    <2>2. QED BY <2>1, AGuest DEF Store
  <1>6. Rec("DCR", x, 1, w, 0).lz = "DCR"
    BY DEF Rec
  <1>7. lazy(Store(s, "A", 0), "DCR", 1, 1, 0, 0) = Guest(0, f, Rec("DCR", 1, 1, 0, 0))
    BY <1>5, <1>6, LazyAgain DEF Rec
  <1>8. m' = Guest(0, f, Rec("DCR", 1, 1, 0, 0))
    BY <1>2, <1>7 DEF Delay, z80delay
  <1>9. z80flags(f, Rec("DCR", 1, 1, 0, 0)) = eager'
    <2>1. Wrap(1 - 1) = 0
      <3>1. PICK P \in Nat \ {0} : P = 2^BITS
        BY ByteIs
      <3>2. (1 - 1) % P = 0
        BY <3>1
      <3>3. QED BY <3>1, <3>2 DEF Wrap
    <2>2. z80flags(f, Rec("DCR", 1, 1, 0, 0)) = (f \cap {"CY"}) \cup (OfDifference(1, 1, 0) \ {"CY"})
      BY <1>1, <2>1, DifferenceKeeping
    <2>3. eager' = (eager \cap {"CY"}) \cup (OfDifference(1, 1, 0) \ {"CY"})
      BY DEF Delay, Keeping
    <2>4. QED BY <1>4, <2>2, <2>3, Zenon
  <1>10. "DCR" \in Classes
    BY DEF Classes
  <1>11. QED BY <1>1, <1>8, <1>9, <1>10, StandsRecord, Zenon

LEMMA Z80Stands ==
  ASSUME Stands(m, eager), Z80Next
  PROVE  Stands(m', eager')
  <1>1. OPERANDS \subseteq Byte /\ WORDS \subseteq Word
    BY OperandsAssumption
  <1>2. ASSUME NEW b \in OPERANDS, Alu(b) \/ Load(b) PROVE Stands(m', eager')
    <2>1. b \in Byte
      BY <1>1
    <2>2. CASE Alu(b)
      BY <2>1, <2>2, AluStands
    <2>3. CASE Load(b)
      BY <2>1, <2>3, StandsElsewhere DEF Load
    <2>4. QED BY <1>2, <2>2, <2>3
  <1>3. ASSUME NEW more \in BOOLEAN, BlockMove(more) \/ \E v \in OPERANDS : BlockCompare(v, more)
        PROVE Stands(m', eager')
    <2>1. \E v \in Byte : BlockMove(more) \/ BlockCompare(v, more)
      BY <1>1, <1>3, ByteIs
    <2>2. QED BY <2>1, BlockStands
  <1>4. ASSUME NEW hl \in WORDS, NEW ss \in WORDS, AdcHl(hl, ss) \/ SbcHl(hl, ss) PROVE Stands(m', eager')
    <2>1. hl \in Word /\ ss \in Word
      BY <1>1
    <2>2. QED BY <1>4, <2>1, PairStands
  <1>5. ASSUME Daa \/ Cmc \/ Psw \/ Condition PROVE Stands(m', eager')
    BY <1>5, MakingStands
  <1>6. ASSUME NEW how \in {"RLC", "RRC", "RL", "RR"}, Rot(how) PROVE Stands(m', eager')
    BY <1>6, MakingStands
  <1>7. ASSUME NEW cy, SetCarry(cy) PROVE Stands(m', eager')
    BY <1>7, MakingStands
  <1>8. ASSUME NEW f, PopPsw(m.a, f) PROVE Stands(m', eager')
    BY <1>8, MakingStands
  <1>9. QED
    BY <1>2, <1>3, <1>4, <1>5, <1>6, <1>7, <1>8, NegStands, DelayStands, OnRegisterStands, Zenon DEF Z80Next

(* A jump on the record.                                                   *)
LEMMA ByResultTells ==
  ASSUME NEW r
  PROVE  /\ "ZE" \in ByResult(r) <=> r = 0
         /\ "SI" \in ByResult(r) <=> Bit(r, SIGN)
         /\ "PA" \in ByResult(r) <=> Even(r)
  BY DEF ByResult, When

LEMMA RecordTells ==
  ASSUME NEW f, NEW rec, rec.lz \in Classes \ {"NONE", "LDBLK"}
  PROVE  /\ "ZE" \in z80flags(f, rec) <=> rec.lr = 0
         /\ "SI" \in z80flags(f, rec) <=> Bit(rec.lr, SIGN)
         /\ "PA" \in z80flags(f, rec) <=> IF rec.lz = "CPBLK" THEN rec.lc = 1 ELSE Even(rec.lr)
         /\ "CY" \in z80flags(f, rec)
              <=> IF rec.lz \in {"ADD", "SUB", "AND", "LOG", "ROT"} THEN CarryOf(rec) ELSE "CY" \in f
  <1> DEFINE made == z80flags(f, rec)
  <1>1. ByResult(rec.lr) \subseteq {"ZE", "SI", "PA"}
    BY ResultsOnly
  <1>2. CASE rec.lz = "ADD"
    <2>1. made = ByResult(rec.lr) \cup When(CarryOf(rec), "CY") \cup When(Crossed(rec), "AC")
      BY <1>2 DEF z80flags
    <2>2. QED BY <1>1, <1>2, <2>1, ByResultTells DEF When
  <1>3. CASE rec.lz = "SUB"
    <2>1. made = ByResult(rec.lr) \cup When(CarryOf(rec), "CY") \cup When(~ Crossed(rec), "AC")
      BY <1>3 DEF z80flags
    <2>2. QED BY <1>1, <1>3, <2>1, ByResultTells DEF When
  <1>4. CASE rec.lz = "AND"
    <2>1. made = ByResult(rec.lr) \cup When(Bit(Or(rec.la, rec.lb), HALF - 1), "AC")
      BY <1>4 DEF z80flags
    <2>2. ~ CarryOf(rec)
      BY <1>4 DEF CarryOf
    <2>3. QED BY <1>1, <1>4, <2>1, <2>2, ByResultTells DEF When
  <1>5. CASE rec.lz = "LOG"
    <2>1. made = ByResult(rec.lr)
      BY <1>5 DEF z80flags
    <2>2. ~ CarryOf(rec)
      BY <1>5 DEF CarryOf
    <2>3. QED BY <1>1, <1>5, <2>1, <2>2, ByResultTells
  <1>6. CASE rec.lz = "ROT"
    <2>1. made = ByResult(rec.lr) \cup When(CarryOf(rec), "CY")
      BY <1>6 DEF z80flags
    <2>2. QED BY <1>1, <1>6, <2>1, ByResultTells DEF When
  <1>7. CASE rec.lz \in {"INR", "DCR", "BIT"}
    <2>1. PICK half : half \subseteq {"AC"} /\ made = ByResult(rec.lr) \cup (f \cap {"CY"}) \cup half
      <3>1. CASE rec.lz = "INR"
        BY <3>1 DEF z80flags, When
      <3>2. CASE rec.lz = "DCR"
        BY <3>2 DEF z80flags, When
      <3>3. CASE rec.lz = "BIT"
        BY <3>3 DEF z80flags
      <3>4. QED BY <1>7, <3>1, <3>2, <3>3
    <2>2. QED BY <1>1, <1>7, <2>1, ByResultTells
  <1>8. CASE rec.lz = "CPBLK"
    <2>1. made = (ByResult(rec.lr) \ {"PA"}) \cup When(rec.lc = 1, "PA") \cup (f \cap {"CY"})
                   \cup When(~ Crossed(rec), "AC")
      BY <1>8 DEF z80flags
    <2>2. QED BY <1>1, <1>8, <2>1, ByResultTells DEF When
  <1>9. QED BY <1>2, <1>3, <1>4, <1>5, <1>6, <1>7, <1>8 DEF Classes

LEMMA SameConditions ==
  ASSUME NEW f, NEW e, NEW cc \in Conditions, \A flag \in {"ZE", "CY", "PA", "SI"} : flag \in f <=> flag \in e
  PROVE  z80cond(f, cc) = z80cond(e, cc)
  BY DEF z80cond, Conditions

LEMMA JumpsFollow ==
  ASSUME Stands(m, eager)
  PROVE  FlagsAreEager /\ JumpsSeeFlags
  <1>1. Flags(m) = eager /\ m.rec.lz \in Classes
    BY DEF Stands
  <1>2. ASSUME NEW cc \in Conditions PROVE z80lcond(m, cc) = z80cond(eager, cc)
    <2>1. CASE m.rec.lz \in {"NONE", "LDBLK"}
      BY <1>1, <2>1 DEF z80lcond
    <2>2. CASE m.rec.lz \notin {"NONE", "LDBLK"}
      <3>1. PICK rec, f : rec = m.rec /\ f = m.f
        OBVIOUS
      <3>2. PICK parity : parity = IF rec.lz = "CPBLK" THEN rec.lc = 1 ELSE Even(rec.lr)
        OBVIOUS
      <3>3. PICK carry : carry = IF rec.lz \in {"ADD", "SUB", "AND", "LOG", "ROT"} THEN CarryOf(rec)
                                 ELSE "CY" \in f
        OBVIOUS
      <3>4. PICK shown : shown = When(rec.lr = 0, "ZE") \cup When(carry, "CY") \cup When(parity, "PA")
                                   \cup When(Bit(rec.lr, SIGN), "SI")
        OBVIOUS
      <3>5. z80lcond(m, cc) = z80cond(shown, cc)
        BY <2>2, <3>1, <3>2, <3>3, <3>4 DEF z80lcond
      <3>6. eager = z80flags(f, rec) /\ rec.lz \in Classes \ {"NONE", "LDBLK"}
        BY <1>1, <2>2, <3>1 DEF Flags
      <3>7. \A flag \in {"ZE", "CY", "PA", "SI"} : flag \in shown <=> flag \in eager
        <4>1. /\ "ZE" \in shown <=> rec.lr = 0
              /\ "CY" \in shown <=> carry
              /\ "PA" \in shown <=> parity
              /\ "SI" \in shown <=> Bit(rec.lr, SIGN)
          BY <3>4 DEF When
        <4>2. /\ "ZE" \in eager <=> rec.lr = 0
              /\ "SI" \in eager <=> Bit(rec.lr, SIGN)
              /\ "PA" \in eager <=> IF rec.lz = "CPBLK" THEN rec.lc = 1 ELSE Even(rec.lr)
              /\ "CY" \in eager
                   <=> IF rec.lz \in {"ADD", "SUB", "AND", "LOG", "ROT"} THEN CarryOf(rec) ELSE "CY" \in f
          BY <3>6, RecordTells
        <4>3. "PA" \in eager <=> parity
          BY <3>2, <4>2
        <4>4. "CY" \in eager <=> carry
          BY <3>3, <4>2
        <4>5. QED BY <4>1, <4>2, <4>3, <4>4
      <3>8. QED BY <3>5, <3>7, SameConditions
    <2>3. QED BY <2>1, <2>2
  <1>3. QED BY <1>1, <1>2 DEF FlagsAreEager, JumpsSeeFlags

-----------------------------------------------------------------------------
(* The flags of the 8086.                                                  *)
(* Operands of either width.                                               *)
InWidth(w) == 0 .. Bound(w) - 1
Rec86(cls, w, a, b, r, c) == [lz |-> cls, lw |-> w, la |-> a, lb |-> b, lr |-> r, lc |-> c]

(* What is left of a number by a divisor, and then by a part of it.        *)
LEMMA PartOfPart ==
  ASSUME NEW P \in Nat \ {0}, NEW K \in Nat \ {0}, NEW Q, Q = P * K, NEW x \in Int
  PROVE  (x % Q) % P = x % P
  <1>1. Q \in Nat \ {0}
    OBVIOUS
  <1>2. PICK k \in Int, d \in 0 .. Q - 1 : x = k * Q + d /\ d = x % Q
    BY <1>1, Division
  <1>3. PICK t \in Int : t = k * K
    OBVIOUS
  <1>4. k * Q = t * P
    BY <1>3
  <1>5. x = d + t * P /\ d \in Int
    BY <1>1, <1>2, <1>4
  <1>6. (d + t * P) % P = d % P
    BY <1>5, Multiples
  <1>7. QED BY <1>2, <1>5, <1>6

LEMMA ModulesNest ==
  ASSUME NEW i \in Nat, NEW n \in Nat, i <= n, n <= 2 * BITS, NEW x \in Int
  PROVE  (x % 2^n) % 2^i = x % 2^i
  <1>1. BITS \in Nat
    BY ByteIs
  <1>2. PICK j \in Nat : j = n - i /\ i + j = n /\ i + j <= 2 * BITS
    <2>1. n - i \in Nat /\ i + (n - i) = n
      OBVIOUS
    <2>2. QED BY <2>1
  <1>3. i \in 0 .. 2 * BITS /\ j \in 0 .. 2 * BITS
    BY <1>1, <1>2
  <1>4. PICK P \in Nat \ {0}, K \in Nat \ {0} : P = 2^i /\ K = 2^j
    BY <1>3, Powers
  <1>5. 2^n = P * K
    <2>1. 2^(i + j) = 2^i * 2^j
      BY <1>2, Product
    <2>2. QED BY <1>2, <1>4, <2>1
  <1>6. PICK Q : Q = 2^n
    OBVIOUS
  <1>7. (x % Q) % P = x % P
    BY <1>5, <1>6, PartOfPart
  <1>8. QED BY <1>4, <1>6, <1>7

(* A bit is one of what is left by a higher power.                         *)
LEMMA BitLeft ==
  ASSUME NEW i \in Nat, NEW n \in Nat, i < n, n <= 2 * BITS, NEW x \in Int
  PROVE  Bit(x % 2^n, i) <=> Bit(x, i)
  <1>1. PICK H \in Nat \ {0}, K \in Nat \ {0} : H = 2^i /\ 2^n = 2 * H * K
    BY Pairs
  <1>2. PICK Q \in Nat \ {0} : Q = 2 * H * K
    BY <1>1
  <1>3. PICK k \in Int, d \in 0 .. Q - 1 : x = k * Q + d /\ d = x % Q
    BY <1>2, Division
  <1>4. PICK t \in Int : t = k * K
    OBVIOUS
  <1>5. k * Q = 2 * t * H
    BY <1>2, <1>4, Regroup
  <1>6. d \in Int
    BY <1>2
  <1>7. PICK u \in Int : u = 2 * t
    BY <1>4
  <1>8. x = d + u * H
    <2>1. PICK z \in Int : z = k * Q
      BY <1>2
    <2>2. z = u * H
      BY <1>5, <1>7, <2>1
    <2>3. QED BY <1>3, <1>6, <2>1, <2>2
  <1>9. x \div H = (d \div H) + u
    BY <1>6, <1>8, Remainder
  <1>10. PICK y \in Int : y = d \div H
    BY <1>1, <1>6
  <1>11. (y + 2 * t) % 2 = y % 2
    BY <1>4, <1>10
  <1>12. (x \div H) % 2 = (d \div H) % 2
    BY <1>7, <1>9, <1>10, <1>11
  <1>13. QED BY <1>1, <1>2, <1>3, <1>12 DEF Bit

(* A width, its sign and its range.                                        *)
LEMMA WidthIs ==
  ASSUME NEW w \in BOOLEAN
  PROVE  /\ Width(w) \in Nat /\ BITS <= Width(w) /\ Width(w) <= 2 * BITS /\ HALF < Width(w)
         /\ Width(w) - 1 \in Nat /\ Width(w) - 1 < Width(w) /\ Width(w) - 1 \in 0 .. 2 * BITS - 1
         /\ \E S \in Nat \ {0} : /\ S = 2^(Width(w) - 1) /\ 2^Width(w) = 2 * S /\ Bound(w) = 2 * S
                                 /\ Bound(w) \div 2 = S /\ InWidth(w) = 0 .. 2 * S - 1
  <1>1. BITS \in Nat /\ HALF \in Nat \ {0} /\ HALF < BITS
    BY ByteIs
  <1>2. /\ Width(w) \in Nat /\ BITS <= Width(w) /\ Width(w) <= 2 * BITS /\ HALF < Width(w)
        /\ Width(w) - 1 \in Nat /\ Width(w) - 1 < Width(w) /\ Width(w) - 1 \in 0 .. 2 * BITS - 1
    BY <1>1 DEF Width
  <1>3. Width(w) - 1 \in 0 .. 2 * BITS /\ (Width(w) - 1) + 1 = Width(w)
    BY <1>1, <1>2
  <1>4. PICK S \in Nat \ {0} : S = 2^(Width(w) - 1)
    BY <1>3, Powers
  <1>5. 2^Width(w) = 2 * S
    BY <1>2, <1>3, <1>4, Step2
  <1>6. (2 * S) \div 2 = S
    OBVIOUS
  <1>7. /\ S = 2^(Width(w) - 1) /\ 2^Width(w) = 2 * S /\ Bound(w) = 2 * S
        /\ Bound(w) \div 2 = S /\ InWidth(w) = 0 .. 2 * S - 1
    BY <1>4, <1>5, <1>6 DEF Bound, InWidth
  <1>8. QED BY <1>2, <1>7, Zenon

LEMMA WordsWrap ==
  ASSUME NEW x \in Int, NEW w \in BOOLEAN
  PROVE  /\ i16(x) \in Word /\ Masked(i16(x), w) = Masked(x, w)
         /\ Masked(Masked(x, w), w) = Masked(x, w) /\ Masked(x, w) \in InWidth(w)
         /\ \E k \in Int : i16(x) = x - k * 2^(2 * BITS)
  <1>1. Width(w) \in Nat /\ Width(w) <= 2 * BITS /\ 2 * BITS \in Nat /\ 2 * BITS \in 0 .. 2 * BITS
    BY WidthIs, ByteIs
  <1>2. Masked(i16(x), w) = Masked(x, w) /\ Masked(Masked(x, w), w) = Masked(x, w)
    <2>1. /\ (x % 2^(2 * BITS)) % 2^Width(w) = x % 2^Width(w)
          /\ (x % 2^Width(w)) % 2^Width(w) = x % 2^Width(w)
      <3>1. PICK i \in Nat, n \in Nat : i = Width(w) /\ n = 2 * BITS /\ i <= n /\ n <= 2 * BITS /\ i <= i
        BY <1>1
      <3>2. (x % 2^n) % 2^i = x % 2^i /\ (x % 2^i) % 2^i = x % 2^i
        BY <3>1, ModulesNest
      <3>3. QED BY <3>1, <3>2
    <2>2. QED BY <2>1 DEF Masked, i16
  <1>3. PICK Q \in Nat \ {0} : Q = 2^(2 * BITS)
    BY <1>1, Powers
  <1>4. PICK k \in Int, d \in 0 .. Q - 1 : x = k * Q + d /\ d = x % Q
    BY <1>3, Division
  <1>5. d = x - k * Q
    BY <1>3, <1>4
  <1>6. Masked(x, w) \in InWidth(w)
    <2>1. PICK S \in Nat \ {0} : 2^Width(w) = 2 * S /\ InWidth(w) = 0 .. 2 * S - 1
      BY WidthIs
    <2>2. x % (2 * S) \in 0 .. 2 * S - 1
      BY <2>1
    <2>3. QED BY <2>1, <2>2 DEF Masked
  <1>7. i16(x) = d /\ i16(x) \in Word
    BY <1>3, <1>4 DEF i16, Word
  <1>8. i16(x) = x - k * 2^(2 * BITS)
    BY <1>3, <1>5, <1>7
  <1>9. QED BY <1>2, <1>4, <1>6, <1>7, <1>8

LEMMA InWidthIs ==
  ASSUME NEW w \in BOOLEAN, NEW v \in InWidth(w)
  PROVE  v \in Nat /\ Masked(v, w) = v
  <1>1. PICK S \in Nat \ {0} : 2^Width(w) = 2 * S /\ InWidth(w) = 0 .. 2 * S - 1
    BY WidthIs
  <1>2. v \in 0 .. 2 * S - 1
    BY <1>1
  <1>3. v % (2 * S) = v /\ v \in Nat
    BY <1>2
  <1>4. QED BY <1>1, <1>3 DEF Masked

(* The result with bits above its width, and without, give the same flags. *)
LEMMA ResultFlags ==
  ASSUME NEW x \in Int, NEW w \in BOOLEAN
  PROVE  /\ ResultBits(i16(x), w) = ResultBits(Masked(x, w), w)
         /\ Msb(i16(x), w) <=> Msb(Masked(x, w), w)
  <1>1. /\ Width(w) \in Nat /\ Width(w) <= 2 * BITS /\ BITS \in Nat /\ BITS <= Width(w)
        /\ Width(w) - 1 \in Nat /\ Width(w) - 1 < Width(w) /\ 2 * BITS \in Nat
        /\ Width(w) - 1 < 2 * BITS /\ BITS <= 2 * BITS
    BY WidthIs, ByteIs
  <1>2. Masked(i16(x), w) = Masked(Masked(x, w), w)
    BY WordsWrap
  <1>3. Msb(i16(x), w) <=> Msb(Masked(x, w), w)
    <2>1. PICK i \in Nat, j \in Nat, n \in Nat : /\ i = Width(w) - 1 /\ j = Width(w) /\ n = 2 * BITS
                                                 /\ i < n /\ i < j /\ j <= 2 * BITS /\ n <= 2 * BITS
      BY <1>1
    <2>2. (Bit(x % 2^n, i) <=> Bit(x, i)) /\ (Bit(x % 2^j, i) <=> Bit(x, i))
      BY <2>1, BitLeft
    <2>3. QED BY <2>1, <2>2 DEF i16, Masked, Msb
  <1>4. i16(x) % 2^BITS = Masked(x, w) % 2^BITS
    <2>1. PICK i \in Nat, j \in Nat, n \in Nat : /\ i = BITS /\ j = Width(w) /\ n = 2 * BITS
                                                 /\ i <= n /\ i <= j /\ j <= 2 * BITS /\ n <= 2 * BITS
      BY <1>1
    <2>2. (x % 2^n) % 2^i = x % 2^i /\ (x % 2^j) % 2^i = x % 2^i
      BY <2>1, ModulesNest
    <2>3. QED BY <2>1, <2>2 DEF i16, Masked
  <1>5. Even(i16(x)) <=> Even(Masked(x, w))
    BY <1>4 DEF Even
  <1>6. /\ When(Masked(i16(x), w) = 0, "ZF") = When(Masked(Masked(x, w), w) = 0, "ZF")
        /\ When(Msb(i16(x), w), "SF") = When(Msb(Masked(x, w), w), "SF")
        /\ When(Even(i16(x)), "PF") = When(Even(Masked(x, w)), "PF")
    BY <1>2, <1>3, <1>5 DEF When
  <1>7. QED BY <1>3, <1>6, Zenon DEF ResultBits

(* Overflow.                                                               *)
Value(v, S) == IF v >= S THEN v - 2 * S ELSE v
LEMMA SignOf ==
  ASSUME NEW w \in BOOLEAN, NEW v \in InWidth(w), NEW S \in Nat \ {0}, S = 2^(Width(w) - 1)
  PROVE  (Msb(v, w) <=> v >= S) /\ Signed(v, Width(w)) = Value(v, S)
  <1>1. PICK T \in Nat \ {0} : T = 2^(Width(w) - 1) /\ 2^Width(w) = 2 * T /\ InWidth(w) = 0 .. 2 * T - 1
    BY WidthIs
  <1>2. v \in 0 .. 2 * S - 1 /\ 2^Width(w) = 2 * S
    BY <1>1
  <1>3. Bit(v, Width(w) - 1) <=> v >= S
    BY <1>2, SignIs
  <1>4. QED BY <1>2, <1>3 DEF Msb, Signed, Sign, Value

(* What a sum and a difference leave in a record of either width.          *)
HalfCrossed(a, b, r) == Bit(a, HALF) # (Bit(b, HALF) # Bit(r, HALF))
SumOver(S, a, b, r) == (a >= S <=> r < S) /\ (b >= S <=> r < S)
DifferenceOver(S, a, b, r) == (a >= S <=> b < S) /\ (a >= S <=> r < S)
LEMMA SumOverflows ==
  ASSUME NEW S \in Nat \ {0}, NEW a \in 0 .. 2 * S - 1, NEW b \in 0 .. 2 * S - 1, NEW c \in {0, 1},
         NEW x, x = a + b + c, NEW r \in 0 .. 2 * S - 1, r = x \/ r = x - 2 * S,
         NEW total, total = Value(a, S) + Value(b, S) + c
  PROVE  SumOver(S, a, b, r) <=> total \notin -S .. S - 1
  BY DEF SumOver, Value
LEMMA DifferenceOverflows ==
  ASSUME NEW S \in Nat \ {0}, NEW a \in 0 .. 2 * S - 1, NEW b \in 0 .. 2 * S - 1, NEW c \in {0, 1},
         NEW x, x = a - b - c, NEW r \in 0 .. 2 * S - 1, r = x \/ r = x + 2 * S,
         NEW total, total = Value(a, S) - Value(b, S) - c
  PROVE  DifferenceOver(S, a, b, r) <=> total \notin -S .. S - 1
  BY DEF DifferenceOver, Value

LEMMA WideWraps ==
  ASSUME NEW w \in BOOLEAN, NEW x \in Int, NEW S \in Nat \ {0}, 2^Width(w) = 2 * S,
         x \in -(2 * S) .. 4 * S - 1
  PROVE  Masked(x, w) = IF x < 0 THEN x + 2 * S ELSE IF x >= 2 * S THEN x - 2 * S ELSE x
  <1>1. PICK P \in Nat \ {0} : P = 2 * S
    OBVIOUS
  <1>2. x \in -P .. 2 * P - 1
    BY <1>1
  <1>3. x % P = IF x < 0 THEN x + P ELSE IF x >= P THEN x - P ELSE x
    BY <1>1, <1>2
  <1>4. QED BY <1>1, <1>3 DEF Masked

LEMMA HalfSum ==
  ASSUME NEW a \in Nat, NEW b \in Nat, NEW c \in {0, 1}
  PROVE  HalfCrossed(a, b, i16(a + b + c)) <=> Digit(a) + Digit(b) + c >= 2^HALF
  <1>1. HALF \in Nat /\ BITS \in Nat /\ HALF < 2 * BITS /\ 2 * BITS \in Nat /\ 2 * BITS <= 2 * BITS
    BY ByteIs
  <1>2. PICK H \in Nat \ {0}, K \in Nat \ {0} : H = 2^HALF /\ 2^(2 * BITS) = 2 * H * K
    BY <1>1, Pairs
  <1>3. PICK x \in Int : x = a + b + c
    OBVIOUS
  <1>4. PICK k \in Int : i16(x) = x - k * 2^(2 * BITS)
    BY WordsWrap
  <1>5. PICK t \in Int : t = k * K
    OBVIOUS
  <1>6. k * 2^(2 * BITS) = 2 * t * H
    BY <1>2, <1>5, Regroup
  <1>7. PICK u \in Int : u = 2 * t * H
    BY <1>5
  <1>8. PICK r \in Int : r = i16(x) /\ r = x - u
    BY <1>3, <1>4, <1>6, <1>7
  <1>9. r = a + b + c - 2 * t * H
    <2>1. r = a + b + c - u
      BY <1>3, <1>8
    <2>2. QED BY <1>7, <2>1
  <1>10. a \in Int /\ b \in Int
    OBVIOUS
  <1>11. Crosses(H, a, b, r) <=> (a % H) + (b % H) + c >= H
    BY <1>9, <1>10, CrossingSum, Zenon
  <1>12. QED BY <1>2, <1>3, <1>8, <1>11 DEF Crosses, HalfCrossed, Bit, Digit

LEMMA HalfDifference ==
  ASSUME NEW a \in Nat, NEW b \in Nat, NEW c \in {0, 1}
  PROVE  HalfCrossed(a, b, i16(a - b - c)) <=> Digit(a) < Digit(b) + c
  <1>1. HALF \in Nat /\ BITS \in Nat /\ HALF < 2 * BITS /\ 2 * BITS \in Nat /\ 2 * BITS <= 2 * BITS
    BY ByteIs
  <1>2. PICK H \in Nat \ {0}, K \in Nat \ {0} : H = 2^HALF /\ 2^(2 * BITS) = 2 * H * K
    BY <1>1, Pairs
  <1>3. PICK x \in Int : x = a - b - c
    OBVIOUS
  <1>4. PICK k \in Int : i16(x) = x - k * 2^(2 * BITS)
    BY WordsWrap
  <1>5. PICK j \in Int : j = -k
    BY <1>4
  <1>6. PICK t \in Int : t = j * K
    BY <1>5
  <1>7. j * 2^(2 * BITS) = 2 * t * H
    BY <1>2, <1>5, <1>6, Regroup
  <1>8. PICK u \in Int : u = 2 * t * H
    BY <1>6
  <1>9. PICK r \in Int : r = i16(x) /\ r = x + u
    <2>1. PICK Q \in Int : Q = 2^(2 * BITS)
      BY <1>2
    <2>2. i16(x) = x + j * Q
      BY <1>4, <1>5, <2>1
    <2>3. j * Q = u
      BY <1>7, <1>8, <2>1
    <2>4. i16(x) = x + u
      BY <2>2, <2>3
    <2>5. QED BY <1>3, <1>8, <2>4
  <1>10. r = a - b - c + 2 * t * H
    <2>1. r = a - b - c + u
      BY <1>3, <1>9
    <2>2. QED BY <1>8, <2>1
  <1>11. a \in Int /\ b \in Int
    OBVIOUS
  <1>12. Crosses(H, a, b, r) <=> a % H < (b % H) + c
    BY <1>10, <1>11, CrossingDifference, Zenon
  <1>13. QED BY <1>2, <1>3, <1>9, <1>12 DEF Crosses, HalfCrossed, Bit, Digit

LEMMA SumMade ==
  ASSUME NEW w \in BOOLEAN, NEW a \in InWidth(w), NEW b \in InWidth(w), NEW c \in {0, 1}, NEW rec,
         rec.lz \in {"ADD", "INC"}, rec.lw = w, rec.la = a, rec.lb = b, rec.lr = i16(a + b + c), NEW fl
  PROVE  /\ ResultBits(rec.lr, w) = ResultBits(Masked(a + b + c, w), w)
         /\ HalfFlag(rec) <=> Digit(a) + Digit(b) + c >= 2^HALF
         /\ OverflowFlag(rec) <=> ~ InRange(Signed(a, Width(w)) + Signed(b, Width(w)) + c, w)
         /\ rec.lz = "ADD" /\ rec.lc = c => (CarryFlag(rec, fl) <=> a + b + c >= Bound(w))
  <1>1. PICK S \in Nat \ {0} : /\ S = 2^(Width(w) - 1) /\ 2^Width(w) = 2 * S /\ Bound(w) = 2 * S
                               /\ Bound(w) \div 2 = S /\ InWidth(w) = 0 .. 2 * S - 1
    BY WidthIs
  <1>2. a \in 0 .. 2 * S - 1 /\ b \in 0 .. 2 * S - 1 /\ a \in Nat /\ b \in Nat
    BY <1>1
  <1>3. PICK x \in Int : x = a + b + c
    BY <1>2
  <1>4. ResultBits(i16(x), w) = ResultBits(Masked(x, w), w) /\ (Msb(i16(x), w) <=> Msb(Masked(x, w), w))
    BY ResultFlags
  <1>5. HalfFlag(rec) <=> Digit(a) + Digit(b) + c >= 2^HALF
    <2>1. HalfFlag(rec) <=> HalfCrossed(a, b, i16(a + b + c))
      BY DEF HalfFlag, HalfCrossed
    <2>2. QED BY <1>2, <2>1, HalfSum
  <1>6. PICK r \in 0 .. 2 * S - 1 : r = Masked(x, w) /\ r = Masked(i16(x), w) /\ (r = x \/ r = x - 2 * S) /\ (r = x <=> x < 2 * S)
    <2>1. x \in 0 .. 4 * S - 1 /\ x \in -(2 * S) .. 4 * S - 1
      BY <1>2, <1>3
    <2>2. Masked(x, w) = IF x < 0 THEN x + 2 * S ELSE IF x >= 2 * S THEN x - 2 * S ELSE x
      BY <1>1, <2>1, WideWraps
    <2>3. Masked(i16(x), w) = Masked(x, w) /\ Masked(x, w) \in 0 .. 2 * S - 1
      BY <1>1, WordsWrap
    <2>4. PICK r \in 0 .. 2 * S - 1 : r = Masked(x, w)
      BY <2>3
    <2>5. r = IF x < 0 THEN x + 2 * S ELSE IF x >= 2 * S THEN x - 2 * S ELSE x
      BY <2>2, <2>4
    <2>6. (r = x \/ r = x - 2 * S) /\ (r = x <=> x < 2 * S)
      BY <2>1, <2>5
    <2>7. QED BY <2>3, <2>4, <2>6, Zenon
  <1>7. /\ Msb(a, w) <=> a >= S
        /\ Msb(b, w) <=> b >= S
        /\ Msb(i16(x), w) <=> r >= S
        /\ Signed(a, Width(w)) = Value(a, S) /\ Signed(b, Width(w)) = Value(b, S)
    <2>1. r \in InWidth(w)
      BY <1>1
    <2>2. QED BY <1>1, <1>4, <1>6, <2>1, SignOf
  <1>8. OverflowFlag(rec) <=> ~ InRange(Signed(a, Width(w)) + Signed(b, Width(w)) + c, w)
    <2>1. OverflowFlag(rec) <=> SumOver(S, a, b, r)
      <3>1. rec.lz # "LOG" /\ Adding(rec)
        BY DEF Adding
      <3>2. OverflowFlag(rec) <=> (Msb(a, w) # Msb(i16(x), w) /\ Msb(b, w) # Msb(i16(x), w))
        BY <1>3, <3>1 DEF OverflowFlag
      <3>3. Msb(a, w) \in BOOLEAN /\ Msb(b, w) \in BOOLEAN /\ Msb(i16(x), w) \in BOOLEAN
        BY DEF Msb, Bit
      <3>4. r >= S <=> ~ (r < S)
        OBVIOUS
      <3>5. QED BY <1>7, <3>2, <3>3, <3>4 DEF SumOver, DifferenceOver
    <2>2. PICK total : total = Value(a, S) + Value(b, S) + c
      OBVIOUS
    <2>3. SumOver(S, a, b, r) <=> total \notin -S .. S - 1
      BY <1>2, <1>3, <1>6, <2>2, SumOverflows
    <2>4. InRange(total, w) <=> total \in -S .. S - 1
      BY <1>1 DEF InRange
    <2>5. total = Signed(a, Width(w)) + Signed(b, Width(w)) + c
      BY <1>7, <2>2
    <2>6. OverflowFlag(rec) <=> ~ InRange(total, w)
      BY <2>1, <2>3, <2>4, Zenon
    <2>7. QED BY <2>5, <2>6, Zenon
  <1>9. ASSUME rec.lz = "ADD", rec.lc = c PROVE CarryFlag(rec, fl) <=> a + b + c >= Bound(w)
    <2>1. Masked(a, w) = a
      BY InWidthIs
    <2>2. CarryFlag(rec, fl) <=> IF c = 1 THEN r <= a ELSE r < a
      BY <1>3, <1>6, <1>9, <2>1 DEF CarryFlag
    <2>3. (IF c = 1 THEN r <= a ELSE r < a) <=> x >= 2 * S
      BY <1>2, <1>3, <1>6
    <2>4. QED BY <1>1, <1>3, <2>2, <2>3
  <1>10. QED BY <1>3, <1>4, <1>5, <1>8, <1>9

Subtracted(w, a, b, c, rec, fl) ==
  /\ ResultBits(rec.lr, w) = ResultBits(Masked(a - b - c, w), w)
  /\ HalfFlag(rec) <=> Digit(a) < Digit(b) + c
  /\ OverflowFlag(rec) <=> ~ InRange(Signed(a, Width(w)) - Signed(b, Width(w)) - c, w)
  /\ rec.lz = "SUB" /\ rec.lc = c => (CarryFlag(rec, fl) <=> a < b + c)
LEMMA DifferenceMade ==
  ASSUME NEW w \in BOOLEAN, NEW a \in InWidth(w), NEW b \in InWidth(w), NEW c \in {0, 1}, NEW rec,
         rec.lz \in {"SUB", "DEC"}, rec.lw = w, rec.la = a, rec.lb = b, rec.lr = i16(a - b - c), NEW fl
  PROVE  Subtracted(w, a, b, c, rec, fl)
  <1>1. PICK S \in Nat \ {0} : /\ S = 2^(Width(w) - 1) /\ 2^Width(w) = 2 * S /\ Bound(w) = 2 * S
                               /\ Bound(w) \div 2 = S /\ InWidth(w) = 0 .. 2 * S - 1
    BY WidthIs
  <1>2. a \in 0 .. 2 * S - 1 /\ b \in 0 .. 2 * S - 1 /\ a \in Nat /\ b \in Nat
    BY <1>1
  <1>3. PICK x \in Int : x = a - b - c
    BY <1>2
  <1>4. ResultBits(i16(x), w) = ResultBits(Masked(x, w), w) /\ (Msb(i16(x), w) <=> Msb(Masked(x, w), w))
    BY ResultFlags
  <1>5. HalfFlag(rec) <=> Digit(a) < Digit(b) + c
    <2>1. HalfFlag(rec) <=> HalfCrossed(a, b, i16(a - b - c))
      BY DEF HalfFlag, HalfCrossed
    <2>2. QED BY <1>2, <2>1, HalfDifference
  <1>6. PICK r \in 0 .. 2 * S - 1 : r = Masked(x, w) /\ r = Masked(i16(x), w) /\ (r = x \/ r = x + 2 * S)
    <2>1. x \in -(2 * S) .. 2 * S - 1 /\ x \in -(2 * S) .. 4 * S - 1
      BY <1>2, <1>3
    <2>2. Masked(x, w) = IF x < 0 THEN x + 2 * S ELSE IF x >= 2 * S THEN x - 2 * S ELSE x
      BY <1>1, <2>1, WideWraps
    <2>3. Masked(i16(x), w) = Masked(x, w) /\ Masked(x, w) \in 0 .. 2 * S - 1
      BY <1>1, WordsWrap
    <2>4. PICK r \in 0 .. 2 * S - 1 : r = Masked(x, w)
      BY <2>3
    <2>5. r = IF x < 0 THEN x + 2 * S ELSE IF x >= 2 * S THEN x - 2 * S ELSE x
      BY <2>2, <2>4
    <2>6. r = x \/ r = x + 2 * S
      BY <2>1, <2>5
    <2>7. QED BY <2>3, <2>4, <2>6, Zenon
  <1>7. /\ Msb(a, w) <=> a >= S
        /\ Msb(b, w) <=> b >= S
        /\ Msb(i16(x), w) <=> r >= S
        /\ Signed(a, Width(w)) = Value(a, S) /\ Signed(b, Width(w)) = Value(b, S)
    <2>1. r \in InWidth(w)
      BY <1>1
    <2>2. QED BY <1>1, <1>4, <1>6, <2>1, SignOf
  <1>8. OverflowFlag(rec) <=> ~ InRange(Signed(a, Width(w)) - Signed(b, Width(w)) - c, w)
    <2>1. OverflowFlag(rec) <=> DifferenceOver(S, a, b, r)
      <3>1. rec.lz # "LOG" /\ ~ Adding(rec)
        BY DEF Adding
      <3>2. OverflowFlag(rec) <=> (Msb(a, w) # Msb(b, w) /\ Msb(a, w) # Msb(i16(x), w))
        BY <1>3, <3>1 DEF OverflowFlag
      <3>3. Msb(a, w) \in BOOLEAN /\ Msb(b, w) \in BOOLEAN /\ Msb(i16(x), w) \in BOOLEAN
        BY DEF Msb, Bit
      <3>4. (r >= S <=> ~ (r < S)) /\ (b >= S <=> ~ (b < S))
        BY <1>2
      <3>5. QED BY <1>7, <3>2, <3>3, <3>4 DEF SumOver, DifferenceOver
    <2>2. PICK total : total = Value(a, S) - Value(b, S) - c
      OBVIOUS
    <2>3. DifferenceOver(S, a, b, r) <=> total \notin -S .. S - 1
      BY <1>2, <1>3, <1>6, <2>2, DifferenceOverflows
    <2>4. InRange(total, w) <=> total \in -S .. S - 1
      BY <1>1 DEF InRange
    <2>5. total = Signed(a, Width(w)) - Signed(b, Width(w)) - c
      BY <1>7, <2>2
    <2>6. OverflowFlag(rec) <=> ~ InRange(total, w)
      BY <2>1, <2>3, <2>4, Zenon
    <2>7. QED BY <2>5, <2>6, Zenon
  <1>9. ASSUME rec.lz = "SUB", rec.lc = c PROVE CarryFlag(rec, fl) <=> a < b + c
    <2>1. Masked(a, w) = a /\ Masked(b, w) = b
      BY InWidthIs
    <2>2. CarryFlag(rec, fl) <=> IF c = 1 THEN a <= b ELSE a < b
      BY <1>9, <2>1 DEF CarryFlag
    <2>3. (IF c = 1 THEN a <= b ELSE a < b) <=> a < b + c
      BY <1>2
    <2>4. QED BY <2>2, <2>3
  <1>10. QED BY <1>3, <1>4, <1>5, <1>8, <1>9 DEF Subtracted

LEMMA RecordIs ==
  ASSUME NEW cls, NEW w, NEW a, NEW b, NEW r, NEW c, NEW rec, rec = Rec86(cls, w, a, b, r, c)
  PROVE  rec.lz = cls /\ rec.lw = w /\ rec.la = a /\ rec.lb = b /\ rec.lr = r /\ rec.lc = c
  BY DEF Rec86

LEMMA SameFlag ==
  ASSUME NEW p \in BOOLEAN, NEW q \in BOOLEAN, NEW flag, p <=> q
  PROVE  When(p, flag) = When(q, flag)
  BY DEF When

LEMMA ResultBitsOnly == ASSUME NEW r, NEW w PROVE ResultBits(r, w) \subseteq {"ZF", "SF", "PF"}
  BY DEF ResultBits, When

LEMMA SumFlags86 ==
  ASSUME NEW w \in BOOLEAN, NEW a \in InWidth(w), NEW b \in InWidth(w), NEW c \in {0, 1}, NEW fl
  PROVE  i86flags(fl, Rec86("ADD", w, a, b, i16(a + b + c), c)) = OfSum86(a, b, c, w)
  <1>1. PICK rec : rec = Rec86("ADD", w, a, b, i16(a + b + c), c)
    OBVIOUS
  <1>2. rec.lz = "ADD" /\ rec.lw = w /\ rec.la = a /\ rec.lb = b /\ rec.lr = i16(a + b + c) /\ rec.lc = c
    BY <1>1, RecordIs
  <1>3. /\ ResultBits(rec.lr, w) = ResultBits(Masked(a + b + c, w), w)
        /\ HalfFlag(rec) <=> Digit(a) + Digit(b) + c >= 2^HALF
        /\ OverflowFlag(rec) <=> ~ InRange(Signed(a, Width(w)) + Signed(b, Width(w)) + c, w)
        /\ CarryFlag(rec, fl) <=> a + b + c >= Bound(w)
    BY <1>2, SumMade
  <1>4. i86flags(fl, rec) = ResultBits(rec.lr, w) \cup When(CarryFlag(rec, fl), "CF")
                              \cup When(HalfFlag(rec), "AF") \cup When(OverflowFlag(rec), "OF")
    BY <1>2 DEF i86flags
  <1>5. /\ When(CarryFlag(rec, fl), "CF") = When(a + b + c >= Bound(w), "CF")
        /\ When(HalfFlag(rec), "AF") = When(Digit(a) + Digit(b) + c >= 2^HALF, "AF")
        /\ When(OverflowFlag(rec), "OF")
             = When(~ InRange(Signed(a, Width(w)) + Signed(b, Width(w)) + c, w), "OF")
    BY <1>3, Zenon DEF When
  <1>6. QED BY <1>1, <1>3, <1>4, <1>5 DEF OfSum86, ByValue

LEMMA DifferenceFlags86 ==
  ASSUME NEW w \in BOOLEAN, NEW a \in InWidth(w), NEW b \in InWidth(w), NEW c \in {0, 1}, NEW fl
  PROVE  i86flags(fl, Rec86("SUB", w, a, b, i16(a - b - c), c)) = OfDifference86(a, b, c, w)
  <1>1. PICK rec : rec = Rec86("SUB", w, a, b, i16(a - b - c), c)
    OBVIOUS
  <1>2. rec.lz = "SUB" /\ rec.lw = w /\ rec.la = a /\ rec.lb = b /\ rec.lr = i16(a - b - c) /\ rec.lc = c
    BY <1>1, RecordIs
  <1>3. /\ ResultBits(rec.lr, w) = ResultBits(Masked(a - b - c, w), w)
        /\ HalfFlag(rec) <=> Digit(a) < Digit(b) + c
        /\ OverflowFlag(rec) <=> ~ InRange(Signed(a, Width(w)) - Signed(b, Width(w)) - c, w)
        /\ CarryFlag(rec, fl) <=> a < b + c
    <2>1. rec.lz \in {"SUB", "DEC"}
      BY <1>2
    <2>2. /\ ResultBits(rec.lr, w) = ResultBits(Masked(a - b - c, w), w)
          /\ HalfFlag(rec) <=> Digit(a) < Digit(b) + c
          /\ OverflowFlag(rec) <=> ~ InRange(Signed(a, Width(w)) - Signed(b, Width(w)) - c, w)
          /\ rec.lz = "SUB" /\ rec.lc = c => (CarryFlag(rec, fl) <=> a < b + c)
      <3>1. rec.lw = w /\ rec.la = a /\ rec.lb = b /\ rec.lr = i16(a - b - c)
        BY <1>2
      <3>2. Subtracted(w, a, b, c, rec, fl)
        BY <2>1, <3>1, DifferenceMade
      <3>3. QED BY <3>2 DEF Subtracted
    <2>3. QED BY <1>2, <2>2, Zenon
  <1>4. i86flags(fl, rec) = ResultBits(rec.lr, w) \cup When(CarryFlag(rec, fl), "CF")
                              \cup When(HalfFlag(rec), "AF") \cup When(OverflowFlag(rec), "OF")
    BY <1>2 DEF i86flags
  <1>5. /\ When(CarryFlag(rec, fl), "CF") = When(a < b + c, "CF")
        /\ When(HalfFlag(rec), "AF") = When(Digit(a) < Digit(b) + c, "AF")
        /\ When(OverflowFlag(rec), "OF")
             = When(~ InRange(Signed(a, Width(w)) - Signed(b, Width(w)) - c, w), "OF")
    BY <1>3, Zenon DEF When
  <1>6. QED BY <1>1, <1>3, <1>4, <1>5 DEF OfDifference86, ByValue

LEMMA ByValueParts ==
  ASSUME NEW half, NEW over, NEW bits, bits \subseteq {"ZF", "SF", "PF"}, NEW carry
  PROVE  (When(carry, "CF") \cup When(half, "AF") \cup When(over, "OF") \cup bits) \ {"CF"}
           = When(half, "AF") \cup When(over, "OF") \cup bits
  BY DEF When

LEMMA IncFlags ==
  ASSUME NEW w \in BOOLEAN, NEW a \in InWidth(w), NEW fl
  PROVE  i86flags(fl, Rec86("INC", w, a, 1, i16(a + 1), 0))
           = (fl \cap {"CF"}) \cup (OfSum86(a, 1, 0, w) \ {"CF"})
  <1>1. PICK rec : rec = Rec86("INC", w, a, 1, i16(a + 1), 0)
    OBVIOUS
  <1>2. 1 \in InWidth(w) /\ a + 1 = a + 1 + 0
    <2>1. PICK S \in Nat \ {0} : InWidth(w) = 0 .. 2 * S - 1
      BY WidthIs
    <2>2. QED BY <2>1
  <1>3. rec.lz = "INC" /\ rec.lw = w /\ rec.la = a /\ rec.lb = 1 /\ rec.lr = i16(a + 1 + 0)
    BY <1>1, <1>2, RecordIs
  <1>4. /\ ResultBits(rec.lr, w) = ResultBits(Masked(a + 1 + 0, w), w)
        /\ HalfFlag(rec) <=> Digit(a) + Digit(1) + 0 >= 2^HALF
        /\ OverflowFlag(rec) <=> ~ InRange(Signed(a, Width(w)) + Signed(1, Width(w)) + 0, w)
    BY <1>2, <1>3, SumMade
  <1>5. i86flags(fl, rec) = ResultBits(rec.lr, w) \cup When("CF" \in fl, "CF")
                              \cup When(HalfFlag(rec), "AF") \cup When(OverflowFlag(rec), "OF")
    BY <1>3 DEF i86flags, CarryFlag
  <1>6. /\ When(HalfFlag(rec), "AF") = When(Digit(a) + Digit(1) + 0 >= 2^HALF, "AF")
        /\ When(OverflowFlag(rec), "OF")
             = When(~ InRange(Signed(a, Width(w)) + Signed(1, Width(w)) + 0, w), "OF")
    BY <1>4, Zenon DEF When
  <1>7. OfSum86(a, 1, 0, w) \ {"CF"}
          = When(HalfFlag(rec), "AF") \cup When(OverflowFlag(rec), "OF") \cup ResultBits(rec.lr, w)
    <2>1. OfSum86(a, 1, 0, w)
            = When(a + 1 + 0 >= Bound(w), "CF") \cup When(HalfFlag(rec), "AF")
                \cup When(OverflowFlag(rec), "OF") \cup ResultBits(rec.lr, w)
      BY <1>4, <1>6, Zenon DEF OfSum86, ByValue
    <2>2. QED BY <2>1, ResultBitsOnly, ByValueParts
  <1>8. fl \cap {"CF"} = When("CF" \in fl, "CF")
    BY DEF When
  <1>9. QED BY <1>1, <1>5, <1>7, <1>8

LEMMA DecFlags ==
  ASSUME NEW w \in BOOLEAN, NEW a \in InWidth(w), NEW fl
  PROVE  i86flags(fl, Rec86("DEC", w, a, 1, i16(a - 1), 0))
           = (fl \cap {"CF"}) \cup (OfDifference86(a, 1, 0, w) \ {"CF"})
  <1>1. PICK rec : rec = Rec86("DEC", w, a, 1, i16(a - 1), 0)
    OBVIOUS
  <1>2. 1 \in InWidth(w) /\ a - 1 = a - 1 - 0
    <2>1. PICK S \in Nat \ {0} : InWidth(w) = 0 .. 2 * S - 1
      BY WidthIs
    <2>2. QED BY <2>1
  <1>3. rec.lz = "DEC" /\ rec.lw = w /\ rec.la = a /\ rec.lb = 1 /\ rec.lr = i16(a - 1 - 0)
    BY <1>1, <1>2, RecordIs
  <1>4. /\ ResultBits(rec.lr, w) = ResultBits(Masked(a - 1 - 0, w), w)
        /\ HalfFlag(rec) <=> Digit(a) < Digit(1) + 0
        /\ OverflowFlag(rec) <=> ~ InRange(Signed(a, Width(w)) - Signed(1, Width(w)) - 0, w)
    <2>1. Subtracted(w, a, 1, 0, rec, fl)
      BY <1>2, <1>3, DifferenceMade
    <2>2. QED BY <2>1 DEF Subtracted
  <1>5. i86flags(fl, rec) = ResultBits(rec.lr, w) \cup When("CF" \in fl, "CF")
                              \cup When(HalfFlag(rec), "AF") \cup When(OverflowFlag(rec), "OF")
    BY <1>3 DEF i86flags, CarryFlag
  <1>6. /\ When(HalfFlag(rec), "AF") = When(Digit(a) < Digit(1) + 0, "AF")
        /\ When(OverflowFlag(rec), "OF")
             = When(~ InRange(Signed(a, Width(w)) - Signed(1, Width(w)) - 0, w), "OF")
    BY <1>4, Zenon DEF When
  <1>7. OfDifference86(a, 1, 0, w) \ {"CF"}
          = When(HalfFlag(rec), "AF") \cup When(OverflowFlag(rec), "OF") \cup ResultBits(rec.lr, w)
    <2>1. OfDifference86(a, 1, 0, w)
            = When(a < 1 + 0, "CF") \cup When(HalfFlag(rec), "AF")
                \cup When(OverflowFlag(rec), "OF") \cup ResultBits(rec.lr, w)
      BY <1>4, <1>6, Zenon DEF OfDifference86, ByValue
    <2>2. QED BY <2>1, ResultBitsOnly, ByValueParts
  <1>8. fl \cap {"CF"} = When("CF" \in fl, "CF")
    BY DEF When
  <1>9. QED BY <1>1, <1>5, <1>7, <1>8

LEMMA LogFlags ==
  ASSUME NEW w, NEW a, NEW b, NEW r, NEW fl
  PROVE  i86flags(fl, Rec86("LOG", w, a, b, r, 0)) = ByValue(FALSE, FALSE, TRUE, r, w)
  <1>1. PICK rec : rec = Rec86("LOG", w, a, b, r, 0)
    OBVIOUS
  <1>2. rec.lz = "LOG" /\ rec.lw = w /\ rec.lr = r
    BY <1>1, RecordIs
  <1>3. ~ CarryFlag(rec, fl) /\ ~ HalfFlag(rec) /\ ~ OverflowFlag(rec)
    BY <1>2 DEF CarryFlag, HalfFlag, OverflowFlag
  <1>4. i86flags(fl, rec) = ResultBits(r, w) \cup When(CarryFlag(rec, fl), "CF")
                              \cup When(HalfFlag(rec), "AF") \cup When(OverflowFlag(rec), "OF")
    BY <1>2 DEF i86flags
  <1>5. /\ When(CarryFlag(rec, fl), "CF") = {} /\ When(HalfFlag(rec), "AF") = {}
        /\ When(OverflowFlag(rec), "OF") = {}
    BY <1>3, Zenon DEF When
  <1>6. i86flags(fl, rec) = ResultBits(r, w)
    BY <1>4, <1>5
  <1>7. ByValue(FALSE, FALSE, TRUE, r, w) = ResultBits(r, w)
    BY DEF ByValue, When
  <1>8. QED BY <1>1, <1>6, <1>7

(* The 8086's record stands for the flags, and what a sum or a difference  *)
(* leaves in it is exact.                                                  *)
Exact86(rec) ==
  rec.lz \in {"ADD", "SUB"} =>
    /\ rec.lw \in BOOLEAN /\ rec.la \in InWidth(rec.lw) /\ rec.lb \in InWidth(rec.lw) /\ rec.lc \in {0, 1}
    /\ rec.lz = "ADD" => rec.lr = i16(rec.la + rec.lb + rec.lc)
    /\ rec.lz = "SUB" => rec.lr = i16(rec.la - rec.lb - rec.lc)
Stands86(h, e) == IsGuest86(h) /\ i86flags(h.fl, h.rec) = e /\ Exact86(h.rec)

LEMMA StandsRecord86 ==
  ASSUME NEW fl, NEW rec, NEW e, i86flags(fl, rec) = e, Exact86(rec)
  PROVE  Stands86([fl |-> fl, rec |-> rec], e)
  <1>1. PICK h : h = [fl |-> fl, rec |-> rec]
    OBVIOUS
  <1>2. IsGuest86(h) /\ h.fl = fl /\ h.rec = rec
    BY <1>1, AGuest86
  <1>3. QED BY <1>1, <1>2 DEF Stands86

LEMMA StandsMade86 ==
  ASSUME NEW fl
  PROVE  Stands86([fl |-> fl, rec |-> Nothing], fl)
  <1>1. PICK rec : rec = Nothing
    OBVIOUS
  <1>2. rec.lz = "NONE"
    BY <1>1 DEF Nothing
  <1>3. i86flags(fl, rec) = fl /\ Exact86(rec)
    BY <1>2 DEF i86flags, Exact86
  <1>4. QED BY <1>1, <1>3, StandsRecord86, Zenon

LEMMA CarryKept86 ==
  ASSUME NEW fl, NEW rec, rec.lz \in {"INC", "DEC"}
  PROVE  i86flags(fl, rec) \cap {"CF"} = fl \cap {"CF"}
  <1>1. PICK bits : bits = ResultBits(rec.lr, rec.lw) /\ bits \subseteq {"ZF", "SF", "PF"}
    BY ResultBitsOnly
  <1>2. PICK half, over : half = When(HalfFlag(rec), "AF") /\ over = When(OverflowFlag(rec), "OF")
    OBVIOUS
  <1>3. half \subseteq {"AF"} /\ over \subseteq {"OF"}
    BY <1>2 DEF When
  <1>4. CarryFlag(rec, fl) <=> "CF" \in fl
    BY DEF CarryFlag
  <1>5. i86flags(fl, rec) = bits \cup When(CarryFlag(rec, fl), "CF") \cup half \cup over
    BY <1>1, <1>2 DEF i86flags
  <1>6. When(CarryFlag(rec, fl), "CF") = fl \cap {"CF"}
    BY <1>4 DEF When
  <1>7. QED BY <1>1, <1>3, <1>5, <1>6

LEMMA LazyFlags86 ==
  ASSUME NEW h, IsGuest86(h), NEW cls, NEW w, NEW a, NEW b, NEW r, NEW c
  PROVE  \E fl : /\ i86lazy(h, cls, w, a, b, r, c) = [fl |-> fl, rec |-> Rec86(cls, w, a, b, r, c)]
                 /\ cls \in {"INC", "DEC"} => fl \cap {"CF"} = i86flags(h.fl, h.rec) \cap {"CF"}
  <1> DEFINE fold == cls \in {"INC", "DEC"} /\ h.rec.lz \notin {"INC", "DEC"}
  <1>1. PICK t : t = IF fold THEN Made(h) ELSE h
    OBVIOUS
  <1>2. i86lazy(h, cls, w, a, b, r, c) = [t EXCEPT !.rec = Rec86(cls, w, a, b, r, c)]
    BY <1>1, Zenon DEF i86lazy, Rec86
  <1>3. IsGuest86(t) /\ (fold => t.fl = i86flags(h.fl, h.rec)) /\ (~ fold => t = h)
    BY <1>1 DEF IsGuest86, Made
  <1>4. \A rec : [t EXCEPT !.rec = rec] = [fl |-> t.fl, rec |-> rec]
    BY <1>3 DEF IsGuest86
  <1>5. ASSUME cls \in {"INC", "DEC"} PROVE t.fl \cap {"CF"} = i86flags(h.fl, h.rec) \cap {"CF"}
    <2>1. CASE fold
      BY <1>3, <2>1, Zenon
    <2>2. CASE ~ fold
      <3>1. h.rec.lz \in {"INC", "DEC"}
        BY <1>5, <2>2
      <3>2. i86flags(h.fl, h.rec) \cap {"CF"} = h.fl \cap {"CF"}
        BY <3>1, CarryKept86
      <3>3. t = h
        BY <1>3, <2>2, Zenon
      <3>4. QED BY <3>2, <3>3, Zenon
    <2>3. QED BY <2>1, <2>2, Zenon
  <1> HIDE DEF fold
  <1>6. QED BY <1>2, <1>4, <1>5, Zenon

LEMMA StandsLazy86 ==
  ASSUME NEW h, IsGuest86(h), NEW cls, NEW w, NEW a, NEW b, NEW r, NEW c, NEW e,
         \A fl : i86flags(fl, Rec86(cls, w, a, b, r, c)) = e, Exact86(Rec86(cls, w, a, b, r, c))
  PROVE  Stands86(i86lazy(h, cls, w, a, b, r, c), e)
  <1>1. PICK fl : i86lazy(h, cls, w, a, b, r, c) = [fl |-> fl, rec |-> Rec86(cls, w, a, b, r, c)]
    BY LazyFlags86
  <1>2. QED BY <1>1, StandsRecord86, Zenon

LEMMA NotExact86 ==
  ASSUME NEW cls, cls \notin {"ADD", "SUB"}, NEW w, NEW a, NEW b, NEW r, NEW c
  PROVE  Exact86(Rec86(cls, w, a, b, r, c))
  BY DEF Exact86, Rec86

LEMMA StandsKeeper86 ==
  ASSUME NEW h, IsGuest86(h), NEW cls \in {"INC", "DEC"}, NEW w, NEW a, NEW b, NEW r, NEW c, NEW new,
         \A fl : i86flags(fl, Rec86(cls, w, a, b, r, c)) = (fl \cap {"CF"}) \cup new
  PROVE  Stands86(i86lazy(h, cls, w, a, b, r, c), (i86flags(h.fl, h.rec) \cap {"CF"}) \cup new)
  <1>1. PICK fl : /\ i86lazy(h, cls, w, a, b, r, c) = [fl |-> fl, rec |-> Rec86(cls, w, a, b, r, c)]
                  /\ fl \cap {"CF"} = i86flags(h.fl, h.rec) \cap {"CF"}
    BY LazyFlags86
  <1>2. Exact86(Rec86(cls, w, a, b, r, c))
    BY NotExact86
  <1>3. PICK rec, e : rec = Rec86(cls, w, a, b, r, c) /\ e = (i86flags(h.fl, h.rec) \cap {"CF"}) \cup new
    OBVIOUS
  <1>4. i86flags(fl, rec) = e
    BY <1>1, <1>3, Zenon
  <1>5. Exact86(rec) /\ i86lazy(h, cls, w, a, b, r, c) = [fl |-> fl, rec |-> rec]
    BY <1>1, <1>2, <1>3
  <1>6. Stands86([fl |-> fl, rec |-> rec], e)
    BY <1>4, <1>5, StandsRecord86
  <1>7. QED BY <1>3, <1>5, <1>6

(* The operations that leave a record.                                     *)
LEMMA AddStands86 ==
  ASSUME NEW h, IsGuest86(h), NEW w \in BOOLEAN, NEW a \in InWidth(w), NEW b \in InWidth(w), NEW c \in {0, 1}
  PROVE  Stands86(i86add(h, w, a, b, c), OfSum86(a, b, c, w))
  <1>1. PICK rec : rec = Rec86("ADD", w, a, b, i16(a + b + c), c)
    OBVIOUS
  <1>2. rec.lz = "ADD" /\ rec.lw = w /\ rec.la = a /\ rec.lb = b /\ rec.lr = i16(a + b + c) /\ rec.lc = c
    BY <1>1, RecordIs
  <1>3. Exact86(rec)
    BY <1>2 DEF Exact86
  <1>4. \A fl : i86flags(fl, rec) = OfSum86(a, b, c, w)
    BY <1>1, SumFlags86
  <1>5. QED BY <1>1, <1>3, <1>4, StandsLazy86, Zenon DEF i86add

LEMMA SubStands86 ==
  ASSUME NEW h, IsGuest86(h), NEW w \in BOOLEAN, NEW a \in InWidth(w), NEW b \in InWidth(w), NEW c \in {0, 1}
  PROVE  Stands86(i86sub(h, w, a, b, c), OfDifference86(a, b, c, w))
  <1>1. PICK rec : rec = Rec86("SUB", w, a, b, i16(a - b - c), c)
    OBVIOUS
  <1>2. rec.lz = "SUB" /\ rec.lw = w /\ rec.la = a /\ rec.lb = b /\ rec.lr = i16(a - b - c) /\ rec.lc = c
    BY <1>1, RecordIs
  <1>3. Exact86(rec)
    BY <1>2 DEF Exact86
  <1>4. \A fl : i86flags(fl, rec) = OfDifference86(a, b, c, w)
    BY <1>1, DifferenceFlags86
  <1>5. QED BY <1>1, <1>3, <1>4, StandsLazy86, Zenon DEF i86sub

LEMMA LogStands86 ==
  ASSUME NEW h, IsGuest86(h), NEW w, NEW a, NEW b, NEW r
  PROVE  Stands86(i86lazy(h, "LOG", w, a, b, r, 0), ByValue(FALSE, FALSE, TRUE, r, w))
  <1>1. Exact86(Rec86("LOG", w, a, b, r, 0))
    BY NotExact86
  <1>2. \A fl : i86flags(fl, Rec86("LOG", w, a, b, r, 0)) = ByValue(FALSE, FALSE, TRUE, r, w)
    BY LogFlags
  <1>3. QED BY <1>1, <1>2, StandsLazy86, Zenon

LEMMA CarryInBit == \A f : CarryIn(f) \in {0, 1}
  BY DEF CarryIn

LEMMA AluStands86 ==
  ASSUME Stands86(g, eager86), NEW w \in BOOLEAN, NEW a \in InWidth(w), NEW b \in InWidth(w),
         AluArith(w, a, b) \/ AluLogic(w, a, b) \/ NegOp(w, a)
  PROVE  Stands86(g', eager86')
  <1>1. IsGuest86(g) /\ FlagsNow = eager86 /\ IsGuest86(Made(g))
    BY MadeKeeps DEF Stands86, FlagsNow
  <1>2. PICK c \in {0, 1} : c = CarryIn(eager86) /\ c = CarryIn(FlagsNow)
    BY <1>1, CarryInBit
  <1>3. 0 \in {0, 1} /\ 0 \in InWidth(w)
    <2>1. PICK S \in Nat \ {0} : InWidth(w) = 0 .. 2 * S - 1
      BY WidthIs
    <2>2. QED BY <2>1
  <1>4. CASE AluArith(w, a, b)
    <2>1. CASE g' = i86add(g, w, a, b, 0) /\ eager86' = OfSum86(a, b, 0, w)
      BY <1>1, <1>3, <2>1, AddStands86
    <2>2. CASE g' = i86add(Made(g), w, a, b, c) /\ eager86' = OfSum86(a, b, c, w)
      BY <1>1, <2>2, AddStands86
    <2>3. CASE g' = i86sub(g, w, a, b, 0) /\ eager86' = OfDifference86(a, b, 0, w)
      BY <1>1, <1>3, <2>3, SubStands86
    <2>4. CASE g' = i86sub(Made(g), w, a, b, c) /\ eager86' = OfDifference86(a, b, c, w)
      BY <1>1, <2>4, SubStands86
    <2>5. QED BY <1>2, <1>4, <2>1, <2>2, <2>3, <2>4, Zenon DEF AluArith
  <1>5. CASE AluLogic(w, a, b)
    <2>1. PICK r : g' = i86lazy(g, "LOG", w, a, b, r, 0) /\ eager86' = ByValue(FALSE, FALSE, TRUE, r, w)
      BY <1>5, Zenon DEF AluLogic
    <2>2. QED BY <1>1, <2>1, LogStands86, Zenon
  <1>6. CASE NegOp(w, a)
    <2>1. g' = i86sub(g, w, 0, a, 0) /\ eager86' = OfDifference86(0, a, 0, w)
      BY <1>6, Zenon DEF NegOp
    <2>2. QED BY <1>1, <1>3, <2>1, SubStands86
  <1>7. QED BY <1>4, <1>5, <1>6

LEMMA IncStands86 ==
  ASSUME Stands86(g, eager86), NEW w \in BOOLEAN, NEW a \in InWidth(w), IncOp(w, a) \/ DecOp(w, a)
  PROVE  Stands86(g', eager86')
  <1>1. IsGuest86(g) /\ i86flags(g.fl, g.rec) = eager86
    BY DEF Stands86
  <1>2. CASE IncOp(w, a)
    <2>1. PICK r, new : r = i16(a + 1) /\ new = OfSum86(a, 1, 0, w) \ {"CF"}
      OBVIOUS
    <2>2. g' = i86lazy(g, "INC", w, a, 1, r, 0) /\ eager86' = (eager86 \cap {"CF"}) \cup new
      BY <1>2, <2>1 DEF IncOp, Keeping86
    <2>3. \A fl : i86flags(fl, Rec86("INC", w, a, 1, r, 0)) = (fl \cap {"CF"}) \cup new
      BY <2>1, IncFlags
    <2>4. "INC" \in {"INC", "DEC"}
      OBVIOUS
    <2>5. QED BY <1>1, <2>2, <2>3, <2>4, StandsKeeper86, Zenon
  <1>3. CASE DecOp(w, a)
    <2>1. PICK r, new : r = i16(a - 1) /\ new = OfDifference86(a, 1, 0, w) \ {"CF"}
      OBVIOUS
    <2>2. g' = i86lazy(g, "DEC", w, a, 1, r, 0) /\ eager86' = (eager86 \cap {"CF"}) \cup new
      BY <1>3, <2>1 DEF DecOp, decop, Keeping86
    <2>3. \A fl : i86flags(fl, Rec86("DEC", w, a, 1, r, 0)) = (fl \cap {"CF"}) \cup new
      BY <2>1, DecFlags
    <2>4. "DEC" \in {"INC", "DEC"}
      OBVIOUS
    <2>5. QED BY <1>1, <2>2, <2>3, <2>4, StandsKeeper86, Zenon
  <1>4. QED BY <1>2, <1>3

LEMMA DelayStands86 ==
  ASSUME Stands86(g, eager86), NEW w \in BOOLEAN, NEW r, DelayLoop(w, r)
  PROVE  Stands86(g', eager86')
  <1>1. IsGuest86(g) /\ i86flags(g.fl, g.rec) = eager86
    BY DEF Stands86
  <1>2. PICK h, x, y : h = decop(g, w, r + 1) /\ h = i86lazy(g, "DEC", w, x, 1, y, 0)
    BY DEF decop
  <1>3. PICK fl : h = [fl |-> fl, rec |-> Rec86("DEC", w, x, 1, y, 0)] /\ fl \cap {"CF"} = eager86 \cap {"CF"}
    <2>1. PICK fl : /\ i86lazy(g, "DEC", w, x, 1, y, 0) = [fl |-> fl, rec |-> Rec86("DEC", w, x, 1, y, 0)]
                    /\ "DEC" \in {"INC", "DEC"} => fl \cap {"CF"} = i86flags(g.fl, g.rec) \cap {"CF"}
      <3>1. PICK cls : cls = "DEC"
        OBVIOUS
      <3>2. PICK fl : /\ i86lazy(g, cls, w, x, 1, y, 0) = [fl |-> fl, rec |-> Rec86(cls, w, x, 1, y, 0)]
                      /\ cls \in {"INC", "DEC"} => fl \cap {"CF"} = i86flags(g.fl, g.rec) \cap {"CF"}
        BY <1>1, LazyFlags86
      <3>3. QED BY <3>1, <3>2
    <2>2. h = [fl |-> fl, rec |-> Rec86("DEC", w, x, 1, y, 0)]
      BY <1>2, <2>1, Zenon
    <2>3. fl \cap {"CF"} = eager86 \cap {"CF"}
      <3>1. "DEC" \in {"INC", "DEC"}
        OBVIOUS
      <3>2. QED BY <1>1, <2>1, <3>1, Zenon
    <2>4. QED BY <2>2, <2>3
  <1>4. PICK new : new = OfDifference86(1, 1, 0, w) \ {"CF"}
    OBVIOUS
  <1>5. g' = i86lazy(h, "DEC", w, 1, 1, 0, 0) /\ eager86' = (eager86 \cap {"CF"}) \cup new
    BY <1>2, <1>4 DEF DelayLoop, delay, Keeping86
  <1>6. g' = [fl |-> fl, rec |-> Rec86("DEC", w, 1, 1, 0, 0)]
    <2>1. PICK rec : rec = Rec86("DEC", w, x, 1, y, 0) /\ rec.lz = "DEC"
      BY RecordIs
    <2>2. QED BY <1>3, <1>5, <2>1, LazyAgain86 DEF Rec86
  <1>7. i86flags(fl, Rec86("DEC", w, 1, 1, 0, 0)) = (fl \cap {"CF"}) \cup new
    <2>1. PICK S \in Nat \ {0} : InWidth(w) = 0 .. 2 * S - 1
      BY WidthIs
    <2>2. 1 \in InWidth(w)
      BY <2>1
    <2>3. i16(1 - 1) = 0
      <3>1. PICK P \in Nat \ {0} : P = 2^(2 * BITS)
        BY ByteIs, Powers
      <3>2. (1 - 1) % P = 0
        BY <3>1
      <3>3. QED BY <3>1, <3>2 DEF i16
    <2>4. QED BY <1>4, <2>2, <2>3, DecFlags
  <1>8. Exact86(Rec86("DEC", w, 1, 1, 0, 0))
    BY NotExact86
  <1>9. QED BY <1>3, <1>5, <1>6, <1>7, <1>8, StandsRecord86, Zenon

(* Operations that make the flags: the same function of the same flags.    *)
LEMMA MakingStands86 ==
  ASSUME Stands86(g, eager86), NEW al, NEW add, NEW in, NEW f,
         \/ AsciiAdjust(al) \/ AamAad(al) \/ Adjust(al, add)
         \/ Multiply(in) \/ SetCarryFlag(in) \/ Complement \/ ReadFlags \/ Popf(f) \/ Sahf(f)
  PROVE  Stands86(g', eager86')
  <1>1. IsGuest86(g) /\ i86flags(g.fl, g.rec) = eager86 /\ FlagsNow = eager86
    BY DEF Stands86, FlagsNow
  <1>2. CASE AamAad(al)
    <2>1. g' = i86lazy(g, "LOG", FALSE, 0, 0, al, 0) /\ eager86' = ByValue(FALSE, FALSE, TRUE, al, FALSE)
      BY <1>2, Zenon DEF AamAad
    <2>2. QED BY <1>1, <2>1, LogStands86, Zenon
  <1>3. CASE AsciiAdjust(al) \/ Adjust(al, add) \/ Multiply(in) \/ SetCarryFlag(in) \/ Complement
               \/ ReadFlags \/ Popf(f) \/ Sahf(f)
    <2>1. PICK e : g' = [fl |-> e, rec |-> Nothing] /\ eager86' = e
      BY <1>1, <1>3, Zenon
      DEF AsciiAdjust, Adjust, Multiply, SetCarryFlag, Edited86, Complement, ReadFlags, Made, Popf, Sahf
    <2>2. QED BY <2>1, StandsMade86
  <1>4. QED BY <1>2, <1>3

(* Equal operands are those whose difference is zero.                      *)
LEMMA ZeroOfDifference ==
  ASSUME NEW w \in BOOLEAN, NEW p \in InWidth(w), NEW q \in InWidth(w)
  PROVE  "ZF" \in OfDifference86(p, q, 0, w) <=> p = q
  <1>1. PICK S \in Nat \ {0} : 2^Width(w) = 2 * S /\ InWidth(w) = 0 .. 2 * S - 1
    BY WidthIs
  <1>2. PICK x \in Int : x = p - q - 0 /\ x \in -(2 * S) .. 4 * S - 1 /\ (x = 0 <=> p = q) /\ x > -(2 * S) /\ x < 2 * S
    <2>1. p \in 0 .. 2 * S - 1 /\ q \in 0 .. 2 * S - 1
      BY <1>1
    <2>2. QED BY <2>1
  <1>3. Masked(x, w) = IF x < 0 THEN x + 2 * S ELSE IF x >= 2 * S THEN x - 2 * S ELSE x
    BY <1>1, <1>2, WideWraps
  <1>4. Masked(Masked(x, w), w) = Masked(x, w)
    BY WordsWrap
  <1>5. Masked(Masked(x, w), w) = 0 <=> p = q
    <2>1. PICK y : y = Masked(x, w) /\ y = Masked(Masked(x, w), w)
      BY <1>4
    <2>2. y = IF x < 0 THEN x + 2 * S ELSE IF x >= 2 * S THEN x - 2 * S ELSE x
      BY <1>3, <2>1
    <2>3. y = 0 <=> x = 0
      BY <1>2, <2>2
    <2>4. QED BY <1>2, <2>1, <2>3
  <1>6. PICK r : r = Masked(x, w)
    OBVIOUS
  <1>7. "ZF" \in ResultBits(r, w) <=> Masked(r, w) = 0
    BY DEF ResultBits, When
  <1>8. PICK carry, half, fits : ByValue(carry, half, fits, r, w) = OfDifference86(p, q, 0, w)
    BY <1>2, <1>6, Zenon DEF OfDifference86
  <1>9. "ZF" \in ByValue(carry, half, fits, r, w) <=> "ZF" \in ResultBits(r, w)
    BY DEF ByValue, When
  <1>10. QED BY <1>5, <1>6, <1>7, <1>8, <1>9

(* One comparison of a repeated one.                                       *)
Stops(pair, untilequal) == (pair[1] = pair[2]) = untilequal
LEMMA RoundIs ==
  ASSUME NEW w \in BOOLEAN, NEW pairs, NEW untilequal \in BOOLEAN, NEW k, IsGuest86(k), NEW i,
         NEW p \in InWidth(w), NEW q \in InWidth(w), p = pairs[i][1], q = pairs[i][2],
         NEW t, t = Stops(pairs[i], untilequal)
  PROVE  Round(w, pairs, untilequal, [h |-> k, ended |-> FALSE], i)
           = [h |-> [fl |-> OfDifference86(p, q, 0, w), rec |-> Nothing], ended |-> t]
  <1>1. p = pairs[i][1] /\ q = pairs[i][2]
    OBVIOUS
  <1>2. PICK d, made : d = OfDifference86(p, q, 0, w) /\ made = i86sub(k, w, p, q, 0)
    OBVIOUS
  <1>3. i86flags(made.fl, made.rec) = d
    BY <1>2, SubStands86 DEF Stands86
  <1>4. PICK h : h = [fl |-> d, rec |-> Nothing]
    OBVIOUS
  <1>5. Made(made) = h
    BY <1>3, <1>4 DEF Made
  <1>6. ("ZF" \in h.fl) = untilequal <=> Stops(pairs[i], untilequal)
    <2>0. h.fl = d
      BY <1>4
    <2>1. "ZF" \in h.fl <=> p = q
      BY <1>2, <2>0, ZeroOfDifference
    <2>2. QED BY <1>1, <2>1 DEF Stops
  <1>7. (("ZF" \in h.fl) = untilequal) = Stops(pairs[i], untilequal)
    BY <1>6 DEF Stops
  <1>8. Round(w, pairs, untilequal, [h |-> k, ended |-> FALSE], i)
          = [h |-> h, ended |-> ("ZF" \in h.fl) = untilequal]
    <2>1. PICK s : s = [h |-> k, ended |-> FALSE]
      OBVIOUS
    <2>2. s.h = k /\ ~ s.ended
      BY <2>1
    <2>3. Round(w, pairs, untilequal, s, i) = [h |-> h, ended |-> ("ZF" \in h.fl) = untilequal]
      BY <1>1, <1>2, <1>5, <2>2, Zenon DEF Round
    <2>4. QED BY <2>1, <2>3
  <1>9. QED BY <1>1, <1>2, <1>4, <1>7, <1>8

LEMMA EndedStays ==
  ASSUME NEW w, NEW pairs, NEW untilequal, NEW k, NEW i
  PROVE  Round(w, pairs, untilequal, [h |-> k, ended |-> TRUE], i) = [h |-> k, ended |-> TRUE]
  BY DEF Round

LEMMA RepStands86 ==
  ASSUME Stands86(g, eager86), NEW w \in BOOLEAN, NEW a \in InWidth(w), NEW b \in InWidth(w),
         NEW untilequal \in BOOLEAN, RepCompare(w, <<<<a, a>>, <<a, b>>, <<b, a>>>>, untilequal)
  PROVE  Stands86(g', eager86')
  <1>1. PICK pairs : /\ pairs = <<<<a, a>>, <<a, b>>, <<b, a>>>> /\ Len(pairs) = 3 /\ DOMAIN pairs = 1 .. 3
    OBVIOUS
  <1>2. \A i \in 1 .. 3 : pairs[i][1] \in InWidth(w) /\ pairs[i][2] \in InWidth(w)
    BY <1>1
  <1>3. RepCompare(w, pairs, untilequal)
    BY <1>1, Zenon
  <1> DEFINE f == CHOOSE f : Rounds(w, pairs, untilequal, f, Len(pairs))
  <1>4. Rounds(w, pairs, untilequal, f, Len(pairs))
    <2>1. Len(pairs) \in Nat
      BY <1>1
    <2>2. QED BY <2>1, RoundsExist, Zenon
  <1>5. Compared(w, pairs, untilequal) = f[Len(pairs)].h
    BY Zenon DEF Compared, Rounds, Round
  <1> HIDE DEF f
  <1>6. \A i \in 0 .. 3 : f[i] = IF i = 0 THEN [h |-> g, ended |-> FALSE]
                                 ELSE Round(w, pairs, untilequal, f[i - 1], i)
    BY <1>1, <1>4 DEF Rounds
  <1>7. /\ f[0] = [h |-> g, ended |-> FALSE]
        /\ f[1] = Round(w, pairs, untilequal, f[0], 1)
        /\ f[2] = Round(w, pairs, untilequal, f[1], 2)
        /\ f[3] = Round(w, pairs, untilequal, f[2], 3)
    BY <1>6
  <1>8. PICK d : d = [i \in 1 .. 3 |-> [fl |-> OfDifference86(pairs[i][1], pairs[i][2], 0, w), rec |-> Nothing]]
    OBVIOUS
  <1>9. PICK t : t = [i \in 1 .. 3 |-> Stops(pairs[i], untilequal)]
    OBVIOUS
  <1>10. ASSUME NEW i \in 1 .. 3, NEW k, IsGuest86(k)
         PROVE  Round(w, pairs, untilequal, [h |-> k, ended |-> FALSE], i) = [h |-> d[i], ended |-> t[i]]
    <2>1. PICK p \in InWidth(w), q \in InWidth(w) : p = pairs[i][1] /\ q = pairs[i][2]
      BY <1>2
    <2>2. Round(w, pairs, untilequal, [h |-> k, ended |-> FALSE], i)
            = [h |-> [fl |-> OfDifference86(p, q, 0, w), rec |-> Nothing], ended |-> t[i]]
      BY <1>9, <1>10, <2>1, RoundIs
    <2>3. d[i] = [fl |-> OfDifference86(p, q, 0, w), rec |-> Nothing]
      BY <1>8, <2>1
    <2>4. QED BY <2>2, <2>3
  <1>11. PICK last \in 1 .. 3 : /\ f[3].h = d[last]
                                /\ last = 3 \/ Stops(pairs[last], untilequal)
                                /\ \A j \in 1 .. last - 1 : ~ Stops(pairs[j], untilequal)
    <2>1. /\ t[1] = Stops(pairs[1], untilequal) /\ t[2] = Stops(pairs[2], untilequal)
          /\ t[1] \in BOOLEAN /\ t[2] \in BOOLEAN
      BY <1>9 DEF Stops
    <2>2. IsGuest86(g) /\ IsGuest86(d[1]) /\ IsGuest86(d[2])
      BY <1>8, AGuest86 DEF Stands86
    <2>3. 1 \in 1 .. 3 /\ 2 \in 1 .. 3 /\ 3 \in 1 .. 3
      OBVIOUS
    <2>4. f[1] = [h |-> d[1], ended |-> t[1]]
      BY <1>7, <1>10, <2>2, <2>3
    <2>5. CASE t[1] = TRUE
      <3>1. f[1] = [h |-> d[1], ended |-> TRUE]
        BY <2>4, <2>5
      <3>2. f[2] = f[1]
        BY <1>7, <3>1, EndedStays
      <3>3. f[3] = f[1]
        BY <1>7, <3>1, <3>2, EndedStays
      <3>4. f[3].h = d[1]
        BY <3>1, <3>3
      <3>5. QED BY <2>1, <2>5, <3>4
    <2>6. CASE t[1] = FALSE
      <3>1. f[2] = [h |-> d[2], ended |-> t[2]]
        BY <1>7, <1>10, <2>2, <2>3, <2>4, <2>6
      <3>2. CASE t[2] = TRUE
        <4>1. f[2] = [h |-> d[2], ended |-> TRUE]
          BY <3>1, <3>2
        <4>2. f[3] = f[2]
          BY <1>7, <4>1, EndedStays
        <4>3. f[3].h = d[2] /\ \A j \in 1 .. 2 - 1 : j = 1
          BY <4>1, <4>2
        <4>4. QED BY <2>1, <2>3, <2>6, <3>2, <4>3
      <3>3. CASE t[2] = FALSE
        <4>1. f[3] = [h |-> d[3], ended |-> t[3]]
          BY <1>7, <1>10, <2>2, <2>3, <3>1, <3>3
        <4>2. f[3].h = d[3] /\ \A j \in 1 .. 3 - 1 : j = 1 \/ j = 2
          BY <4>1
        <4>3. QED BY <2>1, <2>3, <2>6, <3>3, <4>2
      <3>4. QED BY <2>1, <3>2, <3>3
    <2>7. QED BY <2>1, <2>5, <2>6
  <1>12. LastCompared(pairs, untilequal) = last
    <2>1. LastCompared(pairs, untilequal)
            = CHOOSE i \in 1 .. 3 : /\ i = 3 \/ Stops(pairs[i], untilequal)
                                    /\ \A j \in 1 .. i - 1 : ~ Stops(pairs[j], untilequal)
      BY <1>1 DEF LastCompared, Stops
    <2>2. ASSUME NEW i \in 1 .. 3, i = 3 \/ Stops(pairs[i], untilequal),
                 \A j \in 1 .. i - 1 : ~ Stops(pairs[j], untilequal)
          PROVE  i = last
      <3>1. ~ (i < last) /\ ~ (last < i)
        BY <1>11, <2>2
      <3>2. QED BY <3>1
    <2>3. QED BY <1>11, <2>1, <2>2
  <1>13. g' = d[last]
    BY <1>1, <1>3, <1>5, <1>11 DEF RepCompare
  <1>14. eager86' = OfDifference86(pairs[last][1], pairs[last][2], 0, w)
    BY <1>3, <1>12 DEF RepCompare
  <1>15. d[last] = [fl |-> eager86', rec |-> Nothing]
    BY <1>8, <1>14
  <1>16. QED BY <1>13, <1>15, StandsMade86

(* A condition on the record.                                              *)
LEMMA RecordTells86 ==
  ASSUME NEW fl, NEW rec, rec.lz # "NONE"
  PROVE  /\ "ZF" \in i86flags(fl, rec) <=> Masked(rec.lr, rec.lw) = 0
         /\ "SF" \in i86flags(fl, rec) <=> Msb(rec.lr, rec.lw)
         /\ "PF" \in i86flags(fl, rec) <=> Even(rec.lr)
         /\ "CF" \in i86flags(fl, rec) <=> CarryFlag(rec, fl)
         /\ "OF" \in i86flags(fl, rec) <=> OverflowFlag(rec)
  <1>1. PICK bits : bits = ResultBits(rec.lr, rec.lw)
    OBVIOUS
  <1>2. PICK carry, half, over : carry = When(CarryFlag(rec, fl), "CF") /\ half = When(HalfFlag(rec), "AF")
                                 /\ over = When(OverflowFlag(rec), "OF")
    OBVIOUS
  <1>3. i86flags(fl, rec) = bits \cup carry \cup half \cup over
    BY <1>1, <1>2 DEF i86flags
  <1>4. /\ carry \subseteq {"CF"} /\ ("CF" \in carry <=> CarryFlag(rec, fl))
        /\ half \subseteq {"AF"}
        /\ over \subseteq {"OF"} /\ ("OF" \in over <=> OverflowFlag(rec))
    BY <1>2 DEF When
  <1>5. /\ bits \subseteq {"ZF", "SF", "PF"}
        /\ "ZF" \in bits <=> Masked(rec.lr, rec.lw) = 0
        /\ "SF" \in bits <=> Msb(rec.lr, rec.lw)
        /\ "PF" \in bits <=> Even(rec.lr)
    BY <1>1 DEF ResultBits, When
  <1>6. QED BY <1>3, <1>4, <1>5

LEMMA ExactOperands ==
  ASSUME NEW rec, Exact86(rec), rec.lz \in {"ADD", "SUB"}
  PROVE  Masked(rec.la, rec.lw) \in Int /\ Masked(rec.lb, rec.lw) \in Int /\ Masked(rec.lr, rec.lw) \in Int
  <1>1. PICK w \in BOOLEAN, a, b, x \in Int : /\ w = rec.lw /\ a = rec.la /\ b = rec.lb /\ rec.lr = i16(x)
                                             /\ a \in InWidth(w) /\ b \in InWidth(w)
    <2>1. PICK w \in BOOLEAN : w = rec.lw
      BY DEF Exact86
    <2>2. PICK a \in InWidth(w), b \in InWidth(w), c \in {0, 1} : a = rec.la /\ b = rec.lb /\ c = rec.lc
      BY <2>1 DEF Exact86
    <2>3. a \in Int /\ b \in Int
      BY InWidthIs
    <2>4. rec.lr = i16(a + b + c) \/ rec.lr = i16(a - b - c)
      BY <2>2 DEF Exact86
    <2>5. \E x \in Int : rec.lr = i16(x)
      BY <2>3, <2>4
    <2>6. PICK x \in Int : rec.lr = i16(x)
      BY <2>5
    <2>7. QED BY <2>1, <2>2, <2>3, <2>6, Zenon
  <1>2. Masked(a, w) \in Int /\ Masked(b, w) \in Int
    <2>1. Masked(a, w) = a /\ Masked(b, w) = b /\ a \in Nat /\ b \in Nat
      BY <1>1, InWidthIs
    <2>2. QED BY <2>1
  <1>3. Masked(i16(x), w) = Masked(x, w) /\ Masked(x, w) \in InWidth(w)
    BY <1>1, WordsWrap
  <1>4. Masked(x, w) \in Int
    BY <1>3, InWidthIs
  <1>5. QED BY <1>1, <1>2, <1>3, <1>4

LEMMA ConditionsFollow86 ==
  ASSUME Stands86(g, eager86)
  PROVE  WideFlagsAreEager
  <1>1. i86flags(g.fl, g.rec) = eager86 /\ FlagsNow = eager86
    BY DEF Stands86, FlagsNow
  <1>2. ASSUME NEW cc \in Tests, NEW not \in BOOLEAN PROVE i86lcond(g, cc, not) = i86cond(eager86, cc, not)
    <2>1. CASE g.rec.lz = "NONE"
      <3>1. g.fl = eager86
        BY <1>1, <2>1 DEF i86flags
      <3>2. QED BY <2>1, <3>1 DEF i86lcond
    <2>2. CASE g.rec.lz # "NONE"
      <3>1. PICK r, fl : r = g.rec /\ fl = g.fl
        OBVIOUS
      <3>2. PICK zero, sign, even, carry, over :
              /\ zero = (Masked(r.lr, r.lw) = 0) /\ sign = Msb(r.lr, r.lw) /\ even = Even(r.lr)
              /\ carry = CarryFlag(r, fl) /\ over = OverflowFlag(r)
        OBVIOUS
      <3>3. /\ "ZF" \in eager86 <=> zero
            /\ "SF" \in eager86 <=> sign
            /\ "PF" \in eager86 <=> even
            /\ "CF" \in eager86 <=> carry
            /\ "OF" \in eager86 <=> over
        BY <1>1, <2>2, <3>1, <3>2, RecordTells86
      <3>4. zero \in BOOLEAN /\ sign \in BOOLEAN /\ even \in BOOLEAN /\ carry \in BOOLEAN /\ over \in BOOLEAN
        <4>1. zero \in BOOLEAN /\ sign \in BOOLEAN /\ even \in BOOLEAN
          BY <3>2 DEF Msb, Bit, Even
        <4>2. over \in BOOLEAN
          BY <3>2 DEF OverflowFlag
        <4>3. carry \in BOOLEAN
          <5>1. CASE r.lz \in {"INC", "DEC"}
            BY <3>2, <5>1 DEF CarryFlag
          <5>2. CASE r.lz \in {"ADD", "SUB"}
            <6>1. PICK p \in Int, q \in Int, v \in Int :
                    p = Masked(r.la, r.lw) /\ q = Masked(r.lb, r.lw) /\ v = Masked(r.lr, r.lw)
              BY <3>1, <5>2, ExactOperands DEF Stands86
            <6>2. (p <= q) \in BOOLEAN /\ (p < q) \in BOOLEAN /\ (v <= p) \in BOOLEAN /\ (v < p) \in BOOLEAN
              BY <6>1
            <6>3. CASE r.lz = "ADD"
              <7>1. CarryFlag(r, fl) = IF r.lc = 1 THEN v <= p ELSE v < p
                BY <6>1, <6>3 DEF CarryFlag
              <7>2. QED BY <3>2, <6>2, <7>1
            <6>4. CASE r.lz = "SUB"
              <7>1. CarryFlag(r, fl) = IF r.lc = 1 THEN p <= q ELSE p < q
                BY <6>1, <6>4 DEF CarryFlag
              <7>2. QED BY <3>2, <6>2, <7>1
            <6>5. QED BY <5>2, <6>3, <6>4
          <5>4. CASE r.lz \notin {"INC", "DEC", "ADD", "SUB"}
            BY <3>2, <5>4 DEF CarryFlag
          <5>5. QED BY <5>1, <5>2, <5>4
        <4>4. QED BY <4>1, <4>2, <4>3
      <3>5. PICK t : /\ t = CASE cc = "E" -> zero [] cc = "S" -> sign [] cc = "P" -> even
                              [] cc = "O" -> over [] cc = "B" -> carry
                              [] cc = "BE" -> carry \/ zero
                              [] cc = "L" -> sign # over [] cc = "LE" -> sign # over \/ zero
                     /\ i86lcond(g, cc, not) = (t # not)
        BY <2>2, <3>1, <3>2, Zenon DEF i86lcond
      <3>6. t = Test(eager86, cc)
        BY <3>3, <3>4, <3>5 DEF Test, Tests
      <3>7. QED BY <3>5, <3>6 DEF i86cond
    <2>3. QED BY <2>1, <2>2
  <1>3. QED BY <1>1, <1>2 DEF WideFlagsAreEager

-----------------------------------------------------------------------------
(* Packed decimals.                                                        *)
(* Two decimal digits, one to a half of a byte: H is the half's size, D the *)
(* number of digits.                                                       *)
LEMMA Grows ==
  ASSUME NEW i \in Int, NEW j \in Int, i <= j, NEW H \in Nat
  PROVE  i * H <= j * H
  <1>1. PICK d \in Nat : j = i + d
    <2>1. j - i \in Nat /\ j = i + (j - i)
      OBVIOUS
    <2>2. QED BY <2>1
  <1>2. d * H \in Nat
    OBVIOUS
  <1>3. j * H = i * H + d * H
    BY <1>1
  <1>4. QED BY <1>2, <1>3

LEMMA TwoDigits ==
  ASSUME NEW H \in Nat, NEW D \in 1 .. H, NEW p \in 0 .. D - 1, NEW q \in 0 .. D - 1
  PROVE  /\ p * H + q \in Nat /\ p * H + q < H * H
         /\ (p * H + q) % H = q /\ (p * H + q) \div H = p
  <1>1. PICK P \in Int, Q \in Int : P = p * H /\ Q = (H - 1) * H
    OBVIOUS
  <1>2. P <= Q
    BY <1>1, Grows
  <1>3. 0 * H <= p * H
    BY Grows
  <1>4. P >= 0
    BY <1>1, <1>3
  <1>5. H * H = Q + H
    BY <1>1
  <1>6. q \in 0 .. H - 1 /\ H \in Nat \ {0}
    OBVIOUS
  <1>7. P + q \in Nat /\ P + q < Q + H
    BY <1>2, <1>4, <1>6
  <1>8. PICK x : x = p * H + q
    OBVIOUS
  <1>9. x % H = q /\ x \div H = p
    BY <1>6, <1>8, Parts
  <1>10. QED BY <1>1, <1>5, <1>7, <1>8, <1>9

(* X is the sum of the high digits, S of the low ones with the carry in.   *)
LEMMA HighCarry ==
  ASSUME NEW H \in Nat, NEW D \in 1 .. H - 1, NEW X \in 0 .. 2 * D - 2, NEW S \in 0 .. 2 * D - 1,
         NEW c1 \in {0, 1}, c1 = 1 <=> S >= D, NEW N, N = X * H + S
  PROVE  (N > (D - 1) * (H + 1) \/ N >= H * H) <=> X + c1 >= D
  <1>1. PICK T \in Int, Y \in Int : T = (D - 1) * H /\ Y = X * H
    OBVIOUS
  <1>2. (D - 1) * (H + 1) = T + D - 1 /\ (D + 1) * H = T + 2 * H /\ D * H = T + H /\ (D - 2) * H = T - H
    BY <1>1
  <1>3. H * H >= T + 2 * H
    BY <1>2, Grows
  <1>4. PICK Q \in Int : Q = H * H
    OBVIOUS
  <1>5. CASE X >= D
    <2>1. D * H <= X * H
      BY <1>5, Grows
    <2>2. Y >= T + H
      BY <1>1, <1>2, <2>1
    <2>3. Y + S > T + D - 1 /\ X + c1 >= D
      BY <1>5, <2>2
    <2>4. QED BY <1>1, <1>2, <2>3
  <1>6. CASE X = D - 1
    <2>1. Y = T
      BY <1>1, <1>6
    <2>2. Y + S > T + D - 1 <=> X + c1 >= D
      BY <1>6, <2>1
    <2>3. Y + S >= Q => Y + S > T + D - 1
      BY <1>3, <1>4
    <2>4. QED BY <1>1, <1>2, <1>4, <2>2, <2>3
  <1>7. CASE X <= D - 2
    <2>1. X * H <= (D - 2) * H
      BY <1>7, Grows
    <2>2. Y <= T - H
      BY <1>1, <1>2, <2>1
    <2>3. ~ (Y + S > T + D - 1) /\ ~ (X + c1 >= D)
      BY <1>7, <2>2
    <2>4. ~ (Y + S >= Q)
      BY <1>3, <1>4, <2>2
    <2>5. QED BY <1>1, <1>2, <1>4, <2>3, <2>4
  <1>8. QED BY <1>5, <1>6, <1>7

LEMMA HighBorrow ==
  ASSUME NEW H \in Nat, NEW D \in 1 .. H - 1, NEW X \in 1 - D .. D - 1, NEW S \in -D .. D - 1,
         NEW c1 \in {0, 1}, c1 = 1 <=> S < 0, NEW N, N = X * H + S
  PROVE  /\ N < 0 <=> X - c1 < 0
         /\ X - c1 >= 0 => ~ (N > (D - 1) * (H + 1))
  <1>1. PICK T \in Int, Y \in Int : T = (D - 1) * H /\ Y = X * H
    OBVIOUS
  <1>2. (D - 1) * (H + 1) = T + D - 1
    BY <1>1
  <1>3. Y <= T
    BY <1>1, Grows
  <1>4. CASE X >= 1
    <2>1. 1 * H <= X * H
      BY <1>4, Grows
    <2>2. Y >= H
      BY <1>1, <2>1
    <2>3. ~ (Y + S < 0) /\ ~ (X - c1 < 0) /\ ~ (Y + S > T + D - 1)
      BY <1>3, <1>4, <2>2
    <2>4. QED BY <1>1, <1>2, <2>3
  <1>5. CASE X = 0
    <2>1. Y = 0
      BY <1>1, <1>5
    <2>2. (Y + S < 0 <=> X - c1 < 0) /\ ~ (Y + S > T + D - 1)
      BY <1>3, <1>5, <2>1
    <2>3. QED BY <1>1, <1>2, <2>2
  <1>6. CASE X <= -1
    <2>1. X * H <= (-1) * H
      BY <1>6, Grows
    <2>2. Y <= -H
      BY <1>1, <2>1
    <2>3. Y + S < 0 /\ X - c1 < 0
      BY <1>6, <2>2
    <2>4. QED BY <1>1, <2>3
  <1>7. QED BY <1>4, <1>5, <1>6

(* What is left of a number that is a corrected one and some carries.      *)
LEMMA Corrected ==
  ASSUME NEW B \in Nat \ {0}, NEW v \in 0 .. B - 1, NEW k \in Int
  PROVE  (v + k * B) % B = v
  <1>1. v % B = v /\ v \in Int
    OBVIOUS
  <1>2. (v + k * B) % B = v % B
    BY <1>1, Multiples
  <1>3. QED BY <1>1, <1>2

LEMMA Whole ==
  ASSUME NEW B \in Nat \ {0}, NEW v \in 0 .. B - 1
  PROVE  v % B = v
  OBVIOUS

LEMMA LowLeft ==
  ASSUME NEW H \in Nat \ {0}, NEW X \in Int, NEW S \in Int
  PROVE  ((X * H + S) % (H * H)) % H = S % H
  <1>1. PICK N \in Int : N = X * H + S
    OBVIOUS
  <1>2. (N % (H * H)) % H = N % H
    BY PartOfPart
  <1>3. (S + X * H) % H = S % H
    BY Multiples
  <1>4. N = S + X * H
    BY <1>1
  <1>5. QED BY <1>1, <1>2, <1>3, <1>4, Zenon

(* A number brought to two decimal digits by corrections j and k of 0 or 1. *)
Adjusted(H, D, X, S, N, B, x, j, k, y) ==
  \E p, q \in 0 .. D - 1 : y % B = p * H + q /\ p * D + q = (X * D + S) % (D * D)

SumCorrected(H, D, X, S, N, B, x, j, k, y) ==
  /\ N = X * H + S /\ B = H * H /\ x = N % B
  /\ j = 1 <=> (x % H >= D \/ S >= H)
  /\ k = 1 <=> (x > (D - 1) * (H + 1) \/ N >= B)
  /\ y = x + j * (H - D) + k * ((H - D) * H)

LEMMA AdjustedSum ==
  ASSUME NEW H \in Nat, NEW D \in 1 .. H - 1, NEW X \in 0 .. 2 * D - 2, NEW S \in 0 .. 2 * D - 1,
         NEW N, NEW B, NEW x, NEW j \in {0, 1}, NEW k \in {0, 1}, NEW y,
         SumCorrected(H, D, X, S, N, B, x, j, k, y)
  PROVE  /\ Adjusted(H, D, X, S, N, B, x, j, k, y)
         /\ k = 1 <=> X * D + S >= D * D
  <1>0. /\ N = X * H + S /\ B = H * H /\ x = N % B
        /\ j = 1 <=> (x % H >= D \/ S >= H)
        /\ k = 1 <=> (x > (D - 1) * (H + 1) \/ N >= B)
        /\ y = x + j * (H - D) + k * ((H - D) * H)
    BY DEF SumCorrected
  <1> USE <1>0
  <1>1. PICK c1 \in {0, 1}, c2 \in {0, 1} : (c1 = 1 <=> S >= D) /\ (c2 = 1 <=> X + c1 >= D)
    <2>1. PICK c1 \in {0, 1} : c1 = 1 <=> S >= D
      <3>1. CASE S >= D
        BY <3>1
      <3>2. CASE ~ (S >= D)
        <4>1. (0 = 1 <=> S >= D) /\ 0 \in {0, 1}
          BY <3>2
        <4>2. QED BY <4>1
      <3>3. QED BY <3>1, <3>2
    <2>2. PICK c2 \in {0, 1} : c2 = 1 <=> X + c1 >= D
      <3>1. CASE X + c1 >= D
        BY <3>1
      <3>2. CASE ~ (X + c1 >= D)
        <4>1. (0 = 1 <=> X + c1 >= D) /\ 0 \in {0, 1}
          BY <3>2
        <4>2. QED BY <4>1
      <3>3. QED BY <3>1, <3>2
    <2>3. QED BY <2>1, <2>2
  <1>2. PICK p \in 0 .. D - 1, q \in 0 .. D - 1 : p = X + c1 - c2 * D /\ q = S - c1 * D
    <2>1. S - c1 * D \in 0 .. D - 1
      BY <1>1
    <2>2. X + c1 - c2 * D \in 0 .. D - 1
      BY <1>1
    <2>3. QED BY <2>1, <2>2
  <1>3. B \in Nat \ {0} /\ N \in Nat
    <2>1. X * H \in Nat
      OBVIOUS
    <2>2. H * H > 0
      OBVIOUS
    <2>3. QED BY <2>1, <2>2
  <1>4. PICK n \in Int, d \in 0 .. B - 1 : N = n * B + d /\ d = x
    <2>1. PICK M \in Int : M = N
      BY <1>3
    <2>2. PICK n \in Int, d \in 0 .. B - 1 : M = n * B + d /\ d = M % B
      BY <1>3, Division
    <2>3. QED BY <2>1, <2>2
  <1>5. (N > (D - 1) * (H + 1) \/ N >= B) <=> c2 = 1
    BY <1>1, HighCarry
  <1>6. k = c2
    <2>1. CASE N >= B
      BY <1>5, <2>1
    <2>2. CASE ~ (N >= B)
      <3>1. N \in 0 .. B - 1
        BY <1>3, <2>2
      <3>2. x = N
        BY <1>3, <3>1, Whole
      <3>3. QED BY <1>5, <2>2, <3>2
    <2>3. QED BY <2>1, <2>2
  <1>7. x % H = S % H
    <2>1. H \in Nat \ {0} /\ X \in Int /\ S \in Int
      OBVIOUS
    <2>2. ((X * H + S) % (H * H)) % H = S % H
      BY <2>1, LowLeft, Zenon
    <2>3. QED BY <2>2, Zenon
  <1>8. j = c1
    <2>1. CASE S < H
      <3>1. S % H = S
        BY <2>1
      <3>2. QED BY <1>1, <1>7, <2>1, <3>1
    <2>2. CASE S >= H
      BY <1>1, <2>2
    <2>3. QED BY <2>1, <2>2
  <1>9. N + c1 * (H - D) + c2 * ((H - D) * H) = (p * H + q) + c2 * (H * H)
    <2>1. CASE c1 = 0 /\ c2 = 0
      BY <1>2, <2>1
    <2>2. CASE c1 = 0 /\ c2 = 1
      BY <1>2, <2>2
    <2>3. CASE c1 = 1 /\ c2 = 0
      BY <1>2, <2>3
    <2>4. CASE c1 = 1 /\ c2 = 1
      BY <1>2, <2>4
    <2>5. QED BY <2>1, <2>2, <2>3, <2>4
  <1>10. y = (p * H + q) + (c2 - n) * B
    <2>1. PICK v \in Int, nB \in Int, cB \in Int : v = p * H + q /\ nB = n * B /\ cB = c2 * B
      BY <1>3, <1>4
    <2>2. (c2 - n) * B = cB - nB
      BY <1>3, <1>4, <2>1
    <2>3. PICK low \in Int, high \in Int : low = c1 * (H - D) /\ high = c2 * ((H - D) * H)
      OBVIOUS
    <2>4. N + low + high = v + cB
      BY <1>9, <2>1, <2>3
    <2>5. y = x + low + high /\ x = N - nB /\ x \in Int
      BY <1>3, <1>4, <1>6, <1>8, <2>1, <2>3
    <2>6. y = v + (cB - nB)
      BY <1>3, <2>3, <2>4, <2>5
    <2>7. QED BY <2>1, <2>2, <2>6
  <1>11. y % B = p * H + q
    <2>1. p * H + q \in 0 .. B - 1
      <3>1. D \in 1 .. H
        OBVIOUS
      <3>2. p * H + q \in Nat /\ p * H + q < H * H
        BY <3>1, TwoDigits
      <3>3. PICK v \in Nat : v = p * H + q /\ v < B
        BY <3>2
      <3>4. QED BY <1>3, <3>3
    <2>0. PICK z \in Int : z = c2 - n
      <3>1. c2 \in Int /\ n \in Int
        BY <1>4
      <3>2. c2 - n \in Int
        BY <3>1
      <3>3. QED BY <3>2, Zenon
    <2>2. PICK v \in 0 .. B - 1 : v = p * H + q
      BY <2>1, Zenon
    <2>3. y = v + z * B
      BY <1>10, <2>0, <2>2, Zenon
    <2>4. (v + z * B) % B = v
      BY <1>3, <2>2, Corrected
    <2>5. QED BY <2>2, <2>3, <2>4, Zenon
  <1>12. X * D + S = (p * D + q) + c2 * (D * D)
    <2>1. CASE c1 = 0 /\ c2 = 0
      BY <1>2, <2>1
    <2>2. CASE c1 = 0 /\ c2 = 1
      BY <1>2, <2>2
    <2>3. CASE c1 = 1 /\ c2 = 0
      BY <1>2, <2>3
    <2>4. CASE c1 = 1 /\ c2 = 1
      BY <1>2, <2>4
    <2>5. QED BY <2>1, <2>2, <2>3, <2>4
  <1>13. p * D + q = (X * D + S) % (D * D) /\ (c2 = 1 <=> X * D + S >= D * D)
    <2>1. D \in Nat /\ D \in 1 .. D
      OBVIOUS
    <2>2. p * D + q \in Nat /\ p * D + q < D * D
      BY <2>1, TwoDigits
    <2>3. PICK v \in Nat, E \in Nat \ {0}, e \in Int : v = p * D + q /\ E = D * D /\ e = X * D + S /\ v < E
      BY <2>2
    <2>4. e = v + c2 * E
      BY <1>12, <2>3
    <2>5. e % E = v
      <3>1. v \in 0 .. E - 1 /\ c2 \in Int
        BY <2>3
      <3>2. (v + c2 * E) % E = v
        BY <2>3, <3>1, Corrected
      <3>3. QED BY <2>4, <3>2
    <2>6. c2 = 1 <=> e >= E
      BY <2>3, <2>4
    <2>7. QED BY <2>3, <2>5, <2>6
  <1>14. QED BY <1>6, <1>11, <1>13 DEF Adjusted

DifferenceCorrected(H, D, X, S, N, B, x, j, k, y) ==
  /\ N = X * H + S /\ B = H * H /\ x = N % B
  /\ j = 1 <=> (x % H >= D \/ S < 0)
  /\ k = 1 <=> (x > (D - 1) * (H + 1) \/ N < 0)
  /\ y = x - j * (H - D) - k * ((H - D) * H)

LEMMA AdjustedDifference ==
  ASSUME NEW H \in Nat, NEW D \in 1 .. H - 1, NEW X \in 1 - D .. D - 1, NEW S \in -D .. D - 1,
         NEW N, NEW B, NEW x, NEW j \in {0, 1}, NEW k \in {0, 1}, NEW y,
         DifferenceCorrected(H, D, X, S, N, B, x, j, k, y)
  PROVE  /\ Adjusted(H, D, X, S, N, B, x, j, k, y)
         /\ k = 1 <=> X * D + S < 0
         /\ X * D + S < D * D
  <1>0. /\ N = X * H + S /\ B = H * H /\ x = N % B
        /\ j = 1 <=> (x % H >= D \/ S < 0)
        /\ k = 1 <=> (x > (D - 1) * (H + 1) \/ N < 0)
        /\ y = x - j * (H - D) - k * ((H - D) * H)
    BY DEF DifferenceCorrected
  <1> USE <1>0
  <1>1. PICK c1 \in {0, 1}, c2 \in {0, 1} : (c1 = 1 <=> S < 0) /\ (c2 = 1 <=> X - c1 < 0)
    <2>1. PICK c1 \in {0, 1} : c1 = 1 <=> S < 0
      <3>1. CASE S < 0
        BY <3>1
      <3>2. CASE ~ (S < 0)
        <4>1. (0 = 1 <=> S < 0) /\ 0 \in {0, 1}
          BY <3>2
        <4>2. QED BY <4>1
      <3>3. QED BY <3>1, <3>2
    <2>2. PICK c2 \in {0, 1} : c2 = 1 <=> X - c1 < 0
      <3>1. CASE X - c1 < 0
        BY <3>1
      <3>2. CASE ~ (X - c1 < 0)
        <4>1. (0 = 1 <=> X - c1 < 0) /\ 0 \in {0, 1}
          BY <3>2
        <4>2. QED BY <4>1
      <3>3. QED BY <3>1, <3>2
    <2>3. QED BY <2>1, <2>2
  <1>2. PICK p \in 0 .. D - 1, q \in 0 .. D - 1 : p = X - c1 + c2 * D /\ q = S + c1 * D
    <2>1. S + c1 * D \in 0 .. D - 1
      BY <1>1
    <2>2. X - c1 + c2 * D \in 0 .. D - 1
      BY <1>1
    <2>3. QED BY <2>1, <2>2
  <1>3. B \in Nat \ {0} /\ N \in Int
    <2>1. X * H \in Int
      OBVIOUS
    <2>2. H * H > 0
      OBVIOUS
    <2>3. QED BY <2>1, <2>2
  <1>4. PICK n \in Int, d \in 0 .. B - 1 : N = n * B + d /\ d = x
    <2>1. PICK M \in Int : M = N
      BY <1>3
    <2>2. PICK n \in Int, d \in 0 .. B - 1 : M = n * B + d /\ d = M % B
      BY <1>3, Division
    <2>3. QED BY <2>1, <2>2
  <1>5. (N < 0 <=> c2 = 1) /\ (c2 = 0 => ~ (N > (D - 1) * (H + 1)))
    BY <1>1, HighBorrow
  <1>6. k = c2
    <2>1. CASE N < 0
      BY <1>5, <2>1
    <2>2. CASE ~ (N < 0)
      <3>1. PICK T \in Int : T = (D - 1) * H
        OBVIOUS
      <3>2. (D - 1) * (H + 1) = T + (D - 1)
        BY <3>1
      <3>3. T + (D - 1) < B
        <4>1. D \in 1 .. H /\ D - 1 \in 0 .. D - 1
          OBVIOUS
        <4>2. PICK t \in 0 .. D - 1 : t = D - 1
          BY <4>1
        <4>3. t * H + t < H * H
          BY <4>1, TwoDigits
        <4>4. QED BY <3>1, <4>2, <4>3
      <3>4. N \in 0 .. B - 1
        BY <1>3, <1>5, <2>2, <3>2, <3>3
      <3>5. x = N
        BY <1>3, <3>4, Whole
      <3>6. QED BY <1>5, <2>2, <3>5
    <2>3. QED BY <2>1, <2>2
  <1>7. x % H = S % H
    <2>1. H \in Nat \ {0} /\ X \in Int /\ S \in Int
      OBVIOUS
    <2>2. ((X * H + S) % (H * H)) % H = S % H
      BY <2>1, LowLeft, Zenon
    <2>3. QED BY <2>2, Zenon
  <1>8. j = c1
    <2>1. CASE S >= 0
      <3>1. S % H = S
        BY <2>1
      <3>2. QED BY <1>1, <1>7, <2>1, <3>1
    <2>2. CASE S < 0
      BY <1>1, <2>2
    <2>3. QED BY <2>1, <2>2
  <1>9. N - c1 * (H - D) - c2 * ((H - D) * H) = (p * H + q) - c2 * (H * H)
    <2>1. CASE c1 = 0 /\ c2 = 0
      BY <1>2, <2>1
    <2>2. CASE c1 = 0 /\ c2 = 1
      BY <1>2, <2>2
    <2>3. CASE c1 = 1 /\ c2 = 0
      BY <1>2, <2>3
    <2>4. CASE c1 = 1 /\ c2 = 1
      BY <1>2, <2>4
    <2>5. QED BY <2>1, <2>2, <2>3, <2>4
  <1>10. y = (p * H + q) + (-c2 - n) * B
    <2>1. PICK v \in Int, nB \in Int, cB \in Int : v = p * H + q /\ nB = n * B /\ cB = c2 * B
      BY <1>3, <1>4
    <2>2. (-c2 - n) * B = -cB - nB
      BY <1>3, <1>4, <2>1
    <2>3. PICK low \in Int, high \in Int : low = c1 * (H - D) /\ high = c2 * ((H - D) * H)
      OBVIOUS
    <2>4. N - low - high = v - cB
      BY <1>9, <2>1, <2>3
    <2>5. y = x - low - high /\ x = N - nB /\ x \in Int
      BY <1>3, <1>4, <1>6, <1>8, <2>1, <2>3
    <2>6. y = v + (-cB - nB)
      BY <1>3, <2>3, <2>4, <2>5
    <2>7. QED BY <2>1, <2>2, <2>6
  <1>11. y % B = p * H + q
    <2>1. p * H + q \in 0 .. B - 1
      <3>1. D \in 1 .. H
        OBVIOUS
      <3>2. p * H + q \in Nat /\ p * H + q < H * H
        BY <3>1, TwoDigits
      <3>3. PICK v \in Nat : v = p * H + q /\ v < B
        BY <3>2
      <3>4. QED BY <1>3, <3>3
    <2>0. PICK z \in Int : z = -c2 - n
      <3>1. c2 \in Int /\ n \in Int
        BY <1>4
      <3>2. -c2 - n \in Int
        BY <3>1
      <3>3. QED BY <3>2, Zenon
    <2>2. PICK v \in 0 .. B - 1 : v = p * H + q
      BY <2>1, Zenon
    <2>3. y = v + z * B
      BY <1>10, <2>0, <2>2, Zenon
    <2>4. (v + z * B) % B = v
      BY <1>3, <2>2, Corrected
    <2>5. QED BY <2>2, <2>3, <2>4, Zenon
  <1>12. X * D + S = (p * D + q) + (-c2) * (D * D)
    <2>1. CASE c1 = 0 /\ c2 = 0
      BY <1>2, <2>1
    <2>2. CASE c1 = 0 /\ c2 = 1
      BY <1>2, <2>2
    <2>3. CASE c1 = 1 /\ c2 = 0
      BY <1>2, <2>3
    <2>4. CASE c1 = 1 /\ c2 = 1
      BY <1>2, <2>4
    <2>5. QED BY <2>1, <2>2, <2>3, <2>4
  <1>13. p * D + q = (X * D + S) % (D * D) /\ (c2 = 1 <=> X * D + S < 0) /\ X * D + S < D * D
    <2>1. D \in Nat /\ D \in 1 .. D
      OBVIOUS
    <2>2. p * D + q \in Nat /\ p * D + q < D * D
      BY <2>1, TwoDigits
    <2>3. PICK v \in Nat, E \in Nat \ {0}, e \in Int, c \in Int :
            v = p * D + q /\ E = D * D /\ e = X * D + S /\ v < E /\ c = -c2
      BY <2>2
    <2>4. e = v + c * E
      BY <1>12, <2>3
    <2>5. e % E = v
      <3>1. v \in 0 .. E - 1
        BY <2>3
      <3>2. (v + c * E) % E = v
        BY <2>3, <3>1, Corrected
      <3>3. QED BY <2>4, <3>2
    <2>6. (c2 = 1 <=> e < 0) /\ e < E
      BY <2>3, <2>4
    <2>7. QED BY <2>3, <2>5, <2>6
  <1>14. QED BY <1>6, <1>11, <1>13 DEF Adjusted

(* The halves of a byte that is two digits.                                *)
LEMMA HalvesOfByte ==
  \E H \in Nat \ {0} : H = 2^HALF /\ 2^BITS = H * H /\ DIGITS \in 1 .. H - 1 /\ DIGITS86 \in 1 .. H - 1
  <1>1. HALF \in Nat /\ HALF \in 0 .. 2 * BITS /\ BITS = HALF + HALF /\ HALF + HALF <= 2 * BITS
    BY ByteIs, DigitsAssumption
  <1>2. PICK H \in Nat \ {0} : H = 2^HALF
    BY <1>1, Powers
  <1>3. 2^(HALF + HALF) = 2^HALF * 2^HALF
    BY <1>1, Product
  <1>4. QED BY <1>1, <1>2, <1>3, DigitsAssumption, Digits86Assumption

LEMMA HalvesOf ==
  ASSUME NEW H \in Nat \ {0}, NEW D \in Nat, NEW v \in Nat, v % H < D, v \div H < D
  PROVE  \E h, l \in 0 .. D - 1 : v = h * H + l /\ h = v \div H /\ l = v % H
  <1>1. PICK h \in Int, l \in 0 .. H - 1 : v = h * H + l /\ h = v \div H /\ l = v % H
    BY Division
  <1>2. h \in Nat
    BY <1>1
  <1>3. QED BY <1>1, <1>2

LEMMA OneOrNone ==
  ASSUME NEW P
  PROVE  \E j \in {0, 1} : j = 1 <=> P
  <1>1. CASE P
    BY <1>1
  <1>2. CASE ~ P
    <2>1. (0 = 1 <=> P) /\ 0 \in {0, 1}
      BY <1>2
    <2>2. QED BY <2>1
  <1>3. QED BY <1>1, <1>2

(* A decimal adjust of what a sum has left, on the Z80.                    *)
SumExact(rec) ==
  rec.lz = "ADD" => \E a, b \in Byte, c \in {0, 1} : rec = Rec("ADD", a, b, Wrap(a + b + c), c)

LEMMA SumTells ==
  ASSUME NEW a, NEW b, NEW c, NEW f, f = OfSum(a, b, c)
  PROVE  /\ "AC" \in f <=> Digit(a) + Digit(b) + c >= 2^HALF
         /\ "CY" \in f <=> a + b + c >= 2^BITS
  <1>1. PICK half, carry : /\ half = When(Digit(a) + Digit(b) + c >= 2^HALF, "AC")
                           /\ carry = When(a + b + c >= 2^BITS, "CY")
    OBVIOUS
  <1>2. PICK bits : bits = ByResult(Wrap(a + b + c)) /\ bits \subseteq {"ZE", "SI", "PA"}
    BY ResultsOnly
  <1>3. f = carry \cup half \cup bits
    BY <1>1, <1>2 DEF OfSum, Arithmetic
  <1>4. /\ half \subseteq {"AC"} /\ ("AC" \in half <=> Digit(a) + Digit(b) + c >= 2^HALF)
        /\ carry \subseteq {"CY"} /\ ("CY" \in carry <=> a + b + c >= 2^BITS)
    BY <1>1 DEF When
  <1>5. QED BY <1>2, <1>3, <1>4

LEMMA TwoSums ==
  ASSUME NEW H \in Int, NEW D \in Int, NEW p \in Int, NEW q \in Int, NEW s \in Int, NEW t \in Int, NEW c \in Int
  PROVE  /\ (p + q) * H + (s + t + c) = (p * H + s) + (q * H + t) + c
         /\ (p - q) * H + (s - t - c) = (p * H + s) - (q * H + t) - c
  OBVIOUS

LEMMA DecimalsFollow ==
  ASSUME Stands(m, eager), SumExact(m.rec)
  PROVE  DecimalSums
  <1>1. SUFFICES ASSUME m.rec.lz = "ADD", m.a = m.rec.lr, Decimal(m.rec.la), Decimal(m.rec.lb)
                 PROVE  LET d == daa(m.a, Flags(m))
                            sum == ValueOf(m.rec.la) + ValueOf(m.rec.lb) + m.rec.lc
                        IN /\ Decimal(d.a) /\ ValueOf(d.a) = sum % (DIGITS * DIGITS)
                           /\ ("CY" \in d.f) = (sum >= DIGITS * DIGITS)
    BY DEF DecimalSums
  <1>2. PICK a \in Byte, b \in Byte, c \in {0, 1} : m.rec = Rec("ADD", a, b, Wrap(a + b + c), c)
    BY <1>1 DEF SumExact
  <1>3. m.rec.la = a /\ m.rec.lb = b /\ m.rec.lc = c /\ m.a = Wrap(a + b + c)
    BY <1>1, <1>2 DEF Rec
  <1>4. Flags(m) = OfSum(a, b, c)
    BY <1>2, SumFlags DEF Flags
  <1>5. PICK H \in Nat \ {0} : H = 2^HALF /\ 2^BITS = H * H /\ DIGITS \in 1 .. H - 1
    BY HalvesOfByte
  <1>6. PICK D \in 1 .. H - 1 : D = DIGITS
    BY <1>5
  <1>7. a \in Nat /\ b \in Nat
    BY ByteIs DEF Byte
  <1>8. PICK ha \in 0 .. D - 1, la \in 0 .. D - 1 : a = ha * H + la /\ ha = a \div H /\ la = a % H
    <2>1. a % H < D /\ a \div H < D
      BY <1>1, <1>3, <1>5, <1>6 DEF Decimal, Digit
    <2>2. QED BY <1>7, <2>1, HalvesOf
  <1>9. PICK hb \in 0 .. D - 1, lb \in 0 .. D - 1 : b = hb * H + lb /\ hb = b \div H /\ lb = b % H
    <2>1. b % H < D /\ b \div H < D
      BY <1>1, <1>3, <1>5, <1>6 DEF Decimal, Digit
    <2>2. QED BY <1>7, <2>1, HalvesOf
  <1>28. D \in 1 .. H - 1
    BY <1>6
  <1>10. PICK X \in 0 .. 2 * D - 2, S \in 0 .. 2 * D - 1 : X = ha + hb /\ S = la + lb + c
    OBVIOUS
  <1>11. ha \in Int /\ hb \in Int /\ la \in Int /\ lb \in Int /\ c \in Int /\ D \in Int /\ H \in Int
    OBVIOUS
  <1>12. PICK N : N = X * H + S /\ N = a + b + c
    <2>1. (ha + hb) * H + (la + lb + c) = (ha * H + la) + (hb * H + lb) + c
      BY <1>11, TwoSums
    <2>2. QED BY <1>8, <1>9, <1>10, <2>1, Zenon
  <1>13. PICK sum : sum = X * D + S /\ sum = ValueOf(a) + ValueOf(b) + c
    <2>1. ValueOf(a) = ha * D + la /\ ValueOf(b) = hb * D + lb
      BY <1>5, <1>6, <1>8, <1>9 DEF ValueOf, Digit
    <2>2. (ha + hb) * D + (la + lb + c) = (ha * D + la) + (hb * D + lb) + c
      BY <1>11, TwoSums
    <2>3. QED BY <1>10, <2>1, <2>2
  <1>14. PICK B : B = H * H /\ B = 2^BITS
    BY <1>5
  <1>15a. PICK f : f = Flags(m)
    OBVIOUS
  <1>15. PICK x \in Int : x = m.a /\ x = N % B /\ f = Flags(m)
    <2>1. N \in Int /\ B \in Nat \ {0}
      BY <1>12, <1>14
    <2>2. m.a = N % B
      BY <1>3, <1>12, <1>14 DEF Wrap
    <2>3. N % B \in Int
      BY <2>1
    <2>4. QED BY <1>15a, <2>2, <2>3, Zenon
  <1>16. ("AC" \in f <=> S >= H) /\ ("CY" \in f <=> N >= B)
    <2>1. ("AC" \in f <=> Digit(a) + Digit(b) + c >= 2^HALF) /\ ("CY" \in f <=> a + b + c >= 2^BITS)
      BY <1>4, <1>15, SumTells
    <2>2. Digit(a) + Digit(b) + c = S
      BY <1>5, <1>8, <1>9, <1>10 DEF Digit
    <2>3. QED BY <1>5, <1>12, <1>14, <2>1, <2>2
  <1>17. PICK j \in {0, 1} : j = 1 <=> (x % H >= D \/ S >= H)
    BY OneOrNone
  <1>18. PICK k \in {0, 1} : k = 1 <=> (x > (D - 1) * (H + 1) \/ N >= B)
    BY OneOrNone
  <1>19. PICK y \in Int : y = x + j * (H - D) + k * ((H - D) * H)
    <2>1. j * (H - D) \in Int /\ k * ((H - D) * H) \in Int
      OBVIOUS
    <2>2. x + j * (H - D) + k * ((H - D) * H) \in Int
      BY <1>15, <2>1
    <2>3. QED BY <2>2, Zenon
  <1>20. Adjusted(H, D, X, S, N, B, x, j, k, y) /\ (k = 1 <=> X * D + S >= D * D)
    <2>1. H \in Nat /\ N = X * H + S /\ B = H * H /\ x = N % B
      BY <1>12, <1>14, <1>15
    <2>2. SumCorrected(H, D, X, S, N, B, x, j, k, y)
      BY <1>17, <1>18, <1>19, <2>1 DEF SumCorrected
    <2>3. QED BY <1>28, <2>1, <2>2, AdjustedSum
  <1>27. PICK p \in 0 .. D - 1, q \in 0 .. D - 1 : y % B = p * H + q /\ p * D + q = (X * D + S) % (D * D)
    BY <1>20 DEF Adjusted
  <1>21. PICK d : d = daa(m.a, Flags(m))
    OBVIOUS
  <1>22. d.a = p * H + q /\ ("CY" \in d.f <=> k = 1)
    <2>0. PICK low : low = IF Digit(x) >= DIGITS \/ "AC" \in f THEN Sixes ELSE 0
      OBVIOUS
    <2>1. low = j * (H - D)
      <3>1. Digit(x) >= DIGITS \/ "AC" \in f <=> j = 1
        BY <1>5, <1>6, <1>16, <1>17 DEF Digit
      <3>2. CASE j = 1
        BY <1>5, <1>6, <2>0, <3>1, <3>2 DEF Sixes
      <3>3. CASE j = 0
        BY <2>0, <3>1, <3>3
      <3>4. QED BY <3>2, <3>3
    <2>4. PICK over : over = (x > (DIGITS - 1) * (2^HALF + 1) \/ "CY" \in f)
      OBVIOUS
    <2>5. over <=> k = 1
      BY <1>5, <1>6, <1>16, <1>18, <2>4
    <2>3. PICK high : high = IF over THEN Sixes * 2^HALF ELSE 0
      OBVIOUS
    <2>2. high = k * ((H - D) * H)
      <3>1. CASE k = 1
        <4>1. high = (H - D) * H
          BY <1>5, <1>6, <2>3, <2>5, <3>1 DEF Sixes
        <4>2. (H - D) * H \in Int
          OBVIOUS
        <4>3. QED BY <3>1, <4>1, <4>2
      <3>2. CASE k = 0
        <4>1. high = 0
          BY <2>3, <2>5, <3>2
        <4>2. (H - D) * H \in Int
          OBVIOUS
        <4>3. QED BY <3>2, <4>1, <4>2
      <3>3. QED BY <3>1, <3>2
    <2>6. PICK r : r = Wrap(x + low + high)
      OBVIOUS
    <2>7. r = Wrap(x + low + IF over THEN Sixes * 2^HALF ELSE 0)
      BY <2>3, <2>6
    <2>8. d = [a |-> r, f |-> Arithmetic(over, Digit(x) + low >= 2^HALF, r)]
      BY <1>15, <1>21, <2>0, <2>4, <2>7, Zenon DEF daa
    <2>9. d.a = r /\ d.f = Arithmetic(over, Digit(x) + low >= 2^HALF, r)
      BY <2>8
    <2>10. r = p * H + q
      <3>1. r = y % B
        BY <1>14, <1>19, <2>1, <2>2, <2>6, Zenon DEF Wrap
      <3>2. QED BY <1>27, <3>1, Zenon
    <2>11. "CY" \in d.f <=> over
      <3>1. PICK half, bits : half = When(Digit(x) + low >= 2^HALF, "AC") /\ bits = ByResult(r)
                              /\ bits \subseteq {"ZE", "SI", "PA"}
        BY ResultsOnly
      <3>2. half \subseteq {"AC"}
        BY <3>1 DEF When
      <3>3. d.f = When(over, "CY") \cup half \cup bits
        BY <2>9, <3>1 DEF Arithmetic
      <3>4. QED BY <3>1, <3>2, <3>3 DEF When
    <2>12. QED BY <2>5, <2>9, <2>10, <2>11
  <1>23. d.a % H = q /\ d.a \div H = p
    <2>1. D \in 1 .. H /\ H \in Nat
      OBVIOUS
    <2>2. (p * H + q) % H = q /\ (p * H + q) \div H = p
      BY <2>1, TwoDigits
    <2>3. QED BY <1>22, <2>2, Zenon
  <1>24. Decimal(d.a) /\ ValueOf(d.a) = sum % (DIGITS * DIGITS)
    <2>1. Digit(d.a) = q /\ d.a \div 2^HALF = p
      BY <1>5, <1>23 DEF Digit
    <2>2. q < DIGITS /\ p < DIGITS
      BY <1>6
    <2>3. QED BY <1>6, <1>13, <1>27, <2>1, <2>2 DEF Decimal, ValueOf
  <1>25. ("CY" \in d.f) = (sum >= DIGITS * DIGITS)
    <2>1. PICK s \in Int, E \in Int : s = sum /\ E = DIGITS * DIGITS
      BY <1>6, <1>13
    <2>2. "CY" \in d.f <=> s >= E
      BY <1>6, <1>13, <1>20, <1>22, <2>1
    <2>3. QED BY <2>1, <2>2
  <1>26. QED BY <1>3, <1>13, <1>21, <1>24, <1>25

(* The record of an addition is one of a sum; no other step leaves one.    *)
NotSum(s) == s.rec.lz # "ADD"

LEMMA LazyNotSum ==
  ASSUME NEW s, IsGuest(s), NEW cls, cls # "ADD", NEW a, NEW b, NEW r, NEW c
  PROVE  NotSum(lazy(s, cls, a, b, r, c)) /\ IsGuest(lazy(s, cls, a, b, r, c))
  <1>1. PICK f : lazy(s, cls, a, b, r, c) = Guest(s.a, f, Rec(cls, a, b, r, c))
    BY LazyFlags
  <1>2. PICK t : t = Guest(s.a, f, Rec(cls, a, b, r, c))
    OBVIOUS
  <1>3. IsGuest(t) /\ t.rec = Rec(cls, a, b, r, c)
    BY <1>2, AGuest
  <1>4. t.rec.lz = cls
    BY <1>3 DEF Rec
  <1>5. QED BY <1>1, <1>2, <1>3, <1>4, Zenon DEF NotSum

LEMMA StoredRecord ==
  ASSUME NEW s, IsGuest(s), NEW to, NEW v
  PROVE  /\ IsGuest([s EXCEPT !.a = v]) /\ [s EXCEPT !.a = v].rec = s.rec
         /\ IsGuest(Store(s, to, v)) /\ Store(s, to, v).rec = s.rec
  <1>1. PICK t : t = [s EXCEPT !.a = v]
    OBVIOUS
  <1>2. IsGuest(t) /\ t.rec = s.rec
    BY <1>1 DEF IsGuest
  <1>3. QED BY <1>1, <1>2 DEF Store

LEMMA FoldedNotSum ==
  ASSUME NEW s
  PROVE  NotSum(Folded(s)) /\ IsGuest(Folded(s))
  <1>1. Folded(s) = Guest(s.a, Flags(s), NoRecord)
    BY DEF Folded, Flags
  <1>2. PICK t : t = Guest(s.a, Flags(s), NoRecord)
    OBVIOUS
  <1>3. IsGuest(t) /\ t.rec = NoRecord
    BY <1>2, AGuest
  <1>4. t.rec.lz # "ADD"
    BY <1>3 DEF NoRecord
  <1>5. QED BY <1>1, <1>2, <1>3, <1>4, Zenon DEF NotSum

LEMMA MadeNotSum ==
  ASSUME NEW a, NEW f
  PROVE  NotSum(Guest(a, f, NoRecord))
  BY DEF NotSum, Guest, NoRecord

LEMMA NotSumExact ==
  ASSUME NEW s, NotSum(s)
  PROVE  SumExact(s.rec)
  BY DEF NotSum, SumExact

LEMMA SumIsExact ==
  ASSUME NEW c, IsGuest(c.on), c.in \in {0, 1}, NEW a \in Byte, NEW b \in Byte, Sum(c, a, b)
  PROVE  SumExact(m'.rec)
  <1>1. PICK in \in {0, 1} : in = c.in
    OBVIOUS
  <1>8. PICK r : r = Wrap(a + b + in)
    OBVIOUS
  <1>2. PICK s : s = [c.on EXCEPT !.a = r]
    OBVIOUS
  <1>3. m' = lazy(s, "ADD", a, b, r, in)
    BY <1>1, <1>2, <1>8, Zenon DEF Sum
  <1>4. IsGuest(s)
    BY <1>2, StoredRecord
  <1>5. PICK f : lazy(s, "ADD", a, b, r, in) = Guest(s.a, f, Rec("ADD", a, b, r, in))
    BY <1>4, LazyFlags
  <1>6. m'.rec = Rec("ADD", a, b, r, in)
    BY <1>3, <1>5, AGuest
  <1>7. QED BY <1>6, <1>8, Zenon DEF SumExact

LEMMA AluExact ==
  ASSUME Stands(m, eager), NEW b \in Byte, Alu(b)
  PROVE  SumExact(m'.rec)
  <1>1. IsGuest(m) /\ m.a \in Byte
    BY DEF Stands
  <1>2. IsGuest(Plain.on) /\ Plain.in \in {0, 1} /\ IsGuest(WithCarry.on) /\ WithCarry.in \in {0, 1}
    BY <1>1, FoldedNotSum, CarryBit DEF Plain, WithCarry
  <1>3. ASSUME NEW c, c = Plain \/ c = WithCarry, Sum(c, m.a, b) PROVE SumExact(m'.rec)
    BY <1>1, <1>2, <1>3, SumIsExact
  <1>4. ASSUME NEW c, c = Plain \/ c = WithCarry, NEW kept, Difference(c, m.a, b, kept) PROVE SumExact(m'.rec)
    <2>1. PICK v, r, in, s : s = [c.on EXCEPT !.a = v] /\ m' = lazy(s, "SUB", m.a, b, r, in)
      BY <1>4 DEF Difference
    <2>2. IsGuest(s)
      BY <1>2, <1>4, <2>1, StoredRecord
    <2>3. NotSum(m')
      BY <2>1, <2>2, LazyNotSum
    <2>4. QED BY <2>3, NotSumExact
  <1>5. ASSUME NEW cls \in {"AND", "LOG"}, NEW r, NEW half, Logic(cls, m.a, b, r, half) PROVE SumExact(m'.rec)
    <2>1. PICK s : s = [m EXCEPT !.a = r] /\ m' = lazy(s, cls, m.a, b, r, 0)
      BY <1>5 DEF Logic
    <2>2. IsGuest(s)
      BY <1>1, <2>1, StoredRecord
    <2>3. NotSum(m')
      BY <2>1, <2>2, LazyNotSum
    <2>4. QED BY <2>3, NotSumExact
  <1>6. "AND" \in {"AND", "LOG"} /\ "LOG" \in {"AND", "LOG"}
    OBVIOUS
  <1>7. QED BY <1>3, <1>4, <1>5, <1>6, Zenon DEF Alu

LEMMA RegisterExact ==
  ASSUME Stands(m, eager), OnRegister
  PROVE  SumExact(m'.rec)
  <1>1. IsGuest(m)
    BY DEF Stands
  <1>2. ASSUME NEW to, NEW v, Inr(to, v) \/ Dcr(to, v) PROVE NotSum(m')
    <2>0. PICK cls \in {"INR", "DCR"} : \E r : m' = Store(lazy(m, cls, v, 1, r, 0), to, r)
      <3>1. CASE Inr(to, v)
        BY <3>1, Zenon DEF Inr
      <3>2. CASE Dcr(to, v)
        BY <3>2, Zenon DEF Dcr, dcr
      <3>3. QED BY <1>2, <3>1, <3>2, Zenon
    <2>1. PICK r : cls \in {"INR", "DCR"} /\ m' = Store(lazy(m, cls, v, 1, r, 0), to, r)
      BY <2>0
    <2>2. PICK s : s = lazy(m, cls, v, 1, r, 0)
      OBVIOUS
    <2>3. NotSum(s) /\ IsGuest(s)
      BY <1>1, <2>2, LazyNotSum
    <2>4. m' = Store(s, to, r)
      BY <2>1, <2>2, Zenon
    <2>5. m'.rec = s.rec
      BY <2>3, <2>4, StoredRecord
    <2>6. QED BY <2>3, <2>5, Zenon DEF NotSum
  <1>3. ASSUME NEW how, NEW to, NEW v, CbRotate(how, to, v) PROVE NotSum(m')
    <2>1. PICK on : on = IF how \in {"RL", "RR"} THEN Folded(m) ELSE m
      OBVIOUS
    <2>2. IsGuest(on)
      BY <1>1, <2>1, FoldedNotSum
    <2>3. PICK w, r, c : m' = lazy(Store(on, to, w), "ROT", v, 0, r, c)
      BY <1>3, <2>1, Zenon DEF CbRotate
    <2>4. IsGuest(Store(on, to, w))
      BY <2>2, StoredRecord
    <2>5. QED BY <2>3, <2>4, LazyNotSum
  <1>4. ASSUME NEW b, NEW v, CbBit(b, v) PROVE NotSum(m')
    <2>1. PICK r : m' = lazy(m, "BIT", v, b, r, 0)
      BY <1>4, Zenon DEF CbBit
    <2>2. QED BY <1>1, <2>1, LazyNotSum
  <1>5. NotSum(m')
    BY <1>2, <1>3, <1>4, Zenon DEF OnRegister
  <1>6. QED BY <1>5, NotSumExact

LEMMA SumExactKept ==
  ASSUME Stands(m, eager), SumExact(m.rec), Z80Next
  PROVE  SumExact(m'.rec)
  <1>1. IsGuest(m) /\ m.a \in Byte /\ OPERANDS \subseteq Byte
    BY OperandsAssumption DEF Stands
  <1>2. ASSUME NEW b \in OPERANDS, Alu(b) PROVE SumExact(m'.rec)
    BY <1>1, <1>2, AluExact
  <1>3. ASSUME NEW b, Load(b) PROVE SumExact(m'.rec)
    BY <1>1, <1>3, StoredRecord DEF Load
  <1>4. ASSUME Neg PROVE NotSum(m')
    <2>1. PICK v, r, s : s = [m EXCEPT !.a = v] /\ m' = lazy(s, "SUB", 0, m.a, r, 0)
      BY <1>4 DEF Neg
    <2>2. IsGuest(s)
      BY <1>1, <2>1, StoredRecord
    <2>3. QED BY <2>1, <2>2, LazyNotSum
  <1>5. ASSUME Psw \/ Condition PROVE NotSum(m')
    BY <1>5, FoldedNotSum DEF Psw, Condition
  <1>6. ASSUME NEW a, NEW f, m' = Guest(a, f, NoRecord) PROVE NotSum(m')
    BY <1>6, MadeNotSum
  <1>7. ASSUME Daa \/ Cmc \/ (\E how : Rot(how)) \/ (\E cy : SetCarry(cy)) \/ (\E f : PopPsw(m.a, f))
                \/ (\E hl, ss : AdcHl(hl, ss) \/ SbcHl(hl, ss))
        PROVE NotSum(m')
    <2>1. \E a, f : m' = Guest(a, f, NoRecord)
      BY <1>7, Zenon DEF Daa, Cmc, Rot, SetCarry, PopPsw, AdcHl, SbcHl
    <2>2. QED BY <1>6, <2>1
  <1>8. ASSUME NEW more, BlockMove(more) \/ \E v : BlockCompare(v, more) PROVE NotSum(m')
    <2>0. PICK cls \in {"LDBLK", "CPBLK"} : \E a, v, r, c : m' = lazy(m, cls, a, v, r, c)
      <3>1. CASE BlockMove(more)
        BY <3>1, Zenon DEF BlockMove
      <3>2. CASE \E v : BlockCompare(v, more)
        BY <3>2, Zenon DEF BlockCompare
      <3>3. QED BY <1>8, <3>1, <3>2, Zenon
    <2>1. PICK a, v, r, c : cls \in {"LDBLK", "CPBLK"} /\ m' = lazy(m, cls, a, v, r, c)
      BY <2>0
    <2>2. QED BY <1>1, <2>1, LazyNotSum
  <1>9. ASSUME NEW r, Delay("A", r) PROVE NotSum(m')
    <2>1. PICK s, w, x : s = Store(lazy(m, "DCR", x, 1, w, 0), "A", w) /\ m' = lazy(Store(s, "A", 0), "DCR", 1, 1, 0, 0)
      BY <1>9 DEF Delay, z80delay, dcr
    <2>2. IsGuest(lazy(m, "DCR", x, 1, w, 0))
      BY <1>1, LazyNotSum
    <2>3. IsGuest(Store(s, "A", 0))
      BY <2>1, <2>2, StoredRecord
    <2>4. QED BY <2>1, <2>3, LazyNotSum
  <1>10. ASSUME OnRegister PROVE SumExact(m'.rec)
    BY <1>10, RegisterExact
  <1>11. QED
    BY <1>2, <1>3, <1>4, <1>5, <1>7, <1>8, <1>9, <1>10, NotSumExact, Zenon DEF Z80Next

(* The same on the 8086, with its subtraction.                             *)
Packed86(v) == Digit(v) < DIGITS86 /\ v \div 2^HALF < DIGITS86
Value86(v) == (v \div 2^HALF) * DIGITS86 + Digit(v)
DecimalResult(d, exact) ==
  /\ Packed86(d.al) /\ Value86(d.al) = exact % (DIGITS86 * DIGITS86)
  /\ ("CF" \in d.f) = (exact \notin 0 .. DIGITS86 * DIGITS86 - 1)

LEMMA HalfTells86 ==
  ASSUME NEW fl, NEW rec, rec.lz # "NONE"
  PROVE  "AF" \in i86flags(fl, rec) <=> HalfFlag(rec)
  <1>1. PICK bits : bits = ResultBits(rec.lr, rec.lw) /\ bits \subseteq {"ZF", "SF", "PF"}
    BY ResultBitsOnly
  <1>2. PICK carry, half, over : carry = When(CarryFlag(rec, fl), "CF") /\ half = When(HalfFlag(rec), "AF")
                                 /\ over = When(OverflowFlag(rec), "OF")
    OBVIOUS
  <1>3. i86flags(fl, rec) = bits \cup carry \cup half \cup over
    BY <1>1, <1>2 DEF i86flags
  <1>4. /\ carry \subseteq {"CF"} /\ half \subseteq {"AF"} /\ ("AF" \in half <=> HalfFlag(rec))
        /\ over \subseteq {"OF"}
    BY <1>2 DEF When
  <1>5. QED BY <1>1, <1>3, <1>4

(* What a correction does, j and k the two conditions.                     *)
LEMMA AdjustIs ==
  ASSUME NEW H \in Nat \ {0}, H = 2^HALF, NEW D \in 1 .. H - 1, D = DIGITS86,
         NEW x \in Int, NEW f, NEW add \in BOOLEAN,
         NEW j \in {0, 1}, j = 1 <=> (x % H >= D \/ "AF" \in f),
         NEW k \in {0, 1}, k = 1 <=> (x > (D - 1) * (H + 1) \/ "CF" \in f)
  PROVE  /\ adjust(x, f, add).al = (IF add THEN x + j * (H - D) + k * ((H - D) * H)
                                           ELSE x - j * (H - D) - k * ((H - D) * H)) % 2^BITS
         /\ "CF" \in adjust(x, f, add).f <=> k = 1
  <1>1. PICK low : low = IF Digit(x) >= DIGITS86 \/ "AF" \in f THEN Correction ELSE 0
    OBVIOUS
  <1>2. PICK high : high = IF x > (DIGITS86 - 1) * (2^HALF + 1) \/ "CF" \in f THEN Correction * 2^HALF ELSE 0
    OBVIOUS
  <1>3. PICK C \in Nat \ {0}, E \in Nat \ {0} : C = H - D /\ C = Correction /\ E = C * H
    <2>1. PICK C \in Nat \ {0} : C = H - D /\ C = Correction
      BY DEF Correction
    <2>2. C * H \in Nat \ {0}
      BY <2>1
    <2>3. QED BY <2>1, <2>2
  <1>4. low = j * C
    <2>1. Digit(x) >= DIGITS86 \/ "AF" \in f <=> j = 1
      BY DEF Digit
    <2>2. CASE j = 1
      <3>1. low = C
        BY <1>1, <1>3, <2>1, <2>2
      <3>2. QED BY <2>2, <3>1
    <2>3. CASE j = 0
      <3>1. low = 0
        BY <1>1, <2>1, <2>3
      <3>2. QED BY <2>3, <3>1
    <2>4. QED BY <2>2, <2>3
  <1>5. high = k * E /\ (high # 0 <=> k = 1)
    <2>1. x > (DIGITS86 - 1) * (2^HALF + 1) \/ "CF" \in f <=> k = 1
      OBVIOUS
    <2>2. CASE k = 1
      <3>1. high = E
        BY <1>2, <1>3, <2>1, <2>2
      <3>2. QED BY <2>2, <3>1
    <2>3. CASE k = 0
      <3>1. high = 0
        BY <1>2, <2>1, <2>3
      <3>2. QED BY <2>3, <3>1
    <2>4. QED BY <2>2, <2>3
  <1>6. PICK r : r = (IF add THEN x + low + high ELSE x - low - high) % 2^BITS
    OBVIOUS
  <1>7. adjust(x, f, add) = [al |-> r, f |-> (f \cap {"OF"}) \cup When(low # 0, "AF") \cup When(high # 0, "CF")
                                               \cup ResultBits(r, FALSE)]
    BY <1>1, <1>2, <1>6, Zenon DEF adjust
  <1>8. r = (IF add THEN x + j * (H - D) + k * ((H - D) * H) ELSE x - j * (H - D) - k * ((H - D) * H)) % 2^BITS
    BY <1>3, <1>4, <1>5, <1>6
  <1>9. "CF" \in adjust(x, f, add).f <=> high # 0
    <2>1. PICK kept, half, carry, bits :
            /\ kept = f \cap {"OF"} /\ half = When(low # 0, "AF") /\ carry = When(high # 0, "CF")
            /\ bits = ResultBits(r, FALSE) /\ bits \subseteq {"ZF", "SF", "PF"}
      BY ResultBitsOnly
    <2>2. half \subseteq {"AF"} /\ ("CF" \in carry <=> high # 0)
      BY <2>1 DEF When
    <2>3. adjust(x, f, add).f = kept \cup half \cup carry \cup bits
      BY <1>7, <2>1
    <2>4. QED BY <2>1, <2>2, <2>3
  <1>11. adjust(x, f, add).al = r
    BY <1>7
  <1>12. "CF" \in adjust(x, f, add).f <=> k = 1
    BY <1>5, <1>9, Zenon
  <1>10. QED BY <1>8, <1>11, <1>12, Zenon

(* Two digits are packed, and have their value.                            *)
LEMMA DigitsPacked ==
  ASSUME NEW H \in Nat \ {0}, H = 2^HALF, NEW D \in 1 .. H - 1, D = DIGITS86, NEW p \in 0 .. D - 1, NEW q \in 0 .. D - 1,
         NEW v, v = p * H + q
  PROVE  Packed86(v) /\ Value86(v) = p * D + q
  <1>1. D \in 1 .. H /\ H \in Nat
    OBVIOUS
  <1>2. (p * H + q) % H = q /\ (p * H + q) \div H = p
    BY <1>1, TwoDigits
  <1>3. Digit(v) = q /\ v \div 2^HALF = p
    BY <1>2 DEF Digit
  <1>4. Digit(v) < DIGITS86 /\ v \div 2^HALF < DIGITS86
    BY <1>3
  <1>5. (v \div 2^HALF) * DIGITS86 + Digit(v) = p * D + q
    <2>1. PICK s, t : s = v \div 2^HALF /\ t = Digit(v) /\ s = p /\ t = q
      BY <1>3
    <2>2. s * DIGITS86 + t = p * D + q
      BY <2>1
    <2>3. QED BY <2>1, <2>2, Zenon
  <1>6. QED BY <1>4, <1>5 DEF Packed86, Value86

LEMMA PackedIs ==
  ASSUME NEW H \in Nat \ {0}, H = 2^HALF, NEW D \in 1 .. H - 1, D = DIGITS86, NEW v \in Nat, Packed86(v)
  PROVE  \E p, q \in 0 .. D - 1 : v = p * H + q /\ q = Digit(v) /\ Value86(v) = p * D + q
  <1>1. v % H < D /\ v \div H < D
    BY DEF Packed86, Digit
  <1>4. D \in Nat
    OBVIOUS
  <1>2. PICK p \in 0 .. D - 1, q \in 0 .. D - 1 : v = p * H + q /\ p = v \div H /\ q = v % H
    <2>1. \A h \in Nat \ {0} : \A n \in Nat : v % h < n /\ v \div h < n =>
             \E p, q \in 0 .. n - 1 : v = p * h + q /\ p = v \div h /\ q = v % h
      BY HalvesOf
    <2>2. QED BY <1>1, <1>4, <2>1, Zenon
  <1>3. q = Digit(v)
    BY <1>2 DEF Digit
  <1>5. Value86(v) = p * D + q
    <2>1. PICK s, t : s = v \div 2^HALF /\ t = Digit(v) /\ s = p /\ t = q
      BY <1>2, <1>3
    <2>2. s * DIGITS86 + t = p * D + q
      BY <2>1
    <2>3. QED BY <2>1, <2>2, Zenon DEF Value86
  <1>6. QED BY <1>2, <1>3, <1>5, Zenon

LEMMA DecimalSum86 ==
  ASSUME NEW a \in Byte, NEW b \in Byte, NEW c \in {0, 1}, Packed86(a), Packed86(b),
         NEW w \in BOOLEAN, ~ w, NEW rec, rec.lz = "ADD", rec.lw = w, rec.la = a, rec.lb = b,
         rec.lr = i16(a + b + c), rec.lc = c, NEW fl
  PROVE  DecimalResult(adjust(rec.lr % 2^BITS, i86flags(fl, rec), TRUE), Value86(a) + Value86(b) + c)
  <1>1. PICK H \in Nat \ {0} : H = 2^HALF /\ 2^BITS = H * H /\ DIGITS86 \in 1 .. H - 1
    BY HalvesOfByte
  <1>2. PICK D \in 1 .. H - 1 : D = DIGITS86
    BY <1>1
  <1>3. a \in Nat /\ b \in Nat
    BY ByteIs DEF Byte
  <1>27. \A v \in Nat : Packed86(v) =>
           \E p, q \in 0 .. D - 1 : v = p * H + q /\ q = Digit(v) /\ Value86(v) = p * D + q
    BY <1>1, <1>2, PackedIs
  <1>4. PICK ha \in 0 .. D - 1, la \in 0 .. D - 1 : a = ha * H + la /\ la = Digit(a) /\ Value86(a) = ha * D + la
    BY <1>3, <1>27, Zenon
  <1>5. PICK hb \in 0 .. D - 1, lb \in 0 .. D - 1 : b = hb * H + lb /\ lb = Digit(b) /\ Value86(b) = hb * D + lb
    BY <1>3, <1>27, Zenon
  <1>26. ha + hb \in 0 .. 2 * D - 2 /\ la + lb + c \in 0 .. 2 * D - 1
    <2>1. \A n \in Nat : \A s, t \in 0 .. n - 1 : \A z \in {0, 1} :
            s + t \in 0 .. 2 * n - 2 /\ s + t + z \in 0 .. 2 * n - 1
      OBVIOUS
    <2>2. D \in Nat
      OBVIOUS
    <2>3. QED BY <2>1, <2>2, Zenon
  <1>6. PICK X \in 0 .. 2 * D - 2, S \in 0 .. 2 * D - 1 : X = ha + hb /\ S = la + lb + c
    BY <1>26, Zenon
  <1>7. ha \in Int /\ hb \in Int /\ la \in Int /\ lb \in Int /\ c \in Int /\ D \in Int /\ H \in Int
    OBVIOUS
  <1>8. PICK N : N = X * H + S /\ N = a + b + c
    <2>1. (ha + hb) * H + (la + lb + c) = (ha * H + la) + (hb * H + lb) + c
      BY <1>7, TwoSums
    <2>2. QED BY <1>4, <1>5, <1>6, <2>1, Zenon
  <1>9. PICK exact : exact = X * D + S /\ exact = Value86(a) + Value86(b) + c
    <2>1. (ha + hb) * D + (la + lb + c) = (ha * D + la) + (hb * D + lb) + c
      BY <1>7, TwoSums
    <2>2. QED BY <1>4, <1>5, <1>6, <2>1, Zenon
  <1>10. PICK B : B = H * H /\ B = 2^BITS
    BY <1>1
  <1>11. /\ Width(w) = BITS /\ Bound(w) = 2^BITS
         /\ a \in InWidth(w) /\ b \in InWidth(w)
    BY DEF InWidth, Bound, Width, Byte
  <1>12a. PICK f : f = i86flags(fl, rec)
    OBVIOUS
  <1>12. PICK x \in Int : x = rec.lr % 2^BITS /\ x = N % B /\ f = i86flags(fl, rec)
    <2>1. PICK M \in Int : M = a + b + c
      BY <1>3
    <2>2. Masked(i16(M), w) = Masked(M, w)
      BY <1>11, <2>1, WordsWrap
    <2>3. i16(M) % 2^BITS = M % 2^BITS
      BY <1>11, <2>2 DEF Masked
    <2>4. rec.lr = i16(M)
      BY <2>1
    <2>5. B \in Nat \ {0}
      BY <1>10
    <2>6. M % B \in Int
      BY <2>1, <2>5
    <2>7. rec.lr % 2^BITS = N % B /\ N % B \in Int
      BY <1>8, <1>10, <2>1, <2>3, <2>4, <2>6, Zenon
    <2>8. QED BY <1>12a, <2>7, Zenon
  <1>13. ("AF" \in f <=> S >= H) /\ ("CF" \in f <=> N >= B)
    <2>2. rec.lz \in {"ADD", "INC"} /\ rec.lz # "NONE"
      OBVIOUS
    <2>3. /\ HalfFlag(rec) <=> Digit(a) + Digit(b) + c >= 2^HALF
          /\ CarryFlag(rec, fl) <=> a + b + c >= Bound(w)
      BY <1>11, <2>2, SumMade
    <2>4. ("AF" \in f <=> HalfFlag(rec)) /\ ("CF" \in f <=> CarryFlag(rec, fl))
      BY <1>12, <2>2, HalfTells86, RecordTells86
    <2>5. HalfFlag(rec) <=> S >= H
      BY <1>1, <1>4, <1>5, <1>6, <2>3
    <2>6. CarryFlag(rec, fl) <=> N >= B
      BY <1>8, <1>10, <1>11, <2>3
    <2>7. QED BY <2>4, <2>5, <2>6, Zenon
  <1>14. PICK j \in {0, 1} : j = 1 <=> (x % H >= D \/ S >= H)
    BY OneOrNone
  <1>15. PICK k \in {0, 1} : k = 1 <=> (x > (D - 1) * (H + 1) \/ N >= B)
    BY OneOrNone
  <1>16. PICK y : y = x + j * (H - D) + k * ((H - D) * H)
    OBVIOUS
  <1>17. Adjusted(H, D, X, S, N, B, x, j, k, y) /\ (k = 1 <=> X * D + S >= D * D)
    <2>1. H \in Nat /\ N = X * H + S /\ B = H * H /\ x = N % B
      BY <1>8, <1>10, <1>12
    <2>2. SumCorrected(H, D, X, S, N, B, x, j, k, y)
      BY <1>14, <1>15, <1>16, <2>1 DEF SumCorrected
    <2>3. QED BY <2>1, <2>2, AdjustedSum
  <1>18. PICK p \in 0 .. D - 1, q \in 0 .. D - 1 : y % B = p * H + q /\ p * D + q = (X * D + S) % (D * D)
    BY <1>17 DEF Adjusted
  <1>19. PICK d : d = adjust(x, f, TRUE)
    OBVIOUS
  <1>20. d.al = p * H + q /\ ("CF" \in d.f <=> k = 1)
    <2>0. PICK add \in BOOLEAN : add
      OBVIOUS
    <2>1. (j = 1 <=> (x % H >= D \/ "AF" \in f)) /\ (k = 1 <=> (x > (D - 1) * (H + 1) \/ "CF" \in f))
      BY <1>13, <1>14, <1>15, Zenon
    <2>2. /\ adjust(x, f, add).al = (IF add THEN x + j * (H - D) + k * ((H - D) * H)
                                            ELSE x - j * (H - D) - k * ((H - D) * H)) % 2^BITS
          /\ "CF" \in adjust(x, f, add).f <=> k = 1
      BY <1>1, <1>2, <2>1, AdjustIs
    <2>3. adjust(x, f, add) = d
      BY <1>19, <2>0
    <2>4. d.al = y % B
      BY <1>10, <1>16, <2>0, <2>2, <2>3, Zenon
    <2>5. QED BY <1>18, <2>2, <2>3, <2>4, Zenon
  <1>21. Packed86(d.al) /\ Value86(d.al) = p * D + q
    BY <1>1, <1>2, <1>20, DigitsPacked
  <1>22. ("CF" \in d.f) = (exact \notin 0 .. DIGITS86 * DIGITS86 - 1)
    <2>1. exact \in Nat
      <3>1. PICK Y \in Nat : Y = X * D
        OBVIOUS
      <3>2. QED BY <1>9, <3>1
    <2>2. PICK E \in Int : E = D * D
      OBVIOUS
    <2>3. "CF" \in d.f <=> exact >= E
      BY <1>9, <1>17, <1>20, <2>2
    <2>4. exact \notin 0 .. E - 1 <=> exact >= E
      BY <2>1
    <2>5. QED BY <1>2, <2>2, <2>3, <2>4
  <1>23. Value86(d.al) = exact % (DIGITS86 * DIGITS86)
    BY <1>2, <1>9, <1>18, <1>21, Zenon
  <1>24. DecimalResult(d, exact)
    BY <1>21, <1>22, <1>23 DEF DecimalResult
  <1>25. QED BY <1>9, <1>12, <1>19, <1>24, Zenon

LEMMA DecimalDifference86 ==
  ASSUME NEW a \in Byte, NEW b \in Byte, NEW c \in {0, 1}, Packed86(a), Packed86(b),
         NEW w \in BOOLEAN, ~ w, NEW rec, rec.lz = "SUB", rec.lw = w, rec.la = a, rec.lb = b,
         rec.lr = i16(a - b - c), rec.lc = c, NEW fl
  PROVE  DecimalResult(adjust(rec.lr % 2^BITS, i86flags(fl, rec), FALSE), Value86(a) - Value86(b) - c)
  <1>1. PICK H \in Nat \ {0} : H = 2^HALF /\ 2^BITS = H * H /\ DIGITS86 \in 1 .. H - 1
    BY HalvesOfByte
  <1>2. PICK D \in 1 .. H - 1 : D = DIGITS86
    BY <1>1
  <1>3. a \in Nat /\ b \in Nat
    BY ByteIs DEF Byte
  <1>27. \A v \in Nat : Packed86(v) =>
           \E p, q \in 0 .. D - 1 : v = p * H + q /\ q = Digit(v) /\ Value86(v) = p * D + q
    BY <1>1, <1>2, PackedIs
  <1>4. PICK ha \in 0 .. D - 1, la \in 0 .. D - 1 : a = ha * H + la /\ la = Digit(a) /\ Value86(a) = ha * D + la
    BY <1>3, <1>27, Zenon
  <1>5. PICK hb \in 0 .. D - 1, lb \in 0 .. D - 1 : b = hb * H + lb /\ lb = Digit(b) /\ Value86(b) = hb * D + lb
    BY <1>3, <1>27, Zenon
  <1>26. ha - hb \in 1 - D .. D - 1 /\ la - lb - c \in -D .. D - 1
    <2>1. \A n \in Nat : \A s, t \in 0 .. n - 1 : \A z \in {0, 1} :
            s - t \in 1 - n .. n - 1 /\ s - t - z \in -n .. n - 1
      OBVIOUS
    <2>2. D \in Nat
      OBVIOUS
    <2>3. QED BY <2>1, <2>2, Zenon
  <1>6. PICK X \in 1 - D .. D - 1, S \in -D .. D - 1 : X = ha - hb /\ S = la - lb - c
    BY <1>26, Zenon
  <1>7. ha \in Int /\ hb \in Int /\ la \in Int /\ lb \in Int /\ c \in Int /\ D \in Int /\ H \in Int
    OBVIOUS
  <1>8. PICK N : N = X * H + S /\ N = a - b - c
    <2>1. (ha - hb) * H + (la - lb - c) = (ha * H + la) - (hb * H + lb) - c
      BY <1>7, TwoSums
    <2>2. QED BY <1>4, <1>5, <1>6, <2>1, Zenon
  <1>9. PICK exact : exact = X * D + S /\ exact = Value86(a) - Value86(b) - c
    <2>1. (ha - hb) * D + (la - lb - c) = (ha * D + la) - (hb * D + lb) - c
      BY <1>7, TwoSums
    <2>2. QED BY <1>4, <1>5, <1>6, <2>1, Zenon
  <1>10. PICK B : B = H * H /\ B = 2^BITS
    BY <1>1
  <1>11. /\ Width(w) = BITS /\ Bound(w) = 2^BITS
         /\ a \in InWidth(w) /\ b \in InWidth(w)
    BY DEF InWidth, Bound, Width, Byte
  <1>12a. PICK f : f = i86flags(fl, rec)
    OBVIOUS
  <1>12. PICK x \in Int : x = rec.lr % 2^BITS /\ x = N % B /\ f = i86flags(fl, rec)
    <2>1. PICK M \in Int : M = a - b - c
      BY <1>3
    <2>2. Masked(i16(M), w) = Masked(M, w)
      BY <1>11, <2>1, WordsWrap
    <2>3. i16(M) % 2^BITS = M % 2^BITS
      BY <1>11, <2>2 DEF Masked
    <2>4. rec.lr = i16(M)
      BY <2>1
    <2>5. B \in Nat \ {0}
      BY <1>10
    <2>6. M % B \in Int
      BY <2>1, <2>5
    <2>7. rec.lr % 2^BITS = N % B /\ N % B \in Int
      BY <1>8, <1>10, <2>1, <2>3, <2>4, <2>6, Zenon
    <2>8. QED BY <1>12a, <2>7, Zenon
  <1>13. ("AF" \in f <=> S < 0) /\ ("CF" \in f <=> N < 0)
    <2>2. rec.lz \in {"SUB", "DEC"} /\ rec.lz # "NONE"
      OBVIOUS
    <2>1. Subtracted(w, a, b, c, rec, fl)
      BY <1>11, <2>2, DifferenceMade
    <2>3. (HalfFlag(rec) <=> Digit(a) < Digit(b) + c) /\ (CarryFlag(rec, fl) <=> a < b + c)
      BY <2>1 DEF Subtracted
    <2>4. ("AF" \in f <=> HalfFlag(rec)) /\ ("CF" \in f <=> CarryFlag(rec, fl))
      BY <1>12, <2>2, HalfTells86, RecordTells86
    <2>5. HalfFlag(rec) <=> S < 0
      BY <1>4, <1>5, <1>6, <2>3
    <2>6. CarryFlag(rec, fl) <=> N < 0
      BY <1>3, <1>8, <2>3
    <2>7. QED BY <2>4, <2>5, <2>6, Zenon
  <1>14. PICK j \in {0, 1} : j = 1 <=> (x % H >= D \/ S < 0)
    BY OneOrNone
  <1>15. PICK k \in {0, 1} : k = 1 <=> (x > (D - 1) * (H + 1) \/ N < 0)
    BY OneOrNone
  <1>16. PICK y : y = x - j * (H - D) - k * ((H - D) * H)
    OBVIOUS
  <1>17. Adjusted(H, D, X, S, N, B, x, j, k, y) /\ (k = 1 <=> X * D + S < 0) /\ X * D + S < D * D
    <2>1. H \in Nat /\ N = X * H + S /\ B = H * H /\ x = N % B
      BY <1>8, <1>10, <1>12
    <2>2. DifferenceCorrected(H, D, X, S, N, B, x, j, k, y)
      BY <1>14, <1>15, <1>16, <2>1 DEF DifferenceCorrected
    <2>3. QED BY <2>1, <2>2, AdjustedDifference
  <1>18. PICK p \in 0 .. D - 1, q \in 0 .. D - 1 : y % B = p * H + q /\ p * D + q = (X * D + S) % (D * D)
    BY <1>17 DEF Adjusted
  <1>19. PICK d : d = adjust(x, f, FALSE)
    OBVIOUS
  <1>20. d.al = p * H + q /\ ("CF" \in d.f <=> k = 1)
    <2>0. PICK add \in BOOLEAN : ~ add
      OBVIOUS
    <2>1. (j = 1 <=> (x % H >= D \/ "AF" \in f)) /\ (k = 1 <=> (x > (D - 1) * (H + 1) \/ "CF" \in f))
      BY <1>13, <1>14, <1>15, Zenon
    <2>2. /\ adjust(x, f, add).al = (IF add THEN x + j * (H - D) + k * ((H - D) * H)
                                            ELSE x - j * (H - D) - k * ((H - D) * H)) % 2^BITS
          /\ "CF" \in adjust(x, f, add).f <=> k = 1
      BY <1>1, <1>2, <2>1, AdjustIs
    <2>3. adjust(x, f, add) = d
      BY <1>19, <2>0
    <2>4. d.al = y % B
      BY <1>10, <1>16, <2>0, <2>2, <2>3, Zenon
    <2>5. QED BY <1>18, <2>2, <2>3, <2>4, Zenon
  <1>21. Packed86(d.al) /\ Value86(d.al) = p * D + q
    BY <1>1, <1>2, <1>20, DigitsPacked
  <1>22. ("CF" \in d.f) = (exact \notin 0 .. DIGITS86 * DIGITS86 - 1)
    <2>1. PICK E \in Int : E = D * D
      OBVIOUS
    <2>2. exact \in Int
      <3>1. PICK Y \in Int : Y = X * D
        OBVIOUS
      <3>2. QED BY <1>9, <3>1
    <2>3. ("CF" \in d.f <=> exact < 0) /\ exact < E
      BY <1>9, <1>17, <1>20, <2>1
    <2>4. exact \notin 0 .. E - 1 <=> exact < 0
      BY <2>2, <2>3
    <2>5. QED BY <1>2, <2>1, <2>3, <2>4
  <1>23. Value86(d.al) = exact % (DIGITS86 * DIGITS86)
    BY <1>2, <1>9, <1>18, <1>21, Zenon
  <1>24. DecimalResult(d, exact)
    BY <1>21, <1>22, <1>23 DEF DecimalResult
  <1>25. QED BY <1>9, <1>12, <1>19, <1>24, Zenon

LEMMA DecimalsFollow86 ==
  ASSUME Stands86(g, eager86)
  PROVE  DecimalArithmetic
  <1>1. PICK rec, fl : rec = g.rec /\ fl = g.fl
    OBVIOUS
  <1>2. Exact86(rec) /\ FlagsNow = i86flags(fl, rec)
    BY <1>1 DEF Stands86, FlagsNow
  <1>9. PICK d, exact : /\ d = adjust(g.rec.lr % 2^BITS, FlagsNow, g.rec.lz = "ADD")
                        /\ exact = IF g.rec.lz = "ADD" THEN Value86(g.rec.la) + Value86(g.rec.lb) + g.rec.lc
                                   ELSE Value86(g.rec.la) - Value86(g.rec.lb) - g.rec.lc
    OBVIOUS
  <1>10. SUFFICES ASSUME g.rec.lz \in {"ADD", "SUB"} /\ ~ g.rec.lw /\ Packed86(g.rec.la) /\ Packed86(g.rec.lb)
                  PROVE  LET r == g.rec
                             value == IF r.lz = "ADD" THEN Value86(r.la) + Value86(r.lb) + r.lc
                                      ELSE Value86(r.la) - Value86(r.lb) - r.lc
                             after == adjust(r.lr % 2^BITS, FlagsNow, r.lz = "ADD")
                         IN /\ Packed86(after.al) /\ Value86(after.al) = value % (DIGITS86 * DIGITS86)
                            /\ ("CF" \in after.f) = (value \notin 0 .. DIGITS86 * DIGITS86 - 1)
    BY Zenon DEF DecimalArithmetic, Packed86, Value86
  <1>3. rec.lz \in {"ADD", "SUB"} /\ ~ rec.lw /\ Packed86(rec.la) /\ Packed86(rec.lb)
    BY <1>1, <1>10, Zenon
  <1>12. rec.lw \in BOOLEAN /\ rec.lc \in {0, 1}
    BY <1>2, <1>3 DEF Exact86
  <1>13. PICK w \in BOOLEAN : ~ w /\ rec.lw = w
    BY <1>3, <1>12
  <1>4. PICK c \in {0, 1}, a \in {rec.la}, b \in {rec.lb} : ~ w /\ rec.lw = w /\ rec.la = a /\ rec.lb = b /\ rec.lc = c
    BY <1>12, <1>13
  <1>5. a \in Byte /\ b \in Byte
    BY <1>2, <1>3, <1>4 DEF Exact86, InWidth, Bound, Width, Byte
  <1>6. ASSUME rec.lz = "ADD" PROVE DecimalResult(d, exact)
    <2>1. rec.lr = i16(a + b + c)
      BY <1>2, <1>3, <1>4, <1>6 DEF Exact86
    <2>2. DecimalResult(adjust(rec.lr % 2^BITS, i86flags(fl, rec), TRUE), Value86(a) + Value86(b) + c)
      BY <1>3, <1>4, <1>5, <1>6, <2>1, DecimalSum86
    <2>3. d = adjust(rec.lr % 2^BITS, i86flags(fl, rec), TRUE) /\ exact = Value86(a) + Value86(b) + c
      BY <1>1, <1>2, <1>4, <1>6, <1>9
    <2>4. QED BY <2>2, <2>3
  <1>7. ASSUME rec.lz = "SUB" PROVE DecimalResult(d, exact)
    <2>1. rec.lr = i16(a - b - c)
      BY <1>2, <1>3, <1>4, <1>7 DEF Exact86
    <2>2. DecimalResult(adjust(rec.lr % 2^BITS, i86flags(fl, rec), FALSE), Value86(a) - Value86(b) - c)
      BY <1>3, <1>4, <1>5, <1>7, <2>1, DecimalDifference86
    <2>3. d = adjust(rec.lr % 2^BITS, i86flags(fl, rec), FALSE) /\ exact = Value86(a) - Value86(b) - c
      BY <1>1, <1>2, <1>4, <1>7, <1>9
    <2>4. QED BY <2>2, <2>3
  <1>8. DecimalResult(d, exact)
    BY <1>3, <1>6, <1>7
  <1>11. QED BY <1>8, <1>9, Zenon DEF DecimalResult

-----------------------------------------------------------------------------
(* Shifts.                                                                 *)
(* The powers of two up to any one of those that are assumed.              *)
PowersTo(n) == n \in Nat /\ \A i \in 0 .. n - 1 : 2^(i + 1) = 2 * 2^i

LEMMA PowersAre ==
  ASSUME NEW n, PowersTo(n)
  PROVE  \A i \in 0 .. n : 2^i \in Nat \ {0}
  <1> DEFINE T == {i \in 0 .. n : 2^i \in Nat \ {0}}
  <1>1. n \in Nat
    BY DEF PowersTo
  <1>2. 0 \in T
    BY <1>1, PowersAssumption
  <1>3. ASSUME NEW k \in 0 .. n - 1, k \in T PROVE k + 1 \in T
    <2>1. PICK x \in Nat \ {0} : x = 2^k
      BY <1>3
    <2>2. 2^(k + 1) = 2 * x
      BY <2>1 DEF PowersTo
    <2>3. 2 * x \in Nat \ {0} /\ k + 1 \in 0 .. n
      BY <1>1, <2>1
    <2>4. QED BY <2>2, <2>3
  <1> HIDE DEF T
  <1>4. 0 .. n \subseteq T
    BY <1>1, <1>2, <1>3, UpTo
  <1>5. QED BY <1>4 DEF T

LEMMA ProductOf ==
  ASSUME NEW n, PowersTo(n), NEW i \in Nat, NEW j \in Nat, i + j <= n
  PROVE  2^(i + j) = 2^i * 2^j
  <1> DEFINE T == {k \in 0 .. j : 2^(i + k) = 2^i * 2^k}
  <1>1. n \in Nat /\ i \in 0 .. n
    BY DEF PowersTo
  <1>2. 2^i \in Nat \ {0}
    BY <1>1, PowersAre
  <1>3. 0 \in T
    <2>1. 2^(i + 0) = 2^i /\ 2^0 = 1
      BY PowersAssumption
    <2>2. PICK x \in Nat : x = 2^i
      BY <1>2
    <2>3. QED BY <2>1, <2>2
  <1>4. ASSUME NEW k \in 0 .. j - 1, k \in T PROVE k + 1 \in T
    <2>1. k \in 0 .. n - 1 /\ i + k \in 0 .. n - 1 /\ k + 1 \in 0 .. j
      BY <1>1
    <2>2. 2^(k + 1) = 2 * 2^k /\ 2^((i + k) + 1) = 2 * 2^(i + k)
      BY <2>1 DEF PowersTo
    <2>3. 2^k \in Nat
      BY <1>1, <2>1, PowersAre
    <2>4. PICK x \in Nat, y \in Nat : x = 2^i /\ y = 2^k
      BY <1>2, <2>3
    <2>5. 2^(i + k) = x * y
      BY <1>4, <2>4
    <2>6. 2 * (x * y) = x * (2 * y)
      BY <2>4
    <2>7. (i + k) + 1 = i + (k + 1)
      BY <2>1
    <2>8. 2^(i + (k + 1)) = x * 2^(k + 1)
      BY <2>2, <2>4, <2>5, <2>6, <2>7
    <2>9. QED BY <2>1, <2>4, <2>8
  <1> HIDE DEF T
  <1>5. j \in 0 .. j /\ 0 .. j \subseteq T
    BY <1>3, <1>4, UpTo
  <1>6. QED BY <1>5 DEF T

LEMMA OneBitMore == PowersTo(2 * BITS + 1)
  <1>1. 2 * BITS + 1 \in Nat
    BY WordsAssumption
  <1>2. \A i \in 0 .. (2 * BITS + 1) - 1 : i \in 0 .. 2 * BITS - 1 \/ i = 2 * BITS
    BY WordsAssumption
  <1>3. QED BY <1>1, <1>2, PowersAssumption, CountsAssumption DEF PowersTo

LEMMA CountPowers == \A n \in COUNTS : PowersTo(n)
  BY CountsAssumption DEF PowersTo

(* A number of two halves, S the size of one: turned left and right.       *)
TurnLeft(S, y) == ((2 * y) % (2 * S)) + (y \div S)
TurnRight(S, y) == y \div 2 + (y % 2) * S

LEMMA TopOf ==
  ASSUME NEW S \in Nat \ {0}, NEW y \in 0 .. 2 * S - 1
  PROVE  \E t \in {0, 1}, u \in 0 .. S - 1 : y = t * S + u /\ y \div S = t /\ y % S = u
  <1>1. CASE y < S
    <2>1. y \in 0 .. S - 1 /\ y = 0 * S + y /\ 0 \in Int /\ 0 \in {0, 1}
      BY <1>1
    <2>2. y % S = y /\ y \div S = 0
      BY <2>1, Parts
    <2>3. QED BY <2>1, <2>2
  <1>2. CASE y >= S
    <2>1. PICK u \in 0 .. S - 1 : y = 1 * S + u
      <3>1. y - S \in 0 .. S - 1 /\ y = 1 * S + (y - S)
        BY <1>2
      <3>2. QED BY <3>1
    <2>2. 1 \in Int /\ 1 \in {0, 1}
      OBVIOUS
    <2>3. y % S = u /\ y \div S = 1
      BY <2>1, <2>2, Parts
    <2>4. QED BY <2>1, <2>2, <2>3
  <1>3. y < S \/ y >= S
    OBVIOUS
  <1>4. QED BY <1>1, <1>2, <1>3

LEMMA Doubled ==
  ASSUME NEW S \in Nat \ {0}, NEW y \in 0 .. 2 * S - 1
  PROVE  \E t \in {0, 1}, u \in 0 .. S - 1 :
           y = t * S + u /\ y \div S = t /\ (2 * y) % (2 * S) = 2 * u
  <1>1. PICK t \in {0, 1}, u \in 0 .. S - 1 : y = t * S + u /\ y \div S = t
    BY TopOf
  <1>3. (2 * y) % (2 * S) = 2 * u
    <2>1. PICK B \in Nat \ {0} : B = 2 * S
      OBVIOUS
    <2>2. PICK d \in 0 .. B - 1 : d = 2 * u
      BY <2>1
    <2>3. (d + t * B) % B = d
      <3>1. t \in Int
        BY <1>1
      <3>2. QED BY <2>1, <2>2, <3>1, Corrected
    <2>4. 2 * y = d + t * B
      <3>1. CASE t = 0
        BY <1>1, <2>1, <2>2, <3>1
      <3>2. CASE t = 1
        BY <1>1, <2>1, <2>2, <3>2
      <3>3. QED BY <1>1, <3>1, <3>2
    <2>5. QED BY <2>1, <2>2, <2>3, <2>4
  <1>4. QED BY <1>1, <1>3

LEMMA TurnedBack ==
  ASSUME NEW S \in Nat \ {0}, NEW y \in 0 .. 2 * S - 1
  PROVE  TurnLeft(S, y) \in 0 .. 2 * S - 1 /\ TurnRight(S, TurnLeft(S, y)) = y
  <1>1. PICK t \in {0, 1}, u \in 0 .. S - 1 :
          y = t * S + u /\ y \div S = t /\ (2 * y) % (2 * S) = 2 * u
    BY Doubled
  <1>2. PICK z \in Int : z = TurnLeft(S, y) /\ z = 2 * u + t
    BY <1>1 DEF TurnLeft
  <1>3. z \in 0 .. 2 * S - 1
    BY <1>2
  <1>4. z \div 2 = u /\ z % 2 = t
    BY <1>2
  <1>5. TurnRight(S, z) = y
    BY <1>1, <1>4 DEF TurnRight
  <1>6. QED BY <1>2, <1>3, <1>5

(* Turned k bits at once, A the power of the bits that leave it above and B *)
(* that of the others.                                                      *)
Swap(A, B, x) == (x % B) * A + x \div B
Turn(x, n, k) == Swap(2^k, 2^(n - k), x)

LeftOf(P, t, u) == t * P + u \in 0 .. 2 * P - 1 /\ TurnLeft(P, t * P + u) = 2 * u + t
LEMMA LeftOfIs == ASSUME NEW P \in Nat \ {0}, NEW t \in {0, 1}, NEW u \in 0 .. P - 1 PROVE LeftOf(P, t, u)
  <1>0. PICK y : y = t * P + u
    OBVIOUS
  <1>1. y \in 0 .. 2 * P - 1
    <2>1. CASE t = 0
      BY <1>0, <2>1
    <2>2. CASE t = 1
      BY <1>0, <2>2
    <2>3. QED BY <2>1, <2>2
  <1>2. PICK t2 \in {0, 1}, u2 \in 0 .. P - 1 :
          y = t2 * P + u2 /\ y \div P = t2 /\ (2 * y) % (2 * P) = 2 * u2
    BY <1>1, Doubled
  <1>3. y \div P = t /\ y % P = u
    <2>1. t \in Int
      OBVIOUS
    <2>2. QED BY <1>0, <2>1, Parts
  <1>4. y % P = u2
    <2>1. t2 \in Int
      OBVIOUS
    <2>2. QED BY <1>2, <2>1, Parts
  <1>5. TurnLeft(P, y) = 2 * u + t
    BY <1>2, <1>3, <1>4 DEF TurnLeft
  <1>6. QED BY <1>0, <1>1, <1>5 DEF LeftOf

PartsOf(B, q, d) == (q * B + d) % B = d /\ (q * B + d) \div B = q
LEMMA PartsAre == ASSUME NEW B \in Nat \ {0}, NEW q \in Int, NEW d \in 0 .. B - 1 PROVE PartsOf(B, q, d)
  <1>1. PICK x : x = q * B + d
    OBVIOUS
  <1>2. x % B = d /\ x \div B = q
    BY <1>1, Parts
  <1>3. QED BY <1>1, <1>2 DEF PartsOf

LEMMA Below ==
  ASSUME NEW B \in Nat \ {0}, NEW A \in Nat, NEW C \in Nat, NEW q \in Int, NEW d \in 0 .. B - 1, NEW x \in Nat,
         x = q * B + d, C = A * B, x < C
  PROVE  q \in 0 .. A - 1
  <1>1. q >= 0
    <2>1. SUFFICES ASSUME q <= -1 PROVE FALSE
      OBVIOUS
    <2>2. q * B <= (-1) * B
      BY <2>1
    <2>3. QED BY <2>2
  <1>2. q < A
    <2>1. SUFFICES ASSUME q >= A PROVE FALSE
      OBVIOUS
    <2>2. q * B >= A * B
      BY <2>1
    <2>3. QED BY <2>2
  <1>3. QED BY <1>1, <1>2

LEMMA Above ==
  ASSUME NEW A \in Nat \ {0}, NEW C \in Nat, NEW P, P = A * C, NEW l \in 0 .. C - 1, NEW h \in 0 .. A - 1
  PROVE  l * A + h \in 0 .. P - 1
  <1>1. l * A <= (C - 1) * A
    OBVIOUS
  <1>2. (C - 1) * A = P - A
    OBVIOUS
  <1>3. PICK y \in Int : y = l * A /\ y >= 0
    OBVIOUS
  <1>4. PICK z \in Int : z = P
    OBVIOUS
  <1>5. y <= z - A
    BY <1>1, <1>2, <1>3, <1>4
  <1>6. QED BY <1>3, <1>4, <1>5

LEMMA Scaled ==
  ASSUME NEW A \in Int, NEW B \in Int, NEW q \in Int, NEW r \in Int
  PROVE  (q * B + r) * A = r * A + q * (A * B)
  OBVIOUS

LEMMA SwapIs ==
  ASSUME NEW A \in Nat \ {0}, NEW B \in Nat \ {0}, NEW C, C = A * B, NEW x \in 0 .. C - 1
  PROVE  ((x * A) % C) + x \div B = Swap(A, B, x)
  <1>0. C \in Nat \ {0}
    OBVIOUS
  <1>1. PICK q \in Int, r \in 0 .. B - 1 : x = q * B + r /\ q = x \div B /\ r = x % B
    <2>1. x \in Int
      BY <1>0
    <2>2. QED BY <2>1, Division
  <1>2. r * A + 0 \in 0 .. C - 1
    <2>1. 0 \in 0 .. A - 1 /\ B \in Nat /\ r \in 0 .. B - 1
      BY <1>1
    <2>2. QED BY <2>1, Above
  <1>3. PICK v \in 0 .. C - 1 : v = r * A
    BY <1>2
  <1>4. x * A = v + q * C
    <2>1. q \in Int /\ r \in Int
      BY <1>1
    <2>2. (q * B + r) * A = r * A + q * (A * B)
      BY <2>1, Scaled
    <2>3. QED BY <1>1, <1>3, <2>2
  <1>5. (v + q * C) % C = v
    BY <1>0, Corrected
  <1>6. QED BY <1>1, <1>3, <1>4, <1>5 DEF Swap

LEMMA OverHigh ==
  ASSUME NEW A \in Int, NEW C \in Int, NEW P, P = A * C, NEW t \in {0, 1}, NEW l \in Int, NEW h \in Int,
         NEW d, d = t * C + l
  PROVE  d * A + h = t * P + (l * A + h)
  <1>1. CASE t = 0
    <2>1. d = l
      BY <1>1
    <2>2. PICK z \in Int : z = l * A
      OBVIOUS
    <2>3. 0 * P = 0
      OBVIOUS
    <2>4. QED BY <1>1, <2>1, <2>2, <2>3
  <1>2. CASE t = 1
    <2>1. d = C + l
      BY <1>2
    <2>2. (C + l) * A = A * C + l * A
      OBVIOUS
    <2>3. PICK z \in Int, p \in Int : z = l * A /\ p = A * C
      OBVIOUS
    <2>4. QED BY <1>2, <2>1, <2>2, <2>3
  <1>3. QED BY <1>1, <1>2

LEMMA UnderHigh ==
  ASSUME NEW C \in Int, NEW t \in {0, 1}, NEW l \in Int, NEW h \in Int, NEW d, d = t * C + l
  PROVE  h * (2 * C) + d = (2 * h + t) * C + l
  <1>1. h * (2 * C) = (2 * h) * C
    OBVIOUS
  <1>2. PICK z \in Int : z = (2 * h) * C
    OBVIOUS
  <1>3. CASE t = 0
    BY <1>1, <1>3
  <1>4. CASE t = 1
    <2>1. (2 * h + 1) * C = (2 * h) * C + C
      OBVIOUS
    <2>2. d = C + l
      BY <1>4
    <2>3. QED BY <1>1, <1>2, <1>4, <2>1, <2>2
  <1>5. QED BY <1>3, <1>4

LEMMA TwiceLow ==
  ASSUME NEW A \in Int, NEW l \in Int, NEW h \in Int, NEW t \in {0, 1}, NEW u, u = l * A + h
  PROVE  2 * u + t = l * (2 * A) + (2 * h + t)
  <1>1. l * (2 * A) = 2 * (l * A)
    OBVIOUS
  <1>2. PICK z \in Int : z = l * A
    OBVIOUS
  <1>3. QED BY <1>1, <1>2

IsProduct(P, A, C) == P = A * C
LEMMA SwapStep ==
  ASSUME NEW A \in Nat \ {0}, NEW C \in Nat \ {0}, NEW P, IsProduct(P, A, C), NEW x \in 0 .. 2 * P - 1
  PROVE  /\ Swap(A, 2 * C, x) \in 0 .. 2 * P - 1
         /\ TurnLeft(P, Swap(A, 2 * C, x)) = Swap(2 * A, C, x)
  <1>0. P \in Nat \ {0} /\ x \in Nat /\ 2 * C \in Nat \ {0}
    <2>1. P \in Nat \ {0}
      BY DEF IsProduct
    <2>2. QED BY <2>1
  <1>1. PICK B \in Nat \ {0} : B = 2 * C
    BY <1>0
  <1>2. PICK h \in Int, d \in 0 .. B - 1 : x = h * B + d /\ h = x \div B /\ d = x % B
    BY <1>0, Division
  <1>3. h \in 0 .. A - 1
    <2>1. PICK Q \in Nat : Q = 2 * P
      BY <1>0
    <2>2. Q = A * B
      BY <1>1, <2>1 DEF IsProduct
    <2>3. x < Q /\ A \in Nat
      BY <2>1
    <2>4. QED BY <1>0, <1>2, <2>2, <2>3, Below
  <1>4. PICK t \in {0, 1}, l \in 0 .. C - 1 : d = t * C + l
    <2>1. d \in 0 .. 2 * C - 1
      BY <1>1
    <2>2. QED BY <2>1, TopOf
  <1>5. PICK u \in 0 .. P - 1 : u = l * A + h
    <2>1. C \in Nat /\ P = A * C
      BY DEF IsProduct
    <2>2. l * A + h \in 0 .. P - 1
      BY <1>3, <2>1, Above
    <2>3. QED BY <2>2
  <1>6. PICK y : y = Swap(A, 2 * C, x) /\ y = d * A + h
    BY <1>1, <1>2 DEF Swap
  <1>7. y = t * P + u
    <2>1. h \in Int /\ l \in Int /\ t \in {0, 1}
      BY <1>2
    <2>2. d * A + h = t * P + (l * A + h)
      BY <1>4, <2>1, OverHigh DEF IsProduct
    <2>3. QED BY <1>5, <1>6, <2>2
  <1>8. y \in 0 .. 2 * P - 1 /\ TurnLeft(P, y) = 2 * u + t
    <2>1. P \in Nat \ {0} /\ t \in {0, 1} /\ u \in 0 .. P - 1
      BY <1>0
    <2>2. LeftOf(P, t, u)
      BY <2>1, LeftOfIs
    <2>3. QED BY <1>7, <2>2, Zenon DEF LeftOf
  <1>9. x % C = l /\ x \div C = 2 * h + t
    <2>1. PICK q \in Int : q = 2 * h + t
      <3>1. h \in Int /\ t \in {0, 1}
        BY <1>2
      <3>2. 2 * h + t \in Int
        BY <3>1
      <3>3. QED BY <3>2
    <2>2. x = q * C + l
      <3>1. h \in Int /\ l \in Int /\ t \in {0, 1}
        BY <1>2
      <3>2. h * (2 * C) + d = (2 * h + t) * C + l
        BY <1>4, <3>1, UnderHigh
      <3>3. QED BY <1>1, <1>2, <2>1, <3>2
    <2>3. C \in Nat \ {0} /\ l \in 0 .. C - 1
      BY <1>4
    <2>4. x % C = l /\ x \div C = q
      <3>1. PartsOf(C, q, l)
        BY <2>1, <2>3, PartsAre
      <3>2. QED BY <2>2, <3>1, Zenon DEF PartsOf
    <2>5. QED BY <2>1, <2>4
  <1>10. 2 * u + t = l * (2 * A) + (2 * h + t)
    <2>1. h \in Int /\ l \in Int /\ t \in {0, 1}
      BY <1>2
    <2>2. QED BY <1>5, <2>1, TwiceLow
  <1>11. QED BY <1>6, <1>8, <1>9, <1>10 DEF Swap

(* A turn of k bits is k turns of one.                                     *)
LEMMA TurnStep ==
  ASSUME NEW n \in Nat \ {0}, PowersTo(n), NEW x \in 0 .. 2^n - 1, NEW k \in 0 .. n - 1
  PROVE  /\ Turn(x, n, k) \in 0 .. 2^n - 1
         /\ TurnLeft(2^(n - 1), Turn(x, n, k)) = Turn(x, n, k + 1)
  <1>1. PICK j \in Nat : j = n - (k + 1) /\ n - k = j + 1 /\ k + j = n - 1 /\ j \in 0 .. n - 1
    <2>1. n - (k + 1) \in Nat /\ n - k = (n - (k + 1)) + 1 /\ k + (n - (k + 1)) = n - 1 /\ n - (k + 1) \in 0 .. n - 1
      OBVIOUS
    <2>2. QED BY <2>1
  <1>2. n - 1 \in 0 .. n - 1 /\ (n - 1) + 1 = n /\ k \in Nat /\ k + j <= n /\ k \in 0 .. n /\ j \in 0 .. n
    BY <1>1
  <1>3. 2^(k + 1) = 2 * 2^k /\ 2^(n - k) = 2 * 2^j /\ 2^n = 2 * 2^(n - 1)
    <2>1. 2^(k + 1) = 2 * 2^k /\ 2^(j + 1) = 2 * 2^j /\ 2^((n - 1) + 1) = 2 * 2^(n - 1)
      BY <1>1, <1>2 DEF PowersTo
    <2>2. QED BY <1>1, <1>2, <2>1
  <1>4. PICK A \in Nat \ {0}, C \in Nat \ {0} : A = 2^k /\ C = 2^j
    BY <1>2, PowersAre
  <1>5. 2^(n - 1) = A * C
    <2>1. 2^(k + j) = 2^k * 2^j
      BY <1>2, ProductOf
    <2>2. QED BY <1>1, <1>4, <2>1
  <1>6. PICK P : P = A * C /\ IsProduct(P, A, C)
    BY DEF IsProduct
  <1>7. x \in 0 .. 2 * P - 1
    BY <1>3, <1>5, <1>6
  <1>8. /\ Swap(A, 2 * C, x) \in 0 .. 2 * P - 1
        /\ TurnLeft(P, Swap(A, 2 * C, x)) = Swap(2 * A, C, x)
    BY <1>6, <1>7, SwapStep
  <1>9. n - (k + 1) = j
    BY <1>1
  <1>10. QED BY <1>3, <1>4, <1>5, <1>6, <1>8, <1>9 DEF Turn

LEMMA TurnEnds ==
  ASSUME NEW n \in Nat \ {0}, PowersTo(n), NEW x \in 0 .. 2^n - 1
  PROVE  Turn(x, n, 0) = x /\ Turn(x, n, n) = x
  <1>1. 2^0 = 1 /\ n - 0 = n /\ n - n = 0 /\ n \in 0 .. n
    BY PowersAssumption
  <1>2. PICK N \in Nat \ {0} : N = 2^n
    BY <1>1, PowersAre
  <1>3. x % N = x /\ x \div N = 0 /\ x % 1 = 0 /\ x \div 1 = x
    <2>1. x \in 0 .. N - 1 /\ x = 0 * N + x /\ 0 \in Int
      BY <1>2
    <2>2. x % N = x /\ x \div N = 0
      BY <2>1, Parts
    <2>3. x % 1 = 0 /\ x \div 1 = x
      BY <2>1
    <2>4. QED BY <2>2, <2>3
  <1>4. x * 1 + 0 = x /\ 0 * N + x = x
    BY <1>2
  <1>5. QED BY <1>1, <1>2, <1>3, <1>4 DEF Turn, Swap

LEMMA TurnedIs ==
  ASSUME NEW n \in Nat \ {0}, PowersTo(n), NEW x \in 0 .. 2^n - 1, NEW k \in 0 .. n - 1, NEW i, i % n = k
  PROVE  Turned(x, n, i) = Turn(x, n, k)
  <1>1. PICK j \in Nat : j = n - k /\ k + j = n /\ j \in 0 .. n /\ k \in 0 .. n /\ k \in Nat /\ k + j <= n
    <2>1. n - k \in Nat /\ k + (n - k) = n /\ n - k \in 0 .. n /\ k \in 0 .. n /\ k \in Nat /\ k + (n - k) <= n
      OBVIOUS
    <2>2. QED BY <2>1
  <1>2. PICK A \in Nat \ {0}, B \in Nat \ {0} : A = 2^k /\ B = 2^j
    BY <1>1, PowersAre
  <1>3. PICK C : C = A * B /\ C = 2^n
    <2>1. 2^(k + j) = 2^k * 2^j
      BY <1>1, ProductOf
    <2>2. QED BY <1>1, <1>2, <2>1
  <1>4. x \in 0 .. C - 1
    BY <1>3
  <1>5. ((x * A) % C) + x \div B = Swap(A, B, x)
    BY <1>3, <1>4, SwapIs
  <1>6. Turned(x, n, i) = ((x * 2^k) % 2^n) + x \div 2^(n - k)
    BY DEF Turned
  <1>7. QED BY <1>1, <1>2, <1>3, <1>5, <1>6 DEF Turn

(* The count of a rotation, by its length: the next one.                   *)
LEMMA OnceMore == ASSUME NEW q \in Int, NEW n \in Int PROVE (q + 1) * n = q * n + n
  OBVIOUS

LEMMA CountTurns ==
  ASSUME NEW n \in Nat \ {0}, NEW i \in Nat \ {0}
  PROVE  \E k \in 0 .. n - 1 : (i - 1) % n = k /\ i % n = IF k = n - 1 THEN 0 ELSE k + 1
  <1>1. PICK j \in Int : j = i - 1
    OBVIOUS
  <1>2. PICK q \in Int, k \in 0 .. n - 1 : j = q * n + k /\ q = j \div n /\ k = j % n
    BY Division
  <1>3. CASE k = n - 1
    <2>1. PICK r \in Int : r = q + 1
      BY <1>2
    <2>2. PartsOf(n, r, 0)
      <3>1. 0 \in 0 .. n - 1
        OBVIOUS
      <3>2. QED BY <2>1, <3>1, PartsAre
    <2>3. r * n = q * n + n
      <3>1. q \in Int /\ n \in Int
        BY <1>2
      <3>2. QED BY <2>1, <3>1, OnceMore
    <2>4. i = r * n + 0
      <3>1. PICK z \in Int : z = q * n
        BY <1>2
      <3>2. QED BY <1>1, <1>2, <1>3, <2>3, <3>1
    <2>5. QED BY <1>1, <1>2, <1>3, <2>2, <2>4 DEF PartsOf
  <1>4. CASE k # n - 1
    <2>1. k + 1 \in 0 .. n - 1
      BY <1>4
    <2>2. PartsOf(n, q, k + 1)
      BY <1>2, <2>1, PartsAre
    <2>3. i = q * n + (k + 1)
      <3>1. PICK z \in Int : z = q * n
        BY <1>2
      <3>2. QED BY <1>1, <1>2, <3>1
    <2>4. QED BY <1>1, <1>2, <1>4, <2>2, <2>3 DEF PartsOf
  <1>5. QED BY <1>3, <1>4

LEMMA TurnIn ==
  ASSUME NEW n \in Nat \ {0}, PowersTo(n), NEW x \in 0 .. 2^n - 1, NEW k \in 0 .. n
  PROVE  Turn(x, n, k) \in 0 .. 2^n - 1
  <1>1. CASE k = n
    BY <1>1, TurnEnds
  <1>2. CASE k \in 0 .. n - 1
    BY <1>2, TurnStep
  <1>3. QED BY <1>1, <1>2

LEMMA TurnedStep ==
  ASSUME NEW n \in Nat \ {0}, PowersTo(n), NEW x \in 0 .. 2^n - 1, NEW i \in Nat \ {0}
  PROVE  /\ Turned(x, n, 0) = x
         /\ Turned(x, n, i) = TurnLeft(2^(n - 1), Turned(x, n, i - 1))
         /\ Turned(x, n, i) \in 0 .. 2^n - 1 /\ Turned(x, n, i - 1) \in 0 .. 2^n - 1
  <1>1. PICK k \in 0 .. n - 1 : (i - 1) % n = k /\ i % n = IF k = n - 1 THEN 0 ELSE k + 1
    BY CountTurns
  <1>2. 0 % n = 0 /\ 0 \in 0 .. n - 1
    OBVIOUS
  <1>3. Turned(x, n, 0) = x
    BY <1>2, TurnedIs, TurnEnds
  <1>4. Turned(x, n, i - 1) = Turn(x, n, k)
    BY <1>1, TurnedIs
  <1>5. Turned(x, n, i) = Turn(x, n, k + 1)
    <2>1. CASE k = n - 1
      <3>1. i % n = 0 /\ k + 1 = n
        BY <1>1, <2>1
      <3>2. Turned(x, n, i) = Turn(x, n, 0)
        BY <1>2, <3>1, TurnedIs
      <3>3. Turn(x, n, 0) = Turn(x, n, n)
        BY TurnEnds
      <3>4. QED BY <3>1, <3>2, <3>3
    <2>2. CASE k # n - 1
      <3>1. i % n = k + 1 /\ k + 1 \in 0 .. n - 1
        BY <1>1, <2>2
      <3>2. QED BY <3>1, TurnedIs
    <2>3. QED BY <2>1, <2>2
  <1>6. Turn(x, n, k + 1) = TurnLeft(2^(n - 1), Turn(x, n, k))
    BY TurnStep
  <1>7. k \in 0 .. n /\ k + 1 \in 0 .. n
    OBVIOUS
  <1>8. Turn(x, n, k) \in 0 .. 2^n - 1 /\ Turn(x, n, k + 1) \in 0 .. 2^n - 1
    BY <1>7, TurnIn
  <1>9. QED BY <1>3, <1>4, <1>5, <1>6, <1>8

LEMMA BackIs ==
  ASSUME NEW n \in Nat \ {0}, PowersTo(n), NEW x \in 0 .. 2^n - 1, NEW k \in 0 .. n - 1, NEW i, i % n = k
  PROVE  Back(x, n, i) = Turn(x, n, n - k)
  <1>1. Back(x, n, i) = Turned(x, n, n - k)
    BY DEF Back
  <1>2. CASE k = 0
    <2>1. n - k = n /\ n % n = 0 /\ 0 \in 0 .. n - 1
      <3>1. n = 1 * n + 0 /\ 1 \in Int /\ 0 \in 0 .. n - 1
        OBVIOUS
      <3>2. n % n = 0
        BY <3>1, Parts
      <3>3. QED BY <1>2, <3>1, <3>2
    <2>2. Turned(x, n, n) = Turn(x, n, 0)
      BY <2>1, TurnedIs
    <2>3. Turn(x, n, 0) = Turn(x, n, n)
      BY TurnEnds
    <2>4. QED BY <1>1, <2>1, <2>2, <2>3
  <1>3. CASE k # 0
    <2>1. n - k \in 0 .. n - 1
      BY <1>3
    <2>2. (n - k) % n = n - k
      BY <2>1
    <2>3. Turned(x, n, n - k) = Turn(x, n, n - k)
      BY <2>1, <2>2, TurnedIs
    <2>4. QED BY <1>1, <2>3
  <1>4. QED BY <1>2, <1>3

LEMMA TurnBack ==
  ASSUME NEW n \in Nat \ {0}, PowersTo(n), NEW x \in 0 .. 2^n - 1, NEW k \in 0 .. n - 1
  PROVE  TurnRight(2^(n - 1), Turn(x, n, k + 1)) = Turn(x, n, k)
  <1>1. n - 1 \in 0 .. n /\ n - 1 \in 0 .. n - 1 /\ (n - 1) + 1 = n
    OBVIOUS
  <1>2. PICK S \in Nat \ {0} : S = 2^(n - 1)
    BY <1>1, PowersAre
  <1>3. 2^n = 2 * S
    <2>1. 2^((n - 1) + 1) = 2 * 2^(n - 1)
      BY <1>1 DEF PowersTo
    <2>2. QED BY <1>1, <1>2, <2>1
  <1>4. PICK y : y = Turn(x, n, k) /\ y \in 0 .. 2 * S - 1 /\ TurnLeft(S, y) = Turn(x, n, k + 1)
    BY <1>2, <1>3, TurnStep
  <1>5. TurnRight(S, TurnLeft(S, y)) = y
    BY <1>4, TurnedBack
  <1>6. QED BY <1>2, <1>4, <1>5

LEMMA BackStep ==
  ASSUME NEW n \in Nat \ {0}, PowersTo(n), NEW x \in 0 .. 2^n - 1, NEW i \in Nat \ {0}
  PROVE  /\ Back(x, n, 0) = x
         /\ Back(x, n, i) = TurnRight(2^(n - 1), Back(x, n, i - 1))
         /\ Back(x, n, i) \in 0 .. 2^n - 1 /\ Back(x, n, i - 1) \in 0 .. 2^n - 1
  <1>1. PICK k \in 0 .. n - 1 : (i - 1) % n = k /\ i % n = IF k = n - 1 THEN 0 ELSE k + 1
    BY CountTurns
  <1>2. 0 % n = 0 /\ 0 \in 0 .. n - 1 /\ n - 0 = n
    OBVIOUS
  <1>3. Back(x, n, 0) = x
    BY <1>2, BackIs, TurnEnds
  <1>4. PICK j \in 0 .. n - 1 : j = n - (k + 1) /\ n - k = j + 1
    <2>1. n - (k + 1) \in 0 .. n - 1 /\ n - k = (n - (k + 1)) + 1
      OBVIOUS
    <2>2. QED BY <2>1
  <1>5. Back(x, n, i - 1) = Turn(x, n, j + 1)
    BY <1>1, <1>4, BackIs
  <1>6. Back(x, n, i) = Turn(x, n, j)
    <2>1. CASE k = n - 1
      <3>1. i % n = 0 /\ j = 0
        BY <1>1, <1>4, <2>1
      <3>2. Back(x, n, i) = Turn(x, n, n)
        BY <1>2, <3>1, BackIs
      <3>3. QED BY <3>1, <3>2, TurnEnds
    <2>2. CASE k # n - 1
      <3>1. i % n = k + 1 /\ k + 1 \in 0 .. n - 1
        BY <1>1, <2>2
      <3>2. Back(x, n, i) = Turn(x, n, n - (k + 1))
        BY <3>1, BackIs
      <3>3. QED BY <1>4, <3>2
    <2>3. QED BY <2>1, <2>2
  <1>7. TurnRight(2^(n - 1), Turn(x, n, j + 1)) = Turn(x, n, j)
    BY TurnBack
  <1>8. j \in 0 .. n /\ j + 1 \in 0 .. n
    OBVIOUS
  <1>9. Turn(x, n, j) \in 0 .. 2^n - 1 /\ Turn(x, n, j + 1) \in 0 .. 2^n - 1
    BY <1>8, TurnIn
  <1>10. QED BY <1>3, <1>5, <1>6, <1>7, <1>9

LEMMA Halved ==
  ASSUME NEW y \in Int
  PROVE  \E h \in Int, l \in {0, 1} : y = 2 * h + l /\ h = y \div 2 /\ l = y % 2
  <1>1. PICK h \in Int, l \in 0 .. 2 - 1 : y = h * 2 + l /\ h = y \div 2 /\ l = y % 2
    <2>1. 2 \in Nat \ {0}
      OBVIOUS
    <2>2. QED BY <2>1, Division
  <1>2. l \in {0, 1} /\ h * 2 = 2 * h
    BY <1>1
  <1>3. QED BY <1>1, <1>2

(* One bit, in numbers: S is the size of the half below the top bit.       *)
LEMMA TurnedLow ==
  ASSUME NEW S \in Nat \ {0}, NEW y \in 0 .. 2 * S - 1
  PROVE  TurnLeft(S, y) % 2 = y \div S /\ y \div S \in {0, 1}
  <1>1. PICK t \in {0, 1}, u \in 0 .. S - 1 :
          y = t * S + u /\ y \div S = t /\ (2 * y) % (2 * S) = 2 * u
    BY Doubled
  <1>2. (2 * u + t) % 2 = t
    OBVIOUS
  <1>3. QED BY <1>1, <1>2 DEF TurnLeft

LEMMA TurnedHigh ==
  ASSUME NEW S \in Nat \ {0}, NEW y \in 0 .. 2 * S - 1
  PROVE  TurnRight(S, y) \div S = y % 2 /\ y % 2 \in {0, 1}
  <1>1. PICK t \in {0, 1}, u \in 0 .. S - 1 : t = y % 2 /\ u = y \div 2
    <2>1. y % 2 \in {0, 1} /\ y \div 2 \in 0 .. S - 1
      OBVIOUS
    <2>2. QED BY <2>1
  <1>2. PartsOf(S, t, u)
    <2>1. t \in Int
      OBVIOUS
    <2>2. QED BY <2>1, PartsAre
  <1>3. TurnRight(S, y) = u + t * S
    BY <1>1 DEF TurnRight
  <1>4. u + t * S = t * S + u
    <2>1. CASE t = 0
      BY <2>1
    <2>2. CASE t = 1
      BY <2>2
    <2>3. QED BY <2>1, <2>2
  <1>5. QED BY <1>1, <1>2, <1>3, <1>4 DEF PartsOf

LEMMA PairAndBit ==
  ASSUME NEW q \in Int, NEW M \in Int, NEW t \in {0, 1}
  PROVE  (2 * q + t) * M = 2 * (q * M) + t * M
  <1>1. CASE t = 0
    BY <1>1
  <1>2. CASE t = 1
    BY <1>2
  <1>3. QED BY <1>1, <1>2

(* A shift to the left: d is what is left of y.                            *)
LEMMA LeftShifted ==
  ASSUME NEW S \in Nat \ {0}, NEW y \in Int, NEW d, d = y % (2 * S)
  PROVE  /\ d \in 0 .. 2 * S - 1
         /\ (2 * d) % (2 * S) = (2 * y) % (2 * S)
         /\ d \div S = ((2 * y) \div (2 * S)) % 2 /\ d \div S \in {0, 1}
  <1>1. PICK M \in Nat \ {0} : M = 2 * S
    OBVIOUS
  <1>2. PICK q \in Int, e \in 0 .. M - 1 : y = q * M + e /\ e = y % M
    BY <1>1, Division
  <1>3. d = e /\ d \in 0 .. 2 * S - 1
    BY <1>1, <1>2
  <1>4. PICK t \in {0, 1}, u \in 0 .. S - 1 :
          d = t * S + u /\ d \div S = t /\ (2 * d) % (2 * S) = 2 * u
    BY <1>3, Doubled
  <1>5. 2 * d = t * M + 2 * u
    <2>1. CASE t = 0
      BY <1>1, <1>4, <2>1
    <2>2. CASE t = 1
      BY <1>1, <1>4, <2>2
    <2>3. QED BY <1>4, <2>1, <2>2
  <1>6. PICK p \in Int, v \in 0 .. M - 1 : p = 2 * q + t /\ v = 2 * u
    <2>1. 2 * q + t \in Int /\ 2 * u \in 0 .. M - 1
      <3>1. t \in Int /\ u \in 0 .. S - 1
        BY <1>4
      <3>2. QED BY <1>1, <1>2, <3>1
    <2>2. QED BY <2>1
  <1>7. 2 * y = p * M + v
    <2>1. t \in {0, 1} /\ M \in Int
      BY <1>4
    <2>2. (2 * q + t) * M = 2 * (q * M) + t * M
      BY <1>2, <2>1, PairAndBit
    <2>3. PICK z \in Int, s \in Int : z = q * M /\ s = t * M
      <3>1. q * M \in Int /\ t * M \in Int
        BY <1>2, <2>1
      <3>2. QED BY <3>1
    <2>4. p * M = 2 * z + s
      BY <1>6, <2>2, <2>3, Zenon
    <2>5. y = z + d /\ 2 * d = s + 2 * u /\ z \in Int /\ d \in Int
      BY <1>1, <1>2, <1>3, <1>5, <2>3
    <2>6. 2 * y = (2 * z + s) + 2 * u
      BY <1>4, <2>3, <2>5
    <2>7. QED BY <1>6, <2>4, <2>6
  <1>8. PartsOf(M, p, v)
    BY PartsAre
  <1>9. p % 2 = t
    <2>1. t \in {0, 1}
      BY <1>4
    <2>2. QED BY <1>2, <1>6, <2>1
  <1>10. QED BY <1>1, <1>3, <1>4, <1>6, <1>7, <1>8, <1>9 DEF PartsOf

(* A shift to the right, of a signed number: d is the number's word.       *)
SignShifts(S, y) ==
  LET d == y % (2 * S)
  IN /\ d \in 0 .. 2 * S - 1 /\ d \div S \in {0, 1} /\ d % 2 = y % 2 /\ y % 2 \in {0, 1}
     /\ y \div 2 \in -S .. S - 1
     /\ d \div 2 + (d \div S) * S = (y \div 2) % (2 * S)
LEMMA SignedShifted ==
  ASSUME NEW S \in Nat \ {0}, NEW y \in -S .. S - 1
  PROVE  SignShifts(S, y)
  <1>0. PICK d : d = y % (2 * S)
    OBVIOUS
  <1> SUFFICES /\ d \in 0 .. 2 * S - 1 /\ d \div S \in {0, 1} /\ d % 2 = y % 2 /\ y % 2 \in {0, 1}
               /\ y \div 2 \in -S .. S - 1
               /\ d \div 2 + (d \div S) * S = (y \div 2) % (2 * S)
    BY <1>0 DEF SignShifts
  <1>1. PICK h \in Int, l \in {0, 1} : y = 2 * h + l /\ h = y \div 2 /\ l = y % 2
    <2>1. y \in Int
      OBVIOUS
    <2>2. QED BY <2>1, Halved
  <1>2. h \in -S .. S - 1
    BY <1>1
  <1>3. PICK M \in Nat \ {0} : M = 2 * S
    OBVIOUS
  <1>4. CASE y >= 0
    <2>1. PartsOf(M, 0, y) /\ PartsOf(M, 0, h)
      <3>1. y \in 0 .. M - 1 /\ h \in 0 .. M - 1 /\ 0 \in Int
        BY <1>1, <1>3, <1>4
      <3>2. QED BY <3>1, PartsAre
    <2>2. 0 * M + y = y /\ 0 * M + h = h
      BY <1>3
    <2>3. d = y /\ h % (2 * S) = h
      BY <1>0, <1>3, <2>1, <2>2 DEF PartsOf
    <2>4. d \in 0 .. S - 1
      BY <1>4, <2>3
    <2>5. d \div S = 0
      <3>1. PartsOf(S, 0, d)
        <4>1. 0 \in Int
          OBVIOUS
        <4>2. QED BY <2>4, <4>1, PartsAre
      <3>2. 0 * S + d = d
        BY <2>4
      <3>3. QED BY <3>1, <3>2 DEF PartsOf
    <2>6. 0 * S = 0 /\ h + 0 = h
      OBVIOUS
    <2>7. d \in 0 .. 2 * S - 1
      BY <2>4
    <2>8. QED BY <1>1, <1>2, <2>3, <2>5, <2>6, <2>7
  <1>5. CASE y < 0
    <2>1. PICK e \in 0 .. M - 1, f \in 0 .. M - 1 : e = y + M /\ f = h + M
      <3>1. y + M \in 0 .. M - 1 /\ h + M \in 0 .. M - 1
        BY <1>1, <1>3, <1>5
      <3>2. QED BY <3>1
    <2>2. PartsOf(M, -1, e) /\ PartsOf(M, -1, f)
      <3>1. -1 \in Int
        OBVIOUS
      <3>2. QED BY <3>1, PartsAre
    <2>3. (-1) * M + e = y /\ (-1) * M + f = h
      BY <2>1
    <2>4. d = e /\ h % (2 * S) = f
      BY <1>0, <1>3, <2>2, <2>3 DEF PartsOf
    <2>5. PICK u \in 0 .. S - 1 : u = d - S
      <3>1. d - S \in 0 .. S - 1
        BY <1>3, <1>5, <2>1, <2>4
      <3>2. QED BY <3>1
    <2>6. d \div S = 1
      <3>1. PartsOf(S, 1, u)
        <4>1. 1 \in Int
          OBVIOUS
        <4>2. QED BY <4>1, PartsAre
      <3>2. 1 * S + u = d
        BY <2>1, <2>4, <2>5
      <3>3. QED BY <3>1, <3>2 DEF PartsOf
    <2>7. d = 2 * (h + S) + l /\ h + S \in Int
      BY <1>1, <1>3, <2>1, <2>4
    <2>8. d \div 2 = h + S /\ d % 2 = l
      <3>1. 2 \in Nat \ {0} /\ l \in 0 .. 2 - 1
        BY <1>1
      <3>2. PartsOf(2, h + S, l)
        BY <2>7, <3>1, PartsAre
      <3>3. d = (h + S) * 2 + l
        BY <2>7
      <3>4. QED BY <3>2, <3>3 DEF PartsOf
    <2>9. (h + S) + 1 * S = f
      BY <1>3, <2>1
    <2>10. d \in 0 .. 2 * S - 1
      BY <1>3, <2>1, <2>4
    <2>11. QED BY <1>1, <1>2, <2>4, <2>6, <2>8, <2>9, <2>10
  <1>6. QED BY <1>4, <1>5

(* Divided by a power and then by two is divided by the next power.        *)
LEMMA DividedOnce ==
  ASSUME NEW P \in Nat \ {0}, NEW x \in Int
  PROVE  x \div (2 * P) = (x \div P) \div 2
  <1>1. PICK q \in Int, d \in 0 .. P - 1 : x = q * P + d /\ q = x \div P
    BY Division
  <1>2. PICK h \in Int, l \in {0, 1} : q = 2 * h + l /\ h = q \div 2
    BY <1>1, Halved
  <1>3. PICK Q \in Nat \ {0} : Q = 2 * P
    OBVIOUS
  <1>4. PICK r \in 0 .. Q - 1 : r = l * P + d
    <2>1. CASE l = 0
      <3>1. 0 * P + d \in 0 .. Q - 1
        BY <1>3
      <3>2. QED BY <2>1, <3>1
    <2>2. CASE l = 1
      <3>1. 1 * P + d \in 0 .. Q - 1
        BY <1>3
      <3>2. QED BY <2>2, <3>1
    <2>3. QED BY <1>2, <2>1, <2>2
  <1>5. x = h * Q + r
    <2>1. h \in Int /\ l \in {0, 1} /\ P \in Int
      BY <1>2
    <2>2. (2 * h + l) * P = 2 * (h * P) + l * P
      BY <2>1, PairAndBit
    <2>3. h * (2 * P) = 2 * (h * P)
      BY <2>1
    <2>4. PICK z \in Int, s \in Int : z = h * P /\ s = l * P
      <3>1. h * P \in Int /\ l * P \in Int
        BY <2>1
      <3>2. QED BY <3>1
    <2>5. q * P = 2 * z + s /\ h * Q = 2 * z
      BY <1>2, <1>3, <2>2, <2>3, <2>4, Zenon
    <2>6. r = s + d /\ d \in Int
      BY <1>1, <1>4, <2>4
    <2>7. QED BY <1>1, <2>4, <2>5, <2>6
  <1>6. PartsOf(Q, h, r)
    BY <1>2, <1>3, <1>4, PartsAre
  <1>7. QED BY <1>1, <1>2, <1>3, <1>5, <1>6 DEF PartsOf

(* Through the carry: z is the carry c above the word v.                   *)
LEMMA ThroughLeft ==
  ASSUME NEW S \in Nat \ {0}, NEW z \in 0 .. 2 * (2 * S) - 1
  PROVE  \E v \in 0 .. 2 * S - 1, c \in {0, 1} :
           /\ v = z % (2 * S) /\ c = z \div (2 * S)
           /\ TurnLeft(2 * S, z) % (2 * S) = ((2 * v) % (2 * S)) + c
           /\ TurnLeft(2 * S, z) \div (2 * S) = v \div S
  <1>1. PICK M \in Nat \ {0} : M = 2 * S
    OBVIOUS
  <1>2. PICK c \in {0, 1}, v \in 0 .. M - 1 : z = c * M + v /\ z \div M = c /\ z % M = v
    <2>1. z \in 0 .. 2 * M - 1
      BY <1>1
    <2>2. QED BY <2>1, TopOf
  <1>3. TurnLeft(M, z) = 2 * v + c
    <2>1. LeftOf(M, c, v)
      BY LeftOfIs
    <2>2. QED BY <1>2, <2>1 DEF LeftOf
  <1>4. PICK t \in {0, 1}, u \in 0 .. S - 1 :
          v = t * S + u /\ v \div S = t /\ (2 * v) % (2 * S) = 2 * u
    <2>1. v \in 0 .. 2 * S - 1
      BY <1>1
    <2>2. QED BY <2>1, Doubled
  <1>5. PICK r \in 0 .. M - 1 : r = 2 * u + c
    <2>1. 2 * u + c \in 0 .. M - 1
      BY <1>1
    <2>2. QED BY <2>1
  <1>6. 2 * v + c = t * M + r
    <2>1. CASE t = 0
      <3>1. v = u /\ t * M = 0
        BY <1>1, <1>4, <2>1
      <3>2. QED BY <1>5, <3>1
    <2>2. CASE t = 1
      <3>1. v = S + u /\ t * M = M
        BY <1>1, <1>4, <2>2
      <3>2. QED BY <1>1, <1>5, <3>1
    <2>3. QED BY <1>4, <2>1, <2>2
  <1>7. PartsOf(M, t, r)
    <2>1. t \in Int
      BY <1>4
    <2>2. QED BY <2>1, PartsAre
  <1>8. TurnLeft(M, z) % M = 2 * u + c /\ TurnLeft(M, z) \div M = t
    BY <1>3, <1>5, <1>6, <1>7 DEF PartsOf
  <1>9. QED BY <1>1, <1>2, <1>4, <1>8

LEMMA ThroughRight ==
  ASSUME NEW S \in Nat \ {0}, NEW z \in 0 .. 2 * (2 * S) - 1
  PROVE  \E v \in 0 .. 2 * S - 1, c \in {0, 1} :
           /\ v = z % (2 * S) /\ c = z \div (2 * S)
           /\ TurnRight(2 * S, z) % (2 * S) = v \div 2 + c * S
           /\ TurnRight(2 * S, z) \div (2 * S) = v % 2
  <1>1. PICK M \in Nat \ {0} : M = 2 * S
    OBVIOUS
  <1>2. PICK c \in {0, 1}, v \in 0 .. M - 1 : z = c * M + v /\ z \div M = c /\ z % M = v
    <2>1. z \in 0 .. 2 * M - 1
      BY <1>1
    <2>2. QED BY <2>1, TopOf
  <1>3. PICK h \in 0 .. S - 1, l \in {0, 1} : v = 2 * h + l /\ h = v \div 2 /\ l = v % 2
    <2>1. v \in Int /\ v \in 0 .. 2 * S - 1
      BY <1>1
    <2>2. PICK h \in Int, l \in {0, 1} : v = 2 * h + l /\ h = v \div 2 /\ l = v % 2
      BY <2>1, Halved
    <2>3. h \in 0 .. S - 1
      BY <2>1, <2>2
    <2>4. QED BY <2>2, <2>3
  <1>4. PICK r \in 0 .. M - 1 : r = h + c * S /\ z = 2 * r + l
    <2>1. CASE c = 0
      <3>1. h + 0 * S \in 0 .. M - 1 /\ 0 * M = 0 /\ h + 0 * S = h
        BY <1>1
      <3>2. z = 2 * (h + 0 * S) + l
        BY <1>2, <1>3, <2>1, <3>1
      <3>3. QED BY <2>1, <3>1, <3>2
    <2>2. CASE c = 1
      <3>1. h + 1 * S \in 0 .. M - 1 /\ 1 * M = M /\ h + 1 * S = h + S
        BY <1>1
      <3>2. z = 2 * (h + 1 * S) + l
        BY <1>1, <1>2, <1>3, <2>2, <3>1
      <3>3. QED BY <2>2, <3>1, <3>2
    <2>3. QED BY <1>2, <2>1, <2>2
  <1>5. z \div 2 = r /\ z % 2 = l
    BY <1>3, <1>4
  <1>6. PartsOf(M, l, r)
    <2>1. l \in Int
      BY <1>3
    <2>2. QED BY <2>1, PartsAre
  <1>7. r + l * M = l * M + r
    <2>1. CASE l = 0
      BY <2>1
    <2>2. CASE l = 1
      BY <2>2
    <2>3. QED BY <1>3, <2>1, <2>2
  <1>8. TurnRight(M, z) % M = r /\ TurnRight(M, z) \div M = l
    BY <1>5, <1>6, <1>7 DEF PartsOf, TurnRight
  <1>9. QED BY <1>1, <1>2, <1>3, <1>4, <1>8

(* A shift of n bits at once, and of none; one bit more.                   *)
FirstAt(sop, w, v, n, cf) == IF n = 0 THEN [v |-> v, cf |-> cf] ELSE AtOnce(sop, w, v, n, cf)
AResult(w, e) == e.v \in InWidth(w) /\ e.cf \in {0, 1}
OneMore(sop, w, v, n, cf) ==
  /\ AtOnce(sop, w, v, n, cf)
       = OneBit(sop, w, FirstAt(sop, w, v, n - 1, cf).v, FirstAt(sop, w, v, n - 1, cf).cf)
  /\ AResult(w, AtOnce(sop, w, v, n, cf))

LEMMA WidthPowers ==
  ASSUME NEW w \in BOOLEAN
  PROVE  PowersTo(Width(w)) /\ PowersTo(Width(w) + 1)
  <1>1. PICK b \in Nat : b = Width(w) /\ b <= 2 * BITS
    BY WidthIs
  <1>2. 2 * BITS \in Nat
    BY WordsAssumption
  <1>3. b + 1 \in Nat /\ 0 .. b - 1 \subseteq 0 .. (2 * BITS + 1) - 1
        /\ 0 .. (b + 1) - 1 \subseteq 0 .. (2 * BITS + 1) - 1
    BY <1>1, <1>2
  <1>4. \A i \in 0 .. (2 * BITS + 1) - 1 : 2^(i + 1) = 2 * 2^i
    BY OneBitMore DEF PowersTo
  <1>5. PowersTo(b) /\ PowersTo(b + 1)
    BY <1>1, <1>3, <1>4 DEF PowersTo
  <1>6. QED BY <1>1, <1>5

LEMMA OneBitIs ==
  ASSUME NEW w \in BOOLEAN, NEW v, NEW cf, NEW S, S = 2^(Width(w) - 1), 2^Width(w) = 2 * S
  PROVE  /\ OneBit("ROL", w, v, cf) = [v |-> TurnLeft(S, v), cf |-> v \div S]
         /\ OneBit("ROR", w, v, cf) = [v |-> TurnRight(S, v), cf |-> v % 2]
         /\ OneBit("RCL", w, v, cf) = [v |-> ((2 * v) % (2 * S)) + cf, cf |-> v \div S]
         /\ OneBit("RCR", w, v, cf) = [v |-> v \div 2 + cf * S, cf |-> v % 2]
         /\ OneBit("SHL", w, v, cf) = [v |-> ((2 * v) % (2 * S)) + 0, cf |-> v \div S]
         /\ OneBit("SHR", w, v, cf) = [v |-> v \div 2 + 0 * S, cf |-> v % 2]
         /\ OneBit("SAR", w, v, cf) = [v |-> v \div 2 + (v \div S) * S, cf |-> v % 2]
  <1>1. PICK x : x = (2 * v) % 2^Width(w) /\ x = (2 * v) % (2 * S)
    OBVIOUS
  <1>2. PICK h, t, l : h = v \div 2 /\ t = v \div 2^(Width(w) - 1) /\ t = v \div S /\ l = v % 2
    OBVIOUS
  <1>3. /\ TurnLeft(S, v) = x + t /\ TurnRight(S, v) = h + l * S
    BY <1>1, <1>2 DEF TurnLeft, TurnRight
  <1>4. /\ OneBit("ROL", w, v, cf) = [v |-> x + t, cf |-> t]
        /\ OneBit("ROR", w, v, cf) = [v |-> h + l * 2^(Width(w) - 1), cf |-> l]
        /\ OneBit("RCL", w, v, cf) = [v |-> x + cf, cf |-> t]
        /\ OneBit("RCR", w, v, cf) = [v |-> h + cf * 2^(Width(w) - 1), cf |-> l]
        /\ OneBit("SHL", w, v, cf) = [v |-> x + 0, cf |-> t]
        /\ OneBit("SHR", w, v, cf) = [v |-> h + 0 * 2^(Width(w) - 1), cf |-> l]
        /\ OneBit("SAR", w, v, cf) = [v |-> h + t * 2^(Width(w) - 1), cf |-> l]
    BY <1>1, <1>2 DEF OneBit, Masked
  <1>5. QED BY <1>1, <1>2, <1>3, <1>4, Zenon

Through(y, b) == [v |-> y % 2^b, cf |-> y \div 2^b]
LEMMA AtOnceIs ==
  ASSUME NEW w, NEW v, NEW n, NEW cf, NEW b, b = Width(w)
  PROVE  /\ AtOnce("ROL", w, v, n, cf) = [v |-> Turned(v, b, n), cf |-> Turned(v, b, n) % 2]
         /\ AtOnce("ROR", w, v, n, cf) = [v |-> Back(v, b, n), cf |-> Back(v, b, n) \div 2^(b - 1)]
         /\ AtOnce("RCL", w, v, n, cf) = Through(Turned(cf * 2^b + v, b + 1, n), b)
         /\ AtOnce("RCR", w, v, n, cf) = Through(Back(cf * 2^b + v, b + 1, n), b)
         /\ AtOnce("SHL", w, v, n, cf) = [v |-> (v * 2^n) % 2^b, cf |-> ((v * 2^n) \div 2^b) % 2]
         /\ AtOnce("SHR", w, v, n, cf) = [v |-> v \div 2^n, cf |-> (v \div 2^(n - 1)) % 2]
         /\ AtOnce("SAR", w, v, n, cf) = [v |-> (Signed(v, b) \div 2^n) % 2^b,
                                          cf |-> (Signed(v, b) \div 2^(n - 1)) % 2]
  BY DEF AtOnce, Through, Masked

LEMMA ResultIs ==
  ASSUME NEW w, NEW x \in InWidth(w), NEW y \in {0, 1}, NEW e, e = [v |-> x, cf |-> y]
  PROVE  AResult(w, e)
  BY DEF AResult

LEMMA RolSteps ==
  ASSUME NEW w \in BOOLEAN, NEW v \in InWidth(w), NEW cf \in {0, 1}, NEW i \in Nat \ {0}
  PROVE  OneMore("ROL", w, v, i, cf)
  <1>1. PICK S \in Nat \ {0} : S = 2^(Width(w) - 1) /\ 2^Width(w) = 2 * S /\ InWidth(w) = 0 .. 2 * S - 1
    BY WidthIs
  <1>2. PICK b \in Nat \ {0} : b = Width(w) /\ PowersTo(b)
    <2>1. Width(w) \in Nat /\ Width(w) - 1 \in Nat
      BY WidthIs
    <2>2. QED BY <2>1, WidthPowers
  <1>3. v \in 0 .. 2^b - 1
    BY <1>1, <1>2
  <1>4. PICK y, z : y = Turned(v, b, i - 1) /\ z = Turned(v, b, i)
    OBVIOUS
  <1>5. Turned(v, b, 0) = v /\ z = TurnLeft(S, y) /\ z \in 0 .. 2 * S - 1 /\ y \in 0 .. 2 * S - 1
    <2>1. /\ Turned(v, b, 0) = v
          /\ Turned(v, b, i) = TurnLeft(2^(b - 1), Turned(v, b, i - 1))
          /\ Turned(v, b, i) \in 0 .. 2^b - 1 /\ Turned(v, b, i - 1) \in 0 .. 2^b - 1
      BY <1>2, <1>3, TurnedStep
    <2>2. QED BY <1>1, <1>2, <1>4, <2>1
  <1>6. z % 2 = y \div S /\ y \div S \in {0, 1}
    BY <1>5, TurnedLow
  <1>7. FirstAt("ROL", w, v, i - 1, cf).v = y
    <2>1. CASE i - 1 = 0
      BY <1>4, <1>5, <2>1 DEF FirstAt
    <2>2. CASE i - 1 # 0
      <3>1. AtOnce("ROL", w, v, i - 1, cf) = [v |-> y, cf |-> y % 2]
        BY <1>2, <1>4, AtOnceIs
      <3>2. QED BY <2>2, <3>1 DEF FirstAt
    <2>3. QED BY <2>1, <2>2
  <1>8. AtOnce("ROL", w, v, i, cf) = [v |-> z, cf |-> y \div S]
    BY <1>2, <1>4, <1>6, AtOnceIs
  <1>9. \A c : OneBit("ROL", w, y, c) = [v |-> z, cf |-> y \div S]
    BY <1>1, <1>5, OneBitIs
  <1>10. AResult(w, AtOnce("ROL", w, v, i, cf))
    BY <1>1, <1>5, <1>6, <1>8, ResultIs
  <1>11. QED BY <1>7, <1>8, <1>9, <1>10, Zenon DEF OneMore

LEMMA RorSteps ==
  ASSUME NEW w \in BOOLEAN, NEW v \in InWidth(w), NEW cf \in {0, 1}, NEW i \in Nat \ {0}
  PROVE  OneMore("ROR", w, v, i, cf)
  <1>1. PICK S \in Nat \ {0} : S = 2^(Width(w) - 1) /\ 2^Width(w) = 2 * S /\ InWidth(w) = 0 .. 2 * S - 1
    BY WidthIs
  <1>2. PICK b \in Nat \ {0} : b = Width(w) /\ PowersTo(b)
    <2>1. Width(w) \in Nat /\ Width(w) - 1 \in Nat
      BY WidthIs
    <2>2. QED BY <2>1, WidthPowers
  <1>3. v \in 0 .. 2^b - 1
    BY <1>1, <1>2
  <1>4. PICK y, z : y = Back(v, b, i - 1) /\ z = Back(v, b, i)
    OBVIOUS
  <1>5. Back(v, b, 0) = v /\ z = TurnRight(S, y) /\ z \in 0 .. 2 * S - 1 /\ y \in 0 .. 2 * S - 1
    <2>1. /\ Back(v, b, 0) = v
          /\ Back(v, b, i) = TurnRight(2^(b - 1), Back(v, b, i - 1))
          /\ Back(v, b, i) \in 0 .. 2^b - 1 /\ Back(v, b, i - 1) \in 0 .. 2^b - 1
      BY <1>2, <1>3, BackStep
    <2>2. QED BY <1>1, <1>2, <1>4, <2>1
  <1>6. z \div S = y % 2 /\ y % 2 \in {0, 1}
    BY <1>5, TurnedHigh
  <1>7. FirstAt("ROR", w, v, i - 1, cf).v = y
    <2>1. CASE i - 1 = 0
      BY <1>4, <1>5, <2>1 DEF FirstAt
    <2>2. CASE i - 1 # 0
      <3>1. AtOnce("ROR", w, v, i - 1, cf) = [v |-> y, cf |-> y \div 2^(b - 1)]
        BY <1>2, <1>4, AtOnceIs
      <3>2. QED BY <2>2, <3>1 DEF FirstAt
    <2>3. QED BY <2>1, <2>2
  <1>8. AtOnce("ROR", w, v, i, cf) = [v |-> z, cf |-> y % 2]
    <2>1. AtOnce("ROR", w, v, i, cf) = [v |-> z, cf |-> z \div 2^(b - 1)]
      BY <1>2, <1>4, AtOnceIs
    <2>2. QED BY <1>1, <1>2, <1>6, <2>1
  <1>9. \A c : OneBit("ROR", w, y, c) = [v |-> z, cf |-> y % 2]
    BY <1>1, <1>5, OneBitIs
  <1>10. AResult(w, AtOnce("ROR", w, v, i, cf))
    BY <1>1, <1>5, <1>6, <1>8, ResultIs
  <1>11. QED BY <1>7, <1>8, <1>9, <1>10, Zenon DEF OneMore

(* The carry above the word, and what a rotation through it starts from.   *)
LEMMA CarryAbove ==
  ASSUME NEW w \in BOOLEAN, NEW v \in InWidth(w), NEW cf \in {0, 1}
  PROVE  /\ cf * 2^Width(w) + v \in 0 .. 2^(Width(w) + 1) - 1
         /\ Through(cf * 2^Width(w) + v, Width(w)) = [v |-> v, cf |-> cf]
         /\ 2^(Width(w) + 1) = 2 * 2^Width(w)
  <1>1. PICK b \in Nat : b = Width(w) /\ PowersTo(b + 1)
    BY WidthIs, WidthPowers
  <1>2. 2^(b + 1) = 2 * 2^b
    <2>1. b \in 0 .. (b + 1) - 1
      OBVIOUS
    <2>2. QED BY <1>1, <2>1 DEF PowersTo
  <1>3. PICK M \in Nat \ {0} : M = 2^b /\ v \in 0 .. M - 1
    <2>1. PICK S \in Nat \ {0} : 2^Width(w) = 2 * S /\ InWidth(w) = 0 .. 2 * S - 1
      BY WidthIs
    <2>2. 2 * S \in Nat \ {0}
      OBVIOUS
    <2>3. QED BY <1>1, <2>1, <2>2
  <1>4. LeftOf(M, cf, v) /\ PartsOf(M, cf, v)
    <2>1. cf \in Int
      OBVIOUS
    <2>2. QED BY <1>3, <2>1, LeftOfIs, PartsAre
  <1>5. cf * M + v \in 0 .. 2 * M - 1 /\ (cf * M + v) % M = v /\ (cf * M + v) \div M = cf
    BY <1>4 DEF LeftOf, PartsOf
  <1>6. QED BY <1>1, <1>2, <1>3, <1>5 DEF Through

LEMMA RclSteps ==
  ASSUME NEW w \in BOOLEAN, NEW v \in InWidth(w), NEW cf \in {0, 1}, NEW i \in Nat \ {0}
  PROVE  OneMore("RCL", w, v, i, cf)
  <1>1. PICK S \in Nat \ {0} : S = 2^(Width(w) - 1) /\ 2^Width(w) = 2 * S /\ InWidth(w) = 0 .. 2 * S - 1
    BY WidthIs
  <1>2. PICK b \in Nat \ {0}, n \in Nat \ {0} : b = Width(w) /\ n = b + 1 /\ n - 1 = b /\ PowersTo(n)
    <2>1. Width(w) \in Nat /\ Width(w) - 1 \in Nat /\ PowersTo(Width(w) + 1)
      BY WidthIs, WidthPowers
    <2>2. Width(w) \in Nat \ {0} /\ Width(w) + 1 \in Nat \ {0} /\ (Width(w) + 1) - 1 = Width(w)
      BY <2>1
    <2>3. QED BY <2>1, <2>2
  <1>3. PICK x : /\ x = cf * 2^b + v /\ x \in 0 .. 2^n - 1
                 /\ Through(x, b) = [v |-> v, cf |-> cf] /\ 2^n = 2 * 2^b
    BY <1>2, CarryAbove
  <1>4. PICK y, z : y = Turned(x, n, i - 1) /\ z = Turned(x, n, i)
    OBVIOUS
  <1>5. Turned(x, n, 0) = x /\ z = TurnLeft(2 * S, y) /\ y \in 0 .. 2 * (2 * S) - 1
    <2>1. /\ Turned(x, n, 0) = x
          /\ Turned(x, n, i) = TurnLeft(2^(n - 1), Turned(x, n, i - 1))
          /\ Turned(x, n, i) \in 0 .. 2^n - 1 /\ Turned(x, n, i - 1) \in 0 .. 2^n - 1
      <3>1. x \in 0 .. 2^n - 1
        BY <1>3
      <3>2. PowersTo(n)
        BY <1>2
      <3>3. QED BY <3>1, <3>2, TurnedStep
    <2>2. 2^(n - 1) = 2 * S /\ 2^n = 2 * (2 * S)
      BY <1>1, <1>2, <1>3
    <2>3. QED BY <1>4, <2>1, <2>2
  <1>6. PICK u \in 0 .. 2 * S - 1, c \in {0, 1} :
          /\ u = y % (2 * S) /\ c = y \div (2 * S)
          /\ z % (2 * S) = ((2 * u) % (2 * S)) + c
          /\ z \div (2 * S) = u \div S
    BY <1>5, ThroughLeft
  <1>7. /\ FirstAt("RCL", w, v, i - 1, cf).v = u
        /\ FirstAt("RCL", w, v, i - 1, cf).cf = c
    <2>1. FirstAt("RCL", w, v, i - 1, cf) = Through(y, b)
      <3>1. CASE i - 1 = 0
        BY <1>3, <1>4, <1>5, <3>1 DEF FirstAt
      <3>2. CASE i - 1 # 0
        <4>1. AtOnce("RCL", w, v, i - 1, cf) = Through(y, b)
          BY <1>2, <1>3, <1>4, AtOnceIs
        <4>2. QED BY <3>2, <4>1 DEF FirstAt
      <3>3. QED BY <3>1, <3>2
    <2>2. Through(y, b) = [v |-> u, cf |-> c]
      BY <1>1, <1>2, <1>6 DEF Through
    <2>3. QED BY <2>1, <2>2
  <1>8. PICK p \in InWidth(w), t \in {0, 1} : p = ((2 * u) % (2 * S)) + c /\ t = u \div S
    <2>1. PICK t \in {0, 1}, l \in 0 .. S - 1 :
            u = t * S + l /\ u \div S = t /\ (2 * u) % (2 * S) = 2 * l
      BY Doubled
    <2>2. 2 * l + c \in 0 .. 2 * S - 1
      <3>1. l \in 0 .. S - 1 /\ c \in {0, 1}
        BY <1>6, <2>1
      <3>2. QED BY <3>1
    <2>3. QED BY <1>1, <2>1, <2>2
  <1>9. AtOnce("RCL", w, v, i, cf) = [v |-> p, cf |-> t]
    <2>1. AtOnce("RCL", w, v, i, cf) = Through(z, b)
      BY <1>2, <1>3, <1>4, AtOnceIs
    <2>2. Through(z, b) = [v |-> p, cf |-> t]
      BY <1>1, <1>2, <1>6, <1>8 DEF Through
    <2>3. QED BY <2>1, <2>2
  <1>10. OneBit("RCL", w, u, c) = [v |-> p, cf |-> t]
    BY <1>1, <1>8, OneBitIs
  <1>11. AResult(w, AtOnce("RCL", w, v, i, cf))
    BY <1>8, <1>9, ResultIs
  <1>12. QED BY <1>7, <1>9, <1>10, <1>11, Zenon DEF OneMore

LEMMA RcrSteps ==
  ASSUME NEW w \in BOOLEAN, NEW v \in InWidth(w), NEW cf \in {0, 1}, NEW i \in Nat \ {0}
  PROVE  OneMore("RCR", w, v, i, cf)
  <1>1. PICK S \in Nat \ {0} : S = 2^(Width(w) - 1) /\ 2^Width(w) = 2 * S /\ InWidth(w) = 0 .. 2 * S - 1
    BY WidthIs
  <1>2. PICK b \in Nat \ {0}, n \in Nat \ {0} : b = Width(w) /\ n = b + 1 /\ n - 1 = b /\ PowersTo(n)
    <2>1. Width(w) \in Nat /\ Width(w) - 1 \in Nat /\ PowersTo(Width(w) + 1)
      BY WidthIs, WidthPowers
    <2>2. Width(w) \in Nat \ {0} /\ Width(w) + 1 \in Nat \ {0} /\ (Width(w) + 1) - 1 = Width(w)
      BY <2>1
    <2>3. QED BY <2>1, <2>2
  <1>3. PICK x : /\ x = cf * 2^b + v /\ x \in 0 .. 2^n - 1
                 /\ Through(x, b) = [v |-> v, cf |-> cf] /\ 2^n = 2 * 2^b
    BY <1>2, CarryAbove
  <1>4. PICK y, z : y = Back(x, n, i - 1) /\ z = Back(x, n, i)
    OBVIOUS
  <1>5. Back(x, n, 0) = x /\ z = TurnRight(2 * S, y) /\ y \in 0 .. 2 * (2 * S) - 1
    <2>1. /\ Back(x, n, 0) = x
          /\ Back(x, n, i) = TurnRight(2^(n - 1), Back(x, n, i - 1))
          /\ Back(x, n, i) \in 0 .. 2^n - 1 /\ Back(x, n, i - 1) \in 0 .. 2^n - 1
      <3>1. x \in 0 .. 2^n - 1
        BY <1>3
      <3>2. PowersTo(n)
        BY <1>2
      <3>3. QED BY <3>1, <3>2, BackStep
    <2>2. 2^(n - 1) = 2 * S /\ 2^n = 2 * (2 * S)
      BY <1>1, <1>2, <1>3
    <2>3. QED BY <1>4, <2>1, <2>2
  <1>6. PICK u \in 0 .. 2 * S - 1, c \in {0, 1} :
          /\ u = y % (2 * S) /\ c = y \div (2 * S)
          /\ z % (2 * S) = u \div 2 + c * S
          /\ z \div (2 * S) = u % 2
    BY <1>5, ThroughRight
  <1>7. /\ FirstAt("RCR", w, v, i - 1, cf).v = u
        /\ FirstAt("RCR", w, v, i - 1, cf).cf = c
    <2>1. FirstAt("RCR", w, v, i - 1, cf) = Through(y, b)
      <3>1. CASE i - 1 = 0
        BY <1>3, <1>4, <1>5, <3>1 DEF FirstAt
      <3>2. CASE i - 1 # 0
        <4>1. AtOnce("RCR", w, v, i - 1, cf) = Through(y, b)
          BY <1>2, <1>3, <1>4, AtOnceIs
        <4>2. QED BY <3>2, <4>1 DEF FirstAt
      <3>3. QED BY <3>1, <3>2
    <2>2. Through(y, b) = [v |-> u, cf |-> c]
      BY <1>1, <1>2, <1>6 DEF Through
    <2>3. QED BY <2>1, <2>2
  <1>8. PICK p \in InWidth(w), t \in {0, 1} : p = u \div 2 + c * S /\ t = u % 2
    <2>1. u \div 2 \in 0 .. S - 1 /\ u % 2 \in {0, 1}
      <3>1. PICK h \in Int, l \in {0, 1} : u = 2 * h + l /\ h = u \div 2 /\ l = u % 2
        <4>1. u \in Int
          OBVIOUS
        <4>2. QED BY <4>1, Halved
      <3>2. h \in 0 .. S - 1
        BY <3>1
      <3>3. QED BY <3>1, <3>2
    <2>2. PICK h \in 0 .. S - 1 : h = u \div 2
      BY <2>1
    <2>3. h + c * S \in 0 .. 2 * S - 1
      <3>1. CASE c = 0
        BY <3>1
      <3>2. CASE c = 1
        BY <3>2
      <3>3. QED BY <1>6, <3>1, <3>2
    <2>4. QED BY <1>1, <2>1, <2>2, <2>3
  <1>9. AtOnce("RCR", w, v, i, cf) = [v |-> p, cf |-> t]
    <2>1. AtOnce("RCR", w, v, i, cf) = Through(z, b)
      BY <1>2, <1>3, <1>4, AtOnceIs
    <2>2. Through(z, b) = [v |-> p, cf |-> t]
      BY <1>1, <1>2, <1>6, <1>8 DEF Through
    <2>3. QED BY <2>1, <2>2
  <1>10. OneBit("RCR", w, u, c) = [v |-> p, cf |-> t]
    <2>1. OneBit("RCR", w, u, c) = [v |-> u \div 2 + c * S, cf |-> u % 2]
      <3>1. S = 2^(Width(w) - 1) /\ 2^Width(w) = 2 * S
        BY <1>1
      <3>2. \A x1, x2 : OneBit("RCR", w, x1, x2) = [v |-> x1 \div 2 + x2 * S, cf |-> x1 % 2]
        BY <3>1, OneBitIs
      <3>3. QED BY <3>2, Zenon
    <2>2. QED BY <1>8, <2>1, Zenon
  <1>11. AResult(w, AtOnce("RCR", w, v, i, cf))
    BY <1>8, <1>9, ResultIs
  <1>12. QED BY <1>7, <1>9, <1>10, <1>11, Zenon DEF OneMore

(* Multiplied and divided by one power more.                               *)
LEMMA PowerBefore ==
  ASSUME NEW i \in Nat \ {0}, PowersTo(i)
  PROVE  \E P \in Nat \ {0} : P = 2^(i - 1) /\ 2^i = 2 * P
  <1>1. i - 1 \in 0 .. i - 1 /\ i - 1 \in 0 .. i /\ (i - 1) + 1 = i
    OBVIOUS
  <1>2. 2^(i - 1) \in Nat \ {0}
    BY <1>1, PowersAre
  <1>3. 2^((i - 1) + 1) = 2 * 2^(i - 1)
    BY <1>1 DEF PowersTo
  <1>4. QED BY <1>1, <1>2, <1>3

LEMMA ShlSteps ==
  ASSUME NEW w \in BOOLEAN, NEW v \in InWidth(w), NEW cf \in {0, 1}, NEW i \in Nat \ {0}, PowersTo(i)
  PROVE  OneMore("SHL", w, v, i, cf)
  <1>1. PICK S \in Nat \ {0} : S = 2^(Width(w) - 1) /\ 2^Width(w) = 2 * S /\ InWidth(w) = 0 .. 2 * S - 1
    BY WidthIs
  <1>2. PICK b : b = Width(w) /\ 2^b = 2 * S
    BY <1>1
  <1>3. v \in 0 .. 2 * S - 1 /\ v \in Int
    BY <1>1
  <1>4. PICK P \in Nat \ {0} : P = 2^(i - 1) /\ 2^i = 2 * P
    BY PowerBefore
  <1>5. PICK y \in Int : y = v * P
    <2>1. v * P \in Int
      BY <1>3
    <2>2. QED BY <2>1
  <1>6. v * 2^i = 2 * y
    <2>1. v * (2 * P) = 2 * (v * P)
      BY <1>3
    <2>2. QED BY <1>4, <1>5, <2>1
  <1>7. PICK d : d = y % (2 * S)
    OBVIOUS
  <1>8. /\ d \in 0 .. 2 * S - 1
        /\ (2 * d) % (2 * S) = (2 * y) % (2 * S)
        /\ d \div S = ((2 * y) \div (2 * S)) % 2 /\ d \div S \in {0, 1}
    BY <1>7, LeftShifted
  <1>9. FirstAt("SHL", w, v, i - 1, cf).v = d
    <2>1. CASE i - 1 = 0
      <3>1. P = 1
        BY <1>4, <2>1, PowersAssumption
      <3>2. y = v
        BY <1>3, <1>5, <3>1
      <3>3. d = v
        BY <1>3, <1>7, <3>2
      <3>4. QED BY <2>1, <3>3 DEF FirstAt
    <2>2. CASE i - 1 # 0
      <3>1. AtOnce("SHL", w, v, i - 1, cf).v = (v * 2^(i - 1)) % 2^b
        BY <1>2, AtOnceIs
      <3>2. QED BY <1>2, <1>4, <1>5, <1>7, <2>2, <3>1 DEF FirstAt
    <2>3. QED BY <2>1, <2>2
  <1>10. PICK p \in InWidth(w), t \in {0, 1} : p = (2 * d) % (2 * S) /\ p = p + 0 /\ t = d \div S
    <2>1. (2 * d) % (2 * S) \in 0 .. 2 * S - 1
      BY <1>8
    <2>2. PICK p \in 0 .. 2 * S - 1 : p = (2 * d) % (2 * S) /\ p = p + 0
      BY <2>1
    <2>3. QED BY <1>1, <1>8, <2>2
  <1>11. AtOnce("SHL", w, v, i, cf) = [v |-> p, cf |-> t]
    <2>1. AtOnce("SHL", w, v, i, cf) = [v |-> (v * 2^i) % 2^b, cf |-> ((v * 2^i) \div 2^b) % 2]
      BY <1>2, AtOnceIs
    <2>2. QED BY <1>2, <1>6, <1>8, <1>10, <2>1
  <1>12. \A c : OneBit("SHL", w, d, c) = [v |-> p, cf |-> t]
    <2>1. \A c : OneBit("SHL", w, d, c) = [v |-> ((2 * d) % (2 * S)) + 0, cf |-> d \div S]
      BY <1>1, OneBitIs
    <2>2. QED BY <1>10, <2>1
  <1>13. AResult(w, AtOnce("SHL", w, v, i, cf))
    BY <1>10, <1>11, ResultIs
  <1>14. QED BY <1>9, <1>11, <1>12, <1>13, Zenon DEF OneMore

LEMMA Quotients ==
  ASSUME NEW P \in Nat \ {0}, NEW S \in Nat \ {0}, NEW x \in 0 .. 2 * S - 1
  PROVE  x \div P \in 0 .. 2 * S - 1
  <1>1. x \in Int
    OBVIOUS
  <1>2. PICK q \in Int, d \in 0 .. P - 1 : x = q * P + d /\ q = x \div P
    BY <1>1, Division
  <1>3. q >= 0
    <2>1. SUFFICES ASSUME q <= -1 PROVE FALSE
      OBVIOUS
    <2>2. q * P <= (-1) * P
      BY <2>1
    <2>3. QED BY <1>2, <2>2
  <1>4. q * P >= q
    BY <1>3
  <1>5. QED BY <1>2, <1>3, <1>4

LEMMA SignedQuotients ==
  ASSUME NEW P \in Nat \ {0}, NEW S \in Nat \ {0}, NEW x \in -S .. S - 1
  PROVE  x \div P \in -S .. S - 1
  <1>1. x \in Int
    OBVIOUS
  <1>2. PICK q \in Int, d \in 0 .. P - 1 : x = q * P + d /\ q = x \div P
    BY <1>1, Division
  <1>3. q >= -S
    <2>1. SUFFICES ASSUME q <= -S - 1 PROVE FALSE
      OBVIOUS
    <2>2. q + 1 <= -S /\ q + 1 \in Int
      BY <2>1
    <2>3. (q + 1) * P <= q + 1
      <3>1. PICK r \in Int : r = q + 1 /\ r <= 0
        BY <2>2
      <3>2. r * P <= r
        BY <3>1
      <3>3. QED BY <3>1, <3>2
    <2>4. (q + 1) * P = q * P + P
      BY OnceMore
    <2>5. PICK z \in Int : z = q * P
      OBVIOUS
    <2>6. QED BY <1>2, <2>2, <2>3, <2>4, <2>5
  <1>4. q <= S - 1
    <2>1. SUFFICES ASSUME q >= S PROVE FALSE
      OBVIOUS
    <2>2. q * P >= q
      BY <2>1
    <2>3. QED BY <1>2, <2>1, <2>2
  <1>5. QED BY <1>2, <1>3, <1>4

LEMMA ShrSteps ==
  ASSUME NEW w \in BOOLEAN, NEW v \in InWidth(w), NEW cf \in {0, 1}, NEW i \in Nat \ {0}, PowersTo(i)
  PROVE  OneMore("SHR", w, v, i, cf)
  <1>1. PICK S \in Nat \ {0} : S = 2^(Width(w) - 1) /\ 2^Width(w) = 2 * S /\ InWidth(w) = 0 .. 2 * S - 1
    BY WidthIs
  <1>2. v \in 0 .. 2 * S - 1 /\ v \in Int
    BY <1>1
  <1>3. PICK P \in Nat \ {0} : P = 2^(i - 1) /\ 2^i = 2 * P
    BY PowerBefore
  <1>4. PICK y : y = v \div P /\ y \in 0 .. 2 * S - 1
    BY <1>2, Quotients
  <1>5. v \div (2 * P) = y \div 2
    BY <1>2, <1>4, DividedOnce
  <1>6. FirstAt("SHR", w, v, i - 1, cf).v = y
    <2>1. CASE i - 1 = 0
      <3>1. P = 1
        BY <1>3, <2>1, PowersAssumption
      <3>2. y = v
        BY <1>2, <1>4, <3>1
      <3>3. QED BY <2>1, <3>2 DEF FirstAt
    <2>2. CASE i - 1 # 0
      <3>1. AtOnce("SHR", w, v, i - 1, cf).v = v \div 2^(i - 1)
        BY AtOnceIs
      <3>2. QED BY <1>3, <1>4, <2>2, <3>1 DEF FirstAt
    <2>3. QED BY <2>1, <2>2
  <1>7. PICK p \in InWidth(w), t \in {0, 1} : p = y \div 2 /\ p = p + 0 * S /\ t = y % 2
    <2>1. PICK h \in Int, l \in {0, 1} : y = 2 * h + l /\ h = y \div 2 /\ l = y % 2
      <3>1. y \in Int
        BY <1>4
      <3>2. QED BY <3>1, Halved
    <2>2. h \in 0 .. 2 * S - 1 /\ h = h + 0 * S
      BY <1>4, <2>1
    <2>3. QED BY <1>1, <2>1, <2>2
  <1>8. AtOnce("SHR", w, v, i, cf) = [v |-> p, cf |-> t]
    <2>1. AtOnce("SHR", w, v, i, cf) = [v |-> v \div 2^i, cf |-> (v \div 2^(i - 1)) % 2]
      BY AtOnceIs
    <2>2. QED BY <1>3, <1>4, <1>5, <1>7, <2>1
  <1>9. \A c : OneBit("SHR", w, y, c) = [v |-> p, cf |-> t]
    <2>1. \A c : OneBit("SHR", w, y, c) = [v |-> y \div 2 + 0 * S, cf |-> y % 2]
      BY <1>1, OneBitIs
    <2>2. QED BY <1>7, <2>1
  <1>10. AResult(w, AtOnce("SHR", w, v, i, cf))
    BY <1>7, <1>8, ResultIs
  <1>11. QED BY <1>6, <1>8, <1>9, <1>10, Zenon DEF OneMore

LEMMA SarSteps ==
  ASSUME NEW w \in BOOLEAN, NEW v \in InWidth(w), NEW cf \in {0, 1}, NEW i \in Nat \ {0}, PowersTo(i)
  PROVE  OneMore("SAR", w, v, i, cf)
  <1>1. PICK S \in Nat \ {0} : S = 2^(Width(w) - 1) /\ 2^Width(w) = 2 * S /\ InWidth(w) = 0 .. 2 * S - 1
    BY WidthIs
  <1>2. PICK b : b = Width(w) /\ 2^b = 2 * S
    BY <1>1
  <1>3. PICK x \in -S .. S - 1 : x = Signed(v, b) /\ x % (2 * S) = v
    <2>1. Signed(v, b) = Value(v, S)
      BY <1>1, <1>2, SignOf
    <2>2. v \in 0 .. 2 * S - 1
      BY <1>1
    <2>3. Value(v, S) \in -S .. S - 1
      BY <2>2 DEF Value
    <2>4. Value(v, S) % (2 * S) = v
      <3>1. CASE v >= S
        <4>1. PICK M \in Nat \ {0} : M = 2 * S
          OBVIOUS
        <4>2. PartsOf(M, -1, v)
          <5>1. -1 \in Int /\ v \in 0 .. M - 1
            BY <2>2, <4>1
          <5>2. QED BY <5>1, PartsAre
        <4>3. (-1) * M + v = v - 2 * S
          BY <2>2, <4>1
        <4>4. QED BY <3>1, <4>1, <4>2, <4>3 DEF PartsOf, Value
      <3>2. CASE v < S
        <4>1. Value(v, S) = v
          BY <2>2, <3>2 DEF Value
        <4>2. v % (2 * S) = v
          BY <2>2
        <4>3. QED BY <4>1, <4>2
      <3>3. QED BY <2>2, <3>1, <3>2
    <2>5. QED BY <2>1, <2>3, <2>4
  <1>4. PICK P \in Nat \ {0} : P = 2^(i - 1) /\ 2^i = 2 * P
    BY PowerBefore
  <1>5. PICK y \in -S .. S - 1 : y = x \div P
    BY SignedQuotients
  <1>6. x \div (2 * P) = y \div 2
    <2>1. x \in Int
      BY <1>3
    <2>2. QED BY <1>5, <2>1, DividedOnce
  <1>7. PICK d : d = y % (2 * S)
    OBVIOUS
  <1>8. /\ d \in 0 .. 2 * S - 1 /\ d \div S \in {0, 1} /\ d % 2 = y % 2 /\ y % 2 \in {0, 1}
        /\ y \div 2 \in -S .. S - 1
        /\ d \div 2 + (d \div S) * S = (y \div 2) % (2 * S)
    <2>1. SignShifts(S, y)
      BY SignedShifted
    <2>2. QED BY <1>7, <2>1 DEF SignShifts
  <1>9. FirstAt("SAR", w, v, i - 1, cf).v = d
    <2>1. CASE i - 1 = 0
      <3>1. P = 1
        BY <1>4, <2>1, PowersAssumption
      <3>2. y = x
        BY <1>3, <1>5, <3>1
      <3>3. d = v
        BY <1>3, <1>7, <3>2
      <3>4. QED BY <2>1, <3>3 DEF FirstAt
    <2>2. CASE i - 1 # 0
      <3>1. AtOnce("SAR", w, v, i - 1, cf).v = (Signed(v, b) \div 2^(i - 1)) % 2^b
        BY <1>2, AtOnceIs
      <3>2. QED BY <1>2, <1>3, <1>4, <1>5, <1>7, <2>2, <3>1 DEF FirstAt
    <2>3. QED BY <2>1, <2>2
  <1>10. PICK p \in InWidth(w), t \in {0, 1} : p = (y \div 2) % (2 * S) /\ t = y % 2
    <2>1. PICK h \in -S .. S - 1 : h = y \div 2
      BY <1>8
    <2>2. h % (2 * S) \in 0 .. 2 * S - 1
      OBVIOUS
    <2>3. QED BY <1>1, <1>8, <2>1, <2>2
  <1>11. AtOnce("SAR", w, v, i, cf) = [v |-> p, cf |-> t]
    <2>1. AtOnce("SAR", w, v, i, cf) = [v |-> (Signed(v, b) \div 2^i) % 2^b,
                                        cf |-> (Signed(v, b) \div 2^(i - 1)) % 2]
      BY <1>2, AtOnceIs
    <2>2. QED BY <1>2, <1>3, <1>4, <1>5, <1>6, <1>10, <2>1
  <1>12. \A c : OneBit("SAR", w, d, c) = [v |-> p, cf |-> t]
    <2>1. \A c : OneBit("SAR", w, d, c) = [v |-> d \div 2 + (d \div S) * S, cf |-> d % 2]
      BY <1>1, OneBitIs
    <2>2. QED BY <1>8, <1>10, <2>1
  <1>13. AResult(w, AtOnce("SAR", w, v, i, cf))
    BY <1>10, <1>11, ResultIs
  <1>14. QED BY <1>9, <1>11, <1>12, <1>13, Zenon DEF OneMore

LEMMA Steps ==
  ASSUME NEW sop \in Shifts, NEW w \in BOOLEAN, NEW v \in InWidth(w), NEW cf \in {0, 1},
         NEW i \in Nat \ {0}, PowersTo(i)
  PROVE  OneMore(sop, w, v, i, cf)
  <1>1. OneMore("ROL", w, v, i, cf) /\ OneMore("ROR", w, v, i, cf)
    BY RolSteps, RorSteps
  <1>2. OneMore("RCL", w, v, i, cf) /\ OneMore("RCR", w, v, i, cf)
    BY RclSteps, RcrSteps
  <1>3. OneMore("SHL", w, v, i, cf) /\ OneMore("SHR", w, v, i, cf) /\ OneMore("SAR", w, v, i, cf)
    BY ShlSteps, ShrSteps, SarSteps
  <1>4. QED BY <1>1, <1>2, <1>3 DEF Shifts

(* A shift a bit at a time, as a function of how many bits.                *)
OfBits(sop, w, v, cf, f, n) ==
  f = [i \in 0 .. n |-> IF i = 0 THEN [v |-> v, cf |-> cf] ELSE OneBit(sop, w, f[i - 1].v, f[i - 1].cf)]

LEMMA ShiftIsAtOnce ==
  ASSUME NEW sop \in Shifts, NEW w \in BOOLEAN, NEW v \in InWidth(w), NEW cf \in {0, 1},
         NEW n \in Nat, PowersTo(n)
  PROVE  shift(sop, w, v, n, cf) = FirstAt(sop, w, v, n, cf)
  <1> DEFINE e == [i \in 0 .. n |-> FirstAt(sop, w, v, i, cf)]
             f == CHOOSE f : OfBits(sop, w, v, cf, f, n)
             start == [v |-> v, cf |-> cf]
  <1>1. ASSUME NEW i \in 0 .. n
        PROVE  e[i] = IF i = 0 THEN start ELSE OneBit(sop, w, e[i - 1].v, e[i - 1].cf)
    <2>1. CASE i = 0
      BY <2>1 DEF FirstAt
    <2>2. CASE i # 0
      <3>1. i \in Nat \ {0} /\ i - 1 \in 0 .. n
        BY <2>2
      <3>2. PowersTo(i)
        <4>1. \A j \in 0 .. n - 1 : 2^(j + 1) = 2 * 2^j
          BY DEF PowersTo
        <4>2. \A j \in 0 .. i - 1 : j \in 0 .. n - 1
          OBVIOUS
        <4>3. QED BY <3>1, <4>1, <4>2 DEF PowersTo
      <3>3. OneMore(sop, w, v, i, cf)
        BY <3>1, <3>2, Steps
      <3>4. e[i] = AtOnce(sop, w, v, i, cf) /\ e[i - 1] = FirstAt(sop, w, v, i - 1, cf)
        BY <2>2, <3>1 DEF FirstAt
      <3>5. QED BY <2>2, <3>3, <3>4, Zenon DEF OneMore
    <2>3. QED BY <2>1, <2>2
  <1>2. OfBits(sop, w, v, cf, e, n)
    <2>1. e = [i \in 0 .. n |-> e[i]]
      OBVIOUS
    <2> HIDE DEF e
    <2>2. e = [i \in 0 .. n |-> IF i = 0 THEN start ELSE OneBit(sop, w, e[i - 1].v, e[i - 1].cf)]
      BY <1>1, <2>1
    <2>3. QED BY <2>2, Zenon DEF OfBits
  <1>3. OfBits(sop, w, v, cf, f, n)
    BY <1>2, Zenon
  <1>4. shift(sop, w, v, n, cf) = f[n]
    BY Zenon DEF shift, OfBits
  <1> HIDE DEF f
  <1>5. \A i \in 0 .. n : f[i] = IF i = 0 THEN start ELSE OneBit(sop, w, f[i - 1].v, f[i - 1].cf)
    BY <1>3 DEF OfBits
  <1> HIDE DEF e
  <1>6. f[0] = e[0]
    <2>1. 0 \in 0 .. n
      OBVIOUS
    <2>2. QED BY <1>1, <1>5, <2>1
  <1>7. ASSUME NEW k \in 1 .. n, f[k - 1] = e[k - 1] PROVE f[k] = e[k]
    <2>1. k \in 0 .. n /\ k # 0
      OBVIOUS
    <2>2. f[k] = OneBit(sop, w, f[k - 1].v, f[k - 1].cf)
      BY <1>5, <2>1
    <2>3. e[k] = OneBit(sop, w, e[k - 1].v, e[k - 1].cf)
      BY <1>1, <2>1
    <2>4. QED BY <1>7, <2>2, <2>3
  <1>8. f[n] = e[n]
    BY <1>6, <1>7, SameFunction
  <1>9. e[n] = FirstAt(sop, w, v, n, cf)
    <2>1. n \in 0 .. n
      OBVIOUS
    <2>2. QED BY <2>1 DEF e
  <1>10. QED BY <1>4, <1>8, <1>9

(* The second bit from the top, of a word turned right, was the top one.    *)
Quartered(Q, t, u, c) == ((t * (2 * Q) + u) \div 2 + c * (2 * Q)) \div Q = 2 * c + t
LEMMA QuarterIs ==
  ASSUME NEW Q \in Nat \ {0}, NEW t \in {0, 1}, NEW u \in 0 .. 2 * Q - 1, NEW c \in {0, 1}
  PROVE  Quartered(Q, t, u, c)
  <1>1. PICK h \in 0 .. Q - 1, l \in {0, 1} : u = 2 * h + l
    <2>1. u \in Int
      OBVIOUS
    <2>2. PICK h \in Int, l \in {0, 1} : u = 2 * h + l
      BY <2>1, Halved
    <2>3. h \in 0 .. Q - 1
      BY <2>2
    <2>4. QED BY <2>2, <2>3
  <1>2. (t * (2 * Q) + u) \div 2 = t * Q + h
    <2>1. PICK y \in Int : y = t * Q + h
      BY <1>1
    <2>2. PartsOf(2, y, l)
      <3>1. 2 \in Nat \ {0} /\ l \in 0 .. 2 - 1
        BY <1>1
      <3>2. QED BY <2>1, <3>1, PartsAre
    <2>3. y * 2 + l = t * (2 * Q) + u
      <3>1. CASE t = 0
        BY <1>1, <2>1, <3>1
      <3>2. CASE t = 1
        BY <1>1, <2>1, <3>2
      <3>3. QED BY <3>1, <3>2
    <2>4. QED BY <2>1, <2>2, <2>3 DEF PartsOf
  <1>3. PICK q \in Int : q = 2 * c + t
    OBVIOUS
  <1>4. PartsOf(Q, q, h)
    BY <1>1, PartsAre
  <1>5. q * Q + h = (t * Q + h) + c * (2 * Q)
    <2>1. CASE t = 0 /\ c = 0
      BY <1>1, <1>3, <2>1
    <2>2. CASE t = 0 /\ c = 1
      BY <1>1, <1>3, <2>2
    <2>3. CASE t = 1 /\ c = 0
      BY <1>1, <1>3, <2>3
    <2>4. CASE t = 1 /\ c = 1
      BY <1>1, <1>3, <2>4
    <2>5. QED BY <2>1, <2>2, <2>3, <2>4
  <1>6. QED BY <1>2, <1>3, <1>4, <1>5 DEF PartsOf, Quartered

(* The sign of one bit's shift.                                            *)
LEMMA SignChanges ==
  ASSUME NEW sop \in Shifts, NEW w \in BOOLEAN, NEW v \in InWidth(w), NEW cf \in {0, 1}
  PROVE  (Msb(v, w) # Msb(AtOnce(sop, w, v, 1, cf).v, w))
           = ShiftOverflow(sop, w, v, AtOnce(sop, w, v, 1, cf))
  <1>1. PICK S \in Nat \ {0} : S = 2^(Width(w) - 1) /\ 2^Width(w) = 2 * S /\ InWidth(w) = 0 .. 2 * S - 1
    BY WidthIs
  <1>2. v \in 0 .. 2 * S - 1
    BY <1>1
  <1>3. PICK t \in {0, 1}, u \in 0 .. S - 1 :
          v = t * S + u /\ v \div S = t /\ (2 * v) % (2 * S) = 2 * u
    BY <1>2, Doubled
  <1>4. PowersTo(1)
    BY PowersAssumption, WordsAssumption DEF PowersTo
  <1>5. PICK e : e = AtOnce(sop, w, v, 1, cf)
    OBVIOUS
  <1>6. e = OneBit(sop, w, v, cf) /\ e.v \in InWidth(w)
    <2>1. OneMore(sop, w, v, 1, cf)
      <3>1. 1 \in Nat \ {0}
        OBVIOUS
      <3>2. QED BY <1>4, <3>1, Steps
    <2>2. 1 - 1 = 0
      OBVIOUS
    <2>3. FirstAt(sop, w, v, 1 - 1, cf).v = v /\ FirstAt(sop, w, v, 1 - 1, cf).cf = cf
      BY <2>2 DEF FirstAt
    <2>4. QED BY <1>5, <2>1, <2>3, Zenon DEF OneMore, AResult
  <1>7. Msb(v, w) \in BOOLEAN /\ Msb(e.v, w) \in BOOLEAN
    BY DEF Msb, Bit
  <1>8. Msb(v, w) <=> t = 1
    <2>1. Msb(v, w) <=> v >= S
      BY <1>1, SignOf
    <2>2. CASE t = 0
      BY <1>3, <2>1, <2>2
    <2>3. CASE t = 1
      BY <1>3, <2>1, <2>3
    <2>4. QED BY <1>3, <2>2, <2>3
  <1>9. CASE sop \in {"ROL", "RCL", "SHL"}
    <2>1. e.cf = t
      <3>1. PICK in1, in2, in3, q : /\ OneBit("ROL", w, v, cf) = [v |-> in1, cf |-> q]
                                    /\ OneBit("RCL", w, v, cf) = [v |-> in2, cf |-> q]
                                    /\ OneBit("SHL", w, v, cf) = [v |-> in3, cf |-> q]
                                    /\ q = v \div S
        BY <1>1, OneBitIs
      <3>2. q = t
        BY <1>3, <3>1
      <3>3. QED BY <1>6, <1>9, <3>1, <3>2
    <2>2. ShiftOverflow(sop, w, v, e) = (Msb(e.v, w) # (e.cf = 1))
      BY <1>9 DEF ShiftOverflow, Msb
    <2>3. QED BY <1>5, <1>7, <1>8, <2>1, <2>2
  <1>10. CASE sop \in {"ROR", "RCR"}
    <2>1. Bit(e.v, (Width(w) - 1) - 1) <=> t = 1
      <3>1. PICK Q \in Nat \ {0} : Q = 2^((Width(w) - 1) - 1) /\ S = 2 * Q
        <4>1. (Width(w) - 1) - 1 \in 0 .. 2 * BITS - 1 /\ ((Width(w) - 1) - 1) + 1 = Width(w) - 1
          BY WidthIs, WordsAssumption
        <4>2. (Width(w) - 1) - 1 \in 0 .. 2 * BITS
          BY <4>1, WordsAssumption
        <4>3. 2^((Width(w) - 1) - 1) \in Nat \ {0}
          BY <4>2, Powers
        <4>4. 2^(Width(w) - 1) = 2 * 2^((Width(w) - 1) - 1)
          BY <4>1, Step2
        <4>5. QED BY <1>1, <4>3, <4>4
      <3>2. PICK c \in {0, 1} : e.v = v \div 2 + c * S
        <4>1. /\ OneBit("ROR", w, v, cf) = [v |-> TurnRight(S, v), cf |-> v % 2]
              /\ OneBit("RCR", w, v, cf) = [v |-> v \div 2 + cf * S, cf |-> v % 2]
          BY <1>1, OneBitIs
        <4>2. TurnRight(S, v) = v \div 2 + (v % 2) * S /\ v % 2 \in {0, 1}
          BY <1>2 DEF TurnRight
        <4>3. QED BY <1>6, <1>10, <4>1, <4>2
      <3>3. Quartered(Q, t, u, c)
        BY <1>3, <3>1, QuarterIs
      <3>4. e.v \div Q = 2 * c + t
        BY <1>3, <3>1, <3>2, <3>3 DEF Quartered
      <3>5. (2 * c + t) % 2 = t
        BY <1>3, <3>2
      <3>6. QED BY <3>1, <3>4, <3>5 DEF Bit
    <2>2. ShiftOverflow(sop, w, v, e) = (Msb(e.v, w) # Bit(e.v, (Width(w) - 1) - 1))
      BY <1>10 DEF ShiftOverflow, Msb
    <2>3. Bit(e.v, (Width(w) - 1) - 1) \in BOOLEAN
      BY DEF Bit
    <2>4. QED BY <1>5, <1>7, <1>8, <2>1, <2>2, <2>3
  <1>11. CASE sop = "SHR"
    <2>1. e.v = v \div 2 + 0 * S
      BY <1>1, <1>6, <1>11, OneBitIs
    <2>2. e.v < S
      BY <1>2, <2>1
    <2>3. ~ Msb(e.v, w)
      <3>1. Msb(e.v, w) <=> e.v >= S
        BY <1>1, <1>6, SignOf
      <3>2. e.v \in 0 .. 2 * S - 1
        BY <1>1, <1>6
      <3>3. QED BY <2>2, <3>1, <3>2
    <2>4. ShiftOverflow(sop, w, v, e) = Msb(v, w)
      BY <1>11 DEF ShiftOverflow, Msb
    <2>5. QED BY <1>5, <1>7, <2>3, <2>4
  <1>12. CASE sop = "SAR"
    <2>1. e.v = v \div 2 + t * S
      <3>1. OneBit("SAR", w, v, cf) = [v |-> v \div 2 + (v \div S) * S, cf |-> v % 2]
        BY <1>1, OneBitIs
      <3>2. e.v = v \div 2 + (v \div S) * S
        BY <1>6, <1>12, <3>1
      <3>3. QED BY <1>3, <3>2, Zenon
    <2>2. Msb(e.v, w) <=> t = 1
      <3>1. Msb(e.v, w) <=> e.v >= S
        BY <1>1, <1>6, SignOf
      <3>2. CASE t = 0
        <4>1. v < S
          BY <1>3, <3>2
        <4>2. e.v = v \div 2 + 0
          BY <2>1, <3>2
        <4>3. e.v < S
          BY <1>2, <4>1, <4>2
        <4>4. QED BY <1>2, <3>1, <3>2, <4>2, <4>3
      <3>3. CASE t = 1
        <4>1. e.v = v \div 2 + S
          BY <2>1, <3>3
        <4>2. e.v >= S
          BY <1>2, <4>1
        <4>3. QED BY <3>1, <3>3, <4>2
      <3>4. QED BY <3>2, <3>3
    <2>3. ShiftOverflow(sop, w, v, e) = FALSE
      BY <1>12 DEF ShiftOverflow
    <2>4. QED BY <1>5, <1>7, <1>8, <2>2, <2>3
  <1>13. QED BY <1>9, <1>10, <1>11, <1>12 DEF Shifts

LEMMA ShiftStands86 ==
  ASSUME Stands86(g, eager86), NEW sop \in Shifts, NEW w \in BOOLEAN, NEW a \in InWidth(w), NEW n \in COUNTS,
         Shift(sop, w, a, n)
  PROVE  Stands86(g', eager86')
  <1>1. FlagsNow = eager86
    BY DEF Stands86, FlagsNow
  <1>2. CASE n = 0
    <2>1. g' = g /\ eager86' = eager86
      BY <1>2, Zenon DEF Shift, i86vars
    <2>2. QED BY <2>1
  <1>3. CASE n # 0
    <2>1. n \in Nat /\ PowersTo(n) /\ n \in Nat \ {0}
      BY <1>3, CountsAssumption, CountPowers
    <2>2. PICK c \in {0, 1} : c = CarryIn(eager86) /\ c = CarryIn(FlagsNow)
      BY <1>1, CarryInBit
    <2>3. PICK e : e = AtOnce(sop, w, a, n, c)
      OBVIOUS
    <2>4. shift(sop, w, a, n, c) = e
      <3>1. shift(sop, w, a, n, c) = FirstAt(sop, w, a, n, c)
        BY <2>1, ShiftIsAtOnce
      <3>2. QED BY <1>3, <2>3, <3>1 DEF FirstAt
    <2>5. PICK over : over = ShiftOverflow(sop, w, a, e)
      OBVIOUS
    <2>6. PICK turned : turned = IF n = 1 THEN Msb(a, w) # Msb(e.v, w) ELSE over
      OBVIOUS
    <2>7. turned = over
      <3>1. CASE n = 1
        <4>1. (Msb(a, w) # Msb(AtOnce(sop, w, a, 1, c).v, w)) = ShiftOverflow(sop, w, a, AtOnce(sop, w, a, 1, c))
          BY SignChanges
        <4>2. QED BY <2>3, <2>5, <2>6, <3>1, <4>1
      <3>2. QED BY <2>6, <3>1
    <2>8. /\ g' = [fl |-> ShiftFlags(FlagsNow, sop, w, e, over), rec |-> Nothing]
          /\ eager86' = ShiftFlags(eager86, sop, w, e, turned)
      BY <1>3, <2>2, <2>3, <2>4, <2>5, <2>6, Zenon DEF Shift
    <2>9. PICK f : f = ShiftFlags(eager86, sop, w, e, over)
      OBVIOUS
    <2>10. g' = [fl |-> f, rec |-> Nothing] /\ eager86' = f
      BY <1>1, <2>7, <2>8, <2>9, Zenon
    <2>11. QED BY <2>10, StandsMade86
  <1>4. QED BY <1>2, <1>3

LEMMA OperandsIn ==
  ASSUME NEW w \in BOOLEAN
  PROVE  Operands(w) \subseteq InWidth(w)
  <1>1. CASE w
    <2>1. InWidth(w) = Word
      BY <1>1 DEF InWidth, Bound, Width, Word
    <2>2. QED BY <1>1, <2>1, Operands86Assumption DEF Operands
  <1>2. CASE ~ w
    <2>1. InWidth(w) = Byte
      BY <1>2 DEF InWidth, Bound, Width, Byte
    <2>2. QED BY <1>2, <2>1, Operands86Assumption DEF Operands
  <1>3. QED BY <1>1, <1>2

LEMMA I86Stands ==
  ASSUME Stands86(g, eager86), I86Next
  PROVE  Stands86(g', eager86')
  <1>1. ASSUME NEW w \in BOOLEAN, NEW a \in Operands(w), OnOperand(w, a) PROVE Stands86(g', eager86')
    <2>1. a \in InWidth(w) /\ Operands(w) \subseteq InWidth(w)
      BY OperandsIn
    <2>2. CASE \E b \in Operands(w) : AluArith(w, a, b) \/ AluLogic(w, a, b)
      <3>1. PICK b \in InWidth(w) : AluArith(w, a, b) \/ AluLogic(w, a, b)
        BY <2>1, <2>2
      <3>2. QED BY <2>1, <3>1, AluStands86
    <2>3. CASE NegOp(w, a)
      BY <2>1, <2>3, AluStands86
    <2>4. CASE IncOp(w, a) \/ DecOp(w, a)
      BY <2>1, <2>4, IncStands86
    <2>5. CASE \E sop \in Shifts, n \in COUNTS : Shift(sop, w, a, n)
      <3>1. PICK sop \in Shifts, n \in COUNTS : Shift(sop, w, a, n)
        BY <2>5
      <3>2. QED BY <2>1, <3>1, ShiftStands86
    <2>6. CASE DelayLoop(w, a)
      BY <2>6, DelayStands86
    <2>7. QED BY <1>1, <2>2, <2>3, <2>4, <2>5, <2>6, Zenon DEF OnOperand
  <1>2. ASSUME NEW w \in BOOLEAN, NEW a \in Operands(w), NEW b \in Operands(w), NEW not \in BOOLEAN,
               RepCompare(w, <<<<a, a>>, <<a, b>>, <<b, a>>>>, not)
        PROVE  Stands86(g', eager86')
    <2>1. a \in InWidth(w) /\ b \in InWidth(w)
      BY OperandsIn
    <2>2. QED BY <1>2, <2>1, RepStands86
  <1>3. ASSUME NEW al, NEW add, AsciiAdjust(al) \/ AamAad(al) \/ Adjust(al, add) PROVE Stands86(g', eager86')
    BY <1>3, MakingStands86
  <1>4. ASSUME NEW in, NEW f,
               Multiply(in) \/ SetCarryFlag(in) \/ Complement \/ ReadFlags \/ Popf(f) \/ Sahf(f)
        PROVE  Stands86(g', eager86')
    BY <1>4, MakingStands86
  <1>5. QED BY <1>1, <1>2, <1>3, <1>4, Zenon DEF I86Next

(* Whatever instructions a guest executes, the record its executor keeps   *)
(* stands for the flags that arithmetic gives, a conditional jump on the   *)
(* record goes where they say, and a decimal adjust gives the decimal      *)
(* result: z80flags(), z80lcond(), daa(), i86flags(), i86lcond(), i86run() *)
(* and shift(), for any word size, any operands and any counts of a shift. *)
THEOREM RecordsMakeFlags == ExecutorsSpec => []RecordsStandForFlags
  <1> DEFINE Inv == Stands(m, eager) /\ SumExact(m.rec) /\ Stands86(g, eager86)
  <1>1. ExecutorsInit => Inv
    <2>1. SUFFICES ASSUME Z80Init, I86Init PROVE Inv
      BY DEF ExecutorsInit
    <2>2. PICK f : m = Guest(0, f, NoRecord) /\ eager = f
      BY <2>1, AGuest DEF Z80Init
    <2>3. Stands(m, eager)
      BY <2>2, ByteIs, StandsMade
    <2>4. SumExact(m.rec)
      <3>1. m.rec = NoRecord
        BY <2>2 DEF Guest
      <3>2. QED BY <3>1 DEF SumExact, NoRecord
    <2>5. PICK f86 : g = [fl |-> f86, rec |-> Nothing] /\ eager86 = f86
      BY <2>1 DEF I86Init
    <2>6. Stands86(g, eager86)
      BY <2>5, StandsMade86
    <2>7. QED BY <2>3, <2>4, <2>6
  <1>2. Inv /\ [ExecutorsNext]_<<z80vars, i86vars>> => Inv'
    <2>1. SUFFICES ASSUME Stands(m, eager), SumExact(m.rec), Stands86(g, eager86),
                          [ExecutorsNext]_<<z80vars, i86vars>>
                   PROVE  Stands(m', eager') /\ SumExact(m'.rec) /\ Stands86(g', eager86')
      BY DEF Stands, Flags, IsGuest, SumExact, Stands86, IsGuest86, Exact86
    <2>2. CASE Z80Next /\ UNCHANGED i86vars
      BY <2>1, <2>2, Z80Stands, SumExactKept DEF i86vars
    <2>3. CASE I86Next /\ UNCHANGED z80vars
      BY <2>1, <2>3, I86Stands DEF z80vars
    <2>4. CASE UNCHANGED <<z80vars, i86vars>>
      BY <2>1, <2>4 DEF z80vars, i86vars
    <2>5. QED BY <2>1, <2>2, <2>3, <2>4 DEF ExecutorsNext
  <1>3. Inv => RecordsStandForFlags
    BY JumpsFollow, DecimalsFollow, ConditionsFollow86, DecimalsFollow86 DEF RecordsStandForFlags
  <1>4. QED BY <1>1, <1>2, <1>3, PTL DEF ExecutorsSpec
=============================================================================
