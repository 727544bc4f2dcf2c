------------------------------- MODULE Z80Seam -------------------------------
(***************************************************************************)
(* What the bridge from a CP/M-80 guest to the BDOS (src/shim/z80bdos.c)   *)
(* holds back and what it keeps a copy of: characters of function 2, the   *)
(* DMA address, the multi-sector count and the guest's own image of the    *)
(* system control block, of which the model keeps the count's byte.        *)
(* Addresses are in records.  The guest's visible calls are numbered, and  *)
(* the BDOS logs the numbers in the order in which it carries them out.    *)
(***************************************************************************)
EXTENDS Naturals, Sequences
CONSTANTS Z80OBUF,          \* characters of the batch (128)
          TOPRECORD,        \* records of the guest's memory (512)
          MAXMULT,          \* the largest multi-sector count (128)
          Z80CALLS          \* bound: visible calls of a run
ASSUME Z80SeamAssumption == /\ Z80OBUF \in Nat \ {0} /\ TOPRECORD \in Nat \ {0}
                            /\ MAXMULT \in Nat \ {0} /\ Z80CALLS \in Nat

VARIABLES z80,              \* obuf; dma, mult; pub, copy, snap; running
          native,           \* the BDOS: log, dma, mult
          asked,            \* history: visible calls of the guest so far
          straddled         \* history: the native count was set through a
                            \* word of the control block that begins before it
seamvars == <<z80, native, asked, straddled>>

PZ_DMA == 1
OurPage == TOPRECORD        \* the base page of the shim, not of the guest
Bytes80 == 0 .. MAXMULT + 1
z80addr(off, records) == off + records <= TOPRECORD
Clamped(v) == IF v = 0 THEN 1 ELSE IF v > MAXMULT THEN MAXMULT ELSE v

(* z80bdosinit(), of a program that the CCP has just loaded.                *)
z80bdosinit ==
  /\ z80 = [obuf |-> <<>>, dma |-> PZ_DMA, mult |-> 1,
            pub |-> FALSE, copy |-> 0, snap |-> 0, running |-> TRUE]
  /\ native = [log |-> <<>>, dma |-> PZ_DMA, mult |-> 1]
  /\ asked = 0 /\ straddled = FALSE
-----------------------------------------------------------------------------
z80oflush(s) == [s EXCEPT !.obuf = <<>>]
Shown(b) == [b EXCEPT !.log = @ \o z80.obuf]
Logged(b) == [b EXCEPT !.log = Append(@, asked + 1)]
Asking == z80.running /\ asked < Z80CALLS /\ asked' = asked + 1

(* A mistaken batch: a full one is not sent first.                          *)
OutputKept == /\ Asking
              /\ z80' = [z80 EXCEPT !.obuf = IF Len(@) < Z80OBUF THEN Append(@, asked + 1)
                                             ELSE @]
              /\ UNCHANGED <<native, straddled>>
Output ==                                        \* function 2
  LET full == Len(z80.obuf) >= Z80OBUF
      s == IF full THEN z80oflush(z80) ELSE z80
  IN /\ Asking
     /\ z80' = [s EXCEPT !.obuf = Append(@, asked + 1)]
     /\ native' = IF full THEN Shown(native) ELSE native
     /\ UNCHANGED straddled

(* A call that the BDOS sees at once: console, files and the rest of the    *)
(* table, a BIOS vector, the sleep that a delay loop is turned into.        *)
Visible == /\ Asking
           /\ z80' = z80oflush(z80) /\ native' = Logged(Shown(native))
           /\ UNCHANGED straddled

(* A refusal, the end of the program, and an instruction the executor does  *)
(* not run: z80()'s loop ends and flushes.                                  *)
Ended == /\ z80' = [z80oflush(z80) EXCEPT !.running = FALSE]
         /\ native' = Shown(native)
         /\ UNCHANGED <<asked, straddled>>

setdma(s, b) == [b EXCEPT !.dma = s.dma]
SetDma(de) ==                                    \* function 26
  /\ z80.running
  /\ IF z80addr(de, 1)
       THEN /\ z80' = [z80oflush(z80) EXCEPT !.dma = de]
            /\ native' = setdma(z80', Shown(native))
            /\ UNCHANGED <<asked, straddled>>
       ELSE Ended
ResetDisks ==                                    \* function 13
  /\ Asking
  /\ z80' = [z80oflush(z80) EXCEPT !.dma = PZ_DMA]
  /\ native' = setdma(z80', [Logged(Shown(native)) EXCEPT !.dma = OurPage])
  /\ UNCHANGED straddled
SetCount(e) ==                                   \* function 44
  /\ z80.running
  /\ LET taken == e \in 1 .. MAXMULT
     IN /\ z80' = [z80oflush(z80) EXCEPT !.mult = IF taken THEN e ELSE @]
        /\ native' = [Shown(native) EXCEPT !.mult = IF taken THEN e ELSE @]
        /\ straddled' = (straddled /\ ~ taken)
  /\ UNCHANGED asked
Transfer ==                                      \* functions 20, 21, 33, 34, 40
  z80.running /\ IF z80addr(z80.dma, z80.mult) THEN Visible ELSE Ended
-----------------------------------------------------------------------------
(* Function 49.  Bytes the guest has changed in its image go to the BDOS    *)
(* first, and afterwards the image is filled anew; before the guest has     *)
(* asked for the image there is none.                                       *)
Pushes == z80.pub /\ z80.copy # z80.snap
scbpush(s) == IF Pushes THEN [s EXCEPT !.mult = Clamped(s.copy), !.snap = s.copy] ELSE s
Posted(b) == IF Pushes THEN [b EXCEPT !.mult = Clamped(z80.copy)] ELSE b
scbpull(s, b) == IF s.pub THEN [s EXCEPT !.copy = b.mult, !.snap = b.mult] ELSE s

Scb(s, b, odd) == /\ z80.running
                  /\ z80' = scbpull(s, b) /\ native' = b
                  /\ straddled' = odd /\ UNCHANGED asked
Before == scbpush(z80oflush(z80))
Told == Posted(Shown(native))
Open == straddled /\ ~ Pushes

ScbGet == Scb(Before, Told, Open)
ScbAddress == Scb([Before EXCEPT !.pub = TRUE], Told, Open)
ScbCount(v) ==
  Scb([Before EXCEPT !.mult = Clamped(v)], [Told EXCEPT !.mult = Clamped(v)], FALSE)
ScbStraddle(v) == Scb(Before, [Told EXCEPT !.mult = Clamped(v)], TRUE)
ScbRefused == /\ z80.running
              /\ z80' = [Before EXCEPT !.running = FALSE] /\ native' = Told
              /\ straddled' = Open /\ UNCHANGED asked

(* The guest stores into its image; BIOS vector 26 fills it anew.           *)
Poke(v) == z80.running /\ z80.pub /\ z80' = [z80 EXCEPT !.copy = v]
             /\ UNCHANGED <<native, asked, straddled>>
Time == /\ Asking
        /\ native' = Logged(Shown(native))
        /\ z80' = scbpull(z80oflush(z80), native')
        /\ UNCHANGED straddled

SeamNext ==
  \/ Output \/ Visible \/ ResetDisks \/ Transfer \/ Time
  \/ z80.running /\ Ended
  \/ \E de \in 0 .. TOPRECORD : SetDma(de)
  \/ \E v \in Bytes80 : SetCount(v) \/ ScbCount(v) \/ ScbStraddle(v) \/ Poke(v)
  \/ ScbGet \/ ScbAddress \/ ScbRefused
SeamSpec == z80bdosinit /\ [][SeamNext]_seamvars
-----------------------------------------------------------------------------
(* What the guest asked for comes out in the order in which it asked, and   *)
(* nothing is held back when the run is over.                               *)
CallsInOrder == /\ native.log \o z80.obuf = [i \in 1 .. asked |-> i]
                /\ z80.running \/ z80.obuf = <<>>

(* The BDOS has the DMA address and the count that the bridge believes it   *)
(* has, "so both doors update this", but for the door it does not watch;    *)
(* so no transfer leaves the guest's memory.                                *)
CopiesAgree == /\ native.dma = z80.dma
               /\ straddled \/ native.mult = z80.mult
=============================================================================
