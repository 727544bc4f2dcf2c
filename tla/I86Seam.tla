------------------------------- MODULE I86Seam -------------------------------
(***************************************************************************)
(* The bridge from a CP/M-86 guest to the BDOS (src/shim/i86bdos.c): the   *)
(* batch of function 2, the DMA offset and base paragraph, the count, and  *)
(* a program the guest loads beside itself (functions 59 and 57).  The     *)
(* guest holds paragraph 1, and 0 for its vectors; a loaded program has 2, *)
(* in whatever segment the platform gave.  Offsets are in records.         *)
(***************************************************************************)
EXTENDS Naturals, Sequences
CONSTANTS I86OBUF,          \* characters of the batch (128)
          SEGRECORDS,       \* records of a segment (512)
          MAXCOUNT,         \* the largest multi-sector count (128)
          I86CALLS          \* bound: visible calls of a run
ASSUME I86SeamAssumption == /\ I86OBUF \in Nat \ {0} /\ SEGRECORDS \in Nat \ {0, 1}
                            /\ MAXCOUNT \in Nat \ {0} /\ I86CALLS \in Nat

VARIABLES i86,              \* obuf; off, seg, mult; held: the segment of each
                            \* paragraph in the pool; running
          bdos86,           \* log, dma, mult
          asked86           \* history: visible calls of the guest so far
seam86vars == <<i86, bdos86, asked86>>

Paragraphs == 0 .. 2        \* that a guest may name
HostSegments == {"second", "third"}
GuestsOwn == [par \in {0, 1} |-> IF par = 0 THEN "vectors" ELSE "own"]
At(segment, off) == [segment |-> segment, off |-> off]
RecordBuffer == At("shim", 0)

(* i86bdosinit()                                                            *)
i86bdosinit ==
  /\ i86 = [obuf |-> <<>>, off |-> 1, seg |-> 1, mult |-> 1,
            held |-> GuestsOwn, running |-> TRUE]
  /\ bdos86 = [log |-> <<>>, dma |-> At("own", 1), mult |-> 1]
  /\ asked86 = 0
-----------------------------------------------------------------------------
i86oflush(s) == [s EXCEPT !.obuf = <<>>]
Shown86(b) == [b EXCEPT !.log = @ \o i86.obuf]
Logged86(b) == [b EXCEPT !.log = Append(@, asked86 + 1)]
Asking86 == i86.running /\ asked86 < I86CALLS /\ asked86' = asked86 + 1

Output86 ==                                      \* function 2
  LET full == Len(i86.obuf) >= I86OBUF
      s == IF full THEN i86oflush(i86) ELSE i86
  IN /\ Asking86
     /\ i86' = [s EXCEPT !.obuf = Append(@, asked86 + 1)]
     /\ bdos86' = IF full THEN Shown86(bdos86) ELSE bdos86
Visible86 == Asking86 /\ i86' = i86oflush(i86) /\ bdos86' = Logged86(Shown86(bdos86))
Ended86 == /\ i86' = [i86oflush(i86) EXCEPT !.running = FALSE]
           /\ bdos86' = Shown86(bdos86)
           /\ UNCHANGED asked86

(* setdma() refuses a paragraph that is not held, or an offset too high.    *)
Placed(s) == s.seg \in DOMAIN s.held /\ s.off < SEGRECORDS
setdma86(s, b) == IF Placed(s) THEN [b EXCEPT !.dma = At(s.held[s.seg], s.off)] ELSE b
(* A mistaken one: the address is taken, and refused afterwards.            *)
MovedFirst(s) == /\ i86.running
                 /\ i86' = [i86oflush(s) EXCEPT !.running = Placed(s)]
                 /\ bdos86' = setdma86(s, Shown86(bdos86))
                 /\ UNCHANGED asked86
Moved(s) ==                                      \* functions 26 and 51
  /\ i86.running
  /\ IF Placed(s) THEN /\ i86' = i86oflush(s)
                       /\ bdos86' = setdma86(s, Shown86(bdos86))
                       /\ UNCHANGED asked86
     ELSE Ended86
ResetDisks86 ==                                  \* function 13
  LET s == [i86oflush(i86) EXCEPT !.off = 1]
  IN /\ Asking86
     /\ i86' = [s EXCEPT !.running = Placed(s)]
     /\ bdos86' = setdma86(s, [Logged86(Shown86(bdos86)) EXCEPT !.dma = RecordBuffer])
SetCount86(e) ==                                 \* function 44
  LET taken == e \in 1 .. MAXCOUNT
  IN /\ i86.running
     /\ i86' = [i86oflush(i86) EXCEPT !.mult = IF taken THEN e ELSE @]
     /\ bdos86' = [Shown86(bdos86) EXCEPT !.mult = IF taken THEN e ELSE @]
     /\ UNCHANGED asked86
Transfer86 ==                                    \* functions 20, 21, 33, 34, 40
  i86.running /\ IF i86.off + i86.mult <= SEGRECORDS THEN Visible86 ELSE Ended86
-----------------------------------------------------------------------------
(* plfree(), and pload(): a load frees the program before it.  It may find  *)
(* no file; fail later, with the count and the DMA its own; or succeed.     *)
plfree(s) == [s EXCEPT !.held = GuestsOwn]
Free86 == /\ i86.running                         \* function 57
          /\ i86' = plfree(i86oflush(i86)) /\ bdos86' = Shown86(bdos86)
          /\ UNCHANGED asked86
NoFile == /\ Asking86                            \* function 59
          /\ i86' = plfree(i86oflush(i86)) /\ bdos86' = Logged86(Shown86(bdos86))
pload(s) ==
  LET reading == [Logged86(Shown86(bdos86)) EXCEPT !.mult = 1, !.dma = RecordBuffer]
  IN /\ Asking86
     /\ i86' = s
     /\ bdos86' = setdma86(s, [reading EXCEPT !.mult = s.mult])
LoadFails == pload(plfree(i86oflush(i86)))
Beside(segment) == [par \in Paragraphs |-> IF par = 2 THEN segment ELSE GuestsOwn[par]]
Loaded(segment) == pload([i86oflush(i86) EXCEPT !.held = Beside(segment)])

Seam86Next ==
  \/ Output86 \/ Visible86 \/ ResetDisks86 \/ Transfer86
  \/ i86.running /\ Ended86
  \/ \E off \in 0 .. SEGRECORDS : Moved([i86 EXCEPT !.off = off])
  \/ \E par \in Paragraphs : Moved([i86 EXCEPT !.seg = par])
  \/ \E e \in 0 .. MAXCOUNT + 1 : SetCount86(e)
  \/ Free86 \/ NoFile \/ LoadFails
  \/ \E segment \in HostSegments : Loaded(segment)
Seam86Spec == i86bdosinit /\ [][Seam86Next]_seam86vars
-----------------------------------------------------------------------------
(* As CallsInOrder of module Z80Seam.                                       *)
CallsInOrder86 == /\ bdos86.log \o i86.obuf = [i \in 1 .. asked86 |-> i]
                  /\ i86.running \/ i86.obuf = <<>>

(* "A REFUSED set-DMA must leave both halves holding what the native BDOS   *)
(* was actually told": while the paragraph is one the guest holds, the BDOS *)
(* has its segment and the offset; and it always has the count.             *)
CopiesAgree86 == /\ i86.seg \in DOMAIN i86.held =>
                      bdos86.dma = At(i86.held[i86.seg], i86.off)
                 /\ bdos86.mult = i86.mult
=============================================================================
