------------------------------- MODULE Bridges -------------------------------
(***************************************************************************)
(* The two bridges side by side, as in a system where one process runs a   *)
(* CP/M-80 program and another a CP/M-86 one: each guest has a bridge and  *)
(* a view of the BDOS of its own.                                          *)
(***************************************************************************)
EXTENDS Z80Seam, I86Seam

BridgesInit == z80bdosinit /\ i86bdosinit
BridgesNext == \/ SeamNext /\ UNCHANGED seam86vars
               \/ Seam86Next /\ UNCHANGED seamvars
BridgesSpec == BridgesInit /\ [][BridgesNext]_<<seamvars, seam86vars>>
-----------------------------------------------------------------------------
(* The BDOS carries out what a guest asks for in the order in which it was  *)
(* asked, although output is collected, and when the run ends nothing is    *)
(* left: z80oflush() and i86oflush() at every way out.                      *)
CallsComeInOrder == CallsInOrder /\ CallsInOrder86

(* The DMA address and the multi-sector count that a bridge bounds          *)
(* transfers by are those the BDOS holds, after refusals, resets, a load    *)
(* that fails and writes to the image of the control block.                 *)
BridgesAgree == CopiesAgree /\ CopiesAgree86
=============================================================================
