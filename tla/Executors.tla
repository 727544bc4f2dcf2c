------------------------------ MODULE Executors ------------------------------
(***************************************************************************)
(* The two executors side by side, each with a guest of its own.           *)
(***************************************************************************)
EXTENDS Z80Flags, I86Flags

ExecutorsInit == Z80Init /\ I86Init
ExecutorsNext == \/ Z80Next /\ UNCHANGED i86vars
                 \/ I86Next /\ UNCHANGED z80vars
ExecutorsSpec == ExecutorsInit /\ [][ExecutorsNext]_<<z80vars, i86vars>>
-----------------------------------------------------------------------------
(* Whatever instructions a guest executes, the record its executor keeps    *)
(* stands for the flags that arithmetic gives: lazy(); a conditional jump   *)
(* on the record goes where the flags say: z80lcond(), i86lcond(); and a    *)
(* decimal adjust of a sum of packed decimals, or of an 8086 difference,    *)
(* leaves the decimal one, with its carry: daa() and the cases of i86run(). *)
RecordsStandForFlags == /\ FlagsAreEager /\ JumpsSeeFlags /\ DecimalSums
                        /\ WideFlagsAreEager /\ DecimalArithmetic

(* A delay loop run to its end at once leaves what the loop stepped would:  *)
(* z80delay() and delay(), the instructions and the clocks it owes too.     *)
DelaysAreSteps == DelayIsStepping /\ WideDelayIsStepping
=============================================================================
