------------------------------- MODULE MCLive -------------------------------
(* What must happen some day, in the process kernel, in a transfer of the  *)
(* disk controller and in a file transfer.  A behaviour is one of the      *)
(* three, which `part' names; the others stay where they start.            *)
EXTENDS Proc, WdDisk, Kermit

CONSTANTS a, b          \* blocks of a file

VARIABLE part
liveVars == <<part, vars, wdvars, kervars>>

SentFiles == {<<>>, <<a, b>>}

LiveInit == /\ part \in {"kernel", "transfer", "kermit"}
            /\ Init
            /\ WdInit /\ (part = "transfer" \/ ticking)
            /\ KermitInit
            /\ part = "kermit" \/ /\ file = <<>> /\ snd.found /\ ~ snd.at
                                  /\ \A room \in ROOMS : dest.room <= room

OutsideKernel   == UNCHANGED <<part, wdvars, kervars>>
OutsideTransfer == UNCHANGED <<part, vars, kervars>>
OutsideKermit   == UNCHANGED <<part, vars, wdvars>>

(* Nobody reads the keyboard in these runs, and it stays still.            *)
LiveNext == \/ part = "kernel" /\ (Running \/ \E p \in Procs : Deadline(p)) /\ OutsideKernel
            \/ part = "transfer" /\ WdNext /\ OutsideTransfer
            \/ part = "kermit" /\ KermitNext /\ OutsideKermit

(* The fairness of the three specifications, each in its own behaviours.   *)
(* In the kernel: the processor executes something, and the tick, which    *)
(* keeps interrupting, finds a program in user mode again and again.       *)
LiveSpec ==
  /\ LiveInit /\ [][LiveNext]_liveVars
  /\ WF_liveVars(part = "kernel" /\ Running /\ OutsideKernel)
  /\ SF_liveVars(part = "kernel" /\ Preempt /\ OutsideKernel)
  /\ WF_liveVars(part = "transfer" /\ Driver /\ OutsideTransfer)
  /\ WF_liveVars(part = "kermit" /\ Receiver /\ OutsideKermit)
  /\ WF_liveVars(part = "kermit" /\ Sender /\ OutsideKermit)
  /\ WF_liveVars(part = "kermit" /\ Ignored /\ OutsideKermit)

(* ReceiverEnds of module Kermit, where a file is being received.          *)
ReceiverStops == part = "kermit" => ReceiverEnds
=============================================================================
