------------------------------- MODULE WdDisk -------------------------------
(***************************************************************************)
(* One sector transfer: wdsec() and wdgo900() of wd900.c, polling a        *)
(* controller that may answer, answer "busy", fail or never answer, with a *)
(* tick that may not run.  The stop strobe ends a command: after it the    *)
(* controller writes nothing.                                              *)
(***************************************************************************)
EXTENDS Naturals
CONSTANTS WDRETRY,       \* attempts at a busy controller (5)
          WDWAIT,        \* ticks an attempt may take (300)
          SPIN, CHECK    \* polls an attempt may take, and between clock looks
ASSUME WdAssumption == {WDRETRY, WDWAIT, SPIN, CHECK} \subseteq Nat \ {0}

VARIABLES wdpc,          \* "idle", "setup", "poll" or "answer"
          tries, polls,  \* attempts left; n of wdgo900()
          status,        \* cb[0x0c]
          late,          \* ticks since the deadline was set, up to WDWAIT
          ticking,       \* tickon
          moved,         \* the controller has done this call's transfer
          result         \* what wdsec() returned
wdvars == <<wdpc, tries, polls, status, late, ticking, moved, result>>

WdInit == /\ wdpc = "idle" /\ tries = 0 /\ polls = 0 /\ late = 0
          /\ status = "done" /\ result = "done" /\ moved = TRUE
          /\ ticking \in BOOLEAN

wdsec == /\ wdpc = "idle"
         /\ wdpc' = "setup" /\ tries' = WDRETRY /\ moved' = FALSE
         /\ UNCHANGED <<polls, status, late, ticking, result>>

Begin_stale == /\ wdpc = "setup"
               /\ wdpc' = "poll" /\ polls' = SPIN /\ late' = 0
               /\ UNCHANGED <<tries, status, ticking, moved, result>>
Begin == /\ wdpc = "setup"
         /\ wdpc' = "poll" /\ status' = "pending" /\ polls' = SPIN /\ late' = 0
         /\ UNCHANGED <<tries, ticking, moved, result>>

tickpast == ticking /\ late = WDWAIT
Poll_clockonly ==
  /\ wdpc = "poll"
  /\ IF status # "pending" THEN wdpc' = "answer" /\ UNCHANGED polls
     ELSE /\ polls' = (polls - 1) % SPIN
          /\ wdpc' = IF polls' % CHECK = 0 /\ tickpast THEN "answer" ELSE "poll"
  /\ UNCHANGED <<tries, status, late, ticking, moved, result>>
Poll == /\ wdpc = "poll"
        /\ IF status # "pending" THEN wdpc' = "answer" /\ UNCHANGED polls
           ELSE /\ polls' = polls - 1
                /\ wdpc' = IF polls' = 0 \/ (polls' % CHECK = 0 /\ tickpast) THEN "answer" ELSE "poll"
        /\ UNCHANGED <<tries, status, late, ticking, moved, result>>

Answer == /\ wdpc = "answer"
          /\ tries' = IF status = "busy" THEN tries - 1 ELSE tries
          /\ IF status = "busy" /\ tries' > 0
             THEN wdpc' = "setup" /\ UNCHANGED result
             ELSE wdpc' = "idle" /\ result' = status
          /\ UNCHANGED <<polls, status, late, ticking, moved>>

(* The controller and the tick.                                             *)
Controller == /\ wdpc = "poll" /\ status = "pending"
              /\ \/ moved' = TRUE /\ status' \in {"pending", "done"}
                 \/ UNCHANGED moved /\ status' \in {"busy", "error"}
              /\ UNCHANGED <<wdpc, tries, polls, late, ticking, result>>
Tick == /\ ticking /\ late < WDWAIT /\ late' = late + 1
        /\ UNCHANGED <<wdpc, tries, polls, status, ticking, moved, result>>

Driver == Begin \/ Poll \/ Answer
WdNext == wdsec \/ Driver \/ Controller \/ Tick
WdSpec == WdInit /\ [][WdNext]_wdvars /\ WF_wdvars(Driver)
-----------------------------------------------------------------------------
(* What the cache takes for granted: a transfer reported done was done.     *)
DoneIsMoved == wdpc = "idle" /\ result = "done" => moved

(* "A spin budget also bounds the wait if the tick is unavailable", and     *)
(* attempts at a busy controller are bounded: the call returns whatever the *)
(* controller and the tick do.                                              *)
TransferEnds == wdpc # "idle" ~> wdpc = "idle"
=============================================================================
