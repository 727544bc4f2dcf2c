-------------------------------- MODULE Sched --------------------------------
(***************************************************************************)
(* The wait list and the round robin of the BDOS process kernel            *)
(* (src/bdos/proc.c): which descriptor runs, which are blocked and on      *)
(* what, and who is next.  One processor, so exactly one process, `pcur',  *)
(* takes steps; the others are parked at the gate or inside a BDOS call.   *)
(*                                                                         *)
(* pd_wait, pd_wobj and the counter pnwait are only ever changed together, *)
(* so they are one record here, `waits', and every routine of the source   *)
(* that edits them is an operator from one such record to the next: a      *)
(* handler that calls three of them composes three operators.              *)
(*                                                                         *)
(* Here and in the other modules a definition named X_suffix that stands   *)
(* just before X is a broken form of X: the runs that check a property are *)
(* repeated with it in X's place and must then fail.                       *)
(***************************************************************************)
EXTENDS Integers, FiniteSets

CONSTANT NP             \* PNPROC, the number of descriptors

ASSUME NPAssumption == NP \in Nat \ {0}

Procs == 0 .. NP - 1

VARIABLES pcur,         \* index of the running process
          pd_state,     \* FREE, RSVD or LIVE, per descriptor
          waits         \* [on |-> pd_wait and pd_wobj, count |-> pnwait]

States == {"FREE", "LIVE", "RSVD"}

Live == {p \in Procs : pd_state[p] = "LIVE"}

pnlive == Cardinality(Live)

Wait(why, obj) == [why |-> why, obj |-> obj]

Run == Wait("RUN", 0)   \* PW_RUN: in the rotation

(***************************************************************************)
(* The members of S in the order of the kernel's scans: i+1, i+2, ... and  *)
(* i itself last.  When S is empty the scan falls out with i.              *)
(***************************************************************************)
Distance_from_zero(i, j) == j

Distance(i, j) == IF j > i THEN j - i ELSE j + NP - i

Nearest(S, i, j) == \A k \in S : Distance(i, j) <= Distance(i, k)

RoundRobin(S, i) ==
  IF \E j \in S : Nearest(S, i, j)
  THEN CHOOSE j \in S : Nearest(S, i, j)
  ELSE i

-----------------------------------------------------------------------------
(* The wait list.  `x' is the list before, the value is the list after.    *)

WaitLists(W) == [on : [Procs -> W], count : Int]

Blocked(x) == {p \in Procs : x.on[p] # Run}

Released(x, S) ==
  [on    |-> [p \in Procs |-> IF p \in S THEN Run ELSE x.on[p]],
   count |-> x.count - Cardinality(S)]

pblock(x, p, w) ==
  [on    |-> [x.on EXCEPT ![p] = w],
   count |-> IF x.on[p] = Run THEN x.count + 1 ELSE x.count]

punblk_always(x, p) == Released(x, {p})

punblk(x, p) == IF x.on[p] = Run THEN x ELSE Released(x, {p})

pwake(x, w) ==
  IF x.count = 0 THEN x ELSE Released(x, {p \in Live : x.on[p] = w})

(* The sweep of the polled waits.  `events' are the waits whose condition  *)
(* holds now: consoles with input, tick deadlines that have passed.        *)
pwscan(x, events) ==
  IF x.count = 0 THEN x ELSE Released(x, {p \in Live : x.on[p] \in events})

pnext(x, i) == RoundRobin({p \in Live : x.on[p] = Run}, i)

pnextany(i) == RoundRobin(Live, i)

=============================================================================
