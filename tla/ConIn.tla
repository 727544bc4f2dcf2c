------------------------------- MODULE ConIn --------------------------------
(***************************************************************************)
(* Where a typed character waits until a program takes it: the BIOS        *)
(* (bios900.c pend[] and the channel behind it), the BDOS's kbchar[] of    *)
(* that console (conbdos.c), and the programs that look for it: getch(),   *)
(* constat() and conbrk().  getch() and a claim are where a process gives  *)
(* the machine away; the rest of a call is one step.                       *)
(***************************************************************************)
EXTENDS Naturals, Sequences
CONSTANTS PROCS, CONS,
          CON,          \* concur: the console of each process
          STATUS_ONLY,  \* processes with CM_CTLC set
          NOTERM,       \* processes with CM_NOTERM set
          CONBRK_POLL,  \* characters of output from one poll to the next (8)
          KEYS, RING    \* bounds: keys typed at a console, and held by the BIOS
NoOne == "no one"
ASSUME ConInAssumption ==
  /\ CON \in [PROCS -> CONS] /\ STATUS_ONLY \subseteq PROCS /\ NOTERM \subseteq PROCS
  /\ {CONBRK_POLL, KEYS, RING} \subseteq Nat \ {0} /\ NoOne \notin PROCS

VARIABLES typed,      \* keys typed at a console so far
          ring,       \* the BIOS's, oldest first
          kbchar,     \* per console; NoKey is the code's 0
          owner,      \* whose console it is (pd_catt), or NoOne
          doing,      \* "run", "claim" (PW_CATT), "wait" (PW_CON), "woken"
          brkctr,
          scroll,     \* the process in conbrk()'s ^S loop, or NoOne
          taken       \* the last key a program was given, per console
convars == <<typed, ring, kbchar, owner, doing, brkctr, scroll, taken>>

Keystroke(what, n) == [what |-> what, n |-> n]
NoKey == Keystroke("none", 0)
ConInit ==
  /\ typed = [c \in CONS |-> 0] /\ ring = [c \in CONS |-> <<>>] /\ kbchar = [c \in CONS |-> NoKey]
  /\ owner = [c \in CONS |-> NoOne] /\ doing = [p \in PROCS |-> "run"]
  /\ brkctr = 0 /\ scroll = NoOne /\ taken = [c \in CONS |-> 0]

(* The keyboard.                                                            *)
Press(c) == /\ typed[c] < KEYS /\ Len(ring[c]) < RING
            /\ typed' = [typed EXCEPT ![c] = @ + 1]
            /\ \E what \in {"key", "^C", "^S", "^Q"} :
                 ring' = [ring EXCEPT ![c] = Append(@, Keystroke(what, typed[c] + 1))]
            /\ UNCHANGED <<kbchar, owner, doing, brkctr, scroll, taken>>
-----------------------------------------------------------------------------
Runs(p) == doing[p] = "run" /\ scroll = NoOne
bconstat(c) == ring[c] # <<>>
FromRing(c) == ring' = [ring EXCEPT ![c] = Tail(@)]
Given(p, k) == /\ taken' = [taken EXCEPT ![CON[p]] = k.n]
               /\ doing' = [doing EXCEPT ![p] = "run"]

(* getch() once the console is claimed: what is buffered, or a wait.  The   *)
(* only live process takes its character in the BIOS.                       *)
Looked_ring(p) ==
  LET c == CON[p]
  IN IF bconstat(c) THEN Given(p, Head(ring[c])) /\ FromRing(c) /\ UNCHANGED kbchar
     ELSE IF kbchar[c] # NoKey
     THEN Given(p, kbchar[c]) /\ kbchar' = [kbchar EXCEPT ![c] = NoKey] /\ UNCHANGED ring
     ELSE doing' = [doing EXCEPT ![p] = "wait"] /\ UNCHANGED <<kbchar, ring, taken>>
Looked(p) ==
  LET c == CON[p]
  IN IF kbchar[c] # NoKey
     THEN Given(p, kbchar[c]) /\ kbchar' = [kbchar EXCEPT ![c] = NoKey] /\ UNCHANGED ring
     ELSE doing' = [doing EXCEPT ![p] = "wait"] /\ UNCHANGED <<kbchar, ring, taken>>
getch(p) ==
  LET c == CON[p]
  IN /\ Runs(p) /\ UNCHANGED <<typed, brkctr, scroll>>
     /\ IF owner[c] \in {p, NoOne}
        THEN owner' = [owner EXCEPT ![c] = p] /\ Looked(p)
        ELSE doing' = [doing EXCEPT ![p] = "claim"] /\ UNCHANGED <<owner, ring, kbchar, taken>>
GotConsole(p) == /\ doing[p] = "claim" /\ scroll = NoOne /\ owner[CON[p]] = p
                 /\ Looked(p) /\ UNCHANGED <<typed, owner, brkctr, scroll>>

(* pwscan() wakes a waiter by the BIOS's status alone, and pwait() answers  *)
(* at once when nobody else can run; the character may be gone, or another  *)
(* there, when the waiter's turn comes.                                     *)
Woken(p) == /\ doing[p] = "wait" /\ scroll = NoOne
            /\ bconstat(CON[p]) \/ \A q \in PROCS \ {p} : doing[q] \in {"wait", "claim"}
            /\ doing' = [doing EXCEPT ![p] = "woken"]
            /\ UNCHANGED <<typed, ring, kbchar, owner, brkctr, scroll, taken>>
Resumed(p) ==
  LET c == CON[p]
  IN /\ doing[p] = "woken" /\ scroll = NoOne
     /\ UNCHANGED <<typed, owner, brkctr, scroll>>
     /\ IF bconstat(c) THEN Given(p, Head(ring[c])) /\ FromRing(c) /\ UNCHANGED kbchar
                       ELSE Looked(p)

(* constat(), of a process that reports ^C alone.                           *)
constat(p) ==
  LET c == CON[p]
  IN /\ Runs(p) /\ p \in STATUS_ONLY /\ kbchar[c] = NoKey /\ bconstat(c)
     /\ kbchar' = [kbchar EXCEPT ![c] = Head(ring[c])] /\ FromRing(c)
     /\ UNCHANGED <<typed, owner, doing, brkctr, scroll, taken>>

(* Who waits for a console gets it when its owner lets go, and a program    *)
(* that ends lets go (pconhand()).                                          *)
Waiting(c) == {q \in PROCS : doing[q] = "claim" /\ CON[q] = c}
Handed(c) == \E q \in IF Waiting(c) = {} THEN {NoOne} ELSE Waiting(c) :
               owner' = [owner EXCEPT ![c] = q]
detach(p) == /\ Runs(p) /\ owner[CON[p]] = p /\ Handed(CON[p])
             /\ UNCHANGED <<typed, ring, kbchar, doing, brkctr, scroll, taken>>
-----------------------------------------------------------------------------
(* conbrk(), on every character put out.  A poll takes one character, and   *)
(* after ^S goes on, in the BIOS and so before anyone else, up to ^Q.       *)
pconmine_anyone(p) == owner[CON[p]] \in PROCS \cup {NoOne}
pconmine(p) == owner[CON[p]] \in {p, NoOne}
GotKey(p, k) ==
  LET c == CON[p]
      ends == k.what = "^C" /\ p \notin NOTERM
      stop == k.what = "^S" \/ (scroll = p /\ k.what # "^Q")
  IN /\ kbchar' = IF k.what = "key" \/ (k.what = "^C" /\ ~ends)
                  THEN [kbchar EXCEPT ![c] = k] ELSE kbchar
     /\ scroll' = IF stop /\ ~ends THEN p ELSE NoOne
     /\ IF ends /\ owner[c] = p THEN Handed(c) ELSE UNCHANGED owner
     /\ FromRing(c)
conbrk(p) ==
  LET poll == brkctr + 1 = CONBRK_POLL
  IN /\ Runs(p) /\ brkctr' = (brkctr + 1) % CONBRK_POLL
     /\ IF poll /\ pconmine(p) /\ bconstat(CON[p]) THEN GotKey(p, Head(ring[CON[p]]))
        ELSE UNCHANGED <<kbchar, scroll, owner, ring>>
     /\ UNCHANGED <<typed, doing, taken>>
Stopped(p) == /\ scroll = p /\ bconstat(CON[p]) /\ GotKey(p, Head(ring[CON[p]]))
              /\ UNCHANGED <<typed, doing, brkctr, taken>>

ConNext == \/ \E c \in CONS : Press(c)
           \/ \E p \in PROCS : \/ getch(p) \/ GotConsole(p) \/ Woken(p) \/ Resumed(p) \/ constat(p)
                               \/ detach(p) \/ conbrk(p) \/ Stopped(p)
ConSpec == ConInit /\ [][ConNext]_convars
-----------------------------------------------------------------------------
(* "Recheck buffered input after resuming": what is typed at a console is   *)
(* given to programs in the order it was typed, whoever polls meanwhile:    *)
(* what waits in kbchar was typed after all that was taken, and before all  *)
(* that is in the BIOS.                                                     *)
TypedOrder ==
  \A c \in CONS :
    /\ kbchar[c] # NoKey => taken[c] < kbchar[c].n
    /\ \A i \in DOMAIN ring[c] : taken[c] < ring[c][i].n /\ kbchar[c].n < ring[c][i].n

(* "Output polling must not consume another process's owned console input": *)
(* what a reader waits for does not go to kbchar, where no scan wakes it.   *)
NoDeafReader ==
  \A p \in PROCS : doing[p] = "wait" /\ kbchar[CON[p]] # NoKey => bconstat(CON[p])
=============================================================================
