------------------------------ MODULE LineEdit ------------------------------
(***************************************************************************)
(* Function 10, readline() of conbdos.c: lines being edited, one on each   *)
(* console, and what the screens show.  A key is taken and obeyed in one   *)
(* step, for only getch() gives the machine away; stcol and the line ^W    *)
(* gives back are module data that every line shares.                      *)
(***************************************************************************)
EXTENDS Naturals, Sequences
CONSTANTS CONSOLES,   \* where a line may be edited
          CHARS,      \* what is typed into it, of "a", "tab" and "ctl"
          LINEMAX,    \* p->maxlen
          PROMPTS,    \* columns at which a line may start
          TABS,       \* a tab's columns (8)
          WIDTH,      \* columns of a row
          ECHODEL     \* GBL.echodel: RUB sends the deleted character again
ASSUME LineAssumption == /\ LINEMAX \in Nat /\ TABS \in Nat \ {0} /\ PROMPTS \subseteq Nat
                         /\ CHARS \subseteq {"a", "tab", "ctl"} /\ ECHODEL \in BOOLEAN
                         /\ WIDTH \in Nat
                         /\ \A n \in PROMPTS : n + (LINEMAX + 1) * TABS <= WIDTH  \* a line fits

VARIABLES line, cur,    \* p->cbuf and the cursor in it, per console
          screen,       \* the row the cursor is in, and its column GBL.column
          start,        \* the column the line really started in
          editing,      \* a program is in readline(); "apart" once the screen
                        \* shows more than the line by intent
          stcol, lastlin
linevars == <<line, cur, screen, start, editing, stcol, lastlin>>

Blank == [i \in 0 .. WIDTH - 1 |-> " "]
LineInit == /\ line = [c \in CONSOLES |-> <<>>] /\ cur = [c \in CONSOLES |-> 0]
            /\ screen = [c \in CONSOLES |-> [col |-> 0, row |-> Blank]]
            /\ start = [c \in CONSOLES |-> 0] /\ editing = [c \in CONSOLES |-> "no"]
            /\ stcol = 0 /\ lastlin = <<>>
-----------------------------------------------------------------------------
(* The screen s, column and row.  cookdout() expands a tab and shows a      *)
(* control character as two.                                                *)
conout(s, ch) == CASE ch = "cr" -> [s EXCEPT !.col = 0]
                   [] ch = "lf" -> [s EXCEPT !.row = Blank]
                   [] ch = "bs" -> [s EXCEPT !.col = s.col - 1]
                   [] OTHER -> [col |-> s.col + 1, row |-> [s.row EXCEPT ![s.col] = ch]]
Spaces(s, n) ==
  [col |-> s.col + n,
   row |-> [i \in DOMAIN s.row |-> IF s.col <= i /\ i < s.col + n THEN " " ELSE s.row[i]]]
cookdout(s, ch) == CASE ch = "tab" -> Spaces(s, TABS - (s.col % TABS))
                     [] ch = "ctl" -> conout(conout(s, "^"), "Z")
                     [] OTHER -> conout(s, ch)
toend(s, p, n) ==
  LET shown[i \in n .. Len(p)] == IF i = n THEN s ELSE cookdout(shown[i - 1], p[i])
  IN shown[Len(p)]
newline(s) == Spaces(conout(conout(s, "cr"), "lf"), stcol)

Forward(col, ch) == CASE ch = "tab" -> col + TABS - (col % TABS)
                      [] ch = "ctl" -> col + 2
                      [] OTHER -> col + 1
Columns(base, p) ==      \* where the cursor stands at each character of p
  LET col[i \in 0 .. Len(p)] == IF i = 0 THEN base ELSE Forward(col[i - 1], p[i]) IN col
colof(p, n) == Columns(stcol, p)[n]
backto(s, col) == IF s.col > col THEN [s EXCEPT !.col = col] ELSE s
gotoch(s, p, n) == backto(s, colof(p, n))
repaint_short(s, p, from, at, oldend) == gotoch(toend(s, p, from), p, at)
repaint(s, p, from, at, oldend) ==
  LET shown == toend(s, p, from)
      wiped == IF shown.col < oldend THEN Spaces(shown, oldend - shown.col) ELSE shown
  IN gotoch([wiped EXCEPT !.col = shown.col], p, at)

delch(p, at) == SubSeq(p, 1, at) \o SubSeq(p, at + 2, Len(p))
-----------------------------------------------------------------------------
(* readline() up to its first key: on this console's next row, after the    *)
(* program's prompt.                                                        *)
BeginLine(c, n) ==
  /\ editing[c] = "no" /\ n \in PROMPTS
  /\ editing' = [editing EXCEPT ![c] = "yes"] /\ start' = [start EXCEPT ![c] = n]
  /\ screen' = [screen EXCEPT ![c] = [col |-> n, row |-> Blank]]
  /\ stcol' = n
  /\ line' = [line EXCEPT ![c] = <<>>] /\ cur' = [cur EXCEPT ![c] = 0]
  /\ UNCHANGED lastlin

(* What a key does to the line p, the cursor at and the screen s.  A screen *)
(* that is apart is not followed: only ^U, ^R and the next line end that,   *)
(* and each begins a row of its own.                                        *)
Unfollowed == [col |-> 0, row |-> Blank]
Edited(c, p, at, s, how) ==
  /\ line' = [line EXCEPT ![c] = p] /\ cur' = [cur EXCEPT ![c] = at]
  /\ screen' = [screen EXCEPT ![c] = IF how = "apart" THEN Unfollowed ELSE s]
  /\ editing' = [editing EXCEPT ![c] = how]
  /\ UNCHANGED <<start, stcol>>
Plainly(c, p, at, s) == Edited(c, p, at, s, editing[c]) /\ UNCHANGED lastlin
savelin(p) == lastlin' = IF p = <<>> THEN lastlin ELSE p

Open(c) == editing[c] # "no"
oldend(c) == colof(line[c], Len(line[c]))
EnterKey(c) == /\ Open(c) /\ savelin(line[c])
               /\ Edited(c, line[c], cur[c], conout(screen[c], "cr"), "no")
Insert(c, ch) ==
  LET p == line[c]  q == SubSeq(p, 1, cur[c]) \o <<ch>> \o SubSeq(p, cur[c] + 1, Len(p))
  IN /\ Open(c) /\ Len(p) < LINEMAX
     /\ Plainly(c, q, cur[c] + 1, repaint(screen[c], q, cur[c], cur[c] + 1, oldend(c)))
EchoedRub(c) == ECHODEL /\ cur[c] = Len(line[c])
Rub(c, key) ==
  LET at == cur[c] - 1  p == delch(line[c], at)
  IN /\ Open(c) /\ cur[c] > 0
     /\ IF key = "rub" /\ EchoedRub(c)
        THEN Edited(c, p, at, conout(screen[c], line[c][cur[c]]), "apart") /\ UNCHANGED lastlin
        ELSE Plainly(c, p, at, repaint(gotoch(screen[c], p, at), p, at, at, oldend(c)))
CtrlG(c) == LET p == delch(line[c], cur[c])
            IN /\ Open(c) /\ cur[c] < Len(line[c])
               /\ Plainly(c, p, cur[c], repaint(screen[c], p, cur[c], cur[c], oldend(c)))
CtrlA(c) == /\ Open(c) /\ cur[c] > 0
            /\ Plainly(c, line[c], cur[c] - 1, gotoch(screen[c], line[c], cur[c] - 1))
CtrlF(c) == /\ Open(c) /\ cur[c] < Len(line[c])
            /\ Plainly(c, line[c], cur[c] + 1, cookdout(screen[c], line[c][cur[c] + 1]))
CtrlB(c) == /\ Open(c)
            /\ IF cur[c] > 0 THEN Plainly(c, line[c], 0, backto(screen[c], stcol))
               ELSE Plainly(c, line[c], Len(line[c]), toend(screen[c], line[c], 0))
CtrlK(c) == LET p == SubSeq(line[c], 1, cur[c])
            IN Open(c) /\ Plainly(c, p, cur[c], repaint(screen[c], p, cur[c], cur[c], oldend(c)))
CtrlW(c) ==
  LET back == SubSeq(lastlin, 1, IF Len(lastlin) < LINEMAX THEN Len(lastlin) ELSE LINEMAX)
  IN /\ Open(c)
     /\ \/ /\ cur[c] < Len(line[c])
           /\ Plainly(c, line[c], Len(line[c]), toend(screen[c], line[c], cur[c]))
        \/ /\ line[c] = <<>>
           /\ Plainly(c, back, Len(back), toend(screen[c], back, 0))
CtrlX(c) == LET p == SubSeq(line[c], cur[c] + 1, Len(line[c]))
            IN /\ Open(c) /\ cur[c] > 0
               /\ Plainly(c, p, 0, repaint(backto(screen[c], stcol), p, 0, 0, oldend(c)))
CtrlE(c) == /\ Open(c) /\ UNCHANGED lastlin
            /\ Edited(c, line[c], cur[c], newline(screen[c]),
                      IF line[c] # <<>> THEN "apart" ELSE editing[c])
CtrlU(c) == /\ Open(c) /\ savelin(line[c])
            /\ Edited(c, <<>>, 0, newline(conout(screen[c], "#")), "yes")
CtrlR(c) == /\ Open(c) /\ UNCHANGED lastlin
            /\ Edited(c, line[c], Len(line[c]),
                      toend(newline(conout(screen[c], "#")), line[c], 0), "yes")

Key(c) == \/ EnterKey(c) \/ CtrlG(c) \/ CtrlA(c) \/ CtrlF(c) \/ CtrlB(c) \/ CtrlK(c) \/ CtrlW(c)
          \/ CtrlX(c) \/ CtrlE(c) \/ CtrlU(c) \/ CtrlR(c)
          \/ \E ch \in CHARS : Insert(c, ch)
          \/ \E key \in {"bs", "rub"} : Rub(c, key)
LineNext == \E c \in CONSOLES : Key(c) \/ \E n \in PROMPTS : BeginLine(c, n)
LineSpec == LineInit /\ [][LineNext]_linevars
-----------------------------------------------------------------------------
(* "Repaint only the changed suffix; tabs use the starting column": after   *)
(* every key the row shows the line, and nothing of an older one, and the   *)
(* cursor stands at the character it is at.                                 *)
Shown(c, p) == toend([col |-> start[c], row |-> Blank], p, 0)
ScreenShowsLine ==
  \A c \in CONSOLES : editing[c] = "yes" =>
    /\ screen[c].row = Shown(c, line[c]).row
    /\ screen[c].col = Shown(c, SubSeq(line[c], 1, cur[c])).col
=============================================================================
