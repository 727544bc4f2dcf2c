-------------------------------- MODULE Ccp --------------------------------
(***************************************************************************)
(* The command processor (ccp/ccp.c, ccpext.c, ccpgo.c) and what it leaves *)
(* with the system while a program has the TPA (ccp/ccprun.c).  It works   *)
(* on a copy of its state, hands it back at the end of a line and when it  *)
(* asks for a program, and is loaded again when that ends.                 *)
(*                                                                         *)
(* A line is words, "!" between commands and "nul" at its end; a submit    *)
(* file is records of words, "cr", "lf", "!", ";", "$" and "eof".  What    *)
(* becomes of a word's letters, blanks, drives and the search order of     *)
(* cmd_file() are left out.                                                *)
(***************************************************************************)
EXTENDS Naturals, Sequences, SequencesExt

CONSTANTS LINES,         \* what the operator types
          LINELEN,       \* tokens usercmd[] holds (130)
          FILES,         \* name of a submit file -> its records
          RECLEN,        \* tokens of a record (128)
          ANSWERS,       \* what the operator answers to "Enter Filename"
          PROGRAMS,      \* names of program files
          PROFILE,       \* whether A: has a PROFILE.SUB
          HANDLER,       \* cfg_errcmd(): a name, or "" for none
          FLOW,          \* flow_on()
          IFMAX,         \* IFs that may be open (8)
          AREAS          \* user numbers a program or a search may leave
ASSUME CcpAssumption == /\ LINELEN \in Nat /\ RECLEN \in Nat \ {0} /\ IFMAX \in Nat
                        /\ \A l \in LINES : Len(l) < LINELEN
                        /\ \A a \in ANSWERS : Len(a) < RECLEN
                        /\ {FLOW, PROFILE} \subseteq BOOLEAN

VARIABLES sv, res,       \* struct ccpsv: the copy worked on, the resident one
          phase,         \* "boot" (ccprun), "start" and "loop" (main), "program"
          com,           \* com_index, and glb_index when a command is carried out
          usr,           \* the BDOS's user number
          rc,            \* the program return code: whether it says failure
          ran            \* history: the command carried out last
ccpvars == <<sv, res, phase, com, usr, rc, ran>>

(* Pointers into usercmd[] and into subcom[].                              *)
Console(i) == [in |-> "usercmd", at |-> i]
Subcom == [in |-> "subcom", at |-> 1]
Ends == {"!", "nul"}
Text(s, p) == IF p.in = "usercmd" THEN s.usercmd ELSE s.subcom \o <<"nul">>
EndOf(t, i) ==
  CHOOSE j \in i .. Len(t) : t[j] \in Ends /\ \A k \in i .. j - 1 : t[k] \notin Ends
More(s, p) == Text(s, p)[p.at] # "nul"
(* get_parms(): a command is the words up to "!" or the end.               *)
get_parms(s, p) == SubSeq(Text(s, p), p.at, EndOf(Text(s, p), p.at) - 1)
scan_cmd(s, p) ==
  LET t == Text(s, p)
      e == EndOf(t, p.at)
  IN [p EXCEPT !.at = CHOOSE j \in e .. Len(t) : t[j] # "!" /\ \A k \in e .. j - 1 : t[k] = "!"]
(* get_cmd() writes a line over what was in the buffer; the rest stays.    *)
get_cmd(old, l) == l \o <<"nul">> \o SubSeq(old, Len(l) + 2, Len(old))

(* sv_pend with the FCB and the tail.  `file' and `was' are history:       *)
(* whether a submit file gave the command, and the code it found.          *)
NoRequest == [cmd |-> <<>>, file |-> FALSE, was |-> FALSE]

(* ccpsvinit(), and the pointers main() sets when it finds them null.      *)
ccpsvinit ==
  [pend |-> NoRequest, load_try |-> FALSE, first_sub |-> TRUE, chain_sub |-> FALSE,
   end_of_file |-> FALSE, submit |-> FALSE, morecmds |-> FALSE, subprompt |-> FALSE,
   sub_index |-> 1, user |-> 0, subfcb |-> [file |-> "", rec |-> 0], subcom |-> <<>>,
   subdma |-> [i \in 1 .. RECLEN |-> "nul"], save_sub |-> <<>>,
   usercmd |-> [i \in 1 .. LINELEN |-> "nul"], user_ptr |-> Console(1),
   fstk |-> <<>>, profile_done |-> FALSE]

CcpInit == /\ sv = ccpsvinit /\ res = ccpsvinit /\ phase = "boot" /\ com = Console(1)
           /\ usr = 0 /\ rc = FALSE /\ ran = [cmd |-> <<>>, asked |-> FALSE]
-----------------------------------------------------------------------------
(* The submit file: a record read into subdma, and a step over tokens.     *)
Tok(s) == s.subdma[s.sub_index]
read(s) ==
  LET f == s.subfcb
  IN IF f.rec < Len(FILES[f.file])
     THEN [s EXCEPT !.sub_index = 1, !.subdma = FILES[f.file][f.rec + 1], !.subfcb.rec = @ + 1]
     ELSE [s EXCEPT !.sub_index = 1, !.end_of_file = TRUE]
Forward(s, n) == IF s.sub_index + n > RECLEN THEN read(s) ELSE [s EXCEPT !.sub_index = @ + n]
Put(s, ws) == [s EXCEPT !.subcom = @ \o ws]

(* $n is the n-th word of the command that started the file.               *)
Nth == [d \in {"0", "1", "2"} |-> CASE d = "0" -> 0 [] d = "1" -> 1 [] d = "2" -> 2]
Argument(words, d) ==
  LET n == Nth[d] + IF words # <<>> /\ Head(words) = "SUBMIT" THEN 2 ELSE 1
  IN IF n \in DOMAIN words THEN <<words[n]>> ELSE <<>>
dollar(s, fill) ==
  IF s.end_of_file THEN s
  ELSE IF Tok(s) \in DOMAIN Nth
       THEN Forward(Put(s, IF fill THEN Argument(s.save_sub, Tok(s)) ELSE <<>>), 1)
       ELSE LET t == Put(s, IF fill THEN <<"$">> ELSE <<>>)
            IN IF Tok(s) = "$" THEN Forward(t, 1) ELSE t

RECURSIVE comments(_)
comments(s) ==
  IF s.end_of_file THEN s
  ELSE CASE Tok(s) = "eof" -> [s EXCEPT !.end_of_file = TRUE]
         [] Tok(s) = "cr"  -> Forward(s, 2)
         [] Tok(s) = "$"   -> comments(dollar(Forward(s, 1), FALSE))
         [] OTHER          -> comments(Forward(s, 1))

(* translate(): one command filled in, and then the ends of lines and      *)
(* commands passed over.                                                   *)
RECURSIVE Filled(_)
Filled(s) ==
  IF s.end_of_file \/ Tok(s) \in {"cr", "!"} THEN s
  ELSE CASE Tok(s) = ";"   -> Filled(comments(s))
         [] Tok(s) = "$"   -> Filled(dollar(Forward(s, 1), TRUE))
         [] Tok(s) = "lf"  -> Filled(Forward(s, 1))
         [] Tok(s) = "eof" -> [s EXCEPT !.end_of_file = TRUE]
         [] OTHER          -> Filled(Forward(Put(s, <<Tok(s)>>), 1))
RECURSIVE PastEnds(_)
PastEnds(s) == IF s.end_of_file THEN s
               ELSE IF Tok(s) \in {"cr", "lf", "!"} THEN PastEnds(Forward(s, 1))
                    ELSE [s EXCEPT !.end_of_file = Tok(s) = "eof"]
translate(s) == LET t == Filled(s)
                IN IF Tok(t) \in {"cr", "!"} THEN PastEnds(t) ELSE t

submit_cmd(s) ==
  LET empty == [s EXCEPT !.subcom = <<>>]
      begun == IF s.first_sub \/ s.chain_sub
               THEN read([empty EXCEPT !.subdma = [i \in 1 .. RECLEN |-> "nul"]]) ELSE empty
  IN IF begun.end_of_file THEN begun ELSE translate(begun)
-----------------------------------------------------------------------------
(* IF, ELSE and FI: flow_line().                                           *)
flow_skip(s) == \E i \in DOMAIN s.fstk : s.fstk[i] # "exec"
Holds(words, found) ==
  LET no == Len(words) > 1 /\ words[2] = "NOT"
      n  == IF no THEN 3 ELSE 2
      v  == /\ n \in DOMAIN words
            /\ \/ words[n] = "TRUE"
               \/ words[n] = "ERROR" /\ rc
               \/ words[n] = "EXIST" /\ found
  IN v # no
Flipped(f) == CASE f = "exec" -> "skip" [] f = "skip" -> "exec" [] OTHER -> f
flow_line(s, words, found) ==
  LET top == Len(s.fstk)
      new == IF flow_skip(s) THEN "dead" ELSE IF Holds(words, found) THEN "exec" ELSE "skip"
  IN CASE Head(words) = "IF" -> [s EXCEPT !.fstk = IF top < IFMAX THEN Append(@, new) ELSE @]
       [] Head(words) = "ELSE" -> IF top = 0 THEN s ELSE [s EXCEPT !.fstk[top] = Flipped(@)]
       [] Head(words) = "FI" -> IF top = 0 THEN s ELSE [s EXCEPT !.fstk = Front(@)]
-----------------------------------------------------------------------------
(* The end of main()'s loop: on to the next command of the line; of the    *)
(* file, when one is under way; or of the line the file was named on.      *)
RECURSIVE Refill(_)
Refill(s) ==
  IF s.end_of_file THEN [sv |-> [s EXCEPT !.submit = FALSE], com |-> s.user_ptr]
  ELSE LET t == submit_cmd(s)
       IN IF t.subcom = <<>> THEN Refill(t) ELSE [sv |-> t, com |-> Subcom]
(* copy_cmd(): the command that started the file, for its arguments.       *)
copy_cmd(s) ==
  [s EXCEPT !.subprompt = FALSE,
            !.save_sub = IF s.subprompt
                         THEN <<Head(get_parms(s, com))>>
                              \o SubSeq(s.subdma, 1, EndOf(s.subdma, 1) - 1)
                         ELSE get_parms(s, com)]
Begin(s) == LET c == copy_cmd(s)
                t == submit_cmd(IF s.first_sub THEN [c EXCEPT !.user_ptr = scan_cmd(s, com)] ELSE c)
                u == [t EXCEPT !.first_sub = FALSE, !.chain_sub = IF s.first_sub THEN @ ELSE FALSE]
            IN IF u.subcom = <<>> THEN Refill(u) ELSE [sv |-> u, com |-> Subcom]
Advance(s) == CASE ~ s.submit -> [sv |-> s, com |-> scan_cmd(s, com)]
                [] s.submit /\ (s.first_sub \/ s.chain_sub) -> Begin(s)
                [] OTHER -> Refill(s)
To(next) == sv' = next.sv /\ com' = next.com /\ UNCHANGED <<res, phase>>

(* A mistaken one forgets the line on which the file was named.            *)
check_cmd_forgets(s) ==
  LET t == Text(s, com)
      e == EndOf(t, com.at)
  IN IF t[e] = "!" /\ t[e + 1] # "nul"
     THEN [s EXCEPT !.morecmds = TRUE, !.user_ptr = [com EXCEPT !.at = e + 1]]
     ELSE [s EXCEPT !.morecmds = s.submit /\ ~ s.end_of_file, !.submit = @ /\ ~ s.end_of_file]
(* What a load leaves for later: check_cmd().                              *)
check_cmd(s) ==
  LET t == Text(s, com)
      e == EndOf(t, com.at)
  IN IF t[e] = "!" /\ t[e + 1] # "nul"
     THEN [s EXCEPT !.morecmds = TRUE, !.user_ptr = [com EXCEPT !.at = e + 1]]
     ELSE IF ~ s.submit THEN [s EXCEPT !.morecmds = FALSE]
     ELSE IF ~ s.end_of_file THEN [s EXCEPT !.morecmds = TRUE]
     ELSE [s EXCEPT !.submit = FALSE, !.morecmds = More(s, s.user_ptr) \/ @]
(* __LOAD(): the request posted, the state handed back, a warm boot.       *)
LOAD(s, words) ==
  /\ res' = [s EXCEPT !.pend = [cmd |-> words, file |-> com.in = "subcom", was |-> rc]]
  /\ sv' = res' /\ phase' = "boot" /\ UNCHANGED <<com, ran>>
(* cmd_file() has found a program, which leaves the user number of the     *)
(* group it was found in, or a submit file, begun or chained to.           *)
Opened(s, f) == [s EXCEPT !.first_sub = @ \/ ~ s.submit, !.chain_sub = @ \/ s.submit,
                          !.subfcb = [file |-> f, rec |-> 0], !.submit = TRUE,
                          !.end_of_file = FALSE]
Done(s, words, asked) == To(Advance(s)) /\ ran' = [cmd |-> words, asked |-> asked]
Sought(s) == [s EXCEPT !.user = usr]
Found(name) == name \in PROGRAMS \cup DOMAIN FILES
cmd_file(name, words) ==
  IF name \in PROGRAMS
  THEN LOAD(check_cmd([Sought(sv) EXCEPT !.load_try = TRUE]), words) /\ usr' \in AREAS
  ELSE Done(Opened(Sought(sv), name), words, FALSE) /\ UNCHANGED usr
-----------------------------------------------------------------------------
(* execute_cmd(), one action for each kind of command.                     *)
FlowWords == {"IF", "ELSE", "FI"}
Builtins == {"DIR", "TYPE", "ERA", "USER", "SUBMIT"}
Now == get_parms(sv, com)
Turn == phase = "loop" /\ More(sv, com)
Live == ~ (FLOW /\ flow_skip(sv))
Flows == FLOW /\ Now # <<>> /\ Head(Now) \in FlowWords
Command(w) == Turn /\ Now # <<>> /\ Head(Now) = w /\ Live

Blank == Turn /\ Now = <<>> /\ To(Advance(sv)) /\ UNCHANGED <<usr, rc, ran>>
Flow == /\ Turn /\ Flows /\ \E found \in BOOLEAN : To(Advance(flow_line(sv, Now, found)))
        /\ UNCHANGED <<usr, rc, ran>>
Skip == /\ Turn /\ Now # <<>> /\ ~ Flows /\ ~ Live /\ To(Advance(sv))
        /\ UNCHANGED <<usr, rc, ran>>

dir_cmd  == Command("DIR") /\ rc' = FALSE /\ Done(sv, Now, FALSE) /\ UNCHANGED usr
type_cmd == Command("TYPE") /\ rc' \in BOOLEAN /\ Done(sv, Now, FALSE) /\ UNCHANGED usr
Wild(words) == Len(words) > 1 /\ words[2] = "*"
era_cmd  == /\ Command("ERA") /\ rc' \in BOOLEAN /\ UNCHANGED usr
            /\ Done(sv, Now, Wild(Now) /\ ~ sv.submit)
Number(words) == IF words[2] = "0" THEN 0 ELSE 1
user_cmd == /\ Command("USER") /\ rc' = FALSE /\ usr' = Number(Now)
            /\ Done([sv EXCEPT !.user = usr'], Now, FALSE)

(* The name to submit is on the line, or asked for: get_cmd(subdma).       *)
Submits(s, name) ==
  /\ rc' = (name \notin DOMAIN FILES) /\ UNCHANGED usr
  /\ Done(IF name \in DOMAIN FILES THEN Opened(Sought(s), name) ELSE Sought(s), Now, FALSE)
SubmitCommand ==
  /\ Command("SUBMIT")
  /\ IF Len(Now) > 1 THEN Submits([sv EXCEPT !.subprompt = FALSE], Now[2])
     ELSE \E a \in ANSWERS :
            LET s == [sv EXCEPT !.subprompt = TRUE, !.subdma = get_cmd(@, a)]
            IN IF a # <<>> THEN Submits(s, Head(a))
               ELSE rc' = FALSE /\ Done(s, Now, FALSE) /\ UNCHANGED usr

(* A program or a submit file by its name; else errhook(), if the handler  *)
(* is there.                                                               *)
File == /\ Turn /\ Now # <<>> /\ Live /\ ~ Flows /\ Head(Now) \notin Builtins
        /\ Found(Head(Now)) /\ rc' = FALSE /\ cmd_file(Head(Now), Now)
errhook == /\ Turn /\ Now # <<>> /\ Live /\ ~ Flows /\ Head(Now) \notin Builtins
           /\ ~ Found(Head(Now)) /\ rc' = TRUE
           /\ IF Found(HANDLER) THEN cmd_file(HANDLER, Now)
              ELSE Done(Sought(sv), Now, FALSE) /\ UNCHANGED usr
-----------------------------------------------------------------------------
Profile == <<"PROFILE">>
(* main(): the state fetched, and what there is to do.                     *)
Begun(s, c) == sv' = s /\ com' = c
main ==
  /\ phase = "start" /\ phase' = "loop" /\ UNCHANGED <<res, rc, ran>>
  /\ usr' = IF res.load_try THEN res.user ELSE usr
  /\ LET g == [res EXCEPT !.load_try = FALSE, !.morecmds = FALSE]
         line(l) == [g EXCEPT !.fstk = <<>>, !.profile_done = TRUE, !.usercmd = get_cmd(@, l)]
     IN CASE res.morecmds /\ res.submit -> Begun(submit_cmd(g), Subcom)
          [] res.morecmds /\ ~ res.submit -> Begun(g, g.user_ptr)
          [] ~ res.morecmds /\ ~ res.profile_done /\ PROFILE ->
               Begun(line(Profile), Console(1))
          [] OTHER -> \E l \in LINES : Begun(line(l), Console(1))
(* The end of the line: the state handed back, ccpsvput().                 *)
EndOfLine == /\ phase = "loop" /\ ~ More(sv, com)
             /\ res' = sv /\ phase' = "start" /\ UNCHANGED <<sv, com, usr, rc, ran>>

(* ccprun(): the program that was asked for, which may not load; or the    *)
(* command processor.                                                      *)
ccprun ==
  /\ phase = "boot" /\ UNCHANGED <<com, usr, rc>>
  /\ IF res.pend.cmd # <<>>
     THEN /\ res' = [res EXCEPT !.pend = NoRequest] /\ phase' \in {"program", "boot"}
          /\ ran' = [cmd |-> res.pend.cmd, asked |-> FALSE]
     ELSE phase' = "start" /\ UNCHANGED <<res, ran>>
  /\ sv' = res'

(* The program ends, in any user area, with a code of its own or not.      *)
ProgramEnds == /\ phase = "program" /\ phase' = "boot"
               /\ usr' \in AREAS /\ rc' \in {rc, FALSE, TRUE}
               /\ UNCHANGED <<sv, res, com, ran>>
(* ^C, at the prompt, in a command or in a program: ccpabort().            *)
ccpabort == /\ phase # "boot" /\ phase' = "boot"
            /\ res' = [res EXCEPT !.submit = FALSE, !.morecmds = FALSE] /\ sv' = res'
            /\ rc' = TRUE /\ ran' = [cmd |-> <<"^C">>, asked |-> FALSE]
            /\ UNCHANGED <<com, usr>>

CcpNext == \/ main \/ EndOfLine \/ Blank \/ Flow \/ Skip
           \/ dir_cmd \/ type_cmd \/ era_cmd \/ user_cmd \/ SubmitCommand \/ File \/ errhook
           \/ ccprun \/ ProgramEnds \/ ccpabort
CcpSpec == CcpInit /\ [][CcpNext]_ccpvars
-----------------------------------------------------------------------------
(* What a line and a file say, read as a whole: commands separated by "!"  *)
(* and by ends of lines, without comments; each with its last token.       *)
UpTo(mark, t) == SubSeq(t, 1, SelectInSeq(t, LAMBDA x : x = mark) - 1)
FileText == [f \in DOMAIN FILES |-> UpTo("eof", FlattenSeq(FILES[f]))]
Commands == [t \in LINES \cup {Profile} \cup {FileText[f] : f \in DOMAIN FILES} |->
  LET silent(i) == \E j \in 1 .. i : t[j] = ";" /\ \A k \in j .. i : t[k] # "cr"
      ends == SelectSeq([i \in 1 .. Len(t) + 1 |-> i],
                        LAMBDA i : i > Len(t) \/ (t[i] \in {"cr", "!"} /\ ~ silent(i)))
      words(n) == SelectSeq([i \in 1 .. ends[n] - 1 |-> i],
                            LAMBDA i : (n = 1 \/ i > ends[n - 1]) /\ t[i] # "lf" /\ ~ silent(i))
      command(n) == [last |-> ends[n] - 1, words |-> [i \in DOMAIN words(n) |-> t[words(n)[i]]]]
  IN SelectSeq([n \in DOMAIN ends |-> command(n)], LAMBDA c : c.words # <<>>)]
WithArguments(words, args) ==
  FlattenSeq([i \in DOMAIN words |->
    CASE words[i] = "$" -> <<>>
      [] words[i] \in DOMAIN Nth /\ i > 1 /\ words[i - 1] = "$" -> Argument(args, words[i])
      [] OTHER -> <<words[i]>>])
(* The commands from a place on, with the arguments filled in.             *)
From(place, t, args) ==
  LET due == SelectSeq(Commands[t], LAMBDA c : c.last >= place)
  IN SelectSeq([n \in DOMAIN due |-> WithArguments(due[n].words, args)], LAMBDA c : c # <<>>)

(* What the state says is still to come.                                   *)
Saved == IF phase = "loop" THEN sv ELSE res
OfFile(s) == IF ~ s.submit \/ s.end_of_file THEN <<>>
             ELSE From((s.subfcb.rec - 1) * RECLEN + s.sub_index, FileText[s.subfcb.file],
                       s.save_sub)
OfLine(s, p) == From(p.at, UpTo("nul", s.usercmd), <<>>)
Requested == Saved.pend.cmd # <<>>
script ==
  IF phase = "loop" THEN (IF com.in = "subcom" THEN <<sv.subcom>> ELSE <<>>) \o OfFile(sv)
  ELSE (IF Requested /\ res.pend.file THEN <<res.pend.cmd>> ELSE <<>>)
       \o IF res.morecmds THEN OfFile(res) ELSE <<>>
line ==
  IF phase = "loop" THEN OfLine(sv, IF sv.submit THEN sv.user_ptr ELSE com)
  ELSE (IF Requested /\ ~ res.pend.file THEN <<res.pend.cmd>> ELSE <<>>)
       \o IF res.morecmds THEN OfLine(res, res.user_ptr) ELSE <<>>
arms == IF script = <<>> /\ line = <<>> THEN <<>>
        ELSE [i \in DOMAIN Saved.fstk |-> Saved.fstk[i] = "exec"]
area == IF phase # "loop" /\ res.load_try THEN res.user ELSE usr
failed == IF Requested THEN res.pend.was ELSE rc

(* The promise's view of a command.                                        *)
Named(cmd) == IF Head(cmd) # "SUBMIT" THEN Head(cmd) ELSE IF Len(cmd) > 1 THEN cmd[2] ELSE ""
ScriptKind(cmd) ==
  CASE cmd = <<>> -> "own"
    [] cmd # <<>> /\ FLOW /\ Head(cmd) = "IF" ->
         IF cmd = <<"IF", "ERROR">> THEN "if error"
         ELSE IF cmd = <<"IF", "NOT", "ERROR">> THEN "if not error" ELSE "if"
    [] cmd # <<>> /\ FLOW /\ Head(cmd) = "ELSE" -> "else"
    [] cmd # <<>> /\ FLOW /\ Head(cmd) = "FI" -> "fi"
    [] cmd # <<>> /\ ~ (FLOW /\ Head(cmd) \in FlowWords) ->
         IF cmd = <<"SUBMIT">> \/ Named(cmd) \in DOMAIN FILES \ PROGRAMS THEN "submit"
         ELSE IF \/ Head(cmd) \in PROGRAMS
                 \/ Head(cmd) \notin Builtins /\ HANDLER \in PROGRAMS THEN "program" ELSE "own"
ScriptContents(cmd) ==
  IF Named(cmd) # "" THEN {From(1, FileText[Named(cmd)], cmd)}
  ELSE {From(1, FileText[Head(a)], <<"SUBMIT">> \o a) : a \in ANSWERS}
ScriptOutcomes(cmd) ==
  IF Head(cmd) \in {"TYPE", "ERA"} THEN BOOLEAN
  ELSE {Named(cmd) \notin PROGRAMS \cup DOMAIN FILES \cup {"", "DIR", "USER"}}
Promise == INSTANCE Script WITH
  Lines <- {From(1, l, <<>>) : l \in LINES \cup {Profile}},
  Kind <- ScriptKind, Contents <- ScriptContents, Outcomes <- ScriptOutcomes,
  Asks <- LAMBDA cmd : Head(cmd) = "ERA" /\ Wild(cmd),
  Chosen <- LAMBDA cmd, a : IF Head(cmd) = "USER" THEN {Number(cmd)} ELSE {a},
  Areas <- AREAS, did <- ran

(* The steps of the processor are steps of the promise.                    *)
StepKept == [Promise!Next]_(Promise!svars)
=============================================================================
