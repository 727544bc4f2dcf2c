------------------------------ MODULE MCPrograms ------------------------------
(* The programs that come with the system: the command processor, and the   *)
(* two emulators, the flags their executors put off and their bridges to    *)
(* the BDOS.  A behaviour is about one of the five, which `part' names; the *)
(* others stay where they start.                                            *)
EXTENDS Ccp, Executors, Bridges

(* What is typed, and the files: nested branches across the loads of       *)
(* programs, a chained file, arguments given, missing and passed on, a     *)
(* comment, commands and ends of lines cut by the end of a record.         *)
Typed == {<<"B", "x">>, <<"SUBMIT", "!", "DIR">>,
  <<"!", "IF", "NOT", "ERROR", "!", "ERA", "*", "!", "A", "!", "FI", "!", "P", "!", "USER", "1">>,
  <<"SUBMIT", "A", "x", "!", "IF", "EXIST", "!", "IF", "TRUE", "!", "ERA", "*", "!", "ELSE", "!", "P">>}
SubA == <<<<"P", "cr", "lf", "ERA">>, <<"*", "!", "$", "1">>, <<"cr", "lf", "TYPE", "!">>,
          <<"B", "DIR", "cr", "lf">>, <<"DIR", "cr", "lf", "eof">>>>
SubB == <<<<"IF", "ERROR", "cr", "lf">>, <<"P", "$", "1", "!">>, <<"ELSE", "cr", "lf", ";">>,
          <<"DIR", "cr", "lf", "Q">>, <<"cr", "lf", "FI", "cr">>, <<"lf", "USER", "0", "!">>,
          <<"P", "eof", "eof", "eof">>>>
SubProfile == <<<<"USER", "1", "cr", "lf">>, <<"P", "cr", "lf", "eof">>>>
SubFiles == [f \in {"A", "B", "PROFILE"} |-> CASE f = "A" -> SubA [] f = "B" -> SubB [] OTHER -> SubProfile]
Answered == {<<"B", "DIR">>}

VARIABLE part
programVars == <<part, ccpvars, z80vars, i86vars, seamvars, seam86vars>>

Parts == {"ccp", "z80 flags", "i86 flags", "z80 bridge", "i86 bridge"}
Alone == CHOOSE f \in PSWS : TRUE
Alone86 == CHOOSE f \in PSWS86 : TRUE
ProgramInit == /\ part \in Parts
            /\ Z80Init /\ (part = "z80 flags" \/ eager = Alone)
            /\ I86Init /\ (part = "i86 flags" \/ eager86 = Alone86)
            /\ z80bdosinit /\ i86bdosinit /\ CcpInit

ProgramNext ==
  \/ part = "ccp" /\ CcpNext /\ UNCHANGED <<part, z80vars, i86vars, seamvars, seam86vars>>
  \/ part = "z80 flags" /\ Z80Next /\ UNCHANGED <<part, ccpvars, i86vars, seamvars, seam86vars>>
  \/ part = "i86 flags" /\ I86Next /\ UNCHANGED <<part, ccpvars, z80vars, seamvars, seam86vars>>
  \/ part = "z80 bridge" /\ SeamNext /\ UNCHANGED <<part, ccpvars, z80vars, i86vars, seam86vars>>
  \/ part = "i86 bridge" /\ Seam86Next /\ UNCHANGED <<part, ccpvars, z80vars, i86vars, seamvars>>
  \/ (~ z80.running \/ ~ i86.running) /\ UNCHANGED programVars   \* the guest has ended
ProgramSpec == ProgramInit /\ [][ProgramNext]_programVars
-----------------------------------------------------------------------------
(* Whatever a line, a submit file and the programs they name do, each      *)
(* command is carried out once and in its turn: across the records of the  *)
(* file, chained files, branches, and the loads of programs between, which *)
(* lose all but the resident copy; and a ^C drops the rest: check_cmd(),   *)
(* submit_cmd(), __LOAD(), ccprun(), ccpabort().                           *)
ScriptKept == /\ part = "ccp" => Promise!Init
              /\ [][part = "ccp" => StepKept]_programVars
=============================================================================
