------------------------------- MODULE Script -------------------------------
(***************************************************************************)
(* What a command processor promises whoever types at it: the commands of  *)
(* a line are carried out one after another, each once; a submit file      *)
(* stands for its commands, and one named in a submit file replaces what   *)
(* is left of it; a branch not taken is passed over; a program leaves the  *)
(* user area as it found it.  A break drops the rest.                      *)
(***************************************************************************)
EXTENDS Naturals, Sequences
CONSTANTS Lines,         \* the command sequences a console line may be
          Kind(_),       \* "if error", "if not error", "if", "else", "fi", "submit",
                         \* "program", "own"
          Asks(_),       \* whether the operator is asked before it, unless a file does
          Contents(_),   \* the command sequences a submit command may stand for
          Outcomes(_),   \* whether a command fails: subsets of BOOLEAN
          Chosen(_, _),  \* the user areas a command may leave, from the one it ran in
          Areas

VARIABLES script,        \* commands of the submit file still to come
          line,          \* commands of the console line still to come
          arms,          \* of each open IF, whether its branch is taken
          area,          \* the user area commands run in
          failed,        \* what IF ERROR asks
          did            \* the command carried out last, and whether it asked
svars == <<script, line, arms, area, failed, did>>

Nothing == [cmd |-> <<>>, asked |-> FALSE]
Init == /\ script = <<>> /\ line = <<>> /\ arms = <<>> /\ did = Nothing
        /\ area = 0 /\ failed = FALSE

Waiting == script # <<>> \/ line # <<>>
Live == \A i \in DOMAIN arms : arms[i]
Due  == IF script # <<>> THEN Head(script) ELSE Head(line)
Drop == /\ Waiting
        /\ IF script # <<>> THEN script' = Tail(script) /\ UNCHANGED line
                            ELSE line' = Tail(line) /\ UNCHANGED script
(* When nothing is left to do the open IFs are closed.                     *)
Open(a) == arms' = IF Waiting' THEN a ELSE <<>>

(* A line is read when nothing is left to do.                              *)
Type == ~ Waiting /\ line' \in Lines /\ UNCHANGED <<script, arms, area, failed, did>>

(* Branches.  An IF asks about the command carried out before it.          *)
Last == Len(arms)
Branch == /\ Drop /\ UNCHANGED <<area, failed, did>>
          /\ \/ Kind(Due) = "if error" /\ Open(Append(arms, Live /\ failed))
             \/ Kind(Due) = "if not error" /\ Open(Append(arms, Live /\ ~ failed))
             \/ Kind(Due) = "if" /\ \E taken \in BOOLEAN : Open(Append(arms, Live /\ taken))
             \/ /\ Kind(Due) = "else"
                /\ Open(IF arms # <<>> /\ \A i \in 1 .. Last - 1 : arms[i]
                        THEN [arms EXCEPT ![Last] = ~ @] ELSE arms)
             \/ Kind(Due) = "fi" /\ Open(IF arms = <<>> THEN arms ELSE SubSeq(arms, 1, Last - 1))
             \/ Kind(Due) \in {"own", "program", "submit"} /\ ~ Live /\ Open(arms)

(* The command that is due is carried out.                                 *)
Perform == /\ Waiting /\ Live
           /\ did' = [cmd |-> Due, asked |-> Asks(Due) /\ script = <<>>]
           /\ failed' \in Outcomes(Due) /\ Open(arms)
Act    == /\ Waiting /\ Kind(Due) \in {"own", "program"} /\ Perform
          /\ Drop /\ area' \in Chosen(Due, area)
Submit == /\ Waiting /\ Kind(Due) = "submit" /\ Perform /\ script' \in Contents(Due) /\ UNCHANGED area
          /\ line' = IF script = <<>> THEN Tail(line) ELSE line
(* A program says how it ended.                                            *)
Report == Kind(did.cmd) = "program" /\ failed' \in BOOLEAN /\ UNCHANGED <<script, line, arms, area, did>>

(* ^C: nothing more of the line or the file is carried out.                *)
Stopped == [cmd |-> <<"^C">>, asked |-> FALSE]
Break == /\ script' = <<>> /\ line' = <<>> /\ arms' = <<>> /\ did' = Stopped
         /\ area' \in Areas /\ failed' = TRUE

Next == Type \/ Branch \/ Act \/ Submit \/ Report \/ Break
Spec == Init /\ [][Next]_svars
=============================================================================
