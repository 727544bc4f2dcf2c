------------------------------- MODULE MCDialog -------------------------------
(* What must never happen in the calls by which programs talk to each other *)
(* and to the console, in the sector cache and in the file transfer.  A     *)
(* behaviour is about one of them, which `part' names, and the others stay  *)
(* where they start.                                                        *)
EXTENDS MCXdos, BufCache, ConIn, LineEdit, KermitCoding, Kermit

VARIABLE part
dialogVars == <<part, vars, diskvars, convars, linevars, codevars, kervars>>

(* A program that reports ^C alone has a console of its own.                *)
Consoles == [p \in {"a", "b", "c"} |-> IF p = "c" THEN 1 ELSE 0]

(* Texts of plain bytes up to where a field ends, then every short text of  *)
(* what encode() tells apart.                                               *)
Kinds == {Sign("plain"), Sign("control"), Sign("#"), Sign("~"), Byte("control", TRUE)}
Filling(n) == [i \in 1 .. n |-> Sign(IF i % 2 = 0 THEN "letter" ELSE "plain")]
Texts == {Filling(n) \o t : n \in {0} \cup 6 .. 9,
                            t \in UNION {[1 .. k -> Kinds] : k \in 0 .. 4}}
SentFiles == {<<>>, <<1>>, <<1, 2, 3>>}

DialogInit ==
  /\ part \in {"calls", "cache", "keys", "line", "coding", "kermit"}
  /\ Init /\ DiskInit /\ ConInit /\ LineInit
  /\ IF part = "coding" THEN CodeInit
     ELSE Coding(<<>>, [rpt |-> FALSE, ebq |-> FALSE, bct |-> 1])
  /\ KermitInit
  /\ part = "kermit" \/ /\ file = <<>> /\ snd.found /\ ~ snd.at
                        /\ \A room \in ROOMS : dest.room <= room

Is(x) == part = x /\ UNCHANGED part
DialogNext ==
  \/ /\ Is("calls") /\ Next
     /\ UNCHANGED <<diskvars, convars, linevars, codevars, kervars>>
  \/ /\ Is("cache") /\ DiskNext
     /\ UNCHANGED <<vars, convars, linevars, codevars, kervars>>
  \/ /\ Is("keys") /\ ConNext
     /\ UNCHANGED <<vars, diskvars, linevars, codevars, kervars>>
  \/ /\ Is("line") /\ LineNext
     /\ UNCHANGED <<vars, diskvars, convars, codevars, kervars>>
  \/ /\ Is("coding") /\ CodeNext
     /\ UNCHANGED <<vars, diskvars, convars, linevars, kervars>>
  \/ /\ Is("kermit") /\ KermitNext
     /\ UNCHANGED <<vars, diskvars, convars, linevars, codevars>>
  \/ part \in {"keys", "coding", "kermit"} /\ UNCHANGED dialogVars  \* they end
DialogSpec == DialogInit /\ [][DialogNext]_dialogVars
=============================================================================
