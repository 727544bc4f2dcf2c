------------------------------ MODULE MCDirHash ------------------------------
(* Small instances of the directory signatures: one program scans, resets  *)
(* and formats drives, another selects them; one drive lies beyond the     *)
(* table hashen[] of two.                                                  *)
EXTENDS DirHash

Hashed == [d \in {0, 2} |-> {TRUE}]
Users == [p \in {"p", "q"} |-> IF p = "p" THEN {"scan", "reset", "format"} ELSE {}]
Formatter == [p \in {"p"} |-> {"scan", "format"}]
Extent(n) == [usr |-> 0, nam |-> "a", ext |-> n]
SecondExtent == {Extent(1)}
FirstExtent == {Extent(0)}
Hashing == [n \in {"", "a"} |-> IF n = "" THEN 0 ELSE 1]
==============================================================================
