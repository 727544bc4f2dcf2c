-------------------------------- MODULE MCFiles --------------------------------
(* The casts and answers of the runs of module Files. *)
EXTENDS Files, TLC

Does(a, S) == [asks |-> a, ops |-> S]

(* Two processes use the same files; disk errors are returned to them.     *)
QuietWriters ==
  {[p \in Procs |->
      CASE p = 0 -> Does(FALSE, {})
        [] p = 1 -> Does(FALSE, {"make", "open", "write", "close"})
        [] p = 2 -> Does(FALSE, {"open", "write", "close", "delete", "reset"})]}

(* Another looks on, and stops at the operator's prompt in the middle.     *)
QuietEditors ==
  {[p \in Procs |->
      CASE p = 0 -> Does(TRUE, {"search"})
        [] p = 1 -> Does(FALSE, {"make", "write", "close"})
        [] p = 2 -> Does(FALSE, {"rename", "truncate"})]}

(* The one that changes the directory asks the operator; another looks on. *)
AskingWriter ==
  {[p \in Procs |->
      CASE p = 0 -> Does(TRUE, {"make", "write", "close", "delete"})
        [] p = 1 -> Does(FALSE, {"search"})
        [] p = 2 -> Does(FALSE, {})]}

Mixed == QuietWriters \cup QuietEditors \cup AskingWriter

(* Two in error mode 0 that make files.                                    *)
AskingMakers == {[p \in Procs |-> Does(TRUE, {"make"})]}

(* A program is given up only where it holds no part of the directory.     *)
Patient == [s \in Asking |-> IF s = "dask" THEN {"R", "C", "A"} ELSE {"R", "C"}]

Renaming == Permutations(Names)

=============================================================================
