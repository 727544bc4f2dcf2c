------------------------------- MODULE MCProc -------------------------------
(* Small instances of the process kernel for TLC.                          *)
EXTENDS Proc

(* The actions that the calls of run kernel lead to: no console changes    *)
(* hands by request, no session is opened and nobody asks for memory.      *)
KernelNext == \/ Preempt \/ Lock \/ Timed \/ World
              \/ ReadConsole \/ ConTake \/ ConWait \/ Detach
              \/ GetcWait \/ GetcAgain \/ GetcReturn \/ Retry
              \/ pcreate \/ LoadBegin \/ LoadOk \/ LoadFail \/ Exit \/ Abort
KernelSpec == Init /\ [][KernelNext]_vars
=============================================================================
