------------------------------- MODULE MCXdos -------------------------------
(* Small instances of the XDOS flags and queues for TLC.                   *)
EXTENDS Xdos
=============================================================================
