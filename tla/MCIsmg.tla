------------------------------- MODULE MCIsmg -------------------------------
(* Small instances of Ismg for TLC. *)
EXTENDS Ismg, TLC

CONSTANTS x1, x2

MCQueue1 == <<x1>>
MCQueue2 == <<x1, x2>>
=============================================================================
