------------------------------ MODULE MCControl ------------------------------
(* Small instances of Control for TLC. *)
EXTENDS Control, TLC

Alike == Permutations(Procs) \cup Permutations(Sessions)
=============================================================================
