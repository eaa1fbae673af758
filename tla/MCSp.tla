------------------------------- MODULE MCSp -------------------------------
(* Small instances of Sp for TLC. *)
EXTENDS Sp, TLC

CONSTANTS m1, m2, a1, a2, c1, c2, d1

MCOwner2 == m1 :> a1 @@ m2 :> a2
MCCarrierId2 == <<c1, c2>>
=============================================================================
