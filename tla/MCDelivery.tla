----------------------------- MODULE MCDelivery -----------------------------
(* Small instances of Delivery for TLC. *)
EXTENDS Delivery, TLC

CONSTANTS x, y, r1, d1, c1

MCOf == r1 :> x
MCCode == d1 :> c1

\* Two routes for the same number, of which the first counts; then another one.
MCOld == <<[matches |-> {c1}, target |-> x], [matches |-> {c1}, target |-> y]>>
MCNew == <<[matches |-> {}, target |-> x], [matches |-> {c1}, target |-> y]>>
MCTables == {MCOld, MCNew}

Alike == Permutations(Pushers)
=============================================================================
