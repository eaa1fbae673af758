---------------------------- MODULE MCScheduler ----------------------------
(* Small instances of Scheduler for TLC. *)
EXTENDS Scheduler, TLC

CONSTANTS g1, g2, m1, m2, t1, p1, p2

\* One account reaches both gateways, one only the first for CMCC numbers,
\* one has no channel.
MCRoutes == { << [id |-> g1, operator |-> {"CMCC", "CTCC"}],
                 [id |-> g2, operator |-> {"MVNO"}] >>,
              << [id |-> g1, operator |-> {"CMCC"}] >>,
              <<>> }

MCCarriers2 == m1 :> {"CMCC"} @@ m2 :> {"CUCC"}
MCCarriers1 == m1 :> {"CMCC"}
MCTestChannel == t1 :> g1
MCNoTest      == <<>>

PushSymmetry == Permutations(Pushers)
=============================================================================
