------------------------------ MODULE MCServer ------------------------------
(* Small instances of Server for TLC. *)
EXTENDS Server, TLC

CONSTANTS m1, m2, d1, d2, p1

\* Everything is about one number; messages fail the templates, or nothing.
MCPhone     == [x \in Msgs \cup Delivers |-> p1]
MCFails     == [m \in Msgs |-> {"template"}]
MCNoFails   == [m \in Msgs |-> {}]
MCAllOn     == { {"frequency", "unsubscribe", "template"} }
MCNoOption  == { {} }
MCTemplate  == { {}, {"template"} }

=============================================================================
