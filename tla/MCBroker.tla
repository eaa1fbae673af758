------------------------------ MODULE MCBroker ------------------------------
(* Small instances of Broker for TLC. *)
EXTENDS Broker, TLC

CONSTANTS x, y, ia, sa, sb

\* One account with a push and a pull client, another with a pull client only.
MCAccount == [c \in Clients |-> IF c = sb THEN y ELSE x]
MCKind    == [c \in Clients |-> IF c = ia THEN "push" ELSE "pull"]
MCOwner   == [m \in Msgs |-> x]

\* The threads are alike, and so are the messages, which are all of one account.
Alike == Permutations(Threads) \cup Permutations(Msgs)
=============================================================================
