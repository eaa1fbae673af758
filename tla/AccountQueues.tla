--------------------------- MODULE AccountQueues ---------------------------
(***************************************************************************)
(* What lamb-mt and lamb-mo promise: a queue for each account, first in,   *)
(* first out.  Module Broker shows how far they keep it.                   *)
(***************************************************************************)
EXTENDS Sequences

CONSTANTS Accounts, Msgs

VARIABLES
  queues,   \* queues[a]: what waits for account a
  given     \* given[a]: what was taken from that queue, in order

Init ==
  /\ queues = [a \in Accounts |-> <<>>]
  /\ given = [a \in Accounts |-> <<>>]

Put(a, m) ==
  /\ queues' = [queues EXCEPT ![a] = Append(@, m)]
  /\ UNCHANGED given

Take(a) ==
  /\ queues[a] # <<>>
  /\ queues' = [queues EXCEPT ![a] = Tail(@)]
  /\ given' = [given EXCEPT ![a] = Append(@, Head(queues[a]))]

Next == \E a \in Accounts : Take(a) \/ \E m \in Msgs : Put(a, m)

Spec == Init /\ [][Next]_<<queues, given>>

=============================================================================
