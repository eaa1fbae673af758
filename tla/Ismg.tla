-------------------------------- MODULE Ismg --------------------------------
(***************************************************************************)
(* lamb-ismg (src/src/ismg.c): the process that serves one logged-in      *)
(* CMPP client.                                                            *)
(*                                                                         *)
(*  - lamb_work_loop reads what the client sends.  A submission gets a     *)
(*    message id and goes to mt; an answer to a delivery that agrees with  *)
(*    the global `confirmed' wakes the deliver thread.                     *)
(*  - lamb_deliver_loop takes the account's reports and messages from mo,  *)
(*    sends them to the client one at a time and waits for the answer, and *)
(*    sends again after a timeout.                                         *)
(*                                                                         *)
(* mo forgets what it has handed out, before its answer is sent: an answer *)
(* that goes down with the connection is gone, and the REQ socket asks     *)
(* again by itself.  As in lamb-gateway, `confirmed' has no lock and the   *)
(* wait no predicate.  Sessions follow one another: login is part of       *)
(* module Control.                                                         *)
(***************************************************************************)
EXTENDS Naturals, Sequences, FiniteSets

CONSTANTS
  Queue,        \* what waits at mo for the account, in order
  None,         \* no value
  SeqMax,       \* 0xffff: the last value of an unsigned short
  MaxSubmits,   \* bound: submissions of the client
  MaxSeconds,   \* bound: seconds that pass
  MaxWire,      \* bound: packets a connection holds
  MaxSessions,  \* bound: sessions of the account
  MaxDrops      \* bound: requests mo serves in vain

Items == {Queue[k] : k \in DOMAIN Queue}
Place == 0 .. Len(Queue)

ASSUME IsmgAssumption ==
  /\ Queue \in Seq(Items)
  /\ \A j, k \in DOMAIN Queue : Queue[j] = Queue[k] => j = k
  /\ None \notin Items
  /\ SeqMax \in Nat \ {0, 1}
  /\ MaxWire \in Nat \ {0} /\ MaxSessions \in Nat \ {0}
  /\ MaxSubmits \in Nat /\ MaxSeconds \in Nat /\ MaxDrops \in Nat

VARIABLES
  on,          \* a session is open
  session,     \* its number: it stands for the process id in a message id
  \* mo, as this account sees it
  popped,      \* how many items mo has handed out
  answer,      \* the item on its way from mo, or None
  drops,       \* requests mo has served in vain
  \* the deliver thread
  dpc, item, sent, confirmed, signalled,
  \* the work thread
  rpc,
  \* the connection: packets to the client, packets from it
  out, in,
  \* message ids
  seq,         \* the counter of lamb_sequence
  now,         \* the second
  submits,     \* submissions so far
  lastId,      \* the message id the process gave out last
  \* history
  received,    \* items the client has got
  acked,       \* items the client has answered with success
  resent,      \* items that were sent more than once
  spurious,    \* items whose wait ended for no reason
  early,       \* items whose wait ended before the client's success
  had,         \* the items the session has had
  earlier,     \* earlier[x]: the items before x in the same session
  lost,        \* items mo handed out in vain or in hand when a session ended
  repeated     \* message ids given out twice in a row

moVars      == <<popped, answer, drops>>
deliverVars == <<dpc, item, sent, confirmed, signalled>>
wireVars    == <<out, in>>
idVars      == <<seq, now, submits, lastId, repeated>>
history     == <<received, acked, resent, spurious, early, had, earlier, lost>>
vars == <<on, session, moVars, deliverVars, rpc, wireVars, idVars, history>>

NotConfirmed == [seq |-> 0, id |-> None]

Init ==
  /\ on = TRUE /\ session = 1 /\ popped = 0 /\ answer = None /\ drops = 0
  /\ dpc = "idle" /\ item = None /\ sent = 0
  /\ confirmed = NotConfirmed /\ signalled = FALSE
  /\ rpc = "recv"
  /\ out = <<>> /\ in = <<>>
  /\ seq = 1 /\ now = 1 /\ submits = 0 /\ lastId = None /\ repeated = {}
  /\ received = {} /\ acked = {} /\ resent = {} /\ spurious = {} /\ early = {}
  /\ had = {} /\ earlier = [x \in Items |-> {}]
  /\ lost = {}

-----------------------------------------------------------------------------
(* Message ids *)

\* Mutant: the counter runs into zero.
SequenceNextZero == (seq + 1) % (SeqMax + 1)

\* Mutant: the counter is held at its end.
SequenceValueHeld == IF seq < SeqMax THEN seq ELSE SeqMax - 1

\* The value lamb_sequence returns, and the counter it leaves behind.
SequenceValue == IF seq < SeqMax THEN seq ELSE 1
SequenceNext == IF seq < SeqMax THEN seq + 1 ELSE 1

\* lamb_gen_msgid: the time up to the second, the process, the counter.
MsgId == <<now, session, SequenceValue>>

-----------------------------------------------------------------------------
(* The work thread *)

\* A submission gets its id first, whatever becomes of it: handed to mt, or
\* refused for its format, its length or because mt does not take it.
RecvSubmit ==
  /\ on /\ rpc = "recv"
  /\ submits < MaxSubmits
  /\ submits' = submits + 1
  /\ seq' = SequenceNext
  /\ lastId' = MsgId
  /\ repeated' = IF MsgId = lastId THEN repeated \cup {MsgId} ELSE repeated
  /\ UNCHANGED <<on, session, moVars, deliverVars, rpc, wireVars, now, history>>

\* Mutant: a refusal counts as success.
RecvDeliverRespAny ==
  /\ on /\ rpc = "recv"
  /\ in # <<>>
  /\ in' = Tail(in)
  /\ LET a == Head(in) IN
     rpc' = IF a.seq = confirmed.seq /\ a.id = confirmed.id THEN "signal" ELSE "recv"
  /\ UNCHANGED <<on, session, moVars, deliverVars, out, idVars, history>>

\* An answer is compared with `confirmed', then the thread goes on to signal.
RecvDeliverResp ==
  /\ on /\ rpc = "recv"
  /\ in # <<>>
  /\ in' = Tail(in)
  /\ LET a == Head(in) IN
     rpc' = IF a.seq = confirmed.seq /\ a.id = confirmed.id /\ a.result = 0
            THEN "signal" ELSE "recv"
  /\ UNCHANGED <<on, session, moVars, deliverVars, out, idVars, history>>

\* pthread_cond_signal: nobody hears it unless the deliver thread waits.
RecvSignal ==
  /\ on /\ rpc = "signal"
  /\ signalled' = (dpc = "waiting")
  /\ rpc' = "recv"
  /\ UNCHANGED <<on, session, moVars, dpc, item, sent, confirmed, wireVars,
                 idVars, history>>

-----------------------------------------------------------------------------
(* The deliver thread *)

\* REQ to mo.
DeliverAsk ==
  /\ on /\ dpc = "idle"
  /\ dpc' = "asked"
  /\ UNCHANGED <<on, session, moVars, item, sent, confirmed, signalled, rpc, wireVars,
                 idVars, history>>

\* mo takes the next item off the queue and sends it.  An answer that there is
\* none leaves all as it was: the thread asks again.
MoAnswer ==
  /\ on /\ dpc = "asked" /\ answer = None
  /\ popped < Len(Queue)
  /\ popped' = popped + 1
  /\ answer' = Queue[popped + 1]
  /\ UNCHANGED <<on, session, drops, deliverVars, rpc, wireVars, idVars, history>>

\* The answer goes down with the connection to mo; the receive has no timeout
\* and the REQ socket connects and asks again.
MoDrop ==
  /\ on /\ answer # None
  /\ drops < MaxDrops
  /\ drops' = drops + 1
  /\ lost' = lost \cup {answer}
  /\ answer' = None
  /\ UNCHANGED <<on, session, popped, deliverVars, rpc, wireVars, idVars, received,
                 acked, resent, spurious, early, had, earlier>>

\* mo serves a request nobody waits for: one that a socket has sent a second
\* time, or one of a session that is over.
MoAgain ==
  /\ dpc = "asked" \/ sent > 0 \/ session > 1
  /\ drops < MaxDrops
  /\ popped < Len(Queue)
  /\ drops' = drops + 1
  /\ popped' = popped + 1
  /\ lost' = lost \cup {Queue[popped + 1]}
  /\ UNCHANGED <<on, session, answer, deliverVars, rpc, wireVars, idVars, received,
                 acked, resent, spurious, early, had, earlier>>

\* The answer is there.  `confirmed' gets a new sequence number ...
DeliverFetch ==
  /\ on /\ dpc = "asked" /\ answer # None
  /\ item' = answer
  /\ answer' = None
  /\ sent' = sent + 1
  /\ confirmed' = [confirmed EXCEPT !.seq = sent + 1]
  /\ had' = had \cup {answer}
  /\ earlier' = [earlier EXCEPT ![answer] = had]
  /\ dpc' = "id"
  /\ UNCHANGED <<on, session, popped, drops, signalled, rpc, wireVars, idVars, received,
                 acked, resent, spurious, early, lost>>

\* ... and then the id.
DeliverId ==
  /\ on /\ dpc = "id"
  /\ confirmed' = [confirmed EXCEPT !.id = item]
  /\ dpc' = "send"
  /\ UNCHANGED <<on, session, moVars, item, sent, signalled, rpc, wireVars,
                 idVars, history>>

\* cmpp_report or cmpp_deliver; an error is only logged.
DeliverSend(done) ==
  /\ on /\ dpc = "send"
  /\ done => Len(out) < MaxWire
  /\ out' = IF done THEN Append(out, [seq |-> sent, id |-> item]) ELSE out
  /\ dpc' = "wait"
  /\ UNCHANGED <<on, session, moVars, item, sent, confirmed, signalled, rpc, in,
                 idVars, history>>

\* lamb_wait_confirmation: from here on a signal is heard.
DeliverWait ==
  /\ on /\ dpc = "wait"
  /\ dpc' = "waiting"
  /\ signalled' = FALSE
  /\ UNCHANGED <<on, session, moVars, item, sent, confirmed, rpc, wireVars,
                 idVars, history>>

\* Mutants: the item is given up, the wait has no end.
DeliverTimeoutGivesUp ==
  /\ on /\ dpc = "waiting" /\ ~signalled
  /\ dpc' = "idle"
  /\ item' = None
  /\ UNCHANGED <<on, session, moVars, sent, confirmed, signalled, rpc, wireVars,
                 idVars, history>>

DeliverTimeoutNever ==
  /\ FALSE
  /\ UNCHANGED vars

\* acknowledge_timeout is over: the same packet again.
DeliverTimeout ==
  /\ on /\ dpc = "waiting" /\ ~signalled
  /\ dpc' = "send"
  /\ resent' = resent \cup {item}
  /\ UNCHANGED <<on, session, moVars, item, sent, confirmed, signalled, rpc,
                 wireVars, idVars, received, acked, spurious, early, had, earlier,
                 lost>>

\* The wait is over: the item is done.
DeliverDone ==
  /\ dpc' = "idle"
  /\ item' = None
  /\ signalled' = FALSE
  /\ early' = IF item \in acked THEN early ELSE early \cup {item}
  /\ UNCHANGED <<on, session, moVars, sent, confirmed, rpc, wireVars, idVars,
                 received, acked, resent, had, earlier, lost>>

DeliverWoken ==
  /\ on /\ dpc = "waiting" /\ signalled
  /\ DeliverDone
  /\ UNCHANGED spurious

\* pthread_cond_timedwait may also return for no reason.
DeliverSpurious ==
  /\ on /\ dpc = "waiting" /\ ~signalled
  /\ DeliverDone
  /\ spurious' = spurious \cup {item}

-----------------------------------------------------------------------------
(* The client, the clock and the session *)

\* The client answers each packet as it comes.
ClientReply(result) ==
  /\ on
  /\ out # <<>>
  /\ Len(in) < MaxWire
  /\ out' = Tail(out)
  /\ in' = Append(in, [seq |-> Head(out).seq, id |-> Head(out).id,
                       result |-> result])
  /\ received' = received \cup {Head(out).id}
  /\ acked' = IF result = 0 THEN acked \cup {Head(out).id} ELSE acked
  /\ UNCHANGED <<on, session, moVars, deliverVars, rpc, idVars, resent, spurious,
                 early, had, earlier, lost>>

Second ==
  /\ now < MaxSeconds
  /\ now' = now + 1
  /\ UNCHANGED <<on, session, moVars, deliverVars, rpc, wireVars, seq, submits,
                 lastId, repeated, history>>

\* The client leaves or signal 9 comes: the process ends, and the item it has in
\* hand or that is on its way to it is lost.
SessionEnd ==
  /\ on
  /\ on' = FALSE
  /\ lost' = lost \cup ({answer, item} \ {None})
  /\ answer' = None
  /\ dpc' = "idle" /\ item' = None /\ sent' = 0
  /\ confirmed' = NotConfirmed /\ signalled' = FALSE
  /\ rpc' = "recv"
  /\ out' = <<>> /\ in' = <<>>
  /\ lastId' = None
  /\ had' = {}
  /\ UNCHANGED <<session, popped, drops, seq, now, submits, repeated, received, acked,
                 resent, spurious, early, earlier>>

\* The client logs in again: a new process, whose counter starts at one.
SessionStart ==
  /\ ~on
  /\ session < MaxSessions
  /\ on' = TRUE
  /\ session' = session + 1
  /\ seq' = 1
  /\ UNCHANGED <<moVars, deliverVars, rpc, wireVars, now, submits, lastId,
                 repeated, history>>

-----------------------------------------------------------------------------
Deliver ==
  \/ DeliverAsk \/ DeliverFetch \/ DeliverId \/ (\E done \in BOOLEAN : DeliverSend(done))
  \/ DeliverWait \/ DeliverTimeout \/ DeliverWoken

Next ==
  \/ RecvSubmit \/ RecvDeliverResp \/ RecvSignal
  \/ Deliver \/ DeliverSpurious
  \/ MoAnswer \/ MoDrop \/ MoAgain
  \/ \E result \in {0, 1} : ClientReply(result)
  \/ Second
  \/ SessionEnd \/ SessionStart

Spec == Init /\ [][Next]_vars

\* The threads run, a connection that stays up takes a packet at last, and the
\* client reads.
FairSpec ==
  /\ Spec
  /\ WF_vars(Deliver) /\ SF_vars(DeliverSend(TRUE))
  /\ WF_vars(RecvDeliverResp \/ RecvSignal)
  /\ WF_vars(\E result \in {0, 1} : ClientReply(result))

-----------------------------------------------------------------------------
(* Properties *)

DeliverTypes ==
  /\ on \in BOOLEAN /\ signalled \in BOOLEAN
  /\ popped \in Place /\ sent \in Place
  /\ dpc \in {"idle", "asked", "id", "send", "wait", "waiting"}
  /\ item \in Items \cup {None}
  /\ item = None <=> dpc \in {"idle", "asked"}
  /\ answer \in Items \cup {None}
  /\ answer # None => dpc = "asked"
  /\ drops \in Nat
  /\ confirmed \in [seq : Place, id : Items \cup {None}]

WireTypes ==
  /\ rpc \in {"recv", "signal"}
  /\ out \in Seq([seq : Place, id : Items])
  /\ in \in Seq([seq : Place, id : Items, result : {0, 1}])

IdTypes == session \in 1 .. MaxSessions /\ seq \in 1 .. SeqMax

HistoryTypes ==
  /\ received \cup acked \cup resent \cup spurious \cup early \cup had \cup lost
       \subseteq Items
  /\ earlier \in [Items -> SUBSET Items]

\* Packets, locals and counters stay in their ranges: the counter of an unsigned
\* short (common.c:138-141) is never zero.
TypeOK == DeliverTypes /\ WireTypes /\ IdTypes /\ HistoryTypes

\* The wait for the client's answer (ismg.c:592) ends before there is one only
\* for no reason at all, or after an earlier item of the session was sent twice
\* or had its wait end for no reason: from then on a signal can be meant for the
\* item before.  Nothing else, no refusal, answer with another number or lost
\* signal, ends it.
EarlyExplained ==
  \A x \in early : x \in spurious \/ earlier[x] \cap (resent \cup spurious) # {}

\* Loss is bounded: what mo has handed out (mo.c:461-495 pops before it sends)
\* reaches the client, unless its wait ended early, mo served a request in vain,
\* or it was in hand or on its way when a session ended (ismg.c:478-615).  One
\* item is lost at most for each session that has ended and for each request
\* served in vain: no failure costs two.
LossExplained ==
  LET taken == {Queue[k] : k \in 1 .. popped}
      open  == {answer, item}
  IN /\ taken \ (received \cup open \cup early) \subseteq lost
     /\ Cardinality(lost) <= session - (IF on THEN 1 ELSE 0) + drops

\* Two submissions in a row get the same id, the key of server.c:869, only where
\* the counter starts anew: it returns 1 there and 1 again (common.c:138-141).
RepeatsAtWrap == \A id \in repeated : id[3] = 1

\* An item that mo has sent reaches the client, unless the session ends or its
\* wait ends early, or it is lost with the connection to mo.
ReachesClient ==
  \A x \in Items : x \in {answer, item} ~> x \in received \cup early \cup lost

=============================================================================
