-------------------------------- MODULE Sp --------------------------------
(***************************************************************************)
(* lamb-gateway (src/src/sp.c): the process that submits messages to a    *)
(* carrier over CMPP and brings the carrier's reports back.                *)
(*                                                                         *)
(*  - lamb_sender_loop takes a message from the scheduler, notes it in the *)
(*    global `confirmed', submits it and waits on a condition variable.    *)
(*  - lamb_deliver_loop reads what the carrier sends.  An answer with the  *)
(*    sequence number in `confirmed' wakes the sender, and then maps the   *)
(*    carrier's message id to what `confirmed' holds in the shared cache.  *)
(*    Reports and messages of subscribers go to the list `storage'.        *)
(*  - lamb_work_loop takes them from `storage', finds out through the      *)
(*    cache whose message a report is about, and passes it to delivery.    *)
(*  - lamb_stat_loop writes the counters to the database and obeys the     *)
(*    exit signal.                                                         *)
(*                                                                         *)
(* `confirmed' has no lock: each of its fields is written and read on its  *)
(* own.  The wait has no predicate: a signal is lost when nobody waits, and *)
(* any signal ends any wait.  The link (keepalive, reconnection) only goes *)
(* down and comes up.                                                      *)
(***************************************************************************)
EXTENDS Naturals, Sequences, FiniteSets

CONSTANTS
  Msgs,        \* messages the scheduler hands to this gateway: their ids
  Owner,       \* Owner[m]: account and company of m
  Codable,     \* messages whose text converts to the carrier's encoding
  CarrierId,   \* CarrierId[n]: the id the carrier gives to submission n
  Delivers,    \* messages of subscribers
  None,        \* no value
  MaxReports,  \* bound: reports the carrier sends for one message
  MaxResets    \* bound: how often the link goes down

Seqs     == 1 .. Cardinality(Msgs)
Carrier  == {CarrierId[n] : n \in Seqs}
Owners   == {Owner[m] : m \in Msgs}
Entry    == [id : Msgs, owner : Owners]

ASSUME SpAssumption ==
  /\ IsFiniteSet(Msgs)
  /\ Owner \in [Msgs -> Owners]
  /\ Codable \subseteq Msgs
  /\ DOMAIN CarrierId = Seqs
  /\ \A j, k \in Seqs : CarrierId[j] = CarrierId[k] => j = k
  /\ Carrier \cap Msgs = {}
  /\ None \notin Msgs \cup Owners \cup Carrier \cup Entry
  /\ MaxReports \in Nat /\ MaxResets \in Nat

VARIABLES
  up,         \* the process runs
  ok,         \* cmpp.ok: the link is up
  fresh,      \* messages still at the scheduler
  spc,        \* where the sender is
  msg,        \* the sender's message
  seq,        \* the last sequence number of a submission
  confirmed,  \* the global `confirmed': id, owner (account, company), seq
  signalled,  \* the condition variable has been signalled to the waiter
  rpc,        \* where the receiver is
  ack,        \* the answer it handles: the carrier's id, the message id read
  wire,       \* carrier to gateway, in order
  storage,    \* received, not yet processed
  item,       \* what the worker has taken from storage
  cache,      \* carrier id -> [id, owner]
  forwarded,  \* what was passed to delivery, in order
  stat,       \* `statistical': submissions and reports counted
  curr,       \* the snapshot the stat thread is about to write
  \* the carrier
  truth,      \* truth[n]: the message the carrier got as submission n
  unanswered, \* submissions the carrier has not answered
  accepted,   \* messages it answered with success
  reportable, \* carrier ids it may still report on -> number of reports left
  offered,    \* messages of subscribers it has not passed on yet
  resets,     \* how often the link has gone down
  \* history
  written,    \* counted in rows of the database
  unwritten,  \* counted in snapshots the database refused
  dirty,      \* `confirmed' has been rewritten since the last submission
  exposed,    \* carrier ids whose answer was handled during such a rewrite
  mapped,     \* carrier ids that were ever put into the cache
  unmapped,   \* carrier ids whose answer came to nothing
  dropped,    \* reports thrown away: the id, and whether the cache answered
  timedout,   \* messages whose wait ended without a signal
  settled     \* messages whose wait ended with one

senderVars  == <<fresh, spc, msg, seq>>
recvVars    == <<rpc, ack>>
workVars    == <<item, forwarded>>
statVars    == <<stat, curr, written, unwritten>>
carrierVars == <<truth, unanswered, accepted, reportable, offered>>
history     == <<dirty, exposed, mapped, unmapped, dropped, timedout, settled>>
vars == <<up, ok, senderVars, confirmed, signalled, recvVars, wire, storage,
          workVars, cache, statVars, carrierVars, resets, history>>

Zero == [submit |-> 0, report |-> 0]
Plus(x, y) == [submit |-> x.submit + y.submit, report |-> x.report + y.report]

Init ==
  /\ up = TRUE
  /\ ok = TRUE
  /\ fresh = Msgs
  /\ spc = "idle"
  /\ msg = None
  /\ seq = 0
  /\ confirmed = [id |-> None, owner |-> None, seq |-> 0]
  /\ signalled = FALSE
  /\ rpc = "recv"
  /\ ack = None
  /\ wire = <<>>
  /\ storage = <<>>
  /\ item = None
  /\ cache = [c \in Carrier \cup Msgs |-> None]
  /\ forwarded = <<>>
  /\ stat = Zero
  /\ curr = Zero
  /\ truth = [n \in Seqs |-> None]
  /\ unanswered = {}
  /\ accepted = {}
  /\ reportable = [c \in Carrier |-> 0]
  /\ offered = Delivers
  /\ resets = 0
  /\ written = Zero
  /\ unwritten = Zero
  /\ dirty = FALSE
  /\ exposed = {}
  /\ mapped = {}
  /\ unmapped = {}
  /\ dropped = {}
  /\ timedout = {}
  /\ settled = {}

-----------------------------------------------------------------------------
(* The sender *)

\* The carrier id of the answer the receiver is handling, if it is past the
\* test of the sequence number.
Handling == IF rpc = "recv" THEN {} ELSE {ack.id}

\* A message comes from the scheduler; its id goes into `confirmed' first.
SenderFetch(m) ==
  /\ spc = "idle" /\ ok
  /\ m \in fresh
  /\ fresh' = fresh \ {m}
  /\ msg' = m
  /\ confirmed' = [confirmed EXCEPT !.id = m]
  /\ spc' = "owner"
  /\ dirty' = TRUE
  /\ exposed' = exposed \cup Handling
  /\ UNCHANGED <<up, ok, seq, signalled, recvVars, wire, storage, workVars,
                 cache, statVars, carrierVars, resets, mapped, unmapped, dropped,
                 timedout, settled>>

\* Then spcode, account and company.
SenderOwner ==
  /\ spc = "owner"
  /\ confirmed' = [confirmed EXCEPT !.owner = Owner[msg]]
  /\ spc' = "encode"
  /\ exposed' = exposed \cup Handling
  /\ UNCHANGED <<up, ok, fresh, msg, seq, signalled, recvVars, wire, storage,
                 workVars, cache, statVars, carrierVars, resets, dirty, mapped,
                 unmapped, dropped, timedout, settled>>

\* The text cannot be converted: the message is forgotten.
SenderDiscard ==
  /\ spc = "encode"
  /\ msg \notin Codable
  /\ spc' = "idle"
  /\ msg' = None
  /\ UNCHANGED <<up, ok, fresh, seq, confirmed, signalled, recvVars, wire,
                 storage, workVars, cache, statVars, carrierVars, resets,
                 history>>

\* A new sequence number goes into `confirmed' and to the carrier; the counter
\* is incremented whether cmpp_submit succeeded or not.  After an error the
\* message is forgotten.
SenderSubmit(sent) ==
  /\ spc = "encode"
  /\ msg \in Codable
  /\ sent => ok
  /\ seq' = seq + 1
  /\ confirmed' = [confirmed EXCEPT !.seq = seq + 1]
  /\ dirty' = FALSE
  /\ IF sent
     THEN /\ truth' = [truth EXCEPT ![seq + 1] = msg]
          /\ unanswered' = unanswered \cup {seq + 1}
          /\ spc' = "count"
          /\ msg' = msg
     ELSE /\ UNCHANGED <<truth, unanswered>>
          /\ spc' = "counterr"
          /\ msg' = None
  /\ UNCHANGED <<up, ok, fresh, signalled, recvVars, wire, storage, workVars,
                 cache, statVars, accepted, reportable, offered, resets, exposed,
                 mapped, unmapped, dropped, timedout, settled>>

SenderCount ==
  /\ spc \in {"count", "counterr"}
  /\ stat' = [stat EXCEPT !.submit = @ + 1]
  /\ spc' = IF spc = "count" THEN "wait" ELSE "idle"
  /\ UNCHANGED <<up, ok, fresh, msg, seq, confirmed, signalled, recvVars, wire,
                 storage, workVars, cache, curr, written, unwritten,
                 carrierVars, resets, history>>

\* lamb_wait_confirmation: from here on a signal is heard.
SenderWait ==
  /\ spc = "wait"
  /\ spc' = "waiting"
  /\ signalled' = FALSE
  /\ UNCHANGED <<up, ok, fresh, msg, seq, confirmed, recvVars, wire, storage,
                 workVars, cache, statVars, carrierVars, resets, history>>

\* The wait ends with a signal, or without: after acknowledge_timeout, or
\* because pthread_cond_timedwait may return for no reason.
SenderWoken ==
  /\ spc = "waiting" /\ signalled
  /\ spc' = "idle"
  /\ msg' = None
  /\ signalled' = FALSE
  /\ settled' = settled \cup {msg}
  /\ UNCHANGED <<up, ok, fresh, seq, confirmed, recvVars, wire, storage,
                 workVars, cache, statVars, carrierVars, resets, dirty,
                 exposed, mapped, unmapped, dropped, timedout>>

\* Mutant: pthread_cond_wait, without a timeout.
SenderTimeoutNever ==
  /\ FALSE
  /\ UNCHANGED vars

SenderTimeout ==
  /\ spc = "waiting" /\ ~signalled
  /\ spc' = "idle"
  /\ msg' = None
  /\ timedout' = timedout \cup {msg}
  /\ UNCHANGED <<up, ok, fresh, seq, confirmed, signalled, recvVars, wire,
                 storage, workVars, cache, statVars, carrierVars, resets,
                 dirty, exposed, mapped, unmapped, dropped, settled>>

-----------------------------------------------------------------------------
(* The receiver *)

Arrived(kind) == rpc = "recv" /\ ok /\ wire # <<>> /\ Head(wire).kind = kind

\* Mutant: the sequence number is not compared.
RecvSubmitRespAnySeq ==
  /\ Arrived("ack")
  /\ wire' = Tail(wire)
  /\ LET a == Head(wire) IN
     IF a.result = 0
     THEN /\ rpc' = "signal"
          /\ ack' = [id |-> a.id, msg |-> None]
          /\ exposed' = IF dirty THEN exposed \cup {a.id} ELSE exposed
          /\ UNCHANGED unmapped
     ELSE /\ unmapped' = unmapped \cup {a.id}
          /\ UNCHANGED <<rpc, ack, exposed>>
  /\ UNCHANGED <<up, ok, senderVars, confirmed, signalled, storage, workVars,
                 cache, statVars, carrierVars, resets, dirty, mapped, dropped,
                 timedout, settled>>

\* Mutant: a refusal counts as success.
RecvSubmitRespAnyResult ==
  /\ Arrived("ack")
  /\ wire' = Tail(wire)
  /\ LET a == Head(wire) IN
     IF a.seq = confirmed.seq
     THEN /\ rpc' = "signal"
          /\ ack' = [id |-> a.id, msg |-> None]
          /\ exposed' = IF dirty THEN exposed \cup {a.id} ELSE exposed
          /\ UNCHANGED unmapped
     ELSE /\ unmapped' = unmapped \cup {a.id}
          /\ UNCHANGED <<rpc, ack, exposed>>
  /\ UNCHANGED <<up, ok, senderVars, confirmed, signalled, storage, workVars,
                 cache, statVars, carrierVars, resets, dirty, mapped, dropped,
                 timedout, settled>>

\* An answer: one with another sequence number, or a refusal, comes to nothing.
RecvSubmitResp ==
  /\ Arrived("ack")
  /\ wire' = Tail(wire)
  /\ LET a == Head(wire) IN
     IF a.seq = confirmed.seq /\ a.result = 0
     THEN /\ rpc' = "signal"
          /\ ack' = [id |-> a.id, msg |-> None]
          /\ exposed' = IF dirty THEN exposed \cup {a.id} ELSE exposed
          /\ UNCHANGED unmapped
     ELSE /\ unmapped' = unmapped \cup {a.id}
          /\ UNCHANGED <<rpc, ack, exposed>>
  /\ UNCHANGED <<up, ok, senderVars, confirmed, signalled, storage, workVars,
                 cache, statVars, carrierVars, resets, dirty, mapped, dropped,
                 timedout, settled>>

\* pthread_cond_signal: nobody hears it unless the sender waits.
RecvSignal ==
  /\ rpc = "signal"
  /\ signalled' = (spc = "waiting")
  /\ rpc' = "cache"
  /\ UNCHANGED <<up, ok, senderVars, confirmed, ack, wire, storage, workVars,
                 cache, statVars, carrierVars, resets, history>>

\* The arguments of lamb_set_cache: whatever `confirmed' holds now, its id ...
RecvRead ==
  /\ rpc = "cache"
  /\ ack' = [ack EXCEPT !.msg = confirmed.id]
  /\ rpc' = "store"
  /\ UNCHANGED <<up, ok, senderVars, confirmed, signalled, wire, storage,
                 workVars, cache, statVars, carrierVars, resets, history>>

\* Mutant: message and carrier id change places.
RecvCacheSwapped(done) ==
  /\ rpc = "store"
  /\ IF done
     THEN /\ cache' = [cache EXCEPT ![ack.msg] =
                         [id |-> ack.msg, owner |-> confirmed.owner]]
          /\ mapped' = mapped \cup {ack.id}
          /\ UNCHANGED unmapped
     ELSE /\ unmapped' = unmapped \cup {ack.id}
          /\ UNCHANGED <<cache, mapped>>
  /\ rpc' = "recv"
  /\ ack' = None
  /\ UNCHANGED <<up, ok, senderVars, confirmed, signalled, wire, storage,
                 workVars, statVars, carrierVars, resets, dirty, exposed,
                 dropped, timedout, settled>>

\* ... and the rest.  If the cache cannot be reached, nothing is mapped.
RecvCache(done) ==
  /\ rpc = "store"
  /\ IF done
     THEN /\ cache' = [cache EXCEPT ![ack.id] =
                         [id |-> ack.msg, owner |-> confirmed.owner]]
          /\ mapped' = mapped \cup {ack.id}
          /\ UNCHANGED unmapped
     ELSE /\ unmapped' = unmapped \cup {ack.id}
          /\ UNCHANGED <<cache, mapped>>
  /\ rpc' = "recv"
  /\ ack' = None
  /\ UNCHANGED <<up, ok, senderVars, confirmed, signalled, wire, storage,
                 workVars, statVars, carrierVars, resets, dirty, exposed,
                 dropped, timedout, settled>>

\* Mutant: every packet is taken for a CMPP_DELIVER.
RecvDeliverAny ==
  /\ rpc = "recv" /\ ok /\ wire # <<>>
  /\ wire' = Tail(wire)
  /\ storage' = Append(storage, Head(wire))
  /\ UNCHANGED <<up, ok, senderVars, confirmed, signalled, recvVars, workVars,
                 cache, statVars, carrierVars, resets, history>>

\* A report or a message of a subscriber is appended to storage, and the
\* carrier is told at once that it has been taken.
RecvDeliver ==
  /\ Arrived("report") \/ Arrived("deliver")
  /\ wire' = Tail(wire)
  /\ storage' = Append(storage, Head(wire))
  /\ UNCHANGED <<up, ok, senderVars, confirmed, signalled, recvVars, workVars,
                 cache, statVars, carrierVars, resets, history>>

-----------------------------------------------------------------------------
(* The worker *)

WorkPop ==
  /\ item = None
  /\ storage # <<>>
  /\ item' = Head(storage)
  /\ storage' = Tail(storage)
  /\ UNCHANGED <<up, ok, senderVars, confirmed, signalled, recvVars, wire,
                 forwarded, cache, statVars, carrierVars, resets, history>>

\* lamb_del_cache is called with the id found, not with the key searched for.
DelKey(c) == cache[c].id

\* Passing something on may fail at the send timeout: it is then lost.
Pass(sent, x) == forwarded' = IF sent THEN Append(forwarded, x) ELSE forwarded

\* A report on an id that is in the cache is counted and passed on, another
\* one is thrown away.  The DEL may fail.
WorkReport(sent, deleted) ==
  /\ item # None /\ item.kind = "report"
  /\ IF cache[item.id] # None
     THEN /\ cache' = IF deleted THEN [cache EXCEPT ![DelKey(item.id)] = None]
                                 ELSE cache
          /\ stat' = [stat EXCEPT !.report = @ + 1]
          /\ Pass(sent, [kind |-> "report", of |-> item.id, entry |-> cache[item.id]])
          /\ UNCHANGED dropped
     ELSE /\ dropped' = dropped \cup {[id |-> item.id, read |-> TRUE]}
          /\ UNCHANGED <<cache, stat, forwarded>>
  /\ item' = None
  /\ UNCHANGED <<up, ok, senderVars, confirmed, signalled, recvVars, wire,
                 storage, curr, written, unwritten, carrierVars, resets, dirty,
                 exposed, mapped, unmapped, timedout, settled>>

\* The cache does not answer: the report is thrown away too.
WorkNoCache ==
  /\ item # None /\ item.kind = "report"
  /\ dropped' = dropped \cup {[id |-> item.id, read |-> FALSE]}
  /\ item' = None
  /\ UNCHANGED <<up, ok, senderVars, confirmed, signalled, recvVars, wire,
                 storage, forwarded, cache, statVars, carrierVars, resets, dirty,
                 exposed, mapped, unmapped, timedout, settled>>

\* A message of a subscriber is passed on without an owner.
WorkDeliver(sent) ==
  /\ item # None /\ item.kind = "deliver"
  /\ Pass(sent, [kind |-> "deliver", of |-> item.id, entry |-> None])
  /\ item' = None
  /\ UNCHANGED <<up, ok, senderVars, confirmed, signalled, recvVars, wire,
                 storage, cache, statVars, carrierVars, resets, history>>

-----------------------------------------------------------------------------
(* The stat thread *)

\* Mutant: the counters are copied and not cleared.
StatSnapshotKeeps ==
  /\ curr = Zero /\ stat # Zero
  /\ curr' = stat
  /\ UNCHANGED <<up, ok, senderVars, confirmed, signalled, recvVars, wire,
                 storage, workVars, cache, stat, written, unwritten, carrierVars,
                 resets, history>>

\* Copy and clear, under the lock of the counters.
StatSnapshot ==
  /\ curr = Zero /\ stat # Zero
  /\ curr' = stat
  /\ stat' = Zero
  /\ UNCHANGED <<up, ok, senderVars, confirmed, signalled, recvVars, wire,
                 storage, workVars, cache, written, unwritten, carrierVars,
                 resets, history>>

\* The copy becomes a row; if the database refuses, it is gone.
StatWrite(done) ==
  /\ curr # Zero
  /\ IF done
     THEN written' = Plus(written, curr) /\ UNCHANGED unwritten
     ELSE unwritten' = Plus(unwritten, curr) /\ UNCHANGED written
  /\ curr' = Zero
  /\ UNCHANGED <<up, ok, senderVars, confirmed, signalled, recvVars, wire,
                 storage, workVars, cache, stat, carrierVars, resets, history>>

\* Signal 9: the process ends with whatever its lists hold.
StatExit ==
  /\ curr = Zero
  /\ up' = FALSE
  /\ UNCHANGED <<ok, senderVars, confirmed, signalled, recvVars, wire, storage,
                 workVars, cache, statVars, carrierVars, resets, history>>

-----------------------------------------------------------------------------
(* The carrier and the link *)

\* The carrier answers a submission, some time, and gives it an id.
CarrierAnswer(n, result) ==
  /\ n \in unanswered /\ ok
  /\ unanswered' = unanswered \ {n}
  /\ wire' = Append(wire, [kind |-> "ack", seq |-> n, id |-> CarrierId[n],
                           result |-> result])
  /\ IF result = 0
     THEN /\ accepted' = accepted \cup {truth[n]}
          /\ reportable' = [reportable EXCEPT ![CarrierId[n]] = MaxReports]
     ELSE UNCHANGED <<accepted, reportable>>
  /\ UNCHANGED <<up, ok, senderVars, confirmed, signalled, recvVars, storage,
                 workVars, cache, statVars, truth, offered, resets, history>>

\* It reports on a message it has accepted, perhaps more than once.
CarrierReport(c) ==
  /\ ok
  /\ reportable[c] > 0
  /\ reportable' = [reportable EXCEPT ![c] = @ - 1]
  /\ wire' = Append(wire, [kind |-> "report", id |-> c])
  /\ UNCHANGED <<up, ok, senderVars, confirmed, signalled, recvVars, storage,
                 workVars, cache, statVars, truth, unanswered, accepted, offered,
                 resets, history>>

\* It passes on a message of a subscriber, once each.
CarrierDeliver(d) ==
  /\ ok
  /\ d \in offered
  /\ offered' = offered \ {d}
  /\ wire' = Append(wire, [kind |-> "deliver", id |-> d])
  /\ UNCHANGED <<up, ok, senderVars, confirmed, signalled, recvVars, storage,
                 workVars, cache, statVars, truth, unanswered, accepted,
                 reportable, resets, history>>

\* The keepalive thread closes the link; what is on it is lost.  Later it has
\* connected again.
LinkDown ==
  /\ ok
  /\ resets < MaxResets
  /\ resets' = resets + 1
  /\ ok' = FALSE
  /\ wire' = <<>>
  /\ unanswered' = {}
  /\ unmapped' = unmapped \cup {wire[k].id : k \in {j \in DOMAIN wire : wire[j].kind = "ack"}}
  /\ UNCHANGED <<up, senderVars, confirmed, signalled, recvVars, storage,
                 workVars, cache, statVars, truth, accepted, reportable, offered,
                 dirty, exposed, mapped, dropped, timedout, settled>>

LinkUp ==
  /\ ~ok
  /\ ok' = TRUE
  /\ UNCHANGED <<up, senderVars, confirmed, signalled, recvVars, wire, storage,
                 workVars, cache, statVars, carrierVars, resets, history>>

-----------------------------------------------------------------------------
Sender ==
  \/ \E m \in Msgs : SenderFetch(m)
  \/ SenderOwner \/ SenderDiscard \/ SenderCount \/ SenderWait
  \/ \E sent \in BOOLEAN : SenderSubmit(sent)
  \/ SenderWoken \/ SenderTimeout

Receiver ==
  \/ RecvSubmitResp \/ RecvSignal \/ RecvRead \/ RecvDeliver
  \/ \E done \in BOOLEAN : RecvCache(done)

Worker ==
  \/ WorkPop \/ WorkNoCache
  \/ \E sent, deleted \in BOOLEAN : WorkReport(sent, deleted)
  \/ \E sent \in BOOLEAN : WorkDeliver(sent)

Stat == StatSnapshot \/ (\E done \in BOOLEAN : StatWrite(done)) \/ StatExit

Environment ==
  \/ \E n \in Seqs, result \in {0, 1} : CarrierAnswer(n, result)
  \/ \E c \in Carrier : CarrierReport(c)
  \/ \E d \in Delivers : CarrierDeliver(d)
  \/ LinkDown \/ LinkUp

Next == up /\ (Sender \/ Receiver \/ Worker \/ Stat \/ Environment)

Spec == Init /\ [][Next]_vars

\* The threads run while the process does; carrier and link do as they like.
FairSpec == Spec /\ WF_vars(up /\ Sender) /\ WF_vars(up /\ Receiver)
                 /\ WF_vars(up /\ Worker)

-----------------------------------------------------------------------------
(* Properties *)

Counter == [submit : Nat, report : Nat]
Packet  == [kind : {"ack"}, seq : Seqs, id : Carrier, result : {0, 1}]
           \cup [kind : {"report"}, id : Carrier]
           \cup [kind : {"deliver"}, id : Delivers]
Stored  == {x \in Packet : x.kind # "ack"}

\* What is passed to delivery: a report with the entry found, or a message.
Routed  == [kind : {"report"}, of : Carrier, entry : Entry]
           \cup [kind : {"deliver"}, of : Delivers, entry : {None}]

SenderTypes ==
  /\ fresh \subseteq Msgs
  /\ spc \in {"idle", "owner", "encode", "count", "counterr", "wait", "waiting"}
  /\ msg \in Msgs \cup {None}
  /\ seq \in Seqs \cup {0}
  /\ confirmed \in [id : Msgs \cup {None}, owner : Owners \cup {None}, seq : Seqs \cup {0}]
  /\ dirty \in BOOLEAN
  /\ timedout \cup settled \subseteq Msgs

RecvTypes ==
  /\ up \in BOOLEAN /\ ok \in BOOLEAN /\ signalled \in BOOLEAN
  /\ rpc \in {"recv", "signal", "cache", "store"}
  /\ ack \in [id : Carrier, msg : Msgs \cup {None}] \cup {None}
  /\ exposed \subseteq Carrier

ListTypes ==
  /\ wire \in Seq(Packet)
  /\ storage \in Seq(Stored)
  /\ item \in Stored \cup {None}
  /\ forwarded \in Seq(Routed)

CacheTypes ==
  /\ cache \in [Carrier \cup Msgs -> Entry \cup {None}]
  /\ mapped \cup unmapped \subseteq Carrier
  /\ dropped \subseteq [id : Carrier, read : BOOLEAN]

StatTypes ==
  /\ stat \in Counter /\ curr \in Counter
  /\ written \in Counter /\ unwritten \in Counter

CarrierTypes ==
  /\ truth \in [Seqs -> Msgs \cup {None}]
  /\ unanswered \subseteq Seqs
  /\ accepted \subseteq Msgs
  /\ reportable \in [Carrier -> 0 .. MaxReports]

\* Every field holds what its thread may put there; only reports and messages
\* of subscribers get into `storage' (sp.c:354-452).
TypeOK ==
  SenderTypes /\ RecvTypes /\ ListTypes /\ CacheTypes /\ StatTypes /\ CarrierTypes

\* The entry a carrier id should have: the message that was submitted under it.
Rightful(n) == [id |-> truth[n], owner |-> Owner[truth[n]]]

\* A report reaches the account whose message it is about, unless the answer
\* to that message was handled while the sender was rewriting `confirmed': that
\* is after the writes of sp.c:232-235 and before sp.c:254 at the time of the
\* test in sp.c:337, or between that test and the write to the cache in
\* sp.c:350.  There is no other way to a wrong mapping, late answers, timeouts
\* and reconnections included.
MappingRight ==
  \A n \in {k \in Seqs : truth[k] # None} :
    LET c == CarrierId[n] IN c \notin exposed =>
      /\ cache[c] \in {None, Rightful(n)}
      /\ \A k \in DOMAIN forwarded :
           forwarded[k].kind = "report" /\ forwarded[k].of = c =>
             forwarded[k].entry = Rightful(n)

\* A report is thrown away (sp.c:526) only because the cache did not answer, or
\* because the answer to its message came to nothing before: it went down with the
\* link, came when `confirmed' had another number (sp.c:337), or the cache did not
\* take it (sp.c:350).  The answer comes before the reports and the receiver
\* fills the cache before it reads on, so that a report whose id is or was in the
\* cache finds it there, a repeated one too.
ReportLossExplained == \A r \in dropped : r.read => r.id \in unmapped \ mapped

\* A submission is counted once, and no report is passed on without being counted:
\* in a row, in a snapshot that could not be written, in the snapshot at hand or
\* in memory (sp.c:259-264, 529-532, 713-726), however the stat thread interleaves.
\* A report whose send failed is counted as well.
CountedOnce ==
  LET all == Plus(Plus(written, unwritten), Plus(curr, stat)) IN
  /\ all.submit + (IF spc \in {"count", "counterr"} THEN 1 ELSE 0) = seq
  /\ all.report >= Cardinality({k \in DOMAIN forwarded : forwarded[k].kind = "report"})

\* As long as every wait has ended with a signal, that means that the carrier
\* accepted the message waited for (sp.c:337-349).  After a timeout it need not:
\* the signal for the old message may end the wait for the next.
SettledUntilTimeout == timedout = {} => settled \subseteq accepted

\* The sender never hangs in a wait, although the signal of sp.c:349 is lost
\* when it comes before the wait of sp.c:274: it asks for the next message again
\* and again.
SenderReturns == []<>(spc = "idle" \/ ~up)

=============================================================================
