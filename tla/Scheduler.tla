----------------------------- MODULE Scheduler -----------------------------
(***************************************************************************)
(* lamb-scheduler (src/src/scheduler.c): the process between the account  *)
(* servers and the carrier gateways.  One push thread serves each server  *)
(* connection: it walks the channels of the account in weight order and    *)
(* puts the message into the queue of the first gateway that may carry the *)
(* number and has room.  One pull thread serves each gateway connection    *)
(* and pops the queue of that gateway.  A test thread pushes test messages *)
(* without looking at the limit.                                           *)
(*                                                                         *)
(* The test of the queue's length (scheduler.c:492) and the push (494) are *)
(* two steps: only the push holds the list's lock.                         *)
(*                                                                         *)
(* The two ends of the connections, the account server's scheduling loop   *)
(* (server.c:436-473) and the gateway's sender (sp.c:194-221), are part of *)
(* the model as far as their messages go.                                  *)
(***************************************************************************)
EXTENDS Naturals, Sequences, FiniteSets

CONSTANTS
  Gateways,     \* gateway ids; a gateway's queue has its id
  Pushers,      \* slots for push threads: connections of account servers
  Pullers,      \* slots for pull threads: connections of gateways
  Messages,     \* messages the account servers schedule
  Tests,        \* messages the test client sends
  Limit,        \* the length at which a queue takes no more (128 in the code)
  Routes,       \* channel lists the database may hold for an account
  Carriers,     \* Carriers[m]: the operator tables with the prefix of m's phone
  TestChannel,  \* TestChannel[t]: the gateway a test message names
  NoMessage,    \* no message
  Bye,          \* LAMB_BYE on a connection
  Flaky,        \* gateways whose link to their carrier may go down
  MaxCuts       \* bound: how often a message's connection is cut while it
                \* waits for the answer

Operators == {"CMCC", "CTCC", "CUCC"}
Channel   == [id : Gateways, operator : SUBSET (Operators \cup {"MVNO"})]
Answers   == {"OK", "BUSY", "REJECT", "NOROUTE"}

ASSUME SchedulerAssumption ==
  /\ Limit \in Nat \ {0}
  /\ MaxCuts \in Nat
  /\ IsFiniteSet(Pushers)
  /\ Pushers # {}
  /\ Messages \cap Tests = {}
  /\ NoMessage \notin Messages \cup Tests
  /\ Bye \notin Messages \cup Tests
  /\ "free" \notin Gateways
  /\ Flaky \subseteq Gateways
  /\ Routes \subseteq Seq(Channel)
  /\ Carriers \in [Messages -> SUBSET Operators]
  /\ TestChannel \in [Tests -> Gateways]

VARIABLES
  pool,       \* gateways that have a queue in the pool (the list `gateway')
  queue,      \* their queues
  pc,         \* where each push thread is
  channels,   \* the channel list it fetched when its client connected
  cur,        \* the message it is routing
  at,         \* the position of its iterator
  flags,      \* its booleans available, operator, province, completed
  inbox,      \* what its socket holds
  conn,       \* the other end: the server's side of the connection
  asking,     \* the message the server waits for, on each connection
  todo,       \* messages the servers still have to schedule
  answer,     \* the final answer the server took for each message
  cuts,       \* how often m's connection was cut while it was outstanding
  pull,       \* gateway served by each pull thread, or "free"
  ppc,        \* where each pull thread is
  linked,     \* gateways whose link to their carrier is up (cmpp.ok)
  taken,      \* how many copies of a message pull threads popped and sent
  tested      \* test messages pushed so far

pushVars == <<pc, channels, cur, at, flags>>
connVars == <<inbox, conn, asking, todo, answer, cuts>>
pullVars == <<pull, ppc, linked, taken>>
vars == <<pool, queue, pushVars, connVars, pullVars, tested>>

-----------------------------------------------------------------------------
(* Routing *)

\* The three prefix tables, then the virtual operators, which take any number.
CheckOperator(c, m) == c.operator \cap Carriers[m] # {} \/ "MVNO" \in c.operator

CheckProvince(c, m) == TRUE

Eligible(c, m) == CheckOperator(c, m) /\ CheckProvince(c, m)

\* Mutants: one place too many, one too few.
HasRoomMore(g) == g \in pool /\ Len(queue[g]) <= Limit
HasRoomLess(g) == g \in pool /\ Len(queue[g]) < Limit - 1

\* The unlocked test of the length, on the queue found in the pool.
HasRoom(g) == g \in pool /\ Len(queue[g]) < Limit

\* Mutant: the operator's boolean is set before the test.
FlagsOfEarly(c, m) == {"available", "operator", "province"}

\* The booleans set while channel c is examined for m.
FlagsOf(c, m) == {"available"}
                   \cup (IF CheckOperator(c, m) THEN {"operator"} ELSE {})
                   \cup (IF Eligible(c, m) THEN {"province"} ELSE {})

\* The answer sent once the iteration is over.
AnswerOf(f) ==
  CASE "completed" \in f -> "OK"
    [] "completed" \notin f /\ "available" \notin f -> "NOROUTE"
    [] "completed" \notin f /\ "available" \in f
         /\ ~({"operator", "province"} \subseteq f) -> "REJECT"
    [] OTHER -> "BUSY"

-----------------------------------------------------------------------------
Init ==
  /\ pool = {}
  /\ queue = [g \in Gateways |-> <<>>]
  /\ pc = [p \in Pushers |-> "free"]
  /\ channels = [p \in Pushers |-> <<>>]
  /\ cur = [p \in Pushers |-> NoMessage]
  /\ at = [p \in Pushers |-> 1]
  /\ flags = [p \in Pushers |-> {}]
  /\ inbox = [p \in Pushers |-> <<>>]
  /\ conn = [p \in Pushers |-> "closed"]
  /\ asking = [p \in Pushers |-> NoMessage]
  /\ todo = Messages
  /\ answer = [m \in Messages |-> "none"]
  /\ cuts = [m \in Messages |-> 0]
  /\ pull = [q \in Pullers |-> "free"]
  /\ ppc = [q \in Pullers |-> "none"]
  /\ linked = Gateways
  /\ taken = [m \in Messages \cup Tests |-> 0]
  /\ tested = {}

-----------------------------------------------------------------------------
(* The push thread *)

\* A server connects: the thread fetches the channels of its account, once.
PushConnect(p, chans) ==
  /\ pc[p] = "free"
  /\ conn[p] = "closed"
  /\ pc' = [pc EXCEPT ![p] = "recv"]
  /\ channels' = [channels EXCEPT ![p] = chans]
  /\ conn' = [conn EXCEPT ![p] = "idle"]
  /\ inbox' = [inbox EXCEPT ![p] = <<>>]
  /\ UNCHANGED <<pool, queue, cur, at, flags, asking, todo, answer, cuts,
                 pullVars, tested>>

\* Mutant: the iterator starts one too early.
PushRecvAtZero(p) ==
  /\ pc[p] = "recv"
  /\ inbox[p] # <<>>
  /\ Head(inbox[p]) # Bye
  /\ inbox' = [inbox EXCEPT ![p] = Tail(@)]
  /\ cur' = [cur EXCEPT ![p] = Head(inbox[p])]
  /\ at' = [at EXCEPT ![p] = 0]
  /\ flags' = [flags EXCEPT ![p] = {}]
  /\ pc' = [pc EXCEPT ![p] = "scan"]
  /\ UNCHANGED <<pool, queue, channels, conn, asking, todo, answer, cuts,
                 pullVars, tested>>

\* A SUBMIT arrives: the booleans are reset and the iteration starts.
PushRecv(p) ==
  /\ pc[p] = "recv"
  /\ inbox[p] # <<>>
  /\ Head(inbox[p]) # Bye
  /\ inbox' = [inbox EXCEPT ![p] = Tail(@)]
  /\ cur' = [cur EXCEPT ![p] = Head(inbox[p])]
  /\ at' = [at EXCEPT ![p] = 1]
  /\ flags' = [flags EXCEPT ![p] = {}]
  /\ pc' = [pc EXCEPT ![p] = "scan"]
  /\ UNCHANGED <<pool, queue, channels, conn, asking, todo, answer, cuts,
                 pullVars, tested>>

\* The channel under the iterator.
Chan(p) == channels[p][at[p]]

\* Mutant: only the room is looked at.
PushSelectAnyone(p) ==
  /\ pc[p] = "scan"
  /\ at[p] <= Len(channels[p])
  /\ HasRoom(Chan(p).id)
  /\ flags' = [flags EXCEPT ![p] = @ \cup FlagsOf(Chan(p), cur[p])]
  /\ pc' = [pc EXCEPT ![p] = "push"]
  /\ UNCHANGED <<pool, queue, channels, cur, at, connVars, pullVars, tested>>

\* The channel fits and its queue has room: the thread goes on to push.
PushSelect(p) ==
  /\ pc[p] = "scan"
  /\ at[p] <= Len(channels[p])
  /\ Eligible(Chan(p), cur[p])
  /\ HasRoom(Chan(p).id)
  /\ flags' = [flags EXCEPT ![p] = @ \cup FlagsOf(Chan(p), cur[p])]
  /\ pc' = [pc EXCEPT ![p] = "push"]
  /\ UNCHANGED <<pool, queue, channels, cur, at, connVars, pullVars, tested>>

\* It does not: the iterator moves on.
PushSkip(p) ==
  /\ pc[p] = "scan"
  /\ at[p] <= Len(channels[p])
  /\ ~(Eligible(Chan(p), cur[p]) /\ HasRoom(Chan(p).id))
  /\ flags' = [flags EXCEPT ![p] = @ \cup FlagsOf(Chan(p), cur[p])]
  /\ at' = [at EXCEPT ![p] = @ + 1]
  /\ UNCHANGED <<pool, queue, pc, channels, cur, connVars, pullVars, tested>>

\* The list is exhausted.
PushEnd(p) ==
  /\ pc[p] = "scan"
  /\ at[p] > Len(channels[p])
  /\ pc' = [pc EXCEPT ![p] = "reply"]
  /\ UNCHANGED <<pool, queue, channels, cur, at, flags, connVars, pullVars,
                 tested>>

\* Mutant: completed is not set.
PushQueueSilent(p) ==
  /\ pc[p] = "push"
  /\ queue' = [queue EXCEPT ![Chan(p).id] = Append(@, cur[p])]
  /\ pc' = [pc EXCEPT ![p] = "reply"]
  /\ UNCHANGED <<pool, channels, cur, at, flags, connVars, pullVars, tested>>

\* lamb_queue_push under the list's lock, whatever the length is by now.
PushQueue(p) ==
  /\ pc[p] = "push"
  /\ queue' = [queue EXCEPT ![Chan(p).id] = Append(@, cur[p])]
  /\ flags' = [flags EXCEPT ![p] = @ \cup {"completed"}]
  /\ pc' = [pc EXCEPT ![p] = "reply"]
  /\ UNCHANGED <<pool, channels, cur, at, connVars, pullVars, tested>>

\* The answer is sent without waiting: nobody gets it when the server left.
\* The server that still waits takes it (server.c:452-470).  The thread's
\* locals are dead until the next SUBMIT sets them again.
PushReply(p) ==
  /\ pc[p] = "reply"
  /\ pc' = [pc EXCEPT ![p] = "recv"]
  /\ cur' = [cur EXCEPT ![p] = NoMessage]
  /\ at' = [at EXCEPT ![p] = 1]
  /\ flags' = [flags EXCEPT ![p] = {}]
  /\ IF conn[p] = "asked"
     THEN LET a == AnswerOf(flags[p]) IN
          /\ conn' = [conn EXCEPT ![p] = IF a = "BUSY" THEN "busy" ELSE "idle"]
          /\ answer' = [answer EXCEPT ![cur[p]] = a]
          /\ asking' = [asking EXCEPT ![p] = IF a = "BUSY" THEN @ ELSE NoMessage]
     ELSE UNCHANGED <<conn, answer, asking>>
  /\ UNCHANGED <<pool, queue, channels, inbox, todo, cuts, pullVars, tested>>

\* BYE, or a receive timeout with no connection left: the thread ends.
PushExit(p) ==
  /\ pc[p] = "recv"
  /\ \/ inbox[p] # <<>> /\ Head(inbox[p]) = Bye
     \/ inbox[p] = <<>> /\ conn[p] = "closed"
  /\ pc' = [pc EXCEPT ![p] = "free"]
  /\ inbox' = [inbox EXCEPT ![p] = <<>>]
  /\ channels' = [channels EXCEPT ![p] = <<>>]
  /\ UNCHANGED <<pool, queue, cur, at, flags, conn, asking, todo,
                 answer, cuts, pullVars, tested>>

-----------------------------------------------------------------------------
(* The account server's side of a push connection *)

\* The server sends a message it has to schedule and waits for the answer.
ServerSubmit(p, m) ==
  /\ conn[p] = "idle"
  /\ m \in todo
  /\ todo' = todo \ {m}
  /\ conn' = [conn EXCEPT ![p] = "asked"]
  /\ asking' = [asking EXCEPT ![p] = m]
  /\ inbox' = [inbox EXCEPT ![p] = Append(@, m)]
  /\ UNCHANGED <<pool, queue, pushVars, answer, cuts, pullVars, tested>>

\* BUSY: the same message again, after a pause.
ServerRetry(p) ==
  /\ conn[p] = "busy"
  /\ conn' = [conn EXCEPT ![p] = "asked"]
  /\ inbox' = [inbox EXCEPT ![p] = Append(@, asking[p])]
  /\ UNCHANGED <<pool, queue, pushVars, asking, todo, answer, cuts, pullVars,
                 tested>>

\* The server gives the connection up: with a BYE (reload, exit) or without
\* (a crash of the link, which also loses what the socket held).  A message
\* whose answer is outstanding is sent again on the next connection.
ServerClose(p, rest) ==
  /\ conn[p] # "closed"
  /\ conn[p] = "asked" => cuts[asking[p]] < MaxCuts
  /\ conn' = [conn EXCEPT ![p] = "closed"]
  /\ inbox' = [inbox EXCEPT ![p] = rest]
  /\ asking' = [asking EXCEPT ![p] = NoMessage]
  /\ IF conn[p] \in {"asked", "busy"}
     THEN /\ todo' = todo \cup {asking[p]}
          /\ cuts' = [cuts EXCEPT ![asking[p]] =
                        IF conn[p] = "asked" THEN @ + 1 ELSE @]
     ELSE UNCHANGED <<todo, cuts>>
  /\ UNCHANGED <<pool, queue, pushVars, answer, pullVars, tested>>

ServerBye(p)  == ServerClose(p, Append(inbox[p], Bye))
ServerLost(p) == ServerClose(p, <<>>)

-----------------------------------------------------------------------------
(* The pull thread and the gateway at its other end *)

\* A gateway connects: the thread looks for its queue in the pool.
PullFind(q, g) ==
  /\ pull[q] = "free"
  /\ pull' = [pull EXCEPT ![q] = g]
  /\ ppc' = [ppc EXCEPT ![q] = IF g \in pool THEN "idle" ELSE "create"]
  /\ UNCHANGED <<pool, queue, pushVars, connVars, linked, taken, tested>>

\* Without one it creates one, a step of its own.  If another thread was faster
\* this is a second queue: whoever pushes finds the first, so that it stays
\* empty and the gateway is answered EMPTY for as long as it is connected.
PullCreate(q) ==
  /\ ppc[q] = "create"
  /\ pool' = pool \cup {pull[q]}
  /\ ppc' = [ppc EXCEPT ![q] = IF pull[q] \in pool THEN "second" ELSE "idle"]
  /\ UNCHANGED <<queue, pushVars, connVars, pull, linked, taken, tested>>

\* The gateway's sender asks while its link to the carrier is up (sp.c:189-200).
PullAsk(q) ==
  /\ ppc[q] = "idle"
  /\ pull[q] \in linked
  /\ ppc' = [ppc EXCEPT ![q] = "asked"]
  /\ UNCHANGED <<pool, queue, pushVars, connVars, pull, linked, taken, tested>>

\* REQ: the head of the queue is popped and sent.  A gateway that is gone by
\* then never gets the popped message: there is no way back into the queue.
PullPop(q) ==
  /\ ppc[q] = "asked"
  /\ queue[pull[q]] # <<>>
  /\ taken' = [taken EXCEPT ![Head(queue[pull[q]])] = @ + 1]
  /\ queue' = [queue EXCEPT ![pull[q]] = Tail(@)]
  /\ ppc' = [ppc EXCEPT ![q] = "idle"]
  /\ UNCHANGED <<pool, pushVars, connVars, pull, linked, tested>>

PullEmpty(q) ==
  /\ ppc[q] = "asked"
  /\ queue[pull[q]] = <<>>
  /\ ppc' = [ppc EXCEPT ![q] = "idle"]
  /\ UNCHANGED <<pool, queue, pushVars, connVars, pull, linked, taken, tested>>

\* The gateway leaves (BYE, or no connection at a timeout).  The queue stays
\* in the pool.
PullExit(q) ==
  /\ ppc[q] \in {"idle", "asked", "second"}
  /\ pull' = [pull EXCEPT ![q] = "free"]
  /\ ppc' = [ppc EXCEPT ![q] = "none"]
  /\ UNCHANGED <<pool, queue, pushVars, connVars, linked, taken, tested>>

\* The link to the carrier goes down and, in time or never, up again.
CarrierDown(g) ==
  /\ g \in linked \cap Flaky
  /\ linked' = linked \ {g}
  /\ UNCHANGED <<pool, queue, pushVars, connVars, pull, ppc, taken, tested>>

CarrierUp(g) ==
  /\ g \notin linked
  /\ linked' = linked \cup {g}
  /\ UNCHANGED <<pool, queue, pushVars, connVars, pull, ppc, taken, tested>>

-----------------------------------------------------------------------------
\* The test thread: no operator, no limit, only the named gateway's queue.
\* Without a queue the answer is NOROUTE and nothing changes.
TestPush(t) ==
  /\ t \notin tested
  /\ TestChannel[t] \in pool
  /\ queue' = [queue EXCEPT ![TestChannel[t]] = Append(@, t)]
  /\ tested' = tested \cup {t}
  /\ UNCHANGED <<pool, pushVars, connVars, pullVars>>

-----------------------------------------------------------------------------
PushStep(p) ==
  \/ PushRecv(p) \/ PushSelect(p) \/ PushSkip(p) \/ PushEnd(p)
  \/ PushQueue(p) \/ PushReply(p) \/ PushExit(p)

ServerStep(p) ==
  \/ \E m \in Messages : ServerSubmit(p, m)
  \/ ServerRetry(p) \/ ServerBye(p) \/ ServerLost(p)

PullStep(q) ==
  \/ \E g \in Gateways : PullFind(q, g)
  \/ PullCreate(q) \/ PullAsk(q) \/ PullPop(q) \/ PullEmpty(q) \/ PullExit(q)

Carrier == \E g \in Gateways : CarrierDown(g) \/ CarrierUp(g)

Next ==
  \/ \E p \in Pushers : \E chans \in Routes : PushConnect(p, chans)
  \/ \E p \in Pushers : PushStep(p)
  \/ \E p \in Pushers : ServerStep(p)
  \/ \E q \in Pullers : PullStep(q)
  \/ \E t \in Tests : TestPush(t)
  \/ Carrier

Spec == Init /\ [][Next]_vars

\* The scheduler's threads run, a server that was told BUSY tries again
\* (server.c:472), and a connected gateway keeps asking while its link to the
\* carrier is up (sp.c:188-215).  Nobody has to connect, to submit or to stay,
\* and a link that is down need not come up again.
FairSpec ==
  /\ Spec
  /\ \A p \in Pushers : WF_vars(PushStep(p)) /\ WF_vars(ServerRetry(p))
  /\ \A q \in Pullers : /\ WF_vars(PullCreate(q)) /\ WF_vars(PullAsk(q))
                        /\ WF_vars(PullPop(q) \/ PullEmpty(q))

-----------------------------------------------------------------------------
(* Properties *)

\* Every thread's locals are of their kind: in particular the iterator is
\* always at a position (scheduler.c:478), never before the first.
TypeOK ==
  /\ pool \subseteq Gateways
  /\ queue \in [Gateways -> Seq(Messages \cup Tests)]
  /\ pc \in [Pushers -> {"free", "recv", "scan", "push", "reply"}]
  /\ channels \in [Pushers -> Seq(Channel)]
  /\ cur \in [Pushers -> Messages \cup {NoMessage}]
  /\ at \in [Pushers -> Nat \ {0}]
  /\ flags \in [Pushers ->
                 SUBSET {"available", "operator", "province", "completed"}]
  /\ inbox \in [Pushers -> Seq(Messages \cup {Bye})]
  /\ conn \in [Pushers -> {"closed", "idle", "asked", "busy"}]
  /\ asking \in [Pushers -> Messages \cup {NoMessage}]
  /\ todo \subseteq Messages
  /\ answer \in [Messages -> Answers \cup {"none"}]
  /\ cuts \in [Messages -> Nat]
  /\ pull \in [Pullers -> Gateways \cup {"free"}]
  /\ ppc \in [Pullers -> {"none", "create", "idle", "asked", "second"}]
  /\ \A q \in Pullers : pull[q] = "free" <=> ppc[q] = "none"
  /\ linked \subseteq Gateways
  /\ taken \in [Messages \cup Tests -> Nat]
  /\ tested \subseteq Tests

\* Push threads that have seen room in the queue of g and not pushed yet.
Committed(g) == {p \in Pushers : pc[p] = "push" /\ Chan(p).id = g}

\* The limit of scheduler.c:492 is tested without the lock of the push, so
\* several threads can pass it with the same free place; still, a queue never
\* grows past the limit by more than the other push threads and the test
\* messages, however the threads interleave.
QueueBound ==
  \A g \in Gateways :
    Len(queue[g]) <= Limit + (Cardinality(Pushers) - 1) + Cardinality(tested)

\* The positions at which message m is queued.
Places(m) ==
  UNION {{<<g, k>> : k \in {j \in DOMAIN queue[g] : queue[g][j] = m}} :
           g \in Gateways}

\* Copies of m the scheduler put into queues so far.
Copies(m) == Cardinality(Places(m)) + taken[m]

\* What the server is told is what happened: OK means the message was queued,
\* a refusal that it was not, and it is queued once, except for one more copy
\* each time the connection was cut between the request and the answer
\* (scheduler.c:504-516 against server.c:436-473).
AnswersMatchQueues ==
  \A m \in Messages :
    /\ Copies(m) <= 1 + cuts[m]
    /\ answer[m] = "OK" => Copies(m) >= 1
    /\ answer[m] \in {"REJECT", "NOROUTE"} => Copies(m) <= cuts[m]

\* The channels of p's client that carry the number of its message.
Fit(p) == {k \in DOMAIN channels[p] : Eligible(channels[p][k], cur[p])}

\* The booleans collected along the iteration give the answer that the channel
\* list calls for: NOROUTE for an empty list, REJECT when no channel carries
\* the number, BUSY only if one does, OK from a channel that does
\* (scheduler.c:470-514).
AnswerJustified ==
  \A p \in Pushers : pc[p] = "reply" =>
    LET a == AnswerOf(flags[p]) IN
    /\ a = "NOROUTE" <=> channels[p] = <<>>
    /\ a = "REJECT" <=> channels[p] # <<>> /\ Fit(p) = {}
    /\ a = "OK" => at[p] \in Fit(p)
    /\ a = "BUSY" => Fit(p) # {} /\ at[p] > Len(channels[p])

\* No message waits in the queue of a gateway that no account may reach it by:
\* a queue holds only numbers its channel carries, and test messages only in
\* the queue they name (scheduler.c:483-494, 317-320).
QueuedWhereAllowed ==
  \A g \in Gateways : \A k \in DOMAIN queue[g] :
    LET m == queue[g][k] IN
    \/ m \in Tests /\ TestChannel[m] = g
    \/ /\ m \in Messages
       /\ \E r \in Routes : \E j \in DOMAIN r : r[j].id = g /\ Eligible(r[j], m)

\* Thread q serves gateway g from the queue that is pushed to.
Serves(q, g) == pull[q] = g /\ ppc[q] \in {"idle", "asked"}

\* An account that is told BUSY does not retry for ever: its message gets a
\* final answer or its connection ends (scheduler.c:470-516 with
\* server.c:436-473), provided that in the end every gateway stays connected,
\* by a thread that has the first queue of its id, and its link to the carrier
\* stays up.  A gateway that is away, has lost its carrier (sp.c:189) or polls a
\* second queue can hold an account for ever, and two accounts can starve each
\* other: this is for one account.
RetriesSettle ==
  (\A g \in Gateways : \E q \in Pullers : <>[](Serves(q, g) /\ g \in linked)) =>
    \A p \in Pushers : conn[p] = "asked" ~> conn[p] \in {"idle", "closed"}

=============================================================================
