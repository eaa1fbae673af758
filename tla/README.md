# lamb: a verification of the message paths

Lamb is an SMS gateway platform that speaks CMPP 2.0.  Its processes are
written in C, with pthreads, and talk to each other over nanomsg; state that
outlives a process is in redis and PostgreSQL.  This directory has TLA+ modules of
the processes that carry a message, TLC configurations for small instances of
them, and TLAPS proofs.  File names below are relative to `src/src/`.

## 1. The system

A submission goes down, reports and subscribers' messages come up:

    client --CMPP--> ismg --> mt[account] --> server(account) --> scheduler[gateway]
                                                                     |
    client <--CMPP-- ismg <-- mo[account] <-- server(account)        v
                                                ^                 sp(gateway) --CMPP--> carrier
                                                |                    |
                                                +-- delivery[account] <--+

`x[y]` is a process that keeps one queue for each y; `x(y)` is one process for each y.

| part | state it keeps | operations | talks to | what is hard | what makes it correct |
|---|---|---|---|---|---|
| `ismg.c`, a process for each logged-in client | the last packet sent and the answer awaited (`confirmed`), the counter of message ids | answer a submission and pass it to mt; take an item from mo, send it to the client until it is answered | client, mt, mo, redis | the answer races the wait; a condition variable without a predicate; end of a session with an item in hand | an item taken from mo reaches the client; one session for a client |
| `mt.c`, `mo.c` | a list of queues, one for each account; the shared `resp` | handshake on the main port, a thread and a port for each client, push, pull | ismg and server | find-or-create by many threads; `resp` shared by all; ports used again | one FIFO for each account, nobody else's messages |
| `server.c`, a process for each account | lists `billing`, `storage`, `unsubscribe`; `arrears`, `sleeping`; counters in redis | filter, submit to the scheduler until it answers, charge; refund, forward and store reports; reload; exit | mt, scheduler, delivery, mo, redis, PostgreSQL | seven threads; reports overtake; reload under way; exit forgets | a message has one fate, money follows it, rows end up right |
| `scheduler.c` | the gateway queues (limit 128), the channel list of each connected account | route a message by its channels, hand out messages to gateways | server, sp, testd | length tested without the lock; three flags decide the answer; lost answers are asked for again | the answer says what happened; queues stay bounded |
| `sp.c`, a process for each gateway | `confirmed`, the cache carrier id -> message, `storage`, the counters | submit one message at a time and wait for the carrier; map ids; forward reports; count | carrier, scheduler, delivery, redis, PostgreSQL | `confirmed` written by one thread and read by another without a lock; late answers; lost link | a report reaches the account of its message, once counted |
| `delivery.c` | routing list, queues for the accounts, `storage` | route reports and messages to accounts, reload, store what nobody is named for | sp, server, redis, PostgreSQL | find-or-create for each item; the routing list rebuilt without a lock under threads that walk along it | no item to the wrong account; little in a second queue; a change arrives |
| `socket.c` | - | ask for a port, connect, BYE | all of the above | no timeout on the answer; sockets reconnect by themselves | every request is answered |
| `list.c`, `queue.c` | doubly linked list with a lock | push, pop (locked), find (unlocked) | all | find while others push | FIFO |
| `common.c` | a counter, lock files | ids, waiting, encoding, lock file | all | wrap-around; a lock file outlives a crash | ids differ until the counter wraps; one process for each service |
| `lamb.c`, `daemon.c`, `test.c` | rows of the task queue, signals in redis | start, stop, reload; test messages | redis, PostgreSQL | a signal read and then reset; a row started and then deleted | every order that is lost has a known reason |
| `account.c`, `gateway.c`, `channel.c`, `company.c`, `routing.c`, `template.c`, `keyword.c`, `db.c`, `cache.c`, `config.c` | - | queries | - | - | - |
| `message.c`, `command.c` (protobuf-c), `linenoise.c`, `web/` | generated, vendored, PHP pages | | | | |

`PROJECT.json` lists each part with its status, and under `hazards` what can go wrong
in it that a test would hardly reach.

## 2. The modules

| module | models | composed from |
|---|---|---|
| `Scheduler` | `scheduler.c` with the servers' side of the connection (`server.c:436-473`) | |
| `SchedulerProofs` | proofs about it | `Scheduler`, TLAPS |
| `Sp` | the four working threads of `sp.c`, the carrier as environment | |
| `SpProofs` | proofs about it | `Sp`, TLAPS |
| `Server` | `server.c`, the scheduler's answers and redis' expiry as environment | |
| `ServerProofs` | proofs about it | `Server`, TLAPS |
| `Ismg` | one session after another of `ismg.c`, the client as environment | |
| `IsmgProofs` | proofs about it | `Ismg`, TLAPS |
| `AccountQueues` | what mt and mo promise: a FIFO for each account | |
| `Broker` | `mt.c` and `mo.c` with `socket.c` | implements `AccountQueues` |
| `BrokerProofs` | proofs about it | `Broker`, TLAPS |
| `Delivery` | `delivery.c`, gateways and servers as environment, the page that edits the routes (`web/app/models/Delivery.php`) | |
| `DeliveryProofs` | proofs about it | `Delivery`, TLAPS |
| `Control` | `daemon.c`, the commands of `lamb.c`, start, signals and end of `server.c` and `sp.c`, lock files of `common.c`, logins of `ismg.c` | |
| `ControlProofs` | proofs about it | `Control`, TLAPS |
| `MC*` | small instances for TLC | |

Conventions.  A step ends where another thread can see or change what it has touched.
Whatever is done under one lock, or touches only a thread's own variables, is one
step.  Messages, phones, accounts and gateways are model values.  Variables under
the comment "history" record what the properties need and the code does not keep; no
guard reads them, except for the bounds.  Operators marked "Mutant" are variants of the
definition after them with a plausible mistake; no specification uses them.

**Scheduler.**  `pc[p]`, `cur`, `at`, `flags`, `channels` are the locals of a
push thread, `queue[g]` and `pool` the queues.  `PushRecv` to
`PushReply` are the steps of `scheduler.c:426-518`: one step for each channel
(`PushSelect`, `PushSkip`), then the push (`PushQueue`), so that other threads come
in between the test of the length and the push.  `ServerSubmit`, `ServerRetry` and
`ServerClose` are the other end.  The server waits for an answer
without a timeout, so that after a lost link it is reload that closes the socket, and
only then is the message sent again: `ServerClose` stands for both.  A gateway without a
queue counts as one without room, as in the code.  The handshake is that of `Broker`.
`pull[q]` and `ppc[q]` are a pull thread: `PullFind` and `PullCreate` are the two halves of
`scheduler.c:553-562`, so that two connections of one gateway can create a queue each.  Push threads find
the first; a thread with the second (`"second"`) has nothing to hand out but EMPTY, which is why that queue
needs no variable.  The sender of `sp.c` asks only while `cmpp.ok` holds (`PullAsk`, `sp.c:189`);
`CarrierDown` and `CarrierUp` change that while the connection to the scheduler stays.

**Sp.**  `spc` is the sender, `rpc` the receiver, `item` the worker.  The
fields of `confirmed` are written in three steps (`SenderFetch`,
`SenderOwner`, `SenderSubmit`, as in `sp.c:232-254`) and read in two
(`RecvSubmitResp`, `RecvRead`).  A return of `pthread_cond_timedwait` for no
reason has the effect of a timeout and is merged with it.  Carrier ids are taken to be
different from message ids, which share one key space in redis.  Account, company and
spcode are one value, `owner`.  A report that is freed
(`sp.c:526`) goes to `dropped`, together with whether the cache had answered (`read`); `unmapped` has the ids whose
answer came to nothing: lost with the link, not accepted for its number, or not taken by the cache.
`LinkDown` and `LinkUp` stand for keepalive and
reconnection; flow control is time and is left out.  Signal 9 ends the process, hence no
check for deadlock.

**Server.**  `wpc` is the work thread, `dpc` the deliver thread; billing, store,
unsubscribe and stat take one step for each item.  `Fails[m]` says which filter
refuses a message, `Leaving` which subscriber messages ask to be left alone, `Garbled` which texts cannot be
converted and are skipped (`server.c:715-723`).  `DeliverReport` takes any number of reports on a
message that was queued (`MaxReports` for TLC): one for each copy is counted in `reports`, those beyond, which come again or were mapped to the
wrong message, in `extra`; the deliver thread does not tell them apart.  `unbilled` has the messages whose charge an exit forgot after the scheduler had answered OK.
Reload is two steps (`ReloadCut`, `ReloadDone`), since the work thread may be in
the middle of a request; it comes from the signal in redis, not from SIGHUP.  `StatExit` forgets
all lists; `Restart` is the daemon.  `Outcomes` says whether calls to
redis and PostgreSQL may fail.  Failing `malloc` and packets that cannot be unpacked
are left out, and so are the nodes of the template and keyword lists (`Delivery` shows for its routing
list what a reload does to threads that walk along one).

**Ismg.**  `dpc` is the deliver thread, `rpc` the one that reads from the client.  A
spurious return of the wait is a step of its own here, because it is taken for an answer.  Request and answer of mo
are steps of their own (`DeliverAsk`, `MoAnswer`, `DeliverFetch`): mo takes the item off its queue before it
sends it (`mo.c:461-495`), the answer may go down with the connection (`MoDrop`), and mo may serve a request that nobody waits
for any more, one that the REQ socket repeated or that an ended session left behind (`MoAgain`).  `SeqMax` stands
for 0xffff.  The login is in `Control`.

**Broker.**  `mpc` is the main thread.  It holds the mutex from the end of a
wait to the beginning of the next, so that what it does after waking is one step.
`ThreadFind` and `ThreadCreate` are the two halves of
`mt.c:229-238`.  `resp` is the port in the shared response; its text is on the
stack of the thread that wrote it, and once that thread has ended, it is either still there or no
address (`RespText`).  A client may ask, connect, lose the connection, connect again by itself to
the same port (nanomsg does that), say BYE or vanish.  `hurries` counts the waits that
end without a signal: spurious ones and timeouts of three seconds.

**Delivery.**  `ppc`, `item`, `account`, `node`, `queue` are the locals of a push
thread (`delivery.c:335-520`), `reader` and `mine` those of a pull thread, `rpc`, `got`,
`rows` those of `lamb_stat_loop` with `lamb_reload`.  The walk along the routing list takes one
step for each node.  `node` is the iterator: the place of the next node, and the
generation `gen` of the list the node belongs to, so that `Allocated` can tell a node that
is there from one that was freed.  Reading a freed node (`PushWalkFreed`) may
yield any account or none; that it may also crash the process is not modelled.  The history
variable `torn` has the messages this happened to, `overlap` those whose walk
met a list under reconstruction.  Reload takes one step for each node it removes and one for each row it
appends.  The result of a SELECT without ORDER BY is taken to come in one order.
Find-or-create (`PushFind`, `PushCreate`, `PullFind`, `PullCreate`) is two steps for
every thread, because the main thread waits for three seconds at most and push threads do
it for each item.  Left out: failures of redis, the reload by SIGHUP, the handshake (that of `Broker`).

**Control.**  A process is a slot with a place `pc`, a service or client `name`, and the
signal it has read, `got`.  `locked[n]` is the lock file, which
remembers who made it; `holds` has the processes with an open `lock->fd`.  `ProcLock` to `ProcExit` are a service
from its start to its end: it may be refused, may fail to initialise (then a gateway
releases its lock twice, a server once), obey a kill or crash.  The daemon starts the program of the
newest row and then deletes the row, two steps; a deletion that fails starts the program again.
`StatRead` and `StatClear` are the HGET and HSET of `lamb_check_signal`.  `Login` is
the decision of `lamb-ismg` to fork, from the stamp's `age`; `Renew` is
`lamb_online_loop`.  Time advances by `Second`, which waits for sessions that are due to
renew: the code sleeps three seconds between renewals, and `Renewal` is the time after which the
renewal has certainly happened.  Left out: failures of redis.

## 3. The runs

| run | instance | shows |
|---|---|---|
| `scheduler_routing` | 2 servers, 2 gateways, 2 messages, limit 1, 1 cut | `AnswersMatchQueues`, `AnswerJustified`, `QueuedWhereAllowed`, `QueueBound`: the limit is exceeded, by no more than the number of other threads; a message is queued twice only if its answer was cut off |
| `scheduler_fair` | 1 server, 2 gateways whose carrier links go down and up, 2 pull threads, 1 message, 1 test message | `RetriesSettle`: BUSY does not last once every gateway stays connected by a thread with the first queue and keeps its carrier.  With one gateway away, without its carrier or with a second queue, or with two accounts in competition, it may |
| `sp_mapping` | 2 messages of 2 accounts, 1 loss of the link | `MappingRight`, `SettledUntilTimeout`: a wrong mapping needs an answer that is handled while the sender rewrites `confirmed`, and nothing else leads to one |
| `sp_reports` | 1 message reported twice, 1 that cannot be encoded, 1 subscriber message | `ReportLossExplained`, `CountedOnce`, `SenderReturns`: a report is thrown away only where the cache fails or never got the id |
| `server_money` | 1 message that a template may refuse, up to 4 reports on it, 2 lost answers, 1 reload, 1 exit, no money | `OneFate`, `StatusKept`; `RefundsCovered`: one refund for the charge; what is refunded beyond it has a cause that is counted, one refund each |
| `server_fair` | 2 messages, no reports, 2 requests to be left alone, one of them garbled, failing redis and PostgreSQL, 1 exit | `ArrearsStop`, `LimitPasses`, `UnsubscribeKept` |
| `server_report` | 1 message, 1 report | violated: `ReportStored` |
| `ismg_deliver` | 2 items, 2 sessions, 1 packet on the wire each way, 1 request served in vain, 4 submissions in 2 seconds, counter up to 3 | `EarlyExplained`, `LossExplained`, `ReachesClient`; `RepeatsAtWrap`: ids repeat where the counter starts anew and nowhere else |
| `broker_queues` | 3 clients of 2 accounts, 2 threads, 2 messages, 1 lost connection | `OneQueue`, `OwnMessages`, `Fifo` (refinement of `AccountQueues`), if every wait of the main thread ends with a signal |
| `broker_hurry` | 2 clients, 2 threads, 1 message, 1 wait that ends too early | `Kept`, `Answered`: even then no message is lost in the broker or taken twice |
| `delivery_reload` | 2 gateways, 2 accounts, 1 report, 1 subscriber message, 2 changes of the routes, 1 pull thread | `OneItemEach`, `RightAccount`, `ListCurrent`, `SecondQueueSmall`: a list under reconstruction names nobody where it should name somebody, but never somebody else, unless a freed node is read; a change arrives unless its signal falls between HGET and HSET or the query fails; a second queue may arise and then holds one item at most |
| `control` | 1 server, 1 gateway, 1 client, 2 processes, 2 start commands, 3 signals, 2 faults | `LockRight`, `KillsAccounted`, `NoSecondSession`: one process for each service; a kill ends one process or is lost for one of three reasons; a second session gets in only before the first has written its stamp |

Each module's `TypeOK` is checked in one of its runs.

*Bounds.*  All hazards here need two actors (two threads, a thread and a late answer,
a session and the one before) and one disturbance (a cut, a loss, a reload, an exit, a crash,
a wait that ends early).  The instances have two of each actor (in `server_money` one message, since its
properties speak of each message alone) and one or two
disturbances.  A limit of 1 makes a queue full after one message; `SeqMax` of 3
makes the counter start anew after as many.  In `delivery_reload` the routing list
has two nodes, which is what it takes for a thread to stand on the second while it is removed,
and two changes, so that one can be made while the other is being loaded.  In `control` the stamp's window of 7
seconds and the renewal of at most 4 are 4 and 2.  The constants `Max...` bound what the
environment does and no property refers to them beyond a type; that the properties of `broker_queues` hold for `MaxHurries = 0` is a condition
and said as such.

*Violations.*  `server_report` is listed under `findings`: a report enters
`storage` before its message; its UPDATE finds no row.  Two other weaknesses are
stated exactly by invariants that hold: `SettledUntilTimeout` (the receiver tests an
answer, the sender times out and waits for the next message, and the late signal ends that
wait) and `RepeatsAtWrap` (`lamb_sequence` returns 1 twice).

*What the properties excuse.*  Where the code has a real weakness, the property that meets it does not deny it: it
names the window, allows what happens there and says that there is no other way to it.
`MappingRight` excuses answers handled while `confirmed` is rewritten; `ReportLossExplained` reports met by a cache that fails;
`CountedOnce` counts a snapshot the database refused as unwritten; `RefundsCovered` lost
answers, a charge forgotten by an exit, and further reports; `LimitPasses` the gap between INCRBY and
EXPIRE (`stuck`); `LossExplained` sessions that end and requests served in vain; `StatusKept` a report that
overtook its message (shown by `server_report`); `NoSecondSession` a login before the first stamp; `OneQueue` and
`OwnMessages` waits cut short and outdated ports; `RetriesSettle` gateways that do not ask.

*Fairness.*  Weak fairness for steps of running threads, which is what the operating system
gives; none for the carrier, for clients that could connect or for links that could
come back, which is why the liveness properties have these as premises or escapes.  In Scheduler a gateway asks again and again only
while its link to the carrier is up, and the link has no fairness.  Ismg has in
addition strong fairness for a send that succeeds (sends that fail for ever would be an end of the
session) and fairness for a client that reads.  In Server counters with a
time to live expire.  In Broker, strong fairness for the receipt of
each client's request, as a nanomsg REP socket serves its peers in turn.

## 4. The proofs

Checked by tlapm for all values of the constants that satisfy the named assumptions: any
number of threads, messages, accounts and disturbances, any limit, any routes.  Every
invariant that a run checks is a theorem here, and so is the refinement `Fifo`.  Each
proof has the same frame: an inductive invariant, checked with TLC on the run's instance before it was
proved, that `Init` establishes, that every action keeps and that implies the property; type
correctness first, because all other steps use it.

`SchedulerProofs`, from `SchedulerAssumption`:

* `TypesKept`: `Spec => []TypeOK`.  `TypeOK` is not inductive, because the step
  that reads `channels[p][at[p]]` needs `at[p]` within the list; `LocalsOK` says where
  the thread must be for that.
* `QueuesBounded`: `Spec => []QueueBound`.  That the length is within the bound
  does not say that it stays so: a thread that has passed the test may still push.
  `BoundInv` counts these threads: the length together with the number of threads in
  `Committed(g)` is bounded, or nobody is committed beyond the limit.  A
  test adds one to the count only below the limit; a push turns a committed thread into an item.
  The number of committed threads is at most that of all threads.
* `AnswersJustified`: `Spec => []AnswerJustified`.  `ScanInv` is the
  loop invariant of `scheduler.c:478-502`: each flag is set exactly if a
  channel before the current position calls for it.
* `QueuedOnlyWhereAllowed`: `Spec => []QueuedWhereAllowed`.  Test and push are two steps; what
  carries the test over is `ScanInv` (a thread about to push stands on a channel that fits) and
  `RouteInv` (its list is one the database held).
* `AnswersMatch`: `Spec => []AnswersMatchQueues`.  The property counts copies, so it cannot be inductive
  without those that are still to come.  `ProtoInv` is the conversation: while a server waits, its message is in one
  place, the socket or the thread's hand; after a cut the thread may go on with it for nobody; one server at most asks for
  a message, and only for one without a final answer.  `CopyInv` is the account: copies made plus threads that may
  still make one for nobody (`Stale`) are paid for by the cuts, and one more by `Settled`, an OK given or about
  to be.  A cut turns a message that is being asked for into a stale one and pays for it; a push turns a stale thread, or
  an unsettled message, into a copy.  `PlacesPush` and `PlacesPop` say what appending and taking the head
  do to the number of places of a message.

`BrokerProofs`, from `BrokerAssumption`:

* `TypesKept`: `Spec => []TypeOK`, with `LocalsOK`: a thread that serves has a client, a
  queue in the list that is of its client's account, and a port nobody else has.
* `FindWorks` (a lemma): the search returns a queue of the account if the list has one.  It
  rests on the fact that a set of numbers that is not empty has a smallest element
  (well-founded induction on the naturals).
* `AccountsHaveOneQueue`: `Spec => []OneQueue`.  `OneQueue` is not inductive: a thread
  that has searched and not yet created must still be right.  `HandshakeInv` says that, while
  no wait has ended without a signal (`hurries = 0`), the main thread waits for the only
  thread that is starting, so nobody creates a queue between search and creation.
* `MessagesReachOwners`: `Spec => []OwnMessages`.  `OwnInv` adds what the port of a client,
  the content of a queue and the received messages have to do with accounts; it
  excludes clients with an outdated port and the messages they touched.
* `QueuesAreFifo`: `Spec => Fifo` if `MaxHurries = 0`.  Refinement mapping `Items(a)`, the content of
  the first queue of `a`.  A push maps to `Put`, a pull to `Take`, all
  other steps, the creation of an empty queue included, to stuttering.
* `MessagesKept`: `Spec => []Kept`, with no condition on the waits.  `KeptInv` says without counting that two places of a
  message are the same place, and that there is one exactly if it was put; that a queue moves up by one at a pull is
  the step that needs it.

`DeliveryProofs`, from `DeliveryAssumption`:

* `TypesKept`: `Spec => []TypeOK`.  `TypeInv` adds `PushLocals` and `PullLocals`: a thread
  that is about to push or pop has a queue of the list, one that walks has a message.
* `ReloadLetsOneIn`: `Spec => []OneItemEach`.  Inductive once one adds that
  a thread which has received since `sleeping` was raised is no longer receiving.
* `ChangesArrive`: `Spec => []ListCurrent`.  The invariant follows a change through database, signal,
  what was read, rows left and list: at each place of `lamb_stat_loop` either the list to come is that of
  the database, or a signal for it is set or about to be, or one was missed or the query failed.
* `SecondQueuesStaySmall`: `Spec => []SecondQueueSmall`.  `SmallInv` says that only the thread that
  created a second queue, before it has pushed, can put something into it.
* `RightAccountsGetThem`: `Spec => []RightAccount`.  `TableInv`: the list is at all times the
  beginning of one that was in use.  This is where removal from the tail matters.  `WalkInv`: the nodes a
  thread has passed did not match, and one whose walk did not overlap a reload stands on the list.
  `CarryInv`: what a thread, a queue or a server holds is for its account.

`ControlProofs`, from `ControlAssumption`:

* `TypesKept`: `Spec => []TypeOK`.
* `LocksAreRight`: `Spec => []LockRight`.  `LockInv` ties the open descriptor to the file:
  who holds one made the file that is there, and a process on its way out holds
  none, so that the second release of a gateway removes nobody else's file.
* `SessionsAreAlone`: `Spec => []NoSecondSession`.  `Fresh`: a stamp is no older than any
  session of its client that has renewed it is idle, and that is at most `Renewal < Window`.
* `KillsAreAccounted`: `Spec => []KillsAccounted`.  `Account` is the same equation with the number of doomed
  processes replaced by a case distinction; `LockInv` gives that there is at most one.

`SpProofs`, from `SpAssumption` (the carrier gives each submission an id of its own, different from
message ids):

* `TypesKept`: `Spec => []TypeOK`.  `TypeInv` adds that there is a sequence number for every message
  still to come (`SenderLocals`) and that answers under way are about something submitted.
* `Counted`: `Spec => []CountedOnce`.  Inductive with its sums written out.
* `MappingKept`: `Spec => []MappingRight`.  `EditInv`: unless the sender is rewriting it, `confirmed` is about the last
  message submitted.  `AckInv`: an answer in the receiver's hand is exposed, or `confirmed` is still about it.  `KeyInv`:
  an id that was not yet given has no entry, and the DEL of `sp.c:524`, which has the wrong
  key, never meets one.
* `ReportLossIsExplained`: `Spec => []ReportLossExplained`.  `OrderInv` follows a report from the wire to the worker:
  on the wire its answer is before it, and once it was taken the answer is neither on the wire nor in hand, so that
  its id is in the cache by then or never will be.
* `SettledMeansAccepted`: `Spec => []SettledUntilTimeout`.  `WaitInv`: until a wait times out, a sender that
  is done has left no signal behind (`Outstanding` says where one could still come from).

`ServerProofs`, from `ServerAssumption`:

* `TypesKept`: `Spec => []TypeOK`, with the deliver thread's locals.
* `FateIsOne`: `Spec => []OneFate`.  `FateInv` has the stages of a message: at mt nothing has happened to it, in hand
  its copies are those of lost requests, one more once the scheduler has queued it, and only then a charge.
* `RefundsAreCovered`: `Spec => []RefundsCovered`.  `RefundInv`: no more `reports` than copies, and no more
  refunds than `reports` and `extra` together; with the stages above, a copy beyond the cuts is in hand, charged
  or forgotten by an exit.
* `ArrearsStops`: `Spec => []ArrearsStop`.  `ArrearsInv`: while the flag is set, charges since then plus the message that has
  passed the test are at most one.
* `StatusIsKept`: `Spec => []StatusKept`.  `StatusInv` is about the order in `storage`: a message's SUBMIT is before its
  reports, and a report has a row or a SUBMIT before it.  A message at mt has left no trace.

`IsmgProofs`, from `IsmgAssumption` (no item twice in the queue, a counter of at least two values):

* `TypesKept`: `Spec => []TypeOK`.
* `RepeatsOnlyAtWrap`: `Spec => []RepeatsAtWrap`.  `IdInv`: the last id has the value before the counter's, unless it has
  just started anew.
* `LossIsExplained`: `Spec => []LossExplained`.  What the client has answered it has got; the end of a session
  adds one item at most to what is lost, since nothing is on its way from mo while one is in hand, and so does each request served in vain.
* `EarlyIsExplained`: `Spec => []EarlyExplained`.  `CalmInv`: as long as no earlier item of the session was sent twice or
  had its wait end for no reason, all that is under way (packet, answer, signal) is about the item in hand, and one thing
  at most unless that item is sent again.  So the signal that ends the wait is the answer to it.

Left to TLC: the liveness properties (`RetriesSettle`, `SenderReturns`, `LimitPasses`, `UnsubscribeKept`,
`ReachesClient`, `Answered`), because the prover does not reason about fairness, and `ReportStored`, which is violated.

Two remarks for who continues the proofs.  `UNION A \cup UNION B` is the union of two unions to TLC and
`UNION (A \cup UNION B)` to tlapm; `Broker` has parentheses there.  `Op(x)'` also primes `x`, so lemmas about a
step take constants as arguments.

## 5. Not modelled

Time, except for the stamp of a login (flow control, sleep); failing allocation and
packets that cannot be parsed (both are dropped with a log line at every place); wording and
encoding of messages; the displays of `lamb.c` and statistics that are only printed; queries to the
database beyond their result; generated and vendored code; the web pages beyond the notifications they send.

## 6. Plan

1. `Sp`: keepalive and reconnection with their own clock, instead of `LinkDown` and `LinkUp`.
2. `Server`: the nodes of the template and keyword lists, with the reload that frees them, along
   the lines of `Delivery`.
3. A composition of `Server` and `Sp` through abstract queues: the report of a
   message refunds the account that was charged.
4. Proofs: an abstract specification of what a scheduler connection promises (asked, queued, answered), as
   `AccountQueues` is for the broker, and its refinement by `Scheduler`; action properties from the inductive invariants (a
   final answer is never taken back).
