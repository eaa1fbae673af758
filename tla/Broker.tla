------------------------------- MODULE Broker -------------------------------
(***************************************************************************)
(* lamb-mt and lamb-mo (src/src/mt.c, src/src/mo.c): the processes that    *)
(* keep a queue for each account between those who put messages (push      *)
(* clients) and those who take them (pull clients).                        *)
(*                                                                         *)
(* A client asks the main thread for a port (socket.c).  The main thread   *)
(* starts a thread for it and waits for at most three seconds on a         *)
(* condition variable, without a predicate.  The new thread finds or       *)
(* creates the account's queue, binds the first free port, writes it into  *)
(* the global `resp' and signals.  Woken, the main thread sends whatever   *)
(* `resp' holds to the client it is serving.                               *)
(*                                                                         *)
(* The main thread holds the mutex except while it waits, so that what it  *)
(* does after waking is one step.                                          *)
(***************************************************************************)
EXTENDS Naturals, Sequences, FiniteSets

CONSTANTS
  Clients,    \* the clients
  Account,    \* Account[c]: the account a client asks for
  Kind,       \* Kind[c]: "push" or "pull"
  Threads,    \* slots for threads; as many ports as slots
  Msgs,       \* messages
  Owner,      \* Owner[m]: the account m belongs to
  None,       \* no value
  MaxHurries, \* bound: waits of the main thread that end without a signal
  MaxLosses   \* bound: connections that are lost

Accounts == {Account[c] : c \in Clients}
Ports    == 1 .. Cardinality(Threads)

ASSUME BrokerAssumption ==
  /\ IsFiniteSet(Threads)
  /\ Account \in [Clients -> Accounts]
  /\ Kind \in [Clients -> {"push", "pull"}]
  /\ Owner \in [Msgs -> Accounts]
  /\ None \notin Clients \cup Msgs
  /\ MaxHurries \in Nat /\ MaxLosses \in Nat

VARIABLES
  \* the main thread
  mpc,        \* it receives, or waits for a thread
  serving,    \* the client it waits for
  signalled,  \* the condition variable has been signalled to it
  resp,       \* the port in `resp', 0 before the first
  \* the threads
  tpc, client, mine, port,
  pool,       \* the list of queues: records of account and items
  \* the clients
  cpc,        \* what each is doing
  given,      \* given[c]: the port it was told, 0 for none
  up,         \* clients with a connection
  todo,       \* messages not yet put
  \* history
  hurries,    \* waits of the main thread that ended without a signal
  losses,     \* connections lost
  stranded,   \* clients whose thread has ended and left them with its port
  taken,      \* taken[a]: messages popped by threads for a, in order
  got,        \* pairs of a client and a message it got
  stray       \* messages a stranded client has put or got

mainVars    == <<mpc, serving, signalled, resp>>
threadVars  == <<tpc, client, mine, port>>
clientVars  == <<cpc, given, up, todo>>
history     == <<hurries, losses, stranded, taken, got, stray>>
vars == <<mainVars, threadVars, pool, clientVars, history>>

Init ==
  /\ mpc = "recv" /\ serving = None /\ signalled = FALSE /\ resp = 0
  /\ tpc = [t \in Threads |-> "free"]
  /\ client = [t \in Threads |-> None]
  /\ mine = [t \in Threads |-> 0]
  /\ port = [t \in Threads |-> 0]
  /\ pool = <<>>
  /\ cpc = [c \in Clients |-> "off"]
  /\ given = [c \in Clients |-> 0]
  /\ up = {}
  /\ todo = Msgs
  /\ hurries = 0 /\ losses = 0 /\ stranded = {}
  /\ taken = [a \in Accounts |-> <<>>]
  /\ got = {} /\ stray = {}

-----------------------------------------------------------------------------
(* The main thread *)

\* A request: a thread is started for it, and the wait begins.
MainRecv(c, t) ==
  /\ mpc = "recv"
  /\ cpc[c] = "asking"
  /\ tpc[t] = "free"
  /\ mpc' = "wait"
  /\ serving' = c
  /\ signalled' = FALSE
  /\ tpc' = [tpc EXCEPT ![t] = "find"]
  /\ client' = [client EXCEPT ![t] = c]
  /\ UNCHANGED <<resp, mine, port, pool, clientVars, history>>

\* What `resp' says.  Its text is on the stack of the thread that wrote it: once
\* that thread has ended it is still there, or it is no address.
RespText == IF \E t \in Threads : port[t] = resp THEN {resp} ELSE {resp, 0}

\* The wait is over: the client gets the port in `resp'.  It gives up if that is
\* no address (socket.c:30).
MainAnswer(c) ==
  /\ mpc' = "recv"
  /\ serving' = None
  /\ signalled' = FALSE
  /\ \E p \in RespText :
       /\ cpc' = [cpc EXCEPT ![c] = IF p = 0 THEN "off" ELSE "on"]
       /\ given' = [given EXCEPT ![c] = p]
       /\ stranded' = IF p # 0 /\ \A t \in Threads : port[t] # p
                      THEN stranded \cup {c}
                      ELSE stranded \ {c}
  /\ UNCHANGED <<resp, threadVars, pool, up, todo, losses, taken, got, stray>>

MainWoken ==
  /\ mpc = "wait"
  /\ signalled
  /\ MainAnswer(serving)
  /\ UNCHANGED hurries

\* pthread_cond_timedwait may return for no reason, which is not ETIMEDOUT.
MainSpurious ==
  /\ mpc = "wait"
  /\ ~signalled
  /\ hurries < MaxHurries
  /\ hurries' = hurries + 1
  /\ MainAnswer(serving)

\* Three seconds are over: no answer.  The client's socket asks again.
MainTimeout ==
  /\ mpc = "wait"
  /\ ~signalled
  /\ hurries < MaxHurries
  /\ hurries' = hurries + 1
  /\ mpc' = "recv"
  /\ serving' = None
  /\ UNCHANGED <<signalled, resp, threadVars, pool, clientVars, losses, stranded,
                 taken, got, stray>>

-----------------------------------------------------------------------------
(* A thread *)

\* Mutant: a search that misses the end of the list.
FindShort(list, a) ==
  IF \E k \in 1 .. Len(list) - 1 : list[k].id = a
  THEN CHOOSE k \in 1 .. Len(list) - 1 :
         list[k].id = a /\ \A j \in 1 .. k - 1 : list[j].id # a
  ELSE 0

\* Where the queue of account a is in the list, 0 if it is not: the first match.
Find(list, a) ==
  IF \E k \in DOMAIN list : list[k].id = a
  THEN CHOOSE k \in DOMAIN list :
         list[k].id = a /\ \A j \in 1 .. k - 1 : list[j].id # a
  ELSE 0

ThreadFind(t) ==
  /\ tpc[t] = "find"
  /\ LET k == Find(pool, Account[client[t]]) IN
     /\ mine' = [mine EXCEPT ![t] = k]
     /\ tpc' = [tpc EXCEPT ![t] = IF k = 0 THEN "create" ELSE "bind"]
  /\ UNCHANGED <<mainVars, client, port, pool, clientVars, history>>

\* Mutant: the place after the new queue.
ThreadCreatePast(t) ==
  /\ tpc[t] = "create"
  /\ pool' = Append(pool, [id |-> Account[client[t]], items |-> <<>>])
  /\ mine' = [mine EXCEPT ![t] = Len(pool) + 2]
  /\ tpc' = [tpc EXCEPT ![t] = "bind"]
  /\ UNCHANGED <<mainVars, client, port, clientVars, history>>

\* There was none when it looked: a new queue goes to the end of the list.
ThreadCreate(t) ==
  /\ tpc[t] = "create"
  /\ pool' = Append(pool, [id |-> Account[client[t]], items |-> <<>>])
  /\ mine' = [mine EXCEPT ![t] = Len(pool) + 1]
  /\ tpc' = [tpc EXCEPT ![t] = "bind"]
  /\ UNCHANGED <<mainVars, client, port, clientVars, history>>

FreePorts == Ports \ {port[t] : t \in Threads}

\* lamb_child_server: the first port that can be bound.
ThreadBind(t) ==
  /\ tpc[t] = "bind"
  /\ \E p \in FreePorts :
       /\ \A q \in FreePorts : p <= q
       /\ port' = [port EXCEPT ![t] = p]
  /\ tpc' = [tpc EXCEPT ![t] = "tell"]
  /\ UNCHANGED <<mainVars, client, mine, pool, clientVars, history>>

\* Mutant: the port the search started from, not the one it found.
ThreadTellFirst(t) ==
  /\ tpc[t] = "tell"
  /\ resp' = 1
  /\ tpc' = [tpc EXCEPT ![t] = "signal"]
  /\ UNCHANGED <<mpc, serving, signalled, client, mine, port, pool, clientVars,
                 history>>

\* `resp', under the mutex ...
ThreadTell(t) ==
  /\ tpc[t] = "tell"
  /\ resp' = port[t]
  /\ tpc' = [tpc EXCEPT ![t] = "signal"]
  /\ UNCHANGED <<mpc, serving, signalled, client, mine, port, pool, clientVars,
                 history>>

\* Mutant: no signal.
ThreadSignalNot(t) ==
  /\ tpc[t] = "signal"
  /\ tpc' = [tpc EXCEPT ![t] = "serve"]
  /\ UNCHANGED <<mainVars, client, mine, port, pool, clientVars, history>>

\* ... and the signal, after it.
ThreadSignal(t) ==
  /\ tpc[t] = "signal"
  /\ signalled' = (signalled \/ mpc = "wait")
  /\ tpc' = [tpc EXCEPT ![t] = "serve"]
  /\ UNCHANGED <<mpc, serving, resp, client, mine, port, pool, clientVars, history>>

\* The thread a client has reached: the one behind its port.
Behind(c) == {t \in Threads : port[t] # 0 /\ port[t] = given[c]}

\* The thread ends; who still has its port and no new one is stranded.
Quit(t) ==
  /\ tpc' = [tpc EXCEPT ![t] = "free"]
  /\ client' = [client EXCEPT ![t] = None]
  /\ mine' = [mine EXCEPT ![t] = 0]
  /\ port' = [port EXCEPT ![t] = 0]

Left(t, except) == {c \in Clients \ except : given[c] # 0 /\ given[c] = port[t]}

\* A receive timed out and nobody is connected.
ThreadExit(t) ==
  /\ tpc[t] = "serve"
  /\ \A c \in up : t \notin Behind(c)
  /\ Quit(t)
  /\ stranded' = stranded \cup Left(t, {})
  /\ UNCHANGED <<mainVars, pool, clientVars, hurries, losses, taken, got, stray>>

-----------------------------------------------------------------------------
(* The clients: socket.c, and the sockets it opens *)

ClientAsk(c) ==
  /\ cpc[c] = "off"
  /\ cpc' = [cpc EXCEPT ![c] = "asking"]
  /\ UNCHANGED <<mainVars, threadVars, pool, given, up, todo, history>>

\* The socket connects to its port, and again whenever the connection is lost.
\* Sockets of different kinds refuse each other, and the socket for a push
\* client takes one connection.
ClientConnect(c, t) ==
  /\ cpc[c] = "on" /\ c \notin up
  /\ t \in Behind(c)
  /\ client[t] \in Clients /\ Kind[client[t]] = Kind[c]
  /\ Kind[c] = "push" => \A d \in up : t \notin Behind(d)
  /\ up' = up \cup {c}
  /\ UNCHANGED <<mainVars, threadVars, pool, cpc, given, todo, history>>

ClientLoses(c) ==
  /\ c \in up
  /\ losses < MaxLosses
  /\ losses' = losses + 1
  /\ up' = up \ {c}
  /\ UNCHANGED <<mainVars, threadVars, pool, cpc, given, todo, hurries, stranded,
                 taken, got, stray>>

\* lamb_nn_close: BYE ends the thread ...
ClientBye(c, t) ==
  /\ c \in up
  /\ t \in Behind(c)
  /\ tpc[t] = "serve"
  /\ Quit(t)
  /\ cpc' = [cpc EXCEPT ![c] = "off"]
  /\ given' = [given EXCEPT ![c] = 0]
  /\ up' = {d \in up : t \notin Behind(d)}
  /\ stranded' = (stranded \cup Left(t, {c})) \ {c}
  /\ UNCHANGED <<mainVars, pool, todo, hurries, losses, taken, got, stray>>

\* ... or does not get there: it is sent without waiting, before the socket is
\* closed, or there is no connection, or the process dies.
ClientGone(c) ==
  /\ cpc[c] = "on"
  /\ cpc' = [cpc EXCEPT ![c] = "off"]
  /\ given' = [given EXCEPT ![c] = 0]
  /\ up' = up \ {c}
  /\ stranded' = stranded \ {c}
  /\ UNCHANGED <<mainVars, threadVars, pool, todo, hurries, losses, taken, got, stray>>

\* Mutant: lpush instead of rpush.
PushFront(c, t, m) ==
  /\ c \in up /\ Kind[c] = "push"
  /\ t \in Behind(c) /\ tpc[t] = "serve"
  /\ m \in todo /\ Owner[m] = Account[c]
  /\ todo' = todo \ {m}
  /\ pool' = [pool EXCEPT ![mine[t]].items = <<m>> \o @]
  /\ stray' = IF c \in stranded THEN stray \cup {m} ELSE stray
  /\ UNCHANGED <<mainVars, threadVars, cpc, given, up, hurries, losses, stranded,
                 taken, got>>

\* A push client sends; the thread appends to the queue it found at its start.
Push(c, t, m) ==
  /\ c \in up /\ Kind[c] = "push"
  /\ t \in Behind(c) /\ tpc[t] = "serve"
  /\ m \in todo /\ Owner[m] = Account[c]
  /\ todo' = todo \ {m}
  /\ pool' = [pool EXCEPT ![mine[t]].items = Append(@, m)]
  /\ stray' = IF c \in stranded THEN stray \cup {m} ELSE stray
  /\ UNCHANGED <<mainVars, threadVars, cpc, given, up, hurries, losses, stranded,
                 taken, got>>

\* Mutant: without an answer the head stays in the queue.
PullKeeps(c, t, arrives) ==
  /\ c \in up /\ Kind[c] = "pull"
  /\ t \in Behind(c) /\ tpc[t] = "serve"
  /\ pool[mine[t]].items # <<>>
  /\ LET m == Head(pool[mine[t]].items)
         a == pool[mine[t]].id
     IN /\ pool' = IF arrives THEN [pool EXCEPT ![mine[t]].items = Tail(@)] ELSE pool
        /\ taken' = [taken EXCEPT ![a] = Append(@, m)]
        /\ got' = IF arrives THEN got \cup {<<c, m>>} ELSE got
        /\ stray' = IF c \in stranded THEN stray \cup {m} ELSE stray
  /\ IF arrives THEN UNCHANGED <<up, losses>>
     ELSE losses < MaxLosses /\ losses' = losses + 1 /\ up' = up \ {c}
  /\ UNCHANGED <<mainVars, threadVars, cpc, given, todo, hurries, stranded>>

\* A pull client asks; the thread takes the head of that queue.  If the client
\* is gone by the time of the answer, the message is gone as well.
Pull(c, t, arrives) ==
  /\ c \in up /\ Kind[c] = "pull"
  /\ t \in Behind(c) /\ tpc[t] = "serve"
  /\ pool[mine[t]].items # <<>>
  /\ LET m == Head(pool[mine[t]].items)
         a == pool[mine[t]].id
     IN /\ pool' = [pool EXCEPT ![mine[t]].items = Tail(@)]
        /\ taken' = [taken EXCEPT ![a] = Append(@, m)]
        /\ got' = IF arrives THEN got \cup {<<c, m>>} ELSE got
        /\ stray' = IF c \in stranded THEN stray \cup {m} ELSE stray
  /\ IF arrives THEN UNCHANGED <<up, losses>>
     ELSE losses < MaxLosses /\ losses' = losses + 1 /\ up' = up \ {c}
  /\ UNCHANGED <<mainVars, threadVars, cpc, given, todo, hurries, stranded>>

-----------------------------------------------------------------------------
Main ==
  \/ \E c \in Clients, t \in Threads : MainRecv(c, t)
  \/ MainWoken \/ MainSpurious \/ MainTimeout

Starting(t) ==
  ThreadFind(t) \/ ThreadCreate(t) \/ ThreadBind(t) \/ ThreadTell(t) \/ ThreadSignal(t)

Client(c) ==
  \/ ClientAsk(c) \/ ClientLoses(c) \/ ClientGone(c)
  \/ \E t \in Threads :
       \/ ClientConnect(c, t) \/ ClientBye(c, t)
       \/ \E m \in Msgs : Push(c, t, m)
       \/ \E arrives \in BOOLEAN : Pull(c, t, arrives)

Next ==
  \/ Main
  \/ \E t \in Threads : Starting(t) \/ ThreadExit(t)
  \/ \E c \in Clients : Client(c)

Spec == Init /\ [][Next]_vars

\* All threads run, and a client that has asked has its request received in the
\* end, although others ask again and again.  Nobody has to ask.
FairSpec ==
  /\ Spec
  /\ WF_vars(MainWoken)
  /\ \A c \in Clients : SF_vars(\E t \in Threads : MainRecv(c, t))
  /\ \A t \in Threads : WF_vars(Starting(t)) /\ WF_vars(ThreadExit(t))

-----------------------------------------------------------------------------
(* Properties *)

\* Threads, ports and queues are what they should be: a thread that serves has a
\* queue of the list and a port of its own.
TypeOK ==
  /\ mpc \in {"recv", "wait"} /\ signalled \in BOOLEAN /\ resp \in Ports \cup {0}
  /\ serving \in Clients \cup {None}
  /\ tpc \in [Threads -> {"free", "find", "create", "bind", "tell", "signal", "serve"}]
  /\ client \in [Threads -> Clients \cup {None}]
  /\ mine \in [Threads -> 0 .. Len(pool)]
  /\ port \in [Threads -> Ports \cup {0}]
  /\ pool \in Seq([id : Accounts, items : Seq(Msgs)])
  /\ cpc \in [Clients -> {"off", "asking", "on"}]
  /\ given \in [Clients -> Ports \cup {0}]
  /\ up \subseteq Clients /\ todo \subseteq Msgs /\ stranded \subseteq Clients
  /\ hurries \in Nat /\ losses \in Nat
  /\ taken \in [Accounts -> Seq(Msgs)]
  /\ got \subseteq Clients \X Msgs /\ stray \subseteq Msgs

\* An account has one queue, although search and creation (mt.c:229-238) are not
\* atomic: the wait of the main thread keeps the threads apart, as long as it
\* ends with their signals.
OneQueue ==
  hurries = 0 =>
    \A j, k \in DOMAIN pool : pool[j].id = pool[k].id => j = k

\* Nobody gets another account's messages (mt.c:193-209, 256-264), as long as
\* the waits of the main thread end with signals, unless a client was at work
\* whose thread had ended without its knowledge: the port is given out again, and
\* the client's socket connects to it again (socket.c:29).
OwnMessages ==
  hurries = 0 =>
    \A c \in Clients, m \in Msgs :
      <<c, m>> \in got => m \in stray \/ Owner[m] = Account[c]

\* Where message m is: in a queue, or taken out of one.
Places(m) ==
  LET At(s) == {j \in DOMAIN s : s[j] = m} IN
  (UNION {{<<"queue", k, j>> : j \in At(pool[k].items)} : k \in DOMAIN pool})
    \cup (UNION {{<<"taken", a, j>> : j \in At(taken[a])} : a \in Accounts})

\* Whatever port a client is sent to and however many queues an account has, the
\* broker keeps each message it was given in one place until it is taken, once
\* (mt.c:308, 411; list.c:123-192).
Kept == \A m \in Msgs : Cardinality(Places(m)) = IF m \in todo THEN 0 ELSE 1

\* A client that asks is answered (socket.c:161 waits without a timeout), even if
\* the main thread gives up on it a few times (mt.c:195).
Answered == \A c \in Clients : cpc[c] = "asking" ~> cpc[c] # "asking"

\* The queue of account a in the list.
Items(a) == IF Find(pool, a) = 0 THEN <<>> ELSE pool[Find(pool, a)].items

AQ == INSTANCE AccountQueues WITH queues <- [a \in Accounts |-> Items(a)],
                                  given <- taken

\* For each account the threads together are one first-in, first-out queue, if
\* the waits of the main thread end with signals: whatever connects, breaks and
\* comes back (mt.c:275-457).
Fifo == AQ!Spec

=============================================================================
