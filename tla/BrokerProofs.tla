---------------------------- MODULE BrokerProofs ----------------------------
(***************************************************************************)
(* Proofs about Broker: its type invariant, one queue for each account,    *)
(* the owners of what the clients get, the first-in, first-out order, and  *)
(* that every message is kept in one place.                                *)
(***************************************************************************)
EXTENDS Broker, FiniteSetTheorems, WellFoundedInduction, SequenceTheorems, TLAPS

Queue == [id : Accounts, items : Seq(Msgs)]

-----------------------------------------------------------------------------
(* The search in the list of queues *)

\* A set of numbers that is not empty has a smallest one.
LEMMA Smallest ==
  ASSUME NEW S \in SUBSET Nat, S # {}
  PROVE  \E n \in S : \A j \in S : n <= j
<1> DEFINE R == {ss \in Nat \X Nat : ss[1] < ss[2]}
<1>1. IsWellFoundedOn(R, Nat)
  BY NatLessThanWellFounded DEF OpToRel
<1>2. \E n \in S : \A j \in S : ~(<<j, n>> \in R)
  <2> HIDE DEF R
  <2> QED BY <1>1, WFMin
<1>3. PICK n \in S : \A j \in S : ~(<<j, n>> \in R)
  BY <1>2
<1>4. ASSUME NEW j \in S PROVE n <= j
  <2>1. <<j, n>> \in Nat \X Nat /\ ~(<<j, n>>[1] < <<j, n>>[2])
    BY <1>3
  <2> QED BY <2>1
<1> QED BY <1>4

\* lamb_list_find (list.c:225-246) finds the queue of an account if there is one,
\* and only such a queue.
LEMMA FindWorks ==
  ASSUME NEW list \in Seq(Queue), NEW a
  PROVE  /\ Find(list, a) \in 0 .. Len(list)
         /\ Find(list, a) # 0 =>
              Find(list, a) \in DOMAIN list /\ list[Find(list, a)].id = a
         /\ Find(list, a) = 0 => \A k \in DOMAIN list : list[k].id # a
<1> DEFINE S == {k \in DOMAIN list : list[k].id = a}
<1>1. S \in SUBSET Nat
  OBVIOUS
<1>2. CASE S = {}
  BY <1>2 DEF Find
<1>3. CASE S # {}
  <2>1. PICK k \in S : \A j \in S : k <= j
    BY <1>1, <1>3, Smallest
  <2>2. k \in DOMAIN list /\ list[k].id = a /\ \A j \in 1 .. k - 1 : list[j].id # a
    BY <2>1
  <2>3. Find(list, a) \in DOMAIN list /\ list[Find(list, a)].id = a
    BY <2>2 DEF Find
  <2> QED BY <2>3
<1> QED BY <1>2, <1>3

\* No two queues of a list are for the same account.
Unique(list) == \A j, k \in DOMAIN list : list[j].id = list[k].id => j = k

\* In such a list the search finds each queue.
LEMMA FindUnique ==
  ASSUME NEW list \in Seq(Queue), Unique(list), NEW k \in DOMAIN list
  PROVE  Find(list, list[k].id) = k
BY FindWorks DEF Unique

-----------------------------------------------------------------------------
(* Type correctness *)

\* A thread's locals are set when they are used: it has a client, its queue is in
\* the list and is that of its client's account, its port is nobody else's.
LocalsOK ==
  /\ mpc = "wait" => serving \in Clients
  /\ \A t \in Threads : tpc[t] # "free" => client[t] \in Clients
  /\ \A t \in Threads : tpc[t] \in {"bind", "tell", "signal", "serve"} =>
       mine[t] \in DOMAIN pool /\ pool[mine[t]].id = Account[client[t]]
  /\ \A t \in Threads : port[t] # 0 <=> tpc[t] \in {"tell", "signal", "serve"}
  /\ \A t, u \in Threads : port[t] # 0 /\ port[t] = port[u] => t = u

TypeInv == TypeOK /\ LocalsOK

USE BrokerAssumption

\* An answer of the main thread keeps the types.
LEMMA TypeInvAnswer ==
  ASSUME TypeInv, mpc = "wait", MainAnswer(serving), hurries' \in Nat
  PROVE  TypeInv'
<1> USE DEF TypeInv, TypeOK, LocalsOK, threadVars
<1>1. PICK p \in RespText :
        /\ cpc' = [cpc EXCEPT ![serving] = IF p = 0 THEN "off" ELSE "on"]
        /\ given' = [given EXCEPT ![serving] = p]
        /\ stranded' = IF p # 0 /\ \A t \in Threads : port[t] # p
                       THEN stranded \cup {serving}
                       ELSE stranded \ {serving}
  BY DEF MainAnswer
<1>2. p \in Ports \cup {0}
  BY <1>1 DEF RespText
<1>3. cpc' \in [Clients -> {"off", "asking", "on"}]
  BY <1>1
<1>4. given' \in [Clients -> Ports \cup {0}] /\ stranded' \subseteq Clients
  BY <1>1, <1>2
<1> QED BY <1>3, <1>4 DEF MainAnswer

\* The main thread keeps the types.
LEMMA TypeInvMain ==
  ASSUME TypeInv, Main
  PROVE  TypeInv'
<1> USE DEF TypeInv, TypeOK, LocalsOK, mainVars, threadVars, clientVars, history
<1>1. ASSUME NEW c \in Clients, NEW t \in Threads, MainRecv(c, t)
      PROVE  TypeInv'
  BY <1>1 DEF MainRecv
<1>2. CASE MainWoken
  BY <1>2, TypeInvAnswer DEF MainWoken
<1>3. CASE MainSpurious
  <2>1. mpc = "wait" /\ MainAnswer(serving) /\ hurries' \in Nat
    BY <1>3 DEF MainSpurious
  <2> QED BY <2>1, TypeInvAnswer
<1>4. CASE MainTimeout
  BY <1>4 DEF MainTimeout
<1> QED BY <1>1, <1>2, <1>3, <1>4 DEF Main

\* A thread keeps the types while it starts and when it ends.
LEMMA TypeInvThread ==
  ASSUME TypeInv, NEW t \in Threads, Starting(t) \/ ThreadExit(t)
  PROVE  TypeInv'
<1> USE DEF TypeInv, TypeOK, LocalsOK, mainVars, threadVars, clientVars, history
<1>1. CASE ThreadFind(t)
  <2> DEFINE k == Find(pool, Account[client[t]])
  <2>1. /\ k \in 0 .. Len(pool)
        /\ k # 0 => k \in DOMAIN pool /\ pool[k].id = Account[client[t]]
    BY FindWorks DEF Queue
  <2> HIDE DEF k
  <2>2. /\ tpc[t] = "find"
        /\ mine' = [mine EXCEPT ![t] = k]
        /\ tpc' = [tpc EXCEPT ![t] = IF k = 0 THEN "create" ELSE "bind"]
        /\ UNCHANGED <<mainVars, client, port, pool, clientVars, history>>
    BY <1>1 DEF ThreadFind, k
  <2> QED BY <2>1, <2>2
<1>2. CASE ThreadCreate(t)
  <2> DEFINE q == [id |-> Account[client[t]], items |-> <<>>]
  <2>1. q \in [id : Accounts, items : Seq(Msgs)] /\ q.id = Account[client[t]]
    BY <1>2 DEF ThreadCreate
  <2> HIDE DEF q
  <2>2. /\ pool' = Append(pool, q)
        /\ mine' = [mine EXCEPT ![t] = Len(pool) + 1]
        /\ tpc[t] = "create" /\ tpc' = [tpc EXCEPT ![t] = "bind"]
        /\ UNCHANGED <<mainVars, client, port, clientVars, history>>
    BY <1>2 DEF ThreadCreate, q
  <2>3. /\ pool' \in Seq([id : Accounts, items : Seq(Msgs)])
        /\ Len(pool') = Len(pool) + 1
        /\ pool'[Len(pool) + 1] = q
        /\ \A k \in DOMAIN pool : k \in DOMAIN pool' /\ pool'[k] = pool[k]
    BY <2>1, <2>2
  <2>4. TypeOK'
    BY <2>2, <2>3
  <2>5. LocalsOK'
    BY <2>1, <2>2, <2>3
  <2> QED BY <2>4, <2>5
<1>3. CASE ThreadBind(t)
  <2>1. PICK p \in FreePorts : port' = [port EXCEPT ![t] = p]
    BY <1>3 DEF ThreadBind
  <2>2. p \in Ports /\ p # 0 /\ \A u \in Threads : port[u] # p
    BY <2>1 DEF FreePorts, Ports
  <2>3. /\ tpc[t] = "bind" /\ tpc' = [tpc EXCEPT ![t] = "tell"]
        /\ UNCHANGED <<mainVars, client, mine, pool, clientVars, history>>
    BY <1>3 DEF ThreadBind
  <2>4. TypeOK'
    BY <2>1, <2>2, <2>3
  <2>5. LocalsOK'
    BY <2>1, <2>2, <2>3
  <2> QED BY <2>4, <2>5
<1>4. CASE ThreadTell(t)
  <2>1. TypeOK'
    BY <1>4 DEF ThreadTell
  <2>2. LocalsOK'
    BY <1>4 DEF ThreadTell
  <2> QED BY <2>1, <2>2
<1>5. CASE ThreadSignal(t)
  <2>1. TypeOK'
    BY <1>5 DEF ThreadSignal
  <2>2. LocalsOK'
    BY <1>5 DEF ThreadSignal
  <2> QED BY <2>1, <2>2
<1>6. CASE ThreadExit(t)
  BY <1>6 DEF ThreadExit, Quit, Left
<1> QED BY <1>1, <1>2, <1>3, <1>4, <1>5, <1>6 DEF Starting

\* The queue of a thread that has one.
LEMMA OwnQueue ==
  ASSUME TypeInv, NEW t \in Threads, tpc[t] \in {"bind", "tell", "signal", "serve"}
  PROVE  /\ mine[t] \in DOMAIN pool
         /\ pool[mine[t]].id \in Accounts /\ pool[mine[t]].items \in Seq(Msgs)
<1>1. pool \in Seq(Queue) /\ mine[t] \in DOMAIN pool
  BY DEF TypeInv, TypeOK, LocalsOK, Queue
<1>2. pool[mine[t]] \in Queue
  BY <1>1, ElementOfSeq
<1> QED BY <1>1, <1>2 DEF Queue

\* A change of the items of one queue leaves a list of queues with the same ids.
LEMMA OneQueueChanges ==
  ASSUME pool \in Seq(Queue), NEW k \in DOMAIN pool, NEW s \in Seq(Msgs),
         pool' = [pool EXCEPT ![k].items = s]
  PROVE  /\ pool' \in Seq(Queue)
         /\ Len(pool') = Len(pool) /\ DOMAIN pool' = DOMAIN pool
         /\ \A j \in DOMAIN pool : pool'[j].id = pool[j].id
         /\ \A j \in DOMAIN pool : j # k => pool'[j].items = pool[j].items
         /\ pool'[k].items = s
<1>1. \A j \in DOMAIN pool : pool[j] \in Queue
  OBVIOUS
<1>2. [pool[k] EXCEPT !.items = s] \in Queue
  BY <1>1 DEF Queue
<1> DEFINE q == [pool[k] EXCEPT !.items = s]
<1>3. pool' = [pool EXCEPT ![k] = q]
  OBVIOUS
<1>4. q.id = pool[k].id /\ q.items = s /\ q \in Queue
  BY <1>1, <1>2 DEF Queue
<1> HIDE DEF q
<1>5. pool' \in Seq(Queue) /\ Len(pool') = Len(pool)
  <2>1. k \in 1 .. Len(pool)
    OBVIOUS
  <2>2. /\ [pool EXCEPT ![k] = q] \in Seq(Queue)
        /\ Len([pool EXCEPT ![k] = q]) = Len(pool)
    BY <1>4, <2>1, ExceptSeq, Zenon
  <2> QED BY <1>3, <2>2, Zenon
<1>6. DOMAIN pool' = DOMAIN pool
  BY <1>3
<1>7. pool'[k] = q /\ \A j \in DOMAIN pool : j # k => pool'[j] = pool[j]
  BY <1>3
<1> QED BY <1>4, <1>5, <1>6, <1>7

\* A push appends to the queue of its thread, and changes nothing else of the list.
LEMMA PushChanges ==
  ASSUME TypeInv, NEW c \in Clients, NEW t \in Threads, NEW m \in Msgs, Push(c, t, m)
  PROVE  /\ mine[t] \in DOMAIN pool /\ pool \in Seq(Queue) /\ pool' \in Seq(Queue)
         /\ Append(pool[mine[t]].items, m) \in Seq(Msgs)
         /\ Len(pool') = Len(pool) /\ DOMAIN pool' = DOMAIN pool
         /\ \A j \in DOMAIN pool : pool'[j].id = pool[j].id
         /\ \A j \in DOMAIN pool : j # mine[t] => pool'[j].items = pool[j].items
         /\ pool'[mine[t]].items = Append(pool[mine[t]].items, m)
         /\ UNCHANGED <<mainVars, threadVars, cpc, given, up, hurries, losses, stranded,
                        taken, got>>
<1> DEFINE s == Append(pool[mine[t]].items, m)
<1>1. tpc[t] = "serve" /\ pool' = [pool EXCEPT ![mine[t]].items = s]
  BY DEF Push
<1>2. mine[t] \in DOMAIN pool /\ pool[mine[t]].items \in Seq(Msgs)
  BY <1>1, OwnQueue
<1>3. s \in Seq(Msgs)
  BY <1>2
<1>4. pool \in Seq(Queue)
  BY DEF TypeInv, TypeOK, Queue
<1>5. UNCHANGED <<mainVars, threadVars, cpc, given, up, hurries, losses, stranded,
                  taken, got>>
  BY DEF Push
<1> HIDE DEF s
<1>6. /\ pool' \in Seq(Queue)
      /\ Len(pool') = Len(pool) /\ DOMAIN pool' = DOMAIN pool
      /\ \A j \in DOMAIN pool : pool'[j].id = pool[j].id
      /\ \A j \in DOMAIN pool : j # mine[t] => pool'[j].items = pool[j].items
      /\ pool'[mine[t]].items = s
  BY <1>1, <1>2, <1>3, <1>4, OneQueueChanges
<1> QED BY <1>1, <1>2, <1>3, <1>4, <1>5, <1>6 DEF s

\* A pull takes the head of the queue of its thread.
LEMMA PullChanges ==
  ASSUME TypeInv, NEW c \in Clients, NEW t \in Threads, NEW arrives,
         Pull(c, t, arrives)
  PROVE  /\ mine[t] \in DOMAIN pool /\ pool \in Seq(Queue) /\ pool' \in Seq(Queue)
         /\ pool[mine[t]].items \in Seq(Msgs) /\ pool[mine[t]].items # <<>>
         /\ pool[mine[t]].id \in Accounts
         /\ Head(pool[mine[t]].items) \in Msgs
         /\ Tail(pool[mine[t]].items) \in Seq(Msgs)
         /\ Len(pool') = Len(pool) /\ DOMAIN pool' = DOMAIN pool
         /\ \A j \in DOMAIN pool : pool'[j].id = pool[j].id
         /\ \A j \in DOMAIN pool : j # mine[t] => pool'[j].items = pool[j].items
         /\ pool'[mine[t]].items = Tail(pool[mine[t]].items)
         /\ UNCHANGED <<mainVars, threadVars, cpc, given, todo, hurries, stranded>>
<1> DEFINE s == pool[mine[t]].items
<1>1. tpc[t] = "serve" /\ s # <<>> /\ pool' = [pool EXCEPT ![mine[t]].items = Tail(s)]
  BY DEF Pull
<1>2. mine[t] \in DOMAIN pool /\ s \in Seq(Msgs) /\ pool[mine[t]].id \in Accounts
  BY <1>1, OwnQueue
<1>3. Head(s) \in Msgs /\ Tail(s) \in Seq(Msgs)
  BY <1>1, <1>2
<1>4. pool \in Seq(Queue)
  BY DEF TypeInv, TypeOK, Queue
<1>5. UNCHANGED <<mainVars, threadVars, cpc, given, todo, hurries, stranded>>
  BY DEF Pull
<1> HIDE DEF s
<1>6. /\ pool' \in Seq(Queue)
      /\ Len(pool') = Len(pool) /\ DOMAIN pool' = DOMAIN pool
      /\ \A j \in DOMAIN pool : pool'[j].id = pool[j].id
      /\ \A j \in DOMAIN pool : j # mine[t] => pool'[j].items = pool[j].items
      /\ pool'[mine[t]].items = Tail(s)
  BY <1>1, <1>2, <1>3, <1>4, OneQueueChanges
<1> QED BY <1>1, <1>2, <1>3, <1>4, <1>5, <1>6 DEF s

\* Only the main thread's waits can end too early.
LEMMA HurriesOfMain ==
  ASSUME Next, ~Main
  PROVE  hurries' = hurries
<1> USE DEF history
<1>1. ASSUME NEW t \in Threads, Starting(t) PROVE hurries' = hurries
  BY <1>1 DEF Starting, ThreadFind, ThreadCreate, ThreadBind, ThreadTell, ThreadSignal
<1>2. ASSUME NEW t \in Threads, ThreadExit(t) PROVE hurries' = hurries
  BY <1>2 DEF ThreadExit
<1>3. ASSUME NEW c \in Clients, Client(c) PROVE hurries' = hurries
  <2>1. CASE ClientAsk(c) \/ ClientLoses(c) \/ ClientGone(c)
    BY <2>1 DEF ClientAsk, ClientLoses, ClientGone
  <2>2. CASE \E t \in Threads : ClientConnect(c, t) \/ ClientBye(c, t)
    BY <2>2 DEF ClientConnect, ClientBye
  <2>3. ASSUME NEW t \in Threads, NEW m \in Msgs, Push(c, t, m)
        PROVE  hurries' = hurries
    BY <2>3 DEF Push
  <2>4. ASSUME NEW t \in Threads, NEW arrives, Pull(c, t, arrives)
        PROVE  hurries' = hurries
    BY <2>4 DEF Pull
  <2> QED BY <1>3, <2>1, <2>2, <2>3, <2>4 DEF Client
<1> QED BY <1>1, <1>2, <1>3 DEF Next

\* What happens around the clients keeps the types.
LEMMA TypeInvClient ==
  ASSUME TypeInv, NEW c \in Clients, Client(c)
  PROVE  TypeInv'
<1> USE DEF TypeInv, TypeOK, LocalsOK, mainVars, threadVars, clientVars, history
<1>1. CASE ClientAsk(c)
  BY <1>1 DEF ClientAsk
<1>2. CASE ClientLoses(c)
  BY <1>2 DEF ClientLoses
<1>3. CASE ClientGone(c)
  BY <1>3 DEF ClientGone
<1>4. ASSUME NEW t \in Threads, ClientConnect(c, t)
      PROVE  TypeInv'
  BY <1>4 DEF ClientConnect
<1>5. ASSUME NEW t \in Threads, ClientBye(c, t)
      PROVE  TypeInv'
  BY <1>5 DEF ClientBye, Quit, Left
<1>6. ASSUME NEW t \in Threads, NEW m \in Msgs, Push(c, t, m)
      PROVE  TypeInv'
  <2>1. /\ pool' \in Seq([id : Accounts, items : Seq(Msgs)])
        /\ Len(pool') = Len(pool) /\ DOMAIN pool' = DOMAIN pool
        /\ \A k \in DOMAIN pool : pool'[k].id = pool[k].id
    <3> HIDE DEF TypeInv
    <3> QED BY <1>6, PushChanges DEF Queue
  <2>2. /\ todo' \subseteq todo /\ stray' \subseteq Msgs
        /\ UNCHANGED <<mainVars, threadVars, cpc, given, up, hurries, losses, stranded,
                       taken, got>>
    BY <1>6 DEF Push
  <2>3. TypeOK'
    BY <2>1, <2>2
  <2>4. LocalsOK'
    BY <2>1, <2>2
  <2> QED BY <2>3, <2>4
<1>7. ASSUME NEW t \in Threads, NEW arrives, Pull(c, t, arrives)
      PROVE  TypeInv'
  <2> DEFINE m == Head(pool[mine[t]].items)
             a == pool[mine[t]].id
  <2>1. m \in Msgs /\ a \in Accounts
    <3> HIDE DEF TypeInv
    <3> QED BY <1>7, PullChanges
  <2>2. /\ taken' = [taken EXCEPT ![a] = Append(@, m)]
        /\ got' = IF arrives THEN got \cup {<<c, m>>} ELSE got
        /\ stray' = IF c \in stranded THEN stray \cup {m} ELSE stray
    BY <1>7 DEF Pull
  <2>3. /\ pool' \in Seq([id : Accounts, items : Seq(Msgs)])
        /\ Len(pool') = Len(pool) /\ DOMAIN pool' = DOMAIN pool
        /\ \A k \in DOMAIN pool : pool'[k].id = pool[k].id
        /\ UNCHANGED <<mainVars, threadVars, cpc, given, todo, hurries, stranded>>
    <3> HIDE DEF TypeInv
    <3> QED BY <1>7, PullChanges DEF Queue
  <2> HIDE DEF m, a
  <2>4. Append(taken[a], m) \in Seq(Msgs)
    BY <2>1
  <2>5. taken' \in [Accounts -> Seq(Msgs)]
    BY <2>1, <2>2, <2>4
  <2>6. /\ got' \subseteq Clients \X Msgs /\ stray' \subseteq Msgs
        /\ up' \subseteq Clients /\ losses' \in Nat
    <3>1. got' \subseteq Clients \X Msgs /\ stray' \subseteq Msgs
      BY <2>1, <2>2
    <3>2. up' \subseteq Clients /\ losses' \in Nat
      BY <1>7 DEF Pull
    <3> QED BY <3>1, <3>2
  <2>7. TypeOK'
    BY <2>3, <2>5, <2>6
  <2>8. LocalsOK'
    BY <2>3
  <2> QED BY <2>7, <2>8
<1> HIDE DEF TypeInv
<1> QED BY <1>1, <1>2, <1>3, <1>4, <1>5, <1>6, <1>7 DEF Client

\* Every step keeps the types.
LEMMA TypeInvStep == TypeInv /\ [Next]_vars => TypeInv'
<1>1. CASE UNCHANGED vars
  BY <1>1 DEF vars, TypeInv, TypeOK, LocalsOK, mainVars, threadVars, clientVars, history
<1> QED BY <1>1, TypeInvMain, TypeInvThread, TypeInvClient DEF Next

\* Initially all is well typed.
LEMMA TypeInvInit == Init => TypeInv
<1>1. Len(<<>>) = 0 /\ <<>> \in Seq(Msgs)
      /\ <<>> \in Seq([id : Accounts, items : Seq(Msgs)])
  OBVIOUS
<1>2. Init => TypeOK
  <2> SUFFICES ASSUME Init PROVE TypeOK
    OBVIOUS
  <2>1. pool = <<>> /\ mine \in [Threads -> 0 .. Len(pool)]
    BY <1>1 DEF Init
  <2>2. taken \in [Accounts -> Seq(Msgs)]
    BY <1>1 DEF Init
  <2> QED BY <1>1, <2>1, <2>2 DEF Init, TypeOK
<1>3. Init => LocalsOK
  BY DEF Init, LocalsOK
<1> QED BY <1>2, <1>3 DEF TypeInv

\* The locals of the threads (mt.c:275-457) are set before they are used, in every
\* reachable state.
THEOREM BrokerTyped == Spec => []TypeInv
  BY TypeInvInit, TypeInvStep, PTL DEF Spec

\* Threads, ports and queues are what they should be, for any number of clients,
\* accounts, threads and messages, and however often the main thread is hurried.
THEOREM TypesKept == Spec => []TypeOK
<1>1. TypeInv => TypeOK
  BY DEF TypeInv
<1> QED BY <1>1, BrokerTyped, PTL

-----------------------------------------------------------------------------
(* One queue for each account *)

IsStarting(t) == tpc[t] \in {"find", "create", "bind", "tell", "signal"}

\* While all waits end with signals, the main thread waits for the only thread
\* that is starting; so nobody creates a queue behind the back of a thread that
\* has found none, and `resp' is about the client being served.
HandshakeOK ==
  /\ \A t \in Threads : IsStarting(t) =>
       mpc = "wait" /\ ~signalled /\ client[t] = serving
  /\ \A t, u \in Threads : IsStarting(t) /\ IsStarting(u) => t = u
  /\ \A t \in Threads : tpc[t] = "create" =>
       \A k \in DOMAIN pool : pool[k].id # Account[client[t]]
  /\ Unique(pool)
  /\ \A t \in Threads : tpc[t] = "signal" => resp = port[t]
  /\ mpc = "wait" /\ signalled =>
       \A t \in Threads : port[t] # 0 /\ port[t] = resp =>
                          Account[client[t]] = Account[serving]

HandshakeInv == hurries = 0 => HandshakeOK

\* The main thread keeps it.
LEMMA HandshakeMain ==
  ASSUME TypeInv, HandshakeInv, Main
  PROVE  HandshakeInv'
<1> USE DEF HandshakeInv, HandshakeOK, IsStarting, mainVars, threadVars, clientVars,
            history
<1>1. ASSUME NEW c \in Clients, NEW t \in Threads, MainRecv(c, t)
      PROVE  HandshakeInv'
  BY <1>1 DEF MainRecv, TypeInv, TypeOK, LocalsOK, Unique
<1>2. CASE MainWoken
  BY <1>2 DEF MainWoken, MainAnswer, Unique
<1>3. CASE MainSpurious \/ MainTimeout
  BY <1>3 DEF MainSpurious, MainTimeout, TypeInv, TypeOK
<1> QED BY <1>1, <1>2, <1>3 DEF Main

\* A starting or ending thread keeps it.
LEMMA HandshakeThread ==
  ASSUME TypeInv, HandshakeInv, NEW t \in Threads, Starting(t) \/ ThreadExit(t)
  PROVE  HandshakeInv'
<1> USE DEF HandshakeInv, HandshakeOK, IsStarting, mainVars, threadVars, clientVars,
            history
<1>0. hurries' = hurries
  BY DEF Starting, ThreadFind, ThreadCreate, ThreadBind, ThreadTell, ThreadSignal,
         ThreadExit
<1> SUFFICES ASSUME hurries = 0, HandshakeOK
             PROVE  HandshakeOK'
  BY <1>0
<1>1. CASE ThreadFind(t)
  <2> DEFINE k == Find(pool, Account[client[t]])
  <2>1. k = 0 => \A j \in DOMAIN pool : pool[j].id # Account[client[t]]
    <3>1. pool \in Seq(Queue)
      BY DEF Queue, TypeInv, TypeOK
    <3> QED BY <3>1, FindWorks
  <2> HIDE DEF k
  <2>2. /\ tpc[t] = "find"
        /\ tpc' = [tpc EXCEPT ![t] = IF k = 0 THEN "create" ELSE "bind"]
        /\ UNCHANGED <<mainVars, client, port, pool>>
    BY <1>1 DEF ThreadFind, k
  <2> QED BY <2>1, <2>2 DEF TypeInv, TypeOK, Unique
<1>2. CASE ThreadCreate(t)
  <2> DEFINE q == [id |-> Account[client[t]], items |-> <<>>]
  <2>1. q \in Queue /\ q.id = Account[client[t]]
    BY <1>2 DEF ThreadCreate, TypeInv, TypeOK, LocalsOK, Queue
  <2> HIDE DEF q
  <2>2. /\ pool' = Append(pool, q) /\ pool \in Seq(Queue)
        /\ tpc[t] = "create" /\ tpc' = [tpc EXCEPT ![t] = "bind"]
        /\ UNCHANGED <<mainVars, client, port>>
    BY <1>2 DEF ThreadCreate, q, TypeInv, TypeOK, Queue
  <2>3. /\ DOMAIN pool' = DOMAIN pool \cup {Len(pool) + 1}
        /\ pool'[Len(pool) + 1] = q
        /\ \A k \in DOMAIN pool : pool'[k] = pool[k]
    <3>1. DOMAIN pool = 1 .. Len(pool) /\ Len(pool) \in Nat
      BY <2>2
    <3>2. DOMAIN pool' = 1 .. Len(pool) + 1
      BY <2>1, <2>2
    <3> QED BY <2>1, <2>2, <3>1, <3>2
  <2>4. Unique(pool')
    BY <2>1, <2>2, <2>3 DEF Unique
  <2> QED BY <2>2, <2>4 DEF TypeInv, TypeOK
<1>3. CASE ThreadBind(t)
  BY <1>3 DEF ThreadBind, TypeInv, TypeOK, Unique
<1>4. CASE ThreadTell(t)
  BY <1>4 DEF ThreadTell, TypeInv, TypeOK, Unique
<1>5. CASE ThreadSignal(t)
  BY <1>5 DEF ThreadSignal, TypeInv, TypeOK, LocalsOK, Unique
<1>6. CASE ThreadExit(t)
  BY <1>6 DEF ThreadExit, Quit, TypeInv, TypeOK, Unique
<1> QED BY <1>1, <1>2, <1>3, <1>4, <1>5, <1>6 DEF Starting

\* What happens around the clients keeps it.
LEMMA HandshakeClient ==
  ASSUME TypeInv, HandshakeInv, NEW c \in Clients, Client(c)
  PROVE  HandshakeInv'
<1> USE DEF HandshakeInv, HandshakeOK, IsStarting, mainVars, threadVars, clientVars,
            history
<1>1. CASE ClientAsk(c)
  BY <1>1 DEF ClientAsk, Unique
<1>2. CASE ClientLoses(c)
  BY <1>2 DEF ClientLoses, Unique
<1>3. CASE ClientGone(c)
  BY <1>3 DEF ClientGone, Unique
<1>4. ASSUME NEW t \in Threads, ClientConnect(c, t)
      PROVE  HandshakeInv'
  BY <1>4 DEF ClientConnect, Unique
<1>5. ASSUME NEW t \in Threads, ClientBye(c, t)
      PROVE  HandshakeInv'
  BY <1>5 DEF ClientBye, Quit, TypeInv, TypeOK, Unique
<1>6. ASSUME UNCHANGED <<mainVars, threadVars, hurries>>,
             DOMAIN pool' = DOMAIN pool,
             \A j \in DOMAIN pool : pool'[j].id = pool[j].id
      PROVE  HandshakeInv'
  BY <1>6 DEF Unique
<1>7. ASSUME NEW t \in Threads, NEW m \in Msgs, Push(c, t, m)
      PROVE  HandshakeInv'
  BY <1>6, <1>7, PushChanges
<1>8. ASSUME NEW t \in Threads, NEW arrives, Pull(c, t, arrives)
      PROVE  HandshakeInv'
  BY <1>6, <1>8, PullChanges
<1> HIDE DEF HandshakeInv
<1> QED BY <1>1, <1>2, <1>3, <1>4, <1>5, <1>7, <1>8 DEF Client

\* Every step keeps it.
LEMMA HandshakeStep == TypeInv /\ HandshakeInv /\ [Next]_vars => HandshakeInv'
<1>1. CASE UNCHANGED vars
  BY <1>1 DEF vars, HandshakeInv, HandshakeOK, IsStarting, Unique, mainVars,
              threadVars, clientVars, history
<1> QED BY <1>1, HandshakeMain, HandshakeThread, HandshakeClient DEF Next

\* It holds before the first client asks.
LEMMA HandshakeInit == Init => HandshakeInv
  BY DEF Init, HandshakeInv, HandshakeOK, IsStarting, Unique

\* The handshake of the main thread with the thread it starts (mt.c:180-209,
\* 229-264) holds until a wait ends without a signal.
THEOREM HandshakeKept == Spec => []HandshakeInv
  BY HandshakeInit, HandshakeStep, BrokerTyped, PTL DEF Spec

\* An account has one queue although search and creation are two steps
\* (mt.c:229-238), as long as the waits of the main thread end with signals.
THEOREM AccountsHaveOneQueue == Spec => []OneQueue
<1>1. HandshakeInv => OneQueue
  BY DEF HandshakeInv, HandshakeOK, Unique, OneQueue
<1> QED BY <1>1, HandshakeKept, PTL

-----------------------------------------------------------------------------
(* Whose messages a client gets *)

\* A client that is not stranded has the port of a thread for its account.
PortsRight ==
  \A c \in Clients : given[c] # 0 /\ c \notin stranded =>
    \E t \in Threads : port[t] = given[c] /\ Account[client[t]] = Account[c]

\* What no stranded client has touched is in the queue of its owner.
Belongs(k, i) ==
  pool[k].items[i] \in stray \/ Owner[pool[k].items[i]] = pool[k].id

QueuesRight ==
  \A k \in DOMAIN pool : \A i \in DOMAIN pool[k].items : Belongs(k, i)

GotRight ==
  \A c \in Clients, m \in Msgs :
    <<c, m>> \in got => m \in stray \/ Owner[m] = Account[c]

OwnOK == PortsRight /\ QueuesRight /\ GotRight

OwnInv == hurries = 0 => OwnOK

\* Steps that change neither the list nor what the clients got.
LEMMA QuietStep ==
  ASSUME OwnOK, UNCHANGED <<pool, got, stray>>
  PROVE  QueuesRight' /\ GotRight'
BY DEF OwnOK, QueuesRight, GotRight, Belongs

\* Steps that leave ports alone.
LEMMA SamePorts ==
  ASSUME OwnOK, UNCHANGED <<given, stranded, port, client>>
  PROVE  PortsRight'
BY DEF OwnOK, PortsRight

\* The main thread keeps it: what it answers is the port of the thread it has
\* waited for, or one that nobody has any more.
LEMMA OwnMain ==
  ASSUME TypeInv, HandshakeInv, OwnInv, Main, hurries' = 0
  PROVE  OwnOK'
<1> USE DEF mainVars, threadVars, clientVars, history
<1>0. hurries = 0 /\ ~MainSpurious /\ ~MainTimeout
  BY DEF Main, MainRecv, MainWoken, MainSpurious, MainTimeout, TypeInv, TypeOK
<1>1. OwnOK
  BY <1>0 DEF OwnInv
<1>2. ASSUME NEW c \in Clients, NEW t \in Threads, MainRecv(c, t)
      PROVE  OwnOK'
  <2>1. PortsRight'
    BY <1>1, <1>2 DEF MainRecv, OwnOK, PortsRight, TypeInv, TypeOK, LocalsOK
  <2>2. UNCHANGED <<pool, got, stray>>
    BY <1>2 DEF MainRecv
  <2> QED BY <1>1, <2>1, <2>2, QuietStep DEF OwnOK
<1>3. CASE MainWoken
  <2>1. PICK p \in RespText :
          /\ given' = [given EXCEPT ![serving] = p]
          /\ stranded' = IF p # 0 /\ \A t \in Threads : port[t] # p
                         THEN stranded \cup {serving}
                         ELSE stranded \ {serving}
    BY <1>3 DEF MainWoken, MainAnswer
  <2>2. p = 0 \/ p = resp
    BY <2>1 DEF RespText
  <2>3. ASSUME NEW t \in Threads, p # 0, port[t] = p
        PROVE  Account[client[t]] = Account[serving]
    BY <1>0, <1>3, <2>2, <2>3 DEF MainWoken, HandshakeInv, HandshakeOK
  <2>4. given \in [Clients -> Ports \cup {0}] /\ serving \in Clients
    BY <1>3 DEF MainWoken, TypeInv, TypeOK, LocalsOK
  <2>5. UNCHANGED <<client, port, pool, got, stray>>
    BY <1>3 DEF MainWoken, MainAnswer
  <2>6. ASSUME NEW c \in Clients, given'[c] # 0, c \notin stranded'
        PROVE  \E t \in Threads : port[t] = given'[c] /\ Account[client[t]] = Account[c]
    <3>1. CASE c = serving
      BY <2>1, <2>3, <2>4, <2>6, <3>1
    <3>2. CASE c # serving
      BY <1>1, <2>1, <2>4, <2>6, <3>2 DEF OwnOK, PortsRight
    <3> QED BY <3>1, <3>2
  <2>7. PortsRight'
    BY <2>5, <2>6 DEF PortsRight
  <2> QED BY <1>1, <2>5, <2>7, QuietStep DEF OwnOK
<1> QED BY <1>0, <1>2, <1>3 DEF Main

\* Who has the port of a thread that ends is stranded from then on.
LEMMA QuitPorts ==
  ASSUME TypeInv, PortsRight, NEW t \in Threads, Quit(t),
         \A c \in Clients : given'[c] # 0 /\ c \notin stranded' =>
           given'[c] = given[c] /\ c \notin stranded /\ given[c] # port[t]
  PROVE  PortsRight'
<1>1. \A u \in Threads : u # t => port'[u] = port[u] /\ client'[u] = client[u]
  BY DEF Quit, TypeInv, TypeOK
<1>2. ASSUME NEW c \in Clients, given'[c] # 0, c \notin stranded'
      PROVE  \E u \in Threads : port'[u] = given'[c] /\ Account[client'[u]] = Account[c]
  <2>1. PICK u \in Threads : port[u] = given[c] /\ Account[client[u]] = Account[c]
    BY <1>2 DEF PortsRight
  <2>2. u # t
    BY <1>2, <2>1
  <2> QED BY <1>1, <1>2, <2>1, <2>2
<1> QED BY <1>2 DEF PortsRight

\* A starting or ending thread keeps it.
LEMMA OwnThread ==
  ASSUME TypeInv, OwnOK, NEW t \in Threads, Starting(t) \/ ThreadExit(t)
  PROVE  OwnOK'
<1> USE DEF mainVars, threadVars, clientVars, history
<1>1. CASE ThreadFind(t) \/ ThreadTell(t) \/ ThreadSignal(t)
  <2>1. UNCHANGED <<given, stranded, port, client, pool, got, stray>>
    BY <1>1 DEF ThreadFind, ThreadTell, ThreadSignal
  <2> QED BY <2>1, SamePorts, QuietStep DEF OwnOK
<1>2. CASE ThreadCreate(t)
  <2> DEFINE q == [id |-> Account[client[t]], items |-> <<>>]
  <2>1. q \in Queue /\ q.items = <<>> /\ pool \in Seq(Queue)
    BY <1>2 DEF ThreadCreate, TypeInv, TypeOK, LocalsOK, Queue
  <2>2. pool' = Append(pool, q) /\ UNCHANGED <<client, port, given, stranded, got, stray>>
    BY <1>2 DEF ThreadCreate
  <2> HIDE DEF q
  <2>3. \A k \in DOMAIN pool' : pool'[k] = q \/ (k \in DOMAIN pool /\ pool'[k] = pool[k])
    BY <2>1, <2>2
  <2>4. QueuesRight'
    BY <2>1, <2>2, <2>3 DEF OwnOK, QueuesRight, Belongs
  <2>5. GotRight'
    BY <2>2 DEF OwnOK, GotRight
  <2> QED BY <2>2, <2>4, <2>5, SamePorts DEF OwnOK
<1>3. CASE ThreadBind(t)
  <2>1. UNCHANGED <<given, stranded, client, pool, got, stray>>
    BY <1>3 DEF ThreadBind
  <2>2. port[t] = 0 /\ \A u \in Threads : u # t => port'[u] = port[u]
    BY <1>3 DEF ThreadBind, TypeInv, TypeOK, LocalsOK
  <2>3. PortsRight'
    BY <2>1, <2>2 DEF OwnOK, PortsRight
  <2> QED BY <2>1, <2>3, QuietStep DEF OwnOK
<1>4. CASE ThreadExit(t)
  <2>1. /\ Quit(t) /\ stranded' = stranded \cup Left(t, {})
        /\ UNCHANGED <<given, pool, got, stray>>
    BY <1>4 DEF ThreadExit
  <2>2. PortsRight'
    BY <2>1, QuitPorts DEF Left, OwnOK
  <2> QED BY <2>1, <2>2, QuietStep DEF OwnOK
<1> QED BY <1>1, <1>2, <1>3, <1>4 DEF Starting

\* A client that is not stranded is served from the queue of its account.
LEMMA ServedRight ==
  ASSUME TypeInv, PortsRight, NEW c \in Clients, c \notin stranded,
         NEW t \in Threads, t \in Behind(c), tpc[t] = "serve"
  PROVE  pool[mine[t]].id = Account[c]
<1>1. port[t] # 0 /\ port[t] = given[c]
  BY DEF Behind
<1>2. PICK u \in Threads : port[u] = given[c] /\ Account[client[u]] = Account[c]
  BY <1>1 DEF PortsRight
<1>3. u = t
  BY <1>1, <1>2 DEF TypeInv, LocalsOK
<1> QED BY <1>2, <1>3 DEF TypeInv, LocalsOK

\* A push keeps it.
LEMMA OwnPush ==
  ASSUME TypeInv, OwnOK, NEW c \in Clients, NEW t \in Threads, NEW m \in Msgs,
         Push(c, t, m)
  PROVE  OwnOK'
<1> DEFINE k == mine[t]
           s == pool[k].items
<1>1. /\ k \in DOMAIN pool /\ DOMAIN pool' = DOMAIN pool
      /\ \A j \in DOMAIN pool : pool'[j].id = pool[j].id
      /\ \A j \in DOMAIN pool : j # k => pool'[j].items = pool[j].items
      /\ pool'[k].items = Append(s, m)
  BY PushChanges
<1>2. /\ tpc[t] = "serve" /\ t \in Behind(c) /\ Owner[m] = Account[c]
      /\ stray' = IF c \in stranded THEN stray \cup {m} ELSE stray
      /\ UNCHANGED <<given, stranded, port, client, got>>
  BY DEF Push, threadVars
<1>3. s \in Seq(Msgs)
  BY <1>2, OwnQueue
<1>4. stray \subseteq stray' /\ (m \in stray' \/ Owner[m] = pool[k].id)
  BY <1>2, ServedRight DEF OwnOK
<1> HIDE DEF s, k
<1>5. \A i \in DOMAIN Append(s, m) :
        Append(s, m)[i] = m \/ (i \in DOMAIN s /\ Append(s, m)[i] = s[i])
  BY <1>3
<1>6. ASSUME NEW j \in DOMAIN pool, NEW i \in DOMAIN pool'[j].items
      PROVE  Belongs(j, i)'
  <2>1. CASE j = k
    BY <1>1, <1>4, <1>5, <1>6, <2>1, SMTT(30) DEF s, Belongs, OwnOK, QueuesRight
  <2>2. CASE j # k
    BY <1>1, <1>4, <1>6, <2>2 DEF Belongs, OwnOK, QueuesRight
  <2> QED BY <2>1, <2>2
<1>7. QueuesRight'
  BY <1>1, <1>6 DEF QueuesRight
<1>8. GotRight'
  BY <1>2, <1>4 DEF OwnOK, GotRight
<1> QED BY <1>2, <1>7, <1>8, SamePorts DEF OwnOK

\* So does a pull.
LEMMA OwnPull ==
  ASSUME TypeInv, OwnOK, NEW c \in Clients, NEW t \in Threads, NEW arrives,
         Pull(c, t, arrives)
  PROVE  OwnOK'
<1> DEFINE k == mine[t]
           s == pool[k].items
           m == Head(s)
<1>1. /\ k \in DOMAIN pool /\ DOMAIN pool' = DOMAIN pool
      /\ s \in Seq(Msgs) /\ s # <<>>
      /\ \A j \in DOMAIN pool : pool'[j].id = pool[j].id
      /\ \A j \in DOMAIN pool : j # k => pool'[j].items = pool[j].items
      /\ pool'[k].items = Tail(s)
  BY PullChanges
<1>2. /\ tpc[t] = "serve" /\ t \in Behind(c)
      /\ got' = IF arrives THEN got \cup {<<c, m>>} ELSE got
      /\ stray' = IF c \in stranded THEN stray \cup {m} ELSE stray
      /\ UNCHANGED <<given, stranded, port, client>>
  BY DEF Pull, threadVars
<1>3. stray \subseteq stray'
  BY <1>2
<1>4. m \in stray' \/ Owner[m] = Account[c]
  <2>1. 1 \in DOMAIN s /\ m = s[1]
    BY <1>1
  <2>2. m \in stray \/ Owner[m] = pool[k].id
    BY <1>1, <2>1 DEF OwnOK, QueuesRight, Belongs
  <2> QED BY <1>2, <2>2, ServedRight DEF OwnOK
<1> HIDE DEF s, k, m
<1>5. \A i \in DOMAIN Tail(s) : i + 1 \in DOMAIN s /\ Tail(s)[i] = s[i + 1]
  BY <1>1
<1>6. ASSUME NEW j \in DOMAIN pool, NEW i \in DOMAIN pool'[j].items
      PROVE  Belongs(j, i)'
  <2>1. CASE j = k
    <3>1. /\ i + 1 \in DOMAIN pool[k].items
          /\ pool'[k].items[i] = pool[k].items[i + 1] /\ pool'[k].id = pool[k].id
      BY <1>1, <1>5, <1>6, <2>1 DEF s
    <3>2. Belongs(k, i + 1)
      BY <1>1, <3>1 DEF OwnOK, QueuesRight
    <3> QED BY <1>3, <2>1, <3>1, <3>2 DEF Belongs
  <2>2. CASE j # k
    BY <1>1, <1>3, <1>6, <2>2 DEF Belongs, OwnOK, QueuesRight
  <2> QED BY <2>1, <2>2
<1>7. QueuesRight'
  BY <1>1, <1>6 DEF QueuesRight
<1>8. GotRight'
  BY <1>2, <1>3, <1>4 DEF OwnOK, GotRight
<1> QED BY <1>2, <1>7, <1>8, SamePorts DEF OwnOK

\* What happens around the clients keeps it.
LEMMA OwnClient ==
  ASSUME TypeInv, OwnOK, NEW c \in Clients, Client(c)
  PROVE  OwnOK'
<1> USE DEF mainVars, threadVars, clientVars, history
<1>1. CASE ClientAsk(c) \/ ClientLoses(c)
  <2>1. UNCHANGED <<given, stranded, port, client, pool, got, stray>>
    BY <1>1 DEF ClientAsk, ClientLoses
  <2> QED BY <2>1, SamePorts, QuietStep DEF OwnOK
<1>2. CASE ClientGone(c)
  <2>1. UNCHANGED <<port, client, pool, got, stray>>
    BY <1>2 DEF ClientGone
  <2>2. PortsRight'
    BY <1>2 DEF ClientGone, OwnOK, PortsRight, TypeInv, TypeOK
  <2> QED BY <2>1, <2>2, QuietStep DEF OwnOK
<1>3. ASSUME NEW t \in Threads, ClientConnect(c, t)
      PROVE  OwnOK'
  <2>1. UNCHANGED <<given, stranded, port, client, pool, got, stray>>
    BY <1>3 DEF ClientConnect
  <2> QED BY <2>1, SamePorts, QuietStep DEF OwnOK
<1>4. ASSUME NEW t \in Threads, ClientBye(c, t)
      PROVE  OwnOK'
  <2>1. /\ Quit(t) /\ stranded' = (stranded \cup Left(t, {c})) \ {c}
        /\ given' = [given EXCEPT ![c] = 0]
        /\ UNCHANGED <<pool, got, stray>>
    BY <1>4 DEF ClientBye
  <2>2. \A d \in Clients : given'[d] = IF d = c THEN 0 ELSE given[d]
    BY <2>1 DEF TypeInv, TypeOK
  <2>3. PortsRight'
    BY <2>1, <2>2, QuitPorts DEF Left, OwnOK
  <2> QED BY <2>1, <2>3, QuietStep DEF OwnOK
<1> QED BY <1>1, <1>2, <1>3, <1>4, OwnPush, OwnPull DEF Client

\* Every step keeps it.
LEMMA OwnStep == TypeInv /\ HandshakeInv /\ OwnInv /\ [Next]_vars => OwnInv'
<1> SUFFICES ASSUME TypeInv, HandshakeInv, OwnInv, [Next]_vars, hurries' = 0
             PROVE  OwnOK'
  BY DEF OwnInv
<1> USE DEF mainVars, threadVars, clientVars, history
<1>1. CASE UNCHANGED vars
  <2>1. UNCHANGED <<hurries, given, stranded, port, client, pool, got, stray>>
    BY <1>1 DEF vars
  <2> QED BY <2>1, SamePorts, QuietStep DEF OwnInv, OwnOK
<1>2. ASSUME NEW t \in Threads, Starting(t) \/ ThreadExit(t), hurries' = hurries
      PROVE  OwnOK'
  BY <1>2, OwnThread DEF OwnInv
<1>3. ASSUME NEW c \in Clients, Client(c), hurries' = hurries
      PROVE  OwnOK'
  BY <1>3, OwnClient DEF OwnInv
<1> QED BY <1>1, <1>2, <1>3, OwnMain, HurriesOfMain DEF Next

\* Initially nobody has a port and there is no queue.
LEMMA OwnInit == Init => OwnInv
  BY DEF Init, OwnInv, OwnOK, PortsRight, QueuesRight, GotRight

\* Nobody gets another account's messages (mt.c:193-209, 256-264), as long as the
\* waits of the main thread end with signals and no stranded client is involved.
THEOREM MessagesReachOwners == Spec => []OwnMessages
<1>1. OwnInv => OwnMessages
  BY DEF OwnInv, OwnOK, GotRight, OwnMessages
<1>2. Spec => []OwnInv
  BY OwnInit, OwnStep, HandshakeKept, BrokerTyped, PTL DEF Spec
<1> QED BY <1>1, <1>2, PTL

-----------------------------------------------------------------------------
(* First in, first out *)

\* A change of the items of one queue, seen from the accounts.
LEMMA ItemsChange ==
  ASSUME pool \in Seq(Queue), pool' \in Seq(Queue), Unique(pool),
         NEW k \in DOMAIN pool, DOMAIN pool' = DOMAIN pool,
         \A j \in DOMAIN pool : pool'[j].id = pool[j].id,
         \A j \in DOMAIN pool : j # k => pool'[j].items = pool[j].items,
         NEW a \in Accounts
  PROVE  /\ Items(pool[k].id) = pool[k].items
         /\ Items(a)' = IF a = pool[k].id THEN pool'[k].items ELSE Items(a)
<1>1. Unique(pool')
  BY DEF Unique
<1>2. Find(pool, pool[k].id) = k /\ Find(pool', pool'[k].id) = k /\ k # 0
  BY <1>1, FindUnique
<1>3. Items(pool[k].id) = pool[k].items
  BY <1>2 DEF Items
<1>4. CASE a = pool[k].id
  BY <1>2, <1>4 DEF Items
<1>5. CASE a # pool[k].id
  <2> DEFINE j == Find(pool, a)
  <2>1. /\ j # 0 => j \in DOMAIN pool /\ pool[j].id = a
        /\ j = 0 => \A i \in DOMAIN pool : pool[i].id # a
    BY FindWorks
  <2>2. CASE j = 0
    <3>1. Find(pool', a) = 0
      BY <2>1, <2>2, FindWorks
    <3> QED BY <1>3, <1>5, <2>2, <3>1 DEF Items
  <2>3. CASE j # 0
    <3> HIDE DEF j
    <3>1. j \in DOMAIN pool' /\ pool'[j].id = a /\ j # k
      BY <1>5, <2>1, <2>3
    <3>2. Find(pool', a) = j
      BY <1>1, <3>1, FindUnique
    <3>3. pool'[j].items = pool[j].items
      BY <3>1
    <3>4. Items(a)' = pool'[j].items /\ Items(a) = pool[j].items
      BY <2>3, <3>2 DEF Items, j
    <3> QED BY <1>3, <1>5, <3>3, <3>4
  <2> QED BY <2>2, <2>3
<1> QED BY <1>3, <1>4, <1>5

\* A new queue, seen from the accounts: nothing changes.
LEMMA ItemsCreate ==
  ASSUME pool \in Seq(Queue), pool' \in Seq(Queue), Unique(pool'),
         DOMAIN pool' = DOMAIN pool \cup {Len(pool) + 1},
         \A k \in DOMAIN pool : pool'[k] = pool[k],
         pool'[Len(pool) + 1].items = <<>>,
         NEW a
  PROVE  Items(a)' = Items(a)
<1> DEFINE j == Find(pool, a)
           n == Len(pool) + 1
<1>1. /\ j # 0 => j \in DOMAIN pool /\ pool[j].id = a
      /\ j = 0 => \A i \in DOMAIN pool : pool[i].id # a
  BY FindWorks
<1>2. CASE j # 0
  <2> HIDE DEF j
  <2>1. j \in DOMAIN pool' /\ pool'[j].id = a /\ pool'[j].items = pool[j].items
    BY <1>1, <1>2
  <2>2. Find(pool', a) = j
    BY <2>1, FindUnique
  <2> QED BY <1>2, <2>1, <2>2 DEF Items, j
<1>3. CASE j = 0
  <2>1. Items(a) = <<>>
    BY <1>3 DEF Items
  <2>2. Find(pool', a) = 0 \/ Find(pool', a) = n
    <3>1. Find(pool', a) # 0 => Find(pool', a) \in DOMAIN pool' /\ pool'[Find(pool', a)].id = a
      BY FindWorks
    <3> QED BY <1>1, <1>3, <3>1
  <2> QED BY <2>1, <2>2 DEF Items
<1> QED BY <1>2, <1>3

\* What the accounts see of the list of queues.
Seen == [a \in Accounts |-> Items(a)]

\* Steps that leave the list alone.
LEMMA SameSeen == ASSUME pool' = pool PROVE Seen' = Seen
BY DEF Seen, Items

\* A push is a Put of the account whose queue the thread has.
LEMMA FifoPush ==
  ASSUME TypeInv, HandshakeOK, NEW c \in Clients, NEW t \in Threads, NEW m \in Msgs,
         Push(c, t, m)
  PROVE  AQ!Next
<1> DEFINE k == mine[t]
           a == pool[k].id
<1>1. /\ k \in DOMAIN pool /\ pool \in Seq(Queue) /\ pool' \in Seq(Queue)
      /\ DOMAIN pool' = DOMAIN pool
      /\ \A j \in DOMAIN pool : pool'[j].id = pool[j].id
      /\ \A j \in DOMAIN pool : j # k => pool'[j].items = pool[j].items
      /\ pool'[k].items = Append(pool[k].items, m)
      /\ UNCHANGED taken
  BY PushChanges
<1>2. a \in Accounts /\ Unique(pool)
  <2>1. tpc[t] = "serve"
    BY DEF Push
  <2> QED BY <2>1, OwnQueue DEF HandshakeOK
<1> HIDE DEF k
<1>3. \A b \in Accounts : /\ Items(a) = pool[k].items
                         /\ Items(b)' = IF b = a THEN pool'[k].items ELSE Items(b)
  BY <1>1, <1>2, ItemsChange
<1> HIDE DEF a
<1>4. Seen' = [Seen EXCEPT ![a] = Append(@, m)]
  BY <1>1, <1>2, <1>3 DEF Seen
<1>5. AQ!Put(a, m)
  BY <1>1, <1>4 DEF AQ!Put, Seen
<1> QED BY <1>2, <1>5 DEF AQ!Next

\* A pull is a Take.
LEMMA FifoPull ==
  ASSUME TypeInv, HandshakeOK, NEW c \in Clients, NEW t \in Threads, NEW arrives,
         Pull(c, t, arrives)
  PROVE  AQ!Next
<1> DEFINE k == mine[t]
           a == pool[k].id
           s == pool[k].items
<1>1. /\ k \in DOMAIN pool /\ pool \in Seq(Queue) /\ pool' \in Seq(Queue)
      /\ DOMAIN pool' = DOMAIN pool /\ a \in Accounts /\ s # <<>>
      /\ \A j \in DOMAIN pool : pool'[j].id = pool[j].id
      /\ \A j \in DOMAIN pool : j # k => pool'[j].items = pool[j].items
      /\ pool'[k].items = Tail(s)
  BY PullChanges
<1>2. taken' = [taken EXCEPT ![a] = Append(@, Head(s))]
  BY DEF Pull
<1>3. Unique(pool)
  BY DEF HandshakeOK
<1> HIDE DEF k
<1>4. \A b \in Accounts : /\ Items(a) = s
                         /\ Items(b)' = IF b = a THEN Tail(s) ELSE Items(b)
  BY <1>1, <1>3, ItemsChange
<1> HIDE DEF a, s
<1>5. Seen[a] = s /\ Seen' = [Seen EXCEPT ![a] = Tail(@)]
  BY <1>1, <1>4 DEF Seen
<1>6. AQ!Take(a)
  BY <1>1, <1>2, <1>5 DEF AQ!Take, Seen
<1> QED BY <1>1, <1>6 DEF AQ!Next

\* Every step is one of the abstract queues, or changes nothing they see.
LEMMA FifoStep ==
  ASSUME TypeInv, HandshakeOK, HandshakeOK', TypeInv', [Next]_vars
  PROVE  AQ!Next \/ (Seen' = Seen /\ taken' = taken)
<1> USE DEF mainVars, threadVars, clientVars, history
<1>1. CASE UNCHANGED vars \/ Main
  <2>1. pool' = pool /\ taken' = taken
    BY <1>1 DEF vars, Main, MainRecv, MainWoken, MainSpurious, MainTimeout, MainAnswer
  <2> QED BY <2>1, SameSeen
<1>2. ASSUME NEW t \in Threads, Starting(t) \/ ThreadExit(t), ~ThreadCreate(t)
      PROVE  Seen' = Seen /\ taken' = taken
  <2>1. pool' = pool /\ taken' = taken
    BY <1>2 DEF Starting, ThreadFind, ThreadBind, ThreadTell, ThreadSignal, ThreadExit
  <2> QED BY <2>1, SameSeen
<1>3. ASSUME NEW t \in Threads, ThreadCreate(t)
      PROVE  Seen' = Seen /\ taken' = taken
  <2> DEFINE q == [id |-> Account[client[t]], items |-> <<>>]
  <2>1. q \in Queue /\ q.items = <<>> /\ pool \in Seq(Queue)
    BY <1>3 DEF ThreadCreate, TypeInv, TypeOK, LocalsOK, Queue
  <2>2. pool' = Append(pool, q) /\ taken' = taken
    BY <1>3 DEF ThreadCreate
  <2> HIDE DEF q
  <2>3. DOMAIN pool = 1 .. Len(pool) /\ DOMAIN pool' = 1 .. Len(pool) + 1
    BY <2>1, <2>2
  <2>4. /\ pool' \in Seq(Queue) /\ pool'[Len(pool) + 1] = q
        /\ \A k \in DOMAIN pool : pool'[k] = pool[k]
    BY <2>1, <2>2
  <2>5. DOMAIN pool' = DOMAIN pool \cup {Len(pool) + 1}
    BY <2>1, <2>3
  <2>6. \A a \in Accounts : Items(a)' = Items(a)
    BY <2>1, <2>4, <2>5, ItemsCreate DEF HandshakeOK
  <2> QED BY <2>2, <2>6 DEF Seen
<1>4. ASSUME NEW c \in Clients, Client(c)
      PROVE  AQ!Next \/ (Seen' = Seen /\ taken' = taken)
  <2>1. ASSUME ClientAsk(c) \/ ClientLoses(c) \/ ClientGone(c)
               \/ \E t \in Threads : ClientConnect(c, t) \/ ClientBye(c, t)
        PROVE  Seen' = Seen /\ taken' = taken
    <3>1. pool' = pool /\ taken' = taken
      BY <2>1 DEF ClientAsk, ClientLoses, ClientGone, ClientConnect, ClientBye
    <3> QED BY <3>1, SameSeen
  <2> QED BY <1>4, <2>1, FifoPush, FifoPull DEF Client
<1> QED BY <1>1, <1>2, <1>3, <1>4 DEF Next

\* Without waits cut short.
LEMMA NoHurry == ASSUME MaxHurries = 0 PROVE Spec => [](hurries = 0)
<1>1. Init => hurries = 0
  BY DEF Init
<1>2. hurries = 0 /\ [Next]_vars => (hurries = 0)'
  <2> SUFFICES ASSUME hurries = 0, [Next]_vars PROVE hurries' = 0
    OBVIOUS
  <2> USE DEF mainVars, threadVars, clientVars, history
  <2>1. CASE UNCHANGED vars
    BY <2>1 DEF vars
  <2>2. CASE Main
    <3>1. ~(hurries < MaxHurries)
      OBVIOUS
    <3>2. ~MainTimeout /\ ~MainSpurious
      BY <3>1 DEF MainTimeout, MainSpurious
    <3> QED BY <2>2, <3>2 DEF Main, MainRecv, MainWoken, MainAnswer
  <2> QED BY <2>1, <2>2, HurriesOfMain
<1> QED BY <1>1, <1>2, PTL DEF Spec

\* For each account the threads together are one first-in, first-out queue
\* (mt.c:275-457), if the waits of the main thread end with signals.
THEOREM QueuesAreFifo == ASSUME MaxHurries = 0 PROVE Spec => Fifo
<1>1. Init => AQ!Init
  <2> SUFFICES ASSUME Init PROVE AQ!Init
    OBVIOUS
  <2>1. pool = <<>> /\ taken = [a \in Accounts |-> <<>>]
    BY DEF Init
  <2>2. \A a \in Accounts : Items(a) = <<>>
    BY <2>1 DEF Items, Find
  <2> QED BY <2>1, <2>2 DEF AQ!Init
<1>2. /\ TypeInv /\ TypeInv' /\ HandshakeInv /\ HandshakeInv'
      /\ hurries = 0 /\ (hurries = 0)' /\ [Next]_vars
      => [AQ!Next]_<<[a \in Accounts |-> Items(a)], taken>>
  BY FifoStep DEF HandshakeInv, Seen
<1> QED BY <1>1, <1>2, NoHurry, HandshakeKept, BrokerTyped, PTL DEF Spec, Fifo, AQ!Spec

-----------------------------------------------------------------------------
(* Every message is kept in one place *)

InQueue(m, k, j) == k \in DOMAIN pool /\ j \in DOMAIN pool[k].items /\ pool[k].items[j] = m
InTaken(m, a, j) == a \in Accounts /\ j \in DOMAIN taken[a] /\ taken[a][j] = m

Somewhere(m) == (\E k, j : InQueue(m, k, j)) \/ (\E a, j : InTaken(m, a, j))

\* Message m is in at most one place.
Once(m) ==
  /\ \A k, j, l, i : InQueue(m, k, j) /\ InQueue(m, l, i) => k = l /\ j = i
  /\ \A a, j, b, i : InTaken(m, a, j) /\ InTaken(m, b, i) => a = b /\ j = i
  /\ \A k, j, a, i : ~(InQueue(m, k, j) /\ InTaken(m, a, i))

\* It is nowhere before it is put, and in one place from then on.
KeptOf(m) == Once(m) /\ (Somewhere(m) <=> m \notin todo)

KeptInv == \A m \in Msgs : KeptOf(m)

\* The same in terms of the places Kept counts.
LEMMA KeptPlaces ==
  ASSUME NEW m \in Msgs, KeptOf(m)
  PROVE  Cardinality(Places(m)) = IF m \in todo THEN 0 ELSE 1
<1>1. \A x : x \in Places(m) <=> \/ \E k, j : x = <<"queue", k, j>> /\ InQueue(m, k, j)
                                 \/ \E a, j : x = <<"taken", a, j>> /\ InTaken(m, a, j)
  <2> DEFINE At(q) == {j \in DOMAIN q : q[j] = m}
             Q(k) == {<<"queue", k, j>> : j \in At(pool[k].items)}
             T(a) == {<<"taken", a, j>> : j \in At(taken[a])}
  <2>1. Places(m) = (UNION {Q(k) : k \in DOMAIN pool}) \cup (UNION {T(a) : a \in Accounts})
    BY DEF Places
  <2>2. \A x, k : k \in DOMAIN pool =>
          (x \in Q(k) <=> \E j : x = <<"queue", k, j>> /\ InQueue(m, k, j))
    BY DEF InQueue
  <2>3. \A x, a : a \in Accounts =>
          (x \in T(a) <=> \E j : x = <<"taken", a, j>> /\ InTaken(m, a, j))
    BY DEF InTaken
  <2>4. \A k, j : InQueue(m, k, j) => k \in DOMAIN pool
    BY DEF InQueue
  <2>5. \A a, j : InTaken(m, a, j) => a \in Accounts
    BY DEF InTaken
  <2> HIDE DEF Q, T
  <2>6. \A x : x \in Places(m) <=> \/ \E k \in DOMAIN pool : x \in Q(k)
                                   \/ \E a \in Accounts : x \in T(a)
    BY <2>1
  <2> QED BY <2>2, <2>3, <2>4, <2>5, <2>6
<1>2. CASE m \in todo
  <2>1. Places(m) = {}
    BY <1>1, <1>2 DEF KeptOf, Somewhere
  <2> QED BY <1>2, <2>1, FS_EmptySet
<1>3. CASE m \notin todo
  <2>1. PICK x : x \in Places(m)
    BY <1>1, <1>3 DEF KeptOf, Somewhere
  <2>2. \A y \in Places(m) : y = x
    BY <1>1, <2>1 DEF KeptOf, Once
  <2>3. Places(m) = {x}
    BY <2>1, <2>2
  <2> QED BY <1>3, <2>3, FS_Singleton
<1> QED BY <1>2, <1>3

\* A step that moves no message keeps it.
LEMMA KeptFrame ==
  ASSUME KeptInv, todo' = todo,
         \A m, k, j : InQueue(m, k, j)' <=> InQueue(m, k, j),
         \A m, a, j : InTaken(m, a, j)' <=> InTaken(m, a, j)
  PROVE  KeptInv'
<1> SUFFICES ASSUME NEW m \in Msgs PROVE KeptOf(m)'
  BY DEF KeptInv
<1>1. KeptOf(m)
  BY DEF KeptInv
<1>2. Once(m)'
  BY <1>1 DEF KeptOf, Once
<1>3. Somewhere(m)' <=> Somewhere(m)
  BY DEF Somewhere
<1> QED BY <1>1, <1>2, <1>3 DEF KeptOf

\* A new queue is empty.
LEMMA KeptCreate ==
  ASSUME TypeInv, KeptInv, NEW t \in Threads, ThreadCreate(t)
  PROVE  KeptInv'
<1> DEFINE q == [id |-> Account[client[t]], items |-> <<>>]
<1>1. q \in Queue /\ q.items = <<>> /\ pool \in Seq(Queue)
  BY DEF ThreadCreate, TypeInv, TypeOK, LocalsOK, Queue
<1>2. pool' = Append(pool, q) /\ UNCHANGED <<taken, todo>>
  BY DEF ThreadCreate, clientVars, history
<1> HIDE DEF q
<1>3. /\ DOMAIN pool = 1 .. Len(pool) /\ DOMAIN pool' = 1 .. Len(pool) + 1 /\ Len(pool) \in Nat
      /\ pool'[Len(pool) + 1] = q /\ \A k \in DOMAIN pool : pool'[k] = pool[k]
  BY <1>1, <1>2
<1>4. DOMAIN pool'[Len(pool) + 1].items = {}
  BY <1>1, <1>3
<1>5. \A k \in DOMAIN pool' : k \in DOMAIN pool \/ k = Len(pool) + 1
  BY <1>3
<1>6. \A m, k, j : InQueue(m, k, j)' <=> InQueue(m, k, j)
  BY <1>3, <1>4, <1>5 DEF InQueue
<1>7. \A m, a, j : InTaken(m, a, j)' <=> InTaken(m, a, j)
  BY <1>2 DEF InTaken
<1> QED BY <1>2, <1>6, <1>7, KeptFrame

\* A push puts a message that was nowhere at the end of a queue.
LEMMA KeptPush ==
  ASSUME TypeInv, KeptInv, NEW c \in Clients, NEW t \in Threads, NEW m \in Msgs, Push(c, t, m)
  PROVE  KeptInv'
<1> DEFINE k == mine[t]
           s == pool[k].items
           n == Len(s) + 1
<1>1. /\ k \in DOMAIN pool /\ DOMAIN pool' = DOMAIN pool
      /\ \A j \in DOMAIN pool : j # k => pool'[j].items = pool[j].items
      /\ pool'[k].items = Append(s, m) /\ UNCHANGED taken
  BY PushChanges
<1>2. s \in Seq(Msgs)
  <2>1. tpc[t] = "serve"
    BY DEF Push
  <2> QED BY <2>1, OwnQueue
<1>3. m \in todo /\ todo' = todo \ {m}
  BY DEF Push
<1> HIDE DEF k, s
<1>4. /\ DOMAIN s = 1 .. Len(s) /\ Len(s) \in Nat /\ DOMAIN Append(s, m) = 1 .. Len(s) + 1
      /\ Append(s, m)[Len(s) + 1] = m /\ \A j \in DOMAIN s : Append(s, m)[j] = s[j]
  BY <1>2
<1>5. DOMAIN Append(s, m) = DOMAIN s \cup {n} /\ n \notin DOMAIN s
  BY <1>4
<1>6. \A j : j \in DOMAIN pool'[k].items /\ j # n => j \in DOMAIN s /\ pool'[k].items[j] = s[j]
  BY <1>1, <1>4, <1>5
<1>7. n \in DOMAIN pool'[k].items /\ pool'[k].items[n] = m
  BY <1>1, <1>4, <1>5
<1>8. \A j \in DOMAIN s : j \in DOMAIN pool'[k].items /\ pool'[k].items[j] = s[j] /\ j # n
  BY <1>1, <1>4, <1>5
<1> HIDE DEF n
<1>9. \A x, l, j : InQueue(x, l, j)' <=> InQueue(x, l, j) \/ (x = m /\ l = k /\ j = n)
  <2> TAKE x, l, j
  <2>1. CASE l # k
    BY <1>1, <2>1 DEF InQueue
  <2>2. CASE l = k /\ j = n
    BY <1>1, <1>5, <1>7, <2>2 DEF InQueue, s
  <2>3. CASE l = k /\ j # n
    BY <1>1, <1>6, <1>8, <2>3 DEF InQueue, s
  <2> QED BY <2>1, <2>2, <2>3
<1>10. \A x, a, j : InTaken(x, a, j)' <=> InTaken(x, a, j)
  BY <1>1 DEF InTaken
<1> SUFFICES ASSUME NEW x \in Msgs PROVE KeptOf(x)'
  BY DEF KeptInv
<1>11. KeptOf(x) /\ KeptOf(m)
  BY DEF KeptInv
<1>12. CASE x # m
  <2>1. Once(x)'
    BY <1>9, <1>10, <1>11, <1>12 DEF KeptOf, Once
  <2>2. Somewhere(x)' <=> Somewhere(x)
    BY <1>9, <1>10, <1>12 DEF Somewhere
  <2> QED BY <1>3, <1>11, <1>12, <2>1, <2>2 DEF KeptOf
<1>13. CASE x = m
  <2>1. \A l, j : ~InQueue(x, l, j) /\ ~InTaken(x, l, j)
    BY <1>3, <1>11, <1>13 DEF KeptOf, Somewhere
  <2>2. Once(x)'
    BY <1>9, <1>10, <2>1 DEF Once
  <2>3. Somewhere(x)'
    BY <1>9, <1>13 DEF Somewhere
  <2> QED BY <1>3, <1>13, <2>2, <2>3 DEF KeptOf
<1> QED BY <1>12, <1>13

\* A pull moves the head of a queue to what was taken; the others move up.
LEMMA KeptPull ==
  ASSUME TypeInv, KeptInv, NEW c \in Clients, NEW t \in Threads, NEW arrives, Pull(c, t, arrives)
  PROVE  KeptInv'
<1> DEFINE k == mine[t]
           s == pool[k].items
           m == Head(s)
           a == pool[k].id
           n == Len(taken[a]) + 1
<1>1. /\ k \in DOMAIN pool /\ DOMAIN pool' = DOMAIN pool
      /\ \A j \in DOMAIN pool : j # k => pool'[j].items = pool[j].items
      /\ pool'[k].items = Tail(s) /\ s \in Seq(Msgs) /\ s # <<>> /\ m \in Msgs
      /\ UNCHANGED todo /\ a \in Accounts
  BY PullChanges
<1>2. taken' = [taken EXCEPT ![a] = Append(@, m)] /\ taken \in [Accounts -> Seq(Msgs)]
  BY DEF Pull, TypeInv, TypeOK
<1> HIDE DEF k, s, m, a
<1>3. taken[a] \in Seq(Msgs) /\ taken'[a] = Append(taken[a], m)
  BY <1>1, <1>2
<1>4. /\ DOMAIN taken[a] = 1 .. Len(taken[a]) /\ DOMAIN taken'[a] = 1 .. Len(taken[a]) + 1
      /\ Len(taken[a]) \in Nat /\ taken'[a][Len(taken[a]) + 1] = m
      /\ \A j \in DOMAIN taken[a] : taken'[a][j] = taken[a][j]
  BY <1>1, <1>3
<1>5. /\ \A j : j \in DOMAIN taken'[a] <=> j \in DOMAIN taken[a] \/ j = n
      /\ n \notin DOMAIN taken[a] /\ taken'[a][n] = m
  BY <1>4
<1> HIDE DEF n
<1>6. \A x, b, j : InTaken(x, b, j)' <=> InTaken(x, b, j) \/ (x = m /\ b = a /\ j = n)
  <2> TAKE x, b, j
  <2>1. CASE b # a
    BY <1>2, <2>1 DEF InTaken
  <2>2. CASE b = a
    BY <1>1, <1>4, <1>5, <2>2 DEF InTaken
  <2> QED BY <2>1, <2>2
<1>7. /\ Len(s) \in Nat /\ DOMAIN s = 1 .. Len(s) /\ 1 \in DOMAIN s /\ s[1] = m
      /\ DOMAIN Tail(s) = 1 .. Len(s) - 1 /\ \A j \in DOMAIN Tail(s) : Tail(s)[j] = s[j + 1]
  BY <1>1, HeadTailProperties, LenProperties DEF m
<1>8. \A j : j \in DOMAIN pool'[k].items =>
        j \in Nat /\ j + 1 \in DOMAIN s /\ j + 1 # 1 /\ pool'[k].items[j] = s[j + 1]
  BY <1>1, <1>7
<1>9. \A j \in DOMAIN s : j # 1 => /\ j - 1 \in DOMAIN pool'[k].items
                                  /\ pool'[k].items[j - 1] = s[j]
  BY <1>1, <1>7
<1>10. \A x, l, j : InQueue(x, l, j)' =>
         \/ l # k /\ InQueue(x, l, j)
         \/ l = k /\ j \in Nat /\ j + 1 # 1 /\ InQueue(x, k, j + 1)
  <2> TAKE x, l, j
  <2>1. CASE l # k
    BY <1>1, <2>1 DEF InQueue
  <2>2. CASE l = k
    BY <1>1, <1>8, <2>2 DEF InQueue, s
  <2> QED BY <2>1, <2>2
<1>11. \A x, l, j : InQueue(x, l, j) => \/ l # k /\ InQueue(x, l, j)'
                                        \/ l = k /\ j = 1 /\ x = m
                                        \/ l = k /\ InQueue(x, l, j - 1)'
  <2> TAKE x, l, j
  <2>1. CASE l # k
    BY <1>1, <2>1 DEF InQueue
  <2>2. CASE l = k
    BY <1>1, <1>7, <1>9, <2>2 DEF InQueue, s
  <2> QED BY <2>1, <2>2
<1>12. InQueue(m, k, 1)
  BY <1>1, <1>7 DEF InQueue, s
<1> SUFFICES ASSUME NEW x \in Msgs PROVE KeptOf(x)'
  BY DEF KeptInv
<1>13. KeptOf(x) /\ KeptOf(m)
  BY <1>1 DEF KeptInv
<1>14. \A l, j, h, i : InQueue(x, l, j)' /\ InQueue(x, h, i)' => l = h /\ j = i
  <2> TAKE l, j, h, i
  <2> HAVE InQueue(x, l, j)' /\ InQueue(x, h, i)'
  <2>1. CASE l # k \/ h # k
    BY <1>10, <1>13, <2>1 DEF KeptOf, Once
  <2>2. CASE l = k /\ h = k
    <3>1. j \in Nat /\ i \in Nat /\ InQueue(x, k, j + 1) /\ InQueue(x, k, i + 1)
      BY <1>10, <2>2
    <3>2. j + 1 = i + 1
      BY <1>13, <3>1 DEF KeptOf, Once
    <3> QED BY <2>2, <3>1, <3>2
  <2> QED BY <2>1, <2>2
<1>15. CASE x # m
  <2>1. \A l, j, b, i : ~(InQueue(x, l, j)' /\ InTaken(x, b, i)')
    BY <1>6, <1>10, <1>13, <1>15 DEF KeptOf, Once
  <2>2. Once(x)'
    BY <1>6, <1>13, <1>14, <1>15, <2>1 DEF KeptOf, Once
  <2>3. Somewhere(x)' <=> Somewhere(x)
    BY <1>6, <1>10, <1>11, <1>15 DEF Somewhere
  <2> QED BY <1>1, <1>13, <2>2, <2>3 DEF KeptOf
<1>16. CASE x = m
  <2>1. \A b, i : ~InTaken(m, b, i)
    BY <1>12, <1>13 DEF KeptOf, Once
  <2>2. \A l, j : ~InQueue(x, l, j)'
    BY <1>10, <1>12, <1>13, <1>16 DEF KeptOf, Once
  <2>3. \A b, i : InTaken(x, b, i)' <=> b = a /\ i = n
    BY <1>6, <1>16, <2>1
  <2>4. Once(x)' /\ Somewhere(x)'
    BY <2>2, <2>3 DEF Once, Somewhere
  <2>5. x \notin todo
    BY <1>12, <1>13, <1>16 DEF KeptOf, Somewhere
  <2> QED BY <1>1, <2>4, <2>5 DEF KeptOf
<1> QED BY <1>15, <1>16

\* Every step keeps each message in its one place.
LEMMA KeptStep == TypeInv /\ KeptInv /\ [Next]_vars => KeptInv'
<1> SUFFICES ASSUME TypeInv, KeptInv, [Next]_vars PROVE KeptInv'
  OBVIOUS
<1> USE DEF mainVars, threadVars, clientVars, history
<1>1. ASSUME UNCHANGED <<pool, taken, todo>> PROVE KeptInv'
  <2>1. /\ \A m, k, j : InQueue(m, k, j)' <=> InQueue(m, k, j)
        /\ \A m, a, j : InTaken(m, a, j)' <=> InTaken(m, a, j)
    BY <1>1 DEF InQueue, InTaken
  <2> QED BY <1>1, <2>1, KeptFrame
<1>2. CASE UNCHANGED vars \/ Main
  BY <1>1, <1>2 DEF vars, Main, MainRecv, MainWoken, MainSpurious, MainTimeout, MainAnswer
<1>3. ASSUME NEW t \in Threads, Starting(t) \/ ThreadExit(t) PROVE KeptInv'
  <2>1. CASE ThreadCreate(t)
    BY <2>1, KeptCreate
  <2>2. CASE ~ThreadCreate(t)
    BY <1>1, <1>3, <2>2 DEF Starting, ThreadFind, ThreadBind, ThreadTell, ThreadSignal, ThreadExit
  <2> QED BY <2>1, <2>2
<1>4. ASSUME NEW c \in Clients, Client(c) PROVE KeptInv'
  <2>1. ASSUME ClientAsk(c) \/ ClientLoses(c) \/ ClientGone(c)
               \/ \E t \in Threads : ClientConnect(c, t) \/ ClientBye(c, t)
        PROVE  KeptInv'
    BY <1>1, <2>1 DEF ClientAsk, ClientLoses, ClientGone, ClientConnect, ClientBye
  <2> QED BY <1>4, <2>1, KeptPush, KeptPull DEF Client
<1> QED BY <1>2, <1>3, <1>4 DEF Next

\* At the start all messages are still to be put.
LEMMA KeptInit == Init => KeptInv
<1> SUFFICES ASSUME Init, NEW m \in Msgs PROVE KeptOf(m)
  BY DEF KeptInv
<1>1. pool = <<>> /\ taken = [a \in Accounts |-> <<>>] /\ todo = Msgs
  BY DEF Init
<1>2. \A k, j : ~InQueue(m, k, j) /\ ~InTaken(m, k, j)
  BY <1>1 DEF InQueue, InTaken
<1> QED BY <1>1, <1>2 DEF KeptOf, Once, Somewhere

\* The broker loses and copies nothing: from the push to the pull a message is in
\* one place of one queue (mt.c:308, 411; list.c:123-192), for any number of
\* clients, threads and queues, and also if the main thread's waits are cut short.
THEOREM MessagesKept == Spec => []Kept
<1>1. KeptInv => Kept
  BY KeptPlaces DEF KeptInv, Kept
<1> QED BY <1>1, KeptInit, KeptStep, BrokerTyped, PTL DEF Spec

=============================================================================
