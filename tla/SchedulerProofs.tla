-------------------------- MODULE SchedulerProofs --------------------------
(***************************************************************************)
(* Proofs about Scheduler: its type invariant, the bound on the queues     *)
(* although length test and push are not atomic, the answers given, where  *)
(* messages are queued, and that the answers agree with the queues however *)
(* often connections are cut.                                              *)
(***************************************************************************)
EXTENDS Scheduler, FiniteSetTheorems, SequenceTheorems, TLAPS

-----------------------------------------------------------------------------
(* Type correctness *)

\* The locals of a thread and of a server are set when they are used: a thread
\* that routes has a message, one about to push stands on a channel, a server
\* that waits knows for what.
LocalsOK ==
  /\ \A p \in Pushers : pc[p] \in {"scan", "push", "reply"} => cur[p] \in Messages
  /\ \A p \in Pushers : pc[p] = "push" => at[p] \in 1 .. Len(channels[p])
  /\ \A p \in Pushers : conn[p] \in {"asked", "busy"} => asking[p] \in Messages

TypeInv == TypeOK /\ LocalsOK

USE SchedulerAssumption

\* Initially all is well typed.
LEMMA TypeInvInit == Init => TypeInv
  BY DEF Init, TypeInv, TypeOK, LocalsOK, Channel

\* A step of a push thread keeps the types.
LEMMA TypeInvPush ==
  ASSUME TypeInv, NEW p \in Pushers, PushStep(p)
  PROVE  TypeInv'
<1> USE DEF TypeInv, TypeOK, LocalsOK, pushVars, connVars, pullVars
<1>1. CASE PushRecv(p)
  <2>1. inbox[p] \in Seq(Messages \cup {Bye}) /\ inbox[p] # <<>>
    BY <1>1 DEF PushRecv
  <2>2. Tail(inbox[p]) \in Seq(Messages \cup {Bye})
    BY <2>1
  <2>3. Head(inbox[p]) \in Messages
    BY <1>1, <2>1 DEF PushRecv
  <2>4. TypeOK'
    BY <1>1, <2>2, <2>3 DEF PushRecv
  <2>5. LocalsOK'
    BY <1>1, <2>3 DEF PushRecv
  <2>6. QED BY <2>4, <2>5
<1>2. CASE PushSelect(p)
  BY <1>2 DEF PushSelect, FlagsOf
<1>3. CASE PushSkip(p)
  BY <1>3 DEF PushSkip, FlagsOf
<1>4. CASE PushEnd(p)
  BY <1>4 DEF PushEnd
<1>5. CASE PushQueue(p)
  <2>1. cur[p] \in Messages
    BY <1>5 DEF PushQueue
  <2>2. \A g \in Gateways : Append(queue[g], cur[p]) \in Seq(Messages \cup Tests)
    BY <2>1
  <2>3. queue' \in [Gateways -> Seq(Messages \cup Tests)]
    BY <1>5, <2>2 DEF PushQueue
  <2>4. QED BY <1>5, <2>3 DEF PushQueue
<1>6. CASE PushReply(p)
  <2>1. AnswerOf(flags[p]) \in Answers
    BY DEF AnswerOf, Answers
  <2>2. CASE conn[p] = "asked"
    <3> DEFINE a == AnswerOf(flags[p])
    <3>1. /\ answer' = [answer EXCEPT ![cur[p]] = a]
          /\ conn' = [conn EXCEPT ![p] = IF a = "BUSY" THEN "busy" ELSE "idle"]
          /\ asking' = [asking EXCEPT ![p] = IF a = "BUSY" THEN asking[p] ELSE NoMessage]
      BY <1>6, <2>2 DEF PushReply
    <3> HIDE DEF a
    <3>2. a \in Answers
      BY <2>1 DEF a
    <3>3. answer' \in [Messages -> Answers \cup {"none"}]
      BY <3>1, <3>2
    <3>4. conn' \in [Pushers -> {"closed", "idle", "asked", "busy"}]
      BY <3>1
    <3>5. asking' \in [Pushers -> Messages \cup {NoMessage}]
      BY <3>1
    <3>9. /\ pc' \in [Pushers -> {"free", "recv", "scan", "push", "reply"}]
          /\ cur' \in [Pushers -> Messages \cup {NoMessage}]
          /\ at' \in [Pushers -> Nat \ {0}]
          /\ flags' \in [Pushers ->
                 SUBSET {"available", "operator", "province", "completed"}]
      BY <1>6 DEF PushReply
    <3>10. UNCHANGED <<pool, queue, channels, inbox, todo, cuts, pullVars, tested>>
      BY <1>6 DEF PushReply
    <3>6. TypeOK'
      BY <3>3, <3>4, <3>5, <3>9, <3>10
    <3>7. \A r \in Pushers : conn'[r] \in {"asked", "busy"} => asking'[r] \in Messages
      BY <2>2, <3>1
    <3>8. QED BY <1>6, <3>6, <3>7, SMTT(30) DEF PushReply
  <2>3. CASE conn[p] # "asked"
    BY <1>6, <2>3 DEF PushReply
  <2>4. QED BY <2>2, <2>3
<1>7. CASE PushExit(p)
  BY <1>7 DEF PushExit
<1> QED BY <1>1, <1>2, <1>3, <1>4, <1>5, <1>6, <1>7 DEF PushStep

\* A step of a server keeps the types.
LEMMA TypeInvServer ==
  ASSUME TypeInv, NEW p \in Pushers, ServerStep(p)
  PROVE  TypeInv'
<1> USE DEF TypeInv, TypeOK, LocalsOK, pushVars, connVars, pullVars
<1>1. ASSUME NEW m \in Messages, ServerSubmit(p, m) PROVE TypeInv'
  <2>1. Append(inbox[p], m) \in Seq(Messages \cup {Bye})
    OBVIOUS
  <2>2. inbox' \in [Pushers -> Seq(Messages \cup {Bye})]
    BY <1>1, <2>1 DEF ServerSubmit
  <2>3. QED BY <1>1, <2>2 DEF ServerSubmit
<1>2. CASE ServerRetry(p)
  <2>1. Append(inbox[p], asking[p]) \in Seq(Messages \cup {Bye})
    BY <1>2 DEF ServerRetry
  <2>2. inbox' \in [Pushers -> Seq(Messages \cup {Bye})]
    BY <1>2, <2>1 DEF ServerRetry
  <2>3. QED BY <1>2, <2>2 DEF ServerRetry
<1>3. ASSUME NEW rest \in Seq(Messages \cup {Bye}), ServerClose(p, rest)
      PROVE  TypeInv'
  <2>1. inbox' \in [Pushers -> Seq(Messages \cup {Bye})]
    BY <1>3 DEF ServerClose
  <2>2. cuts' \in [Messages -> Nat] /\ todo' \subseteq Messages
    <3>1. CASE conn[p] \in {"asked", "busy"}
      <4>1. asking[p] \in Messages
        BY <3>1
      <4>2. /\ todo' = todo \cup {asking[p]}
            /\ cuts' = [cuts EXCEPT ![asking[p]] =
                          IF conn[p] = "asked" THEN cuts[asking[p]] + 1
                                               ELSE cuts[asking[p]]]
        BY <1>3, <3>1 DEF ServerClose
      <4>3. QED BY <4>1, <4>2
    <3>2. CASE conn[p] \notin {"asked", "busy"}
      BY <1>3, <3>2 DEF ServerClose
    <3>3. QED BY <3>1, <3>2
  <2>3. TypeOK'
    BY <1>3, <2>1, <2>2 DEF ServerClose
  <2>4. QED BY <1>3, <2>3, SMTT(30) DEF ServerClose
<1>4. CASE ServerBye(p)
  <2>1. Append(inbox[p], Bye) \in Seq(Messages \cup {Bye})
    OBVIOUS
  <2>2. QED BY <1>3, <1>4, <2>1 DEF ServerBye
<1>5. CASE ServerLost(p)
  <2>1. <<>> \in Seq(Messages \cup {Bye})
    OBVIOUS
  <2>2. QED BY <1>3, <1>5, <2>1 DEF ServerLost
<1> QED BY <1>1, <1>2, <1>4, <1>5 DEF ServerStep

\* Apart from a pop, pull threads and carriers leave queues, push threads and servers alone.
LEMMA PullFrame ==
  /\ \A q \in Pullers : PullStep(q) => UNCHANGED <<pushVars, connVars, tested>>
  /\ \A q \in Pullers : PullStep(q) /\ ~PullPop(q) => UNCHANGED <<queue, taken>>
  /\ Carrier => UNCHANGED <<pool, queue, pushVars, connVars, pull, ppc, taken, tested>>
  BY DEF PullStep, PullFind, PullCreate, PullAsk, PullPop, PullEmpty, PullExit, Carrier,
     CarrierDown, CarrierUp

\* A step of a pull thread keeps the types.
LEMMA TypeInvPull ==
  ASSUME TypeInv, NEW q \in Pullers, PullStep(q)
  PROVE  TypeInv'
<1> USE DEF TypeInv, TypeOK, LocalsOK, pushVars, connVars, pullVars
<1>1. ASSUME NEW g \in Gateways, PullFind(q, g) PROVE TypeInv'
  BY <1>1 DEF PullFind
<1>2. CASE PullPop(q)
  <2>1. pull[q] \in Gateways
    BY <1>2 DEF PullPop
  <2>2. Tail(queue[pull[q]]) \in Seq(Messages \cup Tests)
    BY <1>2, <2>1 DEF PullPop
  <2>3. queue' \in [Gateways -> Seq(Messages \cup Tests)]
    BY <1>2, <2>2 DEF PullPop
  <2>4. taken' \in [Messages \cup Tests -> Nat]
    BY <1>2 DEF PullPop
  <2>5. QED BY <1>2, <2>3, <2>4 DEF PullPop
<1>3. CASE PullExit(q)
  BY <1>3 DEF PullExit
<1>4. CASE PullCreate(q)
  BY <1>4 DEF PullCreate
<1>5. CASE PullAsk(q)
  BY <1>5 DEF PullAsk
<1>6. CASE PullEmpty(q)
  BY <1>6 DEF PullEmpty
<1> QED BY <1>1, <1>2, <1>3, <1>4, <1>5, <1>6 DEF PullStep

\* Every step keeps the types and the locals in order.
LEMMA TypeInvStep == TypeInv /\ [Next]_vars => TypeInv'
<1> SUFFICES ASSUME TypeInv, [Next]_vars PROVE TypeInv'
  OBVIOUS
<1>1. ASSUME NEW p \in Pushers, NEW chans \in Routes, PushConnect(p, chans)
      PROVE  TypeInv'
  BY <1>1 DEF PushConnect, TypeInv, TypeOK, LocalsOK, pullVars
<1>2. ASSUME NEW t \in Tests, TestPush(t) PROVE TypeInv'
  <2> USE DEF TestPush, TypeInv, TypeOK, LocalsOK, pushVars, connVars, pullVars
  <2>1. \A g \in Gateways : Append(queue[g], t) \in Seq(Messages \cup Tests)
    OBVIOUS
  <2>2. queue' \in [Gateways -> Seq(Messages \cup Tests)]
    BY <1>2, <2>1
  <2>3. QED BY <1>2, <2>2
<1>3. CASE UNCHANGED vars
  BY <1>3 DEF vars, TypeInv, TypeOK, LocalsOK, pushVars, connVars, pullVars
<1>4. CASE Carrier
  BY <1>4 DEF Carrier, CarrierDown, CarrierUp, TypeInv, TypeOK, LocalsOK, pushVars, connVars
<1> QED BY <1>1, <1>2, <1>3, <1>4, TypeInvPush, TypeInvServer, TypeInvPull DEF Next

\* The types and the locals of threads and servers are in order in every state,
\* for every set of gateways, threads and messages: in particular a thread about
\* to push (scheduler.c:494) stands on a channel of its list.
THEOREM SchedulerTyped == Spec => []TypeInv
  BY TypeInvInit, TypeInvStep, PTL DEF Spec

\* So the type invariant holds in every state (scheduler.c:348-671).
THEOREM TypesKept == Spec => []TypeOK
  BY SchedulerTyped, PTL DEF TypeInv

-----------------------------------------------------------------------------
(* The bound on the queues *)

\* The strengthening that makes QueueBound inductive: places already promised
\* to threads between the length test and the push count as taken.
BoundInv ==
  /\ IsFiniteSet(tested)
  /\ \A g \in Gateways :
       Len(queue[g]) + Cardinality(Committed(g))
         <= Limit + (Cardinality(Pushers) - 1) + Cardinality(tested)

\* Cardinalities that occur in the bound.
LEMMA Counts ==
  /\ Cardinality(Pushers) \in Nat
  /\ \A S \in SUBSET Pushers :
       IsFiniteSet(S) /\ Cardinality(S) \in Nat /\ Cardinality(S) <= Cardinality(Pushers)
<1>1. Cardinality(Pushers) \in Nat
  BY FS_CardinalityType
<1>2. ASSUME NEW S \in SUBSET Pushers
      PROVE  IsFiniteSet(S) /\ Cardinality(S) \in Nat /\ Cardinality(S) <= Cardinality(Pushers)
  BY FS_Subset, FS_CardinalityType
<1> QED BY <1>1, <1>2

\* A step that leaves the queues, the test messages and the committed threads
\* alone keeps the bound.
LEMMA BoundFrame ==
  ASSUME BoundInv, queue' = queue, tested' = tested,
         \A g \in Gateways : Committed(g)' = Committed(g)
  PROVE  BoundInv'
  BY DEF BoundInv

\* Initially every queue is empty and a thread exists.
LEMMA BoundInit == Init => BoundInv
<1> SUFFICES ASSUME Init PROVE BoundInv
  OBVIOUS
<1>1. tested = {} /\ IsFiniteSet(tested) /\ Cardinality(tested) = 0
  BY FS_EmptySet DEF Init
<1>2. ASSUME NEW g \in Gateways
      PROVE  Len(queue[g]) = 0 /\ Committed(g) = {} /\ Cardinality(Committed(g)) = 0
  BY FS_EmptySet DEF Init, Committed
<1>3. Cardinality(Pushers) \in Nat
  BY Counts
<1> QED BY <1>1, <1>2, <1>3 DEF BoundInv

\* A step of a push thread keeps the bound: whoever commits itself saw a free
\* place, and a push turns a committed place into a used one.
LEMMA BoundPush ==
  ASSUME TypeInv, BoundInv, NEW p \in Pushers, PushStep(p)
  PROVE  BoundInv'
<1> USE DEF TypeInv, TypeOK, LocalsOK
<1>1. CASE PushRecv(p) \/ PushSkip(p) \/ PushEnd(p) \/ PushReply(p) \/ PushExit(p)
  <2>1. queue' = queue /\ tested' = tested
    BY <1>1 DEF PushRecv, PushSkip, PushEnd, PushReply, PushExit
  <2>2. \A r \in Pushers : pc'[r] = "push" <=> pc[r] = "push"
    BY <1>1 DEF PushRecv, PushSkip, PushEnd, PushReply, PushExit
  <2>3. \A r \in Pushers : pc[r] = "push" =>
           channels'[r] = channels[r] /\ at'[r] = at[r]
    BY <1>1 DEF PushRecv, PushSkip, PushEnd, PushReply, PushExit
  <2>4. \A g \in Gateways : Committed(g)' = Committed(g)
    BY <2>2, <2>3 DEF Committed, Chan
  <2>5. QED BY <2>1, <2>4, BoundFrame
<1>2. CASE PushSelect(p)
  <2>0. PICK h \in Gateways : h = Chan(p).id
    BY <1>2 DEF PushSelect, HasRoom
  <2>1. queue' = queue /\ tested' = tested /\ Len(queue[h]) < Limit
    BY <1>2, <2>0 DEF PushSelect, HasRoom
  <2>2. \A g \in Gateways : g # h => Committed(g)' = Committed(g)
    BY <1>2, <2>0 DEF PushSelect, Committed, Chan
  <2>3. Committed(h)' \in SUBSET Pushers
    BY DEF Committed
  <2>4. ASSUME NEW g \in Gateways
        PROVE  Len(queue'[g]) + Cardinality(Committed(g)')
                 <= Limit + (Cardinality(Pushers) - 1) + Cardinality(tested')
    <3>1. CASE g # h
      BY <2>1, <2>2, <3>1 DEF BoundInv
    <3>2. CASE g = h
      <4>1. Cardinality(Committed(g)') <= Cardinality(Pushers)
            /\ Cardinality(Committed(g)') \in Nat
        BY <2>3, <3>2, Counts
      <4>2. Len(queue[g]) \in Nat /\ Cardinality(tested) \in Nat /\ Cardinality(Pushers) \in Nat
        BY FS_CardinalityType, Counts DEF BoundInv
      <4>3. QED BY <2>1, <3>2, <4>1, <4>2
    <3>3. QED BY <3>1, <3>2
  <2>5. QED BY <2>1, <2>4 DEF BoundInv
<1>3. CASE PushQueue(p)
  <2>0. Chan(p) \in Channel
    BY <1>3 DEF PushQueue, Chan
  <2>1. PICK h \in Gateways : h = Chan(p).id
    BY <2>0 DEF Channel
  <2>2. tested' = tested /\ queue' = [queue EXCEPT ![h] = Append(queue[h], cur[p])]
    BY <1>3, <2>1 DEF PushQueue
  <2>3. Len(queue'[h]) = Len(queue[h]) + 1
    BY <2>1, <2>2
  <2>4. \A g \in Gateways : g # h => queue'[g] = queue[g] /\ Committed(g)' = Committed(g)
    BY <1>3, <2>1, <2>2 DEF PushQueue, Committed, Chan
  <2>5. p \in Committed(h) /\ Committed(h)' = Committed(h) \ {p}
    BY <1>3, <2>1 DEF PushQueue, Committed, Chan
  <2>6. IsFiniteSet(Committed(h)) /\ Cardinality(Committed(h)) \in Nat
    BY Counts DEF Committed
  <2>7. Cardinality(Committed(h)') = Cardinality(Committed(h)) - 1
    BY <2>5, <2>6, FS_RemoveElement
  <2>8. Len(queue[h]) \in Nat
    BY <2>1
  <2>9. ASSUME NEW g \in Gateways
        PROVE  Len(queue'[g]) + Cardinality(Committed(g)')
                 <= Limit + (Cardinality(Pushers) - 1) + Cardinality(tested')
    <3>1. CASE g # h
      BY <2>2, <2>4, <3>1 DEF BoundInv
    <3>2. CASE g = h
      <4>1. Len(queue'[h]) + Cardinality(Committed(h)')
               = Len(queue[h]) + Cardinality(Committed(h))
        BY <2>3, <2>6, <2>7, <2>8
      <4>2. QED BY <2>1, <2>2, <3>2, <4>1 DEF BoundInv
    <3>3. QED BY <3>1, <3>2
  <2>10. QED BY <2>2, <2>9 DEF BoundInv
<1> QED BY <1>1, <1>2, <1>3 DEF PushStep

\* Every step keeps the bound: a pop or an exit only makes room, a test message
\* (scheduler.c:317-320) uses the place that it adds to the bound.
LEMMA BoundStep == TypeInv /\ BoundInv /\ [Next]_vars => BoundInv'
<1> SUFFICES ASSUME TypeInv, BoundInv, [Next]_vars PROVE BoundInv'
  OBVIOUS
<1> USE DEF TypeInv, TypeOK
<1>1. ASSUME NEW p \in Pushers, NEW chans \in Routes, PushConnect(p, chans)
      PROVE  BoundInv'
  <2>1. \A g \in Gateways : Committed(g)' = Committed(g)
    BY <1>1 DEF PushConnect, Committed, Chan
  <2>2. QED BY <1>1, <2>1, BoundFrame DEF PushConnect
<1>2. ASSUME NEW p \in Pushers, ServerStep(p) PROVE BoundInv'
  <2>1. UNCHANGED <<queue, tested, pc, channels, at>>
    BY <1>2 DEF ServerStep, ServerSubmit, ServerRetry, ServerBye, ServerLost,
                ServerClose, pushVars
  <2>2. \A g \in Gateways : Committed(g)' = Committed(g)
    BY <2>1 DEF Committed, Chan
  <2>3. QED BY <2>1, <2>2, BoundFrame
<1>3. ASSUME NEW q \in Pullers, PullStep(q), ~PullPop(q) PROVE BoundInv'
  BY <1>3, BoundFrame, PullFrame DEF pushVars, Committed, Chan
<1>4. CASE Carrier
  BY <1>4, BoundFrame, PullFrame DEF pushVars, Committed, Chan
<1>5. ASSUME NEW q \in Pullers, PullPop(q) PROVE BoundInv'
  <2>1. tested' = tested /\ \A g \in Gateways : Committed(g)' = Committed(g)
    BY <1>5 DEF PullPop, pushVars, Committed, Chan
  <2>2. pull[q] \in Gateways /\ queue[pull[q]] # <<>>
    BY <1>5 DEF PullPop
  <2>3. \A g \in Gateways : Len(queue'[g]) <= Len(queue[g]) /\ Len(queue'[g]) \in Nat
    BY <1>5, <2>2 DEF PullPop
  <2>4. \A g \in Gateways : Committed(g) \in SUBSET Pushers
    BY DEF Committed
  <2>5. /\ \A g \in Gateways : Cardinality(Committed(g)) \in Nat /\ Len(queue[g]) \in Nat
        /\ Cardinality(Pushers) \in Nat
        /\ Cardinality(tested) \in Nat
    BY <2>4, Counts, FS_CardinalityType DEF BoundInv
  <2>6. QED BY <2>1, <2>3, <2>5 DEF BoundInv
<1>6. ASSUME NEW t \in Tests, TestPush(t) PROVE BoundInv'
  <2>1. \A g \in Gateways : Committed(g)' = Committed(g)
    BY <1>6 DEF TestPush, pushVars, Committed, Chan
  <2>2. IsFiniteSet(tested') /\ Cardinality(tested') = Cardinality(tested) + 1
    BY <1>6, FS_AddElement DEF TestPush, BoundInv
  <2>3. \A g \in Gateways : Len(queue'[g]) <= Len(queue[g]) + 1 /\ Len(queue'[g]) \in Nat
    BY <1>6 DEF TestPush
  <2>4. \A g \in Gateways : Committed(g) \in SUBSET Pushers
    BY DEF Committed
  <2>5. /\ \A g \in Gateways : Cardinality(Committed(g)) \in Nat /\ Len(queue[g]) \in Nat
        /\ Cardinality(Pushers) \in Nat
        /\ Cardinality(tested) \in Nat
    BY <2>4, Counts, FS_CardinalityType DEF BoundInv
  <2>6. ASSUME NEW g \in Gateways
        PROVE  Len(queue'[g]) + Cardinality(Committed(g)')
                 <= Limit + (Cardinality(Pushers) - 1) + Cardinality(tested')
    <3>1. Len(queue[g]) + Cardinality(Committed(g))
            <= Limit + (Cardinality(Pushers) - 1) + Cardinality(tested)
      BY DEF BoundInv
    <3>2. Cardinality(Committed(g)') = Cardinality(Committed(g))
      BY <2>1
    <3>3. /\ Len(queue'[g]) <= Len(queue[g]) + 1
          /\ Len(queue'[g]) \in Nat /\ Len(queue[g]) \in Nat
          /\ Cardinality(Committed(g)) \in Nat
          /\ Cardinality(Pushers) \in Nat /\ Cardinality(tested) \in Nat
      BY <2>3, <2>5
    <3>4. Len(queue'[g]) + Cardinality(Committed(g))
            <= Limit + (Cardinality(Pushers) - 1) + (Cardinality(tested) + 1)
      <4> HIDE DEF TypeInv, TypeOK
      <4>1. QED BY ONLY SchedulerAssumption, <3>1, <3>3, SMTT(30)
    <3>5. QED BY ONLY <2>2, <3>2, <3>4
  <2>7. QED BY <2>2, <2>6 DEF BoundInv
<1>7. CASE UNCHANGED vars
  BY <1>7, BoundFrame DEF vars, pushVars, Committed, Chan
<1> QED
  BY <1>1, <1>2, <1>3, <1>4, <1>5, <1>6, <1>7, BoundPush DEF Next

\* For every number of push threads, gateways and messages and every limit, the
\* unlocked length test of scheduler.c:492 lets a queue exceed the limit by at
\* most the other push threads and the test messages.
THEOREM QueuesBounded == Spec => []QueueBound
<1>1. BoundInv /\ TypeInv => QueueBound
  <2> SUFFICES ASSUME BoundInv, TypeInv, NEW g \in Gateways
               PROVE  Len(queue[g]) <= Limit + (Cardinality(Pushers) - 1) + Cardinality(tested)
    BY DEF QueueBound
  <2>1. Committed(g) \in SUBSET Pushers
    BY DEF Committed
  <2>2. /\ Cardinality(Committed(g)) \in Nat /\ Cardinality(Pushers) \in Nat
        /\ Cardinality(tested) \in Nat /\ Len(queue[g]) \in Nat
    BY <2>1, Counts, FS_CardinalityType DEF BoundInv, TypeInv, TypeOK
  <2>3. QED BY <2>2 DEF BoundInv
<1> QED BY <1>1, BoundInit, BoundStep, SchedulerTyped, PTL DEF Spec

-----------------------------------------------------------------------------
(* The answers *)

\* What the booleans of thread p say while it iterates: they summarise the
\* channels before the iterator.
ScanOK(p) ==
  /\ pc[p] = "scan" =>
       /\ at[p] <= Len(channels[p]) + 1
       /\ "completed" \notin flags[p]
       /\ "available" \in flags[p] <=> at[p] > 1
       /\ "operator" \in flags[p] <=>
            \E k \in 1 .. at[p] - 1 : CheckOperator(channels[p][k], cur[p])
       /\ "province" \in flags[p] <=>
            \E k \in 1 .. at[p] - 1 : Eligible(channels[p][k], cur[p])
  /\ pc[p] = "push" => at[p] \in Fit(p)
  /\ pc[p] = "reply" =>
       \/ "completed" \in flags[p] /\ at[p] \in Fit(p)
       \/ /\ at[p] = Len(channels[p]) + 1
          /\ "completed" \notin flags[p]
          /\ "available" \in flags[p] <=> channels[p] # <<>>
          /\ "province" \in flags[p] <=> Fit(p) # {}
          /\ "operator" \in flags[p] <=> "province" \in flags[p]

ScanInv == \A p \in Pushers : ScanOK(p)

\* A thread whose locals do not change keeps its part of the invariant.
LEMMA ScanFrame ==
  ASSUME NEW p \in Pushers, ScanOK(p),
         pc'[p] = pc[p], flags'[p] = flags[p], at'[p] = at[p],
         cur'[p] = cur[p], channels'[p] = channels[p]
  PROVE  ScanOK(p)'
  BY DEF ScanOK, Fit, Eligible, CheckOperator, CheckProvince

\* The thread's own steps keep it.
LEMMA ScanPush ==
  ASSUME TypeInv, NEW p \in Pushers, ScanOK(p), PushStep(p)
  PROVE  ScanOK(p)'
<1> USE DEF TypeInv, TypeOK, LocalsOK
<1>1. CASE PushRecv(p)
  BY <1>1 DEF PushRecv, ScanOK
<1>2. CASE PushSelect(p)
  BY <1>2 DEF PushSelect, ScanOK, Fit, Chan
<1>3. CASE PushSkip(p)
  <2> DEFINE f == FlagsOf(Chan(p), cur[p])
  <2>1. /\ pc'[p] = "scan" /\ at'[p] = at[p] + 1 /\ flags'[p] = flags[p] \cup f
        /\ channels' = channels /\ cur' = cur
        /\ pc[p] = "scan" /\ at[p] <= Len(channels[p])
    BY <1>3 DEF PushSkip
  <2>2. /\ "completed" \notin f /\ "available" \in f
        /\ "operator" \in f <=> CheckOperator(channels[p][at[p]], cur[p])
        /\ "province" \in f <=> Eligible(channels[p][at[p]], cur[p])
    BY DEF FlagsOf, Chan
  <2> HIDE DEF f
  <2>3. at[p] \in Nat /\ at[p] >= 1 /\ Len(channels[p]) \in Nat
    OBVIOUS
  <2>4. \A k : k \in 1 .. at'[p] - 1 <=> k \in 1 .. at[p] - 1 \/ k = at[p]
    BY <2>1, <2>3
  <2>5. "operator" \in flags'[p] <=>
          \E k \in 1 .. at'[p] - 1 : CheckOperator(channels'[p][k], cur'[p])
    BY <2>1, <2>2, <2>4 DEF ScanOK
  <2>6. "province" \in flags'[p] <=>
          \E k \in 1 .. at'[p] - 1 : Eligible(channels'[p][k], cur'[p])
    BY <2>1, <2>2, <2>4 DEF ScanOK
  <2>7. /\ at'[p] <= Len(channels'[p]) + 1
        /\ "completed" \notin flags'[p]
        /\ "available" \in flags'[p] <=> at'[p] > 1
    BY <2>1, <2>2, <2>3 DEF ScanOK
  <2>8. QED BY <2>1, <2>5, <2>6, <2>7 DEF ScanOK, CheckOperator, Eligible, CheckProvince
<1>4. CASE PushEnd(p)
  <2>1. /\ pc'[p] = "reply" /\ pc[p] = "scan"
        /\ UNCHANGED <<channels, cur, at, flags>>
        /\ at[p] > Len(channels[p])
    BY <1>4 DEF PushEnd
  <2>2. at[p] \in Nat /\ at[p] >= 1 /\ Len(channels[p]) \in Nat
        /\ DOMAIN channels[p] = 1 .. Len(channels[p])
        /\ (channels[p] # <<>> <=> Len(channels[p]) > 0)
    OBVIOUS
  <2>3. at[p] = Len(channels[p]) + 1
    BY <2>1, <2>2 DEF ScanOK
  <2>4. 1 .. at[p] - 1 = DOMAIN channels[p]
    BY <2>2, <2>3
  <2>5. "province" \in flags[p] <=> Fit(p) # {}
    BY <2>1, <2>4 DEF ScanOK, Fit
  <2>6. "operator" \in flags[p] <=> "province" \in flags[p]
    BY <2>1, <2>4 DEF ScanOK, Eligible, CheckProvince
  <2>7. "available" \in flags[p] <=> channels[p] # <<>>
    BY <2>1, <2>2, <2>3 DEF ScanOK
  <2>8. "completed" \notin flags[p]
    BY <2>1 DEF ScanOK
  <2>9. Fit(p)' = Fit(p)
    BY <2>1 DEF Fit, Eligible, CheckOperator, CheckProvince
  <2>10. QED BY <2>1, <2>3, <2>5, <2>6, <2>7, <2>8, <2>9 DEF ScanOK
<1>5. CASE PushQueue(p)
  <2>1. /\ pc'[p] = "reply" /\ pc[p] = "push" /\ "completed" \in flags'[p]
        /\ UNCHANGED <<channels, cur, at>>
    BY <1>5 DEF PushQueue
  <2>2. Fit(p)' = Fit(p)
    BY <2>1 DEF Fit, Eligible, CheckOperator, CheckProvince
  <2>3. QED BY <2>1, <2>2 DEF ScanOK
<1>6. CASE PushReply(p)
  BY <1>6 DEF PushReply, ScanOK
<1>7. CASE PushExit(p)
  BY <1>7 DEF PushExit, ScanOK
<1> QED BY <1>1, <1>2, <1>3, <1>4, <1>5, <1>6, <1>7 DEF PushStep

\* Every step keeps what the booleans say: the other threads, the servers and the
\* gateways do not touch a thread's locals (scheduler.c:470-500).
LEMMA ScanStep == TypeInv /\ ScanInv /\ [Next]_vars => ScanInv'
<1> SUFFICES ASSUME TypeInv, ScanInv, [Next]_vars, NEW r \in Pushers
             PROVE  ScanOK(r)'
  BY DEF ScanInv
<1>0. ScanOK(r)
  BY DEF ScanInv
<1> USE DEF TypeInv, TypeOK
<1>1. ASSUME NEW p \in Pushers, NEW chans \in Routes, PushConnect(p, chans)
      PROVE  ScanOK(r)'
  <2>1. CASE r = p
    BY <1>1, <2>1 DEF PushConnect, ScanOK
  <2>2. CASE r # p
    BY <1>0, <1>1, <2>2, ScanFrame DEF PushConnect
  <2>3. QED BY <2>1, <2>2
<1>2. ASSUME NEW p \in Pushers, PushStep(p) PROVE ScanOK(r)'
  <2>1. CASE r = p
    BY <1>0, <1>2, <2>1, ScanPush
  <2>2. CASE r # p
    <3>1. /\ pc'[r] = pc[r] /\ flags'[r] = flags[r] /\ at'[r] = at[r]
          /\ cur'[r] = cur[r] /\ channels'[r] = channels[r]
      BY <1>2, <2>2 DEF PushStep, PushRecv, PushSelect, PushSkip, PushEnd,
                        PushQueue, PushReply, PushExit
    <3>2. QED BY <1>0, <3>1, ScanFrame
  <2>3. QED BY <2>1, <2>2
<1>3. ASSUME UNCHANGED pushVars PROVE ScanOK(r)'
  BY <1>0, <1>3, ScanFrame DEF pushVars
<1>4. ASSUME NEW p \in Pushers, ServerStep(p) PROVE ScanOK(r)'
  BY <1>3, <1>4 DEF ServerStep, ServerSubmit, ServerRetry, ServerBye, ServerLost,
                    ServerClose
<1>5. ASSUME NEW q \in Pullers, PullStep(q) PROVE ScanOK(r)'
  BY <1>3, <1>5, PullFrame
<1>6. ASSUME NEW t \in Tests, TestPush(t) PROVE ScanOK(r)'
  BY <1>3, <1>6 DEF TestPush
<1>7. CASE UNCHANGED vars
  BY <1>3, <1>7 DEF vars
<1>8. CASE Carrier
  BY <1>3, <1>8, PullFrame
<1> QED BY <1>1, <1>2, <1>4, <1>5, <1>6, <1>7, <1>8 DEF Next

\* Whatever the channel lists, the operators and the interleaving, the answer
\* of scheduler.c:504-514 is the one the channel list calls for.
THEOREM AnswersJustified == Spec => []AnswerJustified
<1>1. Init => ScanInv
  BY DEF Init, ScanInv, ScanOK
<1>2. TypeInv /\ ScanInv => AnswerJustified
  <2> SUFFICES ASSUME TypeInv, ScanInv, NEW p \in Pushers, pc[p] = "reply"
               PROVE  LET a == AnswerOf(flags[p]) IN
                      /\ a = "NOROUTE" <=> channels[p] = <<>>
                      /\ a = "REJECT" <=> channels[p] # <<>> /\ Fit(p) = {}
                      /\ a = "OK" => at[p] \in Fit(p)
                      /\ a = "BUSY" => Fit(p) # {} /\ at[p] > Len(channels[p])
    BY DEF AnswerJustified
  <2>1. channels[p] = <<>> => Fit(p) = {}
    BY DEF Fit
  <2>2. Len(channels[p]) \in Nat /\ at[p] \in Nat
    BY DEF TypeInv, TypeOK
  <2>3. CASE "completed" \in flags[p]
    BY <2>1, <2>3 DEF ScanInv, ScanOK, AnswerOf
  <2>4. CASE "completed" \notin flags[p]
    BY <2>1, <2>2, <2>4 DEF ScanInv, ScanOK, AnswerOf
  <2>5. QED BY <2>3, <2>4
<1> QED BY <1>1, <1>2, ScanStep, SchedulerTyped, PTL DEF Spec

-----------------------------------------------------------------------------
(* Where messages are queued *)

\* Appending puts one element behind the others.
LEMMA Grown ==
  ASSUME NEW S, NEW s \in Seq(S), NEW e \in S
  PROVE  /\ Append(s, e) \in Seq(S) /\ Len(s) \in Nat
         /\ DOMAIN s = 1 .. Len(s) /\ DOMAIN Append(s, e) = 1 .. Len(s) + 1
         /\ \A k \in DOMAIN s : Append(s, e)[k] = s[k]
         /\ Append(s, e)[Len(s) + 1] = e
  BY AppendProperties, LenProperties

\* Taking the head moves the others one place forward.
LEMMA Shrunk ==
  ASSUME NEW S, NEW s \in Seq(S), s # <<>>
  PROVE  /\ Tail(s) \in Seq(S) /\ Len(s) \in Nat \ {0} /\ 1 \in DOMAIN s
         /\ Head(s) = s[1] /\ Head(s) \in S
         /\ DOMAIN s = 1 .. Len(s) /\ DOMAIN Tail(s) = 1 .. Len(s) - 1
         /\ \A k \in DOMAIN Tail(s) : k + 1 \in DOMAIN s /\ Tail(s)[k] = s[k + 1]
  BY HeadTailProperties, LenProperties

\* The queue of g may hold m.
Allowed(g, m) ==
  \/ m \in Tests /\ TestChannel[m] = g
  \/ /\ m \in Messages
     /\ \E r \in Routes : \E j \in DOMAIN r : r[j].id = g /\ Eligible(r[j], m)

\* A connected thread has a channel list of the database.
RouteInv == \A p \in Pushers : pc[p] # "free" => channels[p] \in Routes

AllowedInv == \A g \in Gateways : \A k \in DOMAIN queue[g] : Allowed(g, queue[g][k])

WhereInv == RouteInv /\ AllowedInv

\* Every step keeps it: a thread pushes on the channel it has found to fit.
LEMMA WhereStep == TypeInv /\ ScanInv /\ WhereInv /\ [Next]_vars => WhereInv'
<1> SUFFICES ASSUME TypeInv, ScanInv, WhereInv, [Next]_vars PROVE WhereInv'
  OBVIOUS
<1> USE DEF pushVars, connVars, pullVars
<1>0. /\ RouteInv /\ AllowedInv /\ queue \in [Gateways -> Seq(Messages \cup Tests)]
      /\ \A q \in Pullers : ppc[q] = "asked" => pull[q] \in Gateways
      /\ channels \in [Pushers -> Seq(Channel)]
      /\ pc \in [Pushers -> {"free", "recv", "scan", "push", "reply"}]
  BY DEF WhereInv, TypeInv, TypeOK
<1>1. ASSUME queue' = queue PROVE AllowedInv'
  BY <1>0, <1>1 DEF AllowedInv, Allowed, Eligible, CheckOperator, CheckProvince
<1>2. ASSUME NEW h \in Gateways, NEW e \in Messages \cup Tests, Allowed(h, e),
             queue' = [queue EXCEPT ![h] = Append(@, e)]
      PROVE  AllowedInv'
  <2> SUFFICES ASSUME NEW g \in Gateways, NEW k \in DOMAIN queue'[g]
               PROVE  Allowed(g, queue'[g][k])
    BY DEF AllowedInv, Allowed, Eligible, CheckOperator, CheckProvince
  <2>1. CASE g # h
    BY <1>0, <1>2, <2>1 DEF AllowedInv
  <2>2. CASE g = h
    <3>1. queue'[h] = Append(queue[h], e) /\ queue[h] \in Seq(Messages \cup Tests)
      BY <1>0, <1>2
    <3>2. \/ k \in DOMAIN queue[h] /\ queue'[h][k] = queue[h][k]
          \/ queue'[h][k] = e
      BY <2>2, <3>1, Grown
    <3> QED BY <1>0, <1>2, <2>2, <3>2 DEF AllowedInv
  <2> QED BY <2>1, <2>2
<1>3. ASSUME NEW p \in Pushers, NEW chans \in Routes, PushConnect(p, chans) PROVE WhereInv'
  BY <1>0, <1>1, <1>3 DEF PushConnect, WhereInv, RouteInv
<1>4. ASSUME NEW p \in Pushers, PushStep(p) PROVE WhereInv'
  <2>1. RouteInv'
    BY <1>0, <1>4 DEF RouteInv, PushStep, PushRecv, PushSelect, PushSkip, PushEnd, PushQueue,
       PushReply, PushExit
  <2>2. CASE PushQueue(p)
    <3>1. /\ pc[p] = "push" /\ cur[p] \in Messages
          /\ queue' = [queue EXCEPT ![Chan(p).id] = Append(@, cur[p])]
      BY <2>2 DEF PushQueue, TypeInv, LocalsOK
    <3>2. at[p] \in Fit(p)
      BY <3>1 DEF ScanInv, ScanOK
    <3>3. at[p] \in DOMAIN channels[p] /\ Eligible(Chan(p), cur[p]) /\ channels[p] \in Routes
      BY <1>0, <3>1, <3>2 DEF Fit, Chan, RouteInv
    <3>4. Chan(p).id \in Gateways
      <4>1. channels[p] \in Seq(Channel)
        BY <1>0
      <4>2. Chan(p) \in Channel
        BY <3>3, <4>1, ElementOfSeq DEF Chan
      <4> QED BY <4>2 DEF Channel
    <3>5. Allowed(Chan(p).id, cur[p])
      BY <3>1, <3>3 DEF Allowed, Chan
    <3> QED BY <1>2, <2>1, <3>1, <3>4, <3>5 DEF WhereInv
  <2>3. CASE ~PushQueue(p)
    BY <1>1, <1>4, <2>1, <2>3 DEF WhereInv, PushStep, PushRecv, PushSelect, PushSkip, PushEnd,
       PushReply, PushExit
  <2> QED BY <2>2, <2>3
<1>5. ASSUME UNCHANGED pushVars PROVE RouteInv'
  BY <1>0, <1>5 DEF RouteInv
<1>6. ASSUME NEW p \in Pushers, ServerStep(p) PROVE WhereInv'
  BY <1>1, <1>5, <1>6 DEF WhereInv, ServerStep, ServerSubmit, ServerRetry, ServerBye, ServerLost,
     ServerClose
<1>7. ASSUME NEW q \in Pullers, PullStep(q) PROVE WhereInv'
  <2>1. RouteInv'
    BY <1>5, <1>7, PullFrame
  <2>2. CASE PullPop(q)
    <3> DEFINE h == pull[q]
    <3>1. h \in Gateways /\ queue[h] # <<>> /\ queue' = [queue EXCEPT ![h] = Tail(@)]
      BY <1>0, <2>2 DEF PullPop
    <3> HIDE DEF h
    <3> SUFFICES ASSUME NEW g \in Gateways, NEW k \in DOMAIN queue'[g]
                 PROVE  Allowed(g, queue'[g][k])
      BY <2>1 DEF WhereInv, AllowedInv, Allowed, Eligible, CheckOperator, CheckProvince
    <3>2. CASE g # h
      BY <1>0, <3>1, <3>2 DEF AllowedInv
    <3>3. CASE g = h
      <4>1. queue'[h] = Tail(queue[h]) /\ queue[h] \in Seq(Messages \cup Tests)
        BY <1>0, <3>1
      <4>2. \A i \in DOMAIN Tail(queue[h]) :
              i + 1 \in DOMAIN queue[h] /\ Tail(queue[h])[i] = queue[h][i + 1]
        BY <3>1, <4>1, Shrunk
      <4>3. k + 1 \in DOMAIN queue[h] /\ queue'[h][k] = queue[h][k + 1]
        BY <3>3, <4>1, <4>2
      <4> QED BY <1>0, <3>3, <4>3 DEF AllowedInv
    <3> QED BY <3>2, <3>3
  <2>3. CASE ~PullPop(q)
    BY <1>1, <1>7, <2>1, <2>3, PullFrame DEF WhereInv
  <2> QED BY <2>2, <2>3
<1>8. ASSUME NEW t \in Tests, TestPush(t) PROVE WhereInv'
  <2>1. TestChannel[t] \in Gateways /\ Allowed(TestChannel[t], t)
    BY DEF Allowed
  <2> QED BY <1>2, <1>5, <1>8, <2>1 DEF TestPush, WhereInv
<1>9. CASE UNCHANGED vars
  BY <1>1, <1>5, <1>9 DEF vars, WhereInv
<1>10. CASE Carrier
  BY <1>1, <1>5, <1>10, PullFrame DEF WhereInv
<1> QED BY <1>3, <1>4, <1>6, <1>7, <1>8, <1>9, <1>10 DEF Next

\* No queue holds a message that no route of any account leads to its gateway, and
\* a test message is only where it belongs (scheduler.c:483-494, 317-320), for
\* every set of routes, numbers and gateways.
THEOREM QueuedOnlyWhereAllowed == Spec => []QueuedWhereAllowed
<1>1. Init => WhereInv
  BY DEF Init, WhereInv, RouteInv, AllowedInv
<1>2. WhereInv => QueuedWhereAllowed
  BY DEF WhereInv, AllowedInv, Allowed, QueuedWhereAllowed
<1>3. Init => ScanInv
  BY DEF Init, ScanInv, ScanOK
<1> QED BY <1>1, <1>2, <1>3, WhereStep, ScanStep, SchedulerTyped, PTL DEF Spec

-----------------------------------------------------------------------------
(* The conversation of a server and its push thread *)

\* What the sockets hold has at most two parts.
LEMMA Tuples ==
  ASSUME NEW a, NEW b
  PROVE  /\ <<a>> # <<>> /\ Head(<<a>>) = a /\ Tail(<<a>>) = <<>> /\ <<a>>[1] = a
         /\ <<a, b>> # <<>> /\ Head(<<a, b>>) = a /\ Tail(<<a, b>>) = <<b>> /\ <<a, b>>[1] = a
         /\ Append(<<>>, a) = <<a>> /\ Append(<<a>>, b) = <<a, b>>
<1>1. <<a>> # <<>> /\ Head(<<a>>) = a /\ <<a>>[1] = a
  OBVIOUS
<1>2. <<a, b>> # <<>> /\ Head(<<a, b>>) = a /\ <<a, b>>[1] = a
  OBVIOUS
<1>3. Tail(<<a>>) = <<>>
  OBVIOUS
<1>4. Tail(<<a, b>>) = <<b>>
  OBVIOUS
<1>5. Append(<<>>, a) = <<a>>
  OBVIOUS
<1>6. Append(<<a>>, b) = <<a, b>>
  <2> DEFINE s == Append(<<a>>, b)
             t == <<a, b>>
  <2>1. <<a>> \in Seq({a, b}) /\ Len(<<a>>) = 1 /\ t \in Seq({a, b}) /\ Len(t) = 2
    OBVIOUS
  <2>2. s \in Seq({a, b}) /\ Len(s) = 2 /\ s[1] = <<a>>[1] /\ s[2] = b
    BY <2>1, AppendProperties
  <2>3. \A i \in 1 .. Len(s) : s[i] = t[i]
    BY <2>2
  <2> HIDE DEF s, t
  <2>4. s = t
    BY <2>1, <2>2, <2>3, SeqEqual
  <2> QED BY <2>4 DEF s, t
<1> QED BY <1>1, <1>2, <1>3, <1>4, <1>5, <1>6

\* A server waits for the answer to the one message its push thread has, in the
\* socket or in hand.  After a cut the thread may still have what was left behind,
\* followed by the BYE.
ProtoOK(p) ==
  /\ pc[p] = "free" => conn[p] = "closed" /\ inbox[p] = <<>>
  /\ conn[p] \in {"idle", "busy"} => pc[p] = "recv" /\ inbox[p] = <<>>
  /\ conn[p] = "asked" =>
       \/ pc[p] = "recv" /\ inbox[p] = <<asking[p]>>
       \/ pc[p] \in {"scan", "push", "reply"} /\ cur[p] = asking[p] /\ inbox[p] = <<>>
  /\ conn[p] = "closed" =>
       \/ inbox[p] \in {<<>>, <<Bye>>}
       \/ pc[p] = "recv" /\ \E m \in Messages : inbox[p] = <<m, Bye>>
  /\ asking[p] # NoMessage <=> conn[p] \in {"asked", "busy"}

\* A message still to be scheduled has no final answer, and one server at most
\* asks for it.
OwnedInv ==
  /\ \A p, q \in Pushers : asking[p] = asking[q] /\ asking[p] # NoMessage => p = q
  /\ \A p \in Pushers : asking[p] \notin todo
  /\ \A m \in todo : answer[m] \in {"none", "BUSY"}
  /\ \A p \in Pushers : asking[p] # NoMessage => answer[asking[p]] \in {"none", "BUSY"}

ProtoInv == OwnedInv /\ \A p \in Pushers : ProtoOK(p)

\* Who is not touched keeps the protocol.
LEMMA ProtoFrame ==
  ASSUME NEW p \in Pushers, ProtoOK(p), pc'[p] = pc[p], conn'[p] = conn[p], inbox'[p] = inbox[p],
         asking'[p] = asking[p], cur'[p] = cur[p]
  PROVE  ProtoOK(p)'
  BY DEF ProtoOK

\* The push thread keeps the protocol.
LEMMA ProtoPush ==
  ASSUME TypeInv, NEW p \in Pushers, ProtoOK(p), PushStep(p)
  PROVE  ProtoOK(p)'
<1>0. /\ pc \in [Pushers -> {"free", "recv", "scan", "push", "reply"}]
      /\ cur \in [Pushers -> Messages \cup {NoMessage}]
      /\ inbox \in [Pushers -> Seq(Messages \cup {Bye})]
      /\ conn \in [Pushers -> {"closed", "idle", "asked", "busy"}]
      /\ asking \in [Pushers -> Messages \cup {NoMessage}]
  BY DEF TypeInv, TypeOK
<1>1. CASE PushRecv(p)
  <2>1. /\ pc[p] = "recv" /\ inbox[p] # <<>> /\ Head(inbox[p]) # Bye
        /\ pc'[p] = "scan" /\ inbox'[p] = Tail(inbox[p]) /\ cur'[p] = Head(inbox[p])
        /\ conn'[p] = conn[p] /\ asking'[p] = asking[p]
    BY <1>0, <1>1 DEF PushRecv
  <2>2. Head(<<Bye>>) = Bye
    BY Tuples
  <2>3. \/ conn[p] = "asked" /\ inbox[p] = <<asking[p]>>
        \/ conn[p] = "closed" /\ \E m \in Messages : inbox[p] = <<m, Bye>>
    BY <1>0, <2>1, <2>2 DEF ProtoOK
  <2>4. \/ conn[p] = "asked" /\ inbox'[p] = <<>> /\ cur'[p] = asking[p]
        \/ conn[p] = "closed" /\ inbox'[p] = <<Bye>>
    <3>1. Head(<<asking[p]>>) = asking[p] /\ Tail(<<asking[p]>>) = <<>>
      BY Tuples
    <3>2. \A m \in Messages : Tail(<<m, Bye>>) = <<Bye>>
      BY Tuples
    <3> QED BY <2>1, <2>3, <3>1, <3>2, Zenon
  <2> QED BY <2>1, <2>4 DEF ProtoOK
<1>2. CASE PushSelect(p) \/ PushSkip(p) \/ PushEnd(p) \/ PushQueue(p)
  <2>1. /\ pc[p] \in {"scan", "push"} /\ pc'[p] \in {"scan", "push", "reply"}
        /\ conn'[p] = conn[p] /\ inbox'[p] = inbox[p] /\ asking'[p] = asking[p]
        /\ cur'[p] = cur[p]
    BY <1>0, <1>2 DEF PushSelect, PushSkip, PushEnd, PushQueue, connVars
  <2> QED BY <2>1 DEF ProtoOK
<1>3. CASE PushReply(p)
  <2>1. pc[p] = "reply" /\ pc'[p] = "recv" /\ inbox'[p] = inbox[p]
    BY <1>0, <1>3 DEF PushReply
  <2>2. CASE conn[p] = "asked"
    <3>1. \/ conn'[p] = "busy" /\ asking'[p] = asking[p]
          \/ conn'[p] = "idle" /\ asking'[p] = NoMessage
      BY <1>0, <1>3, <2>2 DEF PushReply
    <3>2. inbox[p] = <<>> /\ asking[p] # NoMessage
      BY <2>1, <2>2 DEF ProtoOK
    <3> QED BY <2>1, <3>1, <3>2 DEF ProtoOK
  <2>3. CASE conn[p] # "asked"
    <3>1. conn'[p] = conn[p] /\ asking'[p] = asking[p]
      BY <1>3, <2>3 DEF PushReply
    <3>2. conn[p] = "closed"
      BY <1>0, <2>1, <2>3 DEF ProtoOK
    <3> QED BY <2>1, <3>1, <3>2 DEF ProtoOK
  <2> QED BY <2>2, <2>3
<1>4. CASE PushExit(p)
  <2>1. /\ pc[p] = "recv" /\ pc'[p] = "free" /\ inbox'[p] = <<>>
        /\ conn'[p] = conn[p] /\ asking'[p] = asking[p]
        /\ \/ inbox[p] # <<>> /\ Head(inbox[p]) = Bye
           \/ inbox[p] = <<>> /\ conn[p] = "closed"
    BY <1>0, <1>4 DEF PushExit
  <2>2. conn[p] # "asked"
    <3>1. conn[p] = "asked" => inbox[p] = <<asking[p]>> /\ asking[p] \in Messages
      BY <1>0, <2>1 DEF ProtoOK
    <3>2. conn[p] = "asked" => Head(inbox[p]) # Bye /\ inbox[p] # <<>>
      BY <3>1, Tuples
    <3> QED BY <2>1, <3>2
  <2>3. conn[p] = "closed"
    BY <1>0, <2>1, <2>2 DEF ProtoOK
  <2> QED BY <2>1, <2>3 DEF ProtoOK
<1> QED BY <1>1, <1>2, <1>3, <1>4 DEF PushStep

\* The server keeps the protocol.
LEMMA ProtoServer ==
  ASSUME TypeInv, NEW p \in Pushers, ProtoOK(p), ServerStep(p)
  PROVE  ProtoOK(p)'
<1>0. /\ inbox \in [Pushers -> Seq(Messages \cup {Bye})]
      /\ conn \in [Pushers -> {"closed", "idle", "asked", "busy"}]
      /\ asking \in [Pushers -> Messages \cup {NoMessage}]
      /\ pc'[p] = pc[p] /\ cur'[p] = cur[p]
  BY DEF TypeInv, TypeOK, ServerStep, ServerSubmit, ServerRetry, ServerBye, ServerLost, ServerClose,
     pushVars
<1>1. ASSUME NEW m \in Messages, ServerSubmit(p, m) PROVE ProtoOK(p)'
  <2>1. /\ conn[p] = "idle" /\ conn'[p] = "asked" /\ asking'[p] = m /\ m # NoMessage
        /\ inbox'[p] = Append(inbox[p], m)
    BY <1>0, <1>1 DEF ServerSubmit
  <2>2. pc[p] = "recv" /\ inbox'[p] = <<m>>
    BY <2>1, Tuples DEF ProtoOK
  <2> QED BY <1>0, <2>1, <2>2 DEF ProtoOK
<1>2. CASE ServerRetry(p)
  <2>1. /\ conn[p] = "busy" /\ conn'[p] = "asked" /\ asking'[p] = asking[p]
        /\ inbox'[p] = Append(inbox[p], asking[p])
    BY <1>0, <1>2 DEF ServerRetry
  <2>2. pc[p] = "recv" /\ inbox'[p] = <<asking[p]>> /\ asking[p] # NoMessage
    BY <2>1, Tuples DEF ProtoOK
  <2> QED BY <1>0, <2>1, <2>2 DEF ProtoOK
<1>3. ASSUME NEW rest, ServerClose(p, rest)
      PROVE  /\ conn[p] # "closed" /\ conn'[p] = "closed" /\ inbox'[p] = rest
             /\ asking'[p] = NoMessage
  BY <1>0, <1>3 DEF ServerClose
<1>4. CASE ServerBye(p)
  <2>1. /\ conn[p] # "closed" /\ conn'[p] = "closed" /\ inbox'[p] = Append(inbox[p], Bye)
        /\ asking'[p] = NoMessage
    BY <1>3, <1>4 DEF ServerBye
  <2>2. \/ inbox[p] = <<>>
        \/ pc[p] = "recv" /\ \E m \in Messages : inbox[p] = <<m>>
    BY <1>0, <2>1 DEF ProtoOK
  <2>3. \/ inbox'[p] = <<Bye>>
        \/ pc[p] = "recv" /\ \E m \in Messages : inbox'[p] = <<m, Bye>>
    <3>1. Append(<<>>, Bye) = <<Bye>> /\ \A m \in Messages : Append(<<m>>, Bye) = <<m, Bye>>
      BY Tuples
    <3> QED BY <2>1, <2>2, <3>1, Zenon
  <2>4. pc[p] # "free"
    BY <2>1 DEF ProtoOK
  <2> QED BY <1>0, <2>1, <2>3, <2>4 DEF ProtoOK
<1>5. CASE ServerLost(p)
  <2>1. /\ conn[p] # "closed" /\ conn'[p] = "closed" /\ inbox'[p] = <<>>
        /\ asking'[p] = NoMessage
    BY <1>3, <1>5 DEF ServerLost
  <2> QED BY <1>0, <2>1 DEF ProtoOK
<1> QED BY <1>1, <1>2, <1>4, <1>5 DEF ServerStep

\* An answer and a cut keep the owners.
LEMMA OwnedStep ==
  ASSUME TypeInv, ProtoInv, [Next]_vars
  PROVE  OwnedInv'
<1>0. /\ OwnedInv /\ \A p \in Pushers : ProtoOK(p)
      /\ conn \in [Pushers -> {"closed", "idle", "asked", "busy"}]
      /\ asking \in [Pushers -> Messages \cup {NoMessage}]
      /\ answer \in [Messages -> Answers \cup {"none"}] /\ todo \subseteq Messages
  BY DEF ProtoInv, TypeInv, TypeOK
<1>1. ASSUME UNCHANGED <<asking, todo, answer>> PROVE OwnedInv'
  BY <1>0, <1>1 DEF OwnedInv
<1>2. ASSUME NEW p \in Pushers, PushStep(p) PROVE OwnedInv'
  <2>1. CASE PushReply(p) /\ conn[p] = "asked"
    <3> DEFINE a == AnswerOf(flags[p])
    <3>1. /\ pc[p] = "reply" /\ todo' = todo /\ answer' = [answer EXCEPT ![cur[p]] = a]
          /\ asking' = [asking EXCEPT ![p] = IF a = "BUSY" THEN @ ELSE NoMessage]
      BY <2>1 DEF PushReply
    <3>2. cur[p] = asking[p] /\ asking[p] # NoMessage /\ asking[p] \in Messages
      BY <1>0, <2>1, <3>1 DEF ProtoOK
    <3> HIDE DEF a
    <3>3. \A m \in Messages : m # asking[p] => answer'[m] = answer[m]
      BY <1>0, <3>1, <3>2
    <3>4. CASE a = "BUSY"
      <4>1. asking' = asking /\ answer'[asking[p]] = "BUSY"
        BY <1>0, <3>1, <3>2, <3>4
      <4> QED BY <1>0, <3>1, <3>3, <4>1 DEF OwnedInv
    <3>5. CASE a # "BUSY"
      <4>1. asking'[p] = NoMessage /\ \A q \in Pushers : q # p => asking'[q] = asking[q]
        BY <1>0, <3>1, <3>5
      <4>2. \A q \in Pushers : q # p => asking[q] # asking[p]
        BY <1>0, <3>2 DEF OwnedInv
      <4>3. asking[p] \notin todo
        BY <1>0 DEF OwnedInv
      <4>4. \A m \in todo : answer'[m] \in {"none", "BUSY"}
        BY <1>0, <3>3, <4>3 DEF OwnedInv
      <4>5. \A q \in Pushers : asking'[q] # NoMessage => answer'[asking'[q]] \in {"none", "BUSY"}
        BY <1>0, <3>3, <4>1, <4>2 DEF OwnedInv
      <4>6. \A q \in Pushers : asking'[q] \notin todo
        BY <1>0, <4>1 DEF OwnedInv
      <4>7. \A q, r \in Pushers : asking'[q] = asking'[r] /\ asking'[q] # NoMessage => q = r
        BY <1>0, <4>1 DEF OwnedInv
      <4> QED BY <3>1, <4>4, <4>5, <4>6, <4>7 DEF OwnedInv
    <3> QED BY <3>4, <3>5
  <2>2. CASE ~(PushReply(p) /\ conn[p] = "asked")
    BY <1>1, <1>2, <2>2 DEF PushStep, PushRecv, PushSelect, PushSkip, PushEnd, PushQueue, PushReply,
       PushExit, connVars
  <2> QED BY <2>1, <2>2
<1>3. ASSUME NEW p \in Pushers, NEW m \in Messages, ServerSubmit(p, m) PROVE OwnedInv'
  <2>1. /\ m \in todo /\ todo' = todo \ {m} /\ answer' = answer
        /\ asking'[p] = m /\ \A q \in Pushers : q # p => asking'[q] = asking[q]
    BY <1>0, <1>3 DEF ServerSubmit
  <2>2. \A q \in Pushers : asking[q] # m
    BY <1>0, <2>1 DEF OwnedInv
  <2> QED BY <1>0, <2>1, <2>2 DEF OwnedInv
<1>4. ASSUME NEW p \in Pushers, NEW rest, ServerClose(p, rest) PROVE OwnedInv'
  <2>1. /\ answer' = answer
        /\ asking'[p] = NoMessage /\ \A q \in Pushers : q # p => asking'[q] = asking[q]
        /\ todo' = IF conn[p] \in {"asked", "busy"} THEN todo \cup {asking[p]} ELSE todo
    BY <1>0, <1>4 DEF ServerClose
  <2>2. conn[p] \in {"asked", "busy"} => asking[p] # NoMessage
    BY <1>0 DEF ProtoOK
  <2>3. \A m \in todo' : answer'[m] \in {"none", "BUSY"} /\ m # NoMessage
    BY <1>0, <2>1, <2>2 DEF OwnedInv
  <2>4. \A q \in Pushers : asking'[q] \notin todo'
    BY <1>0, <2>1, <2>2 DEF OwnedInv
  <2> QED BY <1>0, <2>1, <2>3, <2>4 DEF OwnedInv
<1>5. ASSUME NEW p \in Pushers, ServerStep(p) PROVE OwnedInv'
  <2>1. CASE ServerRetry(p)
    BY <1>1, <2>1 DEF ServerRetry
  <2> QED BY <1>3, <1>4, <1>5, <2>1 DEF ServerStep, ServerBye, ServerLost
<1>6. ASSUME NEW p \in Pushers, NEW chans \in Routes, PushConnect(p, chans) PROVE OwnedInv'
  BY <1>1, <1>6 DEF PushConnect
<1>7. ASSUME NEW q \in Pullers, PullStep(q) PROVE OwnedInv'
  BY <1>1, <1>7, PullFrame DEF connVars
<1>8. ASSUME NEW t \in Tests, TestPush(t) PROVE OwnedInv'
  BY <1>1, <1>8 DEF TestPush, connVars
<1>9. CASE UNCHANGED vars
  BY <1>1, <1>9 DEF vars, connVars
<1>10. CASE Carrier
  BY <1>1, <1>10, PullFrame DEF connVars
<1> QED BY <1>2, <1>5, <1>6, <1>7, <1>8, <1>9, <1>10 DEF Next

\* Every step keeps the protocol.
LEMMA ProtoStep == TypeInv /\ ProtoInv /\ [Next]_vars => ProtoInv'
<1> SUFFICES ASSUME TypeInv, ProtoInv, [Next]_vars, NEW r \in Pushers PROVE ProtoOK(r)'
  BY OwnedStep DEF ProtoInv
<1>0. /\ ProtoOK(r)
      /\ pc \in [Pushers -> {"free", "recv", "scan", "push", "reply"}]
      /\ cur \in [Pushers -> Messages \cup {NoMessage}]
      /\ inbox \in [Pushers -> Seq(Messages \cup {Bye})]
      /\ conn \in [Pushers -> {"closed", "idle", "asked", "busy"}]
      /\ asking \in [Pushers -> Messages \cup {NoMessage}]
  BY DEF ProtoInv, TypeInv, TypeOK
<1>1. ASSUME pc'[r] = pc[r], conn'[r] = conn[r], inbox'[r] = inbox[r],
             asking'[r] = asking[r], cur'[r] = cur[r]
      PROVE  ProtoOK(r)'
  BY <1>0, <1>1, ProtoFrame
<1>2. ASSUME NEW p \in Pushers, NEW chans \in Routes, PushConnect(p, chans) PROVE ProtoOK(r)'
  <2>1. CASE r = p
    <3>1. /\ conn[r] = "closed" /\ pc'[r] = "recv" /\ conn'[r] = "idle" /\ inbox'[r] = <<>>
          /\ asking'[r] = asking[r]
      BY <1>0, <1>2, <2>1 DEF PushConnect
    <3> QED BY <1>0, <3>1 DEF ProtoOK
  <2>2. CASE r # p
    BY <1>0, <1>1, <1>2, <2>2 DEF PushConnect
  <2> QED BY <2>1, <2>2
<1>3. ASSUME NEW p \in Pushers, PushStep(p) PROVE ProtoOK(r)'
  <2>1. CASE r = p
    BY <1>0, <1>3, <2>1, ProtoPush
  <2>2. CASE r # p
    <3>1. pc'[r] = pc[r] /\ conn'[r] = conn[r] /\ inbox'[r] = inbox[r] /\ cur'[r] = cur[r]
      BY <1>0, <1>3, <2>2 DEF PushStep, PushRecv, PushSelect, PushSkip, PushEnd, PushQueue, PushReply,
         PushExit, connVars
    <3>2. asking'[r] = asking[r]
      BY <1>0, <1>3, <2>2 DEF PushStep, PushRecv, PushSelect, PushSkip, PushEnd, PushQueue, PushReply,
         PushExit, connVars
    <3> QED BY <1>1, <3>1, <3>2
  <2> QED BY <2>1, <2>2
<1>4. ASSUME NEW p \in Pushers, ServerStep(p) PROVE ProtoOK(r)'
  <2>1. CASE r = p
    BY <1>0, <1>4, <2>1, ProtoServer
  <2>2. CASE r # p
    BY <1>0, <1>1, <1>4, <2>2 DEF ServerStep, ServerSubmit, ServerRetry, ServerBye, ServerLost,
       ServerClose, pushVars
  <2> QED BY <2>1, <2>2
<1>5. ASSUME UNCHANGED <<pushVars, connVars>> PROVE ProtoOK(r)'
  BY <1>1, <1>5 DEF pushVars, connVars
<1>6. ASSUME NEW q \in Pullers, PullStep(q) PROVE ProtoOK(r)'
  BY <1>5, <1>6, PullFrame
<1>7. ASSUME NEW t \in Tests, TestPush(t) PROVE ProtoOK(r)'
  BY <1>5, <1>7 DEF TestPush
<1>8. CASE UNCHANGED vars
  BY <1>5, <1>8 DEF vars
<1>9. CASE Carrier
  BY <1>5, <1>9, PullFrame
<1> QED BY <1>2, <1>3, <1>4, <1>6, <1>7, <1>8, <1>9 DEF Next

\* Nobody is connected at the start.
LEMMA ProtoInit == Init => ProtoInv
  BY DEF Init, ProtoInv, OwnedInv, ProtoOK

-----------------------------------------------------------------------------
(* Counting the copies of a message *)

InPlace(m, g, k) == g \in Gateways /\ k \in DOMAIN queue[g] /\ queue[g][k] = m

\* A place is a gateway and a position of its queue at which the message stands.
LEMMA PlacesOf ==
  ASSUME NEW q, NEW m, NEW x
  PROVE  x \in UNION {{<<g, k>> : k \in {j \in DOMAIN q[g] : q[g][j] = m}} : g \in Gateways}
           <=> \E g, k : x = <<g, k>> /\ g \in Gateways /\ k \in DOMAIN q[g] /\ q[g][k] = m
<1> DEFINE Q(g) == {<<g, k>> : k \in {j \in DOMAIN q[g] : q[g][j] = m}}
<1>1. x \in UNION {Q(g) : g \in Gateways} <=> \E g \in Gateways : x \in Q(g)
  OBVIOUS
<1>2. \A g : x \in Q(g) <=> \E k : x = <<g, k>> /\ k \in DOMAIN q[g] /\ q[g][k] = m
  OBVIOUS
<1>3. (\E g \in Gateways : x \in Q(g)) <=>
        \E g, k : x = <<g, k>> /\ g \in Gateways /\ k \in DOMAIN q[g] /\ q[g][k] = m
  <2> HIDE DEF Q
  <2> QED BY <1>2
<1> QED BY <1>1, <1>3

\* The places of a message, before and after a step.
LEMMA PlacesAre ==
  ASSUME NEW m, NEW x
  PROVE  /\ x \in Places(m) <=> \E g, k : x = <<g, k>> /\ InPlace(m, g, k)
         /\ x \in Places(m)' <=> \E g, k : x = <<g, k>> /\ InPlace(m, g, k)'
  BY PlacesOf DEF Places, InPlace

\* A push adds a place for the message pushed and for no other.
LEMMA PlacesPush ==
  ASSUME TypeInv, NEW m, IsFiniteSet(Places(m)), NEW h \in Gateways, NEW e \in Messages \cup Tests,
         queue' = [queue EXCEPT ![h] = Append(@, e)]
  PROVE  /\ IsFiniteSet(Places(m)')
         /\ Cardinality(Places(m)') = Cardinality(Places(m)) + (IF m = e THEN 1 ELSE 0)
<1> DEFINE n == Len(queue[h]) + 1
<1>0. queue \in [Gateways -> Seq(Messages \cup Tests)] /\ Cardinality(Places(m)) \in Nat
  BY FS_CardinalityType DEF TypeInv, TypeOK
<1>1. queue[h] \in Seq(Messages \cup Tests) /\ queue'[h] = Append(queue[h], e)
  BY <1>0
<1>2. /\ Len(queue[h]) \in Nat /\ DOMAIN queue[h] = 1 .. Len(queue[h])
      /\ DOMAIN queue'[h] = 1 .. Len(queue[h]) + 1
      /\ \A k \in DOMAIN queue[h] : queue'[h][k] = queue[h][k]
      /\ queue'[h][Len(queue[h]) + 1] = e
  BY <1>1, Grown
<1>3. /\ \A k : k \in DOMAIN queue'[h] <=> k \in DOMAIN queue[h] \/ k = n
      /\ n \notin DOMAIN queue[h] /\ queue'[h][n] = e
  BY <1>2
<1> HIDE DEF n
<1>4. \A g, k : InPlace(m, g, k)' <=> InPlace(m, g, k) \/ (m = e /\ g = h /\ k = n)
  <2> TAKE g, k
  <2>1. CASE g # h
    BY <1>0, <2>1 DEF InPlace
  <2>2. CASE g = h
    BY <1>2, <1>3, <2>2 DEF InPlace
  <2> QED BY <2>1, <2>2
<1>5. \A x : x \in Places(m)' <=> \E g, k : x = <<g, k>> /\ InPlace(m, g, k)'
  BY PlacesAre
<1>6. CASE m = e
  <2>1. Places(m)' = Places(m) \cup {<<h, n>>}
    BY <1>4, <1>5, <1>6, PlacesAre
  <2>2. <<h, n>> \notin Places(m)
    BY <1>3, PlacesAre DEF InPlace
  <2>3. /\ IsFiniteSet(Places(m) \cup {<<h, n>>})
        /\ Cardinality(Places(m) \cup {<<h, n>>}) = Cardinality(Places(m)) + 1
    BY <2>2, FS_AddElement
  <2> QED BY <1>6, <2>1, <2>3
<1>7. CASE m # e
  <2>1. Places(m)' = Places(m)
    BY <1>4, <1>5, <1>7, PlacesAre
  <2> QED BY <1>0, <1>7, <2>1
<1> QED BY <1>6, <1>7

\* A pop takes the first place of its queue away; the places behind it move up.
LEMMA PlacesPop ==
  ASSUME TypeInv, NEW m, IsFiniteSet(Places(m)), NEW h \in Gateways, queue[h] # <<>>,
         queue' = [queue EXCEPT ![h] = Tail(@)]
  PROVE  /\ IsFiniteSet(Places(m)')
         /\ Cardinality(Places(m)') = Cardinality(Places(m)) - (IF m = Head(queue[h]) THEN 1 ELSE 0)
<1>0. queue \in [Gateways -> Seq(Messages \cup Tests)] /\ Cardinality(Places(m)) \in Nat
  BY FS_CardinalityType DEF TypeInv, TypeOK
<1>1. queue[h] \in Seq(Messages \cup Tests) /\ queue'[h] = Tail(queue[h])
  BY <1>0
<1>2. /\ Len(queue[h]) \in Nat /\ 1 \in DOMAIN queue[h] /\ Head(queue[h]) = queue[h][1]
      /\ DOMAIN queue[h] = 1 .. Len(queue[h]) /\ DOMAIN queue'[h] = 1 .. Len(queue[h]) - 1
      /\ \A k \in DOMAIN queue'[h] : k + 1 \in DOMAIN queue[h] /\ queue'[h][k] = queue[h][k + 1]
  <2> DEFINE s == queue[h]
  <2>1. /\ Len(s) \in Nat \ {0} /\ 1 \in DOMAIN s /\ Head(s) = s[1]
        /\ DOMAIN s = 1 .. Len(s) /\ DOMAIN Tail(s) = 1 .. Len(s) - 1
        /\ \A k \in DOMAIN Tail(s) : k + 1 \in DOMAIN s /\ Tail(s)[k] = s[k + 1]
    BY <1>1, Shrunk
  <2> QED BY <1>1, <2>1
<1> DEFINE old == Places(m) \ {<<h, 1>>}
           new == Places(m)'
           Up(x) == IF x[1] = h THEN <<h, x[2] - 1>> ELSE x
           f == [x \in old |-> Up(x)]
<1>3. \A x : x \in new <=> \E g, k : x = <<g, k>> /\ InPlace(m, g, k)'
  BY PlacesAre
<1>4. \A x : x \in old <=> \E g, k : x = <<g, k>> /\ InPlace(m, g, k) /\ ~(g = h /\ k = 1)
  BY PlacesAre
<1>5. \A g, k : g # h => (InPlace(m, g, k)' <=> InPlace(m, g, k))
  BY <1>0 DEF InPlace
<1>6. \A k : InPlace(m, h, k) /\ k # 1 => k \in Nat /\ k - 1 \in Nat /\ InPlace(m, h, k - 1)'
  <2> TAKE k
  <2> HAVE InPlace(m, h, k) /\ k # 1
  <2>1. k \in 1 .. Len(queue[h]) /\ queue[h][k] = m
    BY <1>2 DEF InPlace
  <2>2. k - 1 \in DOMAIN queue'[h] /\ (k - 1) + 1 = k
    BY <1>2, <2>1
  <2>3. queue'[h][k - 1] = m
    BY <1>2, <2>1, <2>2
  <2> QED BY <2>1, <2>2, <2>3 DEF InPlace
<1>7. \A k : InPlace(m, h, k)' => k \in Nat /\ InPlace(m, h, k + 1) /\ k + 1 # 1 /\ (k + 1) - 1 = k
  <2> TAKE k
  <2> HAVE InPlace(m, h, k)'
  <2>1. k \in DOMAIN queue'[h] /\ queue'[h][k] = m
    BY DEF InPlace
  <2>2. k \in Nat /\ k + 1 # 1 /\ (k + 1) - 1 = k
    BY <1>2, <2>1
  <2>3. k + 1 \in DOMAIN queue[h] /\ queue[h][k + 1] = m
    BY <1>2, <2>1
  <2> QED BY <2>2, <2>3 DEF InPlace
<1>8. \A g, k : /\ Up(<<g, k>>) = IF g = h THEN <<h, k - 1>> ELSE <<g, k>>
               /\ Up(<<g, k>>)[1] = g
  OBVIOUS
<1> HIDE DEF old, new, Up
<1>9. \A x \in old : Up(x) \in new
  <2> SUFFICES ASSUME NEW g, NEW k, InPlace(m, g, k), ~(g = h /\ k = 1) PROVE Up(<<g, k>>) \in new
    BY <1>4
  <2>1. CASE g = h
    BY <1>3, <1>6, <1>8, <2>1
  <2>2. CASE g # h
    BY <1>3, <1>5, <1>8, <2>2
  <2> QED BY <2>1, <2>2
<1>10. \A x, y \in old : Up(x) = Up(y) => x = y
  <2> SUFFICES ASSUME NEW g, NEW k, InPlace(m, g, k), ~(g = h /\ k = 1),
                      NEW i, NEW j, InPlace(m, i, j), ~(i = h /\ j = 1),
                      Up(<<g, k>>) = Up(<<i, j>>)
               PROVE  <<g, k>> = <<i, j>>
    BY <1>4
  <2>1. CASE g = h /\ i = h
    <3>1. k \in Nat /\ j \in Nat
      BY <1>6, <2>1
    <3>2. <<h, k - 1>> = <<h, j - 1>>
      BY <1>8, <2>1
    <3> QED BY <2>1, <3>1, <3>2
  <2>2. g = i
    BY <1>8
  <2>3. CASE g # h
    BY <1>8, <2>2, <2>3
  <2> QED BY <2>1, <2>2, <2>3
<1>11. \A y \in new : \E x \in old : Up(x) = y
  <2> SUFFICES ASSUME NEW g, NEW k, InPlace(m, g, k)' PROVE \E x \in old : Up(x) = <<g, k>>
    BY <1>3
  <2>1. CASE g = h
    <3>1. InPlace(m, h, k + 1) /\ k + 1 # 1 /\ (k + 1) - 1 = k
      BY <1>7, <2>1
    <3>2. <<h, k + 1>> \in old /\ Up(<<h, k + 1>>) = <<h, k>>
      BY <1>4, <1>8, <3>1
    <3> QED BY <2>1, <3>2
  <2>2. CASE g # h
    BY <1>4, <1>5, <1>8, <2>2
  <2> QED BY <2>1, <2>2
<1>12. f \in [old -> new]
  BY <1>9
<1>13. \A x \in old : f[x] = Up(x)
  OBVIOUS
<1> HIDE DEF f
<1>14. f \in Bijection(old, new)
  <2>1. \A x, y \in old : f[x] = f[y] => x = y
    BY <1>10, <1>13
  <2>2. \A y \in new : \E x \in old : f[x] = y
    BY <1>11, <1>13
  <2> QED BY <1>12, <2>1, <2>2 DEF Bijection, Injection, Surjection, IsInjective
<1>15. /\ IsFiniteSet(old)
       /\ Cardinality(old) = IF <<h, 1>> \in Places(m) THEN Cardinality(Places(m)) - 1
                             ELSE Cardinality(Places(m))
  BY FS_RemoveElement DEF old
<1>16. <<h, 1>> \in Places(m) <=> m = Head(queue[h])
  BY <1>2, PlacesAre DEF InPlace
<1>17. IsFiniteSet(new) /\ Cardinality(new) = Cardinality(old)
  BY <1>14, <1>15, FS_Bijection DEF ExistsBijection
<1> QED BY <1>0, <1>15, <1>16, <1>17 DEF new

\* Thread p still has m in its socket or in hand and may queue it.
Pending(p, m) ==
  \/ inbox[p] # <<>> /\ inbox[p][1] = m
  \/ pc[p] \in {"scan", "push"} /\ cur[p] = m

\* It does so for nobody: the connection was cut.
StaleAt(p, m) == conn[p] = "closed" /\ Pending(p, m)

Stale(m) == {p \in Pushers : StaleAt(p, m)}

\* It has queued m, and its server waits for the answer.
WonAt(p, m) == conn[p] = "asked" /\ asking[p] = m /\ pc[p] = "reply" /\ "completed" \in flags[p]

Settled(m) == answer[m] = "OK" \/ \E p \in Pushers : WonAt(p, m)

\* Each cut pays for the copy that was, or may still be, queued for nobody; only
\* a settled message has one more.
CopyOf(m) ==
  /\ IsFiniteSet(Places(m))
  /\ Copies(m) + Cardinality(Stale(m)) <= cuts[m] + (IF Settled(m) THEN 1 ELSE 0)
  /\ Settled(m) => Copies(m) >= 1

CopyInv == \A m \in Messages : CopyOf(m)

\* The counts are numbers.
LEMMA CopyTypes ==
  ASSUME TypeInv, NEW m \in Messages, IsFiniteSet(Places(m))
  PROVE  /\ Copies(m) \in Nat /\ Cardinality(Places(m)) \in Nat /\ taken[m] \in Nat /\ cuts[m] \in Nat
         /\ IsFiniteSet(Stale(m)) /\ Cardinality(Stale(m)) \in Nat
<1>1. Cardinality(Places(m)) \in Nat
  BY FS_CardinalityType
<1>2. taken[m] \in Nat /\ cuts[m] \in Nat
  BY DEF TypeInv, TypeOK
<1>3. IsFiniteSet(Stale(m)) /\ Cardinality(Stale(m)) \in Nat
  <2>1. Stale(m) \in SUBSET Pushers
    BY DEF Stale
  <2> QED BY <2>1, Counts
<1> QED BY <1>1, <1>2, <1>3 DEF Copies

\* A step that neither copies nor settles nor cuts m.
LEMMA CopyFrame ==
  ASSUME TypeInv, NEW m \in Messages, CopyOf(m),
         IsFiniteSet(Places(m)'), Copies(m)' = Copies(m), cuts'[m] = cuts[m],
         \A r \in Pushers : StaleAt(r, m)' => StaleAt(r, m),
         Settled(m)' <=> Settled(m)
  PROVE  CopyOf(m)'
<1>1. Stale(m)' \subseteq Stale(m)
  BY DEF Stale
<1>2. /\ Copies(m) \in Nat /\ cuts[m] \in Nat /\ IsFiniteSet(Stale(m)) /\ Cardinality(Stale(m)) \in Nat
  BY CopyTypes DEF CopyOf
<1>3. Cardinality(Stale(m)') \in Nat /\ Cardinality(Stale(m)') <= Cardinality(Stale(m))
  BY <1>1, <1>2, FS_Subset, FS_CardinalityType
<1>4. Copies(m)' + Cardinality(Stale(m)') <= cuts'[m] + (IF Settled(m)' THEN 1 ELSE 0)
  BY <1>2, <1>3 DEF CopyOf
<1> QED BY <1>4 DEF CopyOf

\* The same if the queues do not change, told by thread.
LEMMA CopyLocal ==
  ASSUME TypeInv, NEW m \in Messages, CopyOf(m), queue' = queue, taken' = taken, cuts'[m] = cuts[m],
         answer'[m] = "OK" <=> answer[m] = "OK",
         \A r \in Pushers : StaleAt(r, m)' => StaleAt(r, m),
         \A r \in Pushers : WonAt(r, m)' <=> WonAt(r, m)
  PROVE  CopyOf(m)'
<1>1. Places(m)' = Places(m)
  BY DEF Places
<1>2. IsFiniteSet(Places(m)') /\ Copies(m)' = Copies(m)
  BY <1>1 DEF CopyOf, Copies
<1>3. Settled(m)' <=> Settled(m)
  BY DEF Settled
<1> QED BY <1>2, <1>3, CopyFrame

\* Of a thread whose locals do not change nothing changes.
LEMMA SameAt ==
  ASSUME NEW r, NEW m, pc'[r] = pc[r], conn'[r] = conn[r], inbox'[r] = inbox[r],
         asking'[r] = asking[r], cur'[r] = cur[r], flags'[r] = flags[r]
  PROVE  (StaleAt(r, m)' <=> StaleAt(r, m)) /\ (WonAt(r, m)' <=> WonAt(r, m))
  BY DEF StaleAt, Pending, WonAt

\* The steps of the push thread before and after the push.
LEMMA CopyPush ==
  ASSUME TypeInv, ProtoInv, ScanInv, CopyInv, NEW p \in Pushers, PushStep(p), ~PushQueue(p),
         NEW m \in Messages
  PROVE  CopyOf(m)'
<1>0. /\ CopyOf(m) /\ ProtoOK(p) /\ OwnedInv
      /\ pc \in [Pushers -> {"free", "recv", "scan", "push", "reply"}]
      /\ cur \in [Pushers -> Messages \cup {NoMessage}]
      /\ flags \in [Pushers -> SUBSET {"available", "operator", "province", "completed"}]
      /\ at \in [Pushers -> Nat \ {0}]
      /\ inbox \in [Pushers -> Seq(Messages \cup {Bye})]
      /\ conn \in [Pushers -> {"closed", "idle", "asked", "busy"}]
      /\ asking \in [Pushers -> Messages \cup {NoMessage}]
      /\ answer \in [Messages -> Answers \cup {"none"}]
  BY DEF CopyInv, ProtoInv, TypeInv, TypeOK
<1>1. queue' = queue /\ taken' = taken /\ cuts' = cuts
  BY DEF PushStep, PushRecv, PushSelect, PushSkip, PushEnd, PushReply, PushExit, connVars, pullVars
<1>2. ASSUME NEW r \in Pushers, r # p
      PROVE  (StaleAt(r, m)' <=> StaleAt(r, m)) /\ (WonAt(r, m)' <=> WonAt(r, m))
  <2>1. /\ pc'[r] = pc[r] /\ conn'[r] = conn[r] /\ inbox'[r] = inbox[r] /\ cur'[r] = cur[r]
        /\ flags'[r] = flags[r]
    BY <1>0, <1>2 DEF PushStep, PushRecv, PushSelect, PushSkip, PushEnd, PushReply, PushExit, connVars
  <2>2. asking'[r] = asking[r]
    BY <1>0, <1>2 DEF PushStep, PushRecv, PushSelect, PushSkip, PushEnd, PushReply, PushExit, connVars
  <2> QED BY <2>1, <2>2, SameAt
<1>3. SUFFICES /\ answer'[m] = "OK" <=> answer[m] = "OK"
               /\ StaleAt(p, m)' => StaleAt(p, m)
               /\ WonAt(p, m)' <=> WonAt(p, m)
      \/ CopyOf(m)'
  BY <1>0, <1>1, <1>2, CopyLocal
<1>4. CASE PushRecv(p)
  <2>1. /\ pc[p] = "recv" /\ inbox[p] # <<>> /\ Head(inbox[p]) # Bye
        /\ pc'[p] = "scan" /\ inbox'[p] = Tail(inbox[p]) /\ cur'[p] = Head(inbox[p])
        /\ conn'[p] = conn[p] /\ answer' = answer
    BY <1>0, <1>4 DEF PushRecv
  <2>2. ~WonAt(p, m) /\ ~WonAt(p, m)'
    BY <2>1 DEF WonAt
  <2>3. StaleAt(p, m)' => StaleAt(p, m)
    <3> SUFFICES ASSUME StaleAt(p, m)' PROVE StaleAt(p, m)
      OBVIOUS
    <3>1. conn[p] = "closed"
      BY <2>1 DEF StaleAt
    <3>2. Head(<<Bye>>) = Bye
      BY Tuples
    <3>3. PICK e \in Messages : inbox[p] = <<e, Bye>>
      BY <2>1, <3>1, <3>2, <1>0 DEF ProtoOK
    <3>4. inbox'[p] = <<Bye>> /\ cur'[p] = e /\ inbox[p][1] = e
      BY <2>1, <3>3, Tuples
    <3>5. <<Bye>>[1] = Bye /\ m # Bye
      BY Tuples
    <3>6. m = e
      BY <3>4, <3>5 DEF StaleAt, Pending
    <3> QED BY <2>1, <3>1, <3>4, <3>6 DEF StaleAt, Pending
  <2> QED BY <2>1, <2>2, <2>3
<1>5. CASE PushSelect(p) \/ PushSkip(p)
  <2>1. /\ pc[p] = "scan" /\ pc'[p] \in {"scan", "push"} /\ conn'[p] = conn[p] /\ inbox'[p] = inbox[p]
        /\ cur'[p] = cur[p] /\ answer' = answer
    BY <1>0, <1>5 DEF PushSelect, PushSkip, connVars
  <2> QED BY <2>1 DEF StaleAt, Pending, WonAt
<1>6. CASE PushEnd(p)
  <2>1. /\ pc[p] = "scan" /\ pc'[p] = "reply" /\ conn'[p] = conn[p] /\ inbox'[p] = inbox[p]
        /\ cur'[p] = cur[p] /\ answer' = answer /\ flags'[p] = flags[p]
    BY <1>0, <1>6 DEF PushEnd, connVars
  <2>2. "completed" \notin flags[p]
    BY <2>1 DEF ScanInv, ScanOK
  <2> QED BY <2>1, <2>2 DEF StaleAt, Pending, WonAt
<1>7. CASE PushExit(p)
  <2>1. /\ pc[p] = "recv" /\ pc'[p] = "free" /\ conn'[p] = conn[p] /\ inbox'[p] = <<>>
        /\ answer' = answer
    BY <1>0, <1>7 DEF PushExit
  <2> QED BY <2>1 DEF StaleAt, Pending, WonAt
<1>8. CASE PushReply(p) /\ conn[p] # "asked"
  <2>1. /\ pc[p] = "reply" /\ pc'[p] = "recv" /\ conn'[p] = conn[p] /\ inbox'[p] = inbox[p]
        /\ answer' = answer
    BY <1>0, <1>8 DEF PushReply
  <2> QED BY <1>8, <2>1 DEF StaleAt, Pending, WonAt
<1>9. CASE PushReply(p) /\ conn[p] = "asked"
  <2> DEFINE a == AnswerOf(flags[p])
  <2>1. /\ pc[p] = "reply" /\ pc'[p] = "recv" /\ conn'[p] \in {"busy", "idle"}
        /\ answer' = [answer EXCEPT ![cur[p]] = a]
    BY <1>0, <1>9 DEF PushReply
  <2>2. a = "OK" <=> "completed" \in flags[p]
    BY DEF AnswerOf
  <2> HIDE DEF a
  <2>3. cur[p] = asking[p] /\ asking[p] # NoMessage /\ asking[p] \in Messages
    BY <1>0, <1>9, <2>1 DEF ProtoOK
  <2>4. ~StaleAt(p, m)' /\ ~WonAt(p, m)'
    BY <2>1 DEF StaleAt, WonAt
  <2>5. CASE m # cur[p]
    <3>1. answer'[m] = answer[m] /\ ~WonAt(p, m)
      BY <1>0, <2>1, <2>3, <2>5 DEF WonAt
    <3> QED BY <2>4, <3>1
  <2>6. CASE m = cur[p]
    <3>1. answer'[m] = a
      BY <1>0, <2>1, <2>6
    <3>2. answer[m] # "OK"
      BY <1>0, <2>3, <2>6 DEF OwnedInv
    <3>3. WonAt(p, m) <=> a = "OK"
      BY <1>9, <2>1, <2>2, <2>3, <2>6 DEF WonAt
    <3>4. \A r \in Pushers : r # p => ~WonAt(r, m) /\ ~WonAt(r, m)'
      BY <1>0, <1>2, <2>3, <2>6 DEF WonAt, OwnedInv
    <3>5. Settled(m)' <=> Settled(m)
      BY <2>4, <3>1, <3>2, <3>3, <3>4 DEF Settled
    <3>6. Places(m)' = Places(m)
      BY <1>1 DEF Places
    <3>7. IsFiniteSet(Places(m)') /\ Copies(m)' = Copies(m) /\ cuts'[m] = cuts[m]
      BY <1>0, <1>1, <3>6 DEF CopyOf, Copies
    <3>8. \A r \in Pushers : StaleAt(r, m)' => StaleAt(r, m)
      BY <1>2, <2>4
    <3> QED BY <1>0, <3>5, <3>7, <3>8, CopyFrame
  <2> QED BY <2>5, <2>6
<1> QED BY <1>4, <1>5, <1>6, <1>7, <1>8, <1>9 DEF PushStep

\* The push: one copy more, paid for by the answer that follows or by the cut
\* that left the thread alone.
LEMMA CopyQueue ==
  ASSUME TypeInv, ProtoInv, ScanInv, CopyInv, NEW p \in Pushers, PushQueue(p), NEW m \in Messages
  PROVE  CopyOf(m)'
<1>0. /\ CopyOf(m) /\ ProtoOK(p) /\ OwnedInv
      /\ pc \in [Pushers -> {"free", "recv", "scan", "push", "reply"}]
      /\ flags \in [Pushers -> SUBSET {"available", "operator", "province", "completed"}]
      /\ conn \in [Pushers -> {"closed", "idle", "asked", "busy"}]
      /\ channels \in [Pushers -> Seq(Channel)]
  BY DEF CopyInv, ProtoInv, TypeInv, TypeOK
<1>1. /\ pc[p] = "push" /\ pc'[p] = "reply" /\ flags'[p] = flags[p] \cup {"completed"}
      /\ cur[p] \in Messages /\ cur' = cur /\ inbox' = inbox /\ conn' = conn /\ asking' = asking
      /\ answer' = answer /\ cuts' = cuts /\ taken' = taken
      /\ \A r \in Pushers : r # p => pc'[r] = pc[r] /\ flags'[r] = flags[r]
      /\ queue' = [queue EXCEPT ![Chan(p).id] = Append(@, cur[p])]
  BY <1>0 DEF PushQueue, TypeInv, LocalsOK, connVars, pullVars
<1>2. Chan(p).id \in Gateways
  <2>1. at[p] \in DOMAIN channels[p]
    BY <1>1 DEF ScanInv, ScanOK, Fit
  <2>2. Chan(p) \in Channel
    BY <1>0, <2>1, ElementOfSeq DEF Chan
  <2> QED BY <2>2 DEF Channel
<1>3. /\ IsFiniteSet(Places(m)')
      /\ Cardinality(Places(m)') = Cardinality(Places(m)) + (IF m = cur[p] THEN 1 ELSE 0)
  <2>1. PICK h \in Gateways : h = Chan(p).id
    BY <1>2
  <2>2. PICK e \in Messages : e = cur[p]
    BY <1>1
  <2>3. queue' = [queue EXCEPT ![h] = Append(@, e)] /\ e \in Messages \cup Tests
    BY <1>1, <2>1, <2>2
  <2>4. IsFiniteSet(Places(m))
    BY <1>0 DEF CopyOf
  <2> QED BY <2>2, <2>3, <2>4, PlacesPush
<1>4. /\ Copies(m) \in Nat /\ Cardinality(Places(m)) \in Nat /\ taken[m] \in Nat /\ cuts[m] \in Nat
      /\ IsFiniteSet(Stale(m)) /\ Cardinality(Stale(m)) \in Nat
  BY <1>0, CopyTypes DEF CopyOf
<1>5. ASSUME NEW r \in Pushers, r # p
      PROVE  (StaleAt(r, m)' <=> StaleAt(r, m)) /\ (WonAt(r, m)' <=> WonAt(r, m))
  BY <1>1, <1>5, SameAt
<1>6. ~WonAt(p, m) /\ (WonAt(p, m)' <=> conn[p] = "asked" /\ asking[p] = m)
  BY <1>0, <1>1 DEF WonAt
<1>7. StaleAt(p, m)' => StaleAt(p, m)
  BY <1>1 DEF StaleAt, Pending
<1>8. conn[p] \in {"asked", "closed"}
  BY <1>0, <1>1 DEF ProtoOK
<1>9. CASE m # cur[p]
  <2>1. Copies(m)' = Copies(m)
    BY <1>1, <1>3, <1>4, <1>9 DEF Copies
  <2>2. ~WonAt(p, m)'
    BY <1>0, <1>1, <1>6, <1>9 DEF ProtoOK
  <2>3. Settled(m)' <=> Settled(m)
    BY <1>1, <1>5, <1>6, <2>2 DEF Settled
  <2>4. \A r \in Pushers : StaleAt(r, m)' => StaleAt(r, m)
    BY <1>5, <1>7
  <2> QED BY <1>0, <1>1, <1>3, <2>1, <2>3, <2>4, CopyFrame
<1>10. ASSUME m = cur[p] PROVE Copies(m)' = Copies(m) + 1
  BY <1>1, <1>3, <1>4, <1>10 DEF Copies
<1>11. CASE m = cur[p] /\ conn[p] = "asked"
  <2>1. asking[p] = m
    BY <1>0, <1>1, <1>11 DEF ProtoOK
  <2>2. answer[m] # "OK"
    BY <1>0, <2>1 DEF OwnedInv
  <2>3. \A r \in Pushers : ~WonAt(r, m)
    BY <1>0, <1>6, <2>1 DEF WonAt, OwnedInv
  <2>4. ~Settled(m)
    BY <2>2, <2>3 DEF Settled
  <2>5. Settled(m)'
    BY <1>6, <1>11, <2>1 DEF Settled
  <2>6. Stale(m)' \subseteq Stale(m)
    BY <1>5, <1>7 DEF Stale
  <2>7. Cardinality(Stale(m)') \in Nat /\ Cardinality(Stale(m)') <= Cardinality(Stale(m))
    BY <1>4, <2>6, FS_Subset, FS_CardinalityType
  <2>8. Copies(m) + Cardinality(Stale(m)) <= cuts[m]
    BY <1>0, <1>4, <2>4 DEF CopyOf
  <2>9. Copies(m)' + Cardinality(Stale(m)') <= cuts'[m] + 1 /\ Copies(m)' >= 1
    BY <1>1, <1>4, <1>10, <1>11, <2>7, <2>8
  <2> QED BY <1>3, <2>5, <2>9 DEF CopyOf
<1>12. CASE m = cur[p] /\ conn[p] = "closed"
  <2>1. StaleAt(p, m)
    BY <1>1, <1>12 DEF StaleAt, Pending
  <2>2. ~StaleAt(p, m)'
    <3>1. inbox[p] \in {<<>>, <<Bye>>}
      BY <1>0, <1>1, <1>12 DEF ProtoOK
    <3>2. <<Bye>>[1] = Bye /\ m # Bye
      BY Tuples
    <3> QED BY <1>1, <3>1, <3>2 DEF StaleAt, Pending
  <2>3. Settled(m)' <=> Settled(m)
    BY <1>1, <1>5, <1>6, <1>12 DEF Settled
  <2>4. p \in Stale(m) /\ Stale(m)' \subseteq Stale(m) \ {p}
    BY <1>5, <2>1, <2>2 DEF Stale
  <2>5. IsFiniteSet(Stale(m) \ {p}) /\ Cardinality(Stale(m) \ {p}) = Cardinality(Stale(m)) - 1
    BY <1>4, <2>4, FS_RemoveElement
  <2>6. Cardinality(Stale(m)') \in Nat /\ Cardinality(Stale(m)') <= Cardinality(Stale(m)) - 1
    BY <2>4, <2>5, FS_Subset, FS_CardinalityType
  <2>7. Copies(m)' + Cardinality(Stale(m)') <= cuts'[m] + (IF Settled(m)' THEN 1 ELSE 0)
    BY <1>0, <1>1, <1>4, <1>10, <1>12, <2>3, <2>6 DEF CopyOf
  <2>8. Copies(m)' >= 1
    BY <1>4, <1>10, <1>12
  <2> QED BY <1>3, <2>7, <2>8 DEF CopyOf
<1> QED BY <1>8, <1>9, <1>11, <1>12

\* What a server does to its connection keeps the count of the message that it
\* asks for (now or afterwards) and of all others.
LEMMA CopyServer ==
  ASSUME TypeInv, ProtoInv, CopyInv, NEW p \in Pushers, ServerStep(p), NEW m \in Messages
  PROVE  CopyOf(m)'
<1>0. /\ CopyOf(m) /\ ProtoOK(p) /\ OwnedInv
      /\ inbox \in [Pushers -> Seq(Messages \cup {Bye})]
      /\ conn \in [Pushers -> {"closed", "idle", "asked", "busy"}]
      /\ asking \in [Pushers -> Messages \cup {NoMessage}]
      /\ cuts \in [Messages -> Nat]
  BY DEF CopyInv, ProtoInv, TypeInv, TypeOK
<1>1. queue' = queue /\ taken' = taken /\ answer' = answer /\ UNCHANGED pushVars
  BY DEF ServerStep, ServerSubmit, ServerRetry, ServerBye, ServerLost, ServerClose, pullVars
<1>2. ASSUME NEW r \in Pushers, r # p
      PROVE  (StaleAt(r, m)' <=> StaleAt(r, m)) /\ (WonAt(r, m)' <=> WonAt(r, m))
  <2>1. conn'[r] = conn[r] /\ inbox'[r] = inbox[r] /\ asking'[r] = asking[r]
    BY <1>0, <1>2 DEF ServerStep, ServerSubmit, ServerRetry, ServerBye, ServerLost, ServerClose
  <2> QED BY <1>1, <2>1, SameAt DEF pushVars
<1>3. ASSUME cuts'[m] = cuts[m], StaleAt(p, m)' => StaleAt(p, m), WonAt(p, m)' <=> WonAt(p, m)
      PROVE  CopyOf(m)'
  BY <1>0, <1>1, <1>2, <1>3, CopyLocal
<1>4. CASE ServerRetry(p) \/ \E e \in Messages : ServerSubmit(p, e)
  <2>1. conn[p] \in {"idle", "busy"} /\ conn'[p] = "asked" /\ cuts' = cuts
    BY <1>0, <1>4 DEF ServerRetry, ServerSubmit
  <2>2. pc[p] = "recv" /\ pc' = pc
    BY <1>0, <1>1, <2>1 DEF ProtoOK, pushVars
  <2> QED BY <1>3, <2>1, <2>2 DEF StaleAt, WonAt
<1>5. ASSUME NEW rest, ServerClose(p, rest), rest = <<>> \/ rest = Append(inbox[p], Bye)
      PROVE  CopyOf(m)'
  <2>1. /\ conn[p] # "closed" /\ conn'[p] = "closed" /\ inbox'[p] = rest /\ pc' = pc /\ cur' = cur
        /\ flags' = flags
        /\ cuts' = IF conn[p] \in {"asked", "busy"}
                   THEN [cuts EXCEPT ![asking[p]] = IF conn[p] = "asked" THEN @ + 1 ELSE @] ELSE cuts
    BY <1>0, <1>1, <1>5 DEF ServerClose, pushVars
  <2>2. ~WonAt(p, m)' /\ ~StaleAt(p, m)
    BY <2>1 DEF WonAt, StaleAt
  <2>3. /\ Append(<<>>, Bye) = <<Bye>> /\ <<Bye>>[1] = Bye /\ m # Bye
        /\ Append(<<asking[p]>>, Bye) = <<asking[p], Bye>> /\ <<asking[p], Bye>>[1] = asking[p]
    BY Tuples
  <2>4. CASE conn[p] # "asked"
    <3>1. pc[p] = "recv" /\ inbox[p] = <<>> /\ cuts'[m] = cuts[m]
      BY <1>0, <2>1, <2>4 DEF ProtoOK
    <3>2. ~StaleAt(p, m)'
      BY <1>5, <2>1, <2>3, <3>1 DEF StaleAt, Pending
    <3>3. ~WonAt(p, m)
      BY <2>4 DEF WonAt
    <3> QED BY <1>3, <2>2, <3>1, <3>2, <3>3
  <2>5. CASE conn[p] = "asked" /\ asking[p] # m
    <3>1. asking[p] \in Messages /\ cuts'[m] = cuts[m]
      BY <1>0, <2>1, <2>5 DEF ProtoOK
    <3>2. ~StaleAt(p, m)'
      <4>1. inbox[p] = <<asking[p]>> \/ inbox[p] = <<>>
        BY <1>0, <2>5 DEF ProtoOK
      <4>2. ~(inbox'[p] # <<>> /\ inbox'[p][1] = m)
        BY <1>5, <2>1, <2>3, <2>5, <4>1
      <4>3. ~(pc[p] \in {"scan", "push"} /\ cur[p] = m)
        BY <1>0, <2>5 DEF ProtoOK
      <4> QED BY <2>1, <4>2, <4>3 DEF StaleAt, Pending
    <3>3. ~WonAt(p, m)
      BY <2>5 DEF WonAt
    <3> QED BY <1>3, <2>2, <3>1, <3>2, <3>3
  <2>6. CASE conn[p] = "asked" /\ asking[p] = m
    <3>1. cuts'[m] = cuts[m] + 1 /\ cuts[m] \in Nat
      BY <1>0, <2>1, <2>6
    <3>2. answer[m] # "OK" /\ \A r \in Pushers : r # p => ~WonAt(r, m)
      BY <1>0, <2>6 DEF OwnedInv, WonAt
    <3>3. ~Settled(m)'
      BY <1>1, <1>2, <2>2, <3>2 DEF Settled
    <3>4. IsFiniteSet(Places(m)') /\ Copies(m)' = Copies(m)
      <4>1. Places(m)' = Places(m)
        BY <1>1 DEF Places
      <4> QED BY <1>0, <1>1, <4>1 DEF CopyOf, Copies
    <3>5. Copies(m) \in Nat /\ IsFiniteSet(Stale(m)) /\ Cardinality(Stale(m)) \in Nat
      BY <1>0, CopyTypes DEF CopyOf
    <3>6. Copies(m) + Cardinality(Stale(m)') <= cuts[m] + 1
      <4>1. CASE WonAt(p, m)
        <5>1. pc[p] = "reply" /\ inbox[p] = <<>>
          BY <1>0, <2>6, <4>1 DEF WonAt, ProtoOK
        <5>2. ~StaleAt(p, m)'
          BY <1>5, <2>1, <2>3, <5>1 DEF StaleAt, Pending
        <5>3. Stale(m)' \subseteq Stale(m)
          BY <1>2, <5>2 DEF Stale
        <5>4. Cardinality(Stale(m)') \in Nat /\ Cardinality(Stale(m)') <= Cardinality(Stale(m))
          BY <3>5, <5>3, FS_Subset, FS_CardinalityType
        <5>5. Copies(m) + Cardinality(Stale(m)) <= cuts[m] + 1
          BY <1>0, <3>1, <3>5 DEF CopyOf
        <5> QED BY <3>1, <3>5, <5>4, <5>5
      <4>2. CASE ~WonAt(p, m)
        <5>1. ~Settled(m)
          BY <3>2, <4>2 DEF Settled
        <5>2. Stale(m)' \subseteq Stale(m) \cup {p}
          BY <1>2 DEF Stale
        <5>3. /\ IsFiniteSet(Stale(m) \cup {p})
              /\ Cardinality(Stale(m) \cup {p}) <= Cardinality(Stale(m)) + 1
          <6>1. /\ IsFiniteSet(Stale(m) \cup {p})
                /\ Cardinality(Stale(m) \cup {p}) =
                     IF p \in Stale(m) THEN Cardinality(Stale(m)) ELSE Cardinality(Stale(m)) + 1
            BY <3>5, FS_AddElement
          <6> HIDE DEF Stale
          <6> QED BY <3>5, <6>1
        <5>4. /\ Cardinality(Stale(m)') \in Nat /\ Cardinality(Stale(m) \cup {p}) \in Nat
              /\ Cardinality(Stale(m)') <= Cardinality(Stale(m) \cup {p})
          BY <5>2, <5>3, FS_Subset, FS_CardinalityType
        <5>5. Copies(m) + Cardinality(Stale(m)) <= cuts[m]
          BY <1>0, <3>1, <3>5, <5>1 DEF CopyOf
        <5> QED BY <3>1, <3>5, <5>3, <5>4, <5>5
      <4> QED BY <4>1, <4>2
    <3>7. Copies(m)' + Cardinality(Stale(m)') <= cuts'[m] + (IF Settled(m)' THEN 1 ELSE 0)
      <4>1. Cardinality(Stale(m)') \in Nat
        <5>1. Stale(m)' \in SUBSET Pushers
          BY DEF Stale
        <5> QED BY <5>1, Counts
      <4> QED BY <3>1, <3>3, <3>4, <3>5, <3>6, <4>1
    <3> QED BY <3>3, <3>4, <3>7 DEF CopyOf
  <2> QED BY <2>4, <2>5, <2>6
<1> QED BY <1>4, <1>5 DEF ServerStep, ServerBye, ServerLost

\* Every step keeps the count of every message.
LEMMA CopyStep == TypeInv /\ ProtoInv /\ ScanInv /\ CopyInv /\ [Next]_vars => CopyInv'
<1> SUFFICES ASSUME TypeInv, ProtoInv, ScanInv, CopyInv, [Next]_vars, NEW m \in Messages
             PROVE  CopyOf(m)'
  BY DEF CopyInv
<1>0. /\ CopyOf(m) /\ IsFiniteSet(Places(m))
      /\ queue \in [Gateways -> Seq(Messages \cup Tests)] /\ taken \in [Messages \cup Tests -> Nat]
      /\ \A q \in Pullers : ppc[q] = "asked" => pull[q] \in Gateways
      /\ pc \in [Pushers -> {"free", "recv", "scan", "push", "reply"}]
      /\ inbox \in [Pushers -> Seq(Messages \cup {Bye})]
      /\ conn \in [Pushers -> {"closed", "idle", "asked", "busy"}]
  BY DEF CopyInv, CopyOf, TypeInv, TypeOK
<1>1. Cardinality(Places(m)) \in Nat /\ taken[m] \in Nat
  BY <1>0, CopyTypes
<1>2. ASSUME UNCHANGED <<pushVars, connVars>>, IsFiniteSet(Places(m)'), Copies(m)' = Copies(m)
      PROVE  CopyOf(m)'
  <2>1. \A r \in Pushers : (StaleAt(r, m)' <=> StaleAt(r, m)) /\ (WonAt(r, m)' <=> WonAt(r, m))
    BY <1>2, SameAt DEF pushVars, connVars
  <2>2. Settled(m)' <=> Settled(m)
    BY <1>2, <2>1 DEF Settled, connVars
  <2>3. cuts'[m] = cuts[m]
    BY <1>2 DEF connVars
  <2> QED BY <1>0, <1>2, <2>1, <2>2, <2>3, CopyFrame
<1>3. ASSUME UNCHANGED <<pushVars, connVars, queue, taken>> PROVE CopyOf(m)'
  <2>1. Places(m)' = Places(m)
    BY <1>3 DEF Places
  <2>2. IsFiniteSet(Places(m)') /\ Copies(m)' = Copies(m)
    BY <1>0, <1>3, <2>1 DEF Copies
  <2> QED BY <1>2, <1>3, <2>2
<1>4. ASSUME NEW p \in Pushers, NEW chans \in Routes, PushConnect(p, chans) PROVE CopyOf(m)'
  <2>1. /\ queue' = queue /\ taken' = taken /\ cuts' = cuts /\ answer' = answer /\ asking' = asking
        /\ cur' = cur /\ flags' = flags
        /\ pc[p] = "free" /\ pc'[p] = "recv" /\ conn[p] = "closed" /\ conn'[p] = "idle"
        /\ \A r \in Pushers : r # p => pc'[r] = pc[r] /\ conn'[r] = conn[r] /\ inbox'[r] = inbox[r]
    BY <1>0, <1>4 DEF PushConnect, pullVars
  <2>2. \A r \in Pushers : r # p => (StaleAt(r, m)' <=> StaleAt(r, m)) /\ (WonAt(r, m)' <=> WonAt(r, m))
    BY <2>1, SameAt
  <2>3. ~StaleAt(p, m)' /\ ~WonAt(p, m) /\ ~WonAt(p, m)'
    BY <2>1 DEF StaleAt, WonAt
  <2> QED BY <1>0, <2>1, <2>2, <2>3, CopyLocal
<1>5. ASSUME NEW p \in Pushers, PushStep(p) PROVE CopyOf(m)'
  BY <1>5, CopyPush, CopyQueue
<1>6. ASSUME NEW p \in Pushers, ServerStep(p) PROVE CopyOf(m)'
  BY <1>6, CopyServer
<1>7. ASSUME NEW q \in Pullers, PullStep(q) PROVE CopyOf(m)'
  <2>1. CASE PullPop(q)
    <3>1. PICK h \in Gateways : h = pull[q]
      BY <1>0, <2>1 DEF PullPop
    <3>2. /\ queue[h] # <<>> /\ queue' = [queue EXCEPT ![h] = Tail(@)]
          /\ taken' = [taken EXCEPT ![Head(queue[h])] = @ + 1] /\ UNCHANGED <<pushVars, connVars>>
      BY <2>1, <3>1 DEF PullPop
    <3>3. /\ IsFiniteSet(Places(m)')
          /\ Cardinality(Places(m)') = Cardinality(Places(m)) - (IF m = Head(queue[h]) THEN 1 ELSE 0)
      BY <1>0, <3>2, PlacesPop
    <3>4. taken'[m] = taken[m] + (IF m = Head(queue[h]) THEN 1 ELSE 0)
      <4>1. m \in Messages \cup Tests
        OBVIOUS
      <4> QED BY <1>0, <1>1, <3>2, <4>1
    <3>5. Copies(m)' = Copies(m)
      <4>1. CASE m = Head(queue[h])
        BY <1>1, <3>3, <3>4, <4>1 DEF Copies
      <4>2. CASE m # Head(queue[h])
        BY <1>1, <3>3, <3>4, <4>2 DEF Copies
      <4> QED BY <4>1, <4>2
    <3> QED BY <1>2, <3>2, <3>3, <3>5
  <2>2. CASE ~PullPop(q)
    BY <1>3, <1>7, <2>2, PullFrame
  <2> QED BY <2>1, <2>2
<1>8. ASSUME NEW t \in Tests, TestPush(t) PROVE CopyOf(m)'
  <2>1. PICK h \in Gateways : h = TestChannel[t]
    OBVIOUS
  <2>2. queue' = [queue EXCEPT ![h] = Append(@, t)] /\ taken' = taken /\ UNCHANGED <<pushVars, connVars>>
    BY <1>8, <2>1 DEF TestPush, pullVars
  <2>3. m # t /\ t \in Messages \cup Tests
    OBVIOUS
  <2>4. IsFiniteSet(Places(m)') /\ Cardinality(Places(m)') = Cardinality(Places(m))
    <3>1. PICK e \in Messages \cup Tests : e = t
      BY <2>3
    <3>2. queue' = [queue EXCEPT ![h] = Append(@, e)] /\ m # e
      BY <2>2, <2>3, <3>1
    <3>3. /\ IsFiniteSet(Places(m)')
          /\ Cardinality(Places(m)') = Cardinality(Places(m)) + (IF m = e THEN 1 ELSE 0)
      BY <1>0, <3>2, PlacesPush
    <3> QED BY <1>1, <3>2, <3>3
  <2>5. Copies(m)' = Copies(m)
    BY <2>2, <2>4 DEF Copies
  <2> QED BY <1>2, <2>2, <2>4, <2>5
<1>9. CASE UNCHANGED vars
  BY <1>3, <1>9 DEF vars, pullVars
<1>10. CASE Carrier
  BY <1>3, <1>10, PullFrame
<1> QED BY <1>4, <1>5, <1>6, <1>7, <1>8, <1>9, <1>10 DEF Next

\* Nothing is queued at the start.
LEMMA CopyInit == Init => CopyInv
<1> SUFFICES ASSUME Init, NEW m \in Messages PROVE CopyOf(m)
  BY DEF CopyInv
<1>1. Places(m) = {}
  <2>1. \A g \in Gateways : DOMAIN queue[g] = {}
    BY DEF Init
  <2>2. \A x : x \notin Places(m)
    BY <2>1, PlacesAre DEF InPlace
  <2> QED BY <2>2
<1>2. Stale(m) = {}
  BY DEF Init, Stale, StaleAt, Pending
<1>3. ~Settled(m) /\ taken[m] = 0 /\ cuts[m] = 0
  BY DEF Init, Settled, WonAt
<1>4. IsFiniteSet({}) /\ Cardinality({}) = 0
  BY FS_EmptySet
<1>5. Copies(m) = 0
  BY <1>1, <1>3, <1>4 DEF Copies
<1> QED BY <1>1, <1>2, <1>3, <1>4, <1>5 DEF CopyOf

\* What a server was told is what happened to its message, however often its
\* connection was cut: OK means queued, a refusal means not queued except by a
\* thread that was cut off, and each cut costs one extra copy at most
\* (scheduler.c:504-516 with server.c:436-473).
THEOREM AnswersMatch == Spec => []AnswersMatchQueues
<1>1. TypeInv /\ ProtoInv /\ CopyInv => AnswersMatchQueues
  <2> SUFFICES ASSUME TypeInv, ProtoInv, CopyInv, NEW m \in Messages
               PROVE  /\ Copies(m) <= 1 + cuts[m]
                      /\ answer[m] = "OK" => Copies(m) >= 1
                      /\ answer[m] \in {"REJECT", "NOROUTE"} => Copies(m) <= cuts[m]
    BY DEF AnswersMatchQueues
  <2>1. CopyOf(m) /\ IsFiniteSet(Places(m))
    BY DEF CopyInv, CopyOf
  <2>2. Copies(m) \in Nat /\ cuts[m] \in Nat /\ Cardinality(Stale(m)) \in Nat
    BY <2>1, CopyTypes
  <2>3. ASSUME answer[m] \in {"REJECT", "NOROUTE"} PROVE ~Settled(m)
    BY <2>3 DEF Settled, WonAt, ProtoInv, OwnedInv
  <2>4. ASSUME answer[m] = "OK" PROVE Settled(m)
    BY <2>4 DEF Settled
  <2>5. Copies(m) + Cardinality(Stale(m)) <= cuts[m] + (IF Settled(m) THEN 1 ELSE 0)
    BY <2>1 DEF CopyOf
  <2>6. Copies(m) <= 1 + cuts[m]
    BY <2>2, <2>5
  <2>7. ~Settled(m) => Copies(m) <= cuts[m]
    BY <2>2, <2>5
  <2>8. Settled(m) => Copies(m) >= 1
    BY <2>1 DEF CopyOf
  <2> QED BY <2>3, <2>4, <2>6, <2>7, <2>8
<1>2. Init => ScanInv
  BY DEF Init, ScanInv, ScanOK
<1> QED BY <1>1, <1>2, CopyInit, CopyStep, ProtoInit, ProtoStep, ScanStep, SchedulerTyped, PTL DEF Spec

=============================================================================
