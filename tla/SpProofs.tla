------------------------------ MODULE SpProofs ------------------------------
(***************************************************************************)
(* Proofs about Sp, for any number of messages, reports and losses of the  *)
(* link: its type invariant, the counters, the mapping of carrier ids, the *)
(* order of answers and reports, and what the end of a wait means.         *)
(***************************************************************************)
EXTENDS Sp, FiniteSetTheorems, SequenceTheorems, TLAPS

-----------------------------------------------------------------------------
(* Lists *)

\* Appending puts one element behind the others.
LEMMA Grown ==
  ASSUME NEW S, NEW s \in Seq(S), NEW e \in S
  PROVE  /\ Append(s, e) \in Seq(S) /\ Len(s) \in Nat
         /\ DOMAIN s = 1 .. Len(s) /\ DOMAIN Append(s, e) = 1 .. Len(s) + 1
         /\ \A k \in DOMAIN s : Append(s, e)[k] = s[k]
         /\ Append(s, e)[Len(s) + 1] = e
  BY AppendProperties, LenProperties

\* Taking the head moves the others one place forward.
LEMMA Shrunk ==
  ASSUME NEW S, NEW s \in Seq(S), s # <<>>
  PROVE  /\ Tail(s) \in Seq(S) /\ Len(s) \in Nat \ {0} /\ 1 \in DOMAIN s
         /\ Head(s) = s[1] /\ Head(s) \in S
         /\ DOMAIN s = 1 .. Len(s) /\ DOMAIN Tail(s) = 1 .. Len(s) - 1
         /\ \A k \in DOMAIN Tail(s) : k + 1 \in DOMAIN s /\ Tail(s)[k] = s[k + 1]
  BY HeadTailProperties, LenProperties

-----------------------------------------------------------------------------
(* Type correctness *)

\* The message in the sender's hand that has no sequence number yet.
Open == IF spc \in {"owner", "encode"} THEN 1 ELSE 0

\* The fields of `confirmed' are set once something was submitted, and there is a
\* sequence number for every message.
SenderLocals ==
  /\ confirmed.seq = seq
  /\ seq # 0 \/ spc = "encode" => confirmed.owner \in Owners
  /\ seq # 0 \/ spc \in {"owner", "encode"} => confirmed.id \in Msgs
  /\ spc \in {"owner", "encode", "count", "wait", "waiting"} => msg \in Msgs
  /\ seq + Open + Cardinality(fresh) <= Cardinality(Msgs)

\* An answer in the receiver's hand is about something that was submitted.
RecvLocals ==
  /\ rpc # "recv" => seq # 0 /\ ack \in [id : Carrier, msg : Msgs \cup {None}]
  /\ rpc = "store" => ack.msg \in Msgs

\* The carrier answers what it got.
CarrierLocals == \A n \in unanswered : truth[n] \in Msgs

TypeInv == TypeOK /\ SenderLocals /\ RecvLocals /\ CarrierLocals

\* The parts of the invariant.
LEMMA Parts ==
  TypeInv <=> /\ SenderTypes /\ RecvTypes /\ ListTypes /\ CacheTypes /\ StatTypes
              /\ CarrierTypes /\ SenderLocals /\ RecvLocals /\ CarrierLocals
  BY DEF TypeInv, TypeOK

\* There are finitely many messages, and as many sequence numbers.
LEMMA Counting ==
  /\ Cardinality(Msgs) \in Nat
  /\ \A F \in SUBSET Msgs : IsFiniteSet(F) /\ Cardinality(F) \in Nat
  BY SpAssumption, FS_CardinalityType, FS_Subset

\* Counters add up to counters.
LEMMA Sums == Zero \in Counter /\ \A x, y \in Counter : Plus(x, y) \in Counter
  BY DEF Zero, Counter, Plus

\* Initially all is well typed.
LEMMA TypeInit == Init => TypeInv
<1> SUFFICES ASSUME Init PROVE TypeInv
  OBVIOUS
<1> USE DEF Init
<1>1. Cardinality(Msgs) \in Nat
  BY Counting
<1>2. SenderTypes /\ RecvTypes
  BY DEF SenderTypes, RecvTypes
<1>3. ListTypes
  BY DEF ListTypes
<1>4. StatTypes
  BY Sums DEF StatTypes
<1>5. CacheTypes /\ CarrierTypes
  BY SpAssumption DEF CacheTypes, CarrierTypes
<1>6. SenderLocals /\ RecvLocals /\ CarrierLocals
  BY <1>1 DEF SenderLocals, RecvLocals, CarrierLocals, Open
<1> QED BY <1>2, <1>3, <1>4, <1>5, <1>6 DEF TypeInv, TypeOK

\* The sender keeps the types.
LEMMA TypeSender ==
  ASSUME TypeInv, Sender
  PROVE  TypeInv'
<1> USE DEF recvVars, workVars, statVars, carrierVars, history
<1>0. /\ SenderTypes /\ RecvTypes /\ ListTypes /\ CacheTypes /\ StatTypes /\ CarrierTypes
      /\ SenderLocals /\ RecvLocals /\ CarrierLocals
  BY Parts
<1>1. Cardinality(Msgs) \in Nat /\ IsFiniteSet(fresh) /\ Cardinality(fresh) \in Nat
  BY <1>0, Counting DEF SenderTypes
<1>2. ListTypes' /\ CacheTypes'
  BY <1>0 DEF Sender, SenderFetch, SenderOwner, SenderDiscard, SenderSubmit, SenderCount,
     SenderWait, SenderWoken, SenderTimeout, ListTypes, CacheTypes
<1>3. RecvTypes'
  <2>1. Handling \subseteq Carrier
    BY <1>0 DEF Handling, RecvLocals
  <2> QED BY <1>0, <2>1 DEF Sender, SenderFetch, SenderOwner, SenderDiscard, SenderSubmit,
             SenderCount, SenderWait, SenderWoken, SenderTimeout, RecvTypes
<1>4. ASSUME NEW m \in Msgs, SenderFetch(m) PROVE TypeInv'
  <2>1. Cardinality(fresh \ {m}) = Cardinality(fresh) - 1
    BY <1>1, <1>4, FS_RemoveElement DEF SenderFetch
  <2>2. SenderTypes'
    BY <1>0, <1>4 DEF SenderFetch, SenderTypes
  <2>3. SenderLocals'
    BY <1>0, <1>1, <1>4, <2>1 DEF SenderFetch, SenderLocals, Open, SenderTypes, Seqs
  <2>4. StatTypes' /\ CarrierTypes' /\ RecvLocals' /\ CarrierLocals'
    BY <1>0, <1>4 DEF SenderFetch, StatTypes, CarrierTypes, RecvLocals, CarrierLocals
  <2> QED BY <1>2, <1>3, <2>2, <2>3, <2>4 DEF TypeInv, TypeOK
<1>5. CASE SenderOwner
  <2>1. Owner[msg] \in Owners
    BY <1>0, <1>5 DEF SenderOwner, SenderLocals, Owners
  <2>2. SenderTypes'
    BY <1>0, <1>5, <2>1 DEF SenderOwner, SenderTypes
  <2>3. SenderLocals'
    BY <1>0, <1>1, <1>5, <2>1 DEF SenderOwner, SenderLocals, Open, SenderTypes, Seqs
  <2>4. StatTypes' /\ CarrierTypes' /\ RecvLocals' /\ CarrierLocals'
    BY <1>0, <1>5 DEF SenderOwner, StatTypes, CarrierTypes, RecvLocals, CarrierLocals
  <2> QED BY <1>2, <1>3, <2>2, <2>3, <2>4 DEF TypeInv, TypeOK
<1>6. CASE SenderDiscard \/ SenderWait \/ SenderWoken \/ SenderTimeout
  <2>1. SenderTypes'
    BY <1>0, <1>6 DEF SenderDiscard, SenderWait, SenderWoken, SenderTimeout, SenderTypes,
       SenderLocals
  <2>2. SenderLocals'
    BY <1>0, <1>1, <1>6 DEF SenderDiscard, SenderWait, SenderWoken, SenderTimeout,
       SenderLocals, Open, SenderTypes, Seqs
  <2>3. StatTypes' /\ CarrierTypes' /\ RecvLocals' /\ CarrierLocals'
    BY <1>0, <1>6 DEF SenderDiscard, SenderWait, SenderWoken, SenderTimeout, StatTypes,
       CarrierTypes, RecvLocals, CarrierLocals
  <2> QED BY <1>2, <1>3, <2>1, <2>2, <2>3 DEF TypeInv, TypeOK
<1>7. ASSUME NEW sent \in BOOLEAN, SenderSubmit(sent) PROVE TypeInv'
  <2>1. seq + 1 \in Seqs /\ seq + 1 # 0
    BY <1>0, <1>1, <1>7 DEF SenderSubmit, SenderLocals, Open, SenderTypes, Seqs
  <2>2. SenderTypes'
    BY <1>0, <1>7, <2>1 DEF SenderSubmit, SenderTypes
  <2>3. SenderLocals'
    <3>1. /\ confirmed' = [confirmed EXCEPT !.seq = seq + 1] /\ seq' = seq + 1
          /\ fresh' = fresh /\ spc = "encode" /\ spc' \in {"count", "counterr"}
          /\ spc' = "count" => msg' = msg
      BY <1>7 DEF SenderSubmit
    <3>2. confirmed'.seq = seq' /\ confirmed'.id = confirmed.id
          /\ confirmed'.owner = confirmed.owner
      BY <1>0, <3>1 DEF SenderTypes
    <3>3. seq \in Nat
      BY <1>0, <1>1 DEF SenderTypes, Seqs
    <3> QED BY <1>0, <1>1, <3>1, <3>2, <3>3 DEF SenderLocals, Open
  <2>4. CarrierTypes' /\ CarrierLocals'
    BY <1>0, <1>7, <2>1 DEF SenderSubmit, CarrierTypes, CarrierLocals, SenderLocals
  <2>5. StatTypes' /\ RecvLocals'
    BY <1>0, <1>7, <2>1 DEF SenderSubmit, StatTypes, RecvLocals
  <2> QED BY <1>2, <1>3, <2>2, <2>3, <2>4, <2>5 DEF TypeInv, TypeOK
<1>8. CASE SenderCount
  <2>1. StatTypes'
    BY <1>0, <1>8 DEF SenderCount, StatTypes, Counter
  <2>2. SenderTypes' /\ SenderLocals'
    BY <1>0, <1>1, <1>8 DEF SenderCount, SenderTypes, SenderLocals, Open
  <2>3. CarrierTypes' /\ RecvLocals' /\ CarrierLocals'
    BY <1>0, <1>8 DEF SenderCount, CarrierTypes, RecvLocals, CarrierLocals
  <2> QED BY <1>2, <1>3, <2>1, <2>2, <2>3 DEF TypeInv, TypeOK
<1> QED BY <1>4, <1>5, <1>6, <1>7, <1>8 DEF Sender

\* What the receiver reads from the wire.
LEMMA WireHead ==
  ASSUME ListTypes, wire # <<>>
  PROVE  /\ Head(wire) \in Packet /\ Tail(wire) \in Seq(Packet)
         /\ Head(wire).kind = "ack" =>
              /\ Head(wire).id \in Carrier /\ Head(wire).seq \in Seqs
              /\ Head(wire).result \in {0, 1}
         /\ Head(wire).kind # "ack" => Head(wire) \in Stored
<1>1. Head(wire) \in Packet /\ Tail(wire) \in Seq(Packet)
  BY Shrunk DEF ListTypes
<1> QED BY <1>1 DEF Packet, Stored

\* The receiver keeps the types.
LEMMA TypeReceiver ==
  ASSUME TypeInv, Receiver
  PROVE  TypeInv'
<1> USE DEF senderVars, workVars, statVars, carrierVars, history
<1>0. /\ SenderTypes /\ RecvTypes /\ ListTypes /\ CacheTypes /\ StatTypes /\ CarrierTypes
      /\ SenderLocals /\ RecvLocals /\ CarrierLocals
  BY Parts
<1>1. SenderTypes' /\ SenderLocals' /\ StatTypes' /\ CarrierTypes' /\ CarrierLocals'
  BY <1>0 DEF Receiver, RecvSubmitResp, RecvSignal, RecvRead, RecvDeliver, RecvCache,
     SenderTypes, SenderLocals, StatTypes, CarrierTypes, CarrierLocals, Open
<1>2. CASE RecvSubmitResp
  <2>1. wire # <<>> /\ Head(wire).kind = "ack"
    BY <1>2 DEF RecvSubmitResp, Arrived
  <2>2. Head(wire).id \in Carrier /\ Head(wire).seq \in Seqs
    BY <1>0, <2>1, WireHead
  <2>3. Head(wire).seq = confirmed.seq => seq # 0
    BY <1>0, <2>2, Counting DEF SenderLocals, Seqs
  <2>4. RecvTypes' /\ RecvLocals'
    BY <1>0, <1>2, <2>2, <2>3 DEF RecvSubmitResp, Arrived, RecvTypes, RecvLocals
  <2>5. ListTypes'
    BY <1>0, <1>2, <2>1, WireHead DEF RecvSubmitResp, ListTypes
  <2>6. CacheTypes'
    BY <1>0, <1>2, <2>2 DEF RecvSubmitResp, CacheTypes
  <2> QED BY <1>1, <2>4, <2>5, <2>6 DEF TypeInv, TypeOK
<1>3. CASE RecvSignal \/ RecvRead
  <2>1. RecvTypes' /\ RecvLocals'
    BY <1>0, <1>3 DEF RecvSignal, RecvRead, RecvTypes, RecvLocals, SenderLocals
  <2>2. ListTypes' /\ CacheTypes'
    BY <1>0, <1>3 DEF RecvSignal, RecvRead, ListTypes, CacheTypes
  <2> QED BY <1>1, <2>1, <2>2 DEF TypeInv, TypeOK
<1>4. CASE RecvDeliver
  <2>1. wire # <<>> /\ Head(wire).kind # "ack"
    BY <1>4 DEF RecvDeliver, Arrived
  <2>2. Head(wire) \in Stored /\ Tail(wire) \in Seq(Packet)
    BY <1>0, <2>1, WireHead
  <2>3. Append(storage, Head(wire)) \in Seq(Stored)
    BY <1>0, <2>2, Grown DEF ListTypes
  <2>4. ListTypes'
    BY <1>0, <1>4, <2>2, <2>3 DEF RecvDeliver, ListTypes
  <2>5. RecvTypes' /\ RecvLocals' /\ CacheTypes'
    BY <1>0, <1>4 DEF RecvDeliver, RecvTypes, RecvLocals, CacheTypes, recvVars
  <2> QED BY <1>1, <2>4, <2>5 DEF TypeInv, TypeOK
<1>5. ASSUME NEW done \in BOOLEAN, RecvCache(done) PROVE TypeInv'
  <2>1. [id |-> ack.msg, owner |-> confirmed.owner] \in Entry
    BY <1>0, <1>5 DEF RecvCache, RecvLocals, SenderLocals, Entry
  <2>2. ack.id \in Carrier
    BY <1>0, <1>5 DEF RecvCache, RecvLocals
  <2>3. CacheTypes'
    BY <1>0, <1>5, <2>1, <2>2 DEF RecvCache, CacheTypes
  <2>4. RecvTypes' /\ RecvLocals' /\ ListTypes'
    BY <1>0, <1>5 DEF RecvCache, RecvTypes, RecvLocals, ListTypes
  <2> QED BY <1>1, <2>3, <2>4 DEF TypeInv, TypeOK
<1> QED BY <1>2, <1>3, <1>4, <1>5 DEF Receiver

\* What was received is a report on a carrier id or a message of a subscriber.
LEMMA ReportNames ==
  ASSUME NEW x \in Stored
  PROVE  /\ x.kind = "report" => x.id \in Carrier /\ x = [kind |-> "report", id |-> x.id]
         /\ x.kind = "deliver" => x.id \in Delivers
         /\ x.kind \in {"report", "deliver"}
  BY DEF Stored, Packet

\* The worker keeps the types.
LEMMA TypeWorker ==
  ASSUME TypeInv, Worker
  PROVE  TypeInv'
<1> USE DEF senderVars, recvVars, carrierVars, history
<1>0. /\ SenderTypes /\ RecvTypes /\ ListTypes /\ CacheTypes /\ StatTypes /\ CarrierTypes
      /\ SenderLocals /\ RecvLocals /\ CarrierLocals
  BY Parts
<1>1. /\ SenderTypes' /\ SenderLocals' /\ RecvTypes' /\ RecvLocals' /\ CarrierTypes'
      /\ CarrierLocals'
  BY <1>0 DEF Worker, WorkPop, WorkNoCache, WorkReport, WorkDeliver, SenderTypes,
     SenderLocals, RecvTypes, RecvLocals, CarrierTypes, CarrierLocals, Open
<1>2. CASE WorkPop
  <2>1. Head(storage) \in Stored /\ Tail(storage) \in Seq(Stored)
    BY <1>0, <1>2, Shrunk DEF WorkPop, ListTypes
  <2>2. ListTypes'
    BY <1>0, <1>2, <2>1 DEF WorkPop, ListTypes
  <2>3. CacheTypes' /\ StatTypes'
    BY <1>0, <1>2 DEF WorkPop, CacheTypes, StatTypes, statVars
  <2> QED BY <1>1, <2>2, <2>3 DEF TypeInv, TypeOK
<1>3. CASE WorkNoCache
  <2>1. ListTypes' /\ StatTypes' /\ item.id \in Carrier
    BY <1>0, <1>3, ReportNames DEF WorkNoCache, ListTypes, StatTypes, statVars
  <2>2. [id |-> item.id, read |-> FALSE] \in [id : Carrier, read : BOOLEAN]
    BY <2>1
  <2>3. CacheTypes'
    BY <1>0, <1>3, <2>2 DEF WorkNoCache, CacheTypes
  <2> QED BY <1>1, <2>1, <2>3 DEF TypeInv, TypeOK
<1>4. ASSUME NEW sent \in BOOLEAN, NEW deleted \in BOOLEAN, WorkReport(sent, deleted)
      PROVE  TypeInv'
  <2>1. item.id \in Carrier /\ item' = None
    BY <1>0, <1>4, ReportNames DEF WorkReport, ListTypes
  <2>2. CASE cache[item.id] # None
    <3>1. cache[item.id] \in Entry
      BY <1>0, <2>1, <2>2 DEF CacheTypes
    <3>2. DelKey(item.id) \in Msgs
      BY <3>1 DEF DelKey, Entry
    <3>3. CacheTypes'
      BY <1>0, <1>4, <2>2, <3>2 DEF WorkReport, CacheTypes
    <3>4. StatTypes'
      BY <1>0, <1>4, <2>2 DEF WorkReport, StatTypes, Counter
    <3> DEFINE x == [kind |-> "report", of |-> item.id, entry |-> cache[item.id]]
    <3>5. x \in Routed
      BY <2>1, <3>1 DEF Routed
    <3>6. Append(forwarded, x) \in Seq(Routed)
      BY <1>0, <3>5, Grown DEF ListTypes
    <3>7. ListTypes'
      BY <1>0, <1>4, <2>1, <2>2, <3>6 DEF WorkReport, Pass, ListTypes
    <3> QED BY <1>1, <3>3, <3>4, <3>7 DEF TypeInv, TypeOK
  <2>3. CASE cache[item.id] = None
    <3>1. ListTypes' /\ StatTypes'
      BY <1>0, <1>4, <2>1, <2>3 DEF WorkReport, ListTypes, StatTypes
    <3>2. [id |-> item.id, read |-> TRUE] \in [id : Carrier, read : BOOLEAN]
      BY <2>1
    <3>3. CacheTypes'
      BY <1>0, <1>4, <2>3, <3>2 DEF WorkReport, CacheTypes
    <3> QED BY <1>1, <3>1, <3>3 DEF TypeInv, TypeOK
  <2> QED BY <2>2, <2>3
<1>5. ASSUME NEW sent \in BOOLEAN, WorkDeliver(sent) PROVE TypeInv'
  <2> DEFINE x == [kind |-> "deliver", of |-> item.id, entry |-> None]
  <2>1. x \in Routed
    BY <1>0, <1>5, ReportNames DEF WorkDeliver, ListTypes, Routed
  <2>2. Append(forwarded, x) \in Seq(Routed)
    BY <1>0, <2>1, Grown DEF ListTypes
  <2>3. ListTypes'
    BY <1>0, <1>5, <2>2 DEF WorkDeliver, Pass, ListTypes
  <2>4. CacheTypes' /\ StatTypes'
    BY <1>0, <1>5 DEF WorkDeliver, CacheTypes, StatTypes, statVars
  <2> QED BY <1>1, <2>3, <2>4 DEF TypeInv, TypeOK
<1> QED BY <1>2, <1>3, <1>4, <1>5 DEF Worker

\* The stat thread keeps the types.
LEMMA TypeStat ==
  ASSUME TypeInv, Stat
  PROVE  TypeInv'
<1> USE DEF senderVars, recvVars, workVars, statVars, carrierVars, history
<1>0. /\ SenderTypes /\ RecvTypes /\ ListTypes /\ CacheTypes /\ StatTypes /\ CarrierTypes
      /\ SenderLocals /\ RecvLocals /\ CarrierLocals
  BY Parts
<1>1. /\ SenderTypes' /\ SenderLocals' /\ RecvLocals' /\ CarrierTypes' /\ CarrierLocals'
      /\ ListTypes' /\ CacheTypes'
  BY <1>0 DEF Stat, StatSnapshot, StatWrite, StatExit, SenderTypes, SenderLocals, RecvLocals,
     CarrierTypes, CarrierLocals, ListTypes, CacheTypes, Open
<1>2. RecvTypes'
  BY <1>0 DEF Stat, StatSnapshot, StatWrite, StatExit, RecvTypes
<1>3. StatTypes'
  BY <1>0, Sums DEF Stat, StatSnapshot, StatWrite, StatExit, StatTypes
<1> QED BY <1>1, <1>2, <1>3 DEF TypeInv, TypeOK

\* Carrier and link keep the types.
LEMMA TypeEnvironment ==
  ASSUME TypeInv, Environment
  PROVE  TypeInv'
<1> USE DEF senderVars, recvVars, workVars, statVars, history
<1>0. /\ SenderTypes /\ RecvTypes /\ ListTypes /\ CacheTypes /\ StatTypes /\ CarrierTypes
      /\ SenderLocals /\ RecvLocals /\ CarrierLocals
  BY Parts
<1>1. SenderTypes' /\ SenderLocals' /\ RecvLocals' /\ CacheTypes' /\ StatTypes'
  <2>1. UNCHANGED <<senderVars, confirmed, rpc, ack, cache, statVars, dirty, exposed, mapped,
                    dropped, timedout, settled>>
    BY DEF Environment, CarrierAnswer, CarrierReport, CarrierDeliver, LinkDown, LinkUp
  <2>2. unmapped' \subseteq Carrier
    <3>1. \A k \in DOMAIN wire : wire[k] \in Packet
      BY <1>0, ElementOfSeq, LenProperties DEF ListTypes
    <3>2. \A k \in DOMAIN wire : wire[k].kind = "ack" => wire[k].id \in Carrier
      BY <3>1 DEF Packet
    <3>3. unmapped' = unmapped \/
          unmapped' = unmapped \cup {wire[k].id : k \in {j \in DOMAIN wire : wire[j].kind = "ack"}}
      BY DEF Environment, CarrierAnswer, CarrierReport, CarrierDeliver, LinkDown, LinkUp
    <3> QED BY <1>0, <3>2, <3>3 DEF CacheTypes
  <2> QED BY <1>0, <2>1, <2>2 DEF SenderTypes, SenderLocals, RecvLocals, CacheTypes, StatTypes,
             Open
<1>2. RecvTypes'
  BY <1>0 DEF Environment, CarrierAnswer, CarrierReport, CarrierDeliver, LinkDown, LinkUp,
     RecvTypes
<1>3. ASSUME NEW x \in Packet, wire' = Append(wire, x), UNCHANGED <<storage, item, forwarded>>
      PROVE  ListTypes'
  <2>1. Append(wire, x) \in Seq(Packet)
    BY <1>0, Grown DEF ListTypes
  <2> QED BY <1>0, <1>3, <2>1 DEF ListTypes
<1>4. ASSUME NEW n \in Seqs, NEW result \in {0, 1}, CarrierAnswer(n, result) PROVE TypeInv'
  <2>1. CarrierId[n] \in Carrier
    BY DEF Carrier
  <2>2. [kind |-> "ack", seq |-> n, id |-> CarrierId[n], result |-> result] \in Packet
    BY <2>1 DEF Packet
  <2>3. ListTypes'
    BY <1>3, <1>4, <2>2 DEF CarrierAnswer
  <2>4. truth[n] \in Msgs
    BY <1>0, <1>4 DEF CarrierAnswer, CarrierLocals
  <2>5. reportable' \in [Carrier -> 0 .. MaxReports]
    <3>1. MaxReports \in 0 .. MaxReports
      BY SpAssumption
    <3> QED BY <1>0, <1>4, <2>1, <3>1 DEF CarrierAnswer, CarrierTypes
  <2>6. CarrierTypes' /\ CarrierLocals'
    BY <1>0, <1>4, <2>4, <2>5 DEF CarrierAnswer, CarrierTypes, CarrierLocals
  <2> QED BY <1>1, <1>2, <2>3, <2>6 DEF TypeInv, TypeOK
<1>5. ASSUME NEW c \in Carrier, CarrierReport(c) PROVE TypeInv'
  <2>1. [kind |-> "report", id |-> c] \in Packet
    BY DEF Packet
  <2>2. ListTypes'
    BY <1>3, <1>5, <2>1 DEF CarrierReport
  <2>3. CarrierTypes' /\ CarrierLocals'
    BY <1>0, <1>5, SpAssumption DEF CarrierReport, CarrierTypes, CarrierLocals
  <2> QED BY <1>1, <1>2, <2>2, <2>3 DEF TypeInv, TypeOK
<1>6. ASSUME NEW d \in Delivers, CarrierDeliver(d) PROVE TypeInv'
  <2>1. [kind |-> "deliver", id |-> d] \in Packet
    BY DEF Packet
  <2>2. ListTypes'
    BY <1>3, <1>6, <2>1 DEF CarrierDeliver
  <2>3. CarrierTypes' /\ CarrierLocals'
    BY <1>0, <1>6 DEF CarrierDeliver, CarrierTypes, CarrierLocals
  <2> QED BY <1>1, <1>2, <2>2, <2>3 DEF TypeInv, TypeOK
<1>7. CASE LinkDown \/ LinkUp
  <2>1. <<>> \in Seq(Packet)
    OBVIOUS
  <2>2. ListTypes'
    BY <1>0, <1>7, <2>1 DEF LinkDown, LinkUp, ListTypes
  <2>3. CarrierTypes' /\ CarrierLocals'
    BY <1>0, <1>7 DEF LinkDown, LinkUp, CarrierTypes, CarrierLocals, carrierVars
  <2> QED BY <1>1, <1>2, <2>2, <2>3 DEF TypeInv, TypeOK
<1> QED BY <1>4, <1>5, <1>6, <1>7 DEF Environment

\* The locals of the four threads (sp.c:176-724) are set before they are used, in
\* every reachable state.
THEOREM SpTyped == Spec => []TypeInv
<1>1. TypeInv /\ [Next]_vars => TypeInv'
  <2> SUFFICES ASSUME TypeInv, [Next]_vars PROVE TypeInv'
    OBVIOUS
  <2>1. CASE UNCHANGED vars
    BY <2>1 DEF TypeInv, TypeOK, SenderTypes, RecvTypes, ListTypes, CacheTypes, StatTypes,
       CarrierTypes, SenderLocals, RecvLocals, CarrierLocals, Open, vars, senderVars,
       recvVars, workVars, statVars, carrierVars, history
  <2> QED BY <2>1, TypeSender, TypeReceiver, TypeWorker, TypeStat, TypeEnvironment DEF Next
<1> QED BY <1>1, TypeInit, PTL DEF Spec

\* TypeOK holds: every field holds what its thread may put there, and no answer gets
\* into `storage' (sp.c:354-452).
THEOREM TypesKept == Spec => []TypeOK
<1>1. TypeInv => TypeOK
  BY DEF TypeInv
<1> QED BY <1>1, SpTyped, PTL

-----------------------------------------------------------------------------
(* The counters *)

\* CountedOnce, its sums written out.
Submitted == written.submit + unwritten.submit + (curr.submit + stat.submit)
Reported  == written.report + unwritten.report + (curr.report + stat.report)
Uncounted == IF spc \in {"count", "counterr"} THEN 1 ELSE 0
Told      == {k \in DOMAIN forwarded : forwarded[k].kind = "report"}

CountInv ==
  /\ Submitted + Uncounted = seq
  /\ IsFiniteSet(Told) /\ Reported >= Cardinality(Told)

\* CountInv is CountedOnce with its sums written out.
LEMMA CountMeans == CountInv => CountedOnce
  BY DEF CountInv, CountedOnce, Plus, Submitted, Reported, Uncounted, Told

\* Passing something on adds at most one report to the ones passed on.
LEMMA ToldGrows ==
  ASSUME ListTypes, IsFiniteSet(Told), NEW x \in Routed, NEW sent \in BOOLEAN, Pass(sent, x)
  PROVE  /\ IsFiniteSet(Told')
         /\ Cardinality(Told') \in {Cardinality(Told), Cardinality(Told) + 1}
         /\ x.kind # "report" => Cardinality(Told') = Cardinality(Told)
<1>1. CASE ~sent
  BY <1>1 DEF Pass, Told
<1>2. CASE sent
  <2>1. /\ Len(forwarded) \in Nat /\ DOMAIN forwarded = 1 .. Len(forwarded)
        /\ DOMAIN forwarded' = 1 .. Len(forwarded) + 1
        /\ \A k \in DOMAIN forwarded : forwarded'[k] = forwarded[k]
        /\ forwarded'[Len(forwarded) + 1] = x
    BY <1>2, Grown DEF ListTypes, Pass
  <2>2. CASE x.kind = "report"
    <3>1. Told' = Told \cup {Len(forwarded) + 1} /\ Len(forwarded) + 1 \notin Told
      BY <2>1, <2>2 DEF Told
    <3> QED BY <2>2, <3>1, FS_AddElement
  <2>3. CASE x.kind # "report"
    <3>1. Told' = Told
      BY <2>1, <2>3 DEF Told
    <3> QED BY <2>3, <3>1
  <2> QED BY <2>2, <2>3
<1> QED BY <1>1, <1>2

\* Every step keeps the count.
LEMMA CountStep ==
  ASSUME TypeInv, TypeInv', CountInv, [Next]_vars
  PROVE  CountInv'
<1>0. /\ SenderTypes /\ StatTypes /\ ListTypes /\ CacheTypes /\ SenderTypes' /\ StatTypes'
      /\ Cardinality(Msgs) \in Nat /\ seq \in Nat
  BY Counting DEF TypeInv, TypeOK, SenderTypes, Seqs
<1>1. CASE UNCHANGED <<spc, seq, statVars, forwarded>>
  <2>1. Told' = Told
    BY <1>1 DEF Told
  <2> QED BY <1>1, <2>1 DEF CountInv, Submitted, Reported, Uncounted, statVars
<1>2. CASE /\ UNCHANGED <<statVars, forwarded>>
           /\ seq' = seq /\ Uncounted' = Uncounted
  <2>1. Told' = Told
    BY <1>2 DEF Told
  <2> QED BY <1>2, <2>1 DEF CountInv, Submitted, Reported, statVars
<1>3. ASSUME NEW sent \in BOOLEAN, SenderSubmit(sent) PROVE CountInv'
  <2>1. Told' = Told
    BY <1>3 DEF SenderSubmit, Told, workVars
  <2>2. UNCHANGED statVars /\ seq' = seq + 1 /\ Uncounted = 0 /\ Uncounted' = 1
    BY <1>3 DEF SenderSubmit, Uncounted
  <2> QED BY <1>0, <2>1, <2>2 DEF CountInv, Submitted, Reported, statVars, StatTypes, Counter
<1>4. CASE SenderCount
  <2>1. Told' = Told
    BY <1>4 DEF SenderCount, Told, workVars
  <2>2. /\ stat'.submit = stat.submit + 1 /\ stat'.report = stat.report
        /\ UNCHANGED <<curr, written, unwritten, seq>> /\ Uncounted = 1 /\ Uncounted' = 0
    BY <1>0, <1>4 DEF SenderCount, Uncounted, StatTypes, Counter
  <2> QED BY <1>0, <2>1, <2>2 DEF CountInv, Submitted, Reported, StatTypes, Counter
<1>5. ASSUME NEW sent \in BOOLEAN, NEW deleted \in BOOLEAN, WorkReport(sent, deleted)
      PROVE  CountInv'
  <2>1. UNCHANGED <<curr, written, unwritten, seq>> /\ Uncounted' = Uncounted
    BY <1>5 DEF WorkReport, Uncounted, senderVars
  <2>2. CASE cache[item.id] # None
    <3> DEFINE x == [kind |-> "report", of |-> item.id, entry |-> cache[item.id]]
    <3>1. item.id \in Carrier
      BY <1>0, <1>5, ReportNames DEF WorkReport, ListTypes
    <3>2. x \in Routed
      BY <1>0, <2>2, <3>1 DEF CacheTypes, Routed
    <3>3. Pass(sent, x) /\ stat'.report = stat.report + 1 /\ stat'.submit = stat.submit
      BY <1>0, <1>5, <2>2 DEF WorkReport, StatTypes, Counter
    <3>4. /\ IsFiniteSet(Told')
          /\ Cardinality(Told') \in {Cardinality(Told), Cardinality(Told) + 1}
      BY <1>0, <3>2, <3>3, ToldGrows DEF CountInv
    <3>5. Cardinality(Told) \in Nat
      BY FS_CardinalityType DEF CountInv
    <3>6. Submitted' = Submitted /\ Reported' = Reported + 1
      BY <1>0, <2>1, <3>3 DEF Submitted, Reported, StatTypes, Counter
    <3>7. Reported \in Nat
      BY <1>0 DEF Reported, StatTypes, Counter
    <3>8. Reported' >= Cardinality(Told)'
      BY <3>4, <3>5, <3>6, <3>7 DEF CountInv
    <3> QED BY <2>1, <3>4, <3>6, <3>8 DEF CountInv
  <2>3. CASE cache[item.id] = None
    <3>1. UNCHANGED <<stat, forwarded>> /\ Told' = Told
      BY <1>5, <2>3 DEF WorkReport, Told
    <3> QED BY <2>1, <3>1 DEF CountInv, Submitted, Reported
  <2> QED BY <2>2, <2>3
<1>6. ASSUME NEW sent \in BOOLEAN, WorkDeliver(sent) PROVE CountInv'
  <2> DEFINE x == [kind |-> "deliver", of |-> item.id, entry |-> None]
  <2>1. x \in Routed
    BY <1>0, <1>6, ReportNames DEF WorkDeliver, ListTypes, Routed
  <2>2. IsFiniteSet(Told') /\ Cardinality(Told') = Cardinality(Told)
    BY <1>0, <1>6, <2>1, ToldGrows DEF WorkDeliver, CountInv
  <2>3. UNCHANGED <<statVars, seq>> /\ Uncounted' = Uncounted
    BY <1>6 DEF WorkDeliver, Uncounted, senderVars
  <2> QED BY <2>2, <2>3 DEF CountInv, Submitted, Reported, statVars
<1>7. CASE StatSnapshot \/ \E done \in BOOLEAN : StatWrite(done)
  <2>1. Told' = Told /\ seq' = seq /\ Uncounted' = Uncounted
    BY <1>7 DEF StatSnapshot, StatWrite, Told, Uncounted, senderVars, workVars
  <2>2. Submitted' = Submitted /\ Reported' = Reported
    BY <1>0, <1>7 DEF StatSnapshot, StatWrite, Submitted, Reported, StatTypes, Counter, Plus, Zero
  <2> QED BY <2>1, <2>2 DEF CountInv
<1>8. CASE Sender
  <2>1. CASE \/ \E m \in Msgs : SenderFetch(m)
             \/ SenderOwner \/ SenderDiscard \/ SenderWait \/ SenderWoken \/ SenderTimeout
    BY <1>2, <2>1 DEF SenderFetch, SenderOwner, SenderDiscard, SenderWait, SenderWoken,
       SenderTimeout, Uncounted, workVars
  <2> QED BY <1>3, <1>4, <1>8, <2>1 DEF Sender
<1>9. CASE Receiver \/ Environment \/ WorkPop \/ WorkNoCache \/ StatExit \/ UNCHANGED vars
  BY <1>1, <1>9 DEF Receiver, RecvSubmitResp, RecvSignal, RecvRead, RecvDeliver, RecvCache,
     Environment, CarrierAnswer, CarrierReport, CarrierDeliver, LinkDown, LinkUp, WorkPop,
     WorkNoCache, StatExit, vars, senderVars, workVars
<1> QED BY <1>5, <1>6, <1>7, <1>8, <1>9 DEF Next, Worker, Stat

\* CountedOnce holds, for any number of messages and reports: a submission is counted once
\* and a report passed on is counted, in a row, in a snapshot or in memory
\* (sp.c:259-264, 529-532, 713-726).
THEOREM Counted == Spec => []CountedOnce
<1>1. Init => CountInv
  <2> SUFFICES ASSUME Init PROVE CountInv
    OBVIOUS
  <2>1. Told = {}
    BY DEF Init, Told
  <2> QED BY <2>1, FS_EmptySet DEF Init, CountInv, Submitted, Reported, Uncounted, Zero
<1>2. TypeInv /\ TypeInv' /\ CountInv /\ [Next]_vars => CountInv'
  BY CountStep
<1> QED BY <1>1, <1>2, SpTyped, CountMeans, PTL DEF Spec

-----------------------------------------------------------------------------
(* The mapping of carrier ids *)

\* What is at the carrier or on its way back was submitted, under the id in the answer.
OutInv ==
  /\ \A n \in Seqs : truth[n] # None => n <= seq
  /\ \A k \in DOMAIN wire : wire[k].kind = "ack" =>
       truth[wire[k].seq] # None /\ wire[k].id = CarrierId[wire[k].seq]

\* Outside the rewrite of `confirmed', it names the last message submitted.
EditInv ==
  /\ spc \in {"owner", "encode"} => dirty
  /\ spc = "owner" => confirmed.id = msg
  /\ spc = "encode" => confirmed.id = msg /\ confirmed.owner = Owner[msg]
  /\ ~dirty /\ seq # 0 /\ truth[seq] # None =>
       confirmed.id = truth[seq] /\ confirmed.owner = Owner[truth[seq]]

\* The answer in the receiver's hand is exposed, or `confirmed' still is about it.
AckInv ==
  rpc # "recv" => \E n \in Seqs :
    /\ ack.id = CarrierId[n] /\ truth[n] # None
    /\ ack.id \notin exposed => ~dirty /\ seq = n
    /\ ack.id \notin exposed /\ rpc = "store" => ack.msg = truth[n]

\* An id the carrier has not given yet is not in the cache, nor was a report on it
\* passed on; the DEL of sp.c:524 never meets an entry.
KeyInv ==
  /\ \A n \in Seqs : truth[n] = None =>
       /\ cache[CarrierId[n]] = None
       /\ \A k \in DOMAIN forwarded :
            forwarded[k].kind = "report" => forwarded[k].of # CarrierId[n]
  /\ \A m \in Msgs : cache[m] = None

MapInv == OutInv /\ EditInv /\ AckInv /\ KeyInv /\ MappingRight

\* What the sender leaves alone.
LEMMA SenderLeaves ==
  ASSUME Sender
  PROVE  UNCHANGED <<rpc, ack, wire, storage, item, forwarded, cache, accepted, reportable,
                     mapped, unmapped, dropped>>
  BY DEF Sender, SenderFetch, SenderOwner, SenderDiscard, SenderSubmit, SenderCount, SenderWait,
     SenderWoken, SenderTimeout, recvVars, workVars, carrierVars, history

\* SenderSubmit is the step that submits.
LEMMA SubmitsOnly ==
  ASSUME Sender, \A sent \in BOOLEAN : ~SenderSubmit(sent)
  PROVE  UNCHANGED <<seq, truth, unanswered>>
  BY DEF Sender, SenderFetch, SenderOwner, SenderDiscard, SenderCount, SenderWait, SenderWoken,
     SenderTimeout, carrierVars

\* What the receiver leaves alone.
LEMMA ReceiverLeaves ==
  ASSUME Receiver
  PROVE  UNCHANGED <<spc, msg, seq, confirmed, dirty, item, forwarded, truth, unanswered,
                     accepted, reportable, dropped, timedout, settled>>
  BY DEF Receiver, RecvSubmitResp, RecvSignal, RecvRead, RecvDeliver, RecvCache, senderVars,
     workVars, carrierVars, history

\* What worker and stat thread leave alone.
LEMMA OthersLeave ==
  ASSUME Worker \/ Stat
  PROVE  UNCHANGED <<spc, msg, seq, confirmed, signalled, dirty, rpc, ack, exposed, wire, truth,
                     unanswered, accepted, reportable, mapped, unmapped, timedout, settled>>
  BY DEF Worker, WorkPop, WorkNoCache, WorkReport, WorkDeliver, Stat, StatSnapshot, StatWrite,
     StatExit, senderVars, recvVars, carrierVars, history

\* What the stat thread leaves to the worker.
LEMMA StatLeaves ==
  ASSUME Stat
  PROVE  UNCHANGED <<storage, item, forwarded, cache, dropped>>
  BY DEF Stat, StatSnapshot, StatWrite, StatExit, workVars, history

\* What carrier and link leave alone.
LEMMA EnvironmentLeaves ==
  ASSUME Environment
  PROVE  /\ UNCHANGED <<spc, msg, seq, confirmed, signalled, dirty, rpc, ack, exposed, storage, item,
                     forwarded, cache, truth, mapped, dropped, timedout, settled>>
         /\ unmapped \subseteq unmapped'
  BY DEF Environment, CarrierAnswer, CarrierReport, CarrierDeliver, LinkDown, LinkUp,
     senderVars, recvVars, workVars, carrierVars, history

\* A stuttering step leaves all of this alone.
LEMMA StutterLeaves ==
  ASSUME UNCHANGED vars
  PROVE  UNCHANGED <<spc, msg, seq, confirmed, signalled, dirty, rpc, ack, exposed, storage, item,
                     forwarded, cache, truth, mapped, unmapped, dropped, timedout, settled, wire,
                     unanswered, accepted, reportable>>
  BY DEF vars, senderVars, recvVars, workVars, carrierVars, history

\* What the carrier sends.
Answer(n, result) == [kind |-> "ack", seq |-> n, id |-> CarrierId[n], result |-> result]
ReportOn(c)       == [kind |-> "report", id |-> c]
MessageOf(d)      == [kind |-> "deliver", id |-> d]

\* What the carrier sends are packets.
LEMMA Packets ==
  /\ \A n \in Seqs : CarrierId[n] \in Carrier
  /\ \A n \in Seqs, result \in {0, 1} : Answer(n, result) \in Packet
  /\ \A c \in Carrier : ReportOn(c) \in Packet
  /\ \A d \in Delivers : MessageOf(d) \in Packet
  BY DEF Packet, Carrier, Answer, ReportOn, MessageOf

\* How the wire changes: it grows at its end, loses its head, is emptied or stays.
LEMMA WireSteps ==
  ASSUME [Next]_vars
  PROVE  \/ UNCHANGED wire
         \/ \E n \in Seqs, result \in {0, 1} : CarrierAnswer(n, result)
         \/ \E c \in Carrier : CarrierReport(c)
         \/ \E d \in Delivers : CarrierDeliver(d)
         \/ Receiver /\ wire # <<>> /\ wire' = Tail(wire)
         \/ LinkDown
<1>1. CASE Environment
  BY <1>1 DEF Environment, LinkUp
<1>2. CASE Receiver
  BY <1>2 DEF Receiver, RecvSubmitResp, RecvSignal, RecvRead, RecvDeliver, RecvCache, Arrived
<1> QED BY <1>1, <1>2, SenderLeaves, OthersLeave, StutterLeaves DEF Next

\* A number is given to a message once.
LEMMA FreshNumber ==
  ASSUME TypeInv, OutInv, NEW sent \in BOOLEAN, SenderSubmit(sent)
  PROVE  /\ seq \in Nat /\ seq + 1 \in Seqs /\ truth[seq + 1] = None /\ seq' = seq + 1
         /\ \A n \in Seqs : n # seq + 1 => truth'[n] = truth[n]
         /\ ~sent => truth' = truth
         /\ sent => truth'[seq + 1] = msg /\ msg \in Msgs /\ msg # None
<1>1. Cardinality(Msgs) \in Nat /\ Cardinality(fresh) \in Nat
  BY Counting DEF TypeInv, TypeOK, SenderTypes
<1>2. seq \in Nat /\ seq + 1 \in Seqs
  BY <1>1 DEF TypeInv, TypeOK, SenderTypes, SenderLocals, Open, SenderSubmit, Seqs
<1>3. truth[seq + 1] = None
  BY <1>2 DEF OutInv
<1>4. truth \in [Seqs -> Msgs \cup {None}] /\ msg \in Msgs /\ msg # None
  BY SpAssumption DEF TypeInv, TypeOK, CarrierTypes, SenderLocals, SenderSubmit
<1> QED BY <1>2, <1>3, <1>4 DEF SenderSubmit

\* Every step keeps OutInv.
LEMMA OutStep ==
  ASSUME TypeInv, OutInv, [Next]_vars
  PROVE  OutInv'
<1>0. ListTypes /\ CarrierTypes /\ CarrierLocals /\ SenderTypes /\ SenderLocals
  BY DEF TypeInv, TypeOK
<1>1. ASSUME NEW sent \in BOOLEAN, SenderSubmit(sent) PROVE OutInv'
  <2>1. wire' = wire
    BY <1>1, SenderLeaves DEF Sender
  <2>2. \A k \in DOMAIN wire : wire[k].kind = "ack" => wire[k].seq \in Seqs
    BY <1>0 DEF ListTypes, Packet
  <2>3. \A n \in Seqs : truth[n] # None => truth'[n] # None
    BY <1>1, FreshNumber
  <2>4. \A n \in Seqs : truth'[n] # None => n <= seq'
    BY <1>1, FreshNumber DEF OutInv, Seqs
  <2> QED BY <2>1, <2>2, <2>3, <2>4 DEF OutInv
<1>2. CASE \A sent \in BOOLEAN : ~SenderSubmit(sent)
  <2>1. UNCHANGED <<seq, truth>>
    BY <1>2, SubmitsOnly, ReceiverLeaves, OthersLeave, EnvironmentLeaves, StutterLeaves DEF Next
  <2>2. CASE wire' = wire \/ LinkDown
    BY <2>1, <2>2 DEF OutInv, LinkDown
  <2>3. CASE wire # <<>> /\ wire' = Tail(wire)
    BY <1>0, <2>1, <2>3, Shrunk DEF OutInv, ListTypes
  <2>4. ASSUME NEW x \in Packet, wire' = Append(wire, x),
               x.kind = "ack" => truth[x.seq] # None /\ x.id = CarrierId[x.seq]
        PROVE  OutInv'
    BY <1>0, <2>1, <2>4, Grown DEF OutInv, ListTypes
  <2>5. ASSUME NEW n \in Seqs, NEW result \in {0, 1}, CarrierAnswer(n, result) PROVE OutInv'
    <3>1. wire' = Append(wire, Answer(n, result)) /\ truth[n] # None
      BY <1>0, <2>5, SpAssumption DEF CarrierAnswer, CarrierLocals, Answer
    <3>2. Answer(n, result).seq = n /\ Answer(n, result).id = CarrierId[n]
      BY DEF Answer
    <3> QED BY <2>4, <3>1, <3>2, Packets
  <2>6. ASSUME NEW c \in Carrier, CarrierReport(c) PROVE OutInv'
    <3>1. wire' = Append(wire, ReportOn(c)) /\ ReportOn(c).kind # "ack"
      BY <2>6 DEF CarrierReport, ReportOn
    <3> QED BY <2>4, <3>1, Packets
  <2>7. ASSUME NEW d \in Delivers, CarrierDeliver(d) PROVE OutInv'
    <3>1. wire' = Append(wire, MessageOf(d)) /\ MessageOf(d).kind # "ack"
      BY <2>7 DEF CarrierDeliver, MessageOf
    <3> QED BY <2>4, <3>1, Packets
  <2> QED BY <2>2, <2>3, <2>5, <2>6, <2>7, WireSteps
<1> QED BY <1>1, <1>2

\* Only the sender and what it submits touch EditInv.
LEMMA EditStep ==
  ASSUME TypeInv, OutInv, EditInv, [Next]_vars
  PROVE  EditInv'
<1>0. SenderTypes /\ SenderLocals /\ CarrierTypes
  BY DEF TypeInv, TypeOK
<1>1. CASE UNCHANGED <<spc, msg, seq, confirmed, dirty, truth>>
  BY <1>1 DEF EditInv
<1>2. ASSUME NEW m \in Msgs, SenderFetch(m) PROVE EditInv'
  BY <1>0, <1>2 DEF SenderFetch, EditInv, SenderTypes
<1>3. CASE SenderOwner
  BY <1>0, <1>3 DEF SenderOwner, EditInv, SenderTypes
<1>4. ASSUME NEW sent \in BOOLEAN, SenderSubmit(sent) PROVE EditInv'
  <2>1. /\ spc = "encode" /\ spc' \in {"count", "counterr"} /\ seq' = seq + 1
        /\ confirmed'.id = confirmed.id /\ confirmed'.owner = confirmed.owner
    BY <1>0, <1>4 DEF SenderSubmit, SenderTypes
  <2>2. CASE sent
    BY <1>4, <2>1, <2>2, FreshNumber DEF EditInv
  <2>3. CASE ~sent
    BY <1>4, <2>1, <2>3, FreshNumber DEF EditInv
  <2> QED BY <2>2, <2>3
<1>5. CASE SenderDiscard \/ SenderCount \/ SenderWait \/ SenderWoken \/ SenderTimeout
  BY <1>0, <1>5 DEF SenderDiscard, SenderCount, SenderWait, SenderWoken, SenderTimeout,
     EditInv, carrierVars, history
<1>6. CASE Sender
  BY <1>2, <1>3, <1>4, <1>5, <1>6 DEF Sender
<1> QED BY <1>1, <1>6, ReceiverLeaves, OthersLeave, EnvironmentLeaves, StutterLeaves DEF Next

\* The sender and the receiver keep AckInv.
LEMMA AckStep ==
  ASSUME TypeInv, OutInv, EditInv, AckInv, [Next]_vars
  PROVE  AckInv'
<1>0. /\ SenderTypes /\ SenderLocals /\ RecvTypes /\ RecvLocals /\ ListTypes /\ CarrierTypes
  BY DEF TypeInv, TypeOK
<1>1. CASE UNCHANGED <<rpc, ack, truth, exposed, dirty, seq>>
  BY <1>1 DEF AckInv
<1>2. CASE SenderOwner \/ \E m \in Msgs : SenderFetch(m)
  <2>1. /\ UNCHANGED <<rpc, ack, truth, seq>> /\ exposed' = exposed \cup Handling
    BY <1>2 DEF SenderOwner, SenderFetch, recvVars, carrierVars
  <2>2. rpc # "recv" => ack'.id \in exposed'
    BY <2>1 DEF Handling
  <2> QED BY <2>1, <2>2 DEF AckInv
<1>3. ASSUME NEW sent \in BOOLEAN, SenderSubmit(sent) PROVE AckInv'
  <2>1. dirty /\ UNCHANGED <<rpc, ack, exposed>>
    BY <1>3 DEF SenderSubmit, EditInv, recvVars
  <2>2. \A n \in Seqs : truth[n] # None => truth'[n] # None
    BY <1>3, FreshNumber
  <2> QED BY <2>1, <2>2 DEF AckInv
<1>4. CASE SenderDiscard \/ SenderCount \/ SenderWait \/ SenderWoken \/ SenderTimeout
  BY <1>1, <1>4 DEF SenderDiscard, SenderCount, SenderWait, SenderWoken, SenderTimeout,
     recvVars, carrierVars, history
<1>5. CASE RecvSubmitResp
  <2>0. wire # <<>> /\ Head(wire).kind = "ack" /\ rpc = "recv"
    BY <1>5 DEF RecvSubmitResp, Arrived
  <2>1. /\ Head(wire).seq \in Seqs /\ truth[Head(wire).seq] # None
        /\ Head(wire).id = CarrierId[Head(wire).seq]
    BY <1>0, <2>0, WireHead, Shrunk DEF OutInv, ListTypes
  <2>2. CASE Head(wire).seq = confirmed.seq /\ Head(wire).result = 0
    <3>1. /\ rpc' = "signal" /\ ack'.id = Head(wire).id
          /\ ack'.id \notin exposed' => ~dirty
          /\ UNCHANGED <<truth, dirty, seq>>
      BY <1>5, <2>2 DEF RecvSubmitResp, senderVars, carrierVars
    <3>2. seq = Head(wire).seq
      BY <1>0, <2>2 DEF SenderLocals
    <3> QED BY <2>1, <3>1, <3>2 DEF AckInv
  <2>3. CASE ~(Head(wire).seq = confirmed.seq /\ Head(wire).result = 0)
    BY <1>5, <2>0, <2>3 DEF RecvSubmitResp, AckInv
  <2> QED BY <2>2, <2>3
<1>6. CASE RecvSignal
  BY <1>6 DEF RecvSignal, AckInv, senderVars, carrierVars, history
<1>7. CASE RecvRead
  <2>1. /\ rpc = "cache" /\ rpc' = "store" /\ ack'.id = ack.id /\ ack'.msg = confirmed.id
        /\ UNCHANGED <<truth, exposed, dirty, seq>>
    BY <1>0, <1>7 DEF RecvRead, RecvLocals, senderVars, carrierVars, history
  <2>2. PICK n \in Seqs : /\ ack.id = CarrierId[n] /\ truth[n] # None
                          /\ ack.id \notin exposed => ~dirty /\ seq = n
    BY <2>1 DEF AckInv
  <2>3. n # 0
    BY Counting DEF Seqs
  <2>4. ack'.id \notin exposed' => ack'.msg = truth[n]
    BY <2>1, <2>2, <2>3 DEF EditInv
  <2> QED BY <2>1, <2>2, <2>4 DEF AckInv
<1>8. CASE RecvDeliver
  BY <1>1, <1>8 DEF RecvDeliver, senderVars, recvVars, carrierVars, history
<1>9. ASSUME NEW done \in BOOLEAN, RecvCache(done) PROVE AckInv'
  BY <1>9 DEF RecvCache, AckInv
<1>10. CASE Sender \/ Receiver
  BY <1>2, <1>3, <1>4, <1>5, <1>6, <1>7, <1>8, <1>9, <1>10 DEF Sender, Receiver
<1> QED BY <1>1, <1>10, OthersLeave, EnvironmentLeaves, StutterLeaves DEF Next

\* The DEL after a report, whose key is a message id, leaves the carrier ids alone.
LEMMA DelMisses ==
  ASSUME TypeInv, NEW sent \in BOOLEAN, NEW deleted \in BOOLEAN, WorkReport(sent, deleted)
  PROVE  /\ item.id \in Carrier /\ item = ReportOn(item.id)
         /\ \A c \in Carrier : cache'[c] = cache[c]
         /\ \A m \in Msgs : cache[m] = None => cache'[m] = None
<1>1. ListTypes /\ CacheTypes
  BY DEF TypeInv, TypeOK
<1>2. item.id \in Carrier /\ item = ReportOn(item.id)
  BY <1>1, ReportNames DEF WorkReport, ListTypes, ReportOn
<1>3. cache[item.id] # None => DelKey(item.id) \in Msgs
  BY <1>1, <1>2 DEF CacheTypes, Entry, DelKey
<1>4. Carrier \cap Msgs = {}
  BY SpAssumption
<1> QED BY <1>1, <1>2, <1>3, <1>4 DEF WorkReport, CacheTypes

\* What the worker passes on, if it passes anything on.
LEMMA Passing ==
  ASSUME TypeInv, Worker
  PROVE  \/ UNCHANGED forwarded
         \/ \E x \in Routed : /\ forwarded' = Append(forwarded, x)
                              /\ x.kind = "report" =>
                                   x.entry # None /\ x.entry = cache[x.of] /\ x.of \in Carrier
<1>0. ListTypes /\ CacheTypes
  BY DEF TypeInv, TypeOK
<1>1. ASSUME NEW sent \in BOOLEAN, NEW deleted \in BOOLEAN, WorkReport(sent, deleted),
             cache[item.id] # None, sent
      PROVE  \E x \in Routed : /\ forwarded' = Append(forwarded, x)
                               /\ x.entry # None /\ x.entry = cache[x.of] /\ x.of \in Carrier
  <2> DEFINE x == [kind |-> "report", of |-> item.id, entry |-> cache[item.id]]
  <2>1. item.id \in Carrier
    BY <1>1, DelMisses
  <2>2. x \in Routed
    BY <1>0, <1>1, <2>1 DEF CacheTypes, Routed
  <2>3. forwarded' = Append(forwarded, x)
    BY <1>1 DEF WorkReport, Pass
  <2> QED BY <1>1, <2>1, <2>2, <2>3
<1>2. ASSUME NEW sent \in BOOLEAN, WorkDeliver(sent), sent
      PROVE  \E x \in Routed : forwarded' = Append(forwarded, x) /\ x.kind # "report"
  <2> DEFINE x == [kind |-> "deliver", of |-> item.id, entry |-> None]
  <2>1. x \in Routed
    BY <1>0, <1>2, ReportNames DEF WorkDeliver, ListTypes, Routed
  <2>2. forwarded' = Append(forwarded, x)
    BY <1>2 DEF WorkDeliver, Pass
  <2> QED BY <2>1, <2>2
<1>3. ASSUME NEW sent \in BOOLEAN, NEW deleted \in BOOLEAN, WorkReport(sent, deleted)
      PROVE  UNCHANGED forwarded \/ (cache[item.id] # None /\ sent)
  BY <1>3 DEF WorkReport, Pass
<1>4. ASSUME NEW sent \in BOOLEAN, WorkDeliver(sent) PROVE UNCHANGED forwarded \/ sent
  BY <1>4 DEF WorkDeliver, Pass
<1>5. CASE WorkPop \/ WorkNoCache
  BY <1>5 DEF WorkPop, WorkNoCache
<1> QED BY <1>1, <1>2, <1>3, <1>4, <1>5 DEF Worker

\* The worker's steps on the cache.
LEMMA WorkerCache ==
  ASSUME TypeInv, Worker
  PROVE  /\ \A c \in Carrier : cache'[c] = cache[c]
         /\ \A m \in Msgs : cache[m] = None => cache'[m] = None
<1>1. CASE WorkPop \/ WorkNoCache \/ \E sent \in BOOLEAN : WorkDeliver(sent)
  BY <1>1 DEF WorkPop, WorkNoCache, WorkDeliver
<1> QED BY <1>1, DelMisses DEF Worker

\* Every step keeps KeyInv.
LEMMA KeyStep ==
  ASSUME TypeInv, OutInv, AckInv, KeyInv, [Next]_vars
  PROVE  KeyInv'
<1>0. ListTypes /\ CacheTypes /\ RecvLocals
  BY DEF TypeInv, TypeOK
<1>1. CASE UNCHANGED <<truth, cache, forwarded>>
  BY <1>1 DEF KeyInv
<1>2. ASSUME NEW sent \in BOOLEAN, SenderSubmit(sent) PROVE KeyInv'
  <2>1. UNCHANGED <<cache, forwarded>>
    BY <1>2, SenderLeaves DEF Sender
  <2>2. \A n \in Seqs : truth'[n] = None => truth[n] = None
    BY <1>2, FreshNumber
  <2> QED BY <2>1, <2>2 DEF KeyInv
<1>3. ASSUME NEW done \in BOOLEAN, RecvCache(done) PROVE KeyInv'
  <2>1. UNCHANGED <<truth, forwarded>>
    BY <1>3, ReceiverLeaves DEF Receiver
  <2>2. PICK n \in Seqs : ack.id = CarrierId[n] /\ truth[n] # None
    BY <1>3 DEF RecvCache, AckInv
  <2>3. ack.id \in Carrier
    BY <1>0, <1>3 DEF RecvCache, RecvLocals
  <2>4. \A k \in Seqs : truth[k] = None => cache'[CarrierId[k]] = None
    BY <1>0, <1>3, <2>2, SpAssumption, Packets DEF RecvCache, KeyInv, CacheTypes
  <2>5. \A m \in Msgs : cache'[m] = None
    BY <1>0, <1>3, <2>3, SpAssumption DEF RecvCache, KeyInv, CacheTypes
  <2> QED BY <2>1, <2>4, <2>5 DEF KeyInv
<1>4. CASE Worker
  <2>1. UNCHANGED truth
    BY <1>4, OthersLeave
  <2>2. /\ \A k \in Seqs : truth[k] = None => cache'[CarrierId[k]] = None
        /\ \A m \in Msgs : cache'[m] = None
    BY <1>4, WorkerCache, Packets DEF KeyInv
  <2>3. ASSUME NEW x \in Routed, forwarded' = Append(forwarded, x),
               x.kind = "report" => cache[x.of] # None
        PROVE  KeyInv'
    BY <1>0, <2>1, <2>2, <2>3, Grown DEF KeyInv, ListTypes
  <2>4. CASE UNCHANGED forwarded
    BY <2>1, <2>2, <2>4 DEF KeyInv
  <2> QED BY <1>4, <2>3, <2>4, Passing
<1>5. CASE Sender
  BY <1>1, <1>2, <1>5, SenderLeaves, SubmitsOnly
<1>6. CASE Receiver
  <2>1. CASE RecvSubmitResp \/ RecvSignal \/ RecvRead \/ RecvDeliver
    BY <1>1, <1>6, <2>1, ReceiverLeaves DEF RecvSubmitResp, RecvSignal, RecvRead, RecvDeliver
  <2> QED BY <1>3, <1>6, <2>1 DEF Receiver
<1> QED BY <1>1, <1>4, <1>5, <1>6, OthersLeave, StatLeaves, EnvironmentLeaves, StutterLeaves
        DEF Next

\* Carrier ids are exposed, never covered again.
LEMMA ExposedGrows == ASSUME [Next]_vars PROVE exposed \subseteq exposed'
<1>1. CASE Sender
  BY <1>1 DEF Sender, SenderFetch, SenderOwner, SenderDiscard, SenderSubmit, SenderCount,
     SenderWait, SenderWoken, SenderTimeout, history
<1>2. CASE Receiver
  BY <1>2 DEF Receiver, RecvSubmitResp, RecvSignal, RecvRead, RecvDeliver, RecvCache, history
<1> QED BY <1>1, <1>2, OthersLeave, EnvironmentLeaves, StutterLeaves DEF Next

\* Every step keeps MappingRight itself.
LEMMA MappingStep ==
  ASSUME TypeInv, MapInv, [Next]_vars
  PROVE  MappingRight'
<1>0. /\ ListTypes /\ CacheTypes /\ RecvLocals /\ SenderLocals
      /\ OutInv /\ EditInv /\ AckInv /\ KeyInv /\ MappingRight
  BY DEF TypeInv, TypeOK, MapInv
<1>1. exposed \subseteq exposed'
  BY ExposedGrows
<1>2. CASE UNCHANGED <<truth, cache, forwarded>>
  BY <1>0, <1>1, <1>2 DEF MappingRight, Rightful
<1>3. ASSUME NEW sent \in BOOLEAN, SenderSubmit(sent) PROVE MappingRight'
  <2>1. UNCHANGED <<cache, forwarded>>
    BY <1>3, SenderLeaves DEF Sender
  <2>2. ASSUME NEW n \in Seqs, n # seq + 1 PROVE truth'[n] = truth[n]
    BY <1>0, <1>3, <2>2, FreshNumber
  <2>3. truth[seq + 1] = None /\ seq + 1 \in Seqs
    BY <1>0, <1>3, FreshNumber
  <2>4. /\ cache'[CarrierId[seq + 1]] = None
        /\ \A k \in DOMAIN forwarded' :
             forwarded'[k].kind = "report" => forwarded'[k].of # CarrierId[seq + 1]
    BY <1>0, <2>1, <2>3 DEF KeyInv
  <2> QED BY <1>0, <1>1, <2>1, <2>2, <2>4 DEF MappingRight, Rightful
<1>4. ASSUME NEW done \in BOOLEAN, RecvCache(done) PROVE MappingRight'
  <2>1. UNCHANGED <<truth, forwarded, exposed>> /\ rpc = "store"
    BY <1>4 DEF RecvCache, workVars, carrierVars
  <2>2. PICK n \in Seqs : /\ ack.id = CarrierId[n] /\ truth[n] # None
                          /\ ack.id \notin exposed => ~dirty /\ seq = n /\ ack.msg = truth[n]
    BY <1>0, <2>1 DEF AckInv
  <2>3. n # 0
    BY Counting DEF Seqs
  <2>4. ack.id \notin exposed => [id |-> ack.msg, owner |-> confirmed.owner] = Rightful(n)
    BY <1>0, <2>2, <2>3 DEF EditInv, Rightful
  <2>5. \A k \in Seqs : CarrierId[k] = ack.id => k = n
    BY <2>2, SpAssumption
  <2>6. ASSUME NEW k \in Seqs, truth[k] # None, CarrierId[k] \notin exposed
        PROVE  cache'[CarrierId[k]] \in {None, Rightful(k)}
    <3>1. cache[CarrierId[k]] \in {None, Rightful(k)}
      BY <1>0, <2>6 DEF MappingRight
    <3>2. CASE CarrierId[k] = ack.id
      BY <1>0, <1>4, <2>4, <2>5, <2>6, <3>1, <3>2, Packets DEF RecvCache, CacheTypes
    <3>3. CASE CarrierId[k] # ack.id
      BY <1>0, <1>4, <3>1, <3>3, Packets DEF RecvCache, CacheTypes
    <3> QED BY <3>2, <3>3
  <2> QED BY <1>0, <2>1, <2>6 DEF MappingRight, Rightful
<1>5. CASE Worker
  <2>1. UNCHANGED <<truth, exposed>>
    BY <1>5, OthersLeave
  <2>2. \A n \in Seqs : cache'[CarrierId[n]] = cache[CarrierId[n]]
    BY <1>5, WorkerCache, Packets
  <2>3. ASSUME NEW x \in Routed, forwarded' = Append(forwarded, x),
               x.kind = "report" => x.entry # None /\ x.entry = cache[x.of]
        PROVE  MappingRight'
    <3>1. ASSUME NEW n \in Seqs, truth[n] # None, CarrierId[n] \notin exposed,
                 NEW k \in DOMAIN forwarded', forwarded'[k].kind = "report",
                 forwarded'[k].of = CarrierId[n]
          PROVE  forwarded'[k].entry = Rightful(n)
      <4>1. CASE k \in DOMAIN forwarded
        BY <1>0, <2>3, <3>1, <4>1, Grown DEF MappingRight, ListTypes
      <4>2. CASE forwarded'[k] = x
        BY <1>0, <2>3, <3>1, <4>2 DEF MappingRight
      <4> QED BY <1>0, <2>3, <4>1, <4>2, Grown DEF ListTypes
    <3> QED BY <1>0, <2>1, <2>2, <3>1 DEF MappingRight, Rightful
  <2>4. CASE UNCHANGED forwarded
    BY <1>0, <2>1, <2>2, <2>4 DEF MappingRight, Rightful
  <2> QED BY <1>5, <2>3, <2>4, Passing
<1>6. CASE Sender
  BY <1>2, <1>3, <1>6, SenderLeaves, SubmitsOnly
<1>7. CASE Receiver
  <2>1. CASE RecvSubmitResp \/ RecvSignal \/ RecvRead \/ RecvDeliver
    BY <1>2, <1>7, <2>1, ReceiverLeaves DEF RecvSubmitResp, RecvSignal, RecvRead, RecvDeliver
  <2> QED BY <1>4, <1>7, <2>1 DEF Receiver
<1> QED BY <1>2, <1>5, <1>6, <1>7, OthersLeave, StatLeaves, EnvironmentLeaves, StutterLeaves
        DEF Next

\* MapInv is an invariant.
LEMMA MapKept == Spec => []MapInv
<1>1. Init => MapInv
  BY Packets, SpAssumption DEF Init, MapInv, OutInv, EditInv, AckInv, KeyInv, MappingRight
<1>2. TypeInv /\ MapInv /\ [Next]_vars => MapInv'
  BY OutStep, EditStep, AckStep, KeyStep, MappingStep DEF MapInv
<1> QED BY <1>1, <1>2, SpTyped, PTL DEF Spec

\* MappingRight holds, for any number of messages and losses of the link: a report goes to
\* the account whose message it is about unless the answer to that message was handled
\* while `confirmed' was being rewritten (sp.c:232-254, 337-350).
THEOREM MappingKept == Spec => []MappingRight
<1>1. MapInv => MappingRight
  BY DEF MapInv
<1> QED BY <1>1, MapKept, PTL

-----------------------------------------------------------------------------
(* The order of answers and reports *)

AckFor(n, k)  == wire[k].kind = "ack" /\ wire[k].seq = n
AckWaits(n)   == \E k \in DOMAIN wire : AckFor(n, k)
Holds(list, c) == \E k \in DOMAIN list : list[k] = ReportOn(c)

\* A report on c has been taken from the wire, or thrown away.
Past(c) == Holds(storage, c) \/ (item # None /\ item = ReportOn(c))
           \/ \E r \in dropped : r.id = c

\* What was mapped stays in the cache.
CacheInv == \A c \in Carrier : c \in mapped <=> cache[c] # None

\* The carrier reports on nothing before it has answered.
KnownInv ==
  \A n \in Seqs : reportable[CarrierId[n]] > 0 \/ Holds(wire, CarrierId[n]) \/ Past(CarrierId[n])
    => n \notin unanswered /\ n <= seq

\* Once a report was taken, the answer is neither on the wire nor in hand.
PastInv ==
  \A n \in Seqs : Past(CarrierId[n]) => /\ rpc # "recv" => ack.id # CarrierId[n]
                                        /\ ~AckWaits(n)

\* On the wire, an answer is before the reports on its message.
QueueInv ==
  \A n \in Seqs : \A j, k \in DOMAIN wire :
    wire[j] = ReportOn(CarrierId[n]) /\ AckFor(n, k) => k < j

\* An answer that is neither on the wire nor in hand was mapped or came to nothing.
AccountInv ==
  \A n \in Seqs : reportable[CarrierId[n]] > 0 \/ Holds(wire, CarrierId[n]) \/ Past(CarrierId[n])
    => \/ AckWaits(n) \/ (rpc # "recv" /\ ack.id = CarrierId[n])
       \/ CarrierId[n] \in mapped \cup unmapped

OrderInv ==
  CacheInv /\ KnownInv /\ PastInv /\ QueueInv /\ AccountInv /\ ReportLossExplained

\* What stands before what on a wire that has grown.
LEMMA WireGrown ==
  ASSUME ListTypes, NEW x \in Packet, wire' = Append(wire, x)
  PROVE  /\ \A c \in Carrier : Holds(wire, c)' <=> Holds(wire, c) \/ x = ReportOn(c)
         /\ \A n \in Seqs \cup {0} : AckWaits(n)' <=> AckWaits(n) \/ (x.kind = "ack" /\ x.seq = n)
         /\ QueueInv /\ (x.kind = "ack" => ~Holds(wire, CarrierId[x.seq])) => QueueInv'
<1>1. /\ Len(wire) \in Nat /\ DOMAIN wire = 1 .. Len(wire)
      /\ DOMAIN wire' = 1 .. Len(wire) + 1 /\ wire'[Len(wire) + 1] = x
      /\ \A k \in DOMAIN wire : wire'[k] = wire[k]
  BY Grown DEF ListTypes
<1>2. \A c \in Carrier : Holds(wire, c)' <=> Holds(wire, c) \/ x = ReportOn(c)
  BY <1>1 DEF Holds, ReportOn
<1>3. \A n \in Seqs \cup {0} : AckWaits(n)' <=> AckWaits(n) \/ (x.kind = "ack" /\ x.seq = n)
  BY <1>1 DEF AckWaits, AckFor
<1>4. ASSUME QueueInv, x.kind = "ack" => ~Holds(wire, CarrierId[x.seq]) PROVE QueueInv'
  <2> SUFFICES ASSUME NEW n \in Seqs, NEW j \in DOMAIN wire', NEW k \in DOMAIN wire',
                      wire'[j] = ReportOn(CarrierId[n]), AckFor(n, k)'
               PROVE  k < j
    BY DEF QueueInv
  <2>1. CASE j \in DOMAIN wire /\ k \in DOMAIN wire
    BY <1>1, <1>4, <2>1 DEF QueueInv, AckFor
  <2>2. CASE k = Len(wire) + 1 /\ j \in DOMAIN wire
    BY <1>1, <1>4, <2>2 DEF AckFor, Holds
  <2>3. CASE j = Len(wire) + 1
    <3>1. k # j
      BY DEF AckFor, ReportOn
    <3> QED BY <1>1, <2>3, <3>1
  <2> QED BY <1>1, <2>1, <2>2, <2>3
<1> QED BY <1>2, <1>3, <1>4

\* What stands before what on a wire that has lost its head.
LEMMA WireShrunk ==
  ASSUME ListTypes, wire # <<>>, wire' = Tail(wire)
  PROVE  /\ \A c \in Carrier : Holds(wire, c)' => Holds(wire, c)
         /\ \A n \in Seqs \cup {0} : AckWaits(n)' => AckWaits(n)
         /\ \A n \in Seqs : AckWaits(n) => AckWaits(n)' \/ (Head(wire).kind = "ack" /\ Head(wire).seq = n)
         /\ \A n \in Seqs : Head(wire).kind = "ack" /\ Head(wire).seq = n => AckWaits(n)
         /\ \A c \in Carrier : Head(wire) = ReportOn(c) => Holds(wire, c)
         /\ QueueInv => QueueInv'
         /\ \A n \in Seqs : QueueInv /\ Head(wire) = ReportOn(CarrierId[n]) => ~AckWaits(n)
<1>1. /\ Len(wire) \in Nat /\ DOMAIN wire = 1 .. Len(wire)
      /\ DOMAIN wire' = 1 .. Len(wire) - 1 /\ Head(wire) = wire[1] /\ 1 \in DOMAIN wire
      /\ \A k \in DOMAIN wire' : k + 1 \in DOMAIN wire /\ wire'[k] = wire[k + 1]
  BY Shrunk DEF ListTypes
<1>2. \A c \in Carrier : Holds(wire, c)' => Holds(wire, c)
  BY <1>1 DEF Holds, ReportOn
<1>3. \A n \in Seqs \cup {0} : AckWaits(n)' => AckWaits(n)
  BY <1>1 DEF AckWaits, AckFor
<1>4. \A n \in Seqs : Head(wire).kind = "ack" /\ Head(wire).seq = n => AckWaits(n)
  BY <1>1 DEF AckWaits, AckFor
<1>5. \A c \in Carrier : Head(wire) = ReportOn(c) => Holds(wire, c)
  BY <1>1 DEF Holds
<1>6. ASSUME QueueInv PROVE QueueInv'
  <2> SUFFICES ASSUME NEW n \in Seqs, NEW j \in DOMAIN wire', NEW k \in DOMAIN wire',
                      wire'[j] = ReportOn(CarrierId[n]), AckFor(n, k)'
               PROVE  k < j
    BY DEF QueueInv
  <2>1. k + 1 < j + 1
    BY <1>1, <1>6 DEF QueueInv, AckFor
  <2> QED BY <1>1, <2>1
<1>7. ASSUME NEW n \in Seqs, QueueInv, Head(wire) = ReportOn(CarrierId[n]) PROVE ~AckWaits(n)
  <2> SUFFICES ASSUME NEW k \in DOMAIN wire, AckFor(n, k) PROVE FALSE
    BY DEF AckWaits
  <2>1. k < 1
    BY <1>1, <1>7 DEF QueueInv
  <2> QED BY <1>1, <2>1
<1>8. ASSUME NEW n \in Seqs, AckWaits(n)
      PROVE  AckWaits(n)' \/ (Head(wire).kind = "ack" /\ Head(wire).seq = n)
  <2>1. PICK k \in DOMAIN wire : AckFor(n, k)
    BY <1>8 DEF AckWaits
  <2>2. CASE k = 1
    BY <1>1, <2>1, <2>2 DEF AckFor
  <2>3. CASE k # 1
    <3>1. k - 1 \in DOMAIN wire' /\ wire'[k - 1] = wire[k]
      BY <1>1, <2>3
    <3> QED BY <2>1, <3>1 DEF AckWaits, AckFor
  <2> QED BY <2>2, <2>3
<1> QED BY <1>2, <1>3, <1>4, <1>5, <1>6, <1>7, <1>8

\* The worker takes no report that was not taken before.
LEMMA WorkerPast ==
  ASSUME TypeInv, Worker
  PROVE  \A c \in Carrier : Past(c)' => Past(c)
<1>1. CASE WorkPop
  <2>1. /\ storage # <<>> /\ item' = Head(storage) /\ storage' = Tail(storage)
        /\ dropped' = dropped
    BY <1>1 DEF WorkPop, history
  <2>2. /\ Head(storage) = storage[1] /\ 1 \in DOMAIN storage
        /\ \A k \in DOMAIN storage' : k + 1 \in DOMAIN storage /\ storage'[k] = storage[k + 1]
    BY <2>1, Shrunk DEF TypeInv, TypeOK, ListTypes
  <2> QED BY <2>1, <2>2 DEF Past, Holds, ReportOn
<1>2. ASSUME NEW sent \in BOOLEAN, NEW deleted \in BOOLEAN, WorkReport(sent, deleted)
      PROVE  \A c \in Carrier : Past(c)' => Past(c)
  <2>1. item # None /\ item = ReportOn(item.id)
    BY <1>2, DelMisses DEF WorkReport
  <2>2. /\ item' = None /\ storage' = storage
        /\ dropped' = dropped \/ dropped' = dropped \cup {[id |-> item.id, read |-> TRUE]}
    BY <1>2 DEF WorkReport
  <2> QED BY <2>1, <2>2 DEF Past, Holds, ReportOn
<1>3. CASE \E sent \in BOOLEAN : WorkDeliver(sent)
  <2>1. item' = None /\ storage' = storage /\ dropped' = dropped
    BY <1>3 DEF WorkDeliver, history
  <2> QED BY <2>1 DEF Past, Holds, ReportOn
<1>4. CASE WorkNoCache
  <2>1. item # None /\ item = ReportOn(item.id)
    BY <1>4, ReportNames DEF WorkNoCache, ReportOn, TypeInv, TypeOK, ListTypes
  <2>2. /\ item' = None /\ storage' = storage
        /\ dropped' = dropped \cup {[id |-> item.id, read |-> FALSE]}
    BY <1>4 DEF WorkNoCache
  <2> QED BY <2>1, <2>2 DEF Past, Holds, ReportOn
<1> QED BY <1>1, <1>2, <1>3, <1>4 DEF Worker

\* What stays, stays past.
LEMMA PastFrame ==
  ASSUME UNCHANGED <<storage, item, dropped>>
  PROVE  \A c \in Carrier : Past(c)' <=> Past(c)
  BY DEF Past, Holds, ReportOn

\* A step that leaves the wire alone keeps the order on it.
LEMMA WireFrame ==
  ASSUME UNCHANGED wire
  PROVE  /\ \A c \in Carrier : Holds(wire, c)' <=> Holds(wire, c)
         /\ \A n \in Seqs \cup {0} : AckWaits(n)' <=> AckWaits(n)
         /\ QueueInv => QueueInv'
  BY DEF Holds, ReportOn, AckWaits, AckFor, QueueInv

\* The sender keeps OrderInv.
LEMMA OrderSender ==
  ASSUME TypeInv, OutInv, OrderInv, Sender
  PROVE  OrderInv'
<1>1. UNCHANGED <<rpc, ack, wire, storage, item, cache, reportable, mapped, unmapped, dropped>>
  BY SenderLeaves
<1>2. CacheInv' /\ PastInv' /\ QueueInv' /\ AccountInv' /\ ReportLossExplained'
  BY <1>1, PastFrame, WireFrame, Packets
     DEF OrderInv, CacheInv, PastInv, AccountInv, ReportLossExplained
<1>3. KnownInv'
  <2>1. CASE \A sent \in BOOLEAN : ~SenderSubmit(sent)
    BY <1>1, <2>1, SubmitsOnly, PastFrame, WireFrame, Packets DEF OrderInv, KnownInv
  <2>2. ASSUME NEW sent \in BOOLEAN, SenderSubmit(sent) PROVE KnownInv'
    <3>1. seq \in Nat /\ seq' = seq + 1 /\ unanswered' \subseteq unanswered \cup {seq + 1}
      BY <2>2, FreshNumber DEF SenderSubmit
    <3>2. \A n \in Seqs : n \in Nat
      BY Counting DEF Seqs
    <3> QED BY <1>1, <3>1, <3>2, PastFrame, WireFrame, Packets DEF OrderInv, KnownInv
  <2> QED BY <2>1, <2>2
<1> QED BY <1>2, <1>3 DEF OrderInv

\* The receiver keeps OrderInv.
LEMMA OrderReceiver ==
  ASSUME TypeInv, OutInv, AckInv, OrderInv, Receiver
  PROVE  OrderInv'
<1>0. /\ ListTypes /\ CacheTypes /\ RecvTypes /\ RecvLocals /\ SenderLocals
      /\ CacheInv /\ KnownInv /\ PastInv /\ QueueInv /\ AccountInv /\ ReportLossExplained
  BY DEF TypeInv, TypeOK, OrderInv
<1>1. UNCHANGED <<seq, item, unanswered, reportable, dropped>>
  BY ReceiverLeaves
<1>2. CASE RecvSubmitResp
  <2>1. /\ wire # <<>> /\ wire' = Tail(wire) /\ Head(wire).kind = "ack" /\ rpc = "recv"
        /\ UNCHANGED <<storage, cache, mapped>> /\ unmapped \subseteq unmapped'
        /\ rpc' # "recv" => ack'.id = Head(wire).id
        /\ rpc' # "recv" \/ Head(wire).id \in unmapped'
    BY <1>2 DEF RecvSubmitResp, Arrived
  <2>2. Head(wire).seq \in Seqs /\ Head(wire).id = CarrierId[Head(wire).seq]
    BY <1>0, <2>1, WireHead, Shrunk DEF OutInv, ListTypes
  <2>3. AckWaits(Head(wire).seq)
    BY <1>0, <2>1, <2>2, WireShrunk
  <2>4. ~Past(Head(wire).id)
    BY <1>0, <2>2, <2>3 DEF PastInv
  <2>5. PastInv'
    BY <1>0, <1>1, <2>1, <2>2, <2>4, WireShrunk, PastFrame, Packets DEF PastInv
  <2>6. KnownInv' /\ QueueInv'
    BY <1>0, <1>1, <2>1, WireShrunk, PastFrame, Packets DEF KnownInv
  <2>7. AccountInv'
    BY <1>0, <1>1, <2>1, <2>2, WireShrunk, PastFrame, Packets DEF AccountInv
  <2> QED BY <1>0, <1>1, <2>1, <2>5, <2>6, <2>7 DEF OrderInv, CacheInv, ReportLossExplained
<1>3. CASE RecvSignal \/ RecvRead
  <2>1. /\ UNCHANGED <<wire, storage, cache, mapped, unmapped>>
        /\ rpc # "recv" /\ rpc' # "recv" /\ ack'.id = ack.id
    BY <1>0, <1>3 DEF RecvSignal, RecvRead, RecvLocals, history
  <2>2. PastInv' /\ KnownInv' /\ QueueInv' /\ AccountInv'
    BY <1>0, <1>1, <2>1, WireFrame, PastFrame, Packets DEF PastInv, KnownInv, AccountInv
  <2> QED BY <1>0, <1>1, <2>1, <2>2 DEF OrderInv, CacheInv, ReportLossExplained
<1>4. ASSUME NEW done \in BOOLEAN, RecvCache(done) PROVE OrderInv'
  <2>1. UNCHANGED <<wire, storage>> /\ rpc # "recv" /\ rpc' = "recv"
    BY <1>4 DEF RecvCache
  <2>2. PastInv' /\ KnownInv' /\ QueueInv'
    BY <1>0, <1>1, <2>1, WireFrame, PastFrame, Packets DEF PastInv, KnownInv
  <2>3. PICK n \in Seqs : ack.id = CarrierId[n]
    BY <2>1 DEF AckInv
  <2>4. \A x \in dropped : x.id # ack.id
    BY <1>0, <2>1, <2>3 DEF PastInv, Past
  <2>5. ReportLossExplained'
    BY <1>0, <1>1, <1>4, <2>4 DEF RecvCache, ReportLossExplained
  <2>6. [id |-> ack.msg, owner |-> confirmed.owner] # None
    <3>1. [id |-> ack.msg, owner |-> confirmed.owner] \in Entry
      BY <1>0, <1>4 DEF RecvCache, RecvLocals, SenderLocals, Entry
    <3> QED BY <3>1, SpAssumption
  <2>7. CacheInv'
    BY <1>0, <1>4, <2>3, <2>6, Packets DEF RecvCache, CacheInv, CacheTypes
  <2>8. /\ mapped \cup unmapped \subseteq mapped' \cup unmapped'
        /\ ack.id \in mapped' \cup unmapped'
    BY <1>4 DEF RecvCache
  <2>9. AccountInv'
    BY <1>0, <1>1, <2>1, <2>8, WireFrame, PastFrame, Packets DEF AccountInv
  <2> QED BY <2>2, <2>5, <2>7, <2>9 DEF OrderInv
<1>5. CASE RecvDeliver
  <2>1. /\ wire # <<>> /\ wire' = Tail(wire) /\ rpc = "recv" /\ rpc' = "recv"
        /\ storage' = Append(storage, Head(wire)) /\ UNCHANGED <<cache, mapped, unmapped>>
        /\ Head(wire).kind # "ack"
    BY <1>5 DEF RecvDeliver, Arrived, recvVars, history
  <2>2. Head(wire) \in Stored
    BY <1>0, <2>1, WireHead
  <2>3. \A c \in Carrier : Past(c)' => Past(c) \/ Head(wire) = ReportOn(c)
    <3>1. /\ Len(storage) \in Nat /\ DOMAIN storage = 1 .. Len(storage)
          /\ DOMAIN storage' = 1 .. Len(storage) + 1
          /\ \A k \in DOMAIN storage : storage'[k] = storage[k]
          /\ storage'[Len(storage) + 1] = Head(wire)
      BY <1>0, <2>1, <2>2, Grown DEF ListTypes
    <3> QED BY <1>1, <3>1 DEF Past, Holds, ReportOn
  <2>4. PastInv'
    BY <1>0, <2>1, <2>3, WireShrunk, Packets DEF PastInv
  <2>5. KnownInv' /\ QueueInv'
    BY <1>0, <1>1, <2>1, <2>3, WireShrunk, Packets DEF KnownInv
  <2>6. AccountInv'
    BY <1>0, <1>1, <2>1, <2>3, WireShrunk, Packets DEF AccountInv
  <2> QED BY <1>0, <1>1, <2>1, <2>4, <2>5, <2>6 DEF OrderInv, CacheInv, ReportLossExplained
<1> QED BY <1>2, <1>3, <1>4, <1>5 DEF Receiver

\* The worker keeps OrderInv.
LEMMA OrderWorker ==
  ASSUME TypeInv, OrderInv, Worker
  PROVE  OrderInv'
<1>0. CacheInv /\ KnownInv /\ PastInv /\ QueueInv /\ AccountInv /\ ReportLossExplained
  BY DEF OrderInv
<1>1. UNCHANGED <<rpc, ack, seq, wire, unanswered, reportable, mapped, unmapped>>
  BY OthersLeave
<1>2. PastInv' /\ KnownInv' /\ QueueInv' /\ AccountInv'
  BY <1>0, <1>1, WireFrame, WorkerPast, Packets DEF PastInv, KnownInv, AccountInv
<1>3. CacheInv'
  BY <1>0, <1>1, WorkerCache DEF CacheInv
<1>4. ReportLossExplained'
  <2>1. ASSUME NEW sent \in BOOLEAN, NEW deleted \in BOOLEAN, WorkReport(sent, deleted)
        PROVE  ReportLossExplained'
    <3>1. item # None /\ item = ReportOn(item.id) /\ item.id \in Carrier
      BY <2>1, DelMisses DEF WorkReport
    <3>2. PICK n \in Seqs : item.id = CarrierId[n]
      BY <3>1 DEF Carrier
    <3>3. Past(CarrierId[n])
      BY <3>1, <3>2 DEF Past
    <3>4. item.id \in mapped \cup unmapped
      BY <1>0, <3>2, <3>3 DEF PastInv, AccountInv
    <3>5. cache[item.id] = None => item.id \in unmapped \ mapped
      BY <1>0, <3>1, <3>4 DEF CacheInv
    <3>6. dropped' = dropped \/ (cache[item.id] = None
                                /\ dropped' = dropped \cup {[id |-> item.id, read |-> TRUE]})
      BY <2>1 DEF WorkReport
    <3> QED BY <1>0, <1>1, <3>5, <3>6 DEF ReportLossExplained
  <2>2. CASE WorkPop \/ \E sent \in BOOLEAN : WorkDeliver(sent)
    BY <1>0, <2>2 DEF WorkPop, WorkDeliver, ReportLossExplained, history
  <2>3. CASE WorkNoCache
    BY <1>0, <1>1, <2>3 DEF WorkNoCache, ReportLossExplained
  <2> QED BY <2>1, <2>2, <2>3 DEF Worker
<1> QED BY <1>0, <1>2, <1>3, <1>4 DEF OrderInv

\* Carrier and link keep OrderInv.
LEMMA OrderEnvironment ==
  ASSUME TypeInv, OutInv, OrderInv, Environment
  PROVE  OrderInv'
<1>0. /\ ListTypes /\ CarrierTypes /\ CarrierLocals
      /\ CacheInv /\ KnownInv /\ PastInv /\ QueueInv /\ AccountInv /\ ReportLossExplained
  BY DEF TypeInv, TypeOK, OrderInv
<1>1. UNCHANGED <<rpc, ack, seq, storage, item, cache, mapped, dropped>> /\ unmapped \subseteq unmapped'
  BY EnvironmentLeaves
<1>2. CacheInv' /\ ReportLossExplained'
  BY <1>0, <1>1 DEF CacheInv, ReportLossExplained
<1>3. ASSUME NEW n \in Seqs, NEW result \in {0, 1}, CarrierAnswer(n, result) PROVE OrderInv'
  <2>1. wire' = Append(wire, Answer(n, result)) /\ Answer(n, result) \in Packet
    BY <1>3, Packets DEF CarrierAnswer, Answer
  <2>2. /\ Answer(n, result).kind = "ack" /\ Answer(n, result).seq = n
        /\ \A c \in Carrier : Answer(n, result) # ReportOn(c)
    BY DEF Answer, ReportOn
  <2>3. n \in unanswered /\ unanswered' = unanswered \ {n} /\ n <= seq
    BY <1>0, <1>3, SpAssumption DEF CarrierAnswer, CarrierLocals, OutInv
  <2>4. ~Past(CarrierId[n]) /\ ~Holds(wire, CarrierId[n])
    BY <1>0, <2>3 DEF KnownInv
  <2>5. QueueInv'
    BY <1>0, <2>1, <2>2, <2>4, WireGrown
  <2>6. PastInv'
    BY <1>0, <1>1, <2>1, <2>2, <2>4, WireGrown, PastFrame, Packets DEF PastInv
  <2>7. \A k \in Seqs : k # n => reportable'[CarrierId[k]] = reportable[CarrierId[k]]
    BY <1>0, <1>3, SpAssumption, Packets DEF CarrierAnswer, CarrierTypes
  <2>8. KnownInv'
    BY <1>0, <1>1, <2>1, <2>2, <2>3, <2>7, WireGrown, PastFrame, Packets DEF KnownInv
  <2>9. AccountInv'
    BY <1>0, <1>1, <2>1, <2>2, <2>7, WireGrown, PastFrame, Packets DEF AccountInv
  <2> QED BY <1>2, <2>5, <2>6, <2>8, <2>9 DEF OrderInv
<1>4. ASSUME NEW c \in Carrier, CarrierReport(c) PROVE OrderInv'
  <2>1. /\ wire' = Append(wire, ReportOn(c)) /\ ReportOn(c) \in Packet
        /\ unanswered' = unanswered /\ reportable[c] > 0
    BY <1>4, Packets DEF CarrierReport, ReportOn
  <2>2. ReportOn(c).kind = "report" /\ \A k \in Carrier : ReportOn(c) = ReportOn(k) => k = c
    BY DEF ReportOn
  <2>3. \A k \in Carrier : reportable'[k] > 0 => reportable[k] > 0
    BY <1>0, <1>4 DEF CarrierReport, CarrierTypes
  <2>4. PastInv' /\ QueueInv'
    BY <1>0, <1>1, <2>1, <2>2, WireGrown, PastFrame, Packets DEF PastInv
  <2>5. KnownInv'
    BY <1>0, <1>1, <2>1, <2>2, <2>3, WireGrown, PastFrame, Packets DEF KnownInv
  <2>6. AccountInv'
    BY <1>0, <1>1, <2>1, <2>2, <2>3, WireGrown, PastFrame, Packets DEF AccountInv
  <2> QED BY <1>2, <2>4, <2>5, <2>6 DEF OrderInv
<1>5. ASSUME NEW d \in Delivers, CarrierDeliver(d) PROVE OrderInv'
  <2>1. /\ wire' = Append(wire, MessageOf(d)) /\ MessageOf(d) \in Packet
        /\ UNCHANGED <<unanswered, reportable>>
    BY <1>5, Packets DEF CarrierDeliver, MessageOf
  <2>2. MessageOf(d).kind = "deliver" /\ \A k \in Carrier : MessageOf(d) # ReportOn(k)
    BY DEF MessageOf, ReportOn
  <2>3. PastInv' /\ KnownInv' /\ QueueInv'
    BY <1>0, <1>1, <2>1, <2>2, WireGrown, PastFrame, Packets DEF PastInv, KnownInv
  <2>4. AccountInv'
    BY <1>0, <1>1, <2>1, <2>2, WireGrown, PastFrame, Packets DEF AccountInv
  <2> QED BY <1>2, <2>3, <2>4 DEF OrderInv
<1>6. CASE LinkDown
  <2>1. wire' = <<>> /\ unanswered' = {} /\ UNCHANGED reportable
    BY <1>6 DEF LinkDown
  <2>2. /\ \A n \in Seqs : ~AckWaits(n)' /\ ~Holds(wire, CarrierId[n])'
        /\ QueueInv'
    BY <2>1 DEF AckWaits, Holds, QueueInv
  <2>3. PastInv' /\ KnownInv'
    BY <1>0, <1>1, <2>1, <2>2, PastFrame, Packets DEF PastInv, KnownInv
  <2>4. \A n \in Seqs : AckWaits(n) => CarrierId[n] \in unmapped'
    <3> SUFFICES ASSUME NEW n \in Seqs, NEW k \in DOMAIN wire, AckFor(n, k)
                 PROVE  CarrierId[n] \in unmapped'
      BY DEF AckWaits
    <3>1. wire[k].id = CarrierId[n]
      BY DEF AckFor, OutInv
    <3> QED BY <1>6, <3>1 DEF LinkDown, AckFor
  <2>5. AccountInv'
    BY <1>0, <1>1, <2>1, <2>2, <2>4, PastFrame, Packets DEF AccountInv
  <2> QED BY <1>2, <2>2, <2>3, <2>5 DEF OrderInv
<1>7. CASE LinkUp
  <2>1. UNCHANGED <<wire, unanswered, reportable>>
    BY <1>7 DEF LinkUp, carrierVars
  <2>2. PastInv' /\ KnownInv' /\ QueueInv'
    BY <1>0, <1>1, <2>1, WireFrame, PastFrame, Packets DEF PastInv, KnownInv
  <2>3. AccountInv'
    BY <1>0, <1>1, <2>1, WireFrame, PastFrame, Packets DEF AccountInv
  <2> QED BY <1>2, <2>2, <2>3 DEF OrderInv
<1> QED BY <1>3, <1>4, <1>5, <1>6, <1>7 DEF Environment

\* A report is thrown away only because the cache did not answer or because the answer to
\* its message came to nothing before (sp.c:337-350, 526), for any number of messages,
\* reports and losses of the link: the receiver has filled the cache before it reads the
\* first report.
THEOREM ReportLossIsExplained == Spec => []ReportLossExplained
<1>1. Init => OrderInv
  <2> SUFFICES ASSUME Init PROVE OrderInv
    OBVIOUS
  <2>1. CacheInv /\ QueueInv /\ ReportLossExplained
    BY DEF Init, CacheInv, QueueInv, ReportLossExplained
  <2>2. \A n \in Seqs : ~Past(CarrierId[n]) /\ ~Holds(wire, CarrierId[n])
    BY DEF Init, Past, Holds
  <2>3. PastInv /\ KnownInv /\ AccountInv
    BY <2>2, Packets DEF Init, PastInv, KnownInv, AccountInv
  <2> QED BY <2>1, <2>3 DEF OrderInv
<1>2. TypeInv /\ MapInv /\ OrderInv /\ [Next]_vars => OrderInv'
  <2> SUFFICES ASSUME TypeInv, MapInv, OrderInv, [Next]_vars PROVE OrderInv'
    OBVIOUS
  <2>1. CASE Stat \/ UNCHANGED vars
    <3>1. UNCHANGED <<rpc, ack, seq, storage, item, cache, mapped, unmapped, dropped, wire,
                      unanswered, reportable>>
      BY <2>1, OthersLeave, StatLeaves, StutterLeaves
    <3>2. PastInv' /\ KnownInv' /\ QueueInv' /\ AccountInv'
      BY <3>1, WireFrame, PastFrame, Packets DEF OrderInv, PastInv, KnownInv, AccountInv
    <3> QED BY <3>1, <3>2 DEF OrderInv, CacheInv, ReportLossExplained
  <2> QED BY <2>1, OrderSender, OrderReceiver, OrderWorker, OrderEnvironment DEF Next, MapInv
<1>3. OrderInv => ReportLossExplained
  BY DEF OrderInv
<1> QED BY <1>1, <1>2, <1>3, SpTyped, MapKept, PTL DEF Spec

-----------------------------------------------------------------------------
(* What the end of a wait means *)

\* The carrier answers a submission once, and its success is known when it is read.
OnceInv ==
  /\ \A n \in unanswered : ~AckWaits(n)
  /\ \A j, k \in DOMAIN wire : \A n \in Seqs : AckFor(n, j) /\ AckFor(n, k) => j = k
  /\ \A k \in DOMAIN wire :
       wire[k].kind = "ack" /\ wire[k].result = 0 => truth[wire[k].seq] \in accepted

\* A signal is pending only for a sender that waits, for the last message submitted.
HeardInv ==
  /\ spc \in {"count", "wait", "waiting"} => truth[seq] = msg /\ seq # 0
  /\ signalled => spc = "waiting"

\* The signal for the last message submitted can still come.
Outstanding == seq \in unanswered \/ AckWaits(seq) \/ rpc = "signal"

\* As long as no wait timed out, a sender that is done, or about to be, has left no signal
\* behind that the next wait could take for its own.
WaitInv ==
  timedout = {} =>
    /\ spc \in {"idle", "owner", "encode", "counterr"} \/ signalled => ~Outstanding
    /\ signalled => msg \in accepted
    /\ rpc = "signal" => /\ spc \in {"count", "wait", "waiting"} /\ truth[seq] \in accepted
                         /\ seq \notin unanswered /\ ~AckWaits(seq)
    /\ settled \subseteq accepted

SettledInv == OnceInv /\ HeardInv /\ WaitInv

\* What the carrier has accepted stays accepted.
LEMMA AcceptedGrows == ASSUME [Next]_vars \/ Environment PROVE accepted \subseteq accepted'
<1>1. CASE Environment
  BY <1>1 DEF Environment, CarrierAnswer, CarrierReport, CarrierDeliver, LinkDown, LinkUp,
     carrierVars
<1> QED BY <1>1, SenderLeaves, ReceiverLeaves, OthersLeave, StutterLeaves DEF Next

\* Every step keeps OnceInv.
LEMMA OnceStep ==
  ASSUME TypeInv, OutInv, OnceInv, [Next]_vars
  PROVE  OnceInv'
<1>0. ListTypes /\ CarrierTypes /\ CarrierLocals
  BY DEF TypeInv, TypeOK
<1>1. \A k \in DOMAIN wire : wire[k].kind = "ack" => wire[k].seq \in Seqs
  BY <1>0 DEF ListTypes, Packet
<1>2. accepted \subseteq accepted'
  BY AcceptedGrows
<1>3. ASSUME NEW sent \in BOOLEAN, SenderSubmit(sent) PROVE OnceInv'
  <2>1. UNCHANGED wire /\ unanswered' \subseteq unanswered \cup {seq + 1}
    BY <1>3, SenderLeaves DEF Sender, SenderSubmit
  <2>2. truth[seq + 1] = None /\ \A n \in Seqs : n # seq + 1 => truth'[n] = truth[n]
    BY <1>3, FreshNumber
  <2>3. \A k \in DOMAIN wire : wire[k].kind = "ack" => wire[k].seq # seq + 1
    BY <2>2 DEF OutInv
  <2> QED BY <1>1, <1>2, <2>1, <2>2, <2>3 DEF OnceInv, AckWaits, AckFor
<1>4. CASE \A sent \in BOOLEAN : ~SenderSubmit(sent)
  <2>1. UNCHANGED truth
    BY <1>4, SubmitsOnly, ReceiverLeaves, OthersLeave, EnvironmentLeaves, StutterLeaves DEF Next
  <2>2. unanswered' \subseteq unanswered
    <3>1. CASE Environment
      BY <3>1 DEF Environment, CarrierAnswer, CarrierReport, CarrierDeliver, LinkDown, LinkUp,
         carrierVars
    <3> QED BY <1>4, <3>1, SubmitsOnly, ReceiverLeaves, OthersLeave, StutterLeaves DEF Next
  <2>3. CASE wire' = wire \/ LinkDown
    BY <1>2, <2>1, <2>2, <2>3 DEF OnceInv, AckWaits, AckFor, LinkDown
  <2>4. CASE wire # <<>> /\ wire' = Tail(wire)
    <3>1. /\ Len(wire) \in Nat /\ DOMAIN wire = 1 .. Len(wire)
          /\ DOMAIN wire' = 1 .. Len(wire) - 1
          /\ \A k \in DOMAIN wire' : k + 1 \in DOMAIN wire /\ wire'[k] = wire[k + 1]
      BY <1>0, <2>4, Shrunk DEF ListTypes
    <3>2. \A n \in unanswered' : ~AckWaits(n)'
      BY <2>2, <3>1 DEF OnceInv, AckWaits, AckFor
    <3>3. ASSUME NEW j \in DOMAIN wire', NEW k \in DOMAIN wire', NEW n \in Seqs,
                 AckFor(n, j)', AckFor(n, k)'
          PROVE  j = k
      <4>1. j + 1 = k + 1
        BY <3>1, <3>3 DEF OnceInv, AckFor
      <4> QED BY <3>1, <4>1
    <3>4. \A k \in DOMAIN wire' :
            wire'[k].kind = "ack" /\ wire'[k].result = 0 => truth'[wire'[k].seq] \in accepted'
      BY <1>2, <2>1, <3>1 DEF OnceInv
    <3> QED BY <3>2, <3>3, <3>4 DEF OnceInv
  <2>5. ASSUME NEW x \in Packet, wire' = Append(wire, x),
               x.kind = "ack" => /\ x.seq \in Seqs /\ x.seq \notin unanswered' /\ ~AckWaits(x.seq)
                                 /\ x.result = 0 => truth[x.seq] \in accepted'
        PROVE  OnceInv'
    <3>1. /\ Len(wire) \in Nat /\ DOMAIN wire = 1 .. Len(wire)
          /\ DOMAIN wire' = 1 .. Len(wire) + 1 /\ wire'[Len(wire) + 1] = x
          /\ \A k \in DOMAIN wire : wire'[k] = wire[k]
      BY <1>0, <2>5, Grown DEF ListTypes
    <3>2. \A n \in unanswered' : ~AckWaits(n)'
      BY <2>2, <2>5, <3>1 DEF OnceInv, AckWaits, AckFor
    <3>3. \A j, k \in DOMAIN wire' : \A n \in Seqs : AckFor(n, j)' /\ AckFor(n, k)' => j = k
      BY <2>5, <3>1 DEF OnceInv, AckWaits, AckFor
    <3>4. \A k \in DOMAIN wire' :
            wire'[k].kind = "ack" /\ wire'[k].result = 0 => truth'[wire'[k].seq] \in accepted'
      BY <1>2, <2>1, <2>5, <3>1 DEF OnceInv
    <3> QED BY <3>2, <3>3, <3>4 DEF OnceInv
  <2>6. ASSUME NEW n \in Seqs, NEW result \in {0, 1}, CarrierAnswer(n, result) PROVE OnceInv'
    <3>1. wire' = Append(wire, Answer(n, result)) /\ Answer(n, result) \in Packet
      BY <2>6, Packets DEF CarrierAnswer, Answer
    <3>2. Answer(n, result).seq = n /\ Answer(n, result).result = result
      BY DEF Answer
    <3>3. n \notin unanswered' /\ ~AckWaits(n) /\ (result = 0 => truth[n] \in accepted')
      BY <2>6 DEF CarrierAnswer, OnceInv
    <3> QED BY <2>5, <3>1, <3>2, <3>3
  <2>7. ASSUME NEW c \in Carrier, CarrierReport(c) PROVE OnceInv'
    <3>1. wire' = Append(wire, ReportOn(c)) /\ ReportOn(c).kind # "ack"
      BY <2>7 DEF CarrierReport, ReportOn
    <3> QED BY <2>5, <3>1, Packets
  <2>8. ASSUME NEW d \in Delivers, CarrierDeliver(d) PROVE OnceInv'
    <3>1. wire' = Append(wire, MessageOf(d)) /\ MessageOf(d).kind # "ack"
      BY <2>8 DEF CarrierDeliver, MessageOf
    <3> QED BY <2>5, <3>1, Packets
  <2> QED BY <2>3, <2>4, <2>6, <2>7, <2>8, WireSteps
<1> QED BY <1>3, <1>4

\* The sender keeps what the wait relies on.
LEMMA HeardSender ==
  ASSUME TypeInv, OutInv, OnceInv, HeardInv, WaitInv, Sender
  PROVE  HeardInv' /\ WaitInv'
<1>0. SenderTypes /\ SenderLocals /\ CarrierTypes
  BY DEF TypeInv, TypeOK
<1>1. UNCHANGED <<rpc, wire, accepted>> /\ \A n \in Seqs \cup {0} : AckWaits(n)' <=> AckWaits(n)
  BY SenderLeaves, WireFrame
<1>2. seq \in Seqs \cup {0}
  BY <1>0 DEF SenderTypes
<1>3. ASSUME NEW sent \in BOOLEAN, SenderSubmit(sent) PROVE HeardInv' /\ WaitInv'
  <2>1. /\ seq' = seq + 1 /\ seq + 1 \in Seqs /\ truth[seq + 1] = None
        /\ sent => truth'[seq + 1] = msg
        /\ seq + 1 # 0
    BY <1>3, FreshNumber
  <2>2. /\ spc = "encode" /\ spc' = IF sent THEN "count" ELSE "counterr"
        /\ sent => msg' = msg
        /\ ~sent => unanswered' = unanswered
        /\ UNCHANGED <<signalled, timedout, settled>>
    BY <1>3 DEF SenderSubmit
  <2>3. ~signalled /\ HeardInv'
    BY <2>1, <2>2 DEF HeardInv
  <2>4. ~AckWaits(seq)'
    BY <1>1, <2>1 DEF AckWaits, AckFor, OutInv
  <2>5. CarrierLocals
    BY DEF TypeInv
  <2>6. seq + 1 \notin unanswered
    BY <2>1, <2>5, SpAssumption DEF CarrierLocals
  <2> QED BY <1>1, <2>1, <2>2, <2>3, <2>4, <2>6 DEF WaitInv, Outstanding
<1>4. CASE SenderWoken
  <2>1. /\ spc' = "idle" /\ signalled /\ signalled' = FALSE /\ settled' = settled \cup {msg}
        /\ UNCHANGED <<seq, unanswered, truth, timedout>>
    BY <1>4 DEF SenderWoken, carrierVars
  <2> QED BY <1>1, <1>2, <2>1 DEF HeardInv, WaitInv, Outstanding
<1>5. CASE SenderTimeout
  <2>1. timedout' # {} /\ ~signalled' /\ spc' = "idle"
    BY <1>5 DEF SenderTimeout
  <2> QED BY <2>1 DEF HeardInv, WaitInv
<1>6. CASE SenderWait \/ SenderCount
  <2>1. /\ UNCHANGED <<seq, msg, unanswered, truth, timedout, settled>>
        /\ signalled' \in {FALSE, signalled}
        /\ \/ spc = "wait" /\ spc' = "waiting" /\ ~signalled'
           \/ spc = "count" /\ spc' = "wait" /\ signalled' = signalled
           \/ spc = "counterr" /\ spc' = "idle" /\ signalled' = signalled
    BY <1>6 DEF SenderWait, SenderCount, carrierVars, history
  <2>2. HeardInv' /\ ~signalled'
    BY <2>1 DEF HeardInv
  <2> QED BY <1>1, <1>2, <2>1, <2>2 DEF WaitInv, Outstanding
<1>7. CASE SenderOwner \/ SenderDiscard \/ \E m \in Msgs : SenderFetch(m)
  <2>1. /\ UNCHANGED <<seq, unanswered, truth, timedout, settled, signalled>>
        /\ spc \in {"idle", "owner", "encode"} /\ spc' \in {"idle", "owner", "encode"}
    BY <1>7 DEF SenderOwner, SenderDiscard, SenderFetch, carrierVars, history
  <2>2. HeardInv' /\ ~signalled'
    BY <2>1 DEF HeardInv
  <2> QED BY <1>1, <1>2, <2>1, <2>2 DEF WaitInv, Outstanding
<1> QED BY <1>3, <1>4, <1>5, <1>6, <1>7 DEF Sender

\* The receiver wakes the sender for the message it waits for.
LEMMA HeardReceiver ==
  ASSUME TypeInv, OutInv, OnceInv, HeardInv, WaitInv, Receiver
  PROVE  HeardInv' /\ WaitInv'
<1>0. /\ ListTypes /\ SenderTypes /\ SenderLocals /\ RecvTypes
      /\ seq \in Seqs \cup {0}
  BY DEF TypeInv, TypeOK, SenderTypes
<1>1. UNCHANGED <<spc, msg, seq, truth, unanswered, accepted, timedout, settled>>
  BY ReceiverLeaves
<1>2. CASE RecvSubmitResp
  <2>1. /\ wire # <<>> /\ wire' = Tail(wire) /\ Head(wire).kind = "ack" /\ rpc = "recv"
        /\ UNCHANGED signalled
    BY <1>2 DEF RecvSubmitResp, Arrived
  <2>2. HeardInv'
    BY <1>1, <2>1 DEF HeardInv
  <2>3. \A n \in Seqs \cup {0} : AckWaits(n)' => AckWaits(n)
    BY <1>0, <2>1, WireShrunk
  <2>4. CASE Head(wire).seq = confirmed.seq /\ Head(wire).result = 0
    <3>1. Head(wire).seq = seq /\ seq \in Seqs
      BY <1>0, <2>1, <2>4, WireHead DEF SenderLocals
    <3>2. AckWaits(seq) /\ seq \notin unanswered
      BY <1>0, <2>1, <3>1, WireShrunk DEF OnceInv
    <3>3. truth[seq] \in accepted
      BY <1>0, <2>1, <2>4, <3>1, Shrunk DEF OnceInv, ListTypes
    <3>4. ~AckWaits(seq)'
      <4> SUFFICES ASSUME NEW k \in DOMAIN wire', AckFor(seq, k)' PROVE FALSE
        BY DEF AckWaits
      <4>1. /\ Len(wire) \in Nat /\ Head(wire) = wire[1] /\ 1 \in DOMAIN wire
            /\ DOMAIN wire' = 1 .. Len(wire) - 1
            /\ k + 1 \in DOMAIN wire /\ wire'[k] = wire[k + 1]
        BY <1>0, <2>1, Shrunk DEF ListTypes
      <4>2. AckFor(seq, k + 1) /\ AckFor(seq, 1)
        BY <1>1, <2>1, <3>1, <4>1 DEF AckFor
      <4>3. k + 1 = 1
        BY <3>1, <4>1, <4>2 DEF OnceInv
      <4> QED BY <4>1, <4>3
    <3>5. timedout = {} => spc \in {"count", "wait", "waiting"} /\ ~signalled
      BY <1>0, <3>2 DEF WaitInv, Outstanding, SenderTypes
    <3> QED BY <1>1, <2>1, <2>2, <3>2, <3>3, <3>4, <3>5 DEF WaitInv
  <2>5. CASE ~(Head(wire).seq = confirmed.seq /\ Head(wire).result = 0)
    <3>1. rpc' = rpc
      BY <1>2, <2>5 DEF RecvSubmitResp
    <3> QED BY <1>0, <1>1, <2>1, <2>2, <2>3, <3>1 DEF WaitInv, Outstanding
  <2> QED BY <2>4, <2>5
<1>3. CASE RecvSignal
  <2>1. /\ rpc = "signal" /\ rpc' = "cache" /\ wire' = wire
        /\ signalled' => spc = "waiting"
    BY <1>3 DEF RecvSignal
  <2>2. AckWaits(seq)' <=> AckWaits(seq)
    BY <1>0, <1>1, <2>1, WireFrame
  <2>3. HeardInv'
    BY <1>1, <2>1 DEF HeardInv
  <2> QED BY <1>1, <2>1, <2>2, <2>3 DEF HeardInv, WaitInv, Outstanding
<1>4. CASE RecvRead \/ \E done \in BOOLEAN : RecvCache(done)
  <2>1. rpc # "signal" /\ rpc' # "signal" /\ UNCHANGED <<wire, signalled>>
    BY <1>4 DEF RecvRead, RecvCache
  <2>2. AckWaits(seq)' <=> AckWaits(seq)
    BY <1>0, <1>1, <2>1, WireFrame
  <2> QED BY <1>1, <2>1, <2>2 DEF HeardInv, WaitInv, Outstanding
<1>5. CASE RecvDeliver
  <2>1. wire # <<>> /\ wire' = Tail(wire) /\ UNCHANGED <<rpc, signalled>>
    BY <1>5 DEF RecvDeliver, Arrived, recvVars
  <2>2. AckWaits(seq)' => AckWaits(seq)
    BY <1>0, <1>1, <2>1, WireShrunk
  <2> QED BY <1>1, <2>1, <2>2 DEF HeardInv, WaitInv, Outstanding
<1> QED BY <1>2, <1>3, <1>4, <1>5 DEF Receiver

\* The carrier answers what is outstanding, and the link only takes away.
LEMMA HeardEnvironment ==
  ASSUME TypeInv, HeardInv, WaitInv, Environment
  PROVE  HeardInv' /\ WaitInv'
<1>0. ListTypes /\ seq \in Seqs \cup {0}
  BY DEF TypeInv, TypeOK, SenderTypes
<1>1. UNCHANGED <<spc, msg, seq, signalled, rpc, truth, timedout, settled>>
  BY EnvironmentLeaves
<1>2. accepted \subseteq accepted'
  BY AcceptedGrows
<1>3. HeardInv'
  BY <1>1 DEF HeardInv
<1>4. ASSUME \/ /\ AckWaits(seq)' => AckWaits(seq)
                /\ unanswered' \subseteq unanswered
             \/ seq \in unanswered
      PROVE  WaitInv'
  BY <1>1, <1>2, <1>4 DEF WaitInv, Outstanding
<1>5. ASSUME NEW n \in Seqs, NEW result \in {0, 1}, CarrierAnswer(n, result) PROVE WaitInv'
  <2>1. wire' = Append(wire, Answer(n, result)) /\ Answer(n, result) \in Packet
    BY <1>5, Packets DEF CarrierAnswer, Answer
  <2>2. Answer(n, result).kind = "ack" /\ Answer(n, result).seq = n
    BY DEF Answer
  <2>3. n \in unanswered /\ unanswered' \subseteq unanswered
    BY <1>5 DEF CarrierAnswer
  <2>4. AckWaits(seq)' => AckWaits(seq) \/ seq = n
    BY <1>0, <1>1, <2>1, <2>2, WireGrown
  <2> QED BY <1>4, <2>3, <2>4
<1>6. ASSUME NEW c \in Carrier, CarrierReport(c) PROVE WaitInv'
  <2>1. wire' = Append(wire, ReportOn(c)) /\ ReportOn(c) \in Packet /\ unanswered' = unanswered
    BY <1>6, Packets DEF CarrierReport, ReportOn
  <2>2. ReportOn(c).kind # "ack"
    BY DEF ReportOn
  <2> QED BY <1>0, <1>1, <1>4, <2>1, <2>2, WireGrown
<1>7. ASSUME NEW d \in Delivers, CarrierDeliver(d) PROVE WaitInv'
  <2>1. wire' = Append(wire, MessageOf(d)) /\ MessageOf(d) \in Packet /\ unanswered' = unanswered
    BY <1>7, Packets DEF CarrierDeliver, MessageOf
  <2>2. MessageOf(d).kind # "ack"
    BY DEF MessageOf
  <2> QED BY <1>0, <1>1, <1>4, <2>1, <2>2, WireGrown
<1>8. CASE LinkDown
  <2>1. wire' = <<>> /\ unanswered' = {}
    BY <1>8 DEF LinkDown
  <2>2. ~AckWaits(seq)'
    BY <2>1 DEF AckWaits
  <2> QED BY <1>3, <1>4, <2>1, <2>2
<1>9. CASE LinkUp
  <2>1. UNCHANGED <<wire, unanswered>>
    BY <1>9 DEF LinkUp, carrierVars
  <2>2. AckWaits(seq)' <=> AckWaits(seq)
    BY <1>0, <1>1, <2>1, WireFrame
  <2> QED BY <1>3, <1>4, <2>1, <2>2
<1> QED BY <1>3, <1>5, <1>6, <1>7, <1>8, <1>9 DEF Environment

\* SettledUntilTimeout holds, for any number of messages, losses of the link and late
\* answers: until a wait times out, a signal means that the message waited for was
\* accepted (sp.c:274, 337-349), although the wait has no predicate.
THEOREM SettledMeansAccepted == Spec => []SettledUntilTimeout
<1>1. Init => SettledInv
  <2> SUFFICES ASSUME Init PROVE SettledInv
    OBVIOUS
  <2>1. \A n : ~AckWaits(n)
    BY DEF Init, AckWaits
  <2> QED BY <2>1 DEF Init, SettledInv, OnceInv, HeardInv, WaitInv, Outstanding
<1>2. TypeInv /\ MapInv /\ SettledInv /\ [Next]_vars => SettledInv'
  <2> SUFFICES ASSUME TypeInv, MapInv, SettledInv, [Next]_vars PROVE SettledInv'
    OBVIOUS
  <2>1. OutInv /\ OnceInv /\ HeardInv /\ WaitInv /\ seq \in Seqs \cup {0}
    BY DEF MapInv, SettledInv, TypeInv, TypeOK, SenderTypes
  <2>2. OnceInv'
    BY <2>1, OnceStep
  <2>3. CASE Worker \/ Stat \/ UNCHANGED vars
    <3>1. UNCHANGED <<spc, msg, seq, signalled, rpc, wire, truth, unanswered, accepted, timedout,
                      settled>>
      BY <2>3, OthersLeave, StutterLeaves
    <3>2. AckWaits(seq)' <=> AckWaits(seq)
      BY <2>1, <3>1, WireFrame
    <3>3. HeardInv' /\ WaitInv'
      BY <2>1, <3>1, <3>2 DEF HeardInv, WaitInv, Outstanding
    <3> QED BY <2>2, <3>3 DEF SettledInv
  <2> QED BY <2>1, <2>2, <2>3, HeardSender, HeardReceiver, HeardEnvironment DEF SettledInv, Next
<1>3. SettledInv => SettledUntilTimeout
  BY DEF SettledInv, WaitInv, SettledUntilTimeout
<1> QED BY <1>1, <1>2, <1>3, SpTyped, MapKept, PTL DEF Spec

=============================================================================
