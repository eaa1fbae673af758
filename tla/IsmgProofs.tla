----------------------------- MODULE IsmgProofs -----------------------------
(***************************************************************************)
(* Proofs about Ismg, for any queue, number of sessions, submissions and   *)
(* packets under way, and any size of the counter: its type invariant, who *)
(* may end a wait, what may be lost and which message ids are repeated.    *)
(***************************************************************************)
EXTENDS Ismg, FiniteSetTheorems, SequenceTheorems, TLAPS

-----------------------------------------------------------------------------
(* Lists *)

\* Appending puts one element behind the others.
LEMMA Grown ==
  ASSUME NEW S, NEW s \in Seq(S), NEW e \in S
  PROVE  /\ Append(s, e) \in Seq(S) /\ Len(s) \in Nat /\ Len(Append(s, e)) = Len(s) + 1
         /\ DOMAIN s = 1 .. Len(s) /\ DOMAIN Append(s, e) = 1 .. Len(s) + 1
         /\ \A k \in DOMAIN s : Append(s, e)[k] = s[k]
         /\ Append(s, e)[Len(s) + 1] = e
  BY AppendProperties, LenProperties

\* Taking the head moves the others one place forward.
LEMMA Shrunk ==
  ASSUME NEW S, NEW s \in Seq(S), s # <<>>
  PROVE  /\ Tail(s) \in Seq(S) /\ Len(s) \in Nat \ {0} /\ Len(Tail(s)) = Len(s) - 1
         /\ 1 \in DOMAIN s /\ Head(s) = s[1] /\ Head(s) \in S
         /\ DOMAIN s = 1 .. Len(s) /\ DOMAIN Tail(s) = 1 .. Len(s) - 1
         /\ \A k \in DOMAIN Tail(s) : k + 1 \in DOMAIN s /\ Tail(s)[k] = s[k + 1]
  BY HeadTailProperties, LenProperties

\* A place of the queue holds an item, and no other place the same one.
LEMMA QueueFacts ==
  /\ Len(Queue) \in Nat /\ DOMAIN Queue = 1 .. Len(Queue)
  /\ \A k \in 1 .. Len(Queue) : Queue[k] \in Items /\ Queue[k] # None
  /\ \A j, k \in 1 .. Len(Queue) : Queue[j] = Queue[k] => j = k
<1>1. Len(Queue) \in Nat /\ DOMAIN Queue = 1 .. Len(Queue)
  BY IsmgAssumption, LenProperties
<1> QED BY <1>1, IsmgAssumption DEF Items

-----------------------------------------------------------------------------
(* Type correctness *)

Packet == [seq : Place, id : Items]
Answer == [seq : Place, id : Items, result : {0, 1}]

\* A session never has more of the queue than mo has handed out.
TypeInv == TypeOK /\ sent + (IF answer = None THEN 0 ELSE 1) <= popped

\* Initially all is well typed.
LEMMA TypeInit == Init => TypeInv
<1> SUFFICES ASSUME Init PROVE TypeInv
  OBVIOUS
<1>1. 0 \in Place /\ 1 \in 1 .. MaxSessions /\ 1 \in 1 .. SeqMax
  BY QueueFacts, IsmgAssumption DEF Place
<1>2. confirmed \in [seq : Place, id : Items \cup {None}]
  BY <1>1 DEF Init, NotConfirmed
<1>5. DeliverTypes
  BY <1>1, <1>2 DEF Init, DeliverTypes
<1>6. sent + (IF answer = None THEN 0 ELSE 1) <= popped
  BY DEF Init
<1>3. WireTypes
  BY DEF Init, WireTypes
<1>4. IdTypes /\ HistoryTypes
  BY <1>1 DEF Init, IdTypes, HistoryTypes
<1> QED BY <1>3, <1>4, <1>5, <1>6 DEF TypeInv, TypeOK

\* The work thread keeps the types.
LEMMA TypeWork ==
  ASSUME TypeInv, RecvSubmit \/ RecvDeliverResp \/ RecvSignal
  PROVE  TypeInv'
<1> USE DEF moVars, deliverVars, wireVars, idVars, history
<1>0. DeliverTypes /\ WireTypes /\ IdTypes /\ HistoryTypes /\ sent + (IF answer = None THEN 0 ELSE 1) <= popped
  BY DEF TypeInv, TypeOK
<1>1. CASE RecvSubmit
  <2>1. seq' \in 1 .. SeqMax
    BY <1>0, <1>1, IsmgAssumption DEF RecvSubmit, SequenceNext, IdTypes
  <2> QED BY <1>0, <1>1, <2>1 DEF RecvSubmit, TypeInv, TypeOK, DeliverTypes, WireTypes, IdTypes,
             HistoryTypes
<1>2. CASE RecvDeliverResp
  <2>1. in' \in Seq(Answer)
    BY <1>0, <1>2, Shrunk DEF RecvDeliverResp, WireTypes, Answer
  <2>2. WireTypes'
    BY <1>0, <1>2, <2>1 DEF RecvDeliverResp, WireTypes, Answer
  <2> QED BY <1>0, <1>2, <2>2 DEF RecvDeliverResp, TypeInv, TypeOK, DeliverTypes, IdTypes,
             HistoryTypes
<1>3. CASE RecvSignal
  BY <1>0, <1>3 DEF RecvSignal, TypeInv, TypeOK, DeliverTypes, WireTypes, IdTypes, HistoryTypes
<1> QED BY <1>1, <1>2, <1>3

\* The deliver thread keeps the types.
LEMMA TypeDeliver ==
  ASSUME TypeInv, Deliver \/ DeliverSpurious
  PROVE  TypeInv'
<1> USE DEF moVars, deliverVars, wireVars, idVars, history
<1>0. DeliverTypes /\ WireTypes /\ IdTypes /\ HistoryTypes /\ sent + (IF answer = None THEN 0 ELSE 1) <= popped
  BY DEF TypeInv, TypeOK
<1>1. IdTypes'
  BY <1>0 DEF Deliver, DeliverSpurious, DeliverAsk, DeliverFetch, DeliverId, DeliverSend, DeliverWait,
     DeliverTimeout, DeliverWoken, DeliverDone, IdTypes
<1>2. CASE DeliverFetch
  <2>1. popped \in Nat /\ sent \in Nat /\ popped <= Len(Queue) /\ answer \in Items /\ answer # None
    BY <1>0, <1>2, QueueFacts DEF DeliverFetch, DeliverTypes, Place
  <2>2. /\ sent' \in Place /\ sent + 1 \in Place /\ sent' <= popped' /\ answer' = None
        /\ item' \in Items /\ item' # None
    BY <1>0, <1>2, <2>1, QueueFacts DEF DeliverFetch, Place
  <2>3. DeliverTypes'
    BY <1>0, <1>2, <2>2 DEF DeliverFetch, DeliverTypes
  <2>4. (sent + (IF answer = None THEN 0 ELSE 1) <= popped)'
    BY <2>1, <2>2, <1>2 DEF DeliverFetch
  <2>5. earlier' \in [Items -> SUBSET Items]
    BY <1>0, <1>2, <2>1 DEF DeliverFetch, HistoryTypes
  <2>6. HistoryTypes'
    BY <1>0, <1>2, <2>1, <2>5 DEF DeliverFetch, HistoryTypes
  <2>7. WireTypes'
    BY <1>0, <1>2 DEF DeliverFetch, WireTypes
  <2> QED BY <1>1, <2>3, <2>4, <2>6, <2>7 DEF TypeInv, TypeOK
<1>3. CASE DeliverAsk \/ DeliverId \/ DeliverWait
  BY <1>0, <1>1, <1>3 DEF DeliverAsk, DeliverId, DeliverWait, TypeInv, TypeOK, DeliverTypes, WireTypes,
     HistoryTypes
<1>4. ASSUME NEW done \in BOOLEAN, DeliverSend(done) PROVE TypeInv'
  <2>1. [seq |-> sent, id |-> item] \in Packet
    BY <1>0, <1>4 DEF DeliverSend, DeliverTypes, Packet
  <2>2. out' \in Seq(Packet)
    BY <1>0, <1>4, <2>1, Grown DEF DeliverSend, WireTypes, Packet
  <2>3. WireTypes'
    BY <1>0, <1>4, <2>2 DEF DeliverSend, WireTypes, Packet
  <2> QED BY <1>0, <1>1, <1>4, <2>3 DEF DeliverSend, TypeInv, TypeOK, DeliverTypes, HistoryTypes
<1>5. CASE DeliverTimeout \/ DeliverWoken \/ DeliverSpurious
  <2>1. item \in Items
    BY <1>0, <1>5 DEF DeliverTimeout, DeliverWoken, DeliverSpurious, DeliverTypes
  <2>2. DeliverTypes'
    BY <1>0, <1>5, <2>1 DEF DeliverTimeout, DeliverWoken, DeliverSpurious, DeliverDone, DeliverTypes
  <2>3. HistoryTypes'
    BY <1>0, <1>5, <2>1 DEF DeliverTimeout, DeliverWoken, DeliverSpurious, DeliverDone, HistoryTypes
  <2>4. WireTypes' /\ (sent + (IF answer = None THEN 0 ELSE 1) <= popped)'
    BY <1>0, <1>5 DEF DeliverTimeout, DeliverWoken, DeliverSpurious, DeliverDone, WireTypes
  <2> QED BY <1>1, <2>2, <2>3, <2>4 DEF TypeInv, TypeOK
<1> QED BY <1>2, <1>3, <1>4, <1>5 DEF Deliver

\* mo keeps the types.
LEMMA TypeMo ==
  ASSUME TypeInv, MoAnswer \/ MoDrop \/ MoAgain
  PROVE  TypeInv'
<1> USE DEF moVars, deliverVars, wireVars, idVars, history
<1>0. DeliverTypes /\ WireTypes /\ IdTypes /\ HistoryTypes /\ sent + (IF answer = None THEN 0 ELSE 1) <= popped
  BY DEF TypeInv, TypeOK
<1>1. popped \in Nat /\ sent \in Nat /\ drops \in Nat /\ None \notin Items
  BY <1>0, QueueFacts, IsmgAssumption DEF DeliverTypes, Place
<1>2. WireTypes' /\ IdTypes'
  BY <1>0 DEF MoAnswer, MoDrop, MoAgain, WireTypes, IdTypes
<1>3. MoAnswer \/ MoAgain => popped + 1 \in 1 .. Len(Queue) /\ popped + 1 \in Place /\ popped' = popped + 1
  BY <1>0, <1>1, QueueFacts DEF MoAnswer, MoAgain, Place
<1>4. MoAnswer \/ MoAgain => Queue[popped + 1] \in Items
  BY <1>3, QueueFacts
<1>5. DeliverTypes'
  BY <1>0, <1>1, <1>3, <1>4 DEF MoAnswer, MoDrop, MoAgain, DeliverTypes
<1>6. HistoryTypes'
  BY <1>0, <1>4 DEF MoAnswer, MoDrop, MoAgain, HistoryTypes, DeliverTypes
<1>7. (sent + (IF answer = None THEN 0 ELSE 1) <= popped)'
  BY <1>0, <1>1 DEF MoAnswer, MoDrop, MoAgain
<1> QED BY <1>2, <1>5, <1>6, <1>7 DEF TypeInv, TypeOK

\* The client, the clock and the sessions keep the types.
LEMMA TypeOutside ==
  ASSUME TypeInv,
         \/ \E result \in {0, 1} : ClientReply(result)
         \/ Second
         \/ SessionEnd
         \/ SessionStart
  PROVE  TypeInv'
<1> USE DEF moVars, deliverVars, wireVars, idVars, history
<1>0. DeliverTypes /\ WireTypes /\ IdTypes /\ HistoryTypes /\ sent + (IF answer = None THEN 0 ELSE 1) <= popped
  BY DEF TypeInv, TypeOK
<1>1. ASSUME NEW result \in {0, 1}, ClientReply(result) PROVE TypeInv'
  <2>1. out \in Seq(Packet) /\ out # <<>> /\ in \in Seq(Answer)
    BY <1>0, <1>1 DEF ClientReply, WireTypes, Packet, Answer
  <2>2. Tail(out) \in Seq(Packet) /\ Head(out) \in Packet
    BY <2>1, Shrunk
  <2>3. [seq |-> Head(out).seq, id |-> Head(out).id, result |-> result] \in Answer
    BY <2>2 DEF Packet, Answer
  <2>4. in' \in Seq(Answer) /\ out' \in Seq(Packet)
    BY <1>1, <2>1, <2>2, <2>3, Grown DEF ClientReply
  <2>5. WireTypes'
    BY <1>0, <1>1, <2>4 DEF ClientReply, WireTypes, Packet, Answer
  <2>6. Head(out).id \in Items
    BY <2>2 DEF Packet
  <2>7. HistoryTypes'
    BY <1>0, <1>1, <2>6 DEF ClientReply, HistoryTypes
  <2> QED BY <1>0, <1>1, <2>5, <2>7 DEF ClientReply, TypeInv, TypeOK, DeliverTypes, IdTypes
<1>2. CASE Second
  BY <1>0, <1>2 DEF Second, TypeInv, TypeOK, DeliverTypes, WireTypes, IdTypes, HistoryTypes
<1>3. CASE SessionEnd
  <2>1. popped \in Nat /\ 0 \in Place
    BY <1>0, QueueFacts DEF DeliverTypes, Place
  <2>2. DeliverTypes'
    BY <1>0, <1>3, <2>1, IsmgAssumption DEF SessionEnd, DeliverTypes, NotConfirmed
  <2>5. (sent + (IF answer = None THEN 0 ELSE 1) <= popped)'
    BY <1>3, <2>1 DEF SessionEnd
  <2>3. WireTypes'
    BY <1>3 DEF SessionEnd, WireTypes
  <2>4. HistoryTypes' /\ IdTypes'
    BY <1>0, <1>3 DEF SessionEnd, DeliverTypes, HistoryTypes, IdTypes
  <2> QED BY <2>2, <2>3, <2>4, <2>5 DEF TypeInv, TypeOK
<1>4. CASE SessionStart
  <2>1. IdTypes'
    BY <1>0, <1>4, IsmgAssumption DEF SessionStart, IdTypes
  <2> QED BY <1>0, <1>4, <2>1 DEF SessionStart, TypeInv, TypeOK, DeliverTypes, WireTypes, HistoryTypes
<1> QED BY <1>1, <1>2, <1>3, <1>4

\* Every step keeps the types.
LEMMA TypeNext == TypeInv /\ [Next]_vars => TypeInv'
<1> SUFFICES ASSUME TypeInv, [Next]_vars PROVE TypeInv'
  OBVIOUS
<1>1. CASE UNCHANGED vars
  BY <1>1 DEF vars, moVars, deliverVars, wireVars, idVars, history, TypeInv, TypeOK, DeliverTypes,
     WireTypes, IdTypes, HistoryTypes
<1>2. CASE Next
  BY <1>2, TypeWork, TypeDeliver, TypeMo, TypeOutside DEF Next
<1> QED BY <1>1, <1>2

\* The types hold with the order of the hand-outs they rest on.
THEOREM IsmgTyped == Spec => []TypeInv
<1> QED BY TypeInit, TypeNext, PTL DEF Spec

\* Packets, locals and counters of one client's process (ismg.c:478-615) stay in
\* their ranges, and the counter of message ids (common.c:138-141) never gets
\* past an unsigned short nor back to zero, for every queue and SeqMax.
THEOREM TypesKept == Spec => []TypeOK
<1>1. TypeInv => TypeOK
  BY DEF TypeInv
<1> QED BY <1>1, IsmgTyped, PTL

-----------------------------------------------------------------------------
(* Message ids *)

\* The last id of the process has the counter's value before this one, unless
\* the counter has just started or has started anew.
IdInv ==
  on => \/ seq = 1
        \/ lastId[3] = 1
        \/ lastId[3] \in Nat /\ seq = lastId[3] + 1

RepeatInv == IdInv /\ RepeatsAtWrap

\* No id was given at the start.
LEMMA RepeatInit == Init => RepeatInv
  BY DEF Init, RepeatInv, IdInv, RepeatsAtWrap

\* Only lamb_sequence touches the ids; it repeats one where the counter starts anew.
LEMMA RepeatNext == TypeInv /\ RepeatInv /\ [Next]_vars => RepeatInv'
<1> SUFFICES ASSUME TypeInv, RepeatInv, [Next]_vars PROVE RepeatInv'
  OBVIOUS
<1> USE DEF moVars, deliverVars, wireVars, idVars, history
<1>0. IdInv /\ RepeatsAtWrap /\ seq \in 1 .. SeqMax /\ SeqMax \in Nat \ {0, 1}
  BY IsmgAssumption DEF RepeatInv, TypeInv, TypeOK, IdTypes
<1>1. CASE RecvSubmit
  <2>1. on /\ on' = on /\ lastId' = MsgId /\ seq' = SequenceNext
    BY <1>1 DEF RecvSubmit
  <2>2. MsgId[3] = SequenceValue
    BY DEF MsgId
  <2>3. IdInv'
    <3>1. CASE seq < SeqMax
      <4>1. lastId'[3] = seq /\ seq' = seq + 1 /\ seq \in Nat
        BY <1>0, <2>1, <2>2, <3>1 DEF SequenceValue, SequenceNext
      <4> QED BY <4>1 DEF IdInv
    <3>2. CASE ~(seq < SeqMax)
      BY <2>1, <3>2 DEF SequenceNext, IdInv
    <3> QED BY <3>1, <3>2
  <2>4. ASSUME MsgId = lastId PROVE SequenceValue = 1
    <3>1. lastId[3] = SequenceValue
      BY <2>2, <2>4
    <3> QED BY <1>0, <2>1, <3>1 DEF IdInv, SequenceValue
  <2>5. RepeatsAtWrap'
    BY <1>0, <1>1, <2>2, <2>4 DEF RecvSubmit, RepeatsAtWrap
  <2> QED BY <2>3, <2>5 DEF RepeatInv
<1>2. CASE SessionStart
  BY <1>0, <1>2 DEF SessionStart, RepeatInv, IdInv, RepeatsAtWrap
<1>3. CASE SessionEnd
  BY <1>0, <1>3 DEF SessionEnd, RepeatInv, IdInv, RepeatsAtWrap
<1>4. CASE UNCHANGED <<on, seq, lastId, repeated>>
  BY <1>0, <1>4 DEF RepeatInv, IdInv, RepeatsAtWrap
<1>5. \/ RecvSubmit \/ SessionStart \/ SessionEnd
      \/ UNCHANGED <<on, seq, lastId, repeated>>
  BY DEF vars, Next, RecvDeliverResp, RecvSignal, Deliver, DeliverAsk, DeliverFetch, DeliverId,
     DeliverSend, DeliverWait, MoAnswer, MoDrop, MoAgain, DeliverTimeout, DeliverWoken, DeliverSpurious, DeliverDone, ClientReply, Second
<1> QED BY <1>1, <1>2, <1>3, <1>4, <1>5

\* Two submissions in a row get the same message id, under which lamb-server
\* keeps what it knows of them, only where lamb_sequence (common.c:138-141)
\* starts anew, whatever the size of the counter, the speed of the client and
\* the number of sessions.
THEOREM RepeatsOnlyAtWrap == Spec => []RepeatsAtWrap
<1>1. RepeatInv => RepeatsAtWrap
  BY DEF RepeatInv
<1> QED BY <1>1, RepeatInit, RepeatNext, IsmgTyped, PTL DEF Spec

-----------------------------------------------------------------------------
(* Loss *)

\* What mo has handed out.
Taken == {Queue[k] : k \in 1 .. popped}

\* What is on its way to the deliver thread or in its hand.
InHand == {answer, item}

\* The two parts of LossExplained.
Covered == Taken \ (received \cup InHand \cup early) \subseteq lost
Bounded == Cardinality(lost) <= session - (IF on THEN 1 ELSE 0) + drops

\* What the client has answered it has got.
LossInv == acked \subseteq received /\ IsFiniteSet(lost) /\ Covered /\ Bounded

\* LossExplained is the conjunction of its two parts.
LEMMA LossParts == LossExplained <=> Covered /\ Bounded
  BY DEF LossExplained, Covered, Bounded, Taken, InHand

\* Nothing was handed out at the start.
LEMMA LossInit == Init => LossInv
<1> SUFFICES ASSUME Init PROVE LossInv
  OBVIOUS
<1>1. Taken = {}
  BY DEF Init, Taken
<1>2. IsFiniteSet(lost) /\ Cardinality(lost) = 0
  BY FS_EmptySet DEF Init
<1>3. Covered
  BY <1>1 DEF Covered
<1>4. Bounded
  BY <1>2 DEF Bounded, Init
<1> QED BY <1>2, <1>3, <1>4, LossParts DEF LossInv, Init

\* mo hands out one more item.
LEMMA TakenMore ==
  ASSUME popped \in Nat, popped' = popped + 1
  PROVE  Taken' = Taken \cup {Queue[popped + 1]}
<1>1. 1 .. popped' = 1 .. popped \cup {popped + 1}
  OBVIOUS
<1> QED BY <1>1 DEF Taken

\* Of an answer and an item at most one is there.
LEMMA OneInHand == TypeInv => item = None \/ answer = None
  BY DEF TypeInv, TypeOK, DeliverTypes

\* One more item lost is one more at most.
LEMMA LostMore ==
  ASSUME NEW S, IsFiniteSet(S), NEW T, T = S \/ \E x : T = S \cup {x}
  PROVE  /\ IsFiniteSet(T) /\ Cardinality(S) \in Nat /\ Cardinality(T) \in Nat
         /\ Cardinality(T) <= Cardinality(S) + 1
<1>1. Cardinality(S) \in Nat
  BY FS_CardinalityType
<1>2. CASE T = S
  BY <1>1, <1>2
<1>3. ASSUME NEW x, T = S \cup {x}
      PROVE  IsFiniteSet(T) /\ Cardinality(T) \in Nat /\ Cardinality(T) <= Cardinality(S) + 1
  <2>1. /\ IsFiniteSet(S \cup {x})
        /\ Cardinality(S \cup {x}) = IF x \in S THEN Cardinality(S) ELSE Cardinality(S) + 1
    BY FS_AddElement
  <2>2. Cardinality(T) = Cardinality(S \cup {x}) /\ IsFiniteSet(T)
    BY <1>3, <2>1
  <2> QED BY <1>1, <2>1, <2>2
<1> QED BY <1>1, <1>2, <1>3

\* A step adds to what is lost only with the session it ends or the request it
\* serves in vain.
LEMMA LossNext == TypeInv /\ LossInv /\ [Next]_vars => LossInv'
<1> SUFFICES ASSUME TypeInv, LossInv, [Next]_vars PROVE LossInv'
  OBVIOUS
<1> USE DEF moVars, deliverVars, wireVars, idVars, history
<1>0. /\ acked \subseteq received /\ IsFiniteSet(lost) /\ Covered /\ Bounded
      /\ popped \in Nat /\ session \in Nat /\ on \in BOOLEAN
      /\ drops \in Nat /\ (item = None \/ answer = None)
  BY QueueFacts, IsmgAssumption, OneInHand DEF LossInv, TypeInv, TypeOK, DeliverTypes, IdTypes, Place
<1>1. CASE MoAnswer \/ MoAgain
  <2>1. /\ popped' = popped + 1 /\ UNCHANGED <<item, received, acked, early, on, session>>
        /\ MoAnswer => /\ answer = None /\ answer' = Queue[popped + 1]
                       /\ lost' = lost /\ drops' = drops
        /\ MoAgain => /\ answer' = answer /\ lost' = lost \cup {Queue[popped + 1]}
                      /\ drops' = drops + 1
    BY <1>1 DEF MoAnswer, MoAgain
  <2>2. Taken' = Taken \cup {Queue[popped + 1]}
    BY <1>0, <2>1, TakenMore
  <2>3. None \notin Taken
    BY <1>0, QueueFacts DEF Taken, TypeInv, TypeOK, DeliverTypes, Place
  <2>4. Covered'
    BY <1>0, <1>1, <2>1, <2>2, <2>3 DEF Covered, InHand
  <2>5. lost' = lost \/ \E x : lost' = lost \cup {x}
    BY <1>1, <2>1
  <2>7. /\ IsFiniteSet(lost') /\ Cardinality(lost) \in Nat /\ Cardinality(lost') \in Nat
        /\ Cardinality(lost') <= Cardinality(lost) + 1
    BY <1>0, <2>5, LostMore
  <2>6. Bounded'
    <3>1. CASE MoAnswer
      BY <1>0, <2>1, <3>1 DEF Bounded
    <3>2. CASE MoAgain
      BY <1>0, <2>1, <2>7, <3>2 DEF Bounded
    <3> QED BY <1>1, <3>1, <3>2
  <2> QED BY <1>0, <2>1, <2>4, <2>6, <2>7 DEF LossInv
<1>2. CASE DeliverFetch \/ MoDrop
  <2>1. /\ UNCHANGED <<popped, received, acked, early, on, session>> /\ answer' = None
        /\ DeliverFetch => item = None /\ item' = answer /\ lost' = lost /\ drops' = drops
        /\ MoDrop => item' = item /\ lost' = lost \cup {answer} /\ drops' = drops + 1
    BY <1>0, <1>2 DEF DeliverFetch, MoDrop
  <2>3. Covered'
    BY <1>0, <1>2, <2>1 DEF Covered, InHand, Taken
  <2>5. lost' = lost \/ \E x : lost' = lost \cup {x}
    BY <1>2, <2>1
  <2>7. /\ IsFiniteSet(lost') /\ Cardinality(lost) \in Nat /\ Cardinality(lost') \in Nat
        /\ Cardinality(lost') <= Cardinality(lost) + 1
    BY <1>0, <2>5, LostMore
  <2>6. Bounded'
    <3>1. CASE DeliverFetch
      BY <1>0, <2>1, <3>1 DEF Bounded
    <3>2. CASE MoDrop
      BY <1>0, <2>1, <2>7, <3>2 DEF Bounded
    <3> QED BY <1>2, <3>1, <3>2
  <2> QED BY <1>0, <2>1, <2>3, <2>6, <2>7 DEF LossInv
<1>3. CASE DeliverWoken \/ DeliverSpurious
  <2>1. /\ UNCHANGED <<popped, answer, drops, received, acked, lost, on, session>>
        /\ early' = IF item \in acked THEN early ELSE early \cup {item}
        /\ item' = None
    BY <1>3 DEF DeliverWoken, DeliverSpurious, DeliverDone
  <2>2. Covered'
    BY <1>0, <2>1 DEF Covered, InHand, Taken
  <2> QED BY <1>0, <2>1, <2>2 DEF Bounded, LossInv
<1>4. ASSUME NEW result \in {0, 1}, ClientReply(result) PROVE LossInv'
  <2>1. UNCHANGED <<popped, answer, drops, item, early, lost, on, session>> /\ received \subseteq received'
    BY <1>4 DEF ClientReply
  <2>2. (acked \subseteq received)'
    BY <1>0, <1>4 DEF ClientReply
  <2>3. Covered'
    BY <1>0, <2>1 DEF Covered, InHand, Taken
  <2> QED BY <1>0, <2>1, <2>2, <2>3 DEF Bounded, LossInv
<1>5. CASE SessionEnd
  <2>1. /\ lost' = lost \cup ({answer, item} \ {None}) /\ on /\ ~on' /\ item' = None /\ answer' = None
        /\ UNCHANGED <<session, popped, drops, received, acked, early>>
    BY <1>5 DEF SessionEnd
  <2>2. None \notin Taken
    BY <1>0, QueueFacts DEF Taken, TypeInv, TypeOK, DeliverTypes, Place
  <2>3. Covered'
    BY <1>0, <2>1, <2>2 DEF Covered, InHand, Taken
  <2>4. lost' = lost \/ \E x : lost' = lost \cup {x}
    <3>1. CASE item = None /\ answer = None
      BY <2>1, <3>1
    <3>2. CASE item = None /\ answer # None
      <4>1. lost' = lost \cup {answer}
        BY <2>1, <3>2
      <4> QED BY <4>1
    <3>3. CASE item # None /\ answer = None
      <4>1. lost' = lost \cup {item}
        BY <2>1, <3>3
      <4> QED BY <4>1
    <3> QED BY <1>0, <3>1, <3>2, <3>3
  <2>6. /\ IsFiniteSet(lost') /\ Cardinality(lost) \in Nat /\ Cardinality(lost') \in Nat
        /\ Cardinality(lost') <= Cardinality(lost) + 1
    BY <1>0, <2>4, LostMore
  <2>5. Bounded'
    BY <1>0, <2>1, <2>6 DEF Bounded
  <2> QED BY <1>0, <2>1, <2>3, <2>5, <2>6 DEF LossInv
<1>6. CASE SessionStart
  <2>1. UNCHANGED <<popped, answer, drops, item, received, acked, early, lost>> /\ ~on /\ on' /\ session' = session + 1
    BY <1>6 DEF SessionStart
  <2>2. Covered'
    BY <1>0, <2>1 DEF Covered, InHand, Taken
  <2>3. Bounded'
    BY <1>0, <2>1, FS_CardinalityType DEF Bounded
  <2> QED BY <1>0, <2>1, <2>2, <2>3 DEF LossInv
<1>7. CASE UNCHANGED <<popped, answer, drops, item, received, acked, early, lost, on, session>>
  BY <1>0, <1>7 DEF LossInv, Covered, Bounded, InHand, Taken
<1>8. \/ MoAnswer \/ MoDrop \/ MoAgain \/ DeliverFetch \/ DeliverWoken \/ DeliverSpurious \/ SessionStart
      \/ (\E result \in {0, 1} : ClientReply(result))
      \/ SessionEnd
      \/ UNCHANGED <<popped, answer, drops, item, received, acked, early, lost, on, session>>
  BY DEF vars, Next, RecvSubmit, RecvDeliverResp, RecvSignal, Deliver, DeliverAsk, DeliverId,
     DeliverSend, DeliverWait, DeliverTimeout, Second
<1> QED BY <1>1, <1>2, <1>3, <1>4, <1>5, <1>6, <1>7, <1>8

\* What mo has handed out and forgotten reaches the client, unless its wait ended
\* early, a session ended with it or mo served a request in vain, and each session
\* that ends and each request served in vain costs at most one item
\* (mo.c:461-495, ismg.c:478-615), for every queue and every number of sessions
\* and broken connections.
THEOREM LossIsExplained == Spec => []LossExplained
<1>1. LossInv => LossExplained
  BY LossParts DEF LossInv
<1> QED BY <1>1, LossInit, LossNext, IsmgTyped, PTL DEF Spec

-----------------------------------------------------------------------------
(* Waits that end early *)

\* What the session has had of the queue before the item in hand.
Before == had \ {item}

\* No earlier item of the session was sent twice or ended its wait for no reason.
Calm == Before \cap (resent \cup spurious) = {}

\* Packets, answers and signals under way.
Under == Len(out) + Len(in) + (IF rpc = "signal" THEN 1 ELSE 0) + (IF signalled THEN 1 ELSE 0)

\* The item in hand is one the session has had, an answer of mo is a new item, and
\* a success under way stands for a success of the client.
HandInv ==
  /\ item # None => item \in had /\ earlier[item] = Before
  /\ had \cup early \subseteq Taken
  /\ answer # None => answer \in Taken /\ answer \notin had \cup early
  /\ signalled => dpc = "waiting"
  /\ \A k \in DOMAIN in : in[k].result = 0 => in[k].id \in acked

\* What is under way is about the item in hand: nothing before it is sent, and at
\* most one thing unless it is sent again.
Quiet ==
  /\ \A k \in DOMAIN out : out[k].id = item
  /\ \A k \in DOMAIN in : in[k].id = item
  /\ rpc = "signal" \/ signalled => item \in acked
  /\ item = None \/ dpc = "id" \/ (dpc = "send" /\ item \notin resent) => Under = 0
  /\ item \notin resent => Under <= 1

CalmInv == Calm => Quiet

EarlyInv == HandInv /\ CalmInv /\ EarlyExplained

\* Under counts: it is zero when nothing is under way.
LEMMA UnderFacts ==
  ASSUME TypeInv
  PROVE  /\ out \in Seq(Packet) /\ in \in Seq(Answer)
         /\ Len(out) \in Nat /\ Len(in) \in Nat /\ Under \in Nat
         /\ Under = 0 => out = <<>> /\ in = <<>> /\ rpc # "signal" /\ ~signalled
         /\ Under <= 1 /\ signalled => out = <<>> /\ in = <<>> /\ rpc # "signal"
<1>1. out \in Seq(Packet) /\ in \in Seq(Answer)
  BY DEF TypeInv, TypeOK, WireTypes, Packet, Answer
<1>2. Len(out) \in Nat /\ Len(in) \in Nat
  BY <1>1, LenProperties
<1>3. (Len(out) = 0 => out = <<>>) /\ (Len(in) = 0 => in = <<>>)
  BY <1>1, EmptySeq
<1> QED BY <1>1, <1>2, <1>3 DEF Under

\* Nothing is in hand or under way at the start.
LEMMA EarlyInit == Init => EarlyInv
<1> SUFFICES ASSUME Init PROVE EarlyInv
  OBVIOUS
<1>1. HandInv
  BY DEF Init, HandInv
<1>2. Under = 0
  BY DEF Init, Under
<1>3. Quiet
  BY <1>2 DEF Init, Quiet
<1> QED BY <1>1, <1>3 DEF EarlyInv, CalmInv, EarlyExplained, Init

\* The work thread, the clock and a login keep EarlyInv.
LEMMA EarlyWork ==
  ASSUME TypeInv, EarlyInv,
         \/ RecvSubmit \/ RecvDeliverResp \/ RecvSignal \/ Second \/ SessionStart
         \/ UNCHANGED vars
  PROVE  EarlyInv'
<1> USE DEF moVars, deliverVars, wireVars, idVars, history
<1>0. HandInv /\ CalmInv /\ EarlyExplained
  BY DEF EarlyInv
<1>1. /\ UNCHANGED <<popped, answer, dpc, item, sent, out, received, acked, resent, spurious, early, had, earlier>>
      /\ Before' = Before /\ Taken' = Taken /\ (Calm <=> Calm')
  <2>1. UNCHANGED <<popped, answer, dpc, item, sent, out, received, acked, resent, spurious, early, had, earlier>>
    BY DEF RecvSubmit, RecvDeliverResp, RecvSignal, Second, SessionStart, vars
  <2> QED BY <2>1 DEF Before, Taken, Calm
<1>2. EarlyExplained'
  BY <1>0, <1>1 DEF EarlyExplained
<1>3. CASE RecvSubmit \/ Second \/ SessionStart \/ UNCHANGED vars
  <2>1. UNCHANGED <<in, rpc, signalled>>
    BY <1>3 DEF RecvSubmit, Second, SessionStart, vars
  <2>2. HandInv'
    BY <1>0, <1>1, <2>1 DEF HandInv
  <2>3. CalmInv'
    BY <1>0, <1>1, <2>1 DEF CalmInv, Quiet, Under
  <2> QED BY <1>2, <2>2, <2>3 DEF EarlyInv
<1>4. CASE RecvDeliverResp
  <2>1. /\ in # <<>> /\ in' = Tail(in) /\ UNCHANGED signalled /\ rpc = "recv"
        /\ rpc' = "recv" \/ (rpc' = "signal" /\ Head(in).result = 0)
    BY <1>4 DEF RecvDeliverResp
  <2>2. /\ Len(in) \in Nat \ {0} /\ Len(in') = Len(in) - 1 /\ 1 \in DOMAIN in /\ Head(in) = in[1]
        /\ \A k \in DOMAIN in' : k + 1 \in DOMAIN in /\ in'[k] = in[k + 1]
    BY <2>1, UnderFacts, Shrunk
  <2>3. HandInv'
    BY <1>0, <1>1, <2>1, <2>2 DEF HandInv
  <2>4. Under' \in Nat /\ Under' <= Under
    BY <1>1, <2>1, <2>2, UnderFacts DEF Under
  <2>5. ASSUME Quiet PROVE Quiet'
    <3>1. rpc' = "signal" \/ signalled' => item \in acked
      BY <1>0, <2>1, <2>2, <2>5 DEF HandInv, Quiet
    <3>2. \A k \in DOMAIN in' : in'[k].id = item
      BY <2>2, <2>5 DEF Quiet
    <3> QED BY <1>1, <2>4, <2>5, <3>1, <3>2, UnderFacts DEF Quiet
  <2> QED BY <1>0, <1>1, <1>2, <2>3, <2>5 DEF EarlyInv, CalmInv
<1>5. CASE RecvSignal
  <2>1. UNCHANGED in /\ rpc = "signal" /\ rpc' = "recv" /\ signalled' = (dpc = "waiting")
    BY <1>5 DEF RecvSignal
  <2>2. HandInv'
    BY <1>0, <1>1, <2>1 DEF HandInv
  <2>3. Under' \in Nat /\ Under' <= Under
    BY <1>1, <2>1, UnderFacts DEF Under
  <2>4. ASSUME Quiet PROVE Quiet'
    BY <1>1, <2>1, <2>3, <2>4, UnderFacts DEF Quiet
  <2> QED BY <1>0, <1>1, <1>2, <2>2, <2>4 DEF EarlyInv, CalmInv
<1> QED BY <1>3, <1>4, <1>5

\* The client keeps EarlyInv: its answer takes the place of the packet.
LEMMA EarlyClient ==
  ASSUME TypeInv, EarlyInv, NEW result \in {0, 1}, ClientReply(result)
  PROVE  EarlyInv'
<1> USE DEF moVars, deliverVars, wireVars, idVars, history
<1> DEFINE reply == [seq |-> Head(out).seq, id |-> Head(out).id, result |-> result]
<1>0. HandInv /\ CalmInv /\ EarlyExplained
  BY DEF EarlyInv
<1>1. /\ UNCHANGED <<popped, answer, dpc, item, sent, signalled, rpc, resent, spurious, early, had, earlier>>
      /\ out # <<>> /\ out' = Tail(out) /\ in' = Append(in, reply)
      /\ acked' = IF result = 0 THEN acked \cup {Head(out).id} ELSE acked
  BY DEF ClientReply
<1>2. Before' = Before /\ Taken' = Taken /\ (Calm <=> Calm')
  BY <1>1 DEF Before, Taken, Calm
<1>3. /\ Len(out) \in Nat \ {0} /\ Len(out') = Len(out) - 1 /\ 1 \in DOMAIN out /\ Head(out) = out[1]
      /\ Head(out) \in Packet
      /\ \A k \in DOMAIN out' : k + 1 \in DOMAIN out /\ out'[k] = out[k + 1]
  BY <1>1, UnderFacts, Shrunk
<1>4. reply \in Answer
  BY <1>3 DEF Packet, Answer
<1>5. /\ Len(in') = Len(in) + 1 /\ DOMAIN in = 1 .. Len(in) /\ DOMAIN in' = 1 .. Len(in) + 1
      /\ \A k \in DOMAIN in : in'[k] = in[k]
      /\ in'[Len(in) + 1] = reply /\ Len(in) \in Nat
  <2> HIDE DEF reply
  <2> QED BY <1>1, <1>4, UnderFacts, Grown
<1>6. \A k \in DOMAIN in' : (k \in DOMAIN in /\ in'[k] = in[k]) \/ in'[k] = reply
  BY <1>5
<1>7. EarlyExplained'
  BY <1>0, <1>1 DEF EarlyExplained
<1>8. \A k \in DOMAIN in' : in'[k].result = 0 => in'[k].id \in acked'
  BY <1>0, <1>1, <1>6 DEF HandInv
<1>9. HandInv'
  BY <1>0, <1>1, <1>2, <1>8 DEF HandInv
<1>10. Under' = Under
  BY <1>1, <1>3, <1>5, UnderFacts DEF Under
<1>11. ASSUME Quiet PROVE Quiet'
  <2>1. \A k \in DOMAIN in' : in'[k].id = item
    BY <1>3, <1>6, <1>11 DEF Quiet
  <2>2. \A k \in DOMAIN out' : out'[k].id = item
    BY <1>3, <1>11 DEF Quiet
  <2> QED BY <1>1, <1>10, <1>11, <2>1, <2>2 DEF Quiet
<1> QED BY <1>0, <1>2, <1>7, <1>9, <1>11 DEF EarlyInv, CalmInv

\* The end of a session leaves nothing under way.
LEMMA EarlyEnd ==
  ASSUME TypeInv, EarlyInv, SessionEnd
  PROVE  EarlyInv'
<1>0. HandInv /\ EarlyExplained
  BY DEF EarlyInv
<1>1. /\ dpc' = "idle" /\ item' = None /\ signalled' = FALSE /\ rpc' = "recv" /\ out' = <<>> /\ in' = <<>>
      /\ UNCHANGED <<popped, resent, spurious, early, earlier>> /\ had' = {} /\ answer' = None
  BY DEF SessionEnd
<1>3. HandInv'
  BY <1>0, <1>1 DEF HandInv, Taken
<1>4. EarlyExplained'
  BY <1>0, <1>1 DEF EarlyExplained
<1>5. Under' = 0
  BY <1>1 DEF Under
<1>6. Quiet'
  BY <1>1, <1>5 DEF Quiet
<1> QED BY <1>3, <1>4, <1>6 DEF EarlyInv, CalmInv

\* mo hands out an item that is not among those of before, or loses one.
LEMMA EarlyMo ==
  ASSUME TypeInv, EarlyInv, DeliverAsk \/ MoAnswer \/ MoDrop \/ MoAgain
  PROVE  EarlyInv'
<1> USE DEF moVars, deliverVars, wireVars, idVars, history
<1>0. HandInv /\ CalmInv /\ EarlyExplained /\ popped \in Nat
  BY QueueFacts DEF EarlyInv, TypeInv, TypeOK, DeliverTypes, Place
<1>1. /\ UNCHANGED <<item, signalled, rpc, out, in, acked, resent, spurious, early, had, earlier>>
      /\ dpc' = dpc \/ (dpc = "idle" /\ dpc' = "asked")
      /\ item = None \/ dpc' = dpc
  BY DEF DeliverAsk, MoAnswer, MoDrop, MoAgain, TypeInv, TypeOK, DeliverTypes
<1>2. Before' = Before /\ (Calm <=> Calm') /\ Under' = Under
  BY <1>1 DEF Before, Calm, Under
<1>3. EarlyExplained'
  BY <1>0, <1>1 DEF EarlyExplained
<1>4. MoAnswer \/ MoAgain => popped + 1 \in 1 .. Len(Queue) /\ popped' = popped + 1
  BY <1>0, QueueFacts DEF MoAnswer, MoAgain
<1>5. MoAnswer \/ MoAgain => /\ Taken' = Taken \cup {Queue[popped + 1]}
                             /\ Queue[popped + 1] \notin Taken
  BY <1>0, <1>4, TakenMore, QueueFacts DEF Taken
<1>6. DeliverAsk \/ MoDrop => Taken' = Taken
  BY DEF DeliverAsk, MoDrop, Taken
<1>7. /\ MoAnswer => answer' = Queue[popped + 1]
      /\ MoDrop => answer' = None
      /\ DeliverAsk \/ MoAgain => answer' = answer
  BY DEF DeliverAsk, MoAnswer, MoDrop, MoAgain
<1>8. (answer # None => answer \in Taken /\ answer \notin had \cup early)'
  BY <1>0, <1>1, <1>5, <1>6, <1>7 DEF HandInv
<1>9. (had \cup early \subseteq Taken)'
  BY <1>0, <1>1, <1>5, <1>6 DEF HandInv
<1>10. (signalled => dpc = "waiting")'
  BY <1>0, <1>1 DEF HandInv
<1>11. HandInv'
  BY <1>0, <1>1, <1>2, <1>8, <1>9, <1>10 DEF HandInv
<1>12. ASSUME Quiet PROVE Quiet'
  BY <1>1, <1>2, <1>12 DEF Quiet
<1> QED BY <1>0, <1>2, <1>3, <1>11, <1>12 DEF EarlyInv, CalmInv

\* A new item, which is not among those that ended their waits.
LEMMA EarlyFetch ==
  ASSUME TypeInv, EarlyInv, DeliverFetch
  PROVE  EarlyInv'
<1> USE DEF moVars, deliverVars, wireVars, idVars, history
<1>0. HandInv /\ CalmInv /\ EarlyExplained
  BY DEF EarlyInv
<1>1. /\ item = None /\ earlier \in [Items -> SUBSET Items] /\ early \subseteq Items
      /\ answer \in Items /\ answer # None /\ had \subseteq Items /\ None \notin Items
  BY IsmgAssumption DEF DeliverFetch, TypeInv, TypeOK, DeliverTypes, HistoryTypes
<1>2. /\ item' = answer /\ answer' = None /\ dpc' = "id" /\ had' = had \cup {answer}
      /\ earlier' = [earlier EXCEPT ![answer] = had]
      /\ UNCHANGED <<popped, signalled, rpc, out, in, acked, resent, spurious, early>>
  BY DEF DeliverFetch
<1>3. answer \in Taken /\ answer \notin had /\ answer \notin early /\ Taken' = Taken
  BY <1>0, <1>1, <1>2 DEF HandInv, Taken
<1>4. Before = had /\ Before' = had /\ earlier'[answer] = had
  BY <1>1, <1>2, <1>3 DEF Before
<1>5. ~signalled
  BY <1>0 DEF HandInv, DeliverFetch
<1>6. HandInv'
  BY <1>0, <1>1, <1>2, <1>3, <1>4, <1>5 DEF HandInv
<1>7. EarlyExplained'
  <2>1. \A y \in early : earlier'[y] = earlier[y]
    BY <1>1, <1>2, <1>3
  <2> QED BY <1>0, <1>2, <2>1 DEF EarlyExplained
<1>8. CalmInv'
  <2>1. SUFFICES ASSUME Calm' PROVE Quiet'
    BY DEF CalmInv
  <2>2. Calm
    BY <1>2, <1>4, <2>1 DEF Calm
  <2>3. Under = 0
    BY <1>0, <1>1, <2>2 DEF CalmInv, Quiet
  <2>4. out = <<>> /\ in = <<>> /\ rpc # "signal" /\ ~signalled
    BY <2>3, UnderFacts
  <2>5. Under' = 0
    BY <1>2, <2>3 DEF Under
  <2> QED BY <1>2, <2>4, <2>5 DEF Quiet
<1> QED BY <1>6, <1>7, <1>8 DEF EarlyInv

\* The item is sent and waited for.
LEMMA EarlySend ==
  ASSUME TypeInv, EarlyInv,
         DeliverId \/ (\E done \in BOOLEAN : DeliverSend(done)) \/ DeliverWait
  PROVE  EarlyInv'
<1> USE DEF moVars, deliverVars, wireVars, idVars, history
<1>0. HandInv /\ CalmInv /\ EarlyExplained /\ signalled \in BOOLEAN
  BY DEF EarlyInv, TypeInv, TypeOK, DeliverTypes
<1>1. UNCHANGED <<popped, answer, item, rpc, in, acked, resent, spurious, early, had, earlier>>
  BY DEF DeliverId, DeliverSend, DeliverWait
<1>2. Before' = Before /\ Taken' = Taken /\ (Calm <=> Calm')
  BY <1>1 DEF Before, Taken, Calm
<1>3. EarlyExplained'
  BY <1>0, <1>1 DEF EarlyExplained
<1>4. ~signalled' /\ ~signalled
  BY <1>0 DEF HandInv, DeliverId, DeliverSend, DeliverWait
<1>5. HandInv'
  BY <1>0, <1>1, <1>2, <1>4 DEF HandInv
<1>6. item # None
  BY DEF TypeInv, TypeOK, DeliverTypes, DeliverId, DeliverSend, DeliverWait
<1>7. ASSUME Quiet PROVE Quiet'
  <2>1. CASE DeliverId
    <3>1. UNCHANGED out /\ dpc = "id" /\ dpc' = "send"
      BY <2>1 DEF DeliverId
    <3>2. Under' = Under /\ Under = 0
      BY <1>1, <1>4, <1>7, <3>1 DEF Under, Quiet
    <3> QED BY <1>1, <1>4, <1>7, <3>1, <3>2 DEF Quiet
  <2>2. ASSUME NEW done \in BOOLEAN, DeliverSend(done) PROVE Quiet'
    <3>1. /\ dpc = "send" /\ dpc' = "wait"
          /\ out' = IF done THEN Append(out, [seq |-> sent, id |-> item]) ELSE out
      BY <2>2 DEF DeliverSend
    <3>2. [seq |-> sent, id |-> item] \in Packet
      BY <3>1 DEF TypeInv, TypeOK, DeliverTypes, Packet
    <3>3. /\ \A k \in DOMAIN out' : out'[k].id = item
          /\ Len(out') \in Nat /\ Len(out') <= Len(out) + 1
      <4>1. CASE done
        <5>1. /\ Len(out') = Len(out) + 1 /\ DOMAIN out = 1 .. Len(out) /\ Len(out) \in Nat
              /\ DOMAIN out' = 1 .. Len(out) + 1
              /\ \A k \in DOMAIN out : out'[k] = out[k]
              /\ out'[Len(out) + 1] = [seq |-> sent, id |-> item]
          BY <3>1, <3>2, <4>1, UnderFacts, Grown
        <5> QED BY <1>7, <5>1 DEF Quiet
      <4>2. CASE ~done
        BY <1>7, <3>1, <4>2, UnderFacts DEF Quiet
      <4> QED BY <4>1, <4>2
    <3>4. Under' <= Under + 1 /\ Under' \in Nat
      BY <1>1, <1>4, <3>3, UnderFacts DEF Under
    <3>5. item \notin resent => Under' <= 1
      BY <1>7, <3>1, <3>4, UnderFacts DEF Quiet
    <3> QED BY <1>1, <1>4, <1>6, <1>7, <3>1, <3>3, <3>5 DEF Quiet
  <2>3. CASE DeliverWait
    <3>1. UNCHANGED out /\ dpc' = "waiting"
      BY <2>3 DEF DeliverWait
    <3>2. Under' = Under
      BY <1>1, <1>4, <3>1 DEF Under
    <3> QED BY <1>1, <1>4, <1>6, <1>7, <3>1, <3>2 DEF Quiet
  <2> QED BY <2>1, <2>2, <2>3
<1> QED BY <1>0, <1>2, <1>3, <1>5, <1>7 DEF EarlyInv, CalmInv

\* After a timeout the item is one that was sent twice; the items before it are
\* the same.
LEMMA EarlyTimeout ==
  ASSUME TypeInv, EarlyInv, DeliverTimeout
  PROVE  EarlyInv'
<1> USE DEF moVars, deliverVars, wireVars, idVars, history
<1>0. HandInv /\ CalmInv /\ EarlyExplained
  BY DEF EarlyInv
<1>1. /\ UNCHANGED <<popped, answer, item, signalled, rpc, out, in, acked, spurious, early, had, earlier>>
      /\ dpc = "waiting" /\ dpc' = "send" /\ ~signalled /\ resent' = resent \cup {item}
  BY DEF DeliverTimeout
<1>2. Before' = Before /\ Taken' = Taken /\ item \notin Before
  BY <1>1 DEF Before, Taken
<1>3. Calm' => Calm
  BY <1>1, <1>2 DEF Calm
<1>4. EarlyExplained'
  BY <1>0, <1>1 DEF EarlyExplained
<1>5. HandInv'
  BY <1>0, <1>1, <1>2 DEF HandInv
<1>6. item # None
  BY <1>1 DEF TypeInv, TypeOK, DeliverTypes
<1>7. ASSUME Quiet PROVE Quiet'
  BY <1>1, <1>6, <1>7 DEF Quiet
<1> QED BY <1>0, <1>3, <1>4, <1>5, <1>7 DEF EarlyInv, CalmInv

\* The item is done and becomes one of those before the next.  If all is calm
\* then too, the signal was the only thing under way, and meant for it.
LEMMA EarlyDone ==
  ASSUME TypeInv, EarlyInv, DeliverWoken \/ DeliverSpurious
  PROVE  EarlyInv'
<1> USE DEF moVars, deliverVars, wireVars, idVars, history
<1>0. HandInv /\ CalmInv /\ EarlyExplained
  BY DEF EarlyInv
<1>1. /\ UNCHANGED <<popped, answer, rpc, out, in, acked, resent, had, earlier>>
      /\ dpc = "waiting" /\ dpc' = "idle" /\ item' = None /\ signalled' = FALSE
      /\ early' = IF item \in acked THEN early ELSE early \cup {item}
      /\ spurious \subseteq spurious'
      /\ signalled \/ item \in spurious'
  BY DEF DeliverWoken, DeliverSpurious, DeliverDone
<1>2. item \in Items /\ item # None /\ had \subseteq Items /\ None \notin Items /\ answer = None
  BY <1>1, IsmgAssumption DEF TypeInv, TypeOK, DeliverTypes, HistoryTypes
<1>3. item \in had /\ earlier[item] = Before /\ Taken' = Taken
  BY <1>0, <1>1, <1>2 DEF HandInv, Taken
<1>6. Before' = Before \cup {item}
  BY <1>1, <1>2, <1>3 DEF Before
<1>7. HandInv'
  BY <1>0, <1>1, <1>2, <1>3 DEF HandInv
<1>8. EarlyExplained'
  <2>1. item \in acked \/ item \in spurious' \/ ~Calm
    BY <1>0, <1>1 DEF CalmInv, Quiet
  <2>2. ~Calm => earlier[item] \cap (resent \cup spurious') # {}
    BY <1>1, <1>3 DEF Calm
  <2> QED BY <1>0, <1>1, <2>1, <2>2 DEF EarlyExplained
<1>9. CalmInv'
  <2>1. SUFFICES ASSUME Calm' PROVE Quiet'
    BY DEF CalmInv
  <2>2. Calm /\ item \notin resent /\ item \notin spurious'
    BY <1>1, <1>6, <2>1 DEF Calm
  <2>3. signalled /\ Under <= 1
    BY <1>0, <1>1, <2>2 DEF CalmInv, Quiet
  <2>4. out = <<>> /\ in = <<>> /\ rpc # "signal"
    BY <2>3, UnderFacts
  <2>5. Under' = 0
    BY <1>1, <2>4 DEF Under
  <2> QED BY <1>1, <2>4, <2>5 DEF Quiet
<1> QED BY <1>7, <1>8, <1>9 DEF EarlyInv

\* Every step keeps EarlyInv.
LEMMA EarlyNext == TypeInv /\ EarlyInv /\ [Next]_vars => EarlyInv'
<1> SUFFICES ASSUME TypeInv, EarlyInv, [Next]_vars PROVE EarlyInv'
  OBVIOUS
<1>1. CASE RecvSubmit \/ RecvDeliverResp \/ RecvSignal \/ Second \/ SessionStart \/ UNCHANGED vars
  BY <1>1, EarlyWork
<1>2. CASE Deliver \/ DeliverSpurious
  BY <1>2, EarlyMo, EarlyFetch, EarlySend, EarlyTimeout, EarlyDone DEF Deliver
<1>3. CASE \E result \in {0, 1} : ClientReply(result)
  BY <1>3, EarlyClient
<1>4. CASE SessionEnd
  BY <1>4, EarlyEnd
<1>5. CASE MoAnswer \/ MoDrop \/ MoAgain
  BY <1>5, EarlyMo
<1> QED BY <1>1, <1>2, <1>3, <1>4, <1>5 DEF Next

\* No refusal, answer with another number or lost signal ends the wait for the
\* client's answer (ismg.c:592): that takes the client's success, a wait that ends
\* for no reason, or an earlier item of the session that was sent twice or whose
\* own wait ended for no reason, for every queue and every number of sessions and
\* packets under way.
THEOREM EarlyIsExplained == Spec => []EarlyExplained
<1>1. EarlyInv => EarlyExplained
  BY DEF EarlyInv
<1> QED BY <1>1, EarlyInit, EarlyNext, IsmgTyped, PTL DEF Spec

=============================================================================
