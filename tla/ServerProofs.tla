---------------------------- MODULE ServerProofs ----------------------------
(***************************************************************************)
(* Proofs about Server, for any number of messages, reports, reloads and   *)
(* exits: its type invariant, what becomes of a message, refunds, arrears  *)
(* and the status in the database.                                         *)
(***************************************************************************)
EXTENDS Server, SequenceTheorems, TLAPS

-----------------------------------------------------------------------------
(* Lists *)

\* Appending puts one element behind the others.
LEMMA Grown ==
  ASSUME NEW S, NEW s \in Seq(S), NEW e \in S
  PROVE  /\ Append(s, e) \in Seq(S) /\ Len(s) \in Nat
         /\ DOMAIN s = 1 .. Len(s) /\ DOMAIN Append(s, e) = 1 .. Len(s) + 1
         /\ \A k \in DOMAIN s : Append(s, e)[k] = s[k]
         /\ Append(s, e)[Len(s) + 1] = e
  BY AppendProperties, LenProperties

\* Taking the head moves the others one place forward.
LEMMA Shrunk ==
  ASSUME NEW S, NEW s \in Seq(S), s # <<>>
  PROVE  /\ Tail(s) \in Seq(S) /\ Len(s) \in Nat \ {0} /\ 1 \in DOMAIN s
         /\ Head(s) = s[1] /\ Head(s) \in S
         /\ DOMAIN s = 1 .. Len(s) /\ DOMAIN Tail(s) = 1 .. Len(s) - 1
         /\ \A k \in DOMAIN Tail(s) : k + 1 \in DOMAIN s /\ Tail(s)[k] = s[k + 1]
  BY HeadTailProperties, LenProperties

-----------------------------------------------------------------------------
(* Type correctness *)

\* The deliver thread has an item while it works on one, a report when it refunds.
DeliverLocals ==
  /\ dpc = "refund" => ditem \in Report
  /\ dpc = "forward" => ditem \in Report \cup Other

TypeInv == TypeOK /\ DeliverLocals

\* Initially all is well typed.
LEMMA TypeInit == Init => TypeInv
<1> SUFFICES ASSUME Init PROVE TypeInv
  OBVIOUS
<1>1. FlagTypes /\ WorkTypes /\ DeliverTypes /\ DeliverLocals
  BY ServerAssumption DEF Init, FlagTypes, WorkTypes, DeliverTypes, DeliverLocals
<1>2. ListTypes
  BY DEF Init, ListTypes
<1>3. StoreTypes /\ FreqTypes /\ CountTypes
  BY ServerAssumption DEF Init, StoreTypes, FreqTypes, CountTypes, Counts
<1> QED BY <1>1, <1>2, <1>3 DEF TypeInv, TypeOK

\* The work thread keeps the types.
LEMMA TypeWork ==
  ASSUME TypeInv, Work
  PROVE  TypeInv'
<1> USE DEF flagVars, deliverVars, listVars, storeVars, freqVars, outsideVars, billHist, storeHist,
            Refuse, GoOn
<1>0. /\ FlagTypes /\ WorkTypes /\ DeliverTypes /\ ListTypes /\ StoreTypes /\ FreqTypes
      /\ CountTypes /\ DeliverLocals
  BY DEF TypeInv, TypeOK
<1>1. wmsg # None => wmsg \in Msgs /\ Phone[wmsg] \in Phones
  BY <1>0, ServerAssumption DEF WorkTypes
<1>2. None \notin Msgs /\ None \notin Answers
  BY ServerAssumption
<1>3. FlagTypes' /\ DeliverTypes' /\ DeliverLocals' /\ StoreTypes'
  <2>1. UNCHANGED <<flagVars, deliverVars, money, rows, storeHist>>
    BY DEF Work, WorkTest, WorkFetch, WorkEmpty, WorkFilter, WorkCount, WorkExpire, WorkContent,
       WorkSend, WorkAnswer, WorkBill, WorkStore
  <2> QED BY <1>0, <2>1 DEF FlagTypes, DeliverTypes, DeliverLocals, StoreTypes
<1>4. CASE WorkTest \/ WorkEmpty \/ WorkSend \/ \E m \in Msgs : WorkFetch(m)
  <2>1. WorkTypes'
    BY <1>0, <1>2, <1>4 DEF WorkTest, WorkEmpty, WorkSend, WorkFetch, WorkTypes
  <2>2. ListTypes' /\ FreqTypes' /\ CountTypes'
    BY <1>0, <1>4 DEF WorkTest, WorkEmpty, WorkSend, WorkFetch, ListTypes, FreqTypes, CountTypes
  <2> QED BY <1>3, <2>1, <2>2 DEF TypeInv, TypeOK
<1>5. CASE WorkFilter \/ WorkContent
  <2>1. wmsg \in Msgs
    BY <1>0, <1>1, <1>5 DEF WorkFilter, WorkContent, WorkTypes
  <2>2. WorkTypes'
    BY <1>0, <1>2, <1>5, <2>1 DEF WorkFilter, WorkContent, WorkTypes
  <2>3. ListTypes' /\ FreqTypes'
    BY <1>0, <1>5 DEF WorkFilter, WorkContent, ListTypes, FreqTypes
  <2>4. CountTypes'
    BY <1>0, <1>5, <2>1 DEF WorkFilter, WorkContent, CountTypes
  <2> QED BY <1>3, <2>2, <2>3, <2>4 DEF TypeInv, TypeOK
<1>6. ASSUME NEW done \in Outcomes, WorkCount(done) PROVE TypeInv'
  <2>1. wmsg \in Msgs /\ Phone[wmsg] \in Phones
    BY <1>0, <1>1, <1>6 DEF WorkCount, WorkTypes
  <2>2. WorkTypes'
    BY <1>0, <1>2, <1>6, <2>1 DEF WorkCount, WorkTypes
  <2>3. FreqTypes'
    BY <1>0, <1>6, <2>1 DEF WorkCount, FreqTypes
  <2>4. CountTypes' /\ ListTypes'
    BY <1>0, <1>6, <2>1 DEF WorkCount, CountTypes, ListTypes
  <2> QED BY <1>3, <2>2, <2>3, <2>4 DEF TypeInv, TypeOK
<1>7. ASSUME NEW done \in Outcomes, WorkExpire(done) PROVE TypeInv'
  <2>1. wmsg \in Msgs /\ Phone[wmsg] \in Phones
    BY <1>0, <1>1, <1>7 DEF WorkExpire, WorkTypes
  <2>2. WorkTypes'
    BY <1>0, <1>2, <1>7, <2>1 DEF WorkExpire, WorkTypes
  <2>3. FreqTypes'
    BY <1>0, <1>7, <2>1 DEF WorkExpire, FreqTypes
  <2>4. CountTypes' /\ ListTypes'
    BY <1>0, <1>7, <2>1 DEF WorkExpire, CountTypes, ListTypes
  <2> QED BY <1>3, <2>2, <2>3, <2>4 DEF TypeInv, TypeOK
<1>8. CASE WorkAnswer
  <2>1. wmsg \in Msgs /\ resp \in Answers
    BY <1>0, <1>1, <1>8 DEF WorkAnswer, WorkTypes
  <2>2. WorkTypes'
    BY <1>0, <1>2, <1>8, <2>1 DEF WorkAnswer, AfterAnswer, WorkTypes, Answers
  <2>3. CountTypes'
    BY <1>0, <1>8, <2>1 DEF WorkAnswer, AfterAnswer, CountTypes, Answers
  <2>4. FreqTypes' /\ ListTypes'
    BY <1>0, <1>8 DEF WorkAnswer, FreqTypes, ListTypes
  <2> QED BY <1>3, <2>2, <2>3, <2>4 DEF TypeInv, TypeOK
<1>9. CASE WorkBill
  <2>1. wmsg \in Msgs
    BY <1>0, <1>1, <1>9 DEF WorkBill, WorkTypes
  <2>2. Append(billing, -1) \in Seq({-1, 1})
    BY <1>0, Grown DEF ListTypes
  <2>3. WorkTypes' /\ ListTypes'
    BY <1>0, <1>2, <1>9, <2>1, <2>2 DEF WorkBill, WorkTypes, ListTypes
  <2>4. CountTypes'
    BY <1>0, <1>9, <2>1 DEF WorkBill, CountTypes, Counts
  <2>5. FreqTypes'
    BY <1>0, <1>9 DEF WorkBill, FreqTypes
  <2> QED BY <1>3, <2>3, <2>4, <2>5 DEF TypeInv, TypeOK
<1>10. CASE WorkStore
  <2>1. [kind |-> "submit", of |-> wmsg] \in Item
    BY <1>0, <1>1, <1>10 DEF WorkStore, WorkTypes, Item
  <2>2. Append(storage, [kind |-> "submit", of |-> wmsg]) \in Seq(Item)
    BY <1>0, <2>1, Grown DEF ListTypes
  <2>3. WorkTypes' /\ ListTypes'
    BY <1>0, <1>10, <2>2 DEF WorkStore, WorkTypes, ListTypes
  <2>4. CountTypes' /\ FreqTypes'
    BY <1>0, <1>10 DEF WorkStore, CountTypes, FreqTypes
  <2> QED BY <1>3, <2>3, <2>4 DEF TypeInv, TypeOK
<1> QED BY <1>4, <1>5, <1>6, <1>7, <1>8, <1>9, <1>10 DEF Work

\* The deliver thread keeps the types.
LEMMA TypeDeliver ==
  ASSUME TypeInv, Deliver
  PROVE  TypeInv'
<1> USE DEF flagVars, workVars, listVars, storeVars, freqVars, outsideVars, billHist, storeHist
<1>0. /\ FlagTypes /\ WorkTypes /\ DeliverTypes /\ ListTypes /\ StoreTypes /\ FreqTypes
      /\ CountTypes /\ DeliverLocals
  BY DEF TypeInv, TypeOK
<1>1. FlagTypes' /\ WorkTypes' /\ FreqTypes'
  BY <1>0 DEF Deliver, DeliverReport, DeliverMessage, DeliverRefund, DeliverForward, FlagTypes,
     WorkTypes, FreqTypes
<1>2. ASSUME NEW m \in Msgs, NEW s \in Statuses, DeliverReport(m, s) PROVE TypeInv'
  <2>1. [kind |-> "report", of |-> m, status |-> s] \in Report
    BY DEF Report
  <2>2. DeliverTypes' /\ DeliverLocals'
    BY <1>0, <1>2, <2>1 DEF DeliverReport, DeliverTypes, DeliverLocals
  <2>3. CountTypes'
    BY <1>0, <1>2 DEF DeliverReport, CountTypes, Counts
  <2>4. ListTypes' /\ StoreTypes'
    BY <1>0, <1>2 DEF DeliverReport, ListTypes, StoreTypes
  <2> QED BY <1>1, <2>2, <2>3, <2>4 DEF TypeInv, TypeOK
<1>3. ASSUME NEW d \in Delivers, DeliverMessage(d) PROVE TypeInv'
  <2>1. [kind |-> "deliver", of |-> d] \in Other
    BY DEF Other
  <2>2. DeliverTypes' /\ DeliverLocals'
    BY <1>0, <1>3, <2>1 DEF DeliverMessage, DeliverTypes, DeliverLocals
  <2>3. CountTypes' /\ ListTypes' /\ StoreTypes'
    BY <1>0, <1>3 DEF DeliverMessage, CountTypes, ListTypes, StoreTypes
  <2> QED BY <1>1, <2>2, <2>3 DEF TypeInv, TypeOK
<1>4. CASE DeliverRefund
  <2>1. Append(billing, 1) \in Seq({-1, 1}) /\ ditem \in Report /\ ditem.of \in Msgs
    BY <1>0, <1>4, Grown DEF DeliverRefund, ListTypes, DeliverLocals, Report
  <2>2. DeliverTypes' /\ DeliverLocals' /\ ListTypes'
    BY <1>0, <1>4, <2>1 DEF DeliverRefund, DeliverTypes, DeliverLocals, ListTypes
  <2>3. CountTypes'
    <3>1. \A m \in Msgs : [refunded EXCEPT ![m] = @ + 1] \in Counts
      BY <1>0 DEF CountTypes, Counts
    <3> QED BY <1>0, <1>4, <2>1, <3>1 DEF DeliverRefund, CountTypes
  <2>4. StoreTypes'
    BY <1>0, <1>4 DEF DeliverRefund, StoreTypes
  <2> QED BY <1>1, <2>2, <2>3, <2>4 DEF TypeInv, TypeOK
<1>5. CASE DeliverForward
  <2>1. ditem \in Report \cup Other
    BY <1>0, <1>5 DEF DeliverForward, DeliverLocals
  <2>2. ditem \in Item /\ (ditem.kind = "report" => ditem.of \in Msgs)
    BY <2>1 DEF Item, Report, Other
  <2>3. Append(storage, ditem) \in Seq(Item)
    BY <1>0, <2>2, Grown DEF ListTypes
  <2>4. DeliverTypes' /\ DeliverLocals' /\ ListTypes'
    BY <1>0, <1>5, <2>3 DEF DeliverForward, DeliverTypes, DeliverLocals, ListTypes
  <2>5. CountTypes' /\ StoreTypes'
    BY <1>0, <1>5, <2>2 DEF DeliverForward, CountTypes, StoreTypes
  <2> QED BY <1>1, <2>4, <2>5 DEF TypeInv, TypeOK
<1> QED BY <1>2, <1>3, <1>4, <1>5 DEF Deliver

\* What the store thread takes from its list.
LEMMA StorageHead ==
  ASSUME ListTypes, storage # <<>>
  PROVE  /\ Head(storage) \in Item /\ Tail(storage) \in Seq(Item)
         /\ Head(storage).kind \in {"submit", "report"} => Head(storage).of \in Msgs
         /\ Head(storage).kind = "report" => Head(storage).status \in Statuses
         /\ Head(storage).kind = "deliver" => Head(storage).of \in Delivers
<1>1. Head(storage) \in Item /\ Tail(storage) \in Seq(Item)
  BY Shrunk DEF ListTypes
<1> QED BY <1>1 DEF Item, Report, Other

\* The threads behind the lists keep the types.
LEMMA TypeLists ==
  ASSUME TypeInv, Billing \/ Store \/ Unsubscribe
  PROVE  TypeInv'
<1> USE DEF flagVars, workVars, deliverVars, freqVars, outsideVars, billHist, storeHist
<1>0. /\ FlagTypes /\ WorkTypes /\ DeliverTypes /\ ListTypes /\ StoreTypes /\ FreqTypes
      /\ CountTypes /\ DeliverLocals
  BY DEF TypeInv, TypeOK
<1>1. FlagTypes' /\ WorkTypes' /\ DeliverTypes' /\ DeliverLocals' /\ CountTypes'
  BY <1>0 DEF Billing, Store, Unsubscribe, BillApply, StoreWrite, UnsubscribeWrite, FlagTypes,
     WorkTypes, DeliverTypes, DeliverLocals, CountTypes
<1>2. ASSUME NEW done \in Outcomes, BillApply(done) PROVE TypeInv'
  <2>1. Tail(billing) \in Seq({-1, 1}) /\ Head(billing) \in {-1, 1}
    BY <1>0, <1>2, Shrunk DEF BillApply, ListTypes
  <2>2. ListTypes' /\ FreqTypes' /\ StoreTypes'
    BY <1>0, <1>2, <2>1 DEF BillApply, ListTypes, FreqTypes, StoreTypes
  <2> QED BY <1>1, <2>2 DEF TypeInv, TypeOK
<1>3. ASSUME NEW done \in Outcomes, StoreWrite(done) PROVE TypeInv'
  <2>1. /\ storage # <<>> /\ storage' = Tail(storage) /\ UNCHANGED <<money, overtaken, billing>>
        /\ UNCHANGED <<left, unheard, freq, ttl, stuck>>
    BY <1>3 DEF StoreWrite
  <2>2. FreqTypes'
    BY <1>0, <2>1 DEF FreqTypes
  <2>3. CASE Head(storage).kind = "submit" /\ WriteMessage(Head(storage).of, done)
    BY <1>0, <1>1, <2>1, <2>2, <2>3, StorageHead DEF WriteMessage, ListTypes, StoreTypes, TypeInv,
       TypeOK
  <2>4. CASE /\ Head(storage).kind = "report"
             /\ WriteReport(Head(storage).of, Head(storage).status, done)
    BY <1>0, <1>1, <2>1, <2>2, <2>4, StorageHead DEF WriteReport, ListTypes, StoreTypes, TypeInv,
       TypeOK
  <2>5. CASE Head(storage).kind = "deliver" /\ WriteDeliver(Head(storage).of)
    <3>1. Phone[Head(storage).of] \in Phones
      BY <1>0, <2>1, <2>5, StorageHead, ServerAssumption
    <3>2. leaving' \in Seq(Phones)
      BY <1>0, <2>5, <3>1, Grown DEF WriteDeliver, ListTypes
    <3> QED BY <1>0, <1>1, <2>1, <2>2, <2>5, <3>2, StorageHead DEF WriteDeliver, ListTypes,
            StoreTypes, TypeInv, TypeOK
  <2> QED BY <1>3, <2>3, <2>4, <2>5 DEF StoreWrite
<1>4. ASSUME NEW done \in Outcomes, UnsubscribeWrite(done) PROVE TypeInv'
  <2>1. Tail(leaving) \in Seq(Phones) /\ Head(leaving) \in Phones
    BY <1>0, <1>4, Shrunk DEF UnsubscribeWrite, ListTypes
  <2>2. ListTypes' /\ FreqTypes' /\ StoreTypes'
    BY <1>0, <1>4, <2>1 DEF UnsubscribeWrite, ListTypes, FreqTypes, StoreTypes
  <2> QED BY <1>1, <2>2 DEF TypeInv, TypeOK
<1> QED BY <1>2, <1>3, <1>4 DEF Billing, Store, Unsubscribe

\* A lost request keeps the counts.
LEMMA AbandonCounts ==
  ASSUME TypeInv, NEW queued \in BOOLEAN, Abandon(queued)
  PROVE  copies' \in Counts /\ cuts' \in Counts /\ resp' = None
<1>1. wpc = "asked" => wmsg \in Msgs
  BY DEF TypeInv, TypeOK, WorkTypes
<1>2. copies \in Counts /\ cuts \in Counts
  BY DEF TypeInv, TypeOK, CountTypes
<1>3. \A f \in Counts : \A m \in Msgs : [f EXCEPT ![m] = @ + 1] \in Counts
  BY DEF Counts
<1>4. queued => wmsg \in Msgs
  BY <1>1 DEF Abandon
<1> QED BY <1>1, <1>2, <1>3, <1>4 DEF Abandon

\* The stat thread keeps the types.
LEMMA TypeStat ==
  ASSUME TypeInv, Stat
  PROVE  TypeInv'
<1> USE DEF workVars, deliverVars, listVars, storeVars, freqVars, outsideVars, billHist, storeHist
<1>0. /\ FlagTypes /\ WorkTypes /\ DeliverTypes /\ ListTypes /\ StoreTypes /\ FreqTypes
      /\ CountTypes /\ DeliverLocals
  BY DEF TypeInv, TypeOK
<1>1. CASE StatReload \/ ReloadDone \/ \E done \in Outcomes : StatArrears(done)
  <2>1. FlagTypes'
    BY <1>0, <1>1 DEF StatReload, ReloadDone, StatArrears, FlagTypes
  <2>2. CountTypes'
    BY <1>0, <1>1 DEF StatReload, ReloadDone, StatArrears, CountTypes
  <2>3. WorkTypes' /\ DeliverTypes' /\ ListTypes' /\ StoreTypes' /\ FreqTypes' /\ DeliverLocals'
    BY <1>0, <1>1 DEF StatReload, ReloadDone, StatArrears, WorkTypes, DeliverTypes, ListTypes,
       StoreTypes, FreqTypes, DeliverLocals
  <2> QED BY <2>1, <2>2, <2>3 DEF TypeInv, TypeOK
<1>2. ASSUME NEW queued \in BOOLEAN, StatExit(queued) PROVE TypeInv'
  <2>1. copies' \in Counts /\ cuts' \in Counts /\ resp' = None
    BY <1>2, AbandonCounts DEF StatExit
  <2>2. FlagTypes' /\ DeliverTypes' /\ DeliverLocals'
    BY <1>0, <1>2 DEF StatExit, FlagTypes, DeliverTypes, DeliverLocals
  <2>3. WorkTypes'
    BY <1>0, <1>2, <2>1 DEF StatExit, WorkTypes
  <2>4. ListTypes'
    BY <1>2 DEF StatExit, ListTypes
  <2>5. CountTypes'
    BY <1>0, <1>2, <2>1 DEF StatExit, CountTypes, WorkTypes
  <2>6. FreqTypes'
    <3>1. wpc = "expire" => Phone[wmsg] \in Phones
      BY <1>0, ServerAssumption DEF WorkTypes
    <3> QED BY <1>0, <1>2, <3>1 DEF StatExit, FreqTypes
  <2>7. StoreTypes'
    <3>1. \A k \in DOMAIN storage : storage[k].of \in Msgs \cup Delivers
      BY <1>0 DEF ListTypes, Item, Report, Other
    <3> QED BY <1>0, <1>2, <3>1 DEF StatExit, StoreTypes
  <2> QED BY <2>2, <2>3, <2>4, <2>5, <2>6, <2>7 DEF TypeInv, TypeOK
<1>3. ASSUME NEW queued \in BOOLEAN, NEW o \in OptionSets, ReloadCut(queued, o) PROVE TypeInv'
  <2>1. copies' \in Counts /\ cuts' \in Counts /\ resp' = None
    BY <1>3, AbandonCounts DEF ReloadCut
  <2>2. FlagTypes' /\ WorkTypes' /\ CountTypes'
    BY <1>0, <1>3, <2>1 DEF ReloadCut, FlagTypes, WorkTypes, CountTypes
  <2>3. DeliverTypes' /\ ListTypes' /\ StoreTypes' /\ FreqTypes' /\ DeliverLocals'
    BY <1>0, <1>3 DEF ReloadCut, DeliverTypes, ListTypes, StoreTypes, FreqTypes, DeliverLocals
  <2> QED BY <2>2, <2>3 DEF TypeInv, TypeOK
<1> QED BY <1>1, <1>2, <1>3 DEF Stat

\* Scheduler, cache and lamb-daemon keep the types.
LEMMA TypeOutside ==
  ASSUME TypeInv, Outside
  PROVE  TypeInv'
<1> USE DEF flagVars, workVars, deliverVars, listVars, storeVars, freqVars, outsideVars, billHist,
            storeHist
<1>0. /\ FlagTypes /\ WorkTypes /\ DeliverTypes /\ ListTypes /\ StoreTypes /\ FreqTypes
      /\ CountTypes /\ DeliverLocals
  BY DEF TypeInv, TypeOK
<1>1. DeliverTypes' /\ ListTypes' /\ StoreTypes' /\ DeliverLocals'
  BY <1>0 DEF Outside, SchedulerAnswer, CounterExpires, Restart, DeliverTypes, ListTypes,
     StoreTypes, DeliverLocals
<1>2. ASSUME NEW a \in Answers, SchedulerAnswer(a) PROVE TypeInv'
  <2>1. wmsg \in Msgs
    BY <1>0, <1>2 DEF SchedulerAnswer, WorkTypes
  <2>2. WorkTypes' /\ FlagTypes' /\ FreqTypes'
    BY <1>0, <1>2 DEF SchedulerAnswer, WorkTypes, FlagTypes, FreqTypes
  <2>3. CountTypes'
    BY <1>0, <1>2, <2>1 DEF SchedulerAnswer, CountTypes, Counts
  <2> QED BY <1>1, <2>2, <2>3 DEF TypeInv, TypeOK
<1>3. CASE (\E p \in Phones : CounterExpires(p)) \/ \E o \in OptionSets : Restart(o)
  <2>1. WorkTypes' /\ CountTypes'
    BY <1>0, <1>3 DEF CounterExpires, Restart, WorkTypes, CountTypes
  <2>2. FlagTypes'
    BY <1>0, <1>3 DEF CounterExpires, Restart, FlagTypes
  <2>3. FreqTypes'
    BY <1>0, <1>3 DEF CounterExpires, Restart, FreqTypes
  <2> QED BY <1>1, <2>1, <2>2, <2>3 DEF TypeInv, TypeOK
<1> QED BY <1>2, <1>3 DEF Outside

\* The locals of the threads are set before they are used (server.c:264-501, 540-607).
THEOREM ServerTyped == Spec => []TypeInv
<1>1. TypeInv /\ [Next]_vars => TypeInv'
  <2> SUFFICES ASSUME TypeInv, [Next]_vars PROVE TypeInv'
    OBVIOUS
  <2>1. CASE UNCHANGED vars
    BY <2>1 DEF TypeInv, TypeOK, FlagTypes, WorkTypes, DeliverTypes, ListTypes, StoreTypes,
       FreqTypes, CountTypes, DeliverLocals, vars, flagVars, workVars, deliverVars, listVars,
       storeVars, freqVars, outsideVars, billHist, storeHist
  <2> QED BY <2>1, TypeWork, TypeDeliver, TypeLists, TypeStat, TypeOutside DEF Next
<1> QED BY <1>1, TypeInit, PTL DEF Spec

\* TypeOK holds: each of the three lists holds only what its thread understands
\* (server.c:479-501, 562-607).
THEOREM TypesKept == Spec => []TypeOK
<1>1. TypeInv => TypeOK
  BY DEF TypeInv
<1> QED BY <1>1, ServerTyped, PTL

-----------------------------------------------------------------------------
(* What becomes of a message *)

\* The scheduler has said that it has queued the message in hand.
Queued == (wpc = "asked" /\ resp = "OK") \/ wpc \in {"bill", "store"}

\* The stages of a message: at mt, in the work thread's hand before and after the answer
\* of the scheduler, and done.
FateInv ==
  /\ resp # None => wpc = "asked"
  /\ \A m \in Msgs :
       /\ m \in todo => wmsg # m /\ copies[m] = 0
       /\ m \in todo \/ (wmsg = m /\ wpc # "store") => charged[m] = 0 /\ m \notin refused
       /\ wmsg = m /\ ~Queued => copies[m] <= cuts[m]
       /\ wmsg = m /\ Queued => copies[m] >= 1
       /\ wmsg = m /\ wpc = "store" => charged[m] = 1
       /\ wmsg # m =>
            copies[m] <= charged[m] + cuts[m] + (IF m \in unbilled THEN 1 ELSE 0)

FatesInv == FateInv /\ OneFate

\* A step that leaves the work thread and its records alone keeps the fates.
LEMMA FateFrame ==
  ASSUME FatesInv, UNCHANGED <<todo, wpc, wmsg, resp, copies, cuts, unbilled, charged, refused>>
  PROVE  FatesInv'
  BY DEF FatesInv, FateInv, OneFate, Queued

\* The work thread follows the stages.
LEMMA FateWork ==
  ASSUME TypeInv, FatesInv, Work
  PROVE  FatesInv'
<1> USE DEF flagVars, deliverVars, listVars, storeVars, freqVars, outsideVars, billHist, storeHist
<1>0. /\ WorkTypes /\ CountTypes /\ FateInv /\ OneFate /\ None \notin Msgs
      /\ UNCHANGED <<copies, cuts, unbilled>>
  BY ServerAssumption DEF TypeInv, TypeOK, FatesInv, Work, WorkTest, WorkFetch, WorkEmpty,
     WorkFilter, WorkCount, WorkExpire, WorkContent, WorkSend, WorkAnswer, WorkBill, WorkStore
<1>1. CASE WorkTest \/ WorkEmpty
  BY <1>0, <1>1 DEF WorkTest, WorkEmpty, FatesInv, FateInv, OneFate, Queued, WorkTypes
<1>2. ASSUME NEW m \in Msgs, WorkFetch(m) PROVE FatesInv'
  BY <1>0, <1>2 DEF WorkFetch, FatesInv, FateInv, OneFate, Queued, WorkTypes, CountTypes, Counts
<1>3. ASSUME ~Queued, wmsg \in Msgs, Refuse, resp' = None, UNCHANGED <<todo, charged>>,
             wpc # "store"
      PROVE  FatesInv'
  BY <1>0, <1>3 DEF Refuse, FatesInv, FateInv, OneFate, Queued, CountTypes, Counts
<1>4. ASSUME NEW pc \in {"count", "expire", "content", "send", "asked"}, GoOn(pc), ~Queued,
             wmsg \in Msgs, resp' = None, UNCHANGED <<todo, charged>>, wpc # "store"
      PROVE  FatesInv'
  <2>1. ~Queued'
    BY <1>4, ServerAssumption DEF GoOn, Queued, Answers
  <2> QED BY <1>0, <1>4, <2>1 DEF GoOn, FatesInv, FateInv, OneFate
<1>5. CASE WorkFilter \/ WorkContent \/ \E done \in Outcomes : WorkCount(done)
  <2>1. /\ ~Queued /\ wmsg \in Msgs /\ resp' = None /\ UNCHANGED <<todo, charged>>
        /\ wpc # "store"
    BY <1>0, <1>5 DEF WorkFilter, WorkContent, WorkCount, FateInv, Queued, WorkTypes
  <2>2. Refuse \/ \E pc \in {"count", "expire", "content", "send", "asked"} : GoOn(pc)
    BY <1>5 DEF WorkFilter, WorkContent, WorkCount
  <2> QED BY <1>3, <1>4, <2>1, <2>2
<1>6. CASE WorkSend \/ \E done \in Outcomes : WorkExpire(done)
  <2>1. /\ ~Queued /\ wmsg \in Msgs /\ resp' = None /\ UNCHANGED <<todo, charged>>
        /\ wpc # "store"
    BY <1>0, <1>6 DEF WorkSend, WorkExpire, FateInv, Queued, WorkTypes
  <2>2. GoOn("asked") \/ GoOn("content")
    BY <1>6 DEF WorkSend, WorkExpire, GoOn
  <2> QED BY <1>4, <2>1, <2>2
<1>7. CASE WorkAnswer
  <2>1. /\ wmsg \in Msgs /\ resp \in Answers /\ resp' = None /\ UNCHANGED <<todo, charged>>
        /\ wpc = "asked"
    BY <1>0, <1>7 DEF WorkAnswer, WorkTypes
  <2>2. CASE resp = "OK"
    <3>1. wpc' = "bill" /\ UNCHANGED <<wmsg, refused>> /\ Queued
      BY <1>7, <2>1, <2>2 DEF WorkAnswer, AfterAnswer, GoOn, Queued
    <3> QED BY <1>0, <2>1, <3>1 DEF FatesInv, FateInv, OneFate, Queued
  <2>3. CASE resp = "BUSY"
    <3>1. GoOn("send") /\ ~Queued
      BY <1>7, <2>1, <2>3 DEF WorkAnswer, AfterAnswer, Queued
    <3> QED BY <1>4, <2>1, <3>1
  <2>4. CASE resp \in {"NOROUTE", "REJECT"}
    <3>1. Refuse /\ ~Queued
      BY <1>7, <2>1, <2>4 DEF WorkAnswer, AfterAnswer, Queued
    <3> QED BY <1>3, <2>1, <3>1
  <2> QED BY <2>1, <2>2, <2>3, <2>4 DEF Answers
<1>8. CASE WorkBill
  <2>1. wmsg \in Msgs /\ Queued /\ wpc = "bill" /\ wpc' = "store"
        /\ UNCHANGED <<todo, wmsg, resp, refused>>
    BY <1>0, <1>8 DEF WorkBill, WorkTypes, Queued
  <2>2. /\ \A m \in Msgs : m # wmsg => charged'[m] = charged[m]
        /\ charged[wmsg] = 0 /\ charged'[wmsg] = 1
    BY <1>0, <1>8, <2>1 DEF WorkBill, CountTypes, Counts, FateInv
  <2> QED BY <1>0, <2>1, <2>2 DEF FatesInv, FateInv, OneFate, Queued
<1>9. CASE WorkStore
  <2>1. /\ wmsg \in Msgs /\ wpc = "store" /\ Queued /\ wmsg' = None /\ wpc' = "idle"
        /\ UNCHANGED <<todo, resp, refused, charged>>
    BY <1>0, <1>9 DEF WorkStore, WorkTypes, Queued
  <2> QED BY <1>0, <2>1 DEF FatesInv, FateInv, OneFate, Queued, CountTypes, Counts
<1> QED BY <1>1, <1>2, <1>5, <1>6, <1>7, <1>8, <1>9 DEF Work

\* A lost request is one more copy at most, and one more cut.
LEMMA AbandonFates ==
  ASSUME TypeInv, FatesInv, NEW queued \in BOOLEAN, Abandon(queued)
  PROVE  /\ \A m \in Msgs : m # wmsg => copies'[m] = copies[m] /\ cuts'[m] = cuts[m]
         /\ wmsg \in Msgs /\ wpc # "asked" =>
              copies'[wmsg] = copies[wmsg] /\ cuts'[wmsg] = cuts[wmsg]
         /\ wmsg \in Msgs /\ wpc = "asked" =>
              /\ copies'[wmsg] <= cuts'[wmsg] /\ copies'[wmsg] >= copies[wmsg]
              /\ cuts'[wmsg] = cuts[wmsg] + 1
<1>0. WorkTypes /\ CountTypes /\ FateInv /\ OneFate
  BY DEF TypeInv, TypeOK, FatesInv
<1>1. wpc = "asked" => wmsg \in Msgs
  BY <1>0 DEF WorkTypes
<1>2. CASE wpc # "asked"
  BY <1>0, <1>2 DEF Abandon, CountTypes, Counts
<1>3. CASE wpc = "asked"
  <2>1. wmsg \in Msgs /\ charged[wmsg] = 0 /\ copies[wmsg] <= cuts[wmsg] + 1
    BY <1>0, <1>1, <1>3 DEF FateInv, OneFate, CountTypes, Counts
  <2>2. cuts' = [cuts EXCEPT ![wmsg] = cuts[wmsg] + 1]
    BY <1>3 DEF Abandon
  <2>3. CASE queued
    <3>1. ~Queued /\ copies' = [copies EXCEPT ![wmsg] = copies[wmsg] + 1]
      BY <2>3, ServerAssumption DEF Abandon, Queued, Answers
    <3>2. copies[wmsg] <= cuts[wmsg]
      BY <1>0, <2>1, <3>1 DEF FateInv
    <3> QED BY <1>0, <1>3, <2>1, <2>2, <3>1, <3>2 DEF CountTypes, Counts
  <2>4. CASE ~queued
    <3>1. copies' = copies
      BY <2>4 DEF Abandon
    <3> QED BY <1>0, <1>3, <2>1, <2>2, <3>1 DEF CountTypes, Counts
  <2> QED BY <2>3, <2>4
<1> QED BY <1>2, <1>3

\* Reload, exit and the scheduler.
LEMMA FateOthers ==
  ASSUME TypeInv, TypeInv', FatesInv, Stat \/ Outside
  PROVE  FatesInv'
<1> USE DEF flagVars, workVars, deliverVars, listVars, storeVars, freqVars, outsideVars, billHist,
            storeHist
<1>0. /\ WorkTypes /\ CountTypes /\ CountTypes' /\ FateInv /\ OneFate
      /\ None \notin Msgs /\ None \notin Answers
  BY ServerAssumption DEF TypeInv, TypeOK, FatesInv
<1>1. CASE \/ StatReload \/ ReloadDone \/ \E done \in Outcomes : StatArrears(done)
           \/ \E p \in Phones : CounterExpires(p)
           \/ \E o \in OptionSets : Restart(o)
  BY <1>1, FateFrame DEF StatReload, ReloadDone, StatArrears, CounterExpires, Restart
<1>2. ASSUME NEW queued \in BOOLEAN, StatExit(queued) PROVE FatesInv'
  <2>1. /\ Abandon(queued) /\ wpc' = "idle" /\ wmsg' = None /\ resp' = None
        /\ unbilled' = IF wpc = "bill" THEN unbilled \cup {wmsg} ELSE unbilled
        /\ UNCHANGED <<todo, charged, refused>>
    BY <1>2 DEF StatExit, Abandon
  <2>2. ASSUME NEW m \in Msgs
        PROVE  /\ m \in todo => copies'[m] = 0
               /\ copies'[m] <= charged[m] + cuts'[m] + (IF m \in unbilled' THEN 1 ELSE 0)
               /\ copies'[m] <= 1 + cuts'[m]
               /\ copies'[m] >= copies[m]
    <3>1. CASE wmsg # m
      <4>1. copies'[m] = copies[m] /\ cuts'[m] = cuts[m]
        BY <2>1, <3>1, AbandonFates
      <4>2. m \in unbilled' <=> m \in unbilled
        BY <2>1, <3>1
      <4> QED BY <1>0, <3>1, <4>1, <4>2 DEF FateInv, OneFate, CountTypes, Counts
    <3>2. CASE wmsg = m /\ wpc = "asked"
      BY <1>0, <2>1, <3>2, AbandonFates DEF FateInv, CountTypes, Counts
    <3>3. CASE wmsg = m /\ wpc # "asked"
      <4>1. copies'[m] = copies[m] /\ cuts'[m] = cuts[m]
        BY <2>1, <3>3, AbandonFates
      <4>2. CASE wpc = "bill"
        BY <1>0, <2>1, <3>3, <4>1, <4>2 DEF OneFate, FateInv, CountTypes, Counts
      <4>3. CASE wpc # "bill"
        BY <1>0, <2>1, <3>3, <4>1, <4>3 DEF FateInv, OneFate, Queued, CountTypes, Counts
      <4> QED BY <4>2, <4>3
    <3> QED BY <3>1, <3>2, <3>3
  <2> QED BY <1>0, <2>1, <2>2 DEF FatesInv, FateInv, OneFate, CountTypes, Counts
<1>3. ASSUME NEW queued \in BOOLEAN, NEW o \in OptionSets, ReloadCut(queued, o) PROVE FatesInv'
  <2>1. /\ Abandon(queued) /\ resp' = None
        /\ wpc' = IF wpc = "asked" THEN "send" ELSE wpc
        /\ UNCHANGED <<todo, wmsg, charged, refused, unbilled>>
    BY <1>3 DEF ReloadCut, Abandon
  <2>2. CASE wpc = "asked"
    <3>1. /\ wmsg \in Msgs /\ ~Queued' /\ wpc' = "send" /\ wpc # "store"
      BY <1>0, <2>1, <2>2 DEF WorkTypes, Queued
    <3>2. /\ \A m \in Msgs : m # wmsg => copies'[m] = copies[m] /\ cuts'[m] = cuts[m]
          /\ copies'[wmsg] <= cuts'[wmsg] /\ charged[wmsg] = 0
      BY <1>0, <2>1, <2>2, <3>1, AbandonFates DEF FateInv
    <3> QED BY <1>0, <2>1, <3>1, <3>2 DEF FatesInv, FateInv, OneFate, CountTypes, Counts
  <2>3. CASE wpc # "asked"
    <3>1. copies' = copies /\ cuts' = cuts /\ wpc' = wpc /\ resp = None
      BY <1>0, <2>1, <2>3 DEF Abandon, FateInv
    <3> QED BY <2>1, <3>1, FateFrame
  <2> QED BY <2>2, <2>3
<1>4. ASSUME NEW a \in Answers, SchedulerAnswer(a) PROVE FatesInv'
  <2>1. /\ wpc = "asked" /\ resp = None /\ resp' = a /\ wmsg \in Msgs /\ ~Queued
        /\ UNCHANGED <<todo, wpc, wmsg, cuts, unbilled, charged, refused>>
    BY <1>0, <1>4 DEF SchedulerAnswer, WorkTypes, Queued, Answers
  <2>2. copies[wmsg] <= cuts[wmsg] /\ charged[wmsg] = 0
    BY <1>0, <2>1 DEF FateInv
  <2>3. CASE a = "OK"
    <3>1. copies' = [copies EXCEPT ![wmsg] = copies[wmsg] + 1] /\ Queued'
      BY <1>4, <2>1, <2>3 DEF SchedulerAnswer, Queued
    <3> QED BY <1>0, <2>1, <2>2, <3>1 DEF FatesInv, FateInv, OneFate, CountTypes, Counts
  <2>4. CASE a # "OK"
    <3>1. copies' = copies /\ ~Queued'
      BY <1>4, <2>1, <2>4 DEF SchedulerAnswer, Queued
    <3> QED BY <1>0, <2>1, <2>2, <3>1 DEF FatesInv, FateInv, OneFate
  <2> QED BY <2>3, <2>4
<1> QED BY <1>1, <1>2, <1>3, <1>4 DEF Stat, Outside

\* FatesInv is an invariant.
LEMMA FatesKept == Spec => []FatesInv
<1>1. Init => FatesInv
  BY ServerAssumption DEF Init, FatesInv, FateInv, OneFate, Queued
<1>2. TypeInv /\ TypeInv' /\ FatesInv /\ [Next]_vars => FatesInv'
  <2> SUFFICES ASSUME TypeInv, TypeInv', FatesInv, [Next]_vars PROVE FatesInv'
    OBVIOUS
  <2>1. CASE Deliver \/ Billing \/ Store \/ Unsubscribe \/ UNCHANGED vars
    BY <2>1, FateFrame DEF Deliver, DeliverReport, DeliverMessage, DeliverRefund, DeliverForward,
       Billing, BillApply, Store, StoreWrite, Unsubscribe, UnsubscribeWrite, vars, workVars,
       outsideVars, billHist
  <2> QED BY <2>1, FateWork, FateOthers DEF Next
<1> QED BY <1>1, <1>2, ServerTyped, PTL DEF Spec

\* OneFate holds, for any number of messages, reloads and exits: a message is charged once
\* at most, only if it was queued and not refused, and queued twice only where the answer
\* to a request was lost (server.c:213-230, 436-485).
THEOREM FateIsOne == Spec => []OneFate
<1>1. FatesInv => OneFate
  BY DEF FatesInv
<1> QED BY <1>1, FatesKept, PTL

-----------------------------------------------------------------------------
(* Refunds *)

\* Reports come on queued copies or as extra ones, and a refund on a report.
RefundInv ==
  \A m \in Msgs :
    /\ reports[m] <= copies[m]
    /\ refunded[m] + (IF dpc = "refund" /\ ditem.of = m THEN 1 ELSE 0) <= reports[m] + extra[m]

\* Copies are never taken back.
LEMMA CopiesGrow ==
  ASSUME TypeInv, FatesInv, [Next]_vars
  PROVE  \A m \in Msgs : copies[m] \in Nat /\ copies'[m] \in Nat /\ copies[m] <= copies'[m]
<1> USE DEF outsideVars
<1>0. WorkTypes /\ copies \in [Msgs -> Nat]
  BY DEF TypeInv, TypeOK, CountTypes, Counts
<1>1. CASE \E queued \in BOOLEAN : Abandon(queued)
  <2>1. wpc = "asked" => wmsg \in Msgs
    BY <1>0 DEF WorkTypes
  <2> QED BY <1>0, <1>1, <2>1 DEF Abandon
<1>2. ASSUME NEW a \in Answers, SchedulerAnswer(a)
      PROVE  \A m \in Msgs : copies'[m] \in Nat /\ copies[m] <= copies'[m]
  <2>1. wmsg \in Msgs
    BY <1>0, <1>2 DEF SchedulerAnswer, WorkTypes
  <2> QED BY <1>0, <1>2, <2>1 DEF SchedulerAnswer
<1>3. CASE copies' = copies
  BY <1>0, <1>3
<1>4. CASE Stat
  <2>1. CASE StatReload \/ ReloadDone \/ \E done \in Outcomes : StatArrears(done)
    BY <1>3, <2>1 DEF StatReload, ReloadDone, StatArrears
  <2> QED BY <1>0, <1>1, <1>4, <2>1 DEF Stat, StatExit, ReloadCut
<1>5. CASE Outside
  <2>1. CASE (\E p \in Phones : CounterExpires(p)) \/ \E o \in OptionSets : Restart(o)
    BY <1>3, <2>1 DEF CounterExpires, Restart
  <2> QED BY <1>0, <1>2, <1>5, <2>1 DEF Outside
<1>6. CASE Work
  BY <1>3, <1>6 DEF Work, WorkTest, WorkFetch, WorkEmpty, WorkFilter, WorkCount, WorkExpire,
     WorkContent, WorkSend, WorkAnswer, WorkBill, WorkStore
<1>7. CASE Deliver \/ Billing \/ Store \/ Unsubscribe \/ UNCHANGED vars
  BY <1>3, <1>7 DEF Deliver, DeliverReport, DeliverMessage, DeliverRefund, DeliverForward, Billing,
     BillApply, Store, StoreWrite, Unsubscribe, UnsubscribeWrite, vars
<1> QED BY <1>4, <1>5, <1>6, <1>7 DEF Next

\* Every step keeps the order copy, report, refund.
LEMMA RefundStep ==
  ASSUME TypeInv, TypeInv', FatesInv, RefundInv, [Next]_vars
  PROVE  RefundInv'
<1>0. /\ CountTypes /\ DeliverLocals
      /\ \A m \in Msgs : /\ reports[m] \in Nat /\ extra[m] \in Nat /\ refunded[m] \in Nat
                         /\ copies[m] \in Nat /\ copies'[m] \in Nat
  BY CopiesGrow DEF TypeInv, TypeOK, CountTypes, Counts
<1>1. \A m \in Msgs : copies[m] <= copies'[m]
  BY CopiesGrow
<1>2. CASE UNCHANGED <<dpc, ditem, reports, extra, refunded>>
  <2> SUFFICES ASSUME NEW m \in Msgs PROVE reports[m] <= copies'[m]
    BY <1>2 DEF RefundInv
  <2> QED BY <1>0, <1>1 DEF RefundInv
<1>3. ASSUME NEW m \in Msgs, NEW s \in Statuses, DeliverReport(m, s) PROVE RefundInv'
  <2>0. /\ reports \in Counts /\ extra \in Counts /\ reports[m] <= copies[m]
        /\ dpc = "idle" /\ UNCHANGED <<copies, refunded>> /\ ditem'.of = m
    BY <1>0, <1>3 DEF DeliverReport, CountTypes, billHist, RefundInv
  <2>1. /\ reports'[m] <= copies[m]
        /\ reports'[m] + extra'[m] = reports[m] + extra[m] + 1
        /\ \A k \in Msgs : k # m => reports'[k] = reports[k] /\ extra'[k] = extra[k]
    <3>1. CASE /\ reports[m] < copies[m] /\ extra' = extra
               /\ reports' = [reports EXCEPT ![m] = reports[m] + 1]
      BY <1>0, <2>0, <3>1 DEF Counts
    <3>2. CASE reports' = reports /\ extra' = [extra EXCEPT ![m] = extra[m] + 1]
      BY <1>0, <2>0, <3>2 DEF Counts
    <3> QED BY <1>3, <3>1, <3>2 DEF DeliverReport
  <2>2. \A k \in Msgs : refunded[k] <= reports[k] + extra[k] /\ reports[k] <= copies[k]
    BY <1>0, <2>0 DEF RefundInv
  <2>3. \A k \in Msgs : reports'[k] <= copies'[k]
    BY <2>0, <2>1, <2>2
  <2>4. \A k \in Msgs : refunded'[k] + (IF dpc' = "refund" /\ ditem'.of = k THEN 1 ELSE 0)
                          <= reports'[k] + extra'[k]
    BY <1>0, <2>0, <2>1, <2>2
  <2> QED BY <2>3, <2>4 DEF RefundInv
<1>4. CASE DeliverRefund
  <2>1. ditem.of \in Msgs
    BY <1>0, <1>4 DEF DeliverRefund, DeliverLocals, Report
  <2>2. /\ dpc = "refund" /\ dpc' = "forward" /\ UNCHANGED <<copies, reports, extra>>
        /\ refunded' = [refunded EXCEPT ![ditem.of] = refunded[ditem.of] + 1]
    BY <1>4 DEF DeliverRefund, outsideVars
  <2>3. /\ \A k \in Msgs : k # ditem.of => refunded'[k] = refunded[k]
        /\ refunded'[ditem.of] = refunded[ditem.of] + 1
    BY <1>0, <2>1, <2>2 DEF CountTypes, Counts
  <2>4. \A k \in Msgs : refunded'[k] <= reports'[k] + extra'[k] /\ reports'[k] <= copies'[k]
    BY <1>0, <2>1, <2>2, <2>3 DEF RefundInv
  <2>5. \A k \in Msgs : refunded'[k] \in Nat
    BY DEF TypeInv, TypeOK, CountTypes, Counts
  <2> QED BY <2>2, <2>4, <2>5 DEF RefundInv
<1>5. CASE dpc' # "refund" /\ UNCHANGED <<reports, extra, refunded>>
  <2> SUFFICES ASSUME NEW m \in Msgs
               PROVE  reports[m] <= copies'[m] /\ refunded[m] + 0 <= reports[m] + extra[m]
    BY <1>5 DEF RefundInv
  <2> QED BY <1>0, <1>1 DEF RefundInv
<1>6. CASE DeliverForward \/ \E d \in Delivers : DeliverMessage(d)
  BY <1>5, <1>6 DEF DeliverForward, DeliverMessage, outsideVars, billHist
<1>7. CASE Work
  BY <1>2, <1>7 DEF Work, WorkTest, WorkFetch, WorkEmpty, WorkFilter, WorkCount, WorkExpire,
     WorkContent, WorkSend, WorkAnswer, WorkBill, WorkStore, deliverVars, outsideVars, billHist
<1>8. CASE Billing \/ Store \/ Unsubscribe \/ Outside \/ UNCHANGED vars
  BY <1>2, <1>8 DEF Billing, BillApply, Store, StoreWrite, Unsubscribe, UnsubscribeWrite, Outside,
     SchedulerAnswer, CounterExpires, Restart, vars, deliverVars, outsideVars, billHist
<1>9. CASE Stat
  <2>1. CASE \E queued \in BOOLEAN : StatExit(queued)
    BY <1>5, <2>1 DEF StatExit
  <2>2. CASE \/ StatReload \/ ReloadDone \/ \E done \in Outcomes : StatArrears(done)
             \/ \E queued \in BOOLEAN, o \in OptionSets : ReloadCut(queued, o)
    BY <1>2, <2>2 DEF StatReload, ReloadDone, StatArrears, ReloadCut, deliverVars, outsideVars,
       billHist
  <2> QED BY <1>9, <2>1, <2>2 DEF Stat
<1> QED BY <1>3, <1>4, <1>6, <1>7, <1>8, <1>9 DEF Next, Deliver

\* RefundsCovered holds, for any number of messages, reports, reloads and exits: beyond one
\* refund (server.c:562-569) for each charge, made or about to be made, there is one for each
\* lost answer, for a charge an exit forgot, and for each further report, and no other.
THEOREM RefundsAreCovered == Spec => []RefundsCovered
<1>1. Init => RefundInv
  BY ServerAssumption DEF Init, RefundInv
<1>2. TypeInv /\ TypeInv' /\ FatesInv /\ RefundInv /\ [Next]_vars => RefundInv'
  BY RefundStep
<1>3. TypeInv /\ FatesInv /\ RefundInv => RefundsCovered
  <2> SUFFICES ASSUME TypeInv, FatesInv, RefundInv, NEW m \in Msgs
               PROVE  refunded[m] <= charged[m]
                        + (IF wmsg = m /\ wpc \in {"asked", "bill"} THEN 1 ELSE 0)
                        + cuts[m] + (IF m \in unbilled THEN 1 ELSE 0) + extra[m]
    BY DEF RefundsCovered
  <2>1. /\ copies[m] \in Nat /\ reports[m] \in Nat /\ refunded[m] \in Nat
        /\ charged[m] \in Nat /\ cuts[m] \in Nat /\ extra[m] \in Nat
    BY DEF TypeInv, TypeOK, CountTypes, Counts
  <2>2. copies[m] <= charged[m] + (IF wmsg = m /\ wpc \in {"asked", "bill"} THEN 1 ELSE 0)
                       + cuts[m] + (IF m \in unbilled THEN 1 ELSE 0)
    <3>1. CASE wmsg = m /\ wpc \in {"asked", "bill"}
      BY <2>1, <3>1 DEF FatesInv, OneFate
    <3>2. CASE wmsg = m /\ wpc \notin {"asked", "bill"}
      BY <2>1, <3>2 DEF FatesInv, FateInv, OneFate, Queued
    <3>3. CASE wmsg # m
      BY <2>1, <3>3 DEF FatesInv, FateInv
    <3> QED BY <3>1, <3>2, <3>3
  <2>3. refunded[m] <= reports[m] + extra[m] /\ reports[m] <= copies[m]
    BY <2>1 DEF RefundInv
  <2> QED BY <2>1, <2>2, <2>3
<1> QED BY <1>1, <1>2, <1>3, ServerTyped, FatesKept, PTL DEF Spec

-----------------------------------------------------------------------------
(* Arrears *)

\* The work thread has passed the test of the flags and not yet charged.
InHand == IF wpc \in {"idle", "store"} THEN 0 ELSE 1

ArrearsInv == since <= 1 /\ (arrears => since + InHand <= 1)

\* A step that leaves the flag and the charges alone keeps ArrearsInv, unless it is the
\* test of the flag.
LEMMA ArrearsFrame ==
  ASSUME WorkTypes, CountTypes, ArrearsInv, UNCHANGED <<since, arrears>>,
         wpc' = wpc \/ wpc' \in {"idle", "store"} \/ wpc \notin {"idle", "store"}
  PROVE  ArrearsInv'
  BY DEF ArrearsInv, InHand, CountTypes

\* ArrearsStop holds, for any number of messages, reloads and exits: once the flag is set,
\* one more message is charged at most, whatever the work thread had in hand at the test
\* of server.c:264.
THEOREM ArrearsStops == Spec => []ArrearsStop
<1>1. Init => ArrearsInv
  BY DEF Init, ArrearsInv, InHand
<1>2. TypeInv /\ ArrearsInv /\ [Next]_vars => ArrearsInv'
  <2> SUFFICES ASSUME TypeInv, ArrearsInv, [Next]_vars PROVE ArrearsInv'
    OBVIOUS
  <2> USE DEF flagVars, workVars, billHist
  <2>0. WorkTypes /\ CountTypes /\ since \in Nat
    BY DEF TypeInv, TypeOK, CountTypes
  <2>1. CASE WorkTest
    BY <2>0, <2>1 DEF WorkTest, ArrearsInv, InHand
  <2>2. CASE WorkBill
    BY <2>0, <2>2 DEF WorkBill, ArrearsInv, InHand
  <2>3. CASE Work /\ ~WorkTest /\ ~WorkBill
    <3>1. UNCHANGED <<since, arrears>> /\ (wpc' \in {"idle", "store"} \/ wpc \notin {"idle", "store"})
      BY <2>3 DEF Work, WorkFetch, WorkEmpty, WorkFilter, WorkCount, WorkExpire, WorkContent,
         WorkSend, WorkAnswer, WorkStore
    <3> QED BY <2>0, <3>1, ArrearsFrame
  <2>4. ASSUME NEW done \in Outcomes, StatArrears(done) PROVE ArrearsInv'
    BY <2>0, <2>4 DEF StatArrears, ArrearsInv, InHand
  <2>5. ASSUME NEW o \in OptionSets, Restart(o) PROVE ArrearsInv'
    BY <2>5 DEF Restart, ArrearsInv
  <2>6. CASE \/ StatReload \/ ReloadDone
             \/ \E queued \in BOOLEAN : StatExit(queued)
             \/ \E queued \in BOOLEAN, o \in OptionSets : ReloadCut(queued, o)
             \/ \E a \in Answers : SchedulerAnswer(a)
             \/ \E p \in Phones : CounterExpires(p)
    <3>1. UNCHANGED <<since, arrears>> /\ (wpc' = wpc \/ wpc' = "idle" \/ wpc = "asked")
      BY <2>6 DEF StatReload, ReloadDone, StatExit, ReloadCut, SchedulerAnswer, CounterExpires
    <3> QED BY <2>0, <3>1, ArrearsFrame
  <2>7. CASE Deliver \/ Billing \/ Store \/ Unsubscribe \/ UNCHANGED vars
    <3>1. UNCHANGED <<since, arrears, wpc>>
      BY <2>7 DEF Deliver, DeliverReport, DeliverMessage, DeliverRefund, DeliverForward, Billing,
         BillApply, Store, StoreWrite, Unsubscribe, UnsubscribeWrite, vars
    <3> QED BY <2>0, <3>1, ArrearsFrame
  <2> QED BY <2>1, <2>2, <2>3, <2>4, <2>5, <2>6, <2>7 DEF Next, Stat, Outside
<1>3. ArrearsInv => ArrearsStop
  BY DEF ArrearsInv, ArrearsStop
<1> QED BY <1>1, <1>2, <1>3, ServerTyped, PTL DEF Spec

-----------------------------------------------------------------------------
(* The status in the database *)

IsSubmit(x, m) == x.kind = "submit" /\ x.of = m
IsReport(x, m) == x.kind = "report" /\ x.of = m
About(x, m)    == IsSubmit(x, m) \/ IsReport(x, m)

\* A message that has not been stored has left no trace; in `storage' its SUBMIT comes
\* before its reports; and a report finds the row, or has the SUBMIT before it.
NoTrace(m) ==
  rows[m] = None /\ stored[m] = None /\ \A k \in DOMAIN storage : ~About(storage[k], m)

SubmitFirst(m) ==
  \A k \in DOMAIN storage : IsSubmit(storage[k], m) =>
    /\ rows[m] = None /\ stored[m] = None
    /\ \A j \in DOMAIN storage : About(storage[j], m) => k <= j

RowFound(m) ==
  \A j \in DOMAIN storage : IsReport(storage[j], m) =>
    rows[m] # None \/ \E k \in DOMAIN storage : k < j /\ IsSubmit(storage[k], m)

StatusInv ==
  \A m \in Msgs \ (overtaken \cup unsaved) :
    /\ m \in todo \/ wmsg = m => NoTrace(m)
    /\ SubmitFirst(m) /\ RowFound(m)
    /\ stored[m] # None => rows[m] = stored[m]

\* A step that leaves list and rows alone and starts no message keeps StatusInv.
LEMMA StatusFrame ==
  ASSUME StatusInv, UNCHANGED <<rows, stored, storage, overtaken, unsaved>>,
         None \notin Msgs, todo' \cup {wmsg'} \subseteq todo \cup {wmsg, None}
  PROVE  StatusInv'
  BY DEF StatusInv, NoTrace, SubmitFirst, RowFound, About, IsSubmit, IsReport

\* Putting a message's SUBMIT into the list.
LEMMA StatusSubmit ==
  ASSUME TypeInv, FatesInv, StatusInv, WorkStore
  PROVE  StatusInv'
<1>1. /\ wmsg \in Msgs /\ wmsg' = None /\ None \notin Msgs /\ wmsg \notin todo
      /\ UNCHANGED <<todo, rows, stored, overtaken, unsaved>>
      /\ storage' = Append(storage, [kind |-> "submit", of |-> wmsg])
  BY ServerAssumption DEF TypeInv, TypeOK, WorkTypes, WorkStore, FatesInv, FateInv, storeVars,
     storeHist
<1>2. [kind |-> "submit", of |-> wmsg] \in Item
  BY <1>1 DEF Item
<1>3. /\ Len(storage) \in Nat /\ DOMAIN storage = 1 .. Len(storage)
      /\ DOMAIN storage' = 1 .. Len(storage) + 1
      /\ \A k \in DOMAIN storage : storage'[k] = storage[k]
      /\ storage'[Len(storage) + 1] = [kind |-> "submit", of |-> wmsg]
  BY <1>1, <1>2, Grown DEF TypeInv, TypeOK, ListTypes
<1> SUFFICES ASSUME NEW m \in Msgs \ (overtaken \cup unsaved)
             PROVE  /\ m \in todo => NoTrace(m)'
                    /\ SubmitFirst(m)' /\ RowFound(m)'
                    /\ stored[m] # None => rows[m] = stored[m]
  BY <1>1 DEF StatusInv
<1>4. CASE m # wmsg
  <2>1. ~About(storage'[Len(storage) + 1], m)
    BY <1>3, <1>4 DEF About, IsSubmit, IsReport
  <2>2. m \in todo => NoTrace(m)'
    BY <1>1, <1>3, <2>1 DEF StatusInv, NoTrace, About, IsSubmit, IsReport
  <2>3. SubmitFirst(m)'
    BY <1>1, <1>3, <2>1 DEF StatusInv, SubmitFirst, About, IsSubmit, IsReport
  <2>4. RowFound(m)'
    BY <1>1, <1>3, <2>1 DEF StatusInv, RowFound, About, IsSubmit, IsReport
  <2> QED BY <2>2, <2>3, <2>4 DEF StatusInv
<1>5. CASE m = wmsg
  <2>1. NoTrace(m)
    BY <1>5 DEF StatusInv
  <2>2. \A k \in DOMAIN storage' : About(storage'[k], m) => k = Len(storage) + 1
    BY <1>3, <2>1 DEF NoTrace, About, IsSubmit, IsReport
  <2>3. ~IsReport(storage'[Len(storage) + 1], m)
    BY <1>3 DEF IsReport
  <2>4. SubmitFirst(m)'
    BY <1>1, <1>3, <2>1, <2>2 DEF SubmitFirst, NoTrace, About
  <2>5. RowFound(m)'
    BY <2>2, <2>3 DEF RowFound, About
  <2> QED BY <1>1, <1>5, <2>1, <2>4, <2>5 DEF NoTrace
<1> QED BY <1>4, <1>5

\* Putting a report or a message of a subscriber into the list.
LEMMA StatusForward ==
  ASSUME TypeInv, StatusInv, DeliverForward
  PROVE  StatusInv'
<1>1. /\ ditem \in Report \cup Other /\ storage' = Append(storage, ditem)
      /\ UNCHANGED <<todo, wmsg, rows, stored, unsaved>>
      /\ overtaken' = IF ditem.kind = "report" /\ ~Submitted(ditem.of)
                      THEN overtaken \cup {ditem.of} ELSE overtaken
  BY DEF TypeInv, DeliverLocals, DeliverForward, storeVars, workVars
<1>2. ditem \in Item /\ ditem.kind # "submit"
  BY <1>1 DEF Item, Report, Other
<1>3. /\ Len(storage) \in Nat /\ DOMAIN storage = 1 .. Len(storage)
      /\ DOMAIN storage' = 1 .. Len(storage) + 1
      /\ \A k \in DOMAIN storage : storage'[k] = storage[k]
      /\ storage'[Len(storage) + 1] = ditem
  BY <1>1, <1>2, Grown DEF TypeInv, TypeOK, ListTypes
<1> SUFFICES ASSUME NEW m \in Msgs \ (overtaken' \cup unsaved)
             PROVE  /\ m \in todo \/ wmsg = m => NoTrace(m)'
                    /\ SubmitFirst(m)' /\ RowFound(m)'
                    /\ stored[m] # None => rows[m] = stored[m]
  BY <1>1 DEF StatusInv
<1>4. m \notin overtaken /\ m \notin unsaved
  BY <1>1
<1>5. IsReport(ditem, m) =>
        rows[m] # None \/ \E k \in DOMAIN storage : IsSubmit(storage[k], m)
  <2> SUFFICES ASSUME IsReport(ditem, m)
               PROVE  rows[m] # None \/ \E k \in DOMAIN storage : IsSubmit(storage[k], m)
    OBVIOUS
  <2>1. Submitted(m)
    BY <1>1 DEF IsReport
  <2> QED BY <2>1 DEF Submitted, IsSubmit
<1>6. m \in todo \/ wmsg = m => NoTrace(m)'
  <2> SUFFICES ASSUME m \in todo \/ wmsg = m PROVE NoTrace(m)'
    OBVIOUS
  <2>1. NoTrace(m)
    BY <1>4 DEF StatusInv
  <2>2. ~About(ditem, m)
    BY <1>2, <1>5, <2>1 DEF NoTrace, About, IsSubmit
  <2> QED BY <1>1, <1>3, <2>1, <2>2 DEF NoTrace, About, IsSubmit, IsReport
<1>7. SubmitFirst(m)'
  <2>1. SubmitFirst(m)
    BY <1>4 DEF StatusInv
  <2>2. \A k \in DOMAIN storage' : IsSubmit(storage'[k], m) =>
          k \in DOMAIN storage /\ IsSubmit(storage[k], m)
    BY <1>2, <1>3 DEF IsSubmit
  <2>3. \A k \in DOMAIN storage' : About(storage'[k], m) =>
          k = Len(storage) + 1 \/ (k \in DOMAIN storage /\ About(storage[k], m))
    BY <1>3 DEF About, IsSubmit, IsReport
  <2> QED BY <1>1, <1>3, <2>1, <2>2, <2>3 DEF SubmitFirst
<1>8. RowFound(m)'
  <2>1. RowFound(m)
    BY <1>4 DEF StatusInv
  <2> SUFFICES ASSUME NEW j \in DOMAIN storage', IsReport(storage'[j], m), rows[m] = None
               PROVE  \E k \in DOMAIN storage' : k < j /\ IsSubmit(storage'[k], m)
    BY <1>1 DEF RowFound
  <2>2. CASE j \in DOMAIN storage
    <3>1. PICK k \in DOMAIN storage : k < j /\ IsSubmit(storage[k], m)
      BY <1>3, <2>1, <2>2 DEF RowFound
    <3> QED BY <1>3, <3>1
  <2>3. CASE j = Len(storage) + 1
    <3>1. PICK k \in DOMAIN storage : IsSubmit(storage[k], m)
      BY <1>3, <1>5, <2>3
    <3>2. k \in DOMAIN storage' /\ k < j /\ storage'[k] = storage[k]
      BY <1>3, <2>3
    <3> QED BY <3>1, <3>2
  <2> QED BY <1>3, <2>2, <2>3
<1> QED BY <1>4, <1>6, <1>7, <1>8 DEF StatusInv

\* Writing the item at the head of the list.
LEMMA StatusWrite ==
  ASSUME TypeInv, StatusInv, NEW done \in BOOLEAN, StoreWrite(done)
  PROVE  StatusInv'
<1> DEFINE x == Head(storage)
<1>1. /\ storage # <<>> /\ storage' = Tail(storage)
      /\ UNCHANGED <<todo, wmsg, overtaken>>
  BY DEF StoreWrite, workVars
<1>2. /\ Len(storage) \in Nat \ {0} /\ 1 \in DOMAIN storage /\ x = storage[1]
      /\ DOMAIN storage = 1 .. Len(storage) /\ DOMAIN storage' = 1 .. Len(storage) - 1
      /\ \A k \in DOMAIN storage' : k + 1 \in DOMAIN storage /\ storage'[k] = storage[k + 1]
  BY <1>1, Shrunk DEF TypeInv, TypeOK, ListTypes
<1>3. /\ x.kind \in {"submit", "report"} => x.of \in Msgs
      /\ x.kind = "report" => x.status \in Statuses
  BY <1>1, StorageHead DEF TypeInv, TypeOK
<1>4. /\ rows \in [Msgs -> Statuses \cup {0, None}] /\ stored \in [Msgs -> Statuses \cup {None}]
      /\ None \notin Statuses /\ None # 0
  BY ServerAssumption DEF TypeInv, TypeOK, StoreTypes
<1>5. unsaved \subseteq unsaved' /\ \A m \in Msgs : ~About(x, m) =>
        rows'[m] = rows[m] /\ stored'[m] = stored[m]
  BY <1>3, <1>4 DEF StoreWrite, WriteMessage, WriteReport, WriteDeliver, About, IsSubmit, IsReport
<1> SUFFICES ASSUME NEW m \in Msgs \ (overtaken \cup unsaved')
             PROVE  /\ m \in todo \/ wmsg = m => NoTrace(m)'
                    /\ SubmitFirst(m)' /\ RowFound(m)'
                    /\ stored'[m] # None => rows'[m] = stored'[m]
  BY <1>1 DEF StatusInv
<1>6. /\ m \in todo \/ wmsg = m => NoTrace(m)
      /\ SubmitFirst(m) /\ RowFound(m) /\ (stored[m] # None => rows[m] = stored[m])
  BY <1>5 DEF StatusInv
<1>7. /\ \A k \in DOMAIN storage' : IsSubmit(storage'[k], m) => IsSubmit(storage[k + 1], m)
      /\ \A k \in DOMAIN storage' : IsReport(storage'[k], m) => IsReport(storage[k + 1], m)
  BY <1>2 DEF IsSubmit, IsReport
<1>8. CASE ~About(x, m)
  <2>1. rows'[m] = rows[m] /\ stored'[m] = stored[m]
    BY <1>5, <1>8
  <2>2. m \in todo \/ wmsg = m => NoTrace(m)'
    BY <1>2, <1>6, <1>7, <2>1 DEF NoTrace, About
  <2>3. SubmitFirst(m)'
    <3> SUFFICES ASSUME NEW k \in DOMAIN storage', IsSubmit(storage'[k], m)
                 PROVE  /\ rows'[m] = None /\ stored'[m] = None
                        /\ \A j \in DOMAIN storage' : About(storage'[j], m) => k <= j
      BY DEF SubmitFirst
    <3>1. /\ rows[m] = None /\ stored[m] = None
          /\ \A j \in DOMAIN storage : About(storage[j], m) => k + 1 <= j
      BY <1>2, <1>6, <1>7 DEF SubmitFirst
    <3>2. ASSUME NEW j \in DOMAIN storage', About(storage'[j], m) PROVE k <= j
      <4>1. k + 1 <= j + 1
        BY <1>2, <1>7, <3>1, <3>2 DEF About
      <4> QED BY <1>2, <4>1
    <3> QED BY <2>1, <3>1, <3>2
  <2>4. RowFound(m)'
    <3> SUFFICES ASSUME NEW j \in DOMAIN storage', IsReport(storage'[j], m), rows[m] = None
                 PROVE  \E k \in DOMAIN storage' : k < j /\ IsSubmit(storage'[k], m)
      BY <2>1 DEF RowFound
    <3>1. PICK k \in DOMAIN storage : k < j + 1 /\ IsSubmit(storage[k], m)
      BY <1>2, <1>6, <1>7 DEF RowFound
    <3>2. k # 1
      BY <1>2, <1>8, <3>1 DEF About
    <3>3. k - 1 \in DOMAIN storage' /\ k - 1 < j /\ storage'[k - 1] = storage[k]
      <4>1. k - 1 \in DOMAIN storage' /\ k - 1 < j /\ (k - 1) + 1 = k
        BY <1>2, <3>1, <3>2
      <4> QED BY <1>2, <4>1
    <3> QED BY <3>1, <3>3
  <2> QED BY <1>6, <2>1, <2>2, <2>3, <2>4
<1>9. CASE IsSubmit(x, m)
  <2>1. WriteMessage(m, done) /\ done
    BY <1>9 DEF StoreWrite, WriteMessage, IsSubmit
  <2>2. rows'[m] = 0 /\ stored' = stored
    BY <1>4, <2>1 DEF WriteMessage
  <2>3. stored[m] = None /\ \A j \in DOMAIN storage : IsSubmit(storage[j], m) => j = 1
    <3>1. /\ stored[m] = None
          /\ \A j \in DOMAIN storage : IsSubmit(storage[j], m) => j <= 1 /\ 1 <= j
      BY <1>2, <1>6, <1>9 DEF SubmitFirst, About
    <3> QED BY <1>2, <3>1
  <2>4. ~(m \in todo \/ wmsg = m)
    BY <1>2, <1>6, <1>9 DEF NoTrace, About
  <2>5. \A k \in DOMAIN storage' : ~IsSubmit(storage'[k], m)
    BY <1>2, <1>7, <2>3
  <2>6. SubmitFirst(m)' /\ RowFound(m)'
    BY <1>4, <2>2, <2>5 DEF SubmitFirst, RowFound
  <2> QED BY <2>2, <2>3, <2>4, <2>6
<1>10. CASE IsReport(x, m)
  <2>1. WriteReport(m, x.status, done) /\ done /\ x.status \in Statuses
    BY <1>3, <1>10 DEF StoreWrite, WriteReport, IsReport
  <2>2. rows[m] # None
    BY <1>2, <1>6, <1>10 DEF RowFound
  <2>3. rows'[m] = x.status /\ stored'[m] = x.status
    BY <1>4, <2>1, <2>2 DEF WriteReport
  <2>4. ~(m \in todo \/ wmsg = m)
    BY <1>6, <2>2 DEF NoTrace
  <2>5. \A k \in DOMAIN storage' : ~IsSubmit(storage'[k], m)
    BY <1>2, <1>6, <1>7, <2>2 DEF SubmitFirst
  <2>6. SubmitFirst(m)' /\ RowFound(m)'
    BY <1>4, <2>1, <2>3, <2>5 DEF SubmitFirst, RowFound
  <2> QED BY <2>3, <2>4, <2>6
<1> QED BY <1>8, <1>9, <1>10 DEF About

\* After exit, whatever was under way counts as unsaved.
LEMMA StatusExit ==
  ASSUME TypeInv, StatusInv, NEW queued \in BOOLEAN, StatExit(queued)
  PROVE  StatusInv'
<1>1. /\ storage' = <<>> /\ wmsg' = None /\ None \notin Msgs
      /\ UNCHANGED <<todo, rows, stored, overtaken>> /\ unsaved \subseteq unsaved'
  BY ServerAssumption DEF StatExit, storeVars
<1>2. ASSUME NEW m \in Msgs \ (overtaken \cup unsaved')
      PROVE  /\ m \in todo => NoTrace(m)'
             /\ SubmitFirst(m)' /\ RowFound(m)'
             /\ stored[m] # None => rows[m] = stored[m]
  BY <1>1 DEF StatusInv, NoTrace, SubmitFirst, RowFound
<1> QED BY <1>1, <1>2 DEF StatusInv

\* StatusKept holds, for any number of messages, reports, reloads and exits: the row has
\* the status of the last report unless the report overtook its message, or one of them
\* was lost (server.c:487-501, 592-607).
THEOREM StatusIsKept == Spec => []StatusKept
<1>1. Init => StatusInv
  BY DEF Init, StatusInv, NoTrace, SubmitFirst, RowFound
<1>2. TypeInv /\ FatesInv /\ StatusInv /\ [Next]_vars => StatusInv'
  <2> SUFFICES ASSUME TypeInv, FatesInv, StatusInv, [Next]_vars PROVE StatusInv'
    OBVIOUS
  <2> USE DEF workVars, listVars, storeVars, storeHist
  <2>0. None \notin Msgs /\ Outcomes \subseteq BOOLEAN
    BY ServerAssumption
  <2>1. CASE Work /\ ~WorkStore
    <3>1. UNCHANGED <<rows, stored, storage, overtaken, unsaved>>
      BY <2>1 DEF Work, WorkTest, WorkFetch, WorkEmpty, WorkFilter, WorkCount, WorkExpire,
         WorkContent, WorkSend, WorkAnswer, WorkBill
    <3>2. CASE WorkAnswer
      <4>1. resp \in Answers /\ todo' = todo
        BY <3>2 DEF WorkAnswer, TypeInv, TypeOK, WorkTypes
      <4>2. wmsg' \in {wmsg, None}
        BY <3>2, <4>1 DEF WorkAnswer, AfterAnswer, Refuse, GoOn, Answers
      <4> QED BY <2>0, <3>1, <4>1, <4>2, StatusFrame
    <3>3. ASSUME NEW m \in Msgs, WorkFetch(m) PROVE StatusInv'
      BY <2>0, <3>1, <3>3, StatusFrame DEF WorkFetch
    <3>4. CASE \/ WorkTest \/ WorkEmpty \/ WorkFilter \/ WorkContent \/ WorkSend \/ WorkBill
               \/ \E done \in Outcomes : WorkCount(done) \/ WorkExpire(done)
      <4>1. todo' = todo /\ wmsg' \in {wmsg, None}
        BY <3>4 DEF WorkTest, WorkEmpty, WorkFilter, WorkCount, WorkExpire, WorkContent, WorkSend,
           WorkBill, Refuse, GoOn
      <4> QED BY <2>0, <3>1, <4>1, StatusFrame
    <3> QED BY <2>1, <3>2, <3>3, <3>4 DEF Work
  <2>2. CASE (Deliver /\ ~DeliverForward) \/ Billing \/ Unsubscribe \/ Outside \/ UNCHANGED vars
    <3>1. UNCHANGED <<rows, stored, storage, overtaken, unsaved, todo, wmsg>>
      BY <2>2 DEF Deliver, DeliverReport, DeliverMessage, DeliverRefund, Billing, BillApply,
         Unsubscribe, UnsubscribeWrite, Outside, SchedulerAnswer, CounterExpires, Restart, vars
    <3> QED BY <2>0, <3>1, StatusFrame
  <2>3. CASE Stat
    <3>1. CASE \/ StatReload \/ ReloadDone \/ \E done \in Outcomes : StatArrears(done)
               \/ \E queued \in BOOLEAN, o \in OptionSets : ReloadCut(queued, o)
      <4>1. UNCHANGED <<rows, stored, storage, overtaken, unsaved, todo, wmsg>>
        BY <3>1 DEF StatReload, ReloadDone, StatArrears, ReloadCut
      <4> QED BY <2>0, <4>1, StatusFrame
    <3> QED BY <2>3, <3>1, StatusExit DEF Stat
  <2>4. CASE Store
    BY <2>0, <2>4, StatusWrite DEF Store
  <2> QED BY <2>1, <2>2, <2>3, <2>4, StatusSubmit, StatusForward DEF Next
<1>3. StatusInv => StatusKept
  BY DEF StatusInv, StatusKept
<1> QED BY <1>1, <1>2, <1>3, ServerTyped, FatesKept, PTL DEF Spec

=============================================================================
