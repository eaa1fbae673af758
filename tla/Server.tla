------------------------------- MODULE Server -------------------------------
(***************************************************************************)
(* lamb-server (src/src/server.c): the process of one account.            *)
(*                                                                         *)
(*  - lamb_work_loop takes the account's messages from mt, filters them,   *)
(*    has the scheduler queue them, and then charges and stores them.      *)
(*  - lamb_deliver_loop takes reports and messages of subscribers from     *)
(*    delivery, refunds what was not delivered, and passes them to mo.     *)
(*  - lamb_billing_loop, lamb_store_loop and lamb_unsubscribe_loop empty   *)
(*    the lists `billing', `storage' and `unsubscribe' into the caches and *)
(*    the database.                                                        *)
(*  - lamb_stat_loop looks at the company's money and obeys the signals    *)
(*    reload and exit.                                                     *)
(*                                                                         *)
(* The threads share the three lists and two flags, `sleeping' and         *)
(* `arrears'.  Reload closes the connection to the scheduler under the     *)
(* work thread's feet.  Exit forgets what the lists hold.                  *)
(***************************************************************************)
EXTENDS Integers, Sequences, FiniteSets

CONSTANTS
  Msgs,         \* messages of the account waiting at mt
  Delivers,     \* messages of subscribers waiting at delivery
  Phones,       \* telephone numbers
  Phone,        \* Phone[x]: the number of a message or of a subscriber
  Fails,        \* Fails[m]: the stateless filters that would refuse m
  Leaving,      \* messages of subscribers who ask to be left alone
  Garbled,      \* messages of subscribers whose text cannot be converted
  OptionSets,   \* filters an account may have switched on
  FreqLimit,    \* LAMB_LIMIT
  Money,        \* the company's money at the start
  None,         \* no value
  Outcomes,     \* do calls to database and cache succeed: {TRUE} or BOOLEAN
  MaxCuts,      \* bound: how often the scheduler's link is cut in a request
  MaxReports,   \* bound: reports about a message
  MaxReloads,   \* bound: how often the configuration is reloaded
  MaxExits      \* bound: how often the process exits

Stateless == {"format", "blacklist", "encode", "template", "keyword"}
Options   == {"blacklist", "unsubscribe", "frequency", "template", "keyword"}
Statuses  == {1, 2}   \* delivered, and one of the others
Answers   == {"OK", "BUSY", "NOROUTE", "REJECT"}

ASSUME ServerAssumption ==
  /\ IsFiniteSet(Msgs)
  /\ Msgs \cap Delivers = {}
  /\ Phone \in [Msgs \cup Delivers -> Phones]
  /\ Fails \in [Msgs -> SUBSET Stateless]
  /\ Leaving \cup Garbled \subseteq Delivers
  /\ OptionSets \subseteq SUBSET Options
  /\ FreqLimit \in Nat \ {0}
  /\ Money \in Nat
  /\ None \notin Msgs \cup Delivers \cup Answers
  /\ None \notin Statuses \cup {0}
  /\ Outcomes \in {{TRUE}, BOOLEAN}
  /\ {MaxCuts, MaxReports, MaxReloads, MaxExits} \subseteq Nat

VARIABLES
  up,          \* the process runs
  sleeping,    \* a reload is under way
  arrears,     \* the company has no money, as far as the stat thread knows
  options,     \* filters switched on
  link,        \* the socket `scheduler' is connected
  todo,        \* messages still at mt
  wpc,         \* where the work thread is
  wmsg,        \* its message
  resp,        \* the scheduler's answer in the socket
  dpc,         \* where the deliver thread is
  ditem,       \* its report
  inbound,     \* messages of subscribers still at delivery
  billing,     \* the list `billing'
  storage,     \* the list `storage'
  leaving,     \* the list `unsubscribe'
  money,       \* company.money, in the cache
  rows,        \* rows[m]: the status in the database, None without a row
  left,        \* numbers the cache knows to have unsubscribed
  freq,        \* freq[p]: the frequency counter of number p
  ttl,         \* numbers whose counter will expire
  \* scheduler and delivery
  copies,      \* copies[m]: how often the scheduler has queued m
  reports,     \* reports[m]: reports on m, at most one for each copy
  extra,       \* extra[m]: reports on m beyond these, repeated or misdirected
  \* history
  charged,     \* charged[m]: how often m was charged
  refunded,    \* refunded[m]: how often m was refunded
  refused,     \* messages answered with a direct response
  cuts,        \* cuts[m]: how often the thread lost the answer to a request for m
  unbilled,    \* messages an exit forgot between the answer OK and the charge
  since,       \* messages charged since `arrears' was last set
  overtaken,   \* messages with a REPORT in `storage' before their SUBMIT
  unsaved,     \* messages with a row or a status the database refused
  stored,      \* stored[m]: the status of the last REPORT written
  stuck,       \* numbers whose counter was left without expiry
  unheard,     \* numbers the cache did not take from the unsubscribe thread
  reloads, exits

flagVars    == <<up, sleeping, arrears, options, link, reloads, exits>>
workVars    == <<todo, wpc, wmsg, resp>>
deliverVars == <<dpc, ditem, inbound>>
listVars    == <<billing, storage, leaving>>
storeVars   == <<money, rows, left, unheard>>
freqVars    == <<freq, ttl, stuck>>
outsideVars == <<copies, reports, extra>>
billHist    == <<charged, refunded, refused, cuts, unbilled, since>>
storeHist   == <<overtaken, unsaved, stored>>
vars == <<flagVars, workVars, deliverVars, listVars, storeVars, freqVars,
          outsideVars, billHist, storeHist>>

Init ==
  /\ up = TRUE /\ sleeping = FALSE /\ arrears = FALSE /\ link = TRUE
  /\ options \in OptionSets
  /\ todo = Msgs /\ wpc = "idle" /\ wmsg = None /\ resp = None
  /\ dpc = "idle" /\ ditem = None /\ inbound = Delivers
  /\ billing = <<>> /\ storage = <<>> /\ leaving = <<>>
  /\ money = Money
  /\ rows = [m \in Msgs |-> None]
  /\ left = {} /\ unheard = {}
  /\ freq = [p \in Phones |-> 0] /\ ttl = {} /\ stuck = {}
  /\ copies = [m \in Msgs |-> 0] /\ reports = [m \in Msgs |-> 0]
  /\ extra = [m \in Msgs |-> 0]
  /\ charged = [m \in Msgs |-> 0] /\ refunded = [m \in Msgs |-> 0]
  /\ refused = {} /\ cuts = [m \in Msgs |-> 0] /\ unbilled = {} /\ since = 0
  /\ overtaken = {} /\ unsaved = {} /\ stored = [m \in Msgs |-> None]
  /\ reloads = 0 /\ exits = 0

-----------------------------------------------------------------------------
(* The work thread *)

\* Mutant: the money is not looked at.
WorkTestSleeping ==
  /\ wpc = "idle"
  /\ ~sleeping
  /\ wpc' = "request"
  /\ UNCHANGED <<flagVars, todo, wmsg, resp, deliverVars, listVars, storeVars,
                 freqVars, outsideVars, billHist, storeHist>>

\* The flags are looked at, once.
WorkTest ==
  /\ wpc = "idle"
  /\ ~sleeping /\ ~arrears
  /\ wpc' = "request"
  /\ UNCHANGED <<flagVars, todo, wmsg, resp, deliverVars, listVars, storeVars,
                 freqVars, outsideVars, billHist, storeHist>>

\* REQ to mt: a message, or EMPTY (or an error) and back to the flags.
WorkFetch(m) ==
  /\ wpc = "request"
  /\ m \in todo
  /\ todo' = todo \ {m}
  /\ wmsg' = m
  /\ wpc' = "filter"
  /\ UNCHANGED <<flagVars, resp, deliverVars, listVars, storeVars, freqVars,
                 outsideVars, billHist, storeHist>>

WorkEmpty ==
  /\ wpc = "request"
  /\ wpc' = "idle"
  /\ UNCHANGED <<flagVars, todo, wmsg, resp, deliverVars, listVars, storeVars,
                 freqVars, outsideVars, billHist, storeHist>>

\* lamb_direct_response and `goto done': the message is finished.  The response
\* may be lost, it is sent without waiting.
Refuse ==
  /\ refused' = refused \cup {wmsg}
  /\ wpc' = "idle"
  /\ wmsg' = None

GoOn(pc) == wpc' = pc /\ UNCHANGED <<wmsg, refused>>

\* Encoding, blacklist and unsubscribed numbers.
RefusedEarly(m) ==
  \/ "format" \in Fails[m]
  \/ "blacklist" \in options \cap Fails[m]
  \/ "unsubscribe" \in options /\ Phone[m] \in left

WorkFilter ==
  /\ wpc = "filter"
  /\ IF RefusedEarly(wmsg) THEN Refuse
     ELSE GoOn(IF "frequency" \in options THEN "count" ELSE "content")
  /\ UNCHANGED <<flagVars, todo, resp, deliverVars, listVars, storeVars,
                 freqVars, outsideVars, charged, refunded, cuts, unbilled, since, storeHist>>

\* Mutant: no EXPIRE.
WorkCountOnly(done) ==
  /\ wpc = "count"
  /\ LET p == Phone[wmsg]
         n == freq[p] + 1
     IN IF done
        THEN /\ freq' = [freq EXCEPT ![p] = n]
             /\ IF n > 1 /\ n > FreqLimit THEN Refuse ELSE GoOn("content")
        ELSE GoOn("content") /\ UNCHANGED freq
  /\ UNCHANGED <<flagVars, todo, resp, deliverVars, listVars, storeVars, ttl,
                 stuck, outsideVars, charged, refunded, cuts, unbilled, since, storeHist>>

\* INCRBY: the first message to a number goes on to EXPIRE, one above the limit
\* is refused.  If the cache does not answer the message passes.
WorkCount(done) ==
  /\ wpc = "count"
  /\ LET p == Phone[wmsg]
         n == freq[p] + 1
     IN IF done
        THEN /\ freq' = [freq EXCEPT ![p] = n]
             /\ IF n > 1 /\ n > FreqLimit THEN Refuse
                ELSE GoOn(IF n = 1 THEN "expire" ELSE "content")
        ELSE GoOn("content") /\ UNCHANGED freq
  /\ UNCHANGED <<flagVars, todo, resp, deliverVars, listVars, storeVars, ttl,
                 stuck, outsideVars, charged, refunded, cuts, unbilled, since, storeHist>>

\* EXPIRE, a command of its own.
WorkExpire(done) ==
  /\ wpc = "expire"
  /\ IF done THEN ttl' = ttl \cup {Phone[wmsg]} /\ UNCHANGED stuck
             ELSE stuck' = stuck \cup {Phone[wmsg]} /\ UNCHANGED ttl
  /\ wpc' = "content"
  /\ UNCHANGED <<flagVars, todo, wmsg, resp, deliverVars, listVars, storeVars,
                 freq, outsideVars, billHist, storeHist>>

\* Conversion, templates and keywords.
RefusedLate(m) ==
  \/ "encode" \in Fails[m]
  \/ options \cap Fails[m] \cap {"template", "keyword"} # {}

WorkContent ==
  /\ wpc = "content"
  /\ IF RefusedLate(wmsg) THEN Refuse ELSE GoOn("send")
  /\ UNCHANGED <<flagVars, todo, resp, deliverVars, listVars, storeVars,
                 freqVars, outsideVars, charged, refunded, cuts, unbilled, since, storeHist>>

\* The message goes to the scheduler; without a connection the thread tries
\* again after a while.
WorkSend ==
  /\ wpc = "send"
  /\ link
  /\ wpc' = "asked"
  /\ UNCHANGED <<flagVars, todo, wmsg, resp, deliverVars, listVars, storeVars,
                 freqVars, outsideVars, billHist, storeHist>>

\* Mutants: a refusal without `goto done', a queued message without its bill.
AfterAnswerFallsThrough(a) ==
  CASE a = "BUSY" -> GoOn("send")
    [] a = "OK" -> GoOn("bill")
    [] a \in {"NOROUTE", "REJECT"} ->
         wpc' = "bill" /\ refused' = refused \cup {wmsg} /\ UNCHANGED wmsg

AfterAnswerFree(a) ==
  CASE a = "OK" -> GoOn("store")
    [] a = "BUSY" -> GoOn("send")
    [] a \in {"NOROUTE", "REJECT"} -> Refuse

\* Where an answer leads.
AfterAnswer(a) ==
  CASE a = "OK" -> GoOn("bill")
    [] a = "BUSY" -> GoOn("send")
    [] a \in {"NOROUTE", "REJECT"} -> Refuse

WorkAnswer ==
  /\ wpc = "asked"
  /\ resp # None
  /\ resp' = None
  /\ AfterAnswer(resp)
  /\ UNCHANGED <<flagVars, todo, deliverVars, listVars, storeVars, freqVars,
                 outsideVars, charged, refunded, cuts, unbilled, since, storeHist>>

WorkBill ==
  /\ wpc = "bill"
  /\ billing' = Append(billing, -1)
  /\ charged' = [charged EXCEPT ![wmsg] = @ + 1]
  /\ since' = IF arrears THEN since + 1 ELSE since
  /\ wpc' = "store"
  /\ UNCHANGED <<flagVars, todo, wmsg, resp, deliverVars, storage, leaving,
                 storeVars, freqVars, outsideVars, refunded, refused, cuts,
                 unbilled, storeHist>>

WorkStore ==
  /\ wpc = "store"
  /\ storage' = Append(storage, [kind |-> "submit", of |-> wmsg])
  /\ wpc' = "idle"
  /\ wmsg' = None
  /\ UNCHANGED <<flagVars, todo, resp, deliverVars, billing, leaving, storeVars,
                 freqVars, outsideVars, billHist, storeHist>>

-----------------------------------------------------------------------------
(* The deliver thread *)

\* A report comes back on a message the scheduler has queued.  One for each copy
\* is its due; but a carrier may repeat a report and a gateway take one for another
\* message's, which is not told apart from the first (there is no record).
DeliverReport(m, s) ==
  /\ dpc = "idle"
  /\ ~sleeping
  /\ copies[m] > 0
  /\ reports[m] + extra[m] < MaxReports
  /\ IF reports[m] < copies[m]
     THEN reports' = [reports EXCEPT ![m] = @ + 1] /\ UNCHANGED extra
     ELSE extra' = [extra EXCEPT ![m] = @ + 1] /\ UNCHANGED reports
  /\ ditem' = [kind |-> "report", of |-> m, status |-> s]
  /\ dpc' = IF s # 1 THEN "refund" ELSE "forward"
  /\ UNCHANGED <<flagVars, workVars, inbound, listVars, storeVars, freqVars,
                 copies, billHist, storeHist>>

\* Mutant: the amount is not the fixed one.
DeliverRefundStatus ==
  /\ dpc = "refund"
  /\ billing' = Append(billing, ditem.status)
  /\ refunded' = [refunded EXCEPT ![ditem.of] = @ + 1]
  /\ dpc' = "forward"
  /\ UNCHANGED <<flagVars, workVars, ditem, inbound, storage, leaving, storeVars,
                 freqVars, outsideVars, charged, refused, cuts, unbilled, since, storeHist>>

\* What was not delivered is paid back, before the report is passed on.
DeliverRefund ==
  /\ dpc = "refund"
  /\ billing' = Append(billing, 1)
  /\ refunded' = [refunded EXCEPT ![ditem.of] = @ + 1]
  /\ dpc' = "forward"
  /\ UNCHANGED <<flagVars, workVars, ditem, inbound, storage, leaving, storeVars,
                 freqVars, outsideVars, charged, refused, cuts, unbilled, since, storeHist>>

\* A message of a subscriber.
DeliverMessage(d) ==
  /\ dpc = "idle"
  /\ ~sleeping
  /\ d \in inbound
  /\ inbound' = inbound \ {d}
  /\ ditem' = [kind |-> "deliver", of |-> d]
  /\ dpc' = "forward"
  /\ UNCHANGED <<flagVars, workVars, listVars, storeVars, freqVars, outsideVars,
                 billHist, storeHist>>

Submitted(m) == rows[m] # None
                  \/ \E k \in DOMAIN storage : storage[k] = [kind |-> "submit", of |-> m]

\* Both go to mo, and into `storage'.
DeliverForward ==
  /\ dpc = "forward"
  /\ storage' = Append(storage, ditem)
  /\ overtaken' = IF ditem.kind = "report" /\ ~Submitted(ditem.of)
                  THEN overtaken \cup {ditem.of} ELSE overtaken
  /\ dpc' = "idle"
  /\ ditem' = None
  /\ UNCHANGED <<flagVars, workVars, inbound, billing, leaving, storeVars,
                 freqVars, outsideVars, billHist, unsaved, stored>>

-----------------------------------------------------------------------------
(* The threads behind the lists *)

\* A bill the cache does not take is gone.
BillApply(done) ==
  /\ billing # <<>>
  /\ billing' = Tail(billing)
  /\ money' = IF done THEN money + Head(billing) ELSE money
  /\ UNCHANGED <<flagVars, workVars, deliverVars, storage, leaving, rows, left,
                 unheard, freqVars, outsideVars, billHist, storeHist>>

\* INSERT, with status 0.
WriteMessage(m, done) ==
  /\ rows' = IF done THEN [rows EXCEPT ![m] = 0] ELSE rows
  /\ unsaved' = IF done THEN unsaved ELSE unsaved \cup {m}
  /\ UNCHANGED <<leaving, stored>>

\* UPDATE, which succeeds without a row as well.
WriteReport(m, s, done) ==
  /\ rows' = IF done /\ rows[m] # None THEN [rows EXCEPT ![m] = s] ELSE rows
  /\ stored' = IF done THEN [stored EXCEPT ![m] = s] ELSE stored
  /\ unsaved' = IF done THEN unsaved ELSE unsaved \cup {m}
  /\ UNCHANGED leaving

\* Mutant: the text is not looked at.
WriteDeliverOnly(d) == UNCHANGED <<leaving, rows, unsaved, stored>>

\* A text that can be converted may be a request to be left alone; the row in
\* table delivery is not modelled.  What cannot be converted is skipped.
WriteDeliver(d) ==
  /\ leaving' = IF d \notin Garbled /\ "unsubscribe" \in options /\ d \in Leaving
                THEN Append(leaving, Phone[d]) ELSE leaving
  /\ UNCHANGED <<rows, unsaved, stored>>

\* Mutant: lamb_list_rpop.
StoreWriteLast(done) ==
  /\ storage # <<>>
  /\ storage' = SubSeq(storage, 1, Len(storage) - 1)
  /\ LET x == storage[Len(storage)] IN
     \/ x.kind = "submit" /\ WriteMessage(x.of, done)
     \/ x.kind = "report" /\ WriteReport(x.of, x.status, done)
     \/ x.kind = "deliver" /\ WriteDeliver(x.of)
  /\ UNCHANGED <<flagVars, workVars, deliverVars, billing, money, left, unheard,
                 freqVars, outsideVars, billHist, overtaken>>

\* lamb_list_lpop, and what the kind of the item asks for.
StoreWrite(done) ==
  /\ storage # <<>>
  /\ storage' = Tail(storage)
  /\ LET x == Head(storage) IN
     \/ x.kind = "submit" /\ WriteMessage(x.of, done)
     \/ x.kind = "report" /\ WriteReport(x.of, x.status, done)
     \/ x.kind = "deliver" /\ WriteDeliver(x.of)
  /\ UNCHANGED <<flagVars, workVars, deliverVars, billing, money, left, unheard,
                 freqVars, outsideVars, billHist, overtaken>>

UnsubscribeWrite(done) ==
  /\ leaving # <<>>
  /\ leaving' = Tail(leaving)
  /\ IF done THEN left' = left \cup {Head(leaving)} /\ UNCHANGED unheard
             ELSE unheard' = unheard \cup {Head(leaving)} /\ UNCHANGED left
  /\ UNCHANGED <<flagVars, workVars, deliverVars, billing, storage, money, rows,
                 freqVars, outsideVars, billHist, storeHist>>

-----------------------------------------------------------------------------
(* The stat thread *)

\* lamb_check_arrears: without an answer the company counts as broke.
StatArrears(done) ==
  /\ ~sleeping
  /\ arrears' = ~(done /\ money > 0)
  /\ since' = IF arrears THEN since ELSE 0
  /\ UNCHANGED <<up, sleeping, options, link, reloads, exits, workVars,
                 deliverVars, listVars, storeVars, freqVars, outsideVars, charged,
                 refunded, refused, cuts, unbilled, storeHist>>

\* Signal 1: lamb_reload stops the loops and waits three seconds.
StatReload ==
  /\ ~sleeping
  /\ reloads < MaxReloads
  /\ reloads' = reloads + 1
  /\ sleeping' = TRUE
  /\ UNCHANGED <<up, arrears, options, link, exits, workVars, deliverVars,
                 listVars, storeVars, freqVars, outsideVars, billHist, storeHist>>

\* What becomes of a request when the process closes the socket or exits: an
\* answer is lost, and without one the scheduler may have queued the message.
Abandon(queued) ==
  /\ wpc = "asked" => cuts[wmsg] < MaxCuts
  /\ queued => wpc = "asked" /\ resp = None
  /\ copies' = IF queued THEN [copies EXCEPT ![wmsg] = @ + 1] ELSE copies
  /\ cuts' = IF wpc = "asked" THEN [cuts EXCEPT ![wmsg] = @ + 1] ELSE cuts
  /\ resp' = None

\* The configuration is fetched, then the connection to the scheduler closed:
\* a work thread that waits for an answer gets an error and sends again.
ReloadCut(queued, o) ==
  /\ sleeping /\ link
  /\ options' = o
  /\ link' = FALSE
  /\ Abandon(queued)
  /\ wpc' = IF wpc = "asked" THEN "send" ELSE wpc
  /\ UNCHANGED <<up, sleeping, arrears, reloads, exits, todo, wmsg, deliverVars,
                 listVars, storeVars, freqVars, reports, extra, charged, refunded,
                 refused, unbilled, since, storeHist>>

ReloadDone ==
  /\ sleeping /\ ~link
  /\ link' = TRUE
  /\ sleeping' = FALSE
  /\ UNCHANGED <<up, arrears, options, reloads, exits, workVars, deliverVars,
                 listVars, storeVars, freqVars, outsideVars, billHist, storeHist>>

\* Signal 9: lamb_exit_cleanup, then exit.  Lists and locals are gone.
StatExit(queued) ==
  /\ ~sleeping
  /\ exits < MaxExits
  /\ exits' = exits + 1
  /\ up' = FALSE
  /\ Abandon(queued)
  /\ unbilled' = IF wpc = "bill" THEN unbilled \cup {wmsg} ELSE unbilled
  /\ billing' = <<>> /\ storage' = <<>> /\ leaving' = <<>>
  /\ wpc' = "idle" /\ wmsg' = None /\ dpc' = "idle" /\ ditem' = None
  /\ stuck' = IF wpc = "expire" THEN stuck \cup {Phone[wmsg]} ELSE stuck
  /\ unsaved' = unsaved \cup {storage[k].of : k \in DOMAIN storage}
                        \cup {m \in Msgs : m = wmsg \/ (ditem # None /\ m = ditem.of)}
  /\ UNCHANGED <<sleeping, arrears, options, link, reloads, todo, inbound,
                 storeVars, freq, ttl, reports, extra, charged, refunded, refused,
                 since, overtaken, stored>>

\* lamb-daemon starts the process again.
Restart(o) ==
  /\ ~up
  /\ up' = TRUE
  /\ arrears' = FALSE
  /\ options' = o
  /\ UNCHANGED <<sleeping, link, reloads, exits, workVars, deliverVars, listVars,
                 storeVars, freqVars, outsideVars, billHist, storeHist>>

-----------------------------------------------------------------------------
(* The scheduler and the frequency cache *)

SchedulerAnswer(a) ==
  /\ wpc = "asked" /\ resp = None
  /\ resp' = a
  /\ copies' = IF a = "OK" THEN [copies EXCEPT ![wmsg] = @ + 1] ELSE copies
  /\ UNCHANGED <<flagVars, todo, wpc, wmsg, deliverVars, listVars, storeVars,
                 freqVars, reports, extra, billHist, storeHist>>

\* MAX_LIFETIME is over: the counter is gone.
CounterExpires(p) ==
  /\ p \in ttl
  /\ ttl' = ttl \ {p}
  /\ freq' = [freq EXCEPT ![p] = 0]
  /\ UNCHANGED <<flagVars, workVars, deliverVars, listVars, storeVars, stuck,
                 outsideVars, billHist, storeHist>>

-----------------------------------------------------------------------------
Work ==
  \/ WorkTest \/ (\E m \in Msgs : WorkFetch(m)) \/ WorkEmpty
  \/ WorkFilter \/ (\E done \in Outcomes : WorkCount(done) \/ WorkExpire(done))
  \/ WorkContent \/ WorkSend \/ WorkAnswer \/ WorkBill \/ WorkStore

Deliver ==
  \/ \E m \in Msgs, s \in Statuses : DeliverReport(m, s)
  \/ \E d \in Delivers : DeliverMessage(d)
  \/ DeliverRefund \/ DeliverForward

Billing     == \E done \in Outcomes : BillApply(done)
Store       == \E done \in Outcomes : StoreWrite(done)
Unsubscribe == \E done \in Outcomes : UnsubscribeWrite(done)

Stat ==
  \/ \E done \in Outcomes : StatArrears(done)
  \/ StatReload \/ ReloadDone
  \/ \E queued \in BOOLEAN : StatExit(queued)
  \/ \E queued \in BOOLEAN, o \in OptionSets : ReloadCut(queued, o)

Outside ==
  \/ \E a \in Answers : SchedulerAnswer(a)
  \/ \E p \in Phones : CounterExpires(p)
  \/ \E o \in OptionSets : Restart(o)

Next ==
  \/ up /\ (Work \/ Deliver \/ Billing \/ Store \/ Unsubscribe \/ Stat)
  \/ Outside

Spec == Init /\ [][Next]_vars

\* The threads run while the process does, and a counter with an expiry expires.
\* Nobody has to reload, to exit or to answer.
FairSpec ==
  /\ Spec
  /\ WF_vars(up /\ Work) /\ WF_vars(up /\ (DeliverRefund \/ DeliverForward))
  /\ WF_vars(up /\ Billing) /\ WF_vars(up /\ Store) /\ WF_vars(up /\ Unsubscribe)
  /\ \A p \in Phones : WF_vars(CounterExpires(p))

-----------------------------------------------------------------------------
(* Properties *)

Report == [kind : {"report"}, of : Msgs, status : Statuses]
Other  == [kind : {"deliver"}, of : Delivers]
Item   == [kind : {"submit"}, of : Msgs] \cup Report \cup Other
Counts == [Msgs -> Nat]

FlagTypes ==
  /\ up \in BOOLEAN /\ sleeping \in BOOLEAN /\ arrears \in BOOLEAN /\ link \in BOOLEAN
  /\ options \in OptionSets

WorkTypes ==
  /\ todo \subseteq Msgs
  /\ wpc \in {"idle", "request", "filter", "count", "expire", "content", "send",
              "asked", "bill", "store"}
  /\ wmsg \in Msgs \cup {None}
  /\ wmsg = None <=> wpc \in {"idle", "request"}
  /\ resp \in Answers \cup {None}

DeliverTypes ==
  /\ inbound \subseteq Delivers
  /\ dpc \in {"idle", "refund", "forward"}
  /\ ditem \in Report \cup Other \cup {None}

ListTypes == billing \in Seq({-1, 1}) /\ storage \in Seq(Item) /\ leaving \in Seq(Phones)

StoreTypes ==
  /\ money \in Int
  /\ rows \in [Msgs -> Statuses \cup {0, None}]
  /\ stored \in [Msgs -> Statuses \cup {None}]
  /\ overtaken \subseteq Msgs /\ unsaved \subseteq Msgs \cup Delivers

FreqTypes ==
  /\ freq \in [Phones -> Nat]
  /\ left \cup unheard \cup ttl \cup stuck \subseteq Phones

CountTypes ==
  /\ copies \in Counts /\ reports \in Counts /\ extra \in Counts
  /\ charged \in Counts /\ refunded \in Counts /\ cuts \in Counts
  /\ refused \subseteq Msgs /\ unbilled \subseteq Msgs /\ since \in Nat

\* Lists, flags and tables hold what belongs there; the lists of three threads
\* never get an item of another kind (server.c:479-501, 562-607).
TypeOK ==
  FlagTypes /\ WorkTypes /\ DeliverTypes /\ ListTypes /\ StoreTypes /\ FreqTypes /\ CountTypes

\* A message is charged at most once, only if the scheduler has queued it, and
\* never if the account was told that it failed; it is queued once, and once
\* more for each request whose answer a reload lost (server.c:436-485 against
\* 213-230).
OneFate ==
  \A m \in Msgs :
    /\ charged[m] <= 1
    /\ charged[m] = 1 => copies[m] >= 1 /\ m \notin refused
    /\ copies[m] <= 1 + cuts[m]

\* Refunds (server.c:562-569) come one for each charge (479-485) at most, or
\* beside a charge the work thread is about to make, except for what is named
\* here: each request whose answer was lost, a charge that an exit forgot after
\* the answer, and each report that comes again or about another message, which
\* the deliver thread refunds once more.
RefundsCovered ==
  \A m \in Msgs :
    refunded[m] <= charged[m]
                   + (IF wmsg = m /\ wpc \in {"asked", "bill"} THEN 1 ELSE 0)
                   + cuts[m] + (IF m \in unbilled THEN 1 ELSE 0) + extra[m]

\* Once the stat thread has found the company without money (server.c:819), one
\* more message may be charged, the one the work thread had in hand when the
\* flag it tests at server.c:264 changed, and no other until the flag falls.
ArrearsStop == since <= 1

\* The status of a message in the database is that of its last report, if the
\* report came to the list after the message (server.c:487-501, 592-607) and
\* neither an exit nor the database lost one of them.
StatusKept ==
  \A m \in Msgs \ (overtaken \cup unsaved) : stored[m] # None => rows[m] = stored[m]

\* What the comment at server.c:592 says, once the work thread and the store
\* thread are done with the message: the report is in the database.
ReportStored ==
  \A m \in Msgs \ unsaved :
    stored[m] # None /\ wmsg # m /\ storage = <<>> => rows[m] = stored[m]

\* A number over the limit is let through again after a while, unless exit or
\* an error came between INCRBY and EXPIRE (server.c:1051-1060), which blocks
\* the number for ever.
LimitPasses ==
  \A p \in Phones : freq[p] > FreqLimit ~> (freq[p] = 0 \/ p \in stuck)

\* Who asks to be left alone is known to the filter in the end, if the process
\* lives, the option stays on, the text can be converted and the cache takes it
\* (server.c:641-665, 718-722, 776-812).
UnsubscribeKept ==
  []up => \A d \in Leaving \ Garbled :
    dpc = "forward" /\ ditem.of = d ~> Phone[d] \in left \cup unheard

=============================================================================
