------------------------------ MODULE Delivery ------------------------------
(***************************************************************************)
(* lamb-delivery (src/src/delivery.c): the process between the gateways    *)
(* and the servers.                                                        *)
(*                                                                         *)
(*  - A push thread for each gateway receives reports and messages of      *)
(*    subscribers.  A report belongs to an account; for a message the      *)
(*    thread walks along the routing list for the first expression that    *)
(*    matches.  It finds or creates the account's queue and appends; what  *)
(*    nobody is named for goes to the list `storage' and to the database.  *)
(*  - A pull thread for each server pops from the queue that it found, or  *)
(*    created, when it started.                                            *)
(*  - lamb_stat_loop polls a signal in the cache, reads it and resets it,  *)
(*    and reloads the routing list: it raises `sleeping', sleeps, removes  *)
(*    the nodes from the tail on, and appends the rows of the database.    *)
(*                                                                         *)
(* The push threads look at `sleeping' before they receive and the list is *)
(* walked, emptied and filled without its lock.  A thread that was already *)
(* receiving walks along a list that is being emptied, with a pointer to   *)
(* the next node in its iterator.                                          *)
(***************************************************************************)
EXTENDS Naturals, Sequences, FiniteSets

CONSTANTS
  Pushers,    \* push threads, one for a gateway
  Accounts,   \* accounts, each with a server that pulls
  Reports,    \* reports
  Delivers,   \* messages of subscribers
  Of,         \* Of[r]: the account of report r
  Code,       \* Code[d]: the number message d was sent to
  Tables,     \* what the table `delivery' of the database may hold
  Table0,     \* what it holds at the start
  Nobody,     \* no account
  None,       \* no item
  MaxChanges, \* bound: changes an administrator makes
  MaxPulls    \* bound: starts of pull threads

Items == Reports \cup Delivers
Codes == {Code[d] : d \in Delivers}
Route == [matches : SUBSET Codes, target : Accounts]

ASSUME DeliveryAssumption ==
  /\ Nobody \notin Accounts
  /\ None \notin Items
  /\ Reports \cap Delivers = {}
  /\ Of \in [Reports -> Accounts]
  /\ Code \in [Delivers -> Codes]
  /\ Tables \subseteq Seq(Route)
  /\ Table0 \in Tables \ {<<>>}
  /\ MaxChanges \in Nat /\ MaxPulls \in Nat

VARIABLES
  \* the push threads
  ppc,       \* where each is
  item,      \* the item in hand
  account,   \* the account found for it
  node,      \* the iterator: generation and place of the next node, 0 for NULL
  queue,     \* the place of the queue found, 0 for none
  \* the pull threads
  reader,    \* reader[a]: what the pull thread of a is doing
  mine,      \* mine[a]: the place of its queue
  pulls,     \* pull threads started
  \* shared lists
  pool,      \* the list of queues
  table,     \* the routing list
  gen,       \* how often the routing list was emptied: which nodes are allocated
  storage,   \* messages for nobody
  \* lamb_stat_loop
  sleeping,
  rpc,       \* where it is
  got,       \* the signal it has read
  rows,      \* what is left of the result of the query
  \* cache and database
  signal,    \* the field `signal' of delivery.1
  db,        \* the table `delivery'
  editing,   \* changes whose signal is not yet set
  changes,   \* changes made
  written,   \* messages for nobody in the message database
  \* gateways and servers
  todo,      \* items not yet sent to delivery
  taken,     \* taken[a]: items handed to the server of a
  \* history
  past,      \* routing lists that were in use, the empty one after a failure
  missed,    \* a signal was reset unread
  failed,    \* the last query failed
  during,    \* during[p]: items p has received since `sleeping' was raised
  overlap,   \* messages whose walk met a list that was being rebuilt
  torn       \* messages for which a node was read after it was freed

pushVars  == <<ppc, item, account, node, queue>>
pullVars  == <<reader, mine, pulls>>
statVars  == <<sleeping, rpc, got, rows>>
webVars   == <<db, editing, changes>>
history   == <<past, missed, failed, during, overlap, torn>>
vars == <<pushVars, pullVars, pool, table, gen, storage, statVars, signal,
          webVars, written, todo, taken, history>>

Init ==
  /\ ppc = [p \in Pushers |-> "off"]
  /\ item = [p \in Pushers |-> None]
  /\ account = [p \in Pushers |-> Nobody]
  /\ node = [p \in Pushers |-> <<0, 0>>]
  /\ queue = [p \in Pushers |-> 0]
  /\ reader = [a \in Accounts |-> "off"]
  /\ mine = [a \in Accounts |-> 0]
  /\ pulls = 0
  /\ pool = <<>>
  /\ db = Table0 /\ table = Table0
  /\ gen = 0 /\ storage = <<>>
  /\ sleeping = FALSE /\ rpc = "read" /\ got = 0 /\ rows = <<>>
  /\ signal = 0 /\ editing = 0 /\ changes = 0 /\ written = {}
  /\ todo = Items
  /\ taken = [a \in Accounts |-> {}]
  /\ past = {Table0} /\ missed = FALSE /\ failed = FALSE
  /\ during = [p \in Pushers |-> 0] /\ overlap = {} /\ torn = {}

-----------------------------------------------------------------------------
(* The list of queues *)

Places(list, a) == {k \in DOMAIN list : list[k].id = a}

\* Mutant: a search from the tail.
FindLast(list, a) ==
  IF Places(list, a) = {} THEN 0
  ELSE CHOOSE k \in Places(list, a) : \A j \in Places(list, a) : j <= k

\* lamb_list_find: the place of the first queue of a, 0 if there is none.
Find(list, a) ==
  IF Places(list, a) = {} THEN 0
  ELSE CHOOSE k \in Places(list, a) : \A j \in Places(list, a) : k <= j

WithQueue(a) == Append(pool, [id |-> a, items |-> <<>>])

-----------------------------------------------------------------------------
(* The push threads *)

\* A gateway connects: port, answer, and no queue yet.
PushStart(p) ==
  /\ ppc[p] = "off"
  /\ ppc' = [ppc EXCEPT ![p] = "test"]
  /\ UNCHANGED <<item, account, node, queue, pullVars, pool, table, gen, storage,
                 statVars, signal, webVars, written, todo, taken, history>>

\* Mutant: the flag is not looked at.
PushTestNot(p) ==
  /\ ppc[p] = "test"
  /\ ppc' = [ppc EXCEPT ![p] = "recv"]
  /\ UNCHANGED <<item, account, node, queue, pullVars, pool, table, gen, storage,
                 statVars, signal, webVars, written, todo, taken, history>>

PushTest(p) ==
  /\ ppc[p] = "test"
  /\ ~sleeping
  /\ ppc' = [ppc EXCEPT ![p] = "recv"]
  /\ UNCHANGED <<item, account, node, queue, pullVars, pool, table, gen, storage,
                 statVars, signal, webVars, written, todo, taken, history>>

\* The receive times out: with no connection the thread ends, otherwise it starts
\* over.  BYE ends it too.
PushIdle(p, ends) ==
  /\ ppc[p] = "recv"
  /\ ppc' = [ppc EXCEPT ![p] = IF ends THEN "off" ELSE "test"]
  /\ UNCHANGED <<item, account, node, queue, pullVars, pool, table, gen, storage,
                 statVars, signal, webVars, written, todo, taken, history>>

\* Where an iterator starts: at the head of the list, if it has one.
HeadOf == <<gen, IF table = <<>> THEN 0 ELSE 1>>

\* The routing list is being emptied or filled.
Rebuilding == rpc \in {"remove", "fill"}

\* A report or a message arrives; for a message an iterator is made.
PushRecv(p, x) ==
  /\ ppc[p] = "recv"
  /\ x \in todo
  /\ todo' = todo \ {x}
  /\ item' = [item EXCEPT ![p] = x]
  /\ during' = [during EXCEPT ![p] = IF sleeping THEN @ + 1 ELSE @]
  /\ IF x \in Reports
     THEN /\ account' = [account EXCEPT ![p] = Of[x]]
          /\ ppc' = [ppc EXCEPT ![p] = "find"]
          /\ UNCHANGED <<node, overlap>>
     ELSE /\ account' = [account EXCEPT ![p] = Nobody]
          /\ ppc' = [ppc EXCEPT ![p] = "walk"]
          /\ node' = [node EXCEPT ![p] = HeadOf]
          /\ overlap' = IF Rebuilding THEN overlap \cup {x} ELSE overlap
  /\ UNCHANGED <<queue, pullVars, pool, table, gen, storage, statVars, signal,
                 webVars, written, taken, past, missed, failed, torn>>

\* A node is allocated while the list of its generation still reaches it.
Allocated(n) == n[1] = gen /\ n[2] \in 1 .. Len(table)

\* One node of the walk.  The iterator moves on before the node is compared.
PushWalk(p) ==
  /\ ppc[p] = "walk"
  /\ Allocated(node[p])
  /\ LET k == node[p][2]
         r == table[k]
     IN IF Code[item[p]] \in r.matches
        THEN /\ account' = [account EXCEPT ![p] = r.target]
             /\ ppc' = [ppc EXCEPT ![p] = "find"]
             /\ UNCHANGED node
        ELSE /\ node' = [node EXCEPT ![p] = <<gen, IF k < Len(table) THEN k + 1 ELSE 0>>]
             /\ UNCHANGED <<account, ppc>>
  /\ UNCHANGED <<item, queue, pullVars, pool, table, gen, storage, statVars,
                 signal, webVars, written, todo, taken, history>>

\* The node was freed: whatever its memory holds now decides.
PushWalkFreed(p, a) ==
  /\ ppc[p] = "walk"
  /\ node[p][2] # 0 /\ ~Allocated(node[p])
  /\ account' = [account EXCEPT ![p] = a]
  /\ ppc' = [ppc EXCEPT ![p] = IF a = Nobody THEN "store" ELSE "find"]
  /\ torn' = torn \cup {item[p]}
  /\ UNCHANGED <<item, node, queue, pullVars, pool, table, gen, storage, statVars,
                 signal, webVars, written, todo, taken, past, missed, failed,
                 during, overlap>>

PushWalkEnd(p) ==
  /\ ppc[p] = "walk"
  /\ node[p][2] = 0
  /\ ppc' = [ppc EXCEPT ![p] = "store"]
  /\ UNCHANGED <<item, account, node, queue, pullVars, pool, table, gen, storage,
                 statVars, signal, webVars, written, todo, taken, history>>

PushFind(p) ==
  /\ ppc[p] = "find"
  /\ LET k == Find(pool, account[p]) IN
     /\ queue' = [queue EXCEPT ![p] = k]
     /\ ppc' = [ppc EXCEPT ![p] = IF k = 0 THEN "create" ELSE "push"]
  /\ UNCHANGED <<item, account, node, pullVars, pool, table, gen, storage, statVars,
                 signal, webVars, written, todo, taken, history>>

\* There was none when it looked.
PushCreate(p) ==
  /\ ppc[p] = "create"
  /\ pool' = WithQueue(account[p])
  /\ queue' = [queue EXCEPT ![p] = Len(pool) + 1]
  /\ ppc' = [ppc EXCEPT ![p] = "push"]
  /\ UNCHANGED <<item, account, node, pullVars, table, gen, storage, statVars,
                 signal, webVars, written, todo, taken, history>>

\* Back to the start with nothing in hand.
PushDone(p) ==
  /\ ppc' = [ppc EXCEPT ![p] = "test"]
  /\ item' = [item EXCEPT ![p] = None]
  /\ account' = [account EXCEPT ![p] = Nobody]
  /\ node' = [node EXCEPT ![p] = <<0, 0>>]
  /\ queue' = [queue EXCEPT ![p] = 0]

PushQueue(p) ==
  /\ ppc[p] = "push"
  /\ pool' = [pool EXCEPT ![queue[p]].items = Append(@, item[p])]
  /\ PushDone(p)
  /\ UNCHANGED <<pullVars, table, gen, storage, statVars, signal, webVars, written,
                 todo, taken, history>>

PushStore(p) ==
  /\ ppc[p] = "store"
  /\ storage' = Append(storage, item[p])
  /\ PushDone(p)
  /\ UNCHANGED <<pullVars, pool, table, gen, statVars, signal, webVars, written,
                 todo, taken, history>>

Push(p) ==
  \/ PushStart(p) \/ PushTest(p)
  \/ \E ends \in BOOLEAN : PushIdle(p, ends)
  \/ \E x \in Items : PushRecv(p, x)
  \/ PushWalk(p) \/ PushWalkEnd(p)
  \/ \E a \in Accounts \cup {Nobody} : PushWalkFreed(p, a)
  \/ PushFind(p) \/ PushCreate(p) \/ PushQueue(p) \/ PushStore(p)

-----------------------------------------------------------------------------
(* The pull threads, and the thread that writes messages for nobody *)

\* A server connects.  (The main thread waits for the new thread to answer, but
\* for three seconds at most.)
PullStart(a) ==
  /\ reader[a] = "off"
  /\ pulls < MaxPulls
  /\ reader' = [reader EXCEPT ![a] = "find"]
  /\ pulls' = pulls + 1
  /\ UNCHANGED <<pushVars, mine, pool, table, gen, storage, statVars, signal,
                 webVars, written, todo, taken, history>>

PullFind(a) ==
  /\ reader[a] = "find"
  /\ LET k == Find(pool, a) IN
     /\ mine' = [mine EXCEPT ![a] = k]
     /\ reader' = [reader EXCEPT ![a] = IF k = 0 THEN "create" ELSE "serve"]
  /\ UNCHANGED <<pushVars, pulls, pool, table, gen, storage, statVars, signal,
                 webVars, written, todo, taken, history>>

\* Mutant: the place after the new queue.
PullCreatePast(a) ==
  /\ reader[a] = "create"
  /\ pool' = WithQueue(a)
  /\ mine' = [mine EXCEPT ![a] = Len(pool) + 2]
  /\ reader' = [reader EXCEPT ![a] = "serve"]
  /\ UNCHANGED <<pushVars, pulls, table, gen, storage, statVars, signal, webVars,
                 written, todo, taken, history>>

PullCreate(a) ==
  /\ reader[a] = "create"
  /\ pool' = WithQueue(a)
  /\ mine' = [mine EXCEPT ![a] = Len(pool) + 1]
  /\ reader' = [reader EXCEPT ![a] = "serve"]
  /\ UNCHANGED <<pushVars, pulls, table, gen, storage, statVars, signal, webVars,
                 written, todo, taken, history>>

\* REQ: the head of the queue goes out, or is lost with the connection.
Pull(a, arrives) ==
  /\ reader[a] = "serve"
  /\ pool[mine[a]].items # <<>>
  /\ taken' = [taken EXCEPT ![a] =
                 IF arrives THEN @ \cup {Head(pool[mine[a]].items)} ELSE @]
  /\ pool' = [pool EXCEPT ![mine[a]].items = Tail(@)]
  /\ UNCHANGED <<pushVars, pullVars, table, gen, storage, statVars, signal, webVars,
                 written, todo, history>>

\* BYE, or a receive that timed out without a connection.
PullExit(a) ==
  /\ reader[a] = "serve"
  /\ reader' = [reader EXCEPT ![a] = "off"]
  /\ mine' = [mine EXCEPT ![a] = 0]
  /\ UNCHANGED <<pushVars, pulls, pool, table, gen, storage, statVars, signal,
                 webVars, written, todo, taken, history>>

\* The row may be refused: encoding, empty text, database.
WriteDeliver(d, done) == written' = IF done THEN written \cup {d} ELSE written

\* Whatever became of the row, the message is freed.
StoreWrite(done) ==
  /\ storage # <<>>
  /\ storage' = Tail(storage)
  /\ WriteDeliver(Head(storage), done)
  /\ UNCHANGED <<pushVars, pullVars, pool, table, gen, statVars, signal, webVars,
                 todo, taken, history>>

-----------------------------------------------------------------------------
(* lamb_stat_loop and lamb_reload *)

\* lamb_check_signal: HGET ...
StatRead ==
  /\ rpc = "read"
  /\ got' = signal
  /\ rpc' = "clear"
  /\ UNCHANGED <<pushVars, pullVars, pool, table, gen, storage, sleeping, rows,
                 signal, webVars, written, todo, taken, history>>

\* ... and HSET 0, whatever the field holds by now.
StatClear ==
  /\ rpc = "clear"
  /\ signal' = 0
  /\ missed' = IF got = 0 /\ signal = 1 THEN TRUE ELSE missed
  /\ rpc' = IF ~sleeping /\ got = 1 THEN "raise" ELSE "read"
  /\ UNCHANGED <<pushVars, pullVars, pool, table, gen, storage, sleeping, got, rows,
                 webVars, written, todo, taken, past, failed, during, overlap, torn>>

\* `sleeping' is raised, and three seconds pass.
ReloadRaise ==
  /\ rpc = "raise"
  /\ sleeping' = TRUE
  /\ rpc' = "remove"
  /\ during' = [p \in Pushers |-> 0]
  /\ overlap' = overlap \cup {item[p] : p \in {q \in Pushers : ppc[q] = "walk"}}
  /\ UNCHANGED <<pushVars, pullVars, pool, table, gen, storage, got, rows, signal,
                 webVars, written, todo, taken, past, missed, failed, torn>>

\* Mutant: the nodes are removed from the head on.
ReloadRemoveHead ==
  /\ rpc = "remove"
  /\ table # <<>>
  /\ table' = Tail(table)
  /\ UNCHANGED <<pushVars, pullVars, pool, gen, storage, statVars, signal, webVars,
                 written, todo, taken, history>>

\* The last node is taken out of the list and freed.
ReloadRemove ==
  /\ rpc = "remove"
  /\ table # <<>>
  /\ table' = SubSeq(table, 1, Len(table) - 1)
  /\ UNCHANGED <<pushVars, pullVars, pool, gen, storage, statVars, signal, webVars,
                 written, todo, taken, history>>

\* The list is empty: the table is read, or that fails, or it has no rows.
ReloadQuery(done) ==
  /\ rpc = "remove"
  /\ table = <<>>
  /\ gen' = gen + 1
  /\ rows' = IF done THEN db ELSE <<>>
  /\ failed' = ~done
  /\ missed' = IF done THEN FALSE ELSE missed
  /\ past' = past \cup {IF done THEN db ELSE <<>>}
  /\ rpc' = "fill"
  /\ UNCHANGED <<pushVars, pullVars, pool, table, storage, sleeping, got, signal,
                 webVars, written, todo, taken, during, overlap, torn>>

ReloadFill ==
  /\ rpc = "fill"
  /\ rows # <<>>
  /\ table' = Append(table, Head(rows))
  /\ rows' = Tail(rows)
  /\ UNCHANGED <<pushVars, pullVars, pool, gen, storage, sleeping, rpc, got, signal,
                 webVars, written, todo, taken, history>>

\* Mutant: the signal is reset once more, at the end.
ReloadDoneClears ==
  /\ rpc = "fill"
  /\ rows = <<>>
  /\ sleeping' = FALSE
  /\ signal' = 0
  /\ rpc' = "read"
  /\ UNCHANGED <<pushVars, pullVars, pool, table, gen, storage, got, rows,
                 webVars, written, todo, taken, history>>

ReloadDone ==
  /\ rpc = "fill"
  /\ rows = <<>>
  /\ sleeping' = FALSE
  /\ rpc' = "read"
  /\ UNCHANGED <<pushVars, pullVars, pool, table, gen, storage, got, rows, signal,
                 webVars, written, todo, taken, history>>

Stat ==
  \/ StatRead \/ StatClear \/ ReloadRaise \/ ReloadRemove
  \/ (\E done \in BOOLEAN : ReloadQuery(done)) \/ ReloadFill \/ ReloadDone

-----------------------------------------------------------------------------
(* The administration pages (web/app/models/Delivery.php): first the row, then *)
(* the signal. *)

WebChange(t) ==
  /\ changes < MaxChanges
  /\ t # db
  /\ db' = t
  /\ changes' = changes + 1
  /\ editing' = editing + 1
  /\ UNCHANGED <<pushVars, pullVars, pool, table, gen, storage, statVars, signal,
                 written, todo, taken, history>>

WebSignal ==
  /\ editing > 0
  /\ editing' = editing - 1
  /\ signal' = 1
  /\ UNCHANGED <<pushVars, pullVars, pool, table, gen, storage, statVars, db,
                 changes, written, todo, taken, history>>

-----------------------------------------------------------------------------
Next ==
  \/ \E p \in Pushers : Push(p)
  \/ \E a \in Accounts :
       \/ PullStart(a) \/ PullFind(a) \/ PullCreate(a) \/ PullExit(a)
       \/ \E arrives \in BOOLEAN : Pull(a, arrives)
  \/ \E done \in BOOLEAN : StoreWrite(done)
  \/ Stat
  \/ \E t \in Tables : WebChange(t)
  \/ WebSignal

Spec == Init /\ [][Next]_vars

-----------------------------------------------------------------------------
(* Properties *)

PushTypes ==
  /\ ppc \in [Pushers -> {"off", "test", "recv", "walk", "find", "create", "push",
                          "store"}]
  /\ item \in [Pushers -> Items \cup {None}]
  /\ account \in [Pushers -> Accounts \cup {Nobody}]
  /\ node \in [Pushers -> Nat \X Nat]
  /\ queue \in [Pushers -> 0 .. Len(pool)]
  /\ todo \subseteq Items
  /\ during \in [Pushers -> Nat]
  /\ overlap \subseteq Delivers /\ torn \subseteq Delivers

PullTypes ==
  /\ reader \in [Accounts -> {"off", "find", "create", "serve"}]
  /\ mine \in [Accounts -> 0 .. Len(pool)]
  /\ pulls \in Nat
  /\ taken \in [Accounts -> SUBSET Items]

QueueTypes ==
  /\ pool \in Seq([id : Accounts, items : Seq(Items)])
  /\ storage \in Seq(Delivers) /\ written \subseteq Delivers

RouteTypes ==
  /\ table \in Seq(Route) /\ rows \in Seq(Route) /\ gen \in Nat
  /\ sleeping \in BOOLEAN /\ missed \in BOOLEAN /\ failed \in BOOLEAN
  /\ rpc \in {"read", "clear", "raise", "remove", "fill"}
  /\ got \in {0, 1} /\ signal \in {0, 1}
  /\ db \in Tables /\ editing \in Nat /\ changes \in Nat
  /\ past \subseteq Tables \cup {<<>>}

\* Threads, iterators and lists are what they should be: a thread that is about
\* to push or to pop has a queue of the list.
TypeOK == PushTypes /\ PullTypes /\ QueueTypes /\ RouteTypes

\* Each push thread receives at most one item while a reload is going on: the
\* one it was waiting for when `sleeping' was raised (delivery.c:381-386, 309).
OneItemEach == sleeping => \A p \in Pushers : during[p] <= 1

\* The account a routing list names for message d, Nobody if there is none.
Named(t, d) ==
  LET hits == {k \in DOMAIN t : Code[d] \in t[k].matches} IN
  IF hits = {} THEN Nobody
  ELSE t[CHOOSE k \in hits : \A j \in hits : k <= j].target

InQueue(a) == UNION {{pool[k].items[j] : j \in DOMAIN pool[k].items} :
                       k \in Places(pool, a)}
Unrouted == {storage[k] : k \in DOMAIN storage} \cup written

\* An account gets its own reports, and a message only if a routing list that was
\* in use names it for that message: a list half emptied or half filled names
\* nobody instead, but never somebody else, since it is emptied from its tail on
\* (delivery.c:315-320) and filled in order.  The exception is a thread that read
\* a node after it was freed.
RightAccount ==
  /\ \A a \in Accounts : \A x \in InQueue(a) \cup taken[a] :
       IF x \in Reports THEN Of[x] = a
       ELSE x \in torn \/ \E t \in past : Named(t, x) = a
  /\ \A x \in Unrouted : x \in overlap \/ \E t \in past : Named(t, x) = Nobody

\* When lamb_stat_loop has nothing to do, the routing list is that of the
\* database, unless a signal came between HGET and HSET (delivery.c:877-888) or
\* the query failed: no other order of changes, signals and reloads loses a
\* change.
ListCurrent ==
  rpc = "read" /\ signal = 0 /\ editing = 0 => table = db \/ missed \/ failed

\* Two threads may find no queue for an account and create one each
\* (delivery.c:412-421, 484-492, 539-548).  A push thread misplaces one item at
\* most: whatever is pushed later finds the first queue.
SecondQueueSmall ==
  \A k \in DOMAIN pool : Find(pool, pool[k].id) # k => Len(pool[k].items) <= 1

=============================================================================
