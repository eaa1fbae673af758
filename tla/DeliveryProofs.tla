--------------------------- MODULE DeliveryProofs ---------------------------
(***************************************************************************)
(* Proofs about Delivery, for any number of gateways, accounts, items and  *)
(* routes: its type invariant, what a reload lets through, the routing     *)
(* list after a reload, who gets what, and the second queue of an account. *)
(***************************************************************************)
EXTENDS Delivery, SequenceTheorems, WellFoundedInduction, TLAPS

-----------------------------------------------------------------------------
(* Searching *)

\* A set of numbers that is not empty has a least element.
LEMMA LeastExists ==
  ASSUME NEW T \in SUBSET Nat, T # {}
  PROVE  \E k \in T : \A j \in T : k <= j
<1> DEFINE R == {e \in Nat \X Nat : e[1] < e[2]}
<1>1. IsWellFoundedOn(R, Nat)
  BY NatLessThanWellFounded DEF OpToRel
<1>2. \E k \in T : \A j \in T : <<j, k>> \notin R
  <2> HIDE DEF R
  <2> QED BY <1>1, WFMin
<1>3. PICK k \in T : \A j \in T : <<j, k>> \notin R
  BY <1>2
<1>4. ASSUME NEW j \in T PROVE k <= j
  <2>1. <<j, k>> \in Nat \X Nat /\ ~(<<j, k>>[1] < <<j, k>>[2])
    BY <1>3
  <2> QED BY <2>1
<1> QED BY <1>3, <1>4

Queues == [id : Accounts, items : Seq(Items)]

\* Find returns the first queue of an account, or 0 if there is none.
LEMMA FindWorks ==
  ASSUME NEW list \in Seq(Queues), NEW a
  PROVE  \/ /\ Find(list, a) = 0
            /\ \A k \in DOMAIN list : list[k].id # a
         \/ /\ Find(list, a) \in DOMAIN list
            /\ list[Find(list, a)].id = a
            /\ \A k \in DOMAIN list : list[k].id = a => Find(list, a) <= k
<1>1. CASE Places(list, a) = {}
  BY <1>1 DEF Find, Places
<1>2. CASE Places(list, a) # {}
  <2>1. Places(list, a) \in SUBSET Nat
    BY DEF Places
  <2>2. \E k \in Places(list, a) : \A j \in Places(list, a) : k <= j
    BY <1>2, <2>1, LeastExists
  <2>3. /\ Find(list, a) \in Places(list, a)
        /\ \A j \in Places(list, a) : Find(list, a) <= j
    BY <1>2, <2>2 DEF Find
  <2> QED BY <2>3 DEF Places
<1> QED BY <1>1, <1>2

-----------------------------------------------------------------------------
(* Type correctness *)

\* The locals of a thread are set when they are used.
PushLocals ==
  \A p \in Pushers :
    /\ ppc[p] \in {"walk", "store"} => item[p] \in Delivers
    /\ ppc[p] \in {"find", "create", "push"} => item[p] \in Items /\ account[p] \in Accounts
    /\ ppc[p] = "push" => queue[p] # 0

PullLocals == \A a \in Accounts : reader[a] = "serve" => mine[a] # 0

TypeInv == TypeOK /\ PushLocals /\ PullLocals

\* Initially all is well typed.
LEMMA TypeInit == Init => TypeInv
<1> SUFFICES ASSUME Init PROVE TypeInv
  OBVIOUS
<1>1. QueueTypes
  BY DEF Init, QueueTypes
<1>2. RouteTypes
  <2>1. Table0 \in Tables /\ Table0 \in Seq(Route)
    BY DeliveryAssumption
  <2>2. <<>> \in Seq(Route)
    OBVIOUS
  <2> QED BY <2>1, <2>2 DEF Init, RouteTypes
<1>3. PushTypes /\ PushLocals
  BY DEF Init, PushTypes, PushLocals
<1>4. PullTypes /\ PullLocals
  BY DEF Init, PullTypes, PullLocals
<1> QED BY <1>1, <1>2, <1>3, <1>4 DEF TypeInv, TypeOK

\* A new queue is put at the end of the list.
LEMMA WithQueueType ==
  ASSUME QueueTypes, NEW a \in Accounts
  PROVE  /\ WithQueue(a) \in Seq(Queues)
         /\ Len(WithQueue(a)) = Len(pool) + 1
         /\ \A k \in DOMAIN pool : WithQueue(a)[k] = pool[k]
         /\ WithQueue(a)[Len(pool) + 1] = [id |-> a, items |-> <<>>]
<1>1. pool \in Seq(Queues)
  BY DEF QueueTypes, Queues
<1>2. [id |-> a, items |-> <<>>] \in Queues
  BY DEF Queues
<1> HIDE DEF Queues
<1> QED BY <1>1, <1>2 DEF WithQueue

\* What Find returns is a place of the list or 0.
LEMMA FindRange ==
  ASSUME NEW list \in Seq(Queues), NEW a
  PROVE  Find(list, a) \in 0 .. Len(list)
<1>1. Find(list, a) = 0 \/ Find(list, a) \in DOMAIN list
  BY FindWorks
<1> HIDE DEF Queues
<1> QED BY <1>1

\* The queues of the list.
LEMMA PoolType ==
  ASSUME QueueTypes
  PROVE  /\ pool \in Seq(Queues)
         /\ \A k \in DOMAIN pool : /\ pool[k] \in Queues
                                   /\ pool[k].id \in Accounts
                                   /\ pool[k].items \in Seq(Items)
<1>1. pool \in Seq(Queues)
  BY DEF QueueTypes, Queues
<1>2. \A k \in DOMAIN pool : pool[k] \in Queues
  BY <1>1
<1> QED BY <1>1, <1>2 DEF Queues

\* A queue with an item more.
LEMMA QueueAppend ==
  ASSUME NEW q \in Queues, NEW s \in Seq(Items)
  PROVE  LET r == [q EXCEPT !.items = s]
         IN  r \in Queues /\ r.id = q.id /\ r.items = s
  BY DEF Queues

\* A list that differs from the list of queues in the items of queue k.
Changed(list, k, s) ==
  /\ list \in Seq(Queues) /\ Len(list) = Len(pool)
  /\ \A j \in DOMAIN pool : list[j].id = pool[j].id
  /\ list[k].items = s
  /\ \A j \in DOMAIN pool \ {k} : list[j] = pool[j]

\* One queue of the list is changed.
LEMMA PoolExcept ==
  ASSUME QueueTypes, NEW k \in DOMAIN pool, NEW s \in Seq(Items)
  PROVE  Changed([pool EXCEPT ![k] = [pool[k] EXCEPT !.items = s]], k, s)
<1> DEFINE q == [pool[k] EXCEPT !.items = s]
           list == [pool EXCEPT ![k] = q]
<1>1. pool \in Seq(Queues) /\ pool[k] \in Queues
  BY PoolType
<1>2. q \in Queues /\ q.id = pool[k].id /\ q.items = s
  BY <1>1, QueueAppend
<1> SUFFICES Changed(list, k, s)
  OBVIOUS
<1> HIDE DEF q, Queues
<1>3. list \in Seq(Queues) /\ Len(list) = Len(pool)
  BY <1>1, <1>2, ExceptSeq
<1>4. list[k] = q /\ \A j \in DOMAIN pool \ {k} : list[j] = pool[j]
  BY <1>1
<1> HIDE DEF list
<1> QED BY <1>2, <1>3, <1>4 DEF Changed

\* An item is put at the end of a queue.
LEMMA AppendType ==
  ASSUME QueueTypes, NEW k \in DOMAIN pool, NEW x \in Items,
         pool' = [pool EXCEPT ![k].items = Append(@, x)]
  PROVE  Changed(pool', k, Append(pool[k].items, x))
<1> DEFINE s == Append(pool[k].items, x)
<1>1. s \in Seq(Items)
  BY PoolType
<1>2. pool' = [pool EXCEPT ![k] = [pool[k] EXCEPT !.items = s]]
  OBVIOUS
<1> HIDE DEF s
<1>3. Changed([pool EXCEPT ![k] = [pool[k] EXCEPT !.items = s]], k, s)
  BY <1>1, PoolExcept
<1> QED BY <1>2, <1>3 DEF s

\* The head of a queue is taken away.
LEMMA TailType ==
  ASSUME QueueTypes, NEW k \in DOMAIN pool, pool[k].items # <<>>,
         pool' = [pool EXCEPT ![k].items = Tail(@)]
  PROVE  Changed(pool', k, Tail(pool[k].items))
<1> DEFINE s == Tail(pool[k].items)
<1>1. s \in Seq(Items)
  BY PoolType
<1>2. pool' = [pool EXCEPT ![k] = [pool[k] EXCEPT !.items = s]]
  OBVIOUS
<1> HIDE DEF s
<1>3. Changed([pool EXCEPT ![k] = [pool[k] EXCEPT !.items = s]], k, s)
  BY <1>1, PoolExcept
<1> QED BY <1>2, <1>3 DEF s

\* The steps of a push thread that leave the list of queues alone keep the types.
LEMMA TypePushWalk ==
  ASSUME TypeInv, NEW p \in Pushers, Push(p), ~PushCreate(p), ~PushQueue(p), ~PushStore(p)
  PROVE  TypeInv'
<1>1. PullTypes' /\ PullLocals' /\ QueueTypes' /\ RouteTypes'
  BY DEF TypeInv, TypeOK, PullTypes, PullLocals, QueueTypes, RouteTypes, Push, PushStart,
         PushTest, PushIdle, PushRecv, PushWalk, PushWalkEnd, PushWalkFreed, PushFind,
         pullVars, statVars, webVars, history
<1> SUFFICES PushTypes' /\ PushLocals'
  BY <1>1 DEF TypeInv, TypeOK
<1>2. /\ table \in Seq(Route) /\ gen \in Nat
      /\ pool \in Seq(Queues)
  BY DEF TypeInv, TypeOK, RouteTypes, QueueTypes, Queues
<1>3. PushTypes /\ PushLocals
  BY DEF TypeInv, TypeOK
<1> USE <1>3 DEF PushTypes, PushLocals, history
<1>4. CASE PushStart(p)
  BY <1>4 DEF PushStart
<1>5. CASE PushTest(p)
  BY <1>5 DEF PushTest
<1>6. ASSUME NEW ends \in BOOLEAN, PushIdle(p, ends) PROVE PushTypes' /\ PushLocals'
  BY <1>6 DEF PushIdle
<1>7. ASSUME NEW x \in Items, PushRecv(p, x) PROVE PushTypes' /\ PushLocals'
  <2>1. HeadOf \in Nat \X Nat
    BY <1>2 DEF HeadOf
  <2>4. during' \in [Pushers -> Nat]
    BY <1>7 DEF PushRecv
  <2>2. CASE x \in Reports
    <3>1. Of[x] \in Accounts
      BY <2>2, DeliveryAssumption
    <3>2. /\ ppc' = [ppc EXCEPT ![p] = "find"]
          /\ item' = [item EXCEPT ![p] = x]
          /\ account' = [account EXCEPT ![p] = Of[x]]
          /\ todo' = todo \ {x}
          /\ UNCHANGED <<node, queue, pool, overlap, torn>>
      BY <1>7, <2>2 DEF PushRecv
    <3> QED BY <2>4, <3>1, <3>2
  <2>3. CASE x \notin Reports
    <3>1. x \in Delivers
      BY <2>3 DEF Items
    <3>2. /\ ppc' = [ppc EXCEPT ![p] = "walk"]
          /\ item' = [item EXCEPT ![p] = x]
          /\ account' = [account EXCEPT ![p] = Nobody]
          /\ node' = [node EXCEPT ![p] = HeadOf]
          /\ todo' = todo \ {x}
          /\ overlap' = IF Rebuilding THEN overlap \cup {x} ELSE overlap
          /\ UNCHANGED <<queue, pool, torn>>
      BY <1>7, <2>3 DEF PushRecv
    <3> QED BY <2>1, <2>4, <3>1, <3>2
  <2> QED BY <2>2, <2>3
<1>8. CASE PushWalk(p)
  <2>1. node[p][2] \in 1 .. Len(table)
    BY <1>8 DEF PushWalk, Allocated
  <2>2. table[node[p][2]].target \in Accounts
    <3>1. table[node[p][2]] \in Route
      BY <1>2, <2>1
    <3> QED BY <3>1 DEF Route
  <2>3. item[p] \in Items
    BY <1>8 DEF PushWalk, Items
  <2>4. CASE Code[item[p]] \in table[node[p][2]].matches
    BY <1>8, <2>2, <2>3, <2>4 DEF PushWalk
  <2>5. CASE Code[item[p]] \notin table[node[p][2]].matches
    <3>1. <<gen, IF node[p][2] < Len(table) THEN node[p][2] + 1 ELSE 0>> \in Nat \X Nat
      BY <1>2, <2>1
    <3>2. node' = [node EXCEPT ![p] =
                     <<gen, IF node[p][2] < Len(table) THEN node[p][2] + 1 ELSE 0>>]
      BY <1>8, <2>5 DEF PushWalk
    <3>3. UNCHANGED <<ppc, item, account, queue, pool, todo, during, overlap, torn>>
      BY <1>8, <2>5 DEF PushWalk
    <3> QED BY <3>1, <3>2, <3>3
  <2> QED BY <2>4, <2>5
<1>9. CASE PushWalkEnd(p)
  BY <1>9 DEF PushWalkEnd
<1>10. ASSUME NEW a \in Accounts \cup {Nobody}, PushWalkFreed(p, a)
       PROVE  PushTypes' /\ PushLocals'
  <2>1. item[p] \in Items
    BY <1>10 DEF PushWalkFreed, Items
  <2> QED BY <1>10, <2>1, SMTT(30) DEF PushWalkFreed
<1>11. CASE PushFind(p)
  <2>1. Find(pool, account[p]) \in 0 .. Len(pool)
    BY <1>2, FindRange
  <2> QED BY <1>11, <2>1 DEF PushFind
<1> QED BY <1>4, <1>5, <1>6, <1>7, <1>8, <1>9, <1>10, <1>11 DEF Push

\* If the list of queues grows by one or stays as long, places in it remain places.
LEMMA TypePushQueues ==
  ASSUME TypeInv, NEW p \in Pushers, PushCreate(p) \/ PushQueue(p) \/ PushStore(p)
  PROVE  TypeInv'
<1>1. RouteTypes'
  BY DEF TypeInv, TypeOK, RouteTypes, PushCreate, PushQueue, PushStore, statVars, webVars,
         history
<1>2. QueueTypes /\ PushTypes /\ PushLocals /\ PullTypes /\ PullLocals
  BY DEF TypeInv, TypeOK
<1>3. pool' \in Seq(Queues) /\ (Len(pool') = Len(pool) \/ Len(pool') = Len(pool) + 1)
  <2>1. CASE PushCreate(p)
    <3>1. account[p] \in Accounts
      BY <1>2, <2>1 DEF PushCreate, PushLocals
    <3> QED BY <1>2, <2>1, <3>1, WithQueueType DEF PushCreate
  <2>2. CASE PushQueue(p)
    <3>1. queue[p] \in DOMAIN pool /\ item[p] \in Items
      <4>1. pool \in Seq(Queues)
        BY <1>2, PoolType
      <4>2. queue[p] \in 1 .. Len(pool) /\ item[p] \in Items
        BY <1>2, <2>2 DEF PushQueue, PushLocals, PushTypes
      <4> QED BY <4>1, <4>2
    <3>2. pool' = [pool EXCEPT ![queue[p]].items = Append(@, item[p])]
      BY <2>2 DEF PushQueue
    <3>3. pool' \in Seq(Queues) /\ Len(pool') = Len(pool)
      BY <1>2, <3>1, <3>2, AppendType DEF Changed
    <3> QED BY <3>3
  <2>3. CASE PushStore(p)
    BY <1>2, <2>3, PoolType DEF PushStore
  <2> QED BY <2>1, <2>2, <2>3
<1>4. pool \in Seq(Queues)
  BY <1>2, PoolType
<1>5. Len(pool) \in Nat /\ Len(pool') \in Nat
  BY <1>3, <1>4
<1>6. QueueTypes'
  <2>1. storage' \in Seq(Delivers) /\ written' \subseteq Delivers
    <3>1. CASE PushStore(p)
      BY <1>2, <3>1 DEF PushStore, PushLocals, QueueTypes
    <3>2. CASE ~PushStore(p)
      BY <1>2, <3>2 DEF PushCreate, PushQueue, QueueTypes
    <3> QED BY <3>1, <3>2
  <2> QED BY <1>3, <2>1 DEF QueueTypes, Queues
<1>7. PullTypes' /\ PullLocals'
  BY <1>2, <1>3, <1>5 DEF PullTypes, PullLocals, PushCreate, PushQueue, PushStore, pullVars
<1>8. PushTypes' /\ PushLocals'
  <2>1. CASE PushCreate(p)
    <3>1. Len(pool') = Len(pool) + 1
      BY <1>2, <2>1, WithQueueType DEF PushCreate, PushLocals
    <3> QED BY <1>2, <1>5, <2>1, <3>1 DEF PushTypes, PushLocals, PushCreate, history
  <2>2. CASE PushQueue(p) \/ PushStore(p)
    <3>1. PushDone(p) /\ UNCHANGED <<todo, during, overlap, torn>>
      BY <2>2 DEF PushQueue, PushStore, history
    <3>2. queue' \in [Pushers -> 0 .. Len(pool')]
      BY <1>2, <1>3, <1>5, <3>1 DEF PushTypes, PushDone
    <3>3. node' \in [Pushers -> Nat \X Nat]
      BY <1>2, <3>1 DEF PushTypes, PushDone
    <3> QED BY <1>2, <3>1, <3>2, <3>3 DEF PushTypes, PushLocals, PushDone
  <2> QED BY <2>1, <2>2
<1> QED BY <1>1, <1>6, <1>7, <1>8 DEF TypeInv, TypeOK

\* A step of a pull thread keeps the types.
LEMMA TypePull ==
  ASSUME TypeInv, NEW a \in Accounts,
         \/ PullStart(a) \/ PullFind(a) \/ PullCreate(a) \/ PullExit(a)
         \/ \E arrives \in BOOLEAN : Pull(a, arrives)
  PROVE  TypeInv'
<1>1. RouteTypes'
  BY DEF TypeInv, TypeOK, RouteTypes, PullStart, PullFind, PullCreate, PullExit, Pull,
         statVars, webVars, history
<1>2. QueueTypes /\ PushTypes /\ PushLocals /\ PullTypes /\ PullLocals
  BY DEF TypeInv, TypeOK
<1>3. pool \in Seq(Queues) /\ Len(pool) \in Nat
  BY <1>2, PoolType
<1>4. CASE PullStart(a) \/ PullExit(a)
  <2>1. PushTypes' /\ PushLocals' /\ QueueTypes'
    BY <1>2, <1>4 DEF PushTypes, PushLocals, QueueTypes, PullStart, PullExit, pushVars, history
  <2>2. CASE PullStart(a)
    BY <1>1, <1>2, <2>1, <2>2 DEF PullTypes, PullLocals, PullStart, TypeInv, TypeOK
  <2>3. CASE PullExit(a)
    BY <1>1, <1>2, <1>3, <2>1, <2>3 DEF PullTypes, PullLocals, PullExit, TypeInv, TypeOK
  <2> QED BY <1>4, <2>2, <2>3
<1>5. CASE PullFind(a)
  <2>1. PushTypes' /\ PushLocals' /\ QueueTypes'
    BY <1>2, <1>5 DEF PushTypes, PushLocals, QueueTypes, PullFind, pushVars, history
  <2>2. Find(pool, a) \in 0 .. Len(pool)
    BY <1>3, FindRange
  <2>3. PullTypes' /\ PullLocals'
    BY <1>2, <1>5, <2>2 DEF PullTypes, PullLocals, PullFind
  <2> QED BY <1>1, <2>1, <2>3 DEF TypeInv, TypeOK
<1>6. CASE PullCreate(a)
  <2>1. pool' \in Seq(Queues) /\ Len(pool') = Len(pool) + 1
    BY <1>2, <1>6, WithQueueType DEF PullCreate
  <2>2. QueueTypes'
    BY <1>2, <1>6, <2>1 DEF QueueTypes, PullCreate, Queues
  <2>3. PushTypes' /\ PushLocals'
    BY <1>2, <1>3, <1>6, <2>1 DEF PushTypes, PushLocals, PullCreate, pushVars, history
  <2>4. PullTypes' /\ PullLocals'
    BY <1>2, <1>3, <1>6, <2>1 DEF PullTypes, PullLocals, PullCreate
  <2> QED BY <1>1, <2>2, <2>3, <2>4 DEF TypeInv, TypeOK
<1>7. ASSUME NEW arrives \in BOOLEAN, Pull(a, arrives) PROVE TypeInv'
  <2> DEFINE k == mine[a]
  <2>1. k \in DOMAIN pool
    <3>1. k \in 1 .. Len(pool)
      BY <1>2, <1>7 DEF Pull, PullTypes, PullLocals
    <3> QED BY <1>3, <3>1
  <2>2. pool[k].items \in Seq(Items) /\ pool[k].items # <<>>
    BY <1>2, <1>7, <2>1, PoolType DEF Pull
  <2>3. Head(pool[k].items) \in Items /\ Tail(pool[k].items) \in Seq(Items)
    BY <2>2
  <2>4. pool' \in Seq(Queues) /\ Len(pool') = Len(pool)
    BY <1>2, <1>7, <2>1, <2>2, TailType DEF Pull, Changed
  <2>5. QueueTypes'
    BY <1>2, <1>7, <2>4 DEF QueueTypes, Pull, Queues
  <2>6. PushTypes' /\ PushLocals'
    BY <1>2, <1>7, <2>4 DEF PushTypes, PushLocals, Pull, pushVars, history
  <2>7. PullTypes' /\ PullLocals'
    <3>1. taken' \in [Accounts -> SUBSET Items]
      BY <1>2, <1>7, <2>3 DEF PullTypes, Pull
    <3> QED BY <1>2, <1>7, <2>4, <3>1 DEF PullTypes, PullLocals, Pull, pullVars
  <2> QED BY <1>1, <2>5, <2>6, <2>7 DEF TypeInv, TypeOK
<1> QED BY <1>4, <1>5, <1>6, <1>7

\* The storage thread, lamb_stat_loop and the pages keep the types.
LEMMA TypeRest ==
  ASSUME TypeInv,
         \/ \E done \in BOOLEAN : StoreWrite(done)
         \/ Stat
         \/ \E t \in Tables : WebChange(t)
         \/ WebSignal
  PROVE  TypeInv'
<1>1. QueueTypes /\ PushTypes /\ PushLocals /\ PullTypes /\ PullLocals /\ RouteTypes
  BY DEF TypeInv, TypeOK
<1>2. ASSUME NEW done \in BOOLEAN, StoreWrite(done) PROVE TypeInv'
  <2>1. Head(storage) \in Delivers /\ Tail(storage) \in Seq(Delivers)
    BY <1>1, <1>2 DEF StoreWrite, WriteDeliver, QueueTypes
  <2>2. QueueTypes'
    BY <1>1, <1>2, <2>1 DEF StoreWrite, WriteDeliver, QueueTypes
  <2>3. PushTypes' /\ PushLocals' /\ PullTypes' /\ PullLocals' /\ RouteTypes'
    BY <1>1, <1>2 DEF StoreWrite, WriteDeliver, PushTypes, PushLocals, PullTypes, PullLocals,
                      RouteTypes, pushVars, pullVars, statVars, webVars, history
  <2> QED BY <2>2, <2>3 DEF TypeInv, TypeOK
<1>3. CASE Stat \/ (\E t \in Tables : WebChange(t)) \/ WebSignal
  <2> USE DEF pushVars, pullVars, statVars, webVars, history
  <2>1. PullTypes' /\ PullLocals' /\ QueueTypes'
    BY <1>1, <1>3 DEF PullTypes, PullLocals, QueueTypes, Stat, StatRead, StatClear,
       ReloadRaise, ReloadRemove, ReloadQuery, ReloadFill, ReloadDone, WebChange, WebSignal
  <2>2. PushTypes' /\ PushLocals'
    <3>1. CASE ReloadRaise
      <4>1. {item[p] : p \in {q \in Pushers : ppc[q] = "walk"}} \subseteq Delivers
        BY <1>1 DEF PushTypes, PushLocals
      <4> QED BY <1>1, <3>1, <4>1 DEF ReloadRaise, PushTypes, PushLocals
    <3>2. CASE ~ReloadRaise
      BY <1>1, <1>3, <3>2 DEF PushTypes, PushLocals, Stat, StatRead, StatClear,
         ReloadRemove, ReloadQuery, ReloadFill, ReloadDone, WebChange, WebSignal
    <3> QED BY <3>1, <3>2
  <2>3. RouteTypes'
    <3> USE <1>1 DEF RouteTypes
    <3>1. CASE StatRead \/ ReloadRaise \/ ReloadDone \/ WebSignal
      <4>1. rpc' \in {"read", "clear", "raise", "remove", "fill"} /\ sleeping' \in BOOLEAN
        BY <3>1 DEF StatRead, ReloadRaise, ReloadDone, WebSignal
      <4>2. got' \in {0, 1} /\ signal' \in {0, 1} /\ editing' \in Nat
        BY <3>1 DEF StatRead, ReloadRaise, ReloadDone, WebSignal
      <4>3. UNCHANGED <<table, rows, gen, missed, failed, db, changes, past>>
        BY <3>1 DEF StatRead, ReloadRaise, ReloadDone, WebSignal
      <4> QED BY <4>1, <4>2, <4>3
    <3>6. CASE StatClear
      <4>1. missed' \in BOOLEAN
        BY <3>6, Zenon DEF StatClear
      <4>2. rpc' \in {"read", "raise"}
        BY <3>6 DEF StatClear
      <4>3. signal' = 0 /\ UNCHANGED <<table, rows, gen, sleeping, failed, got, webVars, past>>
        BY <3>6 DEF StatClear
      <4> QED BY <4>1, <4>2, <4>3
    <3>2. CASE ReloadRemove
      <4>1. SubSeq(table, 1, Len(table) - 1) \in Seq(Route)
        BY <3>2 DEF ReloadRemove
      <4> QED BY <3>2, <4>1 DEF ReloadRemove
    <3>3. ASSUME NEW done \in BOOLEAN, ReloadQuery(done) PROVE RouteTypes'
      <4>1. db \in Seq(Route) /\ <<>> \in Seq(Route)
        BY DeliveryAssumption
      <4>2. failed' \in BOOLEAN /\ missed' \in BOOLEAN
        BY <3>3, Zenon DEF ReloadQuery
      <4>3. rows' \in Seq(Route) /\ past' \subseteq Tables \cup {<<>>}
        BY <3>3, <4>1 DEF ReloadQuery
      <4>4. rpc' = "fill" /\ gen' \in Nat /\ UNCHANGED <<table, sleeping, got, signal, webVars>>
        BY <3>3 DEF ReloadQuery
      <4> QED BY <4>2, <4>3, <4>4
    <3>4. CASE ReloadFill
      <4>1. Append(table, Head(rows)) \in Seq(Route) /\ Tail(rows) \in Seq(Route)
        BY <3>4 DEF ReloadFill
      <4> QED BY <3>4, <4>1 DEF ReloadFill
    <3>5. ASSUME NEW t \in Tables, WebChange(t) PROVE RouteTypes'
      BY <3>5 DEF WebChange
    <3> QED BY <1>3, <3>1, <3>2, <3>3, <3>4, <3>5, <3>6 DEF Stat
  <2> QED BY <2>1, <2>2, <2>3 DEF TypeInv, TypeOK
<1> QED BY <1>2, <1>3

\* Threads, iterators and lists keep their types (TypeOK).
LEMMA TypeInvKept == Spec => []TypeInv
<1>1. TypeInv /\ [Next]_vars => TypeInv'
  <2> SUFFICES ASSUME TypeInv, [Next]_vars PROVE TypeInv'
    OBVIOUS
  <2>1. CASE UNCHANGED vars
    BY <2>1 DEF TypeInv, TypeOK, PushTypes, PullTypes, QueueTypes, RouteTypes, PushLocals,
                PullLocals, vars, pushVars, pullVars, statVars, webVars, history
  <2>2. CASE Next
    <3>1. ASSUME NEW p \in Pushers, Push(p) PROVE TypeInv'
      BY <3>1, TypePushWalk, TypePushQueues
    <3> QED BY <2>2, <3>1, TypePull, TypeRest DEF Next
  <2> QED BY <2>1, <2>2
<1> QED BY <1>1, TypeInit, PTL DEF Spec

\* Every variable keeps its type (TypeOK), for any number of gateways, accounts, items
\* and routes: a thread about to push or to pop has a queue of the list.
THEOREM TypesKept == Spec => []TypeOK
<1>1. TypeInv => TypeOK
  BY DEF TypeInv
<1> QED BY <1>1, TypeInvKept, PTL

-----------------------------------------------------------------------------
(* What a reload lets through *)

\* What makes OneItemEach inductive: a thread that has received one is back before
\* the test of `sleeping' or on its way there.
GateInv == sleeping => \A p \in Pushers :
                         during[p] <= 1 /\ (ppc[p] = "recv" => during[p] = 0)

\* OneItemEach holds: each push thread receives at most one item while the routing
\* list is reloaded (delivery.c:381-386, 309), for any number of threads and items.
THEOREM ReloadLetsOneIn == Spec => []OneItemEach
<1>1. Init => GateInv
  BY DEF Init, GateInv
<1>2. TypeInv /\ GateInv /\ [Next]_vars => GateInv'
  <2> SUFFICES ASSUME TypeInv, GateInv, [Next]_vars PROVE GateInv'
    OBVIOUS
  <2> USE DEF GateInv, pushVars, statVars, history
  <2>1. PushTypes
    BY DEF TypeInv, TypeOK
  <2>2. CASE UNCHANGED <<sleeping, ppc, during>>
    BY <2>2
  <2>3. ASSUME NEW p \in Pushers, Push(p) PROVE GateInv'
    <3>1. /\ \A q \in Pushers \ {p} : ppc'[q] = ppc[q] /\ during'[q] = during[q]
          /\ sleeping' = sleeping
      BY <2>1, <2>3 DEF PushTypes, Push, PushStart, PushTest, PushIdle, PushRecv, PushWalk,
         PushWalkEnd, PushWalkFreed, PushFind, PushCreate, PushQueue, PushStore, PushDone
    <3>2. sleeping => during'[p] <= 1 /\ (ppc'[p] = "recv" => during'[p] = 0)
      <4>1. ASSUME NEW x \in Items, PushRecv(p, x), sleeping
            PROVE  during'[p] <= 1 /\ ppc'[p] # "recv"
        <5>1. ppc'[p] # "recv"
          BY <2>1, <4>1 DEF PushRecv, PushTypes
        <5>2. ppc[p] = "recv" /\ during'[p] = during[p] + 1
          BY <2>1, <4>1 DEF PushRecv, PushTypes
        <5> QED BY <4>1, <5>1, <5>2
      <4>2. CASE PushTest(p)
        BY <4>2 DEF PushTest
      <4>3. CASE ~PushTest(p) /\ ~\E x \in Items : PushRecv(p, x)
        BY <2>1, <2>3, <4>3
        DEF PushTypes, Push, PushStart, PushIdle, PushWalk, PushWalkEnd, PushWalkFreed,
            PushFind, PushCreate, PushQueue, PushStore, PushDone
      <4> QED BY <4>1, <4>2, <4>3
    <3> QED BY <3>1, <3>2
  <2>4. CASE Stat
    <3>1. CASE ReloadRaise
      BY <3>1 DEF ReloadRaise
    <3>2. CASE ReloadDone
      BY <3>2, SMTT(30) DEF ReloadDone
    <3> QED BY <2>2, <2>4, <3>1, <3>2
            DEF Stat, StatRead, StatClear, ReloadRemove, ReloadQuery, ReloadFill
  <2>5. CASE Next
    BY <2>2, <2>3, <2>4, <2>5 DEF Next, PullStart, PullFind, PullCreate, PullExit, Pull,
       StoreWrite, WriteDeliver, WebChange, WebSignal
  <2> QED BY <2>2, <2>5 DEF vars
<1>3. TypeInv /\ GateInv => OneItemEach
  BY DEF GateInv, OneItemEach
<1> QED BY <1>1, <1>2, <1>3, TypeInvKept, PTL DEF Spec

-----------------------------------------------------------------------------
(* The routing list after a reload *)

\* Something will bring a reload about, or keeps the list from being current.
Owed == editing > 0 \/ signal = 1

\* What makes ListCurrent inductive: a list that is out of date is owed a reload, and
\* one that is being filled becomes what the database held when it was asked.
ListInv ==
  /\ sleeping <=> Rebuilding
  /\ rpc = "read" => table = db \/ missed \/ failed \/ Owed
  /\ rpc = "clear" => table = db \/ missed \/ failed \/ Owed \/ got = 1
  /\ rpc = "fill" => table \o rows = db \/ failed \/ Owed

\* ListCurrent holds: a change of the routes is lost only if its signal comes between
\* HGET and HSET or the query fails (delivery.c:298-336, 873-902), whatever the order
\* of changes, signals and reloads.
THEOREM ChangesArrive == Spec => []ListCurrent
<1>1. Init => ListInv
  BY DEF Init, ListInv, Rebuilding
<1>2. TypeInv /\ ListInv /\ [Next]_vars => ListInv'
  <2> SUFFICES ASSUME TypeInv, ListInv, [Next]_vars PROVE ListInv'
    OBVIOUS
  <2> USE DEF ListInv, Owed, Rebuilding, statVars, webVars, history
  <2>1. RouteTypes
    BY DEF TypeInv, TypeOK
  <2>2. CASE UNCHANGED <<statVars, signal, table, db, editing, missed, failed>>
    BY <2>2
  <2>3. CASE StatRead \/ ReloadRaise
    BY <2>1, <2>3 DEF StatRead, ReloadRaise, RouteTypes
  <2>11. CASE StatClear
    <3>1. got = 1 => rpc' = "raise"
      BY <2>11 DEF StatClear
    <3>2. signal = 1 /\ got # 1 => missed'
      BY <2>1, <2>11 DEF StatClear, RouteTypes
    <3>3. missed => missed'
      BY <2>11 DEF StatClear
    <3>4. rpc = "clear" /\ rpc' \in {"read", "raise"}
          /\ UNCHANGED <<table, rows, sleeping, failed, webVars>>
      BY <2>11 DEF StatClear
    <3> QED BY <2>1, <3>1, <3>2, <3>3, <3>4 DEF RouteTypes
  <2>4. CASE ReloadRemove
    BY <2>1, <2>4 DEF ReloadRemove, RouteTypes
  <2>5. ASSUME NEW done \in BOOLEAN, ReloadQuery(done) PROVE ListInv'
    <3>1. done => table' \o rows' = db'
      <4>1. db \in Seq(Route)
        BY <2>1, DeliveryAssumption DEF RouteTypes
      <4>2. <<>> \o db = db
        BY <4>1
      <4> QED BY <2>5, <4>2 DEF ReloadQuery
    <3> QED BY <2>1, <2>5, <3>1 DEF ReloadQuery, RouteTypes
  <2>6. CASE ReloadFill
    <3>1. table' \o rows' = table \o rows
      <4>1. table \in Seq(Route) /\ rows \in Seq(Route) /\ rows # <<>>
        BY <2>1, <2>6 DEF ReloadFill, RouteTypes
      <4>2. Append(table, Head(rows)) \o Tail(rows) = table \o rows
        BY <4>1
      <4> QED BY <2>6, <4>2 DEF ReloadFill
    <3> QED BY <2>1, <2>6, <3>1 DEF ReloadFill, RouteTypes
  <2>7. CASE ReloadDone
    <3>1. table \o <<>> = table
      BY <2>1 DEF RouteTypes
    <3> QED BY <2>1, <2>7, <3>1 DEF ReloadDone, RouteTypes
  <2>8. CASE (\E t \in Tables : WebChange(t)) \/ WebSignal
    BY <2>1, <2>8 DEF WebChange, WebSignal, RouteTypes
  <2>9. ASSUME NEW p \in Pushers, Push(p) PROVE ListInv'
    BY <2>2, <2>9 DEF Push, PushStart, PushTest, PushIdle, PushRecv, PushWalk,
       PushWalkEnd, PushWalkFreed, PushFind, PushCreate, PushQueue, PushStore
  <2>10. CASE Next
    <3>1. CASE Stat
      BY <3>1, <2>3, <2>4, <2>5, <2>6, <2>7, <2>11 DEF Stat
    <3>2. ASSUME \/ \E done \in BOOLEAN : StoreWrite(done)
                 \/ \E a \in Accounts :
                      \/ PullStart(a) \/ PullFind(a) \/ PullCreate(a) \/ PullExit(a)
                      \/ \E arrives \in BOOLEAN : Pull(a, arrives)
          PROVE  UNCHANGED <<statVars, signal, table, db, editing, missed, failed>>
      BY <3>2 DEF PullStart, PullFind, PullCreate, PullExit, Pull, StoreWrite, WriteDeliver
    <3> HIDE DEF ListInv
    <3> QED BY <2>2, <2>8, <2>9, <2>10, <3>1, <3>2 DEF Next
  <2> QED BY <2>2, <2>10 DEF vars
<1>3. TypeInv /\ ListInv => ListCurrent
  BY DEF ListInv, ListCurrent, Owed, TypeInv, TypeOK, RouteTypes
<1> QED BY <1>1, <1>2, <1>3, TypeInvKept, PTL DEF Spec

-----------------------------------------------------------------------------
(* The second queue of an account *)

\* Queue k is the first of its account.
First(k) == \A j \in DOMAIN pool : j < k => pool[j].id # pool[k].id

\* Find finds the first queue of an account and no other.
LEMMA FindFirst ==
  ASSUME QueueTypes
  PROVE  /\ \A k \in DOMAIN pool : First(k) <=> Find(pool, pool[k].id) = k
         /\ \A a : Find(pool, a) # 0 => /\ Find(pool, a) \in DOMAIN pool
                                        /\ pool[Find(pool, a)].id = a
                                        /\ First(Find(pool, a))
<1>1. pool \in Seq(Queues) /\ DOMAIN pool = 1 .. Len(pool) /\ Len(pool) \in Nat
  BY PoolType
<1>2. ASSUME NEW a, Find(pool, a) # 0
      PROVE  /\ Find(pool, a) \in DOMAIN pool /\ pool[Find(pool, a)].id = a
             /\ \A k \in DOMAIN pool : pool[k].id = a => Find(pool, a) <= k
  BY <1>1, <1>2, FindWorks
<1>3. \A k \in DOMAIN pool : Find(pool, pool[k].id) # 0
  BY <1>1, FindWorks
<1>4. ASSUME NEW a, Find(pool, a) # 0 PROVE First(Find(pool, a))
  BY <1>1, <1>2, <1>4 DEF First
<1>5. ASSUME NEW k \in DOMAIN pool, First(k) PROVE Find(pool, pool[k].id) = k
  <2> DEFINE f == Find(pool, pool[k].id)
  <2>1. f \in DOMAIN pool /\ pool[f].id = pool[k].id /\ f <= k
    BY <1>2, <1>3
  <2>2. ~(f < k)
    BY <1>5, <2>1 DEF First
  <2> HIDE DEF f
  <2>3. f = k
    BY <1>1, <2>1, <2>2
  <2> QED BY <2>3 DEF f
<1> QED BY <1>2, <1>3, <1>4, <1>5

\* What makes SecondQueueSmall inductive: a queue that is not the first of its account
\* is known to the thread that created it alone, and empty until that pushes.
SmallInv ==
  /\ \A k \in DOMAIN pool : ~First(k) => Len(pool[k].items) <= 1
  /\ \A p \in Pushers : ppc[p] = "push" /\ ~First(queue[p]) =>
        /\ pool[queue[p]].items = <<>>
        /\ \A q \in Pushers \ {p} : ppc[q] = "push" => queue[q] # queue[p]

\* Whether a queue is the first depends on the queues before it.
LEMMA FirstKept ==
  ASSUME QueueTypes, QueueTypes', Len(pool) <= Len(pool'),
         \A j \in DOMAIN pool : pool'[j].id = pool[j].id
  PROVE  \A k \in DOMAIN pool : First(k)' <=> First(k)
<1>1. pool \in Seq(Queues) /\ DOMAIN pool = 1 .. Len(pool) /\ Len(pool) \in Nat
  BY PoolType
<1>2. DOMAIN pool' = 1 .. Len(pool') /\ Len(pool') \in Nat
  BY DEF QueueTypes
<1> QED BY <1>1, <1>2 DEF First

\* A queue is created at the end: its items are none, the others stay as they are.
LEMMA SmallGrow ==
  ASSUME TypeInv, TypeInv', SmallInv, NEW a \in Accounts, pool' = WithQueue(a)
  PROVE  /\ \A k \in DOMAIN pool' : ~First(k)' => Len(pool'[k].items) <= 1
         /\ \A k \in DOMAIN pool : First(k)' <=> First(k)
         /\ \A k \in DOMAIN pool : pool'[k] = pool[k]
         /\ DOMAIN pool = 1 .. Len(pool) /\ Len(pool) \in Nat
         /\ pool'[Len(pool) + 1].items = <<>>
<1>1. QueueTypes /\ QueueTypes'
  BY DEF TypeInv, TypeOK
<1>2. /\ DOMAIN pool = 1 .. Len(pool) /\ Len(pool) \in Nat
      /\ Len(pool') = Len(pool) + 1
      /\ DOMAIN pool' = 1 .. Len(pool')
      /\ \A k \in DOMAIN pool : pool'[k] = pool[k]
      /\ pool'[Len(pool) + 1].items = <<>>
  <2>1. pool \in Seq(Queues)
    BY <1>1, PoolType
  <2>2. /\ pool' \in Seq(Queues)
        /\ Len(pool') = Len(pool) + 1
        /\ \A k \in DOMAIN pool : pool'[k] = pool[k]
        /\ pool'[Len(pool) + 1] = [id |-> a, items |-> <<>>]
    BY <1>1, WithQueueType
  <2> HIDE DEF Queues
  <2> QED BY <2>1, <2>2
<1>3. \A k \in DOMAIN pool : First(k)' <=> First(k)
  BY <1>1, <1>2, FirstKept
<1>4. ASSUME NEW k \in DOMAIN pool', ~First(k)' PROVE Len(pool'[k].items) <= 1
  <2>1. CASE k \in DOMAIN pool
    BY <1>2, <1>3, <1>4, <2>1 DEF SmallInv
  <2>2. CASE k \notin DOMAIN pool
    <3>1. k = Len(pool) + 1
      BY <1>2, <2>2
    <3>2. Len(<<>>) = 0
      OBVIOUS
    <3> QED BY <1>2, <3>1, <3>2
  <2> QED BY <2>1, <2>2
<1> QED BY <1>2, <1>3, <1>4

\* The steps of a push thread keep the second queues small.
LEMMA SmallPush ==
  ASSUME TypeInv, TypeInv', SmallInv, NEW p \in Pushers, Push(p)
  PROVE  SmallInv'
<1>1. QueueTypes /\ QueueTypes' /\ PushTypes /\ PushLocals
  BY DEF TypeInv, TypeOK
<1>2. DOMAIN pool = 1 .. Len(pool) /\ Len(pool) \in Nat
  BY <1>1, PoolType
<1>3. \A q \in Pushers : ppc[q] = "push" => queue[q] \in DOMAIN pool
  BY <1>1, <1>2 DEF PushTypes, PushLocals
<1>4. CASE PushCreate(p)
  <2>1. account[p] \in Accounts /\ pool' = WithQueue(account[p])
    BY <1>1, <1>4 DEF PushCreate, PushLocals
  <2>2. /\ \A k \in DOMAIN pool' : ~First(k)' => Len(pool'[k].items) <= 1
        /\ \A k \in DOMAIN pool : First(k)' <=> First(k)
        /\ \A k \in DOMAIN pool : pool'[k] = pool[k]
        /\ pool'[Len(pool) + 1].items = <<>>
    BY <2>1, SmallGrow
  <2>3. /\ queue'[p] = Len(pool) + 1
        /\ \A q \in Pushers \ {p} : ppc'[q] = ppc[q] /\ queue'[q] = queue[q]
    BY <1>1, <1>4 DEF PushCreate, PushTypes
  <2>4. ASSUME NEW q \in Pushers, ppc'[q] = "push", ~First(queue[q])'
        PROVE  /\ pool'[queue'[q]].items = <<>>
               /\ \A r \in Pushers \ {q} : ppc'[r] = "push" => queue'[r] # queue'[q]
    <3>1. CASE q = p
      <4>1. \A r \in Pushers \ {p} : ppc'[r] = "push" => queue'[r] \in DOMAIN pool
        BY <1>3, <2>3
      <4> QED BY <1>2, <2>2, <2>3, <3>1, <4>1
    <3>2. CASE q # p
      <4>1. ppc[q] = "push" /\ queue'[q] = queue[q] /\ queue[q] \in DOMAIN pool
        BY <1>3, <2>3, <2>4, <3>2
      <4>2. ~First(queue[q])
        BY <2>2, <2>4, <4>1 DEF First
      <4>3. /\ pool[queue[q]].items = <<>>
            /\ \A r \in Pushers \ {q} : ppc[r] = "push" => queue[r] # queue[q]
        BY <4>1, <4>2 DEF SmallInv
      <4> QED BY <1>2, <2>2, <2>3, <4>1, <4>3
    <3> QED BY <3>1, <3>2
  <2> QED BY <2>2, <2>4 DEF SmallInv
<1>5. CASE PushQueue(p)
  <2> DEFINE k == queue[p]
  <2>1. k \in DOMAIN pool /\ item[p] \in Items /\ ppc[p] = "push"
    BY <1>1, <1>3, <1>5 DEF PushQueue, PushLocals
  <2>2. Changed(pool', k, Append(pool[k].items, item[p]))
    BY <1>1, <1>5, <2>1, AppendType DEF PushQueue
  <2>3. /\ Len(pool') = Len(pool) /\ DOMAIN pool' = DOMAIN pool
        /\ \A j \in DOMAIN pool \ {k} : pool'[j] = pool[j]
        /\ \A j \in DOMAIN pool : First(j)' <=> First(j)
    BY <1>1, <1>2, <2>2, FirstKept DEF Changed
  <2>4. ~First(k) => Len(pool'[k].items) = 1
    BY <2>1, <2>2 DEF SmallInv, Changed
  <2>5. /\ ppc'[p] = "test"
        /\ \A q \in Pushers \ {p} : ppc'[q] = ppc[q] /\ queue'[q] = queue[q]
    BY <1>1, <1>5 DEF PushQueue, PushDone, PushTypes
  <2>6. ASSUME NEW q \in Pushers, ppc'[q] = "push", ~First(queue[q])'
        PROVE  /\ pool'[queue'[q]].items = <<>>
               /\ \A r \in Pushers \ {q} : ppc'[r] = "push" => queue'[r] # queue'[q]
    <3>1. q # p /\ ppc[q] = "push" /\ queue'[q] = queue[q] /\ queue[q] \in DOMAIN pool
      BY <1>3, <2>5, <2>6
    <3>2. ~First(queue[q])
      BY <2>3, <2>6, <3>1 DEF First
    <3>3. /\ pool[queue[q]].items = <<>>
          /\ \A r \in Pushers \ {q} : ppc[r] = "push" => queue[r] # queue[q]
      BY <3>1, <3>2 DEF SmallInv
    <3>4. queue[q] # k
      BY <2>1, <3>1, <3>3
    <3> QED BY <2>3, <2>5, <3>1, <3>3, <3>4
  <2>7. ASSUME NEW j \in DOMAIN pool', ~First(j)' PROVE Len(pool'[j].items) <= 1
    <3>1. j \in DOMAIN pool /\ ~First(j)
      BY <2>3, <2>7
    <3>2. CASE j = k
      <4>1. Len(pool'[j].items) = 1
        BY <2>4, <3>1, <3>2, Zenon
      <4> QED BY <4>1
    <3>3. CASE j # k
      BY <2>3, <3>1, <3>3 DEF SmallInv
    <3> QED BY <3>2, <3>3
  <2> QED BY <2>6, <2>7 DEF SmallInv
<1>6. CASE ~PushCreate(p) /\ ~PushQueue(p)
  <2>1. /\ pool' = pool
        /\ \A q \in Pushers \ {p} : ppc'[q] = ppc[q] /\ queue'[q] = queue[q]
    BY <1>1, <1>6 DEF PushTypes, Push, PushStart, PushTest, PushIdle, PushRecv, PushWalk,
       PushWalkEnd, PushWalkFreed, PushFind, PushStore, PushDone
  <2>2. ppc'[p] = "push" => queue'[p] \in DOMAIN pool /\ First(queue'[p])
    <3>1. CASE PushFind(p)
      <4>1. queue'[p] = Find(pool, account[p])
            /\ (ppc'[p] = "push" => Find(pool, account[p]) # 0)
        BY <1>1, <3>1 DEF PushFind, PushTypes
      <4> QED BY <1>1, <4>1, FindFirst
    <3>2. CASE ~PushFind(p)
      BY <1>1, <1>6, <3>2 DEF PushTypes, Push, PushStart, PushTest, PushIdle, PushRecv,
         PushWalk, PushWalkEnd, PushWalkFreed, PushStore, PushDone
    <3> QED BY <3>1, <3>2
  <2> QED BY <2>1, <2>2 DEF SmallInv, First
<1> QED BY <1>4, <1>5, <1>6

\* So do the steps of a pull thread.
LEMMA SmallPull ==
  ASSUME TypeInv, TypeInv', SmallInv, NEW a \in Accounts,
         PullCreate(a) \/ \E arrives \in BOOLEAN : Pull(a, arrives)
  PROVE  SmallInv'
<1>1. /\ QueueTypes /\ QueueTypes' /\ PushTypes /\ PushLocals /\ PullTypes /\ PullLocals
      /\ UNCHANGED <<ppc, queue>>
  BY DEF TypeInv, TypeOK, PullCreate, Pull, pushVars
<1>2. DOMAIN pool = 1 .. Len(pool) /\ Len(pool) \in Nat
  BY <1>1, PoolType
<1>3. \A q \in Pushers : ppc[q] = "push" => queue[q] \in DOMAIN pool
  BY <1>1, <1>2 DEF PushTypes, PushLocals
<1>4. CASE PullCreate(a)
  <2>1. /\ \A k \in DOMAIN pool' : ~First(k)' => Len(pool'[k].items) <= 1
        /\ \A k \in DOMAIN pool : First(k)' <=> First(k)
        /\ \A k \in DOMAIN pool : pool'[k] = pool[k]
    BY <1>4, SmallGrow DEF PullCreate
  <2>2. ASSUME NEW q \in Pushers, ppc[q] = "push", ~First(queue[q])'
        PROVE  ~First(queue[q]) /\ pool'[queue[q]] = pool[queue[q]]
    BY <1>1, <1>3, <2>1, <2>2 DEF First
  <2> QED BY <1>1, <2>1, <2>2 DEF SmallInv
<1>5. ASSUME NEW arrives \in BOOLEAN, Pull(a, arrives) PROVE SmallInv'
  <2> DEFINE k == mine[a]
  <2>1. k \in DOMAIN pool /\ pool[k].items # <<>>
    BY <1>1, <1>2, <1>5 DEF Pull, PullTypes, PullLocals
  <2>2. Changed(pool', k, Tail(pool[k].items))
    BY <1>1, <1>5, <2>1, TailType DEF Pull
  <2>3. /\ DOMAIN pool' = DOMAIN pool
        /\ \A j \in DOMAIN pool \ {k} : pool'[j] = pool[j]
        /\ \A j \in DOMAIN pool : First(j)' <=> First(j)
    BY <1>1, <1>2, <2>2, FirstKept DEF Changed
  <2>4. Len(pool'[k].items) <= Len(pool[k].items) /\ Len(pool[k].items) \in Nat
        /\ Len(pool'[k].items) \in Nat
    BY <1>1, <2>1, <2>2, PoolType DEF Changed
  <2>5. ASSUME NEW j \in DOMAIN pool', ~First(j)' PROVE Len(pool'[j].items) <= 1
    <3>1. j \in DOMAIN pool /\ ~First(j) /\ Len(pool[j].items) <= 1
      BY <2>3, <2>5 DEF SmallInv
    <3>2. CASE j = k
      BY <2>4, <3>1, <3>2
    <3>3. CASE j # k
      BY <2>3, <3>1, <3>3
    <3> QED BY <3>2, <3>3
  <2>6. ASSUME NEW q \in Pushers, ppc[q] = "push", ~First(queue[q])'
        PROVE  ~First(queue[q]) /\ queue[q] \in DOMAIN pool
    BY <1>1, <1>3, <2>3, <2>6 DEF First
  <2>7. ASSUME NEW q \in Pushers, ppc[q] = "push", ~First(queue[q])'
        PROVE  pool'[queue[q]] = pool[queue[q]]
    <3>1. pool[queue[q]].items = <<>>
      BY <2>6, <2>7 DEF SmallInv
    <3>2. queue[q] \in DOMAIN pool \ {k}
      BY <2>1, <2>6, <2>7, <3>1
    <3> QED BY <2>3, <3>2
  <2> QED BY <1>1, <2>5, <2>6, <2>7 DEF SmallInv
<1> QED BY <1>4, <1>5

\* SecondQueueSmall holds: however many threads create a queue for an account at the
\* same time (delivery.c:412-421, 484-492, 539-548), each queue but the first gets one
\* item at most.
THEOREM SecondQueuesStaySmall == Spec => []SecondQueueSmall
<1>1. Init => SmallInv
  BY DEF Init, SmallInv
<1>2. TypeInv /\ TypeInv' /\ SmallInv /\ [Next]_vars => SmallInv'
  <2> SUFFICES ASSUME TypeInv, TypeInv', SmallInv, [Next]_vars PROVE SmallInv'
    OBVIOUS
  <2>1. CASE UNCHANGED <<pool, ppc, queue>>
    BY <2>1 DEF SmallInv, First
  <2>2. ASSUME \/ \E a \in Accounts : PullStart(a) \/ PullFind(a) \/ PullExit(a)
               \/ \E done \in BOOLEAN : StoreWrite(done)
               \/ Stat \/ (\E t \in Tables : WebChange(t)) \/ WebSignal
        PROVE  UNCHANGED <<pool, ppc, queue>>
    BY <2>2 DEF PullStart, PullFind, PullExit, StoreWrite, WriteDeliver, Stat, StatRead, StatClear,
       ReloadRaise, ReloadRemove, ReloadQuery, ReloadFill, ReloadDone, WebChange, WebSignal,
       pushVars
  <2>3. CASE Next
    BY <2>1, <2>2, <2>3, SmallPush, SmallPull DEF Next
  <2> QED BY <2>1, <2>3 DEF vars, pushVars
<1>3. TypeInv /\ SmallInv => SecondQueueSmall
  BY FindFirst DEF SmallInv, SecondQueueSmall, TypeInv, TypeOK
<1> QED BY <1>1, <1>2, <1>3, TypeInvKept, PTL DEF Spec

-----------------------------------------------------------------------------
(* Who gets what *)

\* Account a may get item x; message x may be left to nobody.
Good(x, a) == IF x \in Reports THEN Of[x] = a
              ELSE x \in torn \/ \E t \in past : Named(t, x) = a
Stray(x) == x \in overlap \/ \E t \in past : Named(t, x) = Nobody

\* The first node that matches names the account.
LEMMA NamedFirst ==
  ASSUME NEW t \in Seq(Route), NEW d, NEW k \in DOMAIN t, Code[d] \in t[k].matches,
         \A j \in 1 .. k - 1 : Code[d] \notin t[j].matches
  PROVE  Named(t, d) = t[k].target
<1> DEFINE hits == {i \in DOMAIN t : Code[d] \in t[i].matches}
<1>1. k \in hits /\ hits \subseteq Nat /\ \A j \in hits : k <= j
  OBVIOUS
<1>2. \A i \in hits : (\A j \in hits : i <= j) => i = k
  BY <1>1
<1>3. (CHOOSE i \in hits : \A j \in hits : i <= j) = k
  <2> HIDE DEF hits
  <2> QED BY <1>1, <1>2
<1> QED BY <1>1, <1>3 DEF Named

\* No node matches: nobody is named.
LEMMA NamedNone ==
  ASSUME NEW t, NEW d, \A j \in DOMAIN t : Code[d] \notin t[j].matches
  PROVE  Named(t, d) = Nobody
  BY DEF Named

\* Half emptied or half filled, the routing list is the beginning of one that was in
\* use; when it is not being rebuilt it is one.
BeginsOne == \E t \in past : /\ Len(table) <= Len(t)
                             /\ \A k \in 1 .. Len(table) : table[k] = t[k]

TableInv ==
  /\ BeginsOne
  /\ ~Rebuilding => table \in past
  /\ rpc = "fill" => table \o rows \in past

\* A walk: the nodes passed did not match, and a walk that met no rebuilding stands on
\* a node of the list or has seen all of it.
WalkOK(p) ==
  LET d == item[p]
      n == node[p]
  IN  /\ n[1] <= gen
      /\ rpc # "remove" /\ n[1] = gen => n[2] <= Len(table)
      /\ Allocated(n) => \A j \in 1 .. n[2] - 1 : Code[d] \notin table[j].matches
      /\ d \notin overlap =>
           /\ ~Rebuilding
           /\ n[1] = gen /\ n[2] <= Len(table)
           /\ n[2] = 0 => \A j \in 1 .. Len(table) : Code[d] \notin table[j].matches

WalkInv == \A p \in Pushers : ppc[p] = "walk" => WalkOK(p)

\* What is in hand, in a queue, taken or stored is where it may be.
HandOK(p) ==
  /\ ppc[p] \in {"find", "create", "push"} => Good(item[p], account[p])
  /\ ppc[p] = "push" => pool[queue[p]].id = account[p]
  /\ ppc[p] = "store" => Stray(item[p])

ReadersOK == \A a \in Accounts : reader[a] = "serve" => pool[mine[a]].id = a
QueuesOK  == \A k \in DOMAIN pool : \A j \in DOMAIN pool[k].items :
               Good(pool[k].items[j], pool[k].id)
TakenOK   == \A a \in Accounts : \A x \in taken[a] : Good(x, a)
StoredOK  == (\A k \in DOMAIN storage : Stray(storage[k])) /\ \A x \in written : Stray(x)

CarryInv == (\A p \in Pushers : HandOK(p)) /\ ReadersOK /\ QueuesOK /\ TakenOK /\ StoredOK

OwnerInv == TableInv /\ WalkInv /\ CarryInv

\* Routing lists are remembered, and so are the messages that met a rebuilding.
LEMMA GoodStays ==
  ASSUME past \subseteq past', torn \subseteq torn', overlap \subseteq overlap'
  PROVE  /\ \A x, a : Good(x, a) => Good(x, a)'
         /\ \A x : Stray(x) => Stray(x)'
  BY DEF Good, Stray

\* The parts of the invariant give the property.
LEMMA OwnerGives == TypeInv /\ CarryInv => RightAccount
<1> SUFFICES ASSUME TypeInv, CarryInv PROVE RightAccount
  OBVIOUS
<1>1. ASSUME NEW a \in Accounts, NEW x \in InQueue(a) \cup taken[a] PROVE Good(x, a)
  <2>1. CASE x \in InQueue(a)
    <3>1. PICK k \in DOMAIN pool :
             pool[k].id = a /\ \E j \in DOMAIN pool[k].items : x = pool[k].items[j]
      BY <2>1 DEF InQueue, Places
    <3> QED BY <3>1 DEF CarryInv, QueuesOK
  <2>2. CASE x \in taken[a]
    BY <2>2 DEF CarryInv, TakenOK
  <2> QED BY <2>1, <2>2
<1>2. ASSUME NEW x \in Unrouted PROVE Stray(x)
  BY DEF Unrouted, CarryInv, StoredOK
<1> QED BY <1>1, <1>2 DEF RightAccount, Good, Stray

\* Nothing but lamb_stat_loop changes the routing list.
LEMMA TableFrame ==
  ASSUME TableInv, UNCHANGED <<table, rpc, rows>>, past \subseteq past'
  PROVE  TableInv'
  BY DEF TableInv, BeginsOne, Rebuilding

\* A walk is not disturbed by what others do.
LEMMA WalkFrame ==
  ASSUME WalkInv, UNCHANGED <<table, gen, rpc>>, overlap \subseteq overlap', NEW P,
         \A p \in Pushers \ P : ppc'[p] = ppc[p] /\ item'[p] = item[p] /\ node'[p] = node[p],
         \A p \in Pushers \cap P : ppc'[p] = "walk" => WalkOK(p)'
  PROVE  WalkInv'
<1>1. ASSUME NEW p \in Pushers \ P, ppc'[p] = "walk" PROVE WalkOK(p)'
  <2>1. WalkOK(p)
    BY <1>1 DEF WalkInv
  <2> QED BY <1>1, <2>1 DEF WalkOK, Allocated, Rebuilding
<1> QED BY <1>1 DEF WalkInv

\* A step that changes neither list nor walk.
LEMMA WalkUnmoved ==
  ASSUME WalkInv, UNCHANGED <<table, gen, rpc, overlap, ppc, item, node>>
  PROVE  WalkInv'
  BY DEF WalkInv, WalkOK, Allocated, Rebuilding

\* A list without its last node.
LEMMA FrontOf ==
  ASSUME NEW t \in Seq(Route), t # <<>>
  PROVE  LET s == SubSeq(t, 1, Len(t) - 1)
         IN  /\ s \in Seq(Route) /\ Len(s) = Len(t) - 1
             /\ \A k \in 1 .. Len(s) : s[k] = t[k]
<1> DEFINE n == Len(t) - 1
           s == SubSeq(t, 1, n)
<1>1. Len(t) \in Nat \ {0}
  BY EmptySeq
<1>2. n \in Int /\ 1 \in Int /\ \A i \in 1 .. n : t[i] \in Route
  BY <1>1
<1>3. /\ s \in Seq(Route)
      /\ Len(s) = IF 1 <= n THEN n - 1 + 1 ELSE 0
      /\ \A i \in 1 .. n - 1 + 1 : s[i] = t[1 + i - 1]
  <2> HIDE DEF n
  <2> QED BY <1>2, SubSeqProperties
<1>5. \A i \in 1 .. n : i \in 1 .. n - 1 + 1 /\ 1 + i - 1 = i
  BY <1>1
<1> HIDE DEF s
<1>4. Len(s) = n
  <2>1. n \in Nat
    BY <1>1
  <2>2. Len(s) = IF 1 <= n THEN n - 1 + 1 ELSE 0
    BY <1>3, Zenon
  <2> HIDE DEF n
  <2> QED BY <2>1, <2>2
<1>6. \A k \in 1 .. Len(s) : s[k] = t[k]
  BY <1>3, <1>4, <1>5
<1> QED BY <1>3, <1>4, <1>6 DEF s

\* The routing lists are sequences of routes.
LEMMA PastType ==
  ASSUME RouteTypes
  PROVE  \A t \in past : t \in Seq(Route) /\ Len(t) \in Nat
<1> SUFFICES ASSUME NEW t \in past PROVE t \in Seq(Route) /\ Len(t) \in Nat
  OBVIOUS
<1>1. t \in Tables \/ t = <<>>
  BY DEF RouteTypes
<1>2. Tables \subseteq Seq(Route)
  BY DeliveryAssumption
<1>3. CASE t \in Tables
  BY <1>2, <1>3
<1>4. CASE t = <<>>
  BY <1>4, EmptySeq
<1> QED BY <1>1, <1>3, <1>4

\* lamb_stat_loop keeps the routing list the beginning of one that was in use.
LEMMA TableStat ==
  ASSUME TypeInv, TableInv, Stat
  PROVE  TableInv'
<1>1. RouteTypes
  BY DEF TypeInv, TypeOK
<1>9. table \in Seq(Route) /\ rows \in Seq(Route)
  BY <1>1 DEF RouteTypes
<1>2. /\ table \in Seq(Route) /\ rows \in Seq(Route) /\ Len(table) \in Nat
      /\ DOMAIN table = 1 .. Len(table)
      /\ \A t \in past : t \in Seq(Route)
  BY <1>1, <1>9, PastType
<1>3. CASE StatRead \/ StatClear
  <2>1. UNCHANGED <<table, rows, past>>
    BY <1>3 DEF StatRead, StatClear, history
  <2>2. ~Rebuilding /\ rpc' # "fill" /\ rpc # "fill"
    BY <1>3 DEF StatRead, StatClear, Rebuilding
  <2> QED BY <2>1, <2>2 DEF TableInv, BeginsOne
<1>4. CASE ReloadRaise
  BY <1>4 DEF ReloadRaise, TableInv, BeginsOne, Rebuilding
<1>5. CASE ReloadRemove
  <2>1. /\ table' \in Seq(Route) /\ Len(table') = Len(table) - 1
        /\ \A k \in 1 .. Len(table') : table'[k] = table[k]
    BY <1>2, <1>5, FrontOf DEF ReloadRemove
  <2>2. UNCHANGED <<past, rpc>> /\ rpc = "remove"
    BY <1>5 DEF ReloadRemove, statVars, history
  <2>3. PICK t \in past : Len(table) <= Len(t) /\ \A k \in 1 .. Len(table) : table[k] = t[k]
    BY DEF TableInv, BeginsOne
  <2>4. Len(t) \in Nat
    BY <1>2
  <2>5. Len(table') <= Len(t) /\ \A k \in 1 .. Len(table') : table'[k] = t[k]
    BY <1>2, <2>1, <2>3, <2>4
  <2> QED BY <2>2, <2>5 DEF TableInv, BeginsOne, Rebuilding
<1>6. ASSUME NEW done \in BOOLEAN, ReloadQuery(done) PROVE TableInv'
  <2>1. /\ table' = <<>> /\ table = <<>> /\ rpc' = "fill"
        /\ past' = past \cup {rows'}
    BY <1>6 DEF ReloadQuery
  <2>2. rows' \in Seq(Route)
    BY <1>1, <1>6, DeliveryAssumption DEF ReloadQuery, RouteTypes
  <2>3. <<>> \o rows' = rows'
    BY <2>2
  <2>4. BeginsOne'
    BY <2>1 DEF TableInv, BeginsOne
  <2> QED BY <2>1, <2>3, <2>4 DEF TableInv, Rebuilding
<1>7. CASE ReloadFill
  <2>1. /\ table' = Append(table, Head(rows)) /\ rows' = Tail(rows) /\ rows # <<>>
        /\ rpc = "fill" /\ rpc' = "fill" /\ past' = past
    BY <1>7 DEF ReloadFill, history
  <2>2. table' \o rows' = table \o rows
    BY <1>2, <2>1
  <2>3. table' \in Seq(Route) /\ rows' \in Seq(Route)
    BY <1>2, <2>1
  <2>4. Len(table') <= Len(table' \o rows')
        /\ \A k \in 1 .. Len(table') : table'[k] = (table' \o rows')[k]
    BY <2>3
  <2>5. table' \o rows' \in past'
    BY <2>1, <2>2 DEF TableInv
  <2> QED BY <2>1, <2>4, <2>5 DEF TableInv, BeginsOne, Rebuilding
<1>8. CASE ReloadDone
  <2>1. table \o <<>> = table
    BY <1>2
  <2>2. rows = <<>> /\ rpc = "fill" /\ rpc' = "read" /\ UNCHANGED <<table, past>>
    BY <1>8 DEF ReloadDone, history
  <2> QED BY <2>1, <2>2 DEF TableInv, BeginsOne, Rebuilding
<1> QED BY <1>3, <1>4, <1>5, <1>6, <1>7, <1>8 DEF Stat

\* It does not make a walk pass over a node that matches.
LEMMA WalkStat ==
  ASSUME TypeInv, WalkInv, Stat
  PROVE  WalkInv'
<1>1. RouteTypes /\ PushTypes
  BY DEF TypeInv, TypeOK
<1>2. table \in Seq(Route) /\ Len(table) \in Nat /\ gen \in Nat
  BY <1>1 DEF RouteTypes
<1>3. UNCHANGED <<ppc, item, node>>
  BY DEF Stat, StatRead, StatClear, ReloadRaise, ReloadRemove, ReloadQuery, ReloadFill,
         ReloadDone, pushVars
<1> SUFFICES ASSUME NEW p \in Pushers, ppc[p] = "walk" PROVE WalkOK(p)'
  BY <1>3 DEF WalkInv
<1>4. WalkOK(p) /\ node[p] \in Nat \X Nat
  BY <1>1 DEF WalkInv, PushTypes
<1>5. node[p][1] \in Nat /\ node[p][2] \in Nat
  BY <1>4
<1>6. CASE StatRead \/ StatClear \/ ReloadDone
  <2>1. /\ UNCHANGED <<table, gen, overlap>> /\ rpc # "remove"
        /\ Rebuilding' => Rebuilding
    BY <1>6 DEF StatRead, StatClear, ReloadDone, Rebuilding, history
  <2> QED BY <1>3, <1>4, <2>1 DEF WalkOK, Allocated
<1>7. CASE ReloadRaise
  <2>1. UNCHANGED <<table, gen>> /\ item[p] \in overlap' /\ rpc' = "remove"
    BY <1>7 DEF ReloadRaise
  <2> QED BY <1>3, <1>4, <2>1 DEF WalkOK, Allocated
<1>8. CASE ReloadRemove
  <2>1. /\ table' \in Seq(Route) /\ Len(table') = Len(table) - 1
        /\ \A k \in 1 .. Len(table') : table'[k] = table[k]
    BY <1>2, <1>8, FrontOf DEF ReloadRemove
  <2>2. UNCHANGED <<gen, overlap, rpc>> /\ rpc = "remove" /\ Rebuilding
    BY <1>8 DEF ReloadRemove, statVars, history, Rebuilding
  <2>3. item[p] \in overlap /\ node[p][1] <= gen
    BY <1>4, <2>2 DEF WalkOK
  <2>4. Allocated(node[p])' => \A j \in 1 .. node[p][2] - 1 :
                                  Code[item[p]] \notin table'[j].matches
    <3> SUFFICES ASSUME Allocated(node[p])', NEW j \in 1 .. node[p][2] - 1
                 PROVE  Code[item[p]] \notin table'[j].matches
      OBVIOUS
    <3>1. node[p][1] = gen /\ node[p][2] \in 1 .. Len(table')
      BY <1>3, <2>2 DEF Allocated
    <3>2. Allocated(node[p]) /\ j \in 1 .. Len(table')
      BY <1>2, <1>5, <2>1, <3>1 DEF Allocated
    <3> QED BY <1>4, <2>1, <3>2 DEF WalkOK
  <2> QED BY <1>3, <2>2, <2>3, <2>4 DEF WalkOK
<1>9. ASSUME NEW done \in BOOLEAN, ReloadQuery(done) PROVE WalkOK(p)'
  <2>1. gen' = gen + 1 /\ overlap' = overlap /\ Rebuilding
    BY <1>9 DEF ReloadQuery, Rebuilding
  <2>2. item[p] \in overlap /\ node[p][1] <= gen
    BY <1>4, <2>1 DEF WalkOK
  <2>3. node[p][1] <= gen' /\ node[p][1] # gen'
    BY <1>2, <1>5, <2>1, <2>2
  <2> QED BY <1>3, <2>1, <2>2, <2>3 DEF WalkOK, Allocated
<1>10. CASE ReloadFill
  <2>1. rows \in Seq(Route) /\ rows # <<>> /\ table' = Append(table, Head(rows))
    BY <1>1, <1>10 DEF ReloadFill, RouteTypes
  <2>2. /\ Len(table') = Len(table) + 1
        /\ \A k \in 1 .. Len(table) : table'[k] = table[k]
    BY <1>2, <2>1
  <2>3. UNCHANGED <<gen, overlap, rpc>> /\ rpc = "fill" /\ Rebuilding
    BY <1>10 DEF ReloadFill, history, Rebuilding
  <2>4. item[p] \in overlap /\ node[p][1] <= gen
        /\ (node[p][1] = gen => node[p][2] <= Len(table))
    BY <1>4, <2>3 DEF WalkOK
  <2>5. Allocated(node[p])' => \A j \in 1 .. node[p][2] - 1 :
                                  Code[item[p]] \notin table'[j].matches
    <3> SUFFICES ASSUME Allocated(node[p])', NEW j \in 1 .. node[p][2] - 1
                 PROVE  Code[item[p]] \notin table'[j].matches
      OBVIOUS
    <3>1. node[p][1] = gen /\ node[p][2] \in 1 .. Len(table)
      BY <1>2, <1>3, <1>5, <2>3, <2>4 DEF Allocated
    <3>2. Allocated(node[p]) /\ j \in 1 .. Len(table)
      BY <1>2, <1>5, <3>1 DEF Allocated
    <3> QED BY <1>4, <2>2, <3>2 DEF WalkOK
  <2>6. node[p][1] = gen => node[p][2] <= Len(table')
    BY <1>2, <1>5, <2>2, <2>4
  <2> QED BY <1>3, <2>3, <2>4, <2>5, <2>6 DEF WalkOK
<1> QED BY <1>6, <1>7, <1>8, <1>9, <1>10 DEF Stat

\* A message that arrives starts its walk at the head, and a walk goes on from node to
\* node.
LEMMA WalkPush ==
  ASSUME TypeInv, WalkInv, NEW p \in Pushers, Push(p)
  PROVE  WalkInv'
<1>1. RouteTypes /\ PushTypes /\ PushLocals
  BY DEF TypeInv, TypeOK
<1>2. table \in Seq(Route) /\ Len(table) \in Nat /\ gen \in Nat
  BY <1>1 DEF RouteTypes
<1>3. UNCHANGED <<table, gen, rpc>> /\ overlap \subseteq overlap'
  BY DEF Push, PushStart, PushTest, PushIdle, PushRecv, PushWalk, PushWalkEnd, PushWalkFreed,
         PushFind, PushCreate, PushQueue, PushStore, statVars, history
<1>4. \A q \in Pushers \ {p} : ppc'[q] = ppc[q] /\ item'[q] = item[q] /\ node'[q] = node[q]
  BY <1>1 DEF PushTypes, Push, PushStart, PushTest, PushIdle, PushRecv, PushWalk, PushWalkEnd,
         PushWalkFreed, PushFind, PushCreate, PushQueue, PushStore, PushDone
<1>5. ppc'[p] = "walk" => WalkOK(p)'
  <2> SUFFICES ASSUME ppc'[p] = "walk" PROVE WalkOK(p)'
    OBVIOUS
  <2>1. PushWalk(p) \/ \E x \in Items : PushRecv(p, x)
    BY <1>1 DEF PushTypes, Push, PushStart, PushTest, PushIdle, PushWalkEnd,
                PushWalkFreed, PushFind, PushCreate, PushQueue, PushStore, PushDone
  <2>2. CASE PushWalk(p)
    <3> DEFINE k == node[p][2]
               n == IF k < Len(table) THEN k + 1 ELSE 0
    <3>1. /\ Code[item[p]] \notin table[k].matches
          /\ node' = [node EXCEPT ![p] = <<gen, n>>]
          /\ UNCHANGED <<item, overlap>>
      BY <1>1, <2>2 DEF PushWalk, PushTypes, history
    <3>2. node'[p] = <<gen, n>> /\ item'[p] = item[p]
      BY <1>1, <3>1 DEF PushTypes
    <3>3. WalkOK(p) /\ Allocated(node[p])
      BY <2>2 DEF PushWalk, WalkInv
    <3>4. k \in 1 .. Len(table)
      BY <3>3 DEF Allocated
    <3>5. \A j \in 1 .. k : Code[item[p]] \notin table[j].matches
      <4>1. \A j \in 1 .. k - 1 : Code[item[p]] \notin table[j].matches
        BY <3>3 DEF WalkOK
      <4>2. \A j \in 1 .. k : j = k \/ j \in 1 .. k - 1
        BY <3>4
      <4> QED BY <3>1, <4>1, <4>2
    <3>6. \A j \in 1 .. n - 1 : j \in 1 .. k
      BY <1>2, <3>4
    <3>7. n <= Len(table) /\ gen <= gen /\ (n = 0 => k = Len(table))
      BY <1>2, <3>4
    <3>8. item[p] \notin overlap => ~Rebuilding
      BY <3>3 DEF WalkOK
    <3>9. Rebuilding' = Rebuilding
      BY <1>3 DEF Rebuilding
    <3> HIDE DEF n, k
    <3>10. node'[p][1] = gen /\ node'[p][2] = n
      BY <3>2
    <3> QED BY <1>3, <3>1, <3>2, <3>5, <3>6, <3>7, <3>8, <3>9, <3>10 DEF WalkOK
  <2>3. ASSUME NEW x \in Items, PushRecv(p, x) PROVE WalkOK(p)'
    <3>1. /\ node' = [node EXCEPT ![p] = HeadOf]
          /\ item' = [item EXCEPT ![p] = x]
          /\ overlap' = IF Rebuilding THEN overlap \cup {x} ELSE overlap
      BY <1>1, <2>3 DEF PushRecv, PushTypes
    <3>2. node'[p] = HeadOf /\ item'[p] = x
      BY <1>1, <3>1 DEF PushTypes
    <3>3. x \notin overlap' => ~Rebuilding
      BY <3>1
    <3>4. HeadOf[1] = gen /\ HeadOf[2] \in {0, 1} /\ HeadOf[2] <= Len(table)
          /\ (HeadOf[2] = 0 => Len(table) = 0)
      BY <1>2 DEF HeadOf
    <3>5. Rebuilding' = Rebuilding
      BY <1>3 DEF Rebuilding
    <3>6. \A j \in 1 .. HeadOf[2] - 1 : FALSE
      BY <3>4
    <3> HIDE DEF HeadOf
    <3> QED BY <1>2, <1>3, <3>2, <3>3, <3>4, <3>5, <3>6 DEF WalkOK
  <2> QED BY <2>1, <2>2, <2>3
<1>6. \A q \in Pushers \cap {p} : ppc'[q] = "walk" => WalkOK(q)'
  BY <1>5
<1> QED BY <1>3, <1>4, <1>6, WalkFrame

\* A walk that ends at a node ends at an account that a list names; one that ends at none
\* may leave its message to nobody.
LEMMA WalkNames ==
  ASSUME TypeInv, TableInv, WalkInv, NEW p \in Pushers, ppc[p] = "walk"
  PROVE  /\ Allocated(node[p]) /\ Code[item[p]] \in table[node[p][2]].matches
              => Good(item[p], table[node[p][2]].target)
         /\ node[p][2] = 0 => Stray(item[p])
<1>1. RouteTypes /\ item[p] \in Delivers /\ WalkOK(p)
  BY DEF TypeInv, TypeOK, PushLocals, WalkInv
<1>2. table \in Seq(Route) /\ Len(table) \in Nat /\ DOMAIN table = 1 .. Len(table)
  BY <1>1 DEF RouteTypes
<1>3. ASSUME Allocated(node[p]), Code[item[p]] \in table[node[p][2]].matches
      PROVE  Good(item[p], table[node[p][2]].target)
  <2> DEFINE k == node[p][2]
  <2>1. k \in 1 .. Len(table) /\ \A j \in 1 .. k - 1 : Code[item[p]] \notin table[j].matches
    BY <1>1, <1>3 DEF Allocated, WalkOK
  <2>2. PICK t \in past : Len(table) <= Len(t) /\ \A j \in 1 .. Len(table) : table[j] = t[j]
    BY DEF TableInv, BeginsOne
  <2>3. t \in Seq(Route) /\ Len(t) \in Nat
    BY <1>1, PastType
  <2>4. k \in DOMAIN t /\ \A j \in 1 .. k - 1 : j \in 1 .. Len(table)
    BY <1>2, <2>1, <2>2, <2>3
  <2>5. Code[item[p]] \in t[k].matches /\ t[k].target = table[k].target
    BY <1>3, <2>1, <2>2
  <2>6. \A j \in 1 .. k - 1 : Code[item[p]] \notin t[j].matches
    BY <2>1, <2>2, <2>4
  <2> HIDE DEF k
  <2>7. Named(t, item[p]) = t[k].target
    BY <2>3, <2>4, <2>5, <2>6, NamedFirst
  <2>8. item[p] \notin Reports
    BY <1>1, DeliveryAssumption
  <2> QED BY <2>5, <2>7, <2>8 DEF Good, k
<1>4. ASSUME node[p][2] = 0, item[p] \notin overlap PROVE Stray(item[p])
  <2>1. ~Rebuilding /\ \A j \in 1 .. Len(table) : Code[item[p]] \notin table[j].matches
    BY <1>1, <1>4 DEF WalkOK
  <2>2. table \in past
    BY <2>1 DEF TableInv
  <2>3. Named(table, item[p]) = Nobody
    BY <1>2, <2>1, NamedNone
  <2> QED BY <2>2, <2>3 DEF Stray
<1> QED BY <1>3, <1>4 DEF Stray

\* A node is read after it was freed only by a walk that met a rebuilding.
LEMMA FreedStray ==
  ASSUME TypeInv, WalkInv, NEW p \in Pushers, ppc[p] = "walk", node[p][2] # 0,
         ~Allocated(node[p])
  PROVE  Stray(item[p])
<1>1. WalkOK(p) /\ node[p] \in Nat \X Nat /\ table \in Seq(Route)
  BY DEF TypeInv, TypeOK, PushTypes, RouteTypes, WalkInv
<1>2. node[p][2] \in Nat /\ Len(table) \in Nat
  BY <1>1
<1>3. item[p] \in overlap
  BY <1>1, <1>2 DEF WalkOK, Allocated
<1> QED BY <1>3 DEF Stray

\* What was in use and what met a rebuilding is remembered; queues keep place and owner.
Grows   == past \subseteq past' /\ torn \subseteq torn' /\ overlap \subseteq overlap'
IdsKept == \A k \in DOMAIN pool : k \in DOMAIN pool' /\ pool'[k].id = pool[k].id

\* The threads that take no step hold what they held.
LEMMA HandsStay ==
  ASSUME TypeInv, CarryInv, Grows, IdsKept, NEW P,
         \A q \in Pushers \ P : /\ ppc'[q] = ppc[q] /\ item'[q] = item[q]
                                /\ account'[q] = account[q] /\ queue'[q] = queue[q],
         \A q \in Pushers \cap P : HandOK(q)'
  PROVE  \A q \in Pushers : HandOK(q)'
<1> SUFFICES ASSUME NEW q \in Pushers \ P PROVE HandOK(q)'
  OBVIOUS
<1>1. HandOK(q) /\ (\A x, a : Good(x, a) => Good(x, a)') /\ (\A x : Stray(x) => Stray(x)')
  BY GoodStays DEF CarryInv, Grows
<1>2. ppc[q] = "push" => queue[q] \in DOMAIN pool
  BY DEF TypeInv, TypeOK, PushTypes, PushLocals, QueueTypes
<1> QED BY <1>1, <1>2 DEF HandOK, IdsKept

\* A step that leaves the queues and the threads that pull alone.
LEMMA CarryFrame ==
  ASSUME CarryInv, Grows, \A q \in Pushers : HandOK(q)',
         UNCHANGED <<pool, reader, mine, taken, storage, written>>
  PROVE  CarryInv'
<1>1. (\A x, a : Good(x, a) => Good(x, a)') /\ (\A x : Stray(x) => Stray(x)')
  BY GoodStays DEF Grows
<1>2. ReadersOK'
  BY DEF CarryInv, ReadersOK
<1>3. QueuesOK'
  BY <1>1 DEF CarryInv, QueuesOK
<1>4. TakenOK' /\ StoredOK'
  BY <1>1 DEF CarryInv, TakenOK, StoredOK
<1> QED BY <1>2, <1>3, <1>4 DEF CarryInv

\* A push thread with an account has an account that may get the item.
LEMMA CarryPushWalk ==
  ASSUME TypeInv, OwnerInv, NEW p \in Pushers, Push(p),
         ~PushCreate(p), ~PushQueue(p), ~PushStore(p)
  PROVE  CarryInv'
<1> USE DEF history, pullVars
<1>1. PushTypes /\ QueueTypes /\ PushLocals /\ CarryInv
  BY DEF TypeInv, TypeOK, OwnerInv
<1>2. UNCHANGED <<pool, reader, mine, taken, storage, written>> /\ Grows
  BY DEF Push, PushStart, PushTest, PushIdle, PushRecv, PushWalk, PushWalkEnd, PushWalkFreed,
         PushFind, Grows
<1>3. \A q \in Pushers \ {p} : /\ ppc'[q] = ppc[q] /\ item'[q] = item[q]
                               /\ account'[q] = account[q] /\ queue'[q] = queue[q]
  BY <1>1 DEF PushTypes, Push, PushStart, PushTest, PushIdle, PushRecv, PushWalk, PushWalkEnd,
              PushWalkFreed, PushFind
<1>4. HandOK(p)'
  <2>1. CASE PushStart(p) \/ PushTest(p) \/ \E ends \in BOOLEAN : PushIdle(p, ends)
    BY <1>1, <2>1 DEF PushTypes, PushStart, PushTest, PushIdle, HandOK
  <2>2. ASSUME NEW x \in Items, PushRecv(p, x) PROVE HandOK(p)'
    <3>1. CASE x \in Reports
      <4>1. ppc'[p] = "find" /\ item'[p] = x /\ account'[p] = Of[x]
        BY <1>1, <2>2, <3>1 DEF PushTypes, PushRecv
      <4> QED BY <3>1, <4>1 DEF HandOK, Good
    <3>2. CASE x \notin Reports
      <4>1. ppc'[p] = "walk"
        BY <1>1, <2>2, <3>2 DEF PushTypes, PushRecv
      <4> QED BY <4>1 DEF HandOK
    <3> QED BY <3>1, <3>2
  <2>3. CASE PushWalk(p)
    <3> DEFINE r == table[node[p][2]]
    <3>1. CASE Code[item[p]] \in r.matches
      <4>1. ppc'[p] = "find" /\ item'[p] = item[p] /\ account'[p] = r.target
        BY <1>1, <2>3, <3>1 DEF PushTypes, PushWalk
      <4>2. Good(item[p], r.target)
        BY <2>3, <3>1, WalkNames DEF PushWalk, OwnerInv
      <4>3. UNCHANGED <<past, torn>>
        BY <2>3 DEF PushWalk
      <4> HIDE DEF r
      <4> QED BY <4>1, <4>2, <4>3 DEF HandOK, Good
    <3>2. CASE Code[item[p]] \notin r.matches
      <4>1. ppc'[p] = "walk"
        BY <1>1, <2>3, <3>2 DEF PushTypes, PushWalk
      <4> QED BY <4>1 DEF HandOK
    <3> QED BY <3>1, <3>2
  <2>4. CASE PushWalkEnd(p)
    <3>1. ppc'[p] = "store" /\ item'[p] = item[p] /\ UNCHANGED <<past, overlap>>
      BY <1>1, <2>4 DEF PushTypes, PushWalkEnd
    <3>2. Stray(item[p])
      BY <2>4, WalkNames DEF PushWalkEnd, OwnerInv
    <3> QED BY <3>1, <3>2 DEF HandOK, Stray
  <2>5. ASSUME NEW a \in Accounts \cup {Nobody}, PushWalkFreed(p, a) PROVE HandOK(p)'
    <3>1. /\ ppc'[p] = IF a = Nobody THEN "store" ELSE "find"
          /\ item'[p] = item[p] /\ item[p] \in torn'
          /\ item[p] \in Delivers /\ UNCHANGED <<past, overlap>>
      BY <1>1, <2>5 DEF PushTypes, PushLocals, PushWalkFreed
    <3>2. item[p] \notin Reports
      BY <3>1, DeliveryAssumption
    <3>3. a = Nobody => Stray(item[p])
      BY <1>1, <2>5, FreedStray DEF PushWalkFreed, OwnerInv
    <3> QED BY <3>1, <3>2, <3>3 DEF HandOK, Good, Stray
  <2>6. CASE PushFind(p)
    <3> DEFINE k == Find(pool, account[p])
    <3>1. /\ ppc[p] = "find" /\ ppc'[p] = IF k = 0 THEN "create" ELSE "push"
          /\ queue'[p] = k /\ UNCHANGED <<item, account, pool, past, torn>>
      BY <1>1, <2>6 DEF PushTypes, PushFind
    <3>2. k # 0 => pool[k].id = account[p]
      BY <1>1, FindWorks, PoolType
    <3>3. Good(item[p], account[p])
      BY <1>1, <3>1 DEF CarryInv, HandOK
    <3> HIDE DEF k
    <3> QED BY <3>1, <3>2, <3>3 DEF HandOK, Good
  <2> QED BY <2>1, <2>2, <2>3, <2>4, <2>5, <2>6 DEF Push
<1>5. \A q \in Pushers : HandOK(q)'
  <2>1. \A q \in Pushers \cap {p} : HandOK(q)'
    BY <1>4
  <2>2. IdsKept
    BY <1>2 DEF IdsKept
  <2> QED BY <1>1, <1>2, <1>3, <2>1, <2>2, HandsStay
<1> QED BY <1>1, <1>2, <1>5, CarryFrame

\* A queue that is created is empty.
LEMMA CarryNewQueue ==
  ASSUME TypeInv, CarryInv, Grows, NEW a \in Accounts, pool' = WithQueue(a)
  PROVE  IdsKept /\ QueuesOK' /\ pool'[Len(pool) + 1].id = a
<1>1. QueueTypes /\ QueuesOK
  BY DEF TypeInv, TypeOK, CarryInv
<1>2. pool \in Seq(Queues) /\ Len(pool) \in Nat /\ DOMAIN pool = 1 .. Len(pool)
  BY <1>1, PoolType
<1>3. /\ pool' \in Seq(Queues) /\ Len(pool') = Len(pool) + 1
      /\ \A k \in DOMAIN pool : pool'[k] = pool[k]
      /\ pool'[Len(pool) + 1] = [id |-> a, items |-> <<>>]
  BY <1>1, WithQueueType
<1>4. DOMAIN pool' = 1 .. Len(pool) + 1
  BY <1>2, <1>3
<1>5. pool'[Len(pool) + 1].id = a /\ pool'[Len(pool) + 1].items = <<>>
  BY <1>3
<1>6. IdsKept
  BY <1>2, <1>3, <1>4 DEF IdsKept
<1>7. \A k \in DOMAIN pool' : k \in DOMAIN pool \/ k = Len(pool) + 1
  BY <1>2, <1>4
<1>8. \A x, b : Good(x, b) => Good(x, b)'
  BY GoodStays DEF Grows
<1>9. \A j \in DOMAIN <<>> : FALSE
  OBVIOUS
<1>10. QueuesOK'
  BY <1>1, <1>3, <1>5, <1>7, <1>8, <1>9 DEF QueuesOK
<1> QED BY <1>5, <1>6, <1>10

\* One queue is changed, and what it holds then it may hold.
LEMMA CarryChanged ==
  ASSUME TypeInv, CarryInv, \A x, a : Good(x, a) => Good(x, a)',
         NEW k \in DOMAIN pool, NEW s, Changed(pool', k, s),
         \A j \in DOMAIN s : Good(s[j], pool[k].id)
  PROVE  IdsKept /\ QueuesOK'
<1>1. pool \in Seq(Queues) /\ QueuesOK
  BY PoolType DEF TypeInv, TypeOK, CarryInv
<1>2. /\ DOMAIN pool' = DOMAIN pool
      /\ \A j \in DOMAIN pool : pool'[j].id = pool[j].id
      /\ pool'[k].items = s
      /\ \A j \in DOMAIN pool \ {k} : pool'[j] = pool[j]
  BY <1>1 DEF Changed
<1> QED BY <1>1, <1>2 DEF IdsKept, QueuesOK

\* A thread creates a queue for the account it has, appends to a queue of that account,
\* or leaves a message to nobody.
LEMMA CarryPushQueues ==
  ASSUME TypeInv, CarryInv, NEW p \in Pushers, PushCreate(p) \/ PushQueue(p) \/ PushStore(p)
  PROVE  CarryInv'
<1> USE DEF history, pullVars
<1>1. PushTypes /\ QueueTypes /\ PullTypes /\ PushLocals /\ PullLocals /\ HandOK(p)
  BY DEF TypeInv, TypeOK, CarryInv
<1>2. UNCHANGED <<reader, mine, taken, past, torn, overlap, written>> /\ Grows
  BY DEF PushCreate, PushQueue, PushStore, Grows
<1>3. \A q \in Pushers \ {p} : /\ ppc'[q] = ppc[q] /\ item'[q] = item[q]
                               /\ account'[q] = account[q] /\ queue'[q] = queue[q]
  BY <1>1 DEF PushTypes, PushCreate, PushQueue, PushStore, PushDone
<1>4. pool \in Seq(Queues) /\ DOMAIN pool = 1 .. Len(pool)
  BY <1>1, PoolType
<1>5. (\A x, a : Good(x, a) => Good(x, a)') /\ (\A x : Stray(x) => Stray(x)')
  BY <1>2, GoodStays DEF Grows
<1>6. IdsKept /\ QueuesOK' /\ HandOK(p)'
  <2>1. CASE PushCreate(p)
    <3>1. /\ ppc[p] = "create" /\ account[p] \in Accounts /\ pool' = WithQueue(account[p])
          /\ ppc'[p] = "push" /\ item'[p] = item[p] /\ account'[p] = account[p]
          /\ queue'[p] = Len(pool) + 1
      BY <1>1, <2>1 DEF PushTypes, PushLocals, PushCreate
    <3>2. IdsKept /\ QueuesOK' /\ pool'[Len(pool) + 1].id = account[p]
      BY <1>2, <3>1, CarryNewQueue
    <3>3. Good(item[p], account[p])'
      BY <1>1, <1>2, <3>1, SMTT(30) DEF HandOK, Good, PushCreate
    <3> QED BY <3>1, <3>2, <3>3 DEF HandOK
  <2>2. CASE PushQueue(p)
    <3> DEFINE k == queue[p]
               s == Append(pool[k].items, item[p])
    <3>1. k \in DOMAIN pool /\ item[p] \in Items /\ ppc[p] = "push"
      BY <1>1, <1>4, <2>2 DEF PushTypes, PushLocals, PushQueue
    <3>2. Changed(pool', k, s)
      BY <1>1, <2>2, <3>1, AppendType DEF PushQueue
    <3>3. Good(item[p], pool[k].id)
      BY <1>1, <3>1 DEF HandOK
    <3>4. pool[k].items \in Seq(Items)
      BY <1>1, <3>1, PoolType
    <3>5. \A j \in DOMAIN s : \/ j \in DOMAIN pool[k].items /\ s[j] = pool[k].items[j]
                              \/ s[j] = item[p]
      BY <3>4
    <3>6. \A j \in DOMAIN s : Good(s[j], pool[k].id)
      BY <3>1, <3>3, <3>5 DEF CarryInv, QueuesOK
    <3> HIDE DEF s, k
    <3>7. IdsKept /\ QueuesOK'
      BY <1>5, <3>1, <3>2, <3>6, CarryChanged
    <3>8. ppc'[p] = "test"
      BY <1>1, <2>2 DEF PushTypes, PushQueue, PushDone
    <3> QED BY <3>7, <3>8 DEF HandOK
  <2>3. CASE PushStore(p)
    <3>1. UNCHANGED pool /\ ppc'[p] = "test"
      BY <1>1, <2>3 DEF PushTypes, PushStore, PushDone
    <3>2. IdsKept
      BY <3>1 DEF IdsKept
    <3> QED BY <1>5, <3>1, <3>2 DEF HandOK, CarryInv, QueuesOK
  <2> QED BY <2>1, <2>2, <2>3
<1>7. \A q \in Pushers : HandOK(q)'
  <2>1. \A q \in Pushers \cap {p} : HandOK(q)'
    BY <1>6
  <2> QED BY <1>2, <1>3, <1>6, <2>1, HandsStay
<1>8. ReadersOK'
  <2>1. \A a \in Accounts : reader[a] = "serve" => mine[a] \in DOMAIN pool
    BY <1>1, <1>4 DEF PullTypes, PullLocals
  <2> QED BY <1>2, <1>6, <2>1 DEF CarryInv, ReadersOK, IdsKept
<1>9. TakenOK'
  BY <1>2, <1>5 DEF CarryInv, TakenOK
<1>10. StoredOK'
  <2>1. \A k \in DOMAIN storage' : Stray(storage'[k])
    <3>1. CASE PushStore(p)
      <4>1. storage' = Append(storage, item[p]) /\ Stray(item[p]) /\ storage \in Seq(Delivers)
        BY <1>1, <3>1 DEF PushStore, HandOK, QueueTypes
      <4>2. \A k \in DOMAIN storage' : \/ k \in DOMAIN storage /\ storage'[k] = storage[k]
                                       \/ storage'[k] = item[p]
        BY <4>1
      <4> QED BY <4>1, <4>2 DEF CarryInv, StoredOK
    <3>2. CASE ~PushStore(p)
      BY <3>2 DEF PushCreate, PushQueue, CarryInv, StoredOK
    <3> QED BY <3>1, <3>2
  <2> QED BY <1>2, <1>5, <2>1 DEF CarryInv, StoredOK
<1> QED BY <1>6, <1>7, <1>8, <1>9, <1>10 DEF CarryInv

\* A pull thread takes from the queue of its account.
LEMMA CarryPull ==
  ASSUME TypeInv, CarryInv, NEW a \in Accounts,
         \/ PullStart(a) \/ PullFind(a) \/ PullCreate(a) \/ PullExit(a)
         \/ \E arrives \in BOOLEAN : Pull(a, arrives)
  PROVE  CarryInv'
<1> USE DEF history, pushVars, pullVars
<1>1. QueueTypes /\ PullTypes /\ PullLocals
  BY DEF TypeInv, TypeOK
<1>2. UNCHANGED <<ppc, item, account, queue, past, torn, overlap, storage, written>> /\ Grows
  BY DEF PullStart, PullFind, PullCreate, PullExit, Pull, Grows
<1>3. pool \in Seq(Queues) /\ DOMAIN pool = 1 .. Len(pool)
  BY <1>1, PoolType
<1>4. (\A x, b : Good(x, b) => Good(x, b)') /\ (\A x : Stray(x) => Stray(x)')
  BY <1>2, GoodStays DEF Grows
<1>5. \A b \in Accounts : reader[b] = "serve" => mine[b] \in DOMAIN pool
  BY <1>1, <1>3 DEF PullTypes, PullLocals
<1>6. StoredOK'
  BY <1>2, <1>4 DEF CarryInv, StoredOK
<1>7. IdsKept /\ QueuesOK' /\ TakenOK' /\ ReadersOK'
  <2>1. CASE PullStart(a) \/ PullExit(a)
    <3>1. UNCHANGED <<pool, taken>>
      BY <2>1 DEF PullStart, PullExit
    <3>2. \A b \in Accounts : reader'[b] = "serve" => reader[b] = "serve" /\ mine'[b] = mine[b]
      BY <1>1, <2>1 DEF PullTypes, PullStart, PullExit
    <3> QED BY <1>4, <3>1, <3>2 DEF IdsKept, CarryInv, QueuesOK, TakenOK, ReadersOK
  <2>2. CASE PullFind(a)
    <3> DEFINE k == Find(pool, a)
    <3>1. /\ UNCHANGED <<pool, taken>>
          /\ mine' = [mine EXCEPT ![a] = k]
          /\ reader' = [reader EXCEPT ![a] = IF k = 0 THEN "create" ELSE "serve"]
      BY <2>2 DEF PullFind
    <3>2. k # 0 => pool[k].id = a
      BY <1>3, FindWorks
    <3> HIDE DEF k
    <3>3. ReadersOK'
      BY <1>1, <3>1, <3>2 DEF PullTypes, CarryInv, ReadersOK
    <3> QED BY <1>4, <3>1, <3>3 DEF IdsKept, CarryInv, QueuesOK, TakenOK
  <2>3. CASE PullCreate(a)
    <3>1. /\ pool' = WithQueue(a) /\ mine' = [mine EXCEPT ![a] = Len(pool) + 1]
          /\ reader' = [reader EXCEPT ![a] = "serve"] /\ UNCHANGED taken
      BY <2>3 DEF PullCreate
    <3>2. IdsKept /\ QueuesOK' /\ pool'[Len(pool) + 1].id = a
      BY <1>2, <3>1, CarryNewQueue
    <3>3. mine'[a] = Len(pool) + 1 /\ \A b \in Accounts \ {a} :
                                        reader'[b] = reader[b] /\ mine'[b] = mine[b]
      BY <1>1, <3>1 DEF PullTypes
    <3>4. ReadersOK'
      BY <1>5, <3>2, <3>3 DEF CarryInv, ReadersOK, IdsKept
    <3> QED BY <1>4, <3>1, <3>2, <3>4 DEF CarryInv, TakenOK
  <2>4. ASSUME NEW arrives \in BOOLEAN, Pull(a, arrives)
        PROVE  IdsKept /\ QueuesOK' /\ TakenOK' /\ ReadersOK'
    <3> DEFINE k == mine[a]
               s == Tail(pool[k].items)
    <3>1. k \in DOMAIN pool /\ pool[k].id = a
      BY <1>5, <2>4 DEF Pull, CarryInv, ReadersOK
    <3>2. pool[k].items \in Seq(Items) /\ pool[k].items # <<>>
      BY <1>1, <2>4, <3>1, PoolType DEF Pull
    <3>3. Changed(pool', k, s)
      BY <1>1, <2>4, <3>1, <3>2, TailType DEF Pull
    <3>4. \A j \in DOMAIN s : j + 1 \in DOMAIN pool[k].items /\ s[j] = pool[k].items[j + 1]
      BY <3>2
    <3>5. 1 \in DOMAIN pool[k].items /\ Head(pool[k].items) = pool[k].items[1]
      BY <3>2
    <3>6. \A j \in DOMAIN s : Good(s[j], pool[k].id)
      BY <3>1, <3>4 DEF CarryInv, QueuesOK
    <3>7. Good(Head(pool[k].items), a)
      BY <3>1, <3>5 DEF CarryInv, QueuesOK
    <3>8. TakenOK'
      <4>1. taken' = [taken EXCEPT ![a] =
                        IF arrives THEN @ \cup {Head(pool[k].items)} ELSE @]
        BY <2>4 DEF Pull
      <4>2. \A b \in Accounts : \A x \in taken'[b] :
              x \in taken[b] \/ (b = a /\ x = Head(pool[k].items))
        BY <1>1, <4>1 DEF PullTypes
      <4> QED BY <1>4, <3>7, <4>2 DEF CarryInv, TakenOK
    <3> HIDE DEF s, k
    <3>9. IdsKept /\ QueuesOK'
      BY <1>4, <3>1, <3>3, <3>6, CarryChanged
    <3>10. UNCHANGED <<reader, mine>>
      BY <2>4 DEF Pull
    <3>11. ReadersOK'
      BY <1>5, <3>9, <3>10 DEF CarryInv, ReadersOK, IdsKept
    <3> QED BY <3>8, <3>9, <3>11
  <2> QED BY <2>1, <2>2, <2>3, <2>4
<1>8. \A q \in Pushers : HandOK(q)'
  <2>1. \A q \in Pushers \ {} : /\ ppc'[q] = ppc[q] /\ item'[q] = item[q]
                                /\ account'[q] = account[q] /\ queue'[q] = queue[q]
    BY <1>2
  <2>3. \A q \in Pushers \cap {} : HandOK(q)'
    OBVIOUS
  <2> QED BY <1>2, <1>7, <2>1, <2>3, HandsStay
<1> QED BY <1>6, <1>7, <1>8 DEF CarryInv

\* The storage thread, lamb_stat_loop and the pages give nobody anything.
LEMMA CarryRest ==
  ASSUME TypeInv, CarryInv,
         \/ \E done \in BOOLEAN : StoreWrite(done)
         \/ Stat
         \/ \E t \in Tables : WebChange(t)
         \/ WebSignal
  PROVE  CarryInv'
<1> USE DEF history, pushVars, pullVars
<1>1. UNCHANGED <<ppc, item, account, queue, pool, reader, mine, taken>> /\ Grows
  BY DEF StoreWrite, WriteDeliver, Stat, StatRead, StatClear, ReloadRaise, ReloadRemove,
         ReloadQuery, ReloadFill, ReloadDone, WebChange, WebSignal, Grows
<1>2. \A q \in Pushers : HandOK(q)'
  <2>1. \A q \in Pushers \ {} : /\ ppc'[q] = ppc[q] /\ item'[q] = item[q]
                                /\ account'[q] = account[q] /\ queue'[q] = queue[q]
    BY <1>1
  <2>2. IdsKept
    BY <1>1 DEF IdsKept
  <2>3. \A q \in Pushers \cap {} : HandOK(q)'
    OBVIOUS
  <2> QED BY <1>1, <2>1, <2>2, <2>3, HandsStay
<1>3. ASSUME NEW done \in BOOLEAN, StoreWrite(done) PROVE CarryInv'
  <2>1. /\ storage \in Seq(Delivers) /\ storage # <<>> /\ storage' = Tail(storage)
        /\ written' = IF done THEN written \cup {Head(storage)} ELSE written
        /\ UNCHANGED <<past, torn, overlap>>
    BY <1>3 DEF StoreWrite, WriteDeliver, TypeInv, TypeOK, QueueTypes
  <2>2. \A k \in DOMAIN storage' : k + 1 \in DOMAIN storage /\ storage'[k] = storage[k + 1]
    BY <2>1
  <2>3. 1 \in DOMAIN storage /\ Head(storage) = storage[1]
    BY <2>1
  <2>4. \A x : Stray(x) => Stray(x)'
    BY <2>1 DEF Stray
  <2>5. Stray(Head(storage))
    BY <2>3 DEF CarryInv, StoredOK
  <2>6. \A x \in written' : x \in written \/ x = Head(storage)
    BY <2>1
  <2>7. \A k \in DOMAIN storage' : Stray(storage'[k])
    BY <2>2 DEF CarryInv, StoredOK
  <2>8. StoredOK'
    BY <2>4, <2>5, <2>6, <2>7 DEF CarryInv, StoredOK
  <2>9. \A x, a : Good(x, a) => Good(x, a)'
    BY <1>1, GoodStays DEF Grows
  <2> QED BY <1>1, <1>2, <2>8, <2>9 DEF CarryInv, ReadersOK, QueuesOK, TakenOK
<1>4. CASE Stat \/ (\E t \in Tables : WebChange(t)) \/ WebSignal
  <2>1. UNCHANGED <<storage, written>>
    BY <1>4 DEF Stat, StatRead, StatClear, ReloadRaise, ReloadRemove, ReloadQuery, ReloadFill,
                ReloadDone, WebChange, WebSignal
  <2> QED BY <1>1, <1>2, <2>1, CarryFrame
<1> QED BY <1>3, <1>4

\* An account gets its own reports and the messages that a routing list in use names it
\* for (delivery.c:402-501, 298-336), whatever the number of gateways, the lists and the
\* order of receiving and reloading, but for nodes read after they were freed.
THEOREM RightAccountsGetThem == Spec => []RightAccount
<1>1. Init => OwnerInv
  <2> SUFFICES ASSUME Init PROVE OwnerInv
    OBVIOUS
  <2>1. Table0 \in Seq(Route)
    BY DeliveryAssumption
  <2>2. TableInv
    <3>1. table \in past /\ rpc = "read" /\ Len(table) \in Nat
      BY <2>1 DEF Init
    <3> QED BY <3>1 DEF TableInv, BeginsOne, Rebuilding
  <2>3. WalkInv
    BY DEF Init, WalkInv
  <2>4. CarryInv
    BY DEF Init, CarryInv, HandOK, ReadersOK, QueuesOK, TakenOK, StoredOK
  <2> QED BY <2>2, <2>3, <2>4 DEF OwnerInv
<1>2. TypeInv /\ OwnerInv /\ [Next]_vars => OwnerInv'
  <2> SUFFICES ASSUME TypeInv, OwnerInv, [Next]_vars PROVE OwnerInv'
    OBVIOUS
  <2> USE DEF OwnerInv
  <2>1. ASSUME NEW p \in Pushers, Push(p) PROVE OwnerInv'
    <3>1. UNCHANGED <<table, rpc, rows>> /\ past \subseteq past'
      BY <2>1 DEF Push, PushStart, PushTest, PushIdle, PushRecv, PushWalk, PushWalkEnd,
         PushWalkFreed, PushFind, PushCreate, PushQueue, PushStore, statVars, history
    <3> QED BY <2>1, <3>1, TableFrame, WalkPush, CarryPushWalk, CarryPushQueues
  <2>2. ASSUME NEW a \in Accounts,
               \/ PullStart(a) \/ PullFind(a) \/ PullCreate(a) \/ PullExit(a)
               \/ \E arrives \in BOOLEAN : Pull(a, arrives)
        PROVE  OwnerInv'
    <3>1. UNCHANGED <<table, rpc, rows, past, gen, overlap, ppc, item, node>>
      BY <2>2 DEF PullStart, PullFind, PullCreate, PullExit, Pull, statVars, history, pushVars
    <3>2. WalkInv'
      BY <3>1, WalkUnmoved
    <3> QED BY <2>2, <3>1, <3>2, TableFrame, CarryPull
  <2>3. CASE (\E done \in BOOLEAN : StoreWrite(done)) \/ (\E t \in Tables : WebChange(t))
             \/ WebSignal
    <3>1. UNCHANGED <<table, rpc, rows, past, gen, overlap, ppc, item, node>>
      BY <2>3 DEF StoreWrite, WriteDeliver, WebChange, WebSignal, statVars, history, pushVars
    <3>2. WalkInv'
      BY <3>1, WalkUnmoved
    <3> QED BY <2>3, <3>1, <3>2, TableFrame, CarryRest
  <2>4. CASE Stat
    BY <2>4, TableStat, WalkStat, CarryRest
  <2>5. CASE UNCHANGED vars
    <3>1. UNCHANGED <<ppc, item, account, node, queue, reader, mine, pool, table, gen, storage,
                      rpc, rows, written, taken, past, overlap, torn>>
      BY <2>5 DEF vars, pushVars, pullVars, statVars, history
    <3>2. WalkInv' /\ TableInv'
      BY <3>1, WalkUnmoved, TableFrame
    <3>3. Grows /\ \A q \in Pushers : HandOK(q)'
      BY <3>1 DEF Grows, HandOK, Good, Stray, CarryInv
    <3> QED BY <3>1, <3>2, <3>3, CarryFrame
  <2> QED BY <2>1, <2>2, <2>3, <2>4, <2>5 DEF Next
<1>3. TypeInv /\ OwnerInv => RightAccount
  BY OwnerGives DEF OwnerInv
<1> QED BY <1>1, <1>2, <1>3, TypeInvKept, PTL DEF Spec

=============================================================================
