--------------------------- MODULE ControlProofs ---------------------------
(***************************************************************************)
(* Proofs about Control, for any number of services, clients, processes   *)
(* and commands: its type invariant, one process for each lock file, one   *)
(* session for each client that has written its stamp, and the account of  *)
(* kills.                                                                  *)
(***************************************************************************)
EXTENDS Control, FiniteSetTheorems, TLAPS

USE ControlAssumption DEF Services, Names, Slots

-----------------------------------------------------------------------------
(* Type correctness *)

\* Initially all is well typed.
LEMMA TypeInit == Init => TypeOK
  BY DEF Init, TypeOK, Steps

\* A command, the daemon's delete and the clock keep the types.
LEMMA TypeOutside ==
  ASSUME TypeOK,
         \/ \E n \in Services : CommandStart(n)
         \/ \E n \in Names : CommandKill(n)
         \/ \E n \in Servers : Notify(n)
         \/ \E done \in BOOLEAN : DaemonDelete(done)
         \/ Second
  PROVE  TypeOK'
<1> USE DEF TypeOK, procVars, taskVars, loginVars, killVars
<1>1. ASSUME NEW n \in Services, CommandStart(n) PROVE TypeOK'
  BY <1>1 DEF CommandStart, AddTaskqueue
<1>2. ASSUME NEW n \in Names, CommandKill(n) PROVE TypeOK'
  BY <1>2 DEF CommandKill, IsValid, SetSignal
<1>3. ASSUME NEW n \in Servers, Notify(n) PROVE TypeOK'
  BY <1>3 DEF Notify, SetSignal
<1>4. ASSUME NEW done \in BOOLEAN, DaemonDelete(done) PROVE TypeOK'
  BY <1>4 DEF DaemonDelete
<1>5. CASE Second
  BY <1>5 DEF Second, Up
<1> QED BY <1>1, <1>2, <1>3, <1>4, <1>5

\* A turn of lamb_stat_loop keeps them, in a process and in a session.
LEMMA TypeStat ==
  ASSUME TypeOK, NEW i \in Slots, Stat(i)
  PROVE  TypeOK'
<1> USE DEF TypeOK, Steps, procVars, taskVars, loginVars, killVars
<1>1. CASE StatRead(i)
  BY <1>1 DEF StatRead
<1>2. CASE StatClear(i)
  BY <1>2 DEF StatClear
<1>3. CASE StatGoOn(i)
  BY <1>3 DEF StatGoOn
<1>4. CASE StatObey(i)
  BY <1>4 DEF StatObey, Release, Gone
<1> QED BY <1>1, <1>2, <1>3, <1>4 DEF Stat

\* So does a step of a process of a service.
LEMMA TypeProc ==
  ASSUME TypeOK, NEW i \in Procs, ProcStep(i)
  PROVE  TypeOK'
<1> USE DEF TypeOK, Steps, procVars, taskVars, loginVars, killVars
<1>1. CASE DaemonStart(i)
  BY <1>1 DEF DaemonStart
<1>2. CASE ProcLock(i)
  BY <1>2 DEF ProcLock
<1>3. CASE ProcRefused(i)
  BY <1>3 DEF ProcRefused, Gone
<1>4. CASE ProcReady(i)
  BY <1>4 DEF ProcReady
<1>5. CASE ProcFail(i)
  BY <1>5 DEF ProcFail, Release
<1>6. CASE ProcReturn(i)
  BY <1>6 DEF ProcReturn, Release, Gone
<1>7. CASE ProcCrash(i)
  BY <1>7 DEF ProcCrash, Gone
<1>8. CASE ProcExit(i)
  BY <1>8 DEF ProcExit, Gone
<1>9. CASE Stat(i)
  BY <1>9, TypeStat
<1> QED BY <1>1, <1>2, <1>3, <1>4, <1>5, <1>6, <1>7, <1>8, <1>9 DEF ProcStep

\* And a step of a session.
LEMMA TypeSession ==
  ASSUME TypeOK, NEW s \in Sessions, SessionStep(s)
  PROVE  TypeOK'
<1> USE DEF TypeOK, Steps, procVars, taskVars, loginVars, killVars
<1>1. ASSUME NEW c \in Clients, Login(c, s) PROVE TypeOK'
  BY <1>1 DEF Login, IsLogin
<1>2. CASE SessionUp(s)
  BY <1>2 DEF SessionUp
<1>3. CASE SessionReset(s)
  BY <1>3 DEF SessionReset
<1>4. CASE Renew(s)
  BY <1>4 DEF Renew, Up
<1>5. CASE SessionEnd(s)
  BY <1>5 DEF SessionEnd, Gone
<1>6. CASE Stat(s)
  BY <1>6, TypeStat
<1> QED BY <1>1, <1>2, <1>3, <1>4, <1>5, <1>6 DEF SessionStep

\* Processes, locks, tasks and stamps keep their types (TypeOK), however many
\* services, processes and sessions there are.
THEOREM TypesKept == Spec => []TypeOK
<1>1. TypeOK /\ [Next]_vars => TypeOK'
  <2> SUFFICES ASSUME TypeOK, [Next]_vars PROVE TypeOK'
    OBVIOUS
  <2>1. CASE UNCHANGED vars
    BY <2>1 DEF TypeOK, vars, procVars, taskVars, loginVars, killVars
  <2>2. CASE Next
    BY <2>2, TypeOutside, TypeProc, TypeSession DEF Next
  <2> QED BY <2>1, <2>2
<1> QED BY <1>1, TypeInit, PTL DEF Spec

-----------------------------------------------------------------------------
(* The lock file *)

Inside == {"init", "read", "clear", "obey"}

\* What makes LockRight inductive: the processes between taking and releasing the
\* lock are those with an open lock->fd, and the file of each is its own; a file
\* is left over from a crash or belongs to such a process.
LockInv ==
  /\ \A i \in Procs : i \in holds <=> pc[i] \in Inside
  /\ \A i \in holds : locked[name[i]] = i
  /\ \A n \in Services : locked[n] = None \/ n \in crashed
                           \/ (locked[n] \in holds /\ name[locked[n]] = n)

\* The lock invariant gives the property.
LEMMA LockGives == TypeOK /\ LockInv => LockRight
  BY DEF TypeOK, LockInv, LockRight, Running, Inside

\* A process takes or releases the lock for itself only.
LEMMA LockProc ==
  ASSUME TypeOK, LockInv, NEW i \in Procs, ProcStep(i)
  PROVE  LockInv'
<1> USE DEF LockInv, TypeOK, Inside, procVars, taskVars, loginVars, killVars
<1>1. CASE DaemonStart(i)
  BY <1>1 DEF DaemonStart
<1>2. CASE ProcLock(i)
  BY <1>2 DEF ProcLock
<1>3. CASE ProcRefused(i)
  BY <1>3 DEF ProcRefused, Gone
<1>4. CASE ProcReady(i)
  BY <1>4 DEF ProcReady
<1>5. CASE ProcFail(i)
  BY <1>5 DEF ProcFail, Release
<1>6. CASE ProcReturn(i)
  BY <1>6 DEF ProcReturn, Release, Gone
<1>7. CASE ProcCrash(i)
  BY <1>7 DEF ProcCrash, Gone
<1>8. CASE ProcExit(i)
  BY <1>8 DEF ProcExit, Gone
<1>9. CASE StatRead(i)
  BY <1>9 DEF StatRead
<1>10. CASE StatClear(i)
  BY <1>10 DEF StatClear
<1>11. CASE StatGoOn(i)
  BY <1>11 DEF StatGoOn
<1>12. CASE StatObey(i)
  BY <1>12 DEF StatObey, Release
<1> QED BY <1>1, <1>2, <1>3, <1>4, <1>5, <1>6, <1>7, <1>8, <1>9, <1>10, <1>11, <1>12
        DEF ProcStep, Stat

\* A session has no lock.
LEMMA LockSession ==
  ASSUME TypeOK, LockInv, NEW s \in Sessions, SessionStep(s)
  PROVE  LockInv'
<1> USE DEF LockInv, TypeOK, Inside, procVars, taskVars, loginVars, killVars
<1>1. /\ \A i \in Procs : pc'[i] = pc[i] /\ name'[i] = name[i]
      /\ UNCHANGED <<holds, locked, crashed>>
  BY DEF SessionStep, Login, SessionUp, SessionReset, Renew, SessionEnd, Stat,
         StatRead, StatClear, StatGoOn, StatObey, Gone
<1> QED BY <1>1

\* Nobody else touches a lock.
LEMMA LockNext ==
  ASSUME TypeOK, LockInv, [Next]_vars
  PROVE  LockInv'
<1>1. CASE UNCHANGED <<procVars, locked, crashed>>
  BY <1>1 DEF LockInv, procVars
<1>2. CASE Next
  BY <1>1, <1>2, LockProc, LockSession
  DEF Next, CommandStart, AddTaskqueue, CommandKill, IsValid, SetSignal, Notify,
      DaemonDelete, Second
<1> QED BY <1>1, <1>2 DEF vars

\* LockRight holds: two processes of a service are never inside at the same time
\* (common.c:363-391), and a lock file without a process is left behind by a crash
\* only, for any number of processes and commands.
THEOREM LocksAreRight == Spec => []LockRight
<1>1. Init => LockInv
  BY DEF Init, LockInv, Inside
<1>2. TypeOK /\ LockInv /\ [Next]_vars => LockInv'
  BY LockNext
<1> QED BY <1>1, <1>2, TypesKept, LockGives, PTL DEF Spec

-----------------------------------------------------------------------------
(* One session *)

\* What makes NoSecondSession inductive: the stamp of a session that renews is
\* no older than its last renewal.
Fresh == \A s \in renews : Up(s) /\ age[name[s]] <= idle[s]

\* Steps of sessions keep the stamps fresh, and nobody logs in beside a session
\* that renews.
LEMMA FreshSession ==
  ASSUME TypeOK, Fresh, NoSecondSession, NEW s \in Sessions, SessionStep(s)
  PROVE  Fresh' /\ NoSecondSession'
<1> USE DEF TypeOK, Fresh, NoSecondSession, Up, procVars, taskVars, loginVars, killVars
<1>1. ASSUME NEW c \in Clients, Login(c, s) PROVE Fresh' /\ NoSecondSession'
  <2>1. Of(c) \cap renews = {}
    BY <1>1 DEF Login, IsLogin, Of
  <2>2. QED BY <1>1, <2>1 DEF Login, IsLogin
<1>2. CASE SessionUp(s)
  BY <1>2 DEF SessionUp
<1>3. CASE SessionReset(s)
  BY <1>3 DEF SessionReset
<1>4. CASE Renew(s)
  BY <1>4 DEF Renew
<1>5. CASE SessionEnd(s)
  BY <1>5 DEF SessionEnd, Gone
<1>6. CASE StatRead(s)
  BY <1>6 DEF StatRead
<1>7. CASE StatClear(s)
  BY <1>7 DEF StatClear
<1>8. CASE StatGoOn(s)
  BY <1>8 DEF StatGoOn
<1>9. CASE StatObey(s)
  BY <1>9 DEF StatObey, Gone
<1> QED BY <1>1, <1>2, <1>3, <1>4, <1>5, <1>6, <1>7, <1>8, <1>9 DEF SessionStep, Stat

\* A process of a service has nothing to do with them.
LEMMA FreshProc ==
  ASSUME TypeOK, Fresh, NoSecondSession, NEW i \in Procs, ProcStep(i)
  PROVE  Fresh' /\ NoSecondSession'
<1> USE DEF TypeOK, procVars, taskVars, loginVars, killVars
<1>1. /\ \A s \in Sessions : pc'[s] = pc[s] /\ name'[s] = name[s]
      /\ UNCHANGED <<age, idle, renews, clash>>
  BY DEF ProcStep, DaemonStart, ProcLock, ProcRefused, ProcReady, ProcFail, ProcReturn,
         ProcCrash, ProcExit, Stat, StatRead, StatClear, StatGoOn, StatObey, Release, Gone
<1> QED BY <1>1 DEF Fresh, NoSecondSession, Up

\* A second makes all stamps older alike.
LEMMA FreshSecond ==
  ASSUME TypeOK, Fresh, Second
  PROVE  Fresh'
  BY DEF TypeOK, Fresh, Second, Up, procVars

\* NoSecondSession holds: once a session has written its stamp no other is admitted
\* beside it (ismg.c:250, 684-728), if it renews its stamp more often than the
\* window of the stamp ends, however many clients and sessions there are.
THEOREM SessionsAreAlone == Spec => []NoSecondSession
<1>1. Init => Fresh /\ NoSecondSession
  BY DEF Init, Fresh, NoSecondSession
<1>2. TypeOK /\ Fresh /\ NoSecondSession /\ [Next]_vars => Fresh' /\ NoSecondSession'
  <2> SUFFICES ASSUME TypeOK, Fresh, NoSecondSession, [Next]_vars
               PROVE  Fresh' /\ NoSecondSession'
    OBVIOUS
  <2>1. CASE UNCHANGED <<procVars, loginVars, clash>>
    BY <2>1 DEF Fresh, NoSecondSession, Up, procVars, loginVars
  <2>2. CASE Second
    BY <2>2, FreshSecond DEF Second, NoSecondSession
  <2>3. CASE Next
    BY <2>1, <2>2, <2>3, FreshProc, FreshSession
    DEF Next, CommandStart, AddTaskqueue, CommandKill, IsValid, SetSignal, Notify,
        DaemonDelete
  <2> QED BY <2>1, <2>3 DEF vars
<1> QED BY <1>1, <1>2, TypesKept, PTL DEF Spec

-----------------------------------------------------------------------------
(* The account of kills *)

\* A process of service n has read a kill and will obey it.
Dooms(n) == \E i \in Procs : name[i] = n /\ pc[i] \in {"clear", "obey"} /\ got[i] = 9

One(b) == IF b THEN 1 ELSE 0

\* KillsAccounted without the cardinality.
Account == \A n \in Services : kills[n] = obeyed[n] + lost[n] + One(Dooms(n)) + One(Unread(n))

\* By the lock at most one process of a service is inside.
LEMMA AtMostOne ==
  ASSUME TypeOK, LockInv, NEW i \in Procs, NEW j \in Procs, name[i] = name[j],
         pc[i] \in Inside, pc[j] \in Inside
  PROVE  i = j
  BY DEF TypeOK, LockInv

\* So the number of doomed processes is 0 or 1.
LEMMA DoomedCount ==
  ASSUME TypeOK, LockInv, NEW n \in Services
  PROVE  Cardinality(Doomed(n)) = One(Dooms(n))
<1>1. CASE Dooms(n)
  <2>1. PICK i \in Procs : name[i] = n /\ pc[i] \in {"clear", "obey"} /\ got[i] = 9
    BY <1>1 DEF Dooms
  <2>2. \A j \in Doomed(n) : j = i
    BY <2>1, AtMostOne DEF Doomed, Inside
  <2>3. Doomed(n) = {i}
    BY <2>1, <2>2 DEF Doomed
  <2> QED BY <1>1, <2>3, FS_Singleton DEF One
<1>2. CASE ~Dooms(n)
  <2>1. Doomed(n) = {}
    BY <1>2 DEF Dooms, Doomed
  <2> QED BY <1>2, <2>1, FS_EmptySet DEF One
<1> QED BY <1>1, <1>2

\* With at most one process for each service the case distinction is the count.
LEMMA AccountGives == TypeOK /\ LockInv /\ Account => KillsAccounted
  BY DoomedCount DEF Account, KillsAccounted, One

\* What a step that has nothing to do with kills leaves alone.
LEMMA AccountFrame ==
  ASSUME Account,
         UNCHANGED <<signal, killVars>>,
         \A n \in Services : Dooms(n)' = Dooms(n) /\ Reading(n)' = Reading(n)
  PROVE  Account'
  BY DEF Account, Unread, killVars, One

\* Kills and notifications overwrite what is unread.
LEMMA AccountCommand ==
  ASSUME TypeOK, LockInv, Account,
         \/ \E n \in Names : CommandKill(n)
         \/ \E n \in Servers : Notify(n)
  PROVE  Account'
<1>1. \A n \in Names : Dooms(n)' = Dooms(n) /\ Reading(n)' = Reading(n)
  BY DEF CommandKill, IsValid, SetSignal, Notify, Dooms, Reading, procVars
<1>2. ASSUME NEW n \in Names, CommandKill(n) PROVE Account'
  BY <1>1, <1>2 DEF CommandKill, IsValid, SetSignal, Account, Unread, One, TypeOK
<1>3. ASSUME NEW n \in Servers, Notify(n) PROVE Account'
  BY <1>1, <1>3 DEF Notify, SetSignal, Account, Unread, One, TypeOK, killVars
<1> QED BY <1>2, <1>3

\* A process that is inside decides alone whether its service has a doomed process
\* and one that reads.
LEMMA Alone ==
  ASSUME TypeOK, LockInv, NEW i \in Procs, pc[i] \in Inside
  PROVE  /\ Dooms(name[i]) <=> pc[i] \in {"clear", "obey"} /\ got[i] = 9
         /\ Reading(name[i]) <=> pc[i] = "clear" /\ got[i] = 9
<1>1. \A j \in Procs : name[j] = name[i] /\ pc[j] \in Inside => j = i
  BY AtMostOne
<1>2. \A s \in Sessions : name[s] # name[i]
  BY DEF TypeOK, Inside
<1> QED BY <1>1, <1>2 DEF Dooms, Reading, Inside

\* A step of process i changes nothing for the other services.
LEMMA Others ==
  ASSUME TypeOK, NEW i \in Slots, NEW n \in Services, n # name[i], n # name'[i],
         \A j \in Slots \ {i} : pc'[j] = pc[j] /\ name'[j] = name[j] /\ got'[j] = got[j]
  PROVE  Dooms(n)' = Dooms(n) /\ Reading(n)' = Reading(n)
  BY DEF Dooms, Reading

\* A turn of lamb_stat_loop: a kill moves from the field to the process and from
\* there to `obeyed', or is lost between HGET and HSET.
LEMMA AccountStat ==
  ASSUME TypeOK, LockInv, TypeOK', LockInv', Account, NEW i \in Procs, Stat(i)
  PROVE  Account'
<1> DEFINE n == name[i]
<1>1. n \in Services /\ pc[i] \in Inside
  BY DEF TypeOK, Stat, StatRead, StatClear, StatGoOn, StatObey, Inside
<1>2. /\ name' = name
      /\ \A j \in Slots \ {i} : pc'[j] = pc[j] /\ got'[j] = got[j]
      /\ \A m \in Services \ {n} : signal'[m] = signal[m] /\ kills'[m] = kills[m]
                                     /\ obeyed'[m] = obeyed[m] /\ lost'[m] = lost[m]
  BY DEF TypeOK, Stat, StatRead, StatClear, StatGoOn, StatObey, killVars
<1>3. \A m \in Services \ {n} : Dooms(m)' = Dooms(m) /\ Reading(m)' = Reading(m)
  BY <1>2, Others
<1>4. /\ Dooms(n) <=> pc[i] \in {"clear", "obey"} /\ got[i] = 9
      /\ Reading(n) <=> pc[i] = "clear" /\ got[i] = 9
  BY <1>1, Alone
<1>5. SUFFICES kills'[n] = obeyed'[n] + lost'[n] + One(Dooms(n)') + One(Unread(n)')
  BY <1>2, <1>3 DEF Account, Unread, One
<1>6. kills[n] = obeyed[n] + lost[n] + One(Dooms(n)) + One(Unread(n))
  BY <1>1 DEF Account
<1>7. pc'[i] \in Inside =>
        /\ Dooms(n)' <=> pc'[i] \in {"clear", "obey"} /\ got'[i] = 9
        /\ Reading(n)' <=> pc'[i] = "clear" /\ got'[i] = 9
  <2>1. ASSUME pc'[i] \in Inside, NEW j \in Procs, name'[j] = n, pc'[j] \in Inside
        PROVE  j = i
    BY <1>2, <2>1 DEF LockInv
  <2>2. \A s \in Sessions : name'[s] # n
    BY <1>1, <1>2 DEF TypeOK, Inside
  <2> QED BY <1>2, <2>1, <2>2 DEF Dooms, Reading, Inside
<1>8. pc'[i] \notin Inside => ~Dooms(n)' /\ ~Reading(n)'
  <2>1. ASSUME pc'[i] \notin Inside, NEW j \in Procs, name'[j] = n, pc'[j] \in Inside
        PROVE  FALSE
    <3>1. j # i /\ pc[j] \in Inside /\ name[j] = name[i]
      BY <1>2, <2>1
    <3> QED BY <1>1, <3>1, AtMostOne
  <2>2. \A s \in Sessions : name'[s] # n
    BY <1>1, <1>2 DEF TypeOK, Inside
  <2> QED BY <1>2, <2>1, <2>2 DEF Dooms, Reading, Inside
<1> HIDE DEF n
<1> USE <1>1, <1>4, <1>6, <1>7, <1>8 DEF Unread, One, TypeOK, Inside, killVars, n
<1>9. CASE StatRead(i)
  BY <1>9 DEF StatRead
<1>10. CASE StatClear(i)
  BY <1>10 DEF StatClear
<1>11. CASE StatGoOn(i)
  BY <1>11 DEF StatGoOn
<1>12. CASE StatObey(i)
  BY <1>12 DEF StatObey
<1> QED BY <1>9, <1>10, <1>11, <1>12 DEF Stat

\* A process that is started, refused, made ready or that leaves has read nothing; a
\* kill read by one that dies goes back to the field if that still holds it, and is
\* lost otherwise.
LEMMA AccountProc ==
  ASSUME TypeOK, LockInv, Account, NEW i \in Procs, ProcStep(i), ~Stat(i)
  PROVE  Account'
<1> USE DEF TypeOK, procVars, taskVars, loginVars, killVars
<1>1. CASE ~ProcCrash(i)
  <2>1. /\ \A j \in Slots \ {i} : pc'[j] = pc[j] /\ name'[j] = name[j] /\ got'[j] = got[j]
        /\ pc[i] \notin {"clear", "obey"} /\ pc'[i] \notin {"clear", "obey"}
        /\ UNCHANGED <<signal, killVars>>
    BY <1>1 DEF ProcStep, DaemonStart, ProcLock, ProcRefused, ProcReady, ProcFail,
                ProcReturn, ProcExit, Release, Gone
  <2>2. \A n \in Services : Dooms(n)' = Dooms(n) /\ Reading(n)' = Reading(n)
    BY <2>1 DEF Dooms, Reading
  <2> QED BY <2>1, <2>2, AccountFrame
<1>2. CASE ProcCrash(i)
  <2> DEFINE n == name[i]
  <2>1. /\ n \in Services
        /\ \A j \in Slots \ {i} : pc'[j] = pc[j] /\ name'[j] = name[j] /\ got'[j] = got[j]
        /\ pc'[i] = "off" /\ name'[i] = None
        /\ UNCHANGED <<signal, kills, obeyed>>
        /\ lost' = [lost EXCEPT ![n] = IF DiesWith(i) THEN @ + 1 ELSE @]
    BY <1>2 DEF ProcCrash, Gone
  <2>2. \A m \in Services \ {n} : Dooms(m)' = Dooms(m) /\ Reading(m)' = Reading(m)
    BY <2>1, Others
  <2>3. SUFFICES ASSUME NEW k \in Services, k = n
                 PROVE  kills'[k] = obeyed'[k] + lost'[k] + One(Dooms(k)') + One(Unread(k)')
    BY <2>1, <2>2 DEF Account, Unread, One
  <2>4. CASE pc[i] \in Inside
    <3>1. /\ Dooms(k) <=> pc[i] \in {"clear", "obey"} /\ got[i] = 9
          /\ Reading(k) <=> pc[i] = "clear" /\ got[i] = 9
      BY <2>3, <2>4, Alone
    <3>2. \A j \in Procs : name'[j] = k => pc'[j] \notin Inside
      BY <2>1, <2>3, <2>4, AtMostOne
    <3>3. \A s \in Sessions : name'[s] # k
      BY <2>1
    <3>4. ~Dooms(k)' /\ ~Reading(k)'
      BY <3>2, <3>3 DEF Dooms, Reading, Inside
    <3> QED BY <2>1, <2>3, <3>1, <3>4 DEF Account, Unread, One, DiesWith
  <2>5. CASE pc[i] \notin Inside
    <3>1. ~DiesWith(i)
      BY <2>5 DEF DiesWith, Inside
    <3>2. Dooms(k)' = Dooms(k) /\ Reading(k)' = Reading(k)
      BY <2>1, <2>5 DEF Dooms, Reading, Inside
    <3> QED BY <2>1, <2>3, <3>1, <3>2 DEF Account, Unread, One
  <2> QED BY <2>4, <2>5
<1> QED BY <1>1, <1>2

\* Sessions read the fields of clients.
LEMMA AccountSession ==
  ASSUME TypeOK, TypeOK', Account, NEW s \in Sessions, SessionStep(s)
  PROVE  Account'
<1> USE DEF TypeOK, procVars, taskVars, loginVars, killVars
<1>1. /\ \A j \in Slots \ {s} : pc'[j] = pc[j] /\ name'[j] = name[j] /\ got'[j] = got[j]
      /\ name[s] \notin Services /\ name'[s] \notin Services
      /\ \A n \in Services : signal'[n] = signal[n] /\ kills'[n] = kills[n]
                               /\ obeyed'[n] = obeyed[n] /\ lost'[n] = lost[n]
  BY SMTT(30)
  DEF SessionStep, Login, SessionUp, SessionReset, Renew, SessionEnd, Stat,
      StatRead, StatClear, StatGoOn, StatObey, Gone
<1>2. \A n \in Services : Dooms(n)' = Dooms(n) /\ Reading(n)' = Reading(n)
  BY <1>1, Others, SMTT(30)
<1> QED BY <1>1, <1>2 DEF Account, Unread, One

\* KillsAccounted holds: each kill of a service ends one process, waits in the field
\* or is lost in one of the ways counted (sp.c:887-906, server.c:1356-1374), for any
\* number of services, processes and commands.
THEOREM KillsAreAccounted == Spec => []KillsAccounted
<1>1. Init => LockInv /\ Account
  BY DEF Init, LockInv, Inside, Account, Dooms, Unread, One
<1>2. TypeOK /\ TypeOK' /\ LockInv /\ Account /\ [Next]_vars => LockInv' /\ Account'
  <2> SUFFICES ASSUME TypeOK, TypeOK', LockInv, Account, [Next]_vars
               PROVE  LockInv' /\ Account'
    OBVIOUS
  <2>1. LockInv'
    BY LockNext
  <2>2. CASE UNCHANGED <<procVars, signal, killVars>>
    <3>1. \A n \in Services : Dooms(n)' = Dooms(n) /\ Reading(n)' = Reading(n)
      BY <2>2 DEF Dooms, Reading, procVars
    <3> QED BY <2>1, <2>2, <3>1, AccountFrame
  <2>3. CASE Next
    <3>1. CASE \E i \in Procs : ProcStep(i)
      BY <2>1, <3>1, AccountStat, AccountProc
    <3>2. CASE \E s \in Sessions : SessionStep(s)
      BY <2>1, <3>2, AccountSession
    <3>3. CASE (\E n \in Names : CommandKill(n)) \/ (\E n \in Servers : Notify(n))
      BY <2>1, <3>3, AccountCommand
    <3> QED BY <2>2, <2>3, <3>1, <3>2, <3>3
            DEF Next, CommandStart, AddTaskqueue, DaemonDelete, Second
  <2> QED BY <2>2, <2>3 DEF vars
<1> QED BY <1>1, <1>2, TypesKept, AccountGives, PTL DEF Spec

=============================================================================
