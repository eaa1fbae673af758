------------------------------ MODULE Control ------------------------------
(***************************************************************************)
(* Who runs and who is told to stop: the daemon with its task queue        *)
(* (src/src/daemon.c), the start and end of the servers and gateways       *)
(* (server.c, sp.c, common.c), the sessions of the clients (ismg.c), and    *)
(* the commands of the operator (lamb.c) and of the web pages.             *)
(*                                                                         *)
(*  - A command `start' inserts a row; the daemon starts the newest row's  *)
(*    program and then deletes the row.  A program takes a lock file that  *)
(*    must not exist, and removes it when it ends regularly.               *)
(*  - A client's session is a process forked by lamb-ismg after a look at  *)
(*    a time stamp in the cache, which the process renews from its own     *)
(*    thread once it is connected.                                         *)
(*  - A command `kill' and the pages write a number into the field         *)
(*    `signal' of the cache.  The processes poll it: HGET, HSET 0, obey.   *)
(***************************************************************************)
EXTENDS Naturals, FiniteSets

CONSTANTS
  Servers, Gateways,  \* services, started by the daemon
  Clients,            \* accounts that log in
  Procs,              \* slots for processes of services
  Sessions,           \* slots for processes of clients
  None,               \* no value
  Window,             \* ismg.c:718: a stamp younger than this means `online'
  Renewal,            \* seconds between two renewals of a stamp, at most
  MaxStarts,          \* bound: start commands
  MaxSignals,         \* bound: kill commands and notifications
  MaxFaults,          \* bound: processes that die and rows that cannot be deleted
  MaxBirths           \* bound: processes started, for services and clients together

Services == Servers \cup Gateways
Names    == Services \cup Clients
Slots    == Procs \cup Sessions

ASSUME ControlAssumption ==
  /\ Servers \cap Gateways = {} /\ Services \cap Clients = {}
  /\ Procs \cap Sessions = {}
  /\ IsFiniteSet(Procs)
  /\ None \notin Names \cup Slots
  /\ Window \in Nat /\ Renewal \in Nat /\ Renewal < Window
  /\ {MaxStarts, MaxSignals, MaxFaults, MaxBirths} \subseteq Nat

VARIABLES
  \* processes of services and of clients
  births,   \* how many were started
  pc,       \* where a process is
  name,     \* which service or client it is for
  got,      \* the signal it has read
  holds,    \* processes whose lock->fd is open
  \* files and cache
  locked,   \* locked[n]: the process that made the lock file, None if there is none
  known,    \* services and clients with a hash in the cache
  signal,   \* signal[n]: the field `signal'
  \* the daemon
  tasks,    \* rows of the task queue: number and service
  task,     \* the row whose program was started
  starts,   \* rows inserted
  \* logins
  age,      \* age[c]: seconds since the stamp `online' was written, up to Window
  idle,     \* idle[s]: seconds since session s renewed the stamp
  renews,   \* sessions that have renewed it
  \* history
  signals, faults,
  crashed,  \* services of which a process died
  kills,    \* kills[n]: kill commands
  obeyed,   \* obeyed[n]: processes that ended for one
  lost,     \* lost[n]: kills overwritten, reset unread or read by a process that died
  clash     \* sessions admitted beside one that renewed its stamp

procVars  == <<births, pc, name, got, holds>>
taskVars  == <<tasks, task, starts>>
loginVars == <<age, idle, renews>>
killVars  == <<kills, obeyed, lost>>
vars == <<procVars, locked, known, signal, taskVars, loginVars, signals, faults,
          crashed, killVars, clash>>

Init ==
  /\ births = 0
  /\ pc = [i \in Slots |-> "off"]
  /\ name = [i \in Slots |-> None]
  /\ got = [i \in Slots |-> 0]
  /\ holds = {}
  /\ locked = [n \in Services |-> None]
  /\ known = {}
  /\ signal = [n \in Names |-> 0]
  /\ tasks = {} /\ task = None /\ starts = 0
  /\ age = [c \in Clients |-> Window]
  /\ idle = [s \in Sessions |-> 0]
  /\ renews = {}
  /\ signals = 0 /\ faults = 0 /\ crashed = {}
  /\ kills = [n \in Names |-> 0]
  /\ obeyed = [n \in Names |-> 0]
  /\ lost = [n \in Names |-> 0]
  /\ clash = {}

-----------------------------------------------------------------------------
(* Commands *)

\* A new row of the task queue.
AddTaskqueue(n) ==
  /\ starts' = starts + 1
  /\ tasks' = tasks \cup {[id |-> starts + 1, of |-> n]}

\* `start': a row, unless the database refuses it.
CommandStart(n) ==
  /\ starts < MaxStarts
  /\ AddTaskqueue(n)
  /\ UNCHANGED <<procVars, locked, known, signal, task, loginVars, signals,
                 faults, crashed, killVars, clash>>

\* A process has read a kill for n and not yet reset the field.
Reading(n) == \E i \in Slots : name[i] = n /\ pc[i] = "clear" /\ got[i] = 9

\* The field holds a kill for n that nobody has read.
Unread(n) == signal[n] = 9 /\ ~Reading(n)

\* The hash of n exists: n has been up or was notified.
IsValid(n) == n \in known

SetSignal(n, v) == signal' = [signal EXCEPT ![n] = v]

\* Mutant: the number of SIGTERM instead of that of SIGKILL.
CommandKillTerm(n) ==
  /\ signals < MaxSignals
  /\ IsValid(n)
  /\ signals' = signals + 1
  /\ SetSignal(n, 15)
  /\ kills' = [kills EXCEPT ![n] = @ + 1]
  /\ lost' = [lost EXCEPT ![n] = IF signal[n] = 9 \/ Reading(n) THEN @ + 1 ELSE @]
  /\ UNCHANGED <<procVars, locked, known, taskVars, loginVars, faults, crashed,
                 obeyed, clash>>

\* `kill': to a service or client that has ever been up, running or not.  It
\* overwrites one that is there, and is reset unread if one is being read.
CommandKill(n) ==
  /\ signals < MaxSignals
  /\ IsValid(n)
  /\ signals' = signals + 1
  /\ SetSignal(n, 9)
  /\ kills' = [kills EXCEPT ![n] = @ + 1]
  /\ lost' = [lost EXCEPT ![n] = IF signal[n] = 9 \/ Reading(n) THEN @ + 1 ELSE @]
  /\ UNCHANGED <<procVars, locked, known, taskVars, loginVars, faults, crashed,
                 obeyed, clash>>

\* The pages tell a server to load its data anew, whatever the field holds.
Notify(n) ==
  /\ signals < MaxSignals
  /\ signals' = signals + 1
  /\ SetSignal(n, 1)
  /\ known' = known \cup {n}
  /\ lost' = [lost EXCEPT ![n] = IF Unread(n) THEN @ + 1 ELSE @]
  /\ UNCHANGED <<procVars, locked, taskVars, loginVars, faults, crashed, kills,
                 obeyed, clash>>

-----------------------------------------------------------------------------
(* The daemon *)

Newest(r) == \A q \in tasks : q.id <= r.id

\* The newest row's program is started and goes on on its own ...
DaemonStart(i) ==
  /\ task = None
  /\ births < MaxBirths
  /\ pc[i] = "off"
  /\ births' = births + 1
  /\ pc' = [pc EXCEPT ![i] = "boot"]
  /\ \E r \in tasks :
       /\ Newest(r)
       /\ task' = r
       /\ name' = [name EXCEPT ![i] = r.of]
  /\ UNCHANGED <<got, holds, locked, known, signal, tasks, starts, loginVars,
                 signals, faults, crashed, killVars, clash>>

\* ... then the row is deleted.  If that fails, or the daemon dies before, it is
\* started again.
DaemonDelete(done) ==
  /\ task # None
  /\ task' = None
  /\ IF done THEN tasks' = tasks \ {task} /\ UNCHANGED faults
     ELSE faults < MaxFaults /\ faults' = faults + 1 /\ UNCHANGED tasks
  /\ UNCHANGED <<procVars, locked, known, signal, starts, loginVars, signals,
                 crashed, killVars, clash>>

-----------------------------------------------------------------------------
(* A process of a service: from its start to its end *)

\* The slot is free again.
Gone(i) ==
  /\ pc' = [pc EXCEPT ![i] = "off"]
  /\ name' = [name EXCEPT ![i] = None]
  /\ got' = [got EXCEPT ![i] = 0]

\* Mutant: open without O_EXCL.
ProcLockShared(i) ==
  /\ pc[i] = "boot"
  /\ holds' = holds \cup {i}
  /\ locked' = [locked EXCEPT ![name[i]] = i]
  /\ pc' = [pc EXCEPT ![i] = "init"]
  /\ UNCHANGED <<births, name, got, known, signal, taskVars, loginVars, signals, faults,
                 crashed, killVars, clash>>

\* lamb_lock_protection: the lock file must not exist ...
ProcLock(i) ==
  /\ pc[i] = "boot"
  /\ locked[name[i]] = None
  /\ holds' = holds \cup {i}
  /\ locked' = [locked EXCEPT ![name[i]] = i]
  /\ pc' = [pc EXCEPT ![i] = "init"]
  /\ UNCHANGED <<births, name, got, known, signal, taskVars, loginVars, signals, faults,
                 crashed, killVars, clash>>

\* ... otherwise the process ends.
ProcRefused(i) ==
  /\ pc[i] = "boot"
  /\ locked[name[i]] # None
  /\ Gone(i)
  /\ UNCHANGED <<births, holds, locked, known, signal, taskVars, loginVars, signals,
                 faults, crashed, killVars, clash>>

\* Mutant: the file is removed without a look at lock->fd.
ReleaseAlways(i) ==
  /\ holds' = holds \ {i}
  /\ locked' = [locked EXCEPT ![name[i]] = None]

\* lamb_lock_release: the file is removed by its name, if lock->fd is open.
Release(i) ==
  /\ holds' = holds \ {i}
  /\ locked' = IF i \in holds THEN [locked EXCEPT ![name[i]] = None] ELSE locked

\* lamb_component_initialization succeeds ...
ProcReady(i) ==
  /\ pc[i] = "init"
  /\ pc' = [pc EXCEPT ![i] = "read"]
  /\ UNCHANGED <<births, name, got, holds, locked, known, signal, taskVars, loginVars,
                 signals, faults, crashed, killVars, clash>>

\* ... or does not: the lock is released and the process returns to main.
ProcFail(i) ==
  /\ pc[i] = "init"
  /\ Release(i)
  /\ pc' = [pc EXCEPT ![i] = "return"]
  /\ UNCHANGED <<births, name, got, known, signal, taskVars, loginVars, signals, faults,
                 crashed, killVars, clash>>

\* main of a gateway releases once more, that of a server does not.
ProcReturn(i) ==
  /\ pc[i] = "return"
  /\ IF name[i] \in Gateways THEN Release(i) ELSE UNCHANGED <<holds, locked>>
  /\ Gone(i)
  /\ UNCHANGED <<births, known, signal, taskVars, loginVars, signals, faults, crashed,
                 killVars, clash>>

\* What process i has read dies with it, unless the field still holds it.
DiesWith(i) == got[i] = 9 /\ (pc[i] = "obey" \/ (pc[i] = "clear" /\ signal[name[i]] # 9))

\* A process of a service dies; its lock file stays.
ProcCrash(i) ==
  /\ i \in Procs /\ pc[i] # "off"
  /\ faults < MaxFaults
  /\ faults' = faults + 1
  /\ crashed' = crashed \cup {name[i]}
  /\ holds' = holds \ {i}
  /\ lost' = [lost EXCEPT ![name[i]] = IF DiesWith(i) THEN @ + 1 ELSE @]
  /\ Gone(i)
  /\ UNCHANGED <<births, locked, known, signal, taskVars, loginVars, signals, kills, obeyed,
                 clash>>

-----------------------------------------------------------------------------
(* lamb_stat_loop, of services and of clients *)

\* Mutant: a kill is obeyed before the field is reset.
StatReadObeys(i) ==
  /\ pc[i] = "read"
  /\ known' = known \cup {name[i]}
  /\ got' = [got EXCEPT ![i] = signal[name[i]]]
  /\ pc' = [pc EXCEPT ![i] = IF signal[name[i]] = 9 THEN "obey" ELSE "clear"]
  /\ UNCHANGED <<births, name, holds, locked, signal, taskVars, loginVars, signals, faults,
                 crashed, killVars, clash>>

\* The state of the process goes into its hash; lamb_check_signal: HGET ...
StatRead(i) ==
  /\ pc[i] = "read"
  /\ known' = known \cup {name[i]}
  /\ got' = [got EXCEPT ![i] = signal[name[i]]]
  /\ pc' = [pc EXCEPT ![i] = "clear"]
  /\ UNCHANGED <<births, name, holds, locked, signal, taskVars, loginVars, signals, faults,
                 crashed, killVars, clash>>

\* ... and HSET 0, whatever the field holds by now.
StatClear(i) ==
  /\ pc[i] = "clear"
  /\ signal' = [signal EXCEPT ![name[i]] = 0]
  /\ lost' = [lost EXCEPT ![name[i]] =
                IF signal[name[i]] = 9 /\ got[i] # 9 THEN @ + 1 ELSE @]
  /\ pc' = [pc EXCEPT ![i] = "obey"]
  /\ UNCHANGED <<births, name, got, holds, locked, known, taskVars, loginVars, signals,
                 faults, crashed, kills, obeyed, clash>>

\* No kill: the loop sleeps and starts over, after a reload perhaps.
StatGoOn(i) ==
  /\ pc[i] = "obey"
  /\ got[i] # 9
  /\ pc' = [pc EXCEPT ![i] = "read"]
  /\ got' = [got EXCEPT ![i] = 0]
  /\ UNCHANGED <<births, name, holds, locked, known, signal, taskVars, loginVars, signals,
                 faults, crashed, killVars, clash>>

\* lamb_exit_cleanup: the lock is released, then the process ends.  A session has
\* no lock; it ends at once.
StatObey(i) ==
  /\ pc[i] = "obey"
  /\ got[i] = 9
  /\ obeyed' = [obeyed EXCEPT ![name[i]] = @ + 1]
  /\ IF i \in Procs
     THEN /\ Release(i)
          /\ pc' = [pc EXCEPT ![i] = "exit"]
          /\ got' = [got EXCEPT ![i] = 0]
          /\ UNCHANGED <<name, renews>>
     ELSE /\ Gone(i)
          /\ renews' = renews \ {i}
          /\ UNCHANGED <<holds, locked>>
  /\ UNCHANGED <<births, known, signal, taskVars, age, idle, signals, faults,
                 crashed, kills, lost, clash>>

ProcExit(i) ==
  /\ pc[i] = "exit"
  /\ Gone(i)
  /\ UNCHANGED <<births, holds, locked, known, signal, taskVars, loginVars, signals,
                 faults, crashed, killVars, clash>>

-----------------------------------------------------------------------------
(* Sessions of clients *)

Of(c) == {s \in Sessions : name[s] = c}

\* Mutant: a stamp counts for no longer than the time between two renewals.
IsLoginShort(c) == age[c] < Renewal

\* lamb_is_login: the stamp is younger than seven seconds.
IsLogin(c) == age[c] < Window

\* CMPP_CONNECT with a good password: if the client is not logged in, a process is
\* forked.
Login(c, s) ==
  /\ births < MaxBirths
  /\ pc[s] = "off"
  /\ ~IsLogin(c)
  /\ births' = births + 1
  /\ pc' = [pc EXCEPT ![s] = "fork"]
  /\ name' = [name EXCEPT ![s] = c]
  /\ clash' = IF Of(c) \cap renews # {} THEN clash \cup {s} ELSE clash
  /\ UNCHANGED <<got, holds, locked, known, signal, taskVars, age, idle, renews,
                 signals, faults, crashed, killVars>>

\* The process has connected to the cache and to mt, however long that took, and
\* starts its threads.
SessionUp(s) ==
  /\ pc[s] = "fork"
  /\ pc' = [pc EXCEPT ![s] = "reset"]
  /\ idle' = [idle EXCEPT ![s] = 0]
  /\ UNCHANGED <<births, name, got, holds, locked, known, signal, taskVars, age, renews,
                 signals, faults, crashed, killVars, clash>>

\* lamb_stat_loop resets the field before its first look: what was sent to an
\* earlier session is forgotten.
SessionReset(s) ==
  /\ pc[s] = "reset"
  /\ pc' = [pc EXCEPT ![s] = "read"]
  /\ signal' = [signal EXCEPT ![name[s]] = 0]
  /\ known' = known \cup {name[s]}
  /\ lost' = [lost EXCEPT ![name[s]] = IF signal[name[s]] = 9 THEN @ + 1 ELSE @]
  /\ UNCHANGED <<births, name, got, holds, locked, taskVars, loginVars, signals, faults,
                 crashed, kills, obeyed, clash>>

Up(s) == pc[s] \in {"reset", "read", "clear", "obey"}

\* lamb_online_loop
Renew(s) ==
  /\ Up(s)
  /\ age' = [age EXCEPT ![name[s]] = 0]
  /\ idle' = [idle EXCEPT ![s] = 0]
  /\ renews' = renews \cup {s}
  /\ known' = known \cup {name[s]}
  /\ UNCHANGED <<procVars, locked, signal, taskVars, signals, faults,
                 crashed, killVars, clash>>

\* The client leaves, its connection breaks or the process cannot connect.
SessionEnd(s) ==
  /\ s \in Sessions /\ pc[s] # "off"
  /\ Gone(s)
  /\ renews' = renews \ {s}
  /\ lost' = [lost EXCEPT ![name[s]] = IF DiesWith(s) THEN @ + 1 ELSE @]
  /\ UNCHANGED <<births, holds, locked, known, signal, taskVars, age, idle, signals,
                 faults, crashed, kills, obeyed, clash>>

\* A second passes.  The thread that renews sleeps three of them: it is never more
\* than Renewal late.
Second ==
  /\ \A s \in Sessions : Up(s) => idle[s] < Renewal
  /\ age' = [c \in Clients |-> IF age[c] < Window THEN age[c] + 1 ELSE Window]
  /\ idle' = [s \in Sessions |-> IF Up(s) THEN idle[s] + 1 ELSE 0]
  /\ UNCHANGED <<procVars, locked, known, signal, taskVars, renews, signals,
                 faults, crashed, killVars, clash>>

-----------------------------------------------------------------------------
Stat(i) == StatRead(i) \/ StatClear(i) \/ StatGoOn(i) \/ StatObey(i)

ProcStep(i) ==
  \/ DaemonStart(i) \/ ProcLock(i) \/ ProcRefused(i) \/ ProcReady(i) \/ ProcFail(i)
  \/ ProcReturn(i) \/ ProcCrash(i) \/ ProcExit(i) \/ Stat(i)

SessionStep(s) ==
  \/ \E c \in Clients : Login(c, s)
  \/ SessionUp(s) \/ SessionReset(s) \/ Renew(s) \/ SessionEnd(s) \/ Stat(s)

Next ==
  \/ \E n \in Services : CommandStart(n)
  \/ \E n \in Names : CommandKill(n)
  \/ \E n \in Servers : Notify(n)
  \/ \E done \in BOOLEAN : DaemonDelete(done)
  \/ \E i \in Procs : ProcStep(i)
  \/ \E s \in Sessions : SessionStep(s)
  \/ Second

Spec == Init /\ [][Next]_vars

-----------------------------------------------------------------------------
(* Properties *)

Steps == {"off", "boot", "init", "return", "read", "clear", "obey", "exit",
          "fork", "reset"}

\* Processes, locks and stamps are what they should be: a process of a service
\* runs for a service, a session for a client, a slot not in use for nobody.
TypeOK ==
  /\ pc \in [Slots -> Steps]
  /\ name \in [Slots -> Names \cup {None}]
  /\ \A i \in Procs : name[i] \in IF pc[i] = "off" THEN {None} ELSE Services
  /\ \A s \in Sessions : name[s] \in IF pc[s] = "off" THEN {None} ELSE Clients
  /\ got \in [Slots -> {0, 1, 9}]
  /\ holds \subseteq Procs
  /\ locked \in [Services -> Procs \cup {None}]
  /\ known \subseteq Names
  /\ signal \in [Names -> {0, 1, 9}]
  /\ tasks \subseteq [id : Nat, of : Services]
  /\ task \in [id : Nat, of : Services] \cup {None}
  /\ starts \in Nat /\ births \in Nat
  /\ signals \in Nat /\ faults \in Nat
  /\ age \in [Clients -> 0 .. Window] /\ idle \in [Sessions -> 0 .. Renewal]
  /\ renews \subseteq Sessions /\ clash \subseteq Sessions
  /\ crashed \subseteq Services
  /\ kills \in [Names -> Nat] /\ obeyed \in [Names -> Nat] /\ lost \in [Names -> Nat]

\* Processes of service n that are past their start and not on their way out.
Running(n) == {i \in Procs : name[i] = n /\ pc[i] \in {"init", "read", "clear", "obey"}}

\* The lock file keeps a second process of a service out (common.c:363-391),
\* whatever is started twice, killed, refused or released twice; and a lock file
\* without a process is left behind by a crash only.
LockRight ==
  \A n \in Services :
    /\ \A i \in Running(n) : locked[n] = i
    /\ Running(n) = {} => locked[n] = None \/ n \in crashed

\* Processes of service n that have read a kill and will obey it.
Doomed(n) == {i \in Procs : name[i] = n /\ pc[i] \in {"clear", "obey"} /\ got[i] = 9}

\* A kill ends one process of a service and no more: not the process that is
\* started afterwards too (sp.c:887-906, server.c:1356-1374).  It comes to nothing
\* only if it is overwritten, reset unread between HGET and HSET, or read by a
\* process that dies.
KillsAccounted ==
  \A n \in Services :
    kills[n] = obeyed[n] + lost[n] + Cardinality(Doomed(n)) + (IF Unread(n) THEN 1 ELSE 0)

\* A client is admitted a second time only while its other session has not yet
\* written a stamp: three seconds between renewals and a window of seven exclude
\* it afterwards (ismg.c:250, 684-728).
NoSecondSession == clash = {}

=============================================================================
