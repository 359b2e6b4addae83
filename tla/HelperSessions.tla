--------------------------- MODULE HelperSessions ---------------------------
(***************************************************************************)
(* The processes of the WSL2 helper (wsl2_helper/main.cpp): main,          *)
(* PrepareListener, MonitorLoop, GetPid, WritePid and the signal handlers. *)
(* Every shell starts a helper with the same options.  One of them becomes *)
(* the master, which listens; with -c the others tell it of their sessions *)
(* by signals and watch their shell and the master.                        *)
(*                                                                         *)
(* The steps of different processes, and of the monitor thread and the     *)
(* signal handlers of one process, come in any order.  A signal that is    *)
(* sent while the same one is pending is lost; nothing orders the handlers *)
(* of two that are pending.  The ghosts say in which behaviours that, or   *)
(* an unlucky start or end of a process, really happened.                  *)
(***************************************************************************)
EXTENDS Integers, FiniteSets

CONSTANTS
  Process,      \* process ids of helpers
  None,
  Options,      \* pairs of refcountFlag and deleteExistSocket
  MaxKills      \* bound: how many helpers are ended by a signal or a failing accept

ASSUME OptionsAssumption == Options \subseteq BOOLEAN \X BOOLEAN
ASSUME NoneAssumption == None \notin Process
ASSUME MaxKillsAssumption == MaxKills \in Nat

VARIABLES
  \* options
  refcountFlag,         \* -c (which needs -b and -p)
  deleteExistSocket,    \* -d
  \* the main thread of a helper
  pc,
  pid,                  \* what GetPid returned in main
  masterPid,            \* what it returned in MonitorLoop
  shouldDeleteSocket,
  \* the monitor thread of a master
  monitor,
  \* signals
  refcount,
  pending,
  \* the world
  kills,                \* how many helpers were ended from outside
  parent,               \* the shell (waitingPid) is alive
  pidFile,              \* the process named in the pid file, None when it is missing or empty
  socketFile,           \* the process that bound the socket file
  \* ghosts
  miscounted,           \* a signal to the process was lost, or a session that held it was
                        \* ended by a signal itself
  abrupt,               \* the process had no chance to delete its socket file
  overlapped            \* a process became master while another one was

mainVars == <<pc, pid, masterPid, shouldDeleteSocket>>
signalVars == <<refcount, pending>>
world == <<kills, parent>>
fileVars == <<pidFile, socketFile>>
ghostVars == <<miscounted, abrupt, overlapped>>
optionVars == <<refcountFlag, deleteExistSocket>>
vars == <<optionVars, mainVars, monitor, signalVars, world, fileVars, ghostVars>>

Init ==
  /\ \E o \in Options : refcountFlag = o[1] /\ deleteExistSocket = o[2]
  /\ pc = [p \in Process |-> "Absent"]
  /\ pid = [p \in Process |-> None]
  /\ masterPid = [p \in Process |-> None]
  /\ shouldDeleteSocket = [p \in Process |-> FALSE]
  /\ monitor = [p \in Process |-> "None"]
  /\ refcount = [p \in Process |-> 1]
  /\ pending = [p \in Process |-> {}]
  /\ kills = 0
  /\ parent = [p \in Process |-> TRUE]
  /\ pidFile = None
  /\ socketFile = None
  /\ miscounted = [p \in Process |-> FALSE]
  /\ abrupt = [p \in Process |-> FALSE]
  /\ overlapped = FALSE

\* kill(p, 0) == 0
Alive(p) == p # None /\ pc[p] \notin {"Absent", "Exited"}

\* where a session holds a reference to the master it notified
Holding == {"Registered", "Monitoring", "Leaving"}

MasterPath == {"Writing", "Preparing", "Binding", "Bound", "Listening"}

Goes(p, place) == pc' = [pc EXCEPT ![p] = place]

\* Mutant: the socket file is left behind.
FileStays(p) == UNCHANGED socketFile

\* Mutant: every helper that exits removes the file.
AnyoneDeletes(p) == socketFile' = None

\* DeleteSocket, registered with atexit: the path is removed, whoever bound it.
DeleteSocket(p) ==
  IF shouldDeleteSocket[p] THEN socketFile' = None ELSE UNCHANGED socketFile

\* a process that ends where it holds a reference to a master does not give it up
Forgets(p) ==
  miscounted' = [q \in Process |->
    \/ miscounted[q] /\ q # p
    \/ pc[p] \in Holding /\ q = pid[p] /\ Alive(q)]

\* what goes with a process: its memory and the signals that are pending
Vanishes(p) ==
  /\ Goes(p, "Exited")
  /\ Forgets(p)
  /\ pid' = [pid EXCEPT ![p] = None]
  /\ masterPid' = [masterPid EXCEPT ![p] = None]
  /\ shouldDeleteSocket' = [shouldDeleteSocket EXCEPT ![p] = FALSE]
  /\ refcount' = [refcount EXCEPT ![p] = 1]
  /\ pending' = [pending EXCEPT ![p] = {}]
  /\ monitor' = [monitor EXCEPT ![p] = "None"]
  /\ parent' = [parent EXCEPT ![p] = FALSE]

\* exit, or return from main
Exit(p) ==
  /\ Vanishes(p)
  /\ DeleteSocket(p)
  /\ abrupt' = [abrupt EXCEPT ![p] = pc[p] = "Bound" /\ socketFile = p]
  /\ UNCHANGED <<optionVars, pidFile, overlapped>>

\* kill(q, s), lost when it is pending already and without effect when q is not there
Signal(q, s) ==
  IF Alive(q)
    THEN /\ pending' = [pending EXCEPT ![q] = @ \cup {s}]
         /\ miscounted' = [miscounted EXCEPT ![q] = @ \/ s \in pending[q]]
    ELSE UNCHANGED <<pending, miscounted>>

----------------------------------------------------------------------------
\* main: the options, the fork to the background, and the pid file.

\* the helper is started and has come to GetPid: nothing before has to do with the others
GetPid(p) ==
  /\ pc[p] = "Absent" /\ parent[p]
  /\ pid' = [pid EXCEPT ![p] = pidFile]
  /\ Goes(p, "Checking")
  /\ UNCHANGED <<optionVars, masterPid, shouldDeleteSocket, monitor, signalVars, world,
                 fileVars, ghostVars>>

FindsMaster(p) ==
  /\ pc[p] = "Checking"
  /\ Alive(pid[p])
  /\ IF refcountFlag
       THEN /\ Goes(p, "Notifying")
            /\ UNCHANGED <<optionVars, pid, masterPid, shouldDeleteSocket, monitor, signalVars,
                           world, fileVars, ghostVars>>
       ELSE Exit(p) /\ UNCHANGED kills

NoMaster(p) == ~Alive(pid[p])

\* WritePid opens the file, which empties it ...
OpensPidFile(p) ==
  /\ pc[p] = "Checking"
  /\ NoMaster(p)
  /\ pidFile' = None
  /\ Goes(p, "Writing")
  /\ overlapped' = (overlapped \/ \E q \in Process \ {p} : pc[q] \in MasterPath)
  /\ UNCHANGED <<optionVars, pid, masterPid, shouldDeleteSocket, monitor, signalVars, world,
                 socketFile, miscounted, abrupt>>

\* ... and writes it when the stream is closed; then the monitor thread is started.
WritePid(p) ==
  /\ pc[p] = "Writing"
  /\ pidFile' = p
  /\ Goes(p, "Preparing")
  /\ monitor' = [monitor EXCEPT ![p] = IF refcountFlag THEN "Reading" ELSE "None"]
  /\ UNCHANGED <<optionVars, pid, masterPid, shouldDeleteSocket, signalVars, world, socketFile,
                 ghostVars>>

----------------------------------------------------------------------------
\* PrepareListener and the end of ListenLoop.

RemovesExisting(p) ==
  IF deleteExistSocket THEN socketFile' = None ELSE UNCHANGED socketFile

Prepares(p) ==
  /\ pc[p] = "Preparing"
  /\ RemovesExisting(p)
  /\ Goes(p, "Binding")
  /\ UNCHANGED <<optionVars, pid, masterPid, shouldDeleteSocket, monitor, signalVars, world,
                 pidFile, ghostVars>>

Binds(p) ==
  /\ pc[p] = "Binding"
  /\ socketFile = None
  /\ socketFile' = p
  /\ Goes(p, "Bound")
  /\ UNCHANGED <<optionVars, pid, masterPid, shouldDeleteSocket, monitor, signalVars, world,
                 pidFile, ghostVars>>

CannotBind(p) ==
  /\ pc[p] = "Binding"
  /\ socketFile # None
  /\ Exit(p)
  /\ UNCHANGED kills

Listens(p) ==
  /\ pc[p] = "Bound"
  /\ shouldDeleteSocket' = [shouldDeleteSocket EXCEPT ![p] = TRUE]
  /\ Goes(p, "Listening")
  /\ UNCHANGED <<optionVars, pid, masterPid, monitor, signalVars, world, fileVars, ghostVars>>

EndedFromOutside ==
  /\ kills < MaxKills
  /\ kills' = kills + 1

\* listen fails, or accept with an error other than EINTR
ListenLoopEnds(p) ==
  /\ pc[p] = "Listening"
  /\ EndedFromOutside
  /\ Exit(p)

----------------------------------------------------------------------------
\* A session that found a master.

\* kill(pid, SIGUSR1)
Notifies(p) ==
  /\ pc[p] = "Notifying"
  /\ Signal(pid[p], "USR1")
  /\ Goes(p, "Registered")
  /\ UNCHANGED <<optionVars, pid, masterPid, shouldDeleteSocket, monitor, refcount, world,
                 fileVars, abrupt, overlapped>>

\* MonitorLoop reads the file once more; without a pid in it the loop is over at once.
MonitorLoop(p) ==
  /\ pc[p] = "Registered"
  /\ masterPid' = [masterPid EXCEPT ![p] = pidFile]
  /\ Goes(p, IF pidFile = None THEN "Leaving" ELSE "Monitoring")
  /\ UNCHANGED <<optionVars, pid, shouldDeleteSocket, monitor, signalVars, world, fileVars,
                 ghostVars>>

\* Mutant: only the master is watched.
OnlyMasterWatched(p) == ~Alive(masterPid[p])

WatchIsOver(p) == ~parent[p] \/ ~Alive(masterPid[p])

MonitorLoopEnds(p) ==
  /\ pc[p] = "Monitoring"
  /\ WatchIsOver(p)
  /\ Goes(p, "Leaving")
  /\ UNCHANGED <<optionVars, pid, masterPid, shouldDeleteSocket, monitor, signalVars, world,
                 fileVars, ghostVars>>

\* kill(pid, SIGUSR2), and exit
Leaves(p) ==
  /\ pc[p] = "Leaving"
  /\ Signal(pid[p], "USR2")
  /\ Goes(p, "Exited")
  /\ pid' = [pid EXCEPT ![p] = None]
  /\ masterPid' = [masterPid EXCEPT ![p] = None]
  /\ parent' = [parent EXCEPT ![p] = FALSE]
  /\ UNCHANGED <<optionVars, shouldDeleteSocket, monitor, refcount, kills,
                 fileVars, abrupt, overlapped>>

----------------------------------------------------------------------------
\* Signal handlers, and the monitor thread of a master, which raises SIGUSR2 on itself.

\* Mutant: a reference that is taken while another signal waits is not counted.
NotCounted(p) == refcount[p] + 1 - Cardinality(pending[p] \ {"USR1"})

OneMore(p) == refcount[p] + 1

AddRefHandler(p) ==
  /\ "USR1" \in pending[p]
  /\ pending' = [pending EXCEPT ![p] = @ \ {"USR1"}]
  /\ refcount' = [refcount EXCEPT ![p] = OneMore(p)]
  /\ UNCHANGED <<optionVars, mainVars, monitor, world, fileVars, ghostVars>>

\* Mutant: the reference that is given up is counted before it is tested.
LastButOne(p) == refcount[p] <= 2

\* Mutant: the count is not tested.
NeverLast(p) == FALSE

LastReference(p) == refcount[p] - 1 = 0

\* if it was not the last reference: the count and what the caller did with pending
Release(p) ==
  /\ refcount' = [refcount EXCEPT ![p] = @ - 1]
  /\ UNCHANGED <<optionVars, mainVars, world, fileVars, ghostVars>>

ReleaseHandler(p) ==
  /\ "USR2" \in pending[p]
  /\ IF LastReference(p)
       THEN Exit(p) /\ UNCHANGED kills
       ELSE /\ Release(p)
            /\ pending' = [pending EXCEPT ![p] = @ \ {"USR2"}]
            /\ UNCHANGED monitor

\* MonitorLoop of the thread reads the file ...
MonitorReads(p) ==
  /\ monitor[p] = "Reading"
  /\ masterPid' = [masterPid EXCEPT ![p] = pidFile]
  /\ monitor' = [monitor EXCEPT ![p] = IF pidFile = None THEN "Over" ELSE "Watching"]
  /\ UNCHANGED <<optionVars, pc, pid, shouldDeleteSocket, signalVars, world, fileVars, ghostVars>>

\* ... and watches; the thread ends by raising the signal.
MonitorRaises(p) ==
  /\ \/ monitor[p] = "Over"
     \/ monitor[p] = "Watching" /\ WatchIsOver(p)
  /\ IF LastReference(p)
       THEN Exit(p) /\ UNCHANGED kills
       ELSE /\ Release(p)
            /\ monitor' = [monitor EXCEPT ![p] = "None"]
            /\ UNCHANGED pending

\* SIGINT, SIGHUP, SIGTERM
Terminated(p) == Alive(p) /\ EndedFromOutside /\ Exit(p)

\* SIGKILL
Killed(p) ==
  /\ Alive(p)
  /\ EndedFromOutside
  /\ Vanishes(p)
  /\ abrupt' = [abrupt EXCEPT ![p] = socketFile = p]
  /\ UNCHANGED <<optionVars, fileVars, overlapped>>

\* The shell ends, which shows only where it is watched; or it never starts a helper.
ParentEnds(p) ==
  /\ parent[p]
  /\ pc[p] \in {"Absent", "Monitoring"} \/ monitor[p] = "Watching"
  /\ parent' = [parent EXCEPT ![p] = FALSE]
  /\ UNCHANGED <<optionVars, mainVars, monitor, signalVars, kills, fileVars, ghostVars>>

----------------------------------------------------------------------------
Main(p) ==
  \/ FindsMaster(p) \/ OpensPidFile(p) \/ WritePid(p)
  \/ Prepares(p) \/ Binds(p) \/ CannotBind(p) \/ Listens(p)
  \/ Notifies(p) \/ MonitorLoop(p) \/ MonitorLoopEnds(p) \/ Leaves(p)

Handlers(p) == AddRefHandler(p) \/ ReleaseHandler(p)

MonitorThread(p) == MonitorReads(p) \/ MonitorRaises(p)

Next == \E p \in Process :
  \/ GetPid(p) \/ Main(p) \/ ListenLoopEnds(p) \/ Handlers(p) \/ MonitorThread(p)
  \/ Terminated(p) \/ Killed(p) \/ ParentEnds(p)

\* The operating system runs the threads and delivers signals.  A helper takes finitely many
\* steps, so nothing more than that some helper that can take a step takes one is needed.
Fairness == WF_vars(\E p \in Process : Main(p) \/ Handlers(p) \/ MonitorThread(p))

Spec == Init /\ [][Next]_vars /\ Fairness

----------------------------------------------------------------------------
TypeOK ==
  /\ <<refcountFlag, deleteExistSocket>> \in Options
  /\ pc \in [Process -> MasterPath \cup {"Absent", "Checking", "Notifying",
                                         "Registered", "Monitoring", "Leaving", "Exited"}]
  /\ pid \in [Process -> Process \cup {None}]
  /\ masterPid \in [Process -> Process \cup {None}]
  /\ shouldDeleteSocket \in [Process -> BOOLEAN]
  /\ monitor \in [Process -> {"None", "Reading", "Watching", "Over"}]
  /\ refcount \in [Process -> Nat]
  /\ pending \in [Process -> SUBSET {"USR1", "USR2"}]
  /\ kills \in 0..MaxKills
  /\ parent \in [Process -> BOOLEAN]
  /\ pidFile \in Process \cup {None}
  /\ socketFile \in Process \cup {None}
  /\ miscounted \in [Process -> BOOLEAN]
  /\ abrupt \in [Process -> BOOLEAN]
  /\ overlapped \in BOOLEAN

\* the sessions that hold a reference to master p: its own and those that notified it
Holders(p) ==
  {q \in Process : pid[q] = p /\ pc[q] \in Holding}
    \cup (IF monitor[p] # "None" THEN {p} ELSE {})

Pends(p, s) == IF s \in pending[p] THEN 1 ELSE 0

\* Unless it was miscounted, the count of a master, together with the signals that are on
\* their way, is the number of sessions that hold it (main.cpp:677-687, 223-232).
RefcountExact == \A p \in Process :
  refcountFlag /\ pc[p] \in MasterPath \ {"Writing"} /\ ~miscounted[p]
    => refcount[p] + Pends(p, "USR1") - Pends(p, "USR2") = Cardinality(Holders(p))

\* A socket file whose process is gone was left by one that was killed, or that a signal
\* hit between bind and the assignment of shouldDeleteSocket (main.cpp:297-304, 545-549).
NoStaleFile == socketFile # None => Alive(socketFile) \/ abrupt[socketFile]

\* The socket file leads to the master that listens, unless two processes became masters,
\* because each read the pid file before the other one wrote it (main.cpp:217-246).
Reachable == \A p \in Process : pc[p] = "Listening" => socketFile = p \/ overlapped

\* The last reference takes the master away, never an earlier one: when it exits from
\* ReleaseHandler no session holds it, unless it was miscounted or the notification of a
\* new session was still pending.
LastReleaseOnly ==
  [][\A p \in Process :
       (ReleaseHandler(p) \/ MonitorRaises(p)) /\ pc'[p] = "Exited" /\ pc[p] \in MasterPath
         => \/ miscounted[p] \/ "USR1" \in pending[p]
            \/ Holders(p)' = {}]_vars

\* When the shells of all sessions are gone the master exits, unless it was miscounted.
MasterExits == \A p \in Process :
  refcountFlag /\ pc[p] = "Listening" /\ (\A q \in Process : ~parent[q] \/ pc[q] = "Exited")
    ~> pc[p] = "Exited" \/ miscounted[p]
=============================================================================
