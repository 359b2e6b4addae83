--------------------------- MODULE HyperVListener ---------------------------
(***************************************************************************)
(* HyperVSocketListener::ListenLoop (protocol/hyperv/listener.cpp), with   *)
(* the notifier that makes it bind its socket again when the WSL2 machine  *)
(* changed.  Between the steps of the loop the notifier may store another  *)
(* id, connections may arrive, and the application may cancel.             *)
(***************************************************************************)
EXTENDS RebindNotifier

CONSTANTS
  INVALID_SOCKET,
  FixedId,         \* the id that is bound when the listener does not follow WSL2
  MaxConnections   \* bound: how many connections are made

ASSUME SocketAssumption == INVALID_SOCKET \notin Guid \cup {GUID_NULL}
ASSUME FixedAssumption == FixedId \in Guid
ASSUME MaxAssumption == MaxConnections \in Nat

VARIABLES
  wsl2Flag,
  loop,            \* where the loop is
  vmid,
  newVmid,
  socketGood,
  listenSocket,    \* the id the socket is bound to, or INVALID_SOCKET
  listenEvent,     \* waitHandle[1]
  networkEvents,   \* what is recorded for the socket
  backlog,         \* connections that wait in the socket
  delegated,       \* connections handed to the connection manager
  cancelEvent,
  \* ghosts
  made,            \* connections that were made
  unseen,          \* an id was stored after GetLastWslVmId and before ResetEvent
  latest           \* the last machine of the user that was started after Start, as long as it runs

loopVars == <<wsl2Flag, loop, vmid, newVmid>>
socketVars == <<socketGood, listenSocket, listenEvent, networkEvents, backlog>>
otherVars == <<delegated, cancelEvent, made>>
ghostVars == <<unseen, latest>>
vars == <<worldVars, notifierVars, loopVars, socketVars, otherVars, ghostVars>>

Init ==
  /\ InitNotifier
  /\ wsl2Flag \in BOOLEAN
  /\ loop = IF wsl2Flag THEN "Flushing" ELSE "Binding"
  /\ vmid = IF wsl2Flag THEN GUID_NULL ELSE FixedId
  /\ newVmid = GUID_NULL
  /\ socketGood = FALSE
  /\ listenSocket = INVALID_SOCKET
  /\ listenEvent = FALSE
  /\ networkEvents = {}
  /\ backlog = 0
  /\ delegated = 0
  /\ cancelEvent = FALSE
  /\ made = 0
  /\ unseen = FALSE
  /\ latest = GUID_NULL

Goes(place) == loop' = place

Over == {"Cancelled", "Failed"}

----------------------------------------------------------------------------
\* The start: the notifier learns the present id, then it is started.

Flushes ==
  /\ loop = "Flushing"
  /\ FlushLastWslVmId
  /\ Goes("Starting")
  /\ UNCHANGED <<worldVars, started, wsl2Flag, vmid, newVmid, socketVars, otherVars, ghostVars>>

Starts ==
  /\ loop = "Starting"
  /\ StartNotifier
  /\ Goes(IF started' THEN "Getting" ELSE "Failed")
  /\ UNCHANGED <<worldVars, lastVmId, notifyEvent, wsl2Flag, vmid, newVmid, socketVars, otherVars,
                 ghostVars>>

GetsFirstId ==
  /\ loop = "Getting"
  /\ vmid' = lastVmId
  /\ Goes("Binding")
  /\ UNCHANGED <<worldVars, notifierVars, wsl2Flag, newVmid, socketVars, otherVars, ghostVars>>

\* BuildHyperVListenSocket succeeds, and the events of the socket go to waitHandle[1], which
\* keeps its state.  The socket that was there is closed, with what waited in it.
SocketIsBuilt(id) ==
  /\ listenSocket' = id
  /\ socketGood' = TRUE
  /\ networkEvents' = {}
  /\ backlog' = 0

NoSocketIsBuilt ==
  /\ listenSocket' = INVALID_SOCKET
  /\ socketGood' = FALSE
  /\ networkEvents' = {}
  /\ backlog' = 0

BindsFirst ==
  /\ loop = "Binding"
  /\ vmid # GUID_NULL
  /\ SocketIsBuilt(vmid)
  /\ Goes("Waiting")
  /\ UNCHANGED <<worldVars, notifierVars, wsl2Flag, vmid, newVmid, listenEvent, otherVars,
                 ghostVars>>

\* WSAEventSelect fails for the new socket, which is closed as ListenLoop returns.
CannotSelectFirst ==
  /\ loop = "Binding"
  /\ vmid # GUID_NULL
  /\ SocketIsBuilt(vmid)
  /\ Goes("Failed")
  /\ UNCHANGED <<worldVars, notifierVars, wsl2Flag, vmid, newVmid, listenEvent, otherVars,
                 ghostVars>>

\* Without a socket a listener that follows WSL2 waits for a machine, another one fails.
CannotBindFirst ==
  /\ loop = "Binding"
  /\ NoSocketIsBuilt
  /\ Goes(IF wsl2Flag THEN "Waiting" ELSE "Failed")
  /\ UNCHANGED <<worldVars, notifierVars, wsl2Flag, vmid, newVmid, listenEvent, otherVars,
                 ghostVars>>

----------------------------------------------------------------------------
\* The loop.  Of the handles that are set the first one counts.

Cancelled ==
  /\ loop = "Waiting"
  /\ cancelEvent
  /\ Goes("Cancelled")
  /\ UNCHANGED <<worldVars, notifierVars, wsl2Flag, vmid, newVmid, socketVars, otherVars, ghostVars>>

\* WSAWaitForMultipleEvents or WSAEnumNetworkEvents fails.
CallFails ==
  /\ loop = "Waiting"
  /\ Goes("Failed")
  /\ UNCHANGED <<worldVars, notifierVars, wsl2Flag, vmid, newVmid, socketVars, otherVars, ghostVars>>

SocketEvent == loop = "Waiting" /\ ~cancelEvent /\ listenEvent

\* WSAEnumNetworkEvents fails without a socket: the event is older than the failed rebind.
NoSocketToAsk ==
  /\ SocketEvent
  /\ listenSocket = INVALID_SOCKET
  /\ Goes("Failed")
  /\ UNCHANGED <<worldVars, notifierVars, wsl2Flag, vmid, newVmid, socketVars, otherVars, ghostVars>>

SocketClosed ==
  /\ SocketEvent
  /\ "FD_CLOSE" \in networkEvents
  /\ networkEvents' = {}
  /\ listenEvent' = FALSE
  /\ Goes("Failed")
  /\ UNCHANGED <<worldVars, notifierVars, wsl2Flag, vmid, newVmid, socketGood, listenSocket,
                 backlog, otherVars, ghostVars>>

SignalledAgain == backlog > 1

\* accept records FD_ACCEPT again while connections wait; an accept that fails took one, too.
Accepts(ok) ==
  /\ SocketEvent
  /\ networkEvents = {"FD_ACCEPT"}
  /\ backlog' = backlog - 1
  /\ listenEvent' = SignalledAgain
  /\ networkEvents' = IF SignalledAgain THEN {"FD_ACCEPT"} ELSE {}
  /\ delegated' = IF ok THEN delegated + 1 ELSE delegated
  /\ UNCHANGED <<worldVars, notifierVars, loopVars, socketGood, listenSocket, cancelEvent, made,
                 ghostVars>>

\* the event is older than the socket
NothingRecorded ==
  /\ SocketEvent
  /\ listenSocket # INVALID_SOCKET
  /\ networkEvents = {}
  /\ listenEvent' = FALSE
  /\ UNCHANGED <<worldVars, notifierVars, loopVars, socketGood, listenSocket, networkEvents,
                 backlog, otherVars, ghostVars>>

ReadsNewId ==
  /\ loop = "Waiting"
  /\ ~cancelEvent /\ ~listenEvent /\ notifyEvent
  /\ newVmid' = lastVmId
  /\ unseen' = FALSE
  /\ Goes("Resetting")
  /\ UNCHANGED <<worldVars, notifierVars, wsl2Flag, vmid, socketVars, otherVars, latest>>

ResetsEvent ==
  /\ loop = "Resetting"
  /\ notifyEvent' = FALSE
  /\ Goes("Comparing")
  /\ UNCHANGED <<worldVars, started, lastVmId, wsl2Flag, vmid, newVmid, socketVars, otherVars,
                 ghostVars>>

\* Mutant: only a socket that is missing is built.
OnlyIfMissing == ~socketGood

MustRebind == vmid # newVmid \/ ~socketGood

\* Mutant: the socket is built for the machine before.
IdBefore == vmid

IdToBind == newVmid

NothingToRebind ==
  /\ loop = "Comparing"
  /\ ~MustRebind
  /\ Goes("Waiting")
  /\ UNCHANGED <<worldVars, notifierVars, wsl2Flag, vmid, newVmid, socketVars, otherVars, ghostVars>>

Rebinds ==
  /\ loop = "Comparing"
  /\ MustRebind
  /\ vmid' = newVmid
  /\ SocketIsBuilt(IdToBind) \/ NoSocketIsBuilt
  /\ Goes("Waiting")
  /\ UNCHANGED <<worldVars, notifierVars, wsl2Flag, newVmid, listenEvent, otherVars, ghostVars>>

\* WSAEventSelect fails before socketGood is assigned.
CannotSelect ==
  /\ loop = "Comparing"
  /\ MustRebind
  /\ vmid' = newVmid
  /\ listenSocket' = IdToBind
  /\ networkEvents' = {}
  /\ backlog' = 0
  /\ Goes("Failed")
  /\ UNCHANGED <<worldVars, notifierVars, wsl2Flag, newVmid, socketGood, listenEvent, otherVars,
                 ghostVars>>

Loop ==
  \/ Flushes \/ Starts \/ GetsFirstId \/ BindsFirst \/ CannotBindFirst
  \/ Cancelled \/ NoSocketToAsk \/ SocketClosed \/ NothingRecorded
  \/ \E ok \in BOOLEAN : Accepts(ok)
  \/ ReadsNewId \/ ResetsEvent \/ NothingToRebind \/ Rebinds

----------------------------------------------------------------------------
\* The other threads and the world.

Indicates ==
  /\ loop \notin Over
  /\ Indicate
  /\ unseen' = (unseen \/ (loop = "Resetting" /\ lastVmId' # newVmid))
  /\ UNCHANGED <<loopVars, socketVars, otherVars, latest>>

\* Without a notifier nobody looks at the processes.
HostIsStarted(p) ==
  /\ wsl2Flag /\ loop \notin Over
  /\ HostStarts(p)
  /\ latest' = IF started /\ p \in OwnedBySelf /\ TryGetVmIdFromCmdline(Cmdline[p]) # GUID_NULL
                 THEN TryGetVmIdFromCmdline(Cmdline[p]) ELSE latest
  /\ UNCHANGED <<loopVars, socketVars, otherVars, unseen>>

HostIsOver(p) ==
  /\ loop \notin Over
  /\ HostExits(p)
  /\ latest' = IF TryGetVmIdFromCmdline(Cmdline[p]) = latest THEN GUID_NULL ELSE latest
  /\ UNCHANGED <<loopVars, socketVars, otherVars, unseen>>

Connects ==
  /\ loop \notin Over
  /\ listenSocket # INVALID_SOCKET
  /\ made < MaxConnections
  /\ made' = made + 1
  /\ backlog' = backlog + 1
  /\ networkEvents' = networkEvents \cup {"FD_ACCEPT"}
  /\ listenEvent' = TRUE
  /\ UNCHANGED <<worldVars, notifierVars, loopVars, socketGood, listenSocket, delegated,
                 cancelEvent, ghostVars>>

SocketCloses ==
  /\ loop \notin Over
  /\ listenSocket # INVALID_SOCKET
  /\ "FD_CLOSE" \notin networkEvents
  /\ networkEvents' = networkEvents \cup {"FD_CLOSE"}
  /\ listenEvent' = TRUE
  /\ UNCHANGED <<worldVars, notifierVars, loopVars, socketGood, listenSocket, backlog, otherVars,
                 ghostVars>>

Cancel ==
  /\ loop \notin Over
  /\ ~cancelEvent
  /\ cancelEvent' = TRUE
  /\ UNCHANGED <<worldVars, notifierVars, loopVars, socketVars, delegated, made, ghostVars>>

Next ==
  \/ Loop \/ CannotSelectFirst \/ CallFails \/ CannotSelect
  \/ Indicates \/ Connects \/ SocketCloses \/ Cancel
  \/ \E p \in Host : HostIsStarted(p) \/ HostIsOver(p)

\* The listener thread runs and WMI reports.
Fairness == WF_vars(Loop) /\ WF_vars(Indicates)

Spec == Init /\ [][Next]_vars /\ Fairness

----------------------------------------------------------------------------
TypeOK ==
  /\ host \in [Host -> {"Absent", "Running", "Gone"}]
  /\ creations \in Seq(Host)
  /\ started \in BOOLEAN
  /\ lastVmId \in Guid \cup {GUID_NULL}
  /\ notifyEvent \in BOOLEAN
  /\ wsl2Flag \in BOOLEAN
  /\ ~wsl2Flag => ~notifyEvent /\ vmid = FixedId
  /\ loop \in {"Flushing", "Starting", "Getting", "Binding", "Waiting", "Resetting", "Comparing"}
                \cup Over
  /\ vmid \in Guid \cup {GUID_NULL}
  /\ newVmid \in Guid \cup {GUID_NULL}
  /\ listenSocket \in {vmid, INVALID_SOCKET}
  /\ socketGood \in BOOLEAN
  /\ loop \notin Over => (socketGood <=> listenSocket # INVALID_SOCKET)
  /\ listenEvent \in BOOLEAN
  /\ networkEvents \subseteq {"FD_ACCEPT", "FD_CLOSE"}
  /\ backlog \in 0..MaxConnections
  /\ delegated + backlog <= made
  /\ cancelEvent \in BOOLEAN
  /\ made \in 0..MaxConnections
  /\ unseen \in BOOLEAN
  /\ latest \in Guid \cup {GUID_NULL}

\* A process of the user whose command line contains two guids, the latter one being id.
Hosts(p, id) ==
  LET words == Cmdline[p].words
  IN  /\ p \in OwnedBySelf
      /\ \E j, k \in DOMAIN words :
           /\ j < k
           /\ words[j] \in Guid
           /\ words[k] \in Guid /\ words[k] = id
           /\ \A l \in DOMAIN words : k < l => words[l] \notin Guid

\* A process of the user whose command line ends in that guid and a space: the guid is seen
\* twice.
SeenTwice(p, id) ==
  LET line == Cmdline[p]
  IN  /\ p \in OwnedBySelf
      /\ line.space /\ line.words # <<>>
      /\ line.words[Len(line.words)] = id /\ id \in Guid

\* The socket is bound to a WSL2 machine of the user alone, "only wslhost.exe whose
\* commandline contains two guids is a WSL2 instance" (rebind_notifier.cpp:100-101), unless the
\* command line it was learned from ends in one guid and a space (rebind_notifier.cpp:87-98).
OwnMachineOnly ==
  wsl2Flag /\ socketGood =>
    \E p \in Host : host[p] # "Absent" /\ (Hosts(p, vmid) \/ SeenTwice(p, vmid))

\* The listener follows the machine: one that is started and stays is the one the listener
\* binds or tried to bind, unless another one follows, the listener ends, or its id came
\* between GetLastWslVmId and ResetEvent, whose notification is lost (listener.cpp:234-240).
FollowsMachine == \A id \in Guid :
  latest = id ~> latest # id \/ vmid = id \/ unseen \/ loop \in Over
=============================================================================
