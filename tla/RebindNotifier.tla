--------------------------- MODULE RebindNotifier ---------------------------
(***************************************************************************)
(* WSL2SocketRebindNotifier (protocol/hyperv/rebind_notifier.cpp): it      *)
(* learns the id of the WSL2 virtual machine from the command lines of the *)
(* wslhost.exe processes of the user, once by a query (Flush) and then     *)
(* from notifications of WMI about processes that were created.            *)
(*                                                                         *)
(* The operators Flush and Start are steps of the listener that owns the   *)
(* notifier (HyperVListener).  WMI is external: it reports the creations   *)
(* after Start in their order.                                             *)
(***************************************************************************)
EXTENDS Integers, Sequences, FiniteSets

CONSTANTS
  Host,          \* wslhost.exe processes
  Guid,          \* ids of virtual machines and of distributions
  GUID_NULL,
  Cmdline,       \* what a process was started with: its words, and whether a space follows
  OwnedBySelf    \* the processes of the user the program runs as

ASSUME NullAssumption == GUID_NULL \notin Guid
ASSUME CmdlineAssumption ==
  \A p \in Host : Cmdline[p].words \in Seq(Guid \cup {"word"}) /\ Cmdline[p].space \in BOOLEAN

VARIABLES
  host,          \* a process is "Absent", "Running" or "Gone"
  creations,     \* the processes that WMI has yet to report
  started,
  lastVmId,
  notifyEvent

worldVars == <<host, creations>>
notifierVars == <<started, lastVmId, notifyEvent>>

InitNotifier ==
  /\ host = [p \in Host |-> "Absent"]
  /\ creations = <<>>
  /\ started = FALSE
  /\ lastVmId = GUID_NULL
  /\ notifyEvent = FALSE

----------------------------------------------------------------------------
\* The words the loop of TryGetVmIdFromCmdline sees: when a space follows the last one, the
\* stream is not at its end yet, the next extraction fails and leaves arg as it was.
WordsSeen(line) ==
  IF line.space /\ line.words # <<>>
    THEN Append(line.words, line.words[Len(line.words)])
    ELSE line.words

\* Mutant: one guid is enough.
EnoughForOne(places) == Cardinality(places) > 0

\* count > 1
EnoughGuids(places) == Cardinality(places) > 1

\* the last one of the words that are guids
TryGetVmIdFromCmdline(line) ==
  LET words == WordsSeen(line)
      places == {k \in DOMAIN words : words[k] \in Guid}
  IN  IF EnoughGuids(places)
        THEN words[CHOOSE k \in places : \A j \in places : j <= k]
        ELSE GUID_NULL

\* Mutant: the owner is not looked at.
AnyOwner(p) == host[p] = "Running"

\* The method that is executed on the object of a process fails when the process is gone.
CheckWmiProcessOwner(p) == host[p] = "Running" /\ p \in OwnedBySelf

Qualifies(p) ==
  CheckWmiProcessOwner(p) /\ TryGetVmIdFromCmdline(Cmdline[p]) # GUID_NULL

UpdateLastVmid(id) ==
  /\ lastVmId' = id
  /\ notifyEvent' = TRUE

UpdateLastVmIdByWmiProcess(p) ==
  IF Qualifies(p)
    THEN UpdateLastVmid(TryGetVmIdFromCmdline(Cmdline[p]))
    ELSE UNCHANGED <<lastVmId, notifyEvent>>

\* Of the processes that run the last one in the order of the query counts.
FlushLastWslVmId ==
  \/ /\ \A p \in Host : ~Qualifies(p)
     /\ UNCHANGED <<lastVmId, notifyEvent>>
  \/ \E p \in Host : Qualifies(p) /\ UpdateLastVmIdByWmiProcess(p)

\* or the query for notifications fails
StartNotifier == started' \in BOOLEAN

----------------------------------------------------------------------------
\* EventSink::Indicate, for one object
Indicate ==
  /\ creations # <<>>
  /\ UpdateLastVmIdByWmiProcess(Head(creations))
  /\ creations' = Tail(creations)
  /\ UNCHANGED <<host, started>>

HostStarts(p) ==
  /\ host[p] = "Absent"
  /\ host' = [host EXCEPT ![p] = "Running"]
  /\ creations' = IF started THEN Append(creations, p) ELSE creations
  /\ UNCHANGED notifierVars

HostExits(p) ==
  /\ host[p] = "Running"
  /\ host' = [host EXCEPT ![p] = "Gone"]
  /\ UNCHANGED <<creations, notifierVars>>
=============================================================================
