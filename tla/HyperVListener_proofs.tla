----------------------- MODULE HyperVListener_proofs -----------------------
(***************************************************************************)
(* Proofs about HyperVListener, for every set of processes and ids, every  *)
(* command line and any number of connections.                             *)
(*                                                                         *)
(* The ids that the listener and its notifier keep were read from the      *)
(* command line of a process that was there (Known); what they mean where  *)
(* the loop stands is Places; and the socket, its events and what waits in *)
(* it belong together (Socket).                                            *)
(***************************************************************************)
EXTENDS HyperVListener, TLAPS, FiniteSetTheorems, WellFoundedInduction

\* An id that names a machine, by the command line of a process.
Known(id) == id # GUID_NULL =>
  \E p \in Host : host[p] # "Absent" /\ (Hosts(p, id) \/ SeenTwice(p, id))

\* The ids that were learned.
Ids ==
  /\ wsl2Flag => Known(lastVmId) /\ Known(vmid) /\ Known(newVmid)
  /\ notifyEvent => lastVmId # GUID_NULL
  /\ loop \in {"Resetting", "Comparing"} => newVmid # GUID_NULL
  /\ socketGood => vmid # GUID_NULL

\* What a listener does that does not follow WSL2, and when there is no socket yet.
Places ==
  /\ ~wsl2Flag =>
       creations = <<>> /\ loop \notin {"Flushing", "Starting", "Getting", "Resetting", "Comparing"}
  /\ loop \in {"Flushing", "Starting", "Getting", "Binding"} => listenSocket = INVALID_SOCKET

\* The connections.
Socket ==
  /\ "FD_ACCEPT" \in networkEvents => backlog > 0
  /\ delegated \in Nat

IInv == TypeOK /\ Ids /\ Places /\ Socket

USE DEF worldVars, notifierVars, loopVars, socketVars, otherVars, ghostVars, Goes

----------------------------------------------------------------------------
\* Command lines

\* Of some numbers up to n one is the last.
LEMMA LastOne ==
  ASSUME NEW n \in Nat, NEW S \in SUBSET (1..n), S # {}
  PROVE  \E k \in S : \A j \in S : j <= k
<1> DEFINE R == OpToRel(<, Nat)
           T == {n - k : k \in S}
<1>1. IsWellFoundedOn(R, Nat)
  BY NatLessThanWellFounded
<1>2. T \subseteq Nat /\ T # {}
  <2>1. \A k \in S : n - k \in Nat
    OBVIOUS
  <2>2. QED
    BY <2>1
<1>3. PICK x \in T : \A y \in T : ~(<<y, x>> \in R)
  <2>. HIDE DEF R, T
  <2>1. QED
    BY <1>1, <1>2, WFMin
<1>4. \A y \in T : ~(y < x)
  BY <1>2, <1>3 DEF OpToRel
<1>5. PICK k \in S : x = n - k
  BY <1>3
<1>6. ASSUME NEW j \in S PROVE j <= k
  <2>1. ~(n - j < n - k)
    BY <1>4, <1>5
  <2>2. QED
    BY <2>1
<1>7. QED
  BY <1>6

\* The id of a command line is a guid, the last one of at least two, or the last word before
\* a space.
LEMMA VmId ==
  ASSUME NEW p \in Host, TryGetVmIdFromCmdline(Cmdline[p]) # GUID_NULL
  PROVE  /\ TryGetVmIdFromCmdline(Cmdline[p]) \in Guid
         /\ p \in OwnedBySelf => \/ Hosts(p, TryGetVmIdFromCmdline(Cmdline[p]))
                               \/ SeenTwice(p, TryGetVmIdFromCmdline(Cmdline[p]))
<1> DEFINE words == WordsSeen(Cmdline[p])
           places == {k \in DOMAIN words : words[k] \in Guid}
           last == CHOOSE k \in places : \A j \in places : j <= k
<1>1. PICK n \in Nat : DOMAIN words = 1..n
  <2>1. Cmdline[p].words \in Seq(Guid \cup {"word"})
    BY CmdlineAssumption
  <2>2. CASE Cmdline[p].words = <<>>
    BY <2>2 DEF WordsSeen
  <2>3. CASE Cmdline[p].words # <<>>
    <3>1. PICK w \in Seq(Guid \cup {"word"}) : w = Cmdline[p].words
      BY <2>1
    <3>2. Append(w, w[Len(w)]) \in Seq(Guid \cup {"word"})
      BY <2>3, <3>1
    <3>3. words \in Seq(Guid \cup {"word"})
      BY <3>1, <3>2 DEF WordsSeen
    <3>4. QED
      BY <3>3
  <2>4. QED
    BY <2>2, <2>3
<1>2. /\ Cardinality(places) > 1
      /\ TryGetVmIdFromCmdline(Cmdline[p]) = words[last]
  BY DEF TryGetVmIdFromCmdline, EnoughGuids
<1>3. places \in SUBSET (1..n) /\ places # {}
  <2>1. places \in SUBSET (1..n)
    BY <1>1
  <2>. HIDE DEF places
  <2>2. QED
    BY <1>2, <2>1, FS_EmptySet
<1>. HIDE DEF places
<1>4. last \in places /\ \A j \in places : j <= last
  BY <1>1, <1>3, LastOne
<1>. HIDE DEF last
<1>5. words[last] \in Guid /\ last \in 1..n
  BY <1>1, <1>4 DEF places
<1>6. PICK other \in places : other # last
  <2>1. CASE places = {last}
    BY <1>2, <2>1, FS_Singleton
  <2>2. QED
    BY <1>4, <2>1
<1>7. ASSUME p \in OwnedBySelf, words = Cmdline[p].words PROVE Hosts(p, words[last])
  <2>2. PICK j \in places : j # last
    BY <1>6
  <2>3. j < last /\ j \in DOMAIN words /\ words[j] \in Guid
    BY <1>1, <1>3, <1>4, <2>2 DEF places
  <2>4. ASSUME NEW l \in DOMAIN words, last < l PROVE words[l] \notin Guid
    <3>1. l \notin places
      BY <1>1, <1>4, <1>5, <2>4
    <3>2. QED
      BY <2>4, <3>1 DEF places
  <2>. HIDE DEF words
  <2>5. QED
    BY <1>1, <1>5, <1>7, <2>3, <2>4 DEF Hosts
<1>8. ASSUME p \in OwnedBySelf, words # Cmdline[p].words
      PROVE  Hosts(p, words[last]) \/ SeenTwice(p, words[last])
  <2>1. PICK w \in Seq(Guid \cup {"word"}) : w = Cmdline[p].words
    BY CmdlineAssumption
  <2>2. Cmdline[p].space /\ w # <<>> /\ words = Append(w, w[Len(w)])
    BY <1>8, <2>1 DEF WordsSeen
  <2>3. /\ Len(w) \in Nat \ {0} /\ DOMAIN w = 1..Len(w) /\ n = Len(w) + 1
        /\ words[Len(w) + 1] = w[Len(w)]
        /\ \A k \in 1..Len(w) : words[k] = w[k]
    <3>1. Len(w) \in Nat \ {0} /\ DOMAIN w = 1..Len(w)
      BY <2>2
    <3>2. /\ DOMAIN words = 1..Len(w) + 1 /\ words[Len(w) + 1] = w[Len(w)]
          /\ \A k \in 1..Len(w) : words[k] = w[k]
      BY <2>2, <3>1
    <3>3. QED
      BY <1>1, <3>1, <3>2
  <2> HIDE DEF words
  <2>4. CASE w[Len(w)] \in Guid
    <3>1. n \in places
      BY <1>1, <2>3, <2>4 DEF places
    <3>2. last = n
      BY <1>4, <1>5, <3>1
    <3>3. QED
      BY <1>5, <1>8, <2>1, <2>2, <2>3, <3>2 DEF SeenTwice
  <2>5. CASE w[Len(w)] \notin Guid
    <3>1. \A k \in places : k \in 1..Len(w) /\ w[k] \in Guid
      BY <1>1, <2>3, <2>5 DEF places
    <3>2. PICK j \in places : j # last
      BY <1>6
    <3>3. j < last /\ j \in DOMAIN w /\ w[j] \in Guid /\ last \in DOMAIN w /\ w[last] = words[last]
      BY <1>4, <2>3, <3>1, <3>2
    <3>4. ASSUME NEW l \in DOMAIN w, last < l PROVE w[l] \notin Guid
      <4>1. l \notin places /\ l \in 1..n
        BY <1>4, <1>5, <2>3, <3>4
      <4>2. QED
        BY <1>1, <2>3, <3>4, <4>1 DEF places
    <3>5. QED
      BY <1>5, <1>8, <2>1, <3>3, <3>4 DEF Hosts
  <2>6. QED
    BY <2>4, <2>5
<1>9. QED
  BY <1>2, <1>5, <1>7, <1>8

\* What the notifier learns from a process is known.
LEMMA Learned ==
  ASSUME NEW p \in Host, Qualifies(p)
  PROVE  /\ TryGetVmIdFromCmdline(Cmdline[p]) \in Guid
         /\ TryGetVmIdFromCmdline(Cmdline[p]) # GUID_NULL
         /\ Known(TryGetVmIdFromCmdline(Cmdline[p]))
BY VmId DEF Qualifies, CheckWmiProcessOwner, Known

\* A process that was there stays one that was there.
LEMMA KnownKept ==
  ASSUME NEW id, Known(id), \A p \in Host : host[p] # "Absent" => host'[p] # "Absent"
  PROVE  Known(id)'
BY DEF Known

----------------------------------------------------------------------------
\* The invariant

\* Nothing was learned, and there is no socket.
LEMMA Initially == Init => IInv
<1>. SUFFICES ASSUME Init PROVE IInv
  OBVIOUS
<1>1. TypeOK
  <2>1. <<>> \in Seq(Host) /\ 0 \in 0..MaxConnections
    BY MaxAssumption
  <2>2. delegated + backlog <= made /\ vmid \in Guid \cup {GUID_NULL}
    BY FixedAssumption DEF Init
  <2>3. loop \in {"Flushing", "Binding"} /\ (~wsl2Flag => vmid = FixedId)
    BY DEF Init
  <2>4. QED
    BY <2>1, <2>2, <2>3 DEF Init, InitNotifier, TypeOK
<1>2. Ids /\ Places /\ Socket
  BY DEF Init, InitNotifier, Ids, Known, Places, Socket
<1>3. QED
  BY <1>1, <1>2 DEF IInv

\* The notifier learns an id, from the query or from a notification, or nothing.
LEMMA LearningKeeps ==
  ASSUME IInv, Flushes \/ Indicates
  PROVE  IInv'
<1>0. TypeOK /\ Ids /\ Places /\ Socket
  BY DEF IInv
<1>1. /\ UNCHANGED <<host, started, wsl2Flag, vmid, newVmid, socketVars, otherVars, latest>>
      /\ creations' \in Seq(Host)
      /\ \/ loop = "Flushing" /\ loop' = "Starting" /\ creations' = creations
         \/ loop' = loop /\ creations # <<>>
      /\ unseen' \in BOOLEAN
  <2>1. creations \in Seq(Host) /\ unseen \in BOOLEAN
    BY <1>0 DEF TypeOK
  <2>2. CASE Flushes
    BY <2>1, <2>2 DEF Flushes
  <2>3. CASE Indicates
    <3>1. creations # <<>> /\ creations' = Tail(creations)
      BY <2>3 DEF Indicates, Indicate
    <3>2. creations' \in Seq(Host)
      BY <2>1, <3>1
    <3>3. unseen' \in BOOLEAN
      BY <2>1, <2>3 DEF Indicates
    <3>4. QED
      BY <2>3, <3>1, <3>2, <3>3 DEF Indicates, Indicate
  <2>4. QED
    BY <2>2, <2>3
<1>2. \/ UNCHANGED <<lastVmId, notifyEvent>>
      \/ \E p \in Host : Qualifies(p) /\ UpdateLastVmid(TryGetVmIdFromCmdline(Cmdline[p]))
  <2>1. CASE Flushes
    BY <2>1 DEF Flushes, FlushLastWslVmId, UpdateLastVmIdByWmiProcess
  <2>2. CASE Indicates
    <3>1. creations \in Seq(Host) /\ creations # <<>>
      BY <1>0, <2>2 DEF TypeOK, Indicates, Indicate
    <3>2. Head(creations) \in Host
      BY <3>1
    <3>3. QED
      BY <2>2, <3>2 DEF Indicates, Indicate, UpdateLastVmIdByWmiProcess
  <2>3. QED
    BY <2>1, <2>2
<1>3. wsl2Flag
  BY <1>0, <1>1 DEF Places
<1>4. /\ lastVmId' \in Guid \cup {GUID_NULL} /\ notifyEvent' \in BOOLEAN
      /\ Known(lastVmId') /\ (notifyEvent' => lastVmId' # GUID_NULL)
  <2>1. CASE UNCHANGED <<lastVmId, notifyEvent>>
    BY <1>0, <1>3, <2>1 DEF TypeOK, Ids
  <2>2. ASSUME NEW p \in Host, Qualifies(p),
               UpdateLastVmid(TryGetVmIdFromCmdline(Cmdline[p]))
        PROVE  /\ lastVmId' \in Guid \cup {GUID_NULL} /\ notifyEvent' \in BOOLEAN
               /\ Known(lastVmId') /\ (notifyEvent' => lastVmId' # GUID_NULL)
    BY <2>2, Learned DEF UpdateLastVmid
  <2>3. QED
    BY <1>2, <2>1, <2>2
<1>5. TypeOK'
  BY <1>0, <1>1, <1>3, <1>4 DEF TypeOK, Over
<1>6. Ids'
  <2>1. Known(lastVmId)' /\ Known(vmid)' /\ Known(newVmid)'
    BY <1>0, <1>1, <1>3, <1>4 DEF Ids, Known
  <2>2. QED
    BY <1>0, <1>1, <1>4, <2>1 DEF Ids
<1>7. Places' /\ Socket'
  BY <1>0, <1>1, <1>3 DEF Places, Socket
<1>8. QED
  BY <1>5, <1>6, <1>7 DEF IInv

\* The loop goes on without its socket.
LEMMA LoopKeeps ==
  ASSUME IInv,
         \/ Starts \/ GetsFirstId \/ Cancelled \/ CallFails \/ NoSocketToAsk
         \/ ReadsNewId \/ ResetsEvent \/ NothingToRebind
  PROVE  IInv'
<1>0. TypeOK /\ Ids /\ Places /\ Socket
  BY DEF IInv
<1>1. UNCHANGED <<worldVars, lastVmId, wsl2Flag, socketVars, otherVars, latest>>
  BY DEF Starts, GetsFirstId, Cancelled, CallFails, NoSocketToAsk, ReadsNewId, ResetsEvent, NothingToRebind
<1>2. /\ started' \in BOOLEAN /\ unseen' \in BOOLEAN /\ notifyEvent' \in BOOLEAN
      /\ notifyEvent' => notifyEvent
      /\ loop' \in {"Getting", "Failed", "Binding", "Cancelled", "Resetting", "Comparing", "Waiting"}
  <2>1. started \in BOOLEAN /\ unseen \in BOOLEAN /\ notifyEvent \in BOOLEAN
    BY <1>0 DEF TypeOK
  <2>2. CASE Starts
    BY <2>1, <2>2 DEF Starts, StartNotifier
  <2>3. CASE GetsFirstId \/ Cancelled \/ CallFails \/ NoSocketToAsk \/ NothingToRebind
    BY <2>1, <2>3 DEF GetsFirstId, Cancelled, CallFails, NoSocketToAsk, NothingToRebind
  <2>4. CASE ReadsNewId
    BY <2>1, <2>4 DEF ReadsNewId
  <2>5. CASE ResetsEvent
    BY <2>1, <2>5 DEF ResetsEvent
  <2>6. QED
    BY <2>2, <2>3, <2>4, <2>5
<1>3. \/ vmid' = vmid
      \/ vmid' = lastVmId /\ loop = "Getting"
  BY DEF Starts, GetsFirstId, Cancelled, CallFails, NoSocketToAsk, ReadsNewId, ResetsEvent, NothingToRebind
<1>4. newVmid' \in {newVmid, lastVmId}
  BY DEF Starts, GetsFirstId, Cancelled, CallFails, NoSocketToAsk, ReadsNewId, ResetsEvent, NothingToRebind
<1>5. loop' \in {"Resetting", "Comparing"} => newVmid' # GUID_NULL /\ (~wsl2Flag => FALSE)
  BY <1>0 DEF Starts, GetsFirstId, Cancelled, CallFails, NoSocketToAsk, ReadsNewId, ResetsEvent,
              NothingToRebind, Ids, TypeOK, Places
<1>6. loop' \in {"Getting", "Binding"} => loop \in {"Starting", "Getting"}
  BY DEF Starts, GetsFirstId, Cancelled, CallFails, NoSocketToAsk, ReadsNewId, ResetsEvent, NothingToRebind
<1>7. loop \in {"Starting", "Getting"} => wsl2Flag /\ listenSocket = INVALID_SOCKET
  BY <1>0 DEF Places
<1>8. TypeOK'
  <2>1. loop \notin Over
    BY DEF Starts, GetsFirstId, Cancelled, CallFails, NoSocketToAsk, SocketEvent, ReadsNewId, ResetsEvent,
           NothingToRebind, Over
  <2>2. socketGood' \in BOOLEAN /\ (loop' \notin Over => (socketGood' <=> listenSocket' # INVALID_SOCKET))
    BY <1>0, <1>1, <2>1 DEF TypeOK
  <2>3. listenSocket' \in {vmid', INVALID_SOCKET} /\ vmid' \in Guid \cup {GUID_NULL}
    BY <1>0, <1>1, <1>3, <1>7 DEF TypeOK
  <2>4. ~wsl2Flag' => ~notifyEvent' /\ vmid' = FixedId
    BY <1>0, <1>1, <1>2, <1>3, <1>7 DEF TypeOK
  <2>5. QED
    BY <1>0, <1>1, <1>2, <1>4, <2>2, <2>3, <2>4 DEF TypeOK, Over
<1>9. Ids'
  <2>1. socketGood' => vmid' # GUID_NULL
    BY <1>0, <1>1, <1>3, <1>7 DEF Ids, TypeOK, Over
  <2>2. wsl2Flag => Known(lastVmId)' /\ Known(vmid)' /\ Known(newVmid)'
    BY <1>0, <1>1, <1>3, <1>4 DEF Ids, Known
  <2>3. QED
    BY <1>0, <1>1, <1>2, <1>5, <2>1, <2>2 DEF Ids
<1>10. Places' /\ Socket'
  BY <1>0, <1>1, <1>2, <1>5, <1>6, <1>7 DEF Places, Socket
<1>11. QED
  BY <1>8, <1>9, <1>10 DEF IInv

\* The socket is built, for the first time or again, or cannot be.
LEMMA BindingKeeps ==
  ASSUME IInv, BindsFirst \/ CannotBindFirst \/ CannotSelectFirst \/ Rebinds \/ CannotSelect
  PROVE  IInv'
<1>0. TypeOK /\ Ids /\ Places /\ Socket
  BY DEF IInv
<1>1. /\ UNCHANGED <<worldVars, notifierVars, wsl2Flag, newVmid, listenEvent, otherVars, ghostVars>>
      /\ networkEvents' = {} /\ backlog' = 0
      /\ \/ listenSocket' = vmid' /\ socketGood' = TRUE /\ vmid' # GUID_NULL
         \/ listenSocket' = INVALID_SOCKET /\ socketGood' = FALSE
         \/ /\ listenSocket' = vmid' /\ socketGood' \in BOOLEAN /\ vmid' # GUID_NULL
            /\ loop' = "Failed"
      /\ \/ loop = "Binding" /\ vmid' = vmid /\ loop' \in {"Waiting", "Failed"}
         \/ loop = "Comparing" /\ vmid' = newVmid /\ loop' \in {"Waiting", "Failed"}
  BY <1>0
  DEF BindsFirst, CannotBindFirst, CannotSelectFirst, Rebinds, CannotSelect, TypeOK, SocketIsBuilt, NoSocketIsBuilt, IdToBind, Ids
<1>2. vmid' \in Guid \cup {GUID_NULL} /\ vmid' # INVALID_SOCKET
  BY <1>0, <1>1, SocketAssumption DEF TypeOK
<1>3. delegated + 0 <= made /\ 0 \in 0..MaxConnections
  BY <1>0, MaxAssumption DEF TypeOK, Socket
<1>4. TypeOK'
  <2>1. ~wsl2Flag' => ~notifyEvent' /\ vmid' = FixedId
    BY <1>0, <1>1 DEF TypeOK, Places
  <2>2. socketGood' \in BOOLEAN /\ (loop' \notin Over => (socketGood' <=> listenSocket' # INVALID_SOCKET))
    <3>1. CASE loop' = "Failed"
      BY <1>1, <3>1 DEF Over
    <3>2. CASE loop' # "Failed"
      <4>1. CASE listenSocket' = vmid' /\ socketGood' = TRUE
        BY <1>2, <4>1
      <4>2. CASE listenSocket' = INVALID_SOCKET /\ socketGood' = FALSE
        BY <4>2
      <4>3. QED
        BY <1>1, <3>2, <4>1, <4>2
    <3>3. QED
      BY <3>1, <3>2
  <2>3. QED
    BY <1>0, <1>1, <1>2, <1>3, <2>1, <2>2 DEF TypeOK, Over
<1>5. Ids'
  <2>1. wsl2Flag => Known(lastVmId)' /\ Known(vmid)' /\ Known(newVmid)'
    BY <1>0, <1>1 DEF Ids, Known
  <2>2. QED
    BY <1>0, <1>1, <2>1 DEF Ids
<1>6. Places' /\ Socket'
  BY <1>0, <1>1 DEF Places, Socket
<1>7. QED
  BY <1>4, <1>5, <1>6 DEF IInv

\* Connections come and are taken; the socket closes.
LEMMA ConnectionsKeep ==
  ASSUME IInv,
         \/ SocketClosed \/ (\E ok \in BOOLEAN : Accepts(ok)) \/ NothingRecorded
         \/ Connects \/ SocketCloses
  PROVE  IInv'
<1>0. TypeOK /\ Ids /\ Places /\ Socket
  BY DEF IInv
<1>1. UNCHANGED <<worldVars, notifierVars, wsl2Flag, vmid, newVmid, socketGood, listenSocket,
                  cancelEvent, ghostVars>>
  BY DEF SocketClosed, Accepts, NothingRecorded, Connects, SocketCloses
<1>2. PICK b \in Nat, d \in Nat, m \in Nat :
        b = backlog /\ d = delegated /\ m = made /\ m <= MaxConnections /\ d + b <= m
  BY <1>0, MaxAssumption DEF TypeOK, Socket
<1> DEFINE Types ==
      /\ networkEvents' \subseteq {"FD_ACCEPT", "FD_CLOSE"}
      /\ listenEvent' \in BOOLEAN
      /\ loop' = loop \/ (loop = "Waiting" /\ loop' = "Failed")
    Counts ==
      /\ backlog' \in 0..MaxConnections /\ made' \in 0..MaxConnections
      /\ delegated' \in Nat /\ delegated' + backlog' <= made'
      /\ "FD_ACCEPT" \in networkEvents' => backlog' > 0
<1>3. Types /\ Counts
  <2>1. CASE SocketClosed
    <3>1. delegated' = d /\ backlog' = b /\ made' = m /\ Types /\ networkEvents' = {}
      BY <1>2, <2>1 DEF SocketClosed, SocketEvent
    <3>2. QED
      BY <1>2, <3>1, MaxAssumption
  <2>2. ASSUME NEW ok \in BOOLEAN, Accepts(ok) PROVE Types /\ Counts
    <3>1. b > 0
      BY <1>0, <1>2, <2>2 DEF Accepts, Socket
    <3>2. b - 1 \in Nat /\ d + 1 \in Nat /\ d + (b - 1) <= m /\ d + 1 + (b - 1) <= m
      BY <1>2, <3>1
    <3>3. (b > 1) = (b - 1 > 0)
      BY <1>2
    <3>4. /\ backlog' = b - 1 /\ made' = m /\ loop' = loop
          /\ delegated' = d + 1 \/ delegated' = d
          /\ listenEvent' \in BOOLEAN
          /\ \/ networkEvents' = {}
             \/ networkEvents' = {"FD_ACCEPT"} /\ b - 1 > 0
      BY <1>2, <2>2, <3>3 DEF Accepts, SignalledAgain
    <3>5. Types
      BY <3>4
    <3>6. Counts
      BY <1>2, <3>2, <3>4, MaxAssumption
    <3>7. QED
      BY <3>5, <3>6
  <2>3. CASE NothingRecorded
    <3>1. delegated' = d /\ backlog' = b /\ made' = m /\ Types /\ networkEvents' = {}
      BY <1>2, <2>3 DEF NothingRecorded, TypeOK
    <3>2. QED
      BY <1>2, <3>1, MaxAssumption
  <2>4. CASE Connects
    <3>1. b + 1 \in Nat /\ m + 1 \in Nat /\ m + 1 <= MaxConnections /\ d + (b + 1) <= m + 1 /\ b + 1 > 0
      BY <1>2, <2>4, MaxAssumption DEF Connects
    <3>2. delegated' = d /\ backlog' = b + 1 /\ made' = m + 1
      BY <1>2, <2>4 DEF Connects
    <3>3. Types
      BY <1>0, <2>4 DEF Connects, TypeOK
    <3>4. QED
      BY <1>2, <3>1, <3>2, <3>3, MaxAssumption
  <2>5. CASE SocketCloses
    <3>1. Types
      BY <1>0, <2>5 DEF SocketCloses, TypeOK
    <3>2. Counts
      BY <1>0, <2>5 DEF SocketCloses, TypeOK, Socket
    <3>3. QED
      BY <3>1, <3>2
  <2>6. QED
    BY <2>1, <2>2, <2>3, <2>4, <2>5
<1>4. TypeOK'
  <2>1. loop' \in {"Flushing", "Starting", "Getting", "Binding", "Waiting", "Resetting", "Comparing"}
                    \cup Over
    BY <1>0, <1>3 DEF TypeOK, Over
  <2>2. /\ listenSocket' \in {vmid', INVALID_SOCKET} /\ socketGood' \in BOOLEAN
        /\ loop' \notin Over => (socketGood' <=> listenSocket' # INVALID_SOCKET)
    BY <1>0, <1>1, <1>3 DEF TypeOK, Over
  <2>3. ~wsl2Flag' => ~notifyEvent' /\ vmid' = FixedId
    BY <1>0, <1>1 DEF TypeOK
  <2>4. /\ delegated' + backlog' <= made'
        /\ backlog' \in 0..MaxConnections /\ made' \in 0..MaxConnections
    BY <1>3
  <2>5. networkEvents' \subseteq {"FD_ACCEPT", "FD_CLOSE"} /\ listenEvent' \in BOOLEAN
    BY <1>3
  <2>. HIDE DEF Types, Counts
  <2>6. QED
    BY <1>0, <1>1, <2>1, <2>2, <2>3, <2>4, <2>5 DEF TypeOK
<1>5. Ids'
  <2>1. wsl2Flag => Known(lastVmId)' /\ Known(vmid)' /\ Known(newVmid)'
    BY <1>0, <1>1 DEF Ids, Known
  <2>2. QED
    BY <1>0, <1>1, <1>3, <2>1 DEF Ids
<1>6. Places' /\ Socket'
  BY <1>0, <1>1, <1>3 DEF Places, Socket
<1>7. QED
  BY <1>4, <1>5, <1>6 DEF IInv

\* Processes start and end, and the application cancels.
LEMMA WorldKeeps ==
  ASSUME IInv, Cancel \/ \E p \in Host : HostIsStarted(p) \/ HostIsOver(p)
  PROVE  IInv'
<1>0. TypeOK /\ Ids /\ Places /\ Socket
  BY DEF IInv
<1>1. UNCHANGED <<notifierVars, loopVars, socketVars, delegated, made, unseen>>
  BY DEF Cancel, HostIsStarted, HostIsOver, HostStarts, HostExits
<1> DEFINE Types ==
      /\ cancelEvent' \in BOOLEAN
      /\ host' \in [Host -> {"Absent", "Running", "Gone"}]
      /\ \A p \in Host : host[p] # "Absent" => host'[p] # "Absent"
      /\ creations' \in Seq(Host)
      /\ ~wsl2Flag => creations' = creations
      /\ latest' \in Guid \cup {GUID_NULL}
<1>2. Types
  <2>0. /\ cancelEvent \in BOOLEAN /\ host \in [Host -> {"Absent", "Running", "Gone"}]
        /\ creations \in Seq(Host) /\ latest \in Guid \cup {GUID_NULL}
    BY <1>0 DEF TypeOK
  <2>1. CASE Cancel
    BY <2>0, <2>1 DEF Cancel
  <2>2. ASSUME NEW p \in Host, HostIsStarted(p) PROVE Types
    <3>1. /\ host' = [host EXCEPT ![p] = "Running"] /\ wsl2Flag /\ cancelEvent' = cancelEvent
          /\ creations' \in {Append(creations, p), creations}
      BY <2>2 DEF HostIsStarted, HostStarts
    <3>2. latest' \in Guid \cup {GUID_NULL}
      BY <2>0, <2>2, VmId DEF HostIsStarted
    <3>3. QED
      BY <2>0, <3>1, <3>2
  <2>3. ASSUME NEW p \in Host, HostIsOver(p) PROVE Types
    <3>1. /\ host' = [host EXCEPT ![p] = "Gone"] /\ cancelEvent' = cancelEvent
          /\ creations' = creations /\ latest' \in {GUID_NULL, latest}
      BY <2>3 DEF HostIsOver, HostExits
    <3>2. QED
      BY <2>0, <3>1
  <2>4. QED
    BY <2>1, <2>2, <2>3
<1>3. TypeOK'
  BY <1>0, <1>1, <1>2 DEF TypeOK
<1>4. Ids'
  <2>1. wsl2Flag => Known(lastVmId)' /\ Known(vmid)' /\ Known(newVmid)'
    BY <1>0, <1>1, <1>2 DEF Ids, Known
  <2>2. QED
    BY <1>0, <1>1, <2>1 DEF Ids
<1>5. Places' /\ Socket'
  BY <1>0, <1>1, <1>2 DEF Places, Socket
<1>6. QED
  BY <1>3, <1>4, <1>5 DEF IInv

\* Every step keeps the invariant.
LEMMA Step == IInv /\ [Next]_vars => IInv'
<1>1. IInv /\ UNCHANGED vars => IInv'
  BY DEF vars, IInv, TypeOK, Ids, Known, Places, Socket
<1>2. QED
  BY <1>1, LearningKeeps, LoopKeeps, BindingKeeps, ConnectionsKeep, WorldKeeps DEF Next, Loop

\* The invariant of the listener and its notifier.
THEOREM Invariance == Spec => []IInv
BY Initially, Step, PTL DEF Spec

\* Every variable keeps its type; the socket is bound to the id the listener keeps, and no
\* more connections are handed over than were made (listener.cpp:118-250).
THEOREM TypesHold == Spec => []TypeOK
<1>1. IInv => TypeOK
  BY DEF IInv
<1>. QED
  BY <1>1, Invariance, PTL

\* The socket is bound to a machine of the user alone, unless the command line it was learned from
\* ended in one guid and a space (rebind_notifier.cpp:78-105).
THEOREM BoundToOwn == Spec => []OwnMachineOnly
<1>1. IInv => OwnMachineOnly
  BY DEF IInv, Ids, Known, OwnMachineOnly
<1>. QED
  BY <1>1, Invariance, PTL
=============================================================================
