----------------------------- MODULE AcceptLoops ----------------------------
(***************************************************************************)
(* The accept loops of the listeners of named pipes                        *)
(* (namedpipe/listener.cpp), of Unix domain sockets (unix/listener.cpp)    *)
(* and of the sockets emulated with TCP (libassuan_socket_emulation/,      *)
(* cygwin/listener.cpp), each on its own thread.  The last three are one   *)
(* loop with different preparations.  What happens to a connection after   *)
(* DelegateConnection is in ProxyManager and ForwardManager.               *)
(***************************************************************************)
EXTENDS Integers, FiniteSets

CONSTANTS
  Listener,
  Client        \* programs that connect once

VARIABLES
  kind,         \* "namedpipe", "unix", "assuan_emu" or "cygwin"; "none" without a listener
  place,        \* where the thread of a listener is
  cancelEvent,  \* of each listener
  signalled,    \* the event of a connection: waitHandle[1]
  file,         \* the socket file is there
  queue,        \* the connections that a listener has not taken
  client,       \* "Idle", "Queued", "Refused" or the manager that got the connection
  early         \* ghost: a client connected before ConnectNamedPipe was called

loopVars == <<kind, place, cancelEvent, signalled, file, queue, client, early>>

InitLoops ==
  /\ kind = [l \in Listener |-> "none"]
  /\ place = [l \in Listener |-> "None"]
  /\ cancelEvent = [l \in Listener |-> FALSE]
  /\ signalled = [l \in Listener |-> FALSE]
  /\ file = [l \in Listener |-> FALSE]
  /\ queue = [l \in Listener |-> {}]
  /\ client = [c \in Client |-> "Idle"]
  /\ early = [l \in Listener |-> FALSE]

Emulated == {"assuan_emu", "cygwin"}
LoopKinds == {"namedpipe", "unix"} \cup Emulated

Goes(l, p) == place' = [place EXCEPT ![l] = p]

\* Nobody closes the socket of an emulated listener before the process ends.
ClosedWith(l) == IF kind[l] \in Emulated THEN {} ELSE queue[l]

\* ListenLoop returns; the guards close the pipe or the socket and delete a Unix socket file.
LoopEnds(l, status) ==
  /\ Goes(l, status)
  /\ file' = [file EXCEPT ![l] = @ /\ kind[l] # "unix"]
  /\ queue' = [queue EXCEPT ![l] = @ \ ClosedWith(l)]
  /\ client' = [c \in Client |-> IF c \in ClosedWith(l) THEN "Refused" ELSE client[c]]
  /\ UNCHANGED <<kind, cancelEvent, signalled, early>>

----------------------------------------------------------------------------
\* Everything before the name of the socket exists; any call may fail.
Prepares(l) ==
  /\ place[l] = "Created"
  /\ Goes(l, IF kind[l] = "namedpipe" THEN "Looping" ELSE "Prepared")
  /\ UNCHANGED <<kind, cancelEvent, signalled, file, queue, client, early>>

\* An old file is deleted; then bind makes the file of a Unix socket, and an emulated socket,
\* which is bound, has its port and the nonce written to a file.
Publishes(l) ==
  /\ place[l] = "Prepared"
  /\ file' = [file EXCEPT ![l] = TRUE]
  /\ Goes(l, "Published")
  /\ UNCHANGED <<kind, cancelEvent, signalled, queue, client, early>>

\* permissions, metadata, listen
Listens(l) ==
  /\ place[l] = "Published"
  /\ Goes(l, "Waiting")
  /\ UNCHANGED <<kind, cancelEvent, signalled, file, queue, client, early>>

FailsToListen(l) ==
  /\ place[l] \in {"Created", "Prepared", "Published"}
  /\ LoopEnds(l, "Failed")

\* the wait ends for the event of cancellation first
SeesCancel(l) ==
  /\ place[l] = "Waiting"
  /\ cancelEvent[l]
  /\ LoopEnds(l, "Cancelled")

\* WSAEnumNetworkEvents or the wait fails, or FD_CLOSE is among the events.
SocketFails(l) ==
  /\ place[l] = "Waiting" /\ ~cancelEvent[l]
  /\ kind[l] # "namedpipe"
  /\ LoopEnds(l, "Failed")

\* Mutant: the event is reset once more after accept, which set it again.
NeverMore(l, c) == FALSE

MoreToAccept(l, c) == queue[l] # {c}

\* accept, and DelegateConnection to the manager of the listener, or the socket is closed.
\* The event is set again while there are more.
Accepts(l, c, outcome) ==
  /\ place[l] = "Waiting" /\ ~cancelEvent[l]
  /\ kind[l] # "namedpipe"
  /\ signalled[l]
  /\ c \in queue[l]
  /\ queue' = [queue EXCEPT ![l] = @ \ {c}]
  /\ signalled' = [signalled EXCEPT ![l] = MoreToAccept(l, c)]
  /\ client' = [client EXCEPT ![c] = outcome]
  /\ UNCHANGED <<kind, place, cancelEvent, file, early>>

----------------------------------------------------------------------------
\* The loop of a named pipe, which makes an instance of the pipe for every connection.

CreatesPipe(l) ==
  /\ place[l] = "Looping"
  /\ Goes(l, "Instance")
  /\ UNCHANGED <<kind, cancelEvent, signalled, file, queue, client, early>>

\* CreateNamedPipe or ConnectNamedPipe fails; the listener cancels itself.
PipeFails(l) ==
  /\ place[l] \in {"Looping", "Instance"}
  /\ Goes(l, "Failed")
  /\ cancelEvent' = [cancelEvent EXCEPT ![l] = TRUE]
  /\ queue' = [queue EXCEPT ![l] = {}]
  /\ client' = [c \in Client |-> IF c \in queue[l] THEN "Refused" ELSE client[c]]
  /\ UNCHANGED <<kind, signalled, file, early>>

\* Mutant: the event is not reset for a new instance.
KeepsSignal(l) == signalled[l]

\* For ERROR_PIPE_CONNECTED an event is set that was never created, in place of the one that
\* is waited for, which ConnectNamedPipe reset.
SignalOfConnect(l) == FALSE

ConnectsNamedPipe(l) ==
  /\ place[l] = "Instance"
  /\ signalled' = [signalled EXCEPT ![l] = SignalOfConnect(l)]
  /\ early' = [early EXCEPT ![l] = queue[l] # {}]
  /\ Goes(l, "Waiting")
  /\ UNCHANGED <<kind, cancelEvent, file, queue, client>>

\* DelegateConnection, or the pipe is closed; then the loop goes on.
Connected(l, outcome) ==
  /\ place[l] = "Waiting" /\ ~cancelEvent[l]
  /\ kind[l] = "namedpipe"
  /\ signalled[l]
  /\ queue' = [queue EXCEPT ![l] = {}]
  /\ client' = [c \in Client |-> IF c \in queue[l] THEN outcome ELSE client[c]]
  /\ Goes(l, "Looping")
  /\ UNCHANGED <<kind, cancelEvent, signalled, file, early>>

\* The wait for the two events fails: the pipe is closed, and the loop goes on without a look
\* at the event of cancellation.
PipeWaitFails(l) ==
  /\ place[l] = "Waiting"
  /\ kind[l] = "namedpipe"
  /\ queue' = [queue EXCEPT ![l] = {}]
  /\ client' = [c \in Client |-> IF c \in queue[l] THEN "Refused" ELSE client[c]]
  /\ Goes(l, "Looping")
  /\ UNCHANGED <<kind, cancelEvent, signalled, file, early>>

----------------------------------------------------------------------------
\* A program that finds the pipe or the socket file connects.

ConnectsToPipe(c, l) ==
  /\ client[c] = "Idle"
  /\ kind[l] = "namedpipe"
  /\ place[l] \in {"Instance", "Waiting"} /\ queue[l] = {}
  /\ client' = [client EXCEPT ![c] = "Queued"]
  /\ queue' = [queue EXCEPT ![l] = {c}]
  /\ signalled' = [signalled EXCEPT ![l] = @ \/ place[l] = "Waiting"]
  /\ UNCHANGED <<kind, place, cancelEvent, file, early>>

\* The system takes connections for a socket that listens: for an emulated one also after its
\* loop has ended, unless that failed before listen.
Answers(l) ==
  CASE place[l] = "Waiting" -> {"Queued"}
    [] place[l] = "Cancelled" /\ kind[l] \in Emulated -> {"Queued"}
    [] place[l] = "Failed" /\ kind[l] \in Emulated -> {"Queued", "Refused"}
    [] OTHER -> {"Refused"}

\* The file is there before the socket listens, and may be there after it did.
ConnectsToSocket(c, l) ==
  /\ client[c] = "Idle"
  /\ kind[l] # "namedpipe" /\ file[l]
  /\ \E answer \in Answers(l) :
       /\ client' = [client EXCEPT ![c] = answer]
       /\ IF answer = "Queued"
            THEN /\ queue' = [queue EXCEPT ![l] = @ \cup {c}]
                 /\ signalled' = [signalled EXCEPT ![l] = TRUE]
            ELSE UNCHANGED <<queue, signalled>>
  /\ UNCHANGED <<kind, place, cancelEvent, file, early>>

----------------------------------------------------------------------------
TypeOKLoops ==
  /\ kind \in [Listener -> LoopKinds \cup {"none"}]
  /\ place \in [Listener -> {"None", "Created", "Prepared", "Published", "Looping", "Instance",
                             "Waiting", "Cancelled", "Failed"}]
  /\ cancelEvent \in [Listener -> BOOLEAN]
  /\ signalled \in [Listener -> BOOLEAN]
  /\ file \in [Listener -> BOOLEAN]
  /\ queue \in [Listener -> SUBSET Client]
  /\ client \in [Client -> {"Idle", "Queued", "Refused", "proxy", "forward"}]
  /\ \A c \in Client : (client[c] = "Queued") <=> \E l \in Listener : c \in queue[l]
  /\ \A l \in Listener :
       /\ kind[l] = "namedpipe" => Cardinality(queue[l]) <= 1
       /\ place[l] = "Waiting" /\ signalled[l] => queue[l] # {}
  /\ early \in [Listener -> BOOLEAN]

\* the pipe instance is connected, and its listener is not told
Deaf(l) == early[l] /\ queue[l] # {}
=============================================================================
