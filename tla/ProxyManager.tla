---------------------------- MODULE ProxyManager ----------------------------
(***************************************************************************)
(* ProxyConnectionManager and ProxyIoContext                               *)
(* (src/protocol/connection_manager/proxy.cpp), with the threads that run  *)
(* them: the listener threads that delegate connections, the thread of the *)
(* completion port, the worker of the dispatcher that delivers replies,    *)
(* and the main thread that shuts everything down.                         *)
(*                                                                         *)
(* No lock protects a context.  What keeps two threads off the same one is *)
(* that a context has at most one thing going on: an i/o operation, a      *)
(* completion packet, a thread, or a place in the dispatcher's queue.      *)
(* Nothing in the model enforces that: a thread reads the state of a       *)
(* context in one step, starts i/o in another, disposes of it in three     *)
(* more, and any other thread may step in between.                         *)
(***************************************************************************)
EXTENDS Integers, Sequences

CONSTANTS
  Context,      \* addresses of ProxyIoContext objects; freed ones are reused
  Listener,     \* listener threads
  None,
  HEADER_SIZE, MAX_BUFFER_SIZE, MAX_MESSAGE_SIZE,
  Announced,    \* the message lengths that peers announce
  Replies,      \* the sizes of the replies that the dispatcher makes
  Handshakes,   \* how many exchanges DoHandshake makes: 0 (named pipe, unix),
                \* 1 (libassuan), 4 (cygwin)
  SocketPeers   \* TRUE if connections may be sockets, FALSE if all are pipes

ASSUME SizeAssumption ==
  /\ HEADER_SIZE \in Nat \ {0}
  /\ MAX_BUFFER_SIZE \in Nat /\ MAX_BUFFER_SIZE > HEADER_SIZE
  /\ MAX_MESSAGE_SIZE \in Nat
  /\ Announced \subseteq Nat /\ Replies \subseteq Nat \ {0}
  /\ Handshakes \subseteq Nat
  /\ SocketPeers \in BOOLEAN
ASSUME ThreadAssumption ==
  /\ Listener \cap {"iocp", "worker", "main"} = {}
  /\ None \notin Context

Thread == Listener \cup {"iocp", "worker", "main"}

VARIABLES
  \* ProxyIoContext
  state,        \* state[c], State::Initialized before the first connection
  ioNeedBytes,  \* bytes left in the current transfer
  ioDataOffset, \* bytes of the reply already copied to the i/o buffer
  messageSize,  \* message.length while a request is read, message.data.size() later
  handshake,    \* exchanges of DoHandshake that are left (listenerData)
  \* ProxyConnectionManager
  contextList,
  cancelFlag,
  \* the kernel's side of a connection
  socket,       \* socket[c]: a socket and not a pipe
  closed,       \* closed[c]: the peer closed it and its data was read
  io,           \* io[c]: the operations under way
  arrived,      \* arrived[c]: its packets in the completion port
  portOpen,
  \* the dispatcher, as the manager sees it
  messageList,  \* contexts whose message was posted
  dispatcherCancelled,
  \* threads
  at,           \* at[t]: where t stands
  on,           \* on[t]: the context it works on
  arg,          \* arg[t]: bytes transferred, or bytes to transfer
  application   \* how far Application::Run is with the shutdown

contextVars == <<state, ioNeedBytes, ioDataOffset, messageSize, handshake>>
kernelVars == <<socket, closed, io, arrived, portOpen>>
managerVars == <<contextList, cancelFlag>>
dispatcherVars == <<messageList, dispatcherCancelled>>
threadVars == <<at, on, arg>>
vars == <<contextVars, managerVars, kernelVars, dispatcherVars, threadVars, application>>

\* Mutant: the buffer is filled although fewer bytes are left.
WholeBuffer(a, b) == a

Lesser(a, b) == IF a <= b THEN a ELSE b

Init ==
  /\ state = [c \in Context |-> "Initialized"]
  /\ ioNeedBytes = [c \in Context |-> 0]
  /\ ioDataOffset = [c \in Context |-> 0]
  /\ messageSize = [c \in Context |-> 0]
  /\ handshake = [c \in Context |-> 0]
  /\ contextList = {}
  /\ cancelFlag = FALSE
  /\ socket = [c \in Context |-> FALSE]
  /\ closed = [c \in Context |-> FALSE]
  /\ io = [c \in Context |-> << >>]
  /\ arrived = [c \in Context |-> << >>]
  /\ portOpen = TRUE
  /\ messageList = {}
  /\ dispatcherCancelled = FALSE
  /\ at = [t \in Thread |-> "idle"]
  /\ on = [t \in Thread |-> None]
  /\ arg = [t \in Thread |-> 0]
  /\ application = "Running"

----------------------------------------------------------------------------
\* The course of a thread.

Moves(t, place, n) ==
  /\ at' = [at EXCEPT ![t] = place]
  /\ arg' = [arg EXCEPT ![t] = n]
  /\ UNCHANGED on

Takes(t, c, place, n) ==
  /\ at' = [at EXCEPT ![t] = place]
  /\ on' = [on EXCEPT ![t] = c]
  /\ arg' = [arg EXCEPT ![t] = n]

\* back from DoIoCompletion or Dispose, the reference to the context dropped
Returns(t) ==
  /\ at' = [at EXCEPT ![t] = "idle"]
  /\ on' = [on EXCEPT ![t] = None]
  /\ arg' = [arg EXCEPT ![t] = 0]

Ends(t) ==
  /\ at' = [at EXCEPT ![t] = "exited"]
  /\ UNCHANGED <<on, arg>>

\* No shared_ptr to c is left, so that its memory may be a new connection's.
\* Operations and packets hold a raw pointer, which keeps nothing alive.
Unreferenced(c) ==
  /\ c \notin contextList \cup messageList
  /\ \A t \in Thread : on[t] # c

----------------------------------------------------------------------------
\* A listener thread: it waits for a connection unless it was cancelled, and hands
\* the one it got to DelegateConnection, which ends with DoIoCompletion(context, 0).

ListenersCancelled == application \notin {"Running", "JoinWorker"}

Listens(l) ==
  /\ at[l] = "idle"
  /\ IF ListenersCancelled THEN Ends(l) ELSE Moves(l, "accept", 0)
  /\ UNCHANGED <<contextVars, managerVars, kernelVars, dispatcherVars, application>>

DelegateConnection(l, c, h, s) ==
  /\ at[l] = "accept"
  /\ Unreferenced(c)
  /\ state' = [state EXCEPT ![c] = "Handshake"]
  /\ handshake' = [handshake EXCEPT ![c] = h]
  /\ socket' = [socket EXCEPT ![c] = s]
  /\ closed' = [closed EXCEPT ![c] = FALSE]
  /\ contextList' = contextList \cup {c}
  /\ Takes(l, c, "handshake", 0)
  /\ UNCHANGED <<ioNeedBytes, ioDataOffset, messageSize, cancelFlag, io, arrived, portOpen,
                 dispatcherVars, application>>

\* ListenLoop returns: it was cancelled, or a call it cannot do without failed.
ListenLoopEnds(l) ==
  /\ at[l] = "accept"
  /\ Ends(l)
  /\ UNCHANGED <<contextVars, managerVars, kernelVars, dispatcherVars, application>>

----------------------------------------------------------------------------
\* The completion port thread: IocpThreadProc.

\* while (!cancelFlag) GetQueuedCompletionStatus(...): from here the thread is in the call
Waits ==
  /\ at["iocp"] = "idle"
  /\ IF cancelFlag THEN Ends("iocp") ELSE Moves("iocp", "wait", 0)
  /\ UNCHANGED <<contextVars, managerVars, kernelVars, dispatcherVars, application>>

\* Mutant: a failed operation is passed over like a cancelled one.
FailureIgnored(c) == Returns("iocp")

\* ERROR_BROKEN_PIPE and every other error of an operation
FailureDisposes(c) == Takes("iocp", c, "dispose", 0)

\* a packet is a number of bytes, or says that the operation failed or was cancelled
Dequeues(c) ==
  /\ at["iocp"] = "wait"
  /\ portOpen
  /\ arrived[c] # << >>
  /\ arrived' = [arrived EXCEPT ![c] = Tail(@)]
  /\ LET packet == Head(arrived[c])
     IN  \/ /\ packet.result = "transferred"
            /\ Takes("iocp", c, "complete", packet.bytes)
         \/ /\ packet.result = "failed"
            /\ FailureDisposes(c)
         \/ /\ packet.result = "aborted"
            /\ Returns("iocp")
  /\ UNCHANGED <<contextVars, managerVars, socket, closed, io, portOpen,
                 dispatcherVars, application>>

\* ERROR_ABANDONED_WAIT_0
PortAbandoned ==
  /\ at["iocp"] = "wait"
  /\ ~portOpen
  /\ Ends("iocp")
  /\ UNCHANGED <<contextVars, managerVars, kernelVars, dispatcherVars, application>>

----------------------------------------------------------------------------
\* DoIoCompletion on thread t.  A step reads the state, computes and assigns; the
\* ReadFile or WriteFile it leads to is a step of its own, StartsIo.

Completing(t, s) ==
  /\ at[t] \in {"handshake", "complete"}
  /\ state[on[t]] = s

Left(t) == ioNeedBytes[on[t]] - arg[t]

\* case Handshake, when the exchange that DoHandshake made was cut short or brought
\* the wrong nonce; and the default case.
Rejects(t) ==
  /\ at[t] = "complete"
  /\ state[on[t]] \in {"Handshake", "Initialized", "Destroyed"}
  /\ Moves(t, "dispose", 0)
  /\ UNCHANGED <<contextVars, managerVars, kernelVars, dispatcherVars, application>>

HandshakeGood(t) == at[t] = "handshake" \/ arg[t] = HEADER_SIZE

HandshakeContinues(t) ==
  /\ Completing(t, "Handshake")
  /\ HandshakeGood(t)
  /\ handshake[on[t]] > 0
  /\ handshake' = [handshake EXCEPT ![on[t]] = @ - 1]
  /\ Moves(t, "start", HEADER_SIZE)
  /\ UNCHANGED <<state, ioNeedBytes, ioDataOffset, messageSize,
                 managerVars, kernelVars, dispatcherVars, application>>

\* case Handshake falling through to case Ready, and case Ready
ReadsHeader(t) ==
  /\ \/ Completing(t, "Ready")
     \/ Completing(t, "Handshake") /\ HandshakeGood(t) /\ handshake[on[t]] = 0
  /\ state' = [state EXCEPT ![on[t]] = "ReadHeader"]
  /\ ioNeedBytes' = [ioNeedBytes EXCEPT ![on[t]] = HEADER_SIZE]
  /\ messageSize' = [messageSize EXCEPT ![on[t]] = 0]
  /\ Moves(t, "start", HEADER_SIZE)
  /\ UNCHANGED <<ioDataOffset, handshake,
                 managerVars, kernelVars, dispatcherVars, application>>

\* case ReadHeader, with a header that announces a message of length n
GetsHeader(t, n) ==
  /\ Completing(t, "ReadHeader")
  /\ state' = [state EXCEPT ![on[t]] = "ReadBody"]
  /\ IF Left(t) # 0
       THEN /\ ioNeedBytes' = [ioNeedBytes EXCEPT ![on[t]] = Left(t)]
            /\ Moves(t, "dispose", 0)
            /\ UNCHANGED messageSize
       ELSE /\ messageSize' = [messageSize EXCEPT ![on[t]] = n]
            /\ IF n > MAX_MESSAGE_SIZE
                 THEN /\ ioNeedBytes' = [ioNeedBytes EXCEPT ![on[t]] = 0]
                      /\ Moves(t, "dispose", 0)
                 ELSE /\ ioNeedBytes' = [ioNeedBytes EXCEPT ![on[t]] = n]
                      /\ Moves(t, "start", Lesser(MAX_BUFFER_SIZE, n))
  /\ UNCHANGED <<ioDataOffset, handshake,
                 managerVars, kernelVars, dispatcherVars, application>>

\* Mutant: the message is passed on before the state says so.
PassesOnEarly(t) ==
  /\ Moves(t, "post", 0)
  /\ UNCHANGED state

PassesOn(t) ==
  /\ state' = [state EXCEPT ![on[t]] = "WaitReply"]
  /\ Moves(t, "post", 0)

\* case ReadBody
GetsBody(t) ==
  /\ Completing(t, "ReadBody")
  /\ ioNeedBytes' = [ioNeedBytes EXCEPT ![on[t]] = Left(t)]
  /\ \/ /\ Left(t) < 0
        /\ Moves(t, "dispose", 0)
        /\ UNCHANGED state
     \/ /\ Left(t) > 0
        /\ Moves(t, "start", Lesser(MAX_BUFFER_SIZE, Left(t)))
        /\ UNCHANGED state
     \/ /\ Left(t) = 0
        /\ PassesOn(t)
  /\ UNCHANGED <<ioDataOffset, messageSize, handshake,
                 managerVars, kernelVars, dispatcherVars, application>>

\* receiveCallback: MessageDispatcher::PostRequest, which after Stop calls the
\* reply callback with false on the spot.
PostsRequest(t) ==
  /\ at[t] = "post"
  /\ IF dispatcherCancelled
       THEN Moves(t, "dispose", 0) /\ UNCHANGED messageList
       ELSE Returns(t) /\ messageList' = messageList \cup {on[t]}
  /\ UNCHANGED <<contextVars, managerVars, kernelVars, dispatcherCancelled, application>>

\* Mutant: the header is not counted.
BodyBytes(c) == messageSize[c]

ReplyBytes(c) == messageSize[c] + HEADER_SIZE

\* Mutant: the offset counts the header.
WholeChunk(length) == length

DataInFirstChunk(length) == length - HEADER_SIZE

\* case WaitReply: the first chunk is the header and what fits behind it
WritesReply(t) ==
  /\ Completing(t, "WaitReply")
  /\ LET length == Lesser(MAX_BUFFER_SIZE, ReplyBytes(on[t]))
     IN  /\ ioNeedBytes' = [ioNeedBytes EXCEPT ![on[t]] = ReplyBytes(on[t])]
         /\ ioDataOffset' = [ioDataOffset EXCEPT ![on[t]] = DataInFirstChunk(length)]
         /\ Moves(t, "start", length)
  /\ state' = [state EXCEPT ![on[t]] = "WriteReply"]
  /\ UNCHANGED <<messageSize, handshake, managerVars, kernelVars, dispatcherVars, application>>

\* case WriteReply; when all is written DoIoCompletion is entered again, in state Ready
WritesMore(t) ==
  /\ Completing(t, "WriteReply")
  /\ ioNeedBytes' = [ioNeedBytes EXCEPT ![on[t]] = Left(t)]
  /\ LET length == Lesser(MAX_BUFFER_SIZE, Left(t))
     IN  IF Left(t) > 0
           THEN /\ ioDataOffset' = [ioDataOffset EXCEPT ![on[t]] = @ + length]
                /\ Moves(t, "start", length)
                /\ UNCHANGED state
           ELSE /\ state' = [state EXCEPT ![on[t]] = "Ready"]
                /\ Moves(t, "complete", 0)
                /\ UNCHANGED ioDataOffset
  /\ UNCHANGED <<messageSize, handshake, managerVars, kernelVars, dispatcherVars, application>>

\* ReadFile or WriteFile.  It fails at once, or a packet follows in every case:
\* the thread returns without another look at the context.
Operation(n, s) == [bytes |-> n, write |-> s = "WriteReply"]

Started(t) == [io EXCEPT ![on[t]] = Append(@, Operation(arg[t], state[on[t]]))]

\* Mutant: ERROR_IO_PENDING is taken for a failure.
PendingDisposed(t) ==
  /\ Moves(t, "dispose", 0)
  /\ io' \in {io, Started(t)}

Submits(t) ==
  \/ Moves(t, "dispose", 0) /\ UNCHANGED io
  \/ Returns(t) /\ io' = Started(t)

StartsIo(t) ==
  /\ at[t] = "start"
  /\ Submits(t)
  /\ UNCHANGED <<contextVars, managerVars, socket, closed, arrived, portOpen,
                 dispatcherVars, application>>

----------------------------------------------------------------------------
\* ProxyIoContext::Dispose on thread t: the test, the assignment with the cancelled
\* operations, and RemoveContext, which drops the list's reference.

DisposeTests(t) ==
  /\ at[t] = "dispose"
  /\ IF state[on[t]] # "Destroyed" THEN Moves(t, "destroy", 0) ELSE Returns(t)
  /\ UNCHANGED <<contextVars, managerVars, kernelVars, dispatcherVars, application>>

DisposeDestroys(t) ==
  /\ at[t] = "destroy"
  /\ state' = [state EXCEPT ![on[t]] = "Destroyed"]
  /\ io' = [io EXCEPT ![on[t]] = << >>]
  /\ arrived' = [arrived EXCEPT ![on[t]] =
                   @ \o [i \in 1 .. Len(io[on[t]]) |-> [result |-> "aborted", bytes |-> 0]]]
  /\ Moves(t, "remove", 0)
  /\ UNCHANGED <<ioNeedBytes, ioDataOffset, messageSize, handshake,
                 managerVars, socket, closed, portOpen, dispatcherVars, application>>

\* The list's reference is dropped and with it the object: what the freed memory and
\* the closed handle held is forgotten.
RemoveContext(t) ==
  /\ at[t] = "remove"
  /\ contextList' = contextList \ {on[t]}
  /\ ioNeedBytes' = [ioNeedBytes EXCEPT ![on[t]] = 0]
  /\ ioDataOffset' = [ioDataOffset EXCEPT ![on[t]] = 0]
  /\ messageSize' = [messageSize EXCEPT ![on[t]] = 0]
  /\ handshake' = [handshake EXCEPT ![on[t]] = 0]
  /\ socket' = [socket EXCEPT ![on[t]] = FALSE]
  /\ closed' = [closed EXCEPT ![on[t]] = FALSE]
  /\ Returns(t)
  /\ UNCHANGED <<state, cancelFlag, io, arrived, portOpen, dispatcherVars, application>>

----------------------------------------------------------------------------
\* The dispatcher's worker: a message is taken, the upstreams are consulted, and
\* PostMessageReply carries on with the context.  A message of length zero has no
\* reply.  The dispatcher itself is the subject of MessageDispatcher.

WorkerTakes(c) ==
  /\ at["worker"] = "idle"
  /\ c \in messageList
  /\ messageList' = messageList \ {c}
  /\ Takes("worker", c, "upstream", 0)
  /\ UNCHANGED <<contextVars, managerVars, kernelVars, dispatcherCancelled, application>>

PostMessageReply(n) ==
  /\ at["worker"] = "upstream"
  /\ IF messageSize[on["worker"]] = 0
       THEN Moves("worker", "dispose", 0) /\ UNCHANGED messageSize
       ELSE /\ messageSize' = [messageSize EXCEPT ![on["worker"]] = n]
            /\ Moves("worker", "complete", 0)
  /\ UNCHANGED <<state, ioNeedBytes, ioDataOffset, handshake,
                 managerVars, kernelVars, dispatcherVars, application>>

\* It may leave messages behind (see MessageDispatcher).
WorkerEnds ==
  /\ at["worker"] = "idle"
  /\ dispatcherCancelled
  /\ Ends("worker")
  /\ UNCHANGED <<contextVars, managerVars, kernelVars, dispatcherVars, application>>

----------------------------------------------------------------------------
\* The kernel.  A read yields what the peer sent, at least a byte if there was room
\* for one; a WriteFile of a reply completes when all of it is written.  The end of
\* a pipe is an error, the end of a socket a read of no bytes.  The exchanges of
\* DoHandshake, read or written, may be cut short.

Packet(n, r) == [result |-> r, bytes |-> n]

KernelCompletes(c, n, r) ==
  /\ io[c] # << >>
  /\ LET op == Head(io[c])
     IN  \/ /\ ~closed[c] /\ r = "transferred"
            /\ IF op.write THEN n = op.bytes ELSE n <= op.bytes /\ (n = 0 => op.bytes = 0)
         \/ /\ closed[c] /\ n = 0
            /\ r = IF socket[c] /\ ~op.write THEN "transferred" ELSE "failed"
  /\ io' = [io EXCEPT ![c] = Tail(@)]
  /\ arrived' = [arrived EXCEPT ![c] = Append(@, Packet(n, r))]
  /\ UNCHANGED <<contextVars, managerVars, socket, closed, portOpen,
                 dispatcherVars, threadVars, application>>

PeerCloses(c) ==
  /\ c \in contextList
  /\ ~closed[c]
  /\ closed' = [closed EXCEPT ![c] = TRUE]
  /\ UNCHANGED <<contextVars, managerVars, socket, io, arrived, portOpen,
                 dispatcherVars, threadVars, application>>

----------------------------------------------------------------------------
\* The end of Application::Run, and the destructor of the dispatcher after it.

DispatcherStops ==
  /\ application = "Running"
  /\ application' = "JoinWorker"
  /\ dispatcherCancelled' = TRUE
  /\ UNCHANGED <<contextVars, managerVars, kernelVars, messageList, threadVars>>

WorkerJoined ==
  /\ application = "JoinWorker"
  /\ at["worker"] = "exited"
  /\ application' = "JoinListeners"
  /\ UNCHANGED <<contextVars, managerVars, kernelVars, dispatcherVars, threadVars>>

ListenersJoined ==
  /\ application = "JoinListeners"
  /\ \A l \in Listener : at[l] = "exited"
  /\ application' = "StopManager"
  /\ cancelFlag' = TRUE
  /\ UNCHANGED <<contextVars, contextList, kernelVars, dispatcherVars, threadVars>>

\* Mutant: the thread is joined and the port left open.
PortLeftOpen ==
  /\ application = "StopManager"
  /\ application' = "JoinIocp"
  /\ UNCHANGED <<contextVars, managerVars, kernelVars, dispatcherVars, threadVars>>

ManagerClosesPort ==
  /\ application = "StopManager"
  /\ application' = "JoinIocp"
  /\ portOpen' = FALSE
  /\ UNCHANGED <<contextVars, managerVars, socket, closed, io, arrived,
                 dispatcherVars, threadVars>>

IocpJoined ==
  /\ application = "JoinIocp"
  /\ at["iocp"] = "exited"
  /\ application' = "Stopped"
  /\ UNCHANGED <<contextVars, managerVars, kernelVars, dispatcherVars, threadVars>>

DispatcherDestroyed(c) ==
  /\ application = "Stopped"
  /\ at["main"] = "idle"
  /\ c \in messageList
  /\ messageList' = messageList \ {c}
  /\ Takes("main", c, "dispose", 0)
  /\ UNCHANGED <<contextVars, managerVars, kernelVars, dispatcherCancelled, application>>

Terminated ==
  /\ application = "Stopped"
  /\ at["main"] = "idle"
  /\ messageList = {}
  /\ UNCHANGED vars

----------------------------------------------------------------------------
DoIoCompletion(t) ==
  \/ Rejects(t) \/ HandshakeContinues(t) \/ ReadsHeader(t)
  \/ \E n \in Announced : GetsHeader(t, n)
  \/ GetsBody(t) \/ PostsRequest(t)
  \/ WritesReply(t) \/ WritesMore(t)
  \/ StartsIo(t)

Dispose(t) == DisposeTests(t) \/ DisposeDestroys(t) \/ RemoveContext(t)

Iocp == Waits \/ PortAbandoned \/ \E c \in Context : Dequeues(c)

Worker == \/ WorkerEnds
          \/ \E c \in Context : WorkerTakes(c)
          \/ \E n \in Replies : PostMessageReply(n)

Kernel(c) == \E n \in 0 .. MAX_BUFFER_SIZE, r \in {"transferred", "failed"} :
               KernelCompletes(c, n, r)

Main == \/ DispatcherStops \/ WorkerJoined \/ ListenersJoined
        \/ ManagerClosesPort \/ IocpJoined
        \/ \E c \in Context : DispatcherDestroyed(c)

Next ==
  \/ \E l \in Listener, c \in Context, h \in Handshakes, s \in {FALSE, SocketPeers} :
       DelegateConnection(l, c, h, s)
  \/ \E l \in Listener : Listens(l) \/ ListenLoopEnds(l)
  \/ \E t \in Thread : DoIoCompletion(t) \/ Dispose(t)
  \/ Iocp \/ Worker
  \/ \E c \in Context : Kernel(c) \/ PeerCloses(c)
  \/ Main \/ Terminated

\* Threads run, the port hands out its packets in the order of arrival, so that
\* each is dequeued some day, and the kernel reports an operation on a connection
\* that the peer closed.  Nothing obliges a peer to send, to read or to close, a
\* client to connect, or the application to stop.  PostMessageReply is fair if the
\* upstreams answer or fail in finite time.
Fairness ==
  /\ \A t \in Thread : WF_vars(DoIoCompletion(t)) /\ WF_vars(Dispose(t))
  /\ \A l \in Listener : WF_vars(ListenersCancelled /\ (Listens(l) \/ ListenLoopEnds(l)))
  /\ WF_vars(Waits) /\ WF_vars(PortAbandoned)
  /\ \A c \in Context : SF_vars(Dequeues(c)) /\ WF_vars(closed[c] /\ Kernel(c))
  /\ WF_vars(Worker)
  /\ WF_vars(application # "Running" /\ Main)

Spec == Init /\ [][Next]_vars /\ Fairness

----------------------------------------------------------------------------
(* Properties *)

States == {"Initialized", "Handshake", "Ready", "ReadHeader", "ReadBody",
           "WaitReply", "WriteReply", "Destroyed"}

TypeOK ==
  /\ state \in [Context -> States]
  /\ ioNeedBytes \in [Context -> Nat]
  /\ ioDataOffset \in [Context -> Nat]
  /\ messageSize \in [Context -> Nat]
  /\ handshake \in [Context -> Nat]
  /\ contextList \subseteq Context
  /\ cancelFlag \in BOOLEAN
  /\ socket \in [Context -> BOOLEAN]
  /\ closed \in [Context -> BOOLEAN]
  /\ io \in [Context -> Seq([bytes: Nat, write: BOOLEAN])]
  /\ arrived \in [Context -> Seq([result: {"transferred", "failed", "aborted"}, bytes: Nat])]
  /\ portOpen \in BOOLEAN
  /\ messageList \subseteq Context
  /\ dispatcherCancelled \in BOOLEAN
  /\ at \in [Thread -> {"idle", "exited", "accept", "handshake", "complete", "start", "post",
                        "dispose", "destroy", "remove", "wait", "upstream"}]
  /\ on \in [Thread -> Context \cup {None}]
  /\ arg \in [Thread -> Nat]
  /\ application \in {"Running", "JoinWorker", "JoinListeners", "StopManager", "JoinIocp",
                      "Stopped"}

\* A connection in the list has exactly one thing going on, and a connection that is
\* not in the list has nothing at all.  So no two threads meet in a context (the
\* "potential data race" of Dispose), none is forgotten in the list, and a context
\* that was freed has no operation and no packet that would reach its memory.
Places(c) ==
  {<<"thread", t>> : t \in {u \in Thread : on[u] = c}}
    \cup {<<"kernel", i>> : i \in DOMAIN io[c]}
    \cup {<<"port", i>> : i \in DOMAIN arrived[c]}
    \cup (IF c \in messageList THEN {<<"dispatcher", c>>} ELSE {})
OnePlace ==
  \A c \in Context :
    /\ c \in contextList => \E p \in Places(c) : Places(c) = {p}
    /\ c \notin contextList => Places(c) = {}

\* A message is with the dispatcher exactly while its connection waits for the reply:
\* a reply never finds its connection in another state, so that it can neither be
\* written into the middle of another one nor be taken for the next request.
RepliesAreAwaited ==
  /\ \A c \in messageList : state[c] = "WaitReply"
  /\ \A t \in Thread : at[t] \in {"post", "upstream"} => state[on[t]] = "WaitReply"
  /\ \A c \in Context : state[c] = "WaitReply" =>
       \/ c \in messageList
       \/ \E t \in Thread : on[t] = c /\ at[t] \in {"post", "upstream", "complete",
                                                  "dispose", "destroy"}

\* While a chunk of n bytes of a reply is under way: what was copied to the buffer is
\* what was acknowledged before and the chunk, and it does not exceed the reply, so
\* that the memcpy of the next chunk starts where this one ends and stays within
\* message.data.
Chunk(c, n) ==
  /\ HEADER_SIZE + ioDataOffset[c] = (messageSize[c] + HEADER_SIZE - ioNeedBytes[c]) + n
  /\ ioDataOffset[c] <= messageSize[c]
ChunksLineUp ==
  \A c \in Context : state[c] = "WriteReply" =>
    /\ \A t \in Thread : on[t] = c /\ at[t] \in {"start", "complete"} => Chunk(c, arg[t])
    /\ \A i \in DOMAIN io[c] : Chunk(c, io[c][i].bytes)
    /\ \A i \in DOMAIN arrived[c] :
         arrived[c][i].result = "transferred" => Chunk(c, arrived[c][i].bytes)

\* A connection goes back to reading requests only when every byte of the reply was
\* copied and acknowledged.
RepliesAreWhole ==
  [][\A c \in Context : state[c] = "WriteReply" /\ state'[c] = "Ready" =>
       ioDataOffset[c] = messageSize[c] /\ ioNeedBytes'[c] = 0]_vars

\* "Any state can go Destroyed when ... connection closes" (proxy.h): a connection
\* whose peer is gone is dropped, unless the program ends first.
ClosedIsDropped ==
  \A c \in Context : closed[c] ~> (state[c] = "Destroyed" \/ ~portOpen)

\* The shutdown of Application::Run reaches its end, whatever the connections do.
ShutdownEnds == application = "JoinWorker" ~> application = "Stopped"
=============================================================================
