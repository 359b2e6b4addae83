--------------------------- MODULE ForwardManager ---------------------------
(***************************************************************************)
(* Gpg4WinForwardConnectionManager and ForwardIoContext                    *)
(* (src/protocol/connection_manager/forwarding.cpp): connections that are  *)
(* forwarded to a target socket, with the listener threads that delegate   *)
(* them and the thread of the completion port.  The listeners that may     *)
(* forward (forwardEnabledList) accept sockets, so both handles are.       *)
(*                                                                         *)
(* A context has two ends, 0 the client and 1 the target, and an operation *)
(* under way in each direction: direction i reads from end i and writes to *)
(* the other one.  DoForward is one step, up to Dispose, which is another; *)
(* the loop of the handshake over both directions takes a step for each.   *)
(*                                                                         *)
(* A listener without exchanges (unix, hyperv) starts both directions on   *)
(* its own thread, and the thread of the port may handle a completion      *)
(* before Established is assigned.  It takes it for one of the handshake   *)
(* then and prepares the peer once more, under the operations of the first *)
(* time; or Established is assigned to a context that was disposed of.     *)
(* contextState is neither atomic nor under a lock: from there on          *)
(* ("raced") the model follows neither thread any further.                 *)
(***************************************************************************)
EXTENDS Integers, Sequences

CONSTANTS
  Context,          \* ForwardIoContext objects, one per connection
  Listener,         \* listener threads
  None,
  MAX_BUFFER_SIZE,
  MaxSent,          \* bound: the bytes that an end sends
  Handshakes        \* how many exchanges DoHandshake makes: 0 (unix, hyperv),
                    \* 1 (assuan_emu), 4 (cygwin)

ASSUME ForwardAssumption ==
  /\ MAX_BUFFER_SIZE \in Nat \ {0}
  /\ MaxSent \in Nat
  /\ Handshakes \subseteq Nat
  /\ "iocp" \notin Listener
  /\ None \notin Context

Thread == Listener \cup {"iocp"}
End == {0, 1}
PeerOf(idx) == 1 - idx

VARIABLES
  \* ForwardIoContext
  contextState,
  state,            \* state[c][i] of direction i
  buffer,           \* what the last read of direction i brought
  needTransfer, bufferOffset,
  handshake,        \* exchanges of DoHandshake that are left (listenerData)
  targets,          \* how many connections to the target PreparePeer made
  \* Gpg4WinForwardConnectionManager
  contextList,
  cancelFlag,       \* set by Stop, which closes the completion port as well
  \* the kernel: handles, operations, packets of the completion port
  io,               \* io[c][i]: the operation under way for direction i
  cancelled,        \* CancelIoEx was called for the operations of c
  port,             \* port[c]: completion packets, oldest first
  \* the ends
  sent, taken,      \* bytes that end i sent, and how many of them were read
  received,         \* the bytes that were written to end i
  ended, gone,      \* end i sends no more, end i closed or reset its side
  told,             \* shutdown(SD_SEND) was called on the handle of end i
  \* threads
  at, on,           \* where a thread stands, and the context it holds on to
  arg               \* arg[t]: the direction and the bytes of the completion

contextVars == <<contextState, state, buffer, needTransfer, bufferOffset, handshake, targets>>
managerVars == <<contextList, cancelFlag>>
kernelVars == <<io, cancelled, port>>
endVars == <<sent, taken, received, ended, gone, told>>
threadVars == <<at, on, arg>>
vars == <<contextVars, managerVars, kernelVars, endVars, threadVars>>

Both(v) == [c \in Context |-> [i \in End |-> v]]
NoArg == [dir |-> 0, bytes |-> 0]

Init ==
  /\ contextState = [c \in Context |-> "Initialized"]
  /\ state = Both("Initialized")
  /\ buffer = Both(<< >>)
  /\ needTransfer = Both(0)
  /\ bufferOffset = Both(0)
  /\ handshake = [c \in Context |-> 0]
  /\ targets = [c \in Context |-> 0]
  /\ contextList = {}
  /\ cancelFlag = FALSE
  /\ io = Both("none")
  /\ cancelled = [c \in Context |-> FALSE]
  /\ port = [c \in Context |-> << >>]
  /\ sent = Both(0)
  /\ taken = Both(0)
  /\ received = Both(<< >>)
  /\ ended = Both(FALSE)
  /\ gone = Both(FALSE)
  /\ told = Both(FALSE)
  /\ at = [t \in Thread |-> "idle"]
  /\ on = [t \in Thread |-> None]
  /\ arg = [t \in Thread |-> NoArg]

----------------------------------------------------------------------------
\* The course of a thread.

Moves(t, place, dir) ==
  /\ at' = [at EXCEPT ![t] = place]
  /\ arg' = [arg EXCEPT ![t] = [dir |-> dir, bytes |-> 0]]
  /\ UNCHANGED on

Takes(t, c, place, a) ==
  /\ at' = [at EXCEPT ![t] = place]
  /\ on' = [on EXCEPT ![t] = c]
  /\ arg' = [arg EXCEPT ![t] = a]

Returns(t) == Takes(t, None, "idle", NoArg)

\* back from DoForward: to the loop over the directions, or from DoIoCompletion
Proceeds(t) ==
  IF at[t] = "loop"
    THEN IF arg[t].dir = 0 THEN Moves(t, "loop", 1) ELSE Moves(t, "established", 0)
    ELSE Returns(t)

\* The memory of c was given back: no shared_ptr to it is left.
Freed(c) ==
  /\ contextState[c] # "Initialized"
  /\ c \notin contextList
  /\ \A t \in Thread : on[t] # c

----------------------------------------------------------------------------
\* A listener thread delegates a connection: DelegateConnection, which ends with
\* DoIoCompletion(context, 0, nullptr) on this thread.
DelegateConnection(l, c, h) ==
  /\ at[l] = "idle"
  /\ ~cancelFlag                \* the listeners are joined before Stop
  /\ contextState[c] = "Initialized"
  /\ contextState' = [contextState EXCEPT ![c] = "HandShake"]
  /\ handshake' = [handshake EXCEPT ![c] = h]
  /\ contextList' = contextList \cup {c}
  /\ Takes(l, c, "delegated", NoArg)
  /\ UNCHANGED <<state, buffer, needTransfer, bufferOffset, targets, cancelFlag,
                 io, cancelled, port, endVars>>

Stop ==
  /\ ~cancelFlag
  /\ \A l \in Listener : at[l] = "idle"
  /\ cancelFlag' = TRUE
  /\ UNCHANGED <<contextVars, contextList, kernelVars, endVars, threadVars>>

----------------------------------------------------------------------------
\* IocpThreadProc.

IocpThreadExits ==
  /\ at["iocp"] = "idle"
  /\ cancelFlag
  /\ at' = [at EXCEPT !["iocp"] = "exited"]
  /\ UNCHANGED <<contextVars, managerVars, kernelVars, endVars, on, arg>>

\* A packet of a context that was freed: its key points to freed memory, and what the
\* thread does from there on is undefined.
Dangling(c) == Freed(c) /\ port[c] # << >> /\ Head(port[c]).result # "aborted"

\* Mutant: the context of a failed operation is kept.
FailureIgnored(c) == Returns("iocp")

FailureDisposes(c) == Takes("iocp", c, "dispose", NoArg)

\* GetQueuedCompletionStatus: the packet of an operation that was cancelled is dropped,
\* that of a failed one disposes of the context, others go to DoIoCompletion.
Dequeues(c) ==
  /\ at["iocp"] = "idle"
  /\ ~cancelFlag
  /\ port[c] # << >>
  /\ ~Dangling(c)
  /\ port' = [port EXCEPT ![c] = Tail(@)]
  /\ LET packet == Head(port[c])
     IN  \/ /\ packet.result = "transferred"
            /\ Takes("iocp", c, "complete", [dir |-> packet.dir, bytes |-> packet.bytes])
         \/ /\ packet.result = "failed"
            /\ FailureDisposes(c)
         \/ /\ packet.result = "aborted"
            /\ Returns("iocp")
  /\ UNCHANGED <<contextVars, managerVars, io, cancelled, endVars>>

----------------------------------------------------------------------------
\* DoIoCompletion, contextState HandShake.

\* Another thread is at work in the same context.
Shared(t) == \E s \in Thread \ {t} : on[s] = on[t]

Shaking(t) ==
  /\ at[t] \in {"delegated", "complete"}
  /\ contextState[on[t]] = "HandShake"
  /\ ~Shared(t)

\* A completion of data is taken for one of the handshake, or Established is assigned to a
\* context that was disposed of, while the other thread goes on with it.
Races(t) ==
  /\ \/ at[t] = "complete" /\ contextState[on[t]] = "HandShake"
     \/ at[t] = "established" /\ contextState[on[t]] = "Destroyed"
  /\ Shared(t)
  /\ at' = [at EXCEPT ![t] = "raced"]
  /\ UNCHANGED <<contextVars, managerVars, kernelVars, endVars, on, arg>>

Raced(c) == \E t \in Thread : at[t] = "raced" /\ on[t] = c

\* The exchange that was under way brought the nonce.
Welcome(t) == at[t] = "delegated" \/ arg[t].bytes = 1

\* DoHandshake starts another exchange with the client.
HandshakeContinues(t) ==
  /\ Shaking(t) /\ Welcome(t)
  /\ handshake[on[t]] > 0
  /\ handshake' = [handshake EXCEPT ![on[t]] = @ - 1]
  /\ io' = [io EXCEPT ![on[t]][0] = "nonce"]
  /\ Returns(t)
  /\ UNCHANGED <<contextState, state, buffer, needTransfer, bufferOffset, targets,
                 managerVars, cancelled, port, endVars>>

\* DoHandshake disposes of the context, or the state is one where nothing can arrive.
Rejects(t) ==
  /\ \/ Shaking(t) /\ ~Welcome(t)
     \/ at[t] = "complete" /\ contextState[on[t]] \notin {"HandShake", "Established"}
  /\ Moves(t, "dispose", 0)
  /\ UNCHANGED <<contextVars, managerVars, kernelVars, endVars>>

\* PreparePeer connects to the target; both directions start from the beginning.
PreparesPeer(t) ==
  /\ Shaking(t) /\ Welcome(t)
  /\ handshake[on[t]] = 0
  /\ targets' = [targets EXCEPT ![on[t]] = @ + 1]
  /\ state' = [state EXCEPT ![on[t]] = [i \in End |-> "Ready"]]
  /\ Moves(t, "loop", 0)
  /\ UNCHANGED <<contextState, buffer, needTransfer, bufferOffset, handshake,
                 managerVars, kernelVars, endVars>>

\* PreparePeer fails: the socket file, the connection or the completion port.
NoPeer(t) ==
  /\ Shaking(t) /\ Welcome(t)
  /\ handshake[on[t]] = 0
  /\ Moves(t, "dispose", 0)
  /\ UNCHANGED <<contextVars, managerVars, kernelVars, endVars>>

LeavesLoop(t) ==
  /\ at[t] = "loop"
  /\ contextState[on[t]] = "Destroyed"
  /\ Returns(t)
  /\ UNCHANGED <<contextVars, managerVars, kernelVars, endVars>>

\* Mutant: the assignment is forgotten.
StillHandShake(t) ==
  /\ at[t] = "established"
  /\ Returns(t)
  /\ UNCHANGED <<contextVars, managerVars, kernelVars, endVars>>

Establishes(t) ==
  /\ at[t] = "established"
  /\ ~(contextState[on[t]] = "Destroyed" /\ Shared(t))
  /\ contextState' = [contextState EXCEPT ![on[t]] = "Established"]
  /\ Returns(t)
  /\ UNCHANGED <<state, buffer, needTransfer, bufferOffset, handshake, targets,
                 managerVars, kernelVars, endVars>>

----------------------------------------------------------------------------
\* DoForward, for one direction, from the loop or from a completion.

Forwarding(t, s) ==
  /\ \/ at[t] = "loop" /\ contextState[on[t]] # "Destroyed"
     \/ at[t] \in {"complete", "again"} /\ contextState[on[t]] = "Established"
  /\ state[on[t]][arg[t].dir] = s

\* a ReadFile or WriteFile that fails at once disposes; at the end of the loop the
\* thread still comes to the assignment of Established
Disposing(t) ==
  IF at[t] = "loop" /\ arg[t].dir = 1 THEN Moves(t, "disposeLast", 0) ELSE Moves(t, "dispose", 0)

\* case Ready
Reads(t) ==
  /\ Forwarding(t, "Ready")
  /\ LET c == on[t] i == arg[t].dir
     IN  \/ /\ state' = [state EXCEPT ![c][i] = "Read"]
            /\ io' = [io EXCEPT ![c][i] = "read"]
            /\ Proceeds(t)
         \/ /\ gone[c][i]
            /\ Disposing(t)
            /\ UNCHANGED <<state, io>>
  /\ UNCHANGED <<contextState, buffer, needTransfer, bufferOffset, handshake, targets,
                 managerVars, cancelled, port, endVars>>

\* Mutant: the end whose stream is over is told, and not its peer.
TellsSource(c, i) == [told EXCEPT ![c][i] = TRUE]

TellsPeer(c, i) == [told EXCEPT ![c][PeerOf(i)] = TRUE]

\* Mutant: one direction at its end is enough.
AnyShutdown(c, i) == TRUE

\* disposeFlag, when direction i of c has just come to its end
BothShutdown(c, i) == state[c][PeerOf(i)] = "Shutdown"

\* case Read, nothing transferred: the end of the stream
EndOfFile(t) ==
  /\ Forwarding(t, "Read")
  /\ arg[t].bytes = 0
  /\ LET c == on[t] i == arg[t].dir
     IN  /\ state' = [state EXCEPT ![c][i] = "Shutdown"]
         /\ told' = TellsPeer(c, i)
         /\ IF BothShutdown(c, i) THEN Disposing(t) ELSE Proceeds(t)
  /\ UNCHANGED <<contextState, buffer, needTransfer, bufferOffset, handshake, targets,
                 managerVars, kernelVars, sent, taken, received, ended, gone>>

\* WriteFile for direction i of c, with the states that the code assigned before it
Writes(t, c, i) ==
  \/ /\ io' = [io EXCEPT ![c][i] = "write"]
     /\ Proceeds(t)
  \/ /\ gone[c][PeerOf(i)]
     /\ Disposing(t)
     /\ UNCHANGED io

\* case Read, with data
ForwardsData(t) ==
  /\ Forwarding(t, "Read")
  /\ arg[t].bytes > 0
  /\ LET c == on[t] i == arg[t].dir
     IN  /\ needTransfer' = [needTransfer EXCEPT ![c][i] = arg[t].bytes]
         /\ bufferOffset' = [bufferOffset EXCEPT ![c][i] = 0]
         /\ state' = [state EXCEPT ![c][i] = "Write"]
         /\ Writes(t, c, i)
  /\ UNCHANGED <<contextState, buffer, handshake, targets,
                 managerVars, cancelled, port, endVars>>

\* Mutant: the offset stays where it was.
OffsetKept(offset, n) == offset

NextOffset(offset, n) == offset + n

\* Mutant: a write is taken to have written a whole buffer.
WholeBufferWritten(need, n) == need - MAX_BUFFER_SIZE

Remaining(need, n) == need - n

\* DoForward calls itself in state Ready.
Rearms(t, i) == Moves(t, "again", i)

\* case Write
Written(t) ==
  /\ Forwarding(t, "Write")
  /\ LET c == on[t] i == arg[t].dir n == arg[t].bytes
     IN  /\ needTransfer' = [needTransfer EXCEPT ![c][i] = Remaining(@, n)]
         /\ IF needTransfer[c][i] > n
              THEN /\ bufferOffset' = [bufferOffset EXCEPT ![c][i] = NextOffset(@, n)]
                   /\ Writes(t, c, i)
                   /\ UNCHANGED state
              ELSE /\ state' = [state EXCEPT ![c][i] = "Ready"]
                   /\ Rearms(t, i)
                   /\ UNCHANGED <<bufferOffset, io>>
  /\ UNCHANGED <<contextState, buffer, handshake, targets,
                 managerVars, cancelled, port, endVars>>

\* Dispose and RemoveContext, once; the handles are closed with the last reference.
Disposes(t) ==
  /\ at[t] \in {"dispose", "disposeLast"}
  /\ LET c == on[t]
     IN  IF contextState[c] = "Destroyed"
           THEN UNCHANGED <<contextState, cancelled, contextList>>
           ELSE /\ contextState' = [contextState EXCEPT ![c] = "Destroyed"]
                /\ cancelled' = [cancelled EXCEPT ![c] = TRUE]
                /\ contextList' = contextList \ {c}
  /\ IF at[t] = "disposeLast" THEN Moves(t, "established", 0) ELSE Returns(t)
  /\ UNCHANGED <<state, buffer, needTransfer, bufferOffset, handshake, targets,
                 cancelFlag, io, port, endVars>>

DoIoCompletion(t) ==
  \/ Races(t)
  \/ HandshakeContinues(t) \/ Rejects(t) \/ PreparesPeer(t) \/ NoPeer(t)
  \/ LeavesLoop(t) \/ Establishes(t)
  \/ Reads(t) \/ EndOfFile(t) \/ ForwardsData(t) \/ Written(t)
  \/ Disposes(t)

----------------------------------------------------------------------------
\* The kernel completes an operation with a packet.

Completes(c, i, result, n) ==
  /\ io' = [io EXCEPT ![c][i] = "none"]
  /\ port' = [port EXCEPT ![c] = Append(@, [dir |-> i, result |-> result, bytes |-> n])]
  /\ UNCHANGED <<contextVars, managerVars, cancelled, threadVars>>

\* the client's part of an exchange: the nonce it should send, or something shorter
NonceArrives(c, n) ==
  /\ io[c][0] = "nonce"
  /\ Completes(c, 0, "transferred", n)
  /\ UNCHANGED endVars

DataArrives(c, i) ==
  /\ io[c][i] = "read"
  /\ ~cancelled[c]
  /\ \E n \in 1..MAX_BUFFER_SIZE :
       /\ taken[c][i] + n <= sent[c][i]
       /\ taken' = [taken EXCEPT ![c][i] = @ + n]
       /\ buffer' = [buffer EXCEPT ![c][i] = [k \in 1..n |-> taken[c][i] + k]]
       /\ io' = [io EXCEPT ![c][i] = "none"]
       /\ port' = [port EXCEPT ![c] = Append(@, [dir |-> i, result |-> "transferred", bytes |-> n])]
  /\ UNCHANGED <<contextState, state, needTransfer, bufferOffset, handshake, targets,
                 managerVars, cancelled, sent, received, ended, gone, told, threadVars>>

\* a read of no bytes
StreamEnds(c, i) ==
  /\ io[c][i] = "read"
  /\ ~cancelled[c]
  /\ ended[c][i] /\ taken[c][i] = sent[c][i]
  /\ Completes(c, i, "transferred", 0)
  /\ UNCHANGED endVars

DataLeaves(c, i) ==
  /\ io[c][i] = "write"
  /\ ~cancelled[c]
  /\ ~told[c][PeerOf(i)]
  /\ \E n \in 1..needTransfer[c][i] :
       /\ Completes(c, i, "transferred", n)
       /\ received' = [received EXCEPT ![c][PeerOf(i)] =
            @ \o SubSeq(buffer[c][i], bufferOffset[c][i] + 1, bufferOffset[c][i] + n)]
  /\ UNCHANGED <<sent, taken, ended, gone, told>>

\* the end that the operation works on is not there any more
OperationFails(c, i) ==
  /\ \/ io[c][i] \in {"read", "nonce"} /\ gone[c][i]
     \/ io[c][i] = "write" /\ gone[c][PeerOf(i)]
  /\ Completes(c, i, "failed", 0)
  /\ UNCHANGED endVars

OperationAborted(c, i) ==
  /\ io[c][i] # "none"
  /\ cancelled[c]
  /\ Completes(c, i, "aborted", 0)
  /\ UNCHANGED endVars

Kernel(c) ==
  \/ \E n \in {0, 1} : NonceArrives(c, n)
  \/ \E i \in End : DataArrives(c, i) \/ StreamEnds(c, i) \/ DataLeaves(c, i)
                    \/ OperationFails(c, i) \/ OperationAborted(c, i)

----------------------------------------------------------------------------
\* The ends.  The target is there once PreparePeer connected to it.

Present(c, i) ==
  /\ contextState[c] # "Initialized"
  /\ i = 1 => targets[c] > 0
  /\ ~gone[c][i]

Sends(c, i) ==
  /\ Present(c, i) /\ ~ended[c][i]
  /\ sent[c][i] < MaxSent
  /\ sent' = [sent EXCEPT ![c][i] = @ + 1]
  /\ UNCHANGED <<contextVars, managerVars, kernelVars, taken, received, ended, gone, told, threadVars>>

\* shutdown(SHUT_WR) by an end
HangsUp(c, i) ==
  /\ Present(c, i) /\ ~ended[c][i]
  /\ ended' = [ended EXCEPT ![c][i] = TRUE]
  /\ UNCHANGED <<contextVars, managerVars, kernelVars, sent, taken, received, gone, told, threadVars>>

\* an end closes its side, or its process dies
Leaves(c, i) ==
  /\ Present(c, i)
  /\ ended' = [ended EXCEPT ![c][i] = TRUE]
  /\ gone' = [gone EXCEPT ![c][i] = TRUE]
  /\ UNCHANGED <<contextVars, managerVars, kernelVars, sent, taken, received, told, threadVars>>

\* The steps of a thread and of the kernel, in a context where no race was.
Handles(t) == at[t] \notin {"idle", "exited"} /\ ~Raced(on[t]) /\ DoIoCompletion(t)

KernelCompletes(c) == ~Raced(c) /\ Kernel(c)

Next ==
  \/ \E l \in Listener, c \in Context, h \in Handshakes : DelegateConnection(l, c, h)
  \/ Stop
  \/ IocpThreadExits
  \/ \E c \in Context : Dequeues(c) \/ KernelCompletes(c)
  \/ \E t \in Thread : Handles(t)
  \/ \E c \in Context, i \in End : Sends(c, i) \/ HangsUp(c, i) \/ Leaves(c, i)

\* The threads run and the kernel completes what can complete.
Fairness ==
  /\ WF_vars(IocpThreadExits)
  /\ \A c \in Context : WF_vars(Dequeues(c)) /\ WF_vars(KernelCompletes(c))
  /\ \A t \in Thread : WF_vars(Handles(t))

Spec == Init /\ [][Next]_vars /\ Fairness

----------------------------------------------------------------------------
TypeOK ==
  /\ contextState \in [Context -> {"Initialized", "HandShake", "Established", "Destroyed"}]
  /\ state \in [Context -> [End -> {"Initialized", "Ready", "Read", "Write", "Shutdown"}]]
  /\ buffer \in [Context -> [End -> Seq(Nat)]]
  /\ needTransfer \in [Context -> [End -> Nat]]
  /\ bufferOffset \in [Context -> [End -> Nat]]
  /\ handshake \in [Context -> Nat]
  /\ targets \in [Context -> Nat]
  /\ contextList \in SUBSET Context
  /\ cancelFlag \in BOOLEAN
  /\ io \in [Context -> [End -> {"none", "nonce", "read", "write"}]]
  /\ cancelled \in [Context -> BOOLEAN]
  /\ port \in [Context -> Seq([dir : End, result : {"transferred", "failed", "aborted"}, bytes : Nat])]
  /\ sent \in [Context -> [End -> Nat]]
  /\ taken \in [Context -> [End -> Nat]]
  /\ received \in [Context -> [End -> Seq(Nat)]]
  /\ ended \in [Context -> [End -> BOOLEAN]]
  /\ gone \in [Context -> [End -> BOOLEAN]]
  /\ told \in [Context -> [End -> BOOLEAN]]
  /\ at \in [Thread -> {"idle", "delegated", "complete", "again", "loop", "established",
                        "dispose", "disposeLast", "raced", "exited"}]
  /\ on \in [Thread -> Context \cup {None}]
  /\ arg \in [Thread -> [dir : End, bytes : Nat]]

\* The OVERLAPPED and the buffer of a direction serve one operation at a time: while one
\* is under way none of its completions is queued or being handled (forwarding.cpp:201-250).
OneOperation == \A c \in Context, i \in End :
  LET queued == {k \in 1 .. Len(port[c]) : port[c][k].dir = i}
      handled == {t \in Thread : on[t] = c /\ at[t] \in {"complete", "again"} /\ arg[t].dir = i}
  IN  /\ \A j, k \in queued : j = k
      /\ queued # {} => handled = {}
      /\ io[c][i] # "none" => queued = {} /\ handled = {}

\* A completion never refers to a context that was freed, unless one of its ends went away
\* (then two operations may fail, and the first one frees it: forwarding.cpp:103-121).
NoDangling == \A c \in Context : Dangling(c) => \E i \in End : gone[c][i]

\* Every step of the manager is one that a relay may take: bytes arrive in order and
\* once, the end of a stream is passed on after its last byte, and a connection is given up
\* only when it could not be made or an end went away (forwarding.cpp:195-270).
LinkOf(c) ==
  IF contextState[c] # "Initialized" /\ c \notin contextList
    THEN IF \A i \in End : told[c][i] THEN "Closed" ELSE "Broken"
    ELSE IF targets[c] = 0 THEN "Connecting" ELSE "Open"

R == INSTANCE Relay WITH Connection <- Context, link <- [c \in Context |-> LinkOf(c)]
ImplementsRelay == R!Spec

\* Two threads worked on one context, with the wrong state of it (Races).
SomeRace == \E c \in Context : Raced(c)

\* An end is told that the stream of its peer is over once it has all of it, even when its
\* own direction is still in use (forwarding.cpp:212-229), unless an end goes away, the
\* program stops or the threads raced.
EndIsTold == \A c \in Context, i \in End :
  targets[c] > 0 /\ ended[c][i]
    ~> told[c][PeerOf(i)] \/ cancelFlag \/ SomeRace \/ \E j \in End : gone[c][j]

\* A connection that neither end uses any more is removed from the list and its handles
\* are closed, whichever way the streams ended (forwarding.cpp:262-270), unless the program
\* stops or the threads raced.
Released == \A c \in Context :
  ended[c][0] /\ ended[c][1] ~> Freed(c) \/ cancelFlag \/ SomeRace
=============================================================================
