------------------------ MODULE ProxyManager_proofs ------------------------
(***************************************************************************)
(* Proofs about ProxyManager, for every set of connections and listeners   *)
(* and every size of header, buffer, message and reply.                    *)
(*                                                                         *)
(* The inductive invariant speaks of a thread and the context it works on  *)
(* (Standing) and of a context whether or not a thread works on it         *)
(* (Resting).  A step of a thread changes one context only, so that the    *)
(* others keep what they have (Local).                                     *)
(***************************************************************************)
EXTENDS ProxyManager, TLAPS, SequenceTheorems

\* The places where a thread has a context.
Working == {"handshake", "complete", "start", "post", "dispose", "destroy", "remove", "upstream"}

\* A transfer of n bytes may be under way, or be reported, for context c.
Fits(c, n) ==
  /\ state[c] \in {"Handshake", "ReadHeader", "ReadBody", "WriteReply"}
  /\ state[c] = "ReadHeader" => ioNeedBytes[c] = HEADER_SIZE
  /\ state[c] # "Handshake" => n <= ioNeedBytes[c]
  /\ state[c] = "WriteReply" => Chunk(c, n)

\* Thread t has its context for itself, in a state that fits the place where t stands.
Standing(t) ==
  /\ on[t] = None <=> at[t] \notin Working
  /\ on[t] # None =>
       /\ on[t] \in contextList /\ on[t] \notin messageList
       /\ io[on[t]] = << >> /\ arrived[on[t]] = << >>
       /\ state[on[t]] # "Initialized"
       /\ state[on[t]] = "Destroyed" <=> at[t] = "remove"
       /\ at[t] = "handshake" => state[on[t]] = "Handshake"
       /\ at[t] = "start" => Fits(on[t], arg[t])
       /\ at[t] = "complete" => Fits(on[t], arg[t]) \/ state[on[t]] \in {"Ready", "WaitReply"}
       /\ at[t] \in {"post", "upstream"} => state[on[t]] = "WaitReply"

\* What is true of context c whoever holds it.
Resting(c) ==
  /\ c \notin contextList =>
       /\ state[c] \in {"Initialized", "Destroyed"}
       /\ c \notin messageList /\ io[c] = << >> /\ arrived[c] = << >>
  /\ c \in contextList =>
       \/ \E t \in Thread : on[t] = c
       \/ c \in messageList \/ io[c] # << >> \/ arrived[c] # << >>
  /\ c \in messageList => state[c] = "WaitReply" /\ io[c] = << >> /\ arrived[c] = << >>
  /\ io[c] # << >> =>
       /\ Len(io[c]) = 1 /\ arrived[c] = << >>
       /\ Fits(c, io[c][1].bytes)
       /\ io[c][1].write <=> state[c] = "WriteReply"
  /\ arrived[c] # << >> =>
       /\ Len(arrived[c]) = 1
       /\ state[c] \in {"Handshake", "ReadHeader", "ReadBody", "WriteReply"}
       /\ arrived[c][1].result # "aborted"
       /\ arrived[c][1].result = "transferred" => Fits(c, arrived[c][1].bytes)

\* No two threads have the same context.
Alone == \A t, u \in Thread : on[t] = on[u] /\ on[t] # None => t = u

IInv ==
  /\ TypeOK
  /\ Alone
  /\ \A t \in Thread : Standing(t)
  /\ \A c \in Context : Resting(c)

\* The type invariant in the parts that the steps change together.
ContextTypes ==
  /\ state \in [Context -> States]
  /\ ioNeedBytes \in [Context -> Nat]
  /\ ioDataOffset \in [Context -> Nat]
  /\ messageSize \in [Context -> Nat]
  /\ handshake \in [Context -> Nat]

Operations == [bytes: Nat, write: BOOLEAN]
Packets == [result: {"transferred", "failed", "aborted"}, bytes: Nat]

KernelTypes ==
  /\ socket \in [Context -> BOOLEAN]
  /\ closed \in [Context -> BOOLEAN]
  /\ io \in [Context -> Seq(Operations)]
  /\ arrived \in [Context -> Seq(Packets)]
  /\ portOpen \in BOOLEAN

OwnerTypes ==
  /\ contextList \subseteq Context
  /\ cancelFlag \in BOOLEAN
  /\ messageList \subseteq Context
  /\ dispatcherCancelled \in BOOLEAN
  /\ application \in {"Running", "JoinWorker", "JoinListeners", "StopManager", "JoinIocp",
                      "Stopped"}

ThreadTypes ==
  /\ at \in [Thread -> Working \cup {"idle", "exited", "accept", "wait"}]
  /\ on \in [Thread -> Context \cup {None}]
  /\ arg \in [Thread -> Nat]

\* TypeOK in four parts.
LEMMA TypeParts ==
  /\ TypeOK <=> ContextTypes /\ KernelTypes /\ OwnerTypes /\ ThreadTypes
  /\ TypeOK' <=> ContextTypes' /\ KernelTypes' /\ OwnerTypes' /\ ThreadTypes'
<1> DEFINE Everywhere == {"idle", "exited", "accept", "handshake", "complete", "start", "post",
                       "dispose", "destroy", "remove", "wait", "upstream"}
<1>1. Working \cup {"idle", "exited", "accept", "wait"} = Everywhere
  BY DEF Working
<1>2. /\ ThreadTypes <=> /\ at \in [Thread -> Everywhere]
                         /\ on \in [Thread -> Context \cup {None}]
                         /\ arg \in [Thread -> Nat]
      /\ ThreadTypes' <=> /\ at' \in [Thread -> Everywhere]
                          /\ on' \in [Thread -> Context \cup {None}]
                          /\ arg' \in [Thread -> Nat]
  BY <1>1, Zenon DEF ThreadTypes
<1>3. QED
  BY <1>2, Zenon DEF TypeOK, ContextTypes, KernelTypes, OwnerTypes, Operations, Packets

\* The course of a thread keeps to the types.
LEMMA ThreadsTyped ==
  ASSUME ThreadTypes, NEW t \in Thread
  PROVE  /\ \A place \in Working \cup {"idle", "exited", "accept", "wait"}, n \in Nat :
               Moves(t, place, n) => ThreadTypes'
         /\ \A c \in Context, place \in Working, n \in Nat : Takes(t, c, place, n) => ThreadTypes'
         /\ Returns(t) => ThreadTypes'
         /\ Ends(t) => ThreadTypes'
<1> USE DEF ThreadTypes
<1>1. \A place \in Working \cup {"idle", "exited", "accept", "wait"}, n \in Nat :
        Moves(t, place, n) => ThreadTypes'
  BY DEF Moves
<1>2. \A c \in Context, place \in Working, n \in Nat : Takes(t, c, place, n) => ThreadTypes'
  BY DEF Takes
<1>3. Returns(t) => ThreadTypes'
  BY DEF Returns
<1>4. Ends(t) => ThreadTypes'
  BY DEF Ends
<1>5. QED
  BY <1>1, <1>2, <1>3, <1>4

----------------------------------------------------------------------------
\* Queues of one element: the operation under way, the packet in the port.
LEMMA OneAppended ==
  ASSUME NEW S, NEW s \in Seq(S), NEW e \in S
  PROVE  /\ Append(s, e) \in Seq(S)
         /\ Append(s, e) # << >>
         /\ s = << >> => Len(Append(s, e)) = 1 /\ Append(s, e)[1] = e
<1>1. Append(s, e) \in Seq(S) /\ Len(Append(s, e)) = Len(s) + 1
  OBVIOUS
<1>2. Append(s, e) # << >>
  BY <1>1, EmptySeq, LenProperties
<1>3. s = << >> => Append(s, e)[1] = e /\ Len(s) = 0
  BY EmptySeq
<1>4. QED
  BY <1>1, <1>2, <1>3

\* A queue whose head is taken.
LEMMA OneTaken ==
  ASSUME NEW S, NEW s \in Seq(S), s # << >>
  PROVE  /\ Tail(s) \in Seq(S)
         /\ Head(s) = s[1]
         /\ s[1] \in S
         /\ Len(s) = 1 => Tail(s) = << >>
<1>1. Len(s) \in Nat \ {0}
  BY EmptySeq, LenProperties
<1>2. s[1] \in S
  BY <1>1, ElementOfSeq
<1>3. Tail(s) \in Seq(S) /\ Len(Tail(s)) = Len(s) - 1 /\ Head(s) = s[1]
  BY HeadTailProperties
<1>4. Len(s) = 1 => Tail(s) = << >>
  <2>1. SUFFICES ASSUME Len(s) = 1 PROVE Tail(s) = << >>
    OBVIOUS
  <2>2. Tail(s) \in Seq(S) /\ Len(Tail(s)) = 0
    BY <1>3, <2>1
  <2>3. QED
    BY <2>2, EmptySeq
<1>5. QED
  BY <1>2, <1>3, <1>4

\* A step that touches context c and at most the thread t, which has c or nothing
\* before and after.
LEMMA Local ==
  ASSUME IInv, TypeOK',
         NEW t \in Thread, NEW c \in Context,
         on[t] \in {None, c}, on'[t] \in {None, c},
         \A u \in Thread : u # t => /\ on[u] # c
                                    /\ on'[u] = on[u] /\ at'[u] = at[u] /\ arg'[u] = arg[u],
         \A d \in Context : d # c =>
           /\ state'[d] = state[d] /\ ioNeedBytes'[d] = ioNeedBytes[d]
           /\ ioDataOffset'[d] = ioDataOffset[d] /\ messageSize'[d] = messageSize[d]
           /\ io'[d] = io[d] /\ arrived'[d] = arrived[d]
           /\ d \in contextList' <=> d \in contextList
           /\ d \in messageList' <=> d \in messageList,
         Standing(t)', Resting(c)'
  PROVE  IInv'
<1>1. Alone'
  BY ThreadAssumption DEF IInv, Alone
<1>2. ASSUME NEW u \in Thread, u # t PROVE Standing(u)'
  <2>1. Standing(u) /\ on[u] # c /\ on[u] \in Context \cup {None}
    BY <1>2 DEF IInv, TypeOK
  <2>2. on'[u] = on[u] /\ at'[u] = at[u] /\ arg'[u] = arg[u]
    BY <1>2
  <2>3. CASE on[u] = None
    BY <2>1, <2>2, <2>3 DEF Standing
  <2>4. CASE on[u] # None
    <3>1. on[u] \in Context /\ on[u] # c
      BY <2>1, <2>4
    <3>2. Fits(on[u], arg[u]) => Fits(on[u], arg[u])'
      BY <2>2, <3>1 DEF Fits, Chunk
    <3>3. QED
      BY <2>1, <2>2, <2>4, <3>1, <3>2 DEF Standing
  <2>5. QED
    BY <2>3, <2>4
<1>3. ASSUME NEW d \in Context, d # c PROVE Resting(d)'
  <2>1. Resting(d)
    BY DEF IInv
  <2>2. \A n : Fits(d, n) => Fits(d, n)'
    BY <1>3 DEF Fits, Chunk
  <2>3. (\E u \in Thread : on[u] = d) => \E u \in Thread : on'[u] = d
    BY <1>3, ThreadAssumption
  <2>4. QED
    BY <1>3, <2>1, <2>2, <2>3 DEF Resting
<1>4. QED
  BY <1>1, <1>2, <1>3 DEF IInv

----------------------------------------------------------------------------
(* IInv is inductive. *)

\* The invariant holds at first.
LEMMA Initially == Init => IInv
<1> SUFFICES ASSUME Init PROVE IInv
  OBVIOUS
<1> USE DEF Init
<1>1. TypeOK
  <2>1. /\ << >> \in Seq([bytes: Nat, write: BOOLEAN])
        /\ << >> \in Seq([result: {"transferred", "failed", "aborted"}, bytes: Nat])
    BY EmptySeq
  <2>2. /\ io \in [Context -> Seq([bytes: Nat, write: BOOLEAN])]
        /\ arrived \in [Context -> Seq([result: {"transferred", "failed", "aborted"}, bytes: Nat])]
    BY <2>1
  <2>3. QED
    BY <2>2 DEF TypeOK, States
<1>2. Alone /\ \A t \in Thread : Standing(t)
  BY DEF Alone, Standing, Working
<1>3. \A c \in Context : Resting(c)
  BY DEF Resting
<1>4. QED
  BY <1>1, <1>2, <1>3 DEF IInv

\* A thread without a context moves on, or the application does.
LEMMA IdleSteps ==
  ASSUME IInv,
         \/ \E l \in Listener : Listens(l) \/ ListenLoopEnds(l)
         \/ Waits \/ PortAbandoned \/ WorkerEnds
         \/ DispatcherStops \/ WorkerJoined \/ ListenersJoined
         \/ ManagerClosesPort \/ IocpJoined \/ Terminated
         \/ UNCHANGED vars
  PROVE  IInv'
<1>1. UNCHANGED <<contextVars, contextList, io, arrived, messageList, on>>
  BY DEF Listens, ListenLoopEnds, Waits, PortAbandoned, WorkerEnds, DispatcherStops,
     WorkerJoined, ListenersJoined, ManagerClosesPort, IocpJoined, Terminated,
     Moves, Ends, vars, managerVars, kernelVars, dispatcherVars, threadVars
<1>2. ContextTypes /\ KernelTypes /\ OwnerTypes /\ ThreadTypes
  BY TypeParts DEF IInv
<1>3. ContextTypes' /\ KernelTypes' /\ OwnerTypes'
  BY <1>1, <1>2 DEF ContextTypes, KernelTypes, OwnerTypes, Listens, ListenLoopEnds, Waits,
     PortAbandoned, WorkerEnds, DispatcherStops, WorkerJoined, ListenersJoined,
     ManagerClosesPort, IocpJoined, Terminated, vars, contextVars, managerVars, kernelVars,
     dispatcherVars
<1>4. \/ UNCHANGED threadVars
      \/ \E t \in Thread : /\ at[t] \notin Working
                           /\ Moves(t, "accept", 0) \/ Moves(t, "wait", 0) \/ Ends(t)
  <2>1. \A l \in Listener : Listens(l) \/ ListenLoopEnds(l) =>
          /\ l \in Thread /\ at[l] \notin Working
          /\ Moves(l, "accept", 0) \/ Ends(l)
    BY DEF Listens, ListenLoopEnds, Thread, Working
  <2>2. Waits \/ PortAbandoned =>
          /\ "iocp" \in Thread /\ at["iocp"] \notin Working
          /\ Moves("iocp", "wait", 0) \/ Ends("iocp")
    BY DEF Waits, PortAbandoned, Thread, Working
  <2>3. WorkerEnds => "worker" \in Thread /\ at["worker"] \notin Working /\ Ends("worker")
    BY DEF WorkerEnds, Thread, Working
  <2>4. DispatcherStops \/ WorkerJoined \/ ListenersJoined \/ ManagerClosesPort \/ IocpJoined
          \/ Terminated \/ UNCHANGED vars => UNCHANGED threadVars
    BY DEF DispatcherStops, WorkerJoined, ListenersJoined, ManagerClosesPort, IocpJoined,
       Terminated, vars
  <2>5. QED
    BY <2>1, <2>2, <2>3, <2>4
<1>5. /\ ThreadTypes'
      /\ \A t \in Thread : \/ at'[t] = at[t] /\ arg'[t] = arg[t]
                           \/ at[t] \notin Working /\ at'[t] \notin Working
  <2>1. CASE UNCHANGED threadVars
    BY <1>2, <2>1 DEF ThreadTypes, threadVars
  <2>2. ASSUME NEW t \in Thread, at[t] \notin Working,
               Moves(t, "accept", 0) \/ Moves(t, "wait", 0) \/ Ends(t)
        PROVE  /\ ThreadTypes'
               /\ at'[t] \notin Working
               /\ \A u \in Thread : u # t => at'[u] = at[u] /\ arg'[u] = arg[u]
    <3>1. ThreadTypes'
      BY <1>2, <2>2, ThreadsTyped
    <3>2. QED
      BY <1>2, <2>2, <3>1 DEF ThreadTypes, Moves, Ends, Working
  <2>3. QED
    BY <1>4, <2>1, <2>2
<1>6. ASSUME NEW t \in Thread PROVE Standing(t)'
  <2>1. Standing(t)
    BY DEF IInv
  <2>2. CASE at'[t] = at[t] /\ arg'[t] = arg[t]
    BY <1>1, <2>1, <2>2 DEF Standing, Fits, Chunk, contextVars
  <2>3. CASE at[t] \notin Working /\ at'[t] \notin Working
    BY <1>1, <2>1, <2>3 DEF Standing
  <2>4. QED
    BY <1>5, <2>2, <2>3
<1>7. ASSUME NEW c \in Context PROVE Resting(c)'
  <2>1. Resting(c)
    BY DEF IInv
  <2>2. QED
    BY <1>1, <2>1 DEF Resting, Fits, Chunk, contextVars
<1>8. Alone'
  BY <1>1 DEF IInv, Alone
<1>9. QED
  BY <1>3, <1>5, <1>6, <1>7, <1>8, TypeParts DEF IInv

\* A thread that has context c, and keeps it, computes.
LEMMA Computing ==
  ASSUME IInv, NEW t \in Thread, NEW c \in Context, on[t] = c,
         NEW place \in Working, NEW n \in Nat, Moves(t, place, n),
         UNCHANGED <<managerVars, kernelVars, dispatcherVars, application>>,
         ContextTypes',
         \A d \in Context : d # c =>
           /\ state'[d] = state[d] /\ ioNeedBytes'[d] = ioNeedBytes[d]
           /\ ioDataOffset'[d] = ioDataOffset[d] /\ messageSize'[d] = messageSize[d],
         state'[c] # "Initialized",
         state'[c] = "Destroyed" <=> place = "remove",
         place = "handshake" => state'[c] = "Handshake",
         place = "start" => Fits(c, n)',
         place = "complete" => Fits(c, n)' \/ state'[c] \in {"Ready", "WaitReply"},
         place \in {"post", "upstream"} => state'[c] = "WaitReply"
  PROVE  IInv'
<1>1. ContextTypes /\ KernelTypes /\ OwnerTypes /\ ThreadTypes
  BY TypeParts DEF IInv
<1>2. KernelTypes' /\ OwnerTypes'
  BY <1>1 DEF KernelTypes, OwnerTypes, managerVars, kernelVars, dispatcherVars
<1>3. ThreadTypes'
  BY <1>1, ThreadsTyped
<1>4. TypeOK'
  BY <1>2, <1>3, TypeParts
<1>5. /\ on' = on /\ at'[t] = place /\ arg'[t] = n
      /\ \A u \in Thread : u # t => at'[u] = at[u] /\ arg'[u] = arg[u]
      /\ contextList' = contextList /\ messageList' = messageList /\ io' = io /\ arrived' = arrived
  BY <1>1 DEF Moves, ThreadTypes, managerVars, kernelVars, dispatcherVars
<1>6. /\ c # None
      /\ \A u \in Thread : u # t => on[u] # c
  BY ThreadAssumption DEF IInv, Alone
<1>7. c \in contextList /\ c \notin messageList /\ io[c] = << >> /\ arrived[c] = << >>
  BY <1>6 DEF IInv, Standing
<1>8. Standing(t)'
  BY <1>5, <1>6, <1>7 DEF Standing
<1>9. Resting(c)'
  BY <1>5, <1>7 DEF Resting
<1>10. QED
  BY <1>4, <1>5, <1>6, <1>8, <1>9, Local

\* What a thread knows of the context it completes an operation of.
LEMMA Completed ==
  ASSUME IInv, NEW t \in Thread, at[t] \in Working
  PROVE  /\ on[t] \in Context
         /\ state[on[t]] \in States /\ state[on[t]] # "Initialized"
         /\ state[on[t]] = "Destroyed" <=> at[t] = "remove"
         /\ arg[t] \in Nat
         /\ ioNeedBytes[on[t]] \in Nat
         /\ ioDataOffset[on[t]] \in Nat
         /\ messageSize[on[t]] \in Nat
         /\ at[t] = "start" => Fits(on[t], arg[t])
         /\ at[t] = "complete" /\ state[on[t]] \in {"ReadHeader", "ReadBody", "WriteReply"} =>
              /\ Fits(on[t], arg[t])
              /\ Left(t) \in Nat
<1>1. /\ ContextTypes /\ ThreadTypes /\ Standing(t)
      /\ on[t] \in Context
  BY TypeParts DEF IInv, Standing, ThreadTypes
<1>2. /\ state[on[t]] \in States
      /\ arg[t] \in Nat
      /\ ioNeedBytes[on[t]] \in Nat
      /\ ioDataOffset[on[t]] \in Nat
      /\ messageSize[on[t]] \in Nat
  BY <1>1 DEF ContextTypes, ThreadTypes
<1>3. on[t] # None
  BY <1>1, ThreadAssumption
<1>4. QED
  BY <1>1, <1>2, <1>3 DEF Standing, Fits, Left

\* The lesser of two numbers.
LEMMA LesserProperties ==
  ASSUME NEW a \in Nat, NEW b \in Nat
  PROVE  /\ Lesser(a, b) \in Nat
         /\ Lesser(a, b) <= a /\ Lesser(a, b) <= b
         /\ Lesser(a, b) \in {a, b}
  BY DEF Lesser

\* DoIoCompletion until it starts i/o, disposes or posts.
LEMMA CompletionSteps ==
  ASSUME IInv, NEW t \in Thread, NEW m \in Nat,
         \/ Rejects(t) \/ HandshakeContinues(t) \/ ReadsHeader(t) \/ GetsHeader(t, m)
         \/ GetsBody(t) \/ WritesReply(t) \/ WritesMore(t)
  PROVE  IInv'
<1>1. /\ at[t] \in Working /\ at[t] \notin {"remove", "start"}
      /\ UNCHANGED <<managerVars, kernelVars, dispatcherVars, application>>
  BY DEF Rejects, HandshakeContinues, ReadsHeader, GetsHeader, GetsBody, WritesReply, WritesMore,
         Completing, Working
<1>. PICK c \in Context : c = on[t]
  BY <1>1, Completed
<1>2. /\ state[c] \in States /\ state[c] \notin {"Initialized", "Destroyed"}
      /\ arg[t] \in Nat
      /\ ioNeedBytes[c] \in Nat
      /\ ioDataOffset[c] \in Nat
      /\ messageSize[c] \in Nat
      /\ at[t] = "complete" /\ state[c] \in {"ReadHeader", "ReadBody", "WriteReply"} =>
              /\ Fits(c, arg[t])
              /\ Left(t) \in Nat
  BY <1>1, Completed
<1>3. ContextTypes
  BY TypeParts DEF IInv
<1>4. HEADER_SIZE \in Nat /\ MAX_BUFFER_SIZE \in Nat /\ HEADER_SIZE < MAX_BUFFER_SIZE
  BY SizeAssumption
<1>5. /\ at[t] = "handshake" => state[c] = "Handshake"
      /\ {"start", "dispose", "post", "complete"} \subseteq Working
  BY <1>2, ThreadAssumption DEF IInv, Standing, Working
<1>6. CASE Rejects(t)
  <2>1. Moves(t, "dispose", 0) /\ UNCHANGED contextVars
    BY <1>6 DEF Rejects
  <2>2. ContextTypes' /\ state' = state
    BY <1>3, <2>1 DEF ContextTypes, contextVars
  <2>3. QED
    BY <1>1, <1>2, <1>5, <2>1, <2>2, Computing DEF contextVars
<1>7. CASE HandshakeContinues(t)
  <2>1. /\ Moves(t, "start", HEADER_SIZE)
        /\ state[c] = "Handshake"
        /\ handshake[c] > 0
        /\ handshake' = [handshake EXCEPT ![c] = @ - 1]
        /\ UNCHANGED <<state, ioNeedBytes, ioDataOffset, messageSize>>
    BY <1>7 DEF HandshakeContinues, Completing
  <2>2. ContextTypes' /\ Fits(c, HEADER_SIZE)'
    BY <1>2, <1>3, <2>1 DEF ContextTypes, Fits
  <2>3. QED
    BY <1>1, <1>2, <1>4, <1>5, <2>1, <2>2, Computing
<1>8. CASE ReadsHeader(t)
  <2>1. /\ Moves(t, "start", HEADER_SIZE)
        /\ state' = [state EXCEPT ![c] = "ReadHeader"]
        /\ ioNeedBytes' = [ioNeedBytes EXCEPT ![c] = HEADER_SIZE]
        /\ messageSize' = [messageSize EXCEPT ![c] = 0]
        /\ UNCHANGED <<ioDataOffset, handshake>>
    BY <1>8 DEF ReadsHeader
  <2>2. ContextTypes' /\ Fits(c, HEADER_SIZE)'
    BY <1>2, <1>3, <1>4, <2>1 DEF ContextTypes, Fits, States
  <2>3. QED
    BY <1>1, <1>2, <1>3, <1>4, <1>5, <2>1, <2>2, Computing DEF ContextTypes
<1>9. CASE GetsHeader(t, m)
  <2>1. /\ state[c] = "ReadHeader" /\ at[t] = "complete"
        /\ state' = [state EXCEPT ![c] = "ReadBody"]
        /\ UNCHANGED <<ioDataOffset, handshake>>
    BY <1>5, <1>9 DEF GetsHeader, Completing
  <2>2. PICK n \in Nat, k \in Nat :
          /\ ioNeedBytes' = [ioNeedBytes EXCEPT ![c] = n]
          /\ messageSize' \in {messageSize, [messageSize EXCEPT ![c] = m]}
          /\ \/ Moves(t, "dispose", 0)
             \/ Moves(t, "start", k) /\ k <= n
    <3>1. Lesser(MAX_BUFFER_SIZE, m) \in Nat /\ Lesser(MAX_BUFFER_SIZE, m) <= m
      BY <1>4, LesserProperties
    <3>2. CASE Left(t) # 0
      BY <1>2, <1>9, <2>1, <3>2 DEF GetsHeader
    <3>3. CASE Left(t) = 0 /\ m > MAX_MESSAGE_SIZE
      BY <1>9, <3>3 DEF GetsHeader
    <3>4. CASE Left(t) = 0 /\ ~(m > MAX_MESSAGE_SIZE)
      BY <1>4, <1>9, <3>1, <3>4 DEF GetsHeader
    <3>5. QED
      BY <3>2, <3>3, <3>4
  <2>3. /\ ContextTypes'
        /\ k <= n => Fits(c, k)'
        /\ state'[c] = "ReadBody"
    BY <1>2, <1>3, <1>4, <2>1, <2>2 DEF ContextTypes, Fits, States
  <2>4. \A d \in Context : d # c =>
           /\ state'[d] = state[d] /\ ioNeedBytes'[d] = ioNeedBytes[d]
           /\ ioDataOffset'[d] = ioDataOffset[d] /\ messageSize'[d] = messageSize[d]
    BY <1>3, <2>1, <2>2 DEF ContextTypes
  <2>5. CASE Moves(t, "dispose", 0)
    BY <1>1, <1>5, <2>3, <2>4, <2>5, Computing
  <2>6. CASE Moves(t, "start", k) /\ k <= n
    BY <1>1, <1>5, <2>3, <2>4, <2>6, Computing
  <2>7. QED
    BY <2>2, <2>5, <2>6
<1>10. CASE GetsBody(t)
  <2>1. /\ state[c] = "ReadBody" /\ at[t] = "complete"
        /\ Left(t) \in Nat
        /\ ioNeedBytes' = [ioNeedBytes EXCEPT ![c] = Left(t)]
        /\ UNCHANGED <<ioDataOffset, messageSize, handshake>>
    BY <1>2, <1>5, <1>10 DEF GetsBody, Completing
  <2>2. CASE Moves(t, "post", 0) /\ state' = [state EXCEPT ![c] = "WaitReply"]
    <3>1. ContextTypes'
      BY <1>2, <1>3, <2>1, <2>2 DEF ContextTypes, States
    <3>2. QED
      BY <1>1, <1>2, <1>3, <1>5, <2>1, <2>2, <3>1, Computing DEF ContextTypes
  <2>3. CASE Moves(t, "start", Lesser(MAX_BUFFER_SIZE, Left(t))) /\ state' = state
    <3>1. Lesser(MAX_BUFFER_SIZE, Left(t)) \in Nat /\ Lesser(MAX_BUFFER_SIZE, Left(t)) <= Left(t)
      BY <1>4, <2>1, LesserProperties
    <3>. PICK n \in Nat : n = Lesser(MAX_BUFFER_SIZE, Left(t))
      BY <3>1
    <3>2. /\ state'[c] = "ReadBody" /\ ioNeedBytes'[c] = Left(t) /\ n <= Left(t)
      BY <1>2, <1>3, <2>1, <2>3, <3>1 DEF ContextTypes
    <3>3. ContextTypes' /\ Fits(c, n)'
      BY <1>2, <1>3, <2>1, <2>3, <3>2 DEF ContextTypes, Fits
    <3>4. QED
      BY <1>1, <1>2, <1>3, <1>5, <2>1, <2>3, <3>2, <3>3, Computing DEF ContextTypes
  <2>4. QED
    BY <1>10, <2>1, <2>2, <2>3 DEF GetsBody, PassesOn
<1>11. CASE WritesReply(t)
  <2>. PICK need \in Nat : need = messageSize[c] + HEADER_SIZE /\ HEADER_SIZE <= need
    BY <1>2, <1>4
  <2>. PICK n \in Nat : n = Lesser(MAX_BUFFER_SIZE, need) /\ n <= need /\ HEADER_SIZE <= n
    BY <1>4, LesserProperties
  <2>1. /\ ioNeedBytes' = [ioNeedBytes EXCEPT ![c] = need]
        /\ ioDataOffset' = [ioDataOffset EXCEPT ![c] = n - HEADER_SIZE]
        /\ Moves(t, "start", n)
        /\ state' = [state EXCEPT ![c] = "WriteReply"]
        /\ UNCHANGED <<messageSize, handshake>>
    BY <1>11 DEF WritesReply, ReplyBytes, DataInFirstChunk
  <2>2. /\ state'[c] = "WriteReply" /\ ioNeedBytes'[c] = need /\ ioDataOffset'[c] = n - HEADER_SIZE
        /\ messageSize'[c] = messageSize[c]
    BY <1>2, <1>3, <2>1 DEF ContextTypes
  <2>3. ContextTypes'
    BY <1>2, <1>3, <1>4, <2>1 DEF ContextTypes, States
  <2>4. Fits(c, n)'
    BY <1>2, <1>4, <2>2 DEF Fits, Chunk
  <2>5. QED
    BY <1>1, <1>2, <1>3, <1>5, <2>1, <2>2, <2>3, <2>4, Computing DEF ContextTypes
<1>12. CASE WritesMore(t)
  <2>1. /\ state[c] = "WriteReply" /\ at[t] = "complete"
        /\ Left(t) \in Nat
        /\ ioNeedBytes' = [ioNeedBytes EXCEPT ![c] = Left(t)]
        /\ UNCHANGED <<messageSize, handshake>>
    BY <1>2, <1>5, <1>12 DEF WritesMore, Completing
  <2>2. CASE Left(t) > 0
    <3>. PICK n \in Nat : n = Lesser(MAX_BUFFER_SIZE, Left(t)) /\ n <= Left(t)
      BY <1>4, <2>1, LesserProperties
    <3>1. /\ ioDataOffset' = [ioDataOffset EXCEPT ![c] = @ + n]
          /\ Moves(t, "start", n)
          /\ state' = state
      BY <1>12, <2>2 DEF WritesMore
    <3>2. /\ ioDataOffset'[c] = ioDataOffset[c] + n /\ ioNeedBytes'[c] = ioNeedBytes[c] - arg[t]
          /\ messageSize'[c] = messageSize[c] /\ state'[c] = "WriteReply"
      BY <1>2, <1>3, <2>1, <3>1 DEF ContextTypes, Left
    <3>3. ContextTypes'
      BY <1>2, <1>3, <2>1, <3>1 DEF ContextTypes
    <3>4. Fits(c, n)'
      BY <1>2, <1>4, <2>1, <3>2 DEF Fits, Chunk, Left
    <3>5. QED
      BY <1>1, <1>2, <1>3, <1>5, <2>1, <3>1, <3>2, <3>3, <3>4, Computing DEF ContextTypes
  <2>3. CASE ~(Left(t) > 0)
    <3>1. /\ state' = [state EXCEPT ![c] = "Ready"]
          /\ Moves(t, "complete", 0)
          /\ UNCHANGED ioDataOffset
      BY <1>12, <2>3 DEF WritesMore
    <3>2. ContextTypes' /\ state'[c] = "Ready"
      BY <1>2, <1>3, <2>1, <3>1 DEF ContextTypes, States
    <3>3. QED
      BY <1>1, <1>2, <1>3, <1>5, <2>1, <3>1, <3>2, Computing DEF ContextTypes
  <2>4. QED
    BY <2>2, <2>3
<1>13. QED
  BY <1>6, <1>7, <1>8, <1>9, <1>10, <1>11, <1>12

\* The thread keeps its context and leaves the context's variables alone.
LEMMA PlaceSteps ==
  ASSUME IInv, NEW t \in Thread,
         \/ PostsRequest(t) /\ dispatcherCancelled
         \/ StartsIo(t) /\ Moves(t, "dispose", 0) /\ UNCHANGED io
         \/ DisposeTests(t)
         \/ t = "worker" /\ \E n \in Replies : PostMessageReply(n)
  PROVE  IInv'
<1>1. at[t] \in Working /\ at[t] # "remove"
  BY DEF PostsRequest, StartsIo, DisposeTests, PostMessageReply, Working
<1>. PICK c \in Context : c = on[t]
  BY <1>1, Completed
<1>2. /\ state[c] \in States /\ state[c] \notin {"Initialized", "Destroyed"}
      /\ at[t] = "upstream" => state[c] = "WaitReply"
      /\ ContextTypes
      /\ {"dispose", "destroy", "complete"} \subseteq Working
  BY <1>1, Completed, TypeParts, ThreadAssumption DEF IInv, Standing, Working
<1>3. /\ \/ Moves(t, "dispose", 0) \/ Moves(t, "destroy", 0)
         \/ Moves(t, "complete", 0) /\ at[t] = "upstream"
      /\ UNCHANGED <<managerVars, kernelVars, dispatcherVars, application>>
      /\ UNCHANGED <<state, ioNeedBytes, ioDataOffset, handshake>>
      /\ \/ UNCHANGED messageSize
         \/ \E n \in Nat : messageSize' = [messageSize EXCEPT ![c] = n]
  <2>1. CASE PostsRequest(t) /\ dispatcherCancelled
    BY <2>1 DEF PostsRequest, contextVars, dispatcherVars
  <2>2. CASE StartsIo(t) /\ Moves(t, "dispose", 0) /\ UNCHANGED io
    BY <2>2 DEF StartsIo, contextVars, kernelVars
  <2>3. CASE DisposeTests(t)
    BY <1>2, <2>3 DEF DisposeTests, contextVars
  <2>4. ASSUME NEW n \in Replies, PostMessageReply(n), t = "worker"
        PROVE  /\ \/ Moves(t, "dispose", 0)
                  \/ Moves(t, "complete", 0) /\ at[t] = "upstream"
               /\ UNCHANGED <<managerVars, kernelVars, dispatcherVars, application>>
               /\ UNCHANGED <<state, ioNeedBytes, ioDataOffset, handshake>>
               /\ UNCHANGED messageSize \/ messageSize' = [messageSize EXCEPT ![c] = n]
    BY <2>4 DEF PostMessageReply
  <2>5. QED
    BY <2>1, <2>2, <2>3, <2>4, SizeAssumption
<1>4. /\ ContextTypes'
      /\ \A d \in Context : d # c => messageSize'[d] = messageSize[d]
  BY <1>2, <1>3 DEF ContextTypes
<1>5. QED
  BY <1>2, <1>3, <1>4, Computing

\* The thread gives its context up: to the dispatcher, to the kernel, or for good.
LEMMA ReleaseSteps ==
  ASSUME IInv, NEW t \in Thread,
         \/ PostsRequest(t) /\ ~dispatcherCancelled
         \/ StartsIo(t) /\ Returns(t) /\ io' = Started(t)
         \/ RemoveContext(t)
  PROVE  IInv'
<1>1. at[t] \in Working
  BY DEF PostsRequest, StartsIo, RemoveContext, Working
<1>. PICK c \in Context : c = on[t]
  BY <1>1, Completed
<1>2. /\ ContextTypes /\ KernelTypes /\ OwnerTypes /\ ThreadTypes
      /\ c # None
      /\ Standing(t)
      /\ \A u \in Thread : u # t => on[u] # c
      /\ Returns(t)
  BY TypeParts, ThreadAssumption DEF IInv, Alone, PostsRequest, StartsIo, RemoveContext
<1>3. /\ c \in contextList /\ c \notin messageList /\ io[c] = << >> /\ arrived[c] = << >>
  BY <1>2 DEF Standing
<1>4. /\ ThreadTypes'
      /\ on'[t] = None /\ at'[t] \notin Working
      /\ \A u \in Thread : u # t => on'[u] = on[u] /\ at'[u] = at[u] /\ arg'[u] = arg[u]
  BY <1>2, ThreadsTyped DEF Returns, ThreadTypes, Working
<1>5. Standing(t)'
  BY <1>4 DEF Standing
<1>6. CASE PostsRequest(t) /\ ~dispatcherCancelled
  <2>1. /\ state[c] = "WaitReply"
        /\ messageList' = messageList \cup {c}
        /\ UNCHANGED <<contextVars, managerVars, kernelVars, dispatcherCancelled, application>>
    BY <1>2, <1>6 DEF PostsRequest, Standing
  <2>2. TypeOK'
    BY <1>2, <1>4, <2>1, TypeParts DEF ContextTypes, KernelTypes, OwnerTypes, contextVars,
       managerVars, kernelVars
  <2>3. Resting(c)'
    BY <1>3, <2>1 DEF Resting, contextVars, managerVars, kernelVars
  <2>4. QED
    BY <1>2, <1>4, <1>5, <2>1, <2>2, <2>3, Local DEF contextVars, managerVars, kernelVars
<1>7. CASE StartsIo(t) /\ Returns(t) /\ io' = Started(t)
  <2>. PICK n \in Nat : n = arg[t]
    BY <1>2 DEF ThreadTypes
  <2>. PICK op \in Operations : op = Operation(n, state[c])
    <3>. PICK b \in BOOLEAN : b = (state[c] = "WriteReply")
      OBVIOUS
    <3>1. [bytes |-> n, write |-> b] \in Operations
      BY DEF Operations
    <3>2. Operation(n, state[c]) = [bytes |-> n, write |-> b]
      BY Zenon DEF Operation
    <3>3. QED
      BY <3>1, <3>2
  <2>1. /\ io' = [io EXCEPT ![c] = Append(@, op)]
        /\ Fits(c, n)
        /\ UNCHANGED <<contextVars, managerVars, socket, closed, arrived, portOpen,
                       dispatcherVars, application>>
    BY <1>2, <1>7 DEF StartsIo, Started, Standing
  <2>2. /\ io'[c] = Append(io[c], op)
        /\ io'[c] \in Seq(Operations)
        /\ io'[c] # << >>
        /\ Len(io'[c]) = 1 /\ io'[c][1] = op
    BY <1>2, <1>3, <2>1, OneAppended DEF KernelTypes
  <2>3. KernelTypes'
    BY <1>2, <2>1, <2>2 DEF KernelTypes
  <2>4. TypeOK'
    BY <1>2, <1>4, <2>1, <2>3, TypeParts DEF ContextTypes, OwnerTypes, contextVars,
       managerVars, dispatcherVars
  <2>5. op.bytes = n /\ (op.write <=> state[c] = "WriteReply")
    BY DEF Operation
  <2>6. Fits(c, n)'
    BY <2>1 DEF Fits, Chunk, contextVars
  <2>7. Resting(c)'
    BY <1>3, <2>1, <2>2, <2>5, <2>6 DEF Resting, contextVars, managerVars, dispatcherVars
  <2>8. \A d \in Context : d # c => io'[d] = io[d]
    BY <1>2, <2>1 DEF KernelTypes
  <2>9. QED
    BY <1>2, <1>4, <1>5, <2>1, <2>4, <2>7, <2>8, Local
       DEF contextVars, managerVars, dispatcherVars
<1>8. CASE RemoveContext(t)
  <2>1. /\ state[c] = "Destroyed"
        /\ contextList' = contextList \ {c}
        /\ ioNeedBytes' = [ioNeedBytes EXCEPT ![c] = 0]
        /\ ioDataOffset' = [ioDataOffset EXCEPT ![c] = 0]
        /\ messageSize' = [messageSize EXCEPT ![c] = 0]
        /\ handshake' = [handshake EXCEPT ![c] = 0]
        /\ socket' = [socket EXCEPT ![c] = FALSE]
        /\ closed' = [closed EXCEPT ![c] = FALSE]
        /\ UNCHANGED <<state, cancelFlag, io, arrived, portOpen, messageList,
                       dispatcherCancelled, application>>
    BY <1>2, <1>8 DEF RemoveContext, Standing, dispatcherVars
  <2>2. ContextTypes' /\ KernelTypes' /\ OwnerTypes'
    BY <1>2, <2>1 DEF ContextTypes, KernelTypes, OwnerTypes
  <2>3. TypeOK'
    BY <1>4, <2>2, TypeParts
  <2>4. Resting(c)'
    BY <1>3, <2>1 DEF Resting
  <2>5. \A d \in Context : d # c =>
           /\ ioNeedBytes'[d] = ioNeedBytes[d]
           /\ ioDataOffset'[d] = ioDataOffset[d] /\ messageSize'[d] = messageSize[d]
    BY <1>2, <2>1 DEF ContextTypes
  <2>6. QED
    BY <1>2, <1>4, <1>5, <2>1, <2>3, <2>4, <2>5, Local
<1>9. QED
  BY <1>6, <1>7, <1>8

\* The second step of Dispose finds no operation to cancel.
LEMMA DestroySteps ==
  ASSUME IInv, NEW t \in Thread, DisposeDestroys(t)
  PROVE  IInv'
<1>1. at[t] = "destroy" /\ at[t] \in Working
  BY DEF DisposeDestroys, Working
<1>. PICK c \in Context : c = on[t]
  BY <1>1, Completed
<1>2. /\ ContextTypes /\ KernelTypes
      /\ c # None
      /\ io[c] = << >> /\ arrived[c] = << >>
  BY <1>1, TypeParts, ThreadAssumption DEF IInv, Standing
<1>3. io' = io
  BY <1>2 DEF DisposeDestroys, KernelTypes
<1>4. arrived' = arrived
  <2> DEFINE cancelled == [i \in 1 .. Len(io[c]) |-> [result |-> "aborted", bytes |-> 0]]
  <2>1. arrived' = [arrived EXCEPT ![c] = arrived[c] \o cancelled]
    BY DEF DisposeDestroys
  <2>2. cancelled = << >>
    <3>1. Len(io[c]) = 0
      BY <1>2, EmptySeq
    <3>2. 1 .. Len(io[c]) = {}
      BY <3>1
    <3>3. QED
      BY <3>2
  <2>3. arrived[c] \o cancelled = << >>
    BY <1>2, <2>2, ConcatEmptySeq, EmptySeq
  <2>4. QED
    BY <1>2, <2>1, <2>3 DEF KernelTypes
<1>5. /\ Moves(t, "remove", 0)
      /\ state' = [state EXCEPT ![c] = "Destroyed"]
      /\ UNCHANGED <<ioNeedBytes, ioDataOffset, messageSize, handshake,
                     managerVars, kernelVars, dispatcherVars, application>>
  BY <1>3, <1>4 DEF DisposeDestroys, kernelVars
<1>6. /\ ContextTypes'
      /\ state'[c] = "Destroyed"
      /\ \A d \in Context : d # c => state'[d] = state[d]
      /\ "remove" \in Working
  BY <1>2, <1>5 DEF ContextTypes, States, Working
<1>7. QED
  BY <1>5, <1>6, Computing

\* A thread without a context takes one: new from the listener, from the port, or from
\* the dispatcher's queue.
LEMMA AcquireSteps ==
  ASSUME IInv, NEW c \in Context,
         \/ \E l \in Listener, h \in Handshakes, s \in {FALSE, SocketPeers} :
              DelegateConnection(l, c, h, s)
         \/ WorkerTakes(c) \/ DispatcherDestroyed(c)
  PROVE  IInv'
<1>1. PICK t \in Thread, place \in Working :
        /\ at[t] \notin Working
        /\ Takes(t, c, place, 0)
        /\ \/ /\ place = "handshake"
              /\ \E h \in Handshakes, s \in {FALSE, SocketPeers} : DelegateConnection(t, c, h, s)
           \/ place = "upstream" /\ WorkerTakes(c)
           \/ place = "dispose" /\ DispatcherDestroyed(c)
  <2>1. CASE \E l \in Listener, h \in Handshakes, s \in {FALSE, SocketPeers} :
               DelegateConnection(l, c, h, s)
    <3>1. PICK l \in Listener : \E h \in Handshakes, s \in {FALSE, SocketPeers} :
                                 DelegateConnection(l, c, h, s)
      BY <2>1
    <3>2. l \in Thread /\ at[l] \notin Working /\ Takes(l, c, "handshake", 0)
      BY <3>1 DEF DelegateConnection, Thread, Working
    <3>3. QED
      BY <3>1, <3>2 DEF Working
  <2>2. CASE WorkerTakes(c)
    <3>1. "worker" \in Thread /\ at["worker"] \notin Working /\ Takes("worker", c, "upstream", 0)
      BY <2>2 DEF WorkerTakes, Thread, Working
    <3>2. QED
      BY <2>2, <3>1 DEF Working
  <2>3. CASE DispatcherDestroyed(c)
    <3>1. "main" \in Thread /\ at["main"] \notin Working /\ Takes("main", c, "dispose", 0)
      BY <2>3 DEF DispatcherDestroyed, Thread, Working
    <3>2. QED
      BY <2>3, <3>1 DEF Working
  <2>4. QED
    BY <2>1, <2>2, <2>3
<1>2. /\ ContextTypes /\ KernelTypes /\ OwnerTypes /\ ThreadTypes
      /\ c # None /\ on[t] = None
      /\ Resting(c)
      /\ \A u \in Thread : Standing(u)
  BY <1>1, TypeParts, ThreadAssumption DEF IInv, Standing
<1>3. /\ ThreadTypes'
      /\ on'[t] = c /\ at'[t] = place /\ arg'[t] = 0
      /\ \A u \in Thread : u # t => on'[u] = on[u] /\ at'[u] = at[u] /\ arg'[u] = arg[u]
  BY <1>1, <1>2, ThreadsTyped DEF Takes, ThreadTypes
<1>4. CASE \E h \in Handshakes, s \in {FALSE, SocketPeers} : DelegateConnection(t, c, h, s)
  <2>. PICK h \in Handshakes, s \in BOOLEAN : DelegateConnection(t, c, h, s)
    BY <1>4, SizeAssumption
  <2>1. /\ c \notin contextList /\ c \notin messageList
        /\ \A u \in Thread : on[u] # c
        /\ state' = [state EXCEPT ![c] = "Handshake"]
        /\ handshake' = [handshake EXCEPT ![c] = h]
        /\ socket' = [socket EXCEPT ![c] = s]
        /\ closed' = [closed EXCEPT ![c] = FALSE]
        /\ contextList' = contextList \cup {c}
        /\ UNCHANGED <<ioNeedBytes, ioDataOffset, messageSize, cancelFlag, io, arrived, portOpen,
                       messageList, dispatcherCancelled, application>>
    BY DEF DelegateConnection, Unreferenced, dispatcherVars
  <2>2. place = "handshake"
    BY <1>1, <2>1 DEF WorkerTakes, DispatcherDestroyed
  <2>3. h \in Nat
    BY SizeAssumption
  <2>4. ContextTypes' /\ KernelTypes' /\ OwnerTypes'
    BY <1>2, <2>1, <2>3 DEF ContextTypes, KernelTypes, OwnerTypes, States
  <2>5. TypeOK'
    BY <1>3, <2>4, TypeParts
  <2>6. /\ state'[c] = "Handshake"
        /\ \A d \in Context : d # c => state'[d] = state[d]
    BY <1>2, <2>1 DEF ContextTypes
  <2>7. io[c] = << >> /\ arrived[c] = << >>
    BY <1>2, <2>1 DEF Resting
  <2>8. Standing(t)'
    BY <1>2, <1>3, <2>1, <2>2, <2>6, <2>7 DEF Standing, Working
  <2>9. Resting(c)'
    BY <1>3, <2>1, <2>7 DEF Resting
  <2>10. QED
    BY <1>2, <1>3, <2>1, <2>5, <2>6, <2>8, <2>9, Local
<1>5. CASE WorkerTakes(c) \/ DispatcherDestroyed(c)
  <2>1. /\ c \in messageList
        /\ messageList' = messageList \ {c}
        /\ UNCHANGED <<contextVars, managerVars, kernelVars, dispatcherCancelled, application>>
    BY <1>5 DEF WorkerTakes, DispatcherDestroyed
  <2>2. /\ state[c] = "WaitReply" /\ io[c] = << >> /\ arrived[c] = << >>
        /\ c \in contextList
    BY <1>2, <2>1 DEF Resting
  <2>3. \A u \in Thread : on[u] # c
    BY <1>2, <2>1 DEF Standing
  <2>4. place \in {"upstream", "dispose"}
    BY <1>1, <2>2 DEF DelegateConnection, Unreferenced
  <2>5. TypeOK'
    BY <1>2, <1>3, <2>1, TypeParts DEF ContextTypes, KernelTypes, OwnerTypes, contextVars,
       managerVars, kernelVars
  <2>6. Standing(t)'
    BY <1>2, <1>3, <2>1, <2>2, <2>4 DEF Standing, Working, contextVars, managerVars, kernelVars
  <2>7. Resting(c)'
    BY <1>3, <2>1, <2>2 DEF Resting, contextVars, managerVars, kernelVars
  <2>8. QED
    BY <1>2, <1>3, <2>1, <2>3, <2>5, <2>6, <2>7, Local DEF contextVars, managerVars, kernelVars
<1>6. QED
  BY <1>1, <1>4, <1>5

\* The port thread takes a packet.  None says that an operation was cancelled.
LEMMA DequeueSteps ==
  ASSUME IInv, NEW c \in Context, Dequeues(c)
  PROVE  IInv'
<1>1. /\ "iocp" \in Thread /\ at["iocp"] \notin Working
      /\ {"complete", "dispose"} \subseteq Working
      /\ arrived[c] # << >>
  BY DEF Dequeues, Thread, Working
<1>2. /\ ContextTypes /\ KernelTypes /\ OwnerTypes /\ ThreadTypes
      /\ c # None /\ on["iocp"] = None
      /\ Resting(c)
      /\ \A u \in Thread : Standing(u)
  BY <1>1, TypeParts, ThreadAssumption DEF IInv, Standing
<1>3. /\ arrived[c] \in Seq(Packets)
      /\ Tail(arrived[c]) = << >>
      /\ Head(arrived[c]) = arrived[c][1]
      /\ arrived[c][1] \in Packets
  <2>1. arrived[c] \in Seq(Packets) /\ Len(arrived[c]) = 1
    BY <1>1, <1>2 DEF KernelTypes, Resting
  <2>2. QED
    BY <1>1, <2>1, OneTaken
<1>. PICK p \in Packets : p = arrived[c][1]
  BY <1>3
<1>4. /\ p.result \in {"transferred", "failed"} /\ p.bytes \in Nat
      /\ p.result = "transferred" => Fits(c, p.bytes)
      /\ state[c] \in {"Handshake", "ReadHeader", "ReadBody", "WriteReply"}
      /\ io[c] = << >> /\ c \in contextList /\ c \notin messageList
  BY <1>1, <1>2, <1>3 DEF Resting, Packets
<1>5. /\ \A u \in Thread : on[u] # c
  BY <1>1, <1>2 DEF Standing
<1>6. /\ arrived' = [arrived EXCEPT ![c] = << >>]
      /\ UNCHANGED <<contextVars, managerVars, socket, closed, io, portOpen, dispatcherVars,
                     application>>
      /\ \/ p.result = "transferred" /\ Takes("iocp", c, "complete", p.bytes)
         \/ p.result = "failed" /\ Takes("iocp", c, "dispose", 0)
  BY <1>2, <1>3, <1>4 DEF Dequeues, FailureDisposes, KernelTypes
<1>7. PICK place \in Working, n \in Nat :
        /\ Takes("iocp", c, place, n)
        /\ \/ place = "complete" /\ Fits(c, n)
           \/ place = "dispose"
  BY <1>1, <1>4, <1>6
<1>8. /\ ThreadTypes'
      /\ on'["iocp"] = c /\ at'["iocp"] = place /\ arg'["iocp"] = n
      /\ \A u \in Thread : u # "iocp" => on'[u] = on[u] /\ at'[u] = at[u] /\ arg'[u] = arg[u]
  BY <1>1, <1>2, <1>7, ThreadsTyped DEF Takes, ThreadTypes
<1>9. /\ arrived'[c] = << >> /\ arrived' \in [Context -> Seq(Packets)]
      /\ \A d \in Context : d # c => arrived'[d] = arrived[d]
  BY <1>2, <1>6, EmptySeq DEF KernelTypes
<1>10. TypeOK'
  BY <1>2, <1>6, <1>8, <1>9, TypeParts DEF ContextTypes, KernelTypes, OwnerTypes, contextVars,
     managerVars, dispatcherVars
<1>11. Fits(c, n) => Fits(c, n)'
  BY <1>6 DEF Fits, Chunk, contextVars
<1>12. Standing("iocp")'
  BY <1>1, <1>2, <1>4, <1>6, <1>7, <1>8, <1>9, <1>11
     DEF Standing, Working, contextVars, managerVars, dispatcherVars
<1>13. Resting(c)'
  BY <1>1, <1>4, <1>6, <1>8, <1>9 DEF Resting, contextVars, managerVars, dispatcherVars
<1>14. QED
  BY <1>1, <1>2, <1>5, <1>6, <1>8, <1>9, <1>10, <1>12, <1>13, Local
     DEF contextVars, managerVars, dispatcherVars

\* The kernel turns the operation into the packet that reports it.
LEMMA KernelSteps ==
  ASSUME IInv, NEW c \in Context, NEW n \in Nat, NEW r \in {"transferred", "failed"},
         KernelCompletes(c, n, r)
  PROVE  IInv'
<1>1. /\ ContextTypes /\ KernelTypes /\ OwnerTypes /\ ThreadTypes
      /\ Resting(c)
      /\ \A u \in Thread : Standing(u)
      /\ io[c] # << >>
  BY TypeParts DEF IInv, KernelCompletes
<1>2. /\ Len(io[c]) = 1 /\ arrived[c] = << >> /\ c \in contextList /\ c \notin messageList
      /\ Fits(c, io[c][1].bytes)
      /\ io[c][1].write <=> state[c] = "WriteReply"
  BY <1>1 DEF Resting
<1>3. /\ Tail(io[c]) = << >>
      /\ Head(io[c]) = io[c][1]
      /\ io[c][1] \in Operations
  <2>1. io[c] \in Seq(Operations)
    BY <1>1 DEF KernelTypes
  <2>2. QED
    BY <1>1, <1>2, <2>1, OneTaken
<1>. PICK op \in Operations : op = io[c][1]
  BY <1>3
<1>. PICK p \in Packets : p = Packet(n, r)
  BY DEF Packet, Packets
<1>4. p.result = r /\ p.bytes = n
  BY DEF Packet
<1>5. /\ io' = [io EXCEPT ![c] = << >>]
      /\ arrived' = [arrived EXCEPT ![c] = Append(arrived[c], p)]
      /\ UNCHANGED <<contextVars, managerVars, socket, closed, portOpen, dispatcherVars,
                     threadVars, application>>
      /\ r = "transferred" => IF op.write THEN n = op.bytes ELSE n <= op.bytes
  <2>1. /\ io' = [io EXCEPT ![c] = << >>]
        /\ arrived' = [arrived EXCEPT ![c] = Append(arrived[c], p)]
        /\ UNCHANGED <<contextVars, managerVars, socket, closed, portOpen, dispatcherVars,
                       threadVars, application>>
    BY <1>3 DEF KernelCompletes
  <2>2. /\ op.bytes \in Nat
        /\ \/ /\ r = "transferred"
              /\ IF op.write THEN n = op.bytes ELSE n <= op.bytes
           \/ /\ n = 0
              /\ r = IF socket[c] /\ ~op.write THEN "transferred" ELSE "failed"
    BY <1>3 DEF KernelCompletes, Operations
  <2>3. QED
    BY <2>1, <2>2
<1>6. /\ Append(arrived[c], p) \in Seq(Packets)
      /\ Len(Append(arrived[c], p)) = 1
      /\ Append(arrived[c], p)[1] = p
  BY <1>1, <1>2, OneAppended DEF KernelTypes
<1>7. /\ io'[c] = << >> /\ arrived'[c] = Append(arrived[c], p)
      /\ io' \in [Context -> Seq(Operations)] /\ arrived' \in [Context -> Seq(Packets)]
      /\ \A d \in Context : d # c => io'[d] = io[d] /\ arrived'[d] = arrived[d]
  BY <1>1, <1>5, <1>6, EmptySeq DEF KernelTypes
<1>8. TypeOK'
  BY <1>1, <1>5, <1>7, TypeParts DEF ContextTypes, KernelTypes, OwnerTypes, ThreadTypes,
     contextVars, managerVars, dispatcherVars, threadVars
<1>9. Alone'
  BY <1>5 DEF IInv, Alone, threadVars
<1>10. \A d \in Context, k \in Nat : Fits(d, k) => Fits(d, k)'
  BY <1>5 DEF Fits, Chunk, contextVars
<1>11. ASSUME NEW t \in Thread PROVE Standing(t)'
  <2>1. Standing(t) /\ on[t] \in Context \cup {None} /\ arg[t] \in Nat
    BY <1>1 DEF ThreadTypes
  <2>2. on[t] # c
    BY <1>1, <2>1, ThreadAssumption DEF Standing
  <2>3. on' = on /\ at' = at /\ arg' = arg
    BY <1>5 DEF threadVars
  <2>4. CASE on[t] = None
    BY <2>1, <2>3, <2>4 DEF Standing
  <2>5. CASE on[t] # None
    BY <1>5, <1>7, <1>10, <2>1, <2>2, <2>3, <2>5
       DEF Standing, contextVars, managerVars, dispatcherVars
  <2>6. QED
    BY <2>4, <2>5
<1>12. ASSUME NEW d \in Context, d # c PROVE Resting(d)'
  <2>1. Resting(d)
    BY DEF IInv
  <2>2. \A k : Fits(d, k) => Fits(d, k)'
    BY <1>5 DEF Fits, Chunk, contextVars
  <2>3. QED
    BY <1>5, <1>7, <1>12, <2>1, <2>2
       DEF Resting, contextVars, managerVars, dispatcherVars, threadVars
<1>13. Resting(c)'
  <2>1. r = "transferred" => Fits(c, n)
    <3>1. op.bytes \in Nat /\ op.write \in BOOLEAN
      BY DEF Operations
    <3>2. ioNeedBytes[c] \in Nat
      BY <1>1 DEF ContextTypes
    <3>3. QED
      BY <1>2, <1>5, <3>1, <3>2 DEF Fits
  <2>2. r = "transferred" => Fits(c, n)'
    BY <1>10, <2>1
  <2>3. state[c] \in {"Handshake", "ReadHeader", "ReadBody", "WriteReply"}
    BY <1>2 DEF Fits
  <2>4. arrived'[c][1] = p /\ Len(arrived'[c]) = 1 /\ arrived'[c] # << >>
    BY <1>6, <1>7, EmptySeq
  <2>5. state' = state /\ contextList' = contextList /\ messageList' = messageList
    BY <1>5 DEF contextVars, managerVars, dispatcherVars
  <2>6. QED
    BY <1>2, <1>4, <1>7, <2>2, <2>3, <2>4, <2>5 DEF Resting
<1>14. QED
  BY <1>8, <1>9, <1>11, <1>12, <1>13 DEF IInv

\* A peer that closes its end keeps the invariant.
LEMMA CloseSteps ==
  ASSUME IInv, NEW c \in Context, PeerCloses(c)
  PROVE  IInv'
<1>1. ContextTypes /\ KernelTypes /\ OwnerTypes /\ ThreadTypes
  BY TypeParts DEF IInv
<1>2. /\ closed' = [closed EXCEPT ![c] = TRUE]
      /\ UNCHANGED <<contextVars, managerVars, socket, io, arrived, portOpen,
                     dispatcherVars, threadVars, application>>
  BY DEF PeerCloses
<1>3. TypeOK'
  BY <1>1, <1>2, TypeParts DEF ContextTypes, KernelTypes, OwnerTypes, ThreadTypes,
     contextVars, managerVars, dispatcherVars, threadVars
<1>4. Alone'
  BY <1>2 DEF IInv, Alone, threadVars
<1>5. ASSUME NEW t \in Thread PROVE Standing(t)'
  BY <1>2 DEF IInv, Standing, Fits, Chunk, contextVars, managerVars, dispatcherVars, threadVars
<1>6. ASSUME NEW d \in Context PROVE Resting(d)'
  <2>1. Resting(d)
    BY DEF IInv
  <2>2. QED
    BY <1>2, <2>1 DEF Resting, Fits, Chunk, contextVars, managerVars, dispatcherVars, threadVars
<1>7. QED
  BY <1>3, <1>4, <1>5, <1>6 DEF IInv

\* The invariant is kept by every step.
LEMMA NextSteps == IInv /\ [Next]_vars => IInv'
<1> SUFFICES ASSUME IInv, [Next]_vars PROVE IInv'
  OBVIOUS
<1>1. CASE \E l \in Listener, c \in Context, h \in Handshakes, s \in {FALSE, SocketPeers} :
             DelegateConnection(l, c, h, s)
  BY <1>1, AcquireSteps
<1>2. CASE \E l \in Listener : Listens(l) \/ ListenLoopEnds(l)
  BY <1>2, IdleSteps
<1>3. ASSUME NEW t \in Thread, DoIoCompletion(t) PROVE IInv'
  <2>1. CASE Rejects(t) \/ HandshakeContinues(t) \/ ReadsHeader(t) \/ GetsBody(t)
               \/ WritesReply(t) \/ WritesMore(t)
    <3>1. 0 \in Nat
      OBVIOUS
    <3>2. QED
      BY <2>1, <3>1, CompletionSteps
  <2>2. CASE \E m \in Announced : GetsHeader(t, m)
    BY <2>2, CompletionSteps, SizeAssumption
  <2>3. CASE PostsRequest(t)
    <3>1. CASE dispatcherCancelled
      BY <2>3, <3>1, PlaceSteps
    <3>2. CASE ~dispatcherCancelled
      BY <2>3, <3>2, ReleaseSteps
    <3>3. QED
      BY <3>1, <3>2
  <2>4. CASE StartsIo(t)
    <3>1. \/ Moves(t, "dispose", 0) /\ UNCHANGED io
          \/ Returns(t) /\ io' = Started(t)
      BY <2>4 DEF StartsIo, Submits
    <3>2. QED
      BY <2>4, <3>1, PlaceSteps, ReleaseSteps
  <2>5. QED
    BY <1>3, <2>1, <2>2, <2>3, <2>4 DEF DoIoCompletion
<1>4. ASSUME NEW t \in Thread, Dispose(t) PROVE IInv'
  BY <1>4, PlaceSteps, DestroySteps, ReleaseSteps DEF Dispose
<1>5. CASE Iocp
  BY <1>5, IdleSteps, DequeueSteps DEF Iocp
<1>6. CASE Worker
  <2>1. "worker" \in Thread
    BY DEF Thread
  <2>2. QED
    BY <1>6, <2>1, IdleSteps, AcquireSteps, PlaceSteps DEF Worker
<1>7. ASSUME NEW c \in Context, Kernel(c) \/ PeerCloses(c) PROVE IInv'
  <2>1. CASE Kernel(c)
    <3>1. PICK n \in Nat, r \in {"transferred", "failed"} : KernelCompletes(c, n, r)
      BY <2>1, SizeAssumption DEF Kernel
    <3>2. QED
      BY <3>1, KernelSteps
  <2>2. CASE PeerCloses(c)
    BY <2>2, CloseSteps
  <2>3. QED
    BY <1>7, <2>1, <2>2
<1>8. CASE Main
  BY <1>8, IdleSteps, AcquireSteps DEF Main
<1>9. CASE Terminated \/ UNCHANGED vars
  BY <1>9, IdleSteps
<1>10. QED
  BY <1>1, <1>2, <1>3, <1>4, <1>5, <1>6, <1>7, <1>8, <1>9 DEF Next

\* In every reachable state each thread has its context for itself, and each context has
\* what its state and its holder call for.
THEOREM Invariance == Spec => []IInv
<1>1. Init => IInv
  BY Initially
<1>2. IInv /\ [Next]_vars => IInv'
  BY NextSteps
<1>3. QED
  BY <1>1, <1>2, PTL DEF Spec

----------------------------------------------------------------------------
(* What follows from IInv. *)

\* The type invariant; in particular no subtraction of ioNeedBytes ever yields less than 0.
THEOREM TypeCorrect == Spec => []TypeOK
<1>1. IInv => TypeOK
  BY DEF IInv
<1>2. QED
  BY <1>1, Invariance, PTL

\* A connection in the list has exactly one thing going on, one that is not has nothing:
\* no two threads meet in a context, none is forgotten, none is freed too early.
THEOREM ContextsHaveOnePlace == Spec => []OnePlace
<1>1. ASSUME IInv, NEW c \in Context
      PROVE  /\ c \in contextList => \E p \in Places(c) : Places(c) = {p}
             /\ c \notin contextList => Places(c) = {}
  <2>1. /\ Resting(c)
        /\ c # None
        /\ \A t \in Thread : on[t] = c =>
             /\ c \in contextList /\ c \notin messageList /\ io[c] = << >> /\ arrived[c] = << >>
    BY <1>1, ThreadAssumption DEF IInv, Standing
  <2>2. /\ io[c] = << >> => DOMAIN io[c] = {}
        /\ Len(io[c]) = 1 => DOMAIN io[c] = {1}
        /\ arrived[c] = << >> => DOMAIN arrived[c] = {}
        /\ Len(arrived[c]) = 1 => DOMAIN arrived[c] = {1}
    <3>1. io[c] \in Seq(Operations) /\ arrived[c] \in Seq(Packets)
      BY <1>1, TypeParts DEF IInv, KernelTypes
    <3>2. DOMAIN io[c] = 1 .. Len(io[c]) /\ DOMAIN arrived[c] = 1 .. Len(arrived[c])
      BY <3>1, LenProperties
    <3>3. 1 .. 1 = {1} /\ 1 .. 0 = {}
      OBVIOUS
    <3>4. QED
      BY <3>2, <3>3, EmptySeq
  <2>3. CASE c \notin contextList
    BY <2>1, <2>2, <2>3 DEF Places, Resting
  <2>4. CASE \E t \in Thread : on[t] = c
    <3>1. PICK t \in Thread : on[t] = c
      BY <2>4
    <3>2. {u \in Thread : on[u] = c} = {t}
      BY <1>1, <2>1, <3>1 DEF IInv, Alone
    <3>3. Places(c) = {<<"thread", t>>}
      BY <2>1, <2>2, <3>1, <3>2 DEF Places
    <3>4. QED
      BY <2>1, <3>1, <3>3
  <2>5. CASE c \in messageList
    <3>1. Places(c) = {<<"dispatcher", c>>}
      BY <2>1, <2>2, <2>5 DEF Places, Resting
    <3>2. QED
      BY <2>1, <2>5, <3>1 DEF Resting
  <2>6. CASE io[c] # << >>
    <3>1. DOMAIN io[c] = {1} /\ DOMAIN arrived[c] = {}
      BY <2>1, <2>2, <2>6 DEF Resting
    <3>2. Places(c) = {<<"kernel", 1>>}
      BY <2>1, <2>6, <3>1 DEF Places, Resting
    <3>3. QED
      BY <2>1, <2>6, <3>2 DEF Resting
  <2>7. CASE arrived[c] # << >>
    <3>1. DOMAIN arrived[c] = {1} /\ DOMAIN io[c] = {}
      BY <2>1, <2>2, <2>7 DEF Resting
    <3>2. Places(c) = {<<"port", 1>>}
      BY <2>1, <2>7, <3>1 DEF Places, Resting
    <3>3. QED
      BY <2>1, <2>7, <3>2 DEF Resting
  <2>8. QED
    BY <2>1, <2>3, <2>4, <2>5, <2>6, <2>7 DEF Resting
<1>2. IInv => OnePlace
  BY <1>1 DEF OnePlace
<1>3. QED
  BY <1>2, Invariance, PTL

\* A message is with the dispatcher exactly while its connection waits for the reply.
THEOREM RepliesFindTheirConnection == Spec => []RepliesAreAwaited
<1>1. ASSUME IInv PROVE RepliesAreAwaited
  <2>1. \A c \in messageList : state[c] = "WaitReply"
    BY <1>1 DEF IInv, Resting, TypeOK
  <2>2. ASSUME NEW t \in Thread, at[t] \in {"post", "upstream"} PROVE state[on[t]] = "WaitReply"
    BY <1>1, <2>2 DEF IInv, Standing, Working
  <2>3. ASSUME NEW c \in Context, state[c] = "WaitReply"
        PROVE  \/ c \in messageList
               \/ \E t \in Thread : on[t] = c /\ at[t] \in {"post", "upstream", "complete",
                                                          "dispose", "destroy"}
    <3>1. Resting(c) /\ c # None
      BY <1>1, ThreadAssumption DEF IInv
    <3>2. CASE c \in messageList
      BY <3>2
    <3>3. ASSUME NEW t \in Thread, on[t] = c
          PROVE  at[t] \in {"post", "upstream", "complete", "dispose", "destroy"}
      BY <1>1, <2>3, <3>1, <3>3 DEF IInv, Standing, Working, Fits
    <3>4. QED
      BY <2>3, <3>1, <3>2, <3>3 DEF Resting, Fits
  <2>4. QED
    BY <2>1, <2>2, <2>3 DEF RepliesAreAwaited
<1>2. QED
  BY <1>1, Invariance, PTL

\* The chunk under way continues where the last one ended and stays within the reply.
THEOREM RepliesAreCopiedInOrder == Spec => []ChunksLineUp
<1>1. ASSUME IInv, NEW c \in Context, state[c] = "WriteReply"
      PROVE  /\ \A t \in Thread : on[t] = c /\ at[t] \in {"start", "complete"} => Chunk(c, arg[t])
             /\ \A i \in DOMAIN io[c] : Chunk(c, io[c][i].bytes)
             /\ \A i \in DOMAIN arrived[c] :
                  arrived[c][i].result = "transferred" => Chunk(c, arrived[c][i].bytes)
  <2>1. Resting(c) /\ c # None
    BY <1>1, ThreadAssumption DEF IInv
  <2>2. \A t \in Thread : on[t] = c /\ at[t] \in {"start", "complete"} => Chunk(c, arg[t])
    BY <1>1, <2>1 DEF IInv, Standing, Fits
  <2>3. io[c] \in Seq(Operations) /\ arrived[c] \in Seq(Packets)
    BY <1>1, TypeParts DEF IInv, KernelTypes
  <2>4. ASSUME NEW i \in DOMAIN io[c] PROVE Chunk(c, io[c][i].bytes)
    <3>1. io[c] # << >>
      BY <2>3, <2>4, EmptySeq
    <3>2. i = 1
      BY <2>1, <2>3, <2>4, <3>1, LenProperties DEF Resting
    <3>3. QED
      BY <1>1, <2>1, <3>1, <3>2 DEF Resting, Fits
  <2>5. ASSUME NEW i \in DOMAIN arrived[c], arrived[c][i].result = "transferred"
        PROVE  Chunk(c, arrived[c][i].bytes)
    <3>1. arrived[c] # << >>
      BY <2>3, <2>5, EmptySeq
    <3>2. i = 1
      BY <2>1, <2>3, <2>5, <3>1, LenProperties DEF Resting
    <3>3. QED
      BY <1>1, <2>1, <2>5, <3>1, <3>2 DEF Resting, Fits
  <2>6. QED
    BY <2>2, <2>4, <2>5
<1>2. IInv => ChunksLineUp
  BY <1>1 DEF ChunksLineUp
<1>3. QED
  BY <1>2, Invariance, PTL

\* A step changes the state of one context at most, and only WritesMore makes it Ready.
LEMMA StateAssigned ==
  ASSUME [Next]_vars, ~\E t \in Thread : WritesMore(t)
  PROVE  \/ UNCHANGED state
         \/ \E d, v : v # "Ready" /\ state' = [state EXCEPT ![d] = v]
<1>1. CASE \E l \in Listener, c \in Context, h \in Handshakes, s \in {FALSE, SocketPeers} :
             DelegateConnection(l, c, h, s)
  BY <1>1 DEF DelegateConnection
<1>2. CASE \E l \in Listener : Listens(l) \/ ListenLoopEnds(l)
  BY <1>2 DEF Listens, ListenLoopEnds, contextVars
<1>3. CASE \E t \in Thread : DoIoCompletion(t)
  <2>1. PICK t \in Thread : DoIoCompletion(t)
    BY <1>3
  <2>2. CASE Rejects(t) \/ HandshakeContinues(t) \/ PostsRequest(t) \/ StartsIo(t)
    BY <2>2 DEF Rejects, HandshakeContinues, PostsRequest, StartsIo, contextVars
  <2>3. CASE ReadsHeader(t) \/ WritesReply(t)
    BY <2>3 DEF ReadsHeader, WritesReply
  <2>4. CASE (\E m \in Announced : GetsHeader(t, m)) \/ GetsBody(t)
    BY <2>4 DEF GetsHeader, GetsBody, PassesOn
  <2>5. QED
    BY <2>1, <2>2, <2>3, <2>4 DEF DoIoCompletion
<1>4. CASE \E t \in Thread : Dispose(t)
  BY <1>4 DEF Dispose, DisposeTests, DisposeDestroys, RemoveContext, contextVars
<1>5. CASE Iocp \/ Worker
  BY <1>5 DEF Iocp, Waits, PortAbandoned, Dequeues, Worker, WorkerEnds, WorkerTakes,
     PostMessageReply, contextVars
<1>6. CASE \E c \in Context : Kernel(c) \/ PeerCloses(c)
  BY <1>6 DEF Kernel, KernelCompletes, PeerCloses, contextVars
<1>7. CASE Main
  BY <1>7 DEF Main, DispatcherStops, WorkerJoined, ListenersJoined, ManagerClosesPort,
     IocpJoined, DispatcherDestroyed, contextVars
<1>8. CASE Terminated \/ UNCHANGED vars
  BY <1>8 DEF Terminated, vars, contextVars
<1>9. QED
  BY <1>1, <1>2, <1>3, <1>4, <1>5, <1>6, <1>7, <1>8 DEF Next

\* A connection reads requests again only when its reply was written to the last byte.
THEOREM RepliesAreWrittenWhole == Spec => RepliesAreWhole
<1>1. ASSUME IInv, [Next]_vars, NEW c \in Context, state[c] = "WriteReply", state'[c] = "Ready"
      PROVE  ioDataOffset[c] = messageSize[c] /\ ioNeedBytes'[c] = 0
  <2>1. ContextTypes /\ ThreadTypes
    BY <1>1, TypeParts DEF IInv
  <2>2. PICK t \in Thread : WritesMore(t)
    BY <1>1, <2>1, StateAssigned DEF ContextTypes
  <2>3. at[t] \in {"handshake", "complete"} /\ state[on[t]] = "WriteReply"
    BY <2>2 DEF WritesMore, Completing
  <2>. PICK d \in Context : d = on[t]
    BY <1>1, <2>3, Completed DEF Working
  <2>4. at[t] = "complete" /\ Fits(d, arg[t]) /\ Left(t) \in Nat
    <3>1. at[t] = "complete"
      BY <1>1, <2>3, ThreadAssumption DEF IInv, Standing
    <3>2. QED
      BY <1>1, <2>3, <3>1, Completed DEF Working
  <2>5. CASE Left(t) > 0
    BY <1>1, <2>2, <2>5 DEF WritesMore
  <2>6. CASE ~(Left(t) > 0)
    <3>1. /\ state' = [state EXCEPT ![d] = "Ready"]
          /\ ioNeedBytes' = [ioNeedBytes EXCEPT ![d] = Left(t)]
      BY <2>2, <2>6 DEF WritesMore
    <3>2. d = c /\ ioNeedBytes'[c] = Left(t) /\ Left(t) = 0
      BY <1>1, <2>1, <2>4, <2>6, <3>1 DEF ContextTypes
    <3>3. arg[t] = ioNeedBytes[c] /\ Chunk(c, arg[t])
      BY <1>1, <2>1, <2>4, <3>2 DEF Left, Fits, ContextTypes, ThreadTypes
    <3>4. ioDataOffset[c] = messageSize[c]
      BY <2>1, <3>3, SizeAssumption DEF Chunk, ContextTypes
    <3>5. QED
      BY <3>2, <3>4
  <2>7. QED
    BY <2>5, <2>6
<1> DEFINE Whole == \A c \in Context : state[c] = "WriteReply" /\ state'[c] = "Ready" =>
                      ioDataOffset[c] = messageSize[c] /\ ioNeedBytes'[c] = 0
<1>2. IInv /\ [Next]_vars => [Whole]_vars
  BY <1>1
<1>3. QED
  BY <1>2, Invariance, PTL DEF Spec, RepliesAreWhole
=============================================================================
