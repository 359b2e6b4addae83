----------------------- MODULE ForwardManager_proofs ------------------------
(***************************************************************************)
(* Proofs about ForwardManager, for every set of connections and of        *)
(* listener threads, every size of the buffers and any number of exchanges *)
(* in the handshake.                                                       *)
(*                                                                         *)
(* A connection is Sound.  A direction of it has one bearer at a time: the *)
(* operation under way (Course), a packet of the port (Queued) or a thread *)
(* that works on it (Staffed).  The bearer knows how far the stream of its *)
(* direction has come (Flow), and a connection without bearers does        *)
(* nothing any more (Ending).                                              *)
(***************************************************************************)
EXTENDS ForwardManager, TLAPS, SequenceTheorems

\* The types, where needTransfer may be negative: that it never is follows from Flow.
Place == {"idle", "delegated", "complete", "again", "loop", "established",
          "dispose", "disposeLast", "raced", "exited"}
Packet == [dir : End, result : {"transferred", "failed", "aborted"}, bytes : Nat]

ContextTypes ==
  /\ contextState \in [Context -> {"Initialized", "HandShake", "Established", "Destroyed"}]
  /\ state \in [Context -> [End -> {"Initialized", "Ready", "Read", "Write", "Shutdown"}]]
  /\ buffer \in [Context -> [End -> Seq(Nat)]]
  /\ needTransfer \in [Context -> [End -> Int]]
  /\ bufferOffset \in [Context -> [End -> Nat]]
  /\ handshake \in [Context -> Nat]
  /\ targets \in [Context -> Nat]

OtherTypes ==
  /\ contextList \in SUBSET Context
  /\ cancelFlag \in BOOLEAN
  /\ io \in [Context -> [End -> {"none", "nonce", "read", "write"}]]
  /\ cancelled \in [Context -> BOOLEAN]
  /\ port \in [Context -> Seq(Packet)]

EndTypes ==
  /\ sent \in [Context -> [End -> Nat]]
  /\ taken \in [Context -> [End -> Nat]]
  /\ received \in [Context -> [End -> Seq(Nat)]]
  /\ ended \in [Context -> [End -> BOOLEAN]]
  /\ gone \in [Context -> [End -> BOOLEAN]]
  /\ told \in [Context -> [End -> BOOLEAN]]

ThreadTypes ==
  /\ at \in [Thread -> Place]
  /\ on \in [Thread -> Context \cup {None}]
  /\ arg \in [Thread -> [dir : End, bytes : Nat]]

Types == ContextTypes /\ OtherTypes /\ EndTypes /\ ThreadTypes

\* Thread t is about to do something for direction i of its context.
Works(t, i) ==
  \/ at[t] = "delegated"
  \/ at[t] = "loop" /\ arg[t].dir <= i
  \/ at[t] \in {"complete", "again"} /\ arg[t].dir = i

Packets(c) == 1 .. Len(port[c])

Gone(c) == \E i \in End : gone[c][i]

\* Where thread t stands on context c: a direction that it works on has no other bearer.
Standing(t, c) ==
  /\ at[t] = "complete" =>
       /\ state[c][arg[t].dir] \in {"Initialized", "Read", "Write"}
       /\ state[c][arg[t].dir] = "Initialized" => arg[t].dir = 0
  /\ at[t] = "delegated" => targets[c] = 0
  /\ \A i \in End : Works(t, i) =>
       /\ io[c][i] = "none"
       /\ \A k \in Packets(c) : port[c][k].dir # i
       /\ \A u \in Thread : on[u] = c /\ Works(u, i) => u = t
       /\ at[t] \in {"loop", "again"} => state[c][i] = "Ready"

\* The threads of context c.
Staffed(c) ==
  /\ \A t \in Thread : on[t] = c => Standing(t, c)
  /\ (\E t \in Thread : on[t] = c) =>
       contextState[c] # "Initialized" /\ (contextState[c] = "Established" => c \in contextList)

\* The thread that delegated or prepared c is still on it.
Starting(c) == \E t \in Thread :
  on[t] = c /\ at[t] \in {"loop", "established", "dispose", "disposeLast"}

\* The course of a context, and that of its two directions.
Course(c) ==
  /\ contextState[c] = "Initialized" => c \notin contextList /\ targets[c] = 0 /\ port[c] = << >>
  /\ contextState[c] = "HandShake" => c \in contextList /\ (Starting(c) \/ targets[c] = 0)
  /\ contextState[c] = "Destroyed" => c \notin contextList
  /\ cancelled[c] <=> contextState[c] # "Initialized" /\ c \notin contextList
  /\ \A i \in End :
       /\ targets[c] = 0 <=> state[c][i] = "Initialized"
       /\ told[c][i] => targets[c] > 0
       /\ state[c][i] = "Shutdown" => told[c][PeerOf(i)]
       /\ contextState[c] = "Initialized" => io[c][i] = "none"
       /\ io[c][i] = "nonce" => state[c][i] = "Initialized" /\ i = 0
       /\ io[c][i] = "read" => state[c][i] = "Read"
       /\ io[c][i] = "write" => state[c][i] = "Write"

\* The packets of c: one at most for a direction, which has no operation then.
Queued(c) ==
  /\ \A j, k \in Packets(c) : port[c][j].dir = port[c][k].dir => j = k
  /\ \A k \in Packets(c) :
       /\ io[c][port[c][k].dir] = "none"
       /\ state[c][port[c][k].dir] \in {"Initialized", "Read", "Write"}
       /\ state[c][port[c][k].dir] = "Initialized" => port[c][k].dir = 0
       /\ port[c][k].result = "failed" => Gone(c)

\* The first n bytes of a stream.
First(n) == [k \in 1..n |-> k]

\* The peer of end i has received the first n bytes of its stream, and nothing else.
Given(c, i, n) == n \in Nat /\ received[c][PeerOf(i)] = First(n)

\* The buffer of direction i holds the last bytes that were taken from end i.
Holds(c, i) ==
  /\ Len(buffer[c][i]) <= taken[c][i]
  /\ \A k \in 1 .. Len(buffer[c][i]) : buffer[c][i][k] = taken[c][i] - Len(buffer[c][i]) + k

\* needTransfer bytes of the buffer, from bufferOffset on, were not written by the last
\* operations; n of them are by the one that is under way.
Writing(c, i, n) ==
  /\ Holds(c, i)
  /\ needTransfer[c][i] \in 1 .. Len(buffer[c][i])
  /\ bufferOffset[c][i] = Len(buffer[c][i]) - needTransfer[c][i]
  /\ n \in 0 .. needTransfer[c][i]
  /\ Given(c, i, taken[c][i] - needTransfer[c][i] + n)

\* What a completion of n bytes says.
Brought(c, i, n) ==
  /\ state[c][i] = "Read" =>
       IF n = 0
         THEN ended[c][i] /\ taken[c][i] = sent[c][i] /\ Given(c, i, taken[c][i])
         ELSE Holds(c, i) /\ n = Len(buffer[c][i]) /\ Given(c, i, taken[c][i] - n)
  /\ state[c][i] = "Write" => Writing(c, i, n)

\* How far the stream of direction i has come, as its bearer knows.
FlowOf(c, i) ==
  /\ taken[c][i] <= sent[c][i]
  /\ state[c][i] = "Initialized" => Given(c, i, taken[c][i])
  /\ io[c][i] = "read" => Given(c, i, taken[c][i])
  /\ io[c][i] = "write" => Writing(c, i, 0)
  /\ \A k \in Packets(c) :
       port[c][k].dir = i /\ port[c][k].result = "transferred" => Brought(c, i, port[c][k].bytes)
  /\ \A t \in Thread : on[t] = c =>
       /\ at[t] = "complete" /\ arg[t].dir = i => Brought(c, i, arg[t].bytes)
       /\ at[t] \in {"loop", "again"} /\ Works(t, i) => Given(c, i, taken[c][i])

Flow(c) == \A i \in End : FlowOf(c, i)

\* Nothing is under way for c, and no thread will start anything.
AtRest(c) ==
  /\ port[c] = << >>
  /\ \A i \in End : io[c][i] = "none"
  /\ \A t \in Thread : on[t] = c => at[t] \notin {"delegated", "loop", "complete", "again"}

\* The reasons to give c up.
MayEnd(c) == Gone(c) \/ (AtRest(c) /\ (targets[c] = 0 \/ \A i \in End : told[c][i]))

\* A context that is, or is about to be, disposed of may be given up.
Ending(c) ==
  /\ (\E t \in Thread : on[t] = c /\ at[t] \in {"dispose", "disposeLast"}) => MayEnd(c)
  /\ contextState[c] # "Initialized" /\ c \notin contextList => MayEnd(c)

Idle == \A t \in Thread : on[t] = None <=> at[t] \in {"idle", "exited"}

Sound(c) == Staffed(c) /\ Course(c) /\ Queued(c) /\ Flow(c) /\ Ending(c)

\* A write never transfers more than it was asked to.
Counted == \A c \in Context, i \in End : needTransfer[c][i] >= 0

IInv == Types /\ Idle /\ Counted /\ \A c \in Context : Sound(c)

USE DEF contextVars, managerVars, kernelVars, endVars, threadVars

----------------------------------------------------------------------------
\* Types

\* A member of a direction is assigned to.
LEMMA Assigned ==
  ASSUME NEW S, NEW f \in [Context -> [End -> S]], NEW c \in Context, NEW i \in End, NEW v \in S
  PROVE  /\ [f EXCEPT ![c][i] = v] \in [Context -> [End -> S]]
         /\ [f EXCEPT ![c][i] = v][c][i] = v
         /\ \A d \in Context, j \in End :
              <<d, j>> # <<c, i>> => [f EXCEPT ![c][i] = v][d][j] = f[d][j]
  OBVIOUS

\* No thread moves to a place without a name, with an argument that is none.
LEMMA CourseTypes ==
  ASSUME ThreadTypes, NEW t \in Thread,
         \/ Proceeds(t) \/ Disposing(t) \/ Returns(t)
         \/ \E p \in Place, i \in End : Moves(t, p, i)
  PROVE  ThreadTypes'
<1>1. 0 \in End /\ 1 \in End
  BY DEF End
<1>2. ASSUME NEW p \in Place, NEW i \in End, Moves(t, p, i) PROVE ThreadTypes'
  BY <1>2 DEF ThreadTypes, Moves
<1>3. CASE Returns(t)
  BY <1>1, <1>3 DEF ThreadTypes, Returns, Takes, NoArg, Place
<1>4. CASE Proceeds(t)
  BY <1>1, <1>2, <1>3, <1>4 DEF Proceeds, Place
<1>5. CASE Disposing(t)
  BY <1>1, <1>2, <1>5 DEF Disposing, Place
<1>6. QED
  BY <1>2, <1>3, <1>4, <1>5

\* The types are kept by every step of DoIoCompletion: where the thread goes,
LEMMA ThreadTypesOfThread ==
  ASSUME Types, NEW t \in Thread, on[t] \in Context, DoIoCompletion(t)
  PROVE  ThreadTypes'
<1>0. ThreadTypes /\ arg[t].dir \in End /\ 0 \in End
  BY DEF Types, ThreadTypes, End
<1>1. CASE Races(t)
  BY <1>0, <1>1 DEF Races, ThreadTypes, Place
<1>2. CASE Written(t)
  BY <1>0, <1>2, CourseTypes DEF Written, Writes, Rearms, Place
<1>3. CASE HandshakeContinues(t) \/ Rejects(t) \/ NoPeer(t) \/ PreparesPeer(t)
  BY <1>0, <1>3, CourseTypes DEF HandshakeContinues, Rejects, NoPeer, PreparesPeer, Place
<1>4. CASE LeavesLoop(t) \/ Establishes(t) \/ Disposes(t)
  BY <1>0, <1>4, CourseTypes DEF LeavesLoop, Establishes, Disposes, Place
<1>5. CASE Reads(t) \/ EndOfFile(t) \/ ForwardsData(t)
  BY <1>0, <1>5, CourseTypes DEF Reads, EndOfFile, ForwardsData, Writes
<1>6. QED
  BY <1>1, <1>2, <1>3, <1>4, <1>5 DEF DoIoCompletion

\* ... the members of the context,
LEMMA ContextTypesOfThread ==
  ASSUME Types, NEW t \in Thread, on[t] \in Context, DoIoCompletion(t)
  PROVE  ContextTypes'
<1>0. ContextTypes /\ arg[t].dir \in End /\ arg[t].bytes \in Nat
  BY DEF Types, ThreadTypes
<1>1. CASE Races(t) \/ LeavesLoop(t) \/ Rejects(t) \/ NoPeer(t) \/ Disposes(t)
  BY <1>0, <1>1 DEF Races, LeavesLoop, Rejects, NoPeer, Disposes, ContextTypes
<1>2. CASE HandshakeContinues(t)
  BY <1>0, <1>2 DEF HandshakeContinues, ContextTypes
<1>3. CASE PreparesPeer(t)
  BY <1>0, <1>3 DEF PreparesPeer, ContextTypes
<1>4. CASE Establishes(t)
  BY <1>0, <1>4 DEF Establishes, ContextTypes
<1>5. state \in [Context -> [End -> {"Initialized", "Ready", "Read", "Write", "Shutdown"}]]
  BY <1>0 DEF ContextTypes
<1>6. needTransfer \in [Context -> [End -> Int]] /\ bufferOffset \in [Context -> [End -> Nat]]
  BY <1>0 DEF ContextTypes
<1>7. CASE Reads(t) \/ EndOfFile(t)
  <2>1. \/ state' = state
        \/ \E s \in {"Read", "Shutdown"} : state' = [state EXCEPT ![on[t]][arg[t].dir] = s]
    BY <1>7 DEF Reads, EndOfFile
  <2>2. state' \in [Context -> [End -> {"Initialized", "Ready", "Read", "Write", "Shutdown"}]]
    BY <1>0, <1>5, <2>1
  <2>3. QED
    BY <1>0, <1>7, <2>2 DEF Reads, EndOfFile, ContextTypes
<1>8. CASE ForwardsData(t)
  <2>1. /\ state' = [state EXCEPT ![on[t]][arg[t].dir] = "Write"]
        /\ needTransfer' = [needTransfer EXCEPT ![on[t]][arg[t].dir] = arg[t].bytes]
        /\ bufferOffset' = [bufferOffset EXCEPT ![on[t]][arg[t].dir] = 0]
    BY <1>8 DEF ForwardsData
  <2>2. state' \in [Context -> [End -> {"Initialized", "Ready", "Read", "Write", "Shutdown"}]]
    BY <1>0, <1>5, <2>1
  <2>3. needTransfer' \in [Context -> [End -> Int]] /\ bufferOffset' \in [Context -> [End -> Nat]]
    BY <1>0, <1>6, <2>1
  <2>4. QED
    BY <1>0, <1>8, <2>2, <2>3 DEF ForwardsData, ContextTypes
<1>9. CASE Written(t)
  <2>1. state' = state \/ state' = [state EXCEPT ![on[t]][arg[t].dir] = "Ready"]
    BY <1>9 DEF Written
  <2>2. state' \in [Context -> [End -> {"Initialized", "Ready", "Read", "Write", "Shutdown"}]]
    BY <1>0, <1>5, <2>1
  <2>3. \/ bufferOffset' = bufferOffset
        \/ bufferOffset' = [bufferOffset EXCEPT ![on[t]][arg[t].dir] = @ + arg[t].bytes]
    BY <1>9 DEF Written, NextOffset
  <2>4. bufferOffset' \in [Context -> [End -> Nat]]
    <3>1. bufferOffset[on[t]][arg[t].dir] + arg[t].bytes \in Nat
      BY <1>0, <1>6
    <3>2. QED
      <4>1. CASE bufferOffset' = bufferOffset
        BY <1>6, <4>1
      <4>2. CASE bufferOffset' =
              [bufferOffset EXCEPT ![on[t]][arg[t].dir] = @ + arg[t].bytes]
        BY <1>0, <1>6, <3>1, <4>2
      <4>3. QED
        BY <2>3, <4>1, <4>2
  <2>5. needTransfer' = [needTransfer EXCEPT ![on[t]][arg[t].dir] = @ - arg[t].bytes]
    BY <1>9 DEF Written, Remaining
  <2>6. needTransfer' \in [Context -> [End -> Int]]
    BY <1>0, <1>6, <2>5
  <2>7. QED
    BY <1>0, <1>9, <2>2, <2>4, <2>6 DEF Written, ContextTypes
<1>10. QED
  BY <1>1, <1>2, <1>3, <1>4, <1>7, <1>8, <1>9 DEF DoIoCompletion

\* ... and what the kernel and the ends have of it.
LEMMA OtherTypesOfThread ==
  ASSUME Types, NEW t \in Thread, on[t] \in Context, DoIoCompletion(t)
  PROVE  OtherTypes' /\ EndTypes'
<1>0. OtherTypes /\ EndTypes
  BY DEF Types
<1>1. arg[t].dir \in End /\ PeerOf(arg[t].dir) \in End
  <2>1. arg[t].dir \in End
    BY DEF Types, ThreadTypes
  <2>2. QED
    BY <2>1 DEF PeerOf, End
<1>2. io \in [Context -> [End -> {"none", "nonce", "read", "write"}]]
  BY <1>0 DEF OtherTypes
<1>3. CASE Races(t) \/ LeavesLoop(t) \/ Rejects(t) \/ NoPeer(t) \/ PreparesPeer(t) \/ Establishes(t)
  BY <1>0, <1>3 DEF Races, LeavesLoop, Rejects, NoPeer, PreparesPeer, Establishes, OtherTypes, EndTypes
<1>4. CASE HandshakeContinues(t)
  <2>1. io' = [io EXCEPT ![on[t]][0] = "nonce"] /\ 0 \in End
    BY <1>4 DEF HandshakeContinues, End
  <2>2. io' \in [Context -> [End -> {"none", "nonce", "read", "write"}]]
    BY <1>2, <2>1
  <2>3. QED
    BY <1>0, <1>4, <2>2 DEF HandshakeContinues, OtherTypes, EndTypes
<1>5. CASE EndOfFile(t)
  <2>1. told \in [Context -> [End -> BOOLEAN]]
    BY <1>0 DEF EndTypes
  <2>2. told' = [told EXCEPT ![on[t]][PeerOf(arg[t].dir)] = TRUE]
    BY <1>5 DEF EndOfFile, TellsPeer
  <2>3. told' \in [Context -> [End -> BOOLEAN]]
    BY <1>1, <2>1, <2>2
  <2>4. QED
    BY <1>0, <1>5, <2>3 DEF EndOfFile, OtherTypes, EndTypes
<1>6. CASE Reads(t) \/ ForwardsData(t) \/ Written(t)
  <2>1. io' = io \/ \E w \in {"read", "write"} : io' = [io EXCEPT ![on[t]][arg[t].dir] = w]
    BY <1>6 DEF Reads, ForwardsData, Written, Writes
  <2>2. io' \in [Context -> [End -> {"none", "nonce", "read", "write"}]]
    BY <1>1, <1>2, <2>1
  <2>3. QED
    BY <1>0, <1>6, <2>2 DEF Reads, ForwardsData, Written, OtherTypes, EndTypes
<1>7. CASE Disposes(t)
  BY <1>0, <1>7 DEF Disposes, OtherTypes, EndTypes
<1>8. QED
  BY <1>3, <1>4, <1>5, <1>6, <1>7 DEF DoIoCompletion

----------------------------------------------------------------------------
\* The first bytes of a stream are a sequence, and those that follow extend it.
LEMMA FirstIsSeq ==
  ASSUME NEW n \in Nat
  PROVE  First(n) \in Seq(Nat) /\ Len(First(n)) = n
  BY DEF First

\* The next elements of a stream after its first n are the first of a longer part.
LEMMA Extended ==
  ASSUME NEW n \in Nat, NEW s \in Seq(Nat), \A k \in 1 .. Len(s) : s[k] = n + k
  PROVE  First(n) \o s = First(n + Len(s))
<1> DEFINE f == First(n)
           g == First(n + Len(s))
<1>1. Len(s) \in Nat /\ f \in Seq(Nat) /\ Len(f) = n /\ g \in Seq(Nat) /\ Len(g) = n + Len(s)
  <2>1. Len(s) \in Nat
    BY LenProperties
  <2>2. n + Len(s) \in Nat
    BY <2>1
  <2>3. QED
    BY <2>1, <2>2, FirstIsSeq
<1>. HIDE DEF f, g
<1>2. /\ f \o s \in Seq(Nat)
      /\ Len(f \o s) = n + Len(s)
      /\ \A k \in 1 .. n + Len(s) : (f \o s)[k] = IF k <= n THEN f[k] ELSE s[k - n]
  BY <1>1, ConcatProperties
<1>3. \A k \in 1 .. n + Len(s) : (f \o s)[k] = g[k]
  <2>. TAKE k \in 1 .. n + Len(s)
  <2>1. CASE k <= n
    BY <1>1, <1>2, <2>1 DEF f, g, First
  <2>2. CASE ~(k <= n)
    <3>1. k - n \in 1 .. Len(s) /\ n + (k - n) = k
      BY <1>1, <2>2
    <3>2. s[k - n] = k
      BY <3>1
    <3>3. QED
      BY <1>1, <1>2, <2>2, <3>2 DEF f, g, First
  <2>3. QED
    BY <2>1, <2>2
<1>4. f \o s = g
  BY <1>1, <1>2, <1>3, SeqEqual
<1>. QED
  BY <1>4 DEF f, g

\* What is left of a.
LEMMA Rest ==
  ASSUME NEW a \in Nat, NEW w \in Nat, w <= a
  PROVE  \E o \in Nat : o = a - w
OBVIOUS

\* Of a buffer b with the last bytes of T, the last w are not written: the next n of them.
LEMMA NextPiece ==
  ASSUME NEW b \in Seq(Nat), NEW l \in Nat, l = Len(b),
         NEW T \in Nat, l <= T, \A k \in 1..l : b[k] = T - l + k,
         NEW w \in 1..l, NEW n \in 1..w
  PROVE  /\ T - w \in Nat /\ T - w + n \in Nat
         /\ First(T - w) \o SubSeq(b, l - w + 1, l - w + n)
              = First(T - w + n)
<1>0. w \in Nat /\ w <= l /\ w <= T
  OBVIOUS
<1>1. PICK m \in Nat : m = T - w
  BY <1>0, Rest, Zenon
<1>2. PICK o \in Nat : o = l - w
  BY <1>0, Rest, Zenon
<1>3. n \in Nat /\ n >= 1 /\ o + n <= l /\ m + n \in Nat
  BY <1>2
<1>4. \A k \in 1..n : o + k \in 1..l /\ T - l + (o + k) = m + k
  BY <1>1, <1>2, <1>3
<1>5. \A k \in 1..n : b[o + k] = m + k
  BY <1>4
<1>6. \A k \in o + 1 .. o + n : b[k] \in Nat
  <2>1. \A k \in 1..l : b[k] \in Nat
    BY LenProperties
  <2>2. \A k \in o + 1 .. o + n : k \in 1..l
    BY <1>2, <1>3
  <2>3. QED
    BY <2>1, <2>2
<1> DEFINE piece == SubSeq(b, o + 1, o + n)
<1>7. /\ piece \in Seq(Nat) /\ Len(piece) = n
      /\ \A k \in 1..n : piece[k] = b[o + k]
  <2>1. o + 1 \in Int /\ o + n \in Int /\ o + 1 <= o + n /\ o + n - (o + 1) + 1 = n
    BY <1>3
  <2>2. \A k \in 1..n : o + 1 + k - 1 = o + k
    OBVIOUS
  <2>3. QED
    BY <1>6, <2>1, <2>2, SubSeqProperties
<1>8. \A k \in 1 .. Len(piece) : piece[k] = m + k
  BY <1>5, <1>7
<1>. HIDE DEF piece
<1>9. First(m) \o piece = First(m + n)
  BY <1>7, <1>8, Extended
<1>. QED
  BY <1>1, <1>2, <1>3, <1>9 DEF piece

\* A write of n bytes gives the peer the next bytes of the stream.
LEMMA Delivered ==
  ASSUME Types, NEW c \in Context, NEW i \in End, Writing(c, i, 0),
         NEW n \in 1 .. needTransfer[c][i]
  PROVE  LET piece == SubSeq(buffer[c][i], bufferOffset[c][i] + 1, bufferOffset[c][i] + n)
             m == taken[c][i] - needTransfer[c][i]
         IN  /\ m \in Nat /\ m + n \in Nat
             /\ received[c][PeerOf(i)] = First(m)
             /\ received[c][PeerOf(i)] \o piece = First(m + n)
<1> DEFINE b == buffer[c][i]
           l == Len(b)
           w == needTransfer[c][i]
           T == taken[c][i]
<1>1. b \in Seq(Nat) /\ T \in Nat /\ l \in Nat
  BY LenProperties DEF Types, ContextTypes, EndTypes
<1>2. w \in 1..l /\ bufferOffset[c][i] = l - w /\ l <= T
  BY DEF Writing, Holds
<1>3. \A k \in 1..l : b[k] = T - l + k
  BY DEF Writing, Holds
<1>4. received[c][PeerOf(i)] = First(T - w + 0)
  BY DEF Writing, Given
<1>5. n \in 1..w
  OBVIOUS
<1>. HIDE DEF b, l, w, T
<1>6. T - w + 0 = T - w
  BY <1>1, <1>2
<1>7. /\ T - w \in Nat /\ T - w + n \in Nat
      /\ First(T - w) \o SubSeq(b, l - w + 1, l - w + n)
              = First(T - w + n)
  <2>1. l = Len(b)
    BY DEF l
  <2>2. QED
    BY <1>1, <1>2, <1>3, <1>5, <2>1, NextPiece
<1>. QED
  BY <1>2, <1>4, <1>6, <1>7 DEF b, w, T

----------------------------------------------------------------------------
\* ... by the kernel,
LEMMA TypesOfKernel ==
  ASSUME Types, NEW c \in Context, Flow(c), Kernel(c)
  PROVE  Types'
<1>. USE DEF Types
<1>0. 0 \in End
  BY DEF End
<1>1. ASSUME NEW i \in End, NEW n \in Nat, NEW r \in {"transferred", "failed", "aborted"},
             io' = [io EXCEPT ![c][i] = "none"],
             port' = [port EXCEPT ![c] = Append(@, [dir |-> i, result |-> r, bytes |-> n])],
             UNCHANGED <<managerVars, cancelled>>
      PROVE  OtherTypes'
  <2>1. [dir |-> i, result |-> r, bytes |-> n] \in Packet
    BY DEF Packet
  <2>2. port[c] \in Seq(Packet) /\ port \in [Context -> Seq(Packet)]
    BY DEF OtherTypes
  <2>3. Append(port[c], [dir |-> i, result |-> r, bytes |-> n]) \in Seq(Packet)
    BY <2>1, <2>2, AppendProperties
  <2>4. port' \in [Context -> Seq(Packet)]
    BY <1>1, <2>2, <2>3
  <2>5. io \in [Context -> [End -> {"none", "nonce", "read", "write"}]]
    BY DEF OtherTypes
  <2>6. io' \in [Context -> [End -> {"none", "nonce", "read", "write"}]]
    BY <1>1, <2>5
  <2>7. QED
    BY <1>1, <2>4, <2>6 DEF OtherTypes
<1>2. ASSUME NEW n \in {0, 1}, NonceArrives(c, n) PROVE Types'
  BY <1>0, <1>1, <1>2 DEF NonceArrives, Completes, ContextTypes, EndTypes, ThreadTypes
<1>3. ASSUME NEW i \in End, StreamEnds(c, i) \/ OperationFails(c, i) \/ OperationAborted(c, i)
      PROVE  Types'
  BY <1>1, <1>3 DEF StreamEnds, OperationFails, OperationAborted, Completes, ContextTypes,
     EndTypes, ThreadTypes
<1>4. ASSUME NEW i \in End, DataArrives(c, i) PROVE Types'
  <2>1. PICK n \in 1..MAX_BUFFER_SIZE :
          /\ taken' = [taken EXCEPT ![c][i] = @ + n]
          /\ buffer' = [buffer EXCEPT ![c][i] = [k \in 1..n |-> taken[c][i] + k]]
          /\ io' = [io EXCEPT ![c][i] = "none"]
          /\ port' = [port EXCEPT ![c] = Append(@, [dir |-> i, result |-> "transferred", bytes |-> n])]
    BY <1>4 DEF DataArrives
  <2>2. n \in Nat
    BY ForwardAssumption
  <2>3. taken \in [Context -> [End -> Nat]] /\ buffer \in [Context -> [End -> Seq(Nat)]]
    BY DEF ContextTypes, EndTypes
  <2>4. taken' \in [Context -> [End -> Nat]]
    BY <2>1, <2>2, <2>3
  <2>5. [k \in 1..n |-> taken[c][i] + k] \in Seq(Nat)
    BY <2>2, <2>3
  <2>6. buffer' \in [Context -> [End -> Seq(Nat)]]
    BY <2>1, <2>3, <2>5
  <2>7. OtherTypes'
    BY <1>1, <1>4, <2>1, <2>2 DEF DataArrives
  <2>8. QED
    BY <1>4, <2>4, <2>6, <2>7 DEF DataArrives, ContextTypes, EndTypes, ThreadTypes
<1>5. ASSUME NEW i \in End, DataLeaves(c, i) PROVE Types'
  <2>0. PeerOf(i) \in End
    BY DEF PeerOf, End
  <2>1. needTransfer[c][i] \in Int /\ received \in [Context -> [End -> Seq(Nat)]]
    BY DEF ContextTypes, EndTypes
  <2>2. PICK n \in 1..needTransfer[c][i] :
          /\ Completes(c, i, "transferred", n)
          /\ received' = [received EXCEPT ![c][PeerOf(i)] =
               @ \o SubSeq(buffer[c][i], bufferOffset[c][i] + 1, bufferOffset[c][i] + n)]
    BY <1>5 DEF DataLeaves
  <2>3. n \in Nat
    BY <2>1
  <2>4. Writing(c, i, 0)
    BY <1>5 DEF DataLeaves, Flow, FlowOf
  <2>5. received' \in [Context -> [End -> Seq(Nat)]]
    <3>1. PICK m \in Nat : received' = [received EXCEPT ![c][PeerOf(i)] = First(m)]
      BY <2>0, <2>1, <2>2, <2>4, Delivered
    <3>2. First(m) \in Seq(Nat)
      BY FirstIsSeq
    <3>3. QED
      BY <2>0, <2>1, <3>1, <3>2
  <2>6. OtherTypes'
    BY <1>1, <2>2, <2>3 DEF Completes
  <2>7. QED
    BY <1>5, <2>2, <2>5, <2>6 DEF DataLeaves, Completes, ContextTypes, EndTypes, ThreadTypes
<1>6. QED
  BY <1>2, <1>3, <1>4, <1>5 DEF Kernel
\* ... by the ends, and by the other steps of the threads.
LEMMA TypesOfEnds ==
  ASSUME Types, NEW c \in Context, NEW i \in End, Sends(c, i) \/ HangsUp(c, i) \/ Leaves(c, i)
  PROVE  Types'
<1>1. ContextTypes' /\ OtherTypes' /\ ThreadTypes'
  BY DEF Sends, HangsUp, Leaves, Types, ContextTypes, OtherTypes, ThreadTypes
<1>2. EndTypes
  BY DEF Types
<1>3. CASE Sends(c, i)
  <2>1. sent \in [Context -> [End -> Nat]] /\ sent' = [sent EXCEPT ![c][i] = @ + 1]
    BY <1>2, <1>3 DEF Sends, EndTypes
  <2>2. sent' \in [Context -> [End -> Nat]]
    BY <2>1
  <2>3. QED
    BY <1>1, <1>2, <1>3, <2>2 DEF Sends, Types, EndTypes
<1>4. CASE HangsUp(c, i) \/ Leaves(c, i)
  <2>1. /\ ended \in [Context -> [End -> BOOLEAN]] /\ gone \in [Context -> [End -> BOOLEAN]]
        /\ ended' = [ended EXCEPT ![c][i] = TRUE]
        /\ gone' = gone \/ gone' = [gone EXCEPT ![c][i] = TRUE]
    BY <1>2, <1>4 DEF HangsUp, Leaves, EndTypes
  <2>2. ended' \in [Context -> [End -> BOOLEAN]]
    BY <2>1
  <2>3. gone' \in [Context -> [End -> BOOLEAN]]
    <3>1. CASE gone' = gone
      BY <2>1, <3>1
    <3>2. CASE gone' = [gone EXCEPT ![c][i] = TRUE]
      BY <2>1, <3>2
    <3>3. QED
      BY <2>1, <3>1, <3>2
  <2>4. QED
    BY <1>1, <1>2, <1>4, <2>2, <2>3 DEF HangsUp, Leaves, Types, EndTypes
<1>5. QED
  BY <1>3, <1>4

\* The types are kept by the steps of the owner and of the completion port.
LEMMA TypesOfManager ==
  ASSUME Types,
         \/ \E l \in Listener, c \in Context, h \in Handshakes : DelegateConnection(l, c, h)
         \/ Stop \/ IocpThreadExits \/ \E c \in Context : Dequeues(c)
  PROVE  Types'
<1>. USE DEF Types
<1>1. CASE \E l \in Listener, c \in Context, h \in Handshakes : DelegateConnection(l, c, h)
  <2>. PICK l \in Listener, c \in Context, h \in Handshakes : DelegateConnection(l, c, h)
    BY <1>1
  <2>1. h \in Nat /\ l \in Thread /\ NoArg \in [dir : End, bytes : Nat]
    BY ForwardAssumption DEF Thread, NoArg, End
  <2>2. ContextTypes' /\ OtherTypes' /\ EndTypes'
    BY <2>1 DEF DelegateConnection, ContextTypes, OtherTypes, EndTypes
  <2>3. ThreadTypes'
    BY <2>1 DEF DelegateConnection, Takes, ThreadTypes, Place
  <2>4. QED
    BY <2>2, <2>3
<1>2. CASE Stop \/ IocpThreadExits
  BY <1>2 DEF Stop, IocpThreadExits, ContextTypes, OtherTypes, EndTypes, ThreadTypes, Place
<1>3. CASE \E c \in Context : Dequeues(c)
  <2>. PICK c \in Context : Dequeues(c)
    BY <1>3
  <2>1. port \in [Context -> Seq(Packet)] /\ port[c] # << >>
        /\ port' = [port EXCEPT ![c] = Tail(@)]
    BY DEF Dequeues, OtherTypes
  <2>2. Tail(port[c]) \in Seq(Packet) /\ Head(port[c]) \in Packet
    BY <2>1, HeadTailProperties
  <2>3. port' \in [Context -> Seq(Packet)]
    BY <2>1, <2>2
  <2>4. ContextTypes' /\ OtherTypes' /\ EndTypes'
    BY <2>3 DEF Dequeues, ContextTypes, OtherTypes, EndTypes
  <2>5. /\ "iocp" \in Thread
        /\ NoArg \in [dir : End, bytes : Nat]
        /\ [dir |-> Head(port[c]).dir, bytes |-> Head(port[c]).bytes] \in [dir : End, bytes : Nat]
    BY <2>2 DEF Thread, NoArg, End, Packet
  <2>6. \E d \in Context \cup {None}, p \in Place, a \in [dir : End, bytes : Nat] :
          Takes("iocp", d, p, a)
    BY <2>5 DEF Dequeues, FailureDisposes, Returns, Place
  <2>7. ThreadTypes'
    BY <2>5, <2>6 DEF Takes, ThreadTypes
  <2>8. QED
    BY <2>4, <2>7
<1>4. QED
  BY <1>1, <1>2, <1>3

\* Every step keeps the types.
LEMMA TypesKept == IInv /\ [Next]_vars => Types'
<1>. SUFFICES ASSUME IInv, [Next]_vars PROVE Types'
  OBVIOUS
<1>0. Types /\ \A c \in Context : Flow(c)
  BY DEF IInv, Sound
<1>1. ASSUME NEW t \in Thread, Handles(t) PROVE Types'
  <2>1. on[t] \in Context
    BY <1>1 DEF IInv, Idle, Handles, Types, ThreadTypes
  <2>2. QED
    BY <1>0, <1>1, <2>1, ThreadTypesOfThread, ContextTypesOfThread, OtherTypesOfThread
       DEF Handles, Types
<1>2. CASE \E c \in Context : Dequeues(c) \/ KernelCompletes(c)
  BY <1>0, <1>2, TypesOfKernel, TypesOfManager DEF KernelCompletes
<1>3. CASE \E c \in Context, i \in End : Sends(c, i) \/ HangsUp(c, i) \/ Leaves(c, i)
  BY <1>0, <1>3, TypesOfEnds
<1>4. CASE Stop \/ IocpThreadExits
           \/ \E l \in Listener, c \in Context, h \in Handshakes : DelegateConnection(l, c, h)
  BY <1>0, <1>4, TypesOfManager
<1>5. CASE UNCHANGED vars
  BY <1>0, <1>5 DEF vars, Types, ContextTypes, OtherTypes, EndTypes, ThreadTypes
<1>6. QED
  BY <1>1, <1>2, <1>3, <1>4, <1>5 DEF Next
----------------------------------------------------------------------------
\* Steps are local

\* Context d and the threads on it are as they were.
Kept(d) ==
  /\ contextState'[d] = contextState[d] /\ state'[d] = state[d] /\ buffer'[d] = buffer[d]
  /\ needTransfer'[d] = needTransfer[d] /\ bufferOffset'[d] = bufferOffset[d]
  /\ targets'[d] = targets[d]
  /\ io'[d] = io[d] /\ cancelled'[d] = cancelled[d] /\ port'[d] = port[d]
  /\ sent'[d] = sent[d] /\ taken'[d] = taken[d] /\ received'[d] = received[d]
  /\ ended'[d] = ended[d] /\ gone'[d] = gone[d] /\ told'[d] = told[d]
  /\ d \in contextList' <=> d \in contextList
  /\ \A u \in Thread : on'[u] = d \/ on[u] = d =>
       at'[u] = at[u] /\ on'[u] = on[u] /\ arg'[u] = arg[u]

\* Nothing is changed but context c and the threads that are, or come to be, on it.
Local(c) == \A d \in Context \ {c} : Kept(d)

\* A context that was kept is as sound as it was.
LEMMA KeptSound ==
  ASSUME NEW d \in Context, Sound(d), Kept(d)
  PROVE  Sound(d)'
<1>0. Sound(d)
  OBVIOUS
<1>1. /\ contextState'[d] = contextState[d] /\ state'[d] = state[d] /\ buffer'[d] = buffer[d]
      /\ needTransfer'[d] = needTransfer[d] /\ bufferOffset'[d] = bufferOffset[d]
      /\ targets'[d] = targets[d]
      /\ io'[d] = io[d] /\ cancelled'[d] = cancelled[d] /\ port'[d] = port[d]
      /\ sent'[d] = sent[d] /\ taken'[d] = taken[d] /\ received'[d] = received[d]
      /\ ended'[d] = ended[d] /\ gone'[d] = gone[d] /\ told'[d] = told[d]
      /\ d \in contextList' <=> d \in contextList
  BY DEF Kept
<1>2. \A u \in Thread : on'[u] = d \/ on[u] = d =>
        at'[u] = at[u] /\ on'[u] = on[u] /\ arg'[u] = arg[u]
  BY DEF Kept
<1>3. \A u \in Thread, i \in End : on'[u] = d => (Works(u, i)' <=> Works(u, i))
  BY <1>2 DEF Works
<1>4. Staffed(d)'
  <2>1. Staffed(d)
    BY <1>0 DEF Sound
  <2>2. ASSUME NEW t \in Thread, on'[t] = d PROVE Standing(t, d)'
    <3>1. on[t] = d /\ at'[t] = at[t] /\ arg'[t] = arg[t] /\ Standing(t, d)
      BY <1>2, <2>1, <2>2 DEF Staffed
    <3>2. \A i \in End : Works(t, i)' => Works(t, i)
      BY <1>3, <2>2
    <3>3. \A i \in End, u \in Thread : on'[u] = d /\ Works(u, i)' => on[u] = d /\ Works(u, i)
      BY <1>2, <1>3
    <3>4. Packets(d)' = Packets(d)
      BY <1>1 DEF Packets
    <3>5. QED
      BY <1>1, <3>1, <3>2, <3>3, <3>4 DEF Standing
  <2>3. QED
    BY <1>1, <1>2, <2>1, <2>2 DEF Staffed
<1>5. Course(d)'
  <2>1. Course(d)
    BY <1>0 DEF Sound
  <2>2. Starting(d) => Starting(d)'
    BY <1>2 DEF Starting
  <2>3. QED
    BY <1>1, <2>1, <2>2 DEF Course
<1>6. Queued(d)'
  BY <1>0, <1>1 DEF Sound, Queued, Packets, Gone
<1>7. Flow(d)'
  <2>1. ASSUME NEW i \in End, NEW n, Brought(d, i, n) PROVE Brought(d, i, n)'
    BY <1>1, <2>1 DEF Brought, Writing, Holds, Given
  <2>2. ASSUME NEW i \in End PROVE FlowOf(d, i)'
    <3>1. FlowOf(d, i)
      BY <1>0 DEF Sound, Flow
    <3>2. QED
      BY <1>1, <1>2, <1>3, <2>1, <3>1 DEF FlowOf, Packets, Given, Writing, Holds
  <2>3. QED
    BY <2>2 DEF Flow
<1>8. Ending(d)'
  <2>1. Ending(d)
    BY <1>0 DEF Sound
  <2>2. MayEnd(d) => MayEnd(d)'
    BY <1>1, <1>2 DEF MayEnd, AtRest, Gone
  <2>3. QED
    BY <1>1, <1>2, <2>1, <2>2 DEF Ending
<1>9. QED
  BY <1>4, <1>5, <1>6, <1>7, <1>8 DEF Sound
----------------------------------------------------------------------------
\* What a thread does to its own place

Others(t) == \A u \in Thread \ {t} : at'[u] = at[u] /\ on'[u] = on[u] /\ arg'[u] = arg[u]

\* What Moves, Takes and Returns do with a thread.
LEMMA Moved ==
  ASSUME ThreadTypes, NEW t \in Thread, NEW p, NEW i, Moves(t, p, i)
  PROVE  at'[t] = p /\ on'[t] = on[t] /\ arg'[t].dir = i /\ arg'[t].bytes = 0 /\ Others(t)
BY DEF ThreadTypes, Moves, Others

\* A thread takes up a context.
LEMMA Taken ==
  ASSUME ThreadTypes, NEW t \in Thread, NEW c, NEW p, NEW a, Takes(t, c, p, a)
  PROVE  at'[t] = p /\ on'[t] = c /\ arg'[t] = a /\ Others(t)
BY DEF ThreadTypes, Takes, Others

\* A thread returns to the port, without a context.
LEMMA Returned ==
  ASSUME ThreadTypes, NEW t \in Thread, Returns(t)
  PROVE  at'[t] = "idle" /\ on'[t] = None /\ Others(t)
BY Taken DEF Returns

\* A thread stays on its context, or leaves it and is idle.
Departs(t) ==
  /\ Others(t)
  /\ \/ on'[t] = on[t] /\ at'[t] \notin {"idle", "exited"}
     \/ on'[t] = None /\ at'[t] = "idle"

\* No step of DoIoCompletion takes a thread to another context.
LEMMA StaysOrLeaves ==
  ASSUME ThreadTypes, NEW t \in Thread, DoIoCompletion(t)
  PROVE  Departs(t)
<1>. USE DEF Departs
<1>1. \A p, i : Moves(t, p, i) => at'[t] = p /\ on'[t] = on[t] /\ Others(t)
  BY Moved
<1>2. Returns(t) => at'[t] = "idle" /\ on'[t] = None /\ Others(t)
  BY Returned
<1>3. Proceeds(t) => Departs(t)
  BY <1>1, <1>2 DEF Proceeds
<1>4. Disposing(t) => Departs(t)
  BY <1>1 DEF Disposing
<1>5. CASE Races(t)
  BY <1>5 DEF Races, ThreadTypes, Others
<1>6. CASE HandshakeContinues(t) \/ Rejects(t) \/ PreparesPeer(t) \/ NoPeer(t)
  BY <1>1, <1>2, <1>6 DEF HandshakeContinues, Rejects, PreparesPeer, NoPeer
<1>7. CASE LeavesLoop(t) \/ Establishes(t) \/ Disposes(t)
  BY <1>1, <1>2, <1>7 DEF LeavesLoop, Establishes, Disposes
<1>8. CASE Reads(t) \/ EndOfFile(t) \/ ForwardsData(t) \/ Written(t)
  BY <1>1, <1>3, <1>4, <1>8 DEF Reads, EndOfFile, ForwardsData, Written, Writes, Rearms
<1>9. QED
  BY <1>5, <1>6, <1>7, <1>8 DEF DoIoCompletion

\* ... and changes its own context only.
LEMMA ThreadIsLocal ==
  ASSUME Types, Idle, NEW t \in Thread, NEW c \in Context, on[t] = c, DoIoCompletion(t)
  PROVE  Local(c) /\ Idle'
<1>1. Departs(t)
  BY StaysOrLeaves DEF Types
<1>2. Idle'
  BY <1>1, ForwardAssumption DEF Idle, Departs, Others
<1>3. \A u \in Thread :
       \/ at'[u] = at[u] /\ on'[u] = on[u] /\ arg'[u] = arg[u]
       \/ on[u] \in {c, None} /\ on'[u] \in {c, None}
  BY <1>1 DEF Departs, Others
<1>4. UNCHANGED <<buffer, sent, taken, received, ended, gone, cancelFlag, port>>
  BY DEF DoIoCompletion, Races, HandshakeContinues, Rejects, PreparesPeer, NoPeer, LeavesLoop,
     Establishes, Reads, EndOfFile, ForwardsData, Written, Disposes
<1>5. ContextTypes /\ OtherTypes /\ EndTypes
  BY DEF Types
<1>6. \A d \in Context \ {c} :
       /\ contextState'[d] = contextState[d] /\ targets'[d] = targets[d]
       /\ cancelled'[d] = cancelled[d] /\ (d \in contextList' <=> d \in contextList)
  <2>1. CASE Establishes(t)
    BY <1>5, <2>1 DEF Establishes, ContextTypes
  <2>2. CASE PreparesPeer(t)
    BY <1>5, <2>2 DEF PreparesPeer, ContextTypes
  <2>3. CASE Disposes(t)
    BY <1>5, <2>3 DEF Disposes, ContextTypes, OtherTypes
  <2>4. CASE ~(Establishes(t) \/ PreparesPeer(t) \/ Disposes(t))
    BY <2>4 DEF DoIoCompletion, Races, HandshakeContinues, Rejects, NoPeer, LeavesLoop,
       Reads, EndOfFile, ForwardsData, Written
  <2>5. QED
    BY <2>1, <2>2, <2>3, <2>4
<1>7. \A d \in Context \ {c} : state'[d] = state[d] /\ told'[d] = told[d] /\ io'[d] = io[d]
  <2>1. \/ state' = state
        \/ \E f : state' = [state EXCEPT ![c] = f]
        \/ \E s : state' = [state EXCEPT ![c][arg[t].dir] = s]
    BY DEF DoIoCompletion, Races, HandshakeContinues, Rejects, PreparesPeer, NoPeer, LeavesLoop,
       Establishes, Reads, EndOfFile, ForwardsData, Written, Disposes
  <2>2. told' = told \/ \E j : told' = [told EXCEPT ![c][j] = TRUE]
    <3>1. CASE EndOfFile(t)
      BY <3>1 DEF EndOfFile, TellsPeer
    <3>2. CASE ~EndOfFile(t)
      BY <3>2 DEF DoIoCompletion, Races, HandshakeContinues, Rejects, PreparesPeer, NoPeer,
         LeavesLoop, Establishes, Reads, ForwardsData, Written, Disposes
    <3>3. QED
      BY <3>1, <3>2
  <2>3. io' = io \/ \E j, w : io' = [io EXCEPT ![c][j] = w]
    <3>1. CASE HandshakeContinues(t) \/ Reads(t)
      BY <3>1 DEF HandshakeContinues, Reads
    <3>2. CASE ForwardsData(t) \/ Written(t)
      BY <3>2 DEF ForwardsData, Written, Writes
    <3>3. CASE ~(HandshakeContinues(t) \/ Reads(t) \/ ForwardsData(t) \/ Written(t))
      BY <3>3 DEF DoIoCompletion, Races, Rejects, PreparesPeer, NoPeer, LeavesLoop, Establishes,
         EndOfFile, Disposes
    <3>4. QED
      BY <3>1, <3>2, <3>3
  <2>4. \A d \in Context \ {c} : state'[d] = state[d]
    BY <1>5, <2>1 DEF ContextTypes
  <2>5. \A d \in Context \ {c} : told'[d] = told[d]
    BY <1>5, <2>2 DEF EndTypes
  <2>6. \A d \in Context \ {c} : io'[d] = io[d]
    BY <1>5, <2>3 DEF OtherTypes
  <2>7. QED
    BY <2>4, <2>5, <2>6
<1>8. \A d \in Context \ {c} :
        needTransfer'[d] = needTransfer[d] /\ bufferOffset'[d] = bufferOffset[d]
  <2>1. needTransfer' = needTransfer \/ \E j, n : needTransfer' = [needTransfer EXCEPT ![c][j] = n]
    BY DEF DoIoCompletion, Races, HandshakeContinues, Rejects, PreparesPeer, NoPeer, LeavesLoop,
       Establishes, Reads, EndOfFile, ForwardsData, Written, Disposes
  <2>2. bufferOffset' = bufferOffset \/ \E j, n : bufferOffset' = [bufferOffset EXCEPT ![c][j] = n]
    BY DEF DoIoCompletion, Races, HandshakeContinues, Rejects, PreparesPeer, NoPeer, LeavesLoop,
       Establishes, Reads, EndOfFile, ForwardsData, Written, Disposes
  <2>3. \A d \in Context \ {c} : needTransfer'[d] = needTransfer[d]
    BY <1>5, <2>1 DEF ContextTypes
  <2>4. \A d \in Context \ {c} : bufferOffset'[d] = bufferOffset[d]
    BY <1>5, <2>2 DEF ContextTypes
  <2>5. QED
    BY <2>3, <2>4
<1>9. Local(c)
  BY <1>3, <1>4, <1>6, <1>7, <1>8, ForwardAssumption DEF Local, Kept
<1>10. QED
  BY <1>2, <1>9
----------------------------------------------------------------------------
\* DoForward

\* Where a thread is after Proceeds and Disposing.
LEMMA Proceeded ==
  ASSUME ThreadTypes, NEW t \in Thread, Proceeds(t)
  PROVE  /\ Others(t)
         /\ \/ /\ at[t] = "loop" /\ arg[t].dir = 0
               /\ at'[t] = "loop" /\ on'[t] = on[t] /\ arg'[t].dir = 1
            \/ at[t] = "loop" /\ arg[t].dir # 0 /\ at'[t] = "established" /\ on'[t] = on[t]
            \/ at[t] # "loop" /\ at'[t] = "idle" /\ on'[t] = None
BY Moved, Returned DEF Proceeds

\* A thread that disposes stays on its context.
LEMMA Disposed ==
  ASSUME ThreadTypes, NEW t \in Thread, Disposing(t)
  PROVE  Others(t) /\ on'[t] = on[t] /\ at'[t] \in {"dispose", "disposeLast"}
BY Moved DEF Disposing

\* The part of direction i in Course.
InCourse(c, i) ==
  /\ targets[c] = 0 <=> state[c][i] = "Initialized"
  /\ told[c][i] => targets[c] > 0
  /\ state[c][i] = "Shutdown" => told[c][PeerOf(i)]
  /\ contextState[c] = "Initialized" => io[c][i] = "none"
  /\ io[c][i] = "nonce" => state[c][i] = "Initialized" /\ i = 0
  /\ io[c][i] = "read" => state[c][i] = "Read"
  /\ io[c][i] = "write" => state[c][i] = "Write"

\* A step of DoForward for direction i leaves a sound context if it does so for i itself.
LEMMA ForwardStep ==
  ASSUME Types, NEW t \in Thread, NEW c \in Context, NEW i \in End, Sound(c),
         on[t] = c, arg[t].dir = i, c # None,
         at[t] = "loop" \/ (at[t] \in {"complete", "again"} /\ contextState[c] = "Established"),
         \/ Proceeds(t)
         \/ Disposing(t) /\ MayEnd(c)'
         \/ /\ at[t] # "loop" /\ Rearms(t, i)
            /\ state'[c][i] = "Ready" /\ io'[c][i] = "none" /\ Given(c, i, taken[c][i])',
         UNCHANGED <<contextState, targets, contextList, cancelled, port, buffer, sent, taken,
                     received, ended, gone>>,
         \A j \in End \ {i} :
           /\ state'[c][j] = state[c][j] /\ io'[c][j] = io[c][j]
           /\ needTransfer'[c][j] = needTransfer[c][j] /\ bufferOffset'[c][j] = bufferOffset[c][j],
         \A j \in End : told[c][j] => told'[c][j],
         targets[c] > 0,
         state'[c][i] # "Initialized",
         state'[c][i] = "Shutdown" => told'[c][PeerOf(i)],
         \/ io'[c][i] = "none"
         \/ io'[c][i] = "read" /\ state'[c][i] = "Read" /\ Given(c, i, taken[c][i])'
         \/ io'[c][i] = "write" /\ state'[c][i] = "Write" /\ Writing(c, i, 0)'
  PROVE  Sound(c)'
<1>0. Staffed(c) /\ Course(c) /\ Queued(c) /\ Flow(c) /\ Ending(c) /\ ThreadTypes
  BY DEF Sound, Types
<1>1. Others(t)
  BY <1>0, Proceeded, Disposed, Moved DEF Rearms
<1>2. /\ on'[t] = c \/ on'[t] = None
      /\ at'[t] \in {"loop", "established", "idle", "dispose", "disposeLast", "again"}
      /\ at'[t] = "loop" => at[t] = "loop" /\ arg[t].dir = 0 /\ arg'[t].dir = 1
      /\ at'[t] = "again" => /\ arg'[t].dir = i /\ at[t] # "loop"
                             /\ state'[c][i] = "Ready" /\ io'[c][i] = "none"
                             /\ Given(c, i, taken[c][i])'
      /\ at'[t] \in {"dispose", "disposeLast"} => MayEnd(c)'
      /\ at[t] = "loop" => on'[t] = c /\ at'[t] \in {"loop", "established", "dispose", "disposeLast"}
  BY <1>0, Proceeded, Disposed, Moved DEF Rearms
<1>3. Works(t, i) /\ Standing(t, c)
  BY <1>0 DEF Works, Staffed, End
<1>4. \A j \in End : on'[t] = c /\ Works(t, j)' => Works(t, j) /\ (j = i <=> at'[t] = "again")
  BY <1>2 DEF Works, End
<1>5. \A u \in Thread \ {t}, j \in End :
        on'[u] = c => /\ on[u] = c /\ at'[u] = at[u] /\ arg'[u] = arg[u]
                      /\ Works(u, j)' <=> Works(u, j)
                      /\ Works(u, j) => j # i
  <2>1. \A u \in Thread : on[u] = c /\ Works(u, i) => u = t
    BY <1>3 DEF Standing
  <2>2. QED
    BY <1>1, <2>1 DEF Others, Works
<1>6. Packets(c)' = Packets(c) /\ \A k \in Packets(c) : port[c][k].dir # i
  BY <1>3 DEF Standing, Packets
<1>7. Staffed(c)'
  <2>1. ASSUME NEW u \in Thread \ {t}, on'[u] = c PROVE Standing(u, c)'
    <3>1. Standing(u, c) /\ arg[u].dir \in End
      BY <1>0, <1>5, <2>1 DEF Staffed, ThreadTypes, End
    <3>2. at[u] # "delegated" /\ (at[u] = "complete" => arg[u].dir # i)
      BY <1>5, <2>1, <3>1 DEF Works
    <3>3. \A j \in End : Works(u, j)' =>
            \A v \in Thread : on'[v] = c /\ Works(v, j)' => on[v] = c /\ Works(v, j)
      BY <1>4, <1>5
    <3>4. QED
      BY <1>5, <1>6, <2>1, <3>1, <3>2, <3>3 DEF Standing
  <2>2. ASSUME on'[t] = c PROVE Standing(t, c)'
    <3>1. ASSUME NEW j \in End, Works(t, j)', NEW v \in Thread, on'[v] = c, Works(v, j)'
          PROVE  v = t
      <4>1. Works(t, j)
        BY <1>4, <2>2, <3>1
      <4>2. on[v] = c /\ Works(v, j)
        BY <1>4, <1>5, <3>1
      <4>3. QED
        BY <1>3, <4>1, <4>2 DEF Standing
    <3>2. ASSUME NEW j \in End, Works(t, j)'
          PROVE  io'[c][j] = "none" /\ state'[c][j] = "Ready" /\ \A k \in Packets(c) : port[c][k].dir # j
      <4>1. Works(t, j)
        BY <1>4, <2>2, <3>2
      <4>2. CASE j = i
        BY <1>2, <1>4, <1>6, <2>2, <3>2, <4>2
      <4>3. CASE j # i
        BY <1>2, <1>3, <1>4, <2>2, <3>2, <4>1, <4>3 DEF Standing, Works
      <4>4. QED
        BY <4>2, <4>3
    <3>3. QED
      BY <1>2, <1>6, <3>1, <3>2 DEF Standing
  <2>3. QED
    BY <1>0, <2>1, <2>2 DEF Staffed
<1>8. Queued(c)'
  <2>1. \A k \in Packets(c) : port[c][k].dir \in End \ {i}
    <3>. TAKE k \in Packets(c)
    <3>1. port[c] \in Seq(Packet)
      BY DEF Types, OtherTypes
    <3>2. port[c][k] \in Packet
      BY <3>1, ElementOfSeq DEF Packets
    <3>3. QED
      BY <1>6, <3>2 DEF Packet
  <2>2. QED
    BY <1>0, <1>6, <2>1 DEF Queued, Gone
<1>9. Flow(c)'
  <2>1. FlowOf(c, i)'
    <3>1. FlowOf(c, i)
      BY <1>0 DEF Flow
    <3>2. \A u \in Thread : on'[u] = c =>
            /\ ~(at'[u] = "complete" /\ arg'[u].dir = i)
            /\ at'[u] \in {"loop", "again"} /\ Works(u, i)' => Given(c, i, taken[c][i])'
      <4>1. at'[t] # "complete"
        BY <1>2
      <4>2. \A u \in Thread \ {t} : on'[u] = c =>
              ~Works(u, i)' /\ ~(at'[u] = "complete" /\ arg'[u].dir = i)
        BY <1>5 DEF Works
      <4>3. on'[t] = c /\ Works(t, i)' => Given(c, i, taken[c][i])'
        BY <1>2, <1>4
      <4>4. QED
        BY <4>1, <4>2, <4>3
    <3>3. \A k \in Packets(c)' : port'[c][k].dir # i
      BY <1>6
    <3>4. QED
      BY <3>1, <3>2, <3>3 DEF FlowOf
  <2>2. ASSUME NEW j \in End \ {i} PROVE FlowOf(c, j)'
    <3>1. FlowOf(c, j)
      BY <1>0 DEF Flow
    <3>2. \A n : Brought(c, j, n) => Brought(c, j, n)'
      BY DEF Brought, Writing, Holds, Given
    <3>3. Given(c, j, taken[c][j]) => Given(c, j, taken[c][j])'
      BY DEF Given
    <3>4. Writing(c, j, 0) => Writing(c, j, 0)'
      BY DEF Writing, Holds, Given
    <3>5. \A u \in Thread : on'[u] = c =>
            /\ at'[u] = "complete" /\ arg'[u].dir = j => Brought(c, j, arg[u].bytes)'
            /\ at'[u] \in {"loop", "again"} /\ Works(u, j)' => Given(c, j, taken[c][j])'
      <4>. TAKE u \in Thread
      <4>1. CASE u = t
        <5>1. at'[t] \in {"loop", "again"} /\ on'[t] = c /\ Works(t, j)' =>
                at[t] = "loop" /\ Works(t, j)
          BY <1>2, <1>4
        <5>2. QED
          BY <1>2, <3>1, <3>3, <4>1, <5>1 DEF FlowOf
      <4>2. CASE u # t
        <5>. SUFFICES ASSUME on'[u] = c
                      PROVE  /\ at'[u] = "complete" /\ arg'[u].dir = j => Brought(c, j, arg[u].bytes)'
                             /\ at'[u] \in {"loop", "again"} /\ Works(u, j)' =>
                                  Given(c, j, taken[c][j])'
          OBVIOUS
        <5>1. on[u] = c /\ at'[u] = at[u] /\ arg'[u] = arg[u] /\ (Works(u, j)' <=> Works(u, j))
          BY <1>5, <4>2
        <5>2. /\ at[u] = "complete" /\ arg[u].dir = j => Brought(c, j, arg[u].bytes)
              /\ at[u] \in {"loop", "again"} /\ Works(u, j) => Given(c, j, taken[c][j])
          BY <3>1, <5>1 DEF FlowOf
        <5>3. QED
          BY <3>2, <3>3, <5>1, <5>2
      <4>3. QED
        BY <4>1, <4>2
    <3>6. \A u \in Thread : on'[u] = c /\ at'[u] = "complete" => arg'[u] = arg[u]
      BY <1>2, <1>5
    <3>7. \A k \in Packets(c)' :
            port'[c][k].dir = j /\ port'[c][k].result = "transferred" => Brought(c, j, port[c][k].bytes)'
      BY <1>6, <3>1, <3>2 DEF FlowOf
    <3>8. QED
      BY <1>6, <3>1, <3>3, <3>4, <3>5, <3>6, <3>7 DEF FlowOf
  <2>3. QED
    BY <2>1, <2>2 DEF Flow
<1>10. Course(c)'
  <2>1. contextState[c] = "HandShake" => Starting(c)'
    BY <1>2 DEF Starting
  <2>2. InCourse(c, i)'
    <3>1. contextState[c] # "Initialized"
      BY <1>0 DEF Staffed
    <3>2. QED
      BY <3>1 DEF InCourse
  <2>3. ASSUME NEW j \in End \ {i} PROVE InCourse(c, j)'
    <3>1. PeerOf(j) \in End
      BY DEF PeerOf, End
    <3>2. InCourse(c, j)
      BY <1>0 DEF Course, InCourse
    <3>3. QED
      BY <3>1, <3>2 DEF InCourse
  <2>4. \A j \in End : InCourse(c, j)'
    BY <2>2, <2>3
  <2>5. QED
    BY <1>0, <2>1, <2>4 DEF Course, InCourse
<1>11. Ending(c)'
  <2>1. ~AtRest(c)
    BY <1>3 DEF AtRest, Works
  <2>2. MayEnd(c) => MayEnd(c)'
    BY <2>1 DEF MayEnd, Gone
  <2>3. QED
    BY <1>0, <1>1, <1>2, <2>2 DEF Ending, Others
<1>12. QED
  BY <1>7, <1>8, <1>9, <1>10, <1>11 DEF Sound
\* What the members of c are after an assignment to those of direction i.
LEMMA AssignedAt ==
  ASSUME NEW S, NEW f \in [Context -> [End -> S]], NEW c \in Context, NEW i \in End, NEW v
  PROVE  /\ [f EXCEPT ![c][i] = v][c][i] = v
         /\ \A j \in End \ {i} : [f EXCEPT ![c][i] = v][c][j] = f[c][j]
OBVIOUS

\* ... case Ready: a read is begun
LEMMA ReadsKeeps ==
  ASSUME Types, NEW t \in Thread, NEW c \in Context, c # None, Sound(c), on[t] = c, Reads(t)
  PROVE  Sound(c)'
<1>1. PICK i \in End : i = arg[t].dir
  BY DEF Types, ThreadTypes
<1>2. /\ state[c][i] = "Ready"
      /\ at[t] = "loop" \/ (at[t] \in {"complete", "again"} /\ contextState[c] = "Established")
  BY <1>1 DEF Reads, Forwarding
<1>3. /\ \/ /\ state' = [state EXCEPT ![c][i] = "Read"]
            /\ io' = [io EXCEPT ![c][i] = "read"]
            /\ Proceeds(t)
         \/ /\ gone[c][i]
            /\ Disposing(t)
            /\ UNCHANGED <<state, io>>
      /\ UNCHANGED <<contextState, targets, contextList, cancelled, port, buffer, sent, taken,
                     received, ended, gone, told, needTransfer, bufferOffset>>
  BY <1>1 DEF Reads
<1>4. /\ state \in [Context -> [End -> {"Initialized", "Ready", "Read", "Write", "Shutdown"}]]
      /\ io \in [Context -> [End -> {"none", "nonce", "read", "write"}]]
  BY DEF Types, ContextTypes, OtherTypes
<1>5. Works(t, i) /\ Standing(t, c)
  BY <1>1, <1>2 DEF Works, Sound, Staffed, End
<1>6. io[c][i] = "none" /\ at[t] # "complete"
  BY <1>1, <1>2, <1>5 DEF Standing
<1>7. Given(c, i, taken[c][i])
  BY <1>2, <1>5, <1>6 DEF Sound, Flow, FlowOf
<1>8. targets[c] > 0
  BY <1>2 DEF Sound, Course, Types, ContextTypes
<1>9. /\ \A j \in End \ {i} : state'[c][j] = state[c][j] /\ io'[c][j] = io[c][j]
      /\ \/ state'[c][i] = "Read" /\ io'[c][i] = "read"
         \/ state'[c][i] = "Ready" /\ io'[c][i] = "none"
  BY <1>2, <1>3, <1>4, <1>6, AssignedAt
<1>10. Proceeds(t) \/ (Disposing(t) /\ MayEnd(c)')
  BY <1>3 DEF MayEnd, Gone
<1>11. Given(c, i, taken[c][i])'
  BY <1>3, <1>7 DEF Given
<1>. QED
  BY <1>1, <1>2, <1>3, <1>8, <1>9, <1>10, <1>11, ForwardStep

\* Direction i of c, when thread t works on it with a completion of n bytes.
LEMMA Completed ==
  ASSUME Types, NEW t \in Thread, NEW c \in Context, Sound(c), on[t] = c,
         NEW s \in {"Read", "Write"}, Forwarding(t, s)
  PROVE  \E i \in End, n \in Nat :
           /\ i = arg[t].dir /\ n = arg[t].bytes
           /\ at[t] = "complete" /\ contextState[c] = "Established"
           /\ state[c][i] = s /\ io[c][i] = "none"
           /\ Brought(c, i, n)
           /\ targets[c] > 0
<1>1. PICK i \in End : i = arg[t].dir
  BY DEF Types, ThreadTypes
<1>2. PICK n \in Nat : n = arg[t].bytes
  BY DEF Types, ThreadTypes
<1>3. /\ state[c][i] = s
      /\ at[t] = "loop" \/ (at[t] \in {"complete", "again"} /\ contextState[c] = "Established")
  BY <1>1 DEF Forwarding
<1>4. Works(t, i) /\ Standing(t, c)
  BY <1>1, <1>3 DEF Works, Sound, Staffed, End
<1>5. io[c][i] = "none" /\ at[t] = "complete"
  BY <1>3, <1>4 DEF Standing
<1>6. Brought(c, i, n)
  BY <1>1, <1>2, <1>5 DEF Sound, Flow, FlowOf
<1>7. targets[c] > 0
  BY <1>3 DEF Sound, Course, Types, ContextTypes
<1>. QED
  BY <1>1, <1>2, <1>3, <1>5, <1>6, <1>7

\* ... case Read, without data: the peer is told
LEMMA EndOfFileKeeps ==
  ASSUME Types, NEW t \in Thread, NEW c \in Context, c # None, Sound(c), on[t] = c, EndOfFile(t)
  PROVE  Sound(c)'
<1>1. PICK i \in End, n \in Nat :
           /\ i = arg[t].dir /\ n = arg[t].bytes
           /\ at[t] = "complete" /\ contextState[c] = "Established"
           /\ state[c][i] = "Read" /\ io[c][i] = "none"
           /\ Brought(c, i, n)
           /\ targets[c] > 0
  BY Completed DEF EndOfFile
<1>2. /\ state' = [state EXCEPT ![c][i] = "Shutdown"]
      /\ told' = [told EXCEPT ![c][PeerOf(i)] = TRUE]
      /\ IF state[c][PeerOf(i)] = "Shutdown" THEN Disposing(t) ELSE Proceeds(t)
      /\ UNCHANGED <<contextState, targets, contextList, cancelled, port, buffer, sent, taken,
                     received, ended, gone, io, needTransfer, bufferOffset>>
  BY <1>1 DEF EndOfFile, TellsPeer, BothShutdown
<1>3. /\ state \in [Context -> [End -> {"Initialized", "Ready", "Read", "Write", "Shutdown"}]]
      /\ told \in [Context -> [End -> BOOLEAN]]
  BY DEF Types, ContextTypes, EndTypes
<1>4. PeerOf(i) \in End /\ PeerOf(i) # i /\ PeerOf(PeerOf(i)) = i
      /\ \A j \in End : j = i \/ j = PeerOf(i)
  BY DEF PeerOf, End
<1>5. \A j \in End \ {i} : state'[c][j] = state[c][j]
  BY <1>2, <1>3, AssignedAt
<1>6. state'[c][i] = "Shutdown" /\ told'[c][PeerOf(i)] /\ \A j \in End : told[c][j] => told'[c][j]
  <2>1. state'[c][i] = "Shutdown"
    BY <1>2, <1>3
  <2>2. told'[c][PeerOf(i)] = TRUE /\ \A j \in End \ {PeerOf(i)} : told'[c][j] = told[c][j]
    BY <1>2, <1>3, <1>4, AssignedAt
  <2>3. QED
    BY <2>1, <2>2
<1>7. ASSUME Disposing(t), state[c][PeerOf(i)] = "Shutdown" PROVE MayEnd(c)'
  <2>1. \A j \in End : told'[c][j]
    <3>1. told[c][i]
      BY <1>4, <1>7 DEF Sound, Course
    <3>2. QED
      BY <1>4, <1>6, <3>1
  <2>2. Works(t, i) /\ Standing(t, c)
    BY <1>1 DEF Works, Sound, Staffed
  <2>3. \A k \in Packets(c) : port[c][k].dir # i /\ port[c][k].dir # PeerOf(i)
    BY <1>1, <1>7, <2>2 DEF Standing, Sound, Queued
  <2>4. port[c] = << >>
    <3>1. port[c] \in Seq(Packet)
      BY DEF Types, OtherTypes
    <3>2. CASE port[c] # << >>
      <4>1. 1 \in Packets(c) /\ port[c][1] \in Packet
        <5>1. Len(port[c]) \in Nat /\ Len(port[c]) # 0
          BY <3>1, <3>2, EmptySeq
        <5>2. 1 \in 1 .. Len(port[c])
          BY <5>1
        <5>3. QED
          BY <3>1, <5>2, ElementOfSeq DEF Packets
      <4>2. QED
        BY <1>4, <2>3, <4>1 DEF Packet
    <3>3. QED
      BY <3>2
  <2>5. \A j \in End : io'[c][j] = "none"
    <3>1. io[c][PeerOf(i)] = "none"
      <4>1. io[c][PeerOf(i)] \in {"none", "nonce", "read", "write"}
        BY <1>4 DEF Types, OtherTypes
      <4>2. QED
        BY <1>4, <1>7, <4>1 DEF Sound, Course
    <3>2. QED
      BY <1>1, <1>2, <1>4, <3>1
  <2>6. \A u \in Thread : on'[u] = c => at'[u] \notin {"delegated", "loop", "complete", "again"}
    <3>1. ThreadTypes
      BY DEF Types
    <3>2. at'[t] \in {"dispose", "disposeLast"} /\ Others(t)
      BY <1>7, <3>1, Disposed
    <3>3. ASSUME NEW u \in Thread \ {t}, on[u] = c,
                 at[u] \in {"delegated", "loop", "complete", "again"}
          PROVE  FALSE
      <4>1. Standing(u, c) /\ arg[u].dir \in End
        BY <3>1, <3>3 DEF Sound, Staffed, ThreadTypes
      <4>2. ~Works(u, i)
        BY <2>2, <3>3 DEF Standing
      <4>3. arg[u].dir = i \/ arg[u].dir = PeerOf(i)
        BY <1>4, <4>1
      <4>4. CASE at[u] = "delegated"
        BY <4>2, <4>4 DEF Works
      <4>5. CASE at[u] \in {"complete", "again"}
        <5>1. arg[u].dir = PeerOf(i)
          BY <4>2, <4>3, <4>5 DEF Works
        <5>2. Works(u, PeerOf(i))
          BY <4>5, <5>1 DEF Works
        <5>3. QED
          BY <1>4, <1>7, <4>1, <4>5, <5>1, <5>2 DEF Standing
      <4>6. CASE at[u] = "loop"
        <5>1. Works(u, 1) /\ 1 \in End
          BY <4>1, <4>6 DEF Works, End
        <5>2. state[c][1] = "Ready"
          BY <4>1, <4>6, <5>1 DEF Standing
        <5>3. QED
          BY <1>1, <1>4, <1>7, <5>1, <5>2
      <4>7. QED
        BY <3>3, <4>4, <4>5, <4>6
    <3>4. QED
      BY <3>2, <3>3 DEF Others
  <2>7. QED
    BY <1>2, <2>1, <2>4, <2>5, <2>6 DEF MayEnd, AtRest
<1>8. Proceeds(t) \/ (Disposing(t) /\ MayEnd(c)')
  BY <1>2, <1>7
<1>. QED
  BY <1>1, <1>2, <1>5, <1>6, <1>8, ForwardStep

\* ... case Read, with data: the write to the peer is begun
LEMMA ForwardsDataKeeps ==
  ASSUME Types, NEW t \in Thread, NEW c \in Context, c # None, Sound(c), on[t] = c,
         ForwardsData(t)
  PROVE  Sound(c)'
<1>1. PICK i \in End, n \in Nat :
           /\ i = arg[t].dir /\ n = arg[t].bytes
           /\ at[t] = "complete" /\ contextState[c] = "Established"
           /\ state[c][i] = "Read" /\ io[c][i] = "none"
           /\ Brought(c, i, n)
           /\ targets[c] > 0
  BY Completed DEF ForwardsData
<1>2. /\ n > 0
      /\ needTransfer' = [needTransfer EXCEPT ![c][i] = n]
      /\ bufferOffset' = [bufferOffset EXCEPT ![c][i] = 0]
      /\ state' = [state EXCEPT ![c][i] = "Write"]
      /\ Writes(t, c, i)
      /\ UNCHANGED <<contextState, targets, contextList, cancelled, port, buffer, sent, taken,
                     received, ended, gone, told>>
  BY <1>1 DEF ForwardsData
<1>3. /\ state \in [Context -> [End -> {"Initialized", "Ready", "Read", "Write", "Shutdown"}]]
      /\ io \in [Context -> [End -> {"none", "nonce", "read", "write"}]]
      /\ needTransfer \in [Context -> [End -> Int]]
      /\ bufferOffset \in [Context -> [End -> Nat]]
      /\ buffer[c][i] \in Seq(Nat) /\ taken[c][i] \in Nat
  BY DEF Types, ContextTypes, OtherTypes, EndTypes
<1>4. /\ state'[c][i] = "Write" /\ needTransfer'[c][i] = n /\ bufferOffset'[c][i] = 0
      /\ \A j \in End \ {i} :
           /\ state'[c][j] = state[c][j]
           /\ needTransfer'[c][j] = needTransfer[c][j]
           /\ bufferOffset'[c][j] = bufferOffset[c][j]
  BY <1>2, <1>3, AssignedAt
<1>5. /\ \A j \in End \ {i} : io'[c][j] = io[c][j]
      /\ \/ io'[c][i] = "write" /\ Proceeds(t)
         \/ io'[c][i] = "none" /\ Disposing(t) /\ gone[c][PeerOf(i)]
  BY <1>1, <1>2, <1>3, AssignedAt DEF Writes
<1>6. Proceeds(t) \/ (Disposing(t) /\ MayEnd(c)')
  <2>1. PeerOf(i) \in End
    BY DEF PeerOf, End
  <2>2. QED
    BY <1>2, <1>5, <2>1 DEF MayEnd, Gone
<1>7. Writing(c, i, 0)'
  <2>1. Holds(c, i) /\ n = Len(buffer[c][i]) /\ Given(c, i, taken[c][i] - n)
    BY <1>1, <1>2 DEF Brought
  <2>2. taken[c][i] - n = taken[c][i] - n + 0
    BY <1>3
  <2>3. n \in 1 .. Len(buffer[c][i]) /\ 0 = Len(buffer[c][i]) - n /\ 0 \in 0..n
    BY <1>2, <2>1
  <2>4. Holds(c, i)'
    BY <1>2, <2>1 DEF Holds
  <2>5. Given(c, i, taken[c][i] - n + 0)'
    BY <1>2, <2>1, <2>2 DEF Given
  <2>6. QED
    BY <1>2, <1>4, <2>3, <2>4, <2>5 DEF Writing
<1>. QED
  BY <1>1, <1>2, <1>4, <1>5, <1>6, <1>7, ForwardStep

\* The bytes that are left after n of them were written.
LEMMA Advanced ==
  ASSUME NEW T \in Nat, NEW w \in Int, NEW o \in Nat, NEW l \in Nat, NEW n \in Nat,
         w \in 1..l, o = l - w, w > n
  PROVE  /\ w - n \in 1..l /\ o + n = l - (w - n) /\ 0 \in 0 .. w - n
         /\ T - w + n = T - (w - n) + 0
OBVIOUS

\* ... case Write
LEMMA WrittenKeeps ==
  ASSUME Types, NEW t \in Thread, NEW c \in Context, c # None, Sound(c), on[t] = c, Written(t)
  PROVE  Sound(c)'
<1>1. PICK i \in End, n \in Nat :
           /\ i = arg[t].dir /\ n = arg[t].bytes
           /\ at[t] = "complete" /\ contextState[c] = "Established"
           /\ state[c][i] = "Write" /\ io[c][i] = "none"
           /\ Brought(c, i, n)
           /\ targets[c] > 0
  BY Completed DEF Written
<1> DEFINE w == needTransfer[c][i]
           o == bufferOffset[c][i]
           l == Len(buffer[c][i])
           T == taken[c][i]
<1>2. /\ needTransfer' = [needTransfer EXCEPT ![c][i] = @ - n]
      /\ \/ /\ w > n
            /\ bufferOffset' = [bufferOffset EXCEPT ![c][i] = @ + n]
            /\ Writes(t, c, i)
            /\ UNCHANGED state
         \/ /\ ~(w > n)
            /\ state' = [state EXCEPT ![c][i] = "Ready"]
            /\ Rearms(t, i)
            /\ UNCHANGED <<bufferOffset, io>>
      /\ UNCHANGED <<contextState, targets, contextList, cancelled, port, buffer, sent, taken,
                     received, ended, gone, told>>
  BY <1>1 DEF Written, Remaining, NextOffset
<1>3. /\ state \in [Context -> [End -> {"Initialized", "Ready", "Read", "Write", "Shutdown"}]]
      /\ io \in [Context -> [End -> {"none", "nonce", "read", "write"}]]
      /\ needTransfer \in [Context -> [End -> Int]]
      /\ bufferOffset \in [Context -> [End -> Nat]]
      /\ buffer[c][i] \in Seq(Nat)
  BY DEF Types, ContextTypes, OtherTypes
<1>4. T \in Nat /\ w \in Int /\ o \in Nat /\ l \in Nat
  BY <1>3, LenProperties DEF Types, EndTypes
<1>5. /\ Holds(c, i) /\ w \in 1..l /\ o = l - w /\ n \in 0..w
      /\ Given(c, i, T - w + n)
  BY <1>1 DEF Brought, Writing
<1>6. needTransfer'[c][i] = w - n /\ \A j \in End \ {i} : needTransfer'[c][j] = needTransfer[c][j]
  BY <1>2, <1>3, AssignedAt
<1>7. CASE w > n
  <2>0. /\ bufferOffset' = [bufferOffset EXCEPT ![c][i] = @ + n]
        /\ Writes(t, c, i)
        /\ UNCHANGED state
    BY <1>2, <1>7
  <2>1. bufferOffset'[c][i] = o + n /\ \A j \in End \ {i} : bufferOffset'[c][j] = bufferOffset[c][j]
    BY <1>3, <2>0, AssignedAt
  <2>2. /\ \A j \in End \ {i} : io'[c][j] = io[c][j]
        /\ \/ io'[c][i] = "write" /\ Proceeds(t)
           \/ io'[c][i] = "none" /\ Disposing(t) /\ gone[c][PeerOf(i)]
    BY <1>1, <1>3, <2>0, AssignedAt DEF Writes
  <2>3. Proceeds(t) \/ (Disposing(t) /\ MayEnd(c)')
    <3>1. PeerOf(i) \in End
      BY DEF PeerOf, End
    <3>2. QED
      BY <1>2, <2>2, <3>1 DEF MayEnd, Gone
  <2>4. Writing(c, i, 0)'
    <3>1. Holds(c, i)'
      BY <1>2, <1>5 DEF Holds
    <3>2. /\ w - n \in 1..l /\ o + n = l - (w - n) /\ 0 \in 0 .. w - n
          /\ T - w + n = T - (w - n) + 0
      <4>. HIDE DEF w, o, l, T
      <4>. QED
        BY <1>4, <1>5, <1>7, Advanced
    <3>3. Given(c, i, T - (w - n) + 0)
      BY <1>5, <3>2
    <3>4. /\ taken' = taken /\ received' = received /\ buffer' = buffer
          /\ needTransfer'[c][i] = w - n /\ bufferOffset'[c][i] = o + n
      BY <1>2, <1>6, <2>1
    <3>5. /\ Len(buffer'[c][i]) = l /\ taken'[c][i] = T
          /\ needTransfer'[c][i] = w - n /\ bufferOffset'[c][i] = o + n
      BY <3>4
    <3>6. /\ needTransfer'[c][i] \in 1 .. Len(buffer'[c][i])
          /\ bufferOffset'[c][i] = Len(buffer'[c][i]) - needTransfer'[c][i]
          /\ 0 \in 0 .. needTransfer'[c][i]
      <4>. HIDE DEF w, o, l, T
      <4>. QED
        BY <3>2, <3>5
    <3>7. Given(c, i, taken[c][i] - needTransfer[c][i] + 0)'
      <4>. HIDE DEF w, T
      <4>. QED
        BY <3>3, <3>4, <3>5 DEF Given
    <3>8. QED
      BY <3>1, <3>6, <3>7 DEF Writing
  <2>. HIDE DEF w, o, l, T
  <2>5. /\ arg[t].dir = i /\ at[t] = "complete" /\ contextState[c] = "Established"
        /\ targets[c] > 0
        /\ state'[c][i] = "Write"
    BY <1>1, <2>0
  <2>6. \A j \in End \ {i} :
          /\ state'[c][j] = state[c][j] /\ io'[c][j] = io[c][j]
          /\ needTransfer'[c][j] = needTransfer[c][j] /\ bufferOffset'[c][j] = bufferOffset[c][j]
    BY <1>6, <2>0, <2>1, <2>2
  <2>7. io'[c][i] = "none" \/ (io'[c][i] = "write" /\ Writing(c, i, 0)')
    BY <2>2, <2>4
  <2>8. QED
    BY <1>2, <2>3, <2>5, <2>6, <2>7, ForwardStep
<1>8. CASE ~(w > n)
  <2>0. /\ state' = [state EXCEPT ![c][i] = "Ready"]
        /\ Rearms(t, i)
        /\ UNCHANGED <<bufferOffset, io>>
    BY <1>2, <1>8
  <2>1. state'[c][i] = "Ready" /\ \A j \in End \ {i} : state'[c][j] = state[c][j]
    BY <1>3, <2>0, AssignedAt
  <2>2. T - w + n = T
    <3>. HIDE DEF w, o, l, T
    <3>. QED
      BY <1>4, <1>5, <1>8
  <2>3. Given(c, i, taken[c][i])'
    BY <1>2, <1>5, <2>2 DEF Given
  <2>. HIDE DEF w, o, l, T
  <2>4. /\ arg[t].dir = i /\ at[t] = "complete" /\ contextState[c] = "Established"
        /\ targets[c] > 0 /\ io'[c][i] = "none"
    BY <1>1, <2>0
  <2>5. \A j \in End \ {i} :
          /\ state'[c][j] = state[c][j] /\ io'[c][j] = io[c][j]
          /\ needTransfer'[c][j] = needTransfer[c][j] /\ bufferOffset'[c][j] = bufferOffset[c][j]
    BY <1>6, <2>0, <2>1
  <2>6. QED
    BY <1>2, <2>0, <2>1, <2>3, <2>4, <2>5, ForwardStep
<1>9. QED
  BY <1>7, <1>8
----------------------------------------------------------------------------
\* The other steps of DoIoCompletion

\* A thread that starts nothing and is about to start nothing leaves the directions of its
\* context sound, and the reasons to give it up where they were.
LEMMA Quits ==
  ASSUME Types, NEW t \in Thread, NEW c \in Context, c # None, Sound(c), on[t] = c,
         Others(t), on'[t] \in {c, None}, at'[t] \in {"raced", "idle", "dispose", "established"},
         UNCHANGED <<state, buffer, needTransfer, bufferOffset, targets, io, port, endVars>>
  PROVE  /\ \A u \in Thread : on'[u] = c => Standing(u, c)'
         /\ Queued(c)' /\ Flow(c)'
         /\ MayEnd(c) => MayEnd(c)'
<1>0. Staffed(c) /\ Queued(c) /\ Flow(c)
  BY DEF Sound
<1>1. \A j \in End : ~Works(t, j)'
  BY DEF Works
<1>2. \A u \in Thread \ {t} : on'[u] = c =>
        on[u] = c /\ at'[u] = at[u] /\ arg'[u] = arg[u] /\ \A j \in End : Works(u, j)' <=> Works(u, j)
  BY DEF Others, Works
<1>3. ASSUME NEW u \in Thread, on'[u] = c PROVE Standing(u, c)'
  <2>1. CASE u = t
    BY <1>1, <2>1 DEF Standing
  <2>2. CASE u # t
    <3>1. Standing(u, c)
      BY <1>0, <1>2, <1>3, <2>2 DEF Staffed
    <3>2. \A j \in End, v \in Thread : on'[v] = c /\ Works(v, j)' => on[v] = c /\ Works(v, j)
      BY <1>1, <1>2
    <3>3. on[u] = c /\ at'[u] = at[u] /\ arg'[u] = arg[u] /\ \A j \in End : Works(u, j)' <=> Works(u, j)
      BY <1>2, <1>3, <2>2
    <3>4. QED
      BY <3>1, <3>2, <3>3 DEF Standing, Packets
  <2>3. QED
    BY <2>1, <2>2
<1>4. Queued(c)'
  BY <1>0 DEF Queued, Packets, Gone
<1>5. ASSUME NEW j \in End PROVE FlowOf(c, j)'
  <2>1. FlowOf(c, j)
    BY <1>0 DEF Flow
  <2>2. \A n : Brought(c, j, n) => Brought(c, j, n)'
    BY DEF Brought, Writing, Holds, Given
  <2>3. \A u \in Thread : on'[u] = c =>
          /\ at'[u] = "complete" /\ arg'[u].dir = j => Brought(c, j, arg'[u].bytes)
          /\ at'[u] \in {"loop", "again"} /\ Works(u, j)' => Given(c, j, taken[c][j])
    BY <1>1, <1>2, <2>1 DEF FlowOf
  <2>4. \A u \in Thread : on'[u] = c =>
          /\ at'[u] = "complete" /\ arg'[u].dir = j => Brought(c, j, arg[u].bytes)'
          /\ at'[u] \in {"loop", "again"} /\ Works(u, j)' => Given(c, j, taken[c][j])'
    <3>. TAKE u \in Thread
    <3>1. CASE u = t
      BY <1>1, <3>1
    <3>2. CASE u # t
      BY <1>2, <2>2, <2>3, <3>2 DEF Given
    <3>3. QED
      BY <3>1, <3>2
  <2>5. \A u \in Thread : on'[u] = c /\ at'[u] = "complete" => arg'[u] = arg[u]
    BY <1>2
  <2>6. \A k \in Packets(c)' :
          port'[c][k].dir = j /\ port'[c][k].result = "transferred" => Brought(c, j, port[c][k].bytes)'
    BY <2>1, <2>2 DEF FlowOf, Packets
  <2>7. QED
    BY <2>1, <2>4, <2>5, <2>6 DEF FlowOf, Given, Writing, Holds
<1>6. MayEnd(c) => MayEnd(c)'
  BY <1>2 DEF MayEnd, AtRest, Gone
<1>7. QED
  BY <1>3, <1>4, <1>5, <1>6 DEF Flow

\* A thread in the handshake is alone with its context: nothing was started yet, or the
\* exchange that was is over.
LEMMA Alone ==
  ASSUME Types, NEW t \in Thread, NEW c \in Context, Sound(c), on[t] = c, Shaking(t)
  PROVE  /\ contextState[c] = "HandShake" /\ c \in contextList /\ targets[c] = 0
         /\ \A u \in Thread : on[u] = c => u = t
         /\ port[c] = << >>
         /\ \A i \in End : state[c][i] = "Initialized" /\ io[c][i] = "none" /\ ~told[c][i]
<1>1. at[t] \in {"delegated", "complete"} /\ contextState[c] = "HandShake"
      /\ \A u \in Thread : on[u] = c => u = t
  BY DEF Shaking, Shared
<1>2. c \in contextList /\ targets[c] = 0
  BY <1>1 DEF Sound, Course, Starting
<1>3. \A i \in End : state[c][i] = "Initialized" /\ (io[c][i] = "nonce" => i = 0) /\ ~told[c][i]
  BY <1>2 DEF Sound, Course
<1>4. Standing(t, c) /\ arg[t].dir \in End
  BY DEF Sound, Staffed, Types, ThreadTypes
<1>5. 0 \in End /\ Works(t, 0)
  BY <1>1, <1>3, <1>4 DEF Works, Standing, End
<1>6. io[c][0] = "none" /\ \A k \in Packets(c) : port[c][k].dir # 0
  BY <1>4, <1>5 DEF Standing
<1>7. \A i \in End : io[c][i] = "none"
  <2>. TAKE i \in End
  <2>1. io[c][i] \in {"none", "nonce", "read", "write"}
    BY DEF Types, OtherTypes
  <2>2. QED
    BY <1>3, <1>6, <2>1 DEF Sound, Course
<1>8. port[c] = << >>
  <2>1. port[c] \in Seq(Packet)
    BY DEF Types, OtherTypes
  <2>2. CASE port[c] # << >>
    <3>1. Len(port[c]) \in Nat /\ Len(port[c]) # 0
      BY <2>1, <2>2, EmptySeq
    <3>2. 1 \in Packets(c)
      BY <3>1 DEF Packets
    <3>3. port[c][1] \in Packet
      BY <2>1, <3>2, ElementOfSeq DEF Packets
    <3>4. port[c][1].dir \in End
      BY <3>3 DEF Packet
    <3>5. QED
      BY <1>3, <1>6, <3>2, <3>4 DEF Sound, Queued
  <2>3. QED
    BY <2>2
<1>9. QED
  BY <1>1, <1>2, <1>3, <1>7, <1>8

\* ... Races
LEMMA RacesKeeps ==
  ASSUME Types, NEW t \in Thread, NEW c \in Context, c # None, Sound(c), on[t] = c, Races(t)
  PROVE  Sound(c)'
<1>1. Others(t) /\ on'[t] = c /\ at'[t] = "raced"
  BY DEF Races, Others, Types, ThreadTypes
<1>2. UNCHANGED <<contextVars, managerVars, kernelVars, endVars>>
  BY DEF Races
<1>3. /\ \A u \in Thread : on'[u] = c => Standing(u, c)'
      /\ Queued(c)' /\ Flow(c)'
      /\ MayEnd(c) => MayEnd(c)'
  BY <1>1, <1>2, Quits
<1>4. Staffed(c) /\ Course(c) /\ Ending(c)
  BY DEF Sound
<1>5. contextState[c] = "HandShake" /\ Starting(c) => Starting(c)'
  BY <1>1 DEF Races, Starting, Others
<1>6. Course(c)'
  BY <1>2, <1>4, <1>5 DEF Course
<1>7. Staffed(c)' /\ Ending(c)'
  BY <1>1, <1>2, <1>3, <1>4 DEF Staffed, Ending, Others
<1>8. QED
  BY <1>3, <1>6, <1>7 DEF Sound

\* ... Rejects and NoPeer
LEMMA RefusesKeeps ==
  ASSUME Types, NEW t \in Thread, NEW c \in Context, c # None, Sound(c), on[t] = c,
         Rejects(t) \/ NoPeer(t)
  PROVE  Sound(c)'
<1>0. Staffed(c) /\ Course(c) /\ Ending(c) /\ ThreadTypes
  BY DEF Sound, Types
<1>1. Others(t) /\ on'[t] = c /\ at'[t] = "dispose"
  BY <1>0, Moved DEF Rejects, NoPeer
<1>2. UNCHANGED <<contextVars, managerVars, kernelVars, endVars>>
  BY DEF Rejects, NoPeer
<1>3. /\ \A u \in Thread : on'[u] = c => Standing(u, c)'
      /\ Queued(c)' /\ Flow(c)'
      /\ MayEnd(c) => MayEnd(c)'
  BY <1>1, <1>2, Quits
<1>4. MayEnd(c)'
  <2>1. CASE Shaking(t)
    BY <1>1, <1>2, <2>1, Alone DEF MayEnd, AtRest, Others
  <2>2. CASE ~Shaking(t)
    <3>1. contextState[c] \notin {"HandShake", "Established"}
      BY <2>2 DEF Rejects, NoPeer
    <3>2. contextState[c] \in {"Initialized", "HandShake", "Established", "Destroyed"}
      BY DEF Types, ContextTypes
    <3>3. contextState[c] # "Initialized" /\ c \notin contextList
      BY <1>0, <3>1, <3>2 DEF Staffed, Course
    <3>4. QED
      BY <1>0, <1>3, <3>3 DEF Ending
  <2>3. QED
    BY <2>1, <2>2
<1>5. Course(c)'
  BY <1>0, <1>1, <1>2 DEF Course, Starting, Others
<1>6. Staffed(c)' /\ Ending(c)'
  BY <1>0, <1>1, <1>2, <1>3, <1>4 DEF Staffed, Ending, Others
<1>7. QED
  BY <1>3, <1>5, <1>6 DEF Sound

\* ... LeavesLoop
LEMMA LeavesLoopKeeps ==
  ASSUME Types, NEW t \in Thread, NEW c \in Context, c # None, Sound(c), on[t] = c, LeavesLoop(t)
  PROVE  Sound(c)'
<1>0. Staffed(c) /\ Course(c) /\ Ending(c) /\ ThreadTypes
  BY DEF Sound, Types
<1>1. Others(t) /\ on'[t] = None /\ at'[t] = "idle"
  BY <1>0, Returned DEF LeavesLoop
<1>2. UNCHANGED <<contextVars, managerVars, kernelVars, endVars>> /\ contextState[c] = "Destroyed"
  BY DEF LeavesLoop
<1>3. /\ \A u \in Thread : on'[u] = c => Standing(u, c)'
      /\ Queued(c)' /\ Flow(c)'
      /\ MayEnd(c) => MayEnd(c)'
  BY <1>1, <1>2, Quits
<1>4. Course(c)'
  BY <1>0, <1>2 DEF Course
<1>5. Staffed(c)' /\ Ending(c)'
  BY <1>0, <1>1, <1>2, <1>3 DEF Staffed, Ending, Others
<1>6. QED
  BY <1>3, <1>4, <1>5 DEF Sound

\* ... Establishes
LEMMA EstablishesKeeps ==
  ASSUME Types, NEW t \in Thread, NEW c \in Context, c # None, Sound(c), on[t] = c, Establishes(t)
  PROVE  Sound(c)'
<1>0. Staffed(c) /\ Course(c) /\ Ending(c) /\ ThreadTypes
  BY DEF Sound, Types
<1>1. Others(t) /\ on'[t] = None /\ at'[t] = "idle"
  BY <1>0, Returned DEF Establishes
<1>2. /\ UNCHANGED <<state, buffer, needTransfer, bufferOffset, targets, io, port, endVars,
                     contextList, cancelled>>
      /\ contextState'[c] = "Established"
  BY DEF Establishes, Types, ContextTypes
<1>3. /\ \A u \in Thread : on'[u] = c => Standing(u, c)'
      /\ Queued(c)' /\ Flow(c)'
      /\ MayEnd(c) => MayEnd(c)'
  BY <1>1, <1>2, Quits
<1>4. contextState[c] # "Initialized"
  BY <1>0 DEF Staffed
<1>5. Course(c)'
  BY <1>0, <1>2, <1>4 DEF Course
<1>6. c \in contextList \/ \A u \in Thread : on[u] = c => u = t
  <2>1. contextState[c] \in {"Initialized", "HandShake", "Established", "Destroyed"}
    BY DEF Types, ContextTypes
  <2>2. CASE contextState[c] = "Destroyed"
    BY <2>2 DEF Establishes, Shared
  <2>3. QED
    BY <1>0, <1>4, <2>1, <2>2 DEF Staffed, Course
<1>7. Staffed(c)'
  BY <1>1, <1>2, <1>3, <1>6 DEF Staffed, Others
<1>8. Ending(c)'
  BY <1>0, <1>1, <1>2, <1>3, <1>4 DEF Ending, Others
<1>9. QED
  BY <1>3, <1>5, <1>7, <1>8 DEF Sound

\* ... Disposes
LEMMA DisposesKeeps ==
  ASSUME Types, NEW t \in Thread, NEW c \in Context, c # None, Sound(c), on[t] = c, Disposes(t)
  PROVE  Sound(c)'
<1>0. Staffed(c) /\ Course(c) /\ Ending(c) /\ ThreadTypes
  BY DEF Sound, Types
<1>1. Others(t) /\ on'[t] \in {c, None} /\ at'[t] \in {"idle", "established"}
  BY <1>0, Moved, Returned DEF Disposes
<1>2. UNCHANGED <<state, buffer, needTransfer, bufferOffset, targets, io, port, endVars>>
  BY DEF Disposes
<1>3. /\ \A u \in Thread : on'[u] = c => Standing(u, c)'
      /\ Queued(c)' /\ Flow(c)'
      /\ MayEnd(c) => MayEnd(c)'
  BY <1>1, <1>2, Quits
<1>4. contextState'[c] = "Destroyed" /\ c \notin contextList' /\ cancelled'[c]
  <2>1. CASE contextState[c] = "Destroyed"
    BY <1>0, <2>1 DEF Disposes, Course
  <2>2. CASE contextState[c] # "Destroyed"
    BY <2>2 DEF Disposes, Types, ContextTypes, OtherTypes
  <2>3. QED
    BY <2>1, <2>2
<1>5. contextState[c] # "Initialized"
  BY <1>0 DEF Staffed
<1>6. Course(c)'
  BY <1>0, <1>2, <1>4, <1>5 DEF Course
<1>7. MayEnd(c)'
  BY <1>0, <1>3 DEF Ending, Disposes
<1>8. Staffed(c)' /\ Ending(c)'
  BY <1>3, <1>4, <1>7 DEF Staffed, Ending
<1>9. QED
  BY <1>3, <1>6, <1>8 DEF Sound

\* ... HandshakeContinues
LEMMA HandshakeContinuesKeeps ==
  ASSUME Types, NEW t \in Thread, NEW c \in Context, c # None, Sound(c), on[t] = c,
         HandshakeContinues(t)
  PROVE  Sound(c)'
<1>0. /\ contextState[c] = "HandShake" /\ c \in contextList /\ targets[c] = 0
      /\ \A u \in Thread : on[u] = c => u = t
      /\ port[c] = << >>
      /\ \A i \in End : state[c][i] = "Initialized" /\ io[c][i] = "none" /\ ~told[c][i]
  BY Alone DEF HandshakeContinues
<1>1. \A u \in Thread : on'[u] # c
  BY <1>0, Returned DEF HandshakeContinues, Types, Others
<1>2. UNCHANGED <<contextState, state, buffer, needTransfer, bufferOffset, targets,
                  managerVars, cancelled, port, endVars>>
  BY DEF HandshakeContinues
<1>3. 0 \in End /\ io'[c][0] = "nonce" /\ \A i \in End \ {0} : io'[c][i] = "none"
  <2>1. io \in [Context -> [End -> {"none", "nonce", "read", "write"}]] /\ 0 \in End
    BY DEF Types, OtherTypes, End
  <2>2. io' = [io EXCEPT ![c][0] = "nonce"]
    BY DEF HandshakeContinues
  <2>3. QED
    BY <1>0, <2>1, <2>2, AssignedAt
<1>4. Staffed(c)' /\ Ending(c)'
  BY <1>0, <1>1, <1>2 DEF Staffed, Ending
<1>5. Course(c)'
  BY <1>0, <1>2, <1>3 DEF Sound, Course
<1>6. \A k \in Packets(c)' : FALSE
  BY <1>0, <1>2 DEF Packets
<1>7. Queued(c)'
  BY <1>6 DEF Queued
<1>8. ASSUME NEW i \in End PROVE FlowOf(c, i)'
  <2>1. FlowOf(c, i)
    BY DEF Sound, Flow
  <2>2. io'[c][i] \notin {"read", "write"}
    BY <1>3
  <2>3. QED
    BY <1>1, <1>2, <1>6, <2>1, <2>2 DEF FlowOf, Given
<1>9. QED
  BY <1>4, <1>5, <1>7, <1>8 DEF Sound, Flow

\* ... PreparesPeer
LEMMA PreparesPeerKeeps ==
  ASSUME Types, NEW t \in Thread, NEW c \in Context, c # None, Sound(c), on[t] = c, PreparesPeer(t)
  PROVE  Sound(c)'
<1>0. /\ contextState[c] = "HandShake" /\ c \in contextList /\ targets[c] = 0
      /\ \A u \in Thread : on[u] = c => u = t
      /\ port[c] = << >>
      /\ \A i \in End : state[c][i] = "Initialized" /\ io[c][i] = "none" /\ ~told[c][i]
  BY Alone DEF PreparesPeer
<1>1. on'[t] = c /\ at'[t] = "loop" /\ \A u \in Thread : on'[u] = c => u = t
  BY <1>0, Moved DEF PreparesPeer, Types, Others
<1>2. UNCHANGED <<contextState, buffer, needTransfer, bufferOffset, managerVars, kernelVars, endVars>>
  BY DEF PreparesPeer
<1>3. targets'[c] = 1 /\ \A i \in End : state'[c][i] = "Ready"
  <2>1. /\ state' = [state EXCEPT ![c] = [i \in End |-> "Ready"]]
        /\ targets' = [targets EXCEPT ![c] = @ + 1]
        /\ state \in [Context -> [End -> {"Initialized", "Ready", "Read", "Write", "Shutdown"}]]
        /\ targets \in [Context -> Nat]
    BY DEF PreparesPeer, Types, ContextTypes
  <2>2. QED
    BY <1>0, <2>1
<1>4. \A k \in Packets(c)' : FALSE
  BY <1>0, <1>2 DEF Packets
<1>5. Staffed(c)'
  <2>1. Standing(t, c)'
    BY <1>0, <1>1, <1>2, <1>3, <1>4 DEF Standing
  <2>2. QED
    BY <1>0, <1>1, <1>2, <2>1 DEF Staffed
<1>6. Course(c)'
  <2>1. Starting(c)'
    BY <1>1 DEF Starting
  <2>2. Course(c)
    BY DEF Sound
  <2>3. QED
    BY <1>0, <1>2, <1>3, <2>1, <2>2 DEF Course
<1>7. Queued(c)'
  BY <1>4 DEF Queued
<1>8. ASSUME NEW i \in End PROVE FlowOf(c, i)'
  <2>1. taken[c][i] <= sent[c][i] /\ Given(c, i, taken[c][i])
    BY <1>0 DEF Sound, Flow, FlowOf
  <2>2. Given(c, i, taken[c][i])'
    BY <1>2, <2>1 DEF Given
  <2>3. QED
    BY <1>0, <1>1, <1>2, <1>3, <1>4, <2>1, <2>2 DEF FlowOf
<1>9. Ending(c)'
  BY <1>0, <1>1, <1>2 DEF Ending
<1>10. QED
  BY <1>5, <1>6, <1>7, <1>8, <1>9 DEF Sound, Flow

\* Every step of DoIoCompletion leaves its context sound.
LEMMA ThreadKeeps ==
  ASSUME Types, NEW t \in Thread, NEW c \in Context, Sound(c), on[t] = c, DoIoCompletion(t)
  PROVE  Sound(c)'
<1>1. c # None
  BY ForwardAssumption
<1>2. QED
  BY <1>1, RacesKeeps, HandshakeContinuesKeeps, RefusesKeeps, PreparesPeerKeeps, LeavesLoopKeeps,
     EstablishesKeeps, ReadsKeeps, EndOfFileKeeps, ForwardsDataKeeps, WrittenKeeps, DisposesKeeps
     DEF DoIoCompletion
----------------------------------------------------------------------------
\* The kernel

\* A packet of a new direction leaves one at most for each.
LEMMA OnePacketMore ==
  ASSUME NEW p, NEW q, NEW len \in Nat,
         \A k \in 1..len : q[k] = p[k] /\ p[k].dir # q[len + 1].dir,
         \A j, k \in 1..len : p[j].dir = p[k].dir => j = k
  PROVE  \A j, k \in 1 .. len + 1 : q[j].dir = q[k].dir => j = k
<1>1. \A k \in 1 .. len + 1 : k \in 1..len \/ k = len + 1
  OBVIOUS
<1>2. QED
  BY <1>1

\* The packet of an operation that is over takes its place.
LEMMA CompletesKeeps ==
  ASSUME Types, NEW c \in Context, Sound(c), NEW i \in End, io[c][i] # "none",
         NEW r \in {"transferred", "failed", "aborted"}, NEW n \in Nat,
         io' = [io EXCEPT ![c][i] = "none"],
         port' = [port EXCEPT ![c] = Append(@, [dir |-> i, result |-> r, bytes |-> n])],
         r = "failed" => Gone(c),
         r = "transferred" => Brought(c, i, n)',
         UNCHANGED <<contextState, state, needTransfer, bufferOffset, targets, managerVars,
                     cancelled, threadVars, sent, ended, gone, told>>,
         taken'[c][i] <= sent[c][i],
         state[c][i] = "Initialized" => Given(c, i, taken[c][i])',
         \A j \in End \ {i} :
           /\ buffer'[c][j] = buffer[c][j] /\ taken'[c][j] = taken[c][j]
           /\ received'[c][PeerOf(j)] = received[c][PeerOf(j)]
  PROVE  Sound(c)'
<1>0. Staffed(c) /\ Course(c) /\ Queued(c) /\ Flow(c) /\ Ending(c)
  BY DEF Sound
<1> DEFINE new == [dir |-> i, result |-> r, bytes |-> n]
<1>1. io'[c][i] = "none" /\ \A j \in End \ {i} : io'[c][j] = io[c][j]
  BY AssignedAt DEF Types, OtherTypes
<1>2. PICK len \in Nat : /\ Packets(c) = 1..len /\ Packets(c)' = 1 .. len + 1
                         /\ port'[c][len + 1] = new
                         /\ \A k \in 1..len : port'[c][k] = port[c][k] /\ port[c][k] \in Packet
  <2>1. port[c] \in Seq(Packet) /\ new \in Packet /\ port'[c] = Append(port[c], new)
    BY DEF Types, OtherTypes, Packet
  <2>2. Len(port[c]) \in Nat /\ \A k \in 1 .. Len(port[c]) : port[c][k] \in Packet
    BY <2>1, LenProperties, ElementOfSeq
  <2>3. /\ Len(port'[c]) = Len(port[c]) + 1
        /\ \A k \in 1 .. Len(port[c]) : port'[c][k] = port[c][k]
        /\ port'[c][Len(port[c]) + 1] = new
    <3>. HIDE DEF new
    <3>. QED
      BY <2>1, AppendProperties
  <2>4. QED
    BY <2>2, <2>3 DEF Packets
<1>3. new.dir = i /\ new.result = r /\ new.bytes = n
  OBVIOUS
<1>. HIDE DEF new
<1>4. \A k \in Packets(c)' : \/ k \in Packets(c) /\ port'[c][k] = port[c][k]
                             \/ k = len + 1 /\ port'[c][k] = new
  <2>1. \A k \in 1 .. len + 1 : k \in 1..len \/ k = len + 1
    OBVIOUS
  <2>2. QED
    BY <1>2, <2>1
<1>5. \A k \in Packets(c) : port[c][k].dir # i /\ port[c][k].dir \in End
  BY <1>0, <1>2 DEF Queued, Packet
<1>6. \A u \in Thread : on[u] = c => ~Works(u, i)
  BY <1>0 DEF Staffed, Standing
<1>7. \A u \in Thread, j \in End : Works(u, j)' <=> Works(u, j)
  BY DEF Works
<1>8. Staffed(c)'
  <2>1. ASSUME NEW u \in Thread, on[u] = c PROVE Standing(u, c)'
    <3>1. Standing(u, c)
      BY <1>0, <2>1 DEF Staffed
    <3>2. \A j \in End : Works(u, j) => j # i /\ io'[c][j] = "none"
      BY <1>1, <1>6, <2>1, <3>1 DEF Standing
    <3>3. ASSUME NEW j \in End, Works(u, j), NEW k \in Packets(c)'
          PROVE  port'[c][k].dir # j
      <4>1. CASE k \in Packets(c) /\ port'[c][k] = port[c][k]
        BY <3>1, <3>3, <4>1 DEF Standing
      <4>2. CASE port'[c][k] = new
        BY <1>3, <3>2, <3>3, <4>2
      <4>3. QED
        BY <1>4, <4>1, <4>2
    <3>4. QED
      BY <1>7, <3>1, <3>2, <3>3 DEF Standing
  <2>2. QED
    BY <1>0, <2>1 DEF Staffed
<1>9. Course(c)'
  <2>1. contextState[c] # "Initialized"
    BY <1>0 DEF Course
  <2>2. Starting(c) => Starting(c)'
    BY DEF Starting
  <2>3. ASSUME NEW j \in End PROVE InCourse(c, j)'
    <3>1. InCourse(c, j)
      BY <1>0 DEF Course, InCourse
    <3>2. /\ UNCHANGED <<targets, state, told, contextState>>
          /\ io'[c][j] \in {io[c][j], "none"}
      BY <1>1
    <3>3. QED
      BY <3>1, <3>2 DEF InCourse
  <2>4. QED
    BY <1>0, <2>1, <2>2, <2>3 DEF Course, InCourse
<1>10. Queued(c)'
  <2>1. \A j, k \in Packets(c)' : port'[c][j].dir = port'[c][k].dir => j = k
    <3> DEFINE p == port[c]
               q == port'[c]
    <3>1. \A k \in 1..len : q[k] = p[k] /\ p[k].dir # q[len + 1].dir
      BY <1>2, <1>3, <1>5
    <3>2. \A j, k \in 1..len : p[j].dir = p[k].dir => j = k
      BY <1>0, <1>2 DEF Queued
    <3>3. \A j, k \in 1 .. len + 1 : q[j].dir = q[k].dir => j = k
      <4>. HIDE DEF p, q
      <4>. QED
        BY <3>1, <3>2, OnePacketMore
    <3>4. QED
      BY <1>2, <3>3
  <2>2. state[c][i] \in {"Initialized", "Read", "Write"} /\ (state[c][i] = "Initialized" => i = 0)
    <3>1. io[c][i] \in {"none", "nonce", "read", "write"}
      BY DEF Types, OtherTypes
    <3>2. QED
      BY <1>0, <3>1 DEF Course
  <2>3. ASSUME NEW k \in Packets(c)'
        PROVE  /\ io'[c][port'[c][k].dir] = "none"
               /\ state[c][port'[c][k].dir] \in {"Initialized", "Read", "Write"}
               /\ state[c][port'[c][k].dir] = "Initialized" => port'[c][k].dir = 0
               /\ port'[c][k].result = "failed" => Gone(c)
    <3>1. CASE k \in Packets(c) /\ port'[c][k] = port[c][k]
      <4>1. PICK d \in End \ {i} : port[c][k].dir = d
        BY <1>5, <3>1
      <4>2. /\ io[c][d] = "none"
            /\ state[c][d] \in {"Initialized", "Read", "Write"}
            /\ state[c][d] = "Initialized" => d = 0
            /\ port[c][k].result = "failed" => Gone(c)
        BY <1>0, <3>1, <4>1 DEF Queued
      <4>3. io'[c][d] = "none"
        BY <1>1, <4>2
      <4>4. QED
        BY <3>1, <4>1, <4>2, <4>3
    <3>2. CASE port'[c][k] = new
      BY <1>1, <1>3, <2>2, <3>2
    <3>3. QED
      BY <1>4, <3>1, <3>2
  <2>4. QED
    BY <2>1, <2>3 DEF Queued, Gone
<1>11. Flow(c)'
  <2>1. FlowOf(c, i)'
    <3>1. FlowOf(c, i)
      BY <1>0 DEF Flow
    <3>2. \A u \in Thread : on[u] = c => ~(at[u] = "complete" /\ arg[u].dir = i)
      BY <1>6 DEF Works
    <3>3. ASSUME NEW k \in Packets(c)', port'[c][k].dir = i, port'[c][k].result = "transferred"
          PROVE  Brought(c, i, port[c][k].bytes)'
      <4>1. port'[c][k] = new
        BY <1>4, <1>5, <3>3
      <4>2. port'[c][k].bytes = n /\ Brought(c, i, n)'
        BY <1>3, <3>3, <4>1
      <4>3. QED
        BY <4>2
    <3>4. QED
      BY <1>1, <1>6, <1>7, <3>2, <3>3 DEF FlowOf
  <2>2. ASSUME NEW j \in End \ {i} PROVE FlowOf(c, j)'
    <3>1. FlowOf(c, j)
      BY <1>0 DEF Flow
    <3>2. \A m : Brought(c, j, m) => Brought(c, j, m)'
      BY DEF Brought, Writing, Holds, Given
    <3>3. /\ Given(c, j, taken[c][j]) => Given(c, j, taken[c][j])'
          /\ Writing(c, j, 0) => Writing(c, j, 0)'
      BY DEF Writing, Holds, Given
    <3>4. ASSUME NEW k \in Packets(c)', port'[c][k].dir = j, port'[c][k].result = "transferred"
          PROVE  Brought(c, j, port[c][k].bytes)'
      <4>1. k \in Packets(c) /\ port'[c][k] = port[c][k]
        BY <1>3, <1>4, <3>4
      <4>2. Brought(c, j, port[c][k].bytes)
        BY <3>1, <3>4, <4>1 DEF FlowOf
      <4>3. QED
        BY <3>2, <4>1, <4>2
    <3>5. ASSUME NEW u \in Thread, on[u] = c
          PROVE  /\ at[u] = "complete" /\ arg[u].dir = j => Brought(c, j, arg[u].bytes)'
                 /\ at[u] \in {"loop", "again"} /\ Works(u, j) => Given(c, j, taken[c][j])'
      BY <3>1, <3>2, <3>3, <3>5 DEF FlowOf
    <3>6. QED
      BY <1>1, <1>7, <3>1, <3>3, <3>4, <3>5 DEF FlowOf
  <2>3. QED
    BY <2>1, <2>2 DEF Flow
<1>12. Ending(c)'
  <2>1. MayEnd(c) => MayEnd(c)'
    BY DEF MayEnd, AtRest, Gone
  <2>2. QED
    BY <1>0, <2>1 DEF Ending
<1>13. QED
  BY <1>8, <1>9, <1>10, <1>11, <1>12 DEF Sound

\* ... when the bytes that it brought are the next ones of the stream,
LEMMA DataArrivesKeeps ==
  ASSUME Types, NEW c \in Context, Sound(c), NEW i \in End, DataArrives(c, i)
  PROVE  Sound(c)'
<1>1. PICK n \in 1..MAX_BUFFER_SIZE :
        /\ taken[c][i] + n <= sent[c][i]
        /\ taken' = [taken EXCEPT ![c][i] = @ + n]
        /\ buffer' = [buffer EXCEPT ![c][i] = [k \in 1..n |-> taken[c][i] + k]]
        /\ io' = [io EXCEPT ![c][i] = "none"]
        /\ port' = [port EXCEPT ![c] = Append(@, [dir |-> i, result |-> "transferred", bytes |-> n])]
  BY DEF DataArrives
<1>2. n \in Nat /\ n > 0
  BY ForwardAssumption
<1>3. /\ io[c][i] = "read"
      /\ UNCHANGED <<contextState, state, needTransfer, bufferOffset, handshake, targets,
                     managerVars, cancelled, sent, received, ended, gone, told, threadVars>>
  BY DEF DataArrives
<1>4. taken \in [Context -> [End -> Nat]] /\ buffer \in [Context -> [End -> Seq(Nat)]]
  BY DEF Types, ContextTypes, EndTypes
<1>5. taken'[c][i] = taken[c][i] + n /\ \A j \in End \ {i} : taken'[c][j] = taken[c][j]
  BY <1>1, <1>4, AssignedAt
<1>6. /\ buffer'[c][i] = [k \in 1..n |-> taken[c][i] + k]
      /\ \A j \in End \ {i} : buffer'[c][j] = buffer[c][j]
  BY <1>1, <1>4, AssignedAt
<1>7. state[c][i] = "Read" /\ Given(c, i, taken[c][i])
  BY <1>3 DEF Sound, Course, Flow, FlowOf
<1>8. Brought(c, i, n)'
  <2>1. Len(buffer'[c][i]) = n
    BY <1>2, <1>4, <1>6
  <2>2. Holds(c, i)'
    <3>1. taken[c][i] \in Nat
      BY <1>4
    <3>2. n <= taken'[c][i] /\ \A k \in 1..n : buffer'[c][i][k] = taken'[c][i] - n + k
      BY <1>2, <1>5, <1>6, <3>1
    <3>3. QED
      BY <2>1, <3>2 DEF Holds
  <2>3. taken'[c][i] - n = taken[c][i]
    BY <1>2, <1>4, <1>5
  <2>4. Given(c, i, taken[c][i] - n)'
    BY <1>3, <1>7, <2>3 DEF Given
  <2>5. QED
    BY <1>2, <1>3, <1>7, <2>1, <2>2, <2>4 DEF Brought
<1>9. QED
  BY <1>1, <1>2, <1>3, <1>5, <1>6, <1>7, <1>8, CompletesKeeps

\* ... or the peer was given the next piece of the buffer,
LEMMA DataLeavesKeeps ==
  ASSUME Types, NEW c \in Context, Sound(c), NEW i \in End, DataLeaves(c, i)
  PROVE  Sound(c)'
<1>1. Writing(c, i, 0) /\ state[c][i] = "Write" /\ taken[c][i] <= sent[c][i]
  BY DEF DataLeaves, Sound, Course, Flow, FlowOf
<1> DEFINE w == needTransfer[c][i]
           T == taken[c][i]
<1>2. PICK n \in 1..w :
        /\ Completes(c, i, "transferred", n)
        /\ received' = [received EXCEPT ![c][PeerOf(i)] =
             @ \o SubSeq(buffer[c][i], bufferOffset[c][i] + 1, bufferOffset[c][i] + n)]
  BY DEF DataLeaves
<1>3. w \in Int /\ T \in Nat /\ received \in [Context -> [End -> Seq(Nat)]]
  BY DEF Types, ContextTypes, EndTypes
<1>4. n \in Nat /\ n \in 0..w
  BY <1>2, <1>3
<1>5. PeerOf(i) \in End /\ \A j \in End \ {i} : PeerOf(j) \in End \ {PeerOf(i)}
  BY DEF PeerOf, End
<1>6. T - w + n \in Nat /\ received' = [received EXCEPT ![c][PeerOf(i)] = First(T - w + n)]
  BY <1>1, <1>2, Delivered
<1>7. received'[c][PeerOf(i)] = First(T - w + n)
  BY <1>3, <1>5, <1>6, AssignedAt
<1>8. \A j \in End \ {i} : received'[c][PeerOf(j)] = received[c][PeerOf(j)]
  BY <1>3, <1>5, <1>6, AssignedAt
<1>9. /\ io[c][i] # "none"
      /\ UNCHANGED <<contextVars, managerVars, cancelled, threadVars, sent, taken, ended, gone, told>>
  BY <1>2 DEF DataLeaves, Completes
<1>10. Writing(c, i, n)'
  <2>1. Given(c, i, taken[c][i] - needTransfer[c][i] + n)'
    BY <1>6, <1>7, <1>9 DEF Given
  <2>2. Holds(c, i)'
    BY <1>1, <1>9 DEF Writing, Holds
  <2>3. QED
    BY <1>1, <1>4, <1>9, <2>1, <2>2 DEF Writing
<1>11. Brought(c, i, n)'
  BY <1>1, <1>9, <1>10 DEF Brought
<1>12. QED
  BY <1>1, <1>2, <1>4, <1>8, <1>9, <1>11, CompletesKeeps DEF Completes

\* ... or nothing was brought.
LEMMA KernelKeeps ==
  ASSUME Types, NEW c \in Context, Sound(c), Kernel(c)
  PROVE  Sound(c)'
<1>0. 0 \in End /\ \A i \in End : PeerOf(i) \in End
  BY DEF End, PeerOf
<1>1. ASSUME NEW i \in End, NEW r \in {"transferred", "failed", "aborted"}, NEW n \in Nat,
             io[c][i] # "none", Completes(c, i, r, n), UNCHANGED endVars,
             r = "failed" => Gone(c),
             r = "transferred" => Brought(c, i, n)
      PROVE  Sound(c)'
  <2>1. FlowOf(c, i)
    BY DEF Sound, Flow
  <2>2. Brought(c, i, n) => Brought(c, i, n)'
    BY <1>1 DEF Completes, Brought, Writing, Holds, Given
  <2>3. Given(c, i, taken[c][i]) => Given(c, i, taken[c][i])'
    BY <1>1 DEF Given
  <2>4. taken'[c][i] <= sent[c][i] /\ (state[c][i] = "Initialized" => Given(c, i, taken[c][i])')
    BY <1>1, <2>1, <2>3 DEF FlowOf
  <2>5. QED
    BY <1>1, <2>2, <2>4, CompletesKeeps DEF Completes
<1>2. ASSUME NEW n \in {0, 1}, NonceArrives(c, n) PROVE Sound(c)'
  <2>1. state[c][0] = "Initialized" /\ io[c][0] = "nonce"
    BY <1>0, <1>2 DEF NonceArrives, Sound, Course
  <2>2. Brought(c, 0, n)
    BY <2>1 DEF Brought
  <2>3. n \in Nat /\ io[c][0] # "none"
    BY <2>1
  <2>4. QED
    BY <1>0, <1>1, <1>2, <2>2, <2>3 DEF NonceArrives
<1>3. ASSUME NEW i \in End, StreamEnds(c, i) PROVE Sound(c)'
  <2>1. /\ io[c][i] = "read" /\ state[c][i] = "Read"
        /\ ended[c][i] /\ taken[c][i] = sent[c][i] /\ Given(c, i, taken[c][i])
    BY <1>3 DEF StreamEnds, Sound, Course, Flow, FlowOf
  <2>2. Brought(c, i, 0)
    BY <2>1 DEF Brought
  <2>3. QED
    BY <1>1, <1>3, <2>1, <2>2 DEF StreamEnds
<1>4. ASSUME NEW i \in End, OperationFails(c, i) PROVE Sound(c)'
  <2>1. Gone(c) /\ io[c][i] # "none"
    BY <1>0, <1>4 DEF OperationFails, Gone
  <2>2. QED
    BY <1>1, <1>4, <2>1 DEF OperationFails
<1>5. ASSUME NEW i \in End, OperationAborted(c, i) PROVE Sound(c)'
  BY <1>1, <1>5 DEF OperationAborted
<1>6. QED
  BY <1>2, <1>3, <1>4, <1>5, DataArrivesKeeps, DataLeavesKeeps DEF Kernel

----------------------------------------------------------------------------
\* The ends

\* The steps of the programs at the ends keep a context sound.
LEMMA EndsKeep ==
  ASSUME Types, NEW c \in Context, Sound(c), NEW i \in End,
         Sends(c, i) \/ HangsUp(c, i) \/ Leaves(c, i)
  PROVE  Sound(c)'
<1>0. Staffed(c) /\ Course(c) /\ Queued(c) /\ Flow(c) /\ Ending(c)
  BY DEF Sound
<1>1. UNCHANGED <<contextVars, managerVars, kernelVars, threadVars, taken, received, told>>
  BY DEF Sends, HangsUp, Leaves
<1>2. /\ sent \in [Context -> [End -> Nat]] /\ taken \in [Context -> [End -> Nat]]
      /\ ended \in [Context -> [End -> BOOLEAN]] /\ gone \in [Context -> [End -> BOOLEAN]]
  BY DEF Types, EndTypes
<1>3. \/ sent' = sent
      \/ sent' = [sent EXCEPT ![c][i] = @ + 1] /\ ~ended[c][i]
  BY DEF Sends, HangsUp, Leaves
<1>4. \A j \in End : sent[c][j] <= sent'[c][j] /\ (ended[c][j] => sent'[c][j] = sent[c][j])
  BY <1>2, <1>3
<1>5. \A j \in End : ended[c][j] => ended'[c][j]
  <2>1. ended' = ended \/ ended' = [ended EXCEPT ![c][i] = TRUE]
    BY DEF Sends, HangsUp, Leaves
  <2>2. CASE ended' = ended
    BY <2>2
  <2>3. CASE ended' = [ended EXCEPT ![c][i] = TRUE]
    <3>1. ended'[c][i] = TRUE /\ \A j \in End \ {i} : ended'[c][j] = ended[c][j]
      BY <1>2, <2>3, AssignedAt
    <3>2. QED
      BY <3>1
  <2>4. QED
    BY <2>1, <2>2, <2>3
<1>6. Gone(c) => Gone(c)'
  <2>1. gone' = gone \/ gone' = [gone EXCEPT ![c][i] = TRUE]
    BY DEF Sends, HangsUp, Leaves
  <2>2. \A j \in End : gone[c][j] => gone'[c][j]
    BY <1>2, <2>1
  <2>3. QED
    BY <2>2 DEF Gone
<1>7. Staffed(c)'
  BY <1>0, <1>1 DEF Staffed, Standing, Works, Packets
<1>8. Course(c)'
  BY <1>0, <1>1 DEF Course, Starting
<1>9. Queued(c)'
  BY <1>0, <1>1, <1>6 DEF Queued, Packets
<1>10. Ending(c)'
  <2>1. MayEnd(c) => MayEnd(c)'
    BY <1>1, <1>6 DEF MayEnd, AtRest
  <2>2. QED
    BY <1>0, <1>1, <2>1 DEF Ending
<1>11. ASSUME NEW j \in End PROVE FlowOf(c, j)'
  <2>1. FlowOf(c, j)
    BY <1>0 DEF Flow
  <2>2. /\ \A n : Writing(c, j, n) => Writing(c, j, n)'
        /\ \A n : Given(c, j, n) => Given(c, j, n)'
        /\ Holds(c, j) => Holds(c, j)'
    BY <1>1 DEF Writing, Holds, Given
  <2>3. ASSUME NEW n, Brought(c, j, n) PROVE Brought(c, j, n)'
    <3>1. CASE state[c][j] = "Read" /\ n = 0
      BY <1>1, <1>4, <1>5, <2>3, <3>1 DEF Brought, Given
    <3>2. CASE state[c][j] = "Read" /\ n # 0
      BY <1>1, <2>2, <2>3, <3>2 DEF Brought, Given
    <3>3. CASE state[c][j] # "Read"
      BY <1>1, <2>2, <2>3, <3>3 DEF Brought
    <3>4. QED
      BY <3>1, <3>2, <3>3
  <2>4. taken'[c][j] <= sent'[c][j]
    <3>1. taken[c][j] <= sent[c][j] /\ sent[c][j] <= sent'[c][j] /\ taken'[c][j] = taken[c][j]
      BY <1>1, <1>4, <2>1 DEF FlowOf
    <3>2. taken[c][j] \in Nat /\ sent[c][j] \in Nat /\ sent'[c][j] \in Nat
      BY <1>2, <1>3
    <3>3. QED
      BY <3>1, <3>2
  <2>5. Given(c, j, taken[c][j]) => Given(c, j, taken[c][j])'
    BY <1>1 DEF Given
  <2>6. \A k \in Packets(c)' :
          port'[c][k].dir = j /\ port'[c][k].result = "transferred" => Brought(c, j, port[c][k].bytes)'
    BY <1>1, <2>1, <2>3 DEF FlowOf, Packets
  <2>7. ASSUME NEW u \in Thread, on'[u] = c
        PROVE  /\ at'[u] = "complete" /\ arg'[u].dir = j => Brought(c, j, arg[u].bytes)'
               /\ at'[u] \in {"loop", "again"} /\ Works(u, j)' => Given(c, j, taken[c][j])'
    <3>1. Works(u, j)' <=> Works(u, j)
      BY <1>1 DEF Works
    <3>2. QED
      BY <1>1, <2>1, <2>3, <2>5, <2>7, <3>1 DEF FlowOf
  <2>8. QED
    BY <1>1, <2>1, <2>2, <2>4, <2>5, <2>6, <2>7 DEF FlowOf
<1>12. QED
  BY <1>7, <1>8, <1>9, <1>10, <1>11 DEF Sound, Flow

\* Steps of the kernel and of the ends are local.
LEMMA OutsideIsLocal ==
  ASSUME Types, NEW c \in Context, Flow(c),
         \/ Kernel(c)
         \/ \E i \in End : Sends(c, i) \/ HangsUp(c, i) \/ Leaves(c, i)
  PROVE  Local(c) /\ UNCHANGED threadVars
<1>1. ContextTypes /\ OtherTypes /\ EndTypes
  BY DEF Types
<1>2. CASE \E i \in End : Sends(c, i) \/ HangsUp(c, i) \/ Leaves(c, i)
  <2>1. PICK i \in End : Sends(c, i) \/ HangsUp(c, i) \/ Leaves(c, i)
    BY <1>2
  <2>2. UNCHANGED <<contextVars, managerVars, kernelVars, threadVars, taken, received, told>>
    BY <2>1 DEF Sends, HangsUp, Leaves
  <2>3. \/ UNCHANGED sent
        \/ sent' = [sent EXCEPT ![c][i] = @ + 1]
    BY <2>1 DEF Sends, HangsUp, Leaves
  <2>4. /\ ended' = ended \/ ended' = [ended EXCEPT ![c][i] = TRUE]
        /\ gone' = gone \/ gone' = [gone EXCEPT ![c][i] = TRUE]
    BY <2>1 DEF Sends, HangsUp, Leaves
  <2>5. \A d \in Context \ {c} : sent'[d] = sent[d]
    BY <1>1, <2>3 DEF EndTypes
  <2>6. \A d \in Context \ {c} : ended'[d] = ended[d] /\ gone'[d] = gone[d]
    BY <1>1, <2>4 DEF EndTypes
  <2>7. QED
    BY <2>2, <2>5, <2>6 DEF Local, Kept
<1>3. CASE Kernel(c)
  <2>0. \/ \E n \in {0, 1} : NonceArrives(c, n)
        \/ \E i \in End : DataArrives(c, i)
        \/ \E i \in End : DataLeaves(c, i)
        \/ \E i \in End : StreamEnds(c, i) \/ OperationFails(c, i) \/ OperationAborted(c, i)
    BY <1>3 DEF Kernel
  <2>1. /\ UNCHANGED <<contextState, state, needTransfer, bufferOffset, targets, managerVars,
                       cancelled, threadVars, sent, ended, gone, told>>
        /\ \E i : io' = [io EXCEPT ![c][i] = "none"]
        /\ \E p : port' = [port EXCEPT ![c] = p]
        /\ taken' = taken \/ \E i, n : taken' = [taken EXCEPT ![c][i] = n]
        /\ buffer' = buffer \/ \E i, b : buffer' = [buffer EXCEPT ![c][i] = b]
        /\ received' = received \/ \E i, b : received' = [received EXCEPT ![c][i] = b]
    <3>1. CASE \E n \in {0, 1} : NonceArrives(c, n)
      BY <3>1 DEF NonceArrives, Completes
    <3>2. CASE \E i \in End : DataArrives(c, i)
      <4>1. PICK i \in End : DataArrives(c, i)
        BY <3>2
      <4>2. PICK n \in 1..MAX_BUFFER_SIZE :
              /\ taken' = [taken EXCEPT ![c][i] = @ + n]
              /\ buffer' = [buffer EXCEPT ![c][i] = [k \in 1..n |-> taken[c][i] + k]]
              /\ io' = [io EXCEPT ![c][i] = "none"]
              /\ port' = [port EXCEPT ![c] = Append(@, [dir |-> i, result |-> "transferred", bytes |-> n])]
        BY <4>1 DEF DataArrives
      <4>3. UNCHANGED <<contextState, state, needTransfer, bufferOffset, targets, managerVars,
                        cancelled, threadVars, sent, ended, gone, told, received>>
        BY <4>1 DEF DataArrives
      <4>4. taken' = [taken EXCEPT ![c][i] = taken[c][i] + n]
        BY <1>1, <4>2 DEF EndTypes
      <4>5. \E p : port' = [port EXCEPT ![c] = p]
        BY <4>2
      <4>6. QED
        BY <4>2, <4>3, <4>4, <4>5
    <3>3. CASE \E i \in End : DataLeaves(c, i)
      BY <3>3 DEF DataLeaves, Completes
    <3>4. CASE \E i \in End : StreamEnds(c, i) \/ OperationFails(c, i) \/ OperationAborted(c, i)
      BY <3>4 DEF StreamEnds, OperationFails, OperationAborted, Completes
    <3>5. QED
      BY <2>0, <3>1, <3>2, <3>3, <3>4
  <2>2. \A d \in Context \ {c} : io'[d] = io[d] /\ port'[d] = port[d]
    BY <1>1, <2>1 DEF OtherTypes
  <2>3. \A d \in Context \ {c} : taken'[d] = taken[d]
    BY <1>1, <2>1 DEF EndTypes
  <2>4. \A d \in Context \ {c} : received'[d] = received[d]
    BY <1>1, <2>1 DEF EndTypes
  <2>5. \A d \in Context \ {c} : buffer'[d] = buffer[d]
    BY <1>1, <2>1 DEF ContextTypes
  <2>6. QED
    BY <2>1, <2>2, <2>3, <2>4, <2>5 DEF Local, Kept
<1>4. QED
  BY <1>2, <1>3
----------------------------------------------------------------------------
\* The listener threads and the thread of the port

\* DelegateConnection takes a context that nobody has seen yet.
LEMMA DelegateKeeps ==
  ASSUME Types, Idle, NEW l \in Listener, NEW c \in Context, NEW h \in Handshakes, Sound(c),
         DelegateConnection(l, c, h)
  PROVE  Sound(c)' /\ Local(c) /\ Idle'
<1>0. l \in Thread /\ c # None /\ ThreadTypes
  BY ForwardAssumption DEF Thread, Types
<1>1. at'[l] = "delegated" /\ on'[l] = c /\ Others(l) /\ on[l] = None
  BY <1>0, Taken DEF DelegateConnection, Idle
<1>2. /\ UNCHANGED <<state, buffer, needTransfer, bufferOffset, targets, cancelFlag,
                     io, cancelled, port, endVars>>
      /\ contextState[c] = "Initialized"
      /\ contextState'[c] = "HandShake" /\ c \in contextList'
      /\ \A d \in Context \ {c} : contextState'[d] = contextState[d]
                                  /\ (d \in contextList' <=> d \in contextList)
  BY DEF DelegateConnection, Types, ContextTypes
<1>3. Staffed(c) /\ Course(c) /\ Queued(c) /\ Flow(c)
  BY DEF Sound
<1>4. \A u \in Thread : on'[u] = c => u = l
  BY <1>1, <1>2, <1>3 DEF Staffed, Others
<1>5. /\ c \notin contextList /\ targets[c] = 0 /\ port[c] = << >> /\ ~cancelled[c]
      /\ \A i \in End : state[c][i] = "Initialized" /\ io[c][i] = "none"
  BY <1>2, <1>3 DEF Course
<1>6. \A k \in Packets(c)' : FALSE
  BY <1>2, <1>5 DEF Packets
<1>7. Standing(l, c)'
  BY <1>1, <1>2, <1>4, <1>5, <1>6 DEF Standing
<1>8. Staffed(c)'
  BY <1>2, <1>4, <1>7 DEF Staffed
<1>9. Course(c)'
  BY <1>2, <1>3, <1>5 DEF Course
<1>10. Queued(c)'
  BY <1>6 DEF Queued
<1>11. ASSUME NEW i \in End PROVE FlowOf(c, i)'
  <2>1. FlowOf(c, i)
    BY <1>3 DEF Flow
  <2>2. QED
    BY <1>1, <1>2, <1>4, <1>5, <1>6, <2>1 DEF FlowOf, Given
<1>12. Ending(c)'
  BY <1>1, <1>2, <1>4 DEF Ending
<1>13. Local(c)
  BY <1>0, <1>1, <1>2, ForwardAssumption DEF Local, Kept, Others
<1>14. Idle'
  BY <1>0, <1>1 DEF Idle, Others
<1>15. QED
  BY <1>8, <1>9, <1>10, <1>11, <1>12, <1>13, <1>14 DEF Sound, Flow

\* A packet leaves the port: the others move up.
LEMMA Shortened ==
  ASSUME Types, NEW c \in Context, port[c] # << >>, port' = [port EXCEPT ![c] = Tail(@)]
  PROVE  /\ 1 \in Packets(c) /\ Head(port[c]) = port[c][1] /\ port[c][1] \in Packet
         /\ \A k \in Packets(c)' :
              k + 1 \in Packets(c) /\ k + 1 # 1 /\ port'[c][k] = port[c][k + 1]
<1>1. port[c] \in Seq(Packet) /\ port'[c] = Tail(port[c])
  BY DEF Types, OtherTypes
<1>2. /\ Len(port[c]) \in Nat /\ Len(port[c]) # 0
      /\ Head(port[c]) = port[c][1] /\ Head(port[c]) \in Packet
      /\ Len(Tail(port[c])) = Len(port[c]) - 1
      /\ \A k \in 1 .. Len(Tail(port[c])) : Tail(port[c])[k] = port[c][k + 1]
  BY <1>1, EmptySeq, HeadTailProperties
<1>3. PICK n \in Nat : n = Len(port[c]) /\ n # 0
  BY <1>2
<1>4. 1 \in 1..n /\ \A k \in 1 .. n - 1 : k + 1 \in 1..n /\ k + 1 # 1
  BY <1>3
<1>5. QED
  BY <1>1, <1>2, <1>3, <1>4 DEF Packets

\* Dequeues hands a completion over to the thread of the port.
LEMMA DequeuesKeeps ==
  ASSUME Types, Idle, NEW c \in Context, Sound(c), Dequeues(c)
  PROVE  Sound(c)' /\ Local(c) /\ Idle'
<1>0. "iocp" \in Thread /\ c # None /\ ThreadTypes /\ on["iocp"] = None
  BY ForwardAssumption DEF Thread, Types, Idle, Dequeues
<1>1. /\ 1 \in Packets(c) /\ Head(port[c]) = port[c][1] /\ port[c][1] \in Packet
      /\ \A k \in Packets(c)' :
           k + 1 \in Packets(c) /\ k + 1 # 1 /\ port'[c][k] = port[c][k + 1]
  BY Shortened DEF Dequeues
<1>2. PICK p \in Packet : p = port[c][1]
  BY <1>1
<1>3. PICK i \in End, n \in Nat : p.dir = i /\ p.bytes = n
  BY DEF Packet
<1>4. UNCHANGED <<contextVars, managerVars, io, cancelled, endVars>>
  BY DEF Dequeues
<1>5. \/ /\ p.result = "transferred"
         /\ Takes("iocp", c, "complete", [dir |-> i, bytes |-> n])
      \/ /\ p.result = "failed"
         /\ Takes("iocp", c, "dispose", NoArg)
      \/ Takes("iocp", None, "idle", NoArg)
  BY <1>1, <1>2, <1>3 DEF Dequeues, FailureDisposes, Returns
<1>6. /\ Others("iocp")
      /\ \/ /\ p.result = "transferred" /\ on'["iocp"] = c /\ at'["iocp"] = "complete"
            /\ arg'["iocp"].dir = i /\ arg'["iocp"].bytes = n
         \/ p.result = "failed" /\ on'["iocp"] = c /\ at'["iocp"] = "dispose"
         \/ on'["iocp"] = None /\ at'["iocp"] = "idle"
  BY <1>0, <1>5, Taken
<1>7. Staffed(c) /\ Course(c) /\ Queued(c) /\ Flow(c) /\ Ending(c)
  BY DEF Sound
<1>8. contextState[c] # "Initialized"
  BY <1>7 DEF Course, Dequeues
<1>9. \A k \in Packets(c)' : port'[c][k].dir # i
  BY <1>1, <1>2, <1>3, <1>7 DEF Queued
<1>10. \A u \in Thread : on[u] = c => ~Works(u, i)
  BY <1>1, <1>2, <1>3, <1>7 DEF Staffed, Standing
<1>11. \A u \in Thread \ {"iocp"} : /\ on'[u] = c => on[u] = c
                                    /\ at'[u] = at[u] /\ on'[u] = on[u] /\ arg'[u] = arg[u]
                                    /\ \A j \in End : Works(u, j)' <=> Works(u, j)
  BY <1>6 DEF Others, Works
<1>12. \A j \in End : on'["iocp"] = c /\ Works("iocp", j)' => j = i /\ at'["iocp"] = "complete"
  BY <1>0, <1>6 DEF Works
<1>13. Staffed(c)'
  <2>1. ASSUME NEW u \in Thread \ {"iocp"}, on'[u] = c PROVE Standing(u, c)'
    <3>1. Standing(u, c) /\ on[u] = c /\ at'[u] = at[u] /\ arg'[u] = arg[u]
          /\ \A j \in End : Works(u, j)' <=> Works(u, j)
      BY <1>7, <1>11, <2>1 DEF Staffed
    <3>2. \A j \in End : Works(u, j) => j # i
      BY <1>10, <3>1
    <3>3. \A j \in End : Works(u, j) => \A k \in Packets(c)' : port'[c][k].dir # j
      BY <1>1, <3>1 DEF Standing
    <3>4. \A j \in End : Works(u, j) => \A v \in Thread : on'[v] = c /\ Works(v, j)' => v = u
      BY <1>11, <1>12, <3>1, <3>2 DEF Standing
    <3>5. QED
      BY <1>4, <3>1, <3>3, <3>4 DEF Standing
  <2>2. ASSUME on'["iocp"] = c PROVE Standing("iocp", c)'
    <3>1. /\ io[c][i] = "none"
          /\ state[c][i] \in {"Initialized", "Read", "Write"}
          /\ state[c][i] = "Initialized" => i = 0
      BY <1>1, <1>2, <1>3, <1>7 DEF Queued
    <3>2. \A v \in Thread : on'[v] = c /\ Works(v, i)' => v = "iocp"
      BY <1>10, <1>11
    <3>3. at'["iocp"] \in {"complete", "dispose"} /\ (at'["iocp"] = "complete" => arg'["iocp"].dir = i)
      BY <1>0, <1>6, <2>2
    <3>4. QED
      BY <1>4, <1>9, <1>12, <2>2, <3>1, <3>2, <3>3 DEF Standing
  <2>3. (\E t \in Thread : on'[t] = c) /\ contextState[c] = "Established" => c \in contextList
    <3>1. CASE \E t \in Thread : on[t] = c
      BY <1>7, <3>1 DEF Staffed
    <3>2. CASE ~(\E t \in Thread : on[t] = c)
      <4>1. CASE on'["iocp"] = c
        <5>1. p.result # "aborted"
          BY <1>0, <1>6, <4>1
        <5>2. ~Freed(c)
          BY <1>1, <1>2, <5>1 DEF Dequeues, Dangling
        <5>3. QED
          BY <1>8, <3>2, <5>2 DEF Freed
      <4>2. CASE on'["iocp"] # c
        BY <1>11, <3>2, <4>2
      <4>3. QED
        BY <4>1, <4>2
    <3>3. QED
      BY <3>1, <3>2
  <2>4. QED
    BY <1>4, <1>8, <2>1, <2>2, <2>3 DEF Staffed
<1>14. Course(c)'
  <2>1. Starting(c) => Starting(c)'
    BY <1>0, <1>11 DEF Starting
  <2>2. QED
    BY <1>4, <1>7, <1>8, <2>1 DEF Course
<1>15. Queued(c)'
  <2>1. \A j, k \in Packets(c)' : port'[c][j].dir = port'[c][k].dir => j = k
    <3>1. ASSUME NEW j \in Packets(c)', NEW k \in Packets(c)', port'[c][j].dir = port'[c][k].dir
          PROVE  j = k
      <4>1. j + 1 = k + 1
        BY <1>1, <1>7, <3>1 DEF Queued
      <4>2. j \in Int /\ k \in Int
        BY DEF Packets
      <4>3. QED
        BY <4>1, <4>2
    <3>2. QED
      BY <3>1
  <2>2. QED
    BY <1>1, <1>4, <1>7, <2>1 DEF Queued, Gone
<1>16. ASSUME NEW j \in End PROVE FlowOf(c, j)'
  <2>1. FlowOf(c, j)
    BY <1>7 DEF Flow
  <2>2. \A m : Brought(c, j, m) => Brought(c, j, m)'
    BY <1>4 DEF Brought, Writing, Holds, Given
  <2>3. /\ Given(c, j, taken[c][j]) => Given(c, j, taken[c][j])'
        /\ Writing(c, j, 0) => Writing(c, j, 0)'
    BY <1>4 DEF Writing, Holds, Given
  <2>4. ASSUME NEW k \in Packets(c)', port'[c][k].dir = j, port'[c][k].result = "transferred"
        PROVE  Brought(c, j, port[c][k].bytes)'
    <3>1. Brought(c, j, port[c][k + 1].bytes)
      BY <1>1, <2>1, <2>4 DEF FlowOf
    <3>2. Brought(c, j, port'[c][k].bytes)
      BY <1>1, <3>1
    <3>3. QED
      BY <2>2, <3>2
  <2>5. ASSUME NEW u \in Thread, on'[u] = c
        PROVE  /\ at'[u] = "complete" /\ arg'[u].dir = j => Brought(c, j, arg[u].bytes)'
               /\ at'[u] \in {"loop", "again"} /\ Works(u, j)' => Given(c, j, taken[c][j])'
    <3>1. CASE u = "iocp"
      <4>1. at'[u] = "complete" => p.result = "transferred" /\ arg'[u].dir = i /\ arg'[u].bytes = n
        BY <1>6, <3>1
      <4>2. p.result = "transferred" /\ j = i => Brought(c, j, n)
        BY <1>1, <1>2, <1>3, <2>1 DEF FlowOf
      <4>3. at'[u] \notin {"loop", "again"}
        BY <1>6, <3>1
      <4>4. at'[u] = "complete" /\ arg'[u].dir = j => Brought(c, j, n)' /\ arg'[u].bytes = n
        BY <2>2, <4>1, <4>2
      <4>5. QED
        BY <4>3, <4>4
    <3>2. CASE u # "iocp"
      <4>1. /\ on[u] = c /\ at'[u] = at[u] /\ arg'[u] = arg[u] /\ (Works(u, j)' <=> Works(u, j))
        BY <1>11, <2>5, <3>2
      <4>2. /\ at[u] = "complete" /\ arg[u].dir = j => Brought(c, j, arg[u].bytes)
            /\ at[u] \in {"loop", "again"} /\ Works(u, j) => Given(c, j, taken[c][j])
        BY <2>1, <4>1 DEF FlowOf
      <4>3. QED
        BY <2>2, <2>3, <4>1, <4>2
    <3>3. QED
      BY <3>1, <3>2
  <2>6. QED
    BY <1>4, <2>1, <2>3, <2>4, <2>5 DEF FlowOf, Given
<1>17. Ending(c)'
  <2>1. MayEnd(c) => MayEnd(c)'
    BY <1>4 DEF MayEnd, AtRest, Gone, Dequeues
  <2>2. on'["iocp"] = c /\ at'["iocp"] = "dispose" => MayEnd(c)'
    <3>1. p.result = "failed" => Gone(c)
      BY <1>1, <1>2, <1>7 DEF Queued
    <3>2. QED
      BY <1>0, <1>4, <1>6, <3>1 DEF MayEnd, Gone
  <2>3. on'["iocp"] = c => at'["iocp"] # "disposeLast"
    BY <1>0, <1>6
  <2>4. QED
    BY <1>4, <1>7, <1>11, <2>1, <2>2, <2>3 DEF Ending
<1>18. Local(c)
  <2>1. \A d \in Context \ {c} : port'[d] = port[d]
    BY DEF Dequeues, Types, OtherTypes
  <2>2. on'["iocp"] \in {c, None}
    BY <1>6
  <2>3. QED
    BY <1>0, <1>4, <1>11, <2>1, <2>2, ForwardAssumption DEF Local, Kept
<1>19. Idle'
  BY <1>0, <1>6, <1>11 DEF Idle
<1>20. QED
  BY <1>13, <1>14, <1>15, <1>16, <1>17, <1>18, <1>19 DEF Sound, Flow

\* Stop, and the thread of the port when it returns, change no context.
LEMMA LeavingKeeps ==
  ASSUME Types, Idle, Stop \/ IocpThreadExits \/ UNCHANGED vars
  PROVE  Idle' /\ \A c \in Context : Kept(c)
<1>1. CASE Stop \/ UNCHANGED vars
  BY <1>1 DEF Stop, vars, Idle, Kept
<1>2. CASE IocpThreadExits
  <2>1. /\ at'["iocp"] = "exited" /\ at["iocp"] = "idle" /\ "iocp" \in Thread
        /\ \A u \in Thread \ {"iocp"} : at'[u] = at[u]
    BY <1>2 DEF IocpThreadExits, Types, ThreadTypes, Thread
  <2>2. UNCHANGED <<contextVars, managerVars, kernelVars, endVars, on, arg>>
    BY <1>2 DEF IocpThreadExits
  <2>3. \A c \in Context : on["iocp"] # c
    BY <2>1, ForwardAssumption DEF Idle
  <2>4. Idle'
    BY <2>1, <2>2 DEF Idle
  <2>5. \A c \in Context : Kept(c)
    BY <2>1, <2>2, <2>3 DEF Kept
  <2>6. QED
    BY <2>4, <2>5
<1>3. QED
  BY <1>1, <1>2

\* A write is never taken to have transferred more than was asked for.
LEMMA CountedKept == IInv /\ [Next]_vars => Counted'
<1>. SUFFICES ASSUME IInv, [Next]_vars PROVE Counted'
  OBVIOUS
<1>1. CASE needTransfer' = needTransfer
  BY <1>1 DEF IInv, Counted
<1>2. CASE needTransfer' # needTransfer
  <2>1. PICK t \in Thread : Handles(t) /\ (ForwardsData(t) \/ Written(t))
    <3>1. \E t \in Thread : Handles(t)
      <4>1. \A c \in Context : ~Kernel(c)
        <5>1. \A c \in Context, i \in End : ~DataArrives(c, i)
          BY <1>2 DEF DataArrives
        <5>2. \A c, i, r, n : ~Completes(c, i, r, n)
          BY <1>2 DEF Completes
        <5>3. QED
          BY <5>1, <5>2 DEF Kernel, NonceArrives, StreamEnds, DataLeaves, OperationFails,
             OperationAborted
      <4>2. \A c \in Context : ~Dequeues(c)
        BY <1>2 DEF Dequeues
      <4>3. \A c \in Context, i \in End : ~Sends(c, i) /\ ~HangsUp(c, i) /\ ~Leaves(c, i)
        BY <1>2 DEF Sends, HangsUp, Leaves
      <4>4. ~Stop /\ ~IocpThreadExits /\ vars' # vars
        BY <1>2 DEF Stop, IocpThreadExits, vars
      <4>5. \A l \in Listener, c \in Context, h \in Handshakes : ~DelegateConnection(l, c, h)
        BY <1>2 DEF DelegateConnection
      <4>6. QED
        BY <4>1, <4>2, <4>3, <4>4, <4>5 DEF Next, KernelCompletes
    <3>2. ASSUME NEW t \in Thread, Handles(t) PROVE ForwardsData(t) \/ Written(t)
      BY <1>2, <3>2 DEF Handles, DoIoCompletion, Races, HandshakeContinues, Rejects, PreparesPeer,
         NoPeer, LeavesLoop, Establishes, Reads, EndOfFile, Disposes
    <3>3. QED
      BY <3>1, <3>2
  <2>2. PICK c \in Context : c = on[t]
    BY <2>1 DEF IInv, Idle, Handles, Types, ThreadTypes
  <2>3. Types /\ Sound(c) /\ Counted
    BY DEF IInv
  <2>4. needTransfer \in [Context -> [End -> Int]]
    BY <2>3 DEF Types, ContextTypes
  <2>5. ASSUME NEW i \in End, NEW v \in Int, v >= 0, needTransfer' = [needTransfer EXCEPT ![c][i] = v]
        PROVE  Counted'
    <3>1. /\ needTransfer'[c][i] = v
          /\ \A d \in Context, j \in End : <<d, j>> # <<c, i>> => needTransfer'[d][j] = needTransfer[d][j]
      BY <2>4, <2>5, Assigned
    <3>2. ASSUME NEW d \in Context, NEW j \in End PROVE needTransfer'[d][j] >= 0
      <4>1. CASE d = c /\ j = i
        BY <2>5, <3>1, <4>1
      <4>2. CASE ~(d = c /\ j = i)
        <5>1. needTransfer'[d][j] = needTransfer[d][j]
          BY <3>1, <4>2
        <5>2. QED
          BY <2>3, <5>1 DEF Counted
      <4>3. QED
        BY <4>1, <4>2
    <3>3. QED
      BY <3>2 DEF Counted
  <2>6. CASE ForwardsData(t)
    <3>1. PICK i \in End, n \in Nat : i = arg[t].dir /\ n = arg[t].bytes
      BY <2>3 DEF Types, ThreadTypes
    <3>2. needTransfer' = [needTransfer EXCEPT ![c][i] = n]
      BY <2>2, <2>6, <3>1 DEF ForwardsData
    <3>3. n \in Int /\ n >= 0
      BY <3>1
    <3>4. QED
      BY <2>5, <3>2, <3>3
  <2>7. CASE Written(t)
    <3>1. PICK i \in End, n \in Nat : /\ i = arg[t].dir /\ n = arg[t].bytes
                                      /\ state[c][i] = "Write" /\ Brought(c, i, n)
      BY <2>2, <2>3, <2>7, Completed DEF Written
    <3>2. n \in 0 .. needTransfer[c][i] /\ needTransfer[c][i] \in Int
      BY <2>4, <3>1 DEF Brought, Writing
    <3>3. needTransfer' = [needTransfer EXCEPT ![c][i] = needTransfer[c][i] - n]
      BY <2>2, <2>4, <2>7, <3>1 DEF Written, Remaining
    <3>4. needTransfer[c][i] - n \in Int /\ needTransfer[c][i] - n >= 0
      BY <3>2
    <3>5. QED
      BY <2>5, <3>3, <3>4
  <2>8. QED
    BY <2>1, <2>6, <2>7
<1>3. QED
  BY <1>1, <1>2

----------------------------------------------------------------------------
\* The invariant

\* Nothing has happened at first.
LEMMA Initially == Init => IInv
<1>. SUFFICES ASSUME Init PROVE IInv
  OBVIOUS
<1>1. Types
  <2>1. "idle" \in Place /\ NoArg \in [dir : End, bytes : Nat] /\ << >> \in Seq(Nat)
        /\ << >> \in Seq(Packet)
    BY DEF Place, NoArg, End
  <2>2. ContextTypes
    BY <2>1 DEF Init, Both, ContextTypes
  <2>3. OtherTypes
    BY <2>1 DEF Init, Both, OtherTypes
  <2>4. EndTypes
    BY <2>1 DEF Init, Both, EndTypes
  <2>5. ThreadTypes
    BY <2>1 DEF Init, ThreadTypes
  <2>6. QED
    BY <2>2, <2>3, <2>4, <2>5 DEF Types
<1>2. Idle /\ Counted
  BY DEF Init, Both, Idle, Counted
<1>3. ASSUME NEW c \in Context PROVE Sound(c)
  <2>1. \A t \in Thread : on[t] # c
    BY ForwardAssumption DEF Init
  <2>2. \A k \in Packets(c) : FALSE
    BY DEF Init, Packets
  <2>3. \A i \in End : state[c][i] = "Initialized" /\ io[c][i] = "none" /\ ~told[c][i]
                       /\ taken[c][i] = 0 /\ sent[c][i] = 0 /\ received[c][i] = << >>
    BY DEF Init, Both
  <2>4. /\ contextState[c] = "Initialized" /\ c \notin contextList /\ targets[c] = 0
        /\ port[c] = << >> /\ ~cancelled[c]
    BY DEF Init
  <2>5. Staffed(c) /\ Queued(c) /\ Ending(c)
    BY <2>1, <2>2, <2>4 DEF Staffed, Queued, Ending
  <2>6. Course(c)
    BY <2>3, <2>4 DEF Course
  <2>7. ASSUME NEW i \in End PROVE FlowOf(c, i)
    <3>1. PeerOf(i) \in End
      BY DEF PeerOf, End
    <3>2. Given(c, i, 0)
      BY <2>3, <3>1 DEF Given, First
    <3>3. QED
      BY <2>1, <2>2, <2>3, <3>2 DEF FlowOf
  <2>8. QED
    BY <2>5, <2>6, <2>7 DEF Sound, Flow
<1>4. QED
  BY <1>1, <1>2, <1>3 DEF IInv

\* Every step of the manager, the kernel and the ends keeps every context sound.
LEMMA Step == IInv /\ [Next]_vars => IInv'
<1>. SUFFICES ASSUME IInv, [Next]_vars PROVE IInv'
  OBVIOUS
<1>0. Types /\ Idle /\ (\A c \in Context : Sound(c)) /\ Types' /\ Counted'
  BY TypesKept, CountedKept DEF IInv
<1>1. ASSUME NEW c \in Context, Sound(c)', Local(c), Idle' PROVE IInv'
  BY <1>0, <1>1, KeptSound DEF IInv, Local
<1>2. ASSUME NEW t \in Thread, Handles(t) PROVE IInv'
  <2>1. PICK c \in Context : on[t] = c
    BY <1>2 DEF IInv, Idle, Handles, Types, ThreadTypes
  <2>2. QED
    BY <1>0, <1>1, <1>2, <2>1, ThreadIsLocal, ThreadKeeps DEF Handles
<1>3. ASSUME NEW c \in Context, KernelCompletes(c) PROVE IInv'
  <2>1. Flow(c) /\ Sound(c)
    BY <1>0 DEF Sound
  <2>2. Local(c) /\ UNCHANGED threadVars /\ Sound(c)'
    BY <1>0, <1>3, <2>1, OutsideIsLocal, KernelKeeps DEF KernelCompletes
  <2>3. Idle'
    BY <1>0, <2>2 DEF Idle
  <2>4. QED
    BY <1>1, <2>2, <2>3
<1>4. ASSUME NEW c \in Context, NEW i \in End, Sends(c, i) \/ HangsUp(c, i) \/ Leaves(c, i)
      PROVE  IInv'
  <2>1. Flow(c) /\ Sound(c)
    BY <1>0 DEF Sound
  <2>2. Local(c) /\ UNCHANGED threadVars /\ Sound(c)'
    BY <1>0, <1>4, <2>1, OutsideIsLocal, EndsKeep
  <2>3. Idle'
    BY <1>0, <2>2 DEF Idle
  <2>4. QED
    BY <1>1, <2>2, <2>3
<1>5. ASSUME NEW l \in Listener, NEW c \in Context, NEW h \in Handshakes,
             DelegateConnection(l, c, h)
      PROVE  IInv'
  BY <1>0, <1>1, <1>5, DelegateKeeps
<1>6. ASSUME NEW c \in Context, Dequeues(c) PROVE IInv'
  BY <1>0, <1>1, <1>6, DequeuesKeeps
<1>7. CASE Stop \/ IocpThreadExits \/ UNCHANGED vars
  BY <1>0, <1>7, LeavingKeeps, KeptSound DEF IInv
<1>8. QED
  BY <1>2, <1>3, <1>4, <1>5, <1>6, <1>7 DEF Next

\* The invariant of the forwarding manager, with every context sound.
THEOREM Invariance == Spec => []IInv
BY Initially, Step, PTL DEF Spec
----------------------------------------------------------------------------
\* The properties that the run checks

\* Every variable keeps its type: what is left to write is never less than nothing, however
\* the kernel splits the writes (forwarding.cpp:230-245).
THEOREM TypesHold == Spec => []TypeOK
<1>1. IInv => TypeOK
  <2>. SUFFICES ASSUME IInv PROVE TypeOK
    OBVIOUS
  <2>1. ContextTypes /\ OtherTypes /\ EndTypes /\ ThreadTypes /\ Counted
    BY DEF IInv, Types
  <2>2. needTransfer \in [Context -> [End -> Nat]]
    <3>1. needTransfer \in [Context -> [End -> Int]]
      BY <2>1 DEF ContextTypes
    <3>2. \A c \in Context, i \in End : needTransfer[c][i] \in Nat
      <4>. TAKE c \in Context, i \in End
      <4>1. needTransfer[c][i] \in Int /\ needTransfer[c][i] >= 0
        BY <2>1, <3>1 DEF Counted
      <4>2. QED
        BY <4>1
    <3>3. \A c \in Context : needTransfer[c] \in [End -> Nat]
      BY <3>1, <3>2
    <3>4. QED
      BY <3>1, <3>3
  <2>3. QED
    BY <2>1, <2>2 DEF ContextTypes, OtherTypes, EndTypes, ThreadTypes, Place, Packet, TypeOK
<1>. QED
  BY <1>1, Invariance, PTL

\* A direction never has two operations, completions or threads that handle one.
THEOREM OneAtATime == Spec => []OneOperation
<1>1. IInv => OneOperation
  <2>. SUFFICES ASSUME IInv, NEW c \in Context, NEW i \in End
       PROVE  LET queued == {k \in 1 .. Len(port[c]) : port[c][k].dir = i}
                  handled == {t \in Thread : on[t] = c /\ at[t] \in {"complete", "again"} /\ arg[t].dir = i}
              IN  /\ \A j, k \in queued : j = k
                  /\ queued # {} => handled = {}
                  /\ io[c][i] # "none" => queued = {} /\ handled = {}
    BY DEF OneOperation
  <2> DEFINE queued == {k \in 1 .. Len(port[c]) : port[c][k].dir = i}
             handled == {t \in Thread : on[t] = c /\ at[t] \in {"complete", "again"} /\ arg[t].dir = i}
  <2>1. Staffed(c) /\ Queued(c)
    BY DEF IInv, Sound
  <2>2. \A k \in queued : k \in Packets(c) /\ port[c][k].dir = i
    BY DEF Packets
  <2>3. \A t \in handled : t \in Thread /\ on[t] = c /\ Works(t, i)
    BY DEF Works
  <2>. HIDE DEF queued, handled
  <2>4. \A j, k \in queued : j = k
    BY <2>1, <2>2 DEF Queued
  <2>5. \A t \in handled : io[c][i] = "none" /\ \A k \in Packets(c) : port[c][k].dir # i
    BY <2>1, <2>3 DEF Staffed, Standing
  <2>6. io[c][i] # "none" => queued = {}
    BY <2>1, <2>2 DEF Queued
  <2>7. /\ \A j, k \in queued : j = k
        /\ queued # {} => handled = {}
        /\ io[c][i] # "none" => queued = {} /\ handled = {}
    BY <2>2, <2>4, <2>5, <2>6
  <2>8. QED
    BY <2>7 DEF queued, handled
<1>. QED
  BY <1>1, Invariance, PTL

\* A context is freed under a completion only after an end went away.
THEOREM NeverDangling == Spec => []NoDangling
<1>1. IInv => NoDangling
  BY DEF IInv, Sound, Ending, MayEnd, AtRest, Gone, NoDangling, Dangling, Freed
<1>. QED
  BY <1>1, Invariance, PTL

----------------------------------------------------------------------------
\* The manager implements Relay

\* A context that a thread or the kernel works on is open, once the target was reached.
LEMMA IsOpen ==
  ASSUME NEW c \in Context, targets[c] > 0, targets[c] \in Nat, c \in contextList
  PROVE  LinkOf(c) = "Open"
BY DEF LinkOf

\* A step that leaves the ends alone and every link where it is, is none for the relay.
LEMMA Unnoticed ==
  ASSUME UNCHANGED <<sent, received, ended, gone, told>>,
         \A d \in Context : LinkOf(d)' = LinkOf(d)
  PROVE  UNCHANGED R!vars
BY DEF R!vars

\* A context that was kept has the link that it had.
LEMMA LinkKept ==
  ASSUME NEW d \in Context, Kept(d)
  PROVE  LinkOf(d)' = LinkOf(d)
BY DEF Kept, LinkOf

\* What a thread does is for the relay nothing, or to connect, to pass on the end of a
\* stream, or to give the connection up.
LEMMA ThreadRelays ==
  ASSUME IInv, NEW t \in Thread, NEW c \in Context, on[t] = c, DoIoCompletion(t)
  PROVE  [R!Next]_(R!vars)
<1>0. Types /\ Idle /\ Sound(c)
  BY DEF IInv
<1>1. \A d \in Context \ {c} : LinkOf(d)' = LinkOf(d)
  BY <1>0, ThreadIsLocal, LinkKept DEF Local
<1>2. targets[c] \in Nat
  BY <1>0 DEF Types, ContextTypes
<1>3. UNCHANGED <<sent, received, ended, gone>>
  BY DEF DoIoCompletion, Races, HandshakeContinues, Rejects, PreparesPeer, NoPeer, LeavesLoop,
     Establishes, Reads, EndOfFile, ForwardsData, Written, Disposes
<1>4. CASE EndOfFile(t)
  <2>1. PICK i \in End, n \in Nat :
           /\ i = arg[t].dir /\ n = arg[t].bytes
           /\ at[t] = "complete" /\ contextState[c] = "Established"
           /\ state[c][i] = "Read"
           /\ Brought(c, i, n)
           /\ targets[c] > 0
    BY <1>0, <1>4, Completed DEF EndOfFile
  <2>2. /\ told' = [told EXCEPT ![c][PeerOf(i)] = TRUE] /\ n = 0
        /\ UNCHANGED <<contextState, targets, contextList>>
    BY <1>4, <2>1 DEF EndOfFile, TellsPeer
  <2>3. c \in contextList
    BY <1>0, <2>1 DEF Sound, Staffed
  <2>4. ended[c][i] /\ received[c][PeerOf(i)] = First(sent[c][i])
    BY <2>1, <2>2 DEF Brought, Given
  <2>5. PeerOf(i) \in R!End /\ R!PeerOf(PeerOf(i)) = i
    BY DEF PeerOf, End, R!End, R!PeerOf
  <2>6. LinkOf(c) = "Open" /\ LinkOf(c)' = LinkOf(c)
    BY <1>2, <2>1, <2>2, <2>3 DEF LinkOf
  <2>7. R!TellEnd(c, PeerOf(i))
    BY <1>1, <1>3, <2>2, <2>4, <2>5, <2>6 DEF R!TellEnd, R!FirstBytes, First
  <2>8. QED
    BY <2>5, <2>7 DEF R!Next
<1>5. CASE PreparesPeer(t)
  <2>1. c \in contextList /\ targets[c] = 0 /\ contextState[c] = "HandShake"
    BY <1>0, <1>5, Alone DEF PreparesPeer
  <2>2. targets'[c] = 1 /\ UNCHANGED <<contextState, contextList, told>>
    BY <1>0, <1>5, <2>1 DEF PreparesPeer, Types, ContextTypes
  <2>3. LinkOf(c) = "Connecting" /\ LinkOf(c)' = "Open"
    BY <2>1, <2>2 DEF LinkOf
  <2>4. R!Connect(c)
    BY <1>1, <1>3, <2>2, <2>3 DEF R!Connect
  <2>5. QED
    BY <2>4 DEF R!Next
<1>6. CASE Disposes(t) /\ contextState[c] # "Destroyed"
  <2>1. /\ contextState'[c] = "Destroyed" /\ c \notin contextList'
        /\ UNCHANGED <<targets, told>>
    BY <1>0, <1>6 DEF Disposes, Types, ContextTypes, OtherTypes
  <2>2. c \in contextList /\ contextState[c] # "Initialized" /\ MayEnd(c)
    <3>1. contextState[c] \in {"Initialized", "HandShake", "Established", "Destroyed"}
      BY <1>0 DEF Types, ContextTypes
    <3>2. QED
      BY <1>0, <1>6, <3>1 DEF Sound, Staffed, Course, Ending, Disposes
  <2>3. \A i \in End : told[c][i] => targets[c] > 0
    BY <1>0 DEF Sound, Course
  <2>4. R!End = End
    BY DEF R!End, End
  <2>5. LinkOf(c) = IF targets[c] = 0 THEN "Connecting" ELSE "Open"
    BY <2>2 DEF LinkOf
  <2>6. LinkOf(c)' = IF \A i \in End : told[c][i] THEN "Closed" ELSE "Broken"
    BY <2>1 DEF LinkOf
  <2>7. CASE \A i \in End : told[c][i]
    <3>1. targets[c] # 0
      BY <1>2, <2>3, <2>7 DEF End
    <3>2. R!Close(c)
      BY <1>1, <1>3, <2>1, <2>4, <2>5, <2>6, <2>7, <3>1 DEF R!Close
    <3>3. QED
      BY <3>2 DEF R!Next
  <2>8. CASE ~(\A i \in End : told[c][i])
    <3>1. targets[c] = 0 \/ \E i \in End : gone[c][i]
      BY <2>2, <2>8 DEF MayEnd, Gone
    <3>2. R!Break(c)
      BY <1>1, <1>3, <2>1, <2>4, <2>5, <2>6, <2>8, <3>1 DEF R!Break
    <3>3. QED
      BY <3>2 DEF R!Next
  <2>9. QED
    BY <2>7, <2>8
<1>7. CASE Establishes(t)
  <2>1. contextState[c] # "Initialized"
    BY <1>0 DEF Sound, Staffed
  <2>2. contextState'[c] = "Established" /\ UNCHANGED <<targets, told, contextList>>
    BY <1>0, <1>7 DEF Establishes, Types, ContextTypes
  <2>3. LinkOf(c)' = LinkOf(c)
    BY <2>1, <2>2 DEF LinkOf
  <2>4. QED
    BY <1>1, <1>3, <2>2, <2>3, Unnoticed
<1>8. CASE ~(EndOfFile(t) \/ PreparesPeer(t) \/ Establishes(t)
             \/ (Disposes(t) /\ contextState[c] # "Destroyed"))
  <2>1. UNCHANGED <<contextState, contextList, targets, told>>
    BY <1>8 DEF DoIoCompletion, Races, HandshakeContinues, Rejects, NoPeer, LeavesLoop,
       Reads, ForwardsData, Written, Disposes
  <2>2. LinkOf(c)' = LinkOf(c)
    BY <2>1 DEF LinkOf
  <2>3. QED
    BY <1>1, <1>3, <2>1, <2>2, Unnoticed
<1>9. QED
  BY <1>4, <1>5, <1>6, <1>7, <1>8

\* What the kernel does is for the relay nothing, or to deliver the next bytes.
LEMMA KernelRelays ==
  ASSUME IInv, NEW c \in Context, Kernel(c)
  PROVE  [R!Next]_(R!vars)
<1>0. Types /\ Sound(c) /\ Course(c) /\ Flow(c)
  BY DEF IInv, Sound
<1>1. CASE \E i \in End : DataLeaves(c, i)
  <2>1. PICK i \in End : DataLeaves(c, i)
    BY <1>1
  <2>2. PICK n \in 1 .. needTransfer[c][i] :
          received' = [received EXCEPT ![c][PeerOf(i)] =
            @ \o SubSeq(buffer[c][i], bufferOffset[c][i] + 1, bufferOffset[c][i] + n)]
    BY <2>1 DEF DataLeaves
  <2>3. /\ Writing(c, i, 0) /\ taken[c][i] <= sent[c][i] /\ state[c][i] = "Write"
        /\ contextState[c] # "Initialized" /\ ~cancelled[c]
    BY <1>0, <2>1 DEF DataLeaves, Course, Flow, FlowOf
  <2>4. PICK m \in Nat : /\ m = taken[c][i] - needTransfer[c][i]
                         /\ received[c][PeerOf(i)] = First(m)
                         /\ m + n \in Nat
                         /\ received' = [received EXCEPT ![c][PeerOf(i)] = First(m + n)]
    BY <1>0, <2>2, <2>3, Delivered
  <2>5. PICK T \in Nat, s \in Nat, w \in Int : T = taken[c][i] /\ s = sent[c][i] /\ w = needTransfer[c][i]
    BY <1>0 DEF Types, ContextTypes, EndTypes
  <2>6. m + n \in m + 1 .. s
    <3>1. T <= s /\ n \in 1..w /\ m = T - w
      BY <2>3, <2>4, <2>5
    <3>2. QED
      BY <2>5, <3>1
  <2>7. Len(First(m)) = m
    BY FirstIsSeq
  <2>8. c \in contextList
    BY <1>0, <2>3 DEF Course
  <2>9. targets[c] \in Nat /\ targets[c] > 0
    BY <1>0, <2>3 DEF Course, Types, ContextTypes
  <2>10. LinkOf(c) = "Open"
    BY <2>8, <2>9, IsOpen
  <2>11. \A d \in Context : LinkOf(d)' = LinkOf(d)
    BY <2>1 DEF DataLeaves, Completes, LinkOf
  <2>12. UNCHANGED <<sent, ended, gone, told>>
    BY <2>1 DEF DataLeaves
  <2>13. PeerOf(i) \in R!End /\ R!PeerOf(PeerOf(i)) = i
    BY DEF PeerOf, End, R!End, R!PeerOf
  <2>14. \E k \in Len(received[c][PeerOf(i)]) + 1 .. sent[c][R!PeerOf(PeerOf(i))] :
           received' = [received EXCEPT ![c][PeerOf(i)] = R!FirstBytes(k)]
    BY <2>4, <2>5, <2>6, <2>7, <2>13 DEF R!FirstBytes, First
  <2>15. R!Deliver(c, PeerOf(i))
    BY <2>10, <2>11, <2>12, <2>14 DEF R!Deliver
  <2>16. QED
    BY <2>13, <2>15 DEF R!Next
<1>2. CASE ~(\E i \in End : DataLeaves(c, i))
  <2>1. UNCHANGED <<contextState, contextList, targets, sent, received, ended, gone, told>>
    <3>1. CASE \E n \in {0, 1} : NonceArrives(c, n)
      BY <3>1 DEF NonceArrives, Completes
    <3>2. ASSUME NEW i \in End, DataArrives(c, i)
          PROVE  UNCHANGED <<contextState, contextList, targets, sent, received, ended, gone, told>>
      BY <3>2 DEF DataArrives
    <3>3. ASSUME NEW i \in End, StreamEnds(c, i) \/ OperationFails(c, i) \/ OperationAborted(c, i)
          PROVE  UNCHANGED <<contextState, contextList, targets, sent, received, ended, gone, told>>
      BY <3>3 DEF StreamEnds, OperationFails, OperationAborted, Completes
    <3>4. QED
      BY <1>2, <3>1, <3>2, <3>3 DEF Kernel
  <2>2. \A d \in Context : LinkOf(d)' = LinkOf(d)
    BY <2>1 DEF LinkOf
  <2>3. QED
    BY <2>1, <2>2, Unnoticed
<1>3. QED
  BY <1>1, <1>2

\* The ends do in the manager what they do in the relay.
LEMMA EndsRelay ==
  ASSUME NEW c \in Context, NEW i \in End, Sends(c, i) \/ HangsUp(c, i) \/ Leaves(c, i)
  PROVE  R!Next
<1>1. \A d \in Context : LinkOf(d)' = LinkOf(d)
  BY DEF Sends, HangsUp, Leaves, LinkOf
<1>2. i \in R!End
  BY DEF End, R!End
<1>3. R!Send(c, i) \/ R!HangUp(c, i) \/ R!Leave(c, i)
  BY <1>1 DEF Sends, HangsUp, Leaves, R!Send, R!HangUp, R!Leave
<1>4. QED
  BY <1>2, <1>3 DEF R!Next

\* Every connection starts unconnected, ...
LEMMA RelayInit == Init => R!Init
<1>. SUFFICES ASSUME Init PROVE R!Init
  OBVIOUS
<1>1. R!End = End
  BY DEF R!End, End
<1>2. \A c \in Context : LinkOf(c) = "Connecting"
  BY DEF Init, LinkOf
<1>3. QED
  BY <1>1, <1>2 DEF Init, Both, R!Init

\* ... and every step is one of the relay, or none.
LEMMA RelayStep == IInv /\ [Next]_vars => [R!Next]_(R!vars)
<1>. SUFFICES ASSUME IInv, [Next]_vars PROVE [R!Next]_(R!vars)
  OBVIOUS
<1>1. ASSUME NEW t \in Thread, Handles(t) PROVE [R!Next]_(R!vars)
  <2>1. PICK c \in Context : on[t] = c
    BY <1>1 DEF IInv, Idle, Handles, Types, ThreadTypes
  <2>2. QED
    BY <1>1, <2>1, ThreadRelays DEF Handles
<1>2. ASSUME NEW c \in Context, KernelCompletes(c) PROVE [R!Next]_(R!vars)
  BY <1>2, KernelRelays DEF KernelCompletes
<1>3. ASSUME NEW c \in Context, NEW i \in End, Sends(c, i) \/ HangsUp(c, i) \/ Leaves(c, i)
      PROVE  [R!Next]_(R!vars)
  BY <1>3, EndsRelay
<1>4. ASSUME NEW l \in Listener, NEW c \in Context, NEW h \in Handshakes,
             DelegateConnection(l, c, h)
      PROVE  [R!Next]_(R!vars)
  <2>1. UNCHANGED <<sent, received, ended, gone, told, targets>>
    BY <1>4 DEF DelegateConnection
  <2>2. contextState[c] = "Initialized" /\ c \in contextList'
    BY <1>4 DEF DelegateConnection
  <2>3. \A d \in Context \ {c} : contextState'[d] = contextState[d]
                                  /\ (d \in contextList' <=> d \in contextList)
    BY <1>4 DEF DelegateConnection, IInv, Types, ContextTypes
  <2>4. \A d \in Context : LinkOf(d)' = LinkOf(d)
    BY <2>1, <2>2, <2>3 DEF LinkOf
  <2>5. QED
    BY <2>1, <2>4, Unnoticed
<1>5. CASE Stop \/ IocpThreadExits \/ UNCHANGED vars \/ \E c \in Context : Dequeues(c)
  <2>1. UNCHANGED <<contextState, contextList, targets, sent, received, ended, gone, told>>
    BY <1>5 DEF Stop, IocpThreadExits, vars, Dequeues
  <2>2. \A d \in Context : LinkOf(d)' = LinkOf(d)
    BY <2>1 DEF LinkOf
  <2>3. QED
    BY <2>1, <2>2, Unnoticed
<1>6. QED
  BY <1>1, <1>2, <1>3, <1>4, <1>5 DEF Next

\* The forwarding manager is a relay: bytes arrive in order and once, the end of a stream is
\* passed on after its last byte, and a connection is given up only when it could not be made,
\* both streams are over, or an end went away.
THEOREM Relays == Spec => ImplementsRelay
<1>1. IInv /\ [Next]_vars => [R!Next]_(R!vars)
  BY RelayStep
<1>2. Init => R!Init
  BY RelayInit
<1>. QED
  BY <1>1, <1>2, Invariance, PTL DEF Spec, ImplementsRelay, R!Spec
=============================================================================
