------------------------ MODULE HelperForward_proofs ------------------------
(***************************************************************************)
(* Proofs about HelperForward, for every size of the buffer, every amount  *)
(* that the kernel holds for an end, and every number of bytes.            *)
(*                                                                         *)
(* What was taken from an end is with its peer, up to the rest of ioBuffer *)
(* while the process is in SendBuffer (Flow); where the process stands     *)
(* says which ends were told that a stream is over (Places).               *)
(***************************************************************************)
EXTENDS HelperForward, TLAPS, SequenceTheorems

\* The first n bytes of a stream.
First(n) == [k \in 1..n |-> k]

\* How far the stream of end i has come.  A process that exited may have lost the rest.
Flow(i) ==
  /\ taken[i] <= sent[i]
  /\ ~(sending /\ source = i) /\ phase # "Exited" => received[PeerOf(i)] = First(taken[i])
  /\ sending /\ source = i =>
       /\ Len(ioBuffer) <= taken[i]
       /\ \A k \in 1 .. Len(ioBuffer) : ioBuffer[k] = taken[i] - Len(ioBuffer) + k
       /\ received[PeerOf(i)] = First(taken[i] - Len(ioBuffer) + sentBytes)

\* What is true where the process stands.
Places ==
  /\ sending => phase \in {"Handle", "Drain", "Reverse"}
  /\ phase = "Connecting" => \A i \in End : ~told[i]
  /\ phase = "Reverse" => told[PeerOf(index)]
  /\ phase = "Closing" => \A i \in End : told[i]
  /\ \A i \in End : gone[i] => ended[i]
  /\ \A i \in End : revents[i] = "err" => gone[i]

IInv == TypeOK /\ Places /\ \A i \in End : Flow(i)

USE DEF processVars, endVars

----------------------------------------------------------------------------
\* Streams

\* The first bytes of a stream are a sequence.
LEMMA FirstIsSeq ==
  ASSUME NEW n \in Nat
  PROVE  First(n) \in Seq(Nat) /\ Len(First(n)) = n
BY DEF First

\* A piece of a buffer that holds the bytes after the first m ones, from s on, extends them.
LEMMA Extended ==
  ASSUME NEW m \in Nat, NEW b \in Seq(Nat), NEW s \in Nat, NEW n \in Nat \ {0},
         s + n <= Len(b), \A k \in 1..n : b[s + k] = m + k
  PROVE  First(m) \o SubSeq(b, s + 1, s + n) = First(m + n)
<1> DEFINE piece == SubSeq(b, s + 1, s + n)
           f == First(m)
           g == First(m + n)
<1>1. piece \in Seq(Nat) /\ Len(piece) = n /\ \A k \in 1..n : piece[k] = b[s + k]
  <2>1. Len(b) \in Nat /\ \A k \in 1 .. Len(b) : b[k] \in Nat
    BY LenProperties
  <2>2. \A k \in s + 1 .. s + n : k \in 1 .. Len(b)
    BY <2>1
  <2>3. /\ s + 1 \in Int /\ s + n \in Int /\ s + 1 <= s + n /\ s + n - (s + 1) + 1 = n
        /\ \A k \in 1..n : s + 1 + k - 1 = s + k
    OBVIOUS
  <2>4. QED
    BY <2>1, <2>2, <2>3, SubSeqProperties
<1>2. n \in Nat /\ f \in Seq(Nat) /\ Len(f) = m /\ g \in Seq(Nat) /\ Len(g) = m + n
  <2>1. n \in Nat /\ m + n \in Nat
    OBVIOUS
  <2>2. QED
    BY <2>1, FirstIsSeq
<1>. HIDE DEF piece, f, g
<1>3. /\ f \o piece \in Seq(Nat)
      /\ Len(f \o piece) = m + n
      /\ \A k \in 1 .. m + n : (f \o piece)[k] = IF k <= m THEN f[k] ELSE piece[k - m]
  <2>1. /\ f \o piece \in Seq(Nat)
        /\ Len(f \o piece) = Len(f) + Len(piece)
        /\ \A k \in 1 .. Len(f) + Len(piece) :
             (f \o piece)[k] = IF k <= Len(f) THEN f[k] ELSE piece[k - Len(f)]
    BY <1>1, <1>2, ConcatProperties
  <2>2. Len(f) = m /\ Len(piece) = n
    BY <1>1, <1>2
  <2>3. QED
    BY <2>1, <2>2
<1>4. \A k \in 1 .. m + n : (f \o piece)[k] = g[k]
  <2>. TAKE k \in 1 .. m + n
  <2>1. CASE k <= m
    BY <1>2, <1>3, <2>1 DEF f, g, First
  <2>2. CASE ~(k <= m)
    <3>1. k - m \in 1..n /\ m + (k - m) = k
      BY <2>2
    <3>2. piece[k - m] = k
      BY <1>1, <3>1
    <3>3. QED
      BY <1>2, <1>3, <2>2, <3>2 DEF g, First
  <2>3. QED
    BY <2>1, <2>2
<1>5. f \o piece = g
  BY <1>2, <1>3, <1>4, SeqEqual
<1>. QED
  BY <1>5 DEF piece, f, g

\* The two ends.
LEMMA Peers ==
  ASSUME NEW i \in End
  PROVE  /\ PeerOf(i) \in End /\ PeerOf(i) # i /\ PeerOf(PeerOf(i)) = i
         /\ \A j \in End : j = i \/ j = PeerOf(i)
BY DEF PeerOf, End

----------------------------------------------------------------------------
\* The invariant

\* Nothing was sent at first.
LEMMA Initially == Init => IInv
<1>. SUFFICES ASSUME Init PROVE IInv
  OBVIOUS
<1>1. TypeOK
  <2>1. << >> \in Seq(Nat) /\ Len(<< >>) = 0 /\ 0 \in 0..0
    OBVIOUS
  <2>2. 0 \in 0..MaxSent
    BY HelperForwardAssumption
  <2>3. ioBuffer \in Seq(Nat) /\ sentBytes \in 0 .. Len(ioBuffer)
    BY <2>1 DEF Init
  <2>4. QED
    BY <2>1, <2>2, <2>3 DEF Init, TypeOK, End
<1>2. Places
  BY DEF Init, Places
<1>3. ASSUME NEW i \in End PROVE Flow(i)
  BY Peers DEF Init, Flow, First
<1>4. QED
  BY <1>1, <1>2, <1>3 DEF IInv

\* recv from end i: its bytes are in the buffer, and none of them was sent.
LEMMA ReceivesKeeps ==
  ASSUME IInv, NEW i \in End, ~sending, Receives(i), UNCHANGED <<phase, index>>,
         phase \in {"Handle", "Drain", "Reverse"}
  PROVE  IInv'
<1>1. PICK n \in 1..MAX_BUFFER_SIZE :
        /\ taken[i] + n <= sent[i]
        /\ taken' = [taken EXCEPT ![i] = @ + n]
        /\ ioBuffer' = [k \in 1..n |-> taken[i] + k]
  BY DEF Receives
<1>2. n \in Nat
  BY HelperForwardAssumption
<1>3. /\ source' = i /\ sentBytes' = 0 /\ sending' = TRUE
      /\ UNCHANGED <<phase, index, revents, sent, received, consumed, ended, gone, told>>
  BY DEF Receives
<1>4. TypeOK /\ Places /\ \A j \in End : Flow(j)
  BY DEF IInv
<1>5. taken \in [End -> Nat] /\ taken[i] \in Nat
  BY <1>4 DEF TypeOK
<1>6. taken'[i] = taken[i] + n /\ taken' \in [End -> Nat]
      /\ \A j \in End \ {i} : taken'[j] = taken[j]
  BY <1>1, <1>2, <1>5
<1>7. ioBuffer' \in Seq(Nat) /\ Len(ioBuffer') = n /\ \A k \in 1..n : ioBuffer'[k] = taken[i] + k
  BY <1>1, <1>2, <1>5
<1>8. 0 \in 0 .. Len(ioBuffer')
  BY <1>2, <1>7
<1>9. TypeOK'
  BY <1>3, <1>4, <1>6, <1>7, <1>8 DEF TypeOK
<1>10. Places'
  BY <1>3, <1>4 DEF Places
<1>11. Flow(i)'
  <2>1. received[PeerOf(i)] = First(taken[i])
    BY <1>4 DEF Flow
  <2>2. taken'[i] - n = taken[i] /\ taken'[i] - n + 0 = taken[i] /\ n <= taken'[i]
    BY <1>2, <1>5, <1>6
  <2>3. taken'[i] <= sent'[i]
    BY <1>1, <1>3, <1>6
  <2>4. QED
    BY <1>3, <1>7, <2>1, <2>2, <2>3 DEF Flow
<1>12. \A j \in End \ {i} : Flow(j)'
  BY <1>3, <1>4, <1>6 DEF Flow
<1>13. QED
  BY <1>9, <1>10, <1>11, <1>12 DEF IInv

\* SendBuffer sends the next n bytes of its buffer.
LEMMA NextPiece ==
  ASSUME IInv, sending, NEW n \in 1 .. Len(ioBuffer) - sentBytes
  PROVE  \E m \in Nat :
           /\ n \in Nat /\ n > 0 /\ m + n \in Nat /\ m + n <= taken[source]
           /\ m + n = taken[source] - Len(ioBuffer) + (sentBytes + n)
           /\ received[PeerOf(source)] = First(m)
           /\ received[PeerOf(source)] \o SubSeq(ioBuffer, sentBytes + 1, sentBytes + n)
                = First(m + n)
<1>0. source \in End /\ Flow(source)
  BY DEF IInv, TypeOK
<1>1. PICK T \in Nat, l \in Nat, s \in Nat : T = taken[source] /\ l = Len(ioBuffer) /\ s = sentBytes
  BY <1>0, LenProperties DEF IInv, TypeOK
<1>2. s \in 0..l /\ l <= T /\ ioBuffer \in Seq(Nat)
  BY <1>0, <1>1 DEF IInv, TypeOK, Flow
<1>3. PICK m \in Nat : m = T - l + s
  BY <1>2
<1>4. n \in 1 .. l - s
  BY <1>1
<1>5. n \in Nat /\ n > 0 /\ s + n <= l /\ m + n <= T /\ m + n = T - l + (s + n) /\ m + n \in Nat
  BY <1>2, <1>3, <1>4
<1>6. \A k \in 1..n : s + k \in 1..l /\ T - l + (s + k) = m + k
  BY <1>3, <1>5
<1>7. \A k \in 1..l : ioBuffer[k] = T - l + k
  BY <1>0, <1>1 DEF Flow
<1>8. \A k \in 1..n : ioBuffer[s + k] = m + k
  BY <1>6, <1>7
<1>9. First(m) \o SubSeq(ioBuffer, s + 1, s + n) = First(m + n)
  <2>1. n \in Nat \ {0} /\ s + n <= Len(ioBuffer)
    BY <1>1, <1>5
  <2>2. QED
    BY <1>2, <1>8, <2>1, Extended
<1>10. received[PeerOf(source)] = First(m)
  BY <1>0, <1>1, <1>3 DEF Flow
<1>11. QED
  BY <1>1, <1>5, <1>9, <1>10

\* ... which leaves the streams as far as they have come.
LEMMA SendsSomeKeeps ==
  ASSUME IInv, SendsSome
  PROVE  IInv'
<1>0. TypeOK /\ Places /\ \A j \in End : Flow(j)
  BY DEF IInv
<1>1. source \in End /\ sending
  BY <1>0 DEF TypeOK, SendsSome
<1>2. PICK n \in 1 .. Len(ioBuffer) - sentBytes :
        /\ received' = [received EXCEPT ![PeerOf(source)] =
             @ \o SubSeq(ioBuffer, sentBytes + 1, sentBytes + n)]
        /\ sentBytes' = sentBytes + n
  BY DEF SendsSome, Advance
<1>3. UNCHANGED <<phase, index, revents, source, ioBuffer, sending, sent, taken, consumed, ended,
                  gone, told>>
  BY DEF SendsSome
<1>4. PICK m \in Nat :
        /\ n \in Nat /\ m + n \in Nat
        /\ m + n = taken[source] - Len(ioBuffer) + (sentBytes + n)
        /\ received[PeerOf(source)] \o SubSeq(ioBuffer, sentBytes + 1, sentBytes + n) = First(m + n)
  BY <1>1, NextPiece
<1>5. received \in [End -> Seq(Nat)]
  BY <1>0 DEF TypeOK
<1>6. /\ received'[PeerOf(source)] = First(m + n)
      /\ \A j \in End \ {PeerOf(source)} : received'[j] = received[j]
      /\ received' \in [End -> Seq(Nat)]
  BY <1>1, <1>2, <1>4, <1>5, Peers, FirstIsSeq
<1>7. sentBytes' \in 0 .. Len(ioBuffer')
  <2>1. sentBytes \in 0 .. Len(ioBuffer) /\ Len(ioBuffer) \in Nat
    BY <1>0, LenProperties DEF TypeOK
  <2>2. QED
    BY <1>2, <1>3, <2>1
<1>8. TypeOK'
  BY <1>0, <1>3, <1>6, <1>7 DEF TypeOK
<1>9. Places'
  BY <1>0, <1>3 DEF Places
<1>10. Flow(source)'
  BY <1>0, <1>1, <1>2, <1>3, <1>4, <1>6 DEF Flow
<1>11. ASSUME NEW j \in End \ {source} PROVE Flow(j)'
  <2>1. PeerOf(j) \in End \ {PeerOf(source)}
    BY <1>1, Peers
  <2>2. QED
    BY <1>0, <1>3, <1>6, <1>11, <2>1 DEF Flow
<1>12. QED
  BY <1>3, <1>8, <1>9, <1>10, <1>11 DEF IInv

\* A step of the process outside of recv and send leaves the streams alone.
LEMMA FlowKept ==
  ASSUME NEW i \in End, Flow(i), phase # "Exited",
         UNCHANGED <<source, ioBuffer, sentBytes, sending, sent, taken, received>>
  PROVE  Flow(i)'
BY DEF Flow

\* Every step of the process keeps the invariant.
LEMMA ProcessKeeps ==
  ASSUME IInv, Process
  PROVE  IInv'
<1>0. TypeOK /\ Places /\ \A j \in End : Flow(j)
  BY DEF IInv
<1>1. index \in End /\ PeerOf(index) \in End
  BY <1>0, Peers DEF TypeOK
<1>2. CASE Forwards \/ Drains \/ ForwardsRest
  BY <1>1, <1>2, ReceivesKeeps DEF Forwards, Drains, ForwardsRest, Working
<1>3. CASE SendsSome
  BY <1>3, SendsSomeKeeps
<1>4. CASE SendDone
  <2>0. phase # "Exited"
    BY <1>0, <1>4 DEF SendDone, Places
  <2>1. /\ sending' = FALSE /\ sending /\ sentBytes = Len(ioBuffer)
        /\ UNCHANGED <<revents, source, ioBuffer, sentBytes, sent, taken, received, consumed,
                       ended, gone, told>>
    BY <1>4 DEF SendDone
  <2>2. \/ UNCHANGED <<phase, index>>
        \/ phase = "Handle" /\ index' = 1 /\ phase' = "Handle"
        \/ phase = "Handle" /\ index' = 0 /\ phase' = "Poll"
    BY <1>4 DEF SendDone, NextTurn
  <2>3. TypeOK'
    BY <1>0, <2>1, <2>2 DEF TypeOK, End
  <2>4. Places'
    BY <1>0, <2>1, <2>2 DEF Places
  <2>5. ASSUME NEW i \in End PROVE Flow(i)'
    <3>1. CASE source = i
      <4>1. taken[i] \in Nat /\ Len(ioBuffer) \in Nat
        BY <1>0, LenProperties DEF TypeOK
      <4>2. taken[i] - Len(ioBuffer) + sentBytes = taken[i]
        BY <2>1, <4>1
      <4>3. QED
        BY <1>0, <2>0, <2>1, <3>1, <4>2 DEF Flow
    <3>2. CASE source # i
      BY <1>0, <2>0, <2>1, <3>2 DEF Flow
    <3>3. QED
      BY <3>1, <3>2
  <2>6. QED
    BY <2>3, <2>4, <2>5 DEF IInv
<1>5. CASE SendFails
  <2>1. /\ sending' = FALSE /\ phase' = "Exited"
        /\ UNCHANGED <<index, revents, source, ioBuffer, sentBytes, endVars>>
    BY <1>5 DEF SendFails, Exits
  <2>2. TypeOK' /\ Places'
    BY <1>0, <2>1 DEF TypeOK, Places
  <2>3. \A i \in End : Flow(i)'
    BY <1>0, <2>1 DEF Flow
  <2>. QED
    BY <2>2, <2>3 DEF IInv
<1>6. CASE Drained \/ RestForwarded
  <2>1. PICK i \in End :
          /\ told' = [told EXCEPT ![PeerOf(i)] = TRUE]
          /\ \/ phase = "Drain" /\ phase' = "Reverse" /\ i = index
             \/ phase = "Reverse" /\ phase' = "Closing" /\ i = PeerOf(index)
          /\ ~sending
          /\ UNCHANGED <<index, revents, source, ioBuffer, sentBytes, sending,
                         sent, taken, received, consumed, ended, gone>>
    BY <1>1, <1>6 DEF Drained, RestForwarded, Working, ShutsDown, CarriesOn
  <2>2. told \in [End -> BOOLEAN] /\ told'[PeerOf(i)] /\ told' \in [End -> BOOLEAN]
        /\ \A j \in End : told[j] => told'[j]
    <3>1. told \in [End -> BOOLEAN] /\ PeerOf(i) \in End
      BY <1>0, Peers DEF TypeOK
    <3>2. /\ told'[PeerOf(i)] = TRUE /\ told' \in [End -> BOOLEAN]
          /\ \A j \in End \ {PeerOf(i)} : told'[j] = told[j]
      BY <2>1, <3>1
    <3>3. QED
      BY <3>1, <3>2
  <2>3. TypeOK'
    BY <1>0, <2>1, <2>2 DEF TypeOK
  <2>4. Places'
    BY <1>0, <1>1, <2>1, <2>2, Peers DEF Places
  <2>5. QED
    BY <1>0, <2>1, <2>3, <2>4, FlowKept DEF IInv
<1>7. CASE Polls
  <2>1. /\ phase = "Poll" /\ phase' = "Handle" /\ index' = 0 /\ ~sending
        /\ UNCHANGED <<source, ioBuffer, sentBytes, sending, endVars>>
        /\ revents' \in [End -> {"none", "in", "err", "hup"}]
        /\ \A i \in End : revents'[i] = "err" => gone[i]
    BY <1>7 DEF Polls, Working, Events
  <2>2. TypeOK'
    BY <1>0, <2>1 DEF TypeOK, End
  <2>3. Places'
    BY <1>0, <2>1 DEF Places
  <2>4. QED
    BY <1>0, <2>1, <2>2, <2>3, FlowKept DEF IInv
<1>8. CASE Connects \/ NothingToHandle \/ HangsUp
  <2>1. /\ ~sending /\ phase # "Exited"
        /\ UNCHANGED <<revents, source, ioBuffer, sentBytes, sending, endVars>>
        /\ phase' \in {"Poll", "Handle", "Drain"} /\ index' \in End
    BY <1>1, <1>8 DEF Connects, NothingToHandle, HangsUp, Working, NextTurn, End
  <2>2. TypeOK' /\ Places'
    BY <1>0, <2>1 DEF TypeOK, Places
  <2>3. QED
    BY <1>0, <2>1, <2>2, FlowKept DEF IInv
<1>9. CASE CannotConnect \/ FindsError \/ ReceiveFails \/ Closes
  <2>1. /\ ~sending /\ phase # "Exited" /\ phase' = "Exited"
        /\ UNCHANGED <<index, revents, source, ioBuffer, sentBytes, sending, endVars>>
    BY <1>9 DEF CannotConnect, FindsError, ReceiveFails, Closes, Working, Exits
  <2>2. TypeOK' /\ Places'
    BY <1>0, <2>1 DEF TypeOK, Places
  <2>3. QED
    BY <1>0, <2>1, <2>2, FlowKept DEF IInv
<1>10. QED
  BY <1>2, <1>3, <1>4, <1>5, <1>6, <1>7, <1>8, <1>9 DEF Process

\* The ends send, read and leave without a trace in the process.
LEMMA EndsKeep ==
  ASSUME IInv, NEW i \in End, Sends(i) \/ Consumes(i) \/ Ends(i) \/ Leaves(i)
  PROVE  IInv'
<1>0. TypeOK /\ Places /\ \A j \in End : Flow(j)
  BY DEF IInv
<1>1. UNCHANGED <<processVars, taken, received, told>>
  BY DEF Sends, Consumes, Ends, Leaves
<1>2. /\ sent \in [End -> 0..MaxSent] /\ consumed \in [End -> Nat] /\ taken \in [End -> Nat]
      /\ ended \in [End -> BOOLEAN] /\ gone \in [End -> BOOLEAN]
  BY <1>0 DEF TypeOK
<1>3. sent' \in [End -> 0..MaxSent] /\ \A j \in End : sent[j] <= sent'[j]
  <2>1. CASE Sends(i)
    <3>1. sent' = [sent EXCEPT ![i] = @ + 1] /\ sent[i] < MaxSent
      BY <2>1 DEF Sends
    <3>2. sent[i] + 1 \in 0..MaxSent
      BY <1>2, <3>1, HelperForwardAssumption
    <3>3. QED
      BY <1>2, <3>1, <3>2, HelperForwardAssumption
  <2>2. CASE sent' = sent
    BY <1>2, <2>2, HelperForwardAssumption
  <2>3. QED
    BY <2>1, <2>2 DEF Consumes, Ends, Leaves
<1>4. consumed' \in [End -> Nat]
  <2>1. CASE Consumes(i)
    <3>1. consumed' = [consumed EXCEPT ![i] = @ + 1] /\ consumed[i] + 1 \in Nat
      BY <1>2, <2>1 DEF Consumes
    <3>2. QED
      BY <1>2, <3>1
  <2>2. CASE consumed' = consumed
    BY <1>2, <2>2
  <2>3. QED
    BY <2>1, <2>2 DEF Sends, Ends, Leaves
<1>5. ended' \in [End -> BOOLEAN] /\ gone' \in [End -> BOOLEAN]
      /\ \A j \in End : (gone[j] => gone'[j]) /\ (gone'[j] => ended'[j])
  <2>1. \A j \in End : gone[j] => ended[j]
    BY <1>0 DEF Places
  <2>2. CASE Sends(i) \/ Consumes(i)
    BY <1>2, <2>1, <2>2 DEF Sends, Consumes
  <2>3. CASE Ends(i)
    BY <1>2, <2>1, <2>3 DEF Ends
  <2>4. CASE Leaves(i)
    BY <1>2, <2>1, <2>4 DEF Leaves
  <2>5. QED
    BY <2>2, <2>3, <2>4
<1>6. TypeOK'
  BY <1>0, <1>1, <1>3, <1>4, <1>5 DEF TypeOK
<1>7. Places'
  BY <1>0, <1>1, <1>5 DEF Places
<1>8. ASSUME NEW j \in End PROVE Flow(j)'
  <2>1. taken'[j] <= sent'[j]
    <3>1. taken[j] \in Nat /\ sent[j] \in Int /\ sent'[j] \in Int /\ taken'[j] = taken[j]
      BY <1>1, <1>2, <1>3, HelperForwardAssumption
    <3>2. taken[j] <= sent[j] /\ sent[j] <= sent'[j]
      BY <1>0, <1>3 DEF Flow
    <3>3. QED
      BY <3>1, <3>2
  <2>2. QED
    BY <1>0, <1>1, <2>1 DEF Flow
<1>9. QED
  BY <1>6, <1>7, <1>8 DEF IInv

\* Every step keeps the invariant.
LEMMA Step == IInv /\ [Next]_vars => IInv'
<1>1. IInv /\ UNCHANGED vars => IInv'
  BY DEF vars, IInv, TypeOK, Places, Flow
<1>2. QED
  BY <1>1, ProcessKeeps, EndsKeep DEF Next

\* The invariant of a child process of the helper.
THEOREM Invariance == Spec => []IInv
BY Initially, Step, PTL DEF Spec

\* Every variable keeps its type, and SendBuffer stays within its buffer (main.cpp:376-408).
THEOREM TypesHold == Spec => []TypeOK
<1>1. IInv => TypeOK
  BY DEF IInv
<1>. QED
  BY <1>1, Invariance, PTL

----------------------------------------------------------------------------
\* The process implements Relay

\* The one connection of the relay, seen from the process.
LEMMA TheChild ==
  ASSUME NEW f
  PROVE  Theirs(f)["child"] = f /\ \A g : Theirs(g) = [Theirs(f) EXCEPT !["child"] = g]
BY DEF Theirs

\* A step that leaves the ends and the link alone is none for the relay.
LEMMA Unnoticed ==
  ASSUME UNCHANGED <<sent, received, ended, gone, told>>, Link' = Link
  PROVE  UNCHANGED R!vars
BY DEF R!vars, Theirs

\* Sending a part of the buffer delivers the next bytes to the peer.
LEMMA SendsSomeRelays ==
  ASSUME IInv, SendsSome
  PROVE  R!Next
<1>0. TypeOK /\ Places /\ Flow(source) /\ source \in End
  BY DEF IInv, TypeOK
<1>1. PICK n \in 1 .. Len(ioBuffer) - sentBytes :
        /\ received' = [received EXCEPT ![PeerOf(source)] =
             @ \o SubSeq(ioBuffer, sentBytes + 1, sentBytes + n)]
  BY DEF SendsSome
<1>2. PICK m \in Nat :
        /\ n \in Nat /\ n > 0 /\ m + n <= taken[source]
        /\ received[PeerOf(source)] = First(m)
        /\ received' = [received EXCEPT ![PeerOf(source)] = First(m + n)]
  BY <1>1, NextPiece DEF SendsSome
<1>3. Link = "Open" /\ Link' = Link
  BY <1>0 DEF SendsSome, Places, Link
<1>4. PeerOf(source) \in R!End /\ R!PeerOf(PeerOf(source)) = source
  BY <1>0 DEF PeerOf, End, R!End, R!PeerOf
<1>5. m + n \in Len(received[PeerOf(source)]) + 1 .. sent[source]
  <2>1. taken[source] \in Nat /\ sent[source] \in Int /\ taken[source] <= sent[source]
    BY <1>0, HelperForwardAssumption DEF TypeOK, Flow
  <2>2. Len(First(m)) = m
    BY FirstIsSeq
  <2>3. Len(received[PeerOf(source)]) = m
    BY <1>2, <2>2
  <2>4. QED
    BY <1>2, <2>1, <2>3
<1>6. Theirs(received)' = [Theirs(received) EXCEPT !["child"][PeerOf(source)] = R!FirstBytes(m + n)]
  BY <1>2 DEF Theirs, R!FirstBytes, First
<1>7. R!Deliver("child", PeerOf(source))
  BY <1>3, <1>4, <1>5, <1>6 DEF R!Deliver, Theirs, SendsSome
<1>8. QED
  BY <1>4, <1>7 DEF R!Next

\* The end of a stream is passed on when all of it was.
LEMMA DrainedRelays ==
  ASSUME IInv, Drained \/ RestForwarded
  PROVE  R!Next
<1>0. TypeOK /\ Places /\ index \in End /\ PeerOf(index) \in End
  BY Peers DEF IInv, TypeOK
<1>1. PICK i \in End :
          /\ told' = [told EXCEPT ![PeerOf(i)] = TRUE]
          /\ StreamOver(i)
          /\ phase \in {"Drain", "Reverse"} /\ phase' \in {"Reverse", "Closing"} /\ ~sending
          /\ UNCHANGED <<sent, received, ended, gone>>
  BY <1>0 DEF Drained, RestForwarded, Working, ShutsDown, CarriesOn
<1>2. Flow(i)
  BY DEF IInv
<1>3. Link = "Open" /\ Link' = Link
  BY <1>1 DEF Link
<1>4. PeerOf(i) \in R!End /\ R!PeerOf(PeerOf(i)) = i
  BY DEF PeerOf, End, R!End, R!PeerOf
<1>5. ended[i] /\ (received[PeerOf(i)] = R!FirstBytes(sent[i]) \/ gone[i])
  BY <1>0, <1>1, <1>2 DEF StreamOver, Places, Flow, First, R!FirstBytes
<1>6. Theirs(told)' = [Theirs(told) EXCEPT !["child"][PeerOf(i)] = TRUE]
  BY <1>1 DEF Theirs
<1>7. R!TellEnd("child", PeerOf(i))
  BY <1>1, <1>3, <1>4, <1>5, <1>6 DEF R!TellEnd, Theirs
<1>8. QED
  BY <1>4, <1>7 DEF R!Next

\* The process exits when it could not connect, an end is gone, or both streams are over.
LEMMA ExitsRelay ==
  ASSUME IInv, CannotConnect \/ FindsError \/ ReceiveFails \/ SendFails \/ Closes
  PROVE  R!Next
<1>0. TypeOK /\ Places
  BY DEF IInv
<1>1. index \in End /\ source \in End /\ PeerOf(source) \in End
  BY <1>0, Peers DEF TypeOK
<1>2. phase' = "Exited" /\ UNCHANGED <<sent, received, ended, gone, told>>
  BY DEF CannotConnect, FindsError, ReceiveFails, SendFails, Closes, Exits
<1>3. \/ phase = "Connecting" /\ ~(\A i \in End : told[i])
      \/ phase \notin {"Connecting", "Exited"} /\ \E i \in End : gone[i]
      \/ phase = "Closing" /\ \A i \in End : told[i]
  BY <1>0, <1>1 DEF CannotConnect, FindsError, ReceiveFails, SendFails, Closes, Working, Places
<1>4. Link' = IF \A i \in End : told[i] THEN "Closed" ELSE "Broken"
  BY <1>2 DEF Link
<1>5. R!End = End
  BY DEF R!End, End
<1>6. CASE phase = "Connecting" /\ ~(\A i \in End : told[i])
  <2>1. R!Break("child")
    BY <1>2, <1>4, <1>6 DEF R!Break, Theirs, Link
  <2>2. QED
    BY <2>1 DEF R!Next
<1>7. CASE phase \notin {"Connecting", "Exited"} /\ \A i \in End : told[i]
  <2>1. R!Close("child")
    BY <1>2, <1>4, <1>5, <1>7 DEF R!Close, Theirs, Link
  <2>2. QED
    BY <2>1 DEF R!Next
<1>8. CASE /\ phase \notin {"Connecting", "Exited"} /\ ~(\A i \in End : told[i])
           /\ \E i \in End : gone[i]
  <2>1. R!Break("child")
    BY <1>2, <1>4, <1>5, <1>8 DEF R!Break, Theirs, Link
  <2>2. QED
    BY <2>1 DEF R!Next
<1>9. QED
  BY <1>3, <1>6, <1>7, <1>8

\* Every step is one of the relay, or none.
LEMMA RelayStep == IInv /\ [Next]_vars => [R!Next]_(R!vars)
<1>. SUFFICES ASSUME IInv, [Next]_vars PROVE [R!Next]_(R!vars)
  OBVIOUS
<1>1. CASE SendsSome \/ Drained \/ RestForwarded
           \/ CannotConnect \/ FindsError \/ ReceiveFails \/ SendFails \/ Closes
  BY <1>1, SendsSomeRelays, DrainedRelays, ExitsRelay
<1>2. CASE Connects
  <2>1. Link = "Connecting" /\ Link' = "Open" /\ UNCHANGED endVars
    BY <1>2 DEF Connects, Working, Link
  <2>2. R!Connect("child")
    BY <2>1 DEF R!Connect, Theirs
  <2>3. QED
    BY <2>2 DEF R!Next
<1>3. CASE Polls \/ NothingToHandle \/ Forwards \/ HangsUp \/ SendDone \/ Drains \/ ForwardsRest
  <2>1. UNCHANGED <<sent, received, ended, gone, told>>
    BY <1>3 DEF Polls, NothingToHandle, Forwards, HangsUp, SendDone, Drains, ForwardsRest, Receives
  <2>2. phase \notin {"Connecting", "Exited"} /\ phase' \notin {"Connecting", "Exited"}
    BY <1>3 DEF Polls, NothingToHandle, Forwards, HangsUp, SendDone, Drains, ForwardsRest, Working,
       NextTurn, IInv, Places
  <2>3. QED
    BY <2>1, <2>2, Unnoticed DEF Link
<1>4. ASSUME NEW i \in End, Sends(i) \/ Consumes(i) \/ Ends(i) \/ Leaves(i)
      PROVE  [R!Next]_(R!vars)
  <2>1. Link' = Link
    BY <1>4 DEF Sends, Consumes, Ends, Leaves, Link
  <2>2. i \in R!End
    BY DEF End, R!End
  <2>3. CASE Sends(i)
    <3>1. R!Send("child", i)
      BY <2>1, <2>3 DEF Sends, R!Send, Theirs
    <3>2. QED
      BY <2>2, <3>1 DEF R!Next
  <2>4. CASE Ends(i)
    <3>1. R!HangUp("child", i)
      BY <2>1, <2>4 DEF Ends, R!HangUp, Theirs
    <3>2. QED
      BY <2>2, <3>1 DEF R!Next
  <2>5. CASE Leaves(i)
    <3>1. R!Leave("child", i)
      BY <2>1, <2>5 DEF Leaves, R!Leave, Theirs
    <3>2. QED
      BY <2>2, <3>1 DEF R!Next
  <2>6. CASE Consumes(i)
    BY <2>1, <2>6, Unnoticed DEF Consumes
  <2>7. QED
    BY <1>4, <2>3, <2>4, <2>5, <2>6
<1>5. CASE UNCHANGED vars
  BY <1>5, Unnoticed DEF vars, Link
<1>6. QED
  BY <1>1, <1>2, <1>3, <1>4, <1>5 DEF Next, Process

\* A child process of the helper is a relay: bytes arrive in order and once, an end is told
\* that the stream is over when it has all of it, and the process gives up only when it could
\* not connect, both streams are over, or an end went away.
THEOREM Relays == Spec => ImplementsRelay
<1>1. Init => R!Init
  <2>. SUFFICES ASSUME Init PROVE R!Init
    OBVIOUS
  <2>1. R!End = End /\ Link = "Connecting"
    BY DEF Init, Link, R!End, End
  <2>2. QED
    BY <2>1 DEF Init, R!Init, Theirs
<1>. QED
  BY <1>1, RelayStep, Invariance, PTL DEF Spec, ImplementsRelay, R!Spec
=============================================================================
