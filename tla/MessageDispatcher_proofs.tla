---------------------- MODULE MessageDispatcher_proofs ----------------------
(***************************************************************************)
(* Proofs about MessageDispatcher, for every set of connections and        *)
(* upstreams.  The inductive invariant of the safety properties is IInv:   *)
(* those that TLC checks (TypeOK, OneHolder, NoLostWakeup, AskedAsPosted)  *)
(* and two facts they rest on, where the threads stand (Flow) and what the *)
(* envelopes contain (Contents).  That the dispatcher implements           *)
(* UpstreamService rests on SInv besides: no upstream is configured twice, *)
(* what the worker remembers of the upstreams it asked is what they said   *)
(* (Remembered, Underway), and a reply that is ready is one that the       *)
(* service may give (Justified).                                           *)
(***************************************************************************)
EXTENDS MessageDispatcher, TLAPS, SequenceTheorems

\* Where the worker stands against what it holds and what its owner has done.
Flow ==
  /\ worker \in {"Processing", "Replying"} <=> current # None
  /\ owner \in {"Configuring", "Listening"} => worker = "NotStarted"
  /\ owner = "Stopped" => worker = "Exited"
  /\ owner = "Destroying" => worker \in {"NotStarted", "Exited"}

\* An envelope that waits to be processed contains what was posted, only the one in
\* process has been shown to upstreams, and the loop index counts them.
Contents ==
  /\ \A e \in Envelope : owed[e] = 1 => posted[e] \in Request
  /\ \A e \in Queued : envelope[e] = Bare(posted[e])
  /\ worker = "Processing" => envelope[current] = Bare(posted[current])
  /\ worker = "Processing" => Len(asked[current]) = next - 1 /\ next <= Len(clients) + 1
  /\ \A e \in Envelope : e # current => asked[e] = << >>

IInv == TypeOK /\ Flow /\ OneHolder /\ Contents /\ NoLostWakeup /\ AskedAsPosted

\* No upstream is configured twice.
Distinct == \A i, j \in 1 .. Len(clients) : clients[i] = clients[j] => i = j

\* What is remembered of an envelope belongs to its last request.
Remembered ==
  /\ \A e \in Envelope : owed[e] = 1 => outcome[e] = "None"
  /\ owner = "Configuring" =>
       ~cancelFlag /\ \A e \in Envelope : owed[e] = 0 /\ outcome[e] = "None"
  /\ owner = "Destroying" => cancelFlag

\* While the upstreams are asked nobody has settled the request, and answers has those that
\* answered, in the order in which they were asked.
Underway == worker = "Processing" =>
  /\ posted[current] \in DOMAIN Wanted =>
       \A i \in 1 .. next - 1 : asked[current][i].got # Wanted[posted[current]]
  /\ posted[current] = "RequestIdentities" =>
       /\ Len(answers) <= next - 1
       /\ \A i \in 1 .. next - 1 :
            asked[current][i].got = "Identities" <=> \E j \in 1 .. Len(answers) : answers[j] = clients[i]
       /\ \A j \in 1 .. Len(answers) : \E i \in 1 .. next - 1 : answers[j] = clients[i]
       /\ \A i, j \in 1 .. Len(answers) : \A k, l \in 1 .. Len(clients) :
            i < j /\ answers[i] = clients[k] /\ answers[j] = clients[l] => k < l

\* The reply is one that the answers of the upstreams justify.
Justified == worker = "Replying" =>
  IF status
    THEN /\ posted[current] # "Empty"
         /\ Service!Settled(posted[current], Heard[current])
         /\ envelope[current] \in Service!Summaries(posted[current], Heard[current])
    ELSE posted[current] = "Empty"

SInv == Distinct /\ Remembered /\ Underway /\ Justified

\* What push_back and pop_back do to a list.
LEMMA Appended ==
  ASSUME NEW S, NEW s \in Seq(S), NEW e \in S
  PROVE  /\ Append(s, e) \in Seq(S)
         /\ Len(Append(s, e)) = Len(s) + 1
         /\ DOMAIN Append(s, e) = 1 .. Len(s) + 1
         /\ \A i \in 1 .. Len(s) : Append(s, e)[i] = s[i]
         /\ Append(s, e)[Len(s) + 1] = e
  OBVIOUS

\* A sequence without its last element.
LEMMA Shortened ==
  ASSUME NEW S, NEW s \in Seq(S), s # << >>
  PROVE  /\ Len(s) \in Nat \ {0}
         /\ s[Len(s)] \in S
         /\ SubSeq(s, 1, Len(s) - 1) \in Seq(S)
         /\ DOMAIN SubSeq(s, 1, Len(s) - 1) = 1 .. Len(s) - 1
         /\ \A i \in 1 .. Len(s) - 1 : SubSeq(s, 1, Len(s) - 1)[i] = s[i]
<1>0. Len(s) \in Nat \ {0}
  BY EmptySeq
<1>. PICK n \in Nat : Len(s) = n + 1
  BY <1>0
<1>1. n \in 0 .. Len(s) /\ Len(s) - 1 = n
  OBVIOUS
<1>2. SubSeq(s, 1, n) = [i \in 1 .. n |-> s[i]]
  BY <1>1, SubSeqRestrict DEF Restrict
<1>3. \A i \in 1 .. n + 1 : s[i] \in S
  BY <1>1, ElementOfSeq
<1>4. SubSeq(s, 1, n) \in [1 .. n -> S]
  <2>1. \A i \in 1 .. n : s[i] \in S
    BY <1>3
  <2>2. [i \in 1 .. n |-> s[i]] \in [1 .. n -> S]
    BY <2>1
  <2>3. QED
    BY <1>2, <2>2, Zenon
<1>5. SubSeq(s, 1, n) \in Seq(S)
  BY <1>1, <1>4, SeqDef
<1>6. DOMAIN SubSeq(s, 1, n) = 1 .. n /\ \A i \in 1 .. n : SubSeq(s, 1, n)[i] = s[i]
  BY <1>2
<1>7. s[Len(s)] \in S
  BY <1>3
<1>8. QED
  BY <1>0, <1>1, <1>5, <1>6, <1>7

\* A message of one byte is a message.
LEMMA BareIsMessage ==
  ASSUME NEW k \in Request \cup {"Success", "Failure"}
  PROVE  Bare(k) \in Message
BY EmptySeq DEF Bare, Message

\* Queued as the list is shortened or extended at its end.
LEMMA QueuedPopped ==
  ASSUME TypeOK, OneHolder, messageList # << >>,
         messageList' = SubSeq(messageList, 1, Len(messageList) - 1)
  PROVE  /\ messageList' \in Seq(Envelope)
         /\ messageList[Len(messageList)] \in Queued
         /\ messageList[Len(messageList)] \in Envelope
         /\ Queued' = Queued \ {messageList[Len(messageList)]}
         /\ \A i, j \in DOMAIN messageList' : messageList'[i] = messageList'[j] => i = j
<1>0. messageList \in Seq(Envelope) /\ Len(messageList) \in Nat \ {0}
  BY EmptySeq DEF TypeOK
<1>. PICK n \in Nat : Len(messageList) = n + 1
  BY <1>0
<1>1. /\ DOMAIN messageList = 1 .. n + 1
      /\ messageList[n + 1] \in Envelope
  BY <1>0, LenProperties, ElementOfSeq
<1>2. /\ messageList' \in Seq(Envelope)
      /\ DOMAIN messageList' = 1 .. n
      /\ \A i \in 1 .. n : messageList'[i] = messageList[i]
  BY <1>0, Shortened
<1>3. \A i, j \in 1 .. n + 1 : messageList[i] = messageList[j] => i = j
  BY <1>1 DEF OneHolder
<1>4. 1 .. n + 1 = (1 .. n) \cup {n + 1} /\ n + 1 \notin 1 .. n
  OBVIOUS
<1>5. Queued = {messageList[i] : i \in 1 .. n} \cup {messageList[n + 1]}
  BY <1>1, <1>4 DEF Queued
<1>6. Queued' = {messageList[i] : i \in 1 .. n}
  BY <1>2 DEF Queued
<1>7. messageList[n + 1] \notin {messageList[i] : i \in 1 .. n}
  BY <1>3, <1>4
<1>8. \A i, j \in DOMAIN messageList' : messageList'[i] = messageList'[j] => i = j
  BY <1>2, <1>3, <1>4
<1>9. QED
  BY <1>1, <1>2, <1>5, <1>6, <1>7, <1>8

\* ... when an envelope is appended
LEMMA QueuedAppended ==
  ASSUME TypeOK, OneHolder, NEW e \in Envelope, e \notin Queued,
         messageList' = Append(messageList, e)
  PROVE  /\ messageList' \in Seq(Envelope)
         /\ messageList' # << >>
         /\ Queued' = Queued \cup {e}
         /\ \A i, j \in DOMAIN messageList' : messageList'[i] = messageList'[j] => i = j
<1> DEFINE n == Len(messageList)
<1>1. /\ messageList \in Seq(Envelope)
      /\ n \in Nat
      /\ DOMAIN messageList = 1 .. n
      /\ messageList' \in Seq(Envelope)
      /\ DOMAIN messageList' = 1 .. n + 1
      /\ \A i \in 1 .. n : messageList'[i] = messageList[i]
      /\ messageList'[n + 1] = e
  BY Appended, LenProperties DEF TypeOK
<1>2. Queued' = Queued \cup {e}
  BY <1>1 DEF Queued
<1>3. \A i, j \in 1 .. n : messageList[i] = messageList[j] => i = j
  BY <1>1 DEF OneHolder
<1>4. messageList' # << >>
  BY <1>1, EmptySeq
<1>5. QED
  BY <1>1, <1>2, <1>3, <1>4 DEF Queued

----------------------------------------------------------------------------
(* IInv is inductive. *)

\* The invariant holds at first.
LEMMA Initially == Init => IInv
<1> SUFFICES ASSUME Init PROVE IInv
  OBVIOUS
<1> USE DEF Init
<1>1. messageList = << >> /\ Queued = {}
  BY LenProperties, EmptySeq DEF Queued
<1>2. TypeOK
  <2>1. /\ << >> \in Seq(Envelope)
        /\ << >> \in Seq(Client)
        /\ << >> \in Seq(Exchanged)
    BY EmptySeq
  <2>2. /\ messageList \in Seq(Envelope) /\ clients \in Seq(Client)
        /\ answers \in Seq(Client)
        /\ asked \in [Envelope -> Seq(Exchanged)]
    BY <2>1
  <2>3. /\ envelope \in [Envelope -> Message \cup {None}]
        /\ posted \in [Envelope -> Request \cup {None}]
        /\ owed \in [Envelope -> 0 .. 1]
        /\ outcome \in [Envelope -> {"None", "Answered", "Refused"}]
        /\ next \in Nat \ {0}
    OBVIOUS
  <2>4. QED
    BY <2>2, <2>3 DEF TypeOK
<1>3. OneHolder
  BY <1>1, NoneAssumption DEF OneHolder
<1>4. Flow /\ Contents /\ NoLostWakeup /\ AskedAsPosted
  BY <1>1 DEF Flow, Contents, NoLostWakeup, AskedAsPosted
<1>5. QED
  BY <1>2, <1>3, <1>4 DEF IInv

\* What the thread that owns the dispatcher does.
LEMMA OwnerSteps ==
  ASSUME IInv,
         \/ \E c \in Client : AddClient(c)
         \/ OpenListeners \/ Start \/ Stop \/ StopReturns \/ Destroy \/ Destroyed
  PROVE  IInv'
<1> USE DEF IInv
<1>1. ASSUME NEW c \in Client, AddClient(c) PROVE IInv'
  <2> USE <1>1 DEF AddClient, workerVars
  <2>1. /\ clients' \in Seq(Client)
        /\ Len(clients') = Len(clients) + 1
    BY Appended DEF TypeOK
  <2>2. worker = "NotStarted" /\ \A e \in Envelope : asked[e] = << >>
    BY NoneAssumption DEF Flow, Contents, TypeOK
  <2>3. TypeOK' /\ Flow'
    BY <2>1 DEF TypeOK, Flow
  <2>4. OneHolder' /\ NoLostWakeup'
    BY DEF OneHolder, NoLostWakeup, Queued
  <2>5. Contents' /\ AskedAsPosted'
    BY <2>1, <2>2 DEF Contents, AskedAsPosted, Queued, Flow
  <2>6. QED
    BY <2>3, <2>4, <2>5
<1>2. ASSUME OpenListeners \/ Start \/ Stop \/ StopReturns \/ Destroy \/ Destroyed
      PROVE  IInv'
  <2> USE <1>2 DEF OpenListeners, Start, Stop, StopReturns, Destroy, Destroyed, Notified,
                   vars, workerVars
  <2>1. TypeOK'
    BY DEF TypeOK
  <2>2. Flow' /\ NoLostWakeup'
    BY DEF Flow, NoLostWakeup, TypeOK
  <2>3. OneHolder' /\ AskedAsPosted'
    BY DEF OneHolder, AskedAsPosted, Queued
  <2>4. Contents'
    BY DEF Contents, Queued, Flow
  <2>5. QED
    BY <2>1, <2>2, <2>3, <2>4
<1>3. QED
  BY <1>1, <1>2

\* What a connection does.
LEMMA ConnectionSteps ==
  ASSUME IInv, NEW e \in Envelope, NEW k \in Offered,
         PostRequest(e, k) \/ PostAfterStop(e, k)
  PROVE  IInv'
<1> USE DEF IInv
<1>1. /\ k \in Request
      /\ Bare(k) \in Message
      /\ owed[e] = 0
      /\ e \notin Queued
      /\ e # current
      /\ envelope' = [envelope EXCEPT ![e] = Bare(k)]
      /\ posted' = [posted EXCEPT ![e] = k]
  BY OfferedAssumption, BareIsMessage DEF PostRequest, PostAfterStop, Receives, OneHolder, TypeOK
<1>2. asked[e] = << >>
  BY <1>1 DEF Contents
<1>3. CASE PostRequest(e, k)
  <2> USE <1>3 DEF PostRequest, Receives, Notified
  <2>1. /\ messageList' \in Seq(Envelope)
        /\ messageList' # << >>
        /\ Queued' = Queued \cup {e}
        /\ \A i, j \in DOMAIN messageList' : messageList'[i] = messageList'[j] => i = j
    BY <1>1, QueuedAppended
  <2>2. TypeOK'
    BY <1>1, <2>1 DEF TypeOK
  <2>3. OneHolder'
    BY <1>1, <2>1 DEF OneHolder, TypeOK
  <2>4. Flow' /\ NoLostWakeup'
    BY DEF Flow, NoLostWakeup, TypeOK
  <2>5. Contents'
    BY <1>1, <1>2, <2>1, NoneAssumption DEF Contents, OneHolder, TypeOK, Flow
  <2>6. AskedAsPosted'
    BY <1>1, <1>2, LenProperties DEF AskedAsPosted, TypeOK
  <2>7. QED
    BY <2>2, <2>3, <2>4, <2>5, <2>6
<1>4. CASE PostAfterStop(e, k)
  <2> USE <1>4 DEF PostAfterStop, Receives, workerVars
  <2>1. Queued' = Queued
    BY DEF Queued
  <2>2. TypeOK'
    BY <1>1 DEF TypeOK
  <2>3. OneHolder'
    BY <2>1 DEF OneHolder, TypeOK
  <2>4. Flow' /\ NoLostWakeup'
    BY DEF Flow, NoLostWakeup
  <2>5. Contents'
    BY <1>1, <1>2, <2>1, NoneAssumption DEF Contents, OneHolder, TypeOK, Flow
  <2>6. AskedAsPosted'
    BY <1>1, <1>2, LenProperties DEF AskedAsPosted, TypeOK
  <2>7. QED
    BY <2>2, <2>3, <2>4, <2>5, <2>6
<1>5. QED
  BY <1>3, <1>4

\* The three places where the worker takes the lock.
LEMMA LoopSteps ==
  ASSUME IInv, OuterLoop \/ OuterLoopEnds \/ InnerLoop
  PROVE  IInv'
<1> USE DEF IInv
<1>0. current = None /\ worker \notin {"NotStarted", "Exited"}
  BY DEF OuterLoop, OuterLoopEnds, InnerLoop, Flow
<1>1. CASE /\ TakeLast
           /\ UNCHANGED <<cancelFlag, clients, status, owner, envelope, posted, asked, owed,
                           outcome>>
  <2> DEFINE e == messageList[Len(messageList)]
  <2> USE <1>1 DEF TakeLast, Popped
  <2>1. /\ messageList' \in Seq(Envelope)
        /\ e \in Queued
        /\ e \in Envelope
        /\ Queued' = Queued \ {e}
        /\ \A i, j \in DOMAIN messageList' : messageList'[i] = messageList'[j] => i = j
        /\ current' = e
    BY QueuedPopped
  <2> HIDE DEF e
  <2>2. TypeOK'
    BY <2>1, EmptySeq DEF TypeOK
  <2>3. OneHolder'
    BY <1>0, <2>1, NoneAssumption DEF OneHolder, TypeOK
  <2>4. Flow' /\ NoLostWakeup'
    BY <1>0, <2>1, NoneAssumption DEF Flow, NoLostWakeup
  <2>5. Contents'
    <3>1. asked[e] = << >> /\ Len(asked[e]) = 0
      BY <1>0, <2>1, NoneAssumption, EmptySeq DEF Contents
    <3>2. Len(clients) \in Nat
      BY LenProperties DEF TypeOK
    <3>3. /\ \A d \in Envelope : d # current' => asked[d] = << >>
          /\ next' = 1 /\ 1 <= Len(clients) + 1
      BY <1>0, <3>2, NoneAssumption DEF Contents
    <3>4. envelope[e] = Bare(posted[e])
      BY <2>1 DEF Contents
    <3>5. QED
      BY <2>1, <3>1, <3>3, <3>4 DEF Contents
  <2>6. AskedAsPosted'
    BY DEF AskedAsPosted
  <2>7. QED
    BY <2>2, <2>3, <2>4, <2>5, <2>6
<1>2. CASE /\ \/ WaitOrExit
              \/ OuterLoopEnds
           /\ UNCHANGED <<cancelFlag, clients, status, owner, envelope, posted, asked, owed,
                           outcome>>
  <2> USE <1>2 DEF WaitOrExit, OuterLoopEnds
  <2>1. Queued' = Queued
    BY DEF Queued
  <2>2. TypeOK'
    BY DEF TypeOK
  <2>3. OneHolder'
    BY <2>1 DEF OneHolder
  <2>4. Flow' /\ NoLostWakeup'
    BY <1>0 DEF Flow, NoLostWakeup
  <2>5. Contents' /\ AskedAsPosted'
    BY <2>1 DEF Contents, AskedAsPosted
  <2>6. QED
    BY <2>2, <2>3, <2>4, <2>5
<1>3. QED
  BY <1>1, <1>2 DEF OuterLoop, OuterLoopEnds, InnerLoop

\* One exchange with the next upstream leaves the record of exchanges in order.
LEMMA Asking ==
  ASSUME IInv, worker = "Processing", More, NEW s \in Said, SendSshMessage(s),
         UNCHANGED <<clients, posted, current>>
  PROVE  /\ current \in Envelope
         /\ clients[next] \in Client
         /\ asked' \in [Envelope -> Seq(Exchanged)]
         /\ next' \in Nat \ {0}
         /\ Len(asked'[current]) = next' - 1
         /\ next' <= Len(clients) + 1
         /\ \A e \in Envelope : e # current => asked'[e] = << >>
         /\ AskedAsPosted'
<1> USE DEF IInv
<1> DEFINE new == [client |-> clients[next], sent |-> envelope[current], got |-> s]
<1>1. /\ current \in Envelope
      /\ next \in Nat \ {0}
      /\ clients \in Seq(Client)
      /\ asked \in [Envelope -> Seq(Exchanged)]
      /\ Len(clients) \in Nat
      /\ next \in 1 .. Len(clients)
  BY LenProperties DEF TypeOK, Flow, More
<1>2. clients[next] \in Client
  BY <1>1, ElementOfSeq
<1>3. envelope[current] = Bare(posted[current])
  BY DEF Contents
<1>4. owed[current] = 1
  BY <1>1 DEF OneHolder
<1>5. envelope[current] \in Message
  BY <1>1, <1>3, <1>4, BareIsMessage DEF Contents
<1>6. new \in Exchanged
  BY <1>2, <1>5 DEF Exchanged
<1>7. asked' = [asked EXCEPT ![current] = Append(asked[current], new)] /\ next' = next + 1
  BY DEF SendSshMessage
<1> HIDE DEF new
<1>8. /\ asked[current] \in Seq(Exchanged)
      /\ Len(asked[current]) = next - 1
  BY <1>1 DEF Contents
<1>9. /\ asked'[current] \in Seq(Exchanged)
      /\ DOMAIN asked'[current] = 1 .. next
      /\ Len(asked'[current]) = next
      /\ \A i \in 1 .. next - 1 : asked'[current][i] = asked[current][i]
      /\ asked'[current][next] = new
  BY <1>1, <1>6, <1>7, <1>8, Appended
<1>10. /\ asked' \in [Envelope -> Seq(Exchanged)]
       /\ \A e \in Envelope : e # current => asked'[e] = << >>
  BY <1>1, <1>7, <1>9 DEF Contents
<1>11. AskedAsPosted'
  <2>1. ASSUME NEW e \in Envelope, NEW i \in DOMAIN asked'[e], e # current
        PROVE  FALSE
    BY <1>10, <2>1, EmptySeq, LenProperties
  <2>2. ASSUME NEW i \in DOMAIN asked'[current], i # next
        PROVE  /\ i <= Len(clients)
               /\ asked'[current][i].client = clients[i]
               /\ asked'[current][i].sent = Bare(posted[current])
    <3>1. i \in 1 .. next - 1 /\ i \in DOMAIN asked[current]
      BY <1>1, <1>8, <1>9, <2>2, LenProperties
    <3>2. QED
      BY <1>1, <1>9, <3>1 DEF AskedAsPosted
  <2>3. /\ next <= Len(clients)
        /\ asked'[current][next].client = clients[next]
        /\ asked'[current][next].sent = Bare(posted[current])
    BY <1>1, <1>3, <1>9 DEF new
  <2>4. QED
    BY <2>1, <2>2, <2>3 DEF AskedAsPosted
<1>12. QED
  BY <1>1, <1>2, <1>7, <1>9, <1>10, <1>11

\* A handler leaves everything but the message in process alone.
LEMMA HandlerFrame ==
  ASSUME IInv, worker = "Processing", Untouched, worker' \in {"Processing", "Replying"},
         \A e \in Envelope : e # current => envelope'[e] = envelope[e]
  PROVE  /\ current' # None
         /\ Flow' /\ OneHolder' /\ NoLostWakeup'
         /\ \A e \in Envelope : owed'[e] = 1 => posted'[e] \in Request
         /\ \A e \in Queued' : envelope'[e] = Bare(posted'[e])
<1> USE DEF IInv, Untouched
<1>1. Queued' = Queued /\ current' = current /\ current # None
  BY DEF Queued, Flow
<1>2. Flow' /\ NoLostWakeup'
  BY DEF Flow, NoLostWakeup
<1>3. OneHolder'
  BY <1>1 DEF OneHolder
<1>4. Queued \subseteq Envelope
  BY LenProperties, ElementOfSeq DEF Queued, TypeOK
<1>5. \A e \in Queued : envelope'[e] = envelope[e]
  BY <1>4 DEF OneHolder
<1>6. QED
  BY <1>1, <1>2, <1>3, <1>5 DEF Contents

\* The handlers of ProcessRequest.
LEMMA ProcessingSteps ==
  ASSUME IInv, NEW s \in Said,
         \/ HandleUntilSuccess(s) \/ HandleRemoveAll(s) \/ HandleIdentities(s)
         \/ HandleAllFailed \/ HandleRemoveAllDone \/ HandleIdentitiesDone
         \/ HandleUnsupported \/ RejectEmpty
  PROVE  IInv'
<1> USE DEF IInv
<1>1. /\ worker = "Processing"
      /\ current \in Envelope
      /\ Untouched
      /\ envelope[current] \in Message
  <2>1. worker = "Processing" /\ Untouched
    BY DEF HandleUntilSuccess, HandleRemoveAll, HandleIdentities, HandleAllFailed,
           HandleRemoveAllDone, HandleIdentitiesDone, HandleUnsupported, RejectEmpty, Processing
  <2>2. current \in Envelope /\ owed[current] = 1
    BY <2>1 DEF TypeOK, Flow, OneHolder
  <2>3. envelope[current] \in Message
    BY <2>1, <2>2, BareIsMessage DEF Contents
  <2>4. QED
    BY <2>1, <2>2, <2>3
<1>2. CASE HandleUntilSuccess(s) \/ HandleRemoveAll(s) \/ HandleIdentities(s)
  <2>1. More /\ SendSshMessage(s)
    BY <1>2 DEF HandleUntilSuccess, HandleRemoveAll, HandleIdentities
  <2>2. /\ clients[next] \in Client
        /\ asked' \in [Envelope -> Seq(Exchanged)]
        /\ next' \in Nat \ {0}
        /\ Len(asked'[current]) = next' - 1
        /\ next' <= Len(clients) + 1
        /\ \A e \in Envelope : e # current => asked'[e] = << >>
        /\ AskedAsPosted'
    BY <1>1, <2>1, Asking DEF Untouched
  <2>3. answers' \in Seq(Client)
    <3>1. answers \in Seq(Client) /\ Append(answers, clients[next]) \in Seq(Client)
      BY <2>2, Appended DEF TypeOK
    <3>2. answers' \in {answers, Append(answers, clients[next])}
      BY <1>2 DEF HandleUntilSuccess, HandleRemoveAll, HandleIdentities
    <3>3. QED
      BY <3>1, <3>2
  <2>4. \/ UNCHANGED <<envelope, status, worker>>
        \/ /\ Processed(TRUE, [type |-> s, from |-> <<clients[next]>>])
           /\ s \in {"Success", "Signed"}
    BY <1>2 DEF HandleUntilSuccess, HandleRemoveAll, HandleIdentities, Processing, Wanted
  <2>5. s \in {"Success", "Signed"} => [type |-> s, from |-> <<clients[next]>>] \in Message
    <3>1. <<clients[next]>> \in Seq(Client)
      BY <2>2
    <3>2. QED
      BY <3>1 DEF Message
  <2>6. /\ envelope' \in [Envelope -> Message \cup {None}]
        /\ status' \in BOOLEAN
        /\ worker' \in {"Processing", "Replying"}
        /\ \A e \in Envelope : e # current => envelope'[e] = envelope[e]
        /\ worker' = "Processing" => envelope' = envelope
    BY <1>1, <2>4, <2>5 DEF Processed, TypeOK
  <2>7. TypeOK'
    BY <1>1, <2>2, <2>3, <2>6 DEF TypeOK, Untouched
  <2>8. Contents'
    BY <1>1, <2>2, <2>6, HandlerFrame DEF Contents, Untouched
  <2>9. QED
    BY <1>1, <2>2, <2>6, <2>7, <2>8, HandlerFrame
<1>3. CASE \/ HandleAllFailed \/ HandleRemoveAllDone \/ HandleIdentitiesDone
           \/ HandleUnsupported \/ RejectEmpty
  <2>1. PICK b \in BOOLEAN, r \in Message : Processed(b, r)
    <3>1. /\ Bare("Failure") \in Message
          /\ Bare("Success") \in Message
      BY BareIsMessage
    <3>2. [type |-> "Identities", from |-> answers] \in Message
      BY DEF Message, TypeOK
    <3>3. QED
      BY <1>1, <1>3, <3>1, <3>2 DEF HandleAllFailed, HandleRemoveAllDone,
         HandleIdentitiesDone, HandleUnsupported, RejectEmpty
  <2>2. UNCHANGED <<asked, next, answers>>
    BY <1>3 DEF HandleAllFailed, HandleRemoveAllDone, HandleIdentitiesDone, HandleUnsupported,
                RejectEmpty
  <2>3. /\ envelope' \in [Envelope -> Message \cup {None}]
        /\ status' \in BOOLEAN
        /\ worker' = "Replying"
        /\ \A e \in Envelope : e # current => envelope'[e] = envelope[e]
    BY <1>1, <2>1 DEF Processed, TypeOK
  <2>4. TypeOK'
    BY <1>1, <2>2, <2>3 DEF TypeOK, Untouched
  <2>5. Contents'
    BY <1>1, <2>2, <2>3, HandlerFrame DEF Contents, Untouched
  <2>6. AskedAsPosted'
    BY <1>1, <2>2 DEF AskedAsPosted, Untouched
  <2>7. QED
    BY <1>1, <2>3, <2>4, <2>5, <2>6, HandlerFrame
<1>4. QED
  BY <1>2, <1>3

\* The two places where an accepted request is answered.
LEMMA ReplySteps ==
  ASSUME IInv, SendReply \/ DestroyAnswers
  PROVE  IInv'
<1> USE DEF IInv
<1>1. << >> \in Seq(Exchanged) /\ DOMAIN << >> = {}
  BY EmptySeq, LenProperties
<1>2. CASE SendReply
  <2> USE <1>2 DEF SendReply, ReplyCallback
  <2>1. /\ current \in Envelope
        /\ owed[current] = 1
        /\ Queued' = Queued
    BY DEF Flow, OneHolder, TypeOK, Queued
  <2>2. TypeOK'
    BY <1>1, <2>1 DEF TypeOK
  <2>3. OneHolder'
    <3>1. \A e \in Envelope : e # None
      BY NoneAssumption
    <3>2. \A i, j \in DOMAIN messageList' : messageList'[i] = messageList'[j] => i = j
      BY DEF OneHolder
    <3>3. Queued \subseteq Envelope
      BY LenProperties, ElementOfSeq DEF Queued, TypeOK
    <3>4. \A e \in Envelope : owed'[e] = IF e = current THEN 0 ELSE owed[e]
      BY <2>1 DEF TypeOK
    <3>5. QED
      BY <2>1, <3>1, <3>2, <3>3, <3>4 DEF OneHolder
  <2>4. Flow' /\ NoLostWakeup'
    BY DEF Flow, NoLostWakeup
  <2>5. Contents'
    BY <2>1 DEF Contents, TypeOK
  <2>6. AskedAsPosted'
    BY <1>1, <2>1 DEF AskedAsPosted, TypeOK
  <2>7. QED
    BY <2>2, <2>3, <2>4, <2>5, <2>6
<1>3. CASE DestroyAnswers
  <2> DEFINE e == messageList[Len(messageList)]
  <2> USE <1>3 DEF DestroyAnswers, ReplyCallback, workerVars
  <2>1. /\ messageList' \in Seq(Envelope)
        /\ e \in Queued
        /\ e \in Envelope
        /\ Queued' = Queued \ {e}
        /\ \A i, j \in DOMAIN messageList' : messageList'[i] = messageList'[j] => i = j
    BY QueuedPopped
  <2>2. /\ owed' = [owed EXCEPT ![e] = @ - 1]
        /\ outcome' = [outcome EXCEPT ![e] = "Refused"]
        /\ asked' = [asked EXCEPT ![e] = << >>]
        /\ current = None
        /\ worker \in {"NotStarted", "Exited"}
    BY DEF Flow
  <2> HIDE DEF e
  <2>3. owed[e] = 1
    BY <2>1 DEF OneHolder
  <2>4. TypeOK'
    BY <1>1, <2>1, <2>2, <2>3 DEF TypeOK
  <2>5. OneHolder'
    BY <2>1, <2>2, <2>3, NoneAssumption DEF OneHolder, TypeOK
  <2>6. Flow' /\ NoLostWakeup'
    BY <2>2 DEF Flow, NoLostWakeup
  <2>7. Contents'
    BY <2>1, <2>2, <2>3, NoneAssumption DEF Contents, TypeOK
  <2>8. AskedAsPosted'
    BY <1>1, <2>1, <2>2 DEF AskedAsPosted, TypeOK
  <2>9. QED
    BY <2>4, <2>5, <2>6, <2>7, <2>8
<1>4. QED
  BY <1>2, <1>3

\* A stuttering step keeps the invariant.
LEMMA Stuttering ==
  ASSUME IInv, UNCHANGED vars
  PROVE  IInv'
BY DEF IInv, TypeOK, Flow, OneHolder, Contents, NoLostWakeup, AskedAsPosted, Queued, vars,
       workerVars

\* The induction step, one case per group of actions.
LEMMA Step == IInv /\ [Next]_vars => IInv'
<1> SUFFICES ASSUME IInv, [Next]_vars PROVE IInv'
  OBVIOUS
<1>1. CASE \/ \E c \in Client : AddClient(c)
           \/ OpenListeners \/ Start \/ Stop \/ StopReturns \/ Destroy \/ Destroyed
  BY <1>1, OwnerSteps
<1>2. CASE \E e \in Envelope, k \in Offered : PostRequest(e, k) \/ PostAfterStop(e, k)
  BY <1>2, ConnectionSteps
<1>3. CASE OuterLoop \/ OuterLoopEnds \/ InnerLoop
  BY <1>3, LoopSteps
<1>4. CASE Exchange
  BY <1>4, ProcessingSteps DEF Exchange
<1>5. CASE \/ HandleAllFailed \/ HandleRemoveAllDone \/ HandleIdentitiesDone
           \/ HandleUnsupported \/ RejectEmpty
  <2>1. "Down" \in Said
    BY DEF Said
  <2>2. QED
    BY <1>5, <2>1, ProcessingSteps
<1>6. CASE SendReply \/ DestroyAnswers
  BY <1>6, ReplySteps
<1>7. CASE UNCHANGED vars
  BY <1>7, Stuttering
<1>8. QED
  BY <1>1, <1>2, <1>3, <1>4, <1>5, <1>6, <1>7 DEF Next, WorkerStep

\* Every state the dispatcher can reach satisfies the inductive invariant, for every
\* number of connections and upstreams and every order of their steps.
THEOREM Invariance == Spec => []IInv
BY Initially, Step, PTL DEF Spec

\* The type invariant of the dispatcher; that owed stays in 0 .. 1 says that no accepted
\* request is answered twice (worker loop and destructor).
THEOREM TypeCorrect == Spec => []TypeOK
<1>1. IInv => TypeOK
  BY DEF IInv
<1>2. QED
  BY Invariance, <1>1, PTL

\* A request that was accepted and not answered is in the queue or with the worker, and
\* in one place only (PostRequest, the worker loop, the destructor).
THEOREM RequestsHaveOneHolder == Spec => []OneHolder
<1>1. IInv => OneHolder
  BY DEF IInv
<1>2. QED
  BY Invariance, <1>1, PTL

\* No notification of wakeCondition is lost: the worker sleeps only while the queue is
\* empty and Stop was not called (PostRequest, Stop, the wait of the worker loop).
THEOREM WakeupsAreNotLost == Spec => []NoLostWakeup
<1>1. IInv => NoLostWakeup
  BY DEF IInv
<1>2. QED
  BY Invariance, <1>1, PTL

\* Every upstream is asked with what the connection posted, in configuration order and
\* without a gap (the tmpMessage copies and the loops of the Handle functions).
THEOREM UpstreamsAskedAsPosted == Spec => []AskedAsPosted
<1>1. IInv => AskedAsPosted
  BY DEF IInv
<1>2. QED
  BY Invariance, <1>1, PTL

----------------------------------------------------------------------------
(* The dispatcher implements UpstreamService: what is heard is read off the exchanges. *)

\* What HeardIn tells of exchanges made in configuration order.
LEMMA HeardOf ==
  ASSUME NEW cl \in Seq(Client), NEW x \in Seq(Exchanged), Len(x) <= Len(cl),
         \A i, j \in 1 .. Len(cl) : cl[i] = cl[j] => i = j,
         \A i \in 1 .. Len(x) : x[i].client = cl[i]
  PROVE  /\ \A i \in 1 .. Len(x) : HeardIn(x)[cl[i]] = x[i].got
         /\ \A c \in Client : (\A i \in 1 .. Len(x) : cl[i] # c) => HeardIn(x)[c] = None
<1>. DEFINE At(c) == {i \in DOMAIN x : x[i].client = c}
<1>1. /\ DOMAIN x = 1 .. Len(x) /\ Len(x) \in Nat /\ Len(cl) \in Nat
      /\ \A i \in 1 .. Len(x) : i \in 1 .. Len(cl)
  BY LenProperties
<1>2. \A c \in Client :
        HeardIn(x)[c] = IF At(c) = {} THEN None ELSE x[CHOOSE i \in At(c) : TRUE].got
  BY DEF HeardIn
<1>3. ASSUME NEW i \in 1 .. Len(x)
      PROVE  HeardIn(x)[cl[i]] = x[i].got
  <2>1. cl[i] \in Client
    BY <1>1, ElementOfSeq
  <2>2. At(cl[i]) = {i}
    BY <1>1
  <2>3. (CHOOSE j \in At(cl[i]) : TRUE) = i
    BY <2>2
  <2>. HIDE DEF At
  <2>4. QED
    BY <1>2, <2>1, <2>2, <2>3
<1>4. ASSUME NEW c \in Client, \A i \in 1 .. Len(x) : cl[i] # c
      PROVE  HeardIn(x)[c] = None
  <2>1. At(c) = {}
    BY <1>1, <1>4
  <2>. HIDE DEF At
  <2>2. QED
    BY <1>2, <2>1
<1>5. QED
  BY <1>3, <1>4

\* y is x and one exchange more; they are with the first upstreams of cl, in their order.
OneMore(cl, n, x, y) ==
  /\ cl \in Seq(Client) /\ n \in Nat /\ n < Len(cl)
  /\ \A i, j \in 1 .. Len(cl) : cl[i] = cl[j] => i = j
  /\ x \in Seq(Exchanged) /\ Len(x) = n
  /\ y \in Seq(Exchanged) /\ Len(y) = n + 1
  /\ \A i \in 1 .. n : x[i].client = cl[i] /\ y[i] = x[i]
  /\ y[n + 1].client = cl[n + 1]

\* One exchange more is one upstream heard more.
LEMMA HeardMore ==
  ASSUME NEW cl, NEW n, NEW x, NEW y, OneMore(cl, n, x, y)
  PROVE  /\ HeardIn(x)[cl[n + 1]] = None
         /\ HeardIn(y) = [HeardIn(x) EXCEPT ![cl[n + 1]] = y[n + 1].got]
<1> USE DEF OneMore
<1>1. Len(cl) \in Nat
  BY LenProperties
<1>2. cl[n + 1] \in Client
  BY <1>1, ElementOfSeq
<1>3. \A i \in 1 .. n : cl[i] # cl[n + 1]
  BY <1>1
<1>4. HeardIn(x)[cl[n + 1]] = None
  <2>1. Len(x) <= Len(cl)
    BY <1>1
  <2>2. \A c \in Client : (\A i \in 1 .. n : cl[i] # c) => HeardIn(x)[c] = None
    BY <2>1, HeardOf
  <2>3. QED
    BY <1>2, <1>3, <2>2
<1>5. \A i \in 1 .. n + 1 : y[i].client = cl[i]
  BY <1>1
<1>6. /\ \A i \in 1 .. n + 1 : HeardIn(y)[cl[i]] = y[i].got
      /\ \A c \in Client : (\A i \in 1 .. n + 1 : cl[i] # c) => HeardIn(y)[c] = None
  <2>1. Len(y) <= Len(cl) /\ \A i \in 1 .. Len(y) : y[i].client = cl[i]
    BY <1>1, <1>5
  <2>2. /\ \A i \in 1 .. Len(y) : HeardIn(y)[cl[i]] = y[i].got
        /\ \A c \in Client : (\A i \in 1 .. Len(y) : cl[i] # c) => HeardIn(y)[c] = None
    BY <2>1, HeardOf, Zenon
  <2>3. QED
    BY <2>2
<1>7. /\ \A i \in 1 .. n : HeardIn(x)[cl[i]] = x[i].got
      /\ \A c \in Client : (\A i \in 1 .. n : cl[i] # c) => HeardIn(x)[c] = None
  <2>1. Len(x) <= Len(cl)
    BY <1>1
  <2>2. QED
    BY <2>1, HeardOf
<1>8. ASSUME NEW c \in Client
      PROVE  HeardIn(y)[c] = IF c = cl[n + 1] THEN y[n + 1].got ELSE HeardIn(x)[c]
  <2>1. CASE \E i \in 1 .. n : cl[i] = c
    <3>1. PICK i \in 1 .. n : cl[i] = c
      BY <2>1
    <3>2. i \in 1 .. n + 1 /\ y[i] = x[i]
      BY <1>1
    <3>3. HeardIn(y)[c] = y[i].got /\ HeardIn(x)[c] = x[i].got /\ c # cl[n + 1]
      BY <1>3, <1>6, <1>7, <3>1, <3>2
    <3>4. QED
      BY <3>2, <3>3
  <2>2. CASE c = cl[n + 1]
    BY <1>1, <1>6, <2>2
  <2>3. CASE \A i \in 1 .. n + 1 : cl[i] # c
    BY <1>1, <1>6, <1>7, <2>3
  <2>4. QED
    BY <1>1, <2>1, <2>2, <2>3
<1>9. /\ HeardIn(x) = [c \in Client |-> HeardIn(x)[c]]
      /\ HeardIn(y) = [c \in Client |-> HeardIn(y)[c]]
  BY DEF HeardIn
<1>10. QED
  BY <1>2, <1>4, <1>8, <1>9

\* Nothing is heard of a request that was shown to nobody.
LEMMA HeardNothing == HeardIn(<< >>) = [c \in Client |-> None]
<1>1. DOMAIN << >> = {}
  BY LenProperties, EmptySeq
<1>2. QED
  BY <1>1 DEF HeardIn

\* What is said is never None.
LEMMA SaidIsNotNone == None \notin Said /\ None \notin Request /\ \A k \in DOMAIN Wanted : Wanted[k] \in Said
BY NoneAssumption DEF Wanted, Said

\* What has been heard of the request in process.
LEMMA HeardSoFar ==
  ASSUME IInv, Distinct, current \in Envelope, NEW n \in Nat, Len(asked[current]) = n
  PROVE  /\ n <= Len(clients)
         /\ \A i \in 1 .. n : /\ Heard[current][clients[i]] = asked[current][i].got
                              /\ asked[current][i].got \in Said
         /\ \A i \in 1 .. Len(clients) : i > n => Heard[current][clients[i]] = None
         /\ \A i \in 1 .. Len(clients) : clients[i] \in Client
<1>. USE DEF IInv
<1>1. /\ clients \in Seq(Client) /\ asked[current] \in Seq(Exchanged)
      /\ DOMAIN asked[current] = 1 .. n
      /\ Len(clients) \in Nat
  BY LenProperties DEF TypeOK
<1>2. \A i \in 1 .. n : i <= Len(clients) /\ asked[current][i].client = clients[i]
  BY <1>1 DEF AskedAsPosted
<1>3. n <= Len(clients)
  <2>1. CASE n = 0
    BY <1>1, <2>1
  <2>2. CASE n # 0
    BY <1>2, <2>2
  <2>3. QED
    BY <2>1, <2>2
<1>4. /\ \A i \in 1 .. n : HeardIn(asked[current])[clients[i]] = asked[current][i].got
      /\ \A c \in Client : (\A i \in 1 .. n : clients[i] # c) => HeardIn(asked[current])[c] = None
  BY <1>1, <1>2, <1>3, HeardOf DEF Distinct
<1>5. Heard[current] = HeardIn(asked[current])
  BY DEF Heard
<1>6. \A i \in 1 .. Len(clients) : clients[i] \in Client
  BY <1>1, ElementOfSeq
<1>7. \A i \in 1 .. n : asked[current][i].got \in Said
  <2>1. \A i \in 1 .. n : asked[current][i] \in Exchanged
    BY <1>1, ElementOfSeq
  <2>2. QED
    BY <2>1 DEF Exchanged
<1>8. ASSUME NEW i \in 1 .. Len(clients), i > n
      PROVE  HeardIn(asked[current])[clients[i]] = None
  <2>1. \A j \in 1 .. n : j \in 1 .. Len(clients) /\ j # i
    BY <1>1, <1>3, <1>8
  <2>2. \A j \in 1 .. n : clients[j] # clients[i]
    BY <2>1 DEF Distinct
  <2>3. QED
    BY <1>4, <1>6, <2>2
<1>9. QED
  BY <1>3, <1>4, <1>5, <1>6, <1>7, <1>8

\* A step that answers nobody, asks nobody and takes no request is not seen.
LEMMA Unseen ==
  ASSUME UNCHANGED <<clients, cancelFlag, posted, asked, owed, outcome>>,
         \A e \in Envelope : envelope'[e] = envelope[e] \/ outcome[e] = "None"
  PROVE  UNCHANGED Service!vars
<1>1. Unanswered' = Unanswered /\ Heard' = Heard
  BY DEF Unanswered, Heard
<1>2. Result' = Result
  BY DEF Result
<1>3. QED
  BY <1>1, <1>2 DEF Service!vars

\* What the owner of the dispatcher does is Enlist, Close or unseen.
LEMMA OwnerIsAllowed ==
  ASSUME IInv, SInv,
         \/ \E c \in Client : AddClient(c)
         \/ OpenListeners \/ Start \/ Stop \/ StopReturns \/ Destroy \/ Destroyed
  PROVE  [Service!Next]_(Service!vars)
<1>1. ASSUME NEW c \in Client, AddClient(c) PROVE Service!Enlist(c)
  <2>. USE <1>1 DEF AddClient, workerVars
  <2>1. ~cancelFlag /\ \A e \in Envelope : owed[e] = 0 /\ outcome[e] = "None"
    BY DEF SInv, Remembered
  <2>2. \A e \in Envelope : Unanswered[e] = None /\ Result[e] = None
    BY <2>1 DEF Unanswered, Result
  <2>3. c \notin Service!Members
    BY LenProperties DEF Service!Members, IInv, TypeOK
  <2>4. Unanswered' = Unanswered /\ Heard' = Heard /\ Result' = Result
    BY DEF Unanswered, Heard, Result
  <2>5. QED
    BY <2>1, <2>2, <2>3, <2>4 DEF Service!Enlist
<1>2. CASE Stop \/ Destroy
  <2>. USE <1>2 DEF Stop, Destroy, workerVars
  <2>1. Unanswered' = Unanswered /\ Heard' = Heard /\ Result' = Result
    BY DEF Unanswered, Heard, Result
  <2>2. Service!Close
    BY <2>1 DEF Service!Close
  <2>3. QED
    BY <2>2 DEF Service!Next
<1>3. CASE OpenListeners \/ Start \/ StopReturns \/ Destroyed
  <2>1. UNCHANGED <<clients, cancelFlag, posted, asked, owed, outcome, envelope>>
    BY <1>3 DEF OpenListeners, Start, StopReturns, Destroyed, vars, workerVars
  <2>2. QED
    BY <2>1, Unseen
<1>4. QED
  BY <1>1, <1>2, <1>3 DEF Service!Next

\* A connection that posts a request is accepted or turned away.
LEMMA ConnectionIsAllowed ==
  ASSUME IInv, NEW e \in Envelope, NEW k \in Offered
  PROVE  /\ PostRequest(e, k) => Service!Accept(e, k)
         /\ PostAfterStop(e, k) => Service!TurnAway(e)
<1>1. ASSUME PostRequest(e, k) PROVE Service!Accept(e, k)
  <2>1. /\ owed[e] = 0 /\ owed'[e] = 1
        /\ posted'[e] = k
        /\ \A d \in Envelope : d # e => owed'[d] = owed[d] /\ posted'[d] = posted[d]
    BY <1>1 DEF PostRequest, Receives, IInv, TypeOK
  <2>2. /\ outcome'[e] = "None"
        /\ \A d \in Envelope : d # e => outcome'[d] = outcome[d] /\ envelope'[d] = envelope[d]
    BY <1>1 DEF PostRequest, Receives, IInv, TypeOK
  <2>3. ~cancelFlag /\ UNCHANGED <<clients, cancelFlag, asked>>
    BY <1>1 DEF PostRequest
  <2>4. Unanswered[e] = None /\ Unanswered' = [Unanswered EXCEPT ![e] = k]
    <3>1. Unanswered[e] = None /\ Unanswered'[e] = k
      BY <2>1 DEF Unanswered
    <3>2. \A d \in Envelope : d # e => Unanswered'[d] = Unanswered[d]
      BY <2>1 DEF Unanswered
    <3>3. /\ Unanswered = [d \in Envelope |-> Unanswered[d]]
          /\ Unanswered' = [d \in Envelope |-> Unanswered'[d]]
      BY DEF Unanswered
    <3>4. QED
      BY <3>1, <3>2, <3>3
  <2>5. Result' = [Result EXCEPT ![e] = None]
    BY <2>2 DEF Result
  <2>6. Heard' = Heard
    BY <2>3 DEF Heard
  <2>7. QED
    BY <2>3, <2>4, <2>5, <2>6 DEF Service!Accept
<1>2. ASSUME PostAfterStop(e, k) PROVE Service!TurnAway(e)
  <2>. USE <1>2 DEF PostAfterStop, Receives, IInv, TypeOK
  <2>1. Unanswered[e] = None /\ Unanswered' = Unanswered
    BY DEF Unanswered
  <2>2. Result' = [Result EXCEPT ![e] = Bare("Refused")]
    BY DEF Result
  <2>3. Heard' = Heard
    BY DEF Heard
  <2>4. QED
    BY <2>1, <2>2, <2>3 DEF Service!TurnAway, Service!Bare, Bare
<1>3. QED
  BY <1>1, <1>2

\* Taking a request and waiting for one are unseen.
LEMMA LoopIsUnseen ==
  ASSUME OuterLoop \/ OuterLoopEnds \/ InnerLoop
  PROVE  UNCHANGED Service!vars
<1>1. UNCHANGED <<clients, cancelFlag, posted, asked, owed, outcome, envelope>>
  BY DEF OuterLoop, OuterLoopEnds, InnerLoop
<1>2. QED
  BY <1>1, Unseen

\* What is known of the request in process.
LEMMA InProcess ==
  ASSUME IInv, SInv, current # None
  PROVE  /\ current \in Envelope
         /\ owed[current] = 1
         /\ posted[current] \in Request
         /\ outcome[current] = "None"
         /\ Unanswered[current] = posted[current]
         /\ Unanswered[current] # None
BY SaidIsNotNone DEF IInv, TypeOK, OneHolder, Contents, SInv, Remembered, Unanswered

\* While the worker asks, what it was told does not settle the request; when the loop is at
\* its end, everybody was asked and nobody settled it.
LEMMA NotSettled ==
  ASSUME IInv, SInv, worker = "Processing"
  PROVE  /\ More /\ posted[current] \in DOMAIN Wanted \cup {"RemoveAll", "RequestIdentities"} =>
              /\ ~Service!Settled(posted[current], Heard[current])
              /\ clients[next] \in Service!Members
              /\ Heard[current][clients[next]] = None
         /\ ~More =>
              /\ \A c \in Service!Members : Heard[current][c] # None
              /\ Service!Settled(posted[current], Heard[current])
         /\ posted[current] \in DOMAIN Wanted =>
              \A c \in Service!Members : Heard[current][c] # Wanted[posted[current]]
<1>1. current # None
  BY DEF IInv, Flow
<1>2. PICK n \in Nat : next = n + 1
  BY DEF IInv, TypeOK
<1>3. current \in Envelope /\ Len(asked[current]) = n /\ n <= Len(clients)
  BY <1>1, <1>2, InProcess DEF IInv, Contents, TypeOK
<1>4. /\ \A i \in 1 .. n : /\ Heard[current][clients[i]] = asked[current][i].got
                           /\ asked[current][i].got \in Said
      /\ \A i \in 1 .. Len(clients) : i > n => Heard[current][clients[i]] = None
  BY <1>3, HeardSoFar DEF SInv
<1>5. Len(clients) \in Nat
  BY LenProperties DEF IInv, TypeOK
<1>6. ASSUME posted[current] \in DOMAIN Wanted, NEW c \in Service!Members
      PROVE  Heard[current][c] # Wanted[posted[current]]
  <2>1. PICK i \in 1 .. Len(clients) : c = clients[i]
    BY DEF Service!Members
  <2>2. CASE i > n
    BY <1>4, <1>6, <2>1, <2>2, SaidIsNotNone
  <2>3. CASE ~ (i > n)
    <3>1. i \in 1 .. n
      BY <1>5, <2>3
    <3>2. asked[current][i].got # Wanted[posted[current]]
      BY <1>2, <1>6, <3>1 DEF SInv, Underway
    <3>3. QED
      BY <1>4, <2>1, <3>1, <3>2
  <2>4. QED
    BY <2>2, <2>3
<1>7. ASSUME More
      PROVE  clients[next] \in Service!Members /\ Heard[current][clients[next]] = None
  <2>1. next \in 1 .. Len(clients) /\ next > n
    BY <1>2, <1>5, <1>7 DEF More
  <2>2. QED
    BY <1>4, <2>1 DEF Service!Members
<1>8. ASSUME More, posted[current] \in DOMAIN Wanted \cup {"RemoveAll", "RequestIdentities"}
      PROVE  ~Service!Settled(posted[current], Heard[current])
  BY <1>6, <1>7, <1>8 DEF Service!Settled, Service!Wanted, Wanted
<1>9. ASSUME ~More
      PROVE  \A c \in Service!Members : Heard[current][c] # None
  <2>1. \A i \in 1 .. Len(clients) : i \in 1 .. n
    BY <1>2, <1>3, <1>5, <1>9 DEF More
  <2>2. \A i \in 1 .. Len(clients) : Heard[current][clients[i]] # None
    BY <1>4, <2>1, SaidIsNotNone
  <2>3. QED
    BY <2>2 DEF Service!Members
<1>10. ASSUME ~More
       PROVE  Service!Settled(posted[current], Heard[current])
  BY <1>9, <1>10 DEF Service!Settled
<1>11. QED
  BY <1>6, <1>7, <1>8, <1>9, <1>10

\* What an exchange adds to what is heard.
LEMMA HeardByExchange ==
  ASSUME IInv, SInv, worker = "Processing", More, NEW s \in Said, SendSshMessage(s), Untouched
  PROVE  /\ clients[next] \in Client
         /\ Heard[current] \in [Client -> Said \cup {None}]
         /\ Heard' = [Heard EXCEPT ![current][clients[next]] = s]
         /\ \A i \in 1 .. next - 1 : asked'[current][i] = asked[current][i]
         /\ asked'[current][next].got = s
<1>1. current # None
  BY DEF IInv, Flow
<1>2. PICK n \in Nat : next = n + 1
  BY DEF IInv, TypeOK
<1>3. /\ current \in Envelope
      /\ clients \in Seq(Client) /\ Len(clients) \in Nat
      /\ asked \in [Envelope -> Seq(Exchanged)]
      /\ Len(asked[current]) = n
      /\ n < Len(clients)
  BY <1>1, <1>2, InProcess, LenProperties DEF IInv, TypeOK, Contents, More
<1>4. /\ clients[next] \in Client
      /\ asked' \in [Envelope -> Seq(Exchanged)]
      /\ Len(asked'[current]) = n + 1
  <2>1. Len(asked'[current]) = next' - 1 /\ next' = next + 1
    BY Asking DEF Untouched, SendSshMessage
  <2>2. QED
    BY <1>2, <2>1, Asking DEF Untouched
<1>5. /\ \A i \in 1 .. n : asked'[current][i] = asked[current][i]
      /\ asked'[current][n + 1].client = clients[n + 1]
      /\ asked'[current][n + 1].got = s
  <2> DEFINE new == [client |-> clients[next], sent |-> envelope[current], got |-> s]
  <2>1. asked' = [asked EXCEPT ![current] = Append(asked[current], new)]
    BY DEF SendSshMessage
  <2>2. new.client = clients[next] /\ new.got = s
    OBVIOUS
  <2> HIDE DEF new
  <2>3. asked'[current] = Append(asked[current], new)
    BY <1>3, <2>1
  <2>4. asked[current] \in Seq(Exchanged)
    BY <1>3
  <2>5. new \in Exchanged
    <3>1. envelope[current] \in Message
      BY <1>1, <1>3, InProcess, BareIsMessage DEF IInv, Contents
    <3>2. QED
      BY <1>4, <3>1 DEF new, Exchanged
  <2>6. /\ \A i \in 1 .. n : Append(asked[current], new)[i] = asked[current][i]
        /\ Append(asked[current], new)[n + 1] = new
    BY <1>3, <2>4, <2>5, Appended
  <2>7. QED
    BY <1>2, <2>2, <2>3, <2>6
<1>6. \A i \in 1 .. n : asked[current][i].client = clients[i]
  BY <1>3, LenProperties DEF IInv, AskedAsPosted
<1>7. \A i, j \in 1 .. Len(clients) : clients[i] = clients[j] => i = j
  BY DEF SInv, Distinct
<1>8. HeardIn(asked'[current]) = [HeardIn(asked[current]) EXCEPT ![clients[n + 1]] = s]
  <2> DEFINE x == asked[current]
             y == asked'[current]
  <2>1. /\ x \in Seq(Exchanged) /\ Len(x) = n
        /\ y \in Seq(Exchanged) /\ Len(y) = n + 1
        /\ \A i \in 1 .. n : x[i].client = clients[i] /\ y[i] = x[i]
        /\ y[n + 1].client = clients[n + 1]
        /\ y[n + 1].got = s
    BY <1>3, <1>4, <1>5, <1>6
  <2> HIDE DEF x, y
  <2>2. HeardIn(y) = [HeardIn(x) EXCEPT ![clients[n + 1]] = y[n + 1].got]
    <3>1. clients \in Seq(Client) /\ n \in Nat /\ n < Len(clients)
      BY <1>3
    <3>2. OneMore(clients, n, x, y)
      BY <1>7, <2>1, <3>1 DEF OneMore
    <3>3. QED
      BY <3>2, HeardMore
  <2>3. QED
    BY <2>1, <2>2 DEF x, y
<1>9. \A e \in Envelope : e # current => asked'[e] = asked[e]
  BY <1>3 DEF SendSshMessage
<1>10. Heard' = [Heard EXCEPT ![current][clients[next]] = s]
  BY <1>2, <1>3, <1>8, <1>9 DEF Heard
<1>11. Heard[current] \in [Client -> Said \cup {None}]
  <2>1. Heard[current] = [c \in Client |-> HeardIn(asked[current])[c]]
    BY <1>3 DEF Heard, HeardIn
  <2>2. ASSUME NEW c \in Client PROVE HeardIn(asked[current])[c] \in Said \cup {None}
    <3>1. /\ \A i \in 1 .. n : HeardIn(asked[current])[clients[i]] = asked[current][i].got
          /\ (\A i \in 1 .. n : clients[i] # c) => HeardIn(asked[current])[c] = None
      <4> DEFINE x == asked[current]
      <4>1. /\ x \in Seq(Exchanged) /\ Len(x) = n
            /\ \A i \in 1 .. n : x[i].client = clients[i]
        BY <1>3, <1>6
      <4> HIDE DEF x
      <4>2. /\ \A i \in 1 .. n : HeardIn(x)[clients[i]] = x[i].got
            /\ (\A i \in 1 .. n : clients[i] # c) => HeardIn(x)[c] = None
        <5>1. clients \in Seq(Client) /\ Len(x) <= Len(clients)
          BY <1>3, <4>1
        <5>2. \A i \in 1 .. Len(x) : x[i].client = clients[i]
          BY <4>1
        <5>3. /\ \A i \in 1 .. Len(x) : HeardIn(x)[clients[i]] = x[i].got
              /\ \A d \in Client : (\A i \in 1 .. Len(x) : clients[i] # d) => HeardIn(x)[d] = None
          BY <1>7, <4>1, <5>1, <5>2, HeardOf
        <5>4. QED
          BY <4>1, <5>3
      <4>3. QED
        BY <4>2 DEF x
    <3>2. \A i \in 1 .. n : asked[current][i].got \in Said
      BY <1>3, HeardSoFar DEF SInv
    <3>3. QED
      BY <3>1, <3>2
  <2>3. QED
    BY <2>1, <2>2
<1>12. QED
  BY <1>2, <1>4, <1>5, <1>10, <1>11

\* Asking an upstream is Hear.
LEMMA ExchangeIsAllowed ==
  ASSUME IInv, SInv, NEW s \in Said,
         HandleUntilSuccess(s) \/ HandleRemoveAll(s) \/ HandleIdentities(s)
  PROVE  Service!Hear(current, clients[next], s)
<1>1. /\ worker = "Processing" /\ More /\ SendSshMessage(s) /\ Untouched
      /\ current # None
      /\ envelope[current].type \in DOMAIN Wanted \cup {"RemoveAll", "RequestIdentities"}
  BY DEF HandleUntilSuccess, HandleRemoveAll, HandleIdentities, Processing, IInv, Flow
<1>2. posted[current] = envelope[current].type
  BY <1>1 DEF IInv, Contents, Bare
<1>3. /\ ~Service!Settled(posted[current], Heard[current])
      /\ clients[next] \in Service!Members
      /\ Heard[current][clients[next]] = None
  BY <1>1, <1>2, NotSettled
<1>4. Heard' = [Heard EXCEPT ![current][clients[next]] = s]
  BY <1>1, HeardByExchange
<1>5. UNCHANGED <<clients, cancelFlag, posted, owed, outcome>>
  BY <1>1 DEF Untouched
<1>6. \A e \in Envelope : e # current => envelope'[e] = envelope[e]
  BY DEF HandleUntilSuccess, HandleRemoveAll, HandleIdentities, Processed, IInv, TypeOK
<1>7. Unanswered' = Unanswered /\ Result' = Result
  BY <1>1, <1>5, <1>6, InProcess DEF Unanswered, Result
<1>8. Unanswered[current] = posted[current] /\ Unanswered[current] # None
  BY <1>1, InProcess
<1>9. QED
  BY <1>3, <1>4, <1>5, <1>7, <1>8 DEF Service!Hear

\* The end of a handler's loop is unseen: the reply is not delivered yet.
LEMMA HandlerEndIsUnseen ==
  ASSUME IInv, SInv,
         \/ HandleAllFailed \/ HandleRemoveAllDone \/ HandleIdentitiesDone
         \/ HandleUnsupported \/ RejectEmpty
  PROVE  UNCHANGED Service!vars
<1>1. worker = "Processing" /\ Untouched /\ UNCHANGED asked
  BY DEF HandleAllFailed, HandleRemoveAllDone, HandleIdentitiesDone, HandleUnsupported,
         RejectEmpty, Processing
<1>2. \A e \in Envelope : e # current => envelope'[e] = envelope[e]
  BY DEF HandleAllFailed, HandleRemoveAllDone, HandleIdentitiesDone, HandleUnsupported,
         RejectEmpty, Processed, IInv, TypeOK
<1>3. outcome[current] = "None"
  BY <1>1, InProcess DEF IInv, Flow
<1>4. QED
  BY <1>1, <1>2, <1>3, Unseen DEF Untouched

\* The callback with status s for a request that is owed delivers its result.
LEMMA CallbackDelivers ==
  ASSUME IInv, NEW e \in Envelope, NEW s \in BOOLEAN, ReplyCallback(e, s), owed[e] = 1,
         UNCHANGED <<clients, cancelFlag, envelope, posted>>
  PROVE  /\ Unanswered[e] # None
         /\ s => Service!Deliver(e, envelope[e])
         /\ ~s => Service!Deliver(e, Service!Bare("Refused"))
<1>1. /\ owed'[e] = 0
      /\ outcome'[e] = IF s THEN "Answered" ELSE "Refused"
      /\ asked'[e] = << >>
      /\ \A d \in Envelope : d # e =>
           owed'[d] = owed[d] /\ outcome'[d] = outcome[d] /\ asked'[d] = asked[d]
  BY DEF ReplyCallback, IInv, TypeOK
<1>2. Unanswered[e] # None
  BY SaidIsNotNone DEF Unanswered, IInv, Contents
<1>3. Unanswered' = [Unanswered EXCEPT ![e] = None]
  BY <1>1 DEF Unanswered
<1>4. Heard' = [Heard EXCEPT ![e] = Service!Silence]
  <2>1. \A d \in Envelope : Heard'[d] = HeardIn(asked'[d]) /\ Heard[d] = HeardIn(asked[d])
    BY DEF Heard
  <2>2. Heard'[e] = Service!Silence
    BY <1>1, <2>1, HeardNothing DEF Service!Silence
  <2>3. /\ Heard = [d \in Envelope |-> Heard[d]]
        /\ Heard' = [d \in Envelope |-> Heard'[d]]
    BY DEF Heard
  <2>4. QED
    BY <1>1, <2>1, <2>2, <2>3
<1>5. Result' = [Result EXCEPT ![e] = IF s THEN envelope[e] ELSE Bare("Refused")]
  <2>1. Result'[e] = IF s THEN envelope[e] ELSE Bare("Refused")
    BY <1>1 DEF Result
  <2>2. \A d \in Envelope : d # e => Result'[d] = Result[d]
    BY <1>1 DEF Result
  <2>3. /\ Result = [d \in Envelope |-> Result[d]]
        /\ Result' = [d \in Envelope |-> Result'[d]]
    BY DEF Result
  <2>4. QED
    BY <2>1, <2>2, <2>3
<1>6. Service!Bare("Refused") = Bare("Refused")
  BY DEF Service!Bare, Bare
<1>7. QED
  BY <1>2, <1>3, <1>4, <1>5, <1>6 DEF Service!Deliver

\* The reply callbacks of the worker and of the destructor are Answer or Refuse.
LEMMA ReplyIsAllowed ==
  ASSUME IInv, SInv, SendReply \/ DestroyAnswers
  PROVE  \E e \in Envelope : Service!Answer(e) \/ Service!Refuse(e)
<1>1. CASE SendReply
  <2>1. /\ worker = "Replying" /\ current # None
        /\ ReplyCallback(current, status)
        /\ status \in BOOLEAN
        /\ UNCHANGED <<clients, cancelFlag, envelope, posted>>
    BY <1>1 DEF SendReply, IInv, Flow, TypeOK
  <2>2. /\ current \in Envelope /\ owed[current] = 1
        /\ Unanswered[current] = posted[current]
        /\ Unanswered[current] # None
    BY <2>1, InProcess
  <2>3. /\ status => Service!Deliver(current, envelope[current])
        /\ ~status => Service!Deliver(current, Service!Bare("Refused"))
    BY <2>1, <2>2, CallbackDelivers
  <2>4. IF status
          THEN /\ posted[current] # "Empty"
               /\ Service!Settled(posted[current], Heard[current])
               /\ envelope[current] \in Service!Summaries(posted[current], Heard[current])
          ELSE posted[current] = "Empty"
    BY <2>1 DEF SInv, Justified
  <2>5. CASE status
    <3>1. Service!Answer(current)
      BY <2>2, <2>3, <2>4, <2>5 DEF Service!Answer
    <3>2. QED
      BY <2>2, <3>1
  <2>6. CASE ~status
    <3>1. Service!Refuse(current)
      BY <2>2, <2>3, <2>4, <2>6 DEF Service!Refuse
    <3>2. QED
      BY <2>2, <3>1
  <2>7. QED
    BY <2>5, <2>6
<1>2. CASE DestroyAnswers
  <2> DEFINE e == messageList[Len(messageList)]
  <2>1. /\ e \in Queued /\ e \in Envelope
    BY <1>2, QueuedPopped DEF DestroyAnswers, IInv
  <2>2. /\ ReplyCallback(e, FALSE)
        /\ owner = "Destroying"
        /\ UNCHANGED <<clients, cancelFlag, envelope, posted>>
    BY <1>2 DEF DestroyAnswers
  <2> HIDE DEF e
  <2>3. owed[e] = 1 /\ e # current
    BY <2>1 DEF IInv, OneHolder
  <2>4. Service!Deliver(e, Service!Bare("Refused"))
    BY <2>1, <2>2, <2>3, CallbackDelivers
  <2>5. cancelFlag
    BY <2>2 DEF SInv, Remembered
  <2>6. Heard[e] = Service!Silence
    BY <2>1, <2>3, HeardNothing DEF Heard, Service!Silence, IInv, Contents
  <2>7. Service!Refuse(e)
    BY <2>4, <2>5, <2>6 DEF Service!Refuse
  <2>8. QED
    BY <2>1, <2>7
<1>3. QED
  BY <1>1, <1>2

\* Every step of the dispatcher is one the service allows.
LEMMA StepIsAllowed == IInv /\ SInv /\ [Next]_vars => [Service!Next]_(Service!vars)
<1> SUFFICES ASSUME IInv, SInv, [Next]_vars PROVE [Service!Next]_(Service!vars)
  OBVIOUS
<1>1. CASE \/ \E c \in Client : AddClient(c)
           \/ OpenListeners \/ Start \/ Stop \/ StopReturns \/ Destroy \/ Destroyed
  BY <1>1, OwnerIsAllowed
<1>2. ASSUME NEW e \in Envelope, NEW k \in Offered, PostRequest(e, k) \/ PostAfterStop(e, k)
      PROVE  Service!Next
  <2>1. k \in Service!Request
    BY OfferedAssumption DEF Service!Request, Request
  <2>2. Service!Accept(e, k) \/ Service!TurnAway(e)
    BY <1>2, ConnectionIsAllowed
  <2>3. QED
    BY <2>1, <2>2 DEF Service!Next
<1>3. CASE OuterLoop \/ OuterLoopEnds \/ InnerLoop
  BY <1>3, LoopIsUnseen
<1>4. ASSUME Exchange
      PROVE  Service!Next
  <2>1. PICK s \in Said : HandleUntilSuccess(s) \/ HandleRemoveAll(s) \/ HandleIdentities(s)
    BY <1>4 DEF Exchange
  <2>2. Service!Hear(current, clients[next], s)
    BY <2>1, ExchangeIsAllowed
  <2>3. s \in Service!Said
    BY DEF Service!Said, Said
  <2>4. worker = "Processing" /\ More /\ SendSshMessage(s) /\ Untouched
    BY <2>1 DEF HandleUntilSuccess, HandleRemoveAll, HandleIdentities, Processing
  <2>5. current \in Envelope
    BY <2>4, InProcess DEF IInv, Flow
  <2>6. clients[next] \in Client
    BY <2>4, HeardByExchange
  <2>7. QED
    BY <2>2, <2>3, <2>5, <2>6 DEF Service!Next
<1>5. CASE \/ HandleAllFailed \/ HandleRemoveAllDone \/ HandleIdentitiesDone
           \/ HandleUnsupported \/ RejectEmpty
  BY <1>5, HandlerEndIsUnseen
<1>6. CASE SendReply \/ DestroyAnswers
  BY <1>6, ReplyIsAllowed DEF Service!Next
<1>7. CASE UNCHANGED vars
  BY <1>7, Unseen DEF vars, workerVars
<1>8. QED
  BY <1>1, <1>2, <1>3, <1>4, <1>5, <1>6, <1>7 DEF Next, WorkerStep

----------------------------------------------------------------------------
(* SInv is inductive. *)

\* The refinement holds at first.
LEMMA ServiceInitially == Init => SInv /\ Service!Init
<1> SUFFICES ASSUME Init PROVE SInv /\ Service!Init
  OBVIOUS
<1>1. clients = << >> /\ Len(clients) = 0
  BY LenProperties, EmptySeq DEF Init
<1>2. SInv
  BY <1>1 DEF Init, SInv, Distinct, Remembered, Underway, Justified
<1>3. Heard = [e \in Envelope |-> Service!Silence]
  BY HeardNothing DEF Init, Heard, Service!Silence
<1>4. Unanswered = [e \in Envelope |-> None] /\ Result = [e \in Envelope |-> None]
  BY DEF Init, Unanswered, Result
<1>5. QED
  BY <1>1, <1>2, <1>3, <1>4 DEF Init, Service!Init

\* What the service makes of a request depends on the configured upstreams only.
LEMMA SameUpstreams ==
  ASSUME clients' = clients, NEW k, NEW h
  PROVE  /\ Service!Settled(k, h)' <=> Service!Settled(k, h)
         /\ Service!Summaries(k, h)' = Service!Summaries(k, h)
<1>1. Service!Members' = Service!Members
  BY DEF Service!Members
<1>2. Service!Merged(h)' = Service!Merged(h)
  BY <1>1 DEF Service!Merged
<1>3. QED
  BY <1>1, <1>2 DEF Service!Settled, Service!Summaries

\* A step that leaves the message in process alone.
LEMMA JustifiedKeeps ==
  ASSUME IInv, SInv, worker' = "Replying" => worker = "Replying",
         UNCHANGED <<clients, current, status>>,
         posted'[current] = posted[current], asked'[current] = asked[current],
         envelope'[current] = envelope[current]
  PROVE  Justified'
<1> SUFFICES ASSUME worker' = "Replying" PROVE Justified'
  BY DEF Justified
<1>1. current \in Envelope
  BY InProcess DEF IInv, Flow
<1>2. Heard'[current] = Heard[current]
  BY <1>1 DEF Heard
<1>3. /\ Service!Settled(posted[current], Heard[current])' <=> Service!Settled(posted[current], Heard[current])
      /\ Service!Summaries(posted[current], Heard[current])' = Service!Summaries(posted[current], Heard[current])
  BY <1>2, SameUpstreams
<1>4. QED
  BY <1>1, <1>2, <1>3 DEF SInv, Justified

\* A step that leaves the exchanges and the message in process alone.
LEMMA UnderwayKeeps ==
  ASSUME IInv, SInv, worker' = "Processing" => worker = "Processing",
         UNCHANGED <<clients, current, next, answers>>,
         posted'[current] = posted[current], asked'[current] = asked[current]
  PROVE  Underway'
BY DEF SInv, Underway

\* What the owner does: an upstream is added while there is no request.
LEMMA OwnerKeepsService ==
  ASSUME IInv, SInv,
         \/ \E c \in Client : AddClient(c)
         \/ OpenListeners \/ Start \/ Stop \/ StopReturns \/ Destroy \/ Destroyed
  PROVE  SInv'
<1>1. ASSUME NEW c \in Client, AddClient(c) PROVE SInv'
  <2>1. /\ clients' = Append(clients, c)
        /\ c \notin {clients[i] : i \in DOMAIN clients}
        /\ UNCHANGED <<messageList, cancelFlag, workerVars, owner, envelope, posted, asked,
                        owed, outcome>>
        /\ owner = "Configuring"
    BY <1>1 DEF AddClient
  <2>2. worker = "NotStarted" /\ UNCHANGED worker
    BY <2>1 DEF IInv, Flow, workerVars
  <2>3. Distinct'
    <3>1. /\ Len(clients) \in Nat
          /\ Len(clients') = Len(clients) + 1
          /\ \A i \in 1 .. Len(clients) : clients'[i] = clients[i]
          /\ clients'[Len(clients) + 1] = c
          /\ \A i \in 1 .. Len(clients) : clients[i] # c
      BY <2>1, Appended, LenProperties DEF IInv, TypeOK
    <3>2. \A i \in 1 .. Len(clients) + 1 : i \in 1 .. Len(clients) \/ i = Len(clients) + 1
      BY <3>1
    <3>3. QED
      BY <3>1, <3>2 DEF SInv, Distinct
  <2>4. Remembered'
    BY <2>1 DEF SInv, Remembered
  <2>5. Underway' /\ Justified'
    BY <2>2 DEF Underway, Justified
  <2>6. QED
    BY <2>3, <2>4, <2>5 DEF SInv
<1>2. CASE OpenListeners \/ Start \/ Stop \/ StopReturns \/ Destroy \/ Destroyed
  <2>1. /\ UNCHANGED <<clients, current, next, answers, status, posted, asked, owed, outcome, envelope>>
        /\ worker' = "Processing" => worker = "Processing"
        /\ worker' = "Replying" => worker = "Replying"
    BY <1>2 DEF OpenListeners, Start, Stop, StopReturns, Destroy, Destroyed, Notified, vars, workerVars
  <2>2. /\ owner' = "Configuring" => owner = "Configuring" /\ UNCHANGED cancelFlag
        /\ owner' = "Destroying" => cancelFlag' = TRUE \/ (owner = "Destroying" /\ UNCHANGED cancelFlag)
    BY <1>2 DEF OpenListeners, Start, Stop, StopReturns, Destroy, Destroyed, vars
  <2>3. Distinct' /\ Remembered'
    BY <2>1, <2>2 DEF SInv, Distinct, Remembered
  <2>4. Underway' /\ Justified'
    BY <2>1, UnderwayKeeps, JustifiedKeeps
  <2>5. QED
    BY <2>3, <2>4 DEF SInv
<1>3. QED
  BY <1>1, <1>2

\* What a connection does to its own envelope.
LEMMA ConnectionKeepsService ==
  ASSUME IInv, SInv, NEW e \in Envelope, NEW k \in Offered,
         PostRequest(e, k) \/ PostAfterStop(e, k)
  PROVE  SInv'
<1>1. /\ owed[e] = 0
      /\ e # current
      /\ owner \notin {"Configuring", "Destroying"}
      /\ UNCHANGED <<clients, current, next, answers, status, asked, owner>>
      /\ worker' = "Processing" => worker = "Processing"
      /\ worker' = "Replying" => worker = "Replying"
  BY DEF PostRequest, PostAfterStop, Receives, Notified, workerVars, IInv, OneHolder
<1>2. \A d \in Envelope : d # e => /\ posted'[d] = posted[d] /\ envelope'[d] = envelope[d]
                                   /\ owed'[d] = owed[d] /\ outcome'[d] = outcome[d]
  BY DEF PostRequest, PostAfterStop, Receives, IInv, TypeOK
<1>3. owed'[e] = 1 => outcome'[e] = "None"
  BY <1>1 DEF PostRequest, PostAfterStop, Receives, IInv, TypeOK
<1>4. Distinct' /\ Remembered'
  BY <1>1, <1>2, <1>3 DEF SInv, Distinct, Remembered
<1>5. CASE current \in Envelope
  BY <1>1, <1>2, <1>4, <1>5, UnderwayKeeps, JustifiedKeeps DEF SInv
<1>6. CASE current = None
  <2>1. worker \notin {"Processing", "Replying"}
    BY <1>6 DEF IInv, Flow
  <2>2. Underway' /\ Justified'
    BY <1>1, <2>1 DEF Underway, Justified
  <2>3. QED
    BY <1>4, <2>2 DEF SInv
<1>7. QED
  BY <1>5, <1>6 DEF IInv, TypeOK

\* The worker's loop: a request that was taken has been shown to nobody.
LEMMA LoopKeepsService ==
  ASSUME IInv, SInv, OuterLoop \/ OuterLoopEnds \/ InnerLoop
  PROVE  SInv'
<1>1. /\ UNCHANGED <<cancelFlag, clients, owner, envelope, posted, asked, owed, outcome>>
      /\ worker' # "Replying"
      /\ worker' = "Processing" => TakeLast
  BY DEF OuterLoop, OuterLoopEnds, InnerLoop, TakeLast, WaitOrExit
<1>2. Distinct' /\ Remembered' /\ Justified'
  BY <1>1 DEF SInv, Distinct, Remembered, Justified
<1>3. Underway'
  <2> SUFFICES ASSUME worker' = "Processing" PROVE Underway'
    BY DEF Underway
  <2>1. next' = 1 /\ answers' = << >> /\ Len(answers') = 0
    BY <1>1, LenProperties, EmptySeq DEF TakeLast
  <2>2. 1 .. next' - 1 = {} /\ 1 .. Len(answers') = {}
    BY <2>1
  <2>3. Len(answers') <= next' - 1
    BY <2>1
  <2>4. QED
    BY <2>2, <2>3 DEF Underway
<1>4. QED
  BY <1>2, <1>3 DEF SInv

\* Nothing is remembered of a request that was answered, and none is in process then.
LEMMA ReplyKeepsService ==
  ASSUME IInv, SInv, SendReply \/ DestroyAnswers
  PROVE  SInv'
<1>1. UNCHANGED <<cancelFlag, clients, owner>>
  BY DEF SendReply, DestroyAnswers
<1>2. worker' \notin {"Processing", "Replying"}
  BY DEF SendReply, DestroyAnswers, workerVars, IInv, Flow
<1>3. PICK e \in Envelope, s \in BOOLEAN : ReplyCallback(e, s) /\ owed[e] = 1
  <2>1. CASE SendReply
    <3>1. current \in Envelope /\ owed[current] = 1 /\ status \in BOOLEAN
      BY <2>1, InProcess DEF SendReply, IInv, Flow, TypeOK
    <3>2. QED
      BY <2>1, <3>1 DEF SendReply
  <2>2. CASE DestroyAnswers
    <3>1. /\ messageList[Len(messageList)] \in Queued
          /\ messageList[Len(messageList)] \in Envelope
      BY <2>2, QueuedPopped DEF DestroyAnswers, IInv
    <3>2. owed[messageList[Len(messageList)]] = 1
      BY <3>1 DEF IInv, OneHolder
    <3>3. QED
      BY <2>2, <3>1, <3>2 DEF DestroyAnswers
  <2>3. QED
    BY <2>1, <2>2
<1>4. /\ owed'[e] = 0
      /\ \A d \in Envelope : d # e => owed'[d] = owed[d] /\ outcome'[d] = outcome[d]
  BY <1>3 DEF ReplyCallback, IInv, TypeOK
<1>5. owner # "Configuring"
  BY <1>3 DEF SInv, Remembered
<1>6. Remembered' /\ Distinct'
  BY <1>1, <1>4, <1>5 DEF SInv, Remembered, Distinct
<1>7. QED
  BY <1>2, <1>6 DEF SInv, Underway, Justified

\* The handlers touch neither the configuration nor what is owed.
LEMMA HandlerKeepsRest ==
  ASSUME IInv, SInv, Untouched
  PROVE  Distinct' /\ Remembered'
BY DEF Untouched, SInv, Distinct, Remembered

\* At the end of HandleIdentitiesRequest answers is the merge of what was heard.
LEMMA AnswersAreMerged ==
  ASSUME IInv, SInv, worker = "Processing", ~More, posted[current] = "RequestIdentities"
  PROVE  answers \in Service!Merged(Heard[current])
<1> DEFINE h == Heard[current]
           m == Len(answers)
           N == Len(clients)
<1>1. current \in Envelope
  BY InProcess DEF IInv, Flow
<1>2. /\ clients \in Seq(Client) /\ N \in Nat /\ next \in Nat \ {0}
      /\ answers \in Seq(Client) /\ m \in Nat /\ DOMAIN answers = 1 .. m
  BY LenProperties DEF IInv, TypeOK
<1>3. PICK n \in Nat : next = n + 1
  BY <1>2
<1>4. n = N /\ Len(asked[current]) = n
  <2>1. Len(asked[current]) = next - 1 /\ next <= N + 1
    BY DEF IInv, Contents
  <2>2. ~(next <= N)
    BY DEF More
  <2>3. QED
    BY <1>2, <1>3, <2>1, <2>2
<1>5. \A i \in 1 .. N : h[clients[i]] = asked[current][i].got
  BY <1>1, <1>4, HeardSoFar DEF SInv
<1>6. 1 .. next - 1 = 1 .. N
  BY <1>3, <1>4
<1>7. /\ m <= N
      /\ \A i \in 1 .. N : asked[current][i].got = "Identities" <=> \E j \in 1 .. m : answers[j] = clients[i]
      /\ \A j \in 1 .. m : \E i \in 1 .. N : answers[j] = clients[i]
      /\ \A i, j \in 1 .. m : \A k, l \in 1 .. N :
           i < j /\ answers[i] = clients[k] /\ answers[j] = clients[l] => k < l
  BY <1>3, <1>4, <1>6 DEF SInv, Underway
<1> HIDE DEF h, m, N
<1>8. Service!Members = {clients[i] : i \in 1 .. N}
  BY DEF Service!Members, N
<1>9. answers \in [1 .. m -> Service!Members]
  <2>1. answers = [j \in 1 .. m |-> answers[j]]
    BY <1>2, SeqDef
  <2>2. \A j \in 1 .. m : answers[j] \in Service!Members
    BY <1>7, <1>8
  <2>3. QED
    BY <2>1, <2>2
<1>10. answers \in UNION {[1 .. k -> Service!Members] : k \in 0 .. N}
  BY <1>2, <1>7, <1>9
<1>11. \A c \in Service!Members : h[c] = "Identities" <=> \E i \in DOMAIN answers : answers[i] = c
  <2>1. ASSUME NEW i \in 1 .. N
        PROVE  h[clients[i]] = "Identities" <=> \E j \in DOMAIN answers : answers[j] = clients[i]
    BY <1>2, <1>5, <1>7
  <2>2. QED
    BY <1>8, <2>1
<1>12. \A i, j \in DOMAIN answers : \A k, l \in 1 .. N :
         i < j /\ answers[i] = clients[k] /\ answers[j] = clients[l] => k < l
  BY <1>2, <1>7
<1>13. answers \in Service!Merged(h)
  BY <1>10, <1>11, <1>12 DEF Service!Merged, N
<1>14. QED
  BY <1>13 DEF h

\* The reply that a handler puts into the envelope at its end is justified.
LEMMA HandlerEndKeepsService ==
  ASSUME IInv, SInv,
         \/ HandleAllFailed \/ HandleRemoveAllDone \/ HandleIdentitiesDone
         \/ HandleUnsupported \/ RejectEmpty
  PROVE  SInv'
<1> DEFINE h == Heard[current]
           k == posted[current]
<1>1. /\ worker = "Processing" /\ worker' = "Replying" /\ Untouched /\ UNCHANGED asked
      /\ current # None
  BY DEF HandleAllFailed, HandleRemoveAllDone, HandleIdentitiesDone, HandleUnsupported,
         RejectEmpty, Processing, Processed, IInv, Flow
<1>2. current \in Envelope /\ UNCHANGED <<clients, posted, current>>
  BY <1>1, InProcess DEF Untouched
<1>3. envelope[current].type = k /\ envelope \in [Envelope -> Message \cup {None}]
  BY <1>1 DEF IInv, Contents, Bare, TypeOK
<1>4. Heard' = Heard
  BY <1>1 DEF Heard
<1>5. \A q, g : /\ Service!Settled(q, g)' <=> Service!Settled(q, g)
                /\ Service!Summaries(q, g)' = Service!Summaries(q, g)
  BY <1>2, SameUpstreams
<1>6. Bare("Failure") = Service!Bare("Failure") /\ Bare("Success") = Service!Bare("Success")
  BY DEF Bare, Service!Bare
<1>7. \/ /\ status' = TRUE /\ k # "Empty"
         /\ Service!Settled(k, h)
         /\ envelope'[current] \in Service!Summaries(k, h)
      \/ status' = FALSE /\ k = "Empty"
  <2>1. CASE HandleAllFailed
    <3>1. k \in DOMAIN Wanted /\ ~More /\ Processed(TRUE, Bare("Failure"))
      BY <1>3, <2>1 DEF HandleAllFailed, Processing
    <3>2. status' = TRUE /\ envelope'[current] = Bare("Failure")
      BY <1>2, <1>3, <3>1 DEF Processed
    <3>3. Service!Settled(k, h) /\ \A c \in Service!Members : h[c] # Wanted[k]
      BY <1>1, <3>1, NotSettled
    <3>4. Bare("Failure") \in Service!Summaries(k, h)
      BY <1>6, <3>1, <3>3 DEF Service!Summaries, Service!Wanted, Wanted
    <3>5. k # "Empty"
      BY <3>1 DEF Wanted
    <3>6. QED
      BY <3>2, <3>3, <3>4, <3>5
  <2>2. CASE HandleRemoveAllDone
    <3>1. k = "RemoveAll" /\ ~More /\ Processed(TRUE, Bare("Success"))
      BY <1>3, <2>2 DEF HandleRemoveAllDone, Processing
    <3>2. status' = TRUE /\ envelope'[current] = Bare("Success")
      BY <1>2, <1>3, <3>1 DEF Processed
    <3>3. Service!Settled(k, h)
      BY <1>1, <3>1, NotSettled
    <3>4. Bare("Success") \in Service!Summaries(k, h)
      BY <1>6, <3>1 DEF Service!Summaries, Service!Wanted
    <3>5. QED
      BY <3>1, <3>2, <3>3, <3>4
  <2>3. CASE HandleIdentitiesDone
    <3>1. /\ k = "RequestIdentities" /\ ~More
          /\ Processed(TRUE, [type |-> "Identities", from |-> answers])
      BY <1>3, <2>3 DEF HandleIdentitiesDone, Processing
    <3>2. status' = TRUE /\ envelope'[current] = [type |-> "Identities", from |-> answers]
      BY <1>2, <1>3, <3>1 DEF Processed
    <3>3. Service!Settled(k, h) /\ answers \in Service!Merged(h)
      BY <1>1, <3>1, NotSettled, AnswersAreMerged
    <3>4. [type |-> "Identities", from |-> answers] \in Service!Summaries(k, h)
      BY <3>1, <3>3 DEF Service!Summaries, Service!Wanted
    <3>5. QED
      BY <3>1, <3>2, <3>3, <3>4
  <2>4. CASE HandleUnsupported
    <3>1. k = "Unsupported" /\ Processed(TRUE, Bare("Failure"))
      BY <1>3, <2>4 DEF HandleUnsupported, Processing
    <3>2. status' = TRUE /\ envelope'[current] = Bare("Failure")
      BY <1>2, <1>3, <3>1 DEF Processed
    <3>3. Service!Settled(k, h) /\ Bare("Failure") \in Service!Summaries(k, h)
      BY <1>6, <3>1 DEF Service!Settled, Service!Summaries, Service!Wanted
    <3>4. QED
      BY <3>1, <3>2, <3>3
  <2>5. CASE RejectEmpty
    BY <1>3, <2>5 DEF RejectEmpty, Processing, Processed
  <2>6. QED
    BY <2>1, <2>2, <2>3, <2>4, <2>5
<1>8. Justified'
  <2>1. posted'[current'] = k /\ Heard'[current'] = h
    BY <1>2, <1>4
  <2>2. QED
    BY <1>2, <1>5, <1>7, <2>1 DEF Justified
<1>9. Underway'
  BY <1>1 DEF Underway
<1>10. QED
  BY <1>1, <1>8, <1>9, HandlerKeepsRest DEF SInv

\* One upstream more that answered with identities, or did not.
LEMMA AnswersGrow ==
  ASSUME IInv, SInv, worker = "Processing", posted[current] = "RequestIdentities",
         NEW s \in Said, HandleIdentities(s)
  PROVE  Underway'
<1>1. /\ More /\ SendSshMessage(s) /\ Untouched /\ next' = next + 1
      /\ answers' = IF s = "Identities" THEN Append(answers, clients[next]) ELSE answers
  BY DEF HandleIdentities, SendSshMessage, Parsed
<1>2. PICK n \in Nat : next = n + 1
  BY DEF IInv, TypeOK
<1>3. /\ \A i \in 1 .. n : asked'[current][i] = asked[current][i]
      /\ asked'[current][n + 1].got = s
  BY <1>1, <1>2, HeardByExchange
<1> DEFINE m == Len(answers)
           N == Len(clients)
           a == asked'[current]
<1>4. /\ N \in Nat /\ m \in Nat /\ n + 1 \in 1 .. N /\ answers \in Seq(Client)
      /\ \A i \in 1 .. n : i \in 1 .. N
      /\ clients[n + 1] \in Client
      /\ \A i, j \in 1 .. N : clients[i] = clients[j] => i = j
  BY <1>1, <1>2, LenProperties, HeardByExchange DEF IInv, TypeOK, More, SInv, Distinct
<1>5. /\ m <= n
      /\ \A i \in 1 .. n : a[i].got = "Identities" <=> \E j \in 1 .. m : answers[j] = clients[i]
      /\ \A j \in 1 .. m : \E i \in 1 .. n : answers[j] = clients[i]
      /\ \A i, j \in 1 .. m : \A k, l \in 1 .. N :
           i < j /\ answers[i] = clients[k] /\ answers[j] = clients[l] => k < l
  <2>1. 1 .. next - 1 = 1 .. n /\ next - 1 = n
    BY <1>2
  <2>2. QED
    BY <1>3, <2>1 DEF SInv, Underway
<1>6. ASSUME NEW j \in 1 .. m PROVE answers[j] # clients[n + 1]
  <2>1. PICK i \in 1 .. n : answers[j] = clients[i]
    BY <1>5
  <2>2. i \in 1 .. N /\ i # n + 1
    BY <1>4
  <2>3. QED
    BY <1>4, <2>1, <2>2
<1>7. \A i \in 1 .. n + 1 : i \in 1 .. n \/ i = n + 1
  OBVIOUS
<1> DEFINE Grown(w, p) ==
      /\ p <= n + 1
      /\ \A i \in 1 .. n + 1 : a[i].got = "Identities" <=> \E j \in 1 .. p : w[j] = clients[i]
      /\ \A j \in 1 .. p : \E i \in 1 .. n + 1 : w[j] = clients[i]
      /\ \A i, j \in 1 .. p : \A k, l \in 1 .. N :
           i < j /\ w[i] = clients[k] /\ w[j] = clients[l] => k < l
<1>8. a[n + 1].got = s
  BY <1>3
<1> HIDE DEF m, N, a
<1>9. ASSUME Grown(answers', Len(answers')) PROVE Underway'
  <2>1. 1 .. next' - 1 = 1 .. n + 1 /\ next' - 1 = n + 1
    BY <1>1, <1>2
  <2>2. Len(clients') = N /\ asked'[current'] = a /\ clients' = clients
    BY <1>1 DEF Untouched, N, a
  <2>3. posted'[current'] \notin DOMAIN Wanted
    BY <1>1 DEF Untouched, Wanted
  <2>4. QED
    BY <1>9, <2>1, <2>2, <2>3 DEF Underway
<1>10. CASE s # "Identities"
  <2>1. \A i \in 1 .. n + 1 : a[i].got = "Identities" <=> \E j \in 1 .. m : answers[j] = clients[i]
    BY <1>5, <1>6, <1>7, <1>8, <1>10
  <2>2. \A j \in 1 .. m : \E i \in 1 .. n + 1 : answers[j] = clients[i]
    <3>1. \A i \in 1 .. n : i \in 1 .. n + 1
      OBVIOUS
    <3>2. QED
      BY <1>5, <3>1
  <2>3. m <= n + 1
    BY <1>4, <1>5
  <2>4. Grown(answers, m)
    BY <1>5, <2>1, <2>2, <2>3
  <2>5. answers' = answers
    BY <1>1, <1>10
  <2>6. Grown(answers', Len(answers'))
    <3> HIDE DEF Grown
    <3>1. QED
      BY <2>4, <2>5 DEF m
  <2>7. QED
    BY <1>9, <2>6
<1>11. CASE s = "Identities"
  <2> DEFINE w == Append(answers, clients[n + 1])
  <2>1. /\ Len(w) = m + 1
        /\ \A i \in 1 .. m : w[i] = answers[i]
        /\ w[m + 1] = clients[n + 1]
    BY <1>4, Appended DEF m
  <2>2. \A j \in 1 .. m + 1 : j \in 1 .. m \/ j = m + 1
    BY <1>4
  <2>3. answers' = w
    BY <1>1, <1>2, <1>11
  <2> HIDE DEF w
  <2>4. m + 1 <= n + 1
    BY <1>4, <1>5
  <2>5. \A i \in 1 .. n + 1 : a[i].got = "Identities" <=> \E j \in 1 .. m + 1 : w[j] = clients[i]
    <3>1. ASSUME NEW i \in 1 .. n
          PROVE  a[i].got = "Identities" <=> \E j \in 1 .. m + 1 : w[j] = clients[i]
      <4>1. clients[i] # clients[n + 1]
        BY <1>4
      <4>2. (\E j \in 1 .. m + 1 : w[j] = clients[i]) <=> \E j \in 1 .. m : answers[j] = clients[i]
        BY <1>4, <2>1, <2>2, <4>1
      <4>3. QED
        BY <1>5, <4>2
    <3>2. \E j \in 1 .. m + 1 : w[j] = clients[n + 1]
      BY <1>4, <2>1
    <3>3. QED
      BY <1>7, <1>8, <1>11, <3>1, <3>2
  <2>6. \A j \in 1 .. m + 1 : \E i \in 1 .. n + 1 : w[j] = clients[i]
    <3>1. \A i \in 1 .. n : i \in 1 .. n + 1
      OBVIOUS
    <3>2. n + 1 \in 1 .. n + 1
      OBVIOUS
    <3>3. QED
      BY <1>5, <2>1, <2>2, <3>1, <3>2
  <2>7. ASSUME NEW i \in 1 .. m + 1, NEW j \in 1 .. m + 1, NEW k \in 1 .. N, NEW l \in 1 .. N,
               i < j, w[i] = clients[k], w[j] = clients[l]
        PROVE  k < l
    <3>1. i \in 1 .. m /\ w[i] = answers[i]
      BY <1>4, <2>1, <2>7
    <3>2. CASE j \in 1 .. m
      <4>1. answers[i] = clients[k] /\ answers[j] = clients[l]
        BY <2>1, <2>7, <3>1, <3>2
      <4>2. QED
        BY <1>5, <2>7, <3>1, <3>2, <4>1
    <3>3. CASE j = m + 1
      <4>1. l = n + 1
        BY <1>4, <2>1, <2>7, <3>3
      <4>2. PICK q \in 1 .. n : answers[i] = clients[q]
        BY <1>5, <3>1
      <4>3. k = q
        BY <1>4, <2>7, <3>1, <4>2
      <4>4. QED
        BY <4>1, <4>2, <4>3
    <3>4. QED
      BY <2>2, <3>2, <3>3
  <2>8. Grown(w, m + 1)
    BY <2>4, <2>5, <2>6, <2>7
  <2>9. Grown(answers', Len(answers'))
    <3> HIDE DEF Grown
    <3>1. QED
      BY <2>1, <2>3, <2>8
  <2>10. QED
    BY <1>9, <2>9
<1>12. QED
  BY <1>10, <1>11

\* An exchange leaves the request unsettled, or its reply justified.
LEMMA ExchangeKeepsService ==
  ASSUME IInv, SInv, NEW s \in Said,
         HandleUntilSuccess(s) \/ HandleRemoveAll(s) \/ HandleIdentities(s)
  PROVE  SInv'
<1>1. /\ worker = "Processing" /\ More /\ SendSshMessage(s) /\ Untouched
      /\ current # None
  BY DEF HandleUntilSuccess, HandleRemoveAll, HandleIdentities, Processing, IInv, Flow
<1>2. /\ current \in Envelope /\ UNCHANGED <<clients, posted, current>>
      /\ envelope \in [Envelope -> Message \cup {None}]
      /\ envelope[current].type = posted[current]
  BY <1>1, InProcess DEF Untouched, IInv, TypeOK, Contents, Bare
<1>3. PICK n \in Nat : next = n + 1 /\ next' = n + 2
  BY <1>1 DEF SendSshMessage, IInv, TypeOK
<1>4. /\ clients[next] \in Client
      /\ Heard[current] \in [Client -> Said \cup {None}]
      /\ Heard' = [Heard EXCEPT ![current][clients[next]] = s]
      /\ \A i \in 1 .. n : asked'[current][i] = asked[current][i]
      /\ asked'[current][n + 1].got = s
  BY <1>1, <1>3, HeardByExchange
<1>5. CASE worker' = "Processing" /\ posted[current] # "RequestIdentities"
  <2>1. ASSUME posted[current] \in DOMAIN Wanted, NEW i \in 1 .. n + 1
        PROVE  asked'[current][i].got # Wanted[posted[current]]
    <3>1. HandleUntilSuccess(s) /\ s # Wanted[posted[current]]
      BY <1>1, <1>2, <1>5, <2>1 DEF HandleUntilSuccess, HandleRemoveAll, HandleIdentities,
         Processing, Processed, Wanted
    <3>2. CASE i = n + 1
      BY <1>4, <3>1, <3>2
    <3>3. CASE i \in 1 .. n
      <4>1. i \in 1 .. next - 1
        BY <1>3, <3>3
      <4>2. QED
        BY <1>1, <1>4, <2>1, <3>3, <4>1 DEF SInv, Underway
    <3>4. QED
      BY <3>2, <3>3
  <2>2. 1 .. next' - 1 = 1 .. n + 1
    BY <1>3
  <2>3. Underway' /\ Justified'
    BY <1>2, <1>5, <2>1, <2>2 DEF Underway, Justified
  <2>4. QED
    BY <1>1, <2>3, HandlerKeepsRest DEF SInv
<1>6. CASE posted[current] = "RequestIdentities"
  <2>1. HandleIdentities(s) /\ worker' = "Processing"
    BY <1>1, <1>2, <1>6 DEF HandleUntilSuccess, HandleRemoveAll, HandleIdentities, Processing, Wanted
  <2>2. Underway' /\ Justified'
    BY <1>1, <1>6, <2>1, AnswersGrow DEF Justified
  <2>3. QED
    BY <1>1, <2>2, HandlerKeepsRest DEF SInv
<1>7. CASE worker' # "Processing"
  <2> DEFINE k == posted[current]
  <2>1. /\ k \in DOMAIN Wanted /\ s = Wanted[k]
        /\ Processed(TRUE, [type |-> s, from |-> <<clients[next]>>])
    BY <1>1, <1>2, <1>7 DEF HandleUntilSuccess, HandleRemoveAll, HandleIdentities, Processing
  <2>2. /\ worker' = "Replying" /\ status' = TRUE
        /\ envelope'[current] = [type |-> s, from |-> <<clients[next]>>]
    BY <1>2, <2>1 DEF Processed
  <2>3. clients[next] \in Service!Members /\ Heard'[current][clients[next]] = s
    <3>1. clients[next] \in Service!Members
      BY <1>1, <1>2, <2>1, NotSettled
    <3>2. Heard'[current] = [Heard[current] EXCEPT ![clients[next]] = s]
      BY <1>2, <1>4 DEF Heard
    <3>3. QED
      BY <1>4, <3>1, <3>2
  <2>4. Service!Wanted = Wanted
    BY DEF Service!Wanted, Wanted
  <2> DEFINE h == Heard'[current]
  <2>5. Service!Settled(k, h) /\ [type |-> s, from |-> <<clients[next]>>] \in Service!Summaries(k, h)
    <3>0. k \in DOMAIN Service!Wanted /\ k \notin {"RemoveAll", "RequestIdentities"}
      BY <2>1, <2>4 DEF Wanted
    <3> HIDE DEF h, k
    <3>1. \E c \in Service!Members : h[c] = Service!Wanted[k]
      BY <2>1, <2>3, <2>4 DEF h
    <3>2. Service!Settled(k, h)
      BY <3>0, <3>1 DEF Service!Settled
    <3>3. Service!Summaries(k, h) =
            {[type |-> Service!Wanted[k], from |-> << c >>] :
               c \in {d \in Service!Members : h[d] = Service!Wanted[k]}}
      BY <3>0, <3>1 DEF Service!Summaries
    <3>4. h[clients[next]] = Wanted[k]
      BY <2>1, <2>3 DEF h
    <3>5. QED
      BY <2>1, <2>3, <2>4, <3>2, <3>3, <3>4
  <2>6. k # "Empty"
    BY <2>1 DEF Wanted
  <2>7. \A q, g : /\ Service!Settled(q, g)' <=> Service!Settled(q, g)
                  /\ Service!Summaries(q, g)' = Service!Summaries(q, g)
    BY <1>2, SameUpstreams
  <2>8. Justified'
    BY <1>2, <2>2, <2>5, <2>6, <2>7 DEF Justified
  <2>9. Underway'
    BY <1>7 DEF Underway
  <2>10. QED
    BY <1>1, <2>8, <2>9, HandlerKeepsRest DEF SInv
<1>8. QED
  BY <1>5, <1>6, <1>7

\* SInv is kept by every step.
LEMMA ServiceStep == IInv /\ SInv /\ [Next]_vars => SInv'
<1> SUFFICES ASSUME IInv, SInv, [Next]_vars PROVE SInv'
  OBVIOUS
<1>1. CASE \/ \E c \in Client : AddClient(c)
           \/ OpenListeners \/ Start \/ Stop \/ StopReturns \/ Destroy \/ Destroyed
  BY <1>1, OwnerKeepsService
<1>2. CASE \E e \in Envelope, k \in Offered : PostRequest(e, k) \/ PostAfterStop(e, k)
  BY <1>2, ConnectionKeepsService
<1>3. CASE OuterLoop \/ OuterLoopEnds \/ InnerLoop
  BY <1>3, LoopKeepsService
<1>4. CASE Exchange
  BY <1>4, ExchangeKeepsService DEF Exchange
<1>5. CASE \/ HandleAllFailed \/ HandleRemoveAllDone \/ HandleIdentitiesDone
           \/ HandleUnsupported \/ RejectEmpty
  BY <1>5, HandlerEndKeepsService
<1>6. CASE SendReply \/ DestroyAnswers
  BY <1>6, ReplyKeepsService
<1>7. CASE UNCHANGED vars
  <2>1. UNCHANGED <<clients, owner, cancelFlag, owed, outcome>>
    BY <1>7 DEF vars
  <2>2. Distinct' /\ Remembered'
    BY <2>1 DEF SInv, Distinct, Remembered
  <2>3. Underway' /\ Justified'
    BY <1>7, UnderwayKeeps, JustifiedKeeps DEF vars, workerVars
  <2>4. QED
    BY <2>2, <2>3 DEF SInv
<1>8. QED
  BY <1>1, <1>2, <1>3, <1>4, <1>5, <1>6, <1>7 DEF Next, WorkerStep

\* Every step of the dispatcher is one that UpstreamService allows: an accepted request gets
\* one answer, and it is the one that the upstreams' replies to that very request justify,
\* whatever the connections, the worker and the owner do in between (PostRequest, the worker
\* loop, the Handle functions, the destructor).
THEOREM Implements == Spec => ImplementsService
<1>1. Init => SInv /\ Service!Init
  BY ServiceInitially
<1>2. Spec => []SInv
  BY Invariance, ServiceInitially, ServiceStep, PTL DEF Spec
<1>3. QED
  BY Invariance, <1>1, <1>2, StepIsAllowed, PTL DEF Spec, ImplementsService, Service!Spec
=============================================================================
