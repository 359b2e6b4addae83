------------------------- MODULE MessageDispatcher -------------------------
(***************************************************************************)
(* MessageDispatcher (src/message_dispatcher.cpp): the queue of requests,  *)
(* the worker thread that takes them to the upstream agents, Start, Stop   *)
(* and the destructor.                                                     *)
(*                                                                         *)
(* An action is what a thread does between two points where another one    *)
(* can be seen: a section under listMutex, one exchange with an upstream,  *)
(* one reply callback.  Sections under listMutex are atomic because nothing *)
(* in them waits, except the condition variable, which gives the lock up.  *)
(***************************************************************************)
EXTENDS AgentMessages, Integers, FiniteSets

CONSTANTS
  Envelope,     \* SshMessageEnvelope objects, one per connection
  Offered       \* the kinds of request that the connections send

ASSUME OfferedAssumption == Offered \subseteq Request
ASSUME NoneAssumption == None \notin Envelope \cup Request \cup Said \cup Message

VARIABLES
  \* members of the class
  messageList,  \* posted envelopes, the last one is taken first
  cancelFlag,
  clients,      \* the upstreams in the order of AddClient
  \* the worker thread
  worker,       \* where it stands
  current,      \* the envelope it processes (msg)
  next,         \* the loop index over clients
  answers,      \* upstreams whose identities are in ans
  status,       \* what ProcessRequest returned
  \* the thread that owns the dispatcher (Application::Run)
  owner,
  \* the envelopes, and what is remembered of them
  envelope,     \* contents: a request, then the reply
  posted,       \* the request that was last posted in it
  asked,        \* the exchanges made for that request
  owed,         \* accepted requests minus replies
  outcome       \* the status of the last reply

workerVars == <<worker, current, next, answers, status>>
vars == <<messageList, cancelFlag, clients, workerVars, owner,
          envelope, posted, asked, owed, outcome>>

Init ==
  /\ messageList = << >>
  /\ cancelFlag = FALSE
  /\ clients = << >>
  /\ worker = "NotStarted"
  /\ current = None
  /\ next = 1
  /\ answers = << >>
  /\ status = FALSE
  /\ owner = "Configuring"
  /\ envelope = [e \in Envelope |-> None]
  /\ posted = [e \in Envelope |-> None]
  /\ asked = [e \in Envelope |-> << >>]
  /\ owed = [e \in Envelope |-> 0]
  /\ outcome = [e \in Envelope |-> "None"]

\* Mutant: nobody is notified.
NotNotified(w) == w

\* wakeCondition.notify_one: only the worker ever waits.
Notified(w) == IF w = "Asleep" THEN "Woken" ELSE w

\* Mutant: a request that failed gets no callback.
ReplyIfSuccessful(e, s) ==
  IF s
    THEN /\ owed' = [owed EXCEPT ![e] = @ - 1]
         /\ outcome' = [outcome EXCEPT ![e] = "Answered"]
         /\ asked' = [asked EXCEPT ![e] = << >>]
    ELSE UNCHANGED <<owed, outcome, asked>>

\* message->replyCallback(message, s)
ReplyCallback(e, s) ==
  /\ owed' = [owed EXCEPT ![e] = @ - 1]
  /\ outcome' = [outcome EXCEPT ![e] = IF s THEN "Answered" ELSE "Refused"]
  /\ asked' = [asked EXCEPT ![e] = << >>]

----------------------------------------------------------------------------
\* Application: AddClient while the configuration is read, then the listeners
\* and the worker are started, in this order.

AddClient(c) ==
  /\ owner = "Configuring"
  /\ c \notin {clients[i] : i \in DOMAIN clients}
  /\ clients' = Append(clients, c)
  /\ UNCHANGED <<messageList, cancelFlag, workerVars, owner,
                 envelope, posted, asked, owed, outcome>>

OpenListeners ==
  /\ owner = "Configuring"
  /\ owner' = "Listening"
  /\ UNCHANGED <<messageList, cancelFlag, clients, workerVars,
                 envelope, posted, asked, owed, outcome>>

Start ==
  /\ owner = "Listening"
  /\ owner' = "Running"
  /\ worker' = "AtOuterLoop"
  /\ UNCHANGED <<messageList, cancelFlag, clients, current, next, answers, status,
                 envelope, posted, asked, owed, outcome>>

Stop ==
  /\ owner = "Running"
  /\ owner' = "Joining"
  /\ cancelFlag' = TRUE
  /\ worker' = Notified(worker)
  /\ UNCHANGED <<messageList, clients, current, next, answers, status,
                 envelope, posted, asked, owed, outcome>>

StopReturns ==
  /\ owner = "Joining"
  /\ worker = "Exited"
  /\ owner' = "Stopped"
  /\ UNCHANGED <<messageList, cancelFlag, clients, workerVars,
                 envelope, posted, asked, owed, outcome>>

\* The destructor runs when nobody can post any more, after Stop or when the
\* configuration was rejected.  It calls Stop, which finds no thread to join,
\* and answers what is left.
Destroy ==
  /\ owner \in {"Configuring", "Stopped"}
  /\ owner' = "Destroying"
  /\ cancelFlag' = TRUE
  /\ UNCHANGED <<messageList, clients, workerVars,
                 envelope, posted, asked, owed, outcome>>

DestroyAnswers ==
  /\ owner = "Destroying"
  /\ messageList # << >>
  /\ ReplyCallback(messageList[Len(messageList)], FALSE)
  /\ messageList' = SubSeq(messageList, 1, Len(messageList) - 1)
  /\ UNCHANGED <<cancelFlag, clients, workerVars, owner, envelope, posted>>

Destroyed ==
  /\ owner = "Destroying"
  /\ messageList = << >>
  /\ UNCHANGED vars

----------------------------------------------------------------------------
\* A connection posts the request it received in its envelope and posts no
\* other before the reply.

Receives(e, k) ==
  /\ owner \in {"Listening", "Running", "Joining", "Stopped"}
  /\ owed[e] = 0
  /\ envelope' = [envelope EXCEPT ![e] = Bare(k)]
  /\ posted' = [posted EXCEPT ![e] = k]

PostRequest(e, k) ==
  /\ Receives(e, k)
  /\ ~cancelFlag
  /\ messageList' = Append(messageList, e)
  /\ worker' = Notified(worker)
  /\ owed' = [owed EXCEPT ![e] = @ + 1]
  /\ outcome' = [outcome EXCEPT ![e] = "None"]
  /\ UNCHANGED <<cancelFlag, clients, current, next, answers, status, owner, asked>>

\* The callback is made at once, and it is no reply to an accepted request.
PostAfterStop(e, k) ==
  /\ Receives(e, k)
  /\ cancelFlag
  /\ outcome' = [outcome EXCEPT ![e] = "Refused"]
  /\ UNCHANGED <<messageList, cancelFlag, clients, workerVars, owner, asked, owed>>

----------------------------------------------------------------------------
\* The worker thread.  It takes the lock at the outer loop, after a reply and
\* when the condition variable returns, and gives it up to process a message,
\* to wait and to exit.  A spurious wakeup finds the predicate of the wait
\* false and waits again: it is a stuttering step.

\* Mutant: back without pop_back.
NotPopped == messageList

Popped == SubSeq(messageList, 1, Len(messageList) - 1)

TakeLast ==
  /\ messageList # << >>
  /\ current' = messageList[Len(messageList)]
  /\ messageList' = Popped
  /\ worker' = "Processing"
  /\ next' = 1
  /\ answers' = << >>

WaitOrExit ==
  /\ messageList = << >>
  /\ worker' = IF cancelFlag THEN "Exited" ELSE "Asleep"
  /\ UNCHANGED <<messageList, current, next, answers>>

OuterLoop ==
  /\ worker \in {"AtOuterLoop", "Woken"}
  /\ ~cancelFlag
  /\ TakeLast \/ WaitOrExit
  /\ UNCHANGED <<cancelFlag, clients, status, owner, envelope, posted, asked, owed, outcome>>

\* while (!cancelFlag) is tested before the queue is looked at.
OuterLoopEnds ==
  /\ worker \in {"AtOuterLoop", "Woken"}
  /\ cancelFlag
  /\ worker' = "Exited"
  /\ UNCHANGED <<messageList, cancelFlag, clients, current, next, answers, status, owner,
                 envelope, posted, asked, owed, outcome>>

\* The inner loop does not look at cancelFlag.
InnerLoop ==
  /\ worker = "AtInnerLoop"
  /\ TakeLast \/ WaitOrExit
  /\ UNCHANGED <<cancelFlag, clients, status, owner, envelope, posted, asked, owed, outcome>>

\* ProcessRequest has its result: the handler returned s with reply r in place.
Processed(s, r) ==
  /\ envelope' = [envelope EXCEPT ![current] = r]
  /\ status' = s
  /\ worker' = "Replying"

Processing(kinds) == worker = "Processing" /\ envelope[current].type \in kinds
More == next <= Len(clients)

\* Mutant: the envelope itself is sent, and what one upstream replied goes to the next.
SendEnvelope(s) ==
  /\ asked' = [asked EXCEPT ![current] =
                 Append(@, [client |-> clients[next],
                            sent |-> IF @ = << >> \/ @[Len(@)].got = "Down"
                                       THEN envelope[current] ELSE Bare(@[Len(@)].got),
                            got |-> s])]
  /\ next' = next + 1

\* client->SendSshMessage(&tmpMessage), tmpMessage being a copy of the envelope;
\* s is what the upstream made of it.
SendSshMessage(s) ==
  /\ asked' = [asked EXCEPT ![current] =
                 Append(@, [client |-> clients[next], sent |-> envelope[current], got |-> s])]
  /\ next' = next + 1

Untouched == UNCHANGED <<messageList, cancelFlag, clients, current, owner, posted, owed, outcome>>

\* HandleAddIdentity, HandleRemoveIdentity, HandleSignRequest: until one succeeds
HandleUntilSuccess(s) ==
  /\ Processing(DOMAIN Wanted)
  /\ More
  /\ SendSshMessage(s)
  /\ IF s = Wanted[envelope[current].type]
       THEN Processed(TRUE, [type |-> s, from |-> <<clients[next]>>])
       ELSE UNCHANGED <<envelope, status, worker>>
  /\ UNCHANGED answers
  /\ Untouched

HandleAllFailed ==
  /\ Processing(DOMAIN Wanted)
  /\ ~More
  /\ Processed(TRUE, Bare("Failure"))
  /\ UNCHANGED <<asked, next, answers>>
  /\ Untouched

\* HandleRemoveAllIdentity: everybody is told, nobody's answer is looked at
HandleRemoveAll(s) ==
  /\ Processing({"RemoveAll"})
  /\ More
  /\ SendSshMessage(s)
  /\ UNCHANGED <<envelope, status, worker, answers>>
  /\ Untouched

HandleRemoveAllDone ==
  /\ Processing({"RemoveAll"})
  /\ ~More
  /\ Processed(TRUE, Bare("Success"))
  /\ UNCHANGED <<asked, next, answers>>
  /\ Untouched

\* Mutant: what FromBuffer could read of a garbled answer is used.
ParsedInPart(s) == s \in {"Identities", "Garbled"}

Parsed(s) == s = "Identities"

\* HandleIdentitiesRequest: the well-formed answers are concatenated
HandleIdentities(s) ==
  /\ Processing({"RequestIdentities"})
  /\ More
  /\ SendSshMessage(s)
  /\ answers' = IF Parsed(s) THEN Append(answers, clients[next]) ELSE answers
  /\ UNCHANGED <<envelope, status, worker>>
  /\ Untouched

HandleIdentitiesDone ==
  /\ Processing({"RequestIdentities"})
  /\ ~More
  /\ Processed(TRUE, [type |-> "Identities", from |-> answers])
  /\ UNCHANGED <<asked, next, answers>>
  /\ Untouched

\* HandleUnsupportedRequest
HandleUnsupported ==
  /\ Processing({"Unsupported"})
  /\ Processed(TRUE, Bare("Failure"))
  /\ UNCHANGED <<asked, next, answers>>
  /\ Untouched

\* ProcessRequest on a message of length zero
RejectEmpty ==
  /\ Processing({"Empty"})
  /\ Processed(FALSE, envelope[current])
  /\ UNCHANGED <<asked, next, answers>>
  /\ Untouched

SendReply ==
  /\ worker = "Replying"
  /\ ReplyCallback(current, status)
  /\ worker' = "AtInnerLoop"
  /\ current' = None
  /\ UNCHANGED <<messageList, cancelFlag, clients, next, answers, status, owner,
                 envelope, posted>>

Exchange ==
  \E s \in Said : HandleUntilSuccess(s) \/ HandleRemoveAll(s) \/ HandleIdentities(s)

WorkerStep ==
  \/ OuterLoop \/ OuterLoopEnds \/ InnerLoop
  \/ Exchange
  \/ HandleAllFailed \/ HandleRemoveAllDone \/ HandleIdentitiesDone
  \/ HandleUnsupported \/ RejectEmpty
  \/ SendReply

Next ==
  \/ \E c \in Client : AddClient(c)
  \/ OpenListeners \/ Start \/ Stop \/ StopReturns \/ Destroy \/ DestroyAnswers \/ Destroyed
  \/ \E e \in Envelope, k \in Offered : PostRequest(e, k) \/ PostAfterStop(e, k)
  \/ WorkerStep

\* The worker is never descheduled for ever, an upstream answers or fails in
\* finite time, and the owner goes on with a shutdown it has begun.  Nothing
\* obliges a connection to post or the owner to stop.
Fairness ==
  /\ WF_vars(WorkerStep)
  /\ WF_vars(Start)
  /\ WF_vars(StopReturns)
  /\ WF_vars(owner = "Stopped" /\ Destroy)
  /\ WF_vars(DestroyAnswers)

Spec == Init /\ [][Next]_vars /\ Fairness

----------------------------------------------------------------------------
(* Properties *)

Exchanged == [client: Client, sent: Message, got: Said]

TypeOK ==
  /\ messageList \in Seq(Envelope)
  /\ cancelFlag \in BOOLEAN
  /\ clients \in Seq(Client)
  /\ worker \in {"NotStarted", "AtOuterLoop", "AtInnerLoop", "Asleep", "Woken",
                 "Processing", "Replying", "Exited"}
  /\ current \in Envelope \cup {None}
  /\ next \in Nat \ {0}
  /\ answers \in Seq(Client)
  /\ status \in BOOLEAN
  /\ owner \in {"Configuring", "Listening", "Running", "Joining", "Stopped", "Destroying"}
  /\ envelope \in [Envelope -> Message \cup {None}]
  /\ posted \in [Envelope -> Request \cup {None}]
  /\ asked \in [Envelope -> Seq(Exchanged)]
  /\ owed \in [Envelope -> 0 .. 1]
  /\ outcome \in [Envelope -> {"None", "Answered", "Refused"}]

\* A request that was accepted and not answered is held in exactly one place,
\* the queue or the worker, and no other envelope is held anywhere: nothing is
\* lost between pop_back and the reply callback, and nothing is answered twice
\* (PostRequest, the worker loop, the destructor).
Queued == {messageList[i] : i \in DOMAIN messageList}
OneHolder ==
  /\ \A i, j \in DOMAIN messageList : messageList[i] = messageList[j] => i = j
  /\ current \notin Queued
  /\ \A e \in Envelope : owed[e] = IF e \in Queued \cup {current} THEN 1 ELSE 0

\* The worker sleeps only while there is nothing to do: no interleaving of
\* PostRequest and Stop with the worker's wait loses a notification.
NoLostWakeup == worker = "Asleep" => messageList = << >> /\ ~cancelFlag

\* Every upstream is asked with the bytes the connection posted, never with
\* what an earlier upstream left in the buffer, and in configuration order
\* without a gap (the tmpMessage copies of the handlers).
AskedAsPosted ==
  \A e \in Envelope : \A i \in DOMAIN asked[e] :
    /\ i <= Len(clients)
    /\ asked[e][i].client = clients[i]
    /\ asked[e][i].sent = Bare(posted[e])

\* The dispatcher implements the service it stands for.
Unanswered == [e \in Envelope |-> IF owed[e] = 0 THEN None ELSE posted[e]]

\* What each upstream said in the exchanges x.
HeardIn(x) == [c \in Client |->
  LET at == {i \in DOMAIN x : x[i].client = c}
  IN  IF at = {} THEN None ELSE x[CHOOSE i \in at : TRUE].got]
Heard == [e \in Envelope |-> HeardIn(asked[e])]

Result == [e \in Envelope |->
  IF outcome[e] = "Answered" THEN envelope[e]
  ELSE IF outcome[e] = "Refused" THEN Bare("Refused")
  ELSE None]

Service == INSTANCE UpstreamService WITH
  upstreams <- clients, request <- Unanswered, heard <- Heard, result <- Result,
  closed <- cancelFlag

\* Every step of the dispatcher is one the service allows, so that each answer
\* is the one the upstreams' replies to that very request justify.
ImplementsService == Service!Spec

\* MessageDispatcher::Stop returns: the worker sees cancelFlag wherever it stands.
StopCompletes == owner = "Joining" ~> owner = "Stopped"

\* Every accepted request is answered, if the queue runs empty again and again
\* or if no more requests come.  Without the premise this is false: the queue
\* is a stack, and connections that keep posting can keep an older request at
\* its bottom for ever (messageList.back in the worker loop).
PostsCease == <>[][\A e \in Envelope : owed'[e] <= owed[e]]_owed
EveryRequestAnswered ==
  ([]<>(messageList = << >>) \/ PostsCease)
    => \A e \in Envelope : owed[e] = 1 ~> owed[e] = 0
=============================================================================
