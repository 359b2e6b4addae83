----------------------- MODULE PageantListener_proofs -----------------------
(***************************************************************************)
(* Proofs about PageantListener, for every set of callers.                 *)
(*                                                                         *)
(* What the window thread may rely on when it reads messageStatus without  *)
(* the mutex (Settled) follows from where the one request under way can    *)
(* be: with the window thread, in the list, or with the worker (Handled).  *)
(***************************************************************************)
EXTENDS PageantListener, TLAPS

\* The dispatcher is stopped before the worker is joined, and the listener cancelled after it.
StopOrder ==
  /\ stopping <=> main \notin {"Starting", "Running"}
  /\ main \in {"Cancelling", "Closing", "JoiningListener", "Stopped"} => worker = "Over"
  /\ cancelFlag <=> main \in {"Closing", "JoiningListener", "Stopped"}

\* A request that is in the list or with the worker is the one that the window waits for,
\* unless Cancel has left it behind; and whatever is on the air has not been answered yet.
Handled ==
  /\ messageOnAir => ~cancelFlag /\ envelope[current] = "Request"
  /\ window = "Posting" => messageOnAir /\ job = None
  /\ window = "Locking" => envelope[current] = "Request"
  /\ job # None => messageList = {} /\ ~cancelFlag
  /\ (messageList # {} /\ ~cancelFlag) \/ job # None => window = "Waiting" /\ messageOnAir

\* What messageStatus says when the wait is over.
Settled ==
  window = "Reading" \/ (window = "Waiting" /\ ~messageOnAir) =>
    /\ messageStatus => envelope[current] = "Reply"
    /\ envelope[current] = "Reply" /\ ~messageStatus => cancelFlag

\* The caller of the request under way waits for it, and no other request has been read.
Callers ==
  /\ current # None => caller[current] = "Sent"
  /\ \A c \in Caller \ {current} : caller[c] \in {"Idle", "Sent"} => envelope[c] = "Nothing"

IInv ==
  /\ TypeOK /\ StopOrder /\ Handled /\ Settled /\ Callers
  /\ AnswerMatches

USE NoneAssumption


\* The inductive invariant holds in the initial state: nothing is asked, nothing runs.
LEMMA Initially == Init => IInv
  BY DEF Init, IInv, TypeOK, StopOrder, Handled, Settled, Callers, AnswerMatches

\* The window thread keeps it while it has no request (CreatesWindow .. ReadsRequest).
LEMMA BetweenRequests ==
  ASSUME IInv,
         \/ CreatesWindow \/ CannotCreate \/ GetMessageFails \/ HandlesClose
         \/ \E c \in Caller : Sends(c) \/ SendFails(c) \/ RejectsRequest(c) \/ ReadsRequest(c)
  PROVE  IInv'
<1>. USE DEF IInv, TypeOK, StopOrder, Handled, Settled, Callers, AnswerMatches,
             threadVars, memberVars, callerVars, dispatcherVars, mainVars
<1>1. CASE CreatesWindow \/ CannotCreate \/ GetMessageFails \/ HandlesClose
  <2>1. CASE CreatesWindow
    BY <1>1, <2>1 DEF CreatesWindow
  <2>2. CASE CannotCreate
    BY <1>1, <2>2 DEF CannotCreate
  <2>3. CASE HandlesClose
    BY <1>1, <2>3 DEF HandlesClose
  <2>4. CASE GetMessageFails
    BY <1>1, <2>4 DEF GetMessageFails
  <2>5. QED
    BY <1>1, <2>1, <2>2, <2>3, <2>4
<1>2. CASE \E c \in Caller : Sends(c)
  BY <1>2 DEF Sends
<1>3. CASE \E c \in Caller : SendFails(c)
  BY <1>3 DEF SendFails
<1>4. CASE \E c \in Caller : RejectsRequest(c)
  BY <1>4 DEF RejectsRequest
<1>5. CASE \E c \in Caller : ReadsRequest(c)
  BY <1>5 DEF ReadsRequest
<1>6. QED
  BY <1>1, <1>2, <1>3, <1>4, <1>5

\* The window thread keeps it while it handles a request (LocksAfterCancel .. CopiesReply).
LEMMA DuringRequest ==
  ASSUME IInv,
         \/ LocksAfterCancel \/ Locks \/ PostRequest \/ WaitIsOver
         \/ NoValidReply \/ ReplyTooLong \/ CopiesReply
  PROVE  IInv'
<1>. USE DEF IInv, TypeOK, StopOrder, Handled, Settled, Callers, AnswerMatches,
             threadVars, memberVars, callerVars, dispatcherVars, mainVars
<1>1. CASE LocksAfterCancel
  BY <1>1 DEF LocksAfterCancel, Returns
<1>2. CASE Locks
  BY <1>2 DEF Locks
<1>3. CASE PostRequest
  BY <1>3 DEF PostRequest
<1>4. CASE WaitIsOver
  BY <1>4 DEF WaitIsOver, MayGoOn
<1>5. CASE NoValidReply
  BY <1>5 DEF NoValidReply, Returns
<1>6. CASE ReplyTooLong
  BY <1>6 DEF ReplyTooLong, Returns
<1>7. CASE CopiesReply
  BY <1>7 DEF CopiesReply, Returns
<1>8. QED
  BY <1>1, <1>2, <1>3, <1>4, <1>5, <1>6, <1>7

\* The worker keeps it when it takes a request, and when it answers one.
LEMMA ByWorker ==
  ASSUME IInv, Worker \/ \E status \in BOOLEAN : ReplyCallback(status)
  PROVE  IInv'
<1>. USE DEF IInv, TypeOK, StopOrder, Handled, Settled, Callers, AnswerMatches,
             threadVars, memberVars, callerVars, dispatcherVars, mainVars
<1>1. CASE Worker
  BY <1>1 DEF Worker, Takes
<1>2. CASE \E status \in BOOLEAN : ReplyCallback(status)
  <2>. PICK status \in BOOLEAN : ReplyCallback(status)
    BY <1>2
  <2>1. window = "Waiting" /\ messageOnAir /\ job = current /\ messageList = {}
    BY DEF ReplyCallback
  <2>2. TypeOK'
    BY <2>1 DEF ReplyCallback, EndsWait
  <2>3. StopOrder' /\ Handled'
    BY <2>1 DEF ReplyCallback, EndsWait
  <2>4. Settled' /\ Callers' /\ AnswerMatches'
    BY <2>1 DEF ReplyCallback, EndsWait
  <2>5. QED
    BY <2>2, <2>3, <2>4
<1>3. QED
  BY <1>1, <1>2

\* The main thread keeps it when it stops the dispatcher, the request and the listener.
LEMMA ByMain ==
  ASSUME IInv, Main \/ CancelApplication
  PROVE  IInv'
<1>. USE DEF IInv, TypeOK, StopOrder, Handled, Settled, Callers, AnswerMatches,
             threadVars, memberVars, callerVars, dispatcherVars, mainVars
<1>1. CASE StartDispatcher \/ CancelApplication
  <2>1. CASE StartDispatcher
    BY <2>1 DEF StartDispatcher
  <2>2. CASE CancelApplication
    BY <2>2 DEF CancelApplication
  <2>3. QED
    BY <1>1, <2>1, <2>2
<1>2. CASE StopDispatcher
  BY <1>2 DEF StopDispatcher
<1>3. CASE WorkerJoined
  BY <1>3 DEF WorkerJoined
<1>4. CASE Cancel
  <2>1. TypeOK'
    BY <1>4 DEF Cancel, CancelsRequest, MsgMutexFree
  <2>2. StopOrder' /\ Handled'
    BY <1>4 DEF Cancel, CancelsRequest, MsgMutexFree
  <2>3. Settled' /\ Callers' /\ AnswerMatches'
    BY <1>4 DEF Cancel, CancelsRequest, MsgMutexFree
  <2>4. QED
    BY <2>1, <2>2, <2>3
<1>5. CASE PostsClose
  <2>1. TypeOK'
    BY <1>5 DEF PostsClose
  <2>2. StopOrder' /\ Handled'
    BY <1>5 DEF PostsClose
  <2>3. Settled' /\ Callers' /\ AnswerMatches'
    BY <1>5 DEF PostsClose
  <2>4. QED
    BY <2>1, <2>2, <2>3
<1>6. CASE ListenerJoined
  BY <1>6 DEF ListenerJoined
<1>7. QED
  BY <1>1, <1>2, <1>3, <1>4, <1>5, <1>6 DEF Main

\* Every step keeps the inductive invariant.
LEMMA Step == IInv /\ [Next]_vars => IInv'
<1>. SUFFICES ASSUME IInv, [Next]_vars PROVE IInv'
  OBVIOUS
<1>1. CASE Window \/ CannotCreate \/ GetMessageFails \/ \E c \in Caller : Sends(c)
  BY <1>1, BetweenRequests, DuringRequest DEF Window
<1>2. CASE Worker \/ \E status \in BOOLEAN : ReplyCallback(status)
  BY <1>2, ByWorker
<1>3. CASE Main \/ CancelApplication
  BY <1>3, ByMain
<1>4. CASE UNCHANGED vars
  BY <1>4 DEF vars, threadVars, memberVars, callerVars, dispatcherVars, mainVars, IInv, TypeOK,
     StopOrder, Handled, Settled, Callers, AnswerMatches
<1>5. QED
  BY <1>1, <1>2, <1>3, <1>4 DEF Next

\* The inductive invariant holds in every state that the listener can be in.
THEOREM Invariance == Spec => []IInv
  BY Initially, Step, PTL DEF Spec

\* Every variable has its type, and the dispatcher never has another request than the one
\* that the window thread waits with.
THEOREM TypesHold == Spec => []TypeOK
  BY Invariance, PTL DEF IInv

\* A caller that is told success has the reply to its own request; a reply that was there
\* is withheld only when the listener was cancelled.
THEOREM AnswersMatch == Spec => []AnswerMatches
  BY Invariance, PTL DEF IInv
=============================================================================
