--------------------------- MODULE PageantListener --------------------------
(***************************************************************************)
(* The listener of the Pageant protocol (protocol/pageant/listener.cpp)    *)
(* with the worker of the dispatcher that answers its requests and the     *)
(* main thread that stops both (message_dispatcher.cpp: PostRequest,       *)
(* Start, Stop; application.cpp: Run).  The window thread handles one      *)
(* request at a time and blocks its message loop until the reply is there, *)
(* under a mutex that the reply callback and Cancel take, too.             *)
(*                                                                         *)
(* A section of another thread under msgMutex is one step, and so is every *)
(* section under listMutex of the dispatcher; what the window thread does  *)
(* with msgMutex held, it does in two.  When PostRequest answers at once,  *)
(* the callback locks msgMutex again on the thread that holds it, which    *)
(* std::mutex does not define: the model goes no further on that thread    *)
(* ("Relocked"), whether it blocks or the exception ends it.               *)
(***************************************************************************)
EXTENDS Integers, FiniteSets

CONSTANTS
  Caller,     \* programs that ask once with WM_COPYDATA
  None

ASSUME NoneAssumption == None \notin Caller

VARIABLES
  \* the window thread
  window,          \* where it is
  current,         \* the caller whose request it handles
  \* members of the listener
  windowHandle,    \* it is not NULL
  cancelFlag,
  messageOnAir,
  messageStatus,
  \* the callers
  caller,          \* "Idle", "Sent", "Answered", "Refused" or "TooLong"
  envelope,        \* what the message of a caller holds: "Nothing", "Request" or "Reply"
  answer,          \* what was copied to the memory of the caller
  \* the message queue of the window
  closePosted,
  \* the dispatcher
  stopping,        \* its cancelFlag
  messageList,
  worker,          \* "Unstarted", "Waiting", "Busy", "Draining" or "Over"
  job,
  \* the main thread
  main,
  cancelEvent,
  errorEvent

threadVars == <<window, current>>
memberVars == <<windowHandle, cancelFlag, messageOnAir, messageStatus>>
callerVars == <<caller, envelope, answer>>
dispatcherVars == <<stopping, messageList, worker, job>>
mainVars == <<main, cancelEvent, errorEvent>>
vars == <<threadVars, memberVars, callerVars, closePosted, dispatcherVars, mainVars>>

Init ==
  /\ window = "Creating"
  /\ current = None
  /\ windowHandle = FALSE
  /\ cancelFlag = FALSE
  /\ messageOnAir = FALSE
  /\ messageStatus = FALSE
  /\ caller = [c \in Caller |-> "Idle"]
  /\ envelope = [c \in Caller |-> "Nothing"]
  /\ answer = [c \in Caller |-> "Nothing"]
  /\ closePosted = FALSE
  /\ stopping = FALSE
  /\ messageList = {}
  /\ worker = "Unstarted"
  /\ job = None
  /\ main = "Starting"
  /\ cancelEvent = FALSE
  /\ errorEvent = FALSE

\* The window thread keeps msgMutex while it calls receiveCallback.
MsgMutexFree == window \notin {"Posting", "Relocked"}

\* PostRequest answers with listMutex held.
ListMutexFree == window # "Relocked"

----------------------------------------------------------------------------
\* Run: the window and the message loop.

CreatesWindow ==
  /\ window = "Creating"
  /\ window' = "Pumping"
  /\ windowHandle' = TRUE
  /\ UNCHANGED <<current, cancelFlag, messageOnAir, messageStatus, callerVars, closePosted,
                 dispatcherVars, mainVars>>

\* One of the calls before the message loop fails, with the handle or without it.
CannotCreate ==
  /\ window = "Creating"
  /\ window' = "Over"
  /\ windowHandle' \in BOOLEAN
  /\ errorEvent' = TRUE
  /\ UNCHANGED <<current, cancelFlag, messageOnAir, messageStatus, callerVars, closePosted,
                 dispatcherVars, main, cancelEvent>>

\* SendMessage of another program, which returns when the request was handled
Sends(c) ==
  /\ caller[c] = "Idle" /\ window \notin {"Creating", "Over"}
  /\ caller' = [caller EXCEPT ![c] = "Sent"]
  /\ UNCHANGED <<threadVars, memberVars, envelope, answer, closePosted, dispatcherVars, mainVars>>

\* ... or when the window is gone
SendFails(c) ==
  /\ caller[c] = "Sent" /\ window = "Over"
  /\ caller' = [caller EXCEPT ![c] = "Refused"]
  /\ UNCHANGED <<threadVars, memberVars, envelope, answer, closePosted, dispatcherVars, mainVars>>

\* GetMessage fails, and Run returns FALSE.
GetMessageFails ==
  /\ window = "Pumping"
  /\ window' = "Over"
  /\ errorEvent' = TRUE
  /\ UNCHANGED <<current, memberVars, callerVars, closePosted, dispatcherVars, main, cancelEvent>>

HandlesClose ==
  /\ window = "Pumping"
  /\ closePosted
  /\ window' = "Over"
  /\ UNCHANGED <<current, memberVars, callerVars, closePosted, dispatcherVars, mainVars>>

----------------------------------------------------------------------------
\* ProcessRequest

\* the return to the message loop, with what the caller is told
Returns(outcome) ==
  /\ window' = "Pumping"
  /\ current' = None
  /\ caller' = [caller EXCEPT ![current] = outcome]

\* no name, no file mapping, not the same owner, or no memory
RejectsRequest(c) ==
  /\ window = "Pumping" /\ caller[c] = "Sent"
  /\ caller' = [caller EXCEPT ![c] = "Refused"]
  /\ UNCHANGED <<threadVars, memberVars, envelope, answer, closePosted, dispatcherVars, mainVars>>

ReadsRequest(c) ==
  /\ window = "Pumping" /\ caller[c] = "Sent"
  /\ window' = "Locking"
  /\ current' = c
  /\ envelope' = [envelope EXCEPT ![c] = "Request"]
  /\ UNCHANGED <<memberVars, caller, answer, closePosted, dispatcherVars, mainVars>>

LocksAfterCancel ==
  /\ window = "Locking"
  /\ cancelFlag
  /\ Returns("Refused")
  /\ UNCHANGED <<memberVars, envelope, answer, closePosted, dispatcherVars, mainVars>>

Locks ==
  /\ window = "Locking"
  /\ ~cancelFlag
  /\ messageOnAir' = TRUE
  /\ window' = "Posting"
  /\ UNCHANGED <<current, windowHandle, cancelFlag, messageStatus, callerVars, closePosted,
                 dispatcherVars, mainVars>>

\* PostRequest of the dispatcher
PostRequest ==
  /\ window = "Posting"
  /\ IF stopping
       THEN window' = "Relocked" /\ UNCHANGED messageList
       ELSE window' = "Waiting" /\ messageList' = messageList \cup {current}
  /\ UNCHANGED <<current, memberVars, callerVars, closePosted, stopping, worker, job, mainVars>>

\* Mutant: the wait has no predicate, and a spurious wakeup ends it.
WakesUp == TRUE

MayGoOn == ~messageOnAir

WaitIsOver ==
  /\ window = "Waiting"
  /\ MayGoOn
  /\ window' = "Reading"
  /\ UNCHANGED <<current, memberVars, callerVars, closePosted, dispatcherVars, mainVars>>

\* messageStatus is read without the mutex.
NoValidReply ==
  /\ window = "Reading"
  /\ ~messageStatus
  /\ Returns("Refused")
  /\ UNCHANGED <<memberVars, envelope, answer, closePosted, dispatcherVars, mainVars>>

ReplyTooLong ==
  /\ window = "Reading"
  /\ messageStatus
  /\ Returns("TooLong")
  /\ UNCHANGED <<memberVars, envelope, answer, closePosted, dispatcherVars, mainVars>>

CopiesReply ==
  /\ window = "Reading"
  /\ messageStatus
  /\ Returns("Answered")
  /\ answer' = [answer EXCEPT ![current] = envelope[current]]
  /\ UNCHANGED <<memberVars, envelope, closePosted, dispatcherVars, mainVars>>

Window ==
  \/ CreatesWindow \/ HandlesClose
  \/ LocksAfterCancel \/ Locks \/ PostRequest \/ WaitIsOver
  \/ NoValidReply \/ ReplyTooLong \/ CopiesReply
  \/ \E c \in Caller : RejectsRequest(c) \/ ReadsRequest(c) \/ SendFails(c)

----------------------------------------------------------------------------
\* The worker of the dispatcher.

Takes(c) ==
  /\ c \in messageList
  /\ messageList' = messageList \ {c}
  /\ worker' = "Busy"
  /\ job' = c

\* Before it waits, and after a request, the worker looks at the list; at the flag it looks
\* when it starts and when it is woken.
Worker ==
  /\ ListMutexFree
  /\ \/ /\ worker \in {"Unstarted", "Waiting"} /\ main # "Starting"
        /\ ~stopping
        /\ \E c \in messageList : Takes(c)
     \/ /\ worker = "Unstarted" /\ main # "Starting"
        /\ ~stopping /\ messageList = {}
        /\ worker' = "Waiting"
        /\ UNCHANGED <<messageList, job>>
     \/ /\ worker \in {"Unstarted", "Waiting"}
        /\ stopping
        /\ worker' = "Over"
        /\ UNCHANGED <<messageList, job>>
     \/ /\ worker = "Draining"
        /\ \E c \in messageList : Takes(c)
     \/ /\ worker = "Draining" /\ messageList = {}
        /\ worker' = "Waiting"
        /\ UNCHANGED <<messageList, job>>
  /\ UNCHANGED <<threadVars, memberVars, callerVars, closePosted, stopping, mainVars>>

\* Mutant: only a reply that is valid ends the wait.
EndsIfValid(status) == messageOnAir' = ~status

EndsWait(status) == messageOnAir' = FALSE

\* replyCallback: the worker holds the message, so weakMessage is not empty.
ReplyCallback(status) ==
  /\ worker = "Busy"
  /\ MsgMutexFree
  /\ envelope' = [envelope EXCEPT ![job] = IF status THEN "Reply" ELSE @]
  /\ EndsWait(status)
  /\ messageStatus' = status
  /\ worker' = "Draining"
  /\ job' = None
  /\ UNCHANGED <<threadVars, windowHandle, cancelFlag, caller, answer, closePosted, stopping,
                 messageList, mainVars>>

----------------------------------------------------------------------------
\* Application::Run

StartDispatcher ==
  /\ main = "Starting"
  /\ main' = "Running"
  /\ UNCHANGED <<threadVars, memberVars, callerVars, closePosted, dispatcherVars, cancelEvent,
                 errorEvent>>

\* the user, or the service control manager
CancelApplication ==
  /\ ~cancelEvent
  /\ cancelEvent' = TRUE
  /\ UNCHANGED <<threadVars, memberVars, callerVars, closePosted, dispatcherVars, main,
                 errorEvent>>

StopDispatcher ==
  /\ main = "Running"
  /\ cancelEvent \/ errorEvent
  /\ ListMutexFree
  /\ stopping' = TRUE
  /\ main' = "JoiningWorker"
  /\ UNCHANGED <<threadVars, memberVars, callerVars, closePosted, messageList, worker, job,
                 cancelEvent, errorEvent>>

WorkerJoined ==
  /\ main = "JoiningWorker"
  /\ worker = "Over"
  /\ main' = "Cancelling"
  /\ UNCHANGED <<threadVars, memberVars, callerVars, closePosted, dispatcherVars, cancelEvent,
                 errorEvent>>

\* Mutant: Cancel leaves a request that nobody will answer on the air.
KeepsWaiting == UNCHANGED <<messageOnAir, messageStatus>>

CancelsRequest ==
  /\ messageOnAir' = FALSE
  /\ messageStatus' = FALSE

\* Cancel of the listener ...
Cancel ==
  /\ main = "Cancelling"
  /\ MsgMutexFree
  /\ CancelsRequest
  /\ cancelFlag' = TRUE
  /\ main' = "Closing"
  /\ UNCHANGED <<threadVars, windowHandle, callerVars, closePosted, dispatcherVars, cancelEvent,
                 errorEvent>>

\* ... which posts WM_CLOSE when there is a window by now
PostsClose ==
  /\ main = "Closing"
  /\ closePosted' = windowHandle
  /\ windowHandle' = FALSE
  /\ main' = "JoiningListener"
  /\ UNCHANGED <<threadVars, cancelFlag, messageOnAir, messageStatus, callerVars, dispatcherVars,
                 cancelEvent, errorEvent>>

ListenerJoined ==
  /\ main = "JoiningListener"
  /\ window = "Over"
  /\ main' = "Stopped"
  /\ UNCHANGED <<threadVars, memberVars, callerVars, closePosted, dispatcherVars, cancelEvent,
                 errorEvent>>

Main ==
  \/ StartDispatcher \/ StopDispatcher \/ WorkerJoined \/ Cancel \/ PostsClose \/ ListenerJoined

----------------------------------------------------------------------------
Next ==
  \/ Window \/ CannotCreate \/ GetMessageFails
  \/ Worker \/ \E status \in BOOLEAN : ReplyCallback(status)
  \/ Main \/ CancelApplication
  \/ \E c \in Caller : Sends(c)

\* Every thread runs, and the clients of the dispatcher answer or fail in the end.
Fairness ==
  /\ WF_vars(Window)
  /\ WF_vars(Worker \/ \E status \in BOOLEAN : ReplyCallback(status))
  /\ WF_vars(Main)

Spec == Init /\ [][Next]_vars /\ Fairness

----------------------------------------------------------------------------
TypeOK ==
  /\ window \in {"Creating", "Pumping", "Locking", "Posting", "Waiting", "Reading", "Relocked",
                 "Over"}
  /\ current \in Caller \cup {None}
  /\ (current # None) <=> (window \notin {"Creating", "Pumping", "Over"})
  /\ windowHandle \in BOOLEAN
  /\ cancelFlag \in BOOLEAN
  /\ messageOnAir \in BOOLEAN
  /\ messageOnAir => window \in {"Posting", "Waiting", "Relocked"}
  /\ messageStatus \in BOOLEAN
  /\ caller \in [Caller -> {"Idle", "Sent", "Answered", "Refused", "TooLong"}]
  /\ envelope \in [Caller -> {"Nothing", "Request", "Reply"}]
  /\ answer \in [Caller -> {"Nothing", "Reply"}]
  /\ closePosted \in BOOLEAN
  /\ stopping \in BOOLEAN
  /\ messageList \subseteq (IF main \in {"Closing", "JoiningListener", "Stopped"}
                             THEN Caller   \* a request may be left behind
                             ELSE {current})
  /\ worker \in {"Unstarted", "Waiting", "Busy", "Draining", "Over"}
  /\ (worker = "Busy") <=> (job # None)
  /\ job \in {current, None}
  /\ main \in {"Starting", "Running", "JoiningWorker", "Cancelling", "Closing",
               "JoiningListener", "Stopped"}
  /\ cancelEvent \in BOOLEAN
  /\ errorEvent \in BOOLEAN

\* A caller that is told success finds the whole reply to its own request, although
\* messageStatus is read without the mutex and never reset for a new request; and a reply
\* that was there is not withheld unless the listener was cancelled (listener.cpp:219-247).
AnswerMatches == \A c \in Caller :
  /\ caller[c] = "Answered" => answer[c] = "Reply"
  /\ caller[c] = "Refused" /\ envelope[c] = "Reply" => cancelFlag

\* The program that sent a request gets its answer, unless PostRequest answered on the
\* thread that holds msgMutex (listener.cpp:199-207, 219-228; message_dispatcher.cpp:16-20).
RequestReturns == \A c \in Caller :
  caller[c] = "Sent" ~> caller[c] # "Sent" \/ window = "Relocked"

\* Cancel came before the window was there.
CloseIsLost == main = "JoiningListener" /\ ~closePosted

\* A stop of the application, asked for or caused by the listener that failed, comes to its
\* end, unless msgMutex was locked twice or WM_CLOSE was not posted because the window did
\* not exist yet (application.cpp:289-306, listener.cpp:96-112).
StopCompletes ==
  (cancelEvent \/ errorEvent) ~> (main = "Stopped" \/ window = "Relocked" \/ CloseIsLost)
=============================================================================
