----------------------------- MODULE Application ----------------------------
(***************************************************************************)
(* The program (application.cpp: Run, RunStub, Cancel,                     *)
(* ServiceControlHandler; service_support.cpp: ReportStatus): it reads its *)
(* configuration, makes and runs the listeners, waits for a cancel or a    *)
(* listener that failed, and stops everything.  The listeners run as in    *)
(* AcceptLoops.  As a service it reports its status, and the control       *)
(* handler runs on the thread of the service dispatcher.                   *)
(***************************************************************************)
EXTENDS ConfigFile, AcceptLoops

CONSTANT Files     \* configuration files

\* A file is a sequence of lines of the four kinds, with or without a final newline.
ASSUME FilesAssumption == \A f \in Files :
  /\ Len(f.lines) \in Nat
  /\ \A i \in 1 .. Len(f.lines) : f.lines[i].kind \in {"header", "pair", "skipped", "malformed"}
  /\ f.newline \in BOOLEAN

VARIABLES
  configFile,
  lineNumber,      \* how many of its lines are read
  parser,          \* the variables of ParseIniFile
  config,          \* the sections, once all is read
  isService,
  main,            \* where Run is
  cancelled,       \* cancelEvent of the application
  errorEvent,
  exitCode,
  status,          \* what was reported last to the service control manager
  handler,         \* the control handler: "Unused", "Entered", "Reported" or "Done"
  \* ghost
  late             \* the handler reported after SERVICE_STOPPED was reported

parserVars == <<configFile, lineNumber, parser, config, isService>>
programVars == <<parserVars, main, cancelled, errorEvent, exitCode>>
serviceVars == <<status, handler, late>>
vars == <<programVars, serviceVars, loopVars>>

Init ==
  /\ configFile \in Files
  /\ lineNumber = 0
  /\ parser = StartOfFile
  /\ config = StartOfFile.sections
  /\ isService \in BOOLEAN
  /\ main = "Starting"
  /\ cancelled = FALSE
  /\ errorEvent = FALSE
  /\ exitCode = 0
  /\ status = "None"
  /\ handler = "Unused"
  /\ late = FALSE
  /\ InitLoops

ReportStatus(s) == status' = IF isService THEN s ELSE status

----------------------------------------------------------------------------
Starts ==
  /\ main = "Starting"
  /\ ReportStatus("START_PENDING")
  /\ main' = "Reading"
  /\ UNCHANGED <<parserVars, cancelled, errorEvent, exitCode, handler, late,
                 loopVars>>

FileIsRead == lineNumber = Len(configFile.lines)

\* a turn of the loop of ParseIniFile
ReadsLine ==
  /\ main = "Reading"
  /\ ~FileIsRead
  /\ lineNumber' = lineNumber + 1
  /\ parser' = ReadLine(parser, configFile.lines[lineNumber + 1])
  /\ UNCHANGED <<configFile, config, isService, main, cancelled, errorEvent, exitCode,
                 serviceVars, loopVars>>

\* what follows the last line
EndsFile ==
  /\ main = "Reading"
  /\ FileIsRead
  /\ parser' = IF configFile.newline \/ configFile.lines = <<>>
                 THEN StoreLast(ReadPastEnd(parser)) ELSE StoreLast(parser)
  /\ main' = "Initializing"
  /\ UNCHANGED <<configFile, lineNumber, config, isService, cancelled, errorEvent, exitCode,
                 serviceVars, loopVars>>

\* Initialize succeeds, or Run returns.
AcceptsConfig ==
  /\ main = "Initializing"
  /\ parser.good /\ Initialize(parser.sections)
  /\ config' = parser.sections
  /\ main' = "Launching"
  /\ UNCHANGED <<configFile, lineNumber, parser, isService, cancelled, errorEvent, exitCode,
                 serviceVars, loopVars>>

RefusesConfig ==
  /\ main = "Initializing"
  /\ ~(parser.good /\ Initialize(parser.sections))
  /\ exitCode' = 1
  /\ main' = "Returned"
  /\ UNCHANGED <<parserVars, cancelled, errorEvent, serviceVars, loopVars>>

\* the thread of every listener is started, then the dispatcher; the listeners of Pageant and
\* Hyper-V are in PageantListener and HyperVListener
Launches ==
  /\ main = "Launching"
  /\ kind' = [l \in Listener |->
       IF l \in WithRole(config, "listener") /\ config[l]["type"] \in LoopKinds
         THEN config[l]["type"] ELSE "none"]
  /\ place' = [l \in Listener |-> IF kind'[l] = "none" THEN "None" ELSE "Created"]
  /\ main' = "Launched"
  /\ UNCHANGED <<parserVars, cancelled, errorEvent, exitCode, serviceVars,
                 cancelEvent, signalled, file, queue, client, early>>

Runs ==
  /\ main = "Launched"
  /\ ReportStatus("RUNNING")
  /\ main' = "Waiting"
  /\ UNCHANGED <<parserVars, cancelled, errorEvent, exitCode, handler, late,
                 loopVars>>

\* Of the two events the first one counts.
Wakes ==
  /\ main = "Waiting"
  /\ cancelled \/ errorEvent
  /\ exitCode' = IF cancelled THEN 0 ELSE 1
  /\ main' = "Stopping"
  /\ UNCHANGED <<parserVars, cancelled, errorEvent, serviceVars, loopVars>>

Stops ==
  /\ main = "Stopping"
  /\ ReportStatus("STOP_PENDING")
  /\ main' = "Cancelling"
  /\ UNCHANGED <<parserVars, cancelled, errorEvent, exitCode, handler, late,
                 loopVars>>

\* Mutant: only listeners that wait are cancelled.
ThoseWaiting == {l \in Listener : place[l] = "Waiting"}

ThoseToCancel == {l \in Listener : kind[l] # "none"}

\* dispatcher->Stop (MessageDispatcher), and Cancel of every listener
CancelsListeners ==
  /\ main = "Cancelling"
  /\ cancelEvent' = [l \in Listener |-> cancelEvent[l] \/ l \in ThoseToCancel]
  /\ main' = "Joining"
  /\ UNCHANGED <<parserVars, cancelled, errorEvent, exitCode, serviceVars,
                 kind, place, signalled, file, queue, client, early>>

\* The threads are joined, and the managers are stopped (ProxyManager, ForwardManager).
Joins ==
  /\ main = "Joining"
  /\ \A l \in Listener : place[l] \in {"None", "Cancelled", "Failed"}
  /\ main' = "Returned"
  /\ UNCHANGED <<parserVars, cancelled, errorEvent, exitCode, serviceVars,
                 loopVars>>

\* RunStub
ReportsEnd ==
  /\ main = "Returned"
  /\ ReportStatus("STOPPED")
  /\ main' = "Reported"
  /\ UNCHANGED <<parserVars, cancelled, errorEvent, exitCode, handler, late, loopVars>>

\* The end of the process, which closes every socket.  The thread that dispatches the control
\* handler is the one that returns from main.
Exits ==
  /\ main = "Reported"
  /\ handler \notin {"Entered", "Reported"}
  /\ main' = "Exited"
  /\ queue' = [l \in Listener |-> {}]
  /\ client' = [c \in Client |-> IF client[c] = "Queued" THEN "Refused" ELSE client[c]]
  /\ UNCHANGED <<parserVars, cancelled, errorEvent, exitCode, serviceVars,
                 kind, place, cancelEvent, signalled, file, early>>

Main ==
  \/ Starts \/ ReadsLine \/ EndsFile \/ AcceptsConfig \/ RefusesConfig \/ Launches \/ Runs \/ Wakes \/ Stops
  \/ CancelsListeners \/ Joins \/ ReportsEnd \/ Exits

----------------------------------------------------------------------------
\* A stop is accepted only while the status is SERVICE_RUNNING.
EntersHandler ==
  /\ handler = "Unused"
  /\ status = "RUNNING"
  /\ handler' = "Entered"
  /\ UNCHANGED <<programVars, status, late, loopVars>>

HandlerReports ==
  /\ handler = "Entered"
  /\ ReportStatus("STOP_PENDING")
  /\ late' = (main = "Reported")
  /\ handler' = "Reported"
  /\ UNCHANGED <<programVars, loopVars>>

\* Mutant: the handler reports and forgets to cancel.
CancelForgotten == UNCHANGED cancelled

SetCancelEvent == cancelled' = TRUE

HandlerCancels ==
  /\ handler = "Reported"
  /\ SetCancelEvent
  /\ handler' = "Done"
  /\ UNCHANGED <<parserVars, main, errorEvent, exitCode, status, late,
                 loopVars>>

Service == HandlerReports \/ HandlerCancels

----------------------------------------------------------------------------
Manager(l) == ManagerOf(config[l])

ThreadRuns(l) == place[l] \notin {"None", "Cancelled", "Failed"} /\ main # "Exited"

\* the steps of a listener that come about by themselves
ListenerSteps(l) ==
  \/ Prepares(l) \/ Publishes(l) \/ Listens(l) \/ SeesCancel(l)
  \/ CreatesPipe(l) \/ ConnectsNamedPipe(l)
  \/ \E outcome \in {Manager(l), "Refused"} :
       Connected(l, outcome) \/ \E c \in Client : Accepts(l, c, outcome)

ListenerThread(l) ==
  /\ ThreadRuns(l)
  /\ ListenerSteps(l)
  /\ UNCHANGED <<programVars, serviceVars>>

\* A listener that returns FALSE sets errorEvent.
ListenerFails(l) ==
  /\ ThreadRuns(l)
  /\ FailsToListen(l) \/ SocketFails(l) \/ PipeFails(l)
  /\ errorEvent' = TRUE
  /\ UNCHANGED <<parserVars, main, cancelled, exitCode, serviceVars>>

\* A wait for a pipe that fails ends nothing.
WaitFails(l) ==
  /\ ThreadRuns(l)
  /\ PipeWaitFails(l)
  /\ UNCHANGED <<programVars, serviceVars>>

\* The part of ListenerThread that ends it when it is cancelled.
EndsCancelled(l) ==
  /\ ThreadRuns(l)
  /\ SeesCancel(l)
  /\ UNCHANGED <<programVars, serviceVars>>

Connects(c) ==
  /\ main # "Exited"
  /\ \E l \in Listener : ConnectsToPipe(c, l) \/ ConnectsToSocket(c, l)
  /\ UNCHANGED <<programVars, serviceVars>>

Next ==
  \/ Main \/ EntersHandler \/ Service
  \/ \E l \in Listener : ListenerThread(l) \/ ListenerFails(l) \/ WaitFails(l)
  \/ \E c \in Client : Connects(c)

\* Every thread runs, and the wait for a pipe does not fail each time it begins once the
\* listener is cancelled.
Fairness ==
  /\ WF_vars(Main)
  /\ WF_vars(Service)
  /\ \A l \in Listener : WF_vars(ListenerThread(l)) /\ SF_vars(EndsCancelled(l))

Spec == Init /\ [][Next]_vars /\ Fairness

----------------------------------------------------------------------------
TypeOK ==
  /\ configFile \in Files
  /\ lineNumber \in 0..Len(configFile.lines)
  /\ isService \in BOOLEAN
  /\ main \in {"Starting", "Reading", "Initializing", "Launching", "Launched", "Waiting", "Stopping",
               "Cancelling", "Joining", "Returned", "Reported", "Exited"}
  /\ cancelled \in BOOLEAN
  /\ errorEvent \in BOOLEAN
  /\ exitCode \in {0, 1}
  /\ status \in {"None", "START_PENDING", "RUNNING", "STOP_PENDING", "STOPPED"}
  /\ isService => (status = "None") = (main = "Starting")
  /\ handler \in {"Unused", "Entered", "Reported", "Done"}
  /\ late \in BOOLEAN
  /\ TypeOKLoops

\* The program runs with what the file says: a file that is well formed and legal is
\* accepted, unless it ends in a header and a newline (ini_parse.cpp:36, 70-76); an accepted
\* one is well formed and legal, unless its last section repeats a name, which the parser
\* looks for only at the header that follows (ini_parse.cpp:51-56, 90-91); and the sections
\* have the first values of their keys.  A header without a name ends a section and
\* begins none (ini_parse.cpp:47, 67, 92).
RunsAsConfigured ==
  LET lines == configFile.lines
      accepted == main = "Launching"
      refused == main = "Returned" /\ DOMAIN config = {}
  IN  /\ accepted /\ ~RepeatsLast(lines) =>
           WellFormed(lines) /\ Initialize(Meaning(lines)) /\ config = Meaning(lines)
      /\ refused /\ ~EndsInHeader(configFile) =>
           ~WellFormed(lines) \/ ~Initialize(Meaning(lines))

\* A program that is connected is served or refused, unless it connected to a pipe before
\* ConnectNamedPipe was called (namedpipe/listener.cpp:122-133).
ConnectionTaken == \A c \in Client :
  client[c] = "Queued" ~>
    client[c] # "Queued" \/ \E l \in Listener : c \in queue[l] /\ Deaf(l)

\* When a stop was asked for or a listener failed, the program ends, and SERVICE_STOPPED is
\* the last that a service reports, unless the handler of a stop that came when a listener
\* had failed reports after it (application.cpp:326-327, 366-375).
Ends ==
  (handler # "Unused" \/ errorEvent) ~>
    main = "Exited" /\ (isService => status = "STOPPED" \/ late)
=============================================================================
