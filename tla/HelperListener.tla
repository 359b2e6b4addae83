--------------------------- MODULE HelperListener ---------------------------
(***************************************************************************)
(* The accept loop of a WSL2 helper that is the master, and its handler of *)
(* SIGCHLD (wsl2_helper/main.cpp: ListenLoop, ChildReaper).  A child is    *)
(* forked for every connection and serves it until the client leaves; see  *)
(* HelperForward for what it does.  The handler interrupts the main        *)
(* thread, which is the one the kernel delivers such a signal to.          *)
(***************************************************************************)
EXTENDS Integers, FiniteSets

CONSTANTS Client   \* connections that may be made to the socket file

VARIABLES
  continueFlag,
  loop,            \* "Accepting", "Forking" or "Over"
  incoming,        \* the connections that accept returned last: one, or none when it failed
  client,          \* "Absent", "Queued", "Served" or "Left"
  child,           \* "None", "Running", "Zombie" or "Reaped"
  sigchld,         \* the signal is pending
  handler          \* "None" or "Reaping"

vars == <<continueFlag, loop, incoming, client, child, sigchld, handler>>

Init ==
  /\ continueFlag = TRUE
  /\ loop = "Accepting"
  /\ incoming = {}
  /\ client = [c \in Client |-> "Absent"]
  /\ child = [c \in Client |-> "None"]
  /\ sigchld = FALSE
  /\ handler = "None"

Running == {c \in Client : child[c] = "Running"}
Zombie == {c \in Client : child[c] = "Zombie"}

MainRuns == handler = "None"

Connects(c) ==
  /\ client[c] = "Absent" /\ loop # "Over"
  /\ client' = [client EXCEPT ![c] = "Queued"]
  /\ UNCHANGED <<continueFlag, loop, incoming, child, sigchld, handler>>

Accepts(c) ==
  /\ MainRuns /\ loop = "Accepting"
  /\ client[c] = "Queued"
  /\ incoming' = {c}
  /\ loop' = "Forking"
  /\ UNCHANGED <<continueFlag, client, child, sigchld, handler>>

\* an error other than EINTR; with EINTR the loop goes on, as if nothing had happened
AcceptFails ==
  /\ MainRuns /\ loop = "Accepting"
  /\ continueFlag' = FALSE
  /\ incoming' = {}
  /\ loop' = "Forking"
  /\ UNCHANGED <<client, child, sigchld, handler>>

\* The child that is forked after an error has no connection and is over at once.
Forks ==
  /\ MainRuns /\ loop = "Forking"
  /\ client' = [c \in Client |-> IF c \in incoming THEN "Served" ELSE client[c]]
  /\ child' = [c \in Client |-> IF c \in incoming THEN "Running" ELSE child[c]]
  /\ sigchld' = (sigchld \/ incoming = {})
  /\ loop' = IF continueFlag THEN "Accepting" ELSE "Over"
  /\ UNCHANGED <<continueFlag, incoming, handler>>

\* fork fails: the connection is closed, and nobody is told.
ForkFails ==
  /\ MainRuns /\ loop = "Forking"
  /\ client' = [c \in Client |-> IF c \in incoming THEN "Left" ELSE client[c]]
  /\ loop' = IF continueFlag THEN "Accepting" ELSE "Over"
  /\ UNCHANGED <<continueFlag, incoming, child, sigchld, handler>>

\* HandleConnection returns when the client has left.
ChildExits(c) ==
  /\ client[c] = "Served"
  /\ client' = [client EXCEPT ![c] = "Left"]
  /\ child' = [child EXCEPT ![c] = "Zombie"]
  /\ sigchld' = TRUE
  /\ UNCHANGED <<continueFlag, loop, incoming, handler>>

\* a signal is blocked while its handler runs
HandlerStarts ==
  /\ sigchld /\ MainRuns /\ loop # "Over"
  /\ sigchld' = FALSE
  /\ handler' = "Reaping"
  /\ UNCHANGED <<continueFlag, loop, incoming, client, child>>

\* waitpid returned a child
Reaps ==
  /\ handler = "Reaping"
  /\ \E c \in Zombie : child' = [child EXCEPT ![c] = "Reaped"]
  /\ UNCHANGED <<continueFlag, loop, incoming, client, sigchld, handler>>

\* waitpid returned -1: there is no child at all.  While one runs it returns 0, which the
\* loop does not end for either, a step that changes nothing.
NoChildLeft == Running \cup Zombie = {}

HandlerEnds ==
  /\ handler = "Reaping"
  /\ NoChildLeft
  /\ handler' = "None"
  /\ UNCHANGED <<continueFlag, loop, incoming, client, child, sigchld>>

Process == Forks \/ HandlerStarts \/ Reaps \/ HandlerEnds \/ \E c \in Client : Accepts(c)

Next == Process \/ AcceptFails \/ ForkFails \/ \E c \in Client : Connects(c) \/ ChildExits(c)

\* The process runs; nobody has to leave.
Spec == Init /\ [][Next]_vars /\ WF_vars(Process)

----------------------------------------------------------------------------
\* "loop to reap all dead child process" (main.cpp:480): once no dead child is left, the
\* handler returns, and the main thread accepts again.
ReaperReturns == handler = "Reaping" /\ Zombie = {} ~> handler = "None"
=============================================================================
