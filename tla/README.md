# TLA+ verification of ssh-agent-bridge

ssh-agent-bridge listens for ssh-agent requests on several kinds of endpoint (named pipe, unix
socket, libassuan and cygwin emulated sockets, Hyper-V socket, Pageant window), asks a list of
upstream agents in configuration order, and sends one reply back. This directory holds TLA+ models
of its core, the TLC configurations that check them on small instances, and TLAPS proofs.
Paths below are relative to `src/src/` unless they start with `src/`.

## The system

| part | state | operations | interacts with |
|---|---|---|---|
| `message_dispatcher` | `messageList` (a stack), `cancelFlag`, `clients`, worker thread | PostRequest, AddClient, Start, Stop, ProcessRequest and the Handle functions, destructor | connections post to it, it calls upstream clients and the reply callbacks |
| `connection_manager/proxy` | list of contexts; per context a state, counters, a buffer, one OVERLAPPED | DelegateConnection, DoIoCompletion, Dispose, RemoveContext, PostMessageReply, Stop | listener threads delegate, its own port thread reads and writes, the worker of the dispatcher delivers replies |
| `connection_manager/forwarding` | list of contexts with two directions each | PreparePeer, DoForward, Dispose | listener threads, its own port thread |
| listeners (`namedpipe`, `unix`, `libassuan_socket_emulation`, `cygwin`, `hyperv`) | cancel event, listening handle, per connection handshake state | Run, Cancel, DoHandshake | one thread each, started and joined by the application |
| `hyperv/rebind_notifier` | last id of the WSL2 machine, set of events | Indicate, GetLastWslVmId, Start, Stop | callback from WMI, event to the Hyper-V listener |
| `pageant/listener` | window, `msgMutex`, `messageOnAir`, `cancelFlag` | WindowProc, ProcessRequest, Cancel | posts to the dispatcher and waits for the reply |
| upstream clients | none between calls | SendSshMessage | called by the worker only |
| codec (`protocol_ssh_agent`, `protocol_ssh_helper`) | a position in an envelope | readers, writers | dispatcher |
| `application` | everything above, cancel event | Initialize, Run, Cancel | owns all threads |
| `src/wsl2_helper/main.cpp` | pid file, socket file, reference count, child processes | listen, fork, forward, monitor, signals | processes of their own under WSL, one per shell, which talk by signals and files |
| `ini_parse`, `cmdline_option`, `log`, `lxperm`, `service_support`, `util` | little or none | | used by `application` |

What is hard in it, and what makes each part correct:

- **Dispatcher.** Several threads post, one worker takes, the owner stops. An accepted request must
  be answered once, by a summary of what the upstreams said about that very request; no notification
  may be lost; Stop must return. The queue is a stack, so that an old request can starve while newer
  ones come.
- **Proxy manager.** Contexts have no lock. Listener threads, the port thread, the worker and at the
  end the main thread all run `DoIoCompletion` or `Dispose` on them; `Dispose` itself says
  "potential data race here". That it is none depends on a context having one thing going on at a
  time. Completion packets hold raw pointers. Replies are cut in chunks, with the header in the
  first one.
- **Forwarding manager.** Two operations are outstanding per context, so the argument above does not
  carry over; half-closes must not overtake data.
- **Pageant listener.** It calls into the dispatcher with its mutex held, and the dispatcher calls
  back with its own mutex held after Stop.
- **Hyper-V listener and notifier.** Value and event are read and reset in separate steps.
- **Shutdown.** Threads are joined in a fixed order; each must be able to end without the others.
- **wsl2 helper.** Signals coalesce, children must be reaped, the pid file is checked and written in
  separate steps.

`PROJECT.json` lists every hazard with its line and the properties that cover it.

## Modules

### AgentMessages
The vocabulary: the kinds of request (`SSH2_AGENTC_*`, plus "Empty" for a message of length zero and
"Unsupported" for any other type), what one exchange with an upstream can yield (`Said`), and
envelopes as records of a kind and the upstreams a reply was made from. Key blobs, signatures and
comments are not represented: what the dispatcher decides depends on the kinds alone.

### UpstreamService (abstract specification)
What the dispatcher promises to a connection. It knows no queue, no thread and no loop index: each
request is accepted once, upstreams are heard at most once each *in any order*, and the answer is
one of the `Summaries` of what was heard, as soon as that is `Settled`. A request may be refused only if it
is empty or if the service is closed and no upstream has heard of it.

### MessageDispatcher
`message_dispatcher.cpp`. One action per section under `listMutex`, per exchange with an upstream
and per reply callback. `worker` is the worker's program counter (`AtOuterLoop`, `AtInnerLoop`,
`Asleep` in the condition variable, `Woken` but not yet holding the lock, `Processing`, `Replying`,
`Exited`), `owner` that of the thread in `Application::Run`. Note where the code tests `cancelFlag`:
the outer loop only (`OuterLoopEnds`), so that the worker drains the queue in the inner loop after
Stop, but leaves it untouched when Stop and a post meet while it is asleep; what is left is answered
by the destructor. After Stop, PostRequest makes the callback at once (`PostAfterStop`). `asked`,
`posted`, `owed` and `outcome` are history: which exchange was made with which bytes, what was
posted, how many replies are due.

### ProxyManager
`connection_manager/proxy.cpp` with every thread that enters it. A thread reads the state of a
context and computes in one step, starts i/o in another, and disposes in three (test, assign and
cancel, remove from the list), so that two threads in one context would interleave. `io[c]` are the
operations the kernel holds, `arrived[c]` the packets in the port; both are sequences and nothing in
the model limits them to one element. Addresses of freed contexts are reused, so a stale packet
would reach a new connection. `messageList` is the dispatcher's queue as a set (the order does not
matter here).

Handshakes are modelled by the number of exchanges (0 for pipe, unix and Hyper-V sockets, 1 for
libassuan, 4 for cygwin) and by the rule that each must transfer exactly what was asked.

The kernel contract (external): a read yields at least one byte if there was room for one; a
`WriteFile` of a reply completes with all bytes written, which the code relies on (`ioDataOffset`
advances by the length requested, `ioNeedBytes` by the length transferred); the end of a pipe is an
error, the end of a socket is a successful read of zero bytes; `CancelIoEx` yields a packet with
`ERROR_OPERATION_ABORTED`. An operation that fails at once queues no packet.

### Relay (abstract specification)
What a relay between two ends promises: bytes arrive in order and once, an end is told that its
peer's stream is over only after the last byte (unless the peer is gone), and the connection is
given up only when it could not be made or an end went away. It knows no buffer and no operation.
`ForwardManager` and `HelperForward`, which have no line of code in common, both implement it.

### ForwardManager
`connection_manager/forwarding.cpp`. `contextState[c]` and `state[c][i]` are the two levels of the
code's state machine, direction `i` reads from end `i` (0 client, 1 target). `DoForward` is one step
up to `Dispose`: `Reads`, `EndOfFile`, `ForwardsData`, `Written`, which re-arms the read (`Rearms`).
`Disposes`, the loop over both directions after `PreparePeer`, and the assignment of `Established`
are steps of their own. The kernel splits reads and writes as it likes. A listener without handshake
starts both directions on its own thread before it assigns `Established`, and the port thread may
get a completion in between. `contextState` is a plain member, so that this is a data race. `Races`
is the step where it bites: the completion would be taken for one of the handshake (`PreparePeer`
would run again and the data read be dropped), or `Established` be assigned to a disposed context.
The model follows that context no further. `DelegateConnection`, `IocpThreadProc`, `Dispose` and
`Stop` correspond to those of `ProxyManager`.

### HelperForward
A child process of the WSL2 helper: `HandleConnection`, `DoForward`, `GracefullyHup`, `SendBuffer`.
One thread with one buffer, `poll`, and sends that block while the kernel holds `Capacity` bytes.

### HelperSessions
`main`, `PrepareListener`, `MonitorLoop`, `GetPid`, `WritePid`, `DeleteSocket` and the handlers of
SIGUSR1/2 and of the fatal signals, for several processes at a time. `pc[p]` is the main thread,
`monitor[p]` the monitor thread of a master. `pending[p]` is a *set*: a signal sent while the same
one is pending is lost. Reading, emptying and writing the pid file are separate steps. Three ghosts
name the behaviours in which the design cannot keep its promise: `miscounted` (a signal to the
process was lost, or a session that held it was ended by a signal), `abrupt` (no chance to delete
the socket file), `overlapped` (two processes became master).

### HelperListener
`ListenLoop` and `ChildReaper`: accept, fork, SIGCHLD and a handler that runs on the main thread.

### PageantListener
`pageant/listener.cpp` with the worker of the dispatcher and the shutdown of `Application::Run`
around it, since what matters is who waits for whom. A section under `msgMutex` or `listMutex` is a
step; what the window thread does with `msgMutex` held takes two. `Relocked` is where `PostRequest`
answers at once (after Stop) and the callback locks `msgMutex` again on the same thread, which
`std::mutex` leaves undefined: the thread goes no further.

### RebindNotifier, HyperVListener
`hyperv/rebind_notifier.cpp` and `hyperv/listener.cpp`. The notifier is the state and operators that
the loop of the listener and WMI use; `WordsSeen` keeps what `operator>>` does with a line that ends
in a space. The loop takes the first handle that is set, as `WSAWaitForMultipleEvents` does;
`ReadsNewId` and `ResetsEvent` are separate. Calls of WinSock that fail end the listener
(`CannotSelectFirst`, `CallFails`, `CannotSelect`). Ghosts: `unseen`, an id stored between those two;
`latest`, the machine to follow.

### ConfigFile
`ini_parse.cpp` line by line (`ReadLine`, `ReadPastEnd`, `StoreLast`), the legality checks of
`Application::Initialize` and the setup functions, and next to them the meaning of a file said
without the loop (`WellFormed`, `Meaning`). `sectionName` is as in the code: the empty name
(`EmptyName`) says that no section is open. A header `[]` sets it to that, and so ends a section and
begins none: a pair after it is refused, and neither the next header nor the end of the file stores
or compares anything. `Meaning` says the same of such a header, in terms of the lines.

### AcceptLoops
The accept loops of named pipes, Unix sockets and the emulated sockets, from the preparation to the
end of the thread. The last three are one loop. `signalled` is `waitHandle[1]`; for a pipe that was
connected before `ConnectNamedPipe` the code sets an event that was never created
(`SignalOfConnect`), and `early` remembers it. When the wait of that loop fails, the pipe is closed
and the loop goes on (`PipeWaitFails`). Nobody closes the socket of an emulated listener, so that the
system goes on to take connections for it after the loop has ended (`Answers`); they wait until the
process ends.

### Application
EXTENDS `ConfigFile` and `AcceptLoops`: `Run`, `RunStub`, `Cancel`, `ServiceControlHandler`,
`ReportStatus`. From the lines of the file over the launch of the threads to the last join and the
status a service reports. The dispatcher and the managers are here only by the moments they are
started and stopped; their own shutdown is in their modules. A file may configure listeners of
Pageant and Hyper-V, and is accepted or refused for them as in the code, but their threads are in
`PageantListener` and `HyperVListener`: `Launches` starts those of `LoopKinds`.

### Proof modules
`MessageDispatcher_proofs`, `ProxyManager_proofs`, `ForwardManager_proofs`, `HelperForward_proofs`,
`HelperSessions_proofs`, `PageantListener_proofs`, `HyperVListener_proofs` and `Application_proofs`
each extend the module they are named after; see "Proofs".

### MC modules
Each `MC` module defines the values of constants that a cfg cannot write, and symmetry where no
liveness property is checked with it.

## Runs

| run | what it shows | instance |
|---|---|---|
| `dispatcher` | types; one holder per accepted request; no lost wakeup; upstreams asked in order with the posted bytes; every step is one `UpstreamService` allows | 2 connections, 2 upstreams in either order or fewer, every kind of request |
| `dispatcher_live` | Stop returns; every accepted request is answered if the queue drains again and again or posting ceases | 3 connections, 1 upstream |
| `proxy` | types; one thing going on per context; replies only reach waiting connections; chunks of a reply line up; a connection reads again only after the whole reply | 2 contexts, 1 listener, pipes and sockets, 0 or 1 handshake exchange |
| `proxy_live` | a closed connection is dropped; the shutdown ends | 1 context, pipes, 0, 1 or 4 exchanges, replies of up to 3 chunks |
| `proxy_eof` | **violated**: with sockets a peer that closes in the middle of a body is never dropped | as above with sockets |
| `forward` | types; an OVERLAPPED and buffer serve one operation at a time; no packet for a freed context unless an end went away; every step is one `Relay` allows; the end of a stream is passed on while the other direction is in use; connections are released | 1 context, 1 listener, 2 bytes per end, 0, 1 or 4 exchanges |
| `helper_forward` | types; the same `Relay`; the child exits when both streams are over | 3 bytes per end, buffer and kernel hold 2 |
| `helper_sessions` | types; reference count, pid file, socket file agree with who is there; the master leaves with the last session and not before | 3 helpers, 1 kill, options `-c -d` or neither |
| `helper_listener` | **violated**: the handler of SIGCHLD returns once the dead children are reaped | 2 clients |
| `pageant` | types; each program gets the whole reply to its own request; requests return; the stop completes | 2 programs |
| `hyperv` | types; bound only to a machine of the user; follows the machine | 1 machine of the user, 1 of another, 2 WSL1 processes, one of them with a space at the end of its command line, 2 connections |
| `application` | types; the file is read as it is meant; connections are taken; a stop or a failed listener ends the program and the service reports it | 29 files, 8 of them with a header without a name, with and without final newline, up to 2 listeners, 2 clients |

Several properties are stated with an exception, because without it the code does not keep them and
no text of the repository promises it does. They say that the named cause is the *only* one:

| property | exception | where |
|---|---|---|
| `NoDangling` | an end went away: two operations fail, the first frees the context | `forwarding.cpp:103-121` |
| `EndIsTold`, `Released` | the threads raced over `contextState` | `forwarding.cpp:172` |
| `RequestReturns`, `StopCompletes` (pageant) | `msgMutex` locked twice; a cancel before the window exists posts no WM_CLOSE | `pageant/listener.cpp:223`, `:108` |
| `FollowsMachine` | an id that comes between `GetLastWslVmId` and `ResetEvent` | `hyperv/listener.cpp:236` |
| `OwnMachineOnly` | the command line that the bound id was learned from ends in one guid and a space | `rebind_notifier.cpp:90` |
| `ConnectionTaken` | a client of a pipe that connects before `ConnectNamedPipe` | `namedpipe/listener.cpp:129` |
| `RunsAsConfigured` | last section repeats a name; file ends in a header and a newline | `ini_parse.cpp:36-91` |
| `Ends` | the control handler reports after SERVICE_STOPPED | `service_support.cpp:169` |
| `RefcountExact`, `MasterExits`, `NoStaleFile`, `Reachable` | the ghosts of `HelperSessions` | `src/wsl2_helper/main.cpp:677`, `:303`, `:217` |

Bounds. Two envelopes give every interleaving of a post with a request in the queue and one in
process; a third is there where starvation at the bottom of the stack is the question. Two upstreams
are the fewest with a first and a later one, in both orders. `Remove` is not offered to the runs
because `HandleRemoveIdentity` is `HandleAddIdentity` word for word; the proofs cover it. Two
contexts are the fewest for two threads to have different ones, or the same. In `proxy` a buffer of
3 with a header of 2 makes a body of 2 fit one read, and a reply of 2 take two chunks; `Announced`
has the empty message, the limit and one past it. In `proxy_live` a body of 4 needs two reads, and a
reply of 6 with its header three chunks. Nothing else is bounded in these two: the state spaces are
finite because a connection has one request at a time.

In `forward` one context suffices, since contexts share nothing but the port thread, which is there,
and the listener thread makes two threads in one context; two bytes with a buffer of two give reads
of one and of both, and writes in one piece and in two. In `helper_forward` a third byte fills
buffer and kernel, so that a send blocks. Three helpers are a master, a session, and one that starts
or ends between their steps; one kill is enough for each of the exceptions to occur. Two programs ask
Pageant so that one finds `messageStatus` as the other left it. Two processes of the user that are
taken for machines make one follow the other. `MaxSent`, `MaxKills`, `MaxConnections` are the bounds that stand in guards.

Fairness. The dispatcher's worker is a thread that is scheduled (`WF` of its steps), and the owner
finishes a shutdown it has begun. Nothing obliges a connection to post. `WF` of the exchanges
assumes that an upstream answers or fails in finite time: the code sets no timeout, so this is an
assumption about the agents. In `ProxyManager` threads run; a completion port hands packets out in
order of arrival, hence `SF` of each `Dequeues(c)`, since the thread is in its wait only now and
then and another context's packet may be taken instead; an operation on a connection that the peer
closed completes. Peers are not obliged to send, read or close. `ForwardManager` assumes the same of
threads and kernel, with `WF` of `Dequeues(c)` because a context that is alone in the port is never
passed over. `HelperForward`: the process runs, and an end reads what is there for it (otherwise a
blocking send would rightly block). `HelperSessions`: some helper that can take a step takes one,
which is enough because each takes finitely many. `HelperListener`: the process runs; no client has
to leave. `PageantListener`: window thread, worker and main thread run, upstreams answer or fail.
`HyperVListener`: the loop runs and WMI reports. `Application`: main thread, control handler and
each listener thread run; no client has to connect and no failure has to happen. The loop of a named
pipe begins again when its wait fails, and would not see that it is cancelled if the wait failed each
time; `SF` of `EndsCancelled(l)` says that it does not.

`EveryRequestAnswered` has a premise, because without it the property is false of a stack. It is
stated on the runs of the code only: either the queue is found empty again and again, or posting
ceases.

### Findings
`proxy_eof`: `proxy.h:38` says "Any state can go `Destroyed` when exception occurred/connection
closes". In state ReadBody (`proxy.cpp:280-305`) a completed read of zero bytes leaves `ioNeedBytes`
as it was and starts the read again, which completes with zero bytes at once. The context stays in
the list and the port thread keeps turning. State ReadHeader is not affected (a short header
disposes), nor are pipes (the end is `ERROR_BROKEN_PIPE`).

`helper_listener`: `src/wsl2_helper/main.cpp:480` says "loop to reap all dead child process". The
loop (`:481`) ends only when `waitpid` returns -1, which means that there is no child at all. While
another child serves its client, `waitpid` with `WNOHANG` returns 0 and the loop goes on: the
handler turns on the main thread, and no connection is accepted until every client has left.

## Proofs

Every safety invariant, every action property and every refinement that a passing run checks is a
theorem, for every value of the constants that satisfies the assumptions of its component. The
assumptions say what kind of thing a constant is, or that a name for "nothing" is not also the name
of something; none bounds the number of connections, threads, processes, listeners or lines. The
proofs share a plan: an inductive invariant `IInv` (checked with TLC on the instance of the run
before it was proved), a lemma that it holds initially, one for each action or group of actions, and
the properties as consequences of it.

### MessageDispatcher_proofs

Assumed: `OfferedAssumption` (what connections may post is a request the code knows) and
`NoneAssumption`. Any number of connections and upstreams, any configuration order.

| theorem | property of the runs | says |
|---|---|---|
| `Invariance` | | `IInv` holds in every reachable state |
| `TypeCorrect` | `TypeOK` | types; at most one reply is owed per connection |
| `RequestsHaveOneHolder` | `OneHolder` | an accepted request is in the queue or with the worker, once |
| `WakeupsAreNotLost` | `NoLostWakeup` | the worker sleeps only while there is nothing to do |
| `UpstreamsAskedAsPosted` | `AskedAsPosted` | each upstream is asked in turn, with the bytes posted |
| `Implements` | `ImplementsService` | every step is one that `UpstreamService` allows, or changes nothing there |

`OneHolder` and `AskedAsPosted` are not inductive. `IInv` adds `Flow`, where worker and owner stand
relative to each other (a request is in process exactly while the worker is between pop and reply;
no worker before Start or after the join), and `Contents`: what waits in the queue still contains
what was posted (the reply is built in the same envelope, so this has to be carried from the post to
the first exchange), and the loop index counts the exchanges made. The proof has a lemma per action;
the lemmas before them say what push_back and pop_back do to the set of queued envelopes.

The refinement needs more: that the reply given is one of the `Summaries` of what *all* upstreams
asked have said. The worker does not look at that; it keeps `answers`, or nothing at all, and leaves
its loop at the first upstream that settles the request. `SInv` therefore says that no upstream is
configured twice (`Distinct`), so that what each said is a function of the upstream; that while
upstreams are asked nobody has settled the request and `answers` has those that answered in
configuration order (`Underway`); and that a reply that waits for its callback is justified by what
was heard (`Justified`). `HeardMore` is the lemma that ties the two sides: one exchange more is one
upstream heard more. `UpstreamService!Spec` has no fairness, so that this is the whole refinement.

### ProxyManager_proofs

Assumed: `SizeAssumption` (the header fits the buffer with room to spare; a reply is not empty) and
`ThreadAssumption`. Any number of connections and listeners, any sizes, any handshake length, pipes
and sockets.

| theorem | property of the runs | says |
|---|---|---|
| `Invariance` | | `IInv` holds in every reachable state |
| `TypeCorrect` | `TypeOK` | types; `ioNeedBytes` never underflows |
| `ContextsHaveOnePlace` | `OnePlace` | a connection in the list has one thing going on, a freed one nothing |
| `RepliesFindTheirConnection` | `RepliesAreAwaited` | a message is with the dispatcher exactly while its connection waits |
| `RepliesAreCopiedInOrder` | `ChunksLineUp` | each chunk starts where the last one ended, within the reply |
| `RepliesAreWrittenWhole` | `RepliesAreWhole` | back to reading only after the last byte |

`OnePlace` says how many things go on but not which, so it cannot be preserved by itself: that
`Dispose` cancels nothing, for one, depends on the thread that runs it being the one thing. `IInv`
says it per thread and per context. `Standing(t)`: the thread has its context for itself, and the
state of the context fits where the thread stands. `Resting(c)`: a listed context has a holder, and
an operation or a packet has a size that fits what is left of the transfer (`Fits`). `Alone`: no two
threads have the same context. Since a step changes one context and the thread that has it, lemma
`Local` reduces a step to `Standing` of that thread and `Resting` of that context; each action then
has to establish these two only. A corollary is that the "potential data race" of `Dispose` does not
occur, and that no packet with `ERROR_OPERATION_ABORTED` is ever produced.

### ForwardManager_proofs

Assumed: `ForwardAssumption` (a buffer holds a byte, the port thread is no listener, `None` is no
connection). Any number of connections and listeners, any sizes, any handshake length. `MaxSent`, the
bound on what a program sends, is any number.

| theorem | property of the runs | says |
|---|---|---|
| `Invariance` | | `IInv` holds in every reachable state |
| `TypesHold` | `TypeOK` | types; what is left to write is never negative, however writes are split |
| `OneAtATime` | `OneOperation` | OVERLAPPED and buffer of a direction serve one operation, packet or thread |
| `NeverDangling` | `NoDangling` | no packet for a freed connection, unless an end went away |
| `Relays` | `ImplementsRelay` | every step is one that `Relay` allows |

Two operations are outstanding in a connection and two threads can be in it, so that the argument of
`ProxyManager` has to be made per direction. A connection is `Sound` if a direction has one bearer at
a time, namely an operation (`Course`), a packet (`Queued`) or a thread that works on it (`Staffed`);
if the bearer knows how far the stream has come (`Flow`: what was received, what the operation
carries and what is left in the buffer make up what was taken from the source); and if a connection
without bearers is at its end (`Ending`). `ThreadIsLocal` reduces a step to the connection it is
about, and `ForwardStep` collects what the cases of `DoForward` have in common. `Races` is an action
like the others: a connection that was raced over is not followed further, but the other
connections, and the refinement, have to hold through it.

### HelperForward_proofs

Assumed: `HelperForwardAssumption` (buffer and kernel hold at least a byte).

| theorem | property of the runs | says |
|---|---|---|
| `Invariance` | | `IInv` holds in every reachable state |
| `TypesHold` | `TypeOK` | types; `SendBuffer` stays within its buffer |
| `Relays` | `ImplementsRelay` | every step is one that `Relay` allows |

`Flow` says that what was taken from an end is with its peer up to the rest of `ioBuffer`, and
`Places` which ends were told of the end of a stream where the process stands. With `Relays` of
`ForwardManager_proofs`, the Windows program and the helper keep the same promise to both ends.

### HelperSessions_proofs

Assumed: `OptionsAssumption`, `NoneAssumption`, `MaxKillsAssumption`. Any set of processes, also an
infinite one: that those which hold a master are finitely many is part of the invariant.

| theorem | property of the runs | says |
|---|---|---|
| `Invariance` | | `IInv` holds in every reachable state |
| `TypesHold` | `TypeOK` | types; the count does not underflow |
| `Counts` | `RefcountExact` | the count and the signals under way are the sessions that hold the master |
| `NoneLeftBehind` | `NoStaleFile` | a socket file has a process that will delete it, or that had no chance to |
| `LeadsToMaster` | `Reachable` | the socket file leads to the master that listens, unless two processes became masters |
| `NotBeforeTheLast` | `LastReleaseOnly` | a master leaves with its last session and not before (an action property) |

`RefcountExact` alone says nothing of who may send a signal. `Shape` ties what a process has (count,
pending signals, monitor, the pid it read) to where it stands, so that a signal only goes to a
process that wrote the pid file; `Files` says to whom the two files lead; `Single` that there is one
process on the way to listen, unless a second one became master while the pid file was read but not
yet written; `Exact` is `RefcountExact` together with the finiteness of the holders, which the steps
of `Cardinality` need.

### PageantListener_proofs

Assumed: `NoneAssumption`. Any set of callers.

| theorem | property of the runs | says |
|---|---|---|
| `Invariance` | | `IInv` holds in every reachable state |
| `TypesHold` | `TypeOK` | types; the dispatcher has no request but the one the window thread waits with |
| `AnswersMatch` | `AnswerMatches` | a caller that is told success has the whole reply to its own request |

The window thread reads `messageStatus` after it left the mutex. That it reads what belongs to its
own request (`Settled`) rests on where the one request can be (`Handled`), and that on the order of
the shutdown (`StopOrder`), in which the dispatcher is stopped before the listener is cancelled.

### HyperVListener_proofs

Assumed: what the `ASSUME`s of `RebindNotifier` and `HyperVListener` say (the null id is the id of no
machine, an invalid socket is bound to none, a command line is a sequence of words).

| theorem | property of the runs | says |
|---|---|---|
| `Invariance` | | `IInv` holds in every reachable state |
| `TypesHold` | `TypeOK` | types; the socket is bound to the id the listener keeps |
| `BoundToOwn` | `OwnMachineOnly` | bound to a machine of the user only, unless the command line the id was learned from ends in one guid and a space |

The listener sees ids, not processes. The invariant carries each id back to the command line it was
read from (`Known`, for the id in the notifier, the one in the listener and the one it has just been handed), which
needs lemmas about the words that `WordsSeen` yields of a command line of any length.

### Application_proofs

Assumed: `FilesAssumption` (a file is a sequence of lines of the four kinds). Files of any length, any
number of listeners and of programs that connect.

| theorem | property of the runs | says |
|---|---|---|
| `Invariance` | | `IInv` holds in every reachable state |
| `TypesHold` | `TypeOK` | types; a connection waits with one listener, a pipe has one, and a set event has a connection |
| `MeaningKept` | `RunsAsConfigured` | files are accepted and refused as they should be, and read as they are meant |

`ParseIniFile` is a loop, so this is induction over the lines of a file, done as an invariant of the
loop. `HasRead(lines, n, s)` says what the state `s` of the parser has to do with the first `n`
lines: `OpenAt`, in which `sectionName` is the name of the last header, empty or not, its section
holds the first values of its keys, those before it are `Stored`, and `line` is empty only if nothing
but skipped lines followed the header, which is what the turn after a final newline depends on
(`ReadPastEnd`). A state that is no longer `good` means that the file is not well formed. `ReadsOn` is
a turn of the loop, `ReadsToTheEnd` what follows it, `StoredIsMeaning` says that what is stored at the
end is the meaning of the file, and `Parsed` and `Configured` carry the result to the moment at
which `Initialize` accepts or refuses it. For the listeners, `Turn(l)` says what a step that concerns
one of them may do, and `TurnKeeps` that it keeps what is said of all.

### What is left to TLC

The liveness properties rest on fairness and `ENABLED`, which are out of the prover's reach:
`StopCompletes` and `EveryRequestAnswered` of the dispatcher, `ClosedIsDropped`, `ShutdownEnds`,
`EndIsTold`, `Released`, `ProcessExits`, `MasterExits`, `RequestReturns` and `StopCompletes` of the
Pageant listener, `FollowsMachine`, `ConnectionTaken` and `Ends`. The two runs that expect a
violation are about such properties too. Nothing else is only model-checked.

## Not modelled

- Command line, Linux permissions of files, log and utilities: i/o and formatting without state that
  a property could tell apart.
- Upstream clients and connectors are partly modelled, by what an exchange can return and by the
  connection to a forward target. Their own i/o is a blocking sequence on one thread; it has no
  timeout, and no model claims one.
- The bytes of the codec: of a message the modules know its kind, and of a reply whether it parses.
- Service registration and installation; of `ReportStatus` only the state it reports, not its
  checkpoints.
- COM set-up of the notifier, which fails or not before anything else exists; parsing of port
  numbers and service ids.
- Handles are not numbered, so that `CloseIoHandle` (`connection_manager.cpp:27`), whose case for
  files falls through to `closesocket`, is not covered: the second close shows only when the number
  was given to something else in between.
- A client configured with the path of a listener of the same program: the two ends of such a loop
  are in two modules that are not composed.
- `CreateIoCompletionPort` failing in `DelegateConnection` or `Start` changes no state of a
  connection.

## Plan

The modules, the runs and the proofs above are done. What could still be added:

1. The safety part of the properties that are left to TLC, as theorems: for a liveness property, the
   step invariants its argument rests on (what a connection that is closed, or a process whose
   streams are over, waits for).
2. A module of handle numbers, for `CloseIoHandle` and for a descriptor that is closed by one thread
   and reused by another.
