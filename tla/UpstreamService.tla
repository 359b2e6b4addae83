-------------------------- MODULE UpstreamService --------------------------
(***************************************************************************)
(* What the message dispatcher promises to the connections that post       *)
(* requests to it, without saying how: no queue, no thread, no lock.       *)
(* A request that was accepted is answered once.  The answer is a summary  *)
(* of what the upstream agents said about that request, whatever the order *)
(* in which they were consulted.                                           *)
(*                                                                         *)
(* The README of the program puts it as: "request all configured upstream  *)
(* agents ... respectively until succeeded or get enough infomation, then  *)
(* assemble replies into one reply".                                       *)
(***************************************************************************)
EXTENDS AgentMessages, Naturals

CONSTANT
  Envelope      \* the message slots, one per connection

VARIABLES
  upstreams,    \* the configured upstreams, in configuration order
  request,      \* request[e]: the accepted request that is still unanswered
  heard,        \* heard[e][c]: what c said about the request of e
  result,       \* result[e]: the answer to the last request of e
  closed        \* TRUE once the service was told to stop

vars == <<upstreams, request, heard, result, closed>>

Silence == [c \in Client |-> None]
Members == {upstreams[i] : i \in 1 .. Len(upstreams)}

\* Nothing more has to be heard to answer a request k about which h was said.
Settled(k, h) ==
  CASE k \in DOMAIN Wanted ->
         \/ \E c \in Members : h[c] = Wanted[k]
         \/ \A c \in Members : h[c] # None
    [] k \in {"RemoveAll", "RequestIdentities"} -> \A c \in Members : h[c] # None
    [] OTHER -> TRUE

\* The identities of those that answered with some, in configuration order.
Merged(h) ==
  {f \in UNION {[1 .. n -> Members] : n \in 0 .. Len(upstreams)} :
     /\ \A c \in Members : h[c] = "Identities" <=> \E i \in DOMAIN f : f[i] = c
     /\ \A i, j \in DOMAIN f : \A k, l \in 1 .. Len(upstreams) :
          i < j /\ f[i] = upstreams[k] /\ f[j] = upstreams[l] => k < l}

\* The answers that h justifies: there is one, as the first success settles a request that
\* wants one, and an order has one list.
Summaries(k, h) ==
  CASE k \in DOMAIN Wanted /\ \E c \in Members : h[c] = Wanted[k] ->
         {[type |-> Wanted[k], from |-> << c >>] : c \in {d \in Members : h[d] = Wanted[k]}}
    [] k = "RemoveAll" -> {Bare("Success")}
    [] k = "RequestIdentities" -> {[type |-> "Identities", from |-> f] : f \in Merged(h)}
    [] OTHER -> {Bare("Failure")}

Init ==
  /\ upstreams = << >>
  /\ request = [e \in Envelope |-> None]
  /\ heard = [e \in Envelope |-> Silence]
  /\ result = [e \in Envelope |-> None]
  /\ closed = FALSE

Enlist(c) ==
  /\ ~closed
  /\ \A e \in Envelope : request[e] = None /\ result[e] = None
  /\ c \notin Members
  /\ upstreams' = Append(upstreams, c)
  /\ UNCHANGED <<request, heard, result, closed>>

Accept(e, k) ==
  /\ ~closed
  /\ request[e] = None
  /\ request' = [request EXCEPT ![e] = k]
  /\ result' = [result EXCEPT ![e] = None]
  /\ UNCHANGED <<upstreams, heard, closed>>

TurnAway(e) ==
  /\ closed
  /\ request[e] = None
  /\ result' = [result EXCEPT ![e] = Bare("Refused")]
  /\ UNCHANGED <<upstreams, request, heard, closed>>

Hear(e, c, s) ==
  /\ request[e] # None
  /\ ~Settled(request[e], heard[e])
  /\ c \in Members
  /\ heard[e][c] = None
  /\ heard' = [heard EXCEPT ![e][c] = s]
  /\ UNCHANGED <<upstreams, request, result, closed>>

Deliver(e, r) ==
  /\ request[e] # None
  /\ request' = [request EXCEPT ![e] = None]
  /\ heard' = [heard EXCEPT ![e] = Silence]
  /\ result' = [result EXCEPT ![e] = r]
  /\ UNCHANGED <<upstreams, closed>>

Answer(e) ==
  /\ request[e] \notin {None, "Empty"}
  /\ Settled(request[e], heard[e])
  /\ \E r \in Summaries(request[e], heard[e]) : Deliver(e, r)

\* Only an empty message, or the end of the service, leaves a request without
\* an answer of its own; a request some upstream has heard of is not dropped.
Refuse(e) ==
  /\ request[e] = "Empty" \/ (closed /\ heard[e] = Silence)
  /\ Deliver(e, Bare("Refused"))

Close ==
  /\ closed' = TRUE
  /\ UNCHANGED <<upstreams, request, heard, result>>

Next ==
  \/ \E c \in Client : Enlist(c)
  \/ \E e \in Envelope, k \in Request : Accept(e, k)
  \/ \E e \in Envelope : TurnAway(e)
  \/ \E e \in Envelope, c \in Client, s \in Said : Hear(e, c, s)
  \/ \E e \in Envelope : Answer(e) \/ Refuse(e)
  \/ Close

Spec == Init /\ [][Next]_vars
=============================================================================
