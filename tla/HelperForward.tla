--------------------------- MODULE HelperForward ---------------------------
(***************************************************************************)
(* A child process of the WSL2 helper (wsl2_helper/main.cpp): it connects  *)
(* to the emulated socket of the agent (HandleConnection) and forwards in  *)
(* both directions (DoForward), with one buffer and blocking sends, until  *)
(* one stream ends and the other one is carried to its end                 *)
(* (GracefullyHup).                                                        *)
(*                                                                         *)
(* End 0 is the client (fd), end 1 the agent (remoteSocket).  The k-th     *)
(* byte an end sends is the number k.                                      *)
(***************************************************************************)
EXTENDS Naturals, Sequences

CONSTANTS
  MAX_BUFFER_SIZE,
  Capacity,     \* the bytes that the kernel holds for an end that does not read
  MaxSent       \* bound: the bytes that an end sends

ASSUME HelperForwardAssumption ==
  /\ MAX_BUFFER_SIZE \in Nat \ {0}
  /\ Capacity \in Nat \ {0}
  /\ MaxSent \in Nat

End == {0, 1}
PeerOf(i) == 1 - i

VARIABLES
  phase,      \* where the process stands
  index,      \* the loop variable of DoForward, or the argument of GracefullyHup
  revents,    \* what poll reported
  source,     \* the end that ioBuffer was read from
  ioBuffer,
  sentBytes,  \* of SendBuffer
  sending,    \* the process is in SendBuffer
  \* the ends
  sent, taken,          \* bytes that an end sent, and how many were read from it
  received, consumed,   \* bytes that were sent to an end, and how many it read
  ended, gone, told

processVars == <<phase, index, revents, source, ioBuffer, sentBytes, sending>>
endVars == <<sent, taken, received, consumed, ended, gone, told>>
vars == <<processVars, endVars>>

Init ==
  /\ phase = "Connecting"
  /\ index = 0
  /\ revents = [i \in End |-> "none"]
  /\ source = 0
  /\ ioBuffer = << >>
  /\ sentBytes = 0
  /\ sending = FALSE
  /\ sent = [i \in End |-> 0]
  /\ taken = [i \in End |-> 0]
  /\ received = [i \in End |-> << >>]
  /\ consumed = [i \in End |-> 0]
  /\ ended = [i \in End |-> FALSE]
  /\ gone = [i \in End |-> FALSE]
  /\ told = [i \in End |-> FALSE]

Working(p) == phase = p /\ ~sending

Exits ==
  /\ phase' = "Exited"
  /\ UNCHANGED <<index, revents, source, ioBuffer, sentBytes>>

----------------------------------------------------------------------------
\* HandleConnection: the socket file is read, the agent connected and sent the nonce.

Connects ==
  /\ Working("Connecting")
  /\ phase' = "Poll"
  /\ UNCHANGED <<index, revents, source, ioBuffer, sentBytes, sending, endVars>>

CannotConnect ==
  /\ Working("Connecting")
  /\ Exits
  /\ UNCHANGED <<sending, endVars>>

----------------------------------------------------------------------------
\* DoForward.

\* What poll may say of an end.
Events(i) ==
  IF gone[i] THEN {"in", "err", "hup"}
  ELSE IF taken[i] < sent[i] \/ ended[i] THEN {"in"}
  ELSE {"none"}

Polls ==
  /\ Working("Poll")
  /\ revents' \in [End -> {"none", "in", "err", "hup"}]
  /\ \A i \in End : revents'[i] \in Events(i)
  /\ \E i \in End : revents'[i] # "none"
  /\ phase' = "Handle"
  /\ index' = 0
  /\ UNCHANGED <<source, ioBuffer, sentBytes, sending, endVars>>

\* the next turn of the for loop, or of the while loop
NextTurn ==
  IF index = 0
    THEN index' = 1 /\ UNCHANGED phase
    ELSE index' = 0 /\ phase' = "Poll"

NothingToHandle ==
  /\ Working("Handle")
  /\ revents[index] = "none"
  /\ NextTurn
  /\ UNCHANGED <<revents, source, ioBuffer, sentBytes, sending, endVars>>

\* POLLERR
FindsError ==
  /\ Working("Handle")
  /\ revents[index] = "err"
  /\ Exits
  /\ UNCHANGED <<sending, endVars>>

\* recv brings between one byte and a buffer, and SendBuffer begins
Receives(i) ==
  /\ taken[i] < sent[i]
  /\ \E n \in 1..MAX_BUFFER_SIZE :
       /\ taken[i] + n <= sent[i]
       /\ taken' = [taken EXCEPT ![i] = @ + n]
       /\ ioBuffer' = [k \in 1..n |-> taken[i] + k]
  /\ source' = i
  /\ sentBytes' = 0
  /\ sending' = TRUE
  /\ UNCHANGED <<revents, sent, received, consumed, ended, gone, told>>

\* recv fails, or says that the stream is over
StreamOver(i) == gone[i] \/ (ended[i] /\ taken[i] = sent[i])

Forwards ==
  /\ Working("Handle")
  /\ revents[index] = "in"
  /\ Receives(index)
  /\ UNCHANGED <<phase, index>>

ReceiveFails ==
  /\ Working("Handle")
  /\ revents[index] = "in"
  /\ gone[index]
  /\ Exits
  /\ UNCHANGED <<sending, endVars>>

\* no bytes, or POLLHUP: GracefullyHup(fdList, index)
HangsUp ==
  /\ Working("Handle")
  /\ \/ revents[index] = "in" /\ StreamOver(index)
     \/ revents[index] = "hup"
  /\ phase' = "Drain"
  /\ UNCHANGED <<index, revents, source, ioBuffer, sentBytes, sending, endVars>>

----------------------------------------------------------------------------
\* SendBuffer, to the peer of the end that ioBuffer came from.

\* Mutant: one more is counted.
OneTooMany(n) == sentBytes + n + 1

\* sentBytes += r
Advance(n) == sentBytes + n

SendsSome ==
  /\ sending
  /\ sentBytes < Len(ioBuffer)
  /\ LET i == PeerOf(source)
     IN  \E n \in 1..Len(ioBuffer) - sentBytes :
           /\ Len(received[i]) + n <= consumed[i] + Capacity \/ gone[i]
           /\ received' = [received EXCEPT ![i] = @ \o SubSeq(ioBuffer, sentBytes + 1, sentBytes + n)]
           /\ sentBytes' = Advance(n)
  /\ UNCHANGED <<phase, index, revents, source, ioBuffer, sending,
                 sent, taken, consumed, ended, gone, told>>

\* DoForward returns, and so does GracefullyHup.
SendFails ==
  /\ sending
  /\ sentBytes < Len(ioBuffer)
  /\ gone[PeerOf(source)]
  /\ sending' = FALSE
  /\ Exits
  /\ UNCHANGED endVars

SendDone ==
  /\ sending
  /\ sentBytes = Len(ioBuffer)
  /\ sending' = FALSE
  /\ IF phase = "Handle" THEN NextTurn ELSE UNCHANGED <<phase, index>>
  /\ UNCHANGED <<revents, source, ioBuffer, sentBytes, endVars>>

----------------------------------------------------------------------------
\* GracefullyHup: what is left of the stream that ended, then all of the other one.

Drains ==
  /\ Working("Drain")
  /\ Receives(index)
  /\ UNCHANGED <<phase, index>>

\* Mutant: the stream of the other end is not waited for.
LeavesTheRest == "Exited"

\* Mutant: the process returns to DoForward.
BackToPoll == "Poll"

CarriesOn == "Reverse"

\* shutdown(fdList[i].fd, SHUT_RD), shutdown(fdList[1 - i].fd, SHUT_WR)
ShutsDown(i) == told' = [told EXCEPT ![PeerOf(i)] = TRUE]

Drained ==
  /\ Working("Drain")
  /\ StreamOver(index)
  /\ ShutsDown(index)
  /\ phase' = CarriesOn
  /\ UNCHANGED <<index, revents, source, ioBuffer, sentBytes, sending,
                 sent, taken, received, consumed, ended, gone>>

ForwardsRest ==
  /\ Working("Reverse")
  /\ Receives(PeerOf(index))
  /\ UNCHANGED <<phase, index>>

RestForwarded ==
  /\ Working("Reverse")
  /\ StreamOver(PeerOf(index))
  /\ ShutsDown(PeerOf(index))
  /\ phase' = "Closing"
  /\ UNCHANGED <<index, revents, source, ioBuffer, sentBytes, sending,
                 sent, taken, received, consumed, ended, gone>>

Closes ==
  /\ Working("Closing")
  /\ Exits
  /\ UNCHANGED <<sending, endVars>>

Process ==
  \/ Connects \/ CannotConnect
  \/ Polls \/ NothingToHandle \/ FindsError \/ Forwards \/ ReceiveFails \/ HangsUp
  \/ SendsSome \/ SendFails \/ SendDone
  \/ Drains \/ Drained \/ ForwardsRest \/ RestForwarded \/ Closes

----------------------------------------------------------------------------
\* The ends.  The agent is there from the moment the process connected to it.

Present(i) == ~gone[i] /\ (i = 1 => phase # "Connecting")

Sends(i) ==
  /\ Present(i) /\ ~ended[i]
  /\ sent[i] < MaxSent
  /\ sent[i] < taken[i] + Capacity
  /\ sent' = [sent EXCEPT ![i] = @ + 1]
  /\ UNCHANGED <<processVars, taken, received, consumed, ended, gone, told>>

Consumes(i) ==
  /\ Present(i)
  /\ consumed[i] < Len(received[i])
  /\ consumed' = [consumed EXCEPT ![i] = @ + 1]
  /\ UNCHANGED <<processVars, sent, taken, received, ended, gone, told>>

Ends(i) ==
  /\ Present(i) /\ ~ended[i]
  /\ ended' = [ended EXCEPT ![i] = TRUE]
  /\ UNCHANGED <<processVars, sent, taken, received, consumed, gone, told>>

Leaves(i) ==
  /\ Present(i)
  /\ ended' = [ended EXCEPT ![i] = TRUE]
  /\ gone' = [gone EXCEPT ![i] = TRUE]
  /\ UNCHANGED <<processVars, sent, taken, received, consumed, told>>

Next ==
  \/ Process
  \/ \E i \in End : Sends(i) \/ Consumes(i) \/ Ends(i) \/ Leaves(i)

\* The process runs; an end reads what is there for it, whatever else it does.
Fairness == WF_vars(Process) /\ \A i \in End : WF_vars(Consumes(i))

Spec == Init /\ [][Next]_vars /\ Fairness

----------------------------------------------------------------------------
TypeOK ==
  /\ phase \in {"Connecting", "Poll", "Handle", "Drain", "Reverse", "Closing", "Exited"}
  /\ index \in End
  /\ revents \in [End -> {"none", "in", "err", "hup"}]
  /\ source \in End
  /\ ioBuffer \in Seq(Nat)
  /\ sentBytes \in 0..Len(ioBuffer)
  /\ sending \in BOOLEAN
  /\ sent \in [End -> 0..MaxSent]
  /\ taken \in [End -> Nat]
  /\ received \in [End -> Seq(Nat)]
  /\ consumed \in [End -> Nat]
  /\ ended \in [End -> BOOLEAN]
  /\ gone \in [End -> BOOLEAN]
  /\ told \in [End -> BOOLEAN]

\* The process is a relay: the order of the bytes, the moment an end is told that the
\* stream is over, and giving up only when an end is gone (main.cpp:410-471, 523-543).
Link ==
  IF phase = "Connecting" THEN "Connecting"
  ELSE IF phase # "Exited" THEN "Open"
  ELSE IF \A i \in End : told[i] THEN "Closed" ELSE "Broken"

Theirs(f) == [c \in {"child"} |-> f]

R == INSTANCE Relay WITH
  Connection <- {"child"}, link <- Theirs(Link),
  sent <- Theirs(sent), received <- Theirs(received),
  ended <- Theirs(ended), gone <- Theirs(gone), told <- Theirs(told)
ImplementsRelay == R!Spec

\* When both streams are over the process exits, so that its parent can reap it.
ProcessExits == ended[0] /\ ended[1] ~> phase = "Exited"
=============================================================================
