------------------------------- MODULE Relay -------------------------------
(***************************************************************************)
(* What a relay between two ends promises, whatever it is built of: each   *)
(* end receives what the other one sent, in order and nothing else, and is *)
(* told that the stream is over only when it has everything, or its peer   *)
(* went away for good.  A connection is given up only when an end went     *)
(* away, or when the other end could not be reached at all.                *)
(*                                                                         *)
(* The k-th byte that an end sends is the number k.                        *)
(***************************************************************************)
EXTENDS Naturals, Sequences

CONSTANT Connection

End == {0, 1}
PeerOf(i) == 1 - i

VARIABLES
  link,      \* "Connecting" until end 1 was reached, "Open", "Closed" or "Broken"
  sent,      \* sent[c][i]: how many bytes end i has sent
  received,  \* received[c][i]: the bytes that end i was given
  ended,     \* ended[c][i]: end i will send no more
  gone,      \* gone[c][i]: end i is not there any more
  told       \* told[c][i]: end i was told that its peer's stream is over

vars == <<link, sent, received, ended, gone, told>>

Init ==
  /\ link = [c \in Connection |-> "Connecting"]
  /\ sent = [c \in Connection |-> [i \in End |-> 0]]
  /\ received = [c \in Connection |-> [i \in End |-> << >>]]
  /\ ended = [c \in Connection |-> [i \in End |-> FALSE]]
  /\ gone = [c \in Connection |-> [i \in End |-> FALSE]]
  /\ told = [c \in Connection |-> [i \in End |-> FALSE]]

FirstBytes(n) == [k \in 1..n |-> k]

----------------------------------------------------------------------------
\* The ends.

Send(c, i) ==
  /\ ~ended[c][i]
  /\ sent' = [sent EXCEPT ![c][i] = @ + 1]
  /\ UNCHANGED <<link, received, ended, gone, told>>

HangUp(c, i) ==
  /\ ended' = [ended EXCEPT ![c][i] = TRUE]
  /\ UNCHANGED <<link, sent, received, gone, told>>

Leave(c, i) ==
  /\ ended' = [ended EXCEPT ![c][i] = TRUE]
  /\ gone' = [gone EXCEPT ![c][i] = TRUE]
  /\ UNCHANGED <<link, sent, received, told>>

----------------------------------------------------------------------------
\* The relay.

Connect(c) ==
  /\ link[c] = "Connecting"
  /\ link' = [link EXCEPT ![c] = "Open"]
  /\ UNCHANGED <<sent, received, ended, gone, told>>

Deliver(c, i) ==
  /\ link[c] = "Open"
  /\ \E n \in Len(received[c][i]) + 1 .. sent[c][PeerOf(i)] :
       received' = [received EXCEPT ![c][i] = FirstBytes(n)]
  /\ UNCHANGED <<link, sent, ended, gone, told>>

TellEnd(c, i) ==
  /\ link[c] = "Open"
  /\ ended[c][PeerOf(i)]
  /\ received[c][i] = FirstBytes(sent[c][PeerOf(i)]) \/ gone[c][PeerOf(i)]
  /\ told' = [told EXCEPT ![c][i] = TRUE]
  /\ UNCHANGED <<link, sent, received, ended, gone>>

Close(c) ==
  /\ link[c] = "Open"
  /\ \A i \in End : told[c][i]
  /\ link' = [link EXCEPT ![c] = "Closed"]
  /\ UNCHANGED <<sent, received, ended, gone, told>>

Break(c) ==
  /\ \/ link[c] = "Connecting"
     \/ link[c] = "Open" /\ \E i \in End : gone[c][i]
  /\ link' = [link EXCEPT ![c] = "Broken"]
  /\ UNCHANGED <<sent, received, ended, gone, told>>

Next == \E c \in Connection :
  \/ Connect(c) \/ Close(c) \/ Break(c)
  \/ \E i \in End : Send(c, i) \/ HangUp(c, i) \/ Leave(c, i) \/ Deliver(c, i) \/ TellEnd(c, i)

Spec == Init /\ [][Next]_vars
=============================================================================
