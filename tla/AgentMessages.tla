--------------------------- MODULE AgentMessages ---------------------------
(***************************************************************************)
(* The requests and replies of the ssh-agent protocol, as far as the       *)
(* dispatcher tells them apart (src/protocol/protocol_ssh_agent.h).        *)
(***************************************************************************)
EXTENDS Sequences

CONSTANTS
  Client,       \* the upstream agents that a configuration may name
  None          \* "nothing yet", different from every other value

\* The kinds of request.  "Empty" is a message of length zero, "Unsupported"
\* every message type the dispatcher does not know.
Request == {"Add", "Remove", "RemoveAll", "RequestIdentities", "Sign",
            "Unsupported", "Empty"}

\* What an upstream can do with a request.  "Down" is a failed exchange,
\* "Garbled" an identities answer that does not parse, and "Failure" every
\* other reply, the empty one included.
Said == {"Down", "Success", "Signed", "Identities", "Garbled", "Failure"}

\* The requests that one success settles, with the success they look for.
Wanted == [k \in {"Add", "Remove", "Sign"} |->
             IF k = "Sign" THEN "Signed" ELSE "Success"]

\* The contents of an envelope.  A reply names the upstreams it was made from:
\* the one that is relayed, or those whose identities are merged.
Message == [type: Request \cup {"Success", "Signed", "Identities", "Failure"},
            from: Seq(Client)]
Bare(t) == [type |-> t, from |-> << >>]
=============================================================================
