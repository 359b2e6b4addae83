--------------------------- MODULE MCApplication ----------------------------
(***************************************************************************)
(* The instance of Application that TLC checks: files that start one or    *)
(* two listeners, and files that are refused or that the parser takes in   *)
(* its own way.                                                            *)
(***************************************************************************)
EXTENDS Application

ASection(name, type, role, more) ==
  <<Header(name), Pair("type", type), Pair("role", role)>> \o more

AClient == ASection(4, "pageant", "client", <<>>)
APipe == ASection(1, "namedpipe", "listener", <<Pair("path", "p")>>)
ASocket(type) == ASection(3, type, "listener", <<Pair("path", "p")>>)
AForward(type) ==
  ASection(3, type, "listener", <<Pair("path", "p"), Pair("forward-socket-path", "q")>>)

MCLines == {
  APipe \o ASocket("unix") \o AClient,
  APipe \o AForward("assuan_emu") \o AClient,
  <<Skipped>> \o AForward("cygwin") \o <<Pair("path", "r")>> \o AClient \o <<Skipped>>,
  ASocket("unix") \o <<Pair("type", "cygwin")>> \o AClient,
  APipe \o ASection(3, "hyperv", "listener", <<>>) \o AClient,
  \* no client; no path; no type; a pipe cannot be forwarded; roles and types that do not go
  ASocket("unix"),
  ASection(3, "unix", "listener", <<>>) \o AClient,
  <<Header(3), Pair("role", "listener")>> \o AClient,
  ASection(1, "namedpipe", "listener", <<Pair("path", "p"), Pair("forward-socket-path", "q")>>)
    \o AClient,
  ASection(3, "unix", "client", <<Pair("path", "p")>>) \o AClient,
  \* general settings
  <<Header(General), Pair("loglevel", "debug")>> \o AClient,
  <<Header(General), Pair("loglevel", "loud")>> \o AClient,
  AClient \o <<Header(General)>>,
  AClient \o <<Header(General), Skipped>>,
  \* metadata
  ASocket("unix") \o <<Pair("write-lxss-metadata", "true"), Pair("metadata", "word")>> \o AClient,
  \* the same name twice, and malformed files
  AClient \o ASocket("unix") \o AClient,
  AClient \o AClient \o <<Header(General), Pair("loglevel", "info")>>,
  AClient \o <<Malformed>>,
  \* a header without a name: at the end, between sections, before a pair
  AClient \o <<Header(EmptyName)>>,
  AClient \o <<Header(EmptyName), Skipped>>,
  APipe \o <<Header(EmptyName), Skipped, Header(EmptyName)>> \o AClient,
  <<Header(EmptyName)>> \o AClient,
  AClient \o <<Header(EmptyName)>> \o AClient,
  AClient \o <<Header(EmptyName), Pair("type", "unix")>>,
  <<Header(EmptyName), Pair("type", "unix")>> \o AClient,
  <<Header(EmptyName)>>,
  <<Pair("type", "unix")>> \o AClient,
  <<Skipped>>,
  <<>> }

MCFiles == {[lines |-> s, newline |-> b] : s \in MCLines, b \in BOOLEAN}
=============================================================================
