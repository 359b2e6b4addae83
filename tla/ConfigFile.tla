----------------------------- MODULE ConfigFile -----------------------------
(***************************************************************************)
(* The configuration file: what one turn of the loop of ParseIniFile       *)
(* (ini_parse.cpp) does with a line, and what Application::Initialize      *)
(* makes of the sections (application.cpp).  A name is a number, 0 the     *)
(* empty one.  A line is a header, a pair, a line that is skipped, or one  *)
(* that is malformed.                                                      *)
(***************************************************************************)
EXTENDS Integers, Sequences, FiniteSets

CONSTANT General   \* the name of the section of general settings

EmptyName == 0     \* sectionName.empty()

Header(name) == [kind |-> "header", name |-> name]
Pair(key, value) == [kind |-> "pair", key |-> key, value |-> value]
Skipped == [kind |-> "skipped"]
Malformed == [kind |-> "malformed"]

EmptySection == [key \in {} |-> ""]
Has(section, key) == key \in DOMAIN section

\* std::map::emplace keeps what is there.
Emplace(map, key, value) ==
  [k \in DOMAIN map \cup {key} |-> IF k \in DOMAIN map THEN map[k] ELSE value]

\* Mutant: the last value of a key counts.
Assign(map, key, value) ==
  [k \in DOMAIN map \cup {key} |-> IF k = key THEN value ELSE map[k]]

EmplaceKey(map, key, value) == Emplace(map, key, value)

----------------------------------------------------------------------------
(* ParseIniFile: "good" is that the loop goes on, "sections" what is in ini,
   "sectionName" the section that is being read, "line" what getline left in the
   variable of that name: nothing when it was moved from.  At first, and after a
   header without a name, sectionName is empty, and no section is open.          *)
StartOfFile ==
  [good |-> TRUE, sections |-> [n \in {} |-> EmptySection], sectionName |-> EmptyName,
   current |-> EmptySection, line |-> {}]

Refused(state) == [state EXCEPT !.good = FALSE]

IsOpen(state) == state.sectionName # EmptyName

ReadHeader(state, name) ==
  IF ~IsOpen(state)
    THEN [state EXCEPT !.sectionName = name, !.current = EmptySection, !.line = {}]
  ELSE IF state.sectionName \in DOMAIN state.sections
    THEN Refused(state)
  ELSE [state EXCEPT
          !.sections = Emplace(@, state.sectionName, state.current),
          !.sectionName = name, !.current = EmptySection, !.line = {}]

ReadPair(state, pair) ==
  IF ~IsOpen(state)
    THEN Refused(state)
    ELSE [state EXCEPT !.current = EmplaceKey(@, pair.key, pair.value), !.line = {pair}]

ReadLine(state, line) ==
  IF ~state.good \/ line.kind = "skipped" THEN state
  ELSE CASE line.kind = "header" -> ReadHeader(state, line.name)
         [] line.kind = "pair" -> ReadPair(state, line)
         [] line.kind = "malformed" -> Refused(state)

\* After a final newline, and in an empty file, the loop runs once more: getline extracts
\* nothing, and what was in line is taken for a pair again.
ReadPastEnd(state) ==
  IF ~state.good \/ (IsOpen(state) /\ state.line # {}) THEN state ELSE Refused(state)

\* The last section is stored without a look at the names before.
StoreLast(state) ==
  IF ~state.good \/ ~IsOpen(state) THEN state
  ELSE [state EXCEPT !.sections = Emplace(@, state.sectionName, state.current),
                     !.sectionName = EmptyName]

----------------------------------------------------------------------------
\* Application::Initialize

ListenerTypes == {"namedpipe", "pageant", "assuan_emu", "unix", "hyperv", "cygwin"}
ClientTypes == {"namedpipe", "pageant"}
forwardEnabledList == {"unix", "assuan_emu", "hyperv", "cygwin"}

GeneralIsLegal(section) ==
  Has(section, "loglevel") => section["loglevel"] \in {"debug", "info", "warn", "error"}

\* GetLxPermissionInfo
MetadataIsLegal(section) ==
  Has(section, "metadata") => section["metadata"] # "word"

WritesMetadata(section) ==
  Has(section, "write-lxss-metadata") /\ section["write-lxss-metadata"] = "true"

\* SetupWsl2Listener and the others: no listener is made without what it needs.
SetupListener(section) ==
  /\ section["type"] \in {"namedpipe", "assuan_emu", "unix", "cygwin"} => Has(section, "path")
  /\ section["type"] \in {"assuan_emu", "unix"} /\ WritesMetadata(section)
       => MetadataIsLegal(section)

SetupClient(section) == section["type"] = "namedpipe" => Has(section, "path")

ListenerIsLegal(section) ==
  /\ section["role"] = "listener"
  /\ section["type"] \in ListenerTypes
  /\ Has(section, "forward-socket-path") => section["type"] \in forwardEnabledList
  /\ SetupListener(section)

ClientIsLegal(section) ==
  /\ section["role"] = "client"
  /\ section["type"] \in ClientTypes
  /\ SetupClient(section)

SectionIsLegal(name, section) ==
  IF name = General
    THEN GeneralIsLegal(section)
    ELSE /\ Has(section, "type") /\ Has(section, "role")
         /\ ListenerIsLegal(section) \/ ClientIsLegal(section)

WithRole(sections, role) ==
  {n \in DOMAIN sections \ {General} : sections[n]["role"] = role}

Initialize(sections) ==
  /\ \A n \in DOMAIN sections : SectionIsLegal(n, sections[n])
  /\ WithRole(sections, "client") # {}

\* which manager a listener hands its connections to
ManagerOf(section) == IF Has(section, "forward-socket-path") THEN "forward" ELSE "proxy"

----------------------------------------------------------------------------
(* The meaning of a file, said without the loop: a section is what stands
   between a header with a name and the next header, and its first value of a
   key counts.  A header without a name ends a section and begins none, so that
   no pair may follow it (ini_parse.cpp:47, 67, 92).                          *)
HeaderAt(lines) == {i \in 1..Len(lines) : lines[i].kind = "header"}
NamedAt(lines) == {i \in HeaderAt(lines) : lines[i].name # EmptyName}

NextHeader(lines, i) ==
  CHOOSE j \in (HeaderAt(lines) \cup {Len(lines) + 1}) :
    j > i /\ \A k \in HeaderAt(lines) : k > i => j <= k

PairsOf(lines, i) == {j \in i + 1 .. NextHeader(lines, i) - 1 : lines[j].kind = "pair"}

SectionAt(lines, i) ==
  [key \in {lines[j].key : j \in PairsOf(lines, i)} |->
     LET j == CHOOSE j \in PairsOf(lines, i) :
                /\ lines[j].key = key
                /\ \A k \in PairsOf(lines, i) : lines[k].key = key => j <= k
     IN  lines[j].value]

\* The header before line i is the one at j.
HeaderOf(lines, i, j) == j < i /\ \A k \in HeaderAt(lines) : k < i => k <= j

WellFormed(lines) ==
  /\ \A i \in 1..Len(lines) :
       /\ lines[i].kind # "malformed"
       /\ lines[i].kind = "pair" => \E j \in NamedAt(lines) : HeaderOf(lines, i, j)
  /\ NamedAt(lines) # {}
  /\ \A i, j \in NamedAt(lines) : lines[i].name = lines[j].name => i = j

Meaning(lines) ==
  [n \in {lines[i].name : i \in NamedAt(lines)} |->
     SectionAt(lines, CHOOSE i \in NamedAt(lines) : lines[i].name = n)]

\* A header that is the last line but for skipped ones, in a file that ends in a newline
EndsInHeader(file) ==
  /\ file.newline
  /\ \E i \in HeaderAt(file.lines) :
       \A j \in i + 1 .. Len(file.lines) : file.lines[j].kind = "skipped"

\* The last section has the name of one before.
RepeatsLast(lines) ==
  \E i \in NamedAt(lines) :
    /\ NextHeader(lines, i) = Len(lines) + 1
    /\ \E j \in NamedAt(lines) : j < i /\ lines[j].name = lines[i].name
=============================================================================
