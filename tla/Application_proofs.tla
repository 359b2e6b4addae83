------------------------- MODULE Application_proofs -------------------------
(***************************************************************************)
(* Proofs about Application, for configuration files of any length, every  *)
(* set of listeners and of programs that connect.                          *)
(*                                                                         *)
(* After each line, what the parser has is the meaning of the lines so far *)
(* (HasRead, Parsing); after the last one it is that of the file (Parsed), *)
(* and it is what the program runs with (Configured).  A connection waits  *)
(* with one listener, and no thread runs before the launch or after Run    *)
(* has returned (Loops).                                                   *)
(***************************************************************************)
EXTENDS Application, TLAPS, FiniteSetTheorems, WellFoundedInduction

----------------------------------------------------------------------------
(* The meaning of the first n lines of a file. *)

HeadersTo(lines, n) == {i \in 1 .. n : lines[i].kind = "header"}
NamedTo(lines, n) == {i \in HeadersTo(lines, n) : lines[i].name # EmptyName}
PairsTo(lines, i, n) == {j \in i + 1 .. n : lines[j].kind = "pair"}

\* The section that the pairs at P make up, and that of the header at i as far as line n.
SectionOf(lines, P) ==
  [key \in {lines[j].key : j \in P} |->
     LET j == CHOOSE j \in P : /\ lines[j].key = key
                              /\ \A k \in P : lines[k].key = key => j <= k
     IN  lines[j].value]
SectionTo(lines, i, n) == SectionOf(lines, PairsTo(lines, i, n))

\* The header before line i has a name.
InSection(lines, i) ==
  \E j \in NamedTo(lines, i - 1) : \A k \in HeadersTo(lines, i - 1) : k <= j

WellTo(lines, n) ==
  \A i \in 1 .. n : lines[i].kind # "malformed" /\ (lines[i].kind = "pair" => InSection(lines, i))

\* The sections of the first n lines, with names that differ.
Stored(lines, n, sections) ==
  /\ DOMAIN sections = {lines[i].name : i \in NamedTo(lines, n)}
  /\ \A i \in NamedTo(lines, n) :
       sections[lines[i].name] = SectionTo(lines, i, NextHeader(lines, i) - 1)
  /\ \A i, j \in NamedTo(lines, n) : lines[i].name = lines[j].name => i = j

\* The section that is read is the one of the header at h, those before it are stored.
OpenAt(lines, n, s, h) ==
  /\ \A k \in HeadersTo(lines, n) : k <= h
  /\ s.sectionName = lines[h].name
  /\ s.current = SectionTo(lines, h, n)
  /\ Stored(lines, h - 1, s.sections)
  /\ s.line = {} => \A j \in h + 1 .. n : lines[j].kind = "skipped"
  /\ lines[h].name = EmptyName => s.line = {}

\* What ParseIniFile made of the first n lines.
HasRead(lines, n, s) ==
  /\ s = [good |-> s.good, sections |-> s.sections, sectionName |-> s.sectionName,
          current |-> s.current, line |-> s.line]
  /\ s.sections = [k \in DOMAIN s.sections |-> s.sections[k]]
  /\ s.good \in BOOLEAN
  /\ ~s.good => ~WellFormed(lines)
  /\ s.good =>
       /\ WellTo(lines, n)
       /\ \/ HeadersTo(lines, n) = {} /\ DOMAIN s.sections = {} /\ s.sectionName = EmptyName
          \/ \E h \in HeadersTo(lines, n) : OpenAt(lines, n, s, h)

\* What it made of the whole file.
HasParsed(f, s) ==
  /\ s.good /\ DOMAIN s.sections # {} /\ ~RepeatsLast(f.lines) =>
       WellFormed(f.lines) /\ s.sections = Meaning(f.lines)
  /\ WellFormed(f.lines) /\ ~EndsInHeader(f) =>
       s.good /\ s.sections = Meaning(f.lines)

----------------------------------------------------------------------------
Parsing == main \in {"Starting", "Reading"} => HasRead(configFile.lines, lineNumber, parser)
Parsed == main \notin {"Starting", "Reading"} => HasParsed(configFile, parser)

\* The sections that the program runs with are those that were accepted.
Configured ==
  /\ main \in {"Starting", "Reading", "Initializing"} => DOMAIN config = {}
  /\ main \in {"Launching", "Launched", "Waiting", "Stopping", "Cancelling", "Joining"} =>
       parser.good /\ config = parser.sections /\ Initialize(config)
  /\ main = "Returned" /\ DOMAIN config = {} => ~(parser.good /\ Initialize(parser.sections))

\* The status is reported by a service only, and its handler runs once it has started.
Reporting ==
  /\ ~isService => status = "None"
  /\ handler # "Unused" => main # "Starting"

\* A connection waits with one listener, and a pipe has one instance; nothing is signalled
\* before the listener waits.
Queues ==
  /\ \A l, m \in Listener : \A c \in Client : c \in queue[l] /\ c \in queue[m] => l = m
  /\ \A l \in Listener :
       /\ kind[l] = "namedpipe" => \A c, d \in queue[l] : c = d
       /\ place[l] \in {"Created", "Prepared", "Published"} => ~signalled[l]

\* No thread runs before the launch, none once Run has returned.
Loops ==
  /\ main \in {"Starting", "Reading", "Initializing", "Launching"} => InitLoops
  /\ main \in {"Returned", "Reported", "Exited"} =>
       \A l \in Listener : place[l] \in {"None", "Cancelled", "Failed"}
  /\ Queues

IInv == TypeOK /\ Parsing /\ Parsed /\ Configured /\ Reporting /\ Loops

----------------------------------------------------------------------------
(* Lemmas about files. *)

\* A set of line numbers that is not empty has a first one.
LEMMA FirstOne ==
  ASSUME NEW S \in SUBSET Nat, S # {}
  PROVE  \E i \in S : \A j \in S : i <= j
<1>1. IsWellFoundedOn({p \in Nat \X Nat : p[1] < p[2]}, Nat)
  BY NatLessThanWellFounded DEF OpToRel
<1>2. PICK i \in S : \A j \in S : ~ (<<j, i>> \in {p \in Nat \X Nat : p[1] < p[2]})
  BY <1>1, WFMin
<1>3. \A j \in S : ~ (j < i)
  BY <1>2
<1>4. QED
  BY <1>3

\* The set of lines 1 .. n + 1 that are headers, and pairs.
LEMMA OneLineMore ==
  ASSUME NEW L, NEW n \in Nat
  PROVE  /\ HeadersTo(L, n + 1) =
              IF L[n + 1].kind = "header" THEN HeadersTo(L, n) \cup {n + 1} ELSE HeadersTo(L, n)
         /\ \A h \in 1 .. n : PairsTo(L, h, n + 1) =
              IF L[n + 1].kind = "pair" THEN PairsTo(L, h, n) \cup {n + 1} ELSE PairsTo(L, h, n)
         /\ n + 1 \notin HeadersTo(L, n)
         /\ \A h : n + 1 \notin PairsTo(L, h, n)
<1>1. 1 .. n + 1 = (1 .. n) \cup {n + 1} /\ n + 1 \notin 1 .. n
  OBVIOUS
<1>2. ASSUME NEW h \in 1 .. n
      PROVE  h + 1 .. n + 1 = (h + 1 .. n) \cup {n + 1}
  OBVIOUS
<1>3. \A h : n + 1 \notin PairsTo(L, h, n)
  BY DEF PairsTo
<1>4. HeadersTo(L, n + 1) =
        IF L[n + 1].kind = "header" THEN HeadersTo(L, n) \cup {n + 1} ELSE HeadersTo(L, n)
  <2>1. CASE L[n + 1].kind = "header"
    BY <1>1, <2>1 DEF HeadersTo
  <2>2. CASE L[n + 1].kind # "header"
    BY <1>1, <2>2 DEF HeadersTo
  <2>3. QED
    BY <2>1, <2>2
<1>5. ASSUME NEW h \in 1 .. n
      PROVE  PairsTo(L, h, n + 1) =
               IF L[n + 1].kind = "pair" THEN PairsTo(L, h, n) \cup {n + 1} ELSE PairsTo(L, h, n)
  <2>1. CASE L[n + 1].kind = "pair"
    BY <1>2, <2>1 DEF PairsTo
  <2>2. CASE L[n + 1].kind # "pair"
    BY <1>2, <2>2 DEF PairsTo
  <2>3. QED
    BY <2>1, <2>2
<1>6. QED
  BY <1>1, <1>3, <1>4, <1>5 DEF HeadersTo

\* The value of a key is that of the first pair with it.
LEMMA ValueIn ==
  ASSUME NEW L, NEW P \in SUBSET Nat
  PROVE  /\ DOMAIN SectionOf(L, P) = {L[j].key : j \in P}
         /\ SectionOf(L, P) = [key \in {L[j].key : j \in P} |-> SectionOf(L, P)[key]]
         /\ \A j \in P : (\A k \in P : L[k].key = L[j].key => j <= k) =>
              SectionOf(L, P)[L[j].key] = L[j].value
<1>1. DOMAIN SectionOf(L, P) = {L[j].key : j \in P}
  BY DEF SectionOf
<1>2. SectionOf(L, P) = [key \in {L[j].key : j \in P} |-> SectionOf(L, P)[key]]
  <2> DEFINE K == {L[j].key : j \in P}
             Value(key) == LET j == CHOOSE j \in P :
                                      /\ L[j].key = key
                                      /\ \A k \in P : L[k].key = key => j <= k
                           IN  L[j].value
             F == SectionOf(L, P)
  <2>1. F = [key \in K |-> Value(key)]
    BY DEF SectionOf
  <2> HIDE DEF K, Value, F
  <2>2. F = [key \in K |-> F[key]]
    BY <2>1
  <2>3. QED
    BY <2>2 DEF K, F
<1>3. ASSUME NEW j \in P, \A k \in P : L[k].key = L[j].key => j <= k
      PROVE  SectionOf(L, P)[L[j].key] = L[j].value
  <2> DEFINE key == L[j].key
             First(i) == /\ L[i].key = key
                         /\ \A k \in P : L[k].key = key => i <= k
  <2>1. ASSUME NEW i \in P, First(i) PROVE i = j
    BY <1>3, <2>1
  <2>2. (CHOOSE i \in P : First(i)) = j
    BY <1>3, <2>1
  <2>3. key \in {L[i].key : i \in P}
    OBVIOUS
  <2>4. QED
    BY <2>2, <2>3 DEF SectionOf
<1>4. QED
  BY <1>1, <1>2, <1>3

\* One pair more is emplaced.
LEMMA OnePairMore ==
  ASSUME NEW L, NEW n \in Nat, NEW h \in 1 .. n, L[n + 1].kind = "pair"
  PROVE  SectionTo(L, h, n + 1) = Emplace(SectionTo(L, h, n), L[n + 1].key, L[n + 1].value)
<1> DEFINE old == PairsTo(L, h, n)
           new == PairsTo(L, h, n + 1)
           S == SectionOf(L, old)
           T == SectionOf(L, new)
<1>1. new = old \cup {n + 1} /\ old \subseteq 1 .. n /\ old \in SUBSET Nat /\ new \in SUBSET Nat
  BY OneLineMore DEF PairsTo
<1> HIDE DEF old, new
<1>2. /\ DOMAIN S = {L[j].key : j \in old}
      /\ DOMAIN T = {L[j].key : j \in new}
      /\ T = [key \in {L[j].key : j \in new} |-> T[key]]
      /\ \A j \in old : (\A k \in old : L[k].key = L[j].key => j <= k) => S[L[j].key] = L[j].value
      /\ \A j \in new : (\A k \in new : L[k].key = L[j].key => j <= k) => T[L[j].key] = L[j].value
  <2>1. \A Q \in SUBSET Nat :
          /\ DOMAIN SectionOf(L, Q) = {L[j].key : j \in Q}
          /\ SectionOf(L, Q) = [key \in {L[j].key : j \in Q} |-> SectionOf(L, Q)[key]]
          /\ \A j \in Q : (\A k \in Q : L[k].key = L[j].key => j <= k) =>
               SectionOf(L, Q)[L[j].key] = L[j].value
    BY ValueIn
  <2>2. QED
    BY <1>1, <2>1
<1> HIDE DEF S, T
<1>3. ASSUME NEW key \in DOMAIN S
      PROVE  T[key] = S[key]
  <2> DEFINE Q == {j \in old : L[j].key = key}
  <2>1. Q \in SUBSET Nat /\ Q # {}
    BY <1>1, <1>2, <1>3
  <2>2. PICK j \in Q : \A k \in Q : j <= k
    BY <2>1, FirstOne
  <2>3. /\ j \in old /\ j \in new /\ L[j].key = key
        /\ \A k \in old : L[k].key = L[j].key => j <= k
        /\ \A k \in new : L[k].key = L[j].key => j <= k
    BY <1>1, <2>2
  <2>4. QED
    BY <1>2, <2>3
<1>4. ASSUME L[n + 1].key \notin DOMAIN S
      PROVE  T[L[n + 1].key] = L[n + 1].value
  <2>1. n + 1 \in new /\ \A k \in new : L[k].key = L[n + 1].key => n + 1 <= k
    BY <1>1, <1>2, <1>4
  <2>2. QED
    BY <1>2, <2>1
<1>5. DOMAIN T = DOMAIN S \cup {L[n + 1].key}
  BY <1>1, <1>2
<1>6. T = [key \in DOMAIN S \cup {L[n + 1].key} |-> T[key]]
  BY <1>2, <1>5
<1>7. \A key \in DOMAIN S \cup {L[n + 1].key} :
        T[key] = IF key \in DOMAIN S THEN S[key] ELSE L[n + 1].value
  BY <1>3, <1>4
<1>8. T = Emplace(S, L[n + 1].key, L[n + 1].value)
  BY <1>6, <1>7 DEF Emplace
<1>9. QED
  BY <1>8 DEF SectionTo, S, T, old, new

\* A line that is no pair leaves the section as it is.
LEMMA NoPairMore ==
  ASSUME NEW L, NEW n \in Nat, NEW h \in 1 .. n, L[n + 1].kind # "pair"
  PROVE  SectionTo(L, h, n + 1) = SectionTo(L, h, n)
<1>1. PairsTo(L, h, n + 1) = PairsTo(L, h, n)
  BY OneLineMore
<1>2. QED
  BY <1>1 DEF SectionTo

\* What NextHeader finds.
LEMMA NextIs ==
  ASSUME NEW L, Len(L) \in Nat, NEW h \in Nat, NEW m \in HeaderAt(L) \cup {Len(L) + 1},
         m > h, \A k \in HeaderAt(L) : k > h => m <= k
  PROVE  NextHeader(L, h) = m
<1>1. HeaderAt(L) \subseteq 1 .. Len(L)
  BY DEF HeaderAt
<1> DEFINE Next_(j) == j > h /\ \A k \in HeaderAt(L) : k > h => j <= k
<1>2. ASSUME NEW j \in HeaderAt(L) \cup {Len(L) + 1}, Next_(j)
      PROVE  j = m
  <2>1. CASE j \in HeaderAt(L) /\ m \in HeaderAt(L)
    BY <1>1, <1>2, <2>1
  <2>2. CASE j \in HeaderAt(L) /\ m = Len(L) + 1
    BY <1>1, <1>2, <2>2
  <2>3. CASE j = Len(L) + 1
    BY <1>1, <1>2, <2>3
  <2>4. QED
    BY <1>2, <2>1, <2>2, <2>3
<1>3. (CHOOSE j \in HeaderAt(L) \cup {Len(L) + 1} : Next_(j)) = m
  <2>1. Next_(m)
    OBVIOUS
  <2>2. QED
    BY <1>2, <2>1
<1>4. QED
  BY <1>3 DEF NextHeader

\* The meaning of the whole file, in terms of its lines so far.
LEMMA WholeFile ==
  ASSUME NEW L, Len(L) \in Nat
  PROVE  /\ HeaderAt(L) = HeadersTo(L, Len(L))
         /\ NamedAt(L) = NamedTo(L, Len(L))
         /\ \A i \in Nat : SectionAt(L, i) = SectionTo(L, i, NextHeader(L, i) - 1)
<1>1. HeaderAt(L) = HeadersTo(L, Len(L))
  BY DEF HeaderAt, HeadersTo
<1>2. NamedAt(L) = NamedTo(L, Len(L))
  BY <1>1 DEF NamedAt, NamedTo
<1>3. \A i \in Nat : SectionAt(L, i) = SectionTo(L, i, NextHeader(L, i) - 1)
  BY DEF SectionAt, SectionTo, SectionOf, PairsOf, PairsTo
<1>4. QED
  BY <1>1, <1>2, <1>3

\* Whether a line is in a section is said by the lines before it.
LEMMA SectionBefore ==
  ASSUME NEW L, Len(L) \in Nat, NEW i \in 1 .. Len(L)
  PROVE  InSection(L, i) <=> \E j \in NamedAt(L) : HeaderOf(L, i, j)
<1>1. HeadersTo(L, i - 1) = {k \in HeaderAt(L) : k < i}
  BY DEF HeadersTo, HeaderAt
<1>2. NamedTo(L, i - 1) = {k \in NamedAt(L) : k < i}
  BY <1>1 DEF NamedTo, NamedAt
<1>3. QED
  BY <1>1, <1>2 DEF InSection, HeaderOf

\* The last header of the first n lines, when a header or nothing follows them.
LEMMA LastHeader ==
  ASSUME NEW L, Len(L) \in Nat, NEW n \in Nat, n + 1 \in HeaderAt(L) \cup {Len(L) + 1},
         NEW h \in HeadersTo(L, n), \A k \in HeadersTo(L, n) : k <= h
  PROVE  /\ HeadersTo(L, n) = HeadersTo(L, h - 1) \cup {h} /\ h \notin HeadersTo(L, h - 1)
         /\ NextHeader(L, h) = n + 1
         /\ NamedTo(L, n) = IF L[h].name = EmptyName THEN NamedTo(L, h - 1)
                                                     ELSE NamedTo(L, h - 1) \cup {h}
<1>1. h \in 1 .. n /\ L[h].kind = "header"
  BY DEF HeadersTo
<1>2. HeadersTo(L, n) = HeadersTo(L, h - 1) \cup {h} /\ h \notin HeadersTo(L, h - 1)
  BY <1>1 DEF HeadersTo
<1>3. NamedTo(L, n) = IF L[h].name = EmptyName THEN NamedTo(L, h - 1)
                                               ELSE NamedTo(L, h - 1) \cup {h}
  <2>1. CASE L[h].name = EmptyName
    BY <1>2, <2>1 DEF NamedTo
  <2>2. CASE L[h].name # EmptyName
    BY <1>2, <2>2 DEF NamedTo
  <2>3. QED
    BY <2>1, <2>2
<1>4. ASSUME NEW k \in HeaderAt(L), k > h
      PROVE  n + 1 <= k
  <2>1. CASE k \in 1 .. n
    BY <1>4, <2>1 DEF HeaderAt, HeadersTo
  <2>2. QED
    BY <2>1 DEF HeaderAt
<1>5. NextHeader(L, h) = n + 1
  BY <1>1, <1>4, NextIs
<1>6. QED
  BY <1>2, <1>3, <1>5

\* One section more is stored.
LEMMA StoresSection ==
  ASSUME NEW L, NEW n, NEW h, NEW sections, NEW section,
         NamedTo(L, n) = NamedTo(L, h - 1) \cup {h}, h \notin NamedTo(L, h - 1),
         Stored(L, h - 1, sections), L[h].name \notin DOMAIN sections,
         section = SectionTo(L, h, NextHeader(L, h) - 1)
  PROVE  LET all == Emplace(sections, L[h].name, section)
         IN  Stored(L, n, all) /\ all = [k \in DOMAIN all |-> all[k]]
<1> DEFINE all == Emplace(sections, L[h].name, section)
<1>1. /\ DOMAIN all = DOMAIN sections \cup {L[h].name}
      /\ all = [k \in DOMAIN all |-> all[k]]
      /\ \A k \in DOMAIN sections : all[k] = sections[k]
      /\ all[L[h].name] = section
  BY DEF Emplace
<1> HIDE DEF all
<1>2. DOMAIN all = {L[i].name : i \in NamedTo(L, n)}
  BY <1>1 DEF Stored
<1>3. ASSUME NEW i \in NamedTo(L, n)
      PROVE  all[L[i].name] = SectionTo(L, i, NextHeader(L, i) - 1)
  <2>1. CASE i = h
    BY <1>1, <2>1
  <2>2. CASE i \in NamedTo(L, h - 1)
    BY <1>1, <2>2 DEF Stored
  <2>3. QED
    BY <2>1, <2>2
<1>4. \A i, j \in NamedTo(L, n) : L[i].name = L[j].name => i = j
  <2>1. \A i \in NamedTo(L, h - 1) : L[i].name # L[h].name
    BY DEF Stored
  <2>2. QED
    BY <2>1 DEF Stored
<1>5. Stored(L, n, all)
  BY <1>2, <1>3, <1>4 DEF Stored
<1>6. QED
  BY <1>1, <1>5 DEF all

\* The sections of all lines are the meaning of the file, which is well formed.
LEMMA StoredIsMeaning ==
  ASSUME NEW L, Len(L) \in Nat, NEW sections, WellTo(L, Len(L)), Stored(L, Len(L), sections),
         sections = [k \in DOMAIN sections |-> sections[k]]
  PROVE  /\ sections = Meaning(L)
         /\ DOMAIN sections # {} => WellFormed(L)
<1>1. /\ HeaderAt(L) = HeadersTo(L, Len(L)) /\ NamedAt(L) = NamedTo(L, Len(L))
      /\ \A i \in Nat : SectionAt(L, i) = SectionTo(L, i, NextHeader(L, i) - 1)
  BY WholeFile
<1>2. NamedAt(L) \subseteq Nat
  BY DEF NamedAt, HeaderAt
<1>3. \A i, j \in NamedAt(L) : L[i].name = L[j].name => i = j
  BY <1>1 DEF Stored
<1>4. DOMAIN sections = {L[i].name : i \in NamedAt(L)}
  BY <1>1 DEF Stored
<1>5. \A i \in NamedAt(L) : sections[L[i].name] = SectionAt(L, i)
  BY <1>1, <1>2 DEF Stored
<1>6. \A name \in {L[i].name : i \in NamedAt(L)} :
        sections[name] = SectionAt(L, CHOOSE i \in NamedAt(L) : L[i].name = name)
  <2>1. ASSUME NEW i \in NamedAt(L)
        PROVE  (CHOOSE j \in NamedAt(L) : L[j].name = L[i].name) = i
    BY <1>3
  <2>2. QED
    BY <1>5, <2>1
<1>7. sections = [name \in {L[i].name : i \in NamedAt(L)} |-> sections[name]]
  BY <1>4, Zenon
<1>8. sections = Meaning(L)
  BY <1>6, <1>7, Zenon DEF Meaning
<1>9. ASSUME DOMAIN sections # {}
      PROVE  WellFormed(L)
  <2>1. NamedAt(L) # {}
    BY <1>4, <1>9
  <2>2. ASSUME NEW i \in 1 .. Len(L)
        PROVE  /\ L[i].kind # "malformed"
               /\ L[i].kind = "pair" => \E j \in NamedAt(L) : HeaderOf(L, i, j)
    BY SectionBefore DEF WellTo
  <2>3. QED
    BY <1>3, <2>1, <2>2 DEF WellFormed
<1>10. QED
  BY <1>8, <1>9

----------------------------------------------------------------------------
(* A turn of the loop of ParseIniFile. *)

\* The parser gives up: the file is not well formed.
LEMMA GivesUp ==
  ASSUME NEW L, NEW n, NEW m, NEW s, HasRead(L, n, s), ~WellFormed(L)
  PROVE  HasRead(L, m, Refused(s))
<1>1. Refused(s) = [good |-> FALSE, sections |-> s.sections, sectionName |-> s.sectionName,
                    current |-> s.current, line |-> s.line]
  <2>1. ASSUME NEW g
        PROVE  [s EXCEPT !.good = g] =
                 [good |-> g, sections |-> s.sections, sectionName |-> s.sectionName,
                  current |-> s.current, line |-> s.line]
    BY DEF HasRead
  <2>2. QED
    BY <2>1 DEF Refused
<1> DEFINE r == Refused(s)
<1>2. r.good = FALSE /\ r.sections = s.sections /\ r.sectionName = s.sectionName /\ r.current = s.current /\ r.line = s.line
  BY <1>1
<1>3. r = [good |-> r.good, sections |-> r.sections, sectionName |-> r.sectionName,
           current |-> r.current, line |-> r.line]
  BY <1>1, <1>2
<1>4. r.sections = [k \in DOMAIN r.sections |-> r.sections[k]]
  BY <1>2 DEF HasRead
<1> HIDE DEF r
<1>5. HasRead(L, m, r)
  BY <1>2, <1>3, <1>4 DEF HasRead
<1>6. QED
  BY <1>5 DEF r

\* What a file that is well formed says of each line.
LEMMA NotWellFormed ==
  ASSUME NEW L, Len(L) \in Nat, NEW i \in 1 .. Len(L),
         \/ L[i].kind = "malformed"
         \/ L[i].kind = "pair" /\ ~InSection(L, i)
         \/ i \in NamedAt(L) /\ \E j \in NamedTo(L, i - 1) : L[j].name = L[i].name
  PROVE  ~WellFormed(L)
<1>1. CASE L[i].kind = "malformed"
  BY <1>1 DEF WellFormed
<1>2. CASE L[i].kind = "pair" /\ ~InSection(L, i)
  BY <1>2, SectionBefore DEF WellFormed
<1>3. CASE i \in NamedAt(L) /\ \E j \in NamedTo(L, i - 1) : L[j].name = L[i].name
  <2>1. PICK j \in NamedTo(L, i - 1) : L[j].name = L[i].name
    BY <1>3
  <2>2. j \in NamedAt(L) /\ j # i
    BY DEF HeaderAt, NamedAt, HeadersTo, NamedTo
  <2>3. QED
    BY <1>3, <2>1, <2>2 DEF WellFormed
<1>4. QED
  BY <1>1, <1>2, <1>3

\* What is said of the lines so far, when one more is fine.
LEMMA WellToNext ==
  ASSUME NEW L, NEW n \in Nat, WellTo(L, n), L[n + 1].kind # "malformed",
         L[n + 1].kind = "pair" => InSection(L, n + 1)
  PROVE  WellTo(L, n + 1)
<1>1. \A i \in 1 .. n + 1 : i \in 1 .. n \/ i = n + 1
  OBVIOUS
<1>2. QED
  BY <1>1 DEF WellTo

\* A line that is skipped changes nothing.
LEMMA ReadsSkipped ==
  ASSUME NEW L, Len(L) \in Nat, NEW n \in Nat, n < Len(L), NEW s, HasRead(L, n, s), s.good,
         L[n + 1].kind = "skipped"
  PROVE  HasRead(L, n + 1, s)
<1>1. HeadersTo(L, n + 1) = HeadersTo(L, n)
  BY OneLineMore
<1>2. WellTo(L, n + 1)
  BY WellToNext DEF HasRead
<1>3. ASSUME NEW h \in HeadersTo(L, n), OpenAt(L, n, s, h)
      PROVE  OpenAt(L, n + 1, s, h)
  <2>1. h \in 1 .. n
    BY DEF HeadersTo
  <2>2. SectionTo(L, h, n + 1) = SectionTo(L, h, n)
    BY <2>1, NoPairMore
  <2>3. \A j \in h + 1 .. n + 1 : j \in h + 1 .. n \/ j = n + 1
    BY <2>1
  <2>4. QED
    BY <1>1, <1>3, <2>2, <2>3 DEF OpenAt
<1>4. QED
  BY <1>1, <1>2, <1>3 DEF HasRead

\* A pair joins the section that is open; without one the parser gives up.
LEMMA ReadsPair ==
  ASSUME NEW L, Len(L) \in Nat, NEW n \in Nat, n < Len(L), NEW s, HasRead(L, n, s), s.good,
         L[n + 1].kind = "pair"
  PROVE  HasRead(L, n + 1, ReadPair(s, L[n + 1]))
<1>0. (n + 1) - 1 = n /\ n + 1 \in 1 .. Len(L) /\ HeadersTo(L, n) \subseteq 1 .. n
  BY DEF HeadersTo
<1>1. CASE ~IsOpen(s)
  <2>1. ~InSection(L, n + 1)
    <3>1. CASE HeadersTo(L, n) = {}
      BY <1>0, <3>1 DEF InSection, NamedTo
    <3>2. CASE \E h \in HeadersTo(L, n) : OpenAt(L, n, s, h)
      <4>1. PICK h \in HeadersTo(L, n) : OpenAt(L, n, s, h)
        BY <3>2
      <4>2. L[h].name = EmptyName /\ \A k \in HeadersTo(L, n) : k <= h
        BY <1>1, <4>1 DEF OpenAt, IsOpen
      <4>3. ASSUME NEW j \in NamedTo(L, n), \A k \in HeadersTo(L, n) : k <= j
            PROVE  FALSE
        <5>1. j \in HeadersTo(L, n) /\ L[j].name # EmptyName
          BY DEF NamedTo
        <5>2. j = h
          BY <1>0, <4>2, <4>3, <5>1
        <5>3. QED
          BY <4>2, <5>1, <5>2
      <4>4. QED
        BY <1>0, <4>3 DEF InSection
    <3>3. QED
      BY <3>1, <3>2 DEF HasRead
  <2>2. ~WellFormed(L)
    BY <1>0, <2>1, NotWellFormed
  <2>3. QED
    BY <1>1, <2>2, GivesUp DEF ReadPair
<1>2. CASE IsOpen(s)
  <2> DEFINE r == ReadPair(s, L[n + 1])
  <2>1. r = [good |-> s.good, sections |-> s.sections, sectionName |-> s.sectionName,
             current |-> Emplace(s.current, L[n + 1].key, L[n + 1].value), line |-> {L[n + 1]}]
    BY <1>2 DEF ReadPair, HasRead, EmplaceKey
  <2>2. /\ r.good = s.good /\ r.sections = s.sections /\ r.sectionName = s.sectionName /\ r.line # {}
        /\ r.current = Emplace(s.current, L[n + 1].key, L[n + 1].value)
        /\ r = [good |-> r.good, sections |-> r.sections, sectionName |-> r.sectionName,
                current |-> r.current, line |-> r.line]
    BY <2>1
  <2> HIDE DEF r
  <2>3. HeadersTo(L, n + 1) = HeadersTo(L, n)
    BY OneLineMore
  <2>4. PICK h \in HeadersTo(L, n) : OpenAt(L, n, s, h)
    BY <1>2 DEF HasRead, IsOpen
  <2>5. h \in 1 .. n /\ L[h].name # EmptyName
    BY <1>2, <2>4 DEF HeadersTo, OpenAt, IsOpen
  <2>6. OpenAt(L, n + 1, r, h)
    <3>1. r.current = SectionTo(L, h, n + 1)
      BY <2>2, <2>4, <2>5, OnePairMore DEF OpenAt
    <3>2. QED
      BY <2>2, <2>3, <2>4, <2>5, <3>1 DEF OpenAt
  <2>7. WellTo(L, n + 1)
    <3>1. InSection(L, n + 1)
      BY <1>0, <2>4, <2>5 DEF InSection, NamedTo, OpenAt
    <3>2. QED
      BY <3>1, WellToNext DEF HasRead
  <2>8. HasRead(L, n + 1, r)
    BY <2>2, <2>3, <2>6, <2>7 DEF HasRead
  <2>9. QED
    BY <2>8 DEF r
<1>3. QED
  BY <1>1, <1>2

\* A header stores the section that is open and opens one; when the name of the open one was
\* seen before, the parser gives up.
LEMMA ReadsHeader ==
  ASSUME NEW L, Len(L) \in Nat, NEW n \in Nat, n < Len(L), NEW s, HasRead(L, n, s), s.good,
         L[n + 1].kind = "header"
  PROVE  HasRead(L, n + 1, ReadHeader(s, L[n + 1].name))
<1> DEFINE name == L[n + 1].name
           r == ReadHeader(s, name)
           Opens(sections) ==
             r = [good |-> s.good, sections |-> sections, sectionName |-> name,
                  current |-> EmptySection, line |-> {}]
<1>1. HeadersTo(L, n + 1) = HeadersTo(L, n) \cup {n + 1} /\ (n + 1) - 1 = n
  <2>1. HeadersTo(L, n + 1) = HeadersTo(L, n) \cup {n + 1}
    BY OneLineMore
  <2>2. QED
    BY <2>1
<1>2. HeadersTo(L, n) \subseteq 1 .. n /\ n + 1 \in HeaderAt(L) /\ n + 1 \in 1 .. Len(L)
  BY DEF HeadersTo, HeaderAt
<1>3. EmptySection = SectionTo(L, n + 1, n + 1)
  <2>1. PairsTo(L, n + 1, n + 1) = {}
    BY DEF PairsTo
  <2>2. QED
    BY <2>1 DEF SectionTo, SectionOf, EmptySection
<1>4. WellTo(L, n + 1)
  BY WellToNext DEF HasRead
\* The sections are those of the lines before: that is all there is to show.
<1>5. ASSUME NEW sections, Opens(sections), Stored(L, n, sections),
             sections = [k \in DOMAIN sections |-> sections[k]]
      PROVE  HasRead(L, n + 1, r)
  <2>1. /\ r.good = s.good /\ r.sections = sections /\ r.sectionName = name
        /\ r.current = EmptySection /\ r.line = {}
        /\ r = [good |-> r.good, sections |-> r.sections, sectionName |-> r.sectionName,
                current |-> r.current, line |-> r.line]
    BY <1>5
  <2> HIDE DEF r
  <2>2. \A k \in HeadersTo(L, n + 1) : k <= n + 1
    BY <1>1, <1>2
  <2>3. \A j \in (n + 1) + 1 .. n + 1 : L[j].kind = "skipped"
    OBVIOUS
  <2>4. OpenAt(L, n + 1, r, n + 1)
    BY <1>1, <1>3, <1>5, <2>1, <2>2, <2>3 DEF OpenAt
  <2>5. QED
    BY <1>1, <1>4, <1>5, <2>1, <2>4 DEF HasRead
<1>6. CASE HeadersTo(L, n) = {} /\ DOMAIN s.sections = {} /\ s.sectionName = EmptyName
  <2>1. Opens(s.sections)
    BY <1>6 DEF ReadHeader, HasRead, IsOpen
  <2>2. Stored(L, n, s.sections)
    BY <1>6 DEF Stored, NamedTo
  <2>3. s.sections = [k \in DOMAIN s.sections |-> s.sections[k]]
    BY DEF HasRead
  <2> HIDE DEF r, Opens
  <2>4. HasRead(L, n + 1, r)
    BY <1>5, <2>1, <2>2, <2>3
  <2>5. QED
    BY <2>4 DEF r
<1>7. ASSUME NEW h \in HeadersTo(L, n), OpenAt(L, n, s, h)
      PROVE  HasRead(L, n + 1, r)
  <2>1. /\ HeadersTo(L, n) = HeadersTo(L, h - 1) \cup {h} /\ h \notin HeadersTo(L, h - 1)
        /\ NextHeader(L, h) = n + 1
        /\ NamedTo(L, n) = IF L[h].name = EmptyName THEN NamedTo(L, h - 1)
                                                    ELSE NamedTo(L, h - 1) \cup {h}
    BY <1>2, <1>7, LastHeader DEF OpenAt
  <2>2. /\ s.sectionName = L[h].name /\ s.current = SectionTo(L, h, n)
        /\ Stored(L, h - 1, s.sections)
    BY <1>7 DEF OpenAt
  <2>3. CASE L[h].name = EmptyName
    <3>1. Opens(s.sections)
      BY <2>2, <2>3 DEF ReadHeader, HasRead, IsOpen
    <3>2. Stored(L, n, s.sections)
      BY <2>1, <2>2, <2>3 DEF Stored
    <3>3. s.sections = [k \in DOMAIN s.sections |-> s.sections[k]]
      BY DEF HasRead
    <3> HIDE DEF r, Opens
    <3>4. QED
      BY <1>5, <3>1, <3>2, <3>3
  <2>4. CASE L[h].name # EmptyName /\ L[h].name \in DOMAIN s.sections
    <3>1. PICK i \in NamedTo(L, h - 1) : L[i].name = L[h].name
      BY <2>2, <2>4 DEF Stored
    <3>2. h \in 1 .. Len(L) /\ h \in NamedAt(L)
      BY <2>4 DEF HeadersTo, NamedAt, HeaderAt
    <3>3. ~WellFormed(L)
      BY <3>1, <3>2, NotWellFormed
    <3>4. QED
      BY <2>2, <2>4, <3>3, GivesUp DEF ReadHeader, IsOpen
  <2>5. CASE L[h].name # EmptyName /\ L[h].name \notin DOMAIN s.sections
    <3> DEFINE sections == Emplace(s.sections, L[h].name, s.current)
    <3>1. Opens(sections)
      BY <2>2, <2>5 DEF ReadHeader, HasRead, IsOpen
    <3>2. h \notin NamedTo(L, h - 1)
      BY <2>1 DEF NamedTo
    <3>3. s.current = SectionTo(L, h, NextHeader(L, h) - 1)
      BY <1>1, <2>1, <2>2
    <3>4. Stored(L, n, sections) /\ sections = [k \in DOMAIN sections |-> sections[k]]
      BY <2>1, <2>2, <2>5, <3>2, <3>3, StoresSection
    <3> HIDE DEF r, Opens, sections
    <3>5. QED
      BY <1>5, <3>1, <3>4
  <2>6. QED
    BY <2>3, <2>4, <2>5
<1>8. QED
  BY <1>6, <1>7 DEF HasRead

\* One line more is read.
LEMMA ReadsOn ==
  ASSUME NEW L, Len(L) \in Nat, NEW n \in Nat, n < Len(L), NEW s, HasRead(L, n, s),
         L[n + 1].kind \in {"header", "pair", "skipped", "malformed"}
  PROVE  HasRead(L, n + 1, ReadLine(s, L[n + 1]))
<1>1. CASE ~s.good
  <2>1. ReadLine(s, L[n + 1]) = s
    BY <1>1 DEF ReadLine
  <2>2. HasRead(L, n + 1, s)
    BY <1>1 DEF HasRead
  <2>3. QED
    BY <2>1, <2>2
<1>2. CASE s.good /\ L[n + 1].kind = "malformed"
  <2>1. n + 1 \in 1 .. Len(L)
    OBVIOUS
  <2>2. ~WellFormed(L)
    BY <1>2, <2>1, NotWellFormed
  <2>3. ReadLine(s, L[n + 1]) = Refused(s)
    BY <1>2 DEF ReadLine
  <2>4. QED
    BY <2>2, <2>3, GivesUp
<1>3. CASE s.good /\ L[n + 1].kind = "skipped"
  BY <1>3, ReadsSkipped DEF ReadLine
<1>4. CASE s.good /\ L[n + 1].kind = "pair"
  BY <1>4, ReadsPair DEF ReadLine
<1>5. CASE s.good /\ L[n + 1].kind = "header"
  BY <1>5, ReadsHeader DEF ReadLine
<1>6. QED
  BY <1>1, <1>2, <1>3, <1>4, <1>5 DEF HasRead

\* After the last line: the section that is open is stored.
LEMMA ReadsToTheEnd ==
  ASSUME NEW f, Len(f.lines) \in Nat, NEW s, HasRead(f.lines, Len(f.lines), s),
         NEW b \in BOOLEAN, b => f.newline \/ Len(f.lines) = 0
  PROVE  HasParsed(f, IF b THEN StoreLast(ReadPastEnd(s)) ELSE StoreLast(s))
<1> DEFINE L == f.lines
           n == Len(L)
           r == IF b THEN StoreLast(ReadPastEnd(s)) ELSE StoreLast(s)
<1>1. /\ HeaderAt(L) = HeadersTo(L, n) /\ NamedAt(L) = NamedTo(L, n)
      /\ NamedTo(L, n) \subseteq HeadersTo(L, n)
  BY WholeFile DEF NamedTo
<1>2. HeadersTo(L, n) \subseteq 1 .. n /\ n \in Nat
  BY DEF HeadersTo
\* The turn after the last line refuses the file.
<1>3. ASSUME s.good, b, ~(IsOpen(s) /\ s.line # {})
      PROVE  r.good = FALSE
  <2>1. ReadPastEnd(s) = Refused(s)
    BY <1>3 DEF ReadPastEnd
  <2>2. Refused(s) = [s EXCEPT !.good = FALSE]
    BY DEF Refused
  <2>3. Refused(s).good = FALSE
    BY <2>2 DEF HasRead
  <2>4. QED
    BY <1>3, <2>1, <2>3 DEF StoreLast
\* The parser has stored what there is.
<1>4. ASSUME r.good, WellTo(L, n), Stored(L, n, r.sections),
             r.sections = [k \in DOMAIN r.sections |-> r.sections[k]]
      PROVE  HasParsed(f, r)
  <2>1. r.sections = Meaning(L) /\ (DOMAIN r.sections # {} => WellFormed(L))
    <3> HIDE DEF r
    <3>1. QED
      BY <1>4, StoredIsMeaning
  <2> HIDE DEF r
  <2>2. QED
    BY <1>4, <2>1 DEF HasParsed
<1>5. CASE ~s.good
  <2>1. r = s
    BY <1>5 DEF StoreLast, ReadPastEnd
  <2>2. ~WellFormed(L)
    BY <1>5 DEF HasRead
  <2>3. QED
    BY <1>5, <2>1, <2>2 DEF HasParsed
<1>6. CASE /\ s.good
           /\ HeadersTo(L, n) = {} /\ DOMAIN s.sections = {} /\ s.sectionName = EmptyName
  <2>1. ~WellFormed(L)
    BY <1>1, <1>6 DEF WellFormed
  <2>2. r.good => r = s
    <3>1. CASE b
      BY <1>3, <1>6, <3>1 DEF IsOpen
    <3>2. CASE ~b
      BY <1>6, <3>2 DEF StoreLast, IsOpen
    <3>3. QED
      BY <3>1, <3>2
  <2> HIDE DEF r
  <2>3. HasParsed(f, r)
    BY <1>6, <2>1, <2>2 DEF HasParsed
  <2>4. QED
    BY <2>3 DEF r
<1>7. ASSUME s.good, NEW h \in HeadersTo(L, n), OpenAt(L, n, s, h)
      PROVE  HasParsed(f, r)
  <2>1. /\ HeadersTo(L, n) = HeadersTo(L, h - 1) \cup {h} /\ h \notin HeadersTo(L, h - 1)
        /\ NextHeader(L, h) = n + 1
        /\ NamedTo(L, n) = IF L[h].name = EmptyName THEN NamedTo(L, h - 1)
                                                    ELSE NamedTo(L, h - 1) \cup {h}
    <3>1. n + 1 \in HeaderAt(L) \cup {Len(L) + 1} /\ \A k \in HeadersTo(L, n) : k <= h
      BY <1>7 DEF OpenAt
    <3>2. QED
      BY <1>2, <3>1, LastHeader
  <2>2. /\ s.sectionName = L[h].name /\ s.current = SectionTo(L, h, n)
        /\ Stored(L, h - 1, s.sections)
        /\ s.line = {} => \A j \in h + 1 .. n : L[j].kind = "skipped"
        /\ L[h].name = EmptyName => s.line = {}
    BY <1>7 DEF OpenAt
  <2>3. /\ WellTo(L, n) /\ s.sections = [k \in DOMAIN s.sections |-> s.sections[k]]
        /\ h \in 1 .. n /\ h \in HeaderAt(L)
    BY <1>1, <1>2, <1>7 DEF HasRead
  <2>4. CASE b /\ s.line = {}
    <3>1. r.good = FALSE
      BY <1>3, <1>7, <2>4
    <3>2. f.newline
      BY <1>2, <2>3, <2>4
    <3>3. EndsInHeader(f)
      BY <2>2, <2>3, <2>4, <3>2 DEF EndsInHeader
    <3> HIDE DEF r
    <3>4. QED
      BY <3>1, <3>3 DEF HasParsed
  <2>5. CASE ~b /\ L[h].name = EmptyName
    <3>1. r = s
      BY <2>2, <2>5 DEF StoreLast, IsOpen
    <3>2. Stored(L, n, s.sections)
      BY <2>1, <2>2, <2>5 DEF Stored
    <3>3. QED
      BY <1>4, <1>7, <2>3, <3>1, <3>2
  <2>6. CASE ~(b /\ s.line = {}) /\ L[h].name # EmptyName
    <3> DEFINE sections == Emplace(s.sections, L[h].name, s.current)
    <3>1. r = StoreLast(s) /\ IsOpen(s)
      BY <2>2, <2>6 DEF ReadPastEnd, IsOpen
    <3>2. StoreLast(s) = [good |-> s.good, sections |-> sections, sectionName |-> EmptyName,
                          current |-> s.current, line |-> s.line]
      BY <1>7, <2>2, <3>1 DEF StoreLast, HasRead
    <3>3. r.good = TRUE /\ r.sections = sections
      BY <1>7, <3>1, <3>2 DEF HasRead
    <3>4. NamedTo(L, n) = NamedTo(L, h - 1) \cup {h} /\ h \notin NamedTo(L, h - 1) /\ h \in NamedAt(L)
      BY <1>1, <2>1, <2>6 DEF NamedTo
    <3>5. ASSUME \A j \in NamedTo(L, h - 1) : L[j].name # L[h].name
          PROVE  HasParsed(f, r)
      <4>1. L[h].name \notin DOMAIN s.sections
        BY <2>2, <3>5 DEF Stored
      <4>2. s.current = SectionTo(L, h, NextHeader(L, h) - 1)
        BY <1>2, <2>1, <2>2
      <4>3. Stored(L, n, sections) /\ sections = [k \in DOMAIN sections |-> sections[k]]
        BY <2>2, <3>4, <4>1, <4>2, StoresSection
      <4> HIDE DEF sections, r
      <4>4. QED
        BY <1>4, <2>3, <3>3, <4>3
    <3>6. ASSUME NEW j \in NamedTo(L, h - 1), L[j].name = L[h].name
          PROVE  HasParsed(f, r)
      <4>1. j < h /\ j \in NamedAt(L)
        BY <1>1, <3>4 DEF NamedTo, HeadersTo
      <4>2. RepeatsLast(L)
        BY <2>1, <3>4, <3>6, <4>1 DEF RepeatsLast
      <4>3. ~WellFormed(L)
        BY <2>3, <3>4, <3>6, <4>1 DEF WellFormed
      <4> HIDE DEF r
      <4>4. QED
        BY <4>2, <4>3 DEF HasParsed
    <3>7. QED
      BY <3>5, <3>6
  <2>7. QED
    BY <2>2, <2>4, <2>5, <2>6
<1>8. QED
  BY <1>5, <1>6, <1>7 DEF HasRead

----------------------------------------------------------------------------
(* IInv is inductive: the configuration. *)

\* Nothing is read of any file at first.
LEMMA InitiallyRead ==
  ASSUME NEW L
  PROVE  HasRead(L, 0, StartOfFile)
<1>1. HeadersTo(L, 0) = {} /\ 1 .. 0 = {}
  BY DEF HeadersTo
<1>2. /\ StartOfFile.good = TRUE /\ StartOfFile.sectionName = EmptyName
      /\ DOMAIN StartOfFile.sections = {}
      /\ StartOfFile.sections = [k \in DOMAIN StartOfFile.sections |-> StartOfFile.sections[k]]
      /\ StartOfFile = [good |-> StartOfFile.good, sections |-> StartOfFile.sections,
                        sectionName |-> StartOfFile.sectionName, current |-> StartOfFile.current,
                        line |-> StartOfFile.line]
  BY DEF StartOfFile
<1>3. WellTo(L, 0)
  BY <1>1 DEF WellTo
<1>4. QED
  BY <1>1, <1>2, <1>3 DEF HasRead

\* What the thread of Run does with the file and the sections.
LEMMA MainReads ==
  ASSUME IInv, Main
  PROVE  Parsing' /\ Parsed' /\ Configured'
<1> DEFINE L == configFile.lines
<1>0. /\ Len(L) \in Nat
      /\ \A i \in 1 .. Len(L) : L[i].kind \in {"header", "pair", "skipped", "malformed"}
      /\ configFile.newline \in BOOLEAN
      /\ lineNumber \in 0 .. Len(L)
  BY FilesAssumption DEF IInv, TypeOK
<1>1. ASSUME Initialize(config) PROVE DOMAIN config # {}
  BY <1>1 DEF Initialize, WithRole
<1>2. CASE Starts
  <2>1. UNCHANGED <<configFile, lineNumber, parser, config>> /\ main = "Starting" /\ main' = "Reading"
    BY <1>2 DEF Starts, parserVars
  <2>2. QED
    BY <2>1 DEF IInv, Parsing, Parsed, Configured
<1>3. CASE ReadsLine
  <2>1. /\ UNCHANGED <<configFile, config, main>> /\ main = "Reading"
        /\ lineNumber' = lineNumber + 1
        /\ parser' = ReadLine(parser, L[lineNumber + 1])
        /\ lineNumber # Len(L)
    BY <1>3 DEF ReadsLine, FileIsRead
  <2>2. /\ lineNumber \in Nat /\ lineNumber < Len(L)
        /\ L[lineNumber + 1].kind \in {"header", "pair", "skipped", "malformed"}
    BY <1>0, <2>1
  <2>3. HasRead(L, lineNumber, parser)
    BY <2>1 DEF IInv, Parsing
  <2>4. HasRead(L, lineNumber + 1, ReadLine(parser, L[lineNumber + 1]))
    <3> HIDE DEF L
    <3>1. QED
      BY <1>0, <2>2, <2>3, ReadsOn
  <2>5. Parsing'
    BY <2>1, <2>4 DEF Parsing
  <2>6. Parsed' /\ Configured'
    BY <2>1 DEF IInv, Parsed, Configured
  <2>7. QED
    BY <2>5, <2>6
<1>4. CASE EndsFile
  <2> DEFINE b == configFile.newline \/ configFile.lines = <<>>
  <2>1. /\ UNCHANGED <<configFile, lineNumber, config>> /\ main = "Reading" /\ main' = "Initializing"
        /\ lineNumber = Len(L)
        /\ parser' = IF b THEN StoreLast(ReadPastEnd(parser)) ELSE StoreLast(parser)
    BY <1>4 DEF EndsFile, FileIsRead
  <2>2. HasRead(configFile.lines, Len(configFile.lines), parser)
    BY <2>1 DEF IInv, Parsing
  <2>3. b \in BOOLEAN /\ (b => configFile.newline \/ Len(configFile.lines) = 0)
    BY <1>0
  <2> HIDE DEF b
  <2>4. HasParsed(configFile, parser')
    BY <1>0, <2>1, <2>2, <2>3, ReadsToTheEnd
  <2>5. Parsing' /\ Parsed' /\ Configured'
    BY <2>1, <2>4 DEF IInv, Parsing, Parsed, Configured
  <2>6. QED
    BY <2>5
<1>5. CASE AcceptsConfig
  <2>1. /\ UNCHANGED <<configFile, lineNumber, parser>> /\ main = "Initializing" /\ main' = "Launching"
        /\ parser.good /\ Initialize(parser.sections) /\ config' = parser.sections
    BY <1>5 DEF AcceptsConfig
  <2>2. QED
    BY <2>1 DEF IInv, Parsing, Parsed, Configured
<1>6. CASE RefusesConfig
  <2>1. /\ UNCHANGED <<configFile, lineNumber, parser, config>> /\ main = "Initializing" /\ main' = "Returned"
        /\ ~(parser.good /\ Initialize(parser.sections))
    BY <1>6 DEF RefusesConfig, parserVars
  <2>2. QED
    BY <2>1 DEF IInv, Parsing, Parsed, Configured
<1>7. CASE Launches \/ Runs \/ Wakes \/ Stops \/ CancelsListeners
  <2>1. /\ UNCHANGED <<configFile, lineNumber, parser, config>>
        /\ main \in {"Launching", "Launched", "Waiting", "Stopping", "Cancelling"}
        /\ main' \in {"Launched", "Waiting", "Stopping", "Cancelling", "Joining"}
    BY <1>7 DEF Launches, Runs, Wakes, Stops, CancelsListeners, parserVars
  <2>2. QED
    BY <2>1 DEF IInv, Parsing, Parsed, Configured
<1>8. CASE Joins
  <2>1. UNCHANGED <<configFile, lineNumber, parser, config>> /\ main = "Joining" /\ main' = "Returned"
    BY <1>8 DEF Joins, parserVars
  <2>2. DOMAIN config # {}
    BY <1>1, <2>1 DEF IInv, Configured
  <2>3. QED
    BY <2>1, <2>2 DEF IInv, Parsing, Parsed, Configured
<1>9. CASE ReportsEnd \/ Exits
  <2>1. /\ UNCHANGED <<configFile, lineNumber, parser, config>>
        /\ main \in {"Returned", "Reported"} /\ main' \in {"Reported", "Exited"}
    BY <1>9 DEF ReportsEnd, Exits, parserVars
  <2>2. QED
    BY <2>1 DEF IInv, Parsing, Parsed, Configured
<1>10. QED
  BY <1>2, <1>3, <1>4, <1>5, <1>6, <1>7, <1>8, <1>9 DEF Main

\* Nobody else touches them.
LEMMA ConfigurationStays ==
  ASSUME IInv, UNCHANGED <<configFile, lineNumber, parser, config, main>>
  PROVE  Parsing' /\ Parsed' /\ Configured'
BY DEF IInv, Parsing, Parsed, Configured

----------------------------------------------------------------------------
(* The loops. *)

Places == {"None", "Created", "Prepared", "Published", "Looping", "Instance", "Waiting",
           "Cancelled", "Failed"}
Outcomes == {"Idle", "Queued", "Refused", "proxy", "forward"}

\* TypeOKLoops, but that a pipe has one instance is said in Queues.
LoopTypes ==
  /\ kind \in [Listener -> LoopKinds \cup {"none"}]
  /\ place \in [Listener -> Places]
  /\ cancelEvent \in [Listener -> BOOLEAN]
  /\ signalled \in [Listener -> BOOLEAN]
  /\ file \in [Listener -> BOOLEAN]
  /\ queue \in [Listener -> SUBSET Client]
  /\ client \in [Client -> Outcomes]
  /\ early \in [Listener -> BOOLEAN]
  /\ \A c \in Client : (client[c] = "Queued") <=> \E l \in Listener : c \in queue[l]
  /\ \A l \in Listener : place[l] = "Waiting" /\ signalled[l] => queue[l] # {}

\* A step that concerns the listener l, and leaves it as it may be.
Turn(l) ==
  /\ kind' = kind
  /\ place' \in [Listener -> Places]
  /\ cancelEvent' \in [Listener -> BOOLEAN]
  /\ signalled' \in [Listener -> BOOLEAN]
  /\ file' \in [Listener -> BOOLEAN]
  /\ queue' \in [Listener -> SUBSET Client]
  /\ client' \in [Client -> Outcomes]
  /\ early' \in [Listener -> BOOLEAN]
  /\ \A m \in Listener \ {l} :
       place'[m] = place[m] /\ signalled'[m] = signalled[m] /\ queue'[m] = queue[m]
  /\ \A c \in Client :
       (client'[c] = "Queued") <=> c \in queue'[l] \/ \E m \in Listener \ {l} : c \in queue[m]
  /\ \A c \in queue'[l] : \A m \in Listener \ {l} : c \notin queue[m]
  /\ kind[l] = "namedpipe" => \A c, d \in queue'[l] : c = d
  /\ place'[l] = "Waiting" /\ signalled'[l] => queue'[l] # {}
  /\ place'[l] \in {"Created", "Prepared", "Published"} => ~signalled'[l]

\* A set with no two elements has one element at most.
LEMMA AtMostOne ==
  ASSUME NEW S, \A c, d \in S : c = d
  PROVE  Cardinality(S) <= 1
<1>1. CASE S = {}
  BY <1>1, FS_EmptySet
<1>2. CASE S # {}
  <2>1. PICK c : c \in S
    BY <1>2
  <2>2. S = {c}
    BY <2>1
  <2>3. QED
    <3>1. Cardinality({c}) = 1
      BY FS_Singleton
    <3>2. QED
      BY <2>2, <3>1
<1>3. QED
  BY <1>1, <1>2

\* TypeOKLoops is LoopTypes and Queues.
LEMMA LoopTypesHold ==
  ASSUME TypeOKLoops
  PROVE  LoopTypes
BY DEF TypeOKLoops, LoopTypes, Places, Outcomes

\* LoopTypes and Queues are all of TypeOKLoops.
LEMMA Assembled ==
  ASSUME LoopTypes', Queues'
  PROVE  TypeOKLoops'
<1>1. \A l \in Listener : kind'[l] = "namedpipe" => Cardinality(queue'[l]) <= 1
  BY AtMostOne DEF Queues
<1>2. QED
  BY <1>1 DEF TypeOKLoops, LoopTypes, Places, Outcomes

\* A turn of one listener keeps what is said of all of them.
LEMMA TurnKeeps ==
  ASSUME LoopTypes, Queues, NEW l \in Listener, Turn(l)
  PROVE  LoopTypes' /\ Queues'
<1>1. \A m \in Listener : m = l \/ m \in Listener \ {l}
  OBVIOUS
<1>2. \A c \in Client : (client'[c] = "Queued") <=> \E m \in Listener : c \in queue'[m]
  BY <1>1 DEF Turn
<1>3. \A m \in Listener : place'[m] = "Waiting" /\ signalled'[m] => queue'[m] # {}
  BY <1>1 DEF Turn, LoopTypes
<1>4. LoopTypes'
  BY <1>2, <1>3 DEF Turn, LoopTypes
<1>5. \A m, k \in Listener : \A c \in Client : c \in queue'[m] /\ c \in queue'[k] => m = k
  BY <1>1 DEF Turn, Queues
<1>6. \A m \in Listener :
        /\ kind'[m] = "namedpipe" => \A c, d \in queue'[m] : c = d
        /\ place'[m] \in {"Created", "Prepared", "Published"} => ~signalled'[m]
  BY <1>1 DEF Turn, Queues
<1>7. Queues'
  BY <1>5, <1>6 DEF Queues
<1>8. QED
  BY <1>4, <1>7

\* The thread goes on, and nothing else happens, but that the socket file may be made.
LEMMA ThreadGoesOn ==
  ASSUME LoopTypes, Queues, NEW l \in Listener,
         Prepares(l) \/ Publishes(l) \/ Listens(l) \/ CreatesPipe(l)
  PROVE  Turn(l)
<1>1. UNCHANGED <<kind, cancelEvent, signalled, queue, client, early>>
  BY DEF Prepares, Publishes, Listens, CreatesPipe
<1>2. PICK p \in Places :
        /\ place' = [place EXCEPT ![l] = p]
        /\ p \in {"Prepared", "Published", "Waiting"} =>
             place[l] \in {"Created", "Prepared", "Published"}
        /\ p # "Created"
  <2>1. CASE Prepares(l)
    BY <2>1 DEF Prepares, Goes, Places
  <2>2. CASE Publishes(l)
    BY <2>2 DEF Publishes, Goes, Places
  <2>3. CASE Listens(l)
    BY <2>3 DEF Listens, Goes, Places
  <2>4. CASE CreatesPipe(l)
    BY <2>4 DEF CreatesPipe, Goes, Places
  <2>5. QED
    BY <2>1, <2>2, <2>3, <2>4
<1>3. file' \in [Listener -> BOOLEAN]
  BY DEF Prepares, Publishes, Listens, CreatesPipe, LoopTypes
<1>4. /\ place' \in [Listener -> Places] /\ place'[l] = p
      /\ \A m \in Listener \ {l} : place'[m] = place[m]
  BY <1>2 DEF LoopTypes
<1>5. /\ place'[l] \in {"Created", "Prepared", "Published"} => ~signalled[l]
      /\ place'[l] = "Waiting" => ~signalled[l]
  BY <1>2, <1>4 DEF Queues
<1>6. \A c \in Client :
        (client[c] = "Queued") <=> c \in queue[l] \/ \E m \in Listener \ {l} : c \in queue[m]
  BY DEF LoopTypes
<1>7. \A c \in queue[l] : \A m \in Listener \ {l} : c \notin queue[m]
  BY DEF LoopTypes, Queues
<1>8. QED
  BY <1>1, <1>3, <1>4, <1>5, <1>6, <1>7 DEF Turn, LoopTypes, Queues

\* The connections at Q are no longer in the queue of l, and its thread is at p.
Shrinks(l, Q, p, outcome) ==
  /\ kind' = kind
  /\ place' = [place EXCEPT ![l] = p]
  /\ queue' = [queue EXCEPT ![l] = @ \ Q]
  /\ client' = [c \in Client |-> IF c \in Q THEN outcome ELSE client[c]]
  /\ cancelEvent' \in [Listener -> BOOLEAN] /\ file' \in [Listener -> BOOLEAN]
  /\ early' \in [Listener -> BOOLEAN] /\ signalled' \in [Listener -> BOOLEAN]
  /\ \A m \in Listener \ {l} : signalled'[m] = signalled[m]
  /\ p \notin {"Created", "Prepared", "Published"}
  /\ p = "Waiting" /\ signalled'[l] => queue[l] \ Q # {}

\* A queue that gets shorter leaves the loops as they have to be.
LEMMA QueueShrinks ==
  ASSUME LoopTypes, Queues, NEW l \in Listener,
         NEW Q \in SUBSET queue[l], NEW p \in Places,
         NEW outcome \in {"Refused", "proxy", "forward"}, Shrinks(l, Q, p, outcome)
  PROVE  Turn(l)
<1> USE DEF Shrinks
<1>1. /\ queue' \in [Listener -> SUBSET Client] /\ queue'[l] = queue[l] \ Q
      /\ \A m \in Listener \ {l} : queue'[m] = queue[m]
  BY DEF LoopTypes
<1>2. /\ place' \in [Listener -> Places] /\ place'[l] = p
      /\ \A m \in Listener \ {l} : place'[m] = place[m]
  BY DEF LoopTypes
<1>3. Q \subseteq Client /\ queue[l] \subseteq Client
  BY DEF LoopTypes
<1>4. client' \in [Client -> Outcomes]
  BY DEF LoopTypes, Outcomes
<1>5. \A c \in queue[l] : \A m \in Listener \ {l} : c \notin queue[m]
  BY <1>3 DEF Queues
<1>6. \A c \in Client : (client'[c] = "Queued") <=> c \notin Q /\ client[c] = "Queued"
  OBVIOUS
<1>7. \A c \in Client :
        (client[c] = "Queued") <=> c \in queue[l] \/ \E m \in Listener \ {l} : c \in queue[m]
  BY DEF LoopTypes
<1>8. \A c \in Client :
        (client'[c] = "Queued") <=> c \in queue'[l] \/ \E m \in Listener \ {l} : c \in queue[m]
  BY <1>1, <1>5, <1>6, <1>7
<1>9. kind[l] = "namedpipe" => \A c, d \in queue'[l] : c = d
  BY <1>1 DEF Queues
<1>10. QED
  BY <1>1, <1>2, <1>4, <1>5, <1>8, <1>9 DEF Turn

\* ListenLoop returns.
LEMMA ListenLoopReturns ==
  ASSUME LoopTypes, Queues, NEW l \in Listener, NEW p \in {"Cancelled", "Failed"}, LoopEnds(l, p)
  PROVE  Turn(l)
<1>1. /\ UNCHANGED <<kind, cancelEvent, signalled, early>>
      /\ place' = [place EXCEPT ![l] = p]
      /\ queue' = [queue EXCEPT ![l] = @ \ ClosedWith(l)]
      /\ client' = [c \in Client |-> IF c \in ClosedWith(l) THEN "Refused" ELSE client[c]]
  BY DEF LoopEnds, Goes
<1>2. file' \in [Listener -> BOOLEAN]
  <2>1. ASSUME NEW b \in BOOLEAN
        PROVE  [file EXCEPT ![l] = b] \in [Listener -> BOOLEAN]
    BY DEF LoopTypes
  <2>2. PICK b \in BOOLEAN : b = (file[l] /\ kind[l] # "unix")
    OBVIOUS
  <2>3. file' = [file EXCEPT ![l] = b]
    BY <2>2 DEF LoopEnds
  <2>4. QED
    BY <2>1, <2>3
<1>3. ClosedWith(l) \in SUBSET queue[l]
  BY DEF ClosedWith
<1>4. p \in Places /\ p \notin {"Created", "Prepared", "Published", "Waiting"}
  BY DEF Places
<1>5. /\ cancelEvent' \in [Listener -> BOOLEAN] /\ early' \in [Listener -> BOOLEAN]
      /\ signalled' \in [Listener -> BOOLEAN]
  BY <1>1 DEF LoopTypes
<1>6. Shrinks(l, ClosedWith(l), p, "Refused")
  BY <1>1, <1>2, <1>4, <1>5 DEF Shrinks
<1>7. QED
  BY <1>3, <1>4, <1>6, QueueShrinks

\* The loop of a named pipe fails, or hands its connection over, or its wait fails.
LEMMA PipeGoesOn ==
  ASSUME LoopTypes, Queues, NEW l \in Listener, NEW outcome \in {"Refused", "proxy", "forward"},
         PipeFails(l) \/ Connected(l, outcome) \/ PipeWaitFails(l)
  PROVE  Turn(l)
<1>1. UNCHANGED <<kind, signalled, file, early>>
  BY DEF PipeFails, Connected, PipeWaitFails
<1>2. PICK p \in Places, o \in {"Refused", "proxy", "forward"} :
        /\ place' = [place EXCEPT ![l] = p]
        /\ p \notin {"Created", "Prepared", "Published", "Waiting"}
        /\ client' = [c \in Client |-> IF c \in queue[l] THEN o ELSE client[c]]
        /\ queue' = [queue EXCEPT ![l] = {}]
  <2>1. CASE PipeFails(l)
    BY <2>1 DEF PipeFails, Goes, Places
  <2>2. CASE Connected(l, outcome)
    BY <2>2 DEF Connected, Goes, Places
  <2>3. CASE PipeWaitFails(l)
    BY <2>3 DEF PipeWaitFails, Goes, Places
  <2>4. QED
    BY <2>1, <2>2, <2>3
<1>3. cancelEvent' \in [Listener -> BOOLEAN]
  BY DEF PipeFails, Connected, PipeWaitFails, LoopTypes
<1>4. queue' = [queue EXCEPT ![l] = @ \ queue[l]]
  <2>1. queue[l] \ queue[l] = {}
    OBVIOUS
  <2>2. QED
    BY <1>2, <2>1
<1>5. /\ file' \in [Listener -> BOOLEAN] /\ early' \in [Listener -> BOOLEAN]
      /\ signalled' \in [Listener -> BOOLEAN]
  BY <1>1 DEF LoopTypes
<1>6. queue[l] \in SUBSET queue[l]
  OBVIOUS
<1>7. Shrinks(l, queue[l], p, o)
  BY <1>1, <1>2, <1>3, <1>4, <1>5 DEF Shrinks
<1>8. QED
  BY <1>2, <1>6, <1>7, QueueShrinks

\* A socket takes a connection; its event stays set while there are more.
LEMMA SocketAccepts ==
  ASSUME LoopTypes, Queues, NEW l \in Listener, NEW c \in Client,
         NEW outcome \in {"Refused", "proxy", "forward"}, Accepts(l, c, outcome)
  PROVE  Turn(l)
<1>1. /\ UNCHANGED <<kind, place, cancelEvent, file, early>>
      /\ place[l] = "Waiting" /\ c \in queue[l]
      /\ queue' = [queue EXCEPT ![l] = @ \ {c}]
      /\ client' = [client EXCEPT ![c] = outcome]
  BY DEF Accepts
<1>2. /\ signalled' \in [Listener -> BOOLEAN]
      /\ \A m \in Listener \ {l} : signalled'[m] = signalled[m]
      /\ signalled'[l] => queue[l] # {c}
  <2>1. ASSUME NEW b \in BOOLEAN
        PROVE  /\ [signalled EXCEPT ![l] = b] \in [Listener -> BOOLEAN]
               /\ \A m \in Listener \ {l} : [signalled EXCEPT ![l] = b][m] = signalled[m]
               /\ [signalled EXCEPT ![l] = b][l] = b
    BY DEF LoopTypes
  <2>2. PICK b \in BOOLEAN : b = (queue[l] # {c})
    OBVIOUS
  <2>3. signalled' = [signalled EXCEPT ![l] = b]
    BY <2>2 DEF Accepts, MoreToAccept
  <2>4. QED
    BY <2>1, <2>2, <2>3
<1>3. /\ place' = [place EXCEPT ![l] = "Waiting"]
      /\ client' = [d \in Client |-> IF d \in {c} THEN outcome ELSE client[d]]
      /\ queue' = [queue EXCEPT ![l] = @ \ {c}]
      /\ {c} \in SUBSET queue[l] /\ (signalled'[l] => queue[l] \ {c} # {})
  BY <1>1, <1>2 DEF LoopTypes
<1>4. /\ kind' = kind /\ cancelEvent' \in [Listener -> BOOLEAN]
      /\ file' \in [Listener -> BOOLEAN] /\ early' \in [Listener -> BOOLEAN]
  BY <1>1 DEF LoopTypes
<1>5. "Waiting" \in Places /\ "Waiting" \notin {"Created", "Prepared", "Published"}
  BY DEF Places
<1>6. Shrinks(l, {c}, "Waiting", outcome)
  BY <1>2, <1>3, <1>4, <1>5 DEF Shrinks
<1>7. QED
  BY <1>3, <1>5, <1>6, QueueShrinks

\* ConnectNamedPipe resets the event.
LEMMA PipeWaits ==
  ASSUME LoopTypes, Queues, NEW l \in Listener, ConnectsNamedPipe(l)
  PROVE  Turn(l)
<1>1. /\ UNCHANGED <<kind, cancelEvent, file, queue, client>>
      /\ signalled' = [signalled EXCEPT ![l] = FALSE]
      /\ place' = [place EXCEPT ![l] = "Waiting"]
  BY DEF ConnectsNamedPipe, SignalOfConnect, Goes
<1>2. early' \in [Listener -> BOOLEAN]
  <2>1. PICK b \in BOOLEAN : b = (queue[l] # {})
    OBVIOUS
  <2>2. early' = [early EXCEPT ![l] = b]
    BY <2>1 DEF ConnectsNamedPipe
  <2>3. QED
    BY <2>2 DEF LoopTypes
<1>3. /\ place' \in [Listener -> Places] /\ place'[l] = "Waiting"
      /\ \A m \in Listener \ {l} : place'[m] = place[m]
      /\ signalled' \in [Listener -> BOOLEAN] /\ ~signalled'[l]
      /\ \A m \in Listener \ {l} : signalled'[m] = signalled[m]
  BY <1>1 DEF LoopTypes, Places
<1>4. \A c \in Client :
        (client[c] = "Queued") <=> c \in queue[l] \/ \E m \in Listener \ {l} : c \in queue[m]
  BY DEF LoopTypes
<1>5. \A c \in queue[l] : \A m \in Listener \ {l} : c \notin queue[m]
  BY DEF LoopTypes, Queues
<1>6. QED
  BY <1>1, <1>2, <1>3, <1>4, <1>5 DEF Turn, LoopTypes, Queues

\* A program that connects to a listener that can take it waits in its queue.
LEMMA ProgramQueues ==
  ASSUME LoopTypes, Queues, NEW l \in Listener, NEW c \in Client, client[c] = "Idle",
         kind[l] = "namedpipe" => queue[l] = {},
         place[l] \notin {"Created", "Prepared", "Published"},
         UNCHANGED <<kind, place, cancelEvent, file, early>>,
         client' = [client EXCEPT ![c] = "Queued"],
         queue' = [queue EXCEPT ![l] = @ \cup {c}],
         NEW b \in BOOLEAN, signalled' = [signalled EXCEPT ![l] = b]
  PROVE  Turn(l)
<1>1. /\ queue' \in [Listener -> SUBSET Client] /\ queue'[l] = queue[l] \cup {c}
      /\ \A m \in Listener \ {l} : queue'[m] = queue[m]
  BY DEF LoopTypes
<1>2. /\ signalled' \in [Listener -> BOOLEAN]
      /\ \A m \in Listener \ {l} : signalled'[m] = signalled[m]
  BY DEF LoopTypes
<1>3. /\ client' \in [Client -> Outcomes] /\ client'[c] = "Queued"
      /\ \A d \in Client \ {c} : client'[d] = client[d]
  BY DEF LoopTypes, Outcomes
<1>4. \A m \in Listener : c \notin queue[m]
  BY DEF LoopTypes
<1>5. \A d \in Client :
        (client[d] = "Queued") <=> d \in queue[l] \/ \E m \in Listener \ {l} : d \in queue[m]
  BY DEF LoopTypes
<1>6. \A d \in Client :
        (client'[d] = "Queued") <=> d \in queue'[l] \/ \E m \in Listener \ {l} : d \in queue[m]
  BY <1>1, <1>3, <1>5
<1>7. \A d \in queue'[l] : \A m \in Listener \ {l} : d \notin queue[m]
  BY <1>1, <1>4 DEF Queues, LoopTypes
<1>8. kind[l] = "namedpipe" => \A d, e \in queue'[l] : d = e
  BY <1>1
<1>9. QED
  BY <1>1, <1>2, <1>3, <1>6, <1>7, <1>8 DEF Turn, LoopTypes

\* A program that connects is queued, or refused by a socket that does not listen.
LEMMA ProgramConnects ==
  ASSUME LoopTypes, Queues, NEW l \in Listener, NEW c \in Client,
         ConnectsToPipe(c, l) \/ ConnectsToSocket(c, l)
  PROVE  Turn(l)
<1>1. CASE ConnectsToPipe(c, l)
  <2>1. PICK b \in BOOLEAN : b = (signalled[l] \/ place[l] = "Waiting")
    OBVIOUS
  <2>2. signalled' = [signalled EXCEPT ![l] = b]
    BY <1>1, <2>1 DEF ConnectsToPipe
  <2>3. /\ client[c] = "Idle" /\ queue[l] = {} /\ place[l] \in {"Instance", "Waiting"}
        /\ UNCHANGED <<kind, place, cancelEvent, file, early>>
        /\ client' = [client EXCEPT ![c] = "Queued"]
        /\ queue' = [queue EXCEPT ![l] = {c}]
    BY <1>1 DEF ConnectsToPipe
  <2>4. queue' = [queue EXCEPT ![l] = @ \cup {c}]
    BY <2>3
  <2>5. QED
    BY <2>2, <2>3, <2>4, ProgramQueues
<1>2. ASSUME ConnectsToSocket(c, l)
      PROVE  \E answer \in {"Queued", "Refused"} :
               /\ client[c] = "Idle" /\ kind[l] # "namedpipe"
               /\ UNCHANGED <<kind, place, cancelEvent, file, early>>
               /\ client' = [client EXCEPT ![c] = answer]
               /\ answer = "Queued" =>
                    /\ place[l] \notin {"Created", "Prepared", "Published"}
                    /\ queue' = [queue EXCEPT ![l] = @ \cup {c}]
                    /\ signalled' = [signalled EXCEPT ![l] = TRUE]
               /\ answer = "Refused" => UNCHANGED <<queue, signalled>>
  <2>1. PICK answer \in Answers(l) :
          /\ client' = [client EXCEPT ![c] = answer]
          /\ IF answer = "Queued"
               THEN /\ queue' = [queue EXCEPT ![l] = @ \cup {c}]
                    /\ signalled' = [signalled EXCEPT ![l] = TRUE]
               ELSE UNCHANGED <<queue, signalled>>
    BY <1>2 DEF ConnectsToSocket
  <2>2. /\ answer \in {"Queued", "Refused"}
        /\ answer = "Queued" => place[l] \in {"Waiting", "Cancelled", "Failed"}
    BY DEF Answers
  <2>3. QED
    BY <1>2, <2>1, <2>2 DEF ConnectsToSocket
<1>3. CASE ConnectsToSocket(c, l)
  <2>0. PICK answer \in {"Queued", "Refused"} :
          /\ client[c] = "Idle" /\ kind[l] # "namedpipe"
          /\ UNCHANGED <<kind, place, cancelEvent, file, early>>
          /\ client' = [client EXCEPT ![c] = answer]
          /\ answer = "Queued" =>
               /\ place[l] \notin {"Created", "Prepared", "Published"}
               /\ queue' = [queue EXCEPT ![l] = @ \cup {c}]
               /\ signalled' = [signalled EXCEPT ![l] = TRUE]
          /\ answer = "Refused" => UNCHANGED <<queue, signalled>>
    BY <1>2, <1>3
  <2>1. CASE answer = "Queued"
    BY <2>0, <2>1, ProgramQueues
  <2>2. CASE answer = "Refused"
    <3>1. /\ client' \in [Client -> Outcomes]
          /\ \A d \in Client : (client'[d] = "Queued") <=> (client[d] = "Queued")
      BY <2>0, <2>2 DEF LoopTypes, Outcomes
    <3>2. \A d \in Client :
            (client[d] = "Queued") <=> d \in queue[l] \/ \E m \in Listener \ {l} : d \in queue[m]
      BY DEF LoopTypes
    <3>3. \A d \in queue[l] : \A m \in Listener \ {l} : d \notin queue[m]
      BY DEF LoopTypes, Queues
    <3>4. QED
      BY <2>0, <2>2, <3>1, <3>2, <3>3 DEF Turn, LoopTypes, Queues
  <2>3. QED
    BY <2>1, <2>2
<1>4. QED
  BY <1>1, <1>3

----------------------------------------------------------------------------
(* IInv is inductive: the types, the status and the loops. *)

\* TypeOK, but for the loops.
ProgramTypes ==
  /\ configFile \in Files
  /\ lineNumber \in 0..Len(configFile.lines)
  /\ isService \in BOOLEAN
  /\ main \in {"Starting", "Reading", "Initializing", "Launching", "Launched", "Waiting", "Stopping",
               "Cancelling", "Joining", "Returned", "Reported", "Exited"}
  /\ cancelled \in BOOLEAN
  /\ errorEvent \in BOOLEAN
  /\ exitCode \in {0, 1}
  /\ status \in {"None", "START_PENDING", "RUNNING", "STOP_PENDING", "STOPPED"}
  /\ isService => (status = "None") = (main = "Starting")
  /\ handler \in {"Unused", "Entered", "Reported", "Done"}
  /\ late \in BOOLEAN

\* A step that leaves the loops alone.
LEMMA LoopsStay ==
  ASSUME UNCHANGED loopVars
  PROVE  /\ TypeOKLoops => TypeOKLoops'
         /\ Queues => Queues'
         /\ InitLoops => InitLoops'
BY DEF loopVars, TypeOKLoops, Queues, InitLoops

\* The state of the program after a step of the thread of Run.
LEMMA MainKeepsTypes ==
  ASSUME ProgramTypes, Reporting, Main
  PROVE  ProgramTypes' /\ Reporting'
<1>1. CASE Starts
  BY <1>1 DEF Starts, ReportStatus, ProgramTypes, Reporting, parserVars
<1>2. CASE ReadsLine
  <2>1. /\ lineNumber' \in 0 .. Len(configFile.lines)
        /\ main = "Reading"
        /\ UNCHANGED <<configFile, isService, main, cancelled, errorEvent, exitCode, status,
                       handler, late>>
    <3>1. Len(configFile.lines) \in Nat
      BY FilesAssumption DEF ProgramTypes
    <3>2. lineNumber' = lineNumber + 1 /\ lineNumber # Len(configFile.lines)
      BY <1>2 DEF ReadsLine, FileIsRead
    <3>3. lineNumber' \in 0 .. Len(configFile.lines)
      BY <3>1, <3>2 DEF ProgramTypes
    <3>4. QED
      BY <1>2, <3>3 DEF ReadsLine, serviceVars
  <2>2. QED
    BY <2>1 DEF ProgramTypes, Reporting
<1>3. CASE EndsFile \/ AcceptsConfig
  <2>1. /\ main \in {"Reading", "Initializing"} /\ main' \in {"Initializing", "Launching"}
        /\ UNCHANGED <<configFile, lineNumber, isService, cancelled, errorEvent, exitCode, status,
                       handler, late>>
    BY <1>3 DEF EndsFile, AcceptsConfig, serviceVars
  <2>2. QED
    BY <2>1 DEF ProgramTypes, Reporting
<1>4. CASE RefusesConfig \/ Launches \/ Wakes \/ CancelsListeners \/ Joins \/ Exits
  <2>1. /\ main \in {"Initializing", "Launching", "Waiting", "Cancelling", "Joining", "Reported"}
        /\ main' \in {"Returned", "Launched", "Stopping", "Joining", "Exited"}
        /\ exitCode' \in {0, 1}
        /\ UNCHANGED <<configFile, lineNumber, isService, cancelled, errorEvent, status,
                       handler, late>>
    BY <1>4 DEF RefusesConfig, Launches, Wakes, CancelsListeners, Joins, Exits, parserVars,
       serviceVars, ProgramTypes
  <2>2. QED
    BY <2>1 DEF ProgramTypes, Reporting
<1>5. CASE Runs \/ Stops \/ ReportsEnd
  <2>1. /\ main \in {"Launched", "Stopping", "Returned"}
        /\ main' \in {"Waiting", "Cancelling", "Reported"}
        /\ status' \in {status} \cup IF isService THEN {"RUNNING", "STOP_PENDING", "STOPPED"} ELSE {}
        /\ UNCHANGED <<configFile, lineNumber, isService, cancelled, errorEvent, exitCode,
                       handler, late>>
    BY <1>5 DEF Runs, Stops, ReportsEnd, ReportStatus, parserVars
  <2>2. QED
    BY <2>1 DEF ProgramTypes, Reporting
<1>6. QED
  BY <1>1, <1>2, <1>3, <1>4, <1>5 DEF Main

\* The state of the program after a step of anybody else, who leaves the file and the thread of
\* Run alone.
LEMMA OthersKeepTypes ==
  ASSUME ProgramTypes, Reporting, EntersHandler \/ Service
  PROVE  ProgramTypes' /\ Reporting'
<1>1. CASE EntersHandler
  <2>1. /\ UNCHANGED <<configFile, lineNumber, isService, main, cancelled, errorEvent, exitCode,
                       status, late>>
        /\ handler' = "Entered" /\ status = "RUNNING"
    BY <1>1 DEF EntersHandler, programVars, parserVars
  <2>2. main # "Starting" /\ isService
    BY <2>1 DEF ProgramTypes, Reporting
  <2>3. QED
    BY <2>1, <2>2 DEF ProgramTypes, Reporting
<1>2. CASE HandlerReports
  <2>1. /\ UNCHANGED <<configFile, lineNumber, isService, main, cancelled, errorEvent, exitCode>>
        /\ handler = "Entered" /\ handler' = "Reported"
        /\ status' = IF isService THEN "STOP_PENDING" ELSE status
        /\ late' \in BOOLEAN
    BY <1>2 DEF HandlerReports, ReportStatus, programVars, parserVars
  <2>2. main # "Starting"
    BY <2>1 DEF Reporting
  <2>3. QED
    BY <2>1, <2>2 DEF ProgramTypes, Reporting
<1>3. CASE HandlerCancels
  <2>1. /\ UNCHANGED <<configFile, lineNumber, isService, main, errorEvent, exitCode, status, late>>
        /\ handler = "Reported" /\ handler' = "Done" /\ cancelled' = TRUE
    BY <1>3 DEF HandlerCancels, SetCancelEvent, parserVars
  <2>2. QED
    BY <2>1 DEF ProgramTypes, Reporting
<1>4. QED
  BY <1>1, <1>2, <1>3 DEF Service

\* The loops after a step of the thread of Run.
LEMMA MainKeepsLoops ==
  ASSUME ProgramTypes, TypeOKLoops, Loops, Main
  PROVE  TypeOKLoops' /\ Loops'
<1>1. CASE Starts \/ ReadsLine \/ EndsFile \/ AcceptsConfig
  <2>1. /\ UNCHANGED loopVars
        /\ main \in {"Starting", "Reading", "Initializing"}
        /\ main' \in {"Reading", "Initializing", "Launching"}
    BY <1>1 DEF Starts, ReadsLine, EndsFile, AcceptsConfig
  <2>2. QED
    BY <2>1, LoopsStay DEF Loops
<1>2. CASE RefusesConfig
  <2>1. UNCHANGED loopVars /\ main = "Initializing" /\ main' = "Returned"
    BY <1>2 DEF RefusesConfig
  <2>2. \A l \in Listener : place[l] = "None"
    BY <2>1 DEF Loops, InitLoops
  <2>3. place' = place
    BY <2>1 DEF loopVars
  <2>4. QED
    BY <2>1, <2>2, <2>3, LoopsStay DEF Loops
<1>3. CASE Runs \/ Wakes \/ Stops
  <2>1. UNCHANGED loopVars /\ main' \in {"Waiting", "Stopping", "Cancelling"}
    BY <1>3 DEF Runs, Wakes, Stops
  <2>2. QED
    BY <2>1, LoopsStay DEF Loops
<1>4. CASE Joins \/ ReportsEnd
  <2>1. /\ UNCHANGED loopVars /\ main' \in {"Returned", "Reported"}
        /\ \A l \in Listener : place[l] \in {"None", "Cancelled", "Failed"}
    BY <1>4 DEF Joins, ReportsEnd, Loops
  <2>2. place' = place
    BY <2>1 DEF loopVars
  <2>3. QED
    BY <2>1, <2>2, LoopsStay DEF Loops
<1>5. CASE Launches
  <2>1. /\ main' = "Launched" /\ InitLoops
        /\ kind' = [l \in Listener |->
             IF l \in WithRole(config, "listener") /\ config[l]["type"] \in LoopKinds
               THEN config[l]["type"] ELSE "none"]
        /\ place' = [l \in Listener |-> IF kind'[l] = "none" THEN "None" ELSE "Created"]
        /\ UNCHANGED <<cancelEvent, signalled, file, queue, client, early>>
    BY <1>5 DEF Launches, Loops
  <2>2. kind' \in [Listener -> LoopKinds \cup {"none"}]
    BY <2>1
  <2>3. place' \in [Listener -> Places] /\ \A l \in Listener : place'[l] # "Waiting"
    BY <2>1 DEF Places
  <2>4. LoopTypes'
    BY <2>1, <2>2, <2>3 DEF LoopTypes, InitLoops, Outcomes
  <2>5. Queues'
    BY <2>1 DEF Queues, InitLoops
  <2>6. QED
    BY <2>1, <2>4, <2>5, Assembled DEF Loops
<1>6. CASE CancelsListeners
  <2>1. /\ main' = "Joining"
        /\ cancelEvent' = [l \in Listener |-> cancelEvent[l] \/ l \in ThoseToCancel]
        /\ UNCHANGED <<kind, place, signalled, file, queue, client, early>>
    BY <1>6 DEF CancelsListeners
  <2>2. \A l \in Listener : (cancelEvent[l] \/ l \in ThoseToCancel) \in BOOLEAN
    OBVIOUS
  <2>3. cancelEvent' \in [Listener -> BOOLEAN]
    BY <2>1, <2>2
  <2>4. TypeOKLoops' /\ Queues'
    BY <2>1, <2>3 DEF TypeOKLoops, Queues, Loops
  <2>5. QED
    BY <2>1, <2>4 DEF Loops
<1>7. CASE Exits
  <2>1. /\ main = "Reported" /\ main' = "Exited"
        /\ queue' = [l \in Listener |-> {}]
        /\ client' = [c \in Client |-> IF client[c] = "Queued" THEN "Refused" ELSE client[c]]
        /\ UNCHANGED <<kind, place, cancelEvent, signalled, file, early>>
    BY <1>7 DEF Exits
  <2>2. \A l \in Listener : place[l] \in {"None", "Cancelled", "Failed"}
    BY <2>1 DEF Loops
  <2>3. LoopTypes
    BY LoopTypesHold
  <2>4. client' \in [Client -> Outcomes] /\ \A c \in Client : client'[c] # "Queued"
    BY <2>1, <2>3 DEF LoopTypes, Outcomes
  <2>5. LoopTypes'
    BY <2>1, <2>2, <2>3, <2>4 DEF LoopTypes
  <2>6. Queues'
    BY <2>1 DEF Queues, Loops
  <2>7. QED
    BY <2>1, <2>2, <2>5, <2>6, Assembled DEF Loops
<1>8. QED
  BY <1>1, <1>2, <1>3, <1>4, <1>5, <1>6, <1>7 DEF Main

\* The loops after a turn of a listener.
LEMMA TurnKeepsLoops ==
  ASSUME TypeOKLoops, Loops, main' = main, NEW l \in Listener, Turn(l),
         \/ place[l] \notin {"None", "Cancelled", "Failed"}
         \/ place' = place /\ ~InitLoops
  PROVE  TypeOKLoops' /\ Loops'
<1>1. LoopTypes' /\ Queues'
  BY LoopTypesHold, TurnKeeps DEF Loops
<1>2. InitLoops => place[l] = "None"
  BY DEF InitLoops
<1>3. ~InitLoops
  BY <1>2
<1>4. main \in {"Returned", "Reported", "Exited"} => place' = place
  BY DEF Loops
<1>5. QED
  BY <1>1, <1>3, <1>4, Assembled DEF Loops

\* The steps of a thread and of a program that connects, as turns.
LEMMA StepsAreTurns ==
  ASSUME TypeOKLoops, Loops, NEW l \in Listener,
         \/ ListenerSteps(l)
         \/ FailsToListen(l) \/ SocketFails(l) \/ PipeFails(l) \/ PipeWaitFails(l)
         \/ \E c \in Client : ConnectsToPipe(c, l) \/ ConnectsToSocket(c, l)
  PROVE  Turn(l)
<1>1. LoopTypes /\ Queues
  BY LoopTypesHold DEF Loops
<1>2. Manager(l) \in {"proxy", "forward"}
  BY DEF Manager, ManagerOf
<1>3. CASE Prepares(l) \/ Publishes(l) \/ Listens(l) \/ CreatesPipe(l)
  BY <1>1, <1>3, ThreadGoesOn
<1>4. CASE SeesCancel(l)
  BY <1>1, <1>4, ListenLoopReturns DEF SeesCancel
<1>5. CASE FailsToListen(l) \/ SocketFails(l)
  BY <1>1, <1>5, ListenLoopReturns DEF FailsToListen, SocketFails
<1>6. CASE PipeFails(l) \/ PipeWaitFails(l)
  BY <1>1, <1>6, PipeGoesOn
<1>7. CASE ConnectsNamedPipe(l)
  BY <1>1, <1>7, PipeWaits
<1>8. CASE \E outcome \in {Manager(l), "Refused"} : Connected(l, outcome)
  BY <1>1, <1>2, <1>8, PipeGoesOn
<1>9. CASE \E outcome \in {Manager(l), "Refused"} : \E d \in Client : Accepts(l, d, outcome)
  BY <1>1, <1>2, <1>9, SocketAccepts
<1>10. CASE \E c \in Client : ConnectsToPipe(c, l) \/ ConnectsToSocket(c, l)
  BY <1>1, <1>10, ProgramConnects
<1>11. QED
  BY <1>3, <1>4, <1>5, <1>6, <1>7, <1>8, <1>9, <1>10 DEF ListenerSteps

----------------------------------------------------------------------------
\* TypeOK is what is said of the program and of the loops.
LEMMA TypesOfBoth ==
  ASSUME ProgramTypes', TypeOKLoops'
  PROVE  TypeOK'
BY DEF TypeOK, ProgramTypes

\* The invariant holds at first.
LEMMA Initially ==
  ASSUME Init
  PROVE  IInv
<1>1. TypeOKLoops
  <2>1. \A l \in Listener : Cardinality(queue[l]) <= 1
    BY FS_EmptySet DEF Init, InitLoops
  <2>2. QED
    BY <2>1 DEF Init, InitLoops, TypeOKLoops
<1>2. TypeOK
  <2>1. configFile \in Files /\ lineNumber = 0
    BY DEF Init
  <2>2. Len(configFile.lines) \in Nat
    BY <2>1, FilesAssumption
  <2>3. lineNumber \in 0 .. Len(configFile.lines)
    BY <2>1, <2>2
  <2>4. isService => (status = "None") = (main = "Starting")
    BY DEF Init
  <2>5. QED
    BY <1>1, <2>3, <2>4 DEF Init, TypeOK
<1>3. Parsing /\ Parsed
  BY InitiallyRead DEF Init, Parsing, Parsed
<1>4. Configured
  BY DEF Init, Configured, StartOfFile
<1>5. Reporting
  BY DEF Init, Reporting
<1>6. Loops
  BY DEF Init, InitLoops, Loops, Queues
<1>7. QED
  BY <1>2, <1>3, <1>4, <1>5, <1>6 DEF IInv

\* The invariant is kept by every step.
LEMMA Step ==
  ASSUME IInv, [Next]_vars
  PROVE  IInv'
<1>0. ProgramTypes /\ TypeOKLoops /\ Reporting /\ Loops
  BY DEF IInv, TypeOK, ProgramTypes
<1>1. CASE Main
  <2>1. Parsing' /\ Parsed' /\ Configured'
    BY <1>1, MainReads
  <2>2. ProgramTypes' /\ Reporting'
    BY <1>0, <1>1, MainKeepsTypes
  <2>3. TypeOKLoops' /\ Loops'
    BY <1>0, <1>1, MainKeepsLoops
  <2>4. QED
    BY <2>1, <2>2, <2>3, TypesOfBoth DEF IInv
<1>2. CASE EntersHandler \/ Service
  <2>1. UNCHANGED <<configFile, lineNumber, parser, config, main>> /\ UNCHANGED loopVars
    BY <1>2 DEF EntersHandler, Service, HandlerReports, HandlerCancels, programVars, parserVars
  <2>2. Parsing' /\ Parsed' /\ Configured'
    BY <2>1, ConfigurationStays
  <2>3. ProgramTypes' /\ Reporting'
    BY <1>0, <1>2, OthersKeepTypes
  <2>4. TypeOKLoops' /\ Loops'
    BY <1>0, <2>1, LoopsStay DEF Loops, loopVars
  <2>5. QED
    BY <2>2, <2>3, <2>4, TypesOfBoth DEF IInv
<1>3. ASSUME NEW l \in Listener, ListenerThread(l) \/ ListenerFails(l) \/ WaitFails(l)
      PROVE  IInv'
  <2>1. /\ UNCHANGED <<parserVars, main, cancelled, exitCode, serviceVars>>
        /\ errorEvent' \in {errorEvent, TRUE}
        /\ ThreadRuns(l)
    BY <1>3 DEF ListenerThread, ListenerFails, WaitFails, programVars
  <2>2. ListenerSteps(l) \/ FailsToListen(l) \/ SocketFails(l) \/ PipeFails(l) \/ PipeWaitFails(l)
    BY <1>3 DEF ListenerThread, ListenerFails, WaitFails
  <2>3. Turn(l)
    BY <1>0, <2>2, StepsAreTurns
  <2>4. TypeOKLoops' /\ Loops'
    <3>1. main' = main /\ place[l] \notin {"None", "Cancelled", "Failed"}
      BY <2>1 DEF ThreadRuns
    <3>2. QED
      BY <1>0, <2>3, <3>1, TurnKeepsLoops
  <2>5. ProgramTypes' /\ Reporting'
    <3>1. errorEvent' \in BOOLEAN
      BY <1>0, <2>1 DEF ProgramTypes
    <3>2. UNCHANGED <<configFile, lineNumber, isService, main, cancelled, exitCode, status, handler, late>>
      BY <2>1 DEF parserVars, serviceVars
    <3>3. QED
      BY <1>0, <3>1, <3>2 DEF ProgramTypes, Reporting
  <2>6. Parsing' /\ Parsed' /\ Configured'
    BY <2>1, ConfigurationStays DEF parserVars
  <2>7. QED
    BY <2>4, <2>5, <2>6, TypesOfBoth DEF IInv
<1>4. ASSUME NEW c \in Client, Connects(c)
      PROVE  IInv'
  <2>1. UNCHANGED <<parserVars, main, cancelled, errorEvent, exitCode, serviceVars>>
    BY <1>4 DEF Connects, programVars
  <2>2. PICK l \in Listener : ConnectsToPipe(c, l) \/ ConnectsToSocket(c, l)
    BY <1>4 DEF Connects
  <2>3. Turn(l)
    BY <1>0, <2>2, StepsAreTurns
  <2>4. place' = place /\ (kind[l] = "namedpipe" \/ file[l])
    BY <2>2 DEF ConnectsToPipe, ConnectsToSocket
  <2>5. ~InitLoops
    BY <2>4 DEF InitLoops
  <2>6. TypeOKLoops' /\ Loops'
    BY <1>0, <2>1, <2>3, <2>4, <2>5, TurnKeepsLoops
  <2>7. ProgramTypes' /\ Reporting'
    BY <1>0, <2>1 DEF ProgramTypes, Reporting, parserVars, serviceVars
  <2>8. Parsing' /\ Parsed' /\ Configured'
    BY <2>1, ConfigurationStays DEF parserVars
  <2>9. QED
    BY <2>6, <2>7, <2>8, TypesOfBoth DEF IInv
<1>5. CASE UNCHANGED vars
  <2>1. UNCHANGED <<parserVars, main, cancelled, errorEvent, exitCode, serviceVars>> /\ UNCHANGED loopVars
    BY <1>5 DEF vars, programVars
  <2>2. TypeOKLoops' /\ Loops'
    BY <1>0, <2>1, LoopsStay DEF Loops, loopVars
  <2>3. ProgramTypes' /\ Reporting'
    BY <1>0, <2>1 DEF ProgramTypes, Reporting, parserVars, serviceVars
  <2>4. Parsing' /\ Parsed' /\ Configured'
    BY <2>1, ConfigurationStays DEF parserVars
  <2>5. QED
    BY <2>2, <2>3, <2>4, TypesOfBoth DEF IInv
<1>6. QED
  BY <1>1, <1>2, <1>3, <1>4, <1>5 DEF Next

\* The inductive invariant holds in every state of the program.
THEOREM Invariance == Spec => []IInv
<1>1. Init => IInv
  BY Initially
<1>2. IInv /\ [Next]_vars => IInv'
  BY Step
<1>3. QED
  BY <1>1, <1>2, PTL DEF Spec

\* The state of the program, of its listeners' threads and of the connections that wait keeps its
\* types: in particular a connection waits with one listener, a pipe has one, and a listener
\* whose event is set while it waits has a connection to take.
THEOREM TypesHold == Spec => []TypeOK
<1>1. IInv => TypeOK
  BY DEF IInv
<1>2. QED
  BY <1>1, Invariance, PTL

\* For every configuration file, of any length: ParseIniFile and Initialize accept the files that
\* are well formed and legal, refuse the others, and the program runs with what the file says,
\* but for the two exceptions that RunsAsConfigured names (ini_parse.cpp:35-96).
THEOREM MeaningKept == Spec => []RunsAsConfigured
<1>1. IInv => RunsAsConfigured
  <2> SUFFICES ASSUME IInv PROVE RunsAsConfigured
    OBVIOUS
  <2> DEFINE L == configFile.lines
  <2>1. ASSUME main = "Launching", ~RepeatsLast(L)
        PROVE  WellFormed(L) /\ Initialize(Meaning(L)) /\ config = Meaning(L)
    <3>1. parser.good /\ config = parser.sections /\ Initialize(config)
      BY <2>1 DEF IInv, Configured
    <3>2. DOMAIN parser.sections # {}
      BY <3>1 DEF Initialize, WithRole
    <3>3. HasParsed(configFile, parser)
      BY <2>1 DEF IInv, Parsed
    <3>4. WellFormed(L) /\ parser.sections = Meaning(L)
      BY <2>1, <3>1, <3>2, <3>3 DEF HasParsed
    <3>5. QED
      BY <3>1, <3>4
  <2>2. ASSUME main = "Returned", DOMAIN config = {}, ~EndsInHeader(configFile)
        PROVE  ~WellFormed(L) \/ ~Initialize(Meaning(L))
    <3>1. ~(parser.good /\ Initialize(parser.sections))
      BY <2>2 DEF IInv, Configured
    <3>2. HasParsed(configFile, parser)
      BY <2>2 DEF IInv, Parsed
    <3>3. WellFormed(L) => parser.good /\ parser.sections = Meaning(L)
      BY <2>2, <3>2 DEF HasParsed
    <3>4. QED
      BY <3>1, <3>3
  <2> HIDE DEF L
  <2>3. QED
    BY <2>1, <2>2 DEF RunsAsConfigured, L
<1>2. QED
  BY <1>1, Invariance, PTL
=============================================================================
