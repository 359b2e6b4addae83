SPECIFICATION Spec
CONSTANTS
  General = 2
  Listener = {1, 3}
  Client = {c1, c2}
  Files <- MCFiles
\* The program ends.
CHECK_DEADLOCK FALSE
INVARIANTS
  TypeOK
  RunsAsConfigured
PROPERTIES
  ConnectionTaken
  Ends
