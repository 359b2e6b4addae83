SPECIFICATION Spec
CONSTANTS
  None = None
  Context = {x1}
  Listener = {l1}
  MAX_BUFFER_SIZE = 2
  MaxSent = 2
  Handshakes = {0, 1, 4}
\* After Stop nothing has to happen any more.
CHECK_DEADLOCK FALSE
INVARIANTS
  TypeOK
  OneOperation
  NoDangling
PROPERTIES
  ImplementsRelay
  EndIsTold
  Released
