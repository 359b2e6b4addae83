SPECIFICATION Spec
CONSTANTS
  MAX_BUFFER_SIZE = 2
  Capacity = 2
  MaxSent = 3
\* A process that exited does nothing more.
CHECK_DEADLOCK FALSE
INVARIANTS
  TypeOK
PROPERTIES
  ImplementsRelay
  ProcessExits
