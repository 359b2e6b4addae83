SPECIFICATION Spec
CONSTANTS
  None = None
  Caller = {c1, c2}
\* The listener stops when it is cancelled, and may block when it is cancelled too early.
CHECK_DEADLOCK FALSE
INVARIANTS
  TypeOK
  AnswerMatches
PROPERTIES
  RequestReturns
  StopCompletes
