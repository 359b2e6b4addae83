SPECIFICATION Spec
CONSTANTS
  Client = {c1, c2}
\* Once the loop is over nothing is accepted any more.
CHECK_DEADLOCK FALSE
PROPERTY ReaperReturns
