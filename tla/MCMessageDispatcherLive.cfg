\* Three connections, so that two can keep the queue busy while the third waits.
SPECIFICATION Spec
CONSTANTS
  None = None
  Envelope = {e1, e2, e3}
  Client = {c1}
  Offered = {"Sign", "Empty"}
PROPERTIES
  StopCompletes
  EveryRequestAnswered
