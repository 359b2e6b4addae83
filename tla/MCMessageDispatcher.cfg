\* Two connections, up to two upstreams in either order, every kind of request
\* (Remove is handled by the same code as Add).
SPECIFICATION Spec
CONSTANTS
  None = None
  Envelope = {e1, e2}
  Client = {c1, c2}
  Offered = {"Add", "RemoveAll", "RequestIdentities", "Sign", "Unsupported", "Empty"}
INVARIANTS
  TypeOK
  OneHolder
  NoLostWakeup
  AskedAsPosted
PROPERTIES
  ImplementsService
