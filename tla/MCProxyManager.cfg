SPECIFICATION Spec
CONSTANTS
  None = None
  Context = {x1, x2}
  Listener = {l1}
  HEADER_SIZE = 2
  MAX_BUFFER_SIZE = 3
  MAX_MESSAGE_SIZE = 2
  Announced = {0, 2, 3}
  Replies = {2}
  Handshakes = {0, 1}
  SocketPeers = TRUE
SYMMETRY MCSymmetry
INVARIANTS
  TypeOK
  OnePlace
  RepliesAreAwaited
  ChunksLineUp
PROPERTIES
  RepliesAreWhole
