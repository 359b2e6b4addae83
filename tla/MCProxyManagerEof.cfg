SPECIFICATION Spec
CONSTANTS
  None = None
  Context = {x1}
  Listener = {l1}
  HEADER_SIZE = 2
  MAX_BUFFER_SIZE = 3
  MAX_MESSAGE_SIZE = 4
  Announced = {0, 4, 5}
  Replies = {1, 6}
  Handshakes = {0, 1, 4}
  SocketPeers = TRUE
PROPERTIES
  ClosedIsDropped
