SPECIFICATION Spec
CONSTANTS
  h1 = h1
  h2 = h2
  h3 = h3
  h4 = h4
  distro = distro
  vm1 = vm1
  vm2 = vm2
  vm3 = vm3
  Host = {h1, h2, h3, h4}
  Guid = {distro, vm1, vm2, vm3}
  GUID_NULL = GUID_NULL
  INVALID_SOCKET = INVALID_SOCKET
  FixedId = vm3
  MaxConnections = 2
  Cmdline <- MCCmdline
  OwnedBySelf <- MCOwnedBySelf
\* The listener ends when it is cancelled or fails.
CHECK_DEADLOCK FALSE
INVARIANTS
  TypeOK
  OwnMachineOnly
PROPERTIES
  FollowsMachine
