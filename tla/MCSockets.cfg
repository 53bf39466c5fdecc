SPECIFICATION SocketsSpec
CONSTANTS
  Objs = {o1, o2}
  Conns = {c1, c2, c3}
  MAX_CONNECTIONS = 1
  MaxFd = 4
  Backlog = 1
  MaxPackets = 3
INVARIANTS
  SentOnceInOrder
  DescriptorsAreTrue
PROPERTIES
  EveryMessageSettles
  PeersAreServed
CHECK_DEADLOCK FALSE
