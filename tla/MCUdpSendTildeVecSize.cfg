SPECIFICATION Spec
CONSTANTS
  Threads = {t1}
  Fds = {f1}
  NoFd = NoFd
  Hosts = {h1}
  NoHost = NoHost
  BlockSize = 4
  AudioBufferSize = 8
  NInlets = 1
  DefaultVecSize = 4
  VecSizes = {4, 8}
  PacketSize = 5
  CountModulus = 2
INVARIANT
  BlockFits
CHECK_DEADLOCK FALSE
