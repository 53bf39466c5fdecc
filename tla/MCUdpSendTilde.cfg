SPECIFICATION Spec
CONSTANTS
  Threads = {t1}
  Fds = {f1, f2}
  NoFd = NoFd
  Hosts = {h1}
  NoHost = NoHost
  BlockSize = 4
  AudioBufferSize = 8
  NInlets = 1
  DefaultVecSize = 4
  VecSizes = {2, 4}
  PacketSize = 5
  CountModulus = 2
INVARIANTS
  FrameIsWhole
  DataMatchesTag
  ClosesTheFailedSocket
PROPERTY
  SourceSpec
CHECK_DEADLOCK FALSE
