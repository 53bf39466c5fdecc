SPECIFICATION Spec
CONSTANTS
  Threads = {t1, t2}
  Fds = {f1, f2, f3}
  NoFd = NoFd
  Hosts = {h1, h2}
  NoHost = NoHost
  BufferSize = 7
  HeaderSize = 2
  Bodies <- MCBodies
  MaxMessages = 4
  READSIZE = 6
  MAXVECSIZE = 2
  VecSizes = {1, 2}
  ChannelCounts = {2}
  BufSize = 28
  Signals = 2
  Files <- MCFiles
  Formats <- MCFormats
  Names = {"take"}
  SampleSizes = {2, 3}
  MaxHeard = 30
INVARIANTS
  OneConnectorOneSocket
  DeliversInOrder
  PlaysTheFile
  WritesWhatItHears
PROPERTIES
  AttemptEnds
  KeepsPromise
  QueuedIsDelivered
  PdGoesOn
CHECK_DEADLOCK FALSE
