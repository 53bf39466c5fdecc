SPECIFICATION Spec
CONSTANTS
  NFrames = 3
  QueueLength = 2
  BlockSize = 2
  AudioBufferSize = 2
  NOutlets = 1
  DefaultVecSize = 2
  VecSizes = {1, 2}
  TagSize = 2
  Datagrams <- MCDatagrams
  MaxCompleted = 5
  c1 = c1
  c2 = c2
  c3 = c3
  Peers = {c1, c2, c3}
  Udp = udp
  Packets <- MCPackets
  ReadSizes = {1, 6}
  MaxSent = 2
  Responses <- MCResponses
  STATUS_BUF_LEN = 14
  BufLength = 2
  MaxResponses = 2
  INBUFSIZE = 4
  MaxStream = 12
SYMMETRY PeersAreAlike
INVARIANTS
  QueueIsTrue
  PlaysReceivedBytes
  TakesWhatWasSent
  
  OutputsWhatItReceives
CHECK_DEADLOCK FALSE
