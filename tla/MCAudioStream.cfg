SPECIFICATION ASpec
CONSTANTS
  BlockSize = 1
  AudioBufferSize = 1
  NInlets = 1
  PacketSize = 3
  CountModulus = 1
  NFrames = 3
  QueueLength = 1
  NOutlets = 1
  DefaultVecSize = 1
  VecSizes = {1}
  TagSize = 2
  Datagrams <- NoDatagrams
  MaxCompleted = 9
  Layouts <- SomeLayouts
  FaultKinds = {"lose", "duplicate", "overtake"}
  MaxFrames = 4
  MaxFaults = 2
  MaxInFlight = 1
INVARIANTS
  DamageIsLocal
PROPERTIES
  ImplementsFifo
CHECK_DEADLOCK FALSE
