SPECIFICATION FairSpec
CONSTANTS
  MAX_TCPCLIENT_THREADS = 2
  Data = {d1, d2}
  Connectors = {k1, k2}
  MaxFd = 2
INVARIANTS
  UsesWhatIsThere
PROPERTIES
  WaitsEnd
CHECK_DEADLOCK FALSE
