SPECIFICATION Spec
CONSTANTS
  MAX_TCPCLIENT_THREADS = 1
  Data = {d1}
  Connectors = {k1}
  MaxFd = 1
INVARIANTS
  StateIsTrue
CHECK_DEADLOCK FALSE
