SPECIFICATION Spec
CONSTANTS
  Clients = {c1, c2}
  MaxFd = 2
  MAX_CONNECT = 3
  Senders = {t1, t2}
  MaxSends = 1
  MaxChunks = 2
  MaxBroadcasts = 0
INVARIANTS
  ReachesItsClient
CHECK_DEADLOCK FALSE
