SPECIFICATION Spec
CONSTANTS
  Clients = {c1, c2, c3}
  MaxFd = 3
  MAX_CONNECT = 4
  Senders = {t1}
  MaxSends = 1
  MaxChunks = 1
  MaxBroadcasts = 1
SYMMETRY ClientSymmetry
INVARIANTS
  TableIsTrue
  
CHECK_DEADLOCK FALSE
