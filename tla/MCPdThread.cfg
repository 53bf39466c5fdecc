SPECIFICATION Spec
CONSTANTS
  i1 = i1
  i2 = i2
  UdpSenders = {u}
  TcpSenders = {t}
  Receivers = {r1, r2}
  Named = {r2}
  MaxFd = 3
  BYTE_BUF_LEN = 2
  MaxAffected = 1
  MaxLeaked = 1
  BadItem = BadItem
  Messages <- MCMessages
  Patches <- MCPatches
  MaxEdits = 2
  Delays = {d}
  Metros = {m, n}
  DelTimes = {0, 1}
  NewUnits <- MCNewUnits
  TickTime = 2
  Nobody = Nobody
  MaxTime = 3
  MaxDepth = 2
  Clock <- MCClock
  Times = {0, 1, 2, 3}
  NoClock = NoClock
  line = line
  Targets = {0, 16}
  RampTimes = {0, 2}
  Grains = {0, 1}
  DEFAULTLINEGRAIN = 3
  MaxLineDepth = 2
  Lists = {1, 2, 3}
  PipeTimes = {0, 1}
  x_n = 2
  MaxPipeDepth = 4
  qlist = qlist
  message = message
  Items = {message}
  Scores <- MCScores
  Tempos = {1, 2}
  MaxItems = 3
  MaxRetuned = 2
  MaxQlistDepth = 2
SYMMETRY MetrosAreAlike
INVARIANTS
  UsesItsOwn
  SendsTheMessage
  HearsItsSources
  MetroDoesAsTold
  GoesWhereItShould
  EachListOnce
  PlaysItsScore
PROPERTY
  KeepsTheAgenda
CHECK_DEADLOCK FALSE
