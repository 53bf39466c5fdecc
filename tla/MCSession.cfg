SPECIFICATION FairSpec
CONSTANTS
  Hosts = {d1, d2}
  NoHost = NoHost
  Channels = {1, 2}
  Majors = {1}
  Scripts = {"server.py", "bonjourBrowseOSC.py"}
  MaxMoves = 4
  MaxAir = 1
INVARIANTS
  TellsWhoIsThere
  StreamsToOwner
  StreamsToWhoAsked
PROPERTIES
  PublishedIsTold
CHECK_DEADLOCK FALSE
