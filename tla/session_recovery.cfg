\* One monitor whose subscription may vanish, and a server that is restarted: the
\* monitor recovers, and finds out as long as it watches.
SPECIFICATION FairSpec
CONSTANTS
  m1 = m1
  m2 = m2
  s1 = s1
  s2 = s2
  NoSelection = NoSelection
  Clients <- MCOneClient
  Selections <- MCOneSelection
  Ports = {1}
  SequenceSpan = 8
  Lifetime = 4
  MaxRequests = 2
  MaxIds = 2
  MaxSequence <- MCOnePacket
  MaxRestarts = 1
  MaxRequestRetries = 1
INVARIANTS
  TypeOK
  MonitorMatchesConnection
  RecoveryGoesOn
PROPERTIES
  LossIsDetectedWhileWatching
