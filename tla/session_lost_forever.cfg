\* The same, whatever the monitor was doing: refuted.
SPECIFICATION FairSpec
CONSTANTS
  m1 = m1
  m2 = m2
  s1 = s1
  s2 = s2
  NoSelection = NoSelection
  Clients <- MCOneClient
  Selections <- MCOneSelection
  Ports = {1}
  SequenceSpan = 8
  Lifetime = 4
  MaxRequests = 2
  MaxIds = 2
  MaxSequence <- MCOnePacket
  MaxRestarts = 1
  MaxRequestRetries = 0
PROPERTIES
  LossIsDetected
