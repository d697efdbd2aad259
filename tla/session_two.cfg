\* Two monitors that take requests of each other's ids after a restart.
SPECIFICATION Spec
CONSTANTS
  m1 = m1
  m2 = m2
  s1 = s1
  s2 = s2
  NoSelection = NoSelection
  Clients <- MCTwoClients
  Selections <- MCOneSelection
  Ports = {1, 2}
  SequenceSpan = 8
  Lifetime = 4
  MaxRequests = 2
  MaxIds = 1
  MaxSequence <- MCNoPacket
  MaxRestarts = 1
  MaxRequestRetries = 0
SYMMETRY MCSymmetry
PROPERTIES
  OnlyTheOwnerCancels
