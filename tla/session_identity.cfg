\* One monitor that changes its selection and may be given its old port again.
SPECIFICATION Spec
CONSTANTS
  m1 = m1
  m2 = m2
  s1 = s1
  s2 = s2
  NoSelection = NoSelection
  Clients <- MCOneClient
  Selections <- MCTwoSelections
  Ports = {1}
  SequenceSpan = 6
  Lifetime = 3
  MaxRequests = 2
  MaxIds = 2
  MaxSequence <- MCWrapping
  MaxRestarts = 0
  MaxRequestRetries = 1
INVARIANTS
  OneSubscriptionPerRequest
  DataBelongsToSubscription
  DataInOrder
