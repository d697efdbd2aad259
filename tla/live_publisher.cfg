\* Frames at 4 Hz, rates 2, 1 and 3 (which is not served), sequence numbers 0 to 2.
SPECIFICATION Spec
CONSTANTS
  Subscriptions <- MCSubscriptions
  Rate <- MCRate
  FrameRate = 4
  SequenceSpan = 3
  MaxFrame = 7
INVARIANTS
  TypeOK
  DueWithinAPeriod
  DueOnlyAfterAFailure
  SequenceCountsPackets
PROPERTIES
  OnePacketPerPeriod
