CONSTANTS
  SKW_CHAN_SIZE = 2
  BATCH_LIMIT = 1
  RETRY_NUM = 2
  MaxSegments = 4
SPECIFICATION FairSpec
INVARIANTS
  RTypeOK
  EachSegmentInOnePlace
  AckedWasReceived
  AtMostRetryNumCopies
  FirstReadInOrder
PROPERTIES
  ImplementsDelivery
  EventuallySettled
