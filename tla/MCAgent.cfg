CONSTANTS
  c1 = c1
  c2 = c2
  f1 = f1
  f2 = f2
  f3 = f3
  Contexts = {c1, c2}
  Futures = {f1, f2, f3}
  Home <- Homes
  TraceIds = {}
  Times = {1}
  MaxSpans <- ThreeAndOne
  MaxCopies = 0
  SKW_CHAN_SIZE = 1
  BATCH_LIMIT = 1
  RETRY_NUM = 2
SPECIFICATION AFairSpec
CONSTRAINT OnlyLocalSpans
PROPERTIES
  ImplementsTraceFate
  EventuallySettled
CHECK_DEADLOCK FALSE
