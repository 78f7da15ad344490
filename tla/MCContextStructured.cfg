CONSTANTS
  c1 = c1
  c2 = c2
  f1 = f1
  f2 = f2
  Contexts = {c1}
  Futures = {f1, f2}
  Home <- HomeTogether
  TraceIds = {t}
  Times = {1}
  MaxSpans <- FourSpans
  MaxCopies = 0
SPECIFICATION StructuredSpec
INVARIANTS
  OpenOrArchived
  SegmentIsComplete
  HeadersResolve
CHECK_DEADLOCK FALSE
