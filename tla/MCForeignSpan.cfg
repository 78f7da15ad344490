CONSTANTS
  c1 = c1
  c2 = c2
  f1 = f1
  f2 = f2
  Contexts = {c1, c2}
  Futures = {f1, f2}
  Home <- HomeApart
  TraceIds = {}
  Times = {1}
  MaxSpans <- TwoSpansEach
  MaxCopies = 0
SPECIFICATION Spec
INVARIANTS
  ForeignSpanRefused
CHECK_DEADLOCK FALSE
