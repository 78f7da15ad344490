CONSTANTS
  c1 = c1
  c2 = c2
  f1 = f1
  f2 = f2
  Contexts = {c1}
  Futures = {f1, f2}
  Home <- HomeTogether
  TraceIds = {}
  Times = {1}
  MaxSpans <- ThreeSpans
  MaxCopies = 0
SPECIFICATION StructuredSpec
INVARIANTS
  StackTopIsOpen
CHECK_DEADLOCK FALSE
