CONSTANTS
  c1 = c1
  c2 = c2
  f1 = f1
  f2 = f2
  Contexts = {c1, c2}
  Futures = {f1, f2}
  Home <- HomeApart
  TraceIds = {t}
  Times = {1}
  MaxSpans <- TwoSpansAndOne
  MaxCopies = 2
SPECIFICATION Spec
CONSTRAINTS
  OnlyExit
  ChangedAlone
  EndedByFinish
INVARIANTS
  TypeOK
  ReportedOnce
  ParentsAreOlder
  ReportEndsAtSpanZero
CHECK_DEADLOCK FALSE
