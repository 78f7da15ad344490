CONSTANTS
  c1 = c1
  c2 = c2
  c3 = c3
  f1 = f1
  f2 = f2
  f3 = f3
  s1 = s1
  s2 = s2
  s3 = s3
  Contexts = {c1, c2, c3}
  Futures = {f1, f2, f3}
  Home <- Homes
  TraceIds <- Ids
  Times = {1}
  MaxSpans <- OneTwoOne
  MaxCopies = 0
  Services = {s1, s2, s3}
  ServiceOf <- ThreeServices
  Configured = {s1, s2, s3}
  MaxTags <- UpToTwoTags
SPECIFICATION PSpec
CONSTRAINTS
  NoLocalSpans
  EndedByFinish
INVARIANTS
  PTypeOK
  ReferencesAreGenuine
  ReferencesResolve
  TraceHasOneRoot
  OneInstancePerService
CHECK_DEADLOCK FALSE
