CONSTANTS
  c1 = c1
  c2 = c2
  c3 = c3
  f1 = f1
  f2 = f2
  f3 = f3
  s1 = s1
  s2 = s2
  s3 = s3
  Contexts = {c1, c2}
  Futures = {f1, f2}
  Home <- TwoHomes
  TraceIds <- Ids
  Times = {1}
  MaxSpans <- OneAndOne
  MaxCopies = 0
  Services = {s1, s2}
  ServiceOf <- TwoServices
  Configured = {}
  MaxTags <- OneTag
SPECIFICATION PSpec
INVARIANTS
  OneInstancePerService
CHECK_DEADLOCK FALSE
