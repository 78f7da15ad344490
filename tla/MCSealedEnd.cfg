CONSTANTS
  s1 = s1
  s2 = s2
  s3 = s3
  Spans = {s1}
  Clock = {1, 2}
  MaxCalls = 0
SPECIFICATION Spec
PROPERTY EndIsSealed
CHECK_DEADLOCK FALSE
