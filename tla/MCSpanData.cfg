CONSTANTS
  s1 = s1
  s2 = s2
  s3 = s3
  Spans = {s1, s2, s3}
  Clock <- ClockTimes
  MaxCalls = 2
SPECIFICATION Spec
CONSTRAINT RecordOrWait
SYMMETRY Symmetry
INVARIANTS
  STypeOK
  SentTellsAll
  TagsInOrder
  NoNegativeDuration
CHECK_DEADLOCK FALSE
