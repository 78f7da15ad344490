CONSTANTS
  Addresses <- Interfaces
  MaxInterfaces = 4
SPECIFICATION Spec
INVARIANTS
  ITypeOK
  SortedByLess
  ChoosesFirstOfBest
CHECK_DEADLOCK FALSE
