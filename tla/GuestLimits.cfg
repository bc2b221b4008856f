SPECIFICATION Spec
CONSTANTS
  Resources <- GuestResources
  LimitValues = {0, 21}
  Infinity = 99
  Nices <- GuestNices
  Priorities = {5}
  Utilizations = {1, 3}
  OomScores = {0, 7}
  Descriptors = {9}
  Callers <- GuestCallers
  None = None
  MaxCalls = 3
INVARIANTS
  NeverInItsOwnWay
  LimitsAsAsked
CHECK_DEADLOCK FALSE
