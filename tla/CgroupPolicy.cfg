SPECIFICATION Spec
CONSTANTS
  None = None
  Max = 9
  Values <- AttributeValues
  Available <- Hierarchies
  MaxCalls = 3
INVARIANTS
  RefusedOnlyForCause
  PolicyWhole
CHECK_DEADLOCK FALSE
