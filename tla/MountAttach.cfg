SPECIFICATION Spec
CONSTANTS
  Paths <- MCPaths
  Mounts <- MCMounts
  MaxMounts = 3
CHECK_DEADLOCK FALSE
INVARIANTS
  TypeOK
  NothingUnderHost
  RejectedForReason
  HostUntouched
  GuestSeesTree
