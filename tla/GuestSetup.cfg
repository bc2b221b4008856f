SPECIFICATION Spec
CONSTANTS
  MaxLastCap = 8
  LastCap = 5
  Setpcap = 0
  SysAdmin = 1
  NetAdmin = 2
  SysResource = 3
  SysTime = 4
  Targets <- GuestTargets
  UtsFields = {"hostname"}
  Clocks = {"boottime"}
INVARIANTS
  NeverRefused
  CapabilitiesAsAsked
  SandboxAsAsked
CHECK_DEADLOCK FALSE
