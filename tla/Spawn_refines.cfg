SPECIFICATION Spec
CONSTANTS
  Guests = {a, b}
  Host = host
  Backend = "Null"
  SpawnActions = {"Exec"}
  MayFail = {"io", "handle", "setup", "exec"}
CHECK_DEADLOCK FALSE
PROPERTIES
  ImplementsSandbox
