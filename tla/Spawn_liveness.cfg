SPECIFICATION Spec
CONSTANTS
  Guests = {a, b}
  Host = host
  Backend = "Systemd"
  SpawnActions = {"Exec"}
  MayFail = {"stop"}
CHECK_DEADLOCK FALSE
PROPERTIES
  CallsSettle
