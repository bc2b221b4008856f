\* Two overlapping calls under the systemd backend; all that may fail, fails at will.
SPECIFICATION Safety
CONSTANTS
  Guests = {a, b}
  Host = host
  Backend = "Systemd"
  SpawnActions = {"Exec", "Exit"}
  MayFail = {"io", "handle", "stop", "setup", "exec"}
SYMMETRY Symmetry
CHECK_DEADLOCK FALSE
INVARIANTS
  TypeOK
  OkMeansSettled
  FailureReported
  ErrorMeansNeverRan
  LimitsBeforeProgram
  ProgramHoldsNothing
  NoAutokillCycle
  NoUnitLeft
PROPERTIES
  DestructorAfterDeath
