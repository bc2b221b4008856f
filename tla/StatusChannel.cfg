SPECIFICATION Spec
CONSTANTS
  LastSyscall = 58
  SetupErrors <- GuestErrors
  ExecErrors <- SyscallErrors
  PipeBuf = 4096
INVARIANTS
  HostLearnsOutcome
CHECK_DEADLOCK FALSE
