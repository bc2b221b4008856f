SPECIFICATION Spec
CONSTANT MaxFd = 3
CHECK_DEADLOCK FALSE
INVARIANTS
  TypeOK
  ProgramSeesPolicy
  PipeUsable
  SourcesIntact
