SPECIFICATION LoopbackSpec
CONSTANTS
  BufferWords = 12
  Budget = 1
  KernelErrnos = {1, 4095}
  MaxNoise = 2
INVARIANTS
  AckIsGenuine
PROPERTIES
  LoopbackSettles
CHECK_DEADLOCK FALSE
