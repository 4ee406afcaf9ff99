SPECIFICATION FairSpec
CONSTANTS
  AddressSpace = 128
  PageBytes = 4
  WordBytes = 2
  Harts = {0, 1}
  BootHart = 1
  Fdts <- TestFdts
  HeapPages = 1
  TokenBytes = 1
  StackBytes = 8
CHECK_DEADLOCK FALSE
INVARIANTS TypeOK ConfidentialMemoryIsPartitioned HypervisorTrapsIntoMonitor
PROPERTIES EveryHartIsSetUp
