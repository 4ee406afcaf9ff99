SPECIFICATION FairSpec
CONSTANTS
  HardwareHarts = {h1, h2}
  MaxVmId = 0
  MaxHarts = 3
  NoVm = NoVm
  MaxRequests = 2
  IpiMayFail = FALSE
  GuestTraps = {"Interrupt", "SharePage", "LoadPageFault", "StorePageFault", "Hypercall", "ProbeExtension", "RemoteFenceNop", "HartStatus", "InvalidCall", "SendIpi", "HartStart", "HartStop", "HartSuspend", "SystemReset"}
INVARIANTS TypeOK RequestsDoNotOverlap OneResultPerTrap QueuedRequestsAreAnnounced
PROPERTIES QueuedRequestsAreProcessed SystemResetReachesEveryHart ImplementsHartLifecycle
