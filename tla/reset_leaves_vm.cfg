SPECIFICATION FairSpec
CONSTANTS
  HardwareHarts = {h1, h2}
  MaxVmId = 0
  MaxHarts = 3
  NoVm = NoVm
  MaxRequests = 2
  IpiMayFail = FALSE
  GuestTraps = {"Interrupt", "HartStart", "SystemReset"}
PROPERTIES SystemResetRemovesVm
