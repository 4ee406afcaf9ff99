SPECIFICATION Spec
CONSTANTS
  HardwareHarts = {h1, h2}
  NoVm = NoVm
  MaxVmId = 1
  MaxHarts = 3
  MaxRequests = 1
  IpiMayFail = TRUE
  GuestTraps = {"Interrupt", "HartStart", "SystemReset", "RemoteFence", "UnsharePage", "VirtualInstruction", "Unrouted", "ImplicitPageFault"}
CHECK_DEADLOCK FALSE
SYMMETRY Symmetry
INVARIANTS HartTokensAreUnique FlowGuarantee
PROPERTIES OnlyDeadVmsAreRemoved
