SPECIFICATION FairSpec
CONSTANTS
    Harts = {0, 1, 2}
    Bits = 2
    Hypervisor = Hypervisor
INVARIANTS IpiIsKept
