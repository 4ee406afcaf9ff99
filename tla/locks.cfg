SPECIFICATION Spec
CONSTANTS
    HardwareHarts = {h1, h2}
    VmIds = {0}
    HartIds = {0, 1}
    MaxRequests = 1
    None = None
SYMMETRY HardwareHartSymmetry
INVARIANTS NoDeadlock UnwrapsAreSafe
PROPERTIES SectionsAreAtomic
