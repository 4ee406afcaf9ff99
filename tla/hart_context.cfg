SPECIFICATION Spec
CONSTANTS
    Harts = {"c1", "c2"}
    Boot = "c1"
    MmioInstructions <- SampleInstructions
INVARIANTS ConfigurationFollowsContext
PROPERTIES HypervisorSeesOnlyDeclassified ConfidentialContextIsRestored
CHECK_DEADLOCK FALSE
