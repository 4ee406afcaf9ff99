SPECIFICATION Spec
CONSTANTS
    Harts = {"c1", "c2"}
    Boot = "c1"
    MmioInstructions <- SampleInstructions
PROPERTIES FloatingPointFollowsContext
CHECK_DEADLOCK FALSE
