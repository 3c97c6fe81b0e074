\* A single submit fails.
SPECIFICATION Spec
CONSTANTS
    Slots <- TwoSlots
    None = 0
    MaxSubmitFaults = 1
INVARIANT AlwaysWaitsForSomething
CHECK_DEADLOCK FALSE
