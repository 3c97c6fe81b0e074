\* Two slots, up to two failed submits.
SPECIFICATION FairSpec
CONSTANTS
    Slots <- TwoSlots
    None = 0
    MaxSubmitFaults = 2
INVARIANTS
    SlotsOwned
    KernelKeepsSlot
    SlabSafe
    NoStrandedSlot
    WaitsForSomething
PROPERTY DrainEnds
\* A reserve() that waits for a completion that is not coming stops for good.
CHECK_DEADLOCK FALSE
