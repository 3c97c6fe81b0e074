\* One receiver, nothing lost.
SPECIFICATION Spec
CONSTANTS
    Push = "push"
    Pulls <- OnePull
    Stranger = "stranger"
    MaxLoss = 0
INVARIANTS
    ClosedOnce
CHECK_DEADLOCK FALSE
