\* Two receivers and a stranger come to one sender, over TCP or QUIC.
SPECIFICATION FairSpec
CONSTANTS
    Push = "push"
    Pulls <- TwoPulls
    Stranger = "stranger"
    MaxLoss = 1
INVARIANTS
    GivenBackOnce
    UsersFirst
    ServesOne
PROPERTY SetupEnds
\* Every process ends.
CHECK_DEADLOCK FALSE
