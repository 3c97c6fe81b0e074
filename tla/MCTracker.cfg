\* Three senders, two with one token, one behind a proxy; one receiver.
SPECIFICATION Spec
CONSTANTS
    Senders <- ThreeSenders
    Receivers <- OneReceiver
    Tokens <- TwoTokens
    TokenOf <- SharedToken
    Addrs <- TwoAddrs
    AddrOf <- TwoHosts
    None = None
    EmptyIp = EmptyIp
    Via <- Proxied
    TTL = 0
    MaxTime = 1
    MaxRestarts = 1
INVARIANTS
    UnregisterIsFinal
    WaitingIsFound
PROPERTY IsRegistry
\* Every sender and receiver runs once and ends.
CHECK_DEADLOCK FALSE
