\* Two senders use one address in turn.
SPECIFICATION Spec
CONSTANTS
    Senders <- TwoSenders
    Receivers <- OneReceiver
    Tokens <- TwoTokens
    TokenOf <- OwnTokens
    Addrs <- TwoAddrs
    AddrOf <- OneHost
    None = None
    EmptyIp = EmptyIp
    Via <- Direct
    TTL = 1
    MaxTime = 1
    MaxRestarts = 0
INVARIANT TokenMeansFile
CHECK_DEADLOCK FALSE
