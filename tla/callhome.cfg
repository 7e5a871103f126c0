SPECIFICATION FairSpec
CONSTANTS
    Client <- TwoClients
    Addr <- TwoAddrs
    NoAddr = NoAddr
    NoClient = NoClient
    CallAfter = 0
    c1 = c1
    c2 = c2
    a1 = a1
    a2 = a2
INVARIANT TypeOK NoCallForgotten
PROPERTY BackInTouch
