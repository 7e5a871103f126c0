SPECIFICATION Spec
CONSTANTS
    Program <- Programs
    Lists <- SentLists
    Table <- FourBits
    Pair = pq
    Comma = Comma
    Texts <- Installed
    EventSize = 2
    MaxCalls = 2
    NL = NL
    Missing = Missing
    p = p
    q = q
    pq = pq
INVARIANT BitsMeanPrograms
