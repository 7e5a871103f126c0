SPECIFICATION ContactSpec
CONSTANTS
    Machine <- WithNoName
    Addr <- OneAddr
    Thread <- TwoThreads
    NoAddr = NoAddr
    Blank = Blank
    a1 = a1
    t1 = t1
    t2 = t2
INVARIANTS OnlyRegisteredTracked NoDuplicates AddressKnown
PROPERTY BreakerImplemented
