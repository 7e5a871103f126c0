SPECIFICATION FairSpec
CONSTANTS
    Machine <- OneMachine
    Addr <- OneAddr
    Thread <- OneThread
    NoAddr = NoAddr
    Blank = Blank
    a1 = a1
    t1 = t1
    t2 = t2
INVARIANT TypeOK
PROPERTY StatusStored
