SPECIFICATION Spec
CONSTANTS
    User <- Users
    Letters <- NameLengths
    Data <- Bits
    Sizes <- AllBlocks
    Base = 3
    MaxFrames = 2
    Stray <- Numbers
    Garbled = Garbled
    ann = ann
    bo = bo
CHECK_DEADLOCK FALSE
INVARIANT Faithful
