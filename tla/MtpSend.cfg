CONSTANTS
    Chunk = 4
    Header = 1
    Packet = 2
    MaxField = 7
    Lengths <- MCLengths
    Sizes <- MCSizes
SPECIFICATION Spec
INVARIANTS TypeOK SuccessIsWhole EndIsVisible
PROPERTIES NoPrematureShort Returns
CHECK_DEADLOCK FALSE
