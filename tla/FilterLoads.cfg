CONSTANTS
    WORD = 256
    BYTE = 2
    BITS = 8
    MEMWORDS = 1
    WIRELEN = 5
    undef = undef
    Programs <- MCPrograms
    Packets <- MCPackets
SPECIFICATION BpfSpec
INVARIANT LoadsInside
CHECK_DEADLOCK FALSE
