CONSTANTS
    WORD = 65536
    BYTE = 256
    BITS = 16
    MEMWORDS = 2
    WIRELEN = 80
    undef = undef
    Programs <- MCPrograms
    Packets <- MCPackets
    SNAPLEN = 8192
    TESTS = 2
    TERMS = 4
    NOTS = 1
    SHORT = 3
    PORT = 4567
    LENS = {13, 14, 20, 22, 24, 35, 36, 37, 38, 40, 54, 55, 56, 58, 80}
    HLS = {69, 64, 70}
    FRAGS = {0, 16384, 8193}
    PROTOS = {6, 17, 44, 132}
SPECIFICATION Spec
INVARIANTS GraphMeansExpression VerdictIsExpression Confined CompiledLoadsInside
PROPERTY CompileEnds
CHECK_DEADLOCK FALSE
