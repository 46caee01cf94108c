\* A malformed packet and a well-formed one in the same batch.
SPECIFICATION Spec
CONSTANTS
    Codes = {k1, k2}
    NoCode = NoCode
    NoClient = NoClient
    MAX_PLAYER = 2
    MAX_PACKETS_PER_TICK = 2
    MaxConnections = 1
    MaxSent <- TwoEach
PROPERTIES FlaggedAreInert
