\* Three connections with one request each and as many codes: one match fills
\* up, the others compete for it, players leave while others arrive.
SPECIFICATION Spec
CONSTANTS
    Codes = {k1, k2, k3}
    NoCode = NoCode
    NoClient = NoClient
    MAX_PLAYER = 2
    MAX_PACKETS_PER_TICK = 1
    MaxConnections = 3
    MaxSent <- OneEach
SYMMETRY CodeSymmetry
INVARIANTS MatchesConsistent MatchesWithinCapacity
PROPERTY RegistrySpec
