\* Two connections that may share a match, three requests, one packet per
\* tick: the rate limit, blocked flushes, resets and closing peers against the
\* fairness of the loop.  No symmetry, as liveness is checked.
SPECIFICATION FairSpec
CONSTANTS
    Codes = {k1, k2}
    NoCode = NoCode
    NoClient = NoClient
    MAX_PLAYER = 2
    MAX_PACKETS_PER_TICK = 1
    MaxConnections = 2
    MaxSent <- TwoThenOne
INVARIANTS TypeOK AnswersTellMembership
PROPERTIES PortSpec FlaggedAreRemoved DepartedAreRemoved RequestsAreServed
