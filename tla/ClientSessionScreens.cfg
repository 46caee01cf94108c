\* Two connections, up to three packets each; the user may stop at any time.
\* No symmetry, as liveness is checked.
SPECIFICATION FairSpec
CONSTANTS
    Codes = {k1, k2}
    NoCode = NoCode
    MaxAttempts = 2
    MaxAsked = 3
INVARIANTS TypeOK OneScreen OneUserOfTheSocket NothingOvertakes ScreenTellsMatch
           TitleTellsNoMatch
PROPERTIES ConnectingEnds GrantReachesScreen
CHECK_DEADLOCK FALSE
