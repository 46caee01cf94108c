\* The code's own constants.
SPECIFICATION Spec
CONSTANTS
    MaxBlocks = 5
    CanonicalCount = 21
    PolyominoCount = 91
INVARIANTS TypeOK TablesAgree CanonicalTellsShape LevelsComplete
\* The constructor returns.
CHECK_DEADLOCK FALSE
