\* A frame with a press on a piece and a key behind it.
SPECIFICATION Spec
CONSTANTS
    BoardSize = 3
    TeamCount = 1
    Ids <- SmallIds
    Blocks <- SmallBlocks
    clockwiseRotatedIds <- SmallRotated
    horizontallyReflectedIds <- SmallReflected
    transformedToCanonical <- SmallCanonical
    Deck <- TurningDeck
    GridSize = 12
    Padding = 12
    SlotPadding = 3
    MousePositions <- FewPlaces
    NoShadow = NoShadow
    Wild = Wild
    MaxCommands = 3
INVARIANTS GrabFindsThePiece
\* A failing assertion ends the process.
CHECK_DEADLOCK FALSE
