\* Frames with two presses and another event, and a piece that turns.
SPECIFICATION Spec
CONSTANTS
    BoardSize = 3
    TeamCount = 1
    Ids <- SmallIds
    Blocks <- SmallBlocks
    clockwiseRotatedIds <- SmallRotated
    horizontallyReflectedIds <- SmallReflected
    transformedToCanonical <- SmallCanonical
    Deck <- EvenDeck
    GridSize = 12
    Padding = 12
    SlotPadding = 3
    MousePositions <- FewPlaces
    NoShadow = NoShadow
    Wild = Wild
    MaxCommands = 5
INVARIANTS TypeOK PiecesAccountedFor PlaceAndReturnFindThePiece
           BoardShowsReferee ShadowTellsTheClick HeldPieceUnderMouse
\* A failing assertion ends the process.
CHECK_DEADLOCK FALSE
