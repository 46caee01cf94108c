\* Two teams that meet, with room for long chains of pieces.
SPECIFICATION Spec
CONSTANTS
    BoardSize = 4
    TeamCount = 2
    Ids <- SmallIds
    Blocks <- SmallBlocks
INVARIANTS TypeOK BoardTellsPieces AcceptsExactlyTheLegal ScoresAndStarts
           NoSharedEdges HangTogether
\* A game ends when nobody can place a piece.
CHECK_DEADLOCK FALSE
