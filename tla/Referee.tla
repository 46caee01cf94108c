------------------------------ MODULE Referee ------------------------------
(***************************************************************************)
(* The referee of a game (src/src/shared/Referee.cpp): the board it keeps, *)
(* the check of a placement and the placement itself.  The check sees the  *)
(* board only: who owns which cell, not which cells form a piece.  What it *)
(* promises is about pieces, so the model remembers them in `placed'.      *)
(***************************************************************************)
EXTENDS Polyominoes, FiniteSets

CONSTANTS
    BoardSize,   \* cells on a side of the board (12 in the code)
    TeamCount,   \* teams of a game (4 in the code)
    Ids,         \* the ids of the piece library
    Blocks       \* the cells of the piece with an id: polyominoById[id].blocks

ASSUME RefereeAssumption ==
    /\ BoardSize \in Nat \ {0}
    /\ TeamCount \in 0 .. 4
    /\ Blocks \in [Ids -> SUBSET Plane]
    /\ \A id \in Ids : Blocks[id] # {} /\ IsFiniteSet(Blocks[id])

Team == 0 .. TeamCount - 1
None == -1

CellCount == BoardSize * BoardSize
Index == 0 .. CellCount - 1

\* The offsets players can ask for: on the board, or just off any of its sides.
Offset == (-1 .. BoardSize) \X (-1 .. BoardSize)

VARIABLES
    mBoard,        \* the owner of each cell, by index
    mIsFirstMove,  \* the teams that have not placed a piece
    mScores,       \* cells placed, per team
    placed         \* history: the pieces on the board, with their teams

vars == <<mBoard, mIsFirstMove, mScores, placed>>

Init ==
    /\ mBoard = [i \in Index |-> None]
    /\ mIsFirstMove = [team \in Team |-> TRUE]
    /\ mScores = [team \in Team |-> 0]
    /\ placed = {}

-----------------------------------------------------------------------------
(* The check of a placement.                                               *)

\* Bit 0 of the team's number chooses its column, bit 1 its row.
mStartPos(team) ==
    << IF team % 2 = 1 THEN BoardSize - 1 ELSE 0,
       IF team \div 2 = 1 THEN BoardSize - 1 ELSE 0 >>

getIndex(pos) == pos[2] * BoardSize + pos[1]

\* Variant: the index is checked, not the coordinates.
isIndexWithinBound(pos) == getIndex(pos) \in Index

isWithinBound(pos) ==
    /\ pos[1] \in 0 .. BoardSize - 1
    /\ pos[2] \in 0 .. BoardSize - 1

\* Variant: the cells may be taken.
isOnBoard(blocks) == \A pos \in blocks : isWithinBound(pos)

canFit(blocks) ==
    \A pos \in blocks : isWithinBound(pos) /\ mBoard[getIndex(pos)] = None

\* Variant: any team's start will do.
isAnyStartValid(blocks, team) == \E t \in Team : mStartPos(t) \in blocks

isStartValid(blocks, team) == mStartPos(team) \in blocks

\* Variant: any team's cell will do.
hasAnyContact(cells, team) ==
    \E pos \in cells : isWithinBound(pos) /\ mBoard[getIndex(pos)] # None

\* Both hasCornerContact and hasEdgeContact: one of the cells is the team's.
hasContact(cells, team) ==
    \E pos \in cells : isWithinBound(pos) /\ mBoard[getIndex(pos)] = team

isValid(id, minOffset, team) ==
    LET blocks  == Moved(Blocks[id], minOffset)
        edges   == Moved(Edges(Blocks[id]), minOffset)
        corners == Moved(Corners(Blocks[id]), minOffset)
    IN  /\ canFit(blocks)
        /\ IF mIsFirstMove[team]
           THEN isStartValid(blocks, team)
           ELSE hasContact(corners, team) /\ ~hasContact(edges, team)

\* The placement, which its caller has just checked.
place(id, minOffset, team) ==
    LET blocks == Moved(Blocks[id], minOffset) IN
    /\ isValid(id, minOffset, team)
    /\ mBoard' = [i \in Index |-> IF \E pos \in blocks : getIndex(pos) = i
                                  THEN team ELSE mBoard[i]]
    /\ mIsFirstMove' = [mIsFirstMove EXCEPT ![team] = FALSE]
    /\ mScores' = [mScores EXCEPT ![team] = @ + Cardinality(blocks)]
    /\ placed' = placed \cup {[team |-> team, cells |-> blocks]}

Next == \E id \in Ids, minOffset \in Offset, team \in Team :
           place(id, minOffset, team)

Spec == Init /\ [][Next]_vars

-----------------------------------------------------------------------------
(* Properties.                                                             *)

Cell == (0 .. BoardSize - 1) \X (0 .. BoardSize - 1)

\* The type invariant.
TypeOK ==
    /\ mBoard \in [Index -> Team \cup {None}]
    /\ mIsFirstMove \in [Team -> BOOLEAN]
    /\ mScores \in [Team -> Nat]
    /\ placed \subseteq [team : Team, cells : SUBSET Cell]

\* The referee's records and the pieces tell the same: a cell has an owner
\* exactly when a piece of that team covers it, no cell is covered twice, and
\* a team is to make its first move exactly while it has no piece.
BoardTellsPieces ==
    /\ \A pos \in Cell, team \in Team :
          mBoard[getIndex(pos)] = team <=>
             \E p \in placed : p.team = team /\ pos \in p.cells
    /\ \A p, q \in placed : p # q => p.cells \cap q.cells = {}
    /\ \A team \in Team :
          mIsFirstMove[team] <=> ~\E p \in placed : p.team = team

\* Two cells side by side; two cells that meet in a corner.
SideBySide(a, b) == \E dir \in CardinalOffsets : b = Plus(a, dir)
Diagonal(a, b) == \E dir \in DiagonalOffsets : b = Plus(a, dir)

EdgesTouch(A, B) == \E a \in A, b \in B : SideBySide(a, b)
CornersTouch(A, B) == \E a \in A, b \in B : Diagonal(a, b)

\* The rules of the game, said of pieces: a placement is legal when it lies
\* on free cells of the board and either is the team's first and covers its
\* start, or meets an own piece in a corner and none along an edge.
Legal(cells, team) ==
    LET own == {p \in placed : p.team = team} IN
    /\ cells \subseteq Cell
    /\ \A p \in placed : p.cells \cap cells = {}
    /\ IF own = {}
       THEN mStartPos(team) \in cells
       ELSE /\ \E p \in own : CornersTouch(cells, p.cells)
            /\ \A p \in own : ~EdgesTouch(cells, p.cells)

\* The check of sensors against the board decides exactly the rules: no legal
\* placement is refused and no other accepted.
AcceptsExactlyTheLegal ==
    \A id \in Ids, minOffset \in Offset, team \in Team :
       isValid(id, minOffset, team) <=> Legal(Moved(Blocks[id], minOffset), team)

\* However the teams' moves interleave, no two pieces of a team share an edge.
NoSharedEdges ==
    \A p, q \in placed :
       p # q /\ p.team = q.team => ~EdgesTouch(p.cells, q.cells)

\* The pieces of a team hang together by their corners, from its start on: as
\* long as some are left out, a set of them that covers the start touches one
\* of those in a corner.
HangTogether ==
    \A team \in Team :
       LET own == {p \in placed : p.team = team} IN
       \A reached \in SUBSET own :
          /\ \E p \in reached : mStartPos(team) \in p.cells
          /\ reached # own
          => \E p \in reached, q \in own \ reached :
                CornersTouch(q.cells, p.cells)

\* Each team that has moved covers its start, and its score is what it covers.
Coverage(team) == {i \in Index : mBoard[i] = team}

ScoresAndStarts ==
    \A team \in Team :
       /\ mScores[team] = Cardinality(Coverage(team))
       /\ ~mIsFirstMove[team] <=> mBoard[getIndex(mStartPos(team))] = team

=============================================================================
