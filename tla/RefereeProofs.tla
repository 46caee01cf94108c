--------------------------- MODULE RefereeProofs ---------------------------
(***************************************************************************)
(* Theorems about Referee for boards of any size and any library of pieces *)
(* and offsets.                                                            *)
(***************************************************************************)
EXTENDS Referee, FiniteSetTheorems, TLAPS

-----------------------------------------------------------------------------
(* Geometry.                                                               *)

\* A moved piece lies in the plane again.
LEMMA MovedInPlane ==
  ASSUME NEW piece \in SUBSET Plane, NEW offset \in Plane
  PROVE  Moved(piece, offset) \in SUBSET Plane
  BY DEF Moved, Plus, Plane

\* A piece touches another one along an edge exactly when the other one has a
\* cell among its edge sensors.
LEMMA EdgeSensors ==
  ASSUME NEW A \in SUBSET Plane, NEW B \in SUBSET Plane, A \cap B = {}
  PROVE  EdgesTouch(A, B) <=> \E pos \in Edges(A) : pos \in B
  BY DEF EdgesTouch, SideBySide, Edges

\* Where no edges touch, the corner sensors find exactly the corners that do.
LEMMA CornerSensors ==
  ASSUME NEW A \in SUBSET Plane, NEW B \in SUBSET Plane, A \cap B = {},
         ~EdgesTouch(A, B)
  PROVE  CornersTouch(A, B) <=> \E pos \in Corners(A) : pos \in B
<1>1. \A pos \in B : pos \notin Edges(A) /\ pos \notin A
  BY EdgeSensors
<1> QED BY <1>1 DEF CornersTouch, Diagonal, Corners

\* Sensors are cells.
LEMMA OffsetsInPlane ==
  CardinalOffsets \subseteq Plane /\ DiagonalOffsets \subseteq Plane
  BY DEF CardinalOffsets, DiagonalOffsets, Plane

\* Touching is symmetric.
LEMMA TouchSymmetric ==
  ASSUME NEW A \in SUBSET Plane, NEW B \in SUBSET Plane
  PROVE  EdgesTouch(A, B) <=> EdgesTouch(B, A)
<1>1. ASSUME NEW a \in Plane, NEW b \in Plane, SideBySide(a, b)
      PROVE  SideBySide(b, a)
  <2>1. PICK dir \in CardinalOffsets : b = Plus(a, dir)
    BY <1>1 DEF SideBySide
  <2>2. <<-dir[1], -dir[2]>> \in CardinalOffsets
    BY DEF CardinalOffsets
  <2>3. a = Plus(b, <<-dir[1], -dir[2]>>)
    BY <2>1, OffsetsInPlane DEF Plus, Plane
  <2> QED BY <2>2, <2>3 DEF SideBySide
<1> QED BY <1>1 DEF EdgesTouch

\* Moving respects differences and unions.
LEMMA MovedDifference ==
  ASSUME NEW A, NEW B, NEW offset,
         A \in SUBSET Plane, B \in SUBSET Plane, offset \in Plane
  PROVE  Moved(A \ B, offset) = Moved(A, offset) \ Moved(B, offset)
<1>1. \A x, y \in Plane : Plus(offset, x) = Plus(offset, y) => x = y
  BY DEF Plus, Plane
<1> QED BY <1>1 DEF Moved

\* Moving a union is the union of what is moved.
LEMMA MovedUnion ==
  ASSUME NEW A, NEW B, NEW offset
  PROVE  Moved(A \cup B, offset) = Moved(A, offset) \cup Moved(B, offset)
  BY DEF Moved

\* The cells at some distances from a piece move with it.
Around(A, D) == {Plus(block, dir) : block \in A, dir \in D}

\* Moving a piece moves its sensors with it.
LEMMA MovedAround ==
  \A A, D \in SUBSET Plane, offset \in Plane :
     /\ Around(A, D) \in SUBSET Plane
     /\ Moved(Around(A, D), offset) = Around(Moved(A, offset), D)
<1>1. \A offset \in Plane, block \in Plane, dir \in Plane :
         /\ Plus(block, dir) \in Plane
         /\ Plus(offset, Plus(block, dir)) = Plus(Plus(offset, block), dir)
  BY DEF Plus, Plane
<1> SUFFICES ASSUME NEW A \in SUBSET Plane, NEW D \in SUBSET Plane,
                    NEW offset \in Plane
    PROVE  /\ Around(A, D) \in SUBSET Plane
           /\ Moved(Around(A, D), offset) = Around(Moved(A, offset), D)
  OBVIOUS
<1>2. Around(A, D) \in SUBSET Plane
  BY <1>1 DEF Around
<1>3. Moved(Around(A, D), offset)
         = {Plus(offset, Plus(block, dir)) : block \in A, dir \in D}
  BY DEF Moved, Around
<1>4. Around(Moved(A, offset), D)
         = {Plus(Plus(offset, block), dir) : block \in A, dir \in D}
  BY DEF Moved, Around
<1>5. \A block \in A, dir \in D :
         Plus(offset, Plus(block, dir)) = Plus(Plus(offset, block), dir)
  BY <1>1
<1>6. Moved(Around(A, D), offset) = Around(Moved(A, offset), D)
  BY <1>3, <1>4, <1>5
<1> QED BY <1>2, <1>6

\* The sensors of a moved piece are the moved sensors of the piece.
LEMMA MovedSensors ==
  \A A \in SUBSET Plane, offset \in Plane :
     /\ Edges(A) \in SUBSET Plane
     /\ Corners(A) \in SUBSET Plane
     /\ Moved(Edges(A), offset) = Edges(Moved(A, offset))
     /\ Moved(Corners(A), offset) = Corners(Moved(A, offset))
<1> SUFFICES ASSUME NEW A, NEW offset, A \in SUBSET Plane, offset \in Plane
    PROVE  /\ Edges(A) \in SUBSET Plane
           /\ Corners(A) \in SUBSET Plane
           /\ Moved(Edges(A), offset) = Edges(Moved(A, offset))
           /\ Moved(Corners(A), offset) = Corners(Moved(A, offset))
  OBVIOUS
<1>1. \A B : /\ Edges(B) = Around(B, CardinalOffsets) \ B
             /\ Corners(B) = Around(B, DiagonalOffsets) \ (B \cup Edges(B))
  BY DEF Edges, Corners, Around
<1>2. /\ Around(A, CardinalOffsets) \in SUBSET Plane
      /\ Around(A, DiagonalOffsets) \in SUBSET Plane
      /\ Moved(Around(A, CardinalOffsets), offset)
            = Around(Moved(A, offset), CardinalOffsets)
      /\ Moved(Around(A, DiagonalOffsets), offset)
            = Around(Moved(A, offset), DiagonalOffsets)
  BY MovedAround, OffsetsInPlane
<1>3. Edges(A) \in SUBSET Plane /\ Corners(A) \in SUBSET Plane
  BY <1>1, <1>2
<1> DEFINE beside == Around(A, CardinalOffsets)
           across == Around(A, DiagonalOffsets)
           near   == A \cup Edges(A)
<1>4. Moved(Edges(A), offset) = Edges(Moved(A, offset))
  <2>1. beside \in SUBSET Plane
    BY <1>2
  <2>2. Edges(A) = beside \ A
    BY <1>1
  <2>3. Moved(beside, offset) \ Moved(A, offset) = Edges(Moved(A, offset))
    BY <1>1, <1>2
  <2> HIDE DEF beside
  <2>4. Moved(beside \ A, offset) = Moved(beside, offset) \ Moved(A, offset)
    BY <2>1, MovedDifference
  <2> QED BY <2>2, <2>3, <2>4
<1>5. near \in SUBSET Plane
  BY <1>3
<1>6. Moved(Corners(A), offset) = Moved(across, offset) \ Moved(near, offset)
  <2>1. across \in SUBSET Plane /\ Corners(A) = across \ near
    BY <1>1, <1>2
  <2> HIDE DEF across, near
  <2>2. Moved(across \ near, offset) = Moved(across, offset) \ Moved(near, offset)
    BY <1>5, <2>1, MovedDifference
  <2> QED BY <2>1, <2>2
<1>7. Moved(near, offset) = Moved(A, offset) \cup Moved(Edges(A), offset)
  <2> DEFINE edges == Edges(A)
  <2>1. edges \in SUBSET Plane /\ near = A \cup edges
    BY <1>3
  <2> HIDE DEF edges, near
  <2>2. Moved(A \cup edges, offset) = Moved(A, offset) \cup Moved(edges, offset)
    BY MovedUnion
  <2> QED BY <2>1, <2>2 DEF edges
<1> QED BY <1>1, <1>2, <1>3, <1>4, <1>6, <1>7

-----------------------------------------------------------------------------
(* The board.                                                              *)

\* The index of a cell is a place of the array, and no other cell has it.
LEMMA IndexInjective ==
  /\ \A pos \in Cell : getIndex(pos) \in Index
  /\ \A a, b \in Cell : getIndex(a) = getIndex(b) => a = b
<1>1. BoardSize \in Nat /\ BoardSize > 0
  BY RefereeAssumption
<1>2. ASSUME NEW x \in 0 .. BoardSize - 1, NEW y \in 0 .. BoardSize - 1
      PROVE  y * BoardSize + x \in Index
  <2>1. y * BoardSize \in Nat
    BY <1>1
  <2>2. (y + 1) * BoardSize = y * BoardSize + BoardSize
    BY <1>1
  <2>3. (y + 1) * BoardSize <= BoardSize * BoardSize
    BY <1>1
  <2>4. BoardSize * BoardSize \in Nat
    BY <1>1
  <2> QED BY <1>1, <2>1, <2>2, <2>3, <2>4 DEF Index, CellCount
<1>3. ASSUME NEW x \in 0 .. BoardSize - 1, NEW y \in 0 .. BoardSize - 1,
             NEW u \in 0 .. BoardSize - 1, NEW v \in 0 .. BoardSize - 1, y < v
      PROVE  y * BoardSize + x < v * BoardSize + u
  <2>1. (y + 1) * BoardSize = y * BoardSize + BoardSize
    BY <1>1
  <2>2. (y + 1) * BoardSize <= v * BoardSize
    BY <1>1, <1>3
  <2>3. y * BoardSize \in Nat /\ v * BoardSize \in Nat
    BY <1>1
  <2> QED BY <1>1, <2>1, <2>2, <2>3
<1>4. ASSUME NEW a \in Cell, NEW b \in Cell, getIndex(a) = getIndex(b)
      PROVE  a = b
  <2>1. /\ a[1] \in 0 .. BoardSize - 1 /\ a[2] \in 0 .. BoardSize - 1
        /\ b[1] \in 0 .. BoardSize - 1 /\ b[2] \in 0 .. BoardSize - 1
        /\ a = <<a[1], a[2]>> /\ b = <<b[1], b[2]>>
    BY DEF Cell
  <2>2. a[2] = b[2]
    <3>1. a[2] * BoardSize + a[1] = b[2] * BoardSize + b[1]
      BY <1>4 DEF getIndex
    <3>2. /\ a[2] * BoardSize + a[1] \in Int
          /\ b[2] * BoardSize + b[1] \in Int
      BY <1>1, <2>1
    <3>3. ~(a[2] < b[2]) /\ ~(b[2] < a[2])
      BY <1>3, <2>1, <3>1, <3>2
    <3> QED BY <1>1, <2>1, <3>3
  <2>3. a[1] = b[1]
    <3>1. a[2] * BoardSize \in Int
      BY <1>1, <2>1
    <3> QED BY <1>1, <1>4, <2>1, <2>2, <3>1 DEF getIndex
  <2> QED BY <2>1, <2>2, <2>3
<1>5. \A pos \in Cell : getIndex(pos) \in Index
  BY <1>2 DEF Cell, getIndex
<1> QED BY <1>4, <1>5

\* Being within the bounds is being a cell of the board.
LEMMA WithinBoundIsCell ==
  ASSUME NEW pos \in Plane
  PROVE  isWithinBound(pos) <=> pos \in Cell
  BY RefereeAssumption DEF isWithinBound, Cell, Plane

\* The offsets a step tries are places of the plane.
LEMMA TriedInPlane ==
  ASSUME NEW offset \in Offset
  PROVE  offset \in Plane
<1>1. BoardSize \in Int
  BY RefereeAssumption
<1>2. \A i \in -1 .. BoardSize : i \in Int
  BY <1>1
<1> QED BY <1>2 DEF Offset, Plane

\* The cells of a piece at an offset: finitely many, at least one.
LEMMA BlocksProperties ==
  ASSUME NEW id \in Ids, NEW minOffset \in Plane
  PROVE  /\ Moved(Blocks[id], minOffset) \in SUBSET Plane
         /\ Moved(Blocks[id], minOffset) # {}
         /\ IsFiniteSet(Moved(Blocks[id], minOffset))
         /\ Blocks[id] \in SUBSET Plane
         /\ minOffset \in Plane
<1>1. Blocks[id] \in SUBSET Plane /\ minOffset \in Plane
  BY RefereeAssumption DEF Offset, Plane
<1>2. Moved(Blocks[id], minOffset) \in SUBSET Plane
  BY <1>1, MovedInPlane
<1>3. Blocks[id] # {} /\ IsFiniteSet(Blocks[id])
  BY RefereeAssumption
<1>4. IsFiniteSet(Moved(Blocks[id], minOffset))
  <2> DEFINE move == [block \in Blocks[id] |-> Plus(minOffset, block)]
  <2>1. move \in Surjection(Blocks[id], Moved(Blocks[id], minOffset))
    BY DEF Surjection, Moved
  <2> HIDE DEF move
  <2> QED BY <1>3, <2>1, FS_Surjection
<1>5. Moved(Blocks[id], minOffset) # {}
  BY <1>3 DEF Moved
<1> QED BY <1>1, <1>2, <1>4, <1>5

\* A placement that fits lies on the board.
LEMMA FitIsOnBoard ==
  ASSUME NEW blocks \in SUBSET Plane, canFit(blocks)
  PROVE  blocks \in SUBSET Cell
  BY WithinBoundIsCell DEF canFit

\* What fits covers no piece.
LEMMA FitIsFree ==
  ASSUME TypeOK, BoardTellsPieces, NEW blocks \in SUBSET Plane
  PROVE  canFit(blocks) <=> /\ blocks \subseteq Cell
                           /\ \A p \in placed : p.cells \cap blocks = {}
<1>1. ASSUME NEW pos \in Cell
      PROVE  mBoard[getIndex(pos)] = None
                <=> \A p \in placed : pos \notin p.cells
  <2>1. mBoard[getIndex(pos)] \in Team \cup {None}
    BY IndexInjective DEF TypeOK
  <2>2. None \notin Team
    BY RefereeAssumption DEF None, Team
  <2>3. \A p \in placed : p.team \in Team
    BY DEF TypeOK
  <2> QED BY <2>1, <2>2, <2>3 DEF BoardTellsPieces
<1> QED BY <1>1, WithinBoundIsCell DEF canFit

\* A sensor is in contact when it lies on a piece of the team.
LEMMA ContactIsPiece ==
  ASSUME TypeOK, BoardTellsPieces,
         NEW cells \in SUBSET Plane, NEW team \in Team
  PROVE  hasContact(cells, team) <=>
            \E p \in placed : p.team = team /\ \E pos \in cells : pos \in p.cells
<1>1. \A p \in placed : p.cells \subseteq Cell
  BY DEF TypeOK
<1> QED BY <1>1, WithinBoundIsCell DEF hasContact, BoardTellsPieces

-----------------------------------------------------------------------------
(* The check decides the rules.                                            *)

\* What isValid looks up on the board is what the rules say of the pieces.
LEMMA ValidIsLegal ==
  ASSUME TypeOK, BoardTellsPieces,
         NEW id \in Ids, NEW minOffset \in Plane, NEW team \in Team
  PROVE  isValid(id, minOffset, team)
            <=> Legal(Moved(Blocks[id], minOffset), team)
<1> DEFINE blocks  == Moved(Blocks[id], minOffset)
           edges   == Moved(Edges(Blocks[id]), minOffset)
           corners == Moved(Corners(Blocks[id]), minOffset)
           own     == {p \in placed : p.team = team}
<1>1. blocks \in SUBSET Plane
  BY BlocksProperties
<1>2. edges = Edges(blocks) /\ corners = Corners(blocks)
  BY BlocksProperties, MovedSensors
<1>3. edges \in SUBSET Plane /\ corners \in SUBSET Plane
  BY <1>1, <1>2, MovedSensors, BlocksProperties
<1>4. isValid(id, minOffset, team) <=>
         /\ canFit(blocks)
         /\ IF mIsFirstMove[team]
            THEN isStartValid(blocks, team)
            ELSE hasContact(corners, team) /\ ~hasContact(edges, team)
  BY DEF isValid
<1>5. Legal(blocks, team) <=>
         /\ blocks \subseteq Cell
         /\ \A p \in placed : p.cells \cap blocks = {}
         /\ IF own = {}
            THEN mStartPos(team) \in blocks
            ELSE /\ \E p \in own : CornersTouch(blocks, p.cells)
                 /\ \A p \in own : ~EdgesTouch(blocks, p.cells)
  BY DEF Legal
<1>6. mIsFirstMove[team] <=> own = {}
  BY DEF BoardTellsPieces
<1> HIDE DEF blocks, edges, corners
<1>7. canFit(blocks) <=> /\ blocks \subseteq Cell
                        /\ \A p \in placed : p.cells \cap blocks = {}
  BY <1>1, FitIsFree
<1>8. ASSUME \A p \in placed : p.cells \cap blocks = {}
      PROVE  /\ hasContact(edges, team)
                  <=> \E p \in own : EdgesTouch(blocks, p.cells)
             /\ ~hasContact(edges, team) =>
                  (hasContact(corners, team)
                      <=> \E p \in own : CornersTouch(blocks, p.cells))
  <2>1. \A p \in own : p.cells \in SUBSET Plane /\ blocks \cap p.cells = {}
    BY <1>8, RefereeAssumption DEF TypeOK, Cell, Plane
  <2>2. hasContact(edges, team) <=> \E p \in own : EdgesTouch(blocks, p.cells)
    <3>1. \A p \in own : EdgesTouch(blocks, p.cells)
                            <=> \E pos \in edges : pos \in p.cells
      BY <1>1, <1>2, <2>1, EdgeSensors
    <3> QED BY <1>3, <3>1, ContactIsPiece
  <2>3. ASSUME ~hasContact(edges, team)
        PROVE  hasContact(corners, team)
                  <=> \E p \in own : CornersTouch(blocks, p.cells)
    <3>1. \A p \in own : CornersTouch(blocks, p.cells)
                            <=> \E pos \in corners : pos \in p.cells
      BY <1>1, <1>2, <2>1, <2>2, <2>3, CornerSensors
    <3> QED BY <1>3, <3>1, ContactIsPiece
  <2> QED BY <2>2, <2>3
<1>9. isStartValid(blocks, team) <=> mStartPos(team) \in blocks
  BY DEF isStartValid
<1>10. isValid(id, minOffset, team) <=> Legal(blocks, team)
  BY <1>4, <1>5, <1>6, <1>7, <1>8, <1>9
<1> QED BY <1>10 DEF blocks

-----------------------------------------------------------------------------
(* A placement.                                                            *)

\* What a placement does, said of cells and pieces.
LEMMA PlaceEffect ==
  ASSUME TypeOK, BoardTellsPieces,
         NEW id \in Ids, NEW minOffset \in Plane, NEW team \in Team,
         place(id, minOffset, team)
  PROVE  LET blocks == Moved(Blocks[id], minOffset)
             new == [team |-> team, cells |-> blocks]
         IN  /\ Legal(blocks, team)
             /\ blocks # {} /\ IsFiniteSet(blocks) /\ blocks \subseteq Cell
             /\ placed' = placed \cup {new}
             /\ \A p \in placed : p.cells \cap blocks = {}
             /\ new \notin placed
             /\ \A pos \in Cell :
                   mBoard'[getIndex(pos)] = IF pos \in blocks
                                            THEN team ELSE mBoard[getIndex(pos)]
             /\ mBoard' \in [Index -> Team \cup {None}]
             /\ mIsFirstMove' = [mIsFirstMove EXCEPT ![team] = FALSE]
             /\ mScores' = [mScores EXCEPT ![team] = @ + Cardinality(blocks)]
<1> DEFINE blocks == Moved(Blocks[id], minOffset)
           new == [team |-> team, cells |-> blocks]
<1>1. Legal(blocks, team)
  BY ValidIsLegal DEF place
<1>2. blocks # {} /\ IsFiniteSet(blocks)
  BY BlocksProperties
<1>3. /\ mBoard' = [i \in Index |-> IF \E pos \in blocks : getIndex(pos) = i
                                     THEN team ELSE mBoard[i]]
      /\ mIsFirstMove' = [mIsFirstMove EXCEPT ![team] = FALSE]
      /\ mScores' = [mScores EXCEPT ![team] = @ + Cardinality(blocks)]
      /\ placed' = placed \cup {new}
  BY DEF place
<1> HIDE DEF blocks
<1>4. blocks \subseteq Cell /\ \A p \in placed : p.cells \cap blocks = {}
  BY <1>1 DEF Legal
<1>5. new \notin placed
  BY <1>2, <1>4
<1>6. \A pos \in Cell :
         mBoard'[getIndex(pos)] = IF pos \in blocks
                                  THEN team ELSE mBoard[getIndex(pos)]
  <2> SUFFICES ASSUME NEW pos \in Cell
      PROVE  mBoard'[getIndex(pos)] = IF pos \in blocks
                                      THEN team ELSE mBoard[getIndex(pos)]
    OBVIOUS
  <2>1. getIndex(pos) \in Index
    BY IndexInjective
  <2>2. (\E b \in blocks : getIndex(b) = getIndex(pos)) <=> pos \in blocks
    BY <1>4, IndexInjective
  <2> QED BY <1>3, <2>1, <2>2
<1>7. mBoard' \in [Index -> Team \cup {None}]
  BY <1>3 DEF TypeOK
<1> QED BY <1>1, <1>2, <1>3, <1>4, <1>5, <1>6, <1>7 DEF blocks

\* The two parts of the inductive invariant are kept by a placement.
LEMMA PlaceKeepsRecords ==
  ASSUME TypeOK, BoardTellsPieces,
         NEW id \in Ids, NEW minOffset \in Plane, NEW team \in Team,
         place(id, minOffset, team)
  PROVE  TypeOK' /\ BoardTellsPieces'
<1> DEFINE blocks == Moved(Blocks[id], minOffset)
           new == [team |-> team, cells |-> blocks]
<1>1. /\ blocks # {} /\ IsFiniteSet(blocks) /\ blocks \subseteq Cell
      /\ placed' = placed \cup {new}
      /\ \A p \in placed : p.cells \cap blocks = {}
      /\ \A pos \in Cell :
            mBoard'[getIndex(pos)] = IF pos \in blocks
                                     THEN team ELSE mBoard[getIndex(pos)]
      /\ mBoard' \in [Index -> Team \cup {None}]
      /\ mIsFirstMove' = [mIsFirstMove EXCEPT ![team] = FALSE]
      /\ mScores' = [mScores EXCEPT ![team] = @ + Cardinality(blocks)]
  BY PlaceEffect
<1> HIDE DEF blocks
<1>2. TypeOK'
  <2>1. Cardinality(blocks) \in Nat
    BY <1>1, FS_CardinalityType
  <2>2. new \in [team : Team, cells : SUBSET Cell]
    BY <1>1
  <2>3. mScores' \in [Team -> Nat]
    BY <1>1, <2>1 DEF TypeOK
  <2>4. mIsFirstMove' \in [Team -> BOOLEAN]
    BY <1>1 DEF TypeOK
  <2>5. placed' \subseteq [team : Team, cells : SUBSET Cell]
    BY <1>1, <2>2 DEF TypeOK
  <2> QED BY <1>1, <2>3, <2>4, <2>5 DEF TypeOK, Cell
<1>3. \A pos \in Cell, t \in Team :
         mBoard'[getIndex(pos)] = t <=>
            \E p \in placed' : p.team = t /\ pos \in p.cells
  <2> SUFFICES ASSUME NEW pos \in Cell, NEW t \in Team
      PROVE  mBoard'[getIndex(pos)] = t <=>
                \E p \in placed' : p.team = t /\ pos \in p.cells
    OBVIOUS
  <2>1. CASE pos \in blocks
    <3>1. \A p \in placed' : pos \in p.cells => p = new
      BY <1>1, <2>1
    <3>2. new \in placed' /\ new.team = team /\ pos \in new.cells
      BY <1>1, <2>1
    <3>3. mBoard'[getIndex(pos)] = team
      BY <1>1, <2>1
    <3> HIDE DEF new
    <3> QED BY <3>1, <3>2, <3>3
  <2>2. CASE pos \notin blocks
    BY <1>1, <2>2 DEF BoardTellsPieces
  <2> QED BY <2>1, <2>2
<1>4. \A p, q \in placed' : p # q => p.cells \cap q.cells = {}
  BY <1>1 DEF BoardTellsPieces
<1>5. \A t \in Team : mIsFirstMove'[t] <=> ~\E p \in placed' : p.team = t
  <2> SUFFICES ASSUME NEW t \in Team
      PROVE  mIsFirstMove'[t] <=> ~\E p \in placed' : p.team = t
    OBVIOUS
  <2>1. mIsFirstMove \in [Team -> BOOLEAN]
    BY DEF TypeOK
  <2>2. CASE t = team
    <3>1. mIsFirstMove'[t] = FALSE
      BY <1>1, <2>1, <2>2
    <3>2. new \in placed' /\ new.team = t
      BY <1>1, <2>2
    <3> QED BY <3>1, <3>2
  <2>3. CASE t # team
    <3>1. mIsFirstMove'[t] = mIsFirstMove[t]
      BY <1>1, <2>1, <2>3
    <3>2. (\E p \in placed' : p.team = t) <=> \E p \in placed : p.team = t
      BY <1>1, <2>3
    <3>3. mIsFirstMove[t] <=> ~\E p \in placed : p.team = t
      BY DEF BoardTellsPieces
    <3> QED BY <3>1, <3>2, <3>3
  <2> QED BY <2>2, <2>3
<1>6. Cell' = Cell
  BY DEF Cell
<1> QED BY <1>2, <1>3, <1>4, <1>5, <1>6 DEF BoardTellsPieces, getIndex

\* A placement shares no edge with the team's own pieces.
LEMMA PlaceKeepsEdgesApart ==
  ASSUME TypeOK, BoardTellsPieces, NoSharedEdges,
         NEW id \in Ids, NEW minOffset \in Plane, NEW team \in Team,
         place(id, minOffset, team)
  PROVE  NoSharedEdges'
<1> DEFINE blocks == Moved(Blocks[id], minOffset)
           new == [team |-> team, cells |-> blocks]
<1>1. /\ Legal(blocks, team)
      /\ blocks \in SUBSET Cell
      /\ placed' = placed \cup {new}
  BY PlaceEffect
<1> HIDE DEF blocks
<1>2. ASSUME NEW p \in placed, p.team = team
      PROVE  ~EdgesTouch(blocks, p.cells) /\ ~EdgesTouch(p.cells, blocks)
  <2>1. ~EdgesTouch(blocks, p.cells)
    BY <1>1, <1>2 DEF Legal
  <2>2. blocks \in SUBSET Plane /\ p.cells \in SUBSET Plane
    BY <1>1, RefereeAssumption DEF TypeOK, Cell, Plane
  <2> QED BY <2>1, <2>2, TouchSymmetric
<1>3. ASSUME NEW p \in placed', NEW q \in placed', p # q, p.team = q.team
      PROVE  ~EdgesTouch(p.cells, q.cells)
  <2>1. CASE p \in placed /\ q \in placed
    BY <1>3, <2>1 DEF NoSharedEdges
  <2>2. CASE p = new /\ q \in placed
    BY <1>2, <1>3, <2>2
  <2>3. CASE q = new /\ p \in placed
    BY <1>2, <1>3, <2>3
  <2> QED BY <1>1, <1>3, <2>1, <2>2, <2>3
<1> QED BY <1>3 DEF NoSharedEdges

\* A team's start is a cell of the board.
LEMMA StartOnBoard ==
  ASSUME NEW team \in Team
  PROVE  mStartPos(team) \in Cell
  BY RefereeAssumption DEF mStartPos, Cell

\* A placement adds its cells to the score and never uncovers a start.
LEMMA PlaceKeepsScores ==
  ASSUME TypeOK, BoardTellsPieces, ScoresAndStarts,
         NEW id \in Ids, NEW minOffset \in Plane, NEW team \in Team,
         place(id, minOffset, team)
  PROVE  ScoresAndStarts'
<1> DEFINE blocks == Moved(Blocks[id], minOffset)
<1>1. /\ Legal(blocks, team)
      /\ IsFiniteSet(blocks) /\ blocks \in SUBSET Cell
      /\ \A p \in placed : p.cells \cap blocks = {}
      /\ \A pos \in Cell :
            mBoard'[getIndex(pos)] = IF pos \in blocks
                                     THEN team ELSE mBoard[getIndex(pos)]
      /\ mIsFirstMove' = [mIsFirstMove EXCEPT ![team] = FALSE]
      /\ mScores' = [mScores EXCEPT ![team] = @ + Cardinality(blocks)]
  BY PlaceEffect
<1>2. mBoard' = [i \in Index |-> IF \E pos \in blocks : getIndex(pos) = i
                                 THEN team ELSE mBoard[i]]
  BY DEF place
<1> HIDE DEF blocks
<1> DEFINE covered == {getIndex(pos) : pos \in blocks}
<1>3. IsFiniteSet(covered) /\ Cardinality(covered) = Cardinality(blocks)
  <2> DEFINE index == [pos \in blocks |-> getIndex(pos)]
  <2>1. index \in Surjection(blocks, covered)
    BY DEF Surjection
  <2>2. index \in Injection(blocks, covered)
    BY <1>1, IndexInjective DEF Injection, IsInjective
  <2> HIDE DEF index, covered
  <2> QED BY <1>1, <2>1, <2>2, FS_Surjection
<1>4. \A i \in covered : mBoard[i] = None
  <2> SUFFICES ASSUME NEW pos \in blocks
      PROVE  mBoard[getIndex(pos)] = None
    OBVIOUS
  <2>1. canFit(blocks)
    BY DEF place, isValid, blocks
  <2> QED BY <2>1 DEF canFit
<1>5. None \notin Team
  BY RefereeAssumption DEF None, Team
<1>6. IsFiniteSet(Index)
  <2>1. CellCount \in Int
    BY RefereeAssumption DEF CellCount
  <2> QED BY <2>1, FS_Interval DEF Index
<1>7. covered \subseteq Index
  BY <1>1, IndexInjective
<1>8. ASSUME NEW t \in Team
      PROVE  mScores'[t] = Cardinality(Coverage(t)')
  <2>1. IsFiniteSet(Coverage(t)) /\ Cardinality(Coverage(t)) \in Nat
    <3>1. Coverage(t) \in SUBSET Index
      BY DEF Coverage
    <3>2. IsFiniteSet(Coverage(t))
      BY <1>6, <3>1, FS_Subset
    <3> QED BY <3>2, FS_CardinalityType
  <2>2. mScores[t] = Cardinality(Coverage(t))
    BY DEF ScoresAndStarts
  <2>3. CASE t # team
    <3>1. Coverage(t)' = Coverage(t)
      BY <1>2, <1>4, <1>5, <2>3 DEF Coverage
    <3>2. mScores'[t] = mScores[t]
      BY <1>1, <2>3 DEF TypeOK
    <3> QED BY <2>2, <3>1, <3>2
  <2>4. CASE t = team
    <3>1. Coverage(t)' = Coverage(t) \cup covered
      BY <1>2, <1>7, <2>4 DEF Coverage
    <3>2. Coverage(t) \cap covered = {}
      BY <1>4, <1>5 DEF Coverage
    <3>3. mScores'[t] = mScores[t] + Cardinality(blocks)
      BY <1>1, <2>4 DEF TypeOK
    <3>4. Cardinality(Coverage(t) \cup covered)
             = Cardinality(Coverage(t)) + Cardinality(covered)
                  - Cardinality(Coverage(t) \cap covered)
      <4> HIDE DEF covered
      <4> QED BY <1>3, <2>1, FS_Union
    <3>5. Cardinality(Coverage(t) \cap covered) = 0
      BY <3>2, FS_EmptySet
    <3>6. Cardinality(blocks) \in Nat
      BY <1>1, FS_CardinalityType
    <3> HIDE DEF covered
    <3> QED BY <1>3, <2>1, <2>2, <3>1, <3>3, <3>4, <3>5, <3>6
  <2> QED BY <2>3, <2>4
<1>9. ASSUME NEW t \in Team
      PROVE  ~mIsFirstMove'[t] <=> mBoard'[getIndex(mStartPos(t))] = t
  <2>1. mStartPos(t) \in Cell
    BY StartOnBoard
  <2>2. ~mIsFirstMove[t] <=> mBoard[getIndex(mStartPos(t))] = t
    BY DEF ScoresAndStarts
  <2>3. mIsFirstMove \in [Team -> BOOLEAN]
    BY DEF TypeOK
  <2>4. CASE t # team
    <3>1. mStartPos(t) \in blocks => mBoard[getIndex(mStartPos(t))] = None
      BY <1>4
    <3>2. mIsFirstMove'[t] = mIsFirstMove[t]
      BY <1>1, <2>3, <2>4
    <3> QED BY <1>1, <1>5, <2>1, <2>2, <2>4, <3>1, <3>2
  <2>5. CASE t = team
    <3>1. ~mIsFirstMove'[t]
      BY <1>1, <2>3, <2>5
    <3>2. mIsFirstMove[t] => mStartPos(t) \in blocks
      BY <1>1, <2>5 DEF Legal, BoardTellsPieces
    <3> QED BY <1>1, <2>1, <2>2, <2>5, <3>1, <3>2
  <2> QED BY <2>4, <2>5
<1>10. \A t \in Team : mStartPos(t)' = mStartPos(t)
  BY DEF mStartPos
<1> QED BY <1>8, <1>9, <1>10 DEF ScoresAndStarts, getIndex

\* A placement is hung onto the pieces of its team: whatever set of them is
\* reached from the start, with or without the new one, can be extended.
LEMMA PlaceKeepsTogether ==
  ASSUME TypeOK, BoardTellsPieces, ScoresAndStarts, HangTogether,
         NEW id \in Ids, NEW minOffset \in Plane, NEW team \in Team,
         place(id, minOffset, team)
  PROVE  HangTogether'
<1> DEFINE blocks == Moved(Blocks[id], minOffset)
           new == [team |-> team, cells |-> blocks]
           own(t) == {p \in placed : p.team = t}
           own2(t) == {p \in placed' : p.team = t}
           start == mStartPos(team)
<1>1. /\ Legal(blocks, team)
      /\ placed' = placed \cup {new}
      /\ \A p \in placed : p.cells \cap blocks = {}
      /\ new \notin placed
  BY PlaceEffect
<1>2. new.team = team /\ new.cells = blocks
  OBVIOUS
<1> HIDE DEF blocks, new
<1> SUFFICES ASSUME NEW t \in Team, NEW reached \in SUBSET own2(t),
                    \E p \in reached : mStartPos(t) \in p.cells,
                    reached # own2(t)
    PROVE  \E p \in reached, q \in own2(t) \ reached :
              CornersTouch(q.cells, p.cells)
  BY DEF HangTogether, mStartPos
<1>3. \A rest \in SUBSET own(t) :
         /\ \E p \in rest : mStartPos(t) \in p.cells
         /\ rest # own(t)
         => \E p \in rest, q \in own(t) \ rest : CornersTouch(q.cells, p.cells)
  BY DEF HangTogether
<1>4. CASE t # team
  <2>1. own2(t) = own(t)
    BY <1>1, <1>2, <1>4
  <2> QED BY <1>3, <2>1
<1>5. CASE t = team
  <2>1. own2(t) = own(t) \cup {new} /\ new \notin own(t)
    BY <1>1, <1>2, <1>5
  <2>2. CASE own(t) = {}
    BY <2>1, <2>2
  <2>3. CASE own(t) # {}
    <3>1. PICK near \in own(t) : CornersTouch(blocks, near.cells)
      BY <1>1, <1>5, <2>3 DEF Legal
    <3>2. PICK first \in own(t) : start \in first.cells
      <4>1. ~mIsFirstMove[team]
        BY <1>5, <2>3 DEF BoardTellsPieces
      <4>2. mBoard[getIndex(start)] = team
        BY <4>1 DEF ScoresAndStarts
      <4> QED BY <1>5, <4>2, StartOnBoard DEF BoardTellsPieces
    <3>3. start \notin blocks
      BY <1>1, <3>2
    <3>4. CASE reached = own(t)
      <4>1. near \in reached /\ new \in own2(t) \ reached
        BY <2>1, <3>4
      <4> QED BY <1>2, <3>1, <4>1
    <3>5. CASE reached # own(t)
      <4> DEFINE rest == reached \ {new}
      <4>1. rest \in SUBSET own(t) /\ rest # own(t)
        BY <2>1, <3>5
      <4>2. \E p \in rest : mStartPos(t) \in p.cells
        BY <1>2, <1>5, <3>3
      <4>3. PICK p \in rest, q \in own(t) \ rest : CornersTouch(q.cells, p.cells)
        BY <1>3, <4>1, <4>2
      <4>4. p \in reached /\ q \in own2(t) \ reached
        BY <2>1, <4>3
      <4> QED BY <4>3, <4>4
    <3> QED BY <3>4, <3>5
  <2> QED BY <2>2, <2>3
<1> QED BY <1>4, <1>5

-----------------------------------------------------------------------------
(* The theorems.  The inductive invariant joins the records to the pieces  *)
(* and to the rules of the game.                                           *)

RefereeInv ==
    /\ TypeOK
    /\ BoardTellsPieces
    /\ NoSharedEdges
    /\ ScoresAndStarts
    /\ HangTogether

\* An empty board satisfies the invariant.
LEMMA InvInit == Init => RefereeInv
<1> SUFFICES ASSUME Init PROVE RefereeInv
  OBVIOUS
<1>1. TypeOK
  BY DEF Init, TypeOK
<1>2. None \notin Team
  BY RefereeAssumption DEF None, Team
<1>3. BoardTellsPieces /\ NoSharedEdges
  BY <1>2, IndexInjective DEF Init, BoardTellsPieces, NoSharedEdges
<1>4. ScoresAndStarts
  <2>1. \A team \in Team : Coverage(team) = {}
    BY <1>2 DEF Init, Coverage
  <2>2. \A team \in Team : getIndex(mStartPos(team)) \in Index
    BY StartOnBoard, IndexInjective
  <2> QED BY <1>2, <2>1, <2>2, FS_EmptySet DEF Init, ScoresAndStarts
<1>5. HangTogether
  BY DEF Init, HangTogether
<1> QED BY <1>1, <1>3, <1>4, <1>5 DEF RefereeInv

\* A placement, accepted or not, keeps the invariant.
LEMMA InvNext == RefereeInv /\ [Next]_vars => RefereeInv'
<1> SUFFICES ASSUME RefereeInv, [Next]_vars PROVE RefereeInv'
  OBVIOUS
<1>1. ASSUME NEW id \in Ids, NEW minOffset \in Offset, NEW team \in Team,
             place(id, minOffset, team)
      PROVE  RefereeInv'
  <2>1. minOffset \in Plane
    BY TriedInPlane
  <2> QED BY <1>1, <2>1, PlaceKeepsRecords, PlaceKeepsEdgesApart, PlaceKeepsScores,
             PlaceKeepsTogether DEF RefereeInv
<1>2. CASE UNCHANGED vars
  <2>1. TypeOK' /\ BoardTellsPieces' /\ NoSharedEdges'
    BY <1>2 DEF vars, RefereeInv, TypeOK, BoardTellsPieces, NoSharedEdges
  <2>2. ScoresAndStarts'
    BY <1>2 DEF vars, RefereeInv, ScoresAndStarts, Coverage
  <2>3. HangTogether'
    BY <1>2 DEF vars, RefereeInv, HangTogether
  <2> QED BY <2>1, <2>2, <2>3 DEF RefereeInv
<1> QED BY <1>1, <1>2 DEF Next

\* The inductive invariant holds in every reachable state.
LEMMA InvHolds == Spec => []RefereeInv
<1> QED BY InvInit, InvNext, PTL DEF Spec

\* The referee's records are well-typed and its pieces lie on the board
\* (Referee::place writes only to cells of the array).
THEOREM TypeCorrect == Spec => []TypeOK
<1>1. RefereeInv => TypeOK
  BY DEF RefereeInv
<1> QED BY InvHolds, <1>1, PTL

\* Board, first-move flags and pieces tell the same (place, canFit).
THEOREM BoardFaithful == Spec => []BoardTellsPieces
<1>1. RefereeInv => BoardTellsPieces
  BY DEF RefereeInv
<1> QED BY InvHolds, <1>1, PTL

\* isValid accepts exactly the placements the rules allow.
THEOREM CheckDecidesRules == Spec => []AcceptsExactlyTheLegal
<1>1. RefereeInv => AcceptsExactlyTheLegal
  <2> SUFFICES ASSUME RefereeInv, NEW id \in Ids, NEW minOffset \in Offset,
                      NEW team \in Team
      PROVE  isValid(id, minOffset, team) <=> Legal(Moved(Blocks[id], minOffset), team)
    BY DEF AcceptsExactlyTheLegal
  <2>1. minOffset \in Plane
    BY TriedInPlane
  <2> QED BY <2>1, ValidIsLegal DEF RefereeInv
<1> QED BY InvHolds, <1>1, PTL

\* No two pieces of a team ever share an edge (hasEdgeContact).
THEOREM EdgesStayApart == Spec => []NoSharedEdges
<1>1. RefereeInv => NoSharedEdges
  BY DEF RefereeInv
<1> QED BY InvHolds, <1>1, PTL

\* The pieces of a team hang together from its start (isStartValid,
\* hasCornerContact).
THEOREM PiecesHangTogether == Spec => []HangTogether
<1>1. RefereeInv => HangTogether
  BY DEF RefereeInv
<1> QED BY InvHolds, <1>1, PTL

\* Scores count the cells of the board, and a team that has moved owns its
\* start (mScores, mIsFirstMove).
THEOREM ScoresCount == Spec => []ScoresAndStarts
<1>1. RefereeInv => ScoresAndStarts
  BY DEF RefereeInv
<1> QED BY InvHolds, <1>1, PTL

=============================================================================
