------------------------- MODULE ArenaSessionProofs -------------------------
(***************************************************************************)
(* Proofs about one player's game: whatever events fall into a frame, the  *)
(* commands they queue take the scene to where the player and the referee  *)
(* already are; for any library of pieces, board, layout and deck.         *)
(***************************************************************************)
EXTENDS ArenaSession, SequenceTheorems, FiniteSetTheorems,
        WellFoundedInduction, TLAPS

-----------------------------------------------------------------------------
(* The referee: what RefereeProofs shows of it holds of the instance here. *)

Proved == INSTANCE RefereeProofs

\* The referee's geometry is the pieces' geometry.
LEMMA RefereeGeometry ==
  /\ Referee!Plane = Plane
  /\ \A A, o : Referee!Moved(A, o) = Moved(A, o)
  /\ \A A : Referee!Edges(A) = Edges(A) /\ Referee!Corners(A) = Corners(A)
<1>1. \A A : Referee!Edges(A) = Edges(A)
  BY DEF Edges, Referee!Edges, Referee!Plus, Plus, CardinalOffsets,
         Referee!CardinalOffsets
<1> QED
  BY <1>1 DEF Referee!Plane, Plane, Referee!Moved, Moved, Referee!Plus, Plus,
              Corners, Referee!Corners, DiagonalOffsets, Referee!DiagonalOffsets

\* So is that of the proofs.
LEMMA ProvedGeometry ==
  /\ Proved!Plane = Plane
  /\ \A A, o : Proved!Moved(A, o) = Moved(A, o)
  /\ \A A : Proved!Edges(A) = Edges(A) /\ Proved!Corners(A) = Corners(A)
<1>1. \A A : Proved!Edges(A) = Edges(A)
  BY DEF Edges, Proved!Edges, Proved!Plus, Plus, CardinalOffsets,
         Proved!CardinalOffsets
<1> QED
  BY <1>1 DEF Proved!Plane, Plane, Proved!Moved, Moved, Proved!Plus, Plus,
              Corners, Proved!Corners, DiagonalOffsets, Proved!DiagonalOffsets

\* The game's constants are as the referee assumes.
LEMMA RefereeAssumed ==
  /\ BoardSize \in Nat \ {0}
  /\ TeamCount \in 0 .. 4
  /\ Blocks \in [Ids -> SUBSET Proved!Plane]
  /\ \A id \in Ids : Blocks[id] # {} /\ Proved!IsFiniteSet(Blocks[id])
<1>1. \A S : IsFiniteSet(S) <=> Proved!IsFiniteSet(S)
  BY DEF IsFiniteSet, Proved!IsFiniteSet
<1> QED BY <1>1, GameAssumption, ProvedGeometry

\* Red is a team of the game.
LEMMA RedPlays == Red \in Referee!Team
  BY GameAssumption DEF Referee!Team, Red

\* The check, in the geometry of the pieces.
LEMMA SameCheck ==
  ASSUME NEW id, NEW grid, NEW team
  PROVE  Referee!isValid(id, grid, team) <=> Proved!isValid(id, grid, team)
<1> DEFINE blocks  == Moved(Blocks[id], grid)
           edges   == Moved(Edges(Blocks[id]), grid)
           corners == Moved(Corners(Blocks[id]), grid)
<1>1. Referee!isValid(id, grid, team) <=>
         /\ Referee!canFit(blocks)
         /\ IF mIsFirstMove[team]
            THEN Referee!isStartValid(blocks, team)
            ELSE Referee!hasContact(corners, team) /\ ~Referee!hasContact(edges, team)
  BY RefereeGeometry DEF Referee!isValid
<1>2. Proved!isValid(id, grid, team) <=>
         /\ Proved!canFit(blocks)
         /\ IF mIsFirstMove[team]
            THEN Proved!isStartValid(blocks, team)
            ELSE Proved!hasContact(corners, team) /\ ~Proved!hasContact(edges, team)
  BY ProvedGeometry DEF Proved!isValid
<1> HIDE DEF blocks, edges, corners
<1>3. /\ Referee!canFit(blocks) <=> Proved!canFit(blocks)
      /\ Referee!isStartValid(blocks, team) <=> Proved!isStartValid(blocks, team)
      /\ Referee!hasContact(corners, team) <=> Proved!hasContact(corners, team)
      /\ Referee!hasContact(edges, team) <=> Proved!hasContact(edges, team)
  BY DEF Proved!canFit, Referee!canFit, Proved!isWithinBound, Referee!isWithinBound,
         Proved!getIndex, Referee!getIndex, Proved!isStartValid, Referee!isStartValid,
         Proved!mStartPos, Referee!mStartPos, Proved!hasContact, Referee!hasContact,
         Proved!None, Referee!None
<1> QED
  BY <1>1, <1>2, <1>3

\* The placement.
LEMMA SamePlace ==
  ASSUME NEW id, NEW grid, NEW team, Referee!place(id, grid, team)
  PROVE  Proved!place(id, grid, team)
<1> DEFINE blocks == Moved(Blocks[id], grid)
<1>1. Proved!Cardinality(blocks) = Referee!Cardinality(blocks)
  BY DEF Proved!Cardinality, Referee!Cardinality
<1>2. /\ Proved!Index = Referee!Index
      /\ \A pos : Proved!getIndex(pos) = Referee!getIndex(pos)
  BY DEF Proved!Index, Referee!Index, Proved!CellCount, Referee!CellCount,
         Proved!getIndex, Referee!getIndex
<1>3. Proved!Moved(Blocks[id], grid) = blocks
  BY ProvedGeometry
<1>4. Proved!isValid(id, grid, team)
  BY SameCheck DEF Referee!place
<1> HIDE DEF blocks
<1>5. mBoard' = [i \in Proved!Index |->
                   IF \E pos \in blocks : Proved!getIndex(pos) = i
                   THEN team ELSE mBoard[i]]
  BY <1>2, RefereeGeometry DEF Referee!place, blocks
<1>6. /\ mIsFirstMove' = [mIsFirstMove EXCEPT ![team] = FALSE]
      /\ mScores' = [mScores EXCEPT ![team] = @ + Proved!Cardinality(blocks)]
      /\ placed' = placed \cup {[team |-> team, cells |-> blocks]}
  BY <1>1, RefereeGeometry DEF Referee!place, blocks
<1> QED BY <1>3, <1>4, <1>5, <1>6 DEF Proved!place

\* The records, which are the same word by word.
LEMMA SameRecords ==
  /\ Referee!TypeOK <=> Proved!TypeOK
  /\ Referee!BoardTellsPieces <=> Proved!BoardTellsPieces
  BY DEF Proved!TypeOK, Referee!TypeOK, Proved!Index, Referee!Index,
         Proved!CellCount, Referee!CellCount, Proved!Team, Referee!Team,
         Proved!Cell, Referee!Cell, Proved!None, Referee!None,
         Proved!BoardTellsPieces, Referee!BoardTellsPieces, Proved!getIndex,
         Referee!getIndex

\* A placement keeps the referee's records.
LEMMA PlaceKeepsReferee ==
  ASSUME NEW id \in Ids, NEW grid \in Plane,
         Referee!TypeOK, Referee!BoardTellsPieces, Referee!place(id, grid, Red)
  PROVE  /\ Referee!TypeOK' /\ Referee!BoardTellsPieces'
         /\ placed' = placed \cup {[team |-> Red, cells |-> Moved(Blocks[id], grid)]}
<1>1. Proved!TypeOK /\ Proved!BoardTellsPieces /\ Proved!place(id, grid, Red)
  BY SameRecords, SamePlace
<1>2. Red \in Proved!Team /\ grid \in Proved!Plane
  BY RedPlays, ProvedGeometry DEF Proved!Team, Referee!Team
<1>3. Proved!TypeOK' /\ Proved!BoardTellsPieces'
  BY <1>1, <1>2, Proved!PlaceKeepsRecords, RefereeAssumed
<1>4. Referee!TypeOK' /\ Referee!BoardTellsPieces'
  BY <1>3 DEF Proved!TypeOK, Referee!TypeOK, Proved!Index, Referee!Index,
         Proved!CellCount, Referee!CellCount, Proved!Team, Referee!Team,
         Proved!Cell, Referee!Cell, Proved!None, Referee!None,
         Proved!BoardTellsPieces, Referee!BoardTellsPieces, Proved!getIndex,
         Referee!getIndex
<1>5. placed' = placed \cup {[team |-> Red, cells |-> Moved(Blocks[id], grid)]}
  BY RefereeGeometry DEF Referee!place
<1> QED BY <1>4, <1>5

\* What may be placed lies on the board, on no other piece.
LEMMA ValidIsFree ==
  ASSUME NEW id \in Ids, NEW grid \in Plane,
         Referee!TypeOK, Referee!BoardTellsPieces, Referee!isValid(id, grid, Red)
  PROVE  /\ \A cell \in Moved(Blocks[id], grid) : Referee!isWithinBound(cell)
         /\ \A piece \in placed : piece.cells \cap Moved(Blocks[id], grid) = {}
<1> DEFINE blocks == Moved(Blocks[id], grid)
<1>1. Proved!TypeOK /\ Proved!BoardTellsPieces
  BY SameRecords
<1>2. Referee!canFit(blocks)
  BY RefereeGeometry DEF Referee!isValid
<1>3. blocks \in SUBSET Proved!Plane
  BY GameAssumption, ProvedGeometry DEF Moved, Plus, Plane
<1> HIDE DEF blocks
<1>4. Proved!canFit(blocks)
  BY <1>2 DEF Proved!canFit, Referee!canFit, Proved!isWithinBound,
       Referee!isWithinBound, Proved!getIndex, Referee!getIndex, Proved!None, Referee!None
<1>5. \A piece \in placed : piece.cells \cap blocks = {}
  BY <1>1, <1>3, <1>4, Proved!FitIsFree, RefereeAssumed
<1>6. \A cell \in blocks : Referee!isWithinBound(cell)
  BY <1>2 DEF Referee!canFit
<1> QED BY <1>5, <1>6 DEF blocks

-----------------------------------------------------------------------------
(* Places and commands.                                                    *)

\* Pieces are numbers, and none of them is one of the values for none.
LEMMA Pieces ==
  /\ Piece = Slot /\ Piece \subseteq Nat
  /\ nullptr \notin Piece /\ NoSlot \notin Slot
  BY DeckAssumption DEF Piece, nullptr, NoSlot

\* The least of some numbers is one of them.
LEMMA LeastIsOne ==
  ASSUME NEW S \in SUBSET Nat, S # {}
  PROVE  Min(S) \in S
<1>1. PICK x \in S : \A y \in S : ~(<<y, x>> \in OpToRel(<, Nat))
  BY NatLessThanWellFounded, WFMin
<1>2. \A y \in S : ~(y < x)
  BY <1>1 DEF OpToRel
<1>3. \A y \in S : x <= y
  BY <1>2
<1> QED BY <1>3 DEF Min

\* Centroids, snapped grids and slots are points of the plane.
LEMMA PointsInPlane ==
  /\ getCentroid \in [Ids -> Plane]
  /\ \A pos \in Plane, id \in Ids : getMinSnappedGrid(pos, id) \in Plane
  /\ \A s \in Slot : calculateSlotPosition(s) \in Plane
  /\ <<0, 0>> \in Plane
<1>1. \A x \in Int, n \in Nat \ {0} : x \div n \in Int /\ x % n \in Int
  OBVIOUS
<1>2. \A id \in Ids : getCentroid[id] \in Plane
  <2> SUFFICES ASSUME NEW id \in Ids PROVE getCentroid[id] \in Plane
    OBVIOUS
  <2> DEFINE n == Cardinality(Blocks[id])
  <2>1. n \in Nat \ {0}
    BY GameAssumption, FS_EmptySet, FS_CardinalityType
  <2>2. CentreSum(id, 1) \in Int /\ CentreSum(id, 2) \in Int
    BY LayoutAssumption
  <2>3. getCentroid[id] = <<CentreSum(id, 1) \div n, CentreSum(id, 2) \div n>>
    BY DEF getCentroid
  <2> HIDE DEF n
  <2> QED BY <1>1, <2>1, <2>2, <2>3 DEF Plane
<1>3. getCentroid \in [Ids -> Plane]
  BY <1>2 DEF getCentroid
<1>4. \A a \in Int : Rounded(a, GridSize) \in Int
  <2>1. GridSize \in Nat /\ 2 * GridSize \in Nat \ {0}
    BY LayoutAssumption
  <2>2. \A a \in Int : 2 * a + GridSize \in Int /\ GridSize - 2 * a \in Int
    BY <2>1
  <2>3. \A a \in Int : /\ (2 * a + GridSize) \div (2 * GridSize) \in Int
                       /\ (GridSize - 2 * a) \div (2 * GridSize) \in Int
    BY <1>1, <2>1, <2>2
  <2> QED BY <2>3 DEF Rounded
<1>5. ASSUME NEW pos \in Plane, NEW id \in Ids
      PROVE  getMinSnappedGrid(pos, id) \in Plane
  <2>1. NodePosition.Board \in Plane
    BY LayoutAssumption DEF NodePosition, Plane
  <2>2. \A a, b \in Plane : Minus(a, b) \in Plane
    BY DEF Minus, Plane
  <2>3. Minus(Minus(pos, NodePosition.Board), getCentroid[id]) \in Plane
    BY <1>2, <2>1, <2>2
  <2> QED BY <1>4, <2>3 DEF getMinSnappedGrid, Plane
<1>6. ASSUME NEW s \in Slot PROVE calculateSlotPosition(s) \in Plane
  <2>1. s \in Int /\ s % 6 \in Int /\ s \div 6 \in Int
    BY <1>1, DeckAssumption
  <2>2. 3 * GridSize + SlotPadding \in Int /\ 5 * GridSize + SlotPadding \in Int
    BY LayoutAssumption
  <2> QED BY <2>1, <2>2 DEF calculateSlotPosition, Plane
<1> QED BY <1>3, <1>5, <1>6 DEF Plane

\* Commands are told apart by their op.
LEMMA CommandKinds ==
  ASSUME NEW c \in Command
  PROVE  /\ c.op \in {"grab", "place", "return", "clearShadow", "shadow"}
         /\ c.op = "grab" => c.id \in Ids /\ c.pos \in MousePositions
         /\ c.op = "place" => c.grid \in Plane
         /\ c.op = "shadow" => c.shadow \in ShadowRecord
  BY DEF Command, ReturnCommand, ClearShadowCommand

\* The commands Player makes are commands.
LEMMA CommandsMade ==
  ASSUME NEW id \in Ids, NEW pos \in Plane
  PROVE  /\ pos \in MousePositions => GrabCommand(id, pos) \in Command
         /\ PlaceCommand(pos) \in Command
         /\ ReturnCommand \in Command /\ ClearShadowCommand \in Command
         /\ Shadow(id, pos) \in ShadowRecord
         /\ ShadowCommand(id, pos) \in Command
<1>1. Shadow(id, pos) \in ShadowRecord
  <2>1. getMinSnappedGrid(pos, id) \in Plane
    BY PointsInPlane
  <2>2. Referee!isValid(id, getMinSnappedGrid(pos, id), Red) \in BOOLEAN
    BY DEF Referee!isValid
  <2> QED BY <2>1, <2>2 DEF Shadow, ShadowRecord
<1>2. ShadowCommand(id, pos) \in Command
  BY <1>1 DEF ShadowCommand, Command
<1> QED
  BY <1>1, <1>2 DEF GrabCommand, PlaceCommand, Command

\* The id of a piece, turned in any way, is that of the same piece.
LEMMA TurnsStay ==
  ASSUME NEW id \in Ids
  PROVE  \A newId \in {RotateCW(id), RotateCCW(id), ReflectH(id), ReflectV(id)} :
            /\ newId \in Ids
            /\ transformedToCanonical[newId] = transformedToCanonical[id]
<1>1. \A i \in Ids : /\ RotateCW(i) \in Ids /\ ReflectH(i) \in Ids
                     /\ transformedToCanonical[RotateCW(i)] = transformedToCanonical[i]
                     /\ transformedToCanonical[ReflectH(i)] = transformedToCanonical[i]
  BY TablesAssumption DEF RotateCW, ReflectH
<1> QED BY <1>1 DEF RotateCCW, ReflectV

-----------------------------------------------------------------------------
(* The inductive invariant.                                                *)

Places == {"Tray", "Action", "Board"}
Spot == [layer : Places, grid : Plane]
Outlook == [Piece -> Spot]

\* A grab of a piece, in whatever position it was when it was pressed.
GrabOf(c, p) == c.op = "grab" /\ transformedToCanonical[c.id] = Deck[p]

Shadows(c) == c.op \in {"shadow", "clearShadow"}

\* From where the pieces are before a command to where it is meant to take them.
Does(c, b, a) ==
    /\ c.op = "grab" =>
          \E p \in Piece :
             /\ GrabOf(c, p)
             /\ \A r \in Piece : b[r].layer # "Action"
             /\ a = [b EXCEPT ![p] = [layer |-> "Action", grid |-> <<0, 0>>]]
    /\ c.op = "place" =>
          \E p \in Piece :
             /\ b[p].layer = "Action"
             /\ a = [b EXCEPT ![p] = [layer |-> "Board", grid |-> c.grid]]
    /\ c.op = "return" =>
          \E p \in Piece :
             /\ b[p].layer = "Action"
             /\ a = [b EXCEPT ![p] = [layer |-> "Tray", grid |-> <<0, 0>>]]
    /\ Shadows(c) => a = b

\* T tells where the pieces are before each of the commands, and after all.
Leads(q, T) == \A i \in 1 .. Len(q) : Does(q[i], T[i], T[i + 1])

\* Every piece to be grabbed will be in the tray.
Feasible(q, T) ==
    \A i \in 1 .. Len(q), p \in Piece : GrabOf(q[i], p) => T[i][p].layer = "Tray"

\* The scene shows the pieces where t says.
InScene(t) ==
    \A p \in Piece :
       /\ layer[p] = t[p].layer
       /\ layer[p] = "Tray" <=> p \in DOMAIN mSlots
       /\ layer[p] = "Tray" => mSlots[p] = p
       /\ layer[p] = "Action" => mActivePiecePtr = p /\ mSlotId[p] = p
       /\ layer[p] = "Board" =>
             /\ position[p] = <<t[p].grid[1] * GridSize, t[p].grid[2] * GridSize>>
             /\ origin[p] = <<0, 0>>

\* The player knows the pieces where t says.
ToPlayer(t) ==
    \A p \in Piece :
       /\ t[p].layer = "Action" <=> p = mHeldPiecePtr
       /\ t[p].layer = "Tray" => mCurrentId[p] = Deck[p]

\* The referee does.
ToReferee(t) ==
    {Moved(Blocks[mCurrentId[p]], t[p].grid) :
       p \in {r \in Piece : t[r].layer = "Board"}} = {piece.cells : piece \in placed}

Plan(T) ==
    /\ InScene(T[1])
    /\ Leads(mCommandQueue, T)
    /\ ToPlayer(T[Len(mCommandQueue) + 1])
    /\ Feasible(mCommandQueue, T) => ToReferee(T[Len(mCommandQueue) + 1])

\* The commands still queued take the scene to where the player and the
\* referee are.
PlanInv == \E T \in [Nat -> Outlook] : Plan(T)

\* Nothing in the queue from i on changes what the Arena has in hand.
Quiet(q, i) == \A j \in i .. Len(q) : Shadows(q[j])

\* The held piece is in the Arena's hand, or the queue's last grab is its.
InHand ==
    \/ /\ layer[mHeldPiecePtr] = "Action"
       /\ position[mHeldPiecePtr] = shownAt
       /\ Quiet(mCommandQueue, 1)
    \/ \E k \in 1 .. Len(mCommandQueue) :
          /\ GrabOf(mCommandQueue[k], mHeldPiecePtr)
          /\ mCommandQueue[k].pos = shownAt
          /\ Quiet(mCommandQueue, k + 1)

HeldInv ==
    mHeldPiecePtr # nullptr =>
       InHand /\ (phase = "input" => layer[mHeldPiecePtr] # "Board")

\* How a piece hangs, and which it is.
PieceInv ==
    \A p \in Piece :
       /\ transformedToCanonical[mCurrentId[p]] = Deck[p]
       /\ layer[p] = "Action" => origin[p] = getCentroid[mCurrentId[p]]
       /\ layer[p] = "Tray" /\ (\A i \in 1 .. Len(mCommandQueue) :
                                   ~GrabOf(mCommandQueue[i], p)) =>
             position[p] = calculateSlotPosition(p) /\ origin[p] = <<0, 0>>

\* The shadow's last word.
LastShadow ==
    IF mHeldPiecePtr = nullptr THEN ClearShadowCommand
    ELSE ShadowCommand(mCurrentId[mHeldPiecePtr], mCurrentMousePos)

ShadowInv ==
    IF mCommandQueue # << >>
    THEN mCommandQueue[Len(mCommandQueue)] = LastShadow
    ELSE mShadow = IF mHeldPiecePtr = nullptr THEN NoShadow
                   ELSE Shadow(mCurrentId[mHeldPiecePtr], mCurrentMousePos)

Records ==
    /\ TypeOK
    /\ mCommandQueue \in Seq(Command)
    /\ Referee!BoardTellsPieces
    /\ PlaceAndReturnFindThePiece

SceneInv == PlanInv /\ HeldInv /\ PieceInv /\ ShadowInv

Inv == Records /\ (failed = "none" => SceneInv)

-----------------------------------------------------------------------------
(* Queues and what they lead to.                                           *)

\* Two commands at the end of a queue.
LEMMA PushTwo ==
  ASSUME NEW q \in Seq(Command), NEW c \in Command, NEW s \in Command
  PROVE  /\ q \o <<c, s>> \in Seq(Command)
         /\ q \o <<c, s>> # << >>
         /\ Len(q) \in Nat
         /\ Len(q \o <<c, s>>) = Len(q) + 2
         /\ \A i \in 1 .. Len(q) : (q \o <<c, s>>)[i] = q[i]
         /\ (q \o <<c, s>>)[Len(q) + 1] = c
         /\ (q \o <<c, s>>)[Len(q) + 2] = s
<1>1. <<c, s>> \in Seq(Command) /\ Len(<<c, s>>) = 2
  OBVIOUS
<1> DEFINE new == <<c, s>>
<1>2. new[1] = c /\ new[2] = s
  OBVIOUS
<1> HIDE DEF new
<1>3. /\ q \o new \in Seq(Command)
      /\ Len(q \o new) = Len(q) + Len(new)
      /\ \A i \in 1 .. Len(q) + Len(new) :
            (q \o new)[i] = IF i <= Len(q) THEN q[i] ELSE new[i - Len(q)]
  BY <1>1, ConcatProperties DEF new
<1>4. Len(q) \in Nat /\ Len(new) = 2
  BY <1>1 DEF new
<1>5. q \o new # << >>
  BY <1>3, <1>4
<1> QED BY <1>2, <1>3, <1>4, <1>5 DEF new

\* One command at the end of a queue.
LEMMA PushOne ==
  ASSUME NEW q \in Seq(Command), NEW s \in Command
  PROVE  /\ q \o <<s>> \in Seq(Command)
         /\ q \o <<s>> # << >>
         /\ Len(q) \in Nat
         /\ Len(q \o <<s>>) = Len(q) + 1
         /\ \A i \in 1 .. Len(q) : (q \o <<s>>)[i] = q[i]
         /\ (q \o <<s>>)[Len(q) + 1] = s
<1>1. <<s>> \in Seq(Command) /\ Len(<<s>>) = 1
  OBVIOUS
<1> DEFINE new == <<s>>
<1>2. new[1] = s
  OBVIOUS
<1> HIDE DEF new
<1>3. /\ q \o new \in Seq(Command)
      /\ Len(q \o new) = Len(q) + Len(new)
      /\ \A i \in 1 .. Len(q) + Len(new) :
            (q \o new)[i] = IF i <= Len(q) THEN q[i] ELSE new[i - Len(q)]
  BY <1>1, ConcatProperties DEF new
<1>4. Len(q) \in Nat /\ Len(new) = 1
  BY <1>1 DEF new
<1>5. q \o new # << >>
  BY <1>3, <1>4
<1> QED BY <1>2, <1>3, <1>4, <1>5 DEF new

\* The first command taken off a queue.
LEMMA PopOne ==
  ASSUME NEW q \in Seq(Command), q # << >>
  PROVE  /\ Head(q) = q[1] /\ Head(q) \in Command
         /\ Tail(q) \in Seq(Command)
         /\ Len(q) \in Nat \ {0}
         /\ Len(Tail(q)) = Len(q) - 1
         /\ \A i \in 1 .. Len(q) - 1 : Tail(q)[i] = q[i + 1]
         /\ Tail(q) = << >> <=> Len(q) = 1
<1>1. Len(q) \in Nat \ {0}
  BY EmptySeq
<1>2. /\ Tail(q) \in Seq(Command)
      /\ Len(Tail(q)) = Len(q) - 1
      /\ \A i \in 1 .. Len(Tail(q)) : Tail(q)[i] = q[i + 1]
  BY HeadTailProperties
<1>3. Head(q) = q[1] /\ Head(q) \in Command
  BY HeadTailProperties
<1>4. Tail(q) = << >> <=> Len(Tail(q)) = 0
  BY <1>2, EmptySeq
<1> QED BY <1>1, <1>2, <1>3, <1>4

\* S is T taken on along a longer queue, with c the next command, to a.
GoesOn(q, T, c, new, S, a) ==
    /\ S[1] = T[1]
    /\ Leads(new, S)
    /\ S[Len(new) + 1] = a
    /\ Feasible(new, S) =>
          /\ Feasible(q, T)
          /\ \A p \in Piece : GrabOf(c, p) => T[Len(q) + 1][p].layer = "Tray"

\* A command and a shadow lead on.
LEMMA LeadsTwo ==
  ASSUME NEW q \in Seq(Command), NEW c \in Command, NEW s \in Command, Shadows(s),
         NEW T \in [Nat -> Outlook], Leads(q, T),
         NEW a \in Outlook, Does(c, T[Len(q) + 1], a)
  PROVE  \E S \in [Nat -> Outlook] : GoesOn(q, T, c, q \o <<c, s>>, S, a)
<1> DEFINE new == q \o <<c, s>>
           n == Len(q)
           S == [i \in Nat |-> IF i <= n + 1 THEN T[i] ELSE a]
<1>1. /\ new \in Seq(Command) /\ Len(new) = n + 2 /\ n \in Nat
      /\ \A i \in 1 .. n : new[i] = q[i]
      /\ new[n + 1] = c /\ new[n + 2] = s
  BY PushTwo
<1>2. S \in [Nat -> Outlook]
  OBVIOUS
<1>3. /\ \A i \in 1 .. n + 1 : S[i] = T[i]
      /\ S[n + 2] = a /\ S[n + 3] = a
  BY <1>1
<1>4. \A i \in 1 .. n : Does(q[i], T[i], T[i + 1])
  BY DEF Leads
<1>5. Does(s, a, a)
  BY DEF Does, Shadows
<1> HIDE DEF new, n, S
<1>6. \A i \in 1 .. n + 2 : Does(new[i], S[i], S[i + 1])
  <2> SUFFICES ASSUME NEW i \in 1 .. n + 2
      PROVE  Does(new[i], S[i], S[i + 1])
    OBVIOUS
  <2>1. CASE i \in 1 .. n
    <3>1. new[i] = q[i] /\ S[i] = T[i] /\ S[i + 1] = T[i + 1]
      BY <1>1, <1>3, <2>1
    <3> QED BY <1>4, <2>1, <3>1
  <2>2. CASE i = n + 1
    <3>1. new[i] = c /\ S[i] = T[n + 1] /\ S[i + 1] = a
      BY <1>1, <1>3, <2>2
    <3> QED BY <3>1 DEF n
  <2>3. CASE i = n + 2
    <3>1. new[i] = s /\ S[i] = a /\ S[i + 1] = a
      BY <1>1, <1>3, <2>3
    <3> QED BY <1>5, <3>1
  <2> QED BY <1>1, <2>1, <2>2, <2>3
<1>7. Leads(new, S)
  BY <1>1, <1>6 DEF Leads
<1>8. S[1] = T[1] /\ S[Len(new) + 1] = a
  BY <1>1, <1>3
<1>9. ASSUME Feasible(new, S)
      PROVE  /\ Feasible(q, T)
             /\ \A p \in Piece : GrabOf(c, p) => T[n + 1][p].layer = "Tray"
  <2>1. \A i \in 1 .. n + 2, p \in Piece :
           GrabOf(new[i], p) => S[i][p].layer = "Tray"
    BY <1>1, <1>9 DEF Feasible
  <2>2. \A i \in 1 .. n : new[i] = q[i] /\ S[i] = T[i] /\ i \in 1 .. n + 2
    BY <1>1, <1>3
  <2>3. Feasible(q, T)
    BY <2>1, <2>2 DEF Feasible, n
  <2>4. n + 1 \in 1 .. n + 2 /\ new[n + 1] = c /\ S[n + 1] = T[n + 1]
    BY <1>1, <1>3
  <2> QED BY <2>1, <2>3, <2>4
<1>10. GoesOn(q, T, c, new, S, a)
  BY <1>7, <1>8, <1>9 DEF GoesOn, n
<1> QED BY <1>2, <1>10 DEF new

\* Another shadow leads nowhere else.
LEMMA LeadsOne ==
  ASSUME NEW q \in Seq(Command), NEW s \in Command, Shadows(s),
         NEW T \in [Nat -> Outlook], Leads(q, T)
  PROVE  \E S \in [Nat -> Outlook] :
            /\ S[1] = T[1]
            /\ Leads(q \o <<s>>, S)
            /\ S[Len(q \o <<s>>) + 1] = T[Len(q) + 1]
            /\ Feasible(q \o <<s>>, S) => Feasible(q, T)
<1> DEFINE new == q \o <<s>>
           n == Len(q)
           S == [i \in Nat |-> IF i <= n + 1 THEN T[i] ELSE T[n + 1]]
<1>1. /\ new \in Seq(Command) /\ Len(new) = n + 1 /\ n \in Nat
      /\ \A i \in 1 .. n : new[i] = q[i]
      /\ new[n + 1] = s
  BY PushOne
<1>2. S \in [Nat -> Outlook]
  BY <1>1
<1>3. /\ \A i \in 1 .. n + 1 : S[i] = T[i]
      /\ S[n + 2] = T[n + 1]
  BY <1>1
<1>4. \A i \in 1 .. n : Does(q[i], T[i], T[i + 1])
  BY DEF Leads
<1>5. \A b : Does(s, b, b)
  BY DEF Does, Shadows
<1> HIDE DEF new, n, S
<1>6. \A i \in 1 .. n + 1 : Does(new[i], S[i], S[i + 1])
  <2> SUFFICES ASSUME NEW i \in 1 .. n + 1
      PROVE  Does(new[i], S[i], S[i + 1])
    OBVIOUS
  <2>1. CASE i \in 1 .. n
    <3>1. new[i] = q[i] /\ S[i] = T[i] /\ S[i + 1] = T[i + 1]
      BY <1>1, <1>3, <2>1
    <3> QED BY <1>4, <2>1, <3>1
  <2>2. CASE i = n + 1
    <3>1. new[i] = s /\ S[i] = T[n + 1] /\ S[i + 1] = T[n + 1]
      BY <1>1, <1>3, <2>2
    <3> QED BY <1>5, <3>1
  <2> QED BY <1>1, <2>1, <2>2
<1>7. Leads(new, S)
  BY <1>1, <1>6 DEF Leads
<1>8. S[1] = T[1] /\ S[Len(new) + 1] = T[n + 1]
  BY <1>1, <1>3
<1>9. ASSUME Feasible(new, S)
      PROVE  Feasible(q, T)
  <2>1. \A i \in 1 .. n + 1, p \in Piece :
           GrabOf(new[i], p) => S[i][p].layer = "Tray"
    BY <1>1, <1>9 DEF Feasible
  <2>2. \A i \in 1 .. n : new[i] = q[i] /\ S[i] = T[i] /\ i \in 1 .. n + 1
    BY <1>1, <1>3
  <2> QED BY <2>1, <2>2 DEF Feasible, n
<1> QED BY <1>2, <1>7, <1>8, <1>9 DEF new, n

\* The rest of a queue leads from the second outlook to the same end.
LEMMA LeadsTail ==
  ASSUME NEW q \in Seq(Command), q # << >>,
         NEW T \in [Nat -> Outlook], Leads(q, T)
  PROVE  /\ Does(q[1], T[1], T[2])
         /\ \E S \in [Nat -> Outlook] :
               /\ S[1] = T[2]
               /\ Leads(Tail(q), S)
               /\ S[Len(Tail(q)) + 1] = T[Len(q) + 1]
               /\ /\ Feasible(Tail(q), S)
                  /\ \A p \in Piece : GrabOf(q[1], p) => T[1][p].layer = "Tray"
                  => Feasible(q, T)
<1> DEFINE rest == Tail(q)
           n == Len(q)
           S == [i \in Nat |-> T[i + 1]]
<1>1. /\ rest \in Seq(Command) /\ Len(rest) = n - 1 /\ n \in Nat \ {0}
      /\ \A i \in 1 .. n - 1 : rest[i] = q[i + 1]
  BY PopOne
<1>2. S \in [Nat -> Outlook]
  OBVIOUS
<1>3. \A i \in Nat : S[i] = T[i + 1]
  OBVIOUS
<1>4. \A i \in 1 .. n : Does(q[i], T[i], T[i + 1])
  BY DEF Leads
<1> HIDE DEF rest, n, S
<1>5. Does(q[1], T[1], T[2])
  <2>1. 1 \in 1 .. n /\ 1 + 1 = 2
    BY <1>1
  <2> QED BY <1>4, <2>1
<1>6. \A i \in 1 .. n - 1 : Does(rest[i], S[i], S[i + 1])
  <2> SUFFICES ASSUME NEW i \in 1 .. n - 1
      PROVE  Does(rest[i], S[i], S[i + 1])
    OBVIOUS
  <2>1. i + 1 \in 1 .. n /\ i \in Nat /\ i + 1 \in Nat
    BY <1>1
  <2>2. rest[i] = q[i + 1] /\ S[i] = T[i + 1] /\ S[i + 1] = T[(i + 1) + 1]
    BY <1>1, <1>3, <2>1
  <2> QED BY <1>4, <2>1, <2>2
<1>7. Leads(rest, S)
  BY <1>1, <1>6 DEF Leads
<1>8. S[1] = T[2] /\ S[Len(rest) + 1] = T[n + 1]
  <2>1. 1 + 1 = 2 /\ Len(rest) + 1 = n /\ n \in Nat
    BY <1>1
  <2> QED BY <1>3, <2>1
<1>9. ASSUME Feasible(rest, S),
             \A p \in Piece : GrabOf(q[1], p) => T[1][p].layer = "Tray"
      PROVE  Feasible(q, T)
  <2> SUFFICES ASSUME NEW i \in 1 .. n, NEW p \in Piece, GrabOf(q[i], p)
      PROVE  T[i][p].layer = "Tray"
    BY DEF Feasible, n
  <2>1. CASE i = 1
    BY <1>9, <2>1
  <2>2. CASE i # 1
    <3>1. i - 1 \in 1 .. n - 1 /\ (i - 1) + 1 = i /\ i - 1 \in Nat
      BY <1>1, <2>2
    <3>2. rest[i - 1] = q[i] /\ S[i - 1] = T[i]
      BY <1>1, <1>3, <3>1
    <3> QED BY <1>1, <1>9, <3>1, <3>2 DEF Feasible
  <2> QED BY <2>1, <2>2
<1> QED BY <1>2, <1>5, <1>7, <1>8, <1>9 DEF rest, n

-----------------------------------------------------------------------------
(* Initial states.                                                         *)

\* Before the first event everything is in the tray, and nobody wants it
\* anywhere else.
LEMMA InvInit == Init => Inv
<1> SUFFICES ASSUME Init PROVE Inv
  OBVIOUS
<1>1. Referee!TypeOK /\ Referee!BoardTellsPieces
  <2>1. Proved!Init
    BY DEF Init, Referee!Init, Proved!Init, Proved!Index, Referee!Index,
           Proved!CellCount, Referee!CellCount, Proved!Team, Referee!Team,
           Proved!None, Referee!None
  <2>2. Proved!RefereeInv
    BY <2>1, Proved!InvInit, RefereeAssumed
  <2> QED BY <2>2, SameRecords DEF Proved!RefereeInv
<1>2. TypeOK
  <2>1. Deck \in [Piece -> Ids]
    BY DeckAssumption DEF Piece
  <2>2. [p \in Piece |-> calculateSlotPosition(p)] \in [Piece -> Plane]
    BY PointsInPlane, Pieces
  <2>3. DOMAIN mCommandQueue = {}
    BY DEF Init
  <2>4. DOMAIN mSlots \subseteq Slot /\ mSlots \in [DOMAIN mSlots -> Piece]
    BY DEF Init, Piece
  <2> QED BY <1>1, <2>1, <2>2, <2>3, <2>4, PointsInPlane DEF Init, TypeOK
<1>3. Records
  BY <1>1, <1>2, EmptySeq DEF Init, Records, PlaceAndReturnFindThePiece
<1>4. Len(mCommandQueue) = 0
  BY EmptySeq DEF Init
<1>5. PlanInv
  <2> DEFINE t == [p \in Piece |-> [layer |-> "Tray", grid |-> <<0, 0>>]]
             T == [i \in Nat |-> t]
  <2>1. t \in Outlook
    BY PointsInPlane DEF Outlook, Spot, Places
  <2>2. T \in [Nat -> Outlook] /\ T[1] = t /\ T[0 + 1] = t
    BY <2>1
  <2>3. InScene(t)
    BY Pieces DEF Init, InScene
  <2>4. ToPlayer(t)
    BY Pieces DEF Init, ToPlayer
  <2>5. ToReferee(t)
    BY DEF Init, Referee!Init, ToReferee
  <2>6. Leads(mCommandQueue, T)
    BY <1>4 DEF Leads
  <2> HIDE DEF t, T
  <2> QED BY <1>4, <2>2, <2>3, <2>4, <2>5, <2>6 DEF PlanInv, Plan
<1>6. HeldInv
  BY DEF Init, HeldInv
<1>7. PieceInv
  BY DeckAssumption, Pieces DEF Init, PieceInv, Piece
<1>8. ShadowInv
  BY DEF Init, ShadowInv
<1> QED BY <1>3, <1>5, <1>6, <1>7, <1>8 DEF Inv, SceneInv

-----------------------------------------------------------------------------
(* Events.                                                                 *)

\* What stays as it is in the scene when only the player's pieces change.
LEMMA InSceneKept ==
  ASSUME NEW t, InScene(t),
         UNCHANGED <<layer, mSlots, mActivePiecePtr, mSlotId>>,
         \A p \in Piece : layer[p] = "Board" =>
            position'[p] = position[p] /\ origin'[p] = origin[p]
  PROVE  InScene(t)'
  BY DEF InScene

\* The commands of a queue of the right type have it.
LEMMA QueueTyped ==
  ASSUME NEW q \in Seq(Command)
  PROVE  /\ \A i \in DOMAIN q : q[i] \in Command
         /\ \A i \in 1 .. Len(q) : q[i] \in Command
         /\ DOMAIN q = 1 .. Len(q) /\ Len(q) \in Nat
  BY LenProperties

\* Two commands more, of which the first is about the scene, and the plan is
\* one command longer.
LEMMA PlanTwo ==
  ASSUME PlanInv, mCommandQueue \in Seq(Command),
         NEW c \in Command, NEW s \in Command, Shadows(s),
         mCommandQueue' = mCommandQueue \o <<c, s>>,
         UNCHANGED <<layer, mSlots, mActivePiecePtr, mSlotId>>,
         \A p \in Piece : layer[p] = "Board" =>
            position'[p] = position[p] /\ origin'[p] = origin[p],
         \A t \in Outlook : ToPlayer(t) =>
            \E a \in Outlook :
               /\ Does(c, t, a)
               /\ ToPlayer(a)'
               /\ /\ ToReferee(t)
                  /\ \A p \in Piece : GrabOf(c, p) => t[p].layer = "Tray"
                  => ToReferee(a)'
  PROVE  PlanInv'
<1>1. PICK T \in [Nat -> Outlook] : Plan(T)
  BY DEF PlanInv
<1>2. PICK n \in Nat : n = Len(mCommandQueue)
  BY QueueTyped
<1>3. PICK t \in Outlook : t = T[n + 1]
  OBVIOUS
<1>4. /\ ToPlayer(t) /\ (Feasible(mCommandQueue, T) => ToReferee(t))
      /\ Leads(mCommandQueue, T) /\ InScene(T[1])
  BY <1>1, <1>2, <1>3 DEF Plan
<1>5. PICK a \in Outlook :
         /\ Does(c, t, a)
         /\ ToPlayer(a)'
         /\ /\ ToReferee(t)
            /\ \A p \in Piece : GrabOf(c, p) => t[p].layer = "Tray"
            => ToReferee(a)'
  BY <1>4
<1>6. PICK S \in [Nat -> Outlook] :
         /\ S[1] = T[1]
         /\ Leads(mCommandQueue', S)
         /\ S[Len(mCommandQueue') + 1] = a
         /\ Feasible(mCommandQueue', S) =>
               /\ Feasible(mCommandQueue, T)
               /\ \A p \in Piece : GrabOf(c, p) => t[p].layer = "Tray"
  <2>1. PICK q \in Seq(Command) : q = mCommandQueue
    OBVIOUS
  <2>2. n = Len(q) /\ Leads(q, T) /\ Does(c, T[Len(q) + 1], a)
    BY <1>2, <1>3, <1>4, <1>5, <2>1
  <2>3. PICK S \in [Nat -> Outlook] : GoesOn(q, T, c, q \o <<c, s>>, S, a)
    BY <2>2, LeadsTwo
  <2> QED BY <1>3, <2>1, <2>2, <2>3 DEF GoesOn
<1>7. InScene(S[1])'
  <2>1. PICK first : first = T[1]
    OBVIOUS
  <2>2. InScene(first)'
    BY <1>4, <2>1, InSceneKept
  <2> QED BY <1>6, <2>1, <2>2
<1>8. ToPlayer(S[Len(mCommandQueue) + 1])'
  BY <1>5, <1>6 DEF ToPlayer
<1>9. (Feasible(mCommandQueue, S) => ToReferee(S[Len(mCommandQueue) + 1]))'
  BY <1>4, <1>5, <1>6 DEF ToReferee
<1> QED BY <1>6, <1>7, <1>8, <1>9 DEF PlanInv, Plan

\* A shadow more, and the plan stays.
LEMMA PlanOne ==
  ASSUME PlanInv, mCommandQueue \in Seq(Command),
         NEW s \in Command, Shadows(s),
         mCommandQueue' = mCommandQueue \o <<s>>,
         UNCHANGED <<layer, mSlots, mActivePiecePtr, mSlotId>>,
         \A p \in Piece : layer[p] = "Board" =>
            position'[p] = position[p] /\ origin'[p] = origin[p],
         \A t \in Outlook : ToPlayer(t) =>
            ToPlayer(t)' /\ (ToReferee(t) => ToReferee(t)')
  PROVE  PlanInv'
<1>1. PICK T \in [Nat -> Outlook] : Plan(T)
  BY DEF PlanInv
<1>2. PICK n \in Nat : n = Len(mCommandQueue)
  BY QueueTyped
<1>3. PICK t \in Outlook : t = T[n + 1]
  OBVIOUS
<1>4. /\ ToPlayer(t) /\ (Feasible(mCommandQueue, T) => ToReferee(t))
      /\ Leads(mCommandQueue, T) /\ InScene(T[1])
  BY <1>1, <1>2, <1>3 DEF Plan
<1>5. ToPlayer(t)' /\ (ToReferee(t) => ToReferee(t)')
  BY <1>4
<1>6. PICK S \in [Nat -> Outlook] :
         /\ S[1] = T[1]
         /\ Leads(mCommandQueue', S)
         /\ S[Len(mCommandQueue') + 1] = t
         /\ Feasible(mCommandQueue', S) => Feasible(mCommandQueue, T)
  BY <1>2, <1>3, <1>4, LeadsOne
<1>7. InScene(S[1])'
  <2>1. PICK first : first = T[1]
    OBVIOUS
  <2>2. InScene(first)'
    BY <1>4, <2>1, InSceneKept
  <2> QED BY <1>6, <2>1, <2>2
<1>8. ToPlayer(S[Len(mCommandQueue) + 1])'
  BY <1>5, <1>6 DEF ToPlayer
<1>9. (Feasible(mCommandQueue, S) => ToReferee(S[Len(mCommandQueue) + 1]))'
  BY <1>4, <1>5, <1>6 DEF ToReferee
<1> QED BY <1>6, <1>7, <1>8, <1>9 DEF PlanInv, Plan

\* A placement, said to player, referee and scene at once.
LEMMA PressPlaceStep ==
  ASSUME Inv, NEW pos \in MousePositions, PressPlace(pos)
  PROVE  Inv'
<1>1. /\ phase = "input" /\ failed = "none" /\ mHeldPiecePtr # nullptr
      /\ TypeOK /\ mCommandQueue \in Seq(Command)
      /\ Referee!BoardTellsPieces /\ PlanInv /\ PieceInv
  BY DEF PressPlace, Holds, HandlesEvent, Inv, Records, SceneInv
<1>2. PICK p \in Piece : p = mHeldPiecePtr
  BY <1>1 DEF TypeOK
<1>3. PICK id \in Ids : id = mCurrentId[p]
  BY <1>1 DEF TypeOK
<1>4. pos \in Plane
  BY LayoutAssumption
<1>5. PICK grid \in Plane : grid = getMinSnappedGrid(pos, id)
  BY <1>4, PointsInPlane
<1>6. PICK c \in Command : c = PlaceCommand(grid)
  BY CommandsMade
<1>7. /\ Referee!place(id, grid, Red)
      /\ mCommandQueue' = mCommandQueue \o <<c, ClearShadowCommand>>
      /\ mHeldPiecePtr' = nullptr /\ shownAt' = <<0, 0>> /\ mCurrentMousePos' = pos
      /\ outrun' = FALSE
      /\ UNCHANGED <<pieces, scene, phase, failed>>
  BY <1>2, <1>3, <1>5, <1>6 DEF PressPlace, LetGo, Push
<1>8. ClearShadowCommand \in Command /\ Shadows(ClearShadowCommand)
  BY <1>4, CommandsMade DEF Shadows, ClearShadowCommand
<1>9. /\ Referee!TypeOK' /\ Referee!BoardTellsPieces'
      /\ placed' = placed \cup {[team |-> Red, cells |-> Moved(Blocks[id], grid)]}
  BY <1>1, <1>7, PlaceKeepsReferee DEF TypeOK
<1>10. /\ mCommandQueue' \in Seq(Command) /\ mCommandQueue' # << >>
       /\ mCommandQueue'[Len(mCommandQueue')] = ClearShadowCommand
       /\ \A i \in 1 .. Len(mCommandQueue) :
             mCommandQueue'[i] = mCommandQueue[i] /\ i \in 1 .. Len(mCommandQueue')
  BY <1>1, <1>7, <1>8, PushTwo
<1>11. Records'
  <2>1. \A i \in DOMAIN mCommandQueue' : mCommandQueue'[i] \in Command
    BY <1>10, QueueTyped
  <2>2. TypeOK'
    BY <1>1, <1>4, <1>7, <1>9, <2>1, PointsInPlane DEF TypeOK, pieces, scene
  <2> QED BY <1>1, <1>7, <1>9, <1>10, <2>2
          DEF Records, PlaceAndReturnFindThePiece
<1>12. PlanInv'
  <2>1. ASSUME NEW t \in Outlook, ToPlayer(t)
        PROVE  \E a \in Outlook :
                  /\ Does(c, t, a) /\ ToPlayer(a)'
                  /\ ToReferee(t) => ToReferee(a)'
    <3> DEFINE a == [t EXCEPT ![p] = [layer |-> "Board", grid |-> grid]]
    <3>1. a \in Outlook
      BY DEF Outlook, Spot, Places
    <3>2. t[p].layer = "Action"
      BY <1>2, <2>1 DEF ToPlayer
    <3>3. Does(c, t, a)
      BY <1>6, <3>2 DEF Does, PlaceCommand, Shadows
    <3>4. /\ \A r \in Piece \ {p} : a[r] = t[r]
          /\ a[p].layer = "Board" /\ a[p].grid = grid
      BY DEF Outlook
    <3> HIDE DEF a
    <3>5. ToPlayer(a)'
      BY <1>2, <1>7, <2>1, <3>4, Pieces DEF ToPlayer, pieces
    <3>6. ASSUME ToReferee(t) PROVE ToReferee(a)'
      <4>1. {r \in Piece : a[r].layer = "Board"}
               = {r \in Piece : t[r].layer = "Board"} \cup {p}
        BY <3>2, <3>4
      <4>2. \A r \in Piece : t[r].layer = "Board" => a[r].grid = t[r].grid
        BY <3>2, <3>4
      <4>3. mCurrentId' = mCurrentId
        BY <1>7 DEF pieces
      <4>4. {Moved(Blocks[mCurrentId[r]], a[r].grid) :
               r \in {r \in Piece : a[r].layer = "Board"}}
               = {Moved(Blocks[mCurrentId[r]], t[r].grid) :
                    r \in {r \in Piece : t[r].layer = "Board"}}
                 \cup {Moved(Blocks[id], grid)}
        BY <1>3, <3>4, <4>1, <4>2
      <4>5. {piece.cells : piece \in placed'}
               = {piece.cells : piece \in placed} \cup {Moved(Blocks[id], grid)}
        <5>1. PICK new : new = [team |-> Red, cells |-> Moved(Blocks[id], grid)]
          OBVIOUS
        <5>2. new.cells = Moved(Blocks[id], grid) /\ placed' = placed \cup {new}
          BY <1>9, <5>1
        <5> QED BY <5>2
      <4> QED BY <3>6, <4>3, <4>4, <4>5 DEF ToReferee
    <3> QED BY <3>1, <3>3, <3>5, <3>6
  <2> QED BY <1>1, <1>7, <1>8, <2>1, PlanTwo DEF pieces, scene
<1>13. HeldInv'
  BY <1>7 DEF HeldInv
<1>14. PieceInv'
  BY <1>1, <1>7, <1>10 DEF PieceInv, pieces, scene
<1>15. ShadowInv'
  BY <1>7, <1>10 DEF ShadowInv, LastShadow
<1> QED BY <1>7, <1>11, <1>12, <1>13, <1>14, <1>15 DEF Inv, SceneInv

\* Another shadow keeps a queue quiet.
LEMMA QuietOn ==
  ASSUME NEW q, NEW new, NEW n \in Nat, Len(q) = n, Len(new) = n + 1,
         \A j \in 1 .. n : new[j] = q[j], Shadows(new[n + 1]),
         NEW i \in 1 .. n + 1, Quiet(q, i)
  PROVE  Quiet(new, i)
<1> SUFFICES ASSUME NEW j \in i .. n + 1 PROVE Shadows(new[j])
  BY DEF Quiet
<1>1. CASE j = n + 1
  BY <1>1
<1>2. CASE j # n + 1
  <2>1. j \in 1 .. n /\ j \in i .. n
    BY <1>2
  <2> QED BY <2>1 DEF Quiet
<1> QED BY <1>1, <1>2

\* What another shadow in the queue leaves of the held piece's place.
LEMMA InHandOne ==
  ASSUME InHand, mCommandQueue \in Seq(Command), NEW s \in Command, Shadows(s),
         mCommandQueue' = mCommandQueue \o <<s>>,
         UNCHANGED <<layer, mHeldPiecePtr>>,
         IF \E i \in 1 .. Len(mCommandQueue) : mCommandQueue[i].op = "grab"
         THEN shownAt' = shownAt
         ELSE position[mHeldPiecePtr] = shownAt => position'[mHeldPiecePtr] = shownAt'
  PROVE  InHand'
<1>1. PICK q \in Seq(Command) : q = mCommandQueue
  OBVIOUS
<1>2. PICK new : new = mCommandQueue'
  OBVIOUS
<1>3. PICK n \in Nat : n = Len(q)
  BY QueueTyped
<1>4. /\ Len(new) = n + 1 /\ \A i \in 1 .. n : new[i] = q[i]
      /\ new[n + 1] = s
  BY <1>1, <1>2, <1>3, PushOne
<1>5. ASSUME NEW i \in 1 .. n + 1, Quiet(q, i)
      PROVE  Quiet(new, i)
  BY <1>3, <1>4, <1>5, QuietOn
<1>6. CASE Quiet(q, 1) /\ layer[mHeldPiecePtr] = "Action"
             /\ position[mHeldPiecePtr] = shownAt
  <2>1. Quiet(new, 1)
    BY <1>3, <1>5, <1>6
  <2>2. \A i \in 1 .. n : q[i].op # "grab"
    BY <1>3, <1>6 DEF Quiet, Shadows
  <2>3. position'[mHeldPiecePtr] = shownAt'
    BY <1>1, <1>3, <1>6, <2>2
  <2> QED BY <1>2, <1>6, <2>1, <2>3 DEF InHand
<1>7. CASE \E k \in 1 .. n :
              /\ GrabOf(q[k], mHeldPiecePtr) /\ q[k].pos = shownAt /\ Quiet(q, k + 1)
  <2>1. PICK k \in 1 .. n :
           /\ GrabOf(q[k], mHeldPiecePtr) /\ q[k].pos = shownAt /\ Quiet(q, k + 1)
    BY <1>7
  <2>2. Quiet(new, k + 1)
    BY <1>5, <2>1
  <2>3. q[k].op = "grab"
    BY <2>1 DEF GrabOf
  <2>4. shownAt' = shownAt
    BY <1>1, <1>3, <2>3
  <2>5. k \in 1 .. Len(new) /\ new[k] = q[k]
    BY <1>3, <1>4
  <2>6. GrabOf(new[k], mHeldPiecePtr')
    BY <2>1, <2>5
  <2> QED BY <1>2, <2>1, <2>2, <2>4, <2>5, <2>6 DEF InHand
<1> QED BY <1>1, <1>3, <1>6, <1>7 DEF InHand

\* A piece that is held in the tray is about to be grabbed.
LEMMA HeldInTray ==
  ASSUME InHand, layer[mHeldPiecePtr] = "Tray"
  PROVE  \E i \in 1 .. Len(mCommandQueue) : GrabOf(mCommandQueue[i], mHeldPiecePtr)
  BY DEF InHand

\* The shadow that is pushed last is the one of the state it leads to.
LEMMA LastShadowNext ==
  ASSUME NEW id, NEW pos, mHeldPiecePtr' # nullptr,
         mCurrentId'[mHeldPiecePtr'] = id, mCurrentMousePos' = pos,
         UNCHANGED referee
  PROVE  LastShadow' = ShadowCommand(id, pos)
  BY DEF LastShadow, ShadowCommand, Shadow, referee, Referee!isValid, Referee!canFit,
         Referee!hasContact

\* The referee's records do not depend on anything else.
LEMMA RefereeKept ==
  ASSUME UNCHANGED referee, Referee!TypeOK, Referee!BoardTellsPieces
  PROVE  Referee!TypeOK' /\ Referee!BoardTellsPieces'
  BY DEF referee, Referee!TypeOK, Referee!BoardTellsPieces

\* A piece sent back is again the piece of its slot.
LEMMA PressReturnStep ==
  ASSUME Inv, NEW pos \in MousePositions, PressReturn(pos)
  PROVE  Inv'
<1>1. /\ phase = "input" /\ failed = "none" /\ mHeldPiecePtr # nullptr
      /\ TypeOK /\ mCommandQueue \in Seq(Command)
      /\ Referee!BoardTellsPieces /\ PlanInv /\ PieceInv /\ HeldInv
  BY DEF PressReturn, Holds, HandlesEvent, Inv, Records, SceneInv
<1>2. PICK p \in Piece : p = mHeldPiecePtr
  BY <1>1 DEF TypeOK
<1>3. pos \in Plane /\ Deck[p] \in Ids /\ getCentroid[Deck[p]] \in Plane
  BY LayoutAssumption, DeckAssumption, PointsInPlane DEF Piece
<1>4. getCanonicalId(p) = Deck[p]
  BY <1>1 DEF PieceInv, getCanonicalId
<1>5. PICK c \in Command : c = ReturnCommand
  BY <1>3, CommandsMade
<1>6. /\ mCurrentId' = [mCurrentId EXCEPT ![p] = Deck[p]]
      /\ origin' = [origin EXCEPT ![p] = getCentroid[Deck[p]]]
      /\ position' = position
      /\ mCommandQueue' = mCommandQueue \o <<c, ClearShadowCommand>>
      /\ mHeldPiecePtr' = nullptr /\ shownAt' = <<0, 0>> /\ mCurrentMousePos' = pos
      /\ outrun' = FALSE
      /\ UNCHANGED <<referee, scene, phase, failed>>
  BY <1>2, <1>4, <1>5 DEF PressReturn, LetGo, Push, setId
<1>7. ClearShadowCommand \in Command /\ Shadows(ClearShadowCommand)
  BY <1>3, CommandsMade DEF Shadows, ClearShadowCommand
<1>8. /\ mCommandQueue' \in Seq(Command) /\ mCommandQueue' # << >>
      /\ mCommandQueue'[Len(mCommandQueue')] = ClearShadowCommand
      /\ \A i \in 1 .. Len(mCommandQueue) :
            mCommandQueue'[i] = mCommandQueue[i] /\ i \in 1 .. Len(mCommandQueue')
  BY <1>1, <1>6, <1>7, PushTwo
<1>9. Referee!TypeOK' /\ Referee!BoardTellsPieces'
  BY <1>1, <1>6, RefereeKept DEF TypeOK
<1>10. Records'
  <2>1. \A i \in DOMAIN mCommandQueue' : mCommandQueue'[i] \in Command
    BY <1>8, QueueTyped
  <2>2. TypeOK'
    BY <1>1, <1>3, <1>6, <1>9, <2>1, PointsInPlane DEF TypeOK, scene
  <2> QED BY <1>1, <1>6, <1>8, <1>9, <2>2
          DEF Records, PlaceAndReturnFindThePiece
<1>11. /\ mCurrentId \in [Piece -> Ids] /\ origin \in [Piece -> Plane]
       /\ layer[p] # "Board"
  BY <1>1, <1>2 DEF TypeOK, HeldInv
<1>12. /\ mCurrentId'[p] = Deck[p] /\ origin'[p] = getCentroid[Deck[p]]
       /\ \A r \in Piece \ {p} :
             mCurrentId'[r] = mCurrentId[r] /\ origin'[r] = origin[r]
  BY <1>6, <1>11
<1>13. PlanInv'
  <2>1. ASSUME NEW t \in Outlook, ToPlayer(t)
        PROVE  \E a \in Outlook :
                  /\ Does(c, t, a) /\ ToPlayer(a)'
                  /\ ToReferee(t) => ToReferee(a)'
    <3> DEFINE a == [t EXCEPT ![p] = [layer |-> "Tray", grid |-> <<0, 0>>]]
    <3>1. a \in Outlook
      BY PointsInPlane DEF Outlook, Spot, Places
    <3>2. t[p].layer = "Action"
      BY <1>2, <2>1 DEF ToPlayer
    <3>3. Does(c, t, a)
      BY <1>5, <3>2 DEF Does, ReturnCommand, Shadows
    <3>4. /\ \A r \in Piece \ {p} : a[r] = t[r]
          /\ a[p].layer = "Tray"
      BY DEF Outlook
    <3> HIDE DEF a
    <3>5. ToPlayer(a)'
      BY <1>2, <1>6, <1>12, <2>1, <3>4, Pieces DEF ToPlayer
    <3>6. ASSUME ToReferee(t) PROVE ToReferee(a)'
      <4>1. {r \in Piece : a[r].layer = "Board"}
               = {r \in Piece : t[r].layer = "Board"}
        BY <3>2, <3>4
      <4>2. \A r \in Piece : t[r].layer = "Board" =>
               a[r].grid = t[r].grid /\ mCurrentId'[r] = mCurrentId[r]
        BY <1>12, <3>2, <3>4
      <4>3. {Moved(Blocks[mCurrentId'[r]], a[r].grid) :
               r \in {r \in Piece : a[r].layer = "Board"}}
               = {Moved(Blocks[mCurrentId[r]], t[r].grid) :
                    r \in {r \in Piece : t[r].layer = "Board"}}
        BY <4>1, <4>2
      <4>4. placed' = placed
        BY <1>6 DEF referee
      <4> QED BY <3>6, <4>3, <4>4 DEF ToReferee
    <3> QED BY <3>1, <3>3, <3>5, <3>6
  <2>2. \A r \in Piece : layer[r] = "Board" =>
           position'[r] = position[r] /\ origin'[r] = origin[r]
    BY <1>6, <1>11, <1>12
  <2> QED BY <1>1, <1>6, <1>7, <2>1, <2>2, PlanTwo DEF scene
<1>14. HeldInv'
  BY <1>6 DEF HeldInv
<1>15. PieceInv'
  <2>1. transformedToCanonical[Deck[p]] = Deck[p]
    BY DeckAssumption DEF Piece
  <2>2. layer[p] = "Tray" => \E i \in 1 .. Len(mCommandQueue') :
                                GrabOf(mCommandQueue'[i], p)
    BY <1>1, <1>2, <1>8, HeldInTray DEF HeldInv
  <2> QED BY <1>1, <1>6, <1>8, <1>12, <2>1, <2>2 DEF PieceInv, scene
<1>16. ShadowInv'
  BY <1>6, <1>8 DEF ShadowInv, LastShadow
<1> QED BY <1>6, <1>10, <1>13, <1>14, <1>15, <1>16 DEF Inv, SceneInv

\* The tray finds a piece it lists, where it is.
LEMMA PieceFound ==
  ASSUME TypeOK, PlanInv, NEW pos, getPieceAt(pos) # nullptr
  PROVE  getPieceAt(pos) \in Piece /\ layer[getPieceAt(pos)] = "Tray"
<1> DEFINE hit == {s \in DOMAIN mSlots : contains(mSlots[s], pos)}
<1>1. hit # {} /\ getPieceAt(pos) = mSlots[Min(hit)]
  BY DEF getPieceAt
<1>2. hit \in SUBSET Slot /\ hit \in SUBSET Nat
  BY Pieces DEF TypeOK
<1>3. hit \subseteq DOMAIN mSlots
  OBVIOUS
<1> HIDE DEF hit
<1>4. PICK s \in Slot : s = Min(hit) /\ s \in DOMAIN mSlots
  BY <1>1, <1>2, <1>3, LeastIsOne
<1>5. PICK T \in [Nat -> Outlook] : InScene(T[1])
  BY DEF PlanInv, Plan
<1>6. layer[s] = "Tray" /\ mSlots[s] = s
  BY <1>4, <1>5, Pieces DEF InScene
<1> QED BY <1>1, <1>4, <1>6, Pieces

\* A grab of a piece the tray still lists.
LEMMA PressGrabStep ==
  ASSUME Inv, NEW pos \in MousePositions, PressGrab(pos)
  PROVE  Inv'
<1>1. /\ phase = "input" /\ failed = "none" /\ mHeldPiecePtr = nullptr
      /\ TypeOK /\ mCommandQueue \in Seq(Command)
      /\ Referee!BoardTellsPieces /\ PlanInv /\ PieceInv
  BY DEF PressGrab, HandlesEvent, Inv, Records, SceneInv
<1>2. PICK p \in Piece : p = getPieceAt(pos) /\ layer[p] = "Tray"
  BY <1>1, PieceFound DEF PressGrab
<1>3. PICK id \in Ids : id = mCurrentId[p]
  BY <1>1 DEF TypeOK
<1>4. pos \in Plane /\ transformedToCanonical[id] = Deck[p]
  BY <1>1, <1>3, LayoutAssumption DEF PieceInv
<1>5. PICK c \in Command : c = GrabCommand(id, pos)
  BY <1>4, CommandsMade
<1>6. PICK s \in Command : s = ShadowCommand(id, pos)
  BY <1>4, CommandsMade
<1>7. /\ mCommandQueue' = mCommandQueue \o <<c, s>>
      /\ mHeldPiecePtr' = p /\ shownAt' = pos /\ mCurrentMousePos' = pos
      /\ outrun' = FALSE
      /\ UNCHANGED <<referee, pieces, scene, phase, failed>>
  BY <1>2, <1>3, <1>5, <1>6 DEF PressGrab, Push
<1>8. Shadows(s)
  BY <1>6 DEF Shadows, ShadowCommand
<1>9. PICK n \in Nat : n = Len(mCommandQueue)
  BY <1>1, QueueTyped
<1>10. /\ mCommandQueue' \in Seq(Command) /\ mCommandQueue' # << >>
       /\ Len(mCommandQueue') = n + 2
       /\ mCommandQueue'[n + 1] = c /\ mCommandQueue'[n + 2] = s
       /\ \A i \in 1 .. n : mCommandQueue'[i] = mCommandQueue[i]
  BY <1>1, <1>7, <1>9, PushTwo
<1>11. Referee!TypeOK' /\ Referee!BoardTellsPieces'
  BY <1>1, <1>7, RefereeKept DEF TypeOK
<1>12. Records'
  <2>1. \A i \in DOMAIN mCommandQueue' : mCommandQueue'[i] \in Command
    BY <1>10, QueueTyped
  <2>2. TypeOK'
    BY <1>1, <1>4, <1>7, <1>11, <2>1, PointsInPlane DEF TypeOK, scene, pieces
  <2> QED BY <1>1, <1>7, <1>10, <1>11, <2>2
          DEF Records, PlaceAndReturnFindThePiece
<1>13. GrabOf(c, p)
  BY <1>4, <1>5 DEF GrabOf, GrabCommand
<1>14. PlanInv'
  <2>1. ASSUME NEW t \in Outlook, ToPlayer(t)
        PROVE  \E a \in Outlook :
                  /\ Does(c, t, a) /\ ToPlayer(a)'
                  /\ ToReferee(t) /\ t[p].layer = "Tray" => ToReferee(a)'
    <3> DEFINE a == [t EXCEPT ![p] = [layer |-> "Action", grid |-> <<0, 0>>]]
    <3>1. a \in Outlook
      BY PointsInPlane DEF Outlook, Spot, Places
    <3>2. \A r \in Piece : t[r].layer # "Action"
      BY <1>1, <2>1, Pieces DEF ToPlayer
    <3>3. Does(c, t, a)
      BY <1>5, <1>13, <3>2 DEF Does, GrabCommand, Shadows
    <3>4. /\ \A r \in Piece \ {p} : a[r] = t[r]
          /\ a[p].layer = "Action"
      BY DEF Outlook
    <3> HIDE DEF a
    <3>5. ToPlayer(a)'
      BY <1>7, <2>1, <3>2, <3>4 DEF ToPlayer, pieces
    <3>6. ASSUME ToReferee(t), t[p].layer = "Tray" PROVE ToReferee(a)'
      <4>1. {r \in Piece : a[r].layer = "Board"}
               = {r \in Piece : t[r].layer = "Board"}
        BY <3>4, <3>6
      <4>2. \A r \in Piece : t[r].layer = "Board" => a[r].grid = t[r].grid
        BY <3>4, <3>6
      <4>3. {Moved(Blocks[mCurrentId[r]], a[r].grid) :
               r \in {r \in Piece : a[r].layer = "Board"}}
               = {Moved(Blocks[mCurrentId[r]], t[r].grid) :
                    r \in {r \in Piece : t[r].layer = "Board"}}
        BY <4>1, <4>2
      <4>4. placed' = placed /\ mCurrentId' = mCurrentId
        BY <1>7 DEF referee, pieces
      <4> QED BY <3>6, <4>3, <4>4 DEF ToReferee
    <3> QED BY <3>1, <3>3, <3>5, <3>6
  <2> QED BY <1>1, <1>7, <1>8, <1>13, <2>1, PlanTwo DEF scene, pieces
<1>15. HeldInv'
  <2>1. layer' = layer /\ n + 1 \in 1 .. Len(mCommandQueue')
    BY <1>7, <1>10 DEF scene
  <2>2. Quiet(mCommandQueue', (n + 1) + 1)
    BY <1>8, <1>10 DEF Quiet
  <2>3. c.pos = pos
    BY <1>5 DEF GrabCommand
  <2>4. InHand'
    BY <1>7, <1>10, <1>13, <2>1, <2>2, <2>3 DEF InHand
  <2> QED BY <1>2, <1>7, <2>1, <2>4 DEF HeldInv
<1>16. PieceInv'
  BY <1>1, <1>7, <1>9, <1>10 DEF PieceInv, scene, pieces
<1>17. ShadowInv'
  <2>1. LastShadow' = s
    BY <1>3, <1>6, <1>7, Pieces, LastShadowNext DEF pieces
  <2> QED BY <1>10, <2>1 DEF ShadowInv
<1> QED BY <1>7, <1>12, <1>14, <1>15, <1>16, <1>17 DEF Inv, SceneInv

\* Plan and pieces, when nothing they are about changes.
LEMMA PlanKept ==
  ASSUME PlanInv, PieceInv,
         UNCHANGED <<placed, mHeldPiecePtr, mCommandQueue, pieces, scene>>
  PROVE  PlanInv' /\ PieceInv'
<1>1. PICK T \in [Nat -> Outlook] : Plan(T)
  BY DEF PlanInv
<1>2. PICK first : first = T[1]
  OBVIOUS
<1>3. InScene(first)'
  BY <1>1, <1>2 DEF Plan, InScene, pieces, scene
<1>4. ToPlayer(T[Len(mCommandQueue) + 1])'
  BY <1>1 DEF Plan, ToPlayer, pieces
<1>5. (Feasible(mCommandQueue, T) => ToReferee(T[Len(mCommandQueue) + 1]))'
  BY <1>1 DEF Plan, ToReferee, pieces
<1>6. Leads(mCommandQueue, T)'
  BY <1>1 DEF Plan
<1>7. PlanInv'
  BY <1>2, <1>3, <1>4, <1>5, <1>6 DEF PlanInv, Plan
<1>8. PieceInv'
  BY DEF PieceInv, pieces, scene
<1> QED BY <1>7, <1>8

\* A press where nothing is.
LEMMA PressNothingStep ==
  ASSUME Inv, NEW pos \in MousePositions, PressNothing(pos)
  PROVE  Inv'
<1>1. /\ failed = "none" /\ TypeOK /\ mCommandQueue \in Seq(Command)
      /\ Referee!BoardTellsPieces /\ PlanInv /\ PieceInv /\ ShadowInv
      /\ mHeldPiecePtr = nullptr /\ pos \in Plane
  BY LayoutAssumption DEF PressNothing, HandlesEvent, Inv, Records, SceneInv
<1>2. /\ mCurrentMousePos' = pos
      /\ UNCHANGED <<referee, mHeldPiecePtr, mCommandQueue, pieces, scene, phase,
                     failed, shownAt, outrun>>
  BY DEF PressNothing
<1>3. Referee!TypeOK' /\ Referee!BoardTellsPieces'
  BY <1>1, <1>2, RefereeKept DEF TypeOK
<1>4. TypeOK'
  BY <1>1, <1>2, <1>3 DEF TypeOK, pieces, scene
<1>5. Records'
  BY <1>1, <1>2, <1>3, <1>4 DEF Records, PlaceAndReturnFindThePiece
<1>6. PlanInv' /\ PieceInv'
  BY <1>1, <1>2, PlanKept DEF referee
<1>7. HeldInv' /\ ShadowInv'
  BY <1>1, <1>2 DEF HeldInv, ShadowInv, LastShadow, scene
<1> QED BY <1>5, <1>6, <1>7 DEF Inv, SceneInv

\* A transformation key turns the held piece at once.
LEMMA PressKeyStep ==
  ASSUME Inv, PressKey
  PROVE  Inv'
<1>1. /\ phase = "input" /\ failed = "none" /\ mHeldPiecePtr # nullptr
      /\ TypeOK /\ mCommandQueue \in Seq(Command)
      /\ Referee!BoardTellsPieces /\ PlanInv /\ PieceInv /\ HeldInv
  BY DEF PressKey, Holds, HandlesEvent, Inv, Records, SceneInv
<1>2. PICK p \in Piece : p = mHeldPiecePtr
  BY <1>1 DEF TypeOK
<1>3. PICK id \in Ids : id = mCurrentId[p]
  BY <1>1 DEF TypeOK
<1>4. PICK newId \in {RotateCW(id), RotateCCW(id), ReflectH(id), ReflectV(id)} :
         /\ setId(mHeldPiecePtr, newId)
         /\ Push(<<ShadowCommand(newId, mCurrentMousePos)>>)
  BY <1>2, <1>3 DEF PressKey
<1>5. newId \in Ids /\ transformedToCanonical[newId] = Deck[p]
  BY <1>1, <1>3, TurnsStay DEF PieceInv
<1>6. PICK pos \in Plane : pos = mCurrentMousePos
  BY <1>1 DEF TypeOK
<1>7. PICK s \in Command : s = ShadowCommand(newId, pos)
  BY <1>5, CommandsMade
<1>8. /\ mCurrentId' = [mCurrentId EXCEPT ![p] = newId]
      /\ origin' = [origin EXCEPT ![p] = getCentroid[newId]]
      /\ position' = position
      /\ mCommandQueue' = mCommandQueue \o <<s>>
      /\ UNCHANGED <<referee, player, scene, phase, failed>>
  BY <1>2, <1>4, <1>6, <1>7 DEF PressKey, Push, setId
<1>9. Shadows(s)
  BY <1>7 DEF Shadows, ShadowCommand
<1>10. PICK n \in Nat : n = Len(mCommandQueue)
  BY <1>1, QueueTyped
<1>11. /\ mCommandQueue' \in Seq(Command) /\ mCommandQueue' # << >>
       /\ Len(mCommandQueue') = n + 1 /\ mCommandQueue'[n + 1] = s
       /\ \A i \in 1 .. n : mCommandQueue'[i] = mCommandQueue[i]
  BY <1>1, <1>8, <1>10, PushOne
<1>12. Referee!TypeOK' /\ Referee!BoardTellsPieces'
  BY <1>1, <1>8, RefereeKept DEF TypeOK
<1>13. getCentroid[newId] \in Plane
  BY <1>5, PointsInPlane
<1>14. Records'
  <2>1. \A i \in DOMAIN mCommandQueue' : mCommandQueue'[i] \in Command
    BY <1>11, QueueTyped
  <2>2. TypeOK'
    BY <1>1, <1>5, <1>8, <1>12, <1>13, <2>1 DEF TypeOK, scene, player
  <2> QED BY <1>1, <1>8, <1>11, <1>12, <2>2
          DEF Records, PlaceAndReturnFindThePiece
<1>15. /\ mCurrentId \in [Piece -> Ids] /\ origin \in [Piece -> Plane]
       /\ layer[p] # "Board"
  BY <1>1, <1>2 DEF TypeOK, HeldInv
<1>16. /\ mCurrentId'[p] = newId /\ origin'[p] = getCentroid[newId]
       /\ \A r \in Piece \ {p} :
             mCurrentId'[r] = mCurrentId[r] /\ origin'[r] = origin[r]
  BY <1>8, <1>15
<1>17. PlanInv'
  <2>1. ASSUME NEW t \in Outlook, ToPlayer(t)
        PROVE  ToPlayer(t)' /\ (ToReferee(t) => ToReferee(t)')
    <3>1. t[p].layer = "Action"
      BY <1>2, <2>1 DEF ToPlayer
    <3>2. ToPlayer(t)'
      BY <1>2, <1>8, <1>16, <2>1, <3>1 DEF ToPlayer, player
    <3>3. ASSUME ToReferee(t) PROVE ToReferee(t)'
      <4>1. \A r \in Piece : t[r].layer = "Board" => mCurrentId'[r] = mCurrentId[r]
        BY <1>16, <3>1
      <4>2. {Moved(Blocks[mCurrentId'[r]], t[r].grid) :
               r \in {r \in Piece : t[r].layer = "Board"}}
               = {Moved(Blocks[mCurrentId[r]], t[r].grid) :
                    r \in {r \in Piece : t[r].layer = "Board"}}
        BY <4>1
      <4>3. placed' = placed
        BY <1>8 DEF referee
      <4> QED BY <3>3, <4>2, <4>3 DEF ToReferee
    <3> QED BY <3>2, <3>3
  <2>2. \A r \in Piece : layer[r] = "Board" =>
           position'[r] = position[r] /\ origin'[r] = origin[r]
    BY <1>8, <1>15, <1>16
  <2> QED BY <1>1, <1>8, <1>9, <2>1, <2>2, PlanOne DEF scene
<1>18. HeldInv'
  <2>1. InHand'
    BY <1>1, <1>8, <1>9, InHandOne DEF HeldInv, player, scene
  <2> QED BY <1>1, <1>8, <2>1 DEF HeldInv, player, scene
<1>19. PieceInv'
  <2>1. layer[p] = "Tray" => \E i \in 1 .. n : GrabOf(mCommandQueue[i], p)
    BY <1>1, <1>2, <1>10, HeldInTray DEF HeldInv
  <2>2. \A r \in Piece, i \in 1 .. n :
           GrabOf(mCommandQueue[i], r) =>
              i \in 1 .. Len(mCommandQueue') /\ GrabOf(mCommandQueue'[i], r)
    BY <1>11
  <2> QED BY <1>1, <1>5, <1>8, <1>10, <1>16, <2>1, <2>2 DEF PieceInv, scene
<1>20. ShadowInv'
  <2>1. LastShadow' = s
    BY <1>1, <1>2, <1>6, <1>7, <1>8, <1>16, LastShadowNext DEF player
  <2> QED BY <1>11, <2>1 DEF ShadowInv
<1> QED BY <1>8, <1>14, <1>17, <1>18, <1>19, <1>20 DEF Inv, SceneInv

\* A move takes the held piece along, unless a grab is still to come.
LEMMA MoveMouseStep ==
  ASSUME Inv, NEW pos \in MousePositions, MoveMouse(pos)
  PROVE  Inv'
<1>1. /\ phase = "input" /\ failed = "none" /\ mHeldPiecePtr # nullptr
      /\ TypeOK /\ mCommandQueue \in Seq(Command)
      /\ Referee!BoardTellsPieces /\ PlanInv /\ PieceInv /\ HeldInv
  BY DEF MoveMouse, Holds, HandlesEvent, Inv, Records, SceneInv
<1>2. PICK p \in Piece : p = mHeldPiecePtr
  BY <1>1 DEF TypeOK
<1>3. PICK id \in Ids : id = mCurrentId[p]
  BY <1>1 DEF TypeOK
<1>4. pos \in Plane
  BY LayoutAssumption
<1>5. PICK s \in Command : s = ShadowCommand(id, pos)
  BY <1>4, CommandsMade
<1>6. /\ mCurrentMousePos' = pos
      /\ position' = [position EXCEPT ![p] = pos]
      /\ shownAt' = IF \E i \in 1 .. Len(mCommandQueue) : mCommandQueue[i].op = "grab"
                    THEN shownAt ELSE pos
      /\ outrun' \in BOOLEAN
      /\ mCommandQueue' = mCommandQueue \o <<s>>
      /\ UNCHANGED <<referee, mHeldPiecePtr, mCurrentId, origin, scene, phase, failed>>
  BY <1>1, <1>2, <1>3, <1>5, QueueTyped DEF MoveMouse, Push, setPosition
<1>7. Shadows(s)
  BY <1>5 DEF Shadows, ShadowCommand
<1>8. PICK n \in Nat : n = Len(mCommandQueue)
  BY <1>1, QueueTyped
<1>9. /\ mCommandQueue' \in Seq(Command) /\ mCommandQueue' # << >>
      /\ Len(mCommandQueue') = n + 1 /\ mCommandQueue'[n + 1] = s
      /\ \A i \in 1 .. n : mCommandQueue'[i] = mCommandQueue[i]
  BY <1>1, <1>6, <1>8, PushOne
<1>10. Referee!TypeOK' /\ Referee!BoardTellsPieces'
  BY <1>1, <1>6, RefereeKept DEF TypeOK
<1>11. Records'
  <2>1. \A i \in DOMAIN mCommandQueue' : mCommandQueue'[i] \in Command
    BY <1>9, QueueTyped
  <2>2. shownAt' \in Plane
    BY <1>1, <1>4, <1>6 DEF TypeOK
  <2>3. TypeOK'
    BY <1>1, <1>4, <1>6, <1>10, <2>1, <2>2 DEF TypeOK, scene
  <2> QED BY <1>1, <1>6, <1>9, <1>10, <2>3
          DEF Records, PlaceAndReturnFindThePiece
<1>12. position \in [Piece -> Plane] /\ layer[p] # "Board"
  BY <1>1, <1>2 DEF TypeOK, HeldInv
<1>13. position'[p] = pos /\ \A r \in Piece \ {p} : position'[r] = position[r]
  BY <1>6, <1>12
<1>14. PlanInv'
  <2>1. ASSUME NEW t \in Outlook, ToPlayer(t)
        PROVE  ToPlayer(t)' /\ (ToReferee(t) => ToReferee(t)')
    BY <1>6, <2>1 DEF ToPlayer, ToReferee, referee
  <2>2. \A r \in Piece : layer[r] = "Board" =>
           position'[r] = position[r] /\ origin'[r] = origin[r]
    BY <1>6, <1>12, <1>13
  <2> QED BY <1>1, <1>6, <1>7, <2>1, <2>2, PlanOne DEF scene
<1>15. HeldInv'
  <2>1. IF \E i \in 1 .. Len(mCommandQueue) : mCommandQueue[i].op = "grab"
        THEN shownAt' = shownAt
        ELSE position[mHeldPiecePtr] = shownAt =>
                position'[mHeldPiecePtr] = shownAt'
    BY <1>2, <1>6, <1>13
  <2>2. InHand'
    BY <1>1, <1>6, <1>7, <2>1, InHandOne DEF HeldInv, scene
  <2> QED BY <1>1, <1>6, <2>2 DEF HeldInv, scene
<1>16. PieceInv'
  <2>1. layer[p] = "Tray" => \E i \in 1 .. n : GrabOf(mCommandQueue[i], p)
    BY <1>1, <1>2, <1>8, HeldInTray DEF HeldInv
  <2>2. \A r \in Piece, i \in 1 .. n :
           GrabOf(mCommandQueue[i], r) =>
              i \in 1 .. Len(mCommandQueue') /\ GrabOf(mCommandQueue'[i], r)
    BY <1>9
  <2> QED BY <1>1, <1>6, <1>8, <1>13, <2>1, <2>2 DEF PieceInv, scene
<1>17. ShadowInv'
  <2>1. LastShadow' = s
    BY <1>1, <1>2, <1>3, <1>5, <1>6, LastShadowNext
  <2> QED BY <1>9, <2>1 DEF ShadowInv
<1> QED BY <1>6, <1>11, <1>14, <1>15, <1>16, <1>17 DEF Inv, SceneInv

\* Any other event only draws the shadow again.
LEMMA OtherEventStep ==
  ASSUME Inv, OtherEvent
  PROVE  Inv'
<1>1. /\ phase = "input" /\ failed = "none" /\ mHeldPiecePtr # nullptr
      /\ TypeOK /\ mCommandQueue \in Seq(Command)
      /\ Referee!BoardTellsPieces /\ PlanInv /\ PieceInv /\ HeldInv
  BY DEF OtherEvent, Holds, HandlesEvent, Inv, Records, SceneInv
<1>2. PICK p \in Piece : p = mHeldPiecePtr
  BY <1>1 DEF TypeOK
<1>3. PICK id \in Ids : id = mCurrentId[p]
  BY <1>1 DEF TypeOK
<1>4. PICK pos \in Plane : pos = mCurrentMousePos
  BY <1>1 DEF TypeOK
<1>5. PICK s \in Command : s = ShadowCommand(id, pos)
  BY CommandsMade
<1>6. /\ mCommandQueue' = mCommandQueue \o <<s>>
      /\ UNCHANGED <<referee, player, pieces, scene, phase, failed>>
  BY <1>2, <1>3, <1>4, <1>5 DEF OtherEvent, Push
<1>7. Shadows(s)
  BY <1>5 DEF Shadows, ShadowCommand
<1>8. PICK n \in Nat : n = Len(mCommandQueue)
  BY <1>1, QueueTyped
<1>9. /\ mCommandQueue' \in Seq(Command) /\ mCommandQueue' # << >>
      /\ Len(mCommandQueue') = n + 1 /\ mCommandQueue'[n + 1] = s
      /\ \A i \in 1 .. n : mCommandQueue'[i] = mCommandQueue[i]
  BY <1>1, <1>6, <1>8, PushOne
<1>10. Referee!TypeOK' /\ Referee!BoardTellsPieces'
  BY <1>1, <1>6, RefereeKept DEF TypeOK
<1>11. Records'
  <2>1. \A i \in DOMAIN mCommandQueue' : mCommandQueue'[i] \in Command
    BY <1>9, QueueTyped
  <2>2. TypeOK'
    BY <1>1, <1>6, <1>10, <2>1 DEF TypeOK, scene, player, pieces
  <2> QED BY <1>1, <1>6, <1>9, <1>10, <2>2
          DEF Records, PlaceAndReturnFindThePiece
<1>12. PlanInv'
  <2>1. ASSUME NEW t \in Outlook, ToPlayer(t)
        PROVE  ToPlayer(t)' /\ (ToReferee(t) => ToReferee(t)')
    BY <1>6, <2>1 DEF ToPlayer, ToReferee, referee, player, pieces
  <2> QED BY <1>1, <1>6, <1>7, <2>1, PlanOne DEF scene, pieces
<1>13. HeldInv'
  <2>1. InHand'
    BY <1>1, <1>6, <1>7, InHandOne DEF HeldInv, scene, player, pieces
  <2> QED BY <1>1, <1>6, <2>1 DEF HeldInv, scene, player
<1>14. PieceInv'
  BY <1>1, <1>6, <1>8, <1>9 DEF PieceInv, scene, pieces
<1>15. ShadowInv'
  <2>1. LastShadow' = s
    BY <1>1, <1>2, <1>3, <1>4, <1>5, <1>6, LastShadowNext DEF player, pieces
  <2> QED BY <1>9, <2>1 DEF ShadowInv
<1> QED BY <1>6, <1>11, <1>12, <1>13, <1>14, <1>15 DEF Inv, SceneInv

-----------------------------------------------------------------------------
(* The scene executes a command.                                           *)

\* What one command less leaves of the plan.
LEMMA PlanPop ==
  ASSUME PlanInv, mCommandQueue \in Seq(Command), mCommandQueue # << >>,
         NEW c \in Command, c = Head(mCommandQueue),
         mCommandQueue' = Tail(mCommandQueue),
         UNCHANGED <<placed, mHeldPiecePtr, mCurrentId>>,
         \A b, a \in Outlook : InScene(b) /\ Does(c, b, a) =>
            /\ InScene(a)'
            /\ \A p \in Piece : GrabOf(c, p) => b[p].layer = "Tray"
  PROVE  PlanInv'
<1>1. PICK T \in [Nat -> Outlook] : Plan(T)
  BY DEF PlanInv
<1>2. PICK q \in Seq(Command) : q = mCommandQueue /\ q # << >> /\ q[1] = c
  BY PopOne
<1>3. /\ InScene(T[1]) /\ Leads(q, T) /\ ToPlayer(T[Len(q) + 1])
      /\ Feasible(q, T) => ToReferee(T[Len(q) + 1])
  BY <1>1, <1>2 DEF Plan
<1>4. PICK S \in [Nat -> Outlook] :
         /\ S[1] = T[2]
         /\ Leads(Tail(q), S)
         /\ S[Len(Tail(q)) + 1] = T[Len(q) + 1]
         /\ /\ Feasible(Tail(q), S)
            /\ \A p \in Piece : GrabOf(q[1], p) => T[1][p].layer = "Tray"
            => Feasible(q, T)
  BY <1>2, <1>3, LeadsTail
<1>5. Does(c, T[1], T[2])
  BY <1>2, <1>3, LeadsTail
<1>6. PICK b \in Outlook : b = T[1]
  OBVIOUS
<1>7. PICK a \in Outlook : a = T[2]
  OBVIOUS
<1>8. InScene(a)' /\ \A p \in Piece : GrabOf(c, p) => b[p].layer = "Tray"
  BY <1>3, <1>5, <1>6, <1>7
<1>9. PICK last \in Outlook : last = T[Len(q) + 1]
  <2>1. Len(q) + 1 \in Nat
    BY <1>2, QueueTyped
  <2> QED BY <2>1
<1>10. ToPlayer(last)'
  BY <1>3, <1>9 DEF ToPlayer
<1>11. ToReferee(last) => ToReferee(last)'
  BY DEF ToReferee
<1>12. PICK rest : rest = Tail(q)
  OBVIOUS
<1>13. /\ mCommandQueue' = rest /\ S[1] = a /\ S[Len(rest) + 1] = last
       /\ Leads(rest, S) /\ (Feasible(rest, S) => ToReferee(last))
  BY <1>2, <1>3, <1>4, <1>6, <1>7, <1>8, <1>9, <1>12
<1>14. Plan(S)'
  BY <1>8, <1>10, <1>11, <1>13 DEF Plan
<1> QED BY <1>14 DEF PlanInv

\* The held piece, when one command less is to be executed.
LEMMA InHandTail ==
  ASSUME InHand, mCommandQueue \in Seq(Command), mCommandQueue # << >>,
         NEW c \in Command, c = Head(mCommandQueue),
         mCommandQueue' = Tail(mCommandQueue),
         UNCHANGED <<mHeldPiecePtr, shownAt>>,
         /\ layer[mHeldPiecePtr] = "Action"
         /\ position[mHeldPiecePtr] = shownAt
         /\ Shadows(c)
         => layer'[mHeldPiecePtr] = "Action" /\ position'[mHeldPiecePtr] = shownAt,
         GrabOf(c, mHeldPiecePtr) =>
            layer'[mHeldPiecePtr] = "Action" /\ position'[mHeldPiecePtr] = c.pos
  PROVE  InHand'
<1>1. PICK q \in Seq(Command) : q = mCommandQueue
  OBVIOUS
<1>2. PICK rest : rest = Tail(q)
  OBVIOUS
<1>3. PICK n \in Nat \ {0} : n = Len(q)
  BY <1>1, PopOne
<1>4. /\ Len(rest) = n - 1 /\ \A i \in 1 .. n - 1 : rest[i] = q[i + 1]
      /\ q[1] = c /\ mCommandQueue' = rest
  BY <1>1, <1>2, <1>3, PopOne
<1>5. ASSUME NEW i \in 1 .. n, Quiet(q, i + 1)
      PROVE  Quiet(rest, i)
  <2> SUFFICES ASSUME NEW j \in i .. n - 1 PROVE Shadows(rest[j])
    BY <1>4 DEF Quiet
  <2>1. j \in 1 .. n - 1 /\ j + 1 \in i + 1 .. n
    BY <1>3
  <2> QED BY <1>3, <1>4, <1>5, <2>1 DEF Quiet
<1>6. CASE Quiet(q, 1) /\ layer[mHeldPiecePtr] = "Action"
             /\ position[mHeldPiecePtr] = shownAt
  <2>1. Shadows(c) /\ Quiet(q, 1 + 1)
    BY <1>3, <1>4, <1>6 DEF Quiet
  <2>2. Quiet(rest, 1)
    BY <1>3, <1>5, <2>1
  <2> QED BY <1>4, <1>6, <2>1, <2>2 DEF InHand
<1>7. CASE \E k \in 1 .. n :
              /\ GrabOf(q[k], mHeldPiecePtr) /\ q[k].pos = shownAt /\ Quiet(q, k + 1)
  <2>1. PICK k \in 1 .. n :
           /\ GrabOf(q[k], mHeldPiecePtr) /\ q[k].pos = shownAt /\ Quiet(q, k + 1)
    BY <1>7
  <2>2. CASE k = 1
    <3>1. Quiet(rest, 1)
      BY <1>3, <1>5, <2>1, <2>2
    <3> QED BY <1>4, <2>1, <2>2, <3>1 DEF InHand
  <2>3. CASE k # 1
    <3>1. PICK j \in 1 .. n - 1 : j + 1 = k
      BY <1>3, <2>3
    <3>2. j \in 1 .. n /\ j + 1 \in 1 .. n /\ Quiet(rest, j + 1)
      BY <1>3, <1>5, <2>1, <3>1
    <3>3. j \in 1 .. Len(rest) /\ rest[j] = q[k]
      BY <1>4, <3>1
    <3>4. GrabOf(rest[j], mHeldPiecePtr') /\ rest[j].pos = shownAt'
      BY <2>1, <3>3
    <3> QED BY <1>4, <3>2, <3>3, <3>4 DEF InHand
  <2> QED BY <2>2, <2>3
<1> QED BY <1>1, <1>3, <1>6, <1>7 DEF InHand

\* A grab that is not the next command is one of the rest.
LEMMA GrabsTail ==
  ASSUME NEW q \in Seq(Command), q # << >>, NEW p,
         ~GrabOf(Head(q), p),
         \A i \in 1 .. Len(Tail(q)) : ~GrabOf(Tail(q)[i], p)
  PROVE  \A i \in 1 .. Len(q) : ~GrabOf(q[i], p)
<1>1. PICK rest : rest = Tail(q)
  OBVIOUS
<1>2. PICK n \in Nat \ {0} : n = Len(q)
  BY PopOne
<1>3. /\ Len(rest) = n - 1 /\ \A i \in 1 .. n - 1 : rest[i] = q[i + 1]
      /\ q[1] = Head(q)
  BY <1>1, <1>2, PopOne
<1> SUFFICES ASSUME NEW i \in 1 .. n PROVE ~GrabOf(q[i], p)
  BY <1>2
<1>4. CASE i = 1
  BY <1>3, <1>4
<1>5. CASE i # 1
  <2>1. PICK j \in 1 .. n - 1 : j + 1 = i
    BY <1>2, <1>5
  <2>2. rest[j] = q[i] /\ j \in 1 .. Len(rest)
    BY <1>3, <2>1
  <2> QED BY <1>1, <2>2
<1> QED BY <1>4, <1>5

\* The shadow is the player's: nothing the scene does changes which it is.
LEMMA LastShadowKept ==
  ASSUME UNCHANGED <<referee, mHeldPiecePtr, mCurrentMousePos, mCurrentId>>
  PROVE  /\ LastShadow' = LastShadow
         /\ Shadow(mCurrentId[mHeldPiecePtr], mCurrentMousePos)'
               = Shadow(mCurrentId[mHeldPiecePtr], mCurrentMousePos)
  BY DEF LastShadow, ShadowCommand, Shadow, referee, Referee!isValid, Referee!canFit,
         Referee!hasContact

\* The queue's last command is the shadow's, and is executed as such.
LEMMA ShadowTail ==
  ASSUME ShadowInv, mCommandQueue \in Seq(Command), mCommandQueue # << >>,
         mCommandQueue' = Tail(mCommandQueue),
         UNCHANGED <<referee, mHeldPiecePtr, mCurrentMousePos, mCurrentId>>,
         Head(mCommandQueue).op = "shadow" => mShadow' = Head(mCommandQueue).shadow,
         Head(mCommandQueue).op = "clearShadow" => mShadow' = NoShadow
  PROVE  ShadowInv'
<1>1. PICK q \in Seq(Command) : q = mCommandQueue
  OBVIOUS
<1>2. PICK n \in Nat \ {0} : n = Len(q)
  BY <1>1, PopOne
<1>3. /\ Len(Tail(q)) = n - 1 /\ \A i \in 1 .. n - 1 : Tail(q)[i] = q[i + 1]
      /\ Head(q) = q[1] /\ (Tail(q) = << >> <=> n = 1)
      /\ mCommandQueue' = Tail(q)
  BY <1>1, <1>2, PopOne
<1>4. q[n] = LastShadow
  BY <1>1, <1>2 DEF ShadowInv
<1>5. CASE n = 1
  <2>1. Head(mCommandQueue) = LastShadow /\ mCommandQueue' = << >>
    BY <1>1, <1>3, <1>4, <1>5
  <2>2. mShadow' = IF mHeldPiecePtr = nullptr THEN NoShadow
                   ELSE Shadow(mCurrentId[mHeldPiecePtr], mCurrentMousePos)
    BY <2>1 DEF LastShadow, ShadowCommand, ClearShadowCommand
  <2> QED BY <2>1, <2>2, LastShadowKept DEF ShadowInv
<1>6. CASE n # 1
  <2>1. n - 1 \in 1 .. n - 1 /\ (n - 1) + 1 = n
    BY <1>2, <1>6
  <2>2. mCommandQueue'[Len(mCommandQueue')] = q[n] /\ mCommandQueue' # << >>
    BY <1>3, <1>6, <2>1
  <2> QED BY <1>4, <2>2, LastShadowKept DEF ShadowInv
<1> QED BY <1>5, <1>6

\* What every executed command leaves as it should be.
LEMMA ExecuteKeeps ==
  ASSUME NEW op, Inv, Execute(op)
  PROVE  /\ failed = "none" /\ phase = "update" /\ phase' = phase
         /\ TypeOK /\ mCommandQueue \in Seq(Command) /\ mCommandQueue # << >>
         /\ PlanInv /\ HeldInv /\ PieceInv /\ ShadowInv
         /\ Head(mCommandQueue) \in Command /\ Head(mCommandQueue).op = op
         /\ mCommandQueue' = Tail(mCommandQueue)
         /\ mCommandQueue' \in Seq(Command)
         /\ \A i \in DOMAIN mCommandQueue' : mCommandQueue'[i] \in Command
         /\ Referee!TypeOK' /\ Referee!BoardTellsPieces'
         /\ UNCHANGED <<referee, player, mCurrentId>>
<1>1. /\ failed = "none" /\ phase = "update" /\ phase' = phase
      /\ TypeOK /\ mCommandQueue \in Seq(Command) /\ mCommandQueue # << >>
      /\ PlanInv /\ HeldInv /\ PieceInv /\ ShadowInv
      /\ Head(mCommandQueue).op = op
      /\ mCommandQueue' = Tail(mCommandQueue)
      /\ Referee!BoardTellsPieces
      /\ UNCHANGED <<referee, player, mCurrentId>>
  BY DEF Execute, Inv, Records, SceneInv
<1>2. Head(mCommandQueue) \in Command /\ Tail(mCommandQueue) \in Seq(Command)
  BY <1>1, PopOne
<1>3. mCommandQueue' \in Seq(Command)
  BY <1>1, <1>2
<1>4. \A i \in DOMAIN mCommandQueue' : mCommandQueue'[i] \in Command
  BY <1>3, QueueTyped
<1>5. Referee!TypeOK' /\ Referee!BoardTellsPieces'
  BY <1>1, RefereeKept DEF TypeOK
<1> QED BY <1>1, <1>2, <1>3, <1>4, <1>5

\* The first command of the queue does what the plan says.
LEMMA HeadDoes ==
  ASSUME PlanInv, mCommandQueue \in Seq(Command), mCommandQueue # << >>
  PROVE  \E b, a \in Outlook : InScene(b) /\ Does(Head(mCommandQueue), b, a)
<1>1. PICK T \in [Nat -> Outlook] : Plan(T)
  BY DEF PlanInv
<1>2. Head(mCommandQueue) = mCommandQueue[1]
  BY PopOne
<1>3. Does(Head(mCommandQueue), T[1], T[2]) /\ InScene(T[1])
  BY <1>1, <1>2, LeadsTail DEF Plan
<1> QED BY <1>3

\* The piece of a place or return command is in the Arena's hands, and its
\* slot is known: the assertions hold.
LEMMA InArenasHand ==
  ASSUME PlanInv, mCommandQueue \in Seq(Command), mCommandQueue # << >>,
         Head(mCommandQueue).op \in {"place", "return"}
  PROVE  \E p \in Piece : /\ layer[p] = "Action"
                          /\ mActivePiecePtr = p /\ mSlotId[p] = p
<1>1. PICK b, a \in Outlook : InScene(b) /\ Does(Head(mCommandQueue), b, a)
  BY HeadDoes
<1>2. PICK p \in Piece : b[p].layer = "Action"
  BY <1>1 DEF Does
<1> QED BY <1>1, <1>2 DEF InScene

\* A shadow changes nothing but the shadow.
LEMMA ExecuteShadowStep ==
  ASSUME Inv, ExecuteShadow
  PROVE  Inv'
<1>1. PICK op \in {"shadow", "clearShadow"} :
         /\ Execute(op)
         /\ op = "shadow" => mShadow' = Head(mCommandQueue).shadow
         /\ op = "clearShadow" => mShadow' = NoShadow
         /\ UNCHANGED <<position, origin, mSlotId, layer, mSlots, mActivePiecePtr,
                        failed>>
  <2>1. CASE Execute("shadow") /\ mShadow' = Head(mCommandQueue).shadow
    BY <2>1 DEF ExecuteShadow
  <2>2. CASE Execute("clearShadow") /\ mShadow' = NoShadow
    BY <2>2 DEF ExecuteShadow
  <2> QED BY <2>1, <2>2 DEF ExecuteShadow
<1>2. /\ failed = "none" /\ phase = "update" /\ phase' = phase
      /\ TypeOK /\ mCommandQueue \in Seq(Command) /\ mCommandQueue # << >>
      /\ PlanInv /\ HeldInv /\ PieceInv /\ ShadowInv
      /\ Head(mCommandQueue) \in Command /\ Head(mCommandQueue).op = op
      /\ mCommandQueue' = Tail(mCommandQueue)
      /\ mCommandQueue' \in Seq(Command)
      /\ \A i \in DOMAIN mCommandQueue' : mCommandQueue'[i] \in Command
      /\ Referee!TypeOK' /\ Referee!BoardTellsPieces'
      /\ UNCHANGED <<referee, player, mCurrentId>>
  BY <1>1, ExecuteKeeps
<1>3. PICK c \in Command : c = Head(mCommandQueue) /\ c.op = op
  BY <1>2
<1>4. Shadows(c) /\ \A p : ~GrabOf(c, p)
  BY <1>1, <1>3 DEF Shadows, GrabOf
<1>5. Records'
  <2>1. mShadow' \in ShadowRecord \cup {NoShadow}
    BY <1>1, <1>3, CommandKinds
  <2>2. TypeOK'
    BY <1>1, <1>2, <2>1 DEF TypeOK, player
  <2> QED BY <1>1, <1>2, <2>2 DEF Records, PlaceAndReturnFindThePiece
<1>6. PlanInv'
  <2>1. ASSUME NEW b \in Outlook, NEW a \in Outlook, InScene(b), Does(c, b, a)
        PROVE  InScene(a)'
    <3>1. a = b
      BY <1>4, <2>1 DEF Does
    <3> QED BY <1>1, <2>1, <3>1 DEF InScene
  <2> QED BY <1>2, <1>3, <1>4, <2>1, PlanPop DEF player, referee
<1>7. HeldInv'
  <2>1. ASSUME mHeldPiecePtr # nullptr PROVE InHand'
    BY <1>1, <1>2, <1>3, <1>4, <2>1, InHandTail DEF HeldInv, player
  <2> QED BY <1>2, <2>1 DEF HeldInv, player
<1>8. PieceInv'
  <2>1. ASSUME NEW p \in Piece,
               \A i \in 1 .. Len(mCommandQueue') : ~GrabOf(mCommandQueue'[i], p)
        PROVE  \A i \in 1 .. Len(mCommandQueue) : ~GrabOf(mCommandQueue[i], p)
    BY <1>2, <1>3, <1>4, <2>1, GrabsTail
  <2> QED BY <1>1, <1>2, <2>1 DEF PieceInv
<1>9. ShadowInv'
  BY <1>1, <1>2, ShadowTail DEF player
<1> QED BY <1>5, <1>6, <1>7, <1>8, <1>9 DEF Inv, SceneInv

\* What is grabbed is the piece the grab is about, if the tray lists it.
LEMMA ExecuteGrabStep ==
  ASSUME Inv, ExecuteGrab
  PROVE  Inv'
<1>1. Execute("grab")
  BY DEF ExecuteGrab
<1>2. /\ failed = "none" /\ phase = "update" /\ phase' = phase
      /\ TypeOK /\ mCommandQueue \in Seq(Command) /\ mCommandQueue # << >>
      /\ PlanInv /\ HeldInv /\ PieceInv /\ ShadowInv
      /\ Head(mCommandQueue) \in Command /\ Head(mCommandQueue).op = "grab"
      /\ mCommandQueue' = Tail(mCommandQueue)
      /\ mCommandQueue' \in Seq(Command)
      /\ \A i \in DOMAIN mCommandQueue' : mCommandQueue'[i] \in Command
      /\ Referee!TypeOK' /\ Referee!BoardTellsPieces'
      /\ UNCHANGED <<referee, player, mCurrentId>>
  BY <1>1, ExecuteKeeps
<1>3. PICK c \in Command : c = Head(mCommandQueue) /\ c.op = "grab"
  BY <1>2
<1>4. c.id \in Ids /\ c.pos \in Plane
  BY <1>3, CommandKinds, LayoutAssumption
<1>5. PICK b, a \in Outlook : InScene(b) /\ Does(c, b, a)
  BY <1>2, <1>3, HeadDoes
<1>6. PICK p \in Piece : GrabOf(c, p)
  BY <1>3, <1>5 DEF Does
<1>7. \A r \in Piece : GrabOf(c, r) => r = p
  BY <1>6, DeckAssumption DEF GrabOf, Piece
<1> DEFINE matching == {s \in DOMAIN mSlots : mCurrentId[mSlots[s]] = c.id}
<1>8. matching \subseteq {p} /\ (matching # {} => /\ layer[p] = "Tray"
                                                  /\ mSlots[p] = p
                                                  /\ mCurrentId[p] = c.id)
  <2>1. ASSUME NEW s \in matching
        PROVE  /\ s = p /\ layer[p] = "Tray" /\ mSlots[p] = p
               /\ mCurrentId[p] = c.id
    <3>1. s \in Piece /\ s \in DOMAIN mSlots
      BY <1>2, <2>1 DEF TypeOK, Piece
    <3>2. layer[s] = "Tray" /\ mSlots[s] = s
      BY <1>5, <3>1 DEF InScene
    <3>3. transformedToCanonical[c.id] = Deck[s]
      BY <1>2, <2>1, <3>1, <3>2 DEF PieceInv
    <3>4. s = p
      BY <1>3, <1>7, <3>1, <3>3 DEF GrabOf
    <3> QED BY <2>1, <3>2, <3>4
  <2> QED BY <2>1
<1>9. CASE matching = {}
  <2>1. /\ failed' = "Piece ID not found in Tray slots!"
        /\ UNCHANGED <<position, origin, scene>>
    BY <1>3, <1>9 DEF ExecuteGrab, Fail
  <2>2. TypeOK'
    BY <1>2, <2>1 DEF TypeOK, player, scene
  <2>3. Records'
    BY <1>2, <2>1, <2>2 DEF Records, PlaceAndReturnFindThePiece
  <2> QED BY <2>1, <2>3 DEF Inv
<1>10. CASE matching # {}
  <2>1. matching = {p} /\ layer[p] = "Tray" /\ mSlots[p] = p /\ mCurrentId[p] = c.id
    BY <1>8, <1>10
  <2>2. Min(matching) = p
    <3>1. {p} \in SUBSET Nat /\ {p} # {}
      BY Pieces
    <3>2. Min({p}) \in {p}
      BY <3>1, LeastIsOne
    <3> QED BY <2>1, <3>2
  <2>3. /\ mSlotId' = [mSlotId EXCEPT ![p] = p]
        /\ mSlots' = Erase(mSlots, p)
        /\ layer' = [layer EXCEPT ![p] = "Action"]
        /\ position' = [position EXCEPT ![p] = c.pos]
        /\ origin' = [origin EXCEPT ![p] = getCentroid[c.id]]
        /\ mActivePiecePtr' = p
        /\ UNCHANGED <<mShadow, failed>>
    <3> HIDE DEF matching
    <3>1. /\ mSlotId' = [mSlotId EXCEPT ![mSlots[Min(matching)]] = Min(matching)]
          /\ mSlots' = Erase(mSlots, Min(matching))
          /\ Reparent(mSlots[Min(matching)], "Action", c.pos, getCentroid[c.id])
          /\ mActivePiecePtr' = mSlots[Min(matching)]
          /\ UNCHANGED <<mShadow, failed>>
      BY <1>3, <1>10 DEF ExecuteGrab, matching
    <3> QED BY <2>1, <2>2, <3>1 DEF Reparent
  <2> HIDE DEF matching
  <2>4. getCentroid[c.id] \in Plane
    BY <1>4, PointsInPlane
  <2>5. /\ layer \in [Piece -> {"Tray", "Action", "Board"}]
        /\ position \in [Piece -> Plane] /\ origin \in [Piece -> Plane]
        /\ mSlotId \in [Piece -> Slot \cup {NoSlot}]
        /\ DOMAIN mSlots \subseteq Slot /\ mSlots \in [DOMAIN mSlots -> Piece]
        /\ p \in Slot
    BY <1>2 DEF TypeOK, Piece
  <2>6. /\ layer'[p] = "Action" /\ position'[p] = c.pos
        /\ origin'[p] = getCentroid[c.id] /\ mSlotId'[p] = p
        /\ \A r \in Piece \ {p} :
              /\ layer'[r] = layer[r] /\ position'[r] = position[r]
              /\ origin'[r] = origin[r] /\ mSlotId'[r] = mSlotId[r]
    BY <2>3, <2>5
  <2>7. /\ DOMAIN mSlots' = DOMAIN mSlots \ {p}
        /\ \A s \in DOMAIN mSlots \ {p} : mSlots'[s] = mSlots[s]
        /\ mSlots' \in [DOMAIN mSlots' -> Piece]
    BY <2>3, <2>5 DEF Erase, Restrict
  <2>8. Records'
    <3>1. /\ layer' \in [Piece -> {"Tray", "Action", "Board"}]
          /\ position' \in [Piece -> Plane] /\ origin' \in [Piece -> Plane]
          /\ mSlotId' \in [Piece -> Slot \cup {NoSlot}]
          /\ DOMAIN mSlots' \subseteq Slot
          /\ mActivePiecePtr' \in Piece
      BY <1>4, <2>3, <2>4, <2>5, <2>7
    <3>2. TypeOK'
      BY <1>2, <2>3, <2>7, <3>1 DEF TypeOK, player
    <3> QED BY <1>2, <2>3, <3>2 DEF Records, PlaceAndReturnFindThePiece
  <2>9. PlanInv'
    <3>1. ASSUME NEW bb \in Outlook, NEW aa \in Outlook, InScene(bb), Does(c, bb, aa)
          PROVE  InScene(aa)' /\ bb[p].layer = "Tray"
      <4>1. /\ \A r \in Piece : bb[r].layer # "Action"
            /\ aa = [bb EXCEPT ![p] = [layer |-> "Action", grid |-> <<0, 0>>]]
        BY <1>3, <1>7, <3>1 DEF Does
      <4>2. aa[p].layer = "Action" /\ \A r \in Piece \ {p} : aa[r] = bb[r]
        BY <4>1 DEF Outlook
      <4>3. \A r \in Piece : layer[r] # "Action"
        BY <3>1, <4>1 DEF InScene
      <4>4. InScene(aa)'
        <5> SUFFICES ASSUME NEW r \in Piece
            PROVE  /\ layer'[r] = aa[r].layer
                   /\ layer'[r] = "Tray" <=> r \in DOMAIN mSlots'
                   /\ layer'[r] = "Tray" => mSlots'[r] = r
                   /\ layer'[r] = "Action" => mActivePiecePtr' = r /\ mSlotId'[r] = r
                   /\ layer'[r] = "Board" =>
                         /\ position'[r] = << aa[r].grid[1] * GridSize,
                                              aa[r].grid[2] * GridSize >>
                         /\ origin'[r] = <<0, 0>>
          BY DEF InScene
        <5>1. CASE r = p
          BY <2>3, <2>6, <2>7, <4>2, <5>1
        <5>2. CASE r # p
          BY <2>6, <2>7, <3>1, <4>2, <4>3, <5>2 DEF InScene
        <5> QED BY <5>1, <5>2
      <4>5. bb[p].layer = "Tray"
        BY <2>1, <3>1 DEF InScene
      <4> QED BY <4>4, <4>5
    <3> QED BY <1>2, <1>3, <1>7, <3>1, PlanPop DEF player, referee
  <2>10. HeldInv'
    <3>1. ASSUME mHeldPiecePtr # nullptr PROVE InHand'
      <4>1. mHeldPiecePtr \in Piece /\ InHand
        BY <1>2, <3>1 DEF TypeOK, HeldInv
      <4>2. GrabOf(c, mHeldPiecePtr) =>
               layer'[mHeldPiecePtr] = "Action" /\ position'[mHeldPiecePtr] = c.pos
        BY <1>7, <2>6, <4>1
      <4>3. ~Shadows(c)
        BY <1>3 DEF Shadows
      <4> QED BY <1>2, <1>3, <4>1, <4>2, <4>3, InHandTail DEF player
    <3> QED BY <1>2, <3>1 DEF HeldInv, player
  <2>11. PieceInv'
    <3>1. ASSUME NEW r \in Piece, r # p,
                 \A i \in 1 .. Len(mCommandQueue') : ~GrabOf(mCommandQueue'[i], r)
          PROVE  \A i \in 1 .. Len(mCommandQueue) : ~GrabOf(mCommandQueue[i], r)
      BY <1>2, <1>3, <1>7, <3>1, GrabsTail
    <3>2. mCurrentId' = mCurrentId /\ origin'[p] = getCentroid[mCurrentId[p]]
      BY <1>2, <2>1, <2>6
    <3> QED BY <1>2, <2>6, <3>1, <3>2 DEF PieceInv
  <2>12. ShadowInv'
    BY <1>2, ShadowTail DEF player
  <2> QED BY <2>8, <2>9, <2>10, <2>11, <2>12 DEF Inv, SceneInv
<1> QED BY <1>9, <1>10

\* A piece put down is where the command says.
LEMMA ExecutePlaceStep ==
  ASSUME Inv, ExecutePlace
  PROVE  Inv'
<1>1. Execute("place")
  BY DEF ExecutePlace
<1>2. /\ failed = "none" /\ phase = "update" /\ phase' = phase
      /\ TypeOK /\ mCommandQueue \in Seq(Command) /\ mCommandQueue # << >>
      /\ PlanInv /\ HeldInv /\ PieceInv /\ ShadowInv
      /\ Head(mCommandQueue) \in Command /\ Head(mCommandQueue).op = "place"
      /\ mCommandQueue' = Tail(mCommandQueue)
      /\ mCommandQueue' \in Seq(Command)
      /\ \A i \in DOMAIN mCommandQueue' : mCommandQueue'[i] \in Command
      /\ Referee!TypeOK' /\ Referee!BoardTellsPieces'
      /\ UNCHANGED <<referee, player, mCurrentId>>
  BY <1>1, ExecuteKeeps
<1>3. PICK c \in Command : c = Head(mCommandQueue) /\ c.op = "place"
  BY <1>2
<1>4. PICK grid \in Plane : grid = c.grid
  BY <1>3, CommandKinds
<1>5. PICK p \in Piece : layer[p] = "Action" /\ mActivePiecePtr = p /\ mSlotId[p] = p
  BY <1>2, InArenasHand
<1>6. ~Shadows(c) /\ \A r : ~GrabOf(c, r)
  BY <1>3 DEF Shadows, GrabOf
<1>7. PICK corner \in Plane : corner = <<grid[1] * GridSize, grid[2] * GridSize>>
  <2>1. \A i, j \in Int : i * j \in Int
    OBVIOUS
  <2>2. grid[1] \in Int /\ grid[2] \in Int /\ GridSize \in Int
    BY LayoutAssumption DEF Plane
  <2>3. grid[1] * GridSize \in Int /\ grid[2] * GridSize \in Int
    BY <2>1, <2>2
  <2> QED BY <2>3 DEF Plane
<1>8. /\ layer' = [layer EXCEPT ![p] = "Board"]
      /\ position' = [position EXCEPT ![p] = corner]
      /\ origin' = [origin EXCEPT ![p] = <<0, 0>>]
      /\ mActivePiecePtr' = nullptr
      /\ UNCHANGED <<mSlotId, mSlots, mShadow, failed>>
  BY <1>3, <1>4, <1>5, <1>7 DEF ExecutePlace, ActivePieceIsThere, Reparent
<1>9. /\ layer \in [Piece -> {"Tray", "Action", "Board"}]
      /\ position \in [Piece -> Plane] /\ origin \in [Piece -> Plane]
  BY <1>2 DEF TypeOK
<1>10. /\ layer'[p] = "Board" /\ position'[p] = corner /\ origin'[p] = <<0, 0>>
       /\ \A r \in Piece \ {p} :
             /\ layer'[r] = layer[r] /\ position'[r] = position[r]
             /\ origin'[r] = origin[r]
  BY <1>8, <1>9
<1>11. Records'
  <2>1. /\ layer' \in [Piece -> {"Tray", "Action", "Board"}]
        /\ position' \in [Piece -> Plane] /\ origin' \in [Piece -> Plane]
    BY <1>8, <1>9, PointsInPlane
  <2>2. TypeOK'
    BY <1>2, <1>8, <2>1 DEF TypeOK, player
  <2> QED BY <1>2, <1>8, <2>2 DEF Records, PlaceAndReturnFindThePiece
<1>12. PlanInv'
  <2>1. ASSUME NEW b \in Outlook, NEW a \in Outlook, InScene(b), Does(c, b, a)
        PROVE  InScene(a)'
    <3>1. PICK q \in Piece :
             /\ b[q].layer = "Action"
             /\ a = [b EXCEPT ![q] = [layer |-> "Board", grid |-> grid]]
      BY <1>3, <1>4, <2>1 DEF Does
    <3>2. q = p
      BY <1>5, <2>1, <3>1 DEF InScene
    <3>3. /\ a[p].layer = "Board" /\ a[p].grid = grid
          /\ \A r \in Piece \ {p} : a[r] = b[r]
      BY <3>1, <3>2 DEF Outlook
    <3>4. \A r \in Piece \ {p} : layer[r] # "Action"
      BY <1>5, <2>1 DEF InScene
    <3>5. p \notin DOMAIN mSlots
      BY <1>5, <2>1 DEF InScene
    <3> SUFFICES ASSUME NEW r \in Piece
        PROVE  /\ layer'[r] = a[r].layer
               /\ layer'[r] = "Tray" <=> r \in DOMAIN mSlots'
               /\ layer'[r] = "Tray" => mSlots'[r] = r
               /\ layer'[r] = "Action" => mActivePiecePtr' = r /\ mSlotId'[r] = r
               /\ layer'[r] = "Board" =>
                     /\ position'[r] = << a[r].grid[1] * GridSize,
                                          a[r].grid[2] * GridSize >>
                     /\ origin'[r] = <<0, 0>>
      BY DEF InScene
    <3>6. CASE r = p
      BY <1>7, <1>8, <1>10, <3>3, <3>5, <3>6
    <3>7. CASE r # p
      BY <1>8, <1>10, <2>1, <3>3, <3>4, <3>7 DEF InScene
    <3> QED BY <3>6, <3>7
  <2> QED BY <1>2, <1>3, <1>6, <2>1, PlanPop DEF player, referee
<1>13. HeldInv'
  <2>1. ASSUME mHeldPiecePtr # nullptr PROVE InHand'
    BY <1>2, <1>3, <1>6, <2>1, InHandTail DEF HeldInv, player
  <2> QED BY <1>2, <2>1 DEF HeldInv, player
<1>14. PieceInv'
  <2>1. ASSUME NEW r \in Piece,
               \A i \in 1 .. Len(mCommandQueue') : ~GrabOf(mCommandQueue'[i], r)
        PROVE  \A i \in 1 .. Len(mCommandQueue) : ~GrabOf(mCommandQueue[i], r)
    BY <1>2, <1>3, <1>6, <2>1, GrabsTail
  <2> QED BY <1>2, <1>10, <2>1 DEF PieceInv
<1>15. ShadowInv'
  BY <1>2, ShadowTail DEF player
<1> QED BY <1>11, <1>12, <1>13, <1>14, <1>15 DEF Inv, SceneInv

\* A piece returned is in its own slot.
LEMMA ExecuteReturnStep ==
  ASSUME Inv, ExecuteReturn
  PROVE  Inv'
<1>1. Execute("return")
  BY DEF ExecuteReturn
<1>2. /\ failed = "none" /\ phase = "update" /\ phase' = phase
      /\ TypeOK /\ mCommandQueue \in Seq(Command) /\ mCommandQueue # << >>
      /\ PlanInv /\ HeldInv /\ PieceInv /\ ShadowInv
      /\ Head(mCommandQueue) \in Command /\ Head(mCommandQueue).op = "return"
      /\ mCommandQueue' = Tail(mCommandQueue)
      /\ mCommandQueue' \in Seq(Command)
      /\ \A i \in DOMAIN mCommandQueue' : mCommandQueue'[i] \in Command
      /\ Referee!TypeOK' /\ Referee!BoardTellsPieces'
      /\ UNCHANGED <<referee, player, mCurrentId>>
  BY <1>1, ExecuteKeeps
<1>3. PICK c \in Command : c = Head(mCommandQueue) /\ c.op = "return"
  BY <1>2
<1>4. PICK p \in Piece : layer[p] = "Action" /\ mActivePiecePtr = p /\ mSlotId[p] = p
  BY <1>2, InArenasHand
<1>5. ~Shadows(c) /\ \A r : ~GrabOf(c, r)
  BY <1>3 DEF Shadows, GrabOf
<1>6. p # NoSlot /\ p \in Slot
  BY Pieces
<1>7. PICK corner \in Plane : corner = calculateSlotPosition(p)
  BY <1>6, PointsInPlane
<1>8. /\ layer' = [layer EXCEPT ![p] = "Tray"]
      /\ position' = [position EXCEPT ![p] = corner]
      /\ origin' = [origin EXCEPT ![p] = <<0, 0>>]
      /\ mSlots' = Put(mSlots, p, p)
      /\ mActivePiecePtr' = nullptr
      /\ UNCHANGED <<mSlotId, mShadow, failed>>
  BY <1>4, <1>6, <1>7 DEF ExecuteReturn, ActivePieceIsThere, Reparent
<1>9. /\ layer \in [Piece -> {"Tray", "Action", "Board"}]
      /\ position \in [Piece -> Plane] /\ origin \in [Piece -> Plane]
      /\ DOMAIN mSlots \subseteq Slot /\ mSlots \in [DOMAIN mSlots -> Piece]
  BY <1>2 DEF TypeOK
<1>10. /\ layer'[p] = "Tray" /\ position'[p] = corner /\ origin'[p] = <<0, 0>>
       /\ \A r \in Piece \ {p} :
             /\ layer'[r] = layer[r] /\ position'[r] = position[r]
             /\ origin'[r] = origin[r]
  BY <1>8, <1>9
<1>11. /\ DOMAIN mSlots' = DOMAIN mSlots \cup {p}
       /\ mSlots'[p] = p /\ \A s \in DOMAIN mSlots \ {p} : mSlots'[s] = mSlots[s]
       /\ mSlots' \in [DOMAIN mSlots' -> Piece]
  BY <1>8, <1>9 DEF Put
<1>12. Records'
  <2>1. /\ layer' \in [Piece -> {"Tray", "Action", "Board"}]
        /\ position' \in [Piece -> Plane] /\ origin' \in [Piece -> Plane]
        /\ DOMAIN mSlots' \subseteq Slot
    BY <1>6, <1>8, <1>9, <1>11, PointsInPlane
  <2>2. TypeOK'
    BY <1>2, <1>8, <1>11, <2>1 DEF TypeOK, player
  <2> QED BY <1>2, <1>8, <2>2 DEF Records, PlaceAndReturnFindThePiece
<1>13. PlanInv'
  <2>1. ASSUME NEW b \in Outlook, NEW a \in Outlook, InScene(b), Does(c, b, a)
        PROVE  InScene(a)'
    <3>1. PICK q \in Piece :
             /\ b[q].layer = "Action"
             /\ a = [b EXCEPT ![q] = [layer |-> "Tray", grid |-> <<0, 0>>]]
      BY <1>3, <2>1 DEF Does
    <3>2. q = p
      BY <1>4, <2>1, <3>1 DEF InScene
    <3>3. a[p].layer = "Tray" /\ \A r \in Piece \ {p} : a[r] = b[r]
      BY <3>1, <3>2 DEF Outlook
    <3>4. \A r \in Piece \ {p} : layer[r] # "Action"
      BY <1>4, <2>1 DEF InScene
    <3> SUFFICES ASSUME NEW r \in Piece
        PROVE  /\ layer'[r] = a[r].layer
               /\ layer'[r] = "Tray" <=> r \in DOMAIN mSlots'
               /\ layer'[r] = "Tray" => mSlots'[r] = r
               /\ layer'[r] = "Action" => mActivePiecePtr' = r /\ mSlotId'[r] = r
               /\ layer'[r] = "Board" =>
                     /\ position'[r] = << a[r].grid[1] * GridSize,
                                          a[r].grid[2] * GridSize >>
                     /\ origin'[r] = <<0, 0>>
      BY DEF InScene
    <3>5. CASE r = p
      BY <1>10, <1>11, <3>3, <3>5
    <3>6. CASE r # p
      BY <1>10, <1>11, <2>1, <3>3, <3>4, <3>6 DEF InScene
    <3> QED BY <3>5, <3>6
  <2> QED BY <1>2, <1>3, <1>5, <2>1, PlanPop DEF player, referee
<1>14. HeldInv'
  <2>1. ASSUME mHeldPiecePtr # nullptr PROVE InHand'
    BY <1>2, <1>3, <1>5, <2>1, InHandTail DEF HeldInv, player
  <2> QED BY <1>2, <2>1 DEF HeldInv, player
<1>15. PieceInv'
  <2>1. ASSUME NEW r \in Piece,
               \A i \in 1 .. Len(mCommandQueue') : ~GrabOf(mCommandQueue'[i], r)
        PROVE  \A i \in 1 .. Len(mCommandQueue) : ~GrabOf(mCommandQueue[i], r)
    BY <1>2, <1>3, <1>5, <2>1, GrabsTail
  <2> QED BY <1>2, <1>7, <1>10, <2>1 DEF PieceInv
<1>16. ShadowInv'
  BY <1>2, ShadowTail DEF player
<1> QED BY <1>12, <1>13, <1>14, <1>15, <1>16 DEF Inv, SceneInv

-----------------------------------------------------------------------------
(* Frames.                                                                 *)

\* A frame's events are handled, and its commands come next.
LEMMA BeginUpdateStep ==
  ASSUME Inv, BeginUpdate
  PROVE  Inv'
<1>1. /\ failed = "none" /\ phase' = "update"
      /\ UNCHANGED <<referee, player, mCommandQueue, pieces, scene, failed>>
      /\ Records /\ PlanInv /\ HeldInv /\ PieceInv /\ ShadowInv
  BY DEF BeginUpdate, HandlesEvent, Inv, SceneInv
<1>2. Referee!TypeOK' /\ Referee!BoardTellsPieces'
  BY <1>1, RefereeKept DEF Records, TypeOK
<1>3. TypeOK'
  BY <1>1, <1>2 DEF Records, TypeOK, player, pieces, scene
<1>4. Records'
  BY <1>1, <1>2, <1>3 DEF Records, PlaceAndReturnFindThePiece
<1>5. PlanInv' /\ PieceInv'
  BY <1>1, PlanKept DEF player, referee
<1>6. HeldInv'
  BY <1>1 DEF HeldInv, InHand, player, pieces, scene
<1>7. ShadowInv'
  BY <1>1, LastShadowKept DEF ShadowInv, player, pieces, scene
<1> QED BY <1>4, <1>5, <1>6, <1>7 DEF Inv, SceneInv

\* At the end of a frame the held piece is in the Arena's hands.
LEMMA EndUpdateStep ==
  ASSUME Inv, EndUpdate
  PROVE  Inv'
<1>1. /\ mCommandQueue = << >> /\ phase' = "input"
      /\ UNCHANGED <<referee, player, mCommandQueue, pieces, scene, failed>>
      /\ Records
  BY DEF EndUpdate, Inv
<1>2. Referee!TypeOK' /\ Referee!BoardTellsPieces'
  BY <1>1, RefereeKept DEF Records, TypeOK
<1>3. TypeOK'
  BY <1>1, <1>2 DEF Records, TypeOK, player, pieces, scene
<1>4. Records'
  BY <1>1, <1>2, <1>3 DEF Records, PlaceAndReturnFindThePiece
<1>5. ASSUME failed = "none" PROVE SceneInv'
  <2>1. PlanInv /\ HeldInv /\ PieceInv /\ ShadowInv
    BY <1>5 DEF Inv, SceneInv
  <2>2. PlanInv' /\ PieceInv'
    BY <1>1, <2>1, PlanKept DEF player, referee
  <2>3. Len(mCommandQueue) = 0
    BY <1>1, EmptySeq
  <2>4. InHand => layer[mHeldPiecePtr] = "Action"
    BY <2>3 DEF InHand
  <2>5. HeldInv'
    BY <1>1, <2>1, <2>4 DEF HeldInv, InHand, player, pieces, scene
  <2>6. ShadowInv'
    BY <1>1, <2>1, LastShadowKept DEF ShadowInv, player, pieces, scene
  <2> QED BY <2>2, <2>5, <2>6 DEF SceneInv
<1> QED BY <1>1, <1>4, <1>5 DEF Inv

\* Nothing happens.
LEMMA StutterStep ==
  ASSUME Inv, UNCHANGED vars
  PROVE  Inv'
<1>1. /\ UNCHANGED <<referee, player, mCommandQueue, pieces, scene, phase, failed>>
      /\ Records
  BY DEF vars, Inv
<1>2. Referee!TypeOK' /\ Referee!BoardTellsPieces'
  BY <1>1, RefereeKept DEF Records, TypeOK
<1>3. TypeOK'
  BY <1>1, <1>2 DEF Records, TypeOK, player, pieces, scene
<1>4. Records'
  BY <1>1, <1>2, <1>3 DEF Records, PlaceAndReturnFindThePiece
<1>5. ASSUME failed = "none" PROVE SceneInv'
  <2>1. PlanInv /\ HeldInv /\ PieceInv /\ ShadowInv
    BY <1>5 DEF Inv, SceneInv
  <2>2. PlanInv' /\ PieceInv'
    BY <1>1, <2>1, PlanKept DEF player, referee
  <2>3. HeldInv'
    BY <1>1, <2>1 DEF HeldInv, InHand, player, pieces, scene
  <2>4. ShadowInv'
    BY <1>1, <2>1, LastShadowKept DEF ShadowInv, player, pieces, scene
  <2> QED BY <2>2, <2>3, <2>4 DEF SceneInv
<1> QED BY <1>1, <1>4, <1>5 DEF Inv

\* Every step keeps the invariant.
LEMMA InvNext == Inv /\ [Next]_vars => Inv'
<1> SUFFICES ASSUME Inv, [Next]_vars PROVE Inv'
  OBVIOUS
<1>1. CASE Event
  BY <1>1, PressPlaceStep, PressReturnStep, PressGrabStep, PressNothingStep,
     MoveMouseStep, PressKeyStep, OtherEventStep DEF Event
<1>2. CASE Update
  BY <1>2, BeginUpdateStep, ExecuteGrabStep, ExecutePlaceStep, ExecuteReturnStep,
     ExecuteShadowStep, EndUpdateStep DEF Update
<1>3. CASE UNCHANGED vars
  BY <1>3, StutterStep
<1> QED BY <1>1, <1>2, <1>3 DEF Next

\* The inductive invariant holds in every reachable state.
LEMMA InvHolds == Spec => []Inv
<1> QED BY InvInit, InvNext, PTL DEF Spec

-----------------------------------------------------------------------------
(* What the player can rely on.                                            *)

\* Every variable of player, scene, queue and referee has its type.
THEOREM TypeCorrect == Spec => []TypeOK
<1>1. Inv => TypeOK
  BY DEF Inv, Records
<1> QED BY InvHolds, <1>1, PTL

\* No assertion of placePiece and returnPiece ever fails, and the pointer the
\* Arena's constructor leaves unset is never read before a grab has set it.
THEOREM CommandsFindThePiece == Spec => []PlaceAndReturnFindThePiece
<1>1. Inv => PlaceAndReturnFindThePiece
  BY DEF Inv, Records
<1> QED BY InvHolds, <1>1, PTL

\* When a frame's commands are done, scene, player and referee agree.
LEMMA SettledAgrees ==
  ASSUME Inv, Settled
  PROVE  /\ TypeOK /\ HeldInv /\ PieceInv /\ ShadowInv /\ Referee!BoardTellsPieces
         /\ mCommandQueue = << >> /\ Len(mCommandQueue) = 0
         /\ \E t \in Outlook : InScene(t) /\ ToPlayer(t) /\ ToReferee(t)
<1>1. /\ TypeOK /\ HeldInv /\ PieceInv /\ ShadowInv /\ Referee!BoardTellsPieces
      /\ PlanInv /\ mCommandQueue = << >>
  BY DEF Inv, Records, SceneInv, Settled
<1>2. Len(mCommandQueue) = 0
  BY <1>1, EmptySeq
<1>3. PICK T \in [Nat -> Outlook] : Plan(T)
  BY <1>1 DEF PlanInv
<1>4. Feasible(mCommandQueue, T)
  BY <1>2 DEF Feasible
<1>5. T[Len(mCommandQueue) + 1] = T[1]
  BY <1>2
<1>6. InScene(T[1]) /\ ToPlayer(T[1]) /\ ToReferee(T[1])
  BY <1>3, <1>4, <1>5 DEF Plan
<1> QED BY <1>1, <1>2, <1>6

\* A point less the origin is the point.
LEMMA MinusOrigin ==
  ASSUME NEW pos \in Plane
  PROVE  Minus(pos, <<0, 0>>) = pos
  BY DEF Minus, Plane

\* After a frame the player moves the piece in the Arena's hands, and all other
\* pieces lie on the board or, as they started, in their own slots.
THEOREM PiecesStayAccountedFor == Spec => []PiecesAccountedFor
<1>1. ASSUME Inv, Settled
      PROVE  /\ mHeldPiecePtr # nullptr => mActivePiecePtr = mHeldPiecePtr
             /\ \A p \in Piece :
                   /\ layer[p] = "Action" <=> p = mHeldPiecePtr
                   /\ layer[p] = "Tray" <=> p \in DOMAIN mSlots
                   /\ p \in DOMAIN mSlots =>
                         /\ mSlots[p] = p
                         /\ mCurrentId[p] = Deck[p]
                         /\ BlockCorners(p) =
                               Moved(Pixels(Blocks[Deck[p]]), calculateSlotPosition(p))
  <2>1. /\ TypeOK /\ PieceInv /\ Len(mCommandQueue) = 0
    BY <1>1, SettledAgrees
  <2>2. PICK t \in Outlook : InScene(t) /\ ToPlayer(t)
    BY <1>1, SettledAgrees
  <2>3. \A p \in Piece : layer[p] = "Action" <=> p = mHeldPiecePtr
    BY <2>2 DEF InScene, ToPlayer
  <2>4. mHeldPiecePtr # nullptr => mActivePiecePtr = mHeldPiecePtr
    BY <2>1, <2>2, <2>3 DEF TypeOK, InScene
  <2>5. ASSUME NEW p \in Piece, p \in DOMAIN mSlots
        PROVE  /\ mSlots[p] = p /\ mCurrentId[p] = Deck[p]
               /\ BlockCorners(p) =
                     Moved(Pixels(Blocks[Deck[p]]), calculateSlotPosition(p))
    <3>1. layer[p] = "Tray" /\ mSlots[p] = p
      BY <2>2, <2>5 DEF InScene
    <3>2. mCurrentId[p] = Deck[p]
      BY <2>2, <3>1 DEF InScene, ToPlayer
    <3>3. position[p] = calculateSlotPosition(p) /\ origin[p] = <<0, 0>>
      BY <2>1, <3>1 DEF PieceInv
    <3>4. position[p] \in Plane
      BY <2>1 DEF TypeOK
    <3>5. Minus(position[p], origin[p]) = calculateSlotPosition(p)
      BY <3>3, <3>4, MinusOrigin
    <3> QED BY <3>1, <3>2, <3>5 DEF BlockCorners
  <2>6. \A p \in Piece : layer[p] = "Tray" <=> p \in DOMAIN mSlots
    BY <2>2 DEF InScene
  <2> QED BY <2>3, <2>4, <2>5, <2>6
<1>2. Inv => PiecesAccountedFor
  BY <1>1 DEF PiecesAccountedFor
<1> QED BY InvHolds, <1>2, PTL

\* Moves that no grab outruns are shown.
OutrunInv ==
    /\ outrun \in BOOLEAN
    /\ mHeldPiecePtr # nullptr /\ ~outrun => shownAt = mCurrentMousePos

LEMMA OutrunHolds == Spec => []OutrunInv
<1>1. Init => OutrunInv
  BY DEF Init, OutrunInv
<1>2. OutrunInv /\ [Next]_vars => OutrunInv'
  <2> SUFFICES ASSUME OutrunInv, [Next]_vars PROVE OutrunInv'
    OBVIOUS
  <2>1. ASSUME NEW pos,
               PressPlace(pos) \/ PressReturn(pos) \/ PressGrab(pos)
                  \/ PressNothing(pos) \/ MoveMouse(pos)
        PROVE  OutrunInv'
    BY <2>1 DEF OutrunInv, PressPlace, PressReturn, LetGo, PressGrab, PressNothing, MoveMouse
  <2>2. CASE UNCHANGED player
    BY <2>2 DEF OutrunInv, player
  <2>3. CASE PressKey \/ OtherEvent
    BY <2>3 DEF OutrunInv, PressKey, OtherEvent, player
  <2>4. CASE Update
    BY <2>4 DEF OutrunInv, player, Update, BeginUpdate, EndUpdate, Execute, ExecuteGrab,
               ExecutePlace, ExecuteReturn, ExecuteShadow
  <2> QED BY <2>1, <2>2, <2>3, <2>4 DEF Next, Event, vars
<1> QED BY <1>1, <1>2, PTL DEF Spec

\* After a frame the held piece is under the mouse - where the press was, if the
\* mouse has only moved in the frame that grabbed it (Arena::grabPiece puts it
\* back there) - and hangs by the centroid of the form it has now.
THEOREM HeldUnderMouse == Spec => []HeldPieceUnderMouse
<1>1. ASSUME Inv, OutrunInv, Settled, mHeldPiecePtr # nullptr
      PROVE  /\ position[mHeldPiecePtr] = IF outrun THEN shownAt ELSE mCurrentMousePos
             /\ origin[mHeldPiecePtr] = getCentroid[mCurrentId[mHeldPiecePtr]]
  <2>1. /\ TypeOK /\ HeldInv /\ PieceInv /\ Len(mCommandQueue) = 0
    BY <1>1, SettledAgrees
  <2>2. InHand /\ mHeldPiecePtr \in Piece
    BY <1>1, <2>1 DEF HeldInv, TypeOK
  <2>3. layer[mHeldPiecePtr] = "Action" /\ position[mHeldPiecePtr] = shownAt
    BY <2>1, <2>2 DEF InHand
  <2>4. position[mHeldPiecePtr] = IF outrun THEN shownAt ELSE mCurrentMousePos
    BY <1>1, <2>3 DEF OutrunInv
  <2> QED BY <2>1, <2>2, <2>3, <2>4 DEF PieceInv
<1>2. Inv /\ OutrunInv => HeldPieceUnderMouse
  BY <1>1 DEF HeldPieceUnderMouse
<1> QED BY InvHolds, OutrunHolds, <1>2, PTL

\* Cells on the grid, drawn: a piece put down fills the cells it was placed on.
LEMMA PixelsMoved ==
  ASSUME NEW cells \in SUBSET Plane, NEW grid \in Plane
  PROVE  Pixels(Moved(cells, grid))
            = Moved(Pixels(cells), <<grid[1] * GridSize, grid[2] * GridSize>>)
<1> DEFINE corner == <<grid[1] * GridSize, grid[2] * GridSize>>
           Pixel(cell) == <<GridSize * cell[1], GridSize * cell[2]>>
<1>1. \A a, b \in Int : GridSize * (a + b) = a * GridSize + GridSize * b
  BY LayoutAssumption
<1>2. grid[1] \in Int /\ grid[2] \in Int
  BY DEF Plane
<1>3. ASSUME NEW cell \in cells
      PROVE  Pixel(Plus(grid, cell)) = Plus(corner, Pixel(cell))
  <2>1. cell[1] \in Int /\ cell[2] \in Int
    BY DEF Plane
  <2>2. /\ GridSize * (grid[1] + cell[1]) = grid[1] * GridSize + GridSize * cell[1]
        /\ GridSize * (grid[2] + cell[2]) = grid[2] * GridSize + GridSize * cell[2]
    BY <1>1, <1>2, <2>1
  <2> QED BY <2>2 DEF Plus
<1>4. \A A : Pixels(A) = {Pixel(cell) : cell \in A}
  BY DEF Pixels
<1>5. \A A, o : Moved(A, o) = {Plus(o, cell) : cell \in A}
  BY DEF Moved
<1> HIDE DEF Pixel, corner
<1>6. Pixels(Moved(cells, grid)) \subseteq Moved(Pixels(cells), corner)
  <2> SUFFICES ASSUME NEW x \in Pixels(Moved(cells, grid))
      PROVE  x \in Moved(Pixels(cells), corner)
    OBVIOUS
  <2>1. PICK y \in Moved(cells, grid) : x = Pixel(y)
    BY <1>4
  <2>2. PICK cell \in cells : y = Plus(grid, cell)
    BY <1>5
  <2>3. Pixel(cell) \in Pixels(cells) /\ x = Plus(corner, Pixel(cell))
    BY <1>3, <1>4, <2>1, <2>2
  <2> QED BY <1>5, <2>3
<1>7. Moved(Pixels(cells), corner) \subseteq Pixels(Moved(cells, grid))
  <2> SUFFICES ASSUME NEW x \in Moved(Pixels(cells), corner)
      PROVE  x \in Pixels(Moved(cells, grid))
    OBVIOUS
  <2>1. PICK y \in Pixels(cells) : x = Plus(corner, y)
    BY <1>5
  <2>2. PICK cell \in cells : y = Pixel(cell)
    BY <1>4
  <2>3. Plus(grid, cell) \in Moved(cells, grid) /\ x = Pixel(Plus(grid, cell))
    BY <1>3, <1>5, <2>1, <2>2
  <2> QED BY <1>4, <2>3
<1> QED BY <1>6, <1>7 DEF corner

\* After a frame the board shows exactly the referee's placements.
THEOREM BoardIsReferees == Spec => []BoardShowsReferee
<1>1. ASSUME Inv, Settled
      PROVE  {Pixels(piece.cells) : piece \in placed} =
                {BlockCorners(p) : p \in {q \in Piece : layer[q] = "Board"}}
  <2>1. TypeOK
    BY <1>1, SettledAgrees
  <2>2. PICK t \in Outlook : InScene(t) /\ ToReferee(t)
    BY <1>1, SettledAgrees
  <2> DEFINE onBoard == {q \in Piece : layer[q] = "Board"}
             Cells(p) == Moved(Blocks[mCurrentId[p]], t[p].grid)
  <2>3. onBoard = {q \in Piece : t[q].layer = "Board"}
    BY <2>2 DEF InScene
  <2>4. {Cells(p) : p \in onBoard} = {piece.cells : piece \in placed}
    BY <2>2, <2>3 DEF ToReferee
  <2>5. ASSUME NEW p \in onBoard
        PROVE  Pixels(Cells(p)) = BlockCorners(p)
    <3>1. PICK grid \in Plane : grid = t[p].grid
      BY DEF Outlook, Spot
    <3>2. PICK id \in Ids : id = mCurrentId[p]
      BY <2>1 DEF TypeOK
    <3>3. /\ position[p] = <<grid[1] * GridSize, grid[2] * GridSize>>
          /\ origin[p] = <<0, 0>> /\ position[p] \in Plane
      BY <2>1, <2>2, <3>1 DEF InScene, TypeOK
    <3>4. Minus(position[p], origin[p]) = <<grid[1] * GridSize, grid[2] * GridSize>>
      BY <3>3, MinusOrigin
    <3>5. Blocks[id] \in SUBSET Plane
      BY GameAssumption
    <3>6. Pixels(Moved(Blocks[id], grid))
             = Moved(Pixels(Blocks[id]), <<grid[1] * GridSize, grid[2] * GridSize>>)
      BY <3>5, PixelsMoved
    <3> QED BY <3>1, <3>2, <3>4, <3>6 DEF BlockCorners
  <2> HIDE DEF onBoard, Cells
  <2>6. {Pixels(Cells(p)) : p \in onBoard} = {BlockCorners(p) : p \in onBoard}
    BY <2>5
  <2>7. {Pixels(Cells(p)) : p \in onBoard} = {Pixels(piece.cells) : piece \in placed}
    <3>1. \A p \in onBoard : \E piece \in placed : Cells(p) = piece.cells
      BY <2>4
    <3>2. \A piece \in placed : \E p \in onBoard : Cells(p) = piece.cells
      BY <2>4
    <3> QED BY <3>1, <3>2
  <2> QED BY <2>6, <2>7 DEF onBoard
<1>2. Inv => BoardShowsReferee
  BY <1>1 DEF BoardShowsReferee
<1> QED BY InvHolds, <1>2, PTL

\* After a frame the shadow tells where a press would put the held piece, and
\* whether it would; a valid one is drawn whole, on free cells.
THEOREM ShadowIsRight == Spec => []ShadowTellsTheClick
<1>1. ASSUME Inv, Settled
      PROVE  IF mHeldPiecePtr = nullptr THEN mShadow = NoShadow
             ELSE /\ mShadow = Shadow(mCurrentId[mHeldPiecePtr], mCurrentMousePos)
                  /\ mShadow.valid =>
                        /\ drawShadow = Moved(Blocks[mShadow.id], mShadow.grid)
                        /\ \A piece \in placed : piece.cells \cap drawShadow = {}
  <2>1. /\ TypeOK /\ ShadowInv /\ mCommandQueue = << >> /\ Referee!BoardTellsPieces
    BY <1>1, SettledAgrees
  <2>2. mShadow = IF mHeldPiecePtr = nullptr THEN NoShadow
                  ELSE Shadow(mCurrentId[mHeldPiecePtr], mCurrentMousePos)
    BY <2>1 DEF ShadowInv
  <2>3. ASSUME mHeldPiecePtr # nullptr, mShadow.valid
        PROVE  /\ drawShadow = Moved(Blocks[mShadow.id], mShadow.grid)
               /\ \A piece \in placed : piece.cells \cap drawShadow = {}
    <3>1. PICK id \in Ids : id = mCurrentId[mHeldPiecePtr]
      BY <2>1, <2>3 DEF TypeOK
    <3>2. PICK pos \in Plane : pos = mCurrentMousePos
      BY <2>1 DEF TypeOK
    <3>3. PICK grid \in Plane : grid = getMinSnappedGrid(pos, id)
      BY PointsInPlane
    <3>4. mShadow = Shadow(id, pos)
      BY <2>2, <2>3, <3>1, <3>2
    <3>5. /\ mShadow.id = id /\ mShadow.grid = grid
          /\ Referee!isValid(id, grid, Red)
      BY <2>3, <3>3, <3>4 DEF Shadow
    <3>6. /\ \A cell \in Moved(Blocks[id], grid) : Referee!isWithinBound(cell)
          /\ \A piece \in placed : piece.cells \cap Moved(Blocks[id], grid) = {}
      BY <2>1, <3>5, ValidIsFree DEF TypeOK
    <3>7. drawShadow = Moved(Blocks[id], grid)
      BY <3>5, <3>6 DEF drawShadow
    <3> QED BY <3>5, <3>6, <3>7
  <2> QED BY <2>2, <2>3
<1>2. Inv => ShadowTellsTheClick
  BY <1>1 DEF ShadowTellsTheClick
<1> QED BY InvHolds, <1>2, PTL
=============================================================================
