---------------------------- MODULE ArenaSession ----------------------------
(***************************************************************************)
(* One player's game (NetworkGameState, Player, CommandQueue, Arena,       *)
(* TrayNode, BoardNode, with the Referee).  Everything runs on one thread, *)
(* frame by frame: processInput hands all pending window events to Player, *)
(* then update executes the commands Player has queued.  Player changes    *)
(* its own state, the piece it holds and the referee's board at once, the  *)
(* scene only through commands: within a frame the scene lags behind, and  *)
(* any number of events may meet it in that state.                         *)
(*                                                                         *)
(* Positions are pixels of the world, pairs of integers.                   *)
(*                                                                         *)
(* The default build is a debug build: a failing assertion aborts.         *)
(***************************************************************************)
EXTENDS Polyominoes, Sequences, Containers

CONSTANTS
    BoardSize, TeamCount, Ids, Blocks,  \* of the referee
    clockwiseRotatedIds,      \* the library's tables: id -> id
    horizontallyReflectedIds,
    transformedToCanonical,
    Deck,                     \* slot -> the id of the piece it starts with
    GridSize, Padding, SlotPadding,  \* the layout
    MousePositions,           \* where the mouse may be
    NoShadow,                 \* an empty std::optional<Shadow>
    Wild,                     \* an uninitialised pointer
    MaxCommands               \* bound: commands queued in a frame

Slot == DOMAIN Deck
Piece == Slot      \* a PieceNode is known by the slot it was built for
nullptr == -1
NoSlot == -1
Red == 0

VARIABLES
    mBoard, mIsFirstMove, mScores, placed,  \* of the referee
    mHeldPiecePtr,     \* Player: the piece it moves, or nullptr
    mCurrentMousePos,  \* Player
    mCommandQueue,     \* NetworkGameState: what the scene is yet to do
    mCurrentId,        \* PieceNode: the id of each piece
    mSlotId,           \* PieceNode: the slot it was taken from, or NoSlot
    layer,             \* SceneNode: the parent of each piece
    position, origin,  \* sf::Transformable: of each piece, in its parent
    mSlots,            \* TrayNode: map, slot -> piece
    mActivePiecePtr,   \* Arena: the piece in its Action layer
    mShadow,           \* BoardNode: the shadow it draws, or NoShadow
    phase,             \* of the frame: "input" or "update"
    failed,            \* the assertion that aborted the process, or "none"
    shownAt,           \* history: where the held piece is to be seen
    outrun             \* history: the last move came before the grab was executed

\* A piece of any id; the player's team plays.
ASSUME GameAssumption ==
    /\ BoardSize \in Nat \ {0}
    /\ TeamCount \in 1 .. 4
    /\ Blocks \in [Ids -> SUBSET Plane]
    /\ \A id \in Ids : Blocks[id] # {} /\ IsFiniteSet(Blocks[id])

\* The tables of the library: to turn a piece is to stay the same piece.
ASSUME TablesAssumption ==
    /\ {clockwiseRotatedIds, horizontallyReflectedIds, transformedToCanonical}
          \subseteq [Ids -> Ids]
    /\ \A id \in Ids :
          /\ transformedToCanonical[clockwiseRotatedIds[id]]
                = transformedToCanonical[id]
          /\ transformedToCanonical[horizontallyReflectedIds[id]]
                = transformedToCanonical[id]

ASSUME DeckAssumption ==
    /\ Slot \subseteq Nat
    /\ Deck \in [Slot -> Ids]
    /\ \A s, t \in Slot : Deck[s] = Deck[t] => s = t
    /\ \A s \in Slot : transformedToCanonical[Deck[s]] = Deck[s]

Referee == INSTANCE Referee

referee == <<mBoard, mIsFirstMove, mScores, placed>>
player == <<mHeldPiecePtr, mCurrentMousePos, shownAt, outrun>>
pieces == <<mCurrentId, position, origin>>  \* what Player and scene both write
scene == <<mSlotId, layer, mSlots, mActivePiecePtr, mShadow>>
vars == <<referee, player, mCommandQueue, pieces, scene, phase, failed>>

-----------------------------------------------------------------------------
(* Geometry: where things are, and what is at a place.                     *)

Minus(a, b) == <<a[1] - b[1], a[2] - b[2]>>

Pixels(cells) == {<<GridSize * cell[1], GridSize * cell[2]>> : cell \in cells}

\* Of the nodes that can be a piece's parent.
NodePosition ==
    [Board |-> <<Padding, Padding>>,
     Tray |-> <<2 * Padding + BoardSize * GridSize, Padding>>,
     Action |-> <<0, 0>>]

\* A slot has room for 3 by 5 cells.
calculateSlotPosition(s) ==
    << (s % 6) * (3 * GridSize + SlotPadding),
       (s \div 6) * (5 * GridSize + SlotPadding) >>

\* The mean of the blocks' centres.
CentreSum(id, i) ==
    LET Centre(corner) == corner[i] + GridSize \div 2
    IN  MapThenSumSet(Centre, Pixels(Blocks[id]))

getCentroid ==
    [id \in Ids |->
        LET n == Cardinality(Blocks[id])
        IN  << CentreSum(id, 1) \div n, CentreSum(id, 2) \div n >>]

\* Pixels are counted in units in which every centroid is an integer.  (That
\* a sum of integers is one is said, since it cannot be derived of a fold.)
ASSUME LayoutAssumption ==
    /\ GridSize \in Nat \ {0} /\ Padding \in Nat /\ SlotPadding \in Nat
    /\ GridSize % 2 = 0
    /\ \A id \in Ids, i \in 1 .. 2 :
          /\ CentreSum(id, i) \in Int
          /\ CentreSum(id, i) % Cardinality(Blocks[id]) = 0
    /\ MousePositions \subseteq Plane

\* std::round of a / b, for b > 0: halves are rounded away from zero.
Rounded(a, b) ==
    IF a >= 0 THEN (2 * a + b) \div (2 * b) ELSE -((b - 2 * a) \div (2 * b))

\* Where a piece held at a position would be put down.
getMinSnappedGrid(pos, id) ==
    LET topLeft == Minus(Minus(pos, NodePosition.Board), getCentroid[id])
    IN  << Rounded(topLeft[1], GridSize), Rounded(topLeft[2], GridSize) >>

\* The corners of a piece's blocks in the coordinates of its parent.
BlockCorners(piece) ==
    Moved(Pixels(Blocks[mCurrentId[piece]]), Minus(position[piece], origin[piece]))

contains(piece, pos) ==
    \E corner \in Moved(BlockCorners(piece), NodePosition[layer[piece]]) :
       \A i \in 1 .. 2 : pos[i] - corner[i] \in 0 .. GridSize - 1

\* The piece in the first slot whose piece is there; where it is, and not
\* where the slot is.
getPieceAt(pos) ==
    LET hit == {s \in DOMAIN mSlots : contains(mSlots[s], pos)}
    IN  IF hit = {} THEN nullptr ELSE mSlots[Min(hit)]

-----------------------------------------------------------------------------
Init ==
    /\ Referee!Init
    /\ mHeldPiecePtr = nullptr
    /\ mCurrentMousePos = <<0, 0>>
    /\ mCommandQueue = << >>
    /\ mCurrentId = Deck
    /\ mSlotId = [p \in Piece |-> NoSlot]
    /\ layer = [p \in Piece |-> "Tray"]
    /\ position = [p \in Piece |-> calculateSlotPosition(p)]
    /\ origin = [p \in Piece |-> <<0, 0>>]
    /\ mSlots = [s \in Slot |-> s]
    /\ mActivePiecePtr \in {nullptr, Wild}  \* Arena's constructor does not set it
    /\ mShadow = NoShadow
    /\ phase = "input"
    /\ failed = "none"
    /\ shownAt = <<0, 0>>
    /\ outrun = FALSE

-----------------------------------------------------------------------------
(* The commands.                                                           *)

GrabCommand(id, pos) == [op |-> "grab", id |-> id, pos |-> pos]
PlaceCommand(grid) == [op |-> "place", grid |-> grid]
ReturnCommand == [op |-> "return"]
ClearShadowCommand == [op |-> "clearShadow"]

\* The shadow's colour tells whether a click would place the piece.
Shadow(id, pos) ==
    LET grid == getMinSnappedGrid(pos, id) IN
    [id |-> id, grid |-> grid, valid |-> Referee!isValid(id, grid, Red)]

ShadowCommand(id, pos) == [op |-> "shadow", shadow |-> Shadow(id, pos)]

Push(commands) ==
    /\ Len(mCommandQueue) + Len(commands) <= MaxCommands
    /\ mCommandQueue' = mCommandQueue \o commands

-----------------------------------------------------------------------------
(* Player::handleEvent.                                                    *)

\* Variant: the held pointer is not cleared.
KeepHolding(command) ==
    /\ Push(<<command, ClearShadowCommand>>)
    /\ UNCHANGED <<mHeldPiecePtr, shownAt, outrun>>

\* Variant: the shadow is not cleared.
LeaveShadow(command) ==
    /\ Push(<<command>>)
    /\ mHeldPiecePtr' = nullptr
    /\ shownAt' = <<0, 0>>
    /\ outrun' = FALSE

\* The end of both kinds of press with a piece in hand.
LetGo(command) ==
    /\ Push(<<command, ClearShadowCommand>>)
    /\ mHeldPiecePtr' = nullptr
    /\ shownAt' = <<0, 0>>
    /\ outrun' = FALSE

\* Variant: the piece stays as it was turned.
HeldId(piece) == mCurrentId[piece]

\* A returned piece is again as it was in the tray.
getCanonicalId(piece) == transformedToCanonical[mCurrentId[piece]]

\* Variant: the piece turns about the origin it had.
setIdOnly(piece, id) ==
    /\ mCurrentId' = [mCurrentId EXCEPT ![piece] = id]
    /\ UNCHANGED <<position, origin>>

setId(piece, id) ==
    /\ mCurrentId' = [mCurrentId EXCEPT ![piece] = id]
    /\ origin' = [origin EXCEPT ![piece] = getCentroid[id]]
    /\ UNCHANGED position

\* Variant: a piece in hand does not follow the mouse.
stayPut(piece, pos) == UNCHANGED position

setPosition(piece, pos) == position' = [position EXCEPT ![piece] = pos]

HandlesEvent == phase = "input" /\ failed = "none"

Holds == HandlesEvent /\ mHeldPiecePtr # nullptr

\* A press that puts the held piece down where the referee lets it.
PressPlace(pos) ==
    LET id == mCurrentId[mHeldPiecePtr]
        grid == getMinSnappedGrid(pos, id)
    IN  /\ Holds
        /\ Referee!place(id, grid, Red)
        /\ LetGo(PlaceCommand(grid))
        /\ mCurrentMousePos' = pos
        /\ UNCHANGED <<pieces, scene, phase, failed>>

\* A press anywhere else sends it back to the tray, as it was there.
PressReturn(pos) ==
    LET id == mCurrentId[mHeldPiecePtr] IN
    /\ Holds
    /\ ~Referee!isValid(id, getMinSnappedGrid(pos, id), Red)
    /\ setId(mHeldPiecePtr, getCanonicalId(mHeldPiecePtr))
    /\ LetGo(ReturnCommand)
    /\ mCurrentMousePos' = pos
    /\ UNCHANGED <<referee, scene, phase, failed>>

\* A press on a piece the tray still lists.
PressGrab(pos) ==
    LET piece == getPieceAt(pos)
        id == mCurrentId[piece]
    IN  /\ HandlesEvent
        /\ mHeldPiecePtr = nullptr
        /\ piece # nullptr
        /\ mHeldPiecePtr' = piece
        /\ mCurrentMousePos' = pos
        /\ shownAt' = pos
        /\ outrun' = FALSE
        /\ Push(<<GrabCommand(id, pos), ShadowCommand(id, pos)>>)
        /\ UNCHANGED <<referee, pieces, scene, phase, failed>>

PressNothing(pos) ==
    /\ HandlesEvent
    /\ mHeldPiecePtr = nullptr
    /\ getPieceAt(pos) = nullptr
    /\ mCurrentMousePos' = pos
    /\ UNCHANGED <<referee, mHeldPiecePtr, mCommandQueue, pieces, scene,
                   phase, failed, shownAt, outrun>>

RotateCW(id) == clockwiseRotatedIds[id]
RotateCCW(id) == RotateCW(RotateCW(RotateCW(id)))
ReflectH(id) == horizontallyReflectedIds[id]
ReflectV(id) == RotateCW(RotateCW(ReflectH(id)))

\* A transformation key changes the held piece at once.
PressKey ==
    /\ Holds
    /\ LET id == mCurrentId[mHeldPiecePtr] IN
       \E newId \in {RotateCW(id), RotateCCW(id), ReflectH(id), ReflectV(id)} :
          /\ setId(mHeldPiecePtr, newId)
          /\ Push(<<ShadowCommand(newId, mCurrentMousePos)>>)
    /\ UNCHANGED <<referee, player, scene, phase, failed>>

\* The piece moves at once, too; in the frame that grabs it the grab, which
\* is executed later, puts it back to where the press was.
MoveMouse(pos) ==
    LET grabbing == \E i \in DOMAIN mCommandQueue : mCommandQueue[i].op = "grab" IN
    /\ Holds
    /\ mCurrentMousePos' = pos
    /\ setPosition(mHeldPiecePtr, pos)
    /\ shownAt' = IF grabbing THEN shownAt ELSE pos
    /\ outrun' = grabbing
    /\ Push(<<ShadowCommand(mCurrentId[mHeldPiecePtr], pos)>>)
    /\ UNCHANGED <<referee, mHeldPiecePtr, mCurrentId, origin, scene, phase, failed>>

\* Other events (keys, buttons, the window's) only push the shadow again.
OtherEvent ==
    /\ Holds
    /\ Push(<<ShadowCommand(mCurrentId[mHeldPiecePtr], mCurrentMousePos)>>)
    /\ UNCHANGED <<referee, player, pieces, scene, phase, failed>>

-----------------------------------------------------------------------------
(* NetworkGameState::update: the scene executes the commands.              *)

BeginUpdate ==
    /\ HandlesEvent
    /\ phase' = "update"
    /\ UNCHANGED <<referee, player, mCommandQueue, pieces, scene, failed>>

EndUpdate ==
    /\ phase = "update"
    /\ mCommandQueue = << >>
    /\ phase' = "input"
    /\ UNCHANGED <<referee, player, mCommandQueue, pieces, scene, failed>>

\* SceneNode::onCommand: of all nodes one is of the command's category.
Execute(op) ==
    /\ phase = "update"
    /\ failed = "none"
    /\ mCommandQueue # << >>
    /\ Head(mCommandQueue).op = op
    /\ mCommandQueue' = Tail(mCommandQueue)
    /\ UNCHANGED <<referee, player, mCurrentId, phase>>

Fail(assertion) == failed' = assertion /\ UNCHANGED <<position, origin, scene>>

\* Variant: the piece is detached and not attached again, which destroys it.
DetachOnly(piece, parent, pos, pivot) ==
    /\ layer' = [layer EXCEPT ![piece] = "nowhere"]
    /\ position' = [position EXCEPT ![piece] = pos]
    /\ origin' = [origin EXCEPT ![piece] = pivot]

\* detachChild, setOrigin, setPosition, attachChild: in both places a piece is
\* at rest its origin is its corner.
Reparent(piece, parent, pos, pivot) ==
    /\ layer' = [layer EXCEPT ![piece] = parent]
    /\ position' = [position EXCEPT ![piece] = pos]
    /\ origin' = [origin EXCEPT ![piece] = pivot]

\* Arena::grabPiece: the tray looks for the slot whose piece has the id.
ExecuteGrab ==
    /\ Execute("grab")
    /\ LET grab == Head(mCommandQueue)
           matching == {s \in DOMAIN mSlots : mCurrentId[mSlots[s]] = grab.id}
           s == Min(matching)
           piece == mSlots[s]
       IN  IF matching = {}
           THEN Fail("Piece ID not found in Tray slots!")
           ELSE /\ mSlotId' = [mSlotId EXCEPT ![piece] = s]
                /\ mSlots' = Erase(mSlots, s)
                /\ Reparent(piece, "Action", grab.pos, getCentroid[grab.id])
                /\ mActivePiecePtr' = piece
                /\ UNCHANGED <<mShadow, failed>>

\* The assertions of placePiece and returnPiece, and of detachChild in both.
ActivePieceIsThere ==
    mActivePiecePtr \in Piece /\ layer[mActivePiecePtr] = "Action"

\* Variant: the piece still hangs by its centroid.
ExecutePlaceByCentroid ==
    /\ Execute("place")
    /\ LET grid == Head(mCommandQueue).grid IN
       Reparent(mActivePiecePtr, "Board", <<grid[1] * GridSize, grid[2] * GridSize>>,
                origin[mActivePiecePtr])
    /\ mActivePiecePtr' = nullptr
    /\ UNCHANGED <<mSlotId, mSlots, mShadow, failed>>

\* Arena::placePiece
ExecutePlace ==
    /\ Execute("place")
    /\ LET grid == Head(mCommandQueue).grid IN
       IF ~ActivePieceIsThere
       THEN Fail("mActivePiecePtr")
       ELSE /\ Reparent(mActivePiecePtr, "Board",
                        <<grid[1] * GridSize, grid[2] * GridSize>>, <<0, 0>>)
            /\ mActivePiecePtr' = nullptr
            /\ UNCHANGED <<mSlotId, mSlots, mShadow, failed>>

\* Arena::returnPiece
ExecuteReturn ==
    /\ Execute("return")
    /\ LET slotId == mSlotId[mActivePiecePtr] IN
       IF ~ActivePieceIsThere
       THEN Fail("mActivePiecePtr")
       ELSE IF slotId = NoSlot
       THEN Fail("Piece does not have a slot ID to return to!")
       ELSE /\ Reparent(mActivePiecePtr, "Tray", calculateSlotPosition(slotId), <<0, 0>>)
            /\ mSlots' = Put(mSlots, slotId, mActivePiecePtr)
            /\ mActivePiecePtr' = nullptr
            /\ UNCHANGED <<mSlotId, mShadow, failed>>

ExecuteShadow ==
    /\ \/ Execute("shadow") /\ mShadow' = Head(mCommandQueue).shadow
       \/ Execute("clearShadow") /\ mShadow' = NoShadow
    /\ UNCHANGED <<position, origin, mSlotId, layer, mSlots, mActivePiecePtr, failed>>

-----------------------------------------------------------------------------
Event ==
    \/ \E pos \in MousePositions :
          PressPlace(pos) \/ PressReturn(pos) \/ PressGrab(pos) \/ PressNothing(pos)
             \/ MoveMouse(pos)
    \/ PressKey
    \/ OtherEvent

Update ==
    \/ BeginUpdate
    \/ ExecuteGrab
    \/ ExecutePlace
    \/ ExecuteReturn
    \/ ExecuteShadow
    \/ EndUpdate

Next == Event \/ Update

Spec == Init /\ [][Next]_vars

-----------------------------------------------------------------------------
(* Properties.                                                             *)

ShadowRecord == [id : Ids, grid : Plane, valid : BOOLEAN]

Command ==
    [op : {"grab"}, id : Ids, pos : MousePositions]
       \cup [op : {"place"}, grid : Plane]
       \cup {ReturnCommand, ClearShadowCommand}
       \cup [op : {"shadow"}, shadow : ShadowRecord]

\* The type invariant.
TypeOK ==
    /\ Referee!TypeOK
    /\ mHeldPiecePtr \in Piece \cup {nullptr}
    /\ mCurrentMousePos \in Plane
    /\ shownAt \in Plane
    /\ outrun \in BOOLEAN
    /\ \A i \in DOMAIN mCommandQueue : mCommandQueue[i] \in Command
    /\ mCurrentId \in [Piece -> Ids]
    /\ position \in [Piece -> Plane]
    /\ origin \in [Piece -> Plane]
    /\ mSlotId \in [Piece -> Slot \cup {NoSlot}]
    /\ layer \in [Piece -> {"Tray", "Action", "Board"}]
    /\ DOMAIN mSlots \subseteq Slot
    /\ mSlots \in [DOMAIN mSlots -> Piece]
    /\ mActivePiecePtr \in Piece \cup {nullptr, Wild}
    /\ mShadow \in ShadowRecord \cup {NoShadow}
    /\ phase \in {"input", "update"}

\* The scene has executed all commands: a frame is drawn like this.
Settled == mCommandQueue = << >> /\ failed = "none"

\* However presses, keys and moves fall into frames, the piece the player
\* moves is the one in the Arena's hands once a frame's commands are done, and
\* every other piece lies on the board or, untransformed and where it started,
\* in its own slot.
PiecesAccountedFor ==
    Settled =>
       /\ mHeldPiecePtr # nullptr => mActivePiecePtr = mHeldPiecePtr
       /\ \A p \in Piece :
             /\ layer[p] = "Action" <=> p = mHeldPiecePtr
             /\ layer[p] = "Tray" <=> p \in DOMAIN mSlots
             /\ p \in DOMAIN mSlots =>
                   /\ mSlots[p] = p
                   /\ mCurrentId[p] = Deck[p]
                   /\ BlockCorners(p) =
                         Moved(Pixels(Blocks[Deck[p]]), calculateSlotPosition(p))

\* The held piece is drawn with its centroid, as it is turned now, under the
\* mouse; unless the mouse has last moved in the frame that grabbed the piece,
\* before the grab was executed: then it is where the press was.
HeldPieceUnderMouse ==
    Settled /\ mHeldPiecePtr # nullptr =>
       /\ position[mHeldPiecePtr] = IF outrun THEN shownAt ELSE mCurrentMousePos
       /\ origin[mHeldPiecePtr] = getCentroid[mCurrentId[mHeldPiecePtr]]

\* The board that is drawn is the referee's: the pieces on it, where they are
\* and as they are turned, are the placements the referee has accepted.
BoardShowsReferee ==
    Settled =>
       {Pixels(piece.cells) : piece \in placed} =
          {BlockCorners(p) : p \in {q \in Piece : layer[q] = "Board"}}

\* The cells of the board that are drawn in the shadow's colour.
drawShadow ==
    {cell \in Moved(Blocks[mShadow.id], mShadow.grid) : Referee!isWithinBound(cell)}

\* The shadow on the board is the one of the held piece as it is turned now,
\* lies where a press would put it and says whether the press would; if so it
\* shows every cell the piece would take, all of them free.  Without a held
\* piece there is none.
ShadowTellsTheClick ==
    Settled =>
       IF mHeldPiecePtr = nullptr THEN mShadow = NoShadow
       ELSE /\ mShadow = Shadow(mCurrentId[mHeldPiecePtr], mCurrentMousePos)
            /\ mShadow.valid =>
                  /\ drawShadow = Moved(Blocks[mShadow.id], mShadow.grid)
                  /\ \A piece \in placed : piece.cells \cap drawShadow = {}

\* Place and return commands always find the piece they are about and its
\* slot: none of their assertions can fail, nor do they read the Arena's
\* pointer before a grab has written it.
PlaceAndReturnFindThePiece ==
    failed \in {"none", "Piece ID not found in Tray slots!"}

\* What TrayNode::withdrawPiece asserts: the tray finds the piece to grab.
GrabFindsThePiece == failed # "Piece ID not found in Tray slots!"

=============================================================================
