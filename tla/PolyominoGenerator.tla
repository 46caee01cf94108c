------------------------- MODULE PolyominoGenerator -------------------------
(***************************************************************************)
(* How the library of pieces comes about: the constructor of               *)
(* PolyominoGenerator (src/src/shared/PolyominoUtil.cpp) searches breadth  *)
(* first, from one piece of each shape only, and writes all positions of   *)
(* every new shape to tables of a fixed size.  Canonical pieces have ids   *)
(* below CanonicalCount, their transformations the ids after it.  The      *)
(* sensors of a piece are Edges and Corners of Polyominoes.                *)
(***************************************************************************)
EXTENDS Polyominoes, SequencesExt, Containers

CONSTANTS MaxBlocks,       \* 5 in the code
          CanonicalCount,  \* 21
          PolyominoCount   \* 91

ASSUME GeneratorAssumption ==
    /\ {MaxBlocks, CanonicalCount, PolyominoCount} \subseteq Nat \ {0}
    /\ CanonicalCount <= PolyominoCount

VARIABLES
    polyominoById, idByPolyomino,     \* the library: what has been written
    clockwiseRotatedIds, horizontallyReflectedIds, transformedToCanonical,
    mCanonicalPointer, mTransformationPointer,   \* where to write next
    sourceCanonicalPieces,            \* queue: the pieces to extend
    pieceSize,
    pieceSizeCount,                   \* pieces of that size still to extend,
    growing,                          \* ... while the level is not finished
    currentPiece,                     \* the piece being extended
    candidates                        \* the cells not yet tried with it

library == <<polyominoById, idByPolyomino, clockwiseRotatedIds,
             horizontallyReflectedIds, transformedToCanonical,
             mCanonicalPointer, mTransformationPointer>>
search == <<pieceSize, pieceSizeCount, growing, currentPiece, candidates>>
vars == <<library, sourceCanonicalPieces, search>>

Monomino == {<<0, 0>>}

Init ==
    /\ polyominoById = Put(EmptyMap, 0, Monomino)
    /\ idByPolyomino = Put(EmptyMap, Monomino, 0)
    /\ clockwiseRotatedIds = Put(EmptyMap, 0, 0)
    /\ horizontallyReflectedIds = Put(EmptyMap, 0, 0)
    /\ transformedToCanonical = [id \in 0 .. CanonicalCount - 1 |-> id]
    /\ mCanonicalPointer = 1
    /\ mTransformationPointer = CanonicalCount
    /\ sourceCanonicalPieces = <<Monomino>>
    /\ pieceSize = 1
    /\ pieceSizeCount = 0
    /\ growing = FALSE
    /\ currentPiece = {}
    /\ candidates = << >>

-----------------------------------------------------------------------------
(* The orders of the code's sets and maps.                                 *)

\* Vector2iCompare
Before(a, b) == a[1] < b[1] \/ (a[1] = b[1] /\ a[2] < b[2])

\* PolyominoComparator, for pieces of the same size: lexicographically, so
\* that the first cell they do not share decides.
Less(p, q) == \E b \in p \ q : \A c \in q \ p : Before(b, c)

Sorted(S, LessThan(_, _)) ==
    [n \in 1 .. Cardinality(S) |->
        CHOOSE x \in S : Cardinality({y \in S : LessThan(y, x)}) = n - 1]

-----------------------------------------------------------------------------
(* registerUniquePolyominoes                                               *)

\* searchTransformation: what repeated rotations and reflections reach, which
\* is at most eight pieces.
Orbit(piece) ==
    LET found[n \in 0 .. 7] ==
          IF n = 0 THEN {piece}
          ELSE found[n - 1] \cup {rotateClockwise(p) : p \in found[n - 1]}
                            \cup {reflectHorizontally(p) : p \in found[n - 1]}
    IN  found[7]

\* A table with the entries of another written over it.
Overwritten(table, entries) ==
    [key \in DOMAIN table \cup DOMAIN entries |->
        IF key \in DOMAIN entries THEN entries[key] ELSE table[key]]

\* Variant: the canonical piece takes an id among the transformations, too.
NewIdsWithGap(found) ==
    LET order == Sorted(found, Less) IN
    [piece \in found |->
        LET n == CHOOSE i \in DOMAIN order : order[i] = piece IN
        IF n = 1 THEN mCanonicalPointer ELSE mTransformationPointer + n - 1]

\* The ids record gives to the pieces it found: the least one is canonical.
NewIds(found) ==
    LET order == Sorted(found, Less) IN
    [piece \in found |->
        LET n == CHOOSE i \in DOMAIN order : order[i] = piece IN
        IF n = 1 THEN mCanonicalPointer ELSE mTransformationPointer + n - 2]

\* Variant: rotations and reflections change places.
RecordSwapped(ids, byId) ==
    /\ clockwiseRotatedIds' =
          Overwritten(clockwiseRotatedIds,
                      [id \in DOMAIN byId |-> ids[reflectHorizontally(byId[id])]])
    /\ horizontallyReflectedIds' =
          Overwritten(horizontallyReflectedIds,
                      [id \in DOMAIN byId |-> ids[rotateClockwise(byId[id])]])

\* recordTransformations, for the new pieces byId with the new ids.
RecordTransformations(ids, byId) ==
    /\ clockwiseRotatedIds' =
          Overwritten(clockwiseRotatedIds,
                      [id \in DOMAIN byId |-> ids[rotateClockwise(byId[id])]])
    /\ horizontallyReflectedIds' =
          Overwritten(horizontallyReflectedIds,
                      [id \in DOMAIN byId |-> ids[reflectHorizontally(byId[id])]])

Record(found) ==
    LET ids == NewIds(found)
        byId == AntiFunction(ids)
        canonical == mCanonicalPointer
    IN  /\ sourceCanonicalPieces' = Append(sourceCanonicalPieces, byId[canonical])
        /\ polyominoById' = Overwritten(polyominoById, byId)
        /\ idByPolyomino' = Overwritten(idByPolyomino, ids)
        /\ transformedToCanonical' =
              Overwritten(transformedToCanonical,
                          [id \in DOMAIN byId \ {canonical} |-> canonical])
        /\ RecordTransformations(ids, byId)
        /\ mCanonicalPointer' = mCanonicalPointer + 1
        /\ mTransformationPointer' =
              mTransformationPointer + Cardinality(found) - 1

\* Variant: the piece is looked up as it lies.
RegisterAsItLies(piece) ==
    IF piece \in DOMAIN idByPolyomino
    THEN UNCHANGED <<library, sourceCanonicalPieces>>
    ELSE Record(Orbit(normalize(piece)))

Register(piece) ==
    IF normalize(piece) \in DOMAIN idByPolyomino
    THEN UNCHANGED <<library, sourceCanonicalPieces>>
    ELSE Record(Orbit(normalize(piece)))

-----------------------------------------------------------------------------
(* The constructor's loops.                                                *)

\* A level begins: all pieces of the next size.
StartLevel ==
    /\ ~growing
    /\ sourceCanonicalPieces # << >>
    /\ pieceSize < MaxBlocks
    /\ growing' = TRUE
    /\ pieceSizeCount' = Len(sourceCanonicalPieces)
    /\ UNCHANGED <<library, sourceCanonicalPieces, pieceSize, currentPiece, candidates>>

\* CardinalOffsets, in the order of the array.
Directions == << <<1, 0>>, <<0, 1>>, <<-1, 0>>, <<0, -1>> >>

\* Variant: to the right and down only.
NeighboursOneSided(piece) ==
    LET beside(block) == [d \in 1 .. 2 |-> Plus(block, Directions[d])]
        blocks == Sorted(piece, Before)
    IN  FlattenSeq([n \in DOMAIN blocks |-> beside(blocks[n])])

\* The cells next to each block of a piece, in the order they are tried.
Neighbours(piece) ==
    LET beside(block) == [d \in DOMAIN Directions |-> Plus(block, Directions[d])]
        blocks == Sorted(piece, Before)
    IN  FlattenSeq([n \in DOMAIN blocks |-> beside(blocks[n])])

TakePiece ==
    /\ growing
    /\ candidates = << >>
    /\ pieceSizeCount > 0
    /\ pieceSizeCount' = pieceSizeCount - 1
    /\ currentPiece' = Head(sourceCanonicalPieces)
    /\ sourceCanonicalPieces' = Tail(sourceCanonicalPieces)
    /\ candidates' = Neighbours(currentPiece')
    /\ UNCHANGED <<library, pieceSize, growing>>

Try == growing /\ candidates # << >> /\ candidates' = Tail(candidates)

PartOfTheParent ==
    /\ Try
    /\ Head(candidates) \in currentPiece
    /\ UNCHANGED <<library, sourceCanonicalPieces, pieceSize, pieceSizeCount, growing,
                   currentPiece>>

Extend ==
    /\ Try
    /\ Head(candidates) \notin currentPiece
    /\ Register(currentPiece \cup {Head(candidates)})
    /\ UNCHANGED <<pieceSize, pieceSizeCount, growing, currentPiece>>

EndLevel ==
    /\ growing
    /\ candidates = << >>
    /\ pieceSizeCount = 0
    /\ growing' = FALSE
    /\ pieceSize' = pieceSize + 1
    /\ UNCHANGED <<library, sourceCanonicalPieces, pieceSizeCount, currentPiece,
                   candidates>>

Next == StartLevel \/ TakePiece \/ PartOfTheParent \/ Extend \/ EndLevel

Spec == Init /\ [][Next]_vars

-----------------------------------------------------------------------------
(* Properties.                                                             *)

Id == 0 .. PolyominoCount - 1
CanonicalId == 0 .. CanonicalCount - 1

\* The type invariant: no table is written beyond its end, and the canonical
\* pieces do not run into the ids of the transformations.
TypeOK ==
    /\ DOMAIN polyominoById \subseteq Id
    /\ \A id \in DOMAIN polyominoById :
          Cardinality(polyominoById[id]) \in 1 .. MaxBlocks
    /\ Range(idByPolyomino) \subseteq Id
    /\ Range(clockwiseRotatedIds) \cup Range(horizontallyReflectedIds) \subseteq Id
    /\ DOMAIN transformedToCanonical \subseteq Id
    /\ Range(transformedToCanonical) \subseteq CanonicalId
    /\ mCanonicalPointer \in 0 .. CanonicalCount
    /\ mTransformationPointer \in CanonicalCount .. PolyominoCount
    /\ Range(sourceCanonicalPieces) \subseteq DOMAIN idByPolyomino
    /\ pieceSize \in 1 .. MaxBlocks
    /\ pieceSizeCount \in 0 .. Len(sourceCanonicalPieces)
    /\ growing \in BOOLEAN

\* After every registration the library is closed: ids and pieces determine
\* each other, and the id a key turns a piece into is that of the turned piece.
TablesAgree ==
    /\ DOMAIN idByPolyomino = Range(polyominoById)
    /\ \A id \in DOMAIN polyominoById :
          LET piece == polyominoById[id] IN
          /\ idByPolyomino[piece] = id
          /\ clockwiseRotatedIds[id] = idByPolyomino[rotateClockwise(piece)]
          /\ horizontallyReflectedIds[id] = idByPolyomino[reflectHorizontally(piece)]

\* The eight symmetries of the square, spelled out.
Symmetric(piece) ==
    {normalize(image) : image \in
        {{<<x * b[1], y * b[2]>> : b \in piece} : x, y \in {-1, 1}}
           \cup {{<<x * b[2], y * b[1]>> : b \in piece} : x, y \in {-1, 1}}}

\* Two ids share their canonical piece exactly if their pieces have the same
\* shape: a player's slot, which goes by canonical ids, holds one shape.
CanonicalTellsShape ==
    \A id \in DOMAIN polyominoById, c \in 0 .. mCanonicalPointer - 1 :
       transformedToCanonical[id] = c
          <=> polyominoById[c] \in Symmetric(polyominoById[id])

\* All pieces of n cells: those of n - 1 cells, in every position, with a cell
\* added anywhere.
AllPieces[n \in 1 .. MaxBlocks] ==
    IF n = 1 THEN {Monomino}
    ELSE UNION {{normalize(p \cup {cell}) : cell \in Edges(p)} : p \in AllPieces[n - 1]}

\* Extending one piece of each shape is enough: when a level ends, the library
\* holds every piece up to its size, and nothing else.
LevelsComplete ==
    ~growing => Range(polyominoById) = UNION {AllPieces[n] : n \in 1 .. pieceSize}

=============================================================================
