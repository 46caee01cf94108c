---------------------------- MODULE Polyominoes ----------------------------
(***************************************************************************)
(* The geometry of pieces (src/src/shared/PolyominoUtil.cpp): a cell is a  *)
(* pair <<x, y>> of integers, a piece the finite set of its cells.         *)
(***************************************************************************)
EXTENDS Integers, FiniteSetsExt

Plane == Int \X Int

CardinalOffsets == {<<1, 0>>, <<0, 1>>, <<-1, 0>>, <<0, -1>>}
DiagonalOffsets == {<<1, 1>>, <<-1, 1>>, <<1, -1>>, <<-1, -1>>}

Plus(a, b) == <<a[1] + b[1], a[2] + b[2]>>

\* The cells of a piece moved by an offset.
Moved(piece, offset) == {Plus(offset, block) : block \in piece}

\* Variant: neighbours in two of the four directions.
EdgesOneSided(blocks) ==
    {Plus(block, dir) : block \in blocks, dir \in {<<1, 0>>, <<0, 1>>}} \ blocks

\* The neighbours of a piece, and its diagonal neighbours that are not.
Edges(blocks) ==
    {Plus(block, dir) : block \in blocks, dir \in CardinalOffsets} \ blocks

\* Variant: the neighbours of the neighbours.
CornersTwoAway(blocks) ==
    {Plus(pos, dir) : pos \in Edges(blocks), dir \in CardinalOffsets}
       \ (blocks \cup Edges(blocks))

Corners(blocks) ==
    {Plus(block, dir) : block \in blocks, dir \in DiagonalOffsets}
       \ (blocks \cup Edges(blocks))

getOrigin(piece) ==
    <<Min({block[1] : block \in piece}), Min({block[2] : block \in piece})>>

normalize(piece) ==
    LET origin == getOrigin(piece) IN Moved(piece, <<-origin[1], -origin[2]>>)

rotateClockwise(piece) == normalize({<<-block[2], block[1]>> : block \in piece})

reflectHorizontally(piece) ==
    normalize({<<-block[1], block[2]>> : block \in piece})

=============================================================================
