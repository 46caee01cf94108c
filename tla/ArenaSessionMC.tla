--------------------------- MODULE ArenaSessionMC ---------------------------
(* A library of the pieces of one cell, two cells and the bent ones of      *)
(* three: the canonical pieces first, then their other positions.          *)
EXTENDS ArenaSession, TLC

SmallIds == 0 .. 6
SmallBlocks ==
    [id \in SmallIds |->
        CASE id = 0 -> {<<0, 0>>}
          [] id = 1 -> {<<0, 0>>, <<0, 1>>}
          [] id = 2 -> {<<0, 0>>, <<0, 1>>, <<1, 0>>}
          [] id = 3 -> {<<0, 0>>, <<1, 0>>}
          [] id = 4 -> {<<0, 0>>, <<0, 1>>, <<1, 1>>}
          [] id = 5 -> {<<0, 0>>, <<1, 0>>, <<1, 1>>}
          [] id = 6 -> {<<0, 1>>, <<1, 0>>, <<1, 1>>}]

IdOf(blocks) == CHOOSE id \in SmallIds : SmallBlocks[id] = blocks

SmallRotated == [id \in SmallIds |-> IdOf(rotateClockwise(SmallBlocks[id]))]
SmallReflected == [id \in SmallIds |-> IdOf(reflectHorizontally(SmallBlocks[id]))]
SmallCanonical == [id \in SmallIds |-> Cardinality(SmallBlocks[id]) - 1]

\* The monomino, which no key changes, with the domino; and two pieces that
\* keys do change.
EvenDeck == 0 :> 0 @@ 1 :> 1
TurningDeck == 0 :> 1 @@ 1 :> 2

\* The board's corner cell and a point on a line of the board where an upright
\* domino touches that cell with a corner (the board starts at 12, 12); and in
\* each slot of the tray (which starts at 60, 12) a point that its piece covers
\* both as it lies there and when it hangs by its centroid.
FewPlaces == {<<18, 18>>, <<30, 36>>, <<62, 14>>, <<101, 14>>}
=============================================================================
