----------------------------- MODULE RefereeMC -----------------------------
(* The referee with the pieces of up to three cells that have a corner and *)
(* with those of a straight line.                                          *)
EXTENDS Referee

Monomino == {<<0, 0>>}
Upright  == {<<0, 0>>, <<0, 1>>}
Level    == {<<0, 0>>, <<1, 0>>}
Angle    == {<<0, 0>>, <<0, 1>>, <<1, 0>>}
Bend     == {<<0, 1>>, <<1, 0>>, <<1, 1>>}

SmallIds == {"monomino", "upright", "level", "angle", "bend"}
SmallBlocks ==
    [id \in SmallIds |-> CASE id = "monomino" -> Monomino
                           [] id = "upright"  -> Upright
                           [] id = "level"    -> Level
                           [] id = "angle"    -> Angle
                           [] id = "bend"     -> Bend]

=============================================================================
