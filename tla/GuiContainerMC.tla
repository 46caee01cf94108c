--------------------------- MODULE GuiContainerMC ---------------------------
(* GuiContainer on small instances, for TLC. *)
EXTENDS GuiContainer, TLC

Symmetric == Permutations(Buttons) \cup Permutations(Chars)

=============================================================================
