---------------------------- MODULE GameServerMC ----------------------------
(* GameServer on small instances, for TLC. *)
EXTENDS GameServer, TLC

CodeSymmetry == Permutations(Codes)

\* How many requests each of the peers 0, 1, ... may send.
OneEach == [c \in ID |-> 1]
TwoEach == [c \in ID |-> 2]
TwoThenOne == [c \in ID |-> IF c = 0 THEN 2 ELSE 1]

=============================================================================
