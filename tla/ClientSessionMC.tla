--------------------------- MODULE ClientSessionMC ---------------------------
(* ClientSession on small instances, for TLC. *)
EXTENDS ClientSession, TLC

CodeSymmetry == Permutations(Codes)

=============================================================================
