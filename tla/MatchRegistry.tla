--------------------------- MODULE MatchRegistry ---------------------------
(***************************************************************************)
(* What the matchmaking server promises, without sockets, packets, ticks   *)
(* or queues: a player is in at most one match, a match is opened under a  *)
(* code nobody is using and never holds more than Capacity players, and a  *)
(* player who has left the server never comes back.                        *)
(* GameServer.tla is shown to implement it.                                *)
(***************************************************************************)
EXTENDS Naturals, FiniteSets

CONSTANTS Players, Codes, Capacity

VARIABLES members,    \* members[k]: the players in the match with code k
          departed    \* the players the server has let go of for good

vars == <<members, departed>>

Playing == UNION {members[k] : k \in Codes}

Init == /\ members = [k \in Codes |-> {}]
        /\ departed = {}

\* A player who is in no match opens one under an unused code.
Open(p, k) ==
    /\ p \notin Playing \cup departed
    /\ members[k] = {}
    /\ members' = [members EXCEPT ![k] = {p}]
    /\ UNCHANGED departed

\* A player who is in no match joins one that exists and has room.
Join(p, k) ==
    /\ p \notin Playing \cup departed
    /\ members[k] # {}
    /\ Cardinality(members[k]) < Capacity
    /\ members' = [members EXCEPT ![k] = @ \cup {p}]
    /\ UNCHANGED departed

\* A player leaves the server, and with it the match it was in.
Leave(p) ==
    /\ p \notin departed
    /\ members' = [k \in Codes |-> members[k] \ {p}]
    /\ departed' = departed \cup {p}

Next == \E p \in Players :
            \/ \E k \in Codes : Open(p, k) \/ Join(p, k)
            \/ Leave(p)

Spec == Init /\ [][Next]_vars

=============================================================================
