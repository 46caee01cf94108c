----------------------------- MODULE ServerPort -----------------------------
(***************************************************************************)
(* What one client sees of the matchmaking server over one connection: its *)
(* requests are read in order, at most one of them lets it into a match,   *)
(* which is then the last thing the server has to say, and the server may  *)
(* let go of it at any moment.                                             *)
(* GameServer.tla is shown to implement it for each of its clients;        *)
(* ClientSession.tla runs the client against it.                           *)
(***************************************************************************)
EXTENDS Naturals, Sequences

CONSTANTS Codes,     \* match codes
          Request    \* what may arrive at the server's end

VARIABLES standing,  \* "new", "title" or "playing" (accepted), "gone"
          requests,  \* arrived and not yet read by the server
          answers    \* what the server has answered so far

vars == <<standing, requests, answers>>

Joined(k) == [type |-> "MatchJoined", code |-> k]
Failed(e) == [type |-> "MatchJoinFailed", reason |-> e]

Refusals == {Failed("MatchFull"), Failed("MatchNotFound")}

Accepted == standing \in {"title", "playing"}

Init == standing = "new" /\ requests = << >> /\ answers = << >>

Accept ==
    /\ standing = "new"
    /\ standing' = "title"
    /\ UNCHANGED <<requests, answers>>

Arrive ==
    /\ Accepted
    /\ \E m \in Request : requests' = Append(requests, m)
    /\ UNCHANGED <<standing, answers>>

\* A reset takes what the server has not read yet.
Lose ==
    /\ Accepted
    /\ requests' = << >>
    /\ UNCHANGED <<standing, answers>>

Read ==
    /\ Accepted
    /\ requests # << >>
    /\ requests' = Tail(requests)

\* Not served: malformed, too big, too many, or from a client in a match.
Ignore == Read /\ UNCHANGED <<standing, answers>>

\* A request to open or join a match is granted or refused.
Grant ==
    /\ Read
    /\ standing = "title"
    /\ \E k \in Codes :
          /\ Head(requests).type \in {"CreateMatch", "JoinMatch"}
          /\ Head(requests).type = "JoinMatch" => Head(requests).code = k
          /\ answers' = Append(answers, Joined(k))
    /\ standing' = "playing"

Refuse ==
    /\ Read
    /\ standing = "title"
    /\ Head(requests).type = "JoinMatch"
    /\ \E refusal \in Refusals : answers' = Append(answers, refusal)
    /\ UNCHANGED standing

\* The connection ends: answers still on their way may be lost.
Go ==
    /\ Accepted
    /\ standing' = "gone"
    /\ \E n \in 0 .. Len(answers) : answers' = SubSeq(answers, 1, n)
    /\ UNCHANGED requests

Serve == Ignore \/ Grant \/ Refuse

Next == Accept \/ Arrive \/ Lose \/ Serve \/ Go

Spec == Init /\ [][Next]_vars

=============================================================================
