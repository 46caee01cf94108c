----------------------------- MODULE GameServer -----------------------------
(***************************************************************************)
(* The matchmaking server (src/src/server/GameServer.cpp): one thread that *)
(* repeats a tick - wait for sockets, accept one connection, drain every   *)
(* ready client, flush the reply queues, remove the clients flagged during *)
(* the tick - while its peers send requests and close connections at any   *)
(* moment between two of its steps.                                        *)
(*                                                                         *)
(* A step of the model is one handled connection, one packet, one client's *)
(* flush or one removal: between them, and only there, can a peer act in a *)
(* way the server observes.                                                *)
(***************************************************************************)
EXTENDS Naturals, Sequences, FiniteSets, Functions, Containers

CONSTANTS
    Codes,                 \* the match codes generateMatchCode can produce
    NoCode,                \* an empty std::optional<std::string>
    NoClient,              \* no client is being drained
    MAX_PLAYER,            \* players in a match (2 in the code)
    MAX_PACKETS_PER_TICK,  \* packets of one client in a tick (20 in the code)
    MaxConnections,        \* bound: connections ever accepted
    MaxSent                \* bound: MaxSent[c] requests at most come from c

ID == 0 .. MaxConnections - 1

ASSUME ServerAssumption ==
    /\ NoCode \notin Codes
    /\ NoClient \notin ID
    /\ MAX_PLAYER \in Nat \ {0}
    /\ MAX_PACKETS_PER_TICK \in Nat
    /\ MaxConnections \in Nat
    /\ MaxSent \in [ID -> Nat]

-----------------------------------------------------------------------------
(* Packets.  A request is what the server reads of a packet: anything that *)
(* cannot be read, carries trailing bytes or an unexpected type is         *)
(* "Malformed"; more than MAX_PACKET_BYTES is "Oversized".                 *)

Request == [type : {"CreateMatch", "Malformed", "Oversized"}, code : {NoCode}]
             \cup [type : {"JoinMatch"}, code : Codes]

JoinError == {"MatchFull", "MatchNotFound", "AlreadyInMatch"}

MatchJoined(k) == [type |-> "MatchJoined", code |-> k]
MatchJoinFailed(e) == [type |-> "MatchJoinFailed", reason |-> e]

Reply == {MatchJoined(k) : k \in Codes} \cup {MatchJoinFailed(e) : e \in JoinError}

Client == [state : {"TitleState", "UsernameState"},
           currentMatchCode : Codes \cup {NoCode},
           outgoingQueue : Seq(Reply)]

NewClient == [state |-> "TitleState",
              currentMatchCode |-> NoCode,
              outgoingQueue |-> <<>>]

-----------------------------------------------------------------------------
VARIABLES
    mClients,             \* unordered_map: client id -> Client
    mMatches,             \* map: match code -> playerIDs (a vector of ids)
    mClientsToDisconnect, \* vector of ids to remove at the end of the tick
    mNextClientID,        \* the id the next connection gets
    pc,                   \* where in its tick run() is
    ready,                \* clients the selector reported, not yet drained
    draining,             \* the client whose socket is being drained
    received,             \* packetsReceivedThisTick of that client
    toFlush,              \* clients flushOutgoingQueues has yet to visit
    inbox,                \* requests that reached a client's socket
    peerOpen,             \* the remote end has not closed its connection
    sentCount,            \* requests the peer has sent so far
    replies               \* history: replies handed to the OS, per client

server == <<mClients, mMatches, mClientsToDisconnect, mNextClientID>>
loop == <<pc, ready, draining, received, toFlush>>
peers == <<peerOpen, sentCount>>
vars == <<server, loop, inbox, peers, replies>>

Init ==
    /\ mClients = EmptyMap
    /\ mMatches = EmptyMap
    /\ mClientsToDisconnect = << >>
    /\ mNextClientID = 0
    /\ pc = "wait"
    /\ ready = {}
    /\ draining = NoClient
    /\ received = 0
    /\ toFlush = {}
    /\ inbox = [c \in ID |-> << >>]
    /\ peerOpen = [c \in ID |-> TRUE]
    /\ sentCount = [c \in ID |-> 0]
    /\ replies = [c \in ID |-> << >>]

-----------------------------------------------------------------------------
(* Helpers.                                                                *)

Connected == DOMAIN mClients

Flagged(c) == c \in Range(mClientsToDisconnect)

Flag(c) == mClientsToDisconnect' = Append(mClientsToDisconnect, c)

\* enqueuePacket: the reply waits in the client's queue for the next flush
Enqueue(client, reply) ==
    [client EXCEPT !.outgoingQueue = Append(@, reply)]

\* Variant: the client is told, but stays in TitleState.
EnteredStillInTitle(client, k) ==
    [Enqueue(client, MatchJoined(k)) EXCEPT !.currentMatchCode = k]

\* The client enters match k, is told so and moves on to UsernameState.
Entered(client, k) ==
    [Enqueue(client, MatchJoined(k)) EXCEPT !.currentMatchCode = k,
                                            !.state = "UsernameState"]

-----------------------------------------------------------------------------
(* The peers.                                                              *)

\* A request of c arrives at its socket.
PeerSend(c) ==
    /\ c \in Connected
    /\ peerOpen[c]
    /\ sentCount[c] < MaxSent[c]
    /\ \E m \in Request : inbox' = [inbox EXCEPT ![c] = Append(@, m)]
    /\ sentCount' = [sentCount EXCEPT ![c] = @ + 1]
    /\ UNCHANGED <<server, loop, peerOpen, replies>>

\* The peer closes: what it sent stays readable, or is lost to a reset.
PeerClose(c) ==
    /\ c \in Connected
    /\ peerOpen[c]
    /\ peerOpen' = [peerOpen EXCEPT ![c] = FALSE]
    /\ \E lost \in BOOLEAN :
          inbox' = IF lost THEN [inbox EXCEPT ![c] = << >>] ELSE inbox
    /\ UNCHANGED <<server, loop, sentCount, replies>>

-----------------------------------------------------------------------------
(* The tick: waiting and accepting.                                        *)

Readable(c) == inbox[c] # << >> \/ ~peerOpen[c]

\* mSelector.wait: the sockets that have something to read now, and maybe
\* the listener; nothing at all is a timeout, which skips the receive phase.
SelectorWait ==
    /\ pc = "wait"
    /\ ready' = {c \in Connected : Readable(c)}
    /\ \/ mNextClientID < MaxConnections /\ pc' = "accept"
       \/ ready' # {} /\ pc' = "receive"
       \/ ready' = {} /\ pc' = "flush"
    /\ toFlush' = IF pc' = "flush" THEN Connected ELSE {}
    /\ UNCHANGED <<server, draining, received, inbox, peers, replies>>

\* One pending connection is accepted and becomes a client in TitleState, or
\* the accept fails (or the peer's address is gone) and nothing is kept.
HandleIncomingConnections ==
    /\ pc = "accept"
    /\ pc' = "receive"
    /\ \/ /\ mClients' = Put(mClients, mNextClientID, NewClient)
          /\ mNextClientID' = mNextClientID + 1
       \/ UNCHANGED <<mClients, mNextClientID>>
    /\ UNCHANGED <<mMatches, mClientsToDisconnect, ready, draining, received,
                   toFlush, inbox, peers, replies>>

-----------------------------------------------------------------------------
(* The tick: handleIncomingPackets.  Ready clients are drained one after   *)
(* another, in an order the hash map decides.                              *)

MayReceive(c) ==
    /\ pc = "receive"
    /\ c \in ready
    /\ draining \in {NoClient, c}

StopDraining(c) ==
    /\ ready' = ready \ {c}
    /\ draining' = NoClient
    /\ received' = 0

\* receive() returns a packet of c, which counts against the rate limit.
ReceivePacket(c) ==
    /\ MayReceive(c)
    /\ inbox[c] # << >>
    /\ inbox' = [inbox EXCEPT ![c] = Tail(@)]
    /\ UNCHANGED <<mNextClientID, pc, toFlush, peers, replies>>

OverRateLimit == received + 1 > MAX_PACKETS_PER_TICK

\* The packet is one too many for this tick: flag the client, leave the rest.
DropRateLimited(c) ==
    /\ ReceivePacket(c)
    /\ OverRateLimit
    /\ Flag(c)
    /\ StopDraining(c)
    /\ UNCHANGED <<mClients, mMatches>>

\* The packet is too big, whatever it says and whatever the client's state.
DropOversized(c) ==
    /\ ReceivePacket(c)
    /\ ~OverRateLimit
    /\ Head(inbox[c]).type = "Oversized"
    /\ Flag(c)
    /\ StopDraining(c)
    /\ UNCHANGED <<mClients, mMatches>>

\* Variant: no break after the case of TitleState's handler.
ProcessPacketInAnyState(c, state) ==
    /\ ReceivePacket(c)
    /\ ~OverRateLimit
    /\ Head(inbox[c]).type # "Oversized"
    /\ draining' = c
    /\ received' = received + 1
    /\ UNCHANGED ready

\* processPacket is called, after which draining goes on - even when the
\* handler has just flagged the client.
ProcessPacket(c, state) ==
    /\ ReceivePacket(c)
    /\ ~OverRateLimit
    /\ Head(inbox[c]).type # "Oversized"
    /\ mClients[c].state = state
    /\ draining' = c
    /\ received' = received + 1
    /\ UNCHANGED ready

TitlePacket(c, type) ==
    /\ ProcessPacket(c, "TitleState")
    /\ Head(inbox[c]).type = type

DropMalformed(c) ==
    /\ TitlePacket(c, "Malformed")
    /\ Flag(c)
    /\ UNCHANGED <<mClients, mMatches>>

\* A client that is already in a match asks for one: an error reply, or a
\* flag when its match is missing.
RepeatedCreate(c) ==
    /\ IF mClients[c].currentMatchCode \notin DOMAIN mMatches
       THEN Flag(c) /\ UNCHANGED mClients
       ELSE /\ mClients' = [mClients EXCEPT ![c] =
                              Enqueue(@, MatchJoinFailed("AlreadyInMatch"))]
            /\ UNCHANGED mClientsToDisconnect
    /\ UNCHANGED mMatches

\* Variant: the code is drawn once, in use or not.
AnyCode == Codes

\* generateMatchCode: a random code, drawn again while it is in use.
FreeCodes == Codes \ DOMAIN mMatches

CreateMatch(c) ==
    /\ TitlePacket(c, "CreateMatch")
    /\ IF mClients[c].currentMatchCode # NoCode
       THEN RepeatedCreate(c)
       ELSE \E newCode \in FreeCodes :
              /\ mMatches' = Put(mMatches, newCode, <<c>>)
              /\ mClients' = [mClients EXCEPT ![c] = Entered(@, newCode)]
              /\ UNCHANGED mClientsToDisconnect

\* Variant: `>` for `>=` in the capacity check.
JoinRefusalOffByOne(c, k) ==
    IF mClients[c].currentMatchCode # NoCode THEN {"AlreadyInMatch"}
    ELSE IF k \notin DOMAIN mMatches THEN {"MatchNotFound"}
    ELSE IF Len(mMatches[k]) > MAX_PLAYER THEN {"MatchFull"}
    ELSE {}

\* The early returns of the JoinMatch case, in their order.
JoinRefusal(c, k) ==
    IF mClients[c].currentMatchCode # NoCode THEN {"AlreadyInMatch"}
    ELSE IF k \notin DOMAIN mMatches THEN {"MatchNotFound"}
    ELSE IF Len(mMatches[k]) >= MAX_PLAYER THEN {"MatchFull"}
    ELSE {}

\* Variant: the refusal is logged and no reply is queued.
RefuseSilently(c) ==
    /\ TitlePacket(c, "JoinMatch")
    /\ JoinRefusal(c, Head(inbox[c]).code) # {}
    /\ UNCHANGED <<mClients, mMatches, mClientsToDisconnect>>

RefuseJoin(c) ==
    /\ TitlePacket(c, "JoinMatch")
    /\ \E e \in JoinRefusal(c, Head(inbox[c]).code) :
          mClients' = [mClients EXCEPT ![c] = Enqueue(@, MatchJoinFailed(e))]
    /\ UNCHANGED <<mMatches, mClientsToDisconnect>>

JoinMatch(c) ==
    /\ TitlePacket(c, "JoinMatch")
    /\ LET k == Head(inbox[c]).code IN
          /\ JoinRefusal(c, k) = {}
          /\ mMatches' = [mMatches EXCEPT ![k] = Append(@, c)]
          /\ mClients' = [mClients EXCEPT ![c] = Entered(@, k)]
    /\ UNCHANGED mClientsToDisconnect

\* handleUsernameStatePackets is empty: whatever arrives is forgotten.
IgnoreInUsernameState(c) ==
    /\ ProcessPacket(c, "UsernameState")
    /\ UNCHANGED <<mClients, mMatches, mClientsToDisconnect>>

\* Variant: a closed connection counts as a drained socket.
PeerGoneUnnoticed(c) ==
    /\ MayReceive(c)
    /\ inbox[c] = << >>
    /\ ~peerOpen[c]
    /\ StopDraining(c)
    /\ UNCHANGED <<server, pc, toFlush, inbox, peers, replies>>

\* receive() reports the closed connection once nothing is left to read.
PeerGone(c) ==
    /\ MayReceive(c)
    /\ inbox[c] = << >>
    /\ ~peerOpen[c]
    /\ Flag(c)
    /\ StopDraining(c)
    /\ UNCHANGED <<mClients, mMatches, mNextClientID, pc, toFlush, inbox,
                   peers, replies>>

\* receive() would block: this socket is drained for the tick.
Drained(c) ==
    /\ MayReceive(c)
    /\ inbox[c] = << >>
    /\ peerOpen[c]
    /\ StopDraining(c)
    /\ UNCHANGED <<server, pc, toFlush, inbox, peers, replies>>

EndReceive ==
    /\ pc = "receive"
    /\ ready = {}
    /\ pc' = "flush"
    /\ toFlush' = Connected
    /\ UNCHANGED <<server, ready, draining, received, inbox, peers, replies>>

-----------------------------------------------------------------------------
(* The tick: flushOutgoingQueues.  The first n replies of c are handed to  *)
(* the OS and popped; then the queue is empty, the OS buffer is full, or   *)
(* the connection turns out to be gone.                                    *)

MayFlush(c) == pc = "flush" /\ c \in toFlush

Flush(c, n) ==
    LET queue == mClients[c].outgoingQueue IN
    /\ toFlush' = toFlush \ {c}
    /\ mClients' = [mClients EXCEPT ![c].outgoingQueue =
                      SubSeq(queue, n + 1, Len(queue))]
    /\ replies' = [replies EXCEPT ![c] = @ \o SubSeq(queue, 1, n)]
    /\ UNCHANGED <<mMatches, mNextClientID, pc, ready, draining, received,
                   inbox, peers>>

Queued(c) == Len(mClients[c].outgoingQueue)

FlushAll(c) ==
    /\ MayFlush(c)
    /\ Flush(c, Queued(c))
    /\ UNCHANGED mClientsToDisconnect

FlushBlocked(c) ==
    /\ MayFlush(c)
    /\ \E n \in 0 .. Queued(c) - 1 : Flush(c, n)
    /\ UNCHANGED mClientsToDisconnect

FlushFailed(c) ==
    /\ MayFlush(c)
    /\ ~peerOpen[c]
    /\ \E n \in 0 .. Queued(c) - 1 : Flush(c, n)
    /\ Flag(c)

EndFlush ==
    /\ pc = "flush"
    /\ toFlush = {}
    /\ pc' = "remove"
    /\ UNCHANGED <<server, ready, draining, received, toFlush, inbox, peers,
                   replies>>

-----------------------------------------------------------------------------
(* The tick: removing the flagged clients.  An id may be listed more than  *)
(* once; the later ones find no client and do nothing.                     *)

\* The match list without c; the match goes with its last player.
WithoutPlayer(k, c) ==
    LET playerIDs == EraseRemove(mMatches[k], c) IN
    IF playerIDs = << >> THEN Erase(mMatches, k)
                         ELSE [mMatches EXCEPT ![k] = playerIDs]

\* Variant: the client goes, its place in the match does not.
RemoveClientOnly(c) ==
    IF c \notin Connected
    THEN UNCHANGED <<mClients, mMatches>>
    ELSE mClients' = Erase(mClients, c) /\ UNCHANGED mMatches

\* Variant: the early return is also taken by a client that is in no match.
RemovePlayersOnly(c) ==
    LET k == mClients[c].currentMatchCode IN
    IF c \notin Connected \/ k \notin DOMAIN mMatches
    THEN UNCHANGED <<mClients, mMatches>>
    ELSE mMatches' = WithoutPlayer(k, c) /\ mClients' = Erase(mClients, c)

RemoveClient(c) ==
    LET k == mClients[c].currentMatchCode IN
    IF c \notin Connected \/ (k # NoCode /\ k \notin DOMAIN mMatches)
    THEN UNCHANGED <<mClients, mMatches>>
    ELSE /\ mMatches' = IF k = NoCode THEN mMatches ELSE WithoutPlayer(k, c)
         /\ mClients' = Erase(mClients, c)

RemoveNext ==
    /\ pc = "remove"
    /\ mClientsToDisconnect # << >>
    /\ RemoveClient(Head(mClientsToDisconnect))
    /\ mClientsToDisconnect' = Tail(mClientsToDisconnect)
    /\ UNCHANGED <<mNextClientID, loop, inbox, peers, replies>>

\* Variant: the list is not worked off before the next tick.
EndTickEarly ==
    /\ pc = "remove"
    /\ pc' = "wait"
    /\ UNCHANGED <<server, ready, draining, received, toFlush, inbox, peers,
                   replies>>

EndTick ==
    /\ pc = "remove"
    /\ mClientsToDisconnect = << >>
    /\ pc' = "wait"
    /\ UNCHANGED <<server, ready, draining, received, toFlush, inbox, peers,
                   replies>>

-----------------------------------------------------------------------------
Receive(c) ==
    \/ DropRateLimited(c)
    \/ DropOversized(c)
    \/ DropMalformed(c)
    \/ CreateMatch(c)
    \/ RefuseJoin(c)
    \/ JoinMatch(c)
    \/ IgnoreInUsernameState(c)
    \/ PeerGone(c)
    \/ Drained(c)

FlushClient(c) == FlushAll(c) \/ FlushBlocked(c) \/ FlushFailed(c)

\* A step of the server's thread, which run() repeats for ever.
Server ==
    \/ SelectorWait
    \/ HandleIncomingConnections
    \/ \E c \in ID : Receive(c) \/ FlushClient(c)
    \/ EndReceive
    \/ EndFlush
    \/ RemoveNext
    \/ EndTick

Peer == \E c \in ID : PeerSend(c) \/ PeerClose(c)

Next == Server \/ Peer

Spec == Init /\ [][Next]_vars

\* The server's thread keeps running, and the OS buffer of a connected client
\* does not stay full for ever.  Nothing is assumed of what the peers do.
Fairness ==
    /\ WF_vars(Server)
    /\ \A c \in ID : SF_vars(peerOpen[c] /\ FlushAll(c))

FairSpec == Spec /\ Fairness

-----------------------------------------------------------------------------
(* Properties.                                                             *)

\* The type invariant: what each variable holds, that the ids in use are
\* those already given out, and which of the loop's sets are empty when.
TypeOK ==
    /\ mNextClientID \in 0 .. MaxConnections
    /\ Connected \subseteq 0 .. mNextClientID - 1
    /\ mClients \in [Connected -> Client]
    /\ DOMAIN mMatches \subseteq Codes
    /\ mMatches \in [DOMAIN mMatches -> Seq(ID)]
    /\ mClientsToDisconnect \in Seq(ID)
    /\ pc \in {"wait", "accept", "receive", "flush", "remove"}
    /\ pc = "accept" => mNextClientID < MaxConnections
    /\ pc = "wait" => mClientsToDisconnect = << >>
    /\ ready \subseteq IF pc \in {"accept", "receive"} THEN Connected ELSE {}
    /\ draining \in ready \cup {NoClient}
    /\ received \in 0 .. MAX_PACKETS_PER_TICK
    /\ toFlush \subseteq IF pc = "flush" THEN Connected ELSE {}
    /\ inbox \in [ID -> Seq(Request)]
    /\ peerOpen \in [ID -> BOOLEAN]
    /\ sentCount \in [ID -> Nat]
    /\ replies \in [ID -> Seq(Reply)]

PlayersOf(k) == Range(mMatches[k])

ClientsMatchTheirMatches ==
    \A c \in Connected :
       LET k == mClients[c].currentMatchCode IN
       /\ mClients[c].state = "UsernameState" <=> k # NoCode
       /\ k # NoCode => k \in DOMAIN mMatches /\ c \in PlayersOf(k)

MatchesMatchTheirClients ==
    \A k \in DOMAIN mMatches :
       /\ mMatches[k] # << >>
       /\ IsInjective(mMatches[k])
       /\ \A c \in PlayersOf(k) :
             c \in Connected /\ mClients[c].currentMatchCode = k

\* The two records of who plays where agree after every step, also between
\* the removals of one tick: a client carries code k exactly when it is
\* listed once in match k, its state says so too, and no match is empty.
\* RemoveClient's early returns and the AlreadyInMatch replies rest on it.
MatchesConsistent == ClientsMatchTheirMatches /\ MatchesMatchTheirClients

\* No interleaving of joins, refusals and departures overfills a match.
MatchesWithinCapacity ==
    \A k \in DOMAIN mMatches : Len(mMatches[k]) <= MAX_PLAYER

Answers(c) == IF c \in Connected THEN replies[c] \o mClients[c].outgoingQueue
                                 ELSE replies[c]

\* What a client was told and what the server holds agree: exactly the last
\* answer of a client in a match is a MatchJoined, for the code it is
\* recorded under; a client that is in none was only ever refused, and nobody
\* is refused for being in a match already.
AnswersTellMembership ==
    \A c \in Connected :
       LET answers == Answers(c)
           k == mClients[c].currentMatchCode
       IN  \A i \in DOMAIN answers :
              /\ answers[i].type = "MatchJoined" =>
                    i = Len(answers) /\ answers[i].code = k
              /\ answers[i] # MatchJoinFailed("AlreadyInMatch")
              /\ i = Len(answers) /\ k # NoCode =>
                    answers[i] = MatchJoined(k)

\* The server implements the registry: the refinement mapping reads who is in
\* which match off the match table, and who has left off the ids in use.
Members == [k \in Codes |-> IF k \in DOMAIN mMatches THEN PlayersOf(k) ELSE {}]
Departed == (0 .. mNextClientID - 1) \ Connected

Registry == INSTANCE MatchRegistry WITH
    Players <- ID,
    Capacity <- MAX_PLAYER,
    members <- Members,
    departed <- Departed

RegistrySpec == Registry!Spec

\* What each client sees of the server is a ServerPort: whatever the others do,
\* it is served in order, enters at most one match and is then told no more.
\* The client's side is checked against this promise (NetworkClient.tla).
Standing(c) == IF c \in Connected
               THEN IF mClients[c].state = "TitleState" THEN "title" ELSE "playing"
               ELSE IF c < mNextClientID THEN "gone" ELSE "new"

Port(c) == INSTANCE ServerPort WITH
    standing <- Standing(c),
    requests <- inbox[c],
    answers <- Answers(c)

PortSpec ==
    /\ \A c \in ID : Port(c)!Init
    /\ [][\A c \in ID : Port(c)!Next \/ UNCHANGED Port(c)!vars]_vars

\* A client flagged during a tick is removed, however often it was flagged:
\* no early return of removeClient leaves it behind.
FlaggedAreRemoved ==
    \A c \in ID : Flagged(c) ~> c \notin Connected

\* A client whose peer has closed its connection gives up its place, even
\* when other clients keep the server busy.
DepartedAreRemoved ==
    \A c \in ID : (c \in Connected /\ ~peerOpen[c]) ~> c \notin Connected

\* A client that has a request waiting in TitleState is served: all it sent is
\* read, it gets an answer, and no reply is left in its queue - unless it is
\* dropped.
RequestsAreServed ==
    \A c \in ID :
       (c \in Connected /\ mClients[c].state = "TitleState" /\ inbox[c] # << >>)
          ~> \/ c \notin Connected
             \/ /\ inbox[c] = << >>
                /\ mClients[c].outgoingQueue = << >>
                /\ replies[c] # << >>

\* What the test of malformed packets says of the handler, that it will
\* "instantly kill the client": a flagged client enters no match.
FlaggedAreInert ==
    [][\A c \in Connected :
          /\ Flagged(c)
          /\ mClients[c].currentMatchCode = NoCode
          /\ c \in DOMAIN mClients'
          => mClients'[c].currentMatchCode = NoCode
      ]_vars

=============================================================================
