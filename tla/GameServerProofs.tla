-------------------------- MODULE GameServerProofs --------------------------
(***************************************************************************)
(* Theorems about GameServer for any number of connections, codes, players *)
(* per match and packets per tick.                                         *)
(***************************************************************************)
EXTENDS GameServer, ContainerProofs, FiniteSetTheorems

-----------------------------------------------------------------------------
(* The handlers' updates of one client.                                    *)

\* Queueing a reply changes nothing else of a client.
LEMMA EnqueueProperties ==
  ASSUME NEW client \in Client, NEW reply \in Reply
  PROVE  /\ Enqueue(client, reply) \in Client
         /\ Enqueue(client, reply).state = client.state
         /\ Enqueue(client, reply).currentMatchCode = client.currentMatchCode
  BY DEF Enqueue, Client

\* Entering a match records its code and ends the TitleState.
LEMMA EnteredProperties ==
  ASSUME NEW client \in Client, NEW k \in Codes
  PROVE  /\ Entered(client, k) \in Client
         /\ Entered(client, k).state = "UsernameState"
         /\ Entered(client, k).currentMatchCode = k
<1>1. MatchJoined(k) \in Reply
  BY DEF Reply
<1> QED BY <1>1, EnqueueProperties DEF Entered, Enqueue, Client

\* A failed join is a reply.
LEMMA FailedIsReply ==
  ASSUME NEW e \in JoinError
  PROVE  MatchJoinFailed(e) \in Reply
  BY DEF Reply

\* The ids of connected clients are among those that may be given out.
LEMMA ConnectedIsID ==
  ASSUME TypeOK
  PROVE  Connected \subseteq ID
  BY ServerAssumption DEF TypeOK, ID

\* A flush drops the first n replies of one client's queue, and only that.
LEMMA FlushProperties ==
  ASSUME TypeOK, NEW c \in Connected, NEW n \in Nat, n <= Queued(c), Flush(c, n)
  PROVE  /\ mClients' \in [Connected -> Client]
         /\ \A d \in Connected :
               /\ mClients'[d].state = mClients[d].state
               /\ mClients'[d].currentMatchCode = mClients[d].currentMatchCode
         /\ replies' \in [ID -> Seq(Reply)]
<1> DEFINE queue == mClients[c].outgoingQueue
           rest == SubSeq(queue, n + 1, Len(queue))
           sent == SubSeq(queue, 1, n)
<1>1. mClients[c] \in Client /\ queue \in Seq(Reply) /\ c \in ID
      /\ Len(queue) \in Nat
  BY ConnectedIsID DEF TypeOK, Client
<1>2. rest \in Seq(Reply) /\ sent \in Seq(Reply)
  BY <1>1 DEF Queued
<1>3. [mClients[c] EXCEPT !.outgoingQueue = rest] \in Client
  BY <1>1, <1>2 DEF Client
<1>4. replies[c] \o sent \in Seq(Reply)
  BY <1>1, <1>2 DEF TypeOK
<1> HIDE DEF rest, sent
<1>5. /\ mClients' = [mClients EXCEPT ![c].outgoingQueue = rest]
      /\ replies' = [replies EXCEPT ![c] = @ \o sent]
  BY DEF Flush, rest, sent
<1>6. replies' \in [ID -> Seq(Reply)]
  BY <1>1, <1>4, <1>5 DEF TypeOK
<1>7. mClients' \in [Connected -> Client]
  BY <1>1, <1>3, <1>5 DEF TypeOK, Connected
<1>8. \A d \in Connected :
               /\ mClients'[d].state = mClients[d].state
               /\ mClients'[d].currentMatchCode = mClients[d].currentMatchCode
  BY <1>1, <1>5 DEF TypeOK, Connected, Client
<1> QED BY <1>6, <1>7, <1>8

-----------------------------------------------------------------------------
(* Type correctness.                                                       *)

\* A server that has just started is well-typed.
LEMMA TypeInit == Init => TypeOK
<1> SUFFICES ASSUME Init PROVE TypeOK
  OBVIOUS
<1>1. Connected = {} /\ DOMAIN mMatches = {}
  BY DEF Init, Connected, EmptyMap
<1>2. mClients \in [Connected -> Client] /\ mMatches \in [DOMAIN mMatches -> Seq(ID)]
  BY <1>1 DEF Init, EmptyMap
<1> QED BY <1>1, <1>2, ServerAssumption DEF Init, TypeOK

\* Putting a packet of c back to the state before it arrived: the rest of its
\* inbox is still a sequence of requests.
LEMMA ReceivePacketType ==
  ASSUME TypeOK, NEW c \in ID, ReceivePacket(c)
  PROVE  /\ Head(inbox[c]) \in Request
         /\ inbox' \in [ID -> Seq(Request)]
         /\ c \in Connected
         /\ mClients[c] \in Client
         /\ pc = "receive"
         /\ pc' = pc
  BY DEF TypeOK, ReceivePacket, MayReceive

\* A request is typed by its kind: only a JoinMatch carries a code.
LEMMA JoinRequestCode ==
  ASSUME NEW m \in Request, m.type = "JoinMatch"
  PROVE  m.code \in Codes
  BY DEF Request

\* Flagging keeps the list a list of ids.
LEMMA FlagType ==
  ASSUME TypeOK, NEW c \in ID, Flag(c)
  PROVE  mClientsToDisconnect' \in Seq(ID)
  BY DEF TypeOK, Flag

\* Draining a packet leaves the loop's own variables typed, whether the
\* client is drained further or not.
LEMMA LoopType ==
  ASSUME TypeOK, NEW c \in ID, ReceivePacket(c),
         \/ StopDraining(c)
         \/ ~OverRateLimit /\ draining' = c /\ received' = received + 1 /\ ready' = ready
  PROVE  /\ ready' \subseteq Connected
         /\ draining' \in ready' \cup {NoClient}
         /\ received' \in 0 .. MAX_PACKETS_PER_TICK
  BY ServerAssumption
  DEF TypeOK, ReceivePacket, MayReceive, StopDraining, OverRateLimit

\* A client's record is replaced by another one.
LEMMA ClientUpdateType ==
  ASSUME TypeOK, NEW c \in Connected, NEW client \in Client,
         mClients' = [mClients EXCEPT ![c] = client]
  PROVE  /\ mClients' \in [Connected -> Client]
         /\ Connected' = Connected
         /\ mClients'[c] = client
         /\ \A d \in Connected \ {c} : mClients'[d] = mClients[d]
  BY DEF TypeOK, Connected

\* One packet handled: what the handler did to the clients, the matches and
\* the list of flagged clients is all that is left to type.
LEMMA PacketStepType ==
  ASSUME TypeOK, NEW c \in ID, ReceivePacket(c),
         \/ StopDraining(c)
         \/ ~OverRateLimit /\ draining' = c /\ received' = received + 1 /\ ready' = ready,
         Connected' = Connected,
         mClients' \in [Connected -> Client],
         DOMAIN mMatches' \subseteq Codes,
         mMatches' \in [DOMAIN mMatches' -> Seq(ID)],
         mClientsToDisconnect' \in Seq(ID)
  PROVE  TypeOK'
<1>1. /\ ready' \subseteq Connected'
      /\ draining' \in ready' \cup {NoClient}
      /\ received' \in 0 .. MAX_PACKETS_PER_TICK
  BY LoopType
<1>2. /\ inbox' \in [ID -> Seq(Request)]
      /\ pc = "receive" /\ pc' = "receive"
  BY ReceivePacketType
<1>3. /\ UNCHANGED <<mNextClientID, toFlush, peerOpen, sentCount, replies>>
  BY DEF ReceivePacket, peers
<1> QED BY <1>1, <1>2, <1>3 DEF TypeOK

\* Nothing but the loop moved: clients and matches are as they were.
LEMMA UnchangedTablesType ==
  ASSUME TypeOK, UNCHANGED <<mClients, mMatches>>
  PROVE  /\ Connected' = Connected
         /\ mClients' \in [Connected -> Client]
         /\ DOMAIN mMatches' \subseteq Codes
         /\ mMatches' \in [DOMAIN mMatches' -> Seq(ID)]
  BY DEF TypeOK, Connected

\* The tables after a client has opened a match under an unused code.
LEMMA OpenedType ==
  ASSUME TypeOK, NEW c \in Connected, NEW k \in FreeCodes,
         mMatches' = Put(mMatches, k, <<c>>)
  PROVE  /\ DOMAIN mMatches' = DOMAIN mMatches \cup {k}
         /\ DOMAIN mMatches' \subseteq Codes
         /\ mMatches' \in [DOMAIN mMatches' -> Seq(ID)]
<1>1. <<c>> \in Seq(ID)
  BY ConnectedIsID
<1>2. k \in Codes
  BY DEF FreeCodes
<1> QED BY <1>1, <1>2 DEF TypeOK, Put

\* The tables after a client has joined a match.
LEMMA JoinedType ==
  ASSUME TypeOK, NEW c \in Connected, NEW k \in DOMAIN mMatches,
         mMatches' = [mMatches EXCEPT ![k] = Append(@, c)]
  PROVE  /\ DOMAIN mMatches' = DOMAIN mMatches
         /\ mMatches' \in [DOMAIN mMatches' -> Seq(ID)]
         /\ mMatches'[k] = Append(mMatches[k], c)
         /\ \A j \in DOMAIN mMatches \ {k} : mMatches'[j] = mMatches[j]
<1>1. mMatches[k] \in Seq(ID) /\ c \in ID
  BY ConnectedIsID DEF TypeOK
<1>2. Append(mMatches[k], c) \in Seq(ID)
  BY <1>1
<1> QED BY <1>1, <1>2 DEF TypeOK

\* No early return of the JoinMatch case is taken: the match exists, has room,
\* and the client is in none.
LEMMA NotRefused ==
  ASSUME NEW c, NEW k, JoinRefusal(c, k) = {}
  PROVE  /\ mClients[c].currentMatchCode = NoCode
         /\ k \in DOMAIN mMatches
         /\ ~(Len(mMatches[k]) >= MAX_PLAYER)
  BY DEF JoinRefusal

\* Every step of draining a socket preserves the types.
LEMMA ReceiveTypeStep ==
  ASSUME TypeOK, NEW c \in ID, Receive(c)
  PROVE  TypeOK'
<1>1. CASE DropRateLimited(c) \/ DropOversized(c)
  <2>1. ReceivePacket(c) /\ StopDraining(c) /\ Flag(c) /\ UNCHANGED <<mClients, mMatches>>
    BY <1>1 DEF DropRateLimited, DropOversized
  <2> QED BY <2>1, FlagType, UnchangedTablesType, PacketStepType
<1>2. ASSUME NEW state, ProcessPacket(c, state)
      PROVE  /\ ReceivePacket(c) /\ ~OverRateLimit
             /\ draining' = c /\ received' = received + 1 /\ ready' = ready
             /\ c \in Connected /\ mClients[c] \in Client /\ Head(inbox[c]) \in Request
  BY <1>2, ReceivePacketType DEF ProcessPacket
<1>3. CASE DropMalformed(c)
  <2>1. ProcessPacket(c, "TitleState") /\ Flag(c) /\ UNCHANGED <<mClients, mMatches>>
    BY <1>3 DEF DropMalformed, TitlePacket
  <2> QED BY <1>2, <2>1, FlagType, UnchangedTablesType, PacketStepType
<1>4. CASE CreateMatch(c)
  <2>1. ProcessPacket(c, "TitleState")
    BY <1>4 DEF CreateMatch, TitlePacket
  <2>2. CASE mClients[c].currentMatchCode # NoCode
    <3>1. RepeatedCreate(c)
      BY <1>4, <2>2 DEF CreateMatch
    <3>2. CASE Flag(c) /\ UNCHANGED mClients
      BY <1>2, <2>1, <3>1, <3>2, FlagType, UnchangedTablesType, PacketStepType
      DEF RepeatedCreate
    <3>3. CASE /\ mClients' = [mClients EXCEPT ![c] =
                                 Enqueue(@, MatchJoinFailed("AlreadyInMatch"))]
               /\ UNCHANGED mClientsToDisconnect
      <4>1. Enqueue(mClients[c], MatchJoinFailed("AlreadyInMatch")) \in Client
        BY <1>2, <2>1, EnqueueProperties, FailedIsReply DEF JoinError
      <4>2. Connected' = Connected /\ mClients' \in [Connected -> Client]
        BY <1>2, <2>1, <3>3, <4>1, ClientUpdateType
      <4>3. /\ mMatches' = mMatches /\ DOMAIN mMatches \subseteq Codes
            /\ mMatches \in [DOMAIN mMatches -> Seq(ID)]
            /\ mClientsToDisconnect' \in Seq(ID)
        BY <3>1, <3>3 DEF RepeatedCreate, TypeOK
      <4> QED BY <1>2, <2>1, <4>2, <4>3, PacketStepType
    <3> QED BY <3>1, <3>2, <3>3 DEF RepeatedCreate
  <2>3. CASE mClients[c].currentMatchCode = NoCode
    <3>1. PICK k \in FreeCodes :
              /\ mMatches' = Put(mMatches, k, <<c>>)
              /\ mClients' = [mClients EXCEPT ![c] = Entered(@, k)]
              /\ UNCHANGED mClientsToDisconnect
      BY <1>4, <2>3 DEF CreateMatch
    <3>2. Entered(mClients[c], k) \in Client
      BY <1>2, <2>1, EnteredProperties DEF FreeCodes
    <3>3. Connected' = Connected /\ mClients' \in [Connected -> Client]
      BY <1>2, <2>1, <3>1, <3>2, ClientUpdateType
    <3>4. DOMAIN mMatches' \subseteq Codes /\ mMatches' \in [DOMAIN mMatches' -> Seq(ID)]
      BY <1>2, <2>1, <3>1, OpenedType
    <3>5. mClientsToDisconnect' \in Seq(ID)
      BY <3>1 DEF TypeOK
    <3> QED BY <1>2, <2>1, <3>3, <3>4, <3>5, PacketStepType
  <2> QED BY <2>2, <2>3
<1>5. CASE RefuseJoin(c)
  <2>1. ProcessPacket(c, "TitleState")
    BY <1>5 DEF RefuseJoin, TitlePacket
  <2>2. PICK e \in JoinRefusal(c, Head(inbox[c]).code) :
          mClients' = [mClients EXCEPT ![c] = Enqueue(@, MatchJoinFailed(e))]
    BY <1>5 DEF RefuseJoin
  <2>3. e \in JoinError
    BY DEF JoinRefusal, JoinError
  <2>4. Enqueue(mClients[c], MatchJoinFailed(e)) \in Client
    BY <1>2, <2>1, <2>3, EnqueueProperties, FailedIsReply
  <2>5. Connected' = Connected /\ mClients' \in [Connected -> Client]
    BY <1>2, <2>1, <2>2, <2>4, ClientUpdateType
  <2>6. /\ mMatches' = mMatches /\ DOMAIN mMatches \subseteq Codes
        /\ mMatches \in [DOMAIN mMatches -> Seq(ID)]
        /\ mClientsToDisconnect' \in Seq(ID)
    BY <1>5 DEF RefuseJoin, TypeOK
  <2> QED BY <1>2, <2>1, <2>5, <2>6, PacketStepType
<1>6. CASE JoinMatch(c)
  <2> DEFINE k == Head(inbox[c]).code
  <2>1. /\ ProcessPacket(c, "TitleState")
        /\ Head(inbox[c]).type = "JoinMatch"
        /\ JoinRefusal(c, k) = {}
        /\ mMatches' = [mMatches EXCEPT ![k] = Append(@, c)]
        /\ mClients' = [mClients EXCEPT ![c] = Entered(@, k)]
        /\ UNCHANGED mClientsToDisconnect
    BY <1>6 DEF JoinMatch, TitlePacket
  <2>2. k \in Codes /\ k \in DOMAIN mMatches
    BY <1>2, <2>1, JoinRequestCode, NotRefused
  <2> HIDE DEF k
  <2>3. Entered(mClients[c], k) \in Client
    BY <1>2, <2>1, <2>2, EnteredProperties
  <2>4. Connected' = Connected /\ mClients' \in [Connected -> Client]
    BY <1>2, <2>1, <2>3, ClientUpdateType
  <2>5. DOMAIN mMatches' \subseteq Codes /\ mMatches' \in [DOMAIN mMatches' -> Seq(ID)]
    BY <1>2, <2>1, <2>2, JoinedType DEF TypeOK
  <2>6. mClientsToDisconnect' \in Seq(ID)
    BY <2>1 DEF TypeOK
  <2> QED BY <1>2, <2>1, <2>4, <2>5, <2>6, PacketStepType
<1>7. CASE IgnoreInUsernameState(c)
  <2>1. /\ ProcessPacket(c, "UsernameState")
        /\ UNCHANGED <<mClients, mMatches, mClientsToDisconnect>>
    BY <1>7 DEF IgnoreInUsernameState
  <2>2. mClientsToDisconnect' \in Seq(ID)
    BY <2>1 DEF TypeOK
  <2> QED BY <1>2, <2>1, <2>2, UnchangedTablesType, PacketStepType
<1>8. CASE PeerGone(c)
  <2>1. mClientsToDisconnect' \in Seq(ID)
    BY <1>8, FlagType DEF PeerGone
  <2> QED BY <1>8, <2>1, ServerAssumption
      DEF PeerGone, MayReceive, StopDraining, TypeOK, Connected, peers
<1>9. CASE Drained(c)
  BY <1>9, ServerAssumption
  DEF Drained, MayReceive, StopDraining, TypeOK, Connected, peers, server
<1> QED BY <1>1, <1>3, <1>4, <1>5, <1>6, <1>7, <1>8, <1>9 DEF Receive

\* A flush of c is one of FlushProperties', whichever way it ends.
LEMMA FlushClientCases ==
  ASSUME TypeOK, NEW c \in ID, FlushClient(c)
  PROVE  /\ MayFlush(c) /\ c \in Connected
         /\ \E n \in Nat : n <= Queued(c) /\ Flush(c, n)
         /\ mClientsToDisconnect' \in Seq(ID)
<1>1. MayFlush(c) /\ c \in Connected
  BY DEF FlushClient, FlushAll, FlushBlocked, FlushFailed, MayFlush, TypeOK
<1>2. Queued(c) \in Nat
  BY <1>1 DEF Queued, TypeOK, Client
<1>3. \E n \in Nat : n <= Queued(c) /\ Flush(c, n)
  BY <1>2 DEF FlushClient, FlushAll, FlushBlocked, FlushFailed
<1>4. Flag(c) \/ UNCHANGED mClientsToDisconnect
  BY DEF FlushClient, FlushAll, FlushBlocked, FlushFailed
<1> QED BY <1>1, <1>3, <1>4, FlagType DEF TypeOK

\* Flushing a client shortens its queue and may flag it: no type changes.
LEMMA FlushTypeStep ==
  ASSUME TypeOK, NEW c \in ID, FlushClient(c)
  PROVE  /\ TypeOK'
         /\ UNCHANGED mMatches
         /\ Connected' = Connected
         /\ \A d \in Connected :
               /\ mClients'[d].state = mClients[d].state
               /\ mClients'[d].currentMatchCode = mClients[d].currentMatchCode
<1>1. PICK n \in Nat : n <= Queued(c) /\ Flush(c, n)
  BY FlushClientCases
<1>2. /\ mClients' \in [Connected -> Client]
      /\ replies' \in [ID -> Seq(Reply)]
      /\ \A d \in Connected :
            /\ mClients'[d].state = mClients[d].state
            /\ mClients'[d].currentMatchCode = mClients[d].currentMatchCode
  BY <1>1, FlushClientCases, FlushProperties
<1>3. Connected' = Connected
  BY <1>2 DEF Connected
<1>4. /\ pc = "flush" /\ toFlush' = toFlush \ {c}
      /\ UNCHANGED <<mMatches, mNextClientID, pc, ready, draining, received, inbox,
                     peerOpen, sentCount>>
  BY <1>1, FlushClientCases DEF Flush, MayFlush, peers
<1>5. mClientsToDisconnect' \in Seq(ID)
  BY FlushClientCases
<1> QED BY <1>2, <1>3, <1>4, <1>5 DEF TypeOK

\* The match a departing client was in keeps its other players, or goes.
LEMMA WithoutPlayerType ==
  ASSUME TypeOK, NEW k \in DOMAIN mMatches, NEW c,
         mMatches' = WithoutPlayer(k, c)
  PROVE  /\ EraseRemove(mMatches[k], c) \in Seq(ID)
         /\ DOMAIN mMatches' =
              IF EraseRemove(mMatches[k], c) = << >> THEN DOMAIN mMatches \ {k}
                                                     ELSE DOMAIN mMatches
         /\ k \in DOMAIN mMatches' => mMatches'[k] = EraseRemove(mMatches[k], c)
         /\ \A j \in DOMAIN mMatches' \ {k} : mMatches'[j] = mMatches[j]
         /\ DOMAIN mMatches' \subseteq Codes
         /\ mMatches' \in [DOMAIN mMatches' -> Seq(ID)]
<1> DEFINE left == EraseRemove(mMatches[k], c)
<1>1. mMatches[k] \in Seq(ID) /\ left \in Seq(ID)
  BY EraseRemoveProperties DEF TypeOK
<1> HIDE DEF left
<1>2. mMatches' = IF left = << >> THEN Erase(mMatches, k)
                                  ELSE [mMatches EXCEPT ![k] = left]
  BY DEF WithoutPlayer, left
<1>3. CASE left = << >>
  BY <1>1, <1>2, <1>3 DEF TypeOK, Erase, Restrict, left
<1>4. CASE left # << >>
  BY <1>1, <1>2, <1>4 DEF TypeOK, left
<1> QED BY <1>3, <1>4

\* Removing a client takes its entries out of the maps.
LEMMA RemoveTypeStep ==
  ASSUME TypeOK, RemoveNext
  PROVE  TypeOK'
<1> DEFINE c == Head(mClientsToDisconnect)
           k == mClients[c].currentMatchCode
<1>1. /\ pc = "remove" /\ c \in ID /\ mClientsToDisconnect' \in Seq(ID)
      /\ RemoveClient(c)
      /\ UNCHANGED <<mNextClientID, pc, ready, draining, received, toFlush,
                     inbox, peerOpen, sentCount, replies>>
  BY DEF RemoveNext, TypeOK, loop, peers
<1>2. CASE UNCHANGED <<mClients, mMatches>>
  BY <1>1, <1>2, UnchangedTablesType DEF TypeOK
<1>3. CASE /\ mMatches' = IF k = NoCode THEN mMatches ELSE WithoutPlayer(k, c)
           /\ mClients' = Erase(mClients, c)
           /\ k # NoCode => k \in DOMAIN mMatches
  <2>1. Connected' = Connected \ {c} /\ mClients' \in [Connected' -> Client]
    BY <1>3 DEF TypeOK, Connected, Erase, Restrict
  <2>2. DOMAIN mMatches' \subseteq Codes /\ mMatches' \in [DOMAIN mMatches' -> Seq(ID)]
    <3>1. CASE k = NoCode
      BY <1>3, <3>1 DEF TypeOK
    <3>2. CASE k # NoCode
      <4> HIDE DEF k, c
      <4> QED BY <1>3, <3>2, WithoutPlayerType
    <3> QED BY <3>1, <3>2
  <2>3. ready = {} /\ toFlush = {}
    BY <1>1 DEF TypeOK
  <2> HIDE DEF c, k
  <2> QED BY <1>1, <2>1, <2>2, <2>3 DEF TypeOK
<1> QED BY <1>1, <1>2, <1>3 DEF RemoveClient

\* A new client gets an id not used before.
LEMMA AcceptTypeStep ==
  ASSUME TypeOK, HandleIncomingConnections
  PROVE  TypeOK'
<1>1. /\ pc = "accept" /\ pc' = "receive" /\ mNextClientID < MaxConnections
      /\ UNCHANGED <<mMatches, mClientsToDisconnect, ready, draining, received,
                     toFlush, inbox, peerOpen, sentCount, replies>>
  BY DEF HandleIncomingConnections, TypeOK, peers
<1>2. NewClient \in Client
  BY DEF NewClient, Client
<1>3. CASE /\ mClients' = Put(mClients, mNextClientID, NewClient)
           /\ mNextClientID' = mNextClientID + 1
  <2>1. Connected' = Connected \cup {mNextClientID} /\ mClients' \in [Connected' -> Client]
    BY <1>2, <1>3 DEF TypeOK, Connected, Put
  <2>2. /\ mNextClientID' \in 0 .. MaxConnections
        /\ Connected' \subseteq 0 .. mNextClientID' - 1
    BY <1>1, <1>3, <2>1, ServerAssumption DEF TypeOK
  <2> QED BY <1>1, <2>1, <2>2 DEF TypeOK
<1>4. CASE UNCHANGED <<mClients, mNextClientID>>
  BY <1>1, <1>4 DEF TypeOK, Connected
<1> QED BY <1>3, <1>4 DEF HandleIncomingConnections

\* The steps that only move the loop on or let a peer act.
OtherStep ==
    \/ SelectorWait \/ EndReceive \/ EndFlush \/ EndTick
    \/ \E c \in ID : PeerSend(c) \/ PeerClose(c)

\* Every remaining step of the tick and of the peers keeps the types.
LEMMA OtherTypeStep ==
  ASSUME TypeOK, OtherStep
  PROVE  TypeOK' /\ UNCHANGED server
<1>1. CASE SelectorWait
  <2>1. TypeOK'
    BY <1>1, ServerAssumption DEF SelectorWait, TypeOK, Connected, server, peers
  <2> QED BY <1>1, <2>1 DEF SelectorWait
<1>2. CASE EndReceive
  BY <1>2 DEF EndReceive, TypeOK, Connected, server, peers
<1>3. CASE EndFlush
  BY <1>3 DEF EndFlush, TypeOK, Connected, server, peers
<1>4. CASE EndTick
  BY <1>4 DEF EndTick, TypeOK, Connected, server, peers
<1>5. ASSUME NEW c \in ID, PeerSend(c) PROVE TypeOK' /\ UNCHANGED server
  <2>1. PICK m \in Request : inbox' = [inbox EXCEPT ![c] = Append(@, m)]
    BY <1>5 DEF PeerSend
  <2>2. inbox[c] \in Seq(Request) /\ Append(inbox[c], m) \in Seq(Request)
    BY DEF TypeOK
  <2>3. inbox' \in [ID -> Seq(Request)]
    BY <2>1, <2>2 DEF TypeOK
  <2>4. sentCount' \in [ID -> Nat]
    BY <1>5 DEF PeerSend, TypeOK
  <2> QED BY <1>5, <2>3, <2>4 DEF PeerSend, TypeOK, Connected, server, loop
<1>6. ASSUME NEW c \in ID, PeerClose(c) PROVE TypeOK' /\ UNCHANGED server
  <2>1. inbox' \in [ID -> Seq(Request)]
    BY <1>6 DEF PeerClose, TypeOK
  <2>2. peerOpen' \in [ID -> BOOLEAN]
    BY <1>6 DEF PeerClose, TypeOK
  <2> QED BY <1>6, <2>1, <2>2 DEF PeerClose, TypeOK, Connected, server, loop
<1> QED BY <1>1, <1>2, <1>3, <1>4, <1>5, <1>6 DEF OtherStep

\* The kinds of step the invariance proofs distinguish.
LEMMA NextCases ==
  ASSUME Next
  PROVE  \/ \E c \in ID : Receive(c)
         \/ \E c \in ID : FlushClient(c)
         \/ RemoveNext
         \/ HandleIncomingConnections
         \/ OtherStep
  BY DEF Next, Server, Peer, OtherStep

\* One step per action.
LEMMA TypeStep == TypeOK /\ [Next]_vars => TypeOK'
<1> SUFFICES ASSUME TypeOK, [Next]_vars PROVE TypeOK'
  OBVIOUS
<1>1. CASE UNCHANGED vars
  BY <1>1 DEF vars, server, loop, peers, TypeOK, Connected
<1>2. CASE Next
  BY <1>2, NextCases, ReceiveTypeStep, FlushTypeStep, RemoveTypeStep,
     AcceptTypeStep, OtherTypeStep
<1> QED BY <1>1, <1>2

\* Every reachable state is well-typed: ids are only used after they were
\* given out, the sets the loop iterates over hold connected clients, and the
\* count of a tick's packets stays within the rate limit.
THEOREM TypeCorrect == Spec => []TypeOK
  BY TypeInit, TypeStep, PTL DEF Spec

-----------------------------------------------------------------------------
(* The two records of membership agree, and no match is overfull.          *)

\* What makes the two invariants inductive.
TablesInv == TypeOK /\ MatchesConsistent /\ MatchesWithinCapacity

\* Steps that leave every client's state and code, and the matches, alone.
SameMembership ==
    /\ UNCHANGED mMatches
    /\ Connected' = Connected
    /\ \A d \in Connected :
          /\ mClients'[d].state = mClients[d].state
          /\ mClients'[d].currentMatchCode = mClients[d].currentMatchCode

\* A step that leaves matches and clients' states alone keeps the tables.
LEMMA SameMembershipStep ==
  ASSUME MatchesConsistent, MatchesWithinCapacity, SameMembership
  PROVE  MatchesConsistent' /\ MatchesWithinCapacity'
<1>1. /\ mMatches' = mMatches
      /\ \A k : PlayersOf(k)' = PlayersOf(k)
      /\ Connected' = Connected
  BY DEF SameMembership, PlayersOf
<1>2. ClientsMatchTheirMatches'
  BY <1>1 DEF SameMembership, MatchesConsistent, ClientsMatchTheirMatches
<1>3. MatchesMatchTheirClients'
  BY <1>1 DEF SameMembership, MatchesConsistent, MatchesMatchTheirClients
<1>4. MatchesWithinCapacity'
  BY <1>1 DEF MatchesWithinCapacity
<1> QED BY <1>2, <1>3, <1>4 DEF MatchesConsistent

\* Only the client c changed, and of it only the reply queue.
LEMMA EnqueueIsSameMembership ==
  ASSUME TypeOK, NEW c \in Connected, NEW reply \in Reply, UNCHANGED mMatches,
         mClients' = [mClients EXCEPT ![c] = Enqueue(@, reply)]
  PROVE  SameMembership
<1>1. mClients[c] \in Client
  BY DEF TypeOK
<1>2. Enqueue(mClients[c], reply) \in Client
  BY <1>1, EnqueueProperties
<1>3. /\ Connected' = Connected
      /\ mClients'[c] = Enqueue(mClients[c], reply)
      /\ \A d \in Connected \ {c} : mClients'[d] = mClients[d]
  BY <1>2, ClientUpdateType
<1> QED BY <1>1, <1>3, EnqueueProperties DEF SameMembership

\* The client c has entered match k as its last player, which it has room for.
LEMMA EnterStep ==
  ASSUME TablesInv, TypeOK', NEW c \in Connected, NEW k \in Codes,
         mClients[c].currentMatchCode = NoCode,
         mClients' = [mClients EXCEPT ![c] = Entered(@, k)],
         DOMAIN mMatches' = DOMAIN mMatches \cup {k},
         \A j \in DOMAIN mMatches \ {k} : mMatches'[j] = mMatches[j],
         \/ k \notin DOMAIN mMatches /\ mMatches'[k] = <<c>>
         \/ /\ k \in DOMAIN mMatches /\ mMatches'[k] = Append(mMatches[k], c)
            /\ ~(Len(mMatches[k]) >= MAX_PLAYER)
  PROVE  MatchesConsistent' /\ MatchesWithinCapacity'
<1>1. mClients[c] \in Client /\ Entered(mClients[c], k) \in Client
  BY EnteredProperties DEF TablesInv, TypeOK
<1>2. /\ Connected' = Connected
      /\ mClients'[c].state = "UsernameState"
      /\ mClients'[c].currentMatchCode = k
      /\ \A d \in Connected \ {c} : mClients'[d] = mClients[d]
  <2>1. TypeOK
    BY DEF TablesInv
  <2>2. /\ Connected' = Connected
        /\ mClients'[c] = Entered(mClients[c], k)
        /\ \A d \in Connected \ {c} : mClients'[d] = mClients[d]
    BY <1>1, <2>1, ClientUpdateType
  <2> QED BY <1>1, <2>2, EnteredProperties
<1>3. \A j \in DOMAIN mMatches : mMatches[j] \in Seq(ID) /\ c \notin PlayersOf(j)
  <2>1. \A j \in DOMAIN mMatches : mMatches[j] \in Seq(ID) /\ j # NoCode
    BY ServerAssumption DEF TablesInv, TypeOK
  <2> QED BY <2>1 DEF TablesInv, MatchesConsistent, MatchesMatchTheirClients
<1>4. /\ mMatches'[k] # << >>
      /\ IsInjective(mMatches'[k])
      /\ PlayersOf(k)' = (IF k \in DOMAIN mMatches THEN PlayersOf(k) ELSE {}) \cup {c}
      /\ Len(mMatches'[k]) <= MAX_PLAYER
  <2>1. CASE k \notin DOMAIN mMatches
    <3> DEFINE new == mMatches'[k]
    <3>1. new = <<c>> /\ DOMAIN new = {1} /\ new[1] = c /\ Len(new) = 1 /\ new # << >>
      <4>1. new = <<c>>
        BY <2>1
      <4>2. Len(<<c>>) = 1 /\ <<c>>[1] = c /\ <<c>> \in Seq({c})
        OBVIOUS
      <4>3. DOMAIN <<c>> = 1 .. 1 /\ 1 .. 1 = {1} /\ <<c>> # << >>
        BY <4>2
      <4> HIDE DEF new
      <4> QED BY <4>1, <4>2, <4>3
    <3>2. IsInjective(new) /\ Range(new) = {c}
      BY <3>1 DEF IsInjective, Range
    <3> QED BY <2>1, <3>1, <3>2, ServerAssumption DEF PlayersOf
  <2>2. CASE k \in DOMAIN mMatches
    <3> DEFINE old == mMatches[k]
               new == mMatches'[k]
    <3>1. /\ old \in Seq(ID) /\ Len(old) \in Nat /\ DOMAIN old = 1 .. Len(old)
          /\ new = Append(old, c) /\ Len(new) = Len(old) + 1
          /\ DOMAIN new = 1 .. Len(old) + 1
          /\ new[Len(old) + 1] = c /\ \A i \in 1 .. Len(old) : new[i] = old[i]
      BY <1>3, <2>2
    <3>2. IsInjective(old) /\ c \notin Range(old)
      BY <1>3, <2>2 DEF TablesInv, MatchesConsistent, MatchesMatchTheirClients, PlayersOf
    <3>3. Len(new) <= MAX_PLAYER
      BY <2>2, <3>1, ServerAssumption
    <3>4. \A i \in DOMAIN new : i \in DOMAIN old \/ i = Len(old) + 1
      BY <3>1
    <3>5. IsInjective(new)
      BY <3>1, <3>2, <3>4 DEF IsInjective, Range
    <3>6. Range(new) = Range(old) \cup {c}
      <4>1. ASSUME NEW i \in DOMAIN new PROVE new[i] \in Range(old) \cup {c}
        BY <3>1, <3>4 DEF Range
      <4>2. ASSUME NEW i \in DOMAIN old PROVE old[i] \in Range(new)
        BY <3>1 DEF Range
      <4>3. c \in Range(new)
        BY <3>1 DEF Range
      <4> HIDE DEF old, new
      <4> QED BY <4>1, <4>2, <4>3 DEF Range
    <3>7. new # << >>
      BY <3>1
    <3> QED BY <2>2, <3>3, <3>5, <3>6, <3>7 DEF PlayersOf
  <2> QED BY <2>1, <2>2
<1>5. \A j \in DOMAIN mMatches \ {k} : PlayersOf(j)' = PlayersOf(j)
  BY DEF PlayersOf
<1>6. ClientsMatchTheirMatches'
  <2>1. ASSUME NEW d \in Connected, NEW j, j = mClients'[d].currentMatchCode
        PROVE  /\ mClients'[d].state = "UsernameState" <=> j # NoCode
               /\ j # NoCode => j \in DOMAIN mMatches' /\ d \in Range(mMatches'[j])
    <3>1. CASE d = c
      <4>1. j = k /\ k # NoCode
        BY <1>2, <2>1, <3>1, ServerAssumption
      <4>2. c \in Range(mMatches'[k])
        BY <1>4 DEF PlayersOf
      <4> QED BY <1>2, <3>1, <4>1, <4>2
    <3>2. CASE d # c
      <4>1. mClients'[d] = mClients[d] /\ j = mClients[d].currentMatchCode
        BY <1>2, <2>1, <3>2
      <4>2. /\ mClients[d].state = "UsernameState" <=> j # NoCode
            /\ j # NoCode => j \in DOMAIN mMatches /\ d \in Range(mMatches[j])
        BY <4>1 DEF TablesInv, MatchesConsistent, ClientsMatchTheirMatches, PlayersOf
      <4>3. j # NoCode => d \in Range(mMatches'[j])
        BY <1>4, <1>5, <4>2 DEF PlayersOf
      <4> QED BY <4>1, <4>2, <4>3
    <3> QED BY <3>1, <3>2
  <2> QED BY <1>2, <2>1 DEF ClientsMatchTheirMatches, PlayersOf
<1>7. MatchesMatchTheirClients'
  <2>1. ASSUME NEW j \in DOMAIN mMatches'
        PROVE  /\ mMatches'[j] # << >>
               /\ IsInjective(mMatches'[j])
               /\ \A d \in PlayersOf(j)' :
                     d \in Connected /\ mClients'[d].currentMatchCode = j
    <3>1. CASE j = k
      BY <1>2, <1>4, <3>1 DEF TablesInv, MatchesConsistent, MatchesMatchTheirClients
    <3>2. CASE j # k
      BY <1>2, <1>3, <1>5, <3>2 DEF TablesInv, MatchesConsistent, MatchesMatchTheirClients
    <3> QED BY <3>1, <3>2
  <2> QED BY <1>2, <2>1 DEF MatchesMatchTheirClients
<1>8. MatchesWithinCapacity'
  BY <1>4 DEF TablesInv, MatchesWithinCapacity
<1> QED BY <1>6, <1>7, <1>8 DEF MatchesConsistent

\* The client c is gone, from the match it was in too.
LEMMA LeaveStep ==
  ASSUME TablesInv, NEW c \in Connected,
         mClients' = Erase(mClients, c),
         NEW k, k = mClients[c].currentMatchCode,
         mMatches' = IF k = NoCode THEN mMatches ELSE WithoutPlayer(k, c)
  PROVE  /\ MatchesConsistent' /\ MatchesWithinCapacity'
         /\ \A j \in DOMAIN mMatches' :
               j \in DOMAIN mMatches /\ PlayersOf(j)' = PlayersOf(j) \ {c}
         /\ \A j \in DOMAIN mMatches \ DOMAIN mMatches' : PlayersOf(j) \subseteq {c}
<1> USE DEF TablesInv
<1>1. /\ Connected' = Connected \ {c}
      /\ \A d \in Connected' : mClients'[d] = mClients[d]
  BY DEF Erase, Restrict, Connected
<1>2. \A j \in DOMAIN mMatches :
         /\ mMatches[j] \in Seq(ID) /\ mMatches[j] # << >> /\ IsInjective(mMatches[j])
         /\ Len(mMatches[j]) \in Nat /\ Len(mMatches[j]) <= MAX_PLAYER
         /\ j # NoCode
         /\ \A d \in PlayersOf(j) : d \in Connected /\ mClients[d].currentMatchCode = j
  <2>1. \A j \in DOMAIN mMatches :
           mMatches[j] \in Seq(ID) /\ Len(mMatches[j]) \in Nat /\ j # NoCode
    BY ServerAssumption DEF TypeOK
  <2>2. \A j \in DOMAIN mMatches : Len(mMatches[j]) <= MAX_PLAYER
    BY DEF MatchesWithinCapacity
  <2>3. MatchesMatchTheirClients
    BY DEF MatchesConsistent
  <2> QED BY <2>1, <2>2, <2>3 DEF MatchesMatchTheirClients
<1>3. \A j \in DOMAIN mMatches : j # k => c \notin PlayersOf(j)
  BY <1>2
<1>4. k # NoCode => k \in DOMAIN mMatches
  BY DEF MatchesConsistent, ClientsMatchTheirMatches
<1>5. /\ \A j \in DOMAIN mMatches' :
            /\ j \in DOMAIN mMatches
            /\ mMatches'[j] # << >>
            /\ IsInjective(mMatches'[j])
            /\ Len(mMatches'[j]) <= MAX_PLAYER
            /\ Range(mMatches'[j]) = PlayersOf(j) \ {c}
      /\ \A j \in DOMAIN mMatches \ DOMAIN mMatches' : PlayersOf(j) \subseteq {c}
  <2>1. CASE k = NoCode
    BY <1>2, <1>3, <2>1 DEF PlayersOf
  <2>2. CASE k # NoCode
    <3> DEFINE left == EraseRemove(mMatches[k], c)
    <3>1. /\ left \in Seq(ID) /\ Len(left) <= Len(mMatches[k]) /\ Len(left) \in Nat
          /\ Range(left) = PlayersOf(k) \ {c}
          /\ IsInjective(left)
      BY <1>2, <1>4, <2>2, EraseRemoveProperties DEF PlayersOf
    <3>2. /\ DOMAIN mMatches' = IF left = << >> THEN DOMAIN mMatches \ {k}
                                                 ELSE DOMAIN mMatches
          /\ k \in DOMAIN mMatches' => mMatches'[k] = left
          /\ \A j \in DOMAIN mMatches' \ {k} : mMatches'[j] = mMatches[j]
      BY <1>4, <2>2, WithoutPlayerType
    <3> HIDE DEF left
    <3>3. left = << >> => Range(left) = {}
      BY DEF Range
    <3>4. ASSUME NEW j \in DOMAIN mMatches'
          PROVE  /\ j \in DOMAIN mMatches
                 /\ mMatches'[j] # << >>
                 /\ IsInjective(mMatches'[j])
                 /\ Len(mMatches'[j]) <= MAX_PLAYER
                 /\ Range(mMatches'[j]) = PlayersOf(j) \ {c}
      <4>1. CASE j = k
        BY <1>2, <1>4, <2>2, <3>1, <3>2, <4>1, ServerAssumption
      <4>2. CASE j # k
        BY <1>2, <1>3, <3>2, <4>2 DEF PlayersOf
      <4> QED BY <4>1, <4>2
    <3>5. \A j \in DOMAIN mMatches \ DOMAIN mMatches' : PlayersOf(j) \subseteq {c}
      BY <3>1, <3>2, <3>3
    <3> QED BY <3>4, <3>5
  <2> QED BY <2>1, <2>2
<1>6. ClientsMatchTheirMatches'
  <2>1. ASSUME NEW d \in Connected', NEW j, j = mClients'[d].currentMatchCode
        PROVE  /\ mClients'[d].state = "UsernameState" <=> j # NoCode
               /\ j # NoCode => j \in DOMAIN mMatches' /\ d \in Range(mMatches'[j])
    <3>1. d \in Connected /\ d # c /\ mClients'[d] = mClients[d]
      BY <1>1
    <3>2. /\ mClients[d].state = "UsernameState" <=> j # NoCode
          /\ j # NoCode => j \in DOMAIN mMatches /\ d \in PlayersOf(j)
      BY <2>1, <3>1 DEF MatchesConsistent, ClientsMatchTheirMatches
    <3> QED BY <1>5, <3>1, <3>2
  <2> QED BY <2>1 DEF ClientsMatchTheirMatches, PlayersOf
<1>7. MatchesMatchTheirClients'
  <2>1. ASSUME NEW j \in DOMAIN mMatches', NEW d \in Range(mMatches'[j])
        PROVE  d \in Connected' /\ mClients'[d].currentMatchCode = j
    BY <1>1, <1>2, <1>5
  <2> QED BY <1>5, <2>1 DEF MatchesMatchTheirClients, PlayersOf
<1>8. MatchesWithinCapacity'
  BY <1>5 DEF MatchesWithinCapacity
<1>9. \A j \in DOMAIN mMatches' : PlayersOf(j)' = PlayersOf(j) \ {c}
  BY <1>5 DEF PlayersOf
<1> QED BY <1>5, <1>6, <1>7, <1>8, <1>9 DEF MatchesConsistent

\* removeClient either finds nobody or lets the client go: a client in a match
\* always has that match, so no early return leaves it connected.
LEMMA RemoveCases ==
  ASSUME TablesInv, RemoveNext
  PROVE  LET c == Head(mClientsToDisconnect) IN
         \/ /\ c \notin Connected /\ UNCHANGED <<mClients, mMatches>>
         \/ /\ c \in Connected
            /\ mClients' = Erase(mClients, c)
            /\ mMatches' = IF mClients[c].currentMatchCode = NoCode THEN mMatches
                           ELSE WithoutPlayer(mClients[c].currentMatchCode, c)
<1> DEFINE c == Head(mClientsToDisconnect)
<1>1. c \in Connected =>
         \/ mClients[c].currentMatchCode = NoCode
         \/ mClients[c].currentMatchCode \in DOMAIN mMatches
  BY DEF TablesInv, MatchesConsistent, ClientsMatchTheirMatches
<1> QED BY <1>1 DEF RemoveNext, RemoveClient

\* A new connection is in no match.
LEMMA AcceptStep ==
  ASSUME TablesInv, HandleIncomingConnections
  PROVE  MatchesConsistent' /\ MatchesWithinCapacity'
<1>1. UNCHANGED mMatches /\ \A k : PlayersOf(k)' = PlayersOf(k)
  BY DEF HandleIncomingConnections, PlayersOf
<1>2. CASE mClients' = Put(mClients, mNextClientID, NewClient)
  <2>1. /\ Connected' = Connected \cup {mNextClientID}
        /\ mClients'[mNextClientID] = NewClient
        /\ \A d \in Connected : mClients'[d] = mClients[d]
    <3>1. mNextClientID \notin Connected
      BY DEF TablesInv, TypeOK
    <3> QED BY <1>2, <3>1 DEF Put, Connected
  <2>2. ClientsMatchTheirMatches'
    BY <1>1, <2>1
    DEF TablesInv, MatchesConsistent, ClientsMatchTheirMatches, NewClient
  <2>3. MatchesMatchTheirClients'
    BY <1>1, <2>1 DEF TablesInv, MatchesConsistent, MatchesMatchTheirClients
  <2>4. MatchesWithinCapacity'
    BY <1>1 DEF TablesInv, MatchesWithinCapacity
  <2> QED BY <2>2, <2>3, <2>4 DEF MatchesConsistent
<1>3. CASE UNCHANGED mClients
  <2>1. SameMembership
    BY <1>1, <1>3 DEF SameMembership, Connected
  <2> QED BY <2>1, SameMembershipStep DEF TablesInv
<1> QED BY <1>2, <1>3 DEF HandleIncomingConnections

\* Handling one packet: membership stays as it is, or the client enters one
\* match, new or existing.
LEMMA ReceiveCases ==
  ASSUME TypeOK, NEW c \in ID, Receive(c)
  PROVE  \/ SameMembership /\ UNCHANGED mNextClientID
         \/ /\ c \in Connected /\ mClients[c].currentMatchCode = NoCode
            /\ UNCHANGED mNextClientID
            /\ \E k \in Codes :
                 /\ mClients' = [mClients EXCEPT ![c] = Entered(@, k)]
                 /\ \/ k \in FreeCodes /\ mMatches' = Put(mMatches, k, <<c>>)
                    \/ /\ k \in DOMAIN mMatches
                       /\ ~(Len(mMatches[k]) >= MAX_PLAYER)
                       /\ mMatches' = [mMatches EXCEPT ![k] = Append(@, c)]
<1>1. UNCHANGED <<mClients, mMatches>> => SameMembership
  BY DEF SameMembership, Connected
<1>2. CASE \/ DropRateLimited(c) \/ DropOversized(c) \/ DropMalformed(c)
           \/ IgnoreInUsernameState(c) \/ PeerGone(c) \/ Drained(c)
  <2>1. UNCHANGED <<mClients, mMatches, mNextClientID>>
    BY <1>2 DEF DropRateLimited, DropOversized, DropMalformed, IgnoreInUsernameState,
       PeerGone, Drained, TitlePacket, ProcessPacket, ReceivePacket, server
  <2> QED BY <1>1, <2>1
<1>3. ASSUME NEW type, TitlePacket(c, type)
      PROVE  /\ c \in Connected /\ UNCHANGED mNextClientID
             /\ Head(inbox[c]) \in Request /\ Head(inbox[c]).type = type
  BY <1>3, ReceivePacketType DEF TitlePacket, ProcessPacket, ReceivePacket
<1>4. CASE CreateMatch(c)
  <2>1. c \in Connected /\ UNCHANGED mNextClientID
    BY <1>3, <1>4 DEF CreateMatch
  <2>2. CASE mClients[c].currentMatchCode # NoCode
    <3>1. RepeatedCreate(c)
      BY <1>4, <2>2 DEF CreateMatch
    <3>2. MatchJoinFailed("AlreadyInMatch") \in Reply
      BY FailedIsReply DEF JoinError
    <3> QED BY <1>1, <2>1, <3>1, <3>2, EnqueueIsSameMembership DEF RepeatedCreate
  <2>3. CASE mClients[c].currentMatchCode = NoCode
    BY <1>4, <2>1, <2>3 DEF CreateMatch, FreeCodes
  <2> QED BY <2>2, <2>3
<1>5. CASE RefuseJoin(c)
  <2>1. c \in Connected /\ UNCHANGED mNextClientID
    BY <1>3, <1>5 DEF RefuseJoin
  <2>2. PICK e \in JoinRefusal(c, Head(inbox[c]).code) :
          mClients' = [mClients EXCEPT ![c] = Enqueue(@, MatchJoinFailed(e))]
    BY <1>5 DEF RefuseJoin
  <2>3. MatchJoinFailed(e) \in Reply
    BY FailedIsReply DEF JoinRefusal, JoinError
  <2>4. UNCHANGED mMatches
    BY <1>5 DEF RefuseJoin
  <2> QED BY <2>1, <2>2, <2>3, <2>4, EnqueueIsSameMembership
<1>6. CASE JoinMatch(c)
  <2> DEFINE k == Head(inbox[c]).code
  <2>1. /\ TitlePacket(c, "JoinMatch")
        /\ JoinRefusal(c, k) = {}
        /\ mMatches' = [mMatches EXCEPT ![k] = Append(@, c)]
        /\ mClients' = [mClients EXCEPT ![c] = Entered(@, k)]
    BY <1>6 DEF JoinMatch
  <2>2. k \in Codes /\ c \in Connected /\ UNCHANGED mNextClientID
    BY <1>3, <2>1, JoinRequestCode
  <2> HIDE DEF k
  <2> QED BY <2>1, <2>2, NotRefused
<1> QED BY <1>2, <1>4, <1>5, <1>6 DEF Receive

\* A packet that is read for its receiver only changes its membership.
LEMMA ReceiveStep ==
  ASSUME TablesInv, TypeOK', NEW c \in ID, Receive(c)
  PROVE  MatchesConsistent' /\ MatchesWithinCapacity'
<1>1. CASE SameMembership
  BY <1>1, SameMembershipStep DEF TablesInv
<1>2. ASSUME c \in Connected, mClients[c].currentMatchCode = NoCode, NEW k \in Codes,
             mClients' = [mClients EXCEPT ![c] = Entered(@, k)],
             k \in FreeCodes /\ mMatches' = Put(mMatches, k, <<c>>)
      PROVE  MatchesConsistent' /\ MatchesWithinCapacity'
  <2>1. /\ k \notin DOMAIN mMatches
        /\ DOMAIN mMatches' = DOMAIN mMatches \cup {k}
        /\ mMatches'[k] = <<c>>
        /\ \A j \in DOMAIN mMatches \ {k} : mMatches'[j] = mMatches[j]
    BY <1>2 DEF Put, FreeCodes
  <2> QED BY <1>2, <2>1, EnterStep
<1>3. ASSUME c \in Connected, mClients[c].currentMatchCode = NoCode, NEW k \in Codes,
             mClients' = [mClients EXCEPT ![c] = Entered(@, k)],
             k \in DOMAIN mMatches,
             ~(Len(mMatches[k]) >= MAX_PLAYER),
             mMatches' = [mMatches EXCEPT ![k] = Append(@, c)]
      PROVE  MatchesConsistent' /\ MatchesWithinCapacity'
  <2>1. /\ DOMAIN mMatches' = DOMAIN mMatches \cup {k}
        /\ mMatches'[k] = Append(mMatches[k], c)
        /\ \A j \in DOMAIN mMatches \ {k} : mMatches'[j] = mMatches[j]
    BY <1>3, JoinedType DEF TablesInv
  <2> QED BY <1>3, <2>1, EnterStep
<1> QED BY <1>1, <1>2, <1>3, ReceiveCases DEF TablesInv

\* Empty tables agree.
LEMMA TablesInit == Init => TablesInv
<1> SUFFICES ASSUME Init PROVE TablesInv
  OBVIOUS
<1>1. Connected = {} /\ DOMAIN mMatches = {}
  BY DEF Init, Connected, EmptyMap
<1> QED BY <1>1, TypeInit
    DEF TablesInv, MatchesConsistent, ClientsMatchTheirMatches,
        MatchesMatchTheirClients, MatchesWithinCapacity

\* The tables agree after every step: one step per action that touches them.
LEMMA TablesStep == TablesInv /\ [Next]_vars => TablesInv'
<1> SUFFICES ASSUME TablesInv, [Next]_vars PROVE TablesInv'
  OBVIOUS
<1>1. TypeOK /\ TypeOK' /\ MatchesConsistent /\ MatchesWithinCapacity
  BY TypeStep DEF TablesInv
<1>2. SUFFICES MatchesConsistent' /\ MatchesWithinCapacity'
  BY <1>1 DEF TablesInv
<1>3. CASE UNCHANGED <<mClients, mMatches>>
  <2>1. SameMembership
    BY <1>3 DEF SameMembership, Connected
  <2> QED BY <1>1, <2>1, SameMembershipStep
<1>4. ASSUME NEW c \in ID, Receive(c)
      PROVE  MatchesConsistent' /\ MatchesWithinCapacity'
  BY <1>1, <1>4, ReceiveStep
<1>5. ASSUME NEW c \in ID, FlushClient(c)
      PROVE  MatchesConsistent' /\ MatchesWithinCapacity'
  <2>1. SameMembership
    BY <1>1, <1>5, FlushTypeStep DEF SameMembership
  <2> QED BY <1>1, <2>1, SameMembershipStep
<1>6. CASE RemoveNext
  <2> DEFINE c == Head(mClientsToDisconnect)
  <2>1. CASE c \notin Connected /\ UNCHANGED <<mClients, mMatches>>
    BY <1>3, <2>1
  <2>2. CASE /\ c \in Connected
             /\ mClients' = Erase(mClients, c)
             /\ mMatches' = IF mClients[c].currentMatchCode = NoCode THEN mMatches
                            ELSE WithoutPlayer(mClients[c].currentMatchCode, c)
    <3> HIDE DEF c
    <3> QED BY <2>2, LeaveStep
  <2> QED BY <1>6, <2>1, <2>2, RemoveCases
<1>7. CASE HandleIncomingConnections
  BY <1>7, AcceptStep
<1>8. CASE OtherStep
  BY <1>1, <1>3, <1>8, OtherTypeStep DEF server
<1>9. CASE UNCHANGED vars
  BY <1>3, <1>9 DEF vars, server
<1> QED BY <1>4, <1>5, <1>6, <1>7, <1>8, <1>9, NextCases

\* In every reachable state, between any two steps of a tick, the clients'
\* records and the match table tell the same story.
THEOREM TablesAgree == Spec => []MatchesConsistent
<1>1. TablesInv => MatchesConsistent
  BY DEF TablesInv
<1> QED BY <1>1, TablesInit, TablesStep, PTL DEF Spec

\* No match ever holds more than MAX_PLAYER players, however many clients
\* compete for its last place.
THEOREM NeverOverfull == Spec => []MatchesWithinCapacity
<1>1. TablesInv => MatchesWithinCapacity
  BY DEF TablesInv
<1> QED BY <1>1, TablesInit, TablesStep, PTL DEF Spec

-----------------------------------------------------------------------------
(* The server implements the registry.                                     *)

\* A vector holds at most as many different players as it has elements.
LEMMA RangeCardinality ==
  ASSUME NEW S, NEW s \in Seq(S)
  PROVE  IsFiniteSet(Range(s)) /\ Cardinality(Range(s)) <= Len(s)
<1>1. Len(s) \in Nat /\ DOMAIN s = 1 .. Len(s)
  OBVIOUS
<1>2. IsFiniteSet(1 .. Len(s)) /\ Cardinality(1 .. Len(s)) = Len(s)
  BY <1>1, FS_Interval
<1>3. s \in Surjection(1 .. Len(s), Range(s))
  BY <1>1 DEF Surjection, Range
<1> QED BY <1>2, <1>3, FS_Surjection

\* The registry counts as we do.
LEMMA RegistryCardinality == \A S : Registry!Cardinality(S) = Cardinality(S)
  BY DEF Registry!Cardinality, Cardinality

\* Nobody who is connected and in no match is playing or departed.
LEMMA FreePlayer ==
  ASSUME TablesInv, NEW c \in Connected, mClients[c].currentMatchCode = NoCode
  PROVE  \A k \in Codes : c \notin Members[k]
<1>1. \A k \in DOMAIN mMatches : c \notin PlayersOf(k)
  <2>1. NoCode \notin DOMAIN mMatches
    BY ServerAssumption DEF TablesInv, TypeOK
  <2> QED BY <2>1 DEF TablesInv, MatchesConsistent, MatchesMatchTheirClients
<1> QED BY <1>1 DEF Members

\* A step that leaves the tables' membership alone leaves the registry alone.
LEMMA RegistryStutter ==
  ASSUME SameMembership, UNCHANGED mNextClientID
  PROVE  UNCHANGED <<Members, Departed>>
<1>1. mMatches' = mMatches /\ Connected' = Connected /\ mNextClientID' = mNextClientID
  BY DEF SameMembership
<1> QED BY <1>1 DEF Members, Departed, PlayersOf

\* An accepted connection is a player the registry has not heard of.
LEMMA RegistryAccept ==
  ASSUME TypeOK, HandleIncomingConnections
  PROVE  UNCHANGED <<Members, Departed>>
<1>1. Members' = Members
  BY DEF HandleIncomingConnections, Members, PlayersOf
<1>2. Departed' = Departed
  <2>1. CASE /\ mClients' = Put(mClients, mNextClientID, NewClient)
             /\ mNextClientID' = mNextClientID + 1
    <3>1. Connected' = Connected \cup {mNextClientID}
      BY <2>1 DEF Connected, Put
    <3>2. /\ mNextClientID \in Nat
          /\ \A d : d \in 0 .. mNextClientID' - 1
                      <=> d \in 0 .. mNextClientID - 1 \/ d = mNextClientID
      BY <2>1, ServerAssumption DEF TypeOK
    <3>3. mNextClientID \notin 0 .. mNextClientID - 1
      BY <3>2
    <3> QED BY <3>1, <3>2, <3>3 DEF Departed
  <2>2. CASE UNCHANGED <<mClients, mNextClientID>>
    BY <2>2 DEF Departed, Connected
  <2> QED BY <2>1, <2>2 DEF HandleIncomingConnections
<1> QED BY <1>1, <1>2

\* Opening and joining a match are the registry's, with its guards.
LEMMA RegistryEnter ==
  ASSUME TablesInv, NEW c \in Connected, mClients[c].currentMatchCode = NoCode,
         UNCHANGED mNextClientID, NEW k \in Codes,
         mClients' = [mClients EXCEPT ![c] = Entered(@, k)],
         \/ k \in FreeCodes /\ mMatches' = Put(mMatches, k, <<c>>)
         \/ /\ k \in DOMAIN mMatches
            /\ ~(Len(mMatches[k]) >= MAX_PLAYER)
            /\ mMatches' = [mMatches EXCEPT ![k] = Append(@, c)]
  PROVE  Registry!Open(c, k) \/ Registry!Join(c, k)
<1>1. TypeOK /\ c \in ID /\ Connected' = Connected
  BY ConnectedIsID DEF TablesInv, Connected
<1>2. c \notin (UNION {Members[j] : j \in Codes}) \cup Departed
  BY FreePlayer DEF Departed
<1>3. Departed' = Departed
  BY <1>1 DEF Departed
<1>4. CASE k \in FreeCodes /\ mMatches' = Put(mMatches, k, <<c>>)
  <2>1. Members[k] = {}
    BY <1>4 DEF Members, FreeCodes
  <2>2. Range(<<c>>) = {c}
    <3>1. Len(<<c>>) = 1 /\ <<c>>[1] = c /\ <<c>> \in Seq({c})
      OBVIOUS
    <3>2. DOMAIN <<c>> = 1 .. 1 /\ 1 .. 1 = {1}
      BY <3>1
    <3> QED BY <3>1, <3>2 DEF Range
  <2>3. Members' = [Members EXCEPT ![k] = {c}]
    <3>1. ASSUME NEW j \in Codes
          PROVE  Members'[j] = [Members EXCEPT ![k] = {c}][j]
      BY <1>4, <2>2 DEF Members, PlayersOf, Put
    <3> QED BY <3>1 DEF Members
  <2> QED BY <1>2, <1>3, <2>1, <2>3
      DEF Registry!Open, Registry!Playing
<1>5. CASE /\ k \in DOMAIN mMatches
           /\ ~(Len(mMatches[k]) >= MAX_PLAYER)
           /\ mMatches' = [mMatches EXCEPT ![k] = Append(@, c)]
  <2> DEFINE old == mMatches[k]
             new == Append(old, c)
  <2>1. /\ old \in Seq(ID) /\ Len(old) \in Nat /\ DOMAIN old = 1 .. Len(old)
        /\ DOMAIN new = 1 .. Len(old) + 1
        /\ new[Len(old) + 1] = c /\ \A i \in 1 .. Len(old) : new[i] = old[i]
        /\ old # << >>
    <3>1. old \in Seq(ID) /\ old # << >>
      BY <1>5 DEF TablesInv, TypeOK, MatchesConsistent, MatchesMatchTheirClients
    <3> HIDE DEF old
    <3> QED BY <1>1, <3>1
  <2>2. Range(new) = Range(old) \cup {c}
    <3>1. \A i \in DOMAIN new : i \in DOMAIN old \/ i = Len(old) + 1
      BY <2>1
    <3>2. \A i \in DOMAIN new : new[i] \in Range(old) \cup {c}
      BY <2>1, <3>1 DEF Range
    <3>3. \A i \in DOMAIN old : old[i] \in Range(new)
      BY <2>1 DEF Range
    <3>4. c \in Range(new)
      BY <2>1 DEF Range
    <3> HIDE DEF old, new
    <3> QED BY <3>2, <3>3, <3>4 DEF Range
  <2>3. Members[k] # {}
    <3>1. old[1] \in Range(old)
      BY <2>1 DEF Range
    <3> QED BY <1>5, <3>1 DEF Members, PlayersOf
  <2>4. Cardinality(Members[k]) < MAX_PLAYER
    <3>1. Cardinality(Range(old)) <= Len(old) /\ IsFiniteSet(Range(old))
      BY <2>1, RangeCardinality
    <3>2. Cardinality(Range(old)) \in Nat
      BY <3>1, FS_CardinalityType
    <3>3. Members[k] = Range(old)
      BY <1>5 DEF Members, PlayersOf
    <3> HIDE DEF old
    <3> QED BY <1>5, <2>1, <3>1, <3>2, <3>3, ServerAssumption DEF old
  <2>5. Members' = [Members EXCEPT ![k] = @ \cup {c}]
    <3>1. ASSUME NEW j \in Codes
          PROVE  Members'[j] = [Members EXCEPT ![k] = @ \cup {c}][j]
      <4>1. DOMAIN mMatches' = DOMAIN mMatches /\ mMatches'[k] = new
        BY <1>5
      <4>2. j # k => Members'[j] = Members[j]
        BY <1>5, <4>1 DEF Members, PlayersOf
      <4>3. Members'[k] = Members[k] \cup {c}
        BY <1>5, <2>2, <4>1 DEF Members, PlayersOf
      <4> HIDE DEF new
      <4> QED BY <4>2, <4>3 DEF Members
    <3> QED BY <3>1 DEF Members
  <2>6. Registry!Join(c, k)
    BY <1>2, <1>3, <2>3, <2>4, <2>5, RegistryCardinality
    DEF Registry!Join, Registry!Playing
  <2> QED BY <2>6
<1> QED BY <1>4, <1>5

\* A removal is the registry's Leave, or finds nobody and changes nothing.
LEMMA RegistryRemove ==
  ASSUME TablesInv, RemoveNext
  PROVE  \/ \E c \in ID : Registry!Leave(c)
         \/ UNCHANGED <<Members, Departed>>
<1> DEFINE c == Head(mClientsToDisconnect)
<1>1. UNCHANGED mNextClientID
  BY DEF RemoveNext
<1>2. CASE c \notin Connected /\ UNCHANGED <<mClients, mMatches>>
  <2>1. SameMembership
    BY <1>2 DEF SameMembership, Connected
  <2> QED BY <1>1, <2>1, RegistryStutter
<1>3. CASE /\ c \in Connected
           /\ mClients' = Erase(mClients, c)
           /\ mMatches' = IF mClients[c].currentMatchCode = NoCode THEN mMatches
                          ELSE WithoutPlayer(mClients[c].currentMatchCode, c)
  <2> HIDE DEF c
  <2>1. /\ \A j \in DOMAIN mMatches' :
              j \in DOMAIN mMatches /\ PlayersOf(j)' = PlayersOf(j) \ {c}
        /\ \A j \in DOMAIN mMatches \ DOMAIN mMatches' : PlayersOf(j) \subseteq {c}
    BY <1>3, LeaveStep
  <2>2. Members' = [k \in Codes |-> Members[k] \ {c}]
    <3>1. ASSUME NEW k \in Codes PROVE Members'[k] = Members[k] \ {c}
      BY <2>1 DEF Members, PlayersOf
    <3> QED BY <3>1 DEF Members
  <2>3. Departed' = Departed \cup {c} /\ c \notin Departed /\ c \in ID
    <3>1. c \in 0 .. mNextClientID - 1 /\ c \in ID
      BY <1>3, ConnectedIsID DEF TablesInv, TypeOK
    <3>2. Connected' = Connected \ {c}
      BY <1>3 DEF Connected, Erase, Restrict
    <3> QED BY <1>1, <1>3, <3>1, <3>2 DEF Departed
  <2> QED BY <2>2, <2>3 DEF Registry!Leave
<1> QED BY <1>2, <1>3, RemoveCases

\* Initial states of the server are initial states of the registry.
LEMMA RegistryInit == Init => Registry!Init
<1> SUFFICES ASSUME Init PROVE Registry!Init
  OBVIOUS
<1>1. Connected = {} /\ DOMAIN mMatches = {} /\ mNextClientID = 0
  BY DEF Init, Connected, EmptyMap
<1>2. Members = [k \in Codes |-> {}] /\ Departed = {}
  BY <1>1 DEF Members, Departed
<1> QED BY <1>2 DEF Registry!Init

\* Every step of the server is a step of the registry or leaves it unchanged.
LEMMA RegistryStep == TablesInv /\ [Next]_vars => [Registry!Next]_(Registry!vars)
<1> SUFFICES ASSUME TablesInv, [Next]_vars PROVE [Registry!Next]_(Registry!vars)
  OBVIOUS
<1>1. TypeOK /\ TypeOK'
  BY TypeStep DEF TablesInv
<1>2. ASSUME UNCHANGED <<Members, Departed>> PROVE UNCHANGED Registry!vars
  BY <1>2 DEF Registry!vars
<1>3. ASSUME UNCHANGED <<mClients, mMatches, mNextClientID>>
      PROVE  UNCHANGED Registry!vars
  <2>1. SameMembership
    BY <1>3 DEF SameMembership, Connected
  <2> QED BY <1>2, <1>3, <2>1, RegistryStutter
<1>4. ASSUME NEW c \in ID, Receive(c) PROVE [Registry!Next]_(Registry!vars)
  <2>1. CASE SameMembership /\ UNCHANGED mNextClientID
    BY <1>2, <2>1, RegistryStutter
  <2>2. CASE /\ c \in Connected /\ mClients[c].currentMatchCode = NoCode
             /\ UNCHANGED mNextClientID
             /\ \E k \in Codes :
                 /\ mClients' = [mClients EXCEPT ![c] = Entered(@, k)]
                 /\ \/ k \in FreeCodes /\ mMatches' = Put(mMatches, k, <<c>>)
                    \/ /\ k \in DOMAIN mMatches
                       /\ ~(Len(mMatches[k]) >= MAX_PLAYER)
                       /\ mMatches' = [mMatches EXCEPT ![k] = Append(@, c)]
    <3>1. \E k \in Codes : Registry!Open(c, k) \/ Registry!Join(c, k)
      BY <2>2, RegistryEnter
    <3> QED BY <3>1 DEF Registry!Next
  <2> QED BY <1>1, <1>4, <2>1, <2>2, ReceiveCases
<1>5. ASSUME NEW c \in ID, FlushClient(c) PROVE UNCHANGED Registry!vars
  <2>1. SameMembership
    BY <1>1, <1>5, FlushTypeStep DEF SameMembership
  <2>2. UNCHANGED mNextClientID
    BY <1>5 DEF FlushClient, FlushAll, FlushBlocked, FlushFailed, Flush
  <2> QED BY <1>2, <2>1, <2>2, RegistryStutter
<1>6. CASE RemoveNext
  BY <1>2, <1>6, RegistryRemove DEF Registry!Next
<1>7. CASE HandleIncomingConnections
  BY <1>1, <1>2, <1>7, RegistryAccept
<1>8. CASE OtherStep
  BY <1>1, <1>3, <1>8, OtherTypeStep DEF server
<1>9. CASE UNCHANGED vars
  BY <1>3, <1>9 DEF vars, server
<1> QED BY <1>4, <1>5, <1>6, <1>7, <1>8, <1>9, NextCases

\* The server, with its sockets, ticks, queues and flags, behaves as the
\* registry: players open unused codes, join matches with room, and leave for
\* good; nothing else ever happens to a match.
THEOREM ImplementsRegistry == Spec => RegistrySpec
  BY TablesInit, TablesStep, RegistryInit, RegistryStep, PTL
  DEF Spec, RegistrySpec, Registry!Spec

=============================================================================
