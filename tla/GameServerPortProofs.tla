------------------------ MODULE GameServerPortProofs ------------------------
(***************************************************************************)
(* What the server tells one client: its answers agree with the membership *)
(* the server holds, and seen from that client alone the server is a       *)
(* ServerPort, which is what the client's side is built on.                *)
(***************************************************************************)
EXTENDS GameServerProofs

-----------------------------------------------------------------------------
(* The invariant.                                                          *)

\* What AnswersTellMembership says of one client's answers.
ToldRight(told, k) ==
    \A i \in DOMAIN told :
       /\ told[i].type = "MatchJoined" => i = Len(told) /\ told[i].code = k
       /\ told[i] # MatchJoinFailed("AlreadyInMatch")
       /\ i = Len(told) /\ k # NoCode => told[i] = MatchJoined(k)

\* Nobody is answered before being connected.
NoneToldEarly == \A c \in ID : ~(c < mNextClientID) => replies[c] = << >>

PortInv == TablesInv /\ AnswersTellMembership /\ NoneToldEarly

\* What a step does to what one client sees.
PortStep(c) == Port(c)!Next \/ UNCHANGED Port(c)!vars

\* A step that c sees nothing of.
Quiet(c) ==
    /\ UNCHANGED <<Standing(c), inbox[c], Answers(c)>>
    /\ c \in Connected' <=> c \in Connected
    /\ c \in Connected =>
          mClients'[c].currentMatchCode = mClients[c].currentMatchCode

\* What the invariant says of c still holds.
StillRight(c) ==
    c \in Connected' => ToldRight(Answers(c)', mClients'[c].currentMatchCode)

\* The property, client by client.
LEMMA TellsByClient ==
  AnswersTellMembership <=>
     \A c \in Connected : ToldRight(Answers(c), mClients[c].currentMatchCode)
BY DEF AnswersTellMembership, ToldRight

\* The same of the next state.
LEMMA TellsByClientNext ==
  ASSUME \A c \in Connected' : StillRight(c)
  PROVE  AnswersTellMembership'
BY DEF AnswersTellMembership, ToldRight, StillRight

\* A client's answers are replies, in the order they were given.
LEMMA AnswersType ==
  ASSUME TypeOK, NEW c \in ID
  PROVE  /\ replies[c] \in Seq(Reply)
         /\ Answers(c) \in Seq(Reply)
         /\ c \in Connected => /\ mClients[c] \in Client
                               /\ mClients[c].outgoingQueue \in Seq(Reply)
                               /\ Answers(c) = replies[c] \o mClients[c].outgoingQueue
<1>1. replies[c] \in Seq(Reply)
  BY DEF TypeOK
<1>2. CASE c \in Connected
  <2>1. mClients[c] \in Client /\ mClients[c].outgoingQueue \in Seq(Reply)
    BY <1>2 DEF TypeOK, Client
  <2>2. Answers(c) = replies[c] \o mClients[c].outgoingQueue
    BY <1>2 DEF Answers
  <2> QED BY <1>1, <2>1, <2>2
<1>3. CASE c \notin Connected
  BY <1>1, <1>3 DEF Answers
<1> QED BY <1>1, <1>2, <1>3

\* What a client does not see leaves its port, and what it was told, alone.
LEMMA QuietStep ==
  ASSUME PortInv, NEW c \in ID, Quiet(c)
  PROVE  PortStep(c) /\ StillRight(c)
<1>1. PortStep(c)
  BY DEF PortStep, Quiet, Port!vars
<1>2. StillRight(c)
  BY TellsByClient DEF PortInv, Quiet, StillRight
<1> QED BY <1>1, <1>2

\* In TitleState a client has been told of no match.
LEMMA TitleToldNothing ==
  ASSUME PortInv, NEW c \in Connected, mClients[c].state = "TitleState"
  PROVE  /\ mClients[c].currentMatchCode = NoCode
         /\ \A i \in 1 .. Len(Answers(c)) :
               /\ Answers(c)[i].type # "MatchJoined"
               /\ Answers(c)[i] # MatchJoinFailed("AlreadyInMatch")
<1>1. c \in ID /\ TypeOK
  BY ConnectedIsID DEF PortInv, TablesInv
<1>2. mClients[c].currentMatchCode = NoCode
  BY DEF PortInv, TablesInv, MatchesConsistent, ClientsMatchTheirMatches
<1>3. ToldRight(Answers(c), NoCode)
  BY <1>2, TellsByClient DEF PortInv
<1>4. Answers(c) \in Seq(Reply)
  BY <1>1, AnswersType
<1>5. ASSUME NEW i \in 1 .. Len(Answers(c))
      PROVE  /\ Answers(c)[i].type # "MatchJoined"
             /\ Answers(c)[i] # MatchJoinFailed("AlreadyInMatch")
  <2>1. Answers(c)[i] \in Reply /\ i \in DOMAIN Answers(c)
    BY <1>4
  <2>2. Answers(c)[i].type = "MatchJoined" => Answers(c)[i].code = NoCode
    BY <1>3, <2>1 DEF ToldRight
  <2>3. Answers(c)[i] # MatchJoinFailed("AlreadyInMatch")
    BY <1>3, <2>1 DEF ToldRight
  <2>4. Answers(c)[i].type = "MatchJoined" => Answers(c)[i].code \in Codes
    BY <2>1 DEF Reply, MatchJoined, MatchJoinFailed
  <2> QED BY <2>2, <2>3, <2>4, ServerAssumption
<1> QED BY <1>2, <1>5

\* One more answer to a client that has been told of no match: a refusal
\* leaves it without one, a grant is the last word.
LEMMA ToldOneMore ==
  ASSUME NEW told \in Seq(Reply), NEW k,
         \A i \in 1 .. Len(told) :
            /\ told[i].type # "MatchJoined"
            /\ told[i] # MatchJoinFailed("AlreadyInMatch"),
         NEW r \in Reply,
         \/ r = MatchJoined(k)
         \/ k = NoCode /\ \E e \in {"MatchFull", "MatchNotFound"} : r = MatchJoinFailed(e)
  PROVE  ToldRight(Append(told, r), k)
<1> DEFINE more == Append(told, r)
<1>1. /\ Len(more) = Len(told) + 1 /\ Len(told) \in Nat
      /\ DOMAIN more = 1 .. Len(told) + 1
      /\ more[Len(told) + 1] = r
      /\ \A i \in 1 .. Len(told) : more[i] = told[i]
  OBVIOUS
<1> HIDE DEF more
<1>2. r # MatchJoinFailed("AlreadyInMatch")
  BY DEF MatchJoined, MatchJoinFailed
<1>3. r.type = "MatchJoined" => r = MatchJoined(k)
  BY DEF MatchJoinFailed
<1>4. k # NoCode => r = MatchJoined(k)
  OBVIOUS
<1>5. MatchJoined(k).code = k
  BY DEF MatchJoined
<1>6. ASSUME NEW i \in DOMAIN more
      PROVE  /\ more[i].type = "MatchJoined" => i = Len(more) /\ more[i].code = k
             /\ more[i] # MatchJoinFailed("AlreadyInMatch")
             /\ i = Len(more) /\ k # NoCode => more[i] = MatchJoined(k)
  <2>1. CASE i = Len(told) + 1
    BY <2>1, <1>1, <1>2, <1>3, <1>4, <1>5
  <2>2. CASE i # Len(told) + 1
    <3>1. i \in 1 .. Len(told) /\ i # Len(more)
      BY <2>2, <1>1
    <3> QED BY <3>1, <1>1
  <2> QED BY <2>1, <2>2
<1> QED BY <1>6 DEF ToldRight, more

\* A reply that is queued is the client's next answer.
LEMMA QueuedIsNextAnswer ==
  ASSUME TypeOK, NEW c \in Connected, NEW r \in Reply, c \in Connected',
         UNCHANGED replies,
         mClients'[c].outgoingQueue = Append(mClients[c].outgoingQueue, r)
  PROVE  Answers(c)' = Append(Answers(c), r)
<1>1. c \in ID
  BY ConnectedIsID
<1> DEFINE s == replies[c]
           q == mClients[c].outgoingQueue
<1>2. s \in Seq(Reply) /\ q \in Seq(Reply) /\ Answers(c) = s \o q
  BY <1>1, AnswersType
<1>3. Answers(c)' = s \o Append(q, r)
  BY DEF Answers
<1> HIDE DEF s, q
<1>4. s \o Append(q, r) = Append(s \o q, r)
  BY <1>2
<1> QED BY <1>2, <1>3, <1>4

\* Entering a match queues the grant.
LEMMA EnteredQueue ==
  ASSUME NEW client \in Client, NEW k \in Codes
  PROVE  Entered(client, k).outgoingQueue = Append(client.outgoingQueue, MatchJoined(k))
BY DEF Entered, Enqueue, Client

\* A refusal queues one reply.
LEMMA EnqueueQueue ==
  ASSUME NEW client \in Client, NEW r \in Reply
  PROVE  Enqueue(client, r).outgoingQueue = Append(client.outgoingQueue, r)
BY DEF Enqueue, Client

-----------------------------------------------------------------------------
(* Draining a socket.                                                      *)

\* The packet that is handled is the first of its client's, and nobody else
\* sees anything of it.
LEMMA OthersSeeNothing ==
  ASSUME TypeOK, NEW c \in ID, NEW d \in ID \ {c},
         Connected' = Connected, UNCHANGED <<mNextClientID, replies>>,
         d \in Connected => mClients'[d] = mClients[d],
         inbox'[d] = inbox[d]
  PROVE  Quiet(d)
BY DEF Quiet, Standing, Answers

\* What one packet does: it may be ignored, refused or granted.
LEMMA PacketEffect ==
  ASSUME PortInv, NEW c \in ID, Receive(c)
  PROVE  /\ Connected' = Connected /\ c \in Connected
         /\ UNCHANGED <<mNextClientID, replies>>
         /\ \A d \in ID \ {c} : inbox'[d] = inbox[d]
         /\ \A d \in Connected \ {c} : mClients'[d] = mClients[d]
         /\ \/ UNCHANGED <<mClients, inbox>>
            \/ /\ inbox[c] # << >> /\ inbox'[c] = Tail(inbox[c])
               /\ \/ UNCHANGED mClients
                  \/ /\ mClients[c].state = "TitleState"
                     /\ Head(inbox[c]).type = "JoinMatch"
                     /\ \E e \in {"MatchFull", "MatchNotFound"} :
                           mClients'[c] = Enqueue(mClients[c], MatchJoinFailed(e))
                  \/ /\ mClients[c].state = "TitleState"
                     /\ \E k \in Codes :
                           /\ Head(inbox[c]).type \in {"CreateMatch", "JoinMatch"}
                           /\ Head(inbox[c]).type = "JoinMatch" => Head(inbox[c]).code = k
                           /\ mClients'[c] = Entered(mClients[c], k)
<1>1. TypeOK
  BY DEF PortInv, TablesInv
<1>2. CASE PeerGone(c) \/ Drained(c)
  <2>1. /\ UNCHANGED <<mClients, inbox, mNextClientID, replies>>
        /\ c \in Connected
    BY <1>1, <1>2 DEF PeerGone, Drained, MayReceive, TypeOK, server
  <2> QED BY <2>1 DEF Connected
<1>3. ASSUME ReceivePacket(c)
      PROVE  /\ c \in Connected /\ mClients[c] \in Client
             /\ inbox[c] # << >> /\ inbox'[c] = Tail(inbox[c])
             /\ \A d \in ID \ {c} : inbox'[d] = inbox[d]
             /\ UNCHANGED <<mNextClientID, replies>>
             /\ Head(inbox[c]) \in Request
  <2>1. /\ inbox' = [inbox EXCEPT ![c] = Tail(@)] /\ inbox[c] # << >>
        /\ UNCHANGED <<mNextClientID, replies>>
    BY <1>3 DEF ReceivePacket
  <2>2. c \in Connected /\ mClients[c] \in Client /\ Head(inbox[c]) \in Request
    BY <1>1, <1>3, ReceivePacketType
  <2>3. inbox \in [ID -> Seq(Request)]
    BY <1>1 DEF TypeOK
  <2> QED BY <2>1, <2>2, <2>3
<1>4. CASE DropRateLimited(c) \/ DropOversized(c) \/ DropMalformed(c)
           \/ IgnoreInUsernameState(c)
  <2>1. ReceivePacket(c) /\ UNCHANGED mClients
    BY <1>4 DEF DropRateLimited, DropOversized, DropMalformed,
                IgnoreInUsernameState, TitlePacket, ProcessPacket
  <2> QED BY <1>3, <2>1 DEF Connected
<1>5. ASSUME NEW type, TitlePacket(c, type)
      PROVE  /\ ReceivePacket(c)
             /\ c \in Connected /\ mClients[c] \in Client
             /\ mClients[c].state = "TitleState"
             /\ Head(inbox[c]).type = type
             /\ mClients[c].currentMatchCode = NoCode
  <2>1. /\ ReceivePacket(c) /\ mClients[c].state = "TitleState"
        /\ Head(inbox[c]).type = type
    BY <1>5 DEF TitlePacket, ProcessPacket
  <2> QED BY <1>3, <2>1, TitleToldNothing
<1>6. ASSUME NEW k \in Codes, ReceivePacket(c),
             mClients' = [mClients EXCEPT ![c] = Entered(@, k)]
      PROVE  /\ Connected' = Connected
             /\ mClients'[c] = Entered(mClients[c], k)
             /\ \A d \in Connected \ {c} : mClients'[d] = mClients[d]
  <2>1. Entered(mClients[c], k) \in Client /\ c \in Connected
    BY <1>3, <1>6, EnteredProperties
  <2> QED BY <1>1, <1>6, <2>1, ClientUpdateType
<1>7. CASE CreateMatch(c)
  <2>1. /\ ReceivePacket(c) /\ c \in Connected
        /\ mClients[c].state = "TitleState"
        /\ Head(inbox[c]).type = "CreateMatch"
        /\ mClients[c].currentMatchCode = NoCode
    BY <1>5, <1>7 DEF CreateMatch
  <2>2. PICK k \in FreeCodes : mClients' = [mClients EXCEPT ![c] = Entered(@, k)]
    BY <1>7, <2>1 DEF CreateMatch
  <2>3. k \in Codes
    BY DEF FreeCodes
  <2> QED BY <1>3, <1>6, <2>1, <2>2, <2>3
<1>8. CASE JoinMatch(c)
  <2> DEFINE k == Head(inbox[c]).code
  <2>1. /\ ReceivePacket(c) /\ c \in Connected
        /\ mClients[c].state = "TitleState"
        /\ Head(inbox[c]).type = "JoinMatch"
    BY <1>5, <1>8 DEF JoinMatch
  <2>2. k \in Codes
    BY <1>3, <2>1, JoinRequestCode
  <2>3. mClients' = [mClients EXCEPT ![c] = Entered(@, k)]
    BY <1>8 DEF JoinMatch
  <2> QED BY <1>3, <1>6, <2>1, <2>2, <2>3
<1>9. CASE RefuseJoin(c)
  <2>1. /\ ReceivePacket(c) /\ c \in Connected /\ mClients[c] \in Client
        /\ mClients[c].state = "TitleState"
        /\ Head(inbox[c]).type = "JoinMatch"
        /\ mClients[c].currentMatchCode = NoCode
    BY <1>5, <1>9 DEF RefuseJoin
  <2>2. PICK e \in JoinRefusal(c, Head(inbox[c]).code) :
          mClients' = [mClients EXCEPT ![c] = Enqueue(@, MatchJoinFailed(e))]
    BY <1>9 DEF RefuseJoin
  <2>3. e \in {"MatchFull", "MatchNotFound"}
    BY <2>1 DEF JoinRefusal
  <2>4. Enqueue(mClients[c], MatchJoinFailed(e)) \in Client
    BY <2>1, <2>3, EnqueueProperties, FailedIsReply DEF JoinError
  <2>5. /\ Connected' = Connected
        /\ mClients'[c] = Enqueue(mClients[c], MatchJoinFailed(e))
        /\ \A d \in Connected \ {c} : mClients'[d] = mClients[d]
    BY <1>1, <2>1, <2>2, <2>4, ClientUpdateType
  <2> QED BY <1>3, <2>1, <2>3, <2>5
<1> QED BY <1>2, <1>4, <1>7, <1>8, <1>9 DEF Receive

\* Every packet is, to its client, a step of the port, and keeps what it was
\* told right.
LEMMA PacketStep ==
  ASSUME PortInv, NEW c \in ID, Receive(c)
  PROVE  \A d \in ID : PortStep(d) /\ StillRight(d)
<1>1. TypeOK
  BY DEF PortInv, TablesInv
<1>2. /\ Connected' = Connected /\ c \in Connected
      /\ UNCHANGED <<mNextClientID, replies>>
      /\ \A d \in ID \ {c} : inbox'[d] = inbox[d]
      /\ \A d \in Connected \ {c} : mClients'[d] = mClients[d]
  BY PacketEffect
<1>3. ASSUME NEW d \in ID \ {c} PROVE PortStep(d) /\ StillRight(d)
  <2>1. Quiet(d)
    BY <1>1, <1>2, OthersSeeNothing
  <2> QED BY <2>1, QuietStep
<1>4. ASSUME UNCHANGED mClients
      PROVE  StillRight(c) /\ UNCHANGED <<Standing(c), Answers(c)>>
  <2>1. UNCHANGED <<Standing(c), Answers(c)>>
    BY <1>2, <1>4 DEF Standing, Answers
  <2> QED BY <1>2, <1>4, <2>1, TellsByClient DEF PortInv, StillRight
<1>5. Standing(c) \in {"title", "playing"} /\ Standing(c)' \in {"title", "playing"}
  BY <1>2 DEF Standing
<1>6. mClients[c] \in Client
  BY <1>1, <1>2, AnswersType
<1>7. CASE UNCHANGED <<mClients, inbox>>
  <2>1. Quiet(c)
    BY <1>2, <1>4, <1>7 DEF Quiet
  <2> QED BY <1>3, <2>1, QuietStep
<1>8. CASE inbox[c] # << >> /\ inbox'[c] = Tail(inbox[c])
  <2>1. Port(c)!Read
    BY <1>5, <1>8 DEF Port!Read, Port!Accepted
  <2>2. CASE UNCHANGED mClients
    <3>1. Port(c)!Ignore
      BY <1>4, <2>1, <2>2 DEF Port!Ignore
    <3>2. PortStep(c)
      BY <3>1 DEF PortStep, Port!Next, Port!Serve
    <3> QED BY <1>3, <1>4, <2>2, <3>2
  <2>3. ASSUME NEW e \in {"MatchFull", "MatchNotFound"},
               mClients[c].state = "TitleState",
               Head(inbox[c]).type = "JoinMatch",
               mClients'[c] = Enqueue(mClients[c], MatchJoinFailed(e))
        PROVE  PortStep(c) /\ StillRight(c)
    <3>1. MatchJoinFailed(e) \in Reply
      BY FailedIsReply DEF JoinError
    <3>2. /\ mClients'[c].outgoingQueue
                = Append(mClients[c].outgoingQueue, MatchJoinFailed(e))
          /\ mClients'[c].state = "TitleState"
          /\ mClients'[c].currentMatchCode = mClients[c].currentMatchCode
      BY <1>6, <2>3, <3>1, EnqueueProperties, EnqueueQueue
    <3>3. Answers(c)' = Append(Answers(c), MatchJoinFailed(e))
      BY <1>1, <1>2, <3>1, <3>2, QueuedIsNextAnswer
    <3>4. Standing(c) = "title" /\ Standing(c)' = "title"
      BY <1>2, <2>3, <3>2 DEF Standing
    <3>5. MatchJoinFailed(e) \in Port(c)!Refusals
      BY DEF Port!Refusals, Port!Failed, MatchJoinFailed
    <3>6. Port(c)!Refuse
      BY <2>1, <2>3, <3>3, <3>4, <3>5 DEF Port!Refuse
    <3>7. PortStep(c)
      BY <3>6 DEF PortStep, Port!Next, Port!Serve
    <3>8. mClients[c].currentMatchCode = NoCode
      BY <1>2, <2>3, TitleToldNothing
    <3>9. ToldRight(Append(Answers(c), MatchJoinFailed(e)), NoCode)
      BY <1>1, <1>2, <2>3, <3>1, AnswersType, TitleToldNothing, ToldOneMore
    <3> QED BY <3>2, <3>3, <3>7, <3>8, <3>9 DEF StillRight
  <2>4. ASSUME NEW k \in Codes,
               mClients[c].state = "TitleState",
               Head(inbox[c]).type \in {"CreateMatch", "JoinMatch"},
               Head(inbox[c]).type = "JoinMatch" => Head(inbox[c]).code = k,
               mClients'[c] = Entered(mClients[c], k)
        PROVE  PortStep(c) /\ StillRight(c)
    <3>1. MatchJoined(k) \in Reply
      BY DEF Reply
    <3>2. /\ mClients'[c].outgoingQueue
                = Append(mClients[c].outgoingQueue, MatchJoined(k))
          /\ mClients'[c].state = "UsernameState"
          /\ mClients'[c].currentMatchCode = k
      BY <1>6, <2>4, EnteredProperties, EnteredQueue
    <3>3. Answers(c)' = Append(Answers(c), MatchJoined(k))
      BY <1>1, <1>2, <3>1, <3>2, QueuedIsNextAnswer
    <3>4. Standing(c) = "title" /\ Standing(c)' = "playing"
      BY <1>2, <2>4, <3>2 DEF Standing
    <3>5. MatchJoined(k) = Port(c)!Joined(k)
      BY DEF Port!Joined, MatchJoined
    <3>6. Port(c)!Grant
      BY <2>1, <2>4, <3>3, <3>4, <3>5 DEF Port!Grant
    <3>7. PortStep(c)
      BY <3>6 DEF PortStep, Port!Next, Port!Serve
    <3>8. ToldRight(Append(Answers(c), MatchJoined(k)), k)
      BY <1>1, <1>2, <2>4, <3>1, AnswersType, TitleToldNothing, ToldOneMore
    <3> QED BY <3>2, <3>3, <3>7, <3>8 DEF StillRight
  <2>5. PortStep(c) /\ StillRight(c)
    BY <1>7, <1>8, <2>2, <2>3, <2>4, PacketEffect
  <2> QED BY <1>3, <2>5
<1> QED BY <1>7, <1>8, PacketEffect

-----------------------------------------------------------------------------
(* The rest of the tick, and the peers.                                    *)

\* A flush moves answers from the queue to the OS: the client's answers are
\* the same.
LEMMA FlushStep ==
  ASSUME PortInv, NEW c \in ID, FlushClient(c)
  PROVE  \A d \in ID : PortStep(d) /\ StillRight(d)
<1>1. TypeOK
  BY DEF PortInv, TablesInv
<1>2. /\ Connected' = Connected /\ c \in Connected
      /\ \A d \in Connected :
            /\ mClients'[d].state = mClients[d].state
            /\ mClients'[d].currentMatchCode = mClients[d].currentMatchCode
  BY <1>1, FlushTypeStep, FlushClientCases
<1>3. PICK n \in Nat : n <= Queued(c) /\ Flush(c, n)
  BY <1>1, FlushClientCases
<1> DEFINE s == replies[c]
           q == mClients[c].outgoingQueue
           sent == SubSeq(q, 1, n)
           rest == SubSeq(q, n + 1, Len(q))
<1>4. /\ s \in Seq(Reply) /\ q \in Seq(Reply) /\ Answers(c) = s \o q
      /\ mClients[c] \in Client
  BY <1>1, <1>2, AnswersType
<1>5. /\ mClients' = [mClients EXCEPT ![c].outgoingQueue = rest]
      /\ replies' = [replies EXCEPT ![c] = @ \o sent]
      /\ UNCHANGED <<mNextClientID, inbox>>
  BY <1>3 DEF Flush
<1>6. /\ mClients'[c].outgoingQueue = rest
      /\ \A d \in Connected \ {c} : mClients'[d] = mClients[d]
      /\ replies'[c] = s \o sent
      /\ \A d \in ID \ {c} : replies'[d] = replies[d]
  <2>1. mClients \in [Connected -> Client] /\ replies \in [ID -> Seq(Reply)]
    BY <1>1 DEF TypeOK
  <2> HIDE DEF sent, rest
  <2> QED BY <1>2, <1>4, <1>5, <2>1 DEF Client
<1>7. Len(q) \in Nat /\ n <= Len(q)
  BY <1>3, <1>4 DEF Queued
<1> HIDE DEF s, q
<1>8. sent \in Seq(Reply) /\ rest \in Seq(Reply)
  BY <1>4, <1>7
<1>9. sent \o rest = q
  <2>1. /\ 1 \in 1 .. Len(q) + 1 /\ n \in 1 - 1 .. Len(q)
        /\ Len(q) \in n .. Len(q)
    BY <1>7
  <2>2. sent \o rest = SubSeq(q, 1, Len(q))
    BY <1>4, <2>1, ConcatAdjacentSubSeq, Zenon DEF sent, rest
  <2>3. SubSeq(q, 1, Len(q)) = q
    BY <1>4, SubSeqFull
  <2> QED BY <2>2, <2>3
<1> HIDE DEF sent, rest
<1>10. (s \o sent) \o rest = s \o q
  <2>1. (s \o sent) \o rest = s \o (sent \o rest)
    BY <1>4, <1>8, ConcatAssociative
  <2> QED BY <2>1, <1>9
<1>11. Answers(c)' = Answers(c)
  <2>1. Answers(c)' = replies'[c] \o mClients'[c].outgoingQueue
    BY <1>2 DEF Answers
  <2> QED BY <1>4, <1>6, <1>10, <2>1
<1>12. ASSUME NEW d \in ID \ {c} PROVE Answers(d)' = Answers(d)
  BY <1>2, <1>6 DEF Answers
<1>13. ASSUME NEW d \in ID PROVE Quiet(d)
  <2>1. Answers(d)' = Answers(d)
    BY <1>11, <1>12
  <2>2. Standing(d)' = Standing(d)
    BY <1>2, <1>5 DEF Standing
  <2> QED BY <1>2, <1>5, <2>1, <2>2 DEF Quiet
<1> QED BY <1>13, QuietStep

\* A client that is removed is gone; what it had not been sent is lost.
LEMMA RemoveStep ==
  ASSUME PortInv, RemoveNext
  PROVE  \A d \in ID : PortStep(d) /\ StillRight(d)
<1>1. TypeOK /\ TablesInv
  BY DEF PortInv, TablesInv
<1>2. UNCHANGED <<mNextClientID, inbox, replies>>
  BY DEF RemoveNext
<1>3. CASE UNCHANGED mClients
  <2>1. \A d \in ID : Quiet(d)
    BY <1>2, <1>3 DEF Quiet, Standing, Answers, Connected
  <2> QED BY <2>1, QuietStep
<1>4. ASSUME NEW c \in ID, c \in Connected, mClients' = Erase(mClients, c)
      PROVE  \A d \in ID : PortStep(d) /\ StillRight(d)
  <2>1. /\ Connected' = Connected \ {c}
        /\ \A d \in Connected \ {c} : mClients'[d] = mClients[d]
    BY <1>4 DEF Erase, Restrict, Connected
  <2>2. ASSUME NEW d \in ID \ {c} PROVE PortStep(d) /\ StillRight(d)
    <3>1. Quiet(d)
      BY <1>2, <2>1 DEF Quiet, Standing, Answers
    <3> QED BY <3>1, QuietStep
  <2>3. c < mNextClientID
    BY <1>1, <1>4 DEF TypeOK
  <2>4. Standing(c) \in {"title", "playing"} /\ Standing(c)' = "gone"
    BY <1>2, <1>4, <2>1, <2>3 DEF Standing
  <2> DEFINE s == replies[c]
             q == mClients[c].outgoingQueue
  <2>5. /\ s \in Seq(Reply) /\ q \in Seq(Reply) /\ Answers(c) = s \o q
    BY <1>1, <1>4, <2>3, AnswersType
  <2>6. Answers(c)' = s
    BY <1>2, <2>1 DEF Answers
  <2> HIDE DEF s, q
  <2>7. Len(s) \in 0 .. Len(s \o q) /\ SubSeq(s \o q, 1, Len(s)) = s
    BY <2>5
  <2>8. Port(c)!Go
    BY <1>2, <2>4, <2>5, <2>6, <2>7 DEF Port!Go, Port!Accepted
  <2>9. PortStep(c) /\ StillRight(c)
    BY <2>1, <2>8 DEF PortStep, Port!Next, StillRight
  <2> QED BY <2>2, <2>9
<1>5. UNCHANGED mClients
      \/ \E c \in Connected : mClients' = Erase(mClients, c)
  BY <1>1, RemoveCases
<1>6. Connected \subseteq ID
  BY <1>1, ConnectedIsID
<1> QED BY <1>3, <1>4, <1>5, <1>6

\* A connection that is accepted has been told nothing.
LEMMA AcceptedStep ==
  ASSUME PortInv, HandleIncomingConnections
  PROVE  \A d \in ID : PortStep(d) /\ StillRight(d)
<1>1. TypeOK
  BY DEF PortInv, TablesInv
<1>2. UNCHANGED <<inbox, replies>>
  BY DEF HandleIncomingConnections
<1>3. CASE UNCHANGED <<mClients, mNextClientID>>
  <2>1. \A d \in ID : Quiet(d)
    BY <1>2, <1>3 DEF Quiet, Standing, Answers, Connected
  <2> QED BY <2>1, QuietStep
<1>4. ASSUME NEW c, c = mNextClientID,
             mClients' = Put(mClients, c, NewClient), mNextClientID' = c + 1
      PROVE  \A d \in ID : PortStep(d) /\ StillRight(d)
  <2>1. c \notin Connected /\ c \in Nat /\ Connected \subseteq 0 .. c - 1
    BY <1>1, <1>4 DEF TypeOK
  <2>2. /\ Connected' = Connected \cup {c} /\ mClients'[c] = NewClient
        /\ \A d \in Connected : mClients'[d] = mClients[d]
    BY <1>4, <2>1 DEF Put, Connected
  <2>3. ASSUME NEW d \in ID, d # c PROVE PortStep(d) /\ StillRight(d)
    <3>1. d < mNextClientID' <=> d < mNextClientID
      BY <1>4, <2>1, <2>3, ServerAssumption DEF ID
    <3>2. Quiet(d)
      BY <1>2, <2>2, <2>3, <3>1 DEF Quiet, Standing, Answers
    <3> QED BY <3>2, QuietStep
  <2>4. ASSUME c \in ID PROVE PortStep(c) /\ StillRight(c)
    <3>1. Standing(c) = "new" /\ Standing(c)' = "title"
      <4>1. ~(c < mNextClientID)
        BY <1>4, <2>1
      <4>2. Standing(c) = "new"
        BY <2>1, <4>1 DEF Standing
      <4>3. Standing(c)' = "title"
        BY <2>2 DEF Standing, NewClient
      <4> QED BY <4>2, <4>3
    <3>2. replies[c] = << >>
      BY <1>4, <2>1, <2>4 DEF PortInv, NoneToldEarly
    <3>3. Answers(c) = << >> /\ Answers(c)' = << >>
      BY <1>2, <2>1, <2>2, <3>2 DEF Answers, NewClient
    <3>4. Port(c)!Accept
      BY <1>2, <3>1, <3>3 DEF Port!Accept
    <3>5. ToldRight(<< >>, NoCode)
      BY DEF ToldRight
    <3>6. StillRight(c)
      BY <2>2, <3>3, <3>5 DEF StillRight, NewClient
    <3> QED BY <3>4, <3>6 DEF PortStep, Port!Next
  <2> QED BY <2>3, <2>4
<1> QED BY <1>3, <1>4 DEF HandleIncomingConnections

\* What the loop and the peers do: a request arrives, or a connection ends.
LEMMA OtherStepSeen ==
  ASSUME PortInv, OtherStep
  PROVE  \A d \in ID : PortStep(d) /\ StillRight(d)
<1>1. TypeOK
  BY DEF PortInv, TablesInv
<1>2. UNCHANGED <<mClients, mNextClientID>>
  BY <1>1, OtherTypeStep DEF server
<1>3. UNCHANGED replies
  BY DEF OtherStep, SelectorWait, EndReceive, EndFlush, EndTick, PeerSend, PeerClose
<1>4. ASSUME NEW d \in ID
      PROVE  /\ UNCHANGED <<Standing(d), Answers(d)>>
             /\ inbox'[d] = inbox[d] => Quiet(d)
             /\ StillRight(d)
  <2>1. UNCHANGED <<Standing(d), Answers(d)>> /\ Connected' = Connected
    BY <1>2, <1>3 DEF Standing, Answers, Connected
  <2>2. inbox'[d] = inbox[d] => Quiet(d)
    BY <1>2, <2>1 DEF Quiet
  <2>3. StillRight(d)
    BY <1>2, <2>1, TellsByClient DEF PortInv, StillRight
  <2> QED BY <2>1, <2>2, <2>3
<1>5. CASE UNCHANGED inbox
  BY <1>4, <1>5, QuietStep
<1>6. ASSUME NEW c \in ID, c \in Connected,
             \A d \in ID \ {c} : inbox'[d] = inbox[d],
             \/ \E m \in Request : inbox'[c] = Append(inbox[c], m)
             \/ inbox'[c] = << >>
      PROVE  \A d \in ID : PortStep(d) /\ StillRight(d)
  <2>1. Standing(c) \in {"title", "playing"}
    BY <1>6 DEF Standing
  <2>2. Port(c)!Arrive \/ Port(c)!Lose
    BY <1>4, <1>6, <2>1 DEF Port!Arrive, Port!Lose, Port!Accepted
  <2>3. PortStep(c) /\ StillRight(c)
    BY <1>4, <2>2 DEF PortStep, Port!Next
  <2> QED BY <1>4, <1>6, <2>3, QuietStep
<1>7. ASSUME NEW c \in ID, PeerSend(c)
      PROVE  \A d \in ID : PortStep(d) /\ StillRight(d)
  <2>1. PICK m \in Request : inbox' = [inbox EXCEPT ![c] = Append(@, m)]
    BY <1>7 DEF PeerSend
  <2>2. /\ inbox'[c] = Append(inbox[c], m)
        /\ \A d \in ID \ {c} : inbox'[d] = inbox[d]
    BY <1>1, <2>1 DEF TypeOK
  <2> QED BY <1>6, <1>7, <2>2 DEF PeerSend
<1>8. ASSUME NEW c \in ID, PeerClose(c)
      PROVE  \A d \in ID : PortStep(d) /\ StillRight(d)
  <2>1. CASE UNCHANGED inbox
    BY <1>5, <2>1
  <2>2. CASE inbox' = [inbox EXCEPT ![c] = << >>]
    <3>1. inbox'[c] = << >> /\ \A d \in ID \ {c} : inbox'[d] = inbox[d]
      BY <1>1, <2>2 DEF TypeOK
    <3> QED BY <1>6, <1>8, <3>1 DEF PeerClose
  <2> QED BY <1>8, <2>1, <2>2 DEF PeerClose
<1>9. CASE SelectorWait \/ EndReceive \/ EndFlush \/ EndTick
  <2>1. UNCHANGED inbox
    BY <1>9 DEF SelectorWait, EndReceive, EndFlush, EndTick
  <2> QED BY <1>5, <2>1
<1> QED BY <1>7, <1>8, <1>9 DEF OtherStep

-----------------------------------------------------------------------------
(* Every step, every client.                                               *)

\* Whatever the server or a peer does, every client sees a step of its port.
LEMMA EveryStepSeen ==
  ASSUME PortInv, [Next]_vars
  PROVE  \A d \in ID : PortStep(d) /\ StillRight(d)
<1>1. CASE UNCHANGED vars
  <2>1. \A d \in ID : Quiet(d)
    BY <1>1 DEF vars, server, Quiet, Standing, Answers, Connected
  <2> QED BY <2>1, QuietStep
<1>2. CASE Next
  BY <1>2, NextCases, PacketStep, FlushStep, RemoveStep, AcceptedStep, OtherStepSeen
<1> QED BY <1>1, <1>2

\* Nothing has been answered before the first step.
LEMMA PortInvInit == Init => PortInv
<1> SUFFICES ASSUME Init PROVE PortInv
  OBVIOUS
<1>1. Connected = {}
  BY DEF Init, Connected, EmptyMap
<1>2. AnswersTellMembership
  BY <1>1 DEF AnswersTellMembership
<1>3. NoneToldEarly
  BY DEF Init, NoneToldEarly
<1> QED BY <1>2, <1>3, TablesInit DEF PortInv

\* Every step keeps the answers right, and tells nobody too early.
LEMMA PortInvStep == PortInv /\ [Next]_vars => PortInv'
<1> SUFFICES ASSUME PortInv, [Next]_vars PROVE PortInv'
  OBVIOUS
<1>1. TablesInv' /\ TypeOK /\ TypeOK'
  BY TablesStep, TypeStep DEF PortInv, TablesInv
<1>2. AnswersTellMembership'
  <2>1. Connected' \subseteq ID
    BY <1>1, ServerAssumption DEF TypeOK, ID
  <2> QED BY <2>1, EveryStepSeen, TellsByClientNext
<1>3. ASSUME NEW c \in ID, ~(c < mNextClientID')
      PROVE  replies'[c] = << >>
  <2>1. mNextClientID' = mNextClientID \/ mNextClientID' = mNextClientID + 1
    <3>1. CASE Next
      BY <3>1 DEF Next, Server, Peer, SelectorWait, HandleIncomingConnections,
         Receive, DropRateLimited, DropOversized, DropMalformed, CreateMatch,
         RefuseJoin, JoinMatch, IgnoreInUsernameState, TitlePacket, ProcessPacket,
         ReceivePacket, PeerGone, Drained, FlushClient, FlushAll, FlushBlocked,
         FlushFailed, Flush, EndReceive, EndFlush, RemoveNext, EndTick, PeerSend,
         PeerClose, server
    <3>2. CASE UNCHANGED vars
      BY <3>2 DEF vars, server
    <3> QED BY <3>1, <3>2
  <2>2. c \in Nat /\ mNextClientID \in Nat
    BY <1>1, ServerAssumption DEF TypeOK, ID
  <2>3. ~(c < mNextClientID)
    BY <1>3, <2>1, <2>2
  <2>4. replies[c] = << >> /\ c \notin Connected
    BY <1>1, <2>2, <2>3 DEF PortInv, NoneToldEarly, TypeOK
  <2>5. c \notin Connected'
    BY <1>1, <1>3, <2>2 DEF TypeOK
  <2>6. Standing(c) = "new" /\ Standing(c)' = "new"
    BY <1>3, <2>3, <2>4, <2>5 DEF Standing
  <2>7. PortStep(c)
    BY EveryStepSeen
  <2>8. Answers(c)' = Answers(c)
    BY <2>6, <2>7 DEF PortStep, Port!Next, Port!vars, Port!Accept, Port!Arrive,
       Port!Lose, Port!Serve, Port!Ignore, Port!Grant, Port!Refuse, Port!Read,
       Port!Go, Port!Accepted
  <2> QED BY <2>4, <2>5, <2>8 DEF Answers
<1>4. NoneToldEarly'
  BY <1>3 DEF NoneToldEarly
<1> QED BY <1>1, <1>2, <1>4 DEF PortInv

\* In every reachable state a client has been told of the match it is in, last
\* of all and under the code it is recorded under, and of no other
\* (handleTitleStatePackets, flushOutgoingQueues, removeClient).
THEOREM AnswersAreTrue == Spec => []AnswersTellMembership
<1>1. PortInv => AnswersTellMembership
  BY DEF PortInv
<1> QED BY PortInvInit, PortInvStep, <1>1, PTL DEF Spec

\* Before a client connects, its port is new and silent.
LEMMA PortInit ==
  ASSUME Init
  PROVE  \A c \in ID : Port(c)!Init
<1> SUFFICES ASSUME NEW c \in ID PROVE Port(c)!Init
  OBVIOUS
<1>1. Connected = {} /\ ~(c < mNextClientID)
  BY ServerAssumption DEF Init, Connected, EmptyMap, ID
<1>2. Standing(c) = "new" /\ Answers(c) = << >> /\ inbox[c] = << >>
  BY <1>1 DEF Init, Standing, Answers
<1> QED BY <1>2 DEF Port!Init

\* Seen by any one of its clients, whatever the others do, the server is a
\* ServerPort: the promise the client's side is checked and proved against.
THEOREM ImplementsPorts == Spec => PortSpec
<1>1. Init => \A c \in ID : Port(c)!Init
  BY PortInit
<1>2. PortInv /\ [Next]_vars =>
         [\A c \in ID : Port(c)!Next \/ UNCHANGED Port(c)!vars]_vars
  BY EveryStepSeen DEF PortStep
<1> QED BY PortInvInit, PortInvStep, <1>1, <1>2, PTL DEF Spec, PortSpec

=============================================================================
