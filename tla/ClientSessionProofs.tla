------------------------- MODULE ClientSessionProofs -------------------------
(***************************************************************************)
(* Proofs about the client's session: however the GUI thread, the thread   *)
(* in connect(), the link and the server interleave, there is one screen,  *)
(* one user of the socket, packets in the order they were sent in, and     *)
(* screen and server agree on the match.                                   *)
(***************************************************************************)
EXTENDS ClientSession, SequenceTheorems, TLAPS

(***************************************************************************)
(* The inductive invariant.                                                *)

Answer == {Port!Joined(k) : k \in Codes} \cup Port!Refusals

\* The network's variables are well-typed and its counters in order.
NetworkTyped ==
    /\ mIsConnected \in BOOLEAN
    /\ mOutgoingQueue \in Seq(Request)
    /\ begun \in BOOLEAN /\ (begun => mOutgoingQueue # << >>)
    /\ connector \in {"none", "resolve", "connect", "handshake", "connected",
                      "failed"}
    /\ attempts \in 0 .. MaxAttempts
    /\ linkUp \in BOOLEAN /\ inStep \in BOOLEAN
    /\ wire \in Seq(Request) /\ requests \in Seq(Request)
    /\ standing \in {"new", "title", "playing", "gone"}
    /\ answers \in Seq(Answer)
    /\ arrived \in 0 .. Len(answers)
    /\ taken \in 0 .. arrived
    /\ asked \in Seq(Request)

\* A MatchJoined is the last answer, and a client that is playing has it.
GrantComesLast ==
    /\ \A i \in 1 .. Len(answers) :
          answers[i].type = "MatchJoined" =>
             i = Len(answers) /\ standing \in {"playing", "gone"}
    /\ standing = "playing" =>
          Len(answers) > 0 /\ answers[Len(answers)].type = "MatchJoined"

\* connect() leaves a connection nothing of which has been read, or none.
ConnectedAfresh ==
    /\ connector \in {"handshake", "connected"} => taken = 0
    /\ connector = "failed" => ~mIsConnected

\* NothingOvertakes, from the moment the link is there.
SentInOrder ==
    linkUp /\ inStep => IsSuffix(requests \o wire \o mOutgoingQueue, asked)

\* The screens; before the first one there is no connection.
ScreensInv ==
    /\ mStack # << >> => \E s \in Screen : mStack = <<s>>
    /\ OneScreen
    /\ mStack = << >> => ~mIsConnected /\ ~linkUp /\ connector = "none"
    /\ mPendingList # << >> /\ mStack # << >> => Top = "Title" /\ ~mIsConnecting
    /\ mIsConnecting \in BOOLEAN
    /\ matchCode \in Codes \cup {NoCode}
    /\ app \in {"open", "closed", "gone"}
    /\ left \in BOOLEAN

\* What the screens tell of the match, also while they change: the screen to
\* come counts, and at the title screen no match has been heard of.
MatchTold ==
    /\ PastTitle \/ (mStack # << >> /\ mPendingList # << >>) =>
          /\ taken = Len(answers)
          /\ taken > 0
          /\ answers[taken] = Port!Joined(matchCode)
    /\ Shows("Title") /\ mIsConnected /\ ~mIsConnecting /\ ~left =>
          \A i \in 1 .. taken : answers[i].type # "MatchJoined"

Inv ==
    /\ NetworkTyped
    /\ GrantComesLast
    /\ ConnectedAfresh
    /\ SentInOrder
    /\ ScreensInv
    /\ OneUserOfTheSocket
    /\ MatchTold

-----------------------------------------------------------------------------
(* Sequences: what a suffix is, and what keeps it one.                     *)

\* A suffix agrees with the end of its sequence, place by place.
LEMMA SuffixByPlace ==
  ASSUME NEW S, NEW s \in Seq(S), NEW t \in Seq(S)
  PROVE  IsSuffix(s, t) <=>
            /\ Len(s) <= Len(t)
            /\ \A i \in 1 .. Len(s) : s[i] = t[Len(t) - Len(s) + i]
<1> DEFINE rs == Reverse(s)
           rt == Reverse(t)
<1>1. /\ rs \in Seq(S) /\ Len(rs) = Len(s)
      /\ \A i \in 1 .. Len(s) : rs[i] = s[Len(s) - i + 1]
  BY DEF Reverse
<1>2. /\ rt \in Seq(S) /\ Len(rt) = Len(t)
      /\ \A i \in 1 .. Len(t) : rt[i] = t[Len(t) - i + 1]
  BY DEF Reverse
<1> HIDE DEF rs, rt
<1>3. IsSuffix(s, t) <=>
         Len(s) <= Len(t) /\ SubSeq(rs, 1, Len(rs)) = SubSeq(rt, 1, Len(rs))
  BY <1>1, <1>2 DEF IsSuffix, IsPrefix, rs, rt
<1>4. Len(s) \in Nat /\ Len(t) \in Nat
  OBVIOUS
<1>5. ASSUME Len(s) <= Len(t)
      PROVE  SubSeq(rs, 1, Len(rs)) = SubSeq(rt, 1, Len(rs)) <=>
                \A i \in 1 .. Len(s) : rs[i] = rt[i]
  <2>1. /\ SubSeq(rs, 1, Len(rs)) = [i \in 1 .. Len(s) |-> rs[i]]
        /\ SubSeq(rt, 1, Len(rs)) = [i \in 1 .. Len(s) |-> rt[i]]
    BY <1>1, <1>2, <1>4, <1>5
  <2> QED BY <2>1
<1>6. ASSUME Len(s) <= Len(t)
      PROVE  (\A i \in 1 .. Len(s) : rs[i] = rt[i]) <=>
                \A i \in 1 .. Len(s) : s[i] = t[Len(t) - Len(s) + i]
  <2>1. ASSUME \A i \in 1 .. Len(s) : rs[i] = rt[i], NEW i \in 1 .. Len(s)
        PROVE  s[i] = t[Len(t) - Len(s) + i]
    <3> DEFINE j == Len(s) - i + 1
    <3>1. /\ j \in 1 .. Len(s) /\ j \in 1 .. Len(t)
          /\ Len(s) - j + 1 = i /\ Len(t) - j + 1 = Len(t) - Len(s) + i
      BY <1>4, <1>6
    <3> HIDE DEF j
    <3> QED BY <3>1, <2>1, <1>1, <1>2
  <2>2. ASSUME \A i \in 1 .. Len(s) : s[i] = t[Len(t) - Len(s) + i],
               NEW i \in 1 .. Len(s)
        PROVE  rs[i] = rt[i]
    <3> DEFINE j == Len(s) - i + 1
    <3>1. /\ j \in 1 .. Len(s) /\ i \in 1 .. Len(t)
          /\ Len(t) - i + 1 = Len(t) - Len(s) + j
      BY <1>4, <1>6
    <3>2. rs[i] = s[j] /\ rt[i] = t[Len(t) - Len(s) + j]
      BY <3>1, <1>1, <1>2
    <3> HIDE DEF j
    <3> QED BY <3>1, <3>2, <2>2
  <2> QED BY <2>1, <2>2
<1> QED BY <1>3, <1>5, <1>6

\* A sequence is a suffix of itself.
LEMMA SuffixOfItself ==
  ASSUME NEW S, NEW s \in Seq(S)
  PROVE  IsSuffix(s, s)
<1>1. \A i \in 1 .. Len(s) : Len(s) - Len(s) + i = i
  OBVIOUS
<1> QED BY <1>1, SuffixByPlace

\* What is left of a suffix without its first element is one.
LEMMA SuffixTail ==
  ASSUME NEW S, NEW s \in Seq(S), NEW t \in Seq(S), s # << >>, IsSuffix(s, t)
  PROVE  IsSuffix(Tail(s), t)
<1>1. /\ Tail(s) \in Seq(S) /\ Len(Tail(s)) = Len(s) - 1 /\ Len(s) > 0
      /\ \A i \in 1 .. Len(Tail(s)) : Tail(s)[i] = s[i + 1]
  OBVIOUS
<1>2. /\ Len(s) <= Len(t)
      /\ \A i \in 1 .. Len(s) : s[i] = t[Len(t) - Len(s) + i]
  BY SuffixByPlace
<1>3. ASSUME NEW i \in 1 .. Len(Tail(s))
      PROVE  Tail(s)[i] = t[Len(t) - Len(Tail(s)) + i]
  <2>1. i + 1 \in 1 .. Len(s)
        /\ Len(t) - Len(s) + (i + 1) = Len(t) - Len(Tail(s)) + i
    BY <1>1
  <2> QED BY <2>1, <1>1, <1>2
<1>4. Len(Tail(s)) <= Len(t)
  BY <1>1, <1>2
<1> QED BY <1>1, <1>3, <1>4, SuffixByPlace

\* What is appended to both keeps a suffix one.
LEMMA SuffixAppend ==
  ASSUME NEW S, NEW s \in Seq(S), NEW t \in Seq(S), NEW e \in S, IsSuffix(s, t)
  PROVE  IsSuffix(Append(s, e), Append(t, e))
<1> DEFINE se == Append(s, e)
           te == Append(t, e)
<1>1. /\ se \in Seq(S) /\ Len(se) = Len(s) + 1 /\ se[Len(s) + 1] = e
      /\ \A i \in 1 .. Len(s) : se[i] = s[i]
  OBVIOUS
<1>2. /\ te \in Seq(S) /\ Len(te) = Len(t) + 1 /\ te[Len(t) + 1] = e
      /\ \A i \in 1 .. Len(t) : te[i] = t[i]
  OBVIOUS
<1>3. /\ Len(s) <= Len(t) /\ Len(s) \in Nat /\ Len(t) \in Nat
      /\ \A i \in 1 .. Len(s) : s[i] = t[Len(t) - Len(s) + i]
  BY SuffixByPlace
<1> HIDE DEF se, te
<1>4. ASSUME NEW i \in 1 .. Len(se)
      PROVE  se[i] = te[Len(te) - Len(se) + i]
  <2>1. Len(te) - Len(se) + i = Len(t) - Len(s) + i
    BY <1>1, <1>2, <1>3
  <2>2. CASE i = Len(s) + 1
    <3>1. Len(t) - Len(s) + i = Len(t) + 1
      BY <2>2, <1>3
    <3> QED BY <2>1, <2>2, <3>1, <1>1, <1>2
  <2>3. CASE i # Len(s) + 1
    <3>1. i \in 1 .. Len(s) /\ Len(t) - Len(s) + i \in 1 .. Len(t)
      BY <2>3, <1>1, <1>3
    <3> QED BY <2>1, <3>1, <1>1, <1>2, <1>3
  <2> QED BY <2>2, <2>3
<1>5. Len(se) <= Len(te)
  BY <1>1, <1>2, <1>3
<1>6. IsSuffix(se, te)
  BY <1>1, <1>2, <1>4, <1>5, SuffixByPlace
<1> QED BY <1>6 DEF se, te

-----------------------------------------------------------------------------
(* The state stack.                                                        *)

\* Up to two changes are made one after the other.
LEMMA AppliedInTurn ==
  ASSUME NEW changes, Len(changes) \in 0 .. 2, Apply(changes)
  PROVE  /\ mPendingList' = << >>
         /\ Len(changes) = 0 => mStack' = mStack
         /\ Len(changes) = 1 => mStack' = Changed(mStack, changes[1])
         /\ Len(changes) = 2 =>
               mStack' = Changed(Changed(mStack, changes[1]), changes[2])
<1> DEFINE Step(after, n) ==
              IF n = 0 THEN mStack ELSE Changed(after[n - 1], changes[n])
           after == CHOOSE f : f = [n \in 0 .. Len(changes) |-> Step(f, n)]
           g == [n \in 0 .. Len(changes) |->
                   IF n = 0 THEN mStack
                   ELSE IF n = 1 THEN Changed(mStack, changes[1])
                   ELSE Changed(Changed(mStack, changes[1]), changes[2])]
<1>1. mStack' = after[Len(changes)] /\ mPendingList' = << >>
  BY DEF Apply
<1>2. ASSUME NEW n \in 0 .. Len(changes)
      PROVE  g[n] = Step(g, n)
  <2>1. n = 0 \/ n = 1 \/ n = 2
    OBVIOUS
  <2>2. n = 2 => n # 1 /\ n - 1 = 1 /\ n - 1 \in 0 .. Len(changes)
    OBVIOUS
  <2>3. n = 1 => n - 1 = 0 /\ n - 1 \in 0 .. Len(changes)
    OBVIOUS
  <2> QED BY <2>1, <2>2, <2>3
<1>3. g = [n \in 0 .. Len(changes) |-> Step(g, n)]
  BY <1>2
<1>4. \E f : f = [n \in 0 .. Len(changes) |-> Step(f, n)]
  BY <1>3, Zenon
<1>5. after = [n \in 0 .. Len(changes) |-> Step(after, n)]
  BY <1>4, Zenon
<1> HIDE DEF after
<1>6. \A n \in 0 .. Len(changes) : after[n] = Step(after, n)
  BY <1>5
<1>7. after[0] = mStack
  BY <1>6
<1>8. Len(changes) >= 1 => after[1] = Changed(mStack, changes[1])
  BY <1>6, <1>7
<1>9. Len(changes) = 2 => after[2] = Changed(after[1], changes[2])
  BY <1>6
<1> HIDE DEF Step, g
<1>10. Len(changes) = 0 => mStack' = mStack
  BY <1>1, <1>7
<1>11. Len(changes) = 1 => mStack' = Changed(mStack, changes[1])
  BY <1>1, <1>8
<1>12. Len(changes) = 2 => mStack' = Changed(Changed(mStack, changes[1]), changes[2])
  BY <1>1, <1>8, <1>9
<1> QED BY <1>1, <1>10, <1>11, <1>12

\* A handler that replaces the only screen.
LEMMA SwitchReplaces ==
  ASSUME NEW s \in Screen, NEW t \in Screen, mStack = <<t>>,
         Apply(<<Pop, Push(s)>>)
  PROVE  mStack' = <<s>> /\ mPendingList' = << >>
<1> DEFINE changes == <<Pop, Push(s)>>
<1>1. Len(changes) = 2 /\ changes[1] = Pop /\ changes[2] = Push(s)
  OBVIOUS
<1>2. mPendingList' = << >>
      /\ mStack' = Changed(Changed(mStack, changes[1]), changes[2])
  BY <1>1, AppliedInTurn
<1>3. Changed(mStack, Pop) = << >>
  BY DEF Changed, Pop, Front
<1>4. Changed(<< >>, Push(s)) = <<s>>
  BY DEF Changed, Push
<1> QED BY <1>1, <1>2, <1>3, <1>4

\* The first screen is pushed onto the empty stack.
LEMMA FirstIsPushed ==
  ASSUME mStack = << >>, Apply(<<Push("Title")>>)
  PROVE  mStack' = <<"Title">> /\ mPendingList' = << >>
<1> DEFINE changes == <<Push("Title")>>
<1>1. Len(changes) = 1 /\ changes[1] = Push("Title")
  OBVIOUS
<1>2. mPendingList' = << >> /\ mStack' = Changed(mStack, changes[1])
  BY <1>1, AppliedInTurn
<1>3. Changed(<< >>, Push("Title")) = <<"Title">>
  BY DEF Changed, Push
<1> QED BY <1>1, <1>2, <1>3

\* An update in which nothing was asked of the stack leaves it alone.
LEMMA NothingApplied ==
  ASSUME Apply(<< >>)
  PROVE  mStack' = mStack /\ mPendingList' = << >>
<1>1. Len(<< >>) = 0
  OBVIOUS
<1> QED BY <1>1, AppliedInTurn

-----------------------------------------------------------------------------
(* What the definitions say of a single screen.                            *)

\* With one screen on the stack, that is the screen shown.
LEMMA SingleScreen ==
  ASSUME NEW s \in Screen, mStack = <<s>>
  PROVE  /\ mStack # << >> /\ Len(mStack) = 1
         /\ Top = s
         /\ PastTitle <=> s # "Title"
         /\ \A t \in Screen : Shows(t) <=> t = s /\ mPendingList = << >>
BY DEF Top, Last, PastTitle, Shows

\* The same of the screen shown next.
LEMMA SingleScreenNext ==
  ASSUME NEW s \in Screen, mStack' = <<s>>
  PROVE  /\ mStack' # << >> /\ Len(mStack') = 1
         /\ Top' = s
         /\ PastTitle' <=> s # "Title"
         /\ \A t \in Screen : Shows(t)' <=> t = s /\ mPendingList' = << >>
BY DEF Top, Last, PastTitle, Shows

\* A step that leaves the stack alone leaves the screen as it is.
LEMMA SameScreen ==
  ASSUME UNCHANGED <<mStack, mPendingList>>
  PROVE  /\ Top' = Top
         /\ PastTitle' <=> PastTitle
         /\ \A t \in Screen : Shows(t)' <=> Shows(t)
BY DEF Top, Last, PastTitle, Shows

\* Unless the application is gone, or has not shown anything yet, there is
\* exactly one screen.
LEMMA SomeScreen ==
  ASSUME ScreensInv, mStack # << >>
  PROVE  \E s \in Screen : mStack = <<s>>
BY DEF ScreensInv

\* A connection attempt goes on behind the title screen.
LEMMA BehindTitle ==
  ASSUME Inv, connector # "none"
  PROVE  /\ mIsConnecting
         /\ mStack = <<"Title">> /\ mPendingList = << >>
         /\ Shows("Title") /\ ~PastTitle
<1>1. mIsConnecting /\ Shows("Title")
  BY DEF Inv, OneUserOfTheSocket
<1>2. mStack # << >> /\ Top = "Title" /\ mPendingList = << >>
  BY <1>1 DEF Shows
<1>3. PICK s \in Screen : mStack = <<s>>
  BY <1>2, SomeScreen DEF Inv
<1>4. s = "Title"
  BY <1>2, <1>3, SingleScreen
<1> QED BY <1>1, <1>2, <1>3, <1>4, SingleScreen

-----------------------------------------------------------------------------
(* The thread in connect().                                                *)

\* Every stage of connect() keeps the invariant.
LEMMA ConnectorStep ==
  ASSUME Inv, Connector, UNCHANGED gui
  PROVE  Inv'
<1> USE DEF Inv
<1>1. UNCHANGED <<mStack, mPendingList, mIsConnecting, matchCode, app, left>>
  BY DEF gui, screens
<1>2. connector \in {"resolve", "connect", "handshake"} /\ ~mIsConnected
  BY DEF Connector, Resolve, TcpConnect, TcpFails, HandshakeComplete,
         HandshakeFails, OneUserOfTheSocket, Connecting
<1>3. /\ mIsConnecting /\ mStack = <<"Title">> /\ mPendingList = << >>
      /\ Shows("Title") /\ ~PastTitle
  BY <1>2, BehindTitle
<1>4. /\ Shows("Title")' /\ ~PastTitle' /\ Top' = Top /\ mIsConnecting'
  BY <1>1, <1>3, SameScreen DEF Screen
<1>5. ScreensInv'
  BY <1>1, <1>3, <1>4 DEF ScreensInv, OneScreen
<1>6. MatchTold'
  BY <1>1, <1>3, <1>4 DEF MatchTold
<1>7. CASE ConnectFails
  <2> USE <1>7 DEF ConnectFails
  <2>1. NetworkTyped'
    BY DEF NetworkTyped, outgoing, port
  <2>2. GrantComesLast' /\ ConnectedAfresh' /\ SentInOrder'
    BY DEF GrantComesLast, ConnectedAfresh, SentInOrder, port
  <2>3. OneUserOfTheSocket'
    BY <1>1, <1>3, <1>4 DEF OneUserOfTheSocket, Connecting, ScreensInv, OneScreen
  <2> QED BY <2>1, <2>2, <2>3, <1>5, <1>6
<1>8. CASE Resolve /\ connector' = "connect" /\ ~ConnectFails
  <2>1. UNCHANGED <<mIsConnected, outgoing, attempts, link>>
    BY <1>8 DEF Resolve
  <2> USE <1>8, <2>1 DEF outgoing, link, port
  <2>2. NetworkTyped'
    BY DEF NetworkTyped
  <2>3. GrantComesLast' /\ ConnectedAfresh' /\ SentInOrder'
    BY DEF GrantComesLast, ConnectedAfresh, SentInOrder
  <2>4. OneUserOfTheSocket'
    BY <1>1, <1>2, <1>3, <1>4
       DEF OneUserOfTheSocket, Connecting, ScreensInv, OneScreen, Resolve
  <2> QED BY <2>2, <2>3, <2>4, <1>5, <1>6
<1>9. CASE TcpConnect
  <2> USE <1>9 DEF TcpConnect
  <2>1. NetworkTyped'
    BY DEF NetworkTyped, outgoing
  <2>2. GrantComesLast' /\ ConnectedAfresh'
    BY DEF GrantComesLast, ConnectedAfresh
  <2>3. SentInOrder'
    <3>1. requests' \o wire' \o mOutgoingQueue' = mOutgoingQueue
          /\ asked' = mOutgoingQueue
      BY DEF outgoing, NetworkTyped
    <3>2. IsSuffix(mOutgoingQueue, mOutgoingQueue)
      BY SuffixOfItself DEF NetworkTyped
    <3> QED BY <3>1, <3>2 DEF SentInOrder
  <2>4. OneUserOfTheSocket'
    BY <1>1, <1>2, <1>3, <1>4
       DEF OneUserOfTheSocket, Connecting, ScreensInv, OneScreen
  <2> QED BY <2>1, <2>2, <2>3, <2>4, <1>5, <1>6
<1>10. CASE HandshakeComplete
  <2> USE <1>10 DEF HandshakeComplete, outgoing, link, port
  <2>1. NetworkTyped'
    BY DEF NetworkTyped
  <2>2. GrantComesLast' /\ ConnectedAfresh' /\ SentInOrder'
    BY DEF GrantComesLast, ConnectedAfresh, SentInOrder
  <2>3. OneUserOfTheSocket'
    BY <1>1, <1>3, <1>4 DEF OneUserOfTheSocket, Connecting, ScreensInv, OneScreen
  <2> QED BY <2>1, <2>2, <2>3, <1>5, <1>6
<1> QED BY <1>7, <1>8, <1>9, <1>10
       DEF Connector, Resolve, TcpFails, HandshakeFails

-----------------------------------------------------------------------------
(* The link and the server.                                                *)

\* What the server says and loses leaves the screens and the users of the
\* socket alone.
LEMMA LinkKeepsScreens ==
  ASSUME Inv, UNCHANGED gui, UNCHANGED <<mIsConnected, connector>>,
         linkUp, linkUp' \in BOOLEAN
  PROVE  /\ ScreensInv' /\ OneUserOfTheSocket'
         /\ PastTitle' <=> PastTitle
         /\ Shows("Title")' <=> Shows("Title")
         /\ UNCHANGED <<mStack, mPendingList, mIsConnecting, matchCode, left>>
<1> USE DEF Inv
<1>1. UNCHANGED <<mStack, mPendingList, mIsConnecting, matchCode, app, left>>
  BY DEF gui, screens
<1>2. /\ Top' = Top /\ (PastTitle' <=> PastTitle)
      /\ Shows("Title")' <=> Shows("Title")
  BY <1>1, SameScreen DEF Screen
<1>3. ScreensInv'
  BY <1>1, <1>2 DEF ScreensInv, OneScreen
<1>4. OneUserOfTheSocket'
  BY <1>1, <1>2 DEF OneUserOfTheSocket, Connecting
<1> QED BY <1>1, <1>2, <1>3, <1>4

\* Before it grants a match the server has the client at its title screen, and
\* the client's screens tell of none.
LEMMA TitleBeforeGrant ==
  ASSUME Inv, standing \in {"new", "title"}
  PROVE  /\ ~PastTitle
         /\ mStack # << >> => mPendingList = << >>
         /\ \A i \in 1 .. Len(answers) : answers[i].type # "MatchJoined"
<1>1. \A i \in 1 .. Len(answers) : answers[i].type # "MatchJoined"
  BY DEF Inv, GrantComesLast
<1>2. ASSUME taken = Len(answers), taken > 0,
             answers[taken] = Port!Joined(matchCode)
      PROVE  FALSE
  <2>1. taken \in 1 .. Len(answers)
    BY <1>2 DEF Inv, NetworkTyped
  <2>2. answers[taken].type = "MatchJoined"
    BY <1>2 DEF Port!Joined
  <2> QED BY <1>1, <2>1, <2>2
<1> QED BY <1>1, <1>2 DEF Inv, MatchTold

\* The server accepts the client, or reads a packet and answers it or not.
LEMMA ServerStep ==
  ASSUME Inv, ServerActs, UNCHANGED gui
  PROVE  Inv'
<1> USE DEF Inv
<1>1. /\ UNCHANGED <<mIsConnected, mOutgoingQueue, begun, connector, attempts,
                     linkUp, wire, inStep, arrived, taken, asked>>
      /\ linkUp
  BY DEF ServerActs, outgoing
<1>2. /\ ScreensInv' /\ OneUserOfTheSocket'
      /\ PastTitle' <=> PastTitle
      /\ Shows("Title")' <=> Shows("Title")
      /\ UNCHANGED <<mStack, mPendingList, mIsConnecting, matchCode, left>>
  BY <1>1, LinkKeepsScreens DEF NetworkTyped
<1>3. ConnectedAfresh'
  BY <1>1 DEF ConnectedAfresh
<1>4. ASSUME Port!Read
      PROVE  requests' \in Seq(Request) /\ SentInOrder'
  <2>1. /\ requests # << >> /\ requests' = Tail(requests)
        /\ requests' \in Seq(Request)
    BY <1>4 DEF Port!Read, NetworkTyped
  <2> DEFINE s == requests \o wire \o mOutgoingQueue
  <2>2. s \in Seq(Request) /\ s # << >>
    BY <2>1 DEF NetworkTyped
  <2>3. Tail(s) = requests' \o wire \o mOutgoingQueue
    <3>1. /\ requests \in Seq(Request)
          /\ wire \o mOutgoingQueue \in Seq(Request)
          /\ wire \in Seq(Request) /\ mOutgoingQueue \in Seq(Request)
      BY DEF NetworkTyped
    <3>2. Tail(requests \o (wire \o mOutgoingQueue))
             = Tail(requests) \o (wire \o mOutgoingQueue)
      BY <3>1, <2>1
    <3>3. (requests \o wire) \o mOutgoingQueue
             = requests \o (wire \o mOutgoingQueue)
      BY <3>1, ConcatAssociative
    <3>4. (requests' \o wire) \o mOutgoingQueue
             = requests' \o (wire \o mOutgoingQueue)
      BY <3>1, <2>1, ConcatAssociative
    <3> QED BY <3>2, <3>3, <3>4, <2>1
  <2> HIDE DEF s
  <2>4. linkUp /\ inStep => IsSuffix(s, asked)
    BY DEF SentInOrder, s
  <2>5. asked \in Seq(Request)
    BY DEF NetworkTyped
  <2>6. linkUp /\ inStep => IsSuffix(Tail(s), asked)
    BY <2>2, <2>4, <2>5, SuffixTail
  <2> QED BY <1>1, <2>1, <2>3, <2>6 DEF SentInOrder
<1>5. CASE Port!Accept
  <2> USE <1>5 DEF Port!Accept
  <2>1. NetworkTyped'
    BY <1>1 DEF NetworkTyped
  <2>2. GrantComesLast' /\ SentInOrder'
    BY <1>1 DEF GrantComesLast, SentInOrder
  <2>3. MatchTold'
    BY <1>1, <1>2 DEF MatchTold
  <2> QED BY <1>2, <1>3, <2>1, <2>2, <2>3
<1>6. CASE Port!Ignore
  <2>1. Port!Read /\ UNCHANGED <<standing, answers>>
    BY <1>6 DEF Port!Ignore
  <2>2. NetworkTyped'
    BY <1>1, <1>4, <2>1 DEF NetworkTyped
  <2>3. GrantComesLast' /\ MatchTold'
    BY <1>1, <1>2, <2>1 DEF GrantComesLast, MatchTold
  <2> QED BY <1>2, <1>3, <1>4, <2>1, <2>2, <2>3
<1>7. ASSUME NEW a \in Answer, Port!Read, standing = "title",
             answers' = Append(answers, a),
             \/ a.type = "MatchJoined" /\ standing' = "playing"
             \/ a.type # "MatchJoined" /\ standing' = "title"
      PROVE  Inv'
  <2>1. /\ ~PastTitle /\ (mStack # << >> => mPendingList = << >>)
        /\ \A i \in 1 .. Len(answers) : answers[i].type # "MatchJoined"
    BY <1>7, TitleBeforeGrant
  <2>2. /\ answers \in Seq(Answer) /\ Len(answers) \in Nat
        /\ answers' \in Seq(Answer) /\ Len(answers') = Len(answers) + 1
        /\ answers'[Len(answers) + 1] = a
        /\ \A i \in 1 .. Len(answers) : answers'[i] = answers[i]
    BY <1>7 DEF NetworkTyped
  <2>3. NetworkTyped'
    BY <1>1, <1>4, <1>7, <2>2 DEF NetworkTyped
  <2>4. GrantComesLast'
    <3>1. ASSUME NEW i \in 1 .. Len(answers'), answers'[i].type = "MatchJoined"
          PROVE  i = Len(answers') /\ standing' = "playing"
      <4>1. ~(i \in 1 .. Len(answers))
        BY <3>1, <2>1, <2>2
      <4>2. i = Len(answers) + 1
        BY <4>1, <2>2
      <4> QED BY <4>2, <3>1, <2>2, <1>7
    <3>2. standing' = "playing" => answers'[Len(answers')].type = "MatchJoined"
      BY <1>7, <2>2
    <3>3. Len(answers') > 0
      BY <2>2
    <3> QED BY <3>1, <3>2, <3>3 DEF GrantComesLast
  <2>5. MatchTold'
    <3>1. taken \in 0 .. Len(answers)
      BY DEF NetworkTyped
    <3>2. \A i \in 1 .. taken : answers'[i].type # "MatchJoined"
      BY <3>1, <2>1, <2>2
    <3> QED BY <1>1, <1>2, <2>1, <3>2 DEF MatchTold
  <2> QED BY <1>2, <1>3, <1>4, <1>7, <2>3, <2>4, <2>5
<1>8. CASE Port!Grant
  <2>1. PICK k \in Codes : answers' = Append(answers, Port!Joined(k))
    BY <1>8 DEF Port!Grant
  <2>2. Port!Joined(k) \in Answer /\ Port!Joined(k).type = "MatchJoined"
    BY DEF Answer, Port!Joined
  <2> QED BY <1>7, <1>8, <2>1, <2>2 DEF Port!Grant
<1>9. CASE Port!Refuse
  <2>1. PICK r \in Port!Refusals : answers' = Append(answers, r)
    BY <1>9 DEF Port!Refuse
  <2>2. r \in Answer /\ r.type # "MatchJoined"
    BY DEF Answer, Port!Refusals, Port!Failed
  <2> QED BY <1>7, <1>9, <2>1, <2>2 DEF Port!Refuse
<1> QED BY <1>5, <1>6, <1>8, <1>9 DEF ServerActs, Port!Serve

\* A packet reaches the server's end.
LEMMA CarryStep ==
  ASSUME Inv, Carry, UNCHANGED gui
  PROVE  Inv'
<1> USE DEF Inv
<1>1. /\ UNCHANGED <<mIsConnected, mOutgoingQueue, begun, connector, attempts,
                     linkUp, inStep, arrived, taken, asked, standing, answers>>
      /\ linkUp /\ wire # << >> /\ wire' = Tail(wire)
      /\ Last(requests') = Head(wire)
  BY DEF Carry, Port!Arrive, outgoing
<1>2. /\ ScreensInv' /\ OneUserOfTheSocket'
      /\ PastTitle' <=> PastTitle
      /\ Shows("Title")' <=> Shows("Title")
      /\ UNCHANGED <<mStack, mPendingList, mIsConnecting, matchCode, left>>
  BY <1>1, LinkKeepsScreens DEF NetworkTyped
<1>3. PICK m \in Request : requests' = Append(requests, m)
  BY DEF Carry, Port!Arrive
<1>4. /\ requests \in Seq(Request) /\ wire \in Seq(Request)
      /\ mOutgoingQueue \in Seq(Request)
  BY DEF NetworkTyped
<1>5. m = Head(wire)
  BY <1>1, <1>3, <1>4 DEF Last
<1>6. requests' \in Seq(Request) /\ wire' \in Seq(Request)
  BY <1>1, <1>3, <1>4
<1>7. requests' \o wire' = requests \o wire
  BY <1>1, <1>3, <1>4, <1>5
<1>8. NetworkTyped'
  BY <1>1, <1>6 DEF NetworkTyped
<1>9. GrantComesLast' /\ ConnectedAfresh' /\ SentInOrder'
  BY <1>1, <1>7 DEF GrantComesLast, ConnectedAfresh, SentInOrder
<1>10. MatchTold'
  BY <1>1, <1>2 DEF MatchTold
<1> QED BY <1>2, <1>8, <1>9, <1>10

\* An answer reaches ours.
LEMMA DeliverStep ==
  ASSUME Inv, Deliver, UNCHANGED gui
  PROVE  Inv'
<1> USE DEF Inv
<1>1. /\ UNCHANGED <<mIsConnected, mOutgoingQueue, begun, connector, attempts,
                     linkUp, wire, inStep, standing, requests, answers, taken,
                     asked>>
      /\ linkUp
  BY DEF Deliver, outgoing, port
<1>2. /\ ScreensInv' /\ OneUserOfTheSocket'
      /\ PastTitle' <=> PastTitle
      /\ Shows("Title")' <=> Shows("Title")
      /\ UNCHANGED <<mStack, mPendingList, mIsConnecting, matchCode, left>>
  BY <1>1, LinkKeepsScreens DEF NetworkTyped
<1>3. arrived' \in 0 .. Len(answers) /\ taken \in 0 .. arrived'
  BY DEF Deliver, NetworkTyped
<1>4. NetworkTyped'
  BY <1>1, <1>3 DEF NetworkTyped
<1>5. GrantComesLast' /\ ConnectedAfresh' /\ SentInOrder'
  BY <1>1 DEF GrantComesLast, ConnectedAfresh, SentInOrder
<1>6. MatchTold'
  BY <1>1, <1>2 DEF MatchTold
<1> QED BY <1>2, <1>4, <1>5, <1>6

\* The link breaks: answers not taken yet may be lost.
LEMMA BreakStep ==
  ASSUME Inv, LinkBreaks, UNCHANGED gui
  PROVE  Inv'
<1> USE DEF Inv
<1>1. /\ UNCHANGED <<mIsConnected, mOutgoingQueue, begun, connector, attempts,
                     inStep, taken, asked, requests>>
      /\ linkUp /\ linkUp' = FALSE /\ wire' = << >>
      /\ arrived' = Len(answers') /\ taken <= arrived'
  BY DEF LinkBreaks, outgoing, port, Port!Go
<1>2. /\ UNCHANGED <<mStack, mPendingList, mIsConnecting, matchCode, app, left>>
      /\ Top' = Top /\ (PastTitle' <=> PastTitle)
      /\ Shows("Title")' <=> Shows("Title")
  BY SameScreen DEF gui, screens, Screen
<1>3. ScreensInv'
  BY <1>1, <1>2 DEF ScreensInv, OneScreen
<1>4. OneUserOfTheSocket'
  BY <1>1, <1>2 DEF OneUserOfTheSocket, Connecting
<1>5. ConnectedAfresh' /\ SentInOrder'
  BY <1>1 DEF ConnectedAfresh, SentInOrder
<1>6. /\ answers' \in Seq(Answer) /\ Len(answers') <= Len(answers)
      /\ Len(answers) \in Nat /\ Len(answers') \in Nat
      /\ \A i \in 1 .. Len(answers') : answers'[i] = answers[i]
  <2>1. CASE standing = "new" /\ UNCHANGED port
    BY <2>1 DEF port, NetworkTyped
  <2>2. CASE Port!Go
    <3>1. PICK n \in 0 .. Len(answers) : answers' = SubSeq(answers, 1, n)
      BY <2>2 DEF Port!Go
    <3>2. answers \in Seq(Answer)
      BY DEF NetworkTyped
    <3> QED BY <3>1, <3>2
  <2> QED BY <2>1, <2>2 DEF LinkBreaks
<1>7. \/ standing = "new" /\ UNCHANGED <<standing, answers>>
      \/ standing' = "gone"
  BY DEF LinkBreaks, port, Port!Go
<1>8. NetworkTyped'
  <2>1. arrived' \in 0 .. Len(answers') /\ taken' \in 0 .. arrived'
    BY <1>1, <1>6 DEF NetworkTyped
  <2>2. wire' \in Seq(Request)
    BY <1>1, EmptySeq
  <2>3. linkUp' \in BOOLEAN
    BY <1>1
  <2> QED BY <1>1, <1>6, <1>7, <2>1, <2>2, <2>3 DEF NetworkTyped
<1>9. GrantComesLast'
  <2>1. CASE standing = "new" /\ UNCHANGED <<standing, answers>>
    BY <2>1 DEF GrantComesLast
  <2>2. CASE standing' = "gone"
    <3>1. ASSUME NEW i \in 1 .. Len(answers'), answers'[i].type = "MatchJoined"
          PROVE  i = Len(answers')
      <4>1. i \in 1 .. Len(answers) /\ answers[i].type = "MatchJoined"
        BY <3>1, <1>6
      <4>2. i = Len(answers)
        BY <4>1 DEF GrantComesLast
      <4> QED BY <4>2, <1>6
    <3> QED BY <2>2, <3>1 DEF GrantComesLast
  <2> QED BY <2>1, <2>2, <1>7
<1>10. MatchTold'
  <2>1. taken \in 0 .. Len(answers')
    BY <1>1, <1>6 DEF NetworkTyped
  <2>2. \A i \in 1 .. taken : answers'[i] = answers[i]
    BY <2>1, <1>6
  <2>3. taken = Len(answers) => taken = Len(answers')
    BY <2>1, <1>6
  <2>4. taken > 0 => answers'[taken] = answers[taken]
    BY <2>1, <2>2
  <2> QED BY <1>1, <1>2, <2>2, <2>3, <2>4 DEF MatchTold
<1> QED BY <1>3, <1>4, <1>5, <1>8, <1>9, <1>10

-----------------------------------------------------------------------------
(* The GUI thread.                                                         *)

\* A step that changes nothing keeps the invariant.
LEMMA IdleStep ==
  ASSUME Inv, UNCHANGED vars
  PROVE  Inv'
<1> USE DEF Inv, vars, network, gui, screens, outgoing, link, port
<1>1. NetworkTyped' /\ GrantComesLast' /\ ConnectedAfresh' /\ SentInOrder'
  BY DEF NetworkTyped, GrantComesLast, ConnectedAfresh, SentInOrder
<1>2. /\ Top' = Top /\ (PastTitle' <=> PastTitle)
      /\ Shows("Title")' <=> Shows("Title")
  BY SameScreen DEF Screen
<1>3. ScreensInv' /\ OneUserOfTheSocket' /\ MatchTold'
  BY <1>2 DEF ScreensInv, OneScreen, OneUserOfTheSocket, Connecting, MatchTold
<1> QED BY <1>1, <1>3

\* A packet is put in line behind the others, and some of them leave.
LEMMA SendStep ==
  ASSUME Inv, NEW m \in Request, SendPacket(m), UNCHANGED gui, Shows("Title")
  PROVE  Inv'
<1> USE DEF Inv
<1>1. CASE UNCHANGED network
  BY <1>1, IdleStep DEF vars
<1>2. CASE ~UNCHANGED network
  <2> DEFINE q == Queued(m)
  <2>1. /\ asked' = Append(asked, m)
        /\ \E n \in 0 .. Len(mOutgoingQueue) + 1 : Flush(q, n)
        /\ UNCHANGED <<connector, attempts, inStep, standing, requests, answers,
                       arrived, taken>>
    BY <1>2 DEF SendPacket, port
  <2>2. PICK n \in 0 .. Len(mOutgoingQueue) + 1 : Flush(q, n)
    BY <2>1
  <2>3. /\ mOutgoingQueue \in Seq(Request) /\ wire \in Seq(Request)
        /\ requests \in Seq(Request) /\ asked \in Seq(Request)
    BY DEF NetworkTyped
  <2>4. /\ q = Append(mOutgoingQueue, m) /\ q \in Seq(Request)
        /\ Len(q) = Len(mOutgoingQueue) + 1 /\ n \in 0 .. Len(q)
        /\ Len(mOutgoingQueue) \in Nat
    BY <2>3 DEF Queued
  <2> HIDE DEF q
  <2> DEFINE out == SubSeq(q, 1, n)
             rest == SubSeq(q, n + 1, Len(q))
  <2>5. /\ out \in Seq(Request) /\ rest \in Seq(Request)
        /\ Len(rest) = Len(q) - n
        /\ out \o rest = q
    <3>1. out \in Seq(Request) /\ rest \in Seq(Request) /\ Len(rest) = Len(q) - n
      BY <2>4
    <3>2. out \o rest = SubSeq(q, 1, Len(q))
      <4>1. /\ 1 \in 1 .. Len(q) + 1 /\ n \in 1 - 1 .. Len(q)
            /\ Len(q) \in n .. Len(q)
        BY <2>4
      <4> QED BY <2>4, <4>1, ConcatAdjacentSubSeq, Zenon DEF out, rest
    <3>3. SubSeq(q, 1, Len(q)) = q
      BY <2>4, SubSeqFull
    <3> QED BY <3>1, <3>2, <3>3
  <2>6. /\ linkUp' = linkUp
        /\ wire' = IF linkUp /\ inStep THEN wire \o out ELSE wire
        /\ \/ /\ mOutgoingQueue' = rest
              /\ begun' \in BOOLEAN
              /\ n = Len(q) => ~begun'
              /\ mIsConnected' = mIsConnected
           \/ /\ ~linkUp
              /\ mOutgoingQueue' = << >>
              /\ begun' = FALSE
              /\ mIsConnected' = FALSE
    BY <2>2 DEF Flush
  <2> HIDE DEF out, rest
  <2>7. /\ wire' \in Seq(Request) /\ mOutgoingQueue' \in Seq(Request)
        /\ asked' \in Seq(Request)
    <3>1. wire \o out \in Seq(Request) /\ << >> \in Seq(Request)
      BY <2>3, <2>5, EmptySeq
    <3>2. wire' \in Seq(Request) /\ mOutgoingQueue' \in Seq(Request)
      BY <2>3, <2>5, <2>6, <3>1, Zenon
    <3> QED BY <2>1, <2>3, <3>2
  <2>8. begun' \in BOOLEAN /\ (begun' => mOutgoingQueue' # << >>)
    <3>1. n # Len(q) => rest # << >>
      BY <2>4, <2>5
    <3> QED BY <2>6, <3>1, Zenon
  <2>9. mIsConnected' \in BOOLEAN /\ (mIsConnected' => mIsConnected)
    <3>1. mIsConnected' = mIsConnected \/ mIsConnected' = FALSE
      BY <2>6, Zenon
    <3>2. mIsConnected \in BOOLEAN
      BY DEF NetworkTyped
    <3>3. CASE mIsConnected' = mIsConnected
      BY <3>2, <3>3
    <3>4. CASE mIsConnected' = FALSE
      BY <3>4
    <3> QED BY <3>1, <3>3, <3>4
  <2>10. NetworkTyped'
    BY <2>1, <2>6, <2>7, <2>8, <2>9 DEF NetworkTyped
  <2>11. GrantComesLast' /\ ConnectedAfresh'
    BY <2>1, <2>9 DEF GrantComesLast, ConnectedAfresh
  <2>12. SentInOrder'
    <3> SUFFICES ASSUME linkUp, inStep
                 PROVE  IsSuffix(requests' \o wire' \o mOutgoingQueue', asked')
      BY <2>1, <2>6 DEF SentInOrder
    <3> DEFINE rw == requests \o wire
               s == rw \o mOutgoingQueue
    <3>1. rw \in Seq(Request)
      BY <2>3
    <3> HIDE DEF rw
    <3>2. s \in Seq(Request)
      BY <2>3, <3>1
    <3>3. requests' \o wire' = rw \o out
      <4>1. requests' \o wire' = requests \o (wire \o out)
        BY <2>1, <2>6
      <4>2. (requests \o wire) \o out = requests \o (wire \o out)
        <5>1. out \in Seq(Request) /\ requests \in Seq(Request) /\ wire \in Seq(Request)
          BY <2>3, <2>5
        <5> QED BY <5>1, ConcatAssociative
      <4> QED BY <4>1, <4>2 DEF rw
    <3>4. (rw \o out) \o rest = rw \o q
      <4>1. (rw \o out) \o rest = rw \o (out \o rest)
        <5>1. out \in Seq(Request) /\ rest \in Seq(Request)
          BY <2>5
        <5> QED BY <3>1, <5>1, ConcatAssociative
      <4> QED BY <4>1, <2>5
    <3>5. rw \o q = Append(s, m)
      BY <2>3, <2>4, <3>1
    <3>6. requests' \o wire' \o mOutgoingQueue' = Append(s, m)
      BY <2>6, <3>3, <3>4, <3>5
    <3>7. IsSuffix(s, asked)
      BY DEF SentInOrder, rw
    <3> HIDE DEF s
    <3>8. IsSuffix(Append(s, m), Append(asked, m))
      BY <2>3, <3>2, <3>7, SuffixAppend
    <3> QED BY <2>1, <3>6, <3>8
  <2>13. /\ UNCHANGED <<mStack, mPendingList, mIsConnecting, matchCode, app, left>>
         /\ Top' = Top /\ (PastTitle' <=> PastTitle)
         /\ Shows("Title")' <=> Shows("Title")
    BY SameScreen DEF gui, screens, Screen
  <2>14. ScreensInv'
    BY <2>13 DEF ScreensInv, OneScreen, Shows
  <2>15. OneUserOfTheSocket'
    BY <2>1, <2>6, <2>9, <2>13 DEF OneUserOfTheSocket, Connecting
  <2>16. MatchTold'
    BY <2>1, <2>9, <2>13 DEF MatchTold
  <2> QED BY <2>10, <2>11, <2>12, <2>14, <2>15, <2>16
<1> QED BY <1>1, <1>2

\* The title screen finds its connection attempt ended.
LEMMA JoinConnectorStep ==
  ASSUME Inv, JoinConnector
  PROVE  Inv'
<1> USE DEF Inv, JoinConnector, outgoing, link, port
<1>1. NetworkTyped' /\ GrantComesLast' /\ ConnectedAfresh' /\ SentInOrder'
  BY DEF NetworkTyped, GrantComesLast, ConnectedAfresh, SentInOrder
<1>2. /\ Top' = Top /\ (PastTitle' <=> PastTitle)
      /\ Shows("Title")' <=> Shows("Title")
  BY SameScreen DEF Screen
<1>3. ScreensInv'
  BY <1>2 DEF ScreensInv, OneScreen, Shows
<1>4. OneUserOfTheSocket'
  BY <1>2 DEF OneUserOfTheSocket, Connecting, ScreensInv, OneScreen, Shows
<1>5. MatchTold'
  <2>1. mStack # << >> /\ Top = "Title" /\ mPendingList = << >>
    BY DEF Shows
  <2>2. mIsConnected => taken = 0
    BY DEF ConnectedAfresh
  <2>3. mIsConnected => \A i \in 1 .. taken : answers[i].type # "MatchJoined"
    BY <2>2
  <2> QED BY <1>2, <2>1, <2>3 DEF MatchTold, PastTitle
<1> QED BY <1>1, <1>3, <1>4, <1>5

\* The title screen takes an answer from the socket.
LEMMA PollPacketStep ==
  ASSUME Inv, PollPacket
  PROVE  Inv'
<1> USE DEF Inv
<1>1. /\ mStack # << >> /\ Top = "Title" /\ ~mIsConnecting /\ mIsConnected
      /\ taken < arrived /\ taken' = taken + 1
      /\ UNCHANGED <<mIsConnected, mOutgoingQueue, begun, connector, attempts,
                     linkUp, wire, inStep, standing, requests, answers, arrived,
                     asked, mStack, mIsConnecting, app, left>>
      /\ ProcessPacket(answers[taken'])
  BY DEF PollPacket, Updating, PollAnswer, outgoing, port
<1>2. connector = "none"
  BY <1>1 DEF OneUserOfTheSocket
<1>3. taken' \in 1 .. Len(answers) /\ taken' \in 0 .. arrived
      /\ taken \in 0 .. Len(answers) /\ taken # Len(answers)
  BY <1>1 DEF NetworkTyped
<1>4. ~PastTitle /\ mPendingList = << >> /\ Shows("Title")
  BY <1>1, <1>3 DEF MatchTold, Shows, PastTitle
<1>5. mStack = <<"Title">>
  <2>1. PICK s \in Screen : mStack = <<s>>
    BY <1>1, SomeScreen
  <2> QED BY <1>1, <2>1, SingleScreen
<1>6. answers[taken'] \in Answer
  BY <1>3 DEF NetworkTyped
<1>7. NetworkTyped'
  BY <1>1, <1>3 DEF NetworkTyped
<1>8. GrantComesLast' /\ ConnectedAfresh' /\ SentInOrder'
  BY <1>1, <1>2 DEF GrantComesLast, ConnectedAfresh, SentInOrder
<1>9. ~PastTitle' /\ Top' = "Title" /\ mStack' # << >>
  BY <1>1 DEF Top, Last, PastTitle
<1>10. OneUserOfTheSocket'
  BY <1>1, <1>2 DEF OneUserOfTheSocket, Connecting
<1>11. CASE answers[taken'].type = "MatchJoined"
  <2>1. /\ matchCode' = answers[taken'].code
        /\ mPendingList' = <<Pop, Push("Username")>>
    BY <1>4, <1>11, <1>1 DEF ProcessPacket
  <2>2. taken' = Len(answers)
    BY <1>3, <1>11 DEF GrantComesLast
  <2>3. PICK k \in Codes : answers[taken'] = Port!Joined(k)
    BY <1>6, <1>11 DEF Answer, Port!Refusals, Port!Failed
  <2>4. matchCode' = k
    BY <2>1, <2>3 DEF Port!Joined
  <2>5. mPendingList' # << >>
    BY <2>1
  <2>6. ScreensInv'
    BY <1>1, <1>5, <1>9, <2>1, <2>4 DEF ScreensInv, OneScreen, Screen
  <2>7. MatchTold'
    <3>1. ~Shows("Title")'
      BY <2>5 DEF Shows
    <3> QED BY <1>1, <1>3, <2>2, <2>3, <2>4, <3>1 DEF MatchTold
  <2> QED BY <1>7, <1>8, <1>10, <2>6, <2>7
<1>12. CASE answers[taken'].type # "MatchJoined"
  <2>1. UNCHANGED <<matchCode, mPendingList>>
    BY <1>1, <1>12 DEF ProcessPacket
  <2>2. Shows("Title")' <=> Shows("Title")
    BY <1>1, <2>1, SameScreen DEF Screen
  <2>3. ScreensInv'
    BY <1>1, <1>9, <2>1 DEF ScreensInv, OneScreen
  <2>4. MatchTold'
    <3>1. ASSUME ~left
          PROVE  \A i \in 1 .. taken' : answers[i].type # "MatchJoined"
      <4>1. \A i \in 1 .. taken : answers[i].type # "MatchJoined"
        BY <1>1, <1>4, <3>1 DEF MatchTold
      <4>2. \A i \in 1 .. taken' : i \in 1 .. taken \/ i = taken'
        BY <1>1, <1>3
      <4> QED BY <4>1, <4>2, <1>12
    <3> QED BY <1>1, <1>4, <1>9, <2>1, <3>1 DEF MatchTold
  <2> QED BY <1>7, <1>8, <1>10, <2>3, <2>4
<1> QED BY <1>11, <1>12

\* An update has polled all there was, and changes the screen if it was told to.
LEMMA EndUpdateStep ==
  ASSUME Inv, EndUpdate
  PROVE  Inv'
<1> USE DEF Inv
<1>1. /\ mStack # << >> /\ Top = "Title" /\ ~mIsConnecting
      /\ UNCHANGED <<mOutgoingQueue, begun, connector, attempts, linkUp, wire,
                     inStep, standing, requests, answers, arrived, taken, asked,
                     mIsConnecting, matchCode, app, left>>
      /\ \/ UNCHANGED mIsConnected
         \/ ~linkUp /\ mIsConnected' = FALSE
      /\ Apply(mPendingList)
  BY DEF EndUpdate, Updating, PollDisconnected, PollNothing, network, outgoing,
         link, port
<1>2. connector = "none"
  BY <1>1 DEF OneUserOfTheSocket
<1>3. mStack = <<"Title">>
  <2>1. PICK s \in Screen : mStack = <<s>>
    BY <1>1, SomeScreen
  <2> QED BY <1>1, <2>1, SingleScreen
<1>4. mIsConnected' \in BOOLEAN /\ (mIsConnected' => mIsConnected)
  <2>1. CASE UNCHANGED mIsConnected
    BY <2>1 DEF NetworkTyped
  <2>2. CASE ~linkUp /\ mIsConnected' = FALSE
    BY <2>2
  <2> QED BY <1>1, <2>1, <2>2
<1>5. NetworkTyped' /\ GrantComesLast' /\ ConnectedAfresh' /\ SentInOrder'
  BY <1>1, <1>4 DEF NetworkTyped, GrantComesLast, ConnectedAfresh, SentInOrder
<1>6. CASE mPendingList = << >>
  <2>1. UNCHANGED <<mStack, mPendingList>>
    BY <1>1, <1>6, NothingApplied
  <2>2. /\ Top' = Top /\ (PastTitle' <=> PastTitle)
        /\ Shows("Title")' <=> Shows("Title")
    BY <2>1, SameScreen DEF Screen
  <2>3. ScreensInv'
    BY <1>1, <2>1, <2>2 DEF ScreensInv, OneScreen
  <2>4. OneUserOfTheSocket'
    BY <1>1, <1>2, <2>2 DEF OneUserOfTheSocket, Connecting
  <2>5. MatchTold'
    BY <1>1, <1>4, <2>1, <2>2 DEF MatchTold
  <2> QED BY <1>5, <2>3, <2>4, <2>5
<1>7. CASE mPendingList = <<Pop, Push("Username")>>
  <2>1. mStack' = <<"Username">> /\ mPendingList' = << >>
    BY <1>1, <1>3, <1>7, SwitchReplaces DEF Screen
  <2>2. /\ mStack' # << >> /\ Len(mStack') = 1 /\ ~Shows("Title")'
    BY <2>1, SingleScreenNext DEF Screen
  <2>3. ScreensInv'
    BY <1>1, <2>1, <2>2 DEF ScreensInv, OneScreen, Screen
  <2>4. OneUserOfTheSocket'
    BY <1>1, <1>2, <2>2 DEF OneUserOfTheSocket, Connecting
  <2>5. MatchTold'
    <3>1. mPendingList # << >>
      BY <1>7
    <3> QED BY <1>1, <2>2, <3>1 DEF MatchTold
  <2> QED BY <1>5, <2>3, <2>4, <2>5
<1>8. app # "gone"
  BY <1>1 DEF ScreensInv, OneScreen
<1> QED BY <1>1, <1>6, <1>7, <1>8 DEF ScreensInv, OneScreen

\* A title screen that has just been constructed waits for its connection, or
\* has one, or there is none; it has heard of no match, or the user has left it.
LEMMA TitleConstructed ==
  ASSUME Inv, connector = "none", ~mIsConnecting,
         mStack' = <<"Title">>, mPendingList' = << >>,
         NEW changes, Constructed(changes),
         ~mIsConnected => Connects(changes, mIsConnected),
         UNCHANGED <<matchCode, app>>, app # "gone",
         left' \in BOOLEAN, mIsConnected => left'
  PROVE  Inv'
<1> USE DEF Inv
<1>1. /\ mStack' # << >> /\ Len(mStack') = 1 /\ Top' = "Title" /\ ~PastTitle'
      /\ Shows("Title")'
  BY SingleScreenNext DEF Screen
<1>2. linkUp => mIsConnected
  BY DEF OneUserOfTheSocket
<1>3. CASE Connects(changes, mIsConnected)
  <2>1. /\ ~mIsConnected /\ attempts < MaxAttempts /\ mIsConnecting' = TRUE
        /\ connector' = "resolve" /\ attempts' = attempts + 1
        /\ UNCHANGED <<mIsConnected, mOutgoingQueue, begun, linkUp, wire, inStep,
                       standing, requests, answers, arrived, taken, asked>>
    BY <1>3 DEF Constructed, Connects, StartConnect, outgoing, link, port
  <2>2. attempts' \in 0 .. MaxAttempts
    BY <2>1, NetworkAssumption DEF NetworkTyped
  <2>3. NetworkTyped' /\ GrantComesLast' /\ ConnectedAfresh' /\ SentInOrder'
    BY <2>1, <2>2 DEF NetworkTyped, GrantComesLast, ConnectedAfresh, SentInOrder
  <2>4. ScreensInv' /\ OneUserOfTheSocket' /\ MatchTold'
    BY <1>1, <1>2, <2>1
       DEF ScreensInv, OneScreen, OneUserOfTheSocket, Connecting, MatchTold, Screen
  <2> QED BY <2>3, <2>4
<1>4. CASE ~Connects(changes, mIsConnected)
  <2>1. /\ mIsConnected
        /\ UNCHANGED <<mIsConnected, mOutgoingQueue, begun, connector, attempts,
                       linkUp, wire, inStep, standing, requests, answers, arrived,
                       taken, asked, mIsConnecting>>
    BY <1>4 DEF Constructed, network, outgoing, link, port
  <2>2. NetworkTyped' /\ GrantComesLast' /\ ConnectedAfresh' /\ SentInOrder'
    BY <2>1 DEF NetworkTyped, GrantComesLast, ConnectedAfresh, SentInOrder
  <2>3. ScreensInv' /\ OneUserOfTheSocket' /\ MatchTold'
    BY <1>1, <1>2, <2>1
       DEF ScreensInv, OneScreen, OneUserOfTheSocket, Connecting, MatchTold, Screen
  <2> QED BY <2>2, <2>3
<1> QED BY <1>3, <1>4

\* The application shows its first screen.
LEMMA FirstScreenStep ==
  ASSUME Inv, FirstScreen
  PROVE  Inv'
<1> USE DEF Inv
<1>1. /\ mStack = << >> /\ app # "gone" /\ UNCHANGED <<matchCode, app, left>>
      /\ Apply(mPendingList) /\ Constructed(mPendingList)
  BY DEF FirstScreen
<1>2. mPendingList = <<Push("Title")>>
  BY <1>1 DEF ScreensInv, OneScreen
<1>3. mStack' = <<"Title">> /\ mPendingList' = << >>
  BY <1>1, <1>2, FirstIsPushed
<1>4. ~mIsConnected /\ connector = "none"
  BY <1>1 DEF ScreensInv
<1>5. ~mIsConnecting
  BY <1>4 DEF OneUserOfTheSocket
<1>6. Connects(mPendingList, mIsConnected)
  BY <1>2, <1>4 DEF Connects, Range
<1>7. left' \in BOOLEAN
  BY <1>1 DEF ScreensInv
<1> QED BY <1>1, <1>3, <1>4, <1>5, <1>6, <1>7, TitleConstructed

\* At a screen after the title screen: no connection attempt, a match joined.
LEMMA AtLaterScreen ==
  ASSUME Inv, NEW s \in Screen, Handles(s), s # "Title"
  PROVE  /\ mStack = <<s>> /\ mPendingList = << >> /\ app = "open"
         /\ PastTitle /\ ~Shows("Title")
         /\ ~mIsConnecting /\ connector = "none"
<1> USE DEF Inv
<1>1. mStack # << >> /\ Top = s /\ mPendingList = << >> /\ app = "open"
  BY DEF Handles, Shows
<1>2. PICK t \in Screen : mStack = <<t>>
  BY <1>1, SomeScreen
<1>3. t = s
  BY <1>1, <1>2, SingleScreen
<1>4. PastTitle /\ ~Shows("Title")
  BY <1>1 DEF PastTitle, Shows
<1> QED BY <1>1, <1>2, <1>3, <1>4 DEF OneUserOfTheSocket

\* From the username screen to the lobby, from there to the game.
LEMMA NextScreenStep ==
  ASSUME Inv, NEW s \in Screen, Handles(s), s # "Title",
         NEW t \in Screen, t # "Title", SwitchTo(t),
         UNCHANGED <<network, mIsConnecting, matchCode, app, left>>
  PROVE  Inv'
<1> USE DEF Inv, network, outgoing, link, port
<1>1. /\ mStack = <<s>> /\ mPendingList = << >> /\ app = "open" /\ PastTitle
      /\ ~mIsConnecting /\ connector = "none"
  BY AtLaterScreen
<1>2. mStack' = <<t>> /\ mPendingList' = << >>
  BY <1>1, SwitchReplaces DEF SwitchTo
<1>3. /\ mStack' # << >> /\ Len(mStack') = 1 /\ ~Shows("Title")' /\ PastTitle'
  BY <1>2, SingleScreenNext DEF Screen
<1>4. NetworkTyped' /\ GrantComesLast' /\ ConnectedAfresh' /\ SentInOrder'
  BY DEF NetworkTyped, GrantComesLast, ConnectedAfresh, SentInOrder
<1>5. ScreensInv'
  BY <1>1, <1>2, <1>3 DEF ScreensInv, OneScreen
<1>6. OneUserOfTheSocket'
  BY <1>1, <1>3 DEF OneUserOfTheSocket, Connecting
<1>7. MatchTold'
  BY <1>1, <1>3 DEF MatchTold
<1> QED BY <1>4, <1>5, <1>6, <1>7

\* Leave, back to the title screen.
LEMMA LeaveStep ==
  ASSUME Inv, Leave
  PROVE  Inv'
<1> DEFINE changes == <<Pop, Push("Title")>>
<1>1. /\ Handles("Username") /\ SwitchTo("Title") /\ Constructed(changes)
      /\ left' = TRUE /\ UNCHANGED <<matchCode, app>>
  BY DEF Leave
<1>2. /\ mStack = <<"Username">> /\ app = "open"
      /\ ~mIsConnecting /\ connector = "none"
  BY <1>1, AtLaterScreen DEF Screen
<1>3. mStack' = <<"Title">> /\ mPendingList' = << >>
  BY <1>1, <1>2, SwitchReplaces DEF SwitchTo, Screen
<1>4. ~mIsConnected => Connects(changes, mIsConnected)
  <2>1. changes[2] = Push("Title") /\ 2 \in DOMAIN changes
    OBVIOUS
  <2>2. Push("Title") \in Range(changes)
    BY <2>1 DEF Range
  <2> QED BY <2>2 DEF Connects
<1> HIDE DEF changes
<1> QED BY <1>1, <1>2, <1>3, <1>4, TitleConstructed

\* Escape, disconnecting and back to the title screen.
LEMMA EscapeStep ==
  ASSUME Inv, Escape
  PROVE  Inv'
<1> USE DEF Inv
<1>1. /\ Handles("Lobby") /\ attempts < MaxAttempts /\ SwitchTo("Title")
      /\ mIsConnected' = FALSE /\ linkUp' = (linkUp /\ ~mIsConnected)
      /\ connector' = "resolve" /\ attempts' = attempts + 1
      /\ mIsConnecting' = TRUE
      /\ UNCHANGED <<mOutgoingQueue, begun, wire, inStep, standing, requests,
                     answers, arrived, taken, asked, matchCode, app, left>>
  BY DEF Escape, Reconnect, outgoing, port
<1>2. /\ mStack = <<"Lobby">> /\ app = "open" /\ connector = "none"
  BY <1>1, AtLaterScreen DEF Screen
<1>3. mStack' = <<"Title">> /\ mPendingList' = << >>
  BY <1>1, <1>2, SwitchReplaces DEF SwitchTo, Screen
<1>4. /\ mStack' # << >> /\ Len(mStack') = 1 /\ Top' = "Title" /\ ~PastTitle'
      /\ Shows("Title")'
  BY <1>3, SingleScreenNext DEF Screen
<1>5. ~linkUp'
  BY <1>1, <1>2 DEF OneUserOfTheSocket
<1>6. attempts' \in 0 .. MaxAttempts
  BY <1>1, NetworkAssumption DEF NetworkTyped
<1>7. mIsConnected' \in BOOLEAN /\ linkUp' \in BOOLEAN
  BY <1>1
<1>8. NetworkTyped'
  BY <1>1, <1>6, <1>7 DEF NetworkTyped
<1>9. GrantComesLast' /\ ConnectedAfresh' /\ SentInOrder'
  BY <1>1, <1>5 DEF GrantComesLast, ConnectedAfresh, SentInOrder
<1>10. ScreensInv' /\ OneUserOfTheSocket' /\ MatchTold'
  BY <1>1, <1>2, <1>3, <1>4, <1>5
     DEF ScreensInv, OneScreen, OneUserOfTheSocket, Connecting, MatchTold, Screen
<1> QED BY <1>8, <1>9, <1>10

\* The window closes.
LEMMA CloseStep ==
  ASSUME Inv, CloseWindow
  PROVE  Inv'
<1> USE DEF Inv, CloseWindow, network, outgoing, link, port, screens
<1>1. NetworkTyped' /\ GrantComesLast' /\ ConnectedAfresh' /\ SentInOrder'
  BY DEF NetworkTyped, GrantComesLast, ConnectedAfresh, SentInOrder
<1>2. /\ Top' = Top /\ (PastTitle' <=> PastTitle)
      /\ Shows("Title")' <=> Shows("Title")
  BY SameScreen DEF Screen
<1>3. ScreensInv'
  BY <1>2 DEF ScreensInv, OneScreen
<1>4. OneUserOfTheSocket'
  BY <1>2 DEF OneUserOfTheSocket, Connecting
<1>5. MatchTold'
  BY <1>2 DEF MatchTold
<1> QED BY <1>1, <1>3, <1>4, <1>5

\* The application's members are destroyed.
LEMMA QuitStep ==
  ASSUME Inv, Quit
  PROVE  Inv'
<1> USE DEF Inv
<1>1. /\ mPendingList = << >> /\ app' = "gone" /\ mStack' = << >>
      /\ mIsConnecting' = FALSE /\ connector' = "none"
      /\ mIsConnected' = FALSE /\ linkUp' = FALSE
      /\ mOutgoingQueue' = << >> /\ begun' = FALSE
      /\ UNCHANGED <<attempts, wire, inStep, standing, requests, answers, arrived,
                     taken, asked, mPendingList, matchCode, left>>
  BY DEF Quit, Destroy, port
<1>2. mOutgoingQueue' \in Seq(Request) /\ mIsConnected' \in BOOLEAN
      /\ linkUp' \in BOOLEAN /\ begun' \in BOOLEAN
  BY <1>1, EmptySeq
<1>3. NetworkTyped'
  BY <1>1, <1>2 DEF NetworkTyped
<1>4. GrantComesLast' /\ ConnectedAfresh' /\ SentInOrder'
  BY <1>1 DEF GrantComesLast, ConnectedAfresh, SentInOrder
<1>5. ~PastTitle' /\ ~Shows("Title")'
  BY <1>1 DEF PastTitle, Shows
<1>6. ScreensInv'
  <2>1. Len(mStack') = 0 /\ Len(mStack') <= 1
    BY <1>1
  <2>2. OneScreen'
    BY <1>1, <2>1 DEF OneScreen
  <2> QED BY <1>1, <2>2 DEF ScreensInv
<1>7. OneUserOfTheSocket'
  BY <1>1 DEF OneUserOfTheSocket, Connecting
<1>8. MatchTold'
  BY <1>1, <1>5 DEF MatchTold
<1> QED BY <1>3, <1>4, <1>6, <1>7, <1>8

-----------------------------------------------------------------------------
(* The invariant always holds.                                             *)

\* Before the first screen there is nothing to tell.
LEMMA InvInit == Init => Inv
<1> SUFFICES ASSUME Init PROVE Inv
  OBVIOUS
<1> USE DEF Init, NetworkInit, Port!Init
<1>1. NetworkTyped
  <2>1. /\ mOutgoingQueue \in Seq(Request) /\ wire \in Seq(Request)
        /\ requests \in Seq(Request) /\ asked \in Seq(Request)
        /\ answers \in Seq(Answer) /\ Len(answers) = 0
    BY EmptySeq
  <2>2. attempts \in 0 .. MaxAttempts
    BY NetworkAssumption
  <2>3. arrived \in 0 .. Len(answers) /\ taken \in 0 .. arrived
    BY <2>1
  <2>4. /\ mIsConnected \in BOOLEAN /\ begun \in BOOLEAN /\ ~begun
        /\ linkUp \in BOOLEAN /\ inStep \in BOOLEAN
    OBVIOUS
  <2> QED BY <2>1, <2>2, <2>3, <2>4 DEF NetworkTyped
<1>2. GrantComesLast /\ ConnectedAfresh /\ SentInOrder
  BY DEF GrantComesLast, ConnectedAfresh, SentInOrder
<1>3. ~PastTitle /\ ~Shows("Title")
  BY DEF PastTitle, Shows
<1>4. ScreensInv
  <2>1. Len(mStack) = 0 /\ Len(mStack) <= 1
    OBVIOUS
  <2>2. OneScreen
    BY <2>1 DEF OneScreen
  <2> QED BY <2>2 DEF ScreensInv
<1>5. OneUserOfTheSocket
  BY DEF OneUserOfTheSocket, Connecting
<1>6. MatchTold
  BY <1>3 DEF MatchTold
<1> QED BY <1>1, <1>2, <1>4, <1>5, <1>6 DEF Inv

\* Whoever takes the next step keeps the invariant.
LEMMA InvStep == Inv /\ [Next]_vars => Inv'
<1> SUFFICES ASSUME Inv, [Next]_vars PROVE Inv'
  OBVIOUS
<1>1. CASE Update
  BY <1>1, FirstScreenStep, JoinConnectorStep, PollPacketStep, EndUpdateStep
     DEF Update
<1>2. CASE CreatePressed
  <2>1. [type |-> "CreateMatch"] \in Request
    BY DEF Request
  <2> QED BY <1>2, <2>1, SendStep DEF CreatePressed, Handles
<1>3. CASE JoinPressed
  <2>1. PICK k \in Codes : RequestJoin(k)
    BY <1>3 DEF JoinPressed
  <2>2. [type |-> "JoinMatch", code |-> k] \in Request
    BY DEF Request
  <2> QED BY <1>3, <2>1, <2>2, SendStep DEF JoinPressed, Handles, RequestJoin
<1>4. CASE JoinGame
  BY <1>4, NextScreenStep DEF JoinGame, Screen
<1>5. CASE Enter
  BY <1>5, NextScreenStep DEF Enter, Screen
<1>6. CASE Leave \/ Escape \/ CloseWindow \/ Quit
  BY <1>6, LeaveStep, EscapeStep, CloseStep, QuitStep
<1>7. CASE Others
  BY <1>7, ConnectorStep, ServerStep, CarryStep, DeliverStep, BreakStep
     DEF Others, Link
<1>8. CASE UNCHANGED vars
  BY <1>8, IdleStep
<1> QED BY <1>1, <1>2, <1>3, <1>4, <1>5, <1>6, <1>7, <1>8 DEF Next, Event

\* The invariant holds in every reachable state.
THEOREM InvAlways == Spec => []Inv
<1> QED BY InvInit, InvStep, PTL DEF Spec

\* In every reachable state the client's variables have their types, the
\* answers delivered and read are in order, and a match code is known past the
\* title screen (TitleState::processPacket).
THEOREM TypeCorrect == Spec => []TypeOK
<1>1. Inv => TypeOK
  <2> SUFFICES ASSUME Inv PROVE TypeOK
    OBVIOUS
  <2> USE DEF Inv
  <2>1. mStack \in Seq(Screen)
    <3>1. CASE mStack = << >>
      BY <3>1
    <3>2. CASE mStack # << >>
      <4>1. PICK s \in Screen : mStack = <<s>>
        BY <3>2, SomeScreen
      <4> QED BY <4>1
    <3> QED BY <3>1, <3>2
  <2>2. ASSUME PastTitle
        PROVE  matchCode \in Codes
    <3>1. taken \in 1 .. Len(answers) /\ answers[taken] = Port!Joined(matchCode)
      BY <2>2 DEF MatchTold, NetworkTyped
    <3>2. answers[taken] \in Answer
      BY <3>1 DEF NetworkTyped
    <3>3. answers[taken].type = "MatchJoined"
      BY <3>1 DEF Port!Joined
    <3>4. answers[taken] \notin Port!Refusals
      BY <3>3 DEF Port!Refusals, Port!Failed
    <3>5. PICK k \in Codes : answers[taken] = Port!Joined(k)
      BY <3>2, <3>4 DEF Answer
    <3> QED BY <3>1, <3>5 DEF Port!Joined
  <2>3. 0 <= taken /\ taken <= arrived /\ arrived <= Len(answers)
    BY DEF NetworkTyped
  <2> QED BY <2>1, <2>2, <2>3 DEF TypeOK, NetworkTyped, ScreensInv
<1> QED BY InvAlways, <1>1, PTL

\* There is one screen, with at most one change of it pending, for as long as
\* the application lasts (StateStack::applyPendingChanges).
THEOREM OneScreenAtATime == Spec => []OneScreen
<1>1. Inv => OneScreen
  BY DEF Inv, ScreensInv
<1> QED BY InvAlways, <1>1, PTL

\* The GUI thread and the thread in connect() never use the socket together,
\* whatever is pressed meanwhile (NetworkClient, TitleState).
THEOREM SocketHasOneUser == Spec => []OneUserOfTheSocket
<1>1. Inv => OneUserOfTheSocket
  BY DEF Inv
<1> QED BY InvAlways, <1>1, PTL

\* Packets reach the server in the order they were sent in, also when the OS
\* blocks and when some are left from an earlier connection
\* (NetworkClient::flushOutgoingQueue).
THEOREM PacketsKeepOrder == Spec => []NothingOvertakes
<1>1. Inv => NothingOvertakes
  BY DEF Inv, SentInOrder, NothingOvertakes
<1> QED BY InvAlways, <1>1, PTL

\* The screens past the title screen tell of the match the server has let the
\* client into (TitleState::processPacket).
THEOREM ScreenIsRight == Spec => []ScreenTellsMatch
<1>1. Inv => ScreenTellsMatch
  BY DEF Inv, MatchTold, ScreenTellsMatch
<1> QED BY InvAlways, <1>1, PTL

\* A client at the title screen that has heard all there is to hear is in no
\* match, unless its user pressed Leave (TitleState::update).
THEOREM TitleIsRight == Spec => []TitleTellsNoMatch
<1>1. Inv => TitleTellsNoMatch
  <2> SUFFICES ASSUME Inv, Shows("Title"), mIsConnected, ~mIsConnecting,
                      taken = Len(answers), ~left, standing = "playing"
               PROVE  FALSE
    BY DEF TitleTellsNoMatch
  <2>1. taken \in 1 .. taken /\ answers[taken].type = "MatchJoined"
    BY DEF Inv, GrantComesLast, NetworkTyped
  <2> QED BY <2>1 DEF Inv, MatchTold
<1> QED BY InvAlways, <1>1, PTL

=============================================================================
