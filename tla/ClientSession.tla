--------------------------- MODULE ClientSession ---------------------------
(***************************************************************************)
(* The client's screens: title, username, lobby and game, on the state     *)
(* stack the application's loop updates.  A step of the GUI thread is one  *)
(* event it handles or one packet it polls; between two of them the thread *)
(* in connect(), the link and the server go on.                            *)
(***************************************************************************)
EXTENDS NetworkClient

CONSTANT NoCode       \* no match has been joined yet

ASSUME SessionAssumption == NoCode \notin Codes

VARIABLES
    mStack,           \* the screens; the last one is on top
    mPendingList,     \* stack changes requested and not yet applied
    mIsConnecting,    \* the title screen has not yet joined connect()
    matchCode,        \* gameSessionData->match.matchCode
    app,              \* Application: its window "open" or "closed", or "gone"
    left              \* history: Leave was pressed on this connection

screens == <<mStack, mPendingList, mIsConnecting>>
gui == <<screens, matchCode, app, left>>
vars == <<network, gui>>

Screen == {"Title", "Username", "Lobby", "NetworkGame"}

Push(s) == [action |-> "Push", stateID |-> s]
Pop == [action |-> "Pop", stateID |-> "None"]

Init ==
    /\ NetworkInit
    /\ mStack = << >>
    /\ mPendingList = <<Push("Title")>>
    /\ mIsConnecting = FALSE
    /\ matchCode = NoCode
    /\ app = "open"
    /\ left = FALSE

-----------------------------------------------------------------------------
(* The state stack.                                                        *)

Top == Last(mStack)

\* Between two updates, and between two events, with the screen s.
Shows(s) == mStack # << >> /\ Top = s /\ mPendingList = << >>

\* A closed window has no more events.
Handles(s) == app = "open" /\ Shows(s)

Changed(stack, change) ==
    IF change.action = "Push" THEN Append(stack, change.stateID)
                              ELSE Front(stack)

\* Variant: the title screen connects whenever it is entered.
AlwaysConnects(changes, up) == Push("Title") \in Range(changes)

\* A title screen that is constructed without a connection starts one.
Connects(changes, up) == Push("Title") \in Range(changes) /\ ~up

\* applyPendingChanges, at the end of an event or an update: change after
\* change is made to the stack.
Apply(changes) ==
    LET after[n \in 0 .. Len(changes)] ==
           IF n = 0 THEN mStack ELSE Changed(after[n - 1], changes[n])
    IN  /\ mStack' = after[Len(changes)]
        /\ mPendingList' = << >>

Constructed(changes) ==
    IF Connects(changes, mIsConnected)
    THEN attempts < MaxAttempts /\ mIsConnecting' = TRUE /\ StartConnect
    ELSE UNCHANGED <<network, mIsConnecting>>

\* An event handler that replaces its screen.
SwitchTo(s) == Apply(<<Pop, Push(s)>>)

FirstScreen ==
    /\ mStack = << >>
    /\ app # "gone"
    /\ Apply(mPendingList)
    /\ Constructed(mPendingList)
    /\ UNCHANGED <<matchCode, app, left>>

-----------------------------------------------------------------------------
(* Title screen.                                                           *)

CreatePressed ==
    /\ Handles("Title")
    /\ SendPacket([type |-> "CreateMatch"])
    /\ UNCHANGED gui

RequestJoin(k) == SendPacket([type |-> "JoinMatch", code |-> k])

\* The code typed has four digits; any other is refused on the spot.
JoinPressed ==
    /\ Handles("Title")
    /\ \E k \in Codes : RequestJoin(k)
    /\ UNCHANGED gui

Updating == mStack # << >> /\ Top = "Title"

\* Variant: the future is joined, but the title screen goes on waiting.
JoinedStillWaiting ==
    /\ Shows("Title")
    /\ mIsConnecting
    /\ connector \in {"connected", "failed"}
    /\ connector' = "none"
    /\ left' = FALSE
    /\ UNCHANGED <<mIsConnected, outgoing, attempts, link, screens,
                   matchCode, app>>

\* An update finds the future of connect() ready.
JoinConnector ==
    /\ Shows("Title")
    /\ mIsConnecting
    /\ connector \in {"connected", "failed"}
    /\ mIsConnecting' = FALSE
    /\ connector' = "none"
    /\ left' = FALSE
    /\ UNCHANGED <<mIsConnected, outgoing, attempts, link, mStack,
                   mPendingList, matchCode, app>>

\* Variant: the joined match is noted, the next screen is not requested.
NotePacket(answer) ==
    /\ matchCode' = IF answer.type = "MatchJoined" THEN answer.code ELSE matchCode
    /\ UNCHANGED mPendingList

\* Variant: the title screen stays below the new one.
PushOnly(answer) ==
    IF answer.type = "MatchJoined"
    THEN /\ matchCode' = answer.code
         /\ mPendingList' = mPendingList \o <<Push("Username")>>
    ELSE UNCHANGED <<matchCode, mPendingList>>

\* Variant: the code of the match is not kept.
ForgetCode(answer) ==
    /\ mPendingList' = IF answer.type = "MatchJoined"
                       THEN mPendingList \o <<Pop, Push("Username")>>
                       ELSE mPendingList
    /\ UNCHANGED matchCode

\* Variant: any answer lets the user go on.
AnyAnswer(answer) ==
    /\ mPendingList' = IF mPendingList = << >> THEN <<Pop, Push("Username")>>
                                               ELSE mPendingList
    /\ matchCode' = IF answer.type = "MatchJoined" THEN answer.code ELSE matchCode

\* processPacket: only a MatchJoined changes more than the status line.
ProcessPacket(answer) ==
    IF answer.type = "MatchJoined"
    THEN /\ matchCode' = answer.code
         /\ mPendingList' = mPendingList \o <<Pop, Push("Username")>>
    ELSE UNCHANGED <<matchCode, mPendingList>>

\* An update polls: packet after packet is processed ...
PollPacket ==
    /\ Updating
    /\ ~mIsConnecting
    /\ PollAnswer
    /\ ProcessPacket(answers[taken + 1])
    /\ UNCHANGED <<mStack, mIsConnecting, app, left>>

\* ... until there is none; then what they asked of the stack is done.
EndUpdate ==
    /\ Updating
    /\ ~mIsConnecting
    /\ PollDisconnected \/ PollNothing
    /\ Apply(mPendingList)
    /\ UNCHANGED <<mIsConnecting, matchCode, app, left>>

-----------------------------------------------------------------------------
(* The screens after it.                                                   *)

\* Username screen: a name is entered, and Join Game pressed.
JoinGame ==
    /\ Handles("Username")
    /\ SwitchTo("Lobby")
    /\ UNCHANGED <<network, mIsConnecting, matchCode, app, left>>

\* Leave: back to the title screen, and no word to the server.
Leave ==
    /\ Handles("Username")
    /\ SwitchTo("Title")
    /\ Constructed(<<Pop, Push("Title")>>)
    /\ left' = TRUE
    /\ UNCHANGED <<matchCode, app>>

\* Lobby: Escape disconnects and goes back to the title screen, which finds
\* itself without a connection and starts one.
Escape ==
    /\ Handles("Lobby")
    /\ attempts < MaxAttempts
    /\ Reconnect
    /\ SwitchTo("Title")
    /\ mIsConnecting' = TRUE
    /\ UNCHANGED <<matchCode, app, left>>

\* Lobby: Enter starts the game.
Enter ==
    /\ Handles("Lobby")
    /\ SwitchTo("NetworkGame")
    /\ UNCHANGED <<network, mIsConnecting, matchCode, app, left>>

-----------------------------------------------------------------------------
(* Closing the application.                                                *)

\* The window is closed: updates the clock still owes are done, no events.
CloseWindow ==
    /\ app = "open"
    /\ mPendingList = << >> \/ mStack = << >>
    /\ app' = "closed"
    /\ UNCHANGED <<network, screens, matchCode, left>>

\* Variant: the screens go without waiting for the thread.
QuitAtOnce ==
    /\ app = "closed"
    /\ mStack # << >> /\ mPendingList = << >>
    /\ app' = "gone"
    /\ mStack' = << >>
    /\ mIsConnecting' = FALSE
    /\ UNCHANGED connector
    /\ Destroy
    /\ UNCHANGED <<mPendingList, matchCode, left>>

\* The application's members are destroyed, the last first: the screens, of
\* which the title waits for its future and with it for the thread in
\* connect(), then the NetworkClient.
Quit ==
    /\ app = "closed"
    /\ mStack # << >> /\ mPendingList = << >>
    /\ ~Connecting
    /\ app' = "gone"
    /\ mStack' = << >>
    /\ mIsConnecting' = FALSE
    /\ connector' = "none"
    /\ Destroy
    /\ UNCHANGED <<mPendingList, matchCode, left>>

-----------------------------------------------------------------------------
Update == FirstScreen \/ JoinConnector \/ PollPacket \/ EndUpdate

Event == CreatePressed \/ JoinPressed \/ JoinGame \/ Leave \/ Escape \/ Enter
            \/ CloseWindow

Others == (Connector \/ Link) /\ UNCHANGED gui

Next == Update \/ Event \/ Quit \/ Others

Spec == Init /\ [][Next]_vars

\* The GUI thread updates its screens 60 times a second, and comes to an end
\* once the window is closed; connect() gets on, its calls returning or running
\* into their time limits; packets and answers arrive and the server works
\* while the link lasts.  Nothing is assumed of the user, nor of how soon the OS
\* takes what is sent.
Fairness ==
    /\ WF_vars(Update \/ Quit)
    /\ WF_vars((Resolve \/ TcpConnect \/ TcpFails \/ HandshakeFails) /\ UNCHANGED gui)
    /\ WF_vars(ServerActs /\ UNCHANGED gui)
    /\ WF_vars(Carry /\ UNCHANGED gui)
    /\ WF_vars(Deliver /\ UNCHANGED gui)

FairSpec == Spec /\ Fairness

-----------------------------------------------------------------------------
(* Properties.                                                             *)

PastTitle == mStack # << >> /\ Top # "Title"

\* The type invariant, with the three counters of the answers in order and a
\* match code known past the title screen.
TypeOK ==
    /\ mIsConnected \in BOOLEAN
    /\ mOutgoingQueue \in Seq(Request)
    /\ begun \in BOOLEAN /\ (begun => mOutgoingQueue # << >>)
    /\ connector \in {"none", "resolve", "connect", "handshake", "connected",
                      "failed"}
    /\ attempts \in 0 .. MaxAttempts
    /\ linkUp \in BOOLEAN /\ inStep \in BOOLEAN
    /\ wire \in Seq(Request) /\ requests \in Seq(Request)
    /\ standing \in {"new", "title", "playing", "gone"}
    /\ 0 <= taken /\ taken <= arrived /\ arrived <= Len(answers)
    /\ asked \in Seq(Request)
    /\ mStack \in Seq(Screen)
    /\ mIsConnecting \in BOOLEAN
    /\ matchCode \in IF PastTitle THEN Codes ELSE Codes \cup {NoCode}
    /\ app \in {"open", "closed", "gone"}
    /\ left \in BOOLEAN

\* One screen at a time: however many packets an update processes, it asks
\* for one change of screen at most, no Pop finds an empty stack, and the
\* application never runs out of screens.
OneScreen ==
    /\ Len(mStack) <= 1
    /\ app = "gone" => mStack = << >>
    /\ mPendingList \in IF mStack = << >> /\ app # "gone"
                       THEN {<<Push("Title")>>}
                       ELSE {<< >>, <<Pop, Push("Username")>>}

\* The socket has one user at a time: while a thread is in connect() the GUI
\* believes there is no connection and keeps off it, the title screen waits
\* for that thread and none is started beside it; a link that is up has
\* someone who knows of it; and the thread does not outlive the application,
\* whose members it works on.
OneUserOfTheSocket ==
    /\ Connecting => ~mIsConnected
    /\ connector # "none" <=> mIsConnecting
    /\ mIsConnecting => Shows("Title")
    /\ linkUp => mIsConnected \/ connector = "handshake"
    /\ app = "gone" => connector = "none" /\ ~linkUp

\* What the server has not read yet is the end of what this connection was
\* asked to carry, in that order: blocked sends, retries and packets left from
\* an earlier connection neither overtake nor repeat each other.  (Unless a
\* packet was left half sent: then the server can make nothing of its rest.)
NothingOvertakes ==
    mIsConnected /\ linkUp /\ inStep =>
       IsSuffix(requests \o wire \o mOutgoingQueue, asked)

\* Past the title screen the client is in the match whose code it holds: that
\* is the last thing the server said on this connection.
ScreenTellsMatch ==
    PastTitle =>
       /\ taken = Len(answers)
       /\ taken > 0
       /\ answers[taken] = Port!Joined(matchCode)

\* A client that has heard all the server said sits at the title screen while
\* the server has it in a match only if its user pressed Leave.
TitleTellsNoMatch ==
    Shows("Title") /\ mIsConnected /\ ~mIsConnecting /\ taken = Len(answers) =>
       left \/ standing # "playing"

\* "Connecting..." does not last: whatever the network does, connect() comes
\* back and the title screen takes note; and so closing the window, which has
\* to wait for it, ends the program.
ConnectingEnds ==
    /\ mIsConnecting ~> ~mIsConnecting
    /\ app = "closed" ~> app = "gone"

\* A client the server has let into a match leaves the title screen, unless
\* the connection is lost or the user has left that match before.
GrantReachesScreen ==
    (Shows("Title") /\ mIsConnected /\ standing = "playing" /\ ~left)
       ~> (PastTitle \/ ~mIsConnected)

\* A send of what was blocked before; only a press makes the client try it.
TriedAgain == mOutgoingQueue # << >> /\ (CreatePressed \/ JoinPressed)

\* What is tried again and again does not find the OS buffer full each time.
NotAlwaysBlocked ==
    []<><<TriedAgain>>_vars => []<><<TriedAgain /\ mOutgoingQueue' = << >>>>_vars

\* What the comment on a blocked send says, "Keep packet at front and retry
\* next tick": the packet does not stay in the queue while we are connected,
\* unless the OS is at fault.
BlockedIsRetried ==
    NotAlwaysBlocked =>
       ((mIsConnected /\ mOutgoingQueue # << >>)
           ~> (mOutgoingQueue = << >> \/ ~mIsConnected))

=============================================================================
