# Blokus: specifications and proofs

TLA+ models of Blokus ("Blokem"), a multiplayer board game in C++20 and SFML:
a matchmaking server, a client, and the rules of the game shared by both. Paths
below are those of the repository; `src/src` holds the implementation,
`src/include` the headers.

Each module names the code it translates. Definitions that start with a comment
`Variant:` are deliberately broken versions of the definition behind them, used
to see that a property notices the bug; no specification uses them.

## The system

| component | state | operations | interacts with |
|---|---|---|---|
| GameServer | clients, matches, ids to disconnect, next id | tick: wait, accept, drain, flush, remove | peers over TCP, through the selector |
| NetworkProtocol | - | writing and reading packets | server and client states |
| Referee | board, first-move flags, scores | `isValid`, `place` | Player calls it; the library of pieces |
| PolyominoGenerator | the library of 91 pieces and its tables | constructor | Referee, Player, PieceNode read it |
| Player | held piece, mouse position, team | `handleEvent` | changes the referee and the piece's id at once; pushes commands |
| CommandQueue, NetworkGameState | pending commands | `push`, `pop`, `update` | hands commands to the Arena once a frame |
| Arena, TrayNode, BoardNode, PieceNode | which node holds which piece, its position and origin there, slots, shadow | grab, place, return, shadow, hit test | executes commands; Player asks tray and board |
| NetworkClient | socket, `mIsConnected`, outgoing queue | `connect`, `disconnect`, `sendPacket`, `pollPacket` | called by the client's states, `connect` on another thread |
| TitleState, UsernameState, LobbyState, StateStack | the screen shown, pending changes, the connection's future | events, `update`, `processPacket` | NetworkClient; the server's replies |
| GUI Container, Button, TextBox | hovered, pressed and focused child; text, cursor, selection | mouse and key events, `update` | owned by the states, which set the mouse cursor by it; callbacks change the state stack |
| Application | the window, the frame's clock | `processInput`, `update`, `render`, closing | drives the state stack, owns it and the NetworkClient |

What is hard about them:

* **GameServer** is one thread, but its peers send, close and reset between any
  two of its steps; clients are flagged in the middle of a batch and removed at
  the end of the tick; membership is kept twice, in the client and in the match.
* **Referee** works on a board of colours, looked up through sensors with index
  arithmetic. The rules are about pieces, over a game of any length.
* **Player and Arena** are two views of the same pieces. The player's is updated
  at once, the scene's a frame later, and any number of events falls in between.
* **NetworkClient** connects on another thread, queues what the OS does not take,
  and is used by states that come and go; **the states** poll it in one screen
  and not in the next. Closing the window has to wait for that thread.
* **The GUI** turns press, drag and release into hover, press and focus while
  callbacks replace the container that is handling the event.

## Modules

| module | models |
|---|---|
| `MatchRegistry` | what the server promises: players open, join and leave matches |
| `GameServer` | `src/src/server/GameServer.cpp`, every step of the tick; peers are external |
| `Containers` | maps and vectors as the code uses them (`operator[]`, `erase`, erase-remove) |
| `Polyominoes` | geometry of pieces: normalisation, rotation, reflection, sensors |
| `Referee` | `src/src/shared/Referee.cpp`: validation, placement, scores |
| `ArenaSession` | Player, CommandQueue, Arena, TrayNode, BoardNode, PieceNode with an instance of `Referee` |
| `PolyominoGenerator` | the construction of the library of pieces |
| `ServerPort` | what one client sees of the server: the client's side relies on it, `GameServer` implements it |
| `NetworkClient` | `NetworkClient.hpp`: connection, queue and polling, with the link and a `ServerPort` at its end |
| `ClientSession` | the screens and the state stack on top of `NetworkClient` |
| `TextBox` | `TextBox.cpp` as operators on the editor's state |
| `GuiContainer` | `Container.cpp` with its buttons and a `TextBox`; the mouse cursor of a screen |
| `GameServerMC`, `RefereeMC`, `ArenaSessionMC`, `ClientSessionMC`, `GuiContainerMC` | small instances for TLC |
| `ContainerProofs`, `GameServerProofs`, `GameServerPortProofs`, `RefereeProofs`, `ArenaSessionProofs`, `ClientSessionProofs`, `GuiContainerProofs`, `PolyominoGeneratorProofs` | theorems and proofs |

### GameServer

A step of the model is one accepted connection, one packet, one client's flush
or one removal. Between steps a peer sends a request (`PeerSend`) or closes its
connection (`PeerClose`, what it sent still readable or lost to a reset).

| code | model |
|---|---|
| `run`: `mSelector.wait` | `SelectorWait`: who is ready is decided once a tick |
| `handleIncomingConnections` | `HandleIncomingConnections` |
| `handleIncomingPackets`, one `receive()` | `DropRateLimited`, `DropOversized`, `ProcessPacket` and the actions built on it, `PeerGone`, `Drained` |
| `handleTitleStatePackets` | `DropMalformed`, `CreateMatch`, `RefuseJoin`, `JoinMatch` |
| `handleUsernameStatePackets` | `IgnoreInUsernameState` |
| `flushOutgoingQueues`, one client | `FlushAll`, `FlushBlocked`, `FlushFailed` |
| `removeClient`, in the loop over the flagged ids | `RemoveClient` in `RemoveNext` |

* A request is what the server reads of a packet; whatever cannot be read is
  `Malformed`. A packet of which only a part has arrived makes a socket ready and
  drains at once, like an empty one.
* `mSocketToID`, `Match::matchCode` and `Client::username` are written but never
  read, and are left out. `replies` is a history variable.
* Clients are visited in any order, as a hash map may.

### Referee

The board is the code's: one team (or None) per index, with `getIndex`. The
variable `placed` is a history of the accepted placements as sets of cells.
The rules are stated about `placed`; the code only sees the board. `place` is
one action: validation, first-move flag, cells, score.

### ArenaSession

A frame is a phase `"input"`, in which events are handled, and a phase
`"update"`, in which the queued commands are executed one by one. Player's
handler is split by what it decides: `PressPlace`, `PressReturn`, `PressGrab`,
`PressNothing`, `PressKey`, `MoveMouse`, `OtherEvent`, each the whole handler
with the shadow pushed at its end. The piece a command finds is the one the tray or the Arena
lists then. An assertion that fails is recorded in `failed` and stops the
program: the default CMake build is a debug build.

| code | model |
|---|---|
| the layers' places, `calculateSlotPosition` | `NodePosition`, `calculateSlotPosition` |
| `PieceNode::setId`, `setCentroid` | `setId`, `getCentroid`; the origin moves, the position does not |
| `TrayNode::getPieceAt` | `getPieceAt`, over the blocks of each piece in world coordinates |
| `Arena::grabPiece`, `placePiece`, `returnPiece` | `ExecuteGrab`, `ExecutePlace`, `ExecuteReturn`, each with its `Reparent` |
| `BoardNode::getMinSnappedGrid`, `drawShadow` | the same names |

* Positions are pixels of the world: a piece has a position and an origin in the
  layer that holds it, and its blocks are where both put them. The cell below a
  held piece is computed with the code's centroid and `std::round`. Pixels are
  integers: `GridSize` is chosen so that every centroid is one.
* A piece is named by its slot, ids and the library's tables are constants.
* The Arena's pointer to the piece in hand is not initialised: it starts as null or
  as `Wild`.
* Known from the model, and claimed by nobody otherwise: the grab a frame executes
  puts the piece where the press was, so moves handled in the same frame do not
  show until the next one. The history variable `outrun` says that this is how
  the mouse last moved, `shownAt` where the press was: `HeldPieceUnderMouse` puts
  the piece there then, and under the mouse otherwise.
* Of the tables nothing is assumed but that turning a piece keeps its canonical
  id (`TablesAssumption`), which `TurningStaysInTheSlot` proves of the tables that
  `PolyominoGenerator` fills.
* Left out: textures and drawing. The tree below a layer never changes its shape
  and is folded into the positions.

### PolyominoGenerator

The constructor's loops, one candidate cell a step: a level starts with the
pieces queued for it (`StartLevel`), each is taken (`TakePiece`) and extended by
every free cell next to it (`Extend`, which is `Register` and `Record` with all
their writes). The tables are partial functions: what has been written so far.
The order of the code's sets and maps decides the ids and is modelled (`Before`,
`Less`). `AllPieces` is the reference, which knows nothing of shapes: every piece
in every position is extended.

### NetworkClient and ClientSession

Three parties run between any two steps of the GUI thread: the thread in
`connect()`, the link, and the server as a `ServerPort`.

| code | model |
|---|---|
| `connect`, on the thread of `std::async` | `Resolve`, `TcpConnect`, `TcpFails`, `HandshakeComplete`, `HandshakeFails` |
| `sendPacket`, `flushOutgoingQueue` | `SendPacket`, `Flush`: any number of packets leaves, then the OS blocks or the link is found gone |
| `pollPacket` | `PollAnswer`, `PollDisconnected`, `PollNothing` |
| `disconnect` and `connect` from the lobby | `Reconnect` |
| `StateStack::applyPendingChanges` | `Apply`, part of the event or update that ends with it |
| `TitleState::update`, `processPacket` | `JoinConnector`, then `PollPacket` packet by packet and `EndUpdate` |
| buttons and keys of the screens | `CreatePressed`, `JoinPressed`, `JoinGame`, `Leave`, `Escape`, `Enter` |
| `sf::Event::Closed`, `Application`'s members destroyed in order | `CloseWindow`; `Quit`, which waits for `connect()`, with `Destroy` |

* While the future of `connect()` is not joined, `mIsConnected` is read by the GUI
  and written by the other thread: `SeesConnected` gives the read both outcomes.
* That the far end is a `ServerPort` is an assumption here and a theorem about
  `GameServer` (`ImplementsPorts`, for every one of its clients).
* The queue outlives the connection, as in the code; packets in it go out on the
  next one. A send may stop inside a packet (`begun`). SFML keeps where it stopped
  in the packet, so that a new connection starts with the rest of it: the server
  takes its bytes for a size, and the stream is out of step (`inStep`).
* `asked` (what a connection is to carry) and `left` (Leave was pressed) are
  history variables.
* Known from the model, and claimed by nobody otherwise: Leave tells the server
  nothing, so that it keeps the client in its match; the title screen does not
  try again once a connection attempt has failed; a packet left half sent makes
  the next connection useless, which is why `NothingOvertakes` asks for `inStep`.
  What is left in the queue counts as asked of the next connection: the property
  says that it goes first and in order, not that it should go at all. For the
  same reason `TitleTellsNoMatch` exempts a user who pressed Leave (`left`).
* Left out: the status line, names, the lobby's list of players, layout.

### TextBox and GuiContainer

A step is one event of the window, one update of a frame, or the replacement of
the screen, which may come at any time: by a callback, a key or an answer of the
server. `Container::handleEvent` is split by what it decides, each action the
whole branch with what the children do in it. `TextBox` has the editor's
operations as operators on a record with the code's fields.

* Which character the mouse points at is any index of the text; the timers of
  cursor and key repeat have run out or not.
* A screen sets the mouse cursor after its container handled a move, the title
  screen after clicks too (`cursorOnClicks`); it remembers what it last set. A new
  screen remembers an arrow, whatever the window shows: until a child is hovered,
  the cursor of the screen before may stay. The window is taken to go on showing
  it, though its `sf::Cursor` has gone with the screen.
* Each screen loads its cursors anew, and those in `MayLack` may fail
  (`mLoadedCursors`). Of a cursor that is not loaded `setMouseCursor` sets and notes
  nothing, so that the one shown before stays, and `CursorTellsChild` is about
  those that are.
* Children do not overlap, and a screen has one text box. Every key event
  reaches the program. A failed assertion stops it (`failed`).

## Runs

| run | instance | shows |
|---|---|---|
| `server_protocol` | 2 connections with 2 requests and 1, matches of 2, 1 packet per tick | types; answers and membership agree; each client is served as `ServerPort` says; flagged and departed clients go, requests are served |
| `server_matches` | 3 connections with 1 request each, matches of 2, 1 packet per tick | tables agree, no overfull match, the server implements `MatchRegistry` |
| `server_flagged` | 1 connection, 2 packets per tick | **violated**: a flagged client enters a match |
| `referee_rules` | 4x4 board, 2 teams, small pieces | the check decides the rules; board, flags, scores tell the pieces; edges apart, pieces hang together |
| `piece_library` | the code's sizes: 5, 21, 91 | tables are filled exactly and agree; extending one piece of each shape reaches all |
| `arena_frames` | 2 pieces, one of which turns, 5 commands a frame | player and scene agree after every frame; placements and returns find their piece; the held piece is under the mouse, or where the press of its grab was; drawn board is the referee's; shadow tells what a press does |
| `arena_grab` | 2 pieces that turn, 3 commands | **violated**: the tray does not find the piece to grab |
| `client_screens` | 2 connections, 3 packets each, 2 codes | one screen, one user of the socket, packets in order, screen and server agree on the match; connecting and closing end, a granted match is shown |
| `client_retry` | 2 connections, 2 packets each | **violated**: a blocked packet is not tried again |
| `gui_events` | 2 buttons, a text box of 3 characters | container and children agree; the mouse cursor tells the child, if it was loaded; selection and edits of the text |
| `gui_limit` | a text box of 2 characters | **violated**: a full box does not replace its highlight |
| `gui_release` | 1 button, 1 text box | **violated**: a release without a press |

Bounds. In the server runs `MaxConnections` and `MaxSent` bound how many clients
ever connect and what each may send; three clients are what a match of two, a
competitor and a departure need, and two requests make a batch, a repetition and
a request after a refusal. `MAX_PACKETS_PER_TICK` is small so that it is
exceeded. Codes are interchangeable, hence the symmetry where no liveness is
checked. On a 4x4 board two teams meet, chains of pieces grow and index
arithmetic can wrap. The library is built with the code's own constants, so
nothing is bounded there. `MaxCommands` bounds the queue of a frame: five
commands are two presses and one more event, enough to grab and place, or to
place and grab again, with a move in between; a third press of a frame is left to
the theorems, which bound nothing. The mouse is at
four places: a cell of the board, a line between two cells, where rounding
decides, and a point in each slot that its piece covers both in the tray and in
the hand. `Padding` and `SlotPadding` differ, so that no two frames of reference
coincide. `MaxAttempts`
and `MaxAsked` bound connections and the packets of each: two connections let a
stale queue and a stale answer meet a new one, three packets block and overtake
if they can. Of the three cursors `gui_events` lets two fail to load, the arrow that a
new screen believes in and the hand of the buttons. Three characters hold a highlight
with text on both sides.

Deadlock is not checked for `Referee`, `PolyominoGenerator`, `ArenaSession`,
`ClientSession` and `GuiContainer`: a game ends when nobody can move, a constructor
returns, a failed assertion ends the process, and a user who has used up
`MaxAttempts` and `MaxAsked` may do nothing more.

Fairness. In `server_protocol`: weak fairness of the server's thread, since `run`
loops for ever, and strong fairness of `FlushAll` for a client whose connection is
open, since the OS drains a send buffer eventually; nothing of the peers. In
`client_screens` and `client_retry`: weak fairness of the GUI thread, which updates
the screens in every frame and ends when the window is closed (`Update` or
`Quit`), of every stage of `connect()` that returns or runs into its time limit (the
handshake may never complete), of the server and of the link while it lasts.
Nothing is assumed of the user, nor of the OS: that it does not refuse every single
send is `NotAlwaysBlocked`, a hypothesis of `BlockedIsRetried` and no part of the
specification.

## Findings

* `server_flagged`: a malformed packet flags the client, but its batch is drained
  on, and a join behind it takes a place in a match until the end of the tick.
  The test describes the handler as "instantly kill the client".
* `arena_grab`: a press on a piece in the tray and a transformation key handled in
  the same frame make `TrayNode::withdrawPiece` look for an id that no piece has
  any more; its assertion fails.
* `client_retry`: the comment on a blocked send promises "retry next tick", but the
  queue is flushed by `sendPacket` only: the packet waits for the user to press a
  button again.
* `gui_limit`: the limit is compared with the text before the highlight is deleted,
  so a full text box ignores what its test describes as a replacement.
* `gui_release`: a screen that is replaced while the mouse button is down gets the
  release without the press, and the container's assertion fails.

## Proofs

For all values of the constants allowed by the `ASSUME`s of the modules.

* `GameServerProofs`: `TypeCorrect`, `TablesAgree`, `NeverOverfull` and
  `ImplementsRegistry`. The inductive invariant is the conjunction of `TypeOK`,
  `MatchesConsistent` and `MatchesWithinCapacity`. Consistency alone is not
  inductive: that a fresh client is in no match needs the ids in use to be below
  `mNextClientID`, and the refinement of a join needs matches without duplicates to
  turn the length of the vector into a cardinality. `ContainerProofs` has what
  erase-remove does to a vector. From `ServerAssumption`.
* `GameServerPortProofs`: `AnswersAreTrue` and `ImplementsPorts`, on top of the above;
  with them every safety property of the server is proved. To the tables'
  agreement the invariant adds that nobody is answered before being connected: a
  new client's answers are then empty, as its membership is. The refinement takes a
  client apart from all others: a step that the client sees nothing of leaves
  its answers, its requests and its standing alone.
* `RefereeProofs`: `TypeCorrect`, `BoardFaithful`, `CheckDecidesRules`,
  `EdgesStayApart`, `PiecesHangTogether`, `ScoresCount`, on boards of any size with
  any library of pieces. The inductive invariant joins the type invariant with
  the agreement of board and history, the separation of edges, and the
  conjunct that every piece but a team's first touches an earlier one in a corner.
  From `RefereeAssumption`: shapes are finite and not empty, the board has a cell,
  at most four teams.
* `ArenaSessionProofs`: `TypeCorrect`, `PiecesStayAccountedFor`, `CommandsFindThePiece`,
  `BoardIsReferees`, `ShadowIsRight` and `HeldUnderMouse`: every property of
  `arena_frames`, for any number of pieces and events in a frame. All but the first
  speak of the moment when a frame's commands are done. What leads there is the
  plan (`PlanInv`): there is a sequence of outlooks, one before each queued command
  and one after the last, such that the first is the scene as it is, each command
  takes one to the next, and the last is what the player and the referee already
  believe. An event makes the plan longer by what it does to the player's view, an
  executed command makes it shorter. A queue in which a piece is grabbed that an
  earlier command has just put on the board (the tray listed it when it was
  pressed) is not feasible: the grab's assertion will stop the program, and only
  until then the referee's board need not agree with the plan's end. Beside the plan the
  invariant says where the held piece is or which grab is to bring it (`HeldInv`),
  that a piece is the one of its slot however it was turned (`PieceInv`), and that
  the shadow's is the queue's last word (`ShadowInv`); `HeldUnderMouse` adds that
  moves no grab outruns are shown (`OutrunInv`). What the referee keeps comes
  from `RefereeProofs`, instantiated. From `GameAssumption`, `TablesAssumption`,
  `DeckAssumption` and `LayoutAssumption`; the last one also says that a centroid's
  sum is an integer, which of a fold over a set cannot be derived by the provers.
* `ClientSessionProofs`: `TypeCorrect`, `OneScreenAtATime`, `SocketHasOneUser`,
  `PacketsKeepOrder`, `ScreenIsRight` and `TitleIsRight`, for any number of
  connections and packets. None of them is inductive alone. `ScreenTellsMatch` needs to know
  that the answer which lets the client in is the server's last one
  (`GrantComesLast`), that `connect` leaves nothing read of the connection before
  (`ConnectedAfresh`), and what a screen that is only pending will tell
  (`MatchTold`); `NothingOvertakes` is taken from the moment the link is there,
  before `connect` returns (`SentInOrder`). From `NetworkAssumption` and
  `SessionAssumption`.
* `GuiContainerProofs`: `TypeCorrect`, `ContainerAndChildrenAgree`, `NoHoverStaysBehind`,
  `CursorIsRight`, `NoKeyGoesOnRepeating`, `SelectionStaysInText` and the action property
  `EveryEditIsLocal`, for any number of buttons, any text and any limit. The
  invariant adds that a press holds the hover of what it pressed. `CursorIsRight`
  holds whichever cursors could be loaded. The text box is
  proved operator by operator (what erasing, inserting, selecting and repeating
  keep of a box), the container action by action. From `ContainerAssumption` and
  `TextBoxAssumption`.

* `PolyominoGeneratorProofs`: `OrbitIsSymmetric`, `TablesAgreeWithGeometry`,
  `CanonicalIdsTellShapes`, `TurningStaysInTheSlot`, `LibraryIsComplete` and
  `TablesKeepTheirTypes`, for pieces of any size. The geometry comes first, as lemmas
  about the operators of `Polyominoes`: normalising twice is normalising once, four
  turns or two mirrors give a piece back, and the cells next to a turned piece are
  those next to the piece, turned. The eight symmetries are therefore closed under
  both operations and seven rounds reach them all. The orders of the code's sets
  are shown to be total, so that each new piece gets an id of its own. The
  invariant (`IInv`) has the tables agreeing with each other (`LibraryInv`) and the
  search complete (`SearchInv`): of every piece of the level, in any position, the
  shape is still in the queue, or it is the one being extended and the cells not
  yet tried are still among the candidates, or all its extensions are in the
  library. The theorems are about states in which the canonical ids have not run
  out (`mCanonicalPointer <= CanonicalCount`), and the last also about those in
  which the others have not: beyond that the code writes past its arrays. That 21
  and 91 are enough for pieces of up to 5 blocks is what `piece_library` shows
  (`TypeOK`). From `GeneratorAssumption`.

Only model-checked: liveness, which is beyond the prover (the last properties of
`server_protocol` and `client_screens`), and that the sizes of the library's
tables suffice, a matter of counting.

## Plan

The order followed what matters most: the server and the rules first, with
proofs, then the scene, the client, the GUI and the library of pieces.

1. GameServer, MatchRegistry, ServerPort - modelled; every safety property and both
   refinements proved.
2. Referee, ArenaSession - modelled and proved.
3. NetworkClient, ClientSession - modelled, with the closing of the application;
   every safety property proved.
4. TextBox, GuiContainer - modelled, with the mouse cursors, and proved.
5. PolyominoGenerator - modelled and proved.
6. To do, models: the lobby's and username screen's details should they get
   server support.

## Not modelled

* Drawing, layout of the screens, resources, statistics, the benchmark and the
  deployment files: input and output without state that matters.
* Bytes of packets: the models speak of what is read of them.
* What no code uses yet: `LobbyState`'s players (nothing calls `addPlayer` or
  `removePlayer`), the username (nobody sends or keeps it), `StateStack`'s Clear.
* The loop of `Application::run` that splits time into updates: an update may come
  at any time in every model, which covers any split.
* Events the window system loses: every press and release of a key or button is
  taken to reach the program.
