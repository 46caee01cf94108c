--------------------------- MODULE NetworkClient ---------------------------
(***************************************************************************)
(* The client's connection (src/include/client/Network/NetworkClient.hpp): *)
(* connect() runs on a thread of its own, sendPacket, pollPacket and       *)
(* disconnect on the GUI's, over a link that delays what it carries and    *)
(* may break at any moment.  The far end is a ServerPort, which is what    *)
(* GameServer.tla implements for each of its clients.                      *)
(***************************************************************************)
EXTENDS Naturals, Sequences, SequencesExt

CONSTANTS Codes,       \* match codes
          MaxAttempts, \* bound: how often connect() is called
          MaxAsked     \* bound: packets asked of one connection

ASSUME NetworkAssumption == MaxAttempts \in Nat /\ MaxAsked \in Nat

Request == [type : {"CreateMatch"}]
             \cup [type : {"JoinMatch"}, code : Codes]

-----------------------------------------------------------------------------
VARIABLES
    mIsConnected,    \* the connection is believed to be up
    mOutgoingQueue,  \* packets not yet handed to the OS
    begun,           \* sf::Packet: a part of the first of them has been sent
    connector,       \* where the thread in connect() is; "none" without one
    attempts,        \* how often connect() has been called
    linkUp,          \* the link to the server carries data
    wire,            \* packets on their way to the server
    inStep,          \* what it carries started with a whole packet
    standing, requests, answers,  \* the ServerPort at the other end
    arrived,         \* how many of the answers have reached our socket
    taken,           \* how many of those pollPacket has returned
    asked            \* history: the packets this connection is to carry

port == <<standing, requests, answers>>
outgoing == <<mOutgoingQueue, begun>>
link == <<linkUp, wire, inStep, port, arrived, taken, asked>>
network == <<mIsConnected, outgoing, connector, attempts, link>>

Port == INSTANCE ServerPort

NetworkInit ==
    /\ mIsConnected = FALSE
    /\ mOutgoingQueue = << >>
    /\ begun = FALSE
    /\ connector = "none"
    /\ attempts = 0
    /\ linkUp = FALSE
    /\ wire = << >>
    /\ inStep = TRUE
    /\ Port!Init
    /\ arrived = 0
    /\ taken = 0
    /\ asked = << >>

-----------------------------------------------------------------------------
(* connect(), on the thread std::async starts for it.                      *)

Connecting == connector \in {"resolve", "connect", "handshake"}

StartConnect ==
    /\ connector' = "resolve"
    /\ attempts' = attempts + 1
    /\ UNCHANGED <<mIsConnected, outgoing, link>>

\* connect() returns false; on the way out it drops what it had set up.
ConnectFails ==
    /\ connector' = "failed"
    /\ mIsConnected' = FALSE
    /\ linkUp' = FALSE
    /\ UNCHANGED <<outgoing, attempts, wire, inStep, port, arrived, taken, asked>>

Resolve ==
    /\ connector = "resolve"
    /\ \/ /\ connector' = "connect"
          /\ UNCHANGED <<mIsConnected, outgoing, attempts, link>>
       \/ ConnectFails

\* A new link to a server that knows nothing of us.  Packets still queued
\* from an earlier connection stay queued; of one that was begun there only
\* the rest will be sent here.
TcpConnect ==
    /\ connector = "connect"
    /\ connector' = "handshake"
    /\ linkUp' = TRUE
    /\ wire' = << >>
    /\ inStep' = ~begun
    /\ standing' = "new" /\ requests' = << >> /\ answers' = << >>
    /\ arrived' = 0
    /\ taken' = 0
    /\ asked' = mOutgoingQueue
    /\ UNCHANGED <<mIsConnected, outgoing, attempts>>

\* TCP's own time limit of five seconds.
TcpFails == connector = "connect" /\ ConnectFails

HandshakeComplete ==
    /\ connector = "handshake"
    /\ linkUp
    /\ connector' = "connected"
    /\ mIsConnected' = TRUE
    /\ UNCHANGED <<outgoing, attempts, link>>

\* Variant: the handshake is waited for without a limit.
HandshakeAwaited == connector = "handshake" /\ UNCHANGED network

\* An error, or the deadline of the handshake loop.
HandshakeFails == connector = "handshake" /\ ConnectFails

Connector == Resolve \/ TcpConnect \/ TcpFails \/ HandshakeComplete
                     \/ HandshakeFails

-----------------------------------------------------------------------------
(* The GUI thread's operations.                                            *)

\* Until the future is joined, what the GUI reads of mIsConnected races with
\* the write in connect(): it may miss it.
SeesConnected ==
    IF connector = "connected" THEN BOOLEAN ELSE {mIsConnected}

\* flushOutgoingQueue: the first n packets are handed to the OS; then the
\* queue is empty, the OS would block, perhaps after a part of the next, or
\* the link turns out to be gone and the rest is dropped.  A broken link may
\* swallow packets unnoticed; behind the rest of a packet the server takes
\* sizes for data and waits for more, or finds the packet malformed.
Flush(queue, n) ==
    /\ wire' = IF linkUp /\ inStep THEN wire \o SubSeq(queue, 1, n) ELSE wire
    /\ UNCHANGED linkUp
    /\ \/ /\ mOutgoingQueue' = SubSeq(queue, n + 1, Len(queue))
          /\ begun' \in BOOLEAN
          /\ n = Len(queue) => ~begun'
          /\ n = 0 /\ begun => begun'
          /\ UNCHANGED mIsConnected
       \/ /\ n < Len(queue)
          /\ ~linkUp
          /\ mOutgoingQueue' = << >>
          /\ begun' = FALSE
          /\ mIsConnected' = FALSE

\* Variant: the new packet is tried first.
QueuedFirst(m) == <<m>> \o mOutgoingQueue

\* The queue with the packet m in it.
Queued(m) == Append(mOutgoingQueue, m)

SendPacket(m) ==
    \E seen \in SeesConnected :
       IF seen
       THEN /\ Len(asked) < MaxAsked
            /\ asked' = Append(asked, m)
            /\ \E n \in 0 .. Len(mOutgoingQueue) + 1 : Flush(Queued(m), n)
            /\ UNCHANGED <<connector, attempts, inStep, port, arrived, taken>>
       ELSE UNCHANGED network

\* pollPacket returns the next answer ...
PollAnswer ==
    /\ mIsConnected
    /\ taken < arrived
    /\ taken' = taken + 1
    /\ UNCHANGED <<mIsConnected, outgoing, connector, attempts,
                   linkUp, wire, inStep, port, arrived, asked>>

\* ... or notices that the link is gone once nothing is left to read ...
PollDisconnected ==
    /\ mIsConnected
    /\ taken = arrived
    /\ ~linkUp
    /\ mIsConnected' = FALSE
    /\ UNCHANGED <<outgoing, connector, attempts, link>>

\* ... or has nothing to return.
PollNothing ==
    /\ mIsConnected => taken = arrived /\ linkUp
    /\ UNCHANGED network

\* Variant: disconnect() does nothing.
ConnectAnyway ==
    /\ connector' = "resolve"
    /\ attempts' = attempts + 1
    /\ UNCHANGED <<mIsConnected, outgoing, link>>

\* disconnect(), which leaves the queue as it is, and then connect().
Reconnect ==
    /\ mIsConnected' = FALSE
    /\ linkUp' = (linkUp /\ ~mIsConnected)
    /\ connector' = "resolve"
    /\ attempts' = attempts + 1
    /\ UNCHANGED <<outgoing, wire, inStep, port, arrived, taken, asked>>

\* The destructor closes the socket under whoever uses it.
Destroy ==
    /\ mIsConnected' = FALSE
    /\ linkUp' = FALSE
    /\ mOutgoingQueue' = << >> /\ begun' = FALSE
    /\ UNCHANGED <<attempts, wire, inStep, port, arrived, taken, asked>>

-----------------------------------------------------------------------------
(* The link and the server.                                                *)

ServerActs ==
    /\ linkUp
    /\ Port!Accept \/ Port!Serve
    /\ UNCHANGED <<mIsConnected, outgoing, connector, attempts, linkUp,
                   wire, inStep, arrived, taken, asked>>

\* The next packet reaches the server's end.
Carry ==
    /\ linkUp
    /\ wire # << >>
    /\ Port!Arrive
    /\ Last(requests') = Head(wire)
    /\ wire' = Tail(wire)
    /\ UNCHANGED <<mIsConnected, outgoing, connector, attempts, linkUp,
                   inStep, arrived, taken, asked>>

\* The next answer reaches ours.
Deliver ==
    /\ linkUp
    /\ arrived < Len(answers)
    /\ arrived' = arrived + 1
    /\ UNCHANGED <<mIsConnected, outgoing, connector, attempts, linkUp,
                   wire, inStep, port, taken, asked>>

\* The link breaks, or the server lets go of us: what was on its way is
\* lost, except for the answers that still arrive before the end.
LinkBreaks ==
    /\ linkUp
    /\ linkUp' = FALSE
    /\ wire' = << >>
    /\ \/ standing = "new" /\ UNCHANGED port
       \/ Port!Go
    /\ arrived' = Len(answers')
    /\ taken <= arrived'
    /\ UNCHANGED <<mIsConnected, outgoing, connector, attempts, inStep,
                   taken, asked>>

Link == ServerActs \/ Carry \/ Deliver \/ LinkBreaks

=============================================================================
