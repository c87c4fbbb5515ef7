------------------------------ MODULE Inbound ------------------------------
(***************************************************************************)
(* inbound.rs and the receiving half of transport.rs: three parties share  *)
(* one message queue.  The IDF websocket client's task connects, loses the *)
(* socket, connects again by itself, and calls on_event for every piece of *)
(* a frame; NervesHub sends messages over whichever socket is up; and the  *)
(* agent's thread waits for the first connection, joins, and reads.        *)
(*                                                                         *)
(* Every buffer-full is one unit of size.  A message comes out of the      *)
(* client as so many pieces, over one frame or more.                       *)
(***************************************************************************)
EXTENDS Naturals, Sequences, FiniteSets

CONSTANTS
    Messages,           \* what NervesHub may send: [headers, binary, utf8]
    MAX_UNREAD_BYTES,   \* in pieces
    MaxSockets,         \* bound on how often the client connects
    MaxAttempts         \* bound on attempts that fail before the first does

\* What the client says of a piece.
Headers == [opcode : {"CONTINUATION", "TEXT", "BINARY"}, fin : BOOLEAN,
            offset : Nat, payload_len : Nat]

ASSUME MessagesAssumption ==
    Messages \subseteq [headers : Seq(Headers), binary : BOOLEAN, utf8 : BOOLEAN]

\* The first piece of a message is the only one at the start of a frame that
\* gives a kind, and the last the only one at the end of a final frame.
ASSUME FramingAssumption ==
    \A m \in Messages :
        /\ m.headers # <<>>
        /\ m.headers[1].opcode = IF m.binary THEN "BINARY" ELSE "TEXT"
        /\ \A k \in 1..Len(m.headers) :
              /\ m.headers[k].opcode # "CONTINUATION" /\ m.headers[k].offset = 0 <=> k = 1
              /\ m.headers[k].offset + 1 >= m.headers[k].payload_len /\ m.headers[k].fin
                    <=> k = Len(m.headers)

ASSUME SizesAssumption ==
    MAX_UNREAD_BYTES \in Nat /\ MaxSockets \in Nat /\ MaxAttempts \in Nat

VARIABLES
    \* The IDF client.
    client,         \* "wait": no socket; "up": connected, and the event not yet
                    \* raised; "ready": connected and raised
    sockNo,         \* sockets so far
    arriving,       \* pieces of the message on its way over this socket
    \* Inbound, behind the mutex.
    partial,        \* the pieces of a message being put together
    binary,         \* the kind of that message
    unread,
    overflowed,
    closes,
    closes_before_connecting,   \* an Option, as a set
    \* The channel and the agent's thread.
    queue,          \* Incoming values sent and not received
    apc,            \* "connecting", "session", "counting" or "over"
    inHand,         \* the frame received and not yet counted off, as a sequence
    joinSock        \* the socket the session sent its join on

inboundVars == <<partial, binary, unread, overflowed, closes, closes_before_connecting>>
agentVars == <<apc, inHand, joinSock>>
vars == <<client, sockNo, arriving, inboundVars, queue, agentVars>>

----------------------------------------------------------------------------
(* Messages and their pieces.                                              *)

\* The k-th piece of message m, sent over socket sock.
Piece(m, k, sock) == [header |-> m.headers[k], msg |-> m, nth |-> k, sock |-> sock]

\* All its pieces.
Pieces(m, sock) == [k \in 1..Len(m.headers) |-> Piece(m, k, sock)]

Frame(pieces, isBinary) == [kind |-> "Frame", pieces |-> pieces, binary |-> isBinary]
\* With the socket it is the close of, as history: 0 for an attempt that never
\* had one.
Closed(n, sock) == [kind |-> "Closed", n |-> n, sock |-> sock]
Overflow == [kind |-> "Overflow"]

FrameLen(incoming) == IF incoming.kind = "Frame" THEN Len(incoming.pieces) ELSE 0

\* The bytes of the frames in a sequence of Incoming values, and how many.
Held(incomings) ==
    UNION {{i} \X (1..FrameLen(incomings[i])) : i \in 1..Len(incomings)}
Bytes(incomings) == Cardinality(Held(incomings))

----------------------------------------------------------------------------

Init ==
    /\ client = "wait" /\ sockNo = 0 /\ arriving = <<>>
    /\ partial = <<>> /\ binary = FALSE /\ unread = 0 /\ overflowed = FALSE
    /\ closes = 0 /\ closes_before_connecting = {}
    /\ queue = <<>>
    /\ apc = "connecting" /\ inHand = <<>> /\ joinSock = 0

----------------------------------------------------------------------------
(* The client's task: on_event, under the mutex.                           *)

\* Inbound::closed, and its result sent to the agent.
ReportClosed ==
    /\ closes' = closes + 1
    /\ queue' = Append(queue, Closed(closes + 1, sockNo))

\* DISCONNECTED for an attempt that failed before there was a connection.
AttemptFails ==
    /\ client = "wait"
    /\ sockNo = 0
    /\ closes < MaxAttempts
    /\ ReportClosed
    /\ UNCHANGED <<client, sockNo, arriving, partial, binary, unread, overflowed,
                   closes_before_connecting, agentVars>>

\* The client connects, for the first time or again, by itself.
ClientConnects ==
    /\ client = "wait"
    /\ sockNo < MaxSockets
    /\ client' = "up"
    /\ sockNo' = sockNo + 1
    /\ UNCHANGED <<arriving, inboundVars, queue, agentVars>>

\* As Connected, with every connection counting as the first.
Connected_Mut ==
    /\ client = "up"
    /\ client' = "ready"
    /\ closes_before_connecting' = {closes}
    /\ UNCHANGED <<sockNo, arriving, partial, binary, unread, overflowed, closes,
                   queue, agentVars>>

\* WEBSOCKET_EVENT_CONNECTED: Inbound::connected.
Connected ==
    /\ client = "up"
    /\ client' = "ready"
    /\ closes_before_connecting' =
          IF closes_before_connecting = {} THEN {closes} ELSE closes_before_connecting
    /\ UNCHANGED <<sockNo, arriving, partial, binary, unread, overflowed, closes,
                   queue, agentVars>>

\* DISCONNECTED or CLOSED: the socket is gone, whatever was on its way with it.
Disconnected ==
    /\ client = "ready"
    /\ client' = "wait"
    /\ arriving' = <<>>
    /\ ReportClosed
    /\ UNCHANGED <<sockNo, partial, binary, unread, overflowed,
                   closes_before_connecting, agentVars>>

\* A close frame is reported too, ahead of the event for the socket it ends.
CloseFrame ==
    /\ client = "ready"
    /\ arriving = <<>>
    /\ closes < sockNo + MaxAttempts
    /\ ReportClosed
    /\ UNCHANGED <<client, sockNo, arriving, partial, binary, unread, overflowed,
                   closes_before_connecting, agentVars>>

\* As Gathered, with every piece of a text or binary frame taken for its first.
Gathered_Mut(piece) ==
    IF piece.header.opcode # "CONTINUATION" THEN <<>> ELSE partial

\* A text or binary frame's first piece starts a message.
Starts(piece) == piece.header.opcode # "CONTINUATION" /\ piece.header.offset = 0

\* What of partial a new piece carries on.
Gathered(piece) == IF Starts(piece) THEN <<>> ELSE partial

Kind(piece) == IF Starts(piece) THEN piece.header.opcode = "BINARY" ELSE binary

\* Whether the piece is the last of its message.
Completes(piece) == piece.header.offset + 1 >= piece.header.payload_len /\ piece.header.fin

Exceeds(piece) == unread + Len(Gathered(piece)) + 1 > MAX_UNREAD_BYTES

\* A piece past the limit: nothing from here on is kept.
PieceOverflows(piece) ==
    /\ ~overflowed
    /\ Exceeds(piece)
    /\ overflowed' = TRUE
    /\ partial' = <<>>
    /\ binary' = Kind(piece)
    /\ queue' = Append(queue, Overflow)
    /\ UNCHANGED unread

\* A piece of a message with more to come.
PieceKept(piece) ==
    /\ ~overflowed
    /\ ~Exceeds(piece)
    /\ ~Completes(piece)
    /\ partial' = Append(Gathered(piece), piece)
    /\ binary' = Kind(piece)
    /\ UNCHANGED <<unread, overflowed, queue>>

\* The last piece of a message, which is handed on unless it is text that is
\* not UTF-8.
PieceCompletes(piece) ==
    /\ ~overflowed
    /\ ~Exceeds(piece)
    /\ Completes(piece)
    /\ partial' = <<>>
    /\ binary' = Kind(piece)
    /\ LET message == Append(Gathered(piece), piece)
       IN  IF Kind(piece) \/ piece.msg.utf8
           THEN /\ unread' = unread + Len(message)
                /\ queue' = Append(queue, Frame(message, Kind(piece)))
           ELSE UNCHANGED <<unread, queue>>
    /\ UNCHANGED overflowed

PieceDropped ==
    /\ overflowed
    /\ UNCHANGED <<partial, binary, unread, overflowed, queue>>

\* WEBSOCKET_EVENT_DATA: Inbound::piece, and its result sent.
Data ==
    /\ client = "ready"
    /\ arriving # <<>>
    /\ LET piece == Head(arriving)
       IN  PieceOverflows(piece) \/ PieceKept(piece) \/ PieceCompletes(piece) \/ PieceDropped
    /\ arriving' = Tail(arriving)
    /\ UNCHANGED <<client, sockNo, closes, closes_before_connecting, agentVars>>

----------------------------------------------------------------------------
(* NervesHub, which speaks once it has been spoken to on a socket, joined   *)
(* or not: Phoenix answers heartbeats either way.                          *)

ServerSends ==
    /\ client = "ready"
    /\ arriving = <<>>
    /\ apc \in {"session", "counting"}
    /\ Len(queue) < MAX_UNREAD_BYTES + 1
    /\ \E m \in Messages : arriving' = Pieces(m, sockNo)
    /\ UNCHANGED <<client, sockNo, inboundVars, queue, agentVars>>

----------------------------------------------------------------------------
(* The agent's thread: connect, then recv_frame.                           *)

\* connect polls is_connected, and the join goes out over whichever socket
\* that is.
ConnectReturns ==
    /\ apc = "connecting"
    /\ client # "wait"
    /\ apc' = "session"
    /\ joinSock' = sockNo
    /\ UNCHANGED <<client, sockNo, arriving, inboundVars, queue, inHand>>

ConnectTimesOut ==
    /\ apc = "connecting"
    /\ client = "wait"
    /\ apc' = "over"
    /\ UNCHANGED <<client, sockNo, arriving, inboundVars, queue, inHand, joinSock>>

\* recv_timeout hands over a frame; the mutex is not held yet.
RecvFrame ==
    /\ apc = "session"
    /\ queue # <<>>
    /\ Head(queue).kind = "Frame"
    /\ inHand' = <<Head(queue)>>
    /\ queue' = Tail(queue)
    /\ apc' = "counting"
    /\ UNCHANGED <<client, sockNo, arriving, inboundVars, joinSock>>

\* As Read, with the frame counted by the one instead of by its length.
Read_Mut ==
    /\ apc = "counting"
    /\ unread' = unread - 1
    /\ inHand' = <<>>
    /\ apc' = "session"
    /\ UNCHANGED <<client, sockNo, arriving, partial, binary, overflowed, closes,
                   closes_before_connecting, queue, joinSock>>

\* Inbound::read, and the frame goes to the session.
Read ==
    /\ apc = "counting"
    /\ LET len == FrameLen(inHand[1])
       IN  unread' = IF unread > len THEN unread - len ELSE 0
    /\ inHand' = <<>>
    /\ apc' = "session"
    /\ UNCHANGED <<client, sockNo, arriving, partial, binary, overflowed, closes,
                   closes_before_connecting, queue, joinSock>>

\* As ends_session, with every close ending it.
ends_session_Mut(n) == n > 0

ends_session(n) == \E before \in closes_before_connecting : n > before

\* A close or an overflow is read: the session ends, or the close is one from
\* before the connection.
RecvEnd ==
    /\ apc = "session"
    /\ queue # <<>>
    /\ Head(queue).kind # "Frame"
    /\ queue' = Tail(queue)
    /\ apc' = IF Head(queue).kind = "Overflow" \/ ends_session(Head(queue).n)
              THEN "over"
              ELSE "session"
    /\ UNCHANGED <<client, sockNo, arriving, inboundVars, inHand, joinSock>>

----------------------------------------------------------------------------

\* The end of a session drops the transport, and the client's task with it.
ClientNext ==
    /\ apc # "over"
    /\ \/ AttemptFails \/ ClientConnects \/ Connected
       \/ Disconnected \/ CloseFrame \/ Data

AgentNext == ConnectReturns \/ ConnectTimesOut \/ RecvFrame \/ Read \/ RecvEnd

Next == ClientNext \/ ServerSends \/ AgentNext

\* The agent reads again in the end: no download lasts for ever.
Spec == Init /\ [][Next]_vars /\ WF_vars(AgentNext)

----------------------------------------------------------------------------
(* Properties.                                                             *)

\* What waits for the run loop, whole or in pieces, stays within the limit,
\* however long a download keeps the agent from reading; and the limit means the
\* same late in a session as early, since the account of what is unread is
\* exact, although a frame is taken from the channel and counted off in two
\* steps with the client's task in between.
HeldBounded ==
    /\ Bytes(queue) + Len(partial) <= MAX_UNREAD_BYTES
    /\ unread = Bytes(queue) + Bytes(inHand)

\* A frame handed on is exactly one message as NervesHub sent it: no piece
\* missing, doubled or taken from another message, another socket or a message
\* that a lost socket cut short; and of the kind it was sent as.
WholeMessages ==
    \A i \in 1..Len(queue) :
        queue[i].kind = "Frame" =>
            LET first == queue[i].pieces[1]
            IN  /\ queue[i].pieces = Pieces(first.msg, first.sock)
                /\ queue[i].binary = first.msg.binary

\* A session is one socket's.  It reads only what came over the one it joined
\* on: the client's own reconnect puts nothing of another in front of it.  And
\* unless the agent stopped reading it ends only by the close of that one: not by
\* those of the failed attempts before the first connection (whose socket is 0),
\* which it reads too, nor by that of a socket the client has opened since.  In
\* one case it ends by an earlier socket's: where that one was connected, reported
\* and lost again between two looks of connect, which then joins on its successor.
\* With joinSock = 1, it is that socket's and no other.
SessionIsItsSocket ==
    [][/\ apc = "session" /\ apc' = "counting" => inHand'[1].pieces[1].sock = joinSock
       /\ apc = "session" /\ apc' = "over" =>
             \/ Head(queue).kind = "Overflow"
             \/ Head(queue).kind = "Closed" /\ Head(queue).sock \in 1..joinSock]_vars

\* A session whose socket is gone, or has been replaced behind its back by one
\* that carries no channel, or whose messages are no longer kept, ends: the
\* device is never left online and deaf.
Deaf == client = "wait" \/ sockNo # joinSock \/ overflowed
DeafnessEnds == apc = "session" /\ Deaf ~> apc = "over"

============================================================================
