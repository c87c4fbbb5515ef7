--------------------------- MODULE InboundProofs ---------------------------
(***************************************************************************)
(* Theorems about Inbound, for any messages the client may hand on in      *)
(* pieces, any limit and any number of sockets: what is held is bounded    *)
(* and counted exactly, what is handed on is whole messages, and a session *)
(* reads and ends by the one socket it joined on.                          *)
(***************************************************************************)
EXTENDS Inbound, FiniteSetTheorems, TLAPS

PieceSpace == [header : Headers, msg : Messages, nth : Nat, sock : Nat]
FrameSpace == [kind : {"Frame"}, pieces : Seq(PieceSpace), binary : BOOLEAN]
Incomings == FrameSpace \cup [kind : {"Closed"}, n : Nat, sock : Nat] \cup [kind : {"Overflow"}]

InboundTypeOK ==
    /\ client \in {"wait", "up", "ready"} /\ sockNo \in Nat
    /\ arriving \in Seq(PieceSpace) /\ partial \in Seq(PieceSpace)
    /\ binary \in BOOLEAN /\ unread \in Nat /\ overflowed \in BOOLEAN
    /\ closes \in Nat /\ closes_before_connecting \subseteq Nat
    /\ queue \in Seq(Incomings)
    /\ apc \in {"connecting", "session", "counting", "over"} /\ joinSock \in Nat
    /\ inHand \in Seq(FrameSpace)

\* What is on its way is message m, from its k-th piece on, and the pieces
\* before are what is being put together.
Rest(m, k) ==
    /\ Len(arriving) = Len(m.headers) + 1 - k
    /\ \A i \in 1..Len(arriving) : arriving[i] = Piece(m, k + i - 1, sockNo)

Begun(m, k) ==
    /\ Len(partial) = k - 1
    /\ \A i \in 1..(k - 1) : partial[i] = Piece(m, i, sockNo)
    /\ binary = m.binary

ArrivingInv ==
    arriving # <<>> =>
        /\ client = "ready"
        /\ \E m \in Messages : \E k \in 1..Len(m.headers) :
              Rest(m, k) /\ (k > 1 /\ ~overflowed => Begun(m, k))

Whole(frame) ==
    \E m \in Messages, sock \in Nat :
        frame.pieces = Pieces(m, sock) /\ frame.binary = m.binary

Ender(incoming) == incoming.kind = "Closed" /\ ends_session(incoming.n)

QueueInv ==
    \A i \in 1..Len(queue) :
        /\ queue[i].kind = "Frame" => Whole(queue[i])
        /\ queue[i].kind = "Closed" => queue[i].n <= closes /\ queue[i].sock <= sockNo
        /\ queue[i].kind = "Closed" /\ queue[i].sock = 0 => ~ends_session(queue[i].n)
        /\ queue[i].kind = "Overflow" => overflowed

\* The agent's thread has a frame in hand only between its two steps, and has
\* nothing to read before it has connected.
HandInv ==
    /\ apc = "counting" => Len(inHand) = 1
    /\ apc # "counting" => inHand = <<>>
    /\ apc = "connecting" =>
          /\ joinSock = 0 /\ arriving = <<>>
          /\ \A i \in 1..Len(queue) : queue[i].kind # "Frame"
    /\ apc \in {"session", "counting"} => joinSock >= 1 /\ joinSock <= sockNo

\* Once the client has connected it is known which closes are later ones.
ConnectedInv ==
    /\ client # "wait" => sockNo >= 1
    /\ client = "ready" \/ (client = "wait" /\ sockNo >= 1) \/ sockNo >= 2 =>
          closes_before_connecting # {}
    /\ sockNo = 0 => closes_before_connecting = {}
    /\ \A before \in closes_before_connecting : before <= closes

\* What came over the socket a session joined on, and what was lost by then.
Own(incoming) ==
    /\ incoming.kind = "Frame" => incoming.pieces[1].sock = joinSock
    /\ incoming.kind = "Closed" => incoming.sock <= joinSock

\* A session whose socket is gone has the close of it to read, ahead of anything
\* of a later one.
SocketInv ==
    apc \in {"session", "counting"} =>
        /\ client = "wait" \/ sockNo # joinSock => \E i \in 1..Len(queue) : Ender(queue[i])
        /\ \A i \in 1..Len(queue) :
              Own(queue[i]) \/ \E j \in 1..(i - 1) : Ender(queue[j])

AccountInv ==
    /\ unread + Len(partial) <= MAX_UNREAD_BYTES
    /\ unread = Bytes(queue) + Bytes(inHand)

InboundInv ==
    /\ InboundTypeOK
    /\ ArrivingInv /\ QueueInv /\ HandInv /\ ConnectedInv /\ SocketInv /\ AccountInv

----------------------------------------------------------------------------
(* The bytes of what is queued.                                            *)

\* The bytes of the i-th of a sequence of frames.
Row(incomings, i) == {i} \X (1..FrameLen(incomings[i]))

\* There are as many as the frame is long.
LEMMA RowSize ==
    ASSUME NEW q, NEW i \in Nat, FrameLen(q[i]) \in Nat
    PROVE  IsFiniteSet(Row(q, i)) /\ Cardinality(Row(q, i)) = FrameLen(q[i])
<1>1. IsFiniteSet(1..FrameLen(q[i])) /\ Cardinality(1..FrameLen(q[i])) = FrameLen(q[i])
  BY FS_Interval
<1>2. IsFiniteSet({i}) /\ Cardinality({i}) = 1
  BY FS_Singleton
<1>3. IsFiniteSet(Row(q, i)) /\ Cardinality(Row(q, i)) = 1 * FrameLen(q[i])
  BY <1>1, <1>2, FS_Product DEF Row
<1> QED
  BY <1>3

LEMMA HeldFinite ==
    ASSUME NEW S, NEW q \in Seq(S), \A i \in 1..Len(q) : FrameLen(q[i]) \in Nat
    PROVE  IsFiniteSet(Held(q)) /\ Bytes(q) \in Nat
<1> DEFINE Rows == {Row(q, i) : i \in 1..Len(q)}
           rows == [i \in 1..Len(q) |-> Row(q, i)]
<1>1. rows \in Surjection(1..Len(q), Rows)
  BY DEF Surjection
<1>2. IsFiniteSet(1..Len(q))
  BY FS_Interval
<1>3. IsFiniteSet(Rows)
  BY <1>1, <1>2, FS_Surjection
<1>4. \A row \in Rows : IsFiniteSet(row)
  BY RowSize
<1>5. Held(q) = UNION Rows
  BY DEF Held, Row
<1>6. IsFiniteSet(Held(q))
  BY <1>3, <1>4, <1>5, FS_UNION
<1> QED
  BY <1>6, FS_CardinalityType DEF Bytes

\* Nothing holds nothing.
LEMMA BytesEmpty == Bytes(<<>>) = 0
<1>1. Held(<<>>) = {}
  BY DEF Held
<1> QED
  BY <1>1, FS_EmptySet DEF Bytes

\* What is appended adds its length.
LEMMA BytesAppend ==
    ASSUME NEW S, NEW q \in Seq(S), NEW x \in S,
           \A i \in 1..Len(q) : FrameLen(q[i]) \in Nat, FrameLen(x) \in Nat
    PROVE  Bytes(Append(q, x)) = Bytes(q) + FrameLen(x)
<1> DEFINE r == Append(q, x)
           n == Len(q) + 1
<1>1. /\ n \in Nat /\ Len(r) = n /\ r[n] = x
      /\ \A i \in 1..Len(q) : r[i] = q[i]
      /\ \A i \in 1..n : i \in 1..Len(q) \/ i = n
      /\ 1..Len(q) \subseteq 1..n /\ n \in 1..n /\ n \notin 1..Len(q)
  OBVIOUS
<1> HIDE DEF r, n
<1>2. Held(r) = Held(q) \cup Row(r, n)
  <2>1. \A i \in 1..Len(q) : Row(r, i) = Row(q, i)
    BY <1>1 DEF Row
  <2>2. Held(r) = UNION {Row(r, i) : i \in 1..n} /\ Held(q) = UNION {Row(q, i) : i \in 1..Len(q)}
    BY <1>1 DEF Held, Row
  <2> QED
    BY <1>1, <2>1, <2>2
<1>3. Held(q) \cap Row(r, n) = {}
  <2>1. \A c \in Held(q) : c[1] \in 1..Len(q)
    BY DEF Held
  <2>2. \A c \in Row(r, n) : c[1] = n
    BY DEF Row
  <2> QED
    BY <1>1, <2>1, <2>2
<1>4. IsFiniteSet(Row(r, n)) /\ Cardinality(Row(r, n)) = FrameLen(x)
  BY <1>1, RowSize
<1>5. IsFiniteSet(Held(q)) /\ Bytes(q) \in Nat
  BY HeldFinite
<1>6. Cardinality(Held(r)) = Cardinality(Held(q)) + Cardinality(Row(r, n)) - Cardinality(Held(q) \cap Row(r, n))
  BY <1>2, <1>4, <1>5, FS_Union
<1>7. Cardinality(Held(q) \cap Row(r, n)) = 0
  BY <1>3, FS_EmptySet
<1> QED
  BY <1>4, <1>5, <1>6, <1>7 DEF Bytes, r

\* What is taken from the front takes its length away.
LEMMA BytesTail ==
    ASSUME NEW S, NEW q \in Seq(S), q # <<>>,
           \A i \in 1..Len(q) : FrameLen(q[i]) \in Nat
    PROVE  Bytes(Tail(q)) = Bytes(q) - FrameLen(Head(q)) /\ Bytes(Tail(q)) \in Nat
<1> DEFINE r == Tail(q)
           rest == UNION {Row(q, i) : i \in 2..Len(q)}
           back == [c \in rest |-> <<c[1] - 1, c[2]>>]
<1>1. /\ Len(q) \in Nat /\ Len(q) >= 1 /\ r \in Seq(S) /\ Len(r) = Len(q) - 1 /\ Head(q) = q[1]
      /\ \A i \in 1..Len(r) : r[i] = q[i + 1] /\ i + 1 \in 2..Len(q)
      /\ \A i \in 2..Len(q) : i - 1 \in 1..Len(r) /\ r[i - 1] = q[i] /\ i \in 1..Len(q)
      /\ 1 \in 1..Len(q) /\ \A i \in 1..Len(q) : i = 1 \/ i \in 2..Len(q)
  OBVIOUS
<1> HIDE DEF r
<1>2. Held(q) = rest \cup Row(q, 1)
  <2>1. Held(q) = UNION {Row(q, i) : i \in 1..Len(q)}
    BY DEF Held, Row
  <2> QED
    BY <1>1, <2>1
<1>3. /\ \A c \in rest : c[1] \in 2..Len(q) /\ c[2] \in 1..FrameLen(q[c[1]]) /\ c = <<c[1], c[2]>>
      /\ \A i \in 2..Len(q) : \A b \in 1..FrameLen(q[i]) : <<i, b>> \in rest
  BY DEF Row
<1>4. /\ \A c \in Held(r) : c[1] \in 1..Len(r) /\ c[2] \in 1..FrameLen(r[c[1]]) /\ c = <<c[1], c[2]>>
      /\ \A i \in 1..Len(r) : \A b \in 1..FrameLen(r[i]) : <<i, b>> \in Held(r)
  BY DEF Held
<1>5. rest \cap Row(q, 1) = {}
  <2>1. \A c \in Row(q, 1) : c[1] = 1
    BY DEF Row
  <2>2. \A c \in rest : c[1] # 1
    BY <1>1, <1>3
  <2> QED
    BY <2>1, <2>2
<1> HIDE DEF rest
<1>6. back \in Bijection(rest, Held(r))
  <2>1. \A c \in rest : <<c[1] - 1, c[2]>> \in Held(r)
    BY <1>1, <1>3, <1>4
  <2>2. \A c, d \in rest : <<c[1] - 1, c[2]>> = <<d[1] - 1, d[2]>> => c = d
    <3> TAKE c, d \in rest
    <3>1. c[1] \in Int /\ d[1] \in Int /\ c = <<c[1], c[2]>> /\ d = <<d[1], d[2]>>
      BY <1>1, <1>3
    <3> QED
      BY <3>1
  <2>3. \A e \in Held(r) : \E c \in rest : <<c[1] - 1, c[2]>> = e
    <3> TAKE e \in Held(r)
    <3>1. e[1] \in 1..Len(r) /\ e[2] \in 1..FrameLen(r[e[1]]) /\ e = <<e[1], e[2]>>
      BY <1>4
    <3>2. <<e[1] + 1, e[2]>> \in rest
      BY <1>1, <1>3, <3>1
    <3>3. (e[1] + 1) - 1 = e[1]
      BY <1>1, <3>1
    <3> WITNESS <<e[1] + 1, e[2]>> \in rest
    <3> QED
      BY <3>1, <3>3
  <2>4. back \in [rest -> Held(r)] /\ \A c \in rest : back[c] = <<c[1] - 1, c[2]>>
    BY <2>1
  <2> HIDE DEF back
  <2>5. back \in Injection(rest, Held(r))
    BY <2>2, <2>4 DEF Injection, IsInjective
  <2>6. back \in Surjection(rest, Held(r))
    BY <2>3, <2>4 DEF Surjection
  <2> QED
    BY <2>5, <2>6 DEF Bijection
<1>7. IsFiniteSet(rest) /\ IsFiniteSet(Row(q, 1)) /\ Cardinality(Row(q, 1)) = FrameLen(Head(q))
  <2>1. IsFiniteSet(Held(q))
    BY HeldFinite
  <2>2. IsFiniteSet(rest)
    BY <1>2, <2>1, FS_Subset
  <2> QED
    BY <1>1, <2>2, RowSize
<1>8. Cardinality(Held(r)) = Cardinality(rest)
  BY <1>6, <1>7, FS_Bijection DEF ExistsBijection
<1>9. Cardinality(Held(q)) = Cardinality(rest) + Cardinality(Row(q, 1)) - Cardinality(rest \cap Row(q, 1))
  BY <1>2, <1>7, FS_Union
<1>10. Cardinality(rest \cap Row(q, 1)) = 0
  BY <1>5, FS_EmptySet
<1>11. Cardinality(rest) \in Nat /\ FrameLen(Head(q)) \in Nat
  BY <1>1, <1>7, FS_CardinalityType
<1> QED
  BY <1>7, <1>8, <1>9, <1>10, <1>11 DEF Bytes, r

----------------------------------------------------------------------------
(* Sequences, messages and what is queued of them.                         *)

LEMMA AppendElements ==
    ASSUME NEW S, NEW q \in Seq(S), NEW x \in S
    PROVE  /\ Append(q, x) \in Seq(S) /\ Len(Append(q, x)) = Len(q) + 1
           /\ \A i \in 1..Len(q) : Append(q, x)[i] = q[i]
           /\ Append(q, x)[Len(q) + 1] = x
           /\ \A i \in 1..(Len(q) + 1) : i \in 1..Len(q) \/ i = Len(q) + 1
           /\ Len(q) \in Nat
  OBVIOUS

LEMMA TailElements ==
    ASSUME NEW S, NEW q \in Seq(S), q # <<>>
    PROVE  /\ Tail(q) \in Seq(S) /\ Len(Tail(q)) = Len(q) - 1
           /\ \A i \in 1..Len(Tail(q)) : Tail(q)[i] = q[i + 1] /\ i + 1 \in 1..Len(q)
           /\ \A i \in 2..Len(q) : i - 1 \in 1..Len(Tail(q)) /\ Tail(q)[i - 1] = q[i]
           /\ Len(q) \in Nat /\ Len(q) >= 1 /\ 1 \in 1..Len(q)
           /\ Head(q) = q[1] /\ Head(q) \in S
  OBVIOUS

LEMMA NothingElse ==
    ASSUME NEW S, NEW q \in Seq(S), Len(q) = 0
    PROVE  q = <<>>
  OBVIOUS

\* A message's pieces say where in it they are.
LEMMA PieceFacts ==
    ASSUME NEW m \in Messages, NEW k \in 1..Len(m.headers), NEW sock \in Nat
    PROVE  /\ Len(m.headers) \in Nat /\ Len(m.headers) >= 1
           /\ m.binary \in BOOLEAN
           /\ Piece(m, k, sock) \in PieceSpace
           /\ Piece(m, k, sock).sock = sock /\ Piece(m, k, sock).msg = m
           /\ Starts(Piece(m, k, sock)) <=> k = 1
           /\ k = 1 => Piece(m, k, sock).header.opcode = (IF m.binary THEN "BINARY" ELSE "TEXT")
           /\ Completes(Piece(m, k, sock)) <=> k = Len(m.headers)
<1>1. m \in [headers : Seq(Headers), binary : BOOLEAN, utf8 : BOOLEAN]
  BY MessagesAssumption
<1>2. m.headers \in Seq(Headers) /\ m.binary \in BOOLEAN /\ k \in Nat
  BY <1>1
<1>3. m.headers[k] \in Headers /\ Len(m.headers) \in Nat /\ Len(m.headers) >= 1
  BY <1>2
<1>4. Piece(m, k, sock) = [header |-> m.headers[k], msg |-> m, nth |-> k, sock |-> sock]
  BY DEF Piece
<1>5. Piece(m, k, sock) \in PieceSpace
  BY <1>2, <1>3, <1>4 DEF PieceSpace
<1>6. /\ Piece(m, k, sock).header = m.headers[k]
      /\ Piece(m, k, sock).sock = sock /\ Piece(m, k, sock).msg = m
  BY <1>4
<1>7. /\ m.headers[k].opcode # "CONTINUATION" /\ m.headers[k].offset = 0 <=> k = 1
      /\ m.headers[k].offset + 1 >= m.headers[k].payload_len /\ m.headers[k].fin
            <=> k = Len(m.headers)
      /\ m.headers[1].opcode = IF m.binary THEN "BINARY" ELSE "TEXT"
  BY FramingAssumption
<1>8. Starts(Piece(m, k, sock)) <=> k = 1
  BY <1>6, <1>7 DEF Starts
<1>9. Completes(Piece(m, k, sock)) <=> k = Len(m.headers)
  BY <1>6, <1>7 DEF Completes
<1> QED
  BY <1>2, <1>3, <1>5, <1>6, <1>7, <1>8, <1>9

\* What is queued has a length.
LEMMA IncomingFacts ==
    /\ \A incoming \in Incomings :
          /\ FrameLen(incoming) \in Nat
          /\ incoming.kind \in {"Frame", "Closed", "Overflow"}
          /\ incoming.kind = "Frame" => incoming \in FrameSpace
          /\ incoming.kind = "Closed" => incoming.n \in Nat /\ incoming.sock \in Nat
    /\ \A frame \in FrameSpace : frame \in Incomings /\ frame.kind = "Frame"
    /\ \A n, sock \in Nat :
          /\ Closed(n, sock) \in Incomings /\ FrameLen(Closed(n, sock)) = 0
          /\ Closed(n, sock).kind = "Closed" /\ Closed(n, sock).n = n
          /\ Closed(n, sock).sock = sock
    /\ Overflow \in Incomings /\ FrameLen(Overflow) = 0 /\ Overflow.kind = "Overflow"
<1>1. ASSUME NEW incoming \in FrameSpace
      PROVE  /\ FrameLen(incoming) \in Nat /\ incoming.kind = "Frame"
             /\ incoming \in Incomings
  BY DEF FrameSpace, FrameLen, Incomings
<1>2. ASSUME NEW incoming \in [kind : {"Closed"}, n : Nat, sock : Nat]
      PROVE  /\ FrameLen(incoming) = 0 /\ incoming.kind = "Closed" /\ incoming.n \in Nat
             /\ incoming.sock \in Nat
  BY DEF FrameLen
<1>3. ASSUME NEW incoming \in [kind : {"Overflow"}]
      PROVE  FrameLen(incoming) = 0 /\ incoming.kind = "Overflow"
  BY DEF FrameLen
<1>4. \A n, sock \in Nat : /\ Closed(n, sock) \in [kind : {"Closed"}, n : Nat, sock : Nat]
                            /\ Closed(n, sock).n = n /\ Closed(n, sock).sock = sock
  BY DEF Closed
<1>5. Overflow \in [kind : {"Overflow"}]
  BY DEF Overflow
<1>6. ASSUME NEW incoming \in Incomings
      PROVE  /\ FrameLen(incoming) \in Nat
             /\ incoming.kind \in {"Frame", "Closed", "Overflow"}
             /\ incoming.kind = "Frame" => incoming \in FrameSpace
             /\ incoming.kind = "Closed" => incoming.n \in Nat /\ incoming.sock \in Nat
  <2>1. CASE incoming \in FrameSpace
    BY <1>1, <2>1
  <2>2. CASE incoming \in [kind : {"Closed"}, n : Nat, sock : Nat]
    BY <1>2, <2>2
  <2>3. CASE incoming \in [kind : {"Overflow"}]
    BY <1>3, <2>3
  <2> QED
    BY <2>1, <2>2, <2>3 DEF Incomings
<1>7. \A n, sock \in Nat :
          /\ Closed(n, sock) \in Incomings /\ FrameLen(Closed(n, sock)) = 0
          /\ Closed(n, sock).kind = "Closed" /\ Closed(n, sock).n = n
          /\ Closed(n, sock).sock = sock
  BY <1>2, <1>4 DEF Incomings
<1>8. Overflow \in Incomings /\ FrameLen(Overflow) = 0 /\ Overflow.kind = "Overflow"
  BY <1>3, <1>5 DEF Incomings
<1> QED
  BY <1>1, <1>6, <1>7, <1>8

\* A whole message is a frame.
LEMMA MessageFacts ==
    ASSUME NEW m \in Messages, NEW sock \in Nat
    PROVE  /\ Frame(Pieces(m, sock), m.binary) \in FrameSpace
           /\ FrameLen(Frame(Pieces(m, sock), m.binary)) = Len(m.headers)
           /\ Frame(Pieces(m, sock), m.binary).pieces[1].sock = sock
           /\ Whole(Frame(Pieces(m, sock), m.binary))
<1>1. m \in [headers : Seq(Headers), binary : BOOLEAN, utf8 : BOOLEAN]
  BY MessagesAssumption
<1>2. Len(m.headers) \in Nat /\ m.headers # <<>> /\ m.binary \in BOOLEAN /\ m.headers \in Seq(Headers)
  BY <1>1, FramingAssumption
<1>3. 1 \in 1..Len(m.headers) /\ \A k \in 1..Len(m.headers) : Piece(m, k, sock) \in PieceSpace
  BY <1>2, PieceFacts
<1>4. Pieces(m, sock) \in Seq(PieceSpace) /\ Len(Pieces(m, sock)) = Len(m.headers)
      /\ Pieces(m, sock)[1] = Piece(m, 1, sock)
  BY <1>2, <1>3 DEF Pieces
<1>5. Pieces(m, sock)[1].sock = sock
  BY <1>3, <1>4, PieceFacts
<1> DEFINE frame == Frame(Pieces(m, sock), m.binary)
<1>6. frame = [kind |-> "Frame", pieces |-> Pieces(m, sock), binary |-> m.binary]
  BY DEF Frame
<1> HIDE DEF frame
<1>7. frame \in FrameSpace /\ frame.kind = "Frame" /\ frame.pieces = Pieces(m, sock) /\ frame.binary = m.binary
  BY <1>2, <1>4, <1>6 DEF FrameSpace
<1>8. FrameLen(frame) = Len(m.headers) /\ frame.pieces[1].sock = sock
  BY <1>4, <1>5, <1>7 DEF FrameLen
<1>9. Whole(frame)
  BY <1>7 DEF Whole
<1> QED
  BY <1>7, <1>8, <1>9 DEF frame

----------------------------------------------------------------------------
(* A piece comes in.                                                       *)

\* The k-th piece of a message makes its first k, of the kind it is.
LEMMA Gathers ==
    ASSUME InboundTypeOK, arriving # <<>>, ~overflowed,
           NEW m \in Messages, NEW k \in 1..Len(m.headers),
           Rest(m, k), k > 1 => Begun(m, k)
    PROVE  LET message == Append(Gathered(Head(arriving)), Head(arriving))
           IN  /\ Head(arriving) = Piece(m, k, sockNo)
               /\ Gathered(Head(arriving)) \in Seq(PieceSpace)
               /\ Len(Gathered(Head(arriving))) = k - 1
               /\ message \in Seq(PieceSpace) /\ Len(message) = k
               /\ \A i \in 1..k : message[i] = Piece(m, i, sockNo)
               /\ Kind(Head(arriving)) = m.binary
<1> DEFINE piece == Head(arriving)
           message == Append(Gathered(piece), piece)
<1>1. /\ Len(m.headers) \in Nat /\ m.binary \in BOOLEAN /\ k \in Nat /\ sockNo \in Nat
      /\ Starts(Piece(m, k, sockNo)) <=> k = 1
      /\ Piece(m, k, sockNo) \in PieceSpace
      /\ k = 1 => Piece(m, k, sockNo).header.opcode = (IF m.binary THEN "BINARY" ELSE "TEXT")
  BY PieceFacts DEF InboundTypeOK
<1>2. piece = Piece(m, k, sockNo)
  <2>1. piece = arriving[1] /\ 1 \in 1..Len(arriving)
    BY TailElements DEF InboundTypeOK
  <2>2. piece = Piece(m, k + 1 - 1, sockNo) /\ k + 1 - 1 = k
    BY <1>1, <2>1 DEF Rest
  <2> QED
    BY <2>2
<1> HIDE DEF piece
<1>3. CASE k = 1
  <2>1. Gathered(piece) = <<>> /\ Kind(piece) = (piece.header.opcode = "BINARY")
    BY <1>1, <1>2, <1>3 DEF Gathered, Kind
  <2>2. Kind(piece) = m.binary
    <3>1. piece.header.opcode = (IF m.binary THEN "BINARY" ELSE "TEXT")
      BY <1>1, <1>2, <1>3
    <3>2. CASE m.binary = TRUE
      <4>1. piece.header.opcode = "BINARY"
        BY <3>1, <3>2
      <4> QED
        BY <2>1, <3>2, <4>1, Zenon
    <3>3. CASE m.binary = FALSE
      <4>1. piece.header.opcode # "BINARY"
        BY <3>1, <3>3
      <4> QED
        BY <2>1, <3>3, <4>1, Zenon
    <3> QED
      BY <1>1, <3>2, <3>3
  <2>3. /\ message \in Seq(PieceSpace) /\ Len(message) = 1
        /\ message[1] = Piece(m, 1, sockNo)
    <3>1. message = Append(<<>>, piece) /\ piece \in PieceSpace /\ piece = Piece(m, 1, sockNo)
      BY <1>1, <1>2, <1>3, <2>1
    <3>2. <<>> \in Seq(PieceSpace) /\ Len(<<>>) = 0
      OBVIOUS
    <3> HIDE DEF message
    <3> QED
      BY <3>1, <3>2, AppendElements
  <2> QED
    BY <1>2, <1>3, <2>1, <2>2, <2>3 DEF piece
<1>4. CASE k > 1
  <2>1. Gathered(piece) = partial /\ Kind(piece) = binary
    BY <1>1, <1>2, <1>4 DEF Gathered, Kind
  <2>2. /\ partial \in Seq(PieceSpace) /\ Len(partial) = k - 1 /\ binary = m.binary
        /\ \A i \in 1..(k - 1) : partial[i] = Piece(m, i, sockNo)
    BY <1>4 DEF Begun, InboundTypeOK
  <2>3. /\ message \in Seq(PieceSpace) /\ Len(message) = Len(partial) + 1
        /\ \A i \in 1..Len(partial) : message[i] = partial[i]
        /\ message[Len(partial) + 1] = piece
        /\ \A i \in 1..(Len(partial) + 1) : i \in 1..Len(partial) \/ i = Len(partial) + 1
    BY <1>1, <1>2, <2>1, <2>2, AppendElements
  <2>4. Len(message) = k /\ \A i \in 1..k : message[i] = Piece(m, i, sockNo)
    BY <1>1, <1>2, <2>2, <2>3
  <2> QED
    BY <1>2, <2>1, <2>2, <2>3, <2>4 DEF piece
<1> QED
  BY <1>1, <1>3, <1>4

\* What becomes of the pieces of a message, the last of which may be text that
\* is not UTF-8.
Kept(m, k) ==
    /\ ~overflowed /\ k < Len(m.headers)
    /\ partial' \in Seq(PieceSpace) /\ Len(partial') = k
    /\ \A i \in 1..k : partial'[i] = Piece(m, i, sockNo)
    /\ binary' = m.binary
    /\ unread + k <= MAX_UNREAD_BYTES
    /\ UNCHANGED <<unread, overflowed, queue>>

Done(m) ==
    /\ ~overflowed /\ partial' = <<>> /\ binary' = m.binary
    /\ unread + Len(m.headers) <= MAX_UNREAD_BYTES
    /\ UNCHANGED overflowed
    /\ \/ /\ unread' = unread + Len(m.headers)
          /\ queue' = Append(queue, Frame(Pieces(m, sockNo), m.binary))
       \/ UNCHANGED <<unread, queue>>

Overflows ==
    /\ overflowed' = TRUE /\ partial' = <<>> /\ binary' \in BOOLEAN /\ unread' = unread
    /\ queue' = Append(queue, Overflow)

LEMMA DataOutcome ==
    ASSUME InboundTypeOK, Data,
           NEW m \in Messages, NEW k \in 1..Len(m.headers),
           Rest(m, k), k > 1 /\ ~overflowed => Begun(m, k)
    PROVE  \/ Overflows
           \/ Kept(m, k)
           \/ k = Len(m.headers) /\ Done(m)
           \/ overflowed /\ UNCHANGED <<partial, binary, unread, overflowed, queue>>
<1> DEFINE piece == Head(arriving)
           message == Append(Gathered(piece), piece)
<1>1. arriving # <<>>
      /\ (PieceOverflows(piece) \/ PieceKept(piece) \/ PieceCompletes(piece) \/ PieceDropped)
  BY DEF Data
<1>2. /\ Len(m.headers) \in Nat /\ m.binary \in BOOLEAN /\ k \in Nat
      /\ Completes(Piece(m, k, sockNo)) <=> k = Len(m.headers)
      /\ MAX_UNREAD_BYTES \in Nat /\ unread \in Nat
  BY PieceFacts, SizesAssumption DEF InboundTypeOK
<1>3. ~overflowed =>
          /\ piece = Piece(m, k, sockNo)
          /\ Gathered(piece) \in Seq(PieceSpace) /\ Len(Gathered(piece)) = k - 1
          /\ message \in Seq(PieceSpace) /\ Len(message) = k
          /\ \A i \in 1..k : message[i] = Piece(m, i, sockNo)
          /\ Kind(piece) = m.binary
  BY <1>1, Gathers
<1> HIDE DEF piece
<1>4. CASE PieceOverflows(piece)
  BY <1>2, <1>3, <1>4 DEF PieceOverflows, Overflows
<1>5. CASE PieceDropped
  BY <1>5 DEF PieceDropped
<1>6. CASE PieceKept(piece)
  <2>1. /\ ~overflowed /\ ~Exceeds(piece) /\ ~Completes(piece)
        /\ partial' = message /\ binary' = Kind(piece)
        /\ UNCHANGED <<unread, overflowed, queue>>
    BY <1>6 DEF PieceKept
  <2>2. k < Len(m.headers) /\ unread + k <= MAX_UNREAD_BYTES
    BY <1>2, <1>3, <2>1 DEF Exceeds
  <2> HIDE DEF message
  <2> QED
    BY <1>3, <2>1, <2>2 DEF Kept
<1>7. CASE PieceCompletes(piece)
  <2>1. /\ ~overflowed /\ ~Exceeds(piece) /\ Completes(piece)
        /\ partial' = <<>> /\ binary' = Kind(piece) /\ UNCHANGED overflowed
        /\ \/ /\ unread' = unread + Len(message)
              /\ queue' = Append(queue, Frame(message, Kind(piece)))
           \/ UNCHANGED <<unread, queue>>
    BY <1>7 DEF PieceCompletes
  <2>2. k = Len(m.headers) /\ unread + Len(m.headers) <= MAX_UNREAD_BYTES
    BY <1>2, <1>3, <2>1 DEF Exceeds
  <2> HIDE DEF message
  <2>3. message = Pieces(m, sockNo)
    <3>1. message = [i \in 1..k |-> message[i]]
      BY <1>3, <2>1
    <3> QED
      BY <1>3, <2>1, <2>2, <3>1 DEF Pieces
  <2> QED
    BY <1>3, <2>1, <2>2, <2>3 DEF Done
<1> QED
  BY <1>1, <1>4, <1>5, <1>6, <1>7

\* Where in its message the client is, and what it makes of the next piece.
LEMMA DataMoves ==
    ASSUME InboundInv, apc # "over", Data
    PROVE  /\ apc \in {"session", "counting"} /\ arriving # <<>> /\ arriving' = Tail(arriving)
           /\ UNCHANGED <<client, sockNo, closes, closes_before_connecting, agentVars>>
           /\ \E m \in Messages : \E k \in 1..Len(m.headers) :
                 /\ Rest(m, k)
                 /\ \/ Overflows
                    \/ Kept(m, k)
                    \/ k = Len(m.headers) /\ Done(m)
                    \/ overflowed /\ UNCHANGED <<partial, binary, unread, overflowed, queue>>
<1>1. /\ arriving # <<>> /\ arriving' = Tail(arriving)
      /\ UNCHANGED <<client, sockNo, closes, closes_before_connecting, agentVars>>
  BY DEF Data
<1>2. PICK m \in Messages : \E k \in 1..Len(m.headers) :
          Rest(m, k) /\ (k > 1 /\ ~overflowed => Begun(m, k))
  BY <1>1 DEF InboundInv, ArrivingInv
<1>3. PICK k \in 1..Len(m.headers) : Rest(m, k) /\ (k > 1 /\ ~overflowed => Begun(m, k))
  BY <1>2
<1>4. \/ Overflows
      \/ Kept(m, k)
      \/ k = Len(m.headers) /\ Done(m)
      \/ overflowed /\ UNCHANGED <<partial, binary, unread, overflowed, queue>>
  BY <1>3, DataOutcome DEF InboundInv
<1>5. apc \in {"session", "counting"}
  BY <1>1 DEF InboundInv, HandInv, InboundTypeOK
<1> QED
  BY <1>1, <1>3, <1>4, <1>5

\* The queue is as it was, or its first is taken, or there is one more.
Reported(incoming) ==
    /\ queue' = Append(queue, incoming)
    /\ UNCHANGED <<apc, inHand, joinSock, sockNo, closes_before_connecting>>
    /\ \/ /\ incoming = Closed(closes + 1, sockNo)
          /\ closes' = closes + 1 /\ overflowed' = overflowed
       \/ /\ incoming = Overflow
          /\ closes' = closes /\ overflowed'
          /\ UNCHANGED client
       \/ /\ \E m \in Messages : incoming = Frame(Pieces(m, sockNo), m.binary)
          /\ apc \in {"session", "counting"}
          /\ UNCHANGED <<client, closes, overflowed>>

LEMMA QueueMoves ==
    ASSUME InboundInv, Next
    PROVE  \/ UNCHANGED <<queue, closes, overflowed>>
           \/ /\ queue # <<>> /\ queue' = Tail(queue) /\ apc = "session"
              /\ UNCHANGED <<client, sockNo, joinSock, closes, overflowed, closes_before_connecting>>
           \/ \E incoming \in Incomings : Reported(incoming)
<1>0. closes + 1 \in Nat /\ sockNo \in Nat
  BY DEF InboundInv, InboundTypeOK
<1>1. CASE AttemptFails \/ Disconnected \/ CloseFrame
  <2>1. Reported(Closed(closes + 1, sockNo))
    BY <1>1 DEF AttemptFails, Disconnected, CloseFrame, ReportClosed, Reported, agentVars
  <2> QED
    BY <1>0, <2>1, IncomingFacts
<1>2. CASE apc # "over" /\ Data
  <2>1. PICK m \in Messages : \E k \in 1..Len(m.headers) :
            \/ Overflows
            \/ Kept(m, k)
            \/ k = Len(m.headers) /\ Done(m)
            \/ overflowed /\ UNCHANGED <<partial, binary, unread, overflowed, queue>>
    BY <1>2, DataMoves
  <2>2. /\ apc \in {"session", "counting"}
        /\ UNCHANGED <<client, sockNo, closes, closes_before_connecting, agentVars>>
    BY <1>2, DataMoves
  <2>3. CASE Overflows
    BY <2>2, <2>3, IncomingFacts DEF Overflows, Reported, agentVars
  <2>4. CASE Done(m)
    <3>1. CASE UNCHANGED queue
      BY <2>2, <2>4, <3>1 DEF Done
    <3>2. CASE queue' = Append(queue, Frame(Pieces(m, sockNo), m.binary))
      <4>1. Reported(Frame(Pieces(m, sockNo), m.binary))
        BY <2>2, <2>4, <3>2 DEF Done, Reported, agentVars
      <4>2. Frame(Pieces(m, sockNo), m.binary) \in Incomings
        BY MessageFacts, IncomingFacts DEF InboundInv, InboundTypeOK
      <4> QED
        BY <4>1, <4>2
    <3> QED
      BY <2>4, <3>1, <3>2 DEF Done
  <2>5. CASE UNCHANGED <<queue, overflowed>>
    BY <2>2, <2>5
  <2> QED
    BY <2>1, <2>3, <2>4, <2>5 DEF Kept
<1>3. CASE RecvFrame \/ RecvEnd
  BY <1>3 DEF RecvFrame, RecvEnd, inboundVars
<1>4. CASE ClientConnects \/ Connected \/ ServerSends \/ ConnectReturns \/ ConnectTimesOut \/ Read
  BY <1>4 DEF ClientConnects, Connected, ServerSends, ConnectReturns, ConnectTimesOut, Read,
              inboundVars
<1> QED
  BY <1>1, <1>2, <1>3, <1>4 DEF Next, ClientNext, AgentNext

----------------------------------------------------------------------------
(* Each part of the invariant.                                             *)

LEMMA TypeStep ==
    ASSUME InboundInv, Next
    PROVE  InboundTypeOK'
<1>0. /\ InboundTypeOK /\ closes + 1 \in Nat /\ sockNo + 1 \in Nat /\ MAX_UNREAD_BYTES \in Nat
      /\ arriving # <<>> => Tail(arriving) \in Seq(PieceSpace)
      /\ <<>> \in Seq(PieceSpace)
  BY SizesAssumption DEF InboundInv, InboundTypeOK
<1>1. queue' \in Seq(Incomings)
  <2>1. queue \in Seq(Incomings) /\ (queue # <<>> => Tail(queue) \in Seq(Incomings))
        /\ \A incoming \in Incomings : Append(queue, incoming) \in Seq(Incomings)
    BY <1>0 DEF InboundTypeOK
  <2> QED
    BY <2>1, QueueMoves DEF Reported
<1>2. CASE AttemptFails \/ Disconnected \/ CloseFrame
  <2>1. /\ closes' = closes + 1 /\ (arriving' = arriving \/ arriving' = <<>>)
        /\ (client' = client \/ client' = "wait")
        /\ UNCHANGED <<sockNo, partial, binary, unread, overflowed, closes_before_connecting,
                       apc, inHand, joinSock>>
    BY <1>2 DEF AttemptFails, Disconnected, CloseFrame, ReportClosed, agentVars
  <2> QED
    BY <1>0, <1>1, <2>1 DEF InboundTypeOK
<1>3. CASE ClientConnects \/ Connected \/ ConnectReturns \/ ConnectTimesOut
  BY <1>0, <1>1, <1>3
  DEF ClientConnects, Connected, ConnectReturns, ConnectTimesOut, InboundTypeOK, inboundVars,
      agentVars
<1>4. CASE apc # "over" /\ Data
  <2>1. PICK m \in Messages : \E k \in 1..Len(m.headers) :
            \/ Overflows
            \/ Kept(m, k)
            \/ k = Len(m.headers) /\ Done(m)
            \/ overflowed /\ UNCHANGED <<partial, binary, unread, overflowed, queue>>
    BY <1>4, DataMoves
  <2>2. /\ arriving' \in Seq(PieceSpace)
        /\ UNCHANGED <<client, sockNo, closes, closes_before_connecting, agentVars>>
    BY <1>0, <1>4, DataMoves
  <2>3. m.binary \in BOOLEAN /\ Len(m.headers) \in Nat
    BY MessagesAssumption
  <2>4. <<>> \in Seq(PieceSpace)
    OBVIOUS
  <2>5. /\ partial' \in Seq(PieceSpace) /\ binary' \in BOOLEAN /\ unread' \in Nat
        /\ overflowed' \in BOOLEAN
    <3>1. CASE Overflows
      BY <1>0, <2>4, <3>1 DEF Overflows, InboundTypeOK
    <3>2. ASSUME NEW k \in 1..Len(m.headers), Kept(m, k)
          PROVE  /\ partial' \in Seq(PieceSpace) /\ binary' \in BOOLEAN /\ unread' \in Nat
                 /\ overflowed' \in BOOLEAN
      BY <1>0, <2>3, <3>2 DEF Kept, InboundTypeOK
    <3>3. CASE Done(m)
      BY <1>0, <2>3, <2>4, <3>3 DEF Done, InboundTypeOK
    <3>4. CASE UNCHANGED <<partial, binary, unread, overflowed, queue>>
      BY <1>0, <3>4 DEF InboundTypeOK
    <3> QED
      BY <2>1, <3>1, <3>2, <3>3, <3>4
  <2> QED
    BY <1>0, <1>1, <2>2, <2>5 DEF InboundTypeOK, agentVars
<1>5. CASE ServerSends
  <2>1. PICK m \in Messages : arriving' = Pieces(m, sockNo)
    BY <1>5 DEF ServerSends
  <2>2. arriving' \in Seq(PieceSpace)
    BY <1>0, <2>1, MessageFacts DEF InboundTypeOK, FrameSpace, Frame
  <2> QED
    BY <1>0, <1>1, <1>5, <2>2 DEF ServerSends, InboundTypeOK, inboundVars, agentVars
<1>6. CASE RecvFrame
  <2>1. queue # <<>> /\ Head(queue).kind = "Frame" /\ inHand' = <<Head(queue)>>
    BY <1>6 DEF RecvFrame
  <2>2. Head(queue) \in Incomings
    BY <1>0, <2>1, TailElements DEF InboundTypeOK
  <2>3. inHand' \in Seq(FrameSpace)
    BY <2>1, <2>2, IncomingFacts
  <2> QED
    BY <1>0, <1>1, <1>6, <2>3 DEF RecvFrame, InboundTypeOK, inboundVars
<1>7. CASE Read
  <2>1. Len(inHand) = 1 /\ inHand[1] \in FrameSpace
    <3>1. Len(inHand) = 1 /\ inHand \in Seq(FrameSpace)
      BY <1>0, <1>7 DEF Read, InboundInv, HandInv, InboundTypeOK
    <3> QED
      BY <3>1
  <2>2. FrameLen(inHand[1]) \in Nat
    BY <2>1, IncomingFacts
  <2>3. unread' \in Nat
    BY <1>0, <1>7, <2>2 DEF Read, InboundTypeOK
  <2> QED
    BY <1>0, <1>1, <1>7, <2>3 DEF Read, InboundTypeOK
<1>8. CASE RecvEnd
  BY <1>0, <1>1, <1>8 DEF RecvEnd, InboundTypeOK, inboundVars
<1> QED
  BY <1>2, <1>3, <1>4, <1>5, <1>6, <1>7, <1>8 DEF Next, ClientNext, AgentNext

LEMMA ArrivingStep ==
    ASSUME InboundInv, Next
    PROVE  ArrivingInv'
<1>0. InboundTypeOK /\ ArrivingInv /\ (client # "ready" => arriving = <<>>)
  BY DEF InboundInv, ArrivingInv
<1>1. CASE UNCHANGED <<arriving, partial, binary, overflowed, sockNo, client>>
  BY <1>0, <1>1 DEF ArrivingInv, Rest, Begun
<1>2. CASE arriving' = <<>>
  BY <1>2 DEF ArrivingInv
<1>3. CASE ServerSends
  <2>1. PICK m \in Messages : arriving' = Pieces(m, sockNo)
    BY <1>3 DEF ServerSends
  <2>2. /\ Len(m.headers) \in Nat /\ m.headers # <<>> /\ 1 \in 1..Len(m.headers)
        /\ Len(arriving') = Len(m.headers) + 1 - 1
        /\ \A i \in 1..Len(arriving') : arriving'[i] = Piece(m, 1 + i - 1, sockNo)
    <3>1. Len(m.headers) \in Nat /\ m.headers # <<>> /\ 1 \in 1..Len(m.headers)
      BY MessagesAssumption, FramingAssumption
    <3> QED
      BY <2>1, <3>1 DEF Pieces
  <2>3. client' = "ready" /\ sockNo' = sockNo
    BY <1>3 DEF ServerSends
  <2>4. Rest(m, 1)'
    BY <2>2, <2>3 DEF Rest
  <2> QED
    BY <2>2, <2>3, <2>4 DEF ArrivingInv
<1>4. CASE apc # "over" /\ Data
  <2>1. PICK m \in Messages : \E k \in 1..Len(m.headers) :
            /\ Rest(m, k)
            /\ \/ Overflows
               \/ Kept(m, k)
               \/ k = Len(m.headers) /\ Done(m)
               \/ overflowed /\ UNCHANGED <<partial, binary, unread, overflowed, queue>>
    BY <1>4, DataMoves
  <2>2. PICK k \in 1..Len(m.headers) :
            /\ Rest(m, k)
            /\ \/ Overflows
               \/ Kept(m, k)
               \/ k = Len(m.headers) /\ Done(m)
               \/ overflowed /\ UNCHANGED <<partial, binary, unread, overflowed, queue>>
    BY <2>1
  <2>3. arriving # <<>> /\ arriving' = Tail(arriving) /\ UNCHANGED <<client, sockNo>>
    BY <1>4, DataMoves
  <2>4. SUFFICES ASSUME arriving' # <<>>
                 PROVE  ArrivingInv'
    BY DEF ArrivingInv
  <2>5. /\ Len(arriving') = Len(arriving) - 1 /\ Len(arriving) \in Nat
        /\ \A i \in 1..Len(arriving') : arriving'[i] = arriving[i + 1] /\ i + 1 \in 1..Len(arriving)
        /\ Len(arriving') >= 1
    BY <1>0, <2>3, <2>4, TailElements DEF InboundTypeOK
  <2>6. Len(m.headers) \in Nat /\ k \in Nat
    BY MessagesAssumption
  <2>7. /\ k + 1 \in 1..Len(m.headers) /\ k < Len(m.headers)
        /\ Len(arriving') = Len(m.headers) + 1 - (k + 1)
        /\ \A i \in 1..Len(arriving') : arriving'[i] = Piece(m, (k + 1) + i - 1, sockNo)
    <3>1. Len(arriving) = Len(m.headers) + 1 - k
      BY <2>2 DEF Rest
    <3>2. ASSUME NEW i \in 1..Len(arriving')
          PROVE  arriving'[i] = Piece(m, (k + 1) + i - 1, sockNo)
      <4>1. arriving'[i] = Piece(m, k + (i + 1) - 1, sockNo)
        BY <2>2, <2>5 DEF Rest
      <4>2. k + (i + 1) - 1 = (k + 1) + i - 1
        BY <2>5, <2>6
      <4> QED
        BY <4>1, <4>2
    <3>3. Len(arriving') = Len(m.headers) + 1 - (k + 1) /\ k < Len(m.headers)
      <4>1. ASSUME NEW a \in Nat, NEW b \in Int, NEW n \in Nat, NEW j \in Nat,
                   b = a - 1, b >= 1, a = n + 1 - j
            PROVE  b = n + 1 - (j + 1) /\ j < n
        BY <4>1
      <4>2. Len(arriving') \in Int
        BY <2>5
      <4> QED
        BY <2>5, <2>6, <3>1, <4>1, <4>2
    <3>4. k + 1 \in 1..Len(m.headers)
      BY <2>6, <3>3
    <3> QED
      BY <3>2, <3>3, <3>4
  <2>8. Rest(m, k + 1)'
    BY <2>3, <2>7 DEF Rest
  <2>9. overflowed' \/ Begun(m, k + 1)'
    <3>1. CASE Overflows
      BY <3>1 DEF Overflows
    <3>2. CASE Kept(m, k)
      <4>1. (k + 1) - 1 = k
        BY <2>6
      <4> QED
        BY <2>3, <3>2, <4>1 DEF Kept, Begun
    <3>3. CASE overflowed /\ UNCHANGED <<partial, binary, unread, overflowed, queue>>
      BY <3>3
    <3> QED
      BY <2>2, <2>6, <2>7, <3>1, <3>2, <3>3
  <2>10. client' = "ready"
    BY <1>0, <2>3
  <2> QED
    BY <2>7, <2>8, <2>9, <2>10 DEF ArrivingInv
<1>5. CASE AttemptFails \/ ClientConnects \/ Connected \/ Disconnected \/ CloseFrame
  BY <1>0, <1>2, <1>5 DEF AttemptFails, ClientConnects, Connected, Disconnected, CloseFrame
<1>6. CASE AgentNext
  BY <1>1, <1>6
  DEF AgentNext, ConnectReturns, ConnectTimesOut, RecvFrame, Read, RecvEnd, inboundVars
<1> QED
  BY <1>3, <1>4, <1>5, <1>6 DEF Next, ClientNext

LEMMA QueueStep ==
    ASSUME InboundInv, Next
    PROVE  QueueInv'
<1>0. /\ queue \in Seq(Incomings) /\ QueueInv /\ closes \in Nat /\ sockNo \in Nat
      /\ \A i \in 1..Len(queue) : queue[i] \in Incomings
      /\ ConnectedInv /\ closes_before_connecting \subseteq Nat
  BY DEF InboundInv, InboundTypeOK
<1>1. /\ sockNo' \in Nat /\ sockNo <= sockNo'
      /\ \/ closes_before_connecting' = closes_before_connecting
         \/ closes_before_connecting = {} /\ closes_before_connecting' = {closes}
  BY <1>0 DEF Next, ClientNext, AgentNext, AttemptFails, ClientConnects, Connected,
      Disconnected, CloseFrame, Data, ServerSends, ConnectReturns, ConnectTimesOut,
      RecvFrame, Read, RecvEnd, inboundVars
<1> DEFINE Late(n) == \E before \in closes_before_connecting' : n > before
<1>late. \A n : ends_session(n)' <=> Late(n)
  BY DEF ends_session
<1>2. \A i \in 1..Len(queue) :
          queue[i].kind = "Closed" => /\ queue[i].n <= closes /\ queue[i].sock <= sockNo'
                                      /\ queue[i].sock = 0 => ~Late(queue[i].n)
  <2>1. SUFFICES ASSUME NEW i \in 1..Len(queue), queue[i].kind = "Closed"
                 PROVE  /\ queue[i].n <= closes /\ queue[i].sock <= sockNo'
                        /\ queue[i].sock = 0 => ~Late(queue[i].n)
    OBVIOUS
  <2>2. /\ queue[i].n \in Nat /\ queue[i].sock \in Nat
        /\ queue[i].n <= closes /\ queue[i].sock <= sockNo
        /\ queue[i].sock = 0 =>
              \A before \in closes_before_connecting : ~(queue[i].n > before)
    <3>1. queue[i].n \in Nat /\ queue[i].sock \in Nat
      BY <1>0, <2>1, IncomingFacts
    <3> QED
      BY <1>0, <2>1, <3>1 DEF QueueInv, ends_session
  <2>3. queue[i].sock <= sockNo'
    BY <1>0, <1>1, <2>2
  <2>4. queue[i].sock = 0 => ~Late(queue[i].n)
    <3>1. CASE closes_before_connecting' = closes_before_connecting
      BY <2>2, <3>1
    <3>2. CASE closes_before_connecting' = {closes}
      <4>1. ~(queue[i].n > closes)
        BY <1>0, <2>2
      <4> QED
        BY <3>2, <4>1
    <3> QED
      BY <1>1, <3>1, <3>2
  <2> QED
    BY <2>2, <2>3, <2>4
<1> HIDE DEF Late
<1>3. CASE UNCHANGED <<queue, closes, overflowed>>
  BY <1>0, <1>2, <1>3, <1>late DEF QueueInv, Whole
<1>4. CASE queue # <<>> /\ queue' = Tail(queue) /\ UNCHANGED <<closes, overflowed>>
  <2>1. \A i \in 1..Len(queue') : queue'[i] = queue[i + 1] /\ i + 1 \in 1..Len(queue)
    BY <1>0, <1>4, TailElements
  <2> QED
    BY <1>0, <1>2, <1>4, <1>late, <2>1 DEF QueueInv, Whole
<1>5. ASSUME NEW incoming \in Incomings, Reported(incoming)
      PROVE  QueueInv'
  <2>1. /\ Len(queue') = Len(queue) + 1 /\ queue'[Len(queue) + 1] = incoming
        /\ \A i \in 1..Len(queue) : queue'[i] = queue[i]
        /\ \A i \in 1..Len(queue') : i \in 1..Len(queue) \/ i = Len(queue) + 1
    BY <1>0, <1>5, AppendElements DEF Reported
  <2>2. /\ closes' \in Nat /\ closes <= closes' /\ (overflowed => overflowed')
        /\ sockNo' = sockNo /\ closes_before_connecting' = closes_before_connecting
    BY <1>0, <1>5 DEF Reported
  <2>3. /\ incoming.kind = "Frame" => Whole(incoming)
        /\ incoming.kind = "Closed" => /\ incoming.n <= closes' /\ incoming.sock <= sockNo
                                       /\ incoming.sock = 0 => closes_before_connecting = {}
        /\ incoming.kind = "Overflow" => overflowed'
    <3>1. closes + 1 \in Nat
      BY <1>0
    <3>2. CASE incoming = Closed(closes + 1, sockNo) /\ closes' = closes + 1
      <4>1. /\ incoming.kind = "Closed" /\ incoming.n = closes' /\ incoming.sock = sockNo
        BY <1>0, <3>1, <3>2, IncomingFacts
      <4> QED
        BY <1>0, <2>2, <4>1 DEF ConnectedInv
    <3>3. CASE incoming = Overflow /\ overflowed'
      BY <3>3, IncomingFacts
    <3>4. ASSUME NEW m \in Messages, incoming = Frame(Pieces(m, sockNo), m.binary)
          PROVE  incoming.kind = "Frame" /\ Whole(incoming)
      BY <1>0, <3>4, MessageFacts, IncomingFacts
    <3> QED
      BY <1>5, <3>2, <3>3, <3>4 DEF Reported
  <2>4. ASSUME NEW i \in 1..Len(queue)
        PROVE  queue[i].kind = "Closed" => queue[i].n <= closes'
    BY <1>0, <2>2, <2>4, IncomingFacts DEF QueueInv
  <2>5. closes_before_connecting = {} => \A n : ~Late(n)
    BY <2>2 DEF Late
  <2> QED
    BY <1>0, <1>2, <1>late, <2>1, <2>2, <2>3, <2>4, <2>5 DEF QueueInv, Whole
<1> QED
  BY <1>3, <1>4, <1>5, QueueMoves

LEMMA HandStep ==
    ASSUME InboundInv, Next
    PROVE  HandInv' /\ ConnectedInv'
<1>0. /\ HandInv /\ ConnectedInv /\ sockNo \in Nat /\ joinSock \in Nat /\ closes \in Nat
      /\ closes_before_connecting \subseteq Nat
      /\ client \in {"wait", "up", "ready"} /\ (client # "ready" => arriving = <<>>)
      /\ apc \in {"connecting", "session", "counting", "over"}
      /\ queue \in Seq(Incomings)
  BY DEF InboundInv, InboundTypeOK, ArrivingInv
<1>1. apc' = "connecting" => apc = "connecting"
  BY <1>0 DEF Next, ClientNext, AgentNext, AttemptFails, ClientConnects, Connected, Disconnected,
              CloseFrame, Data, ServerSends, ConnectReturns, ConnectTimesOut, RecvFrame, Read,
              RecvEnd, agentVars
<1>2. apc = "connecting" => \A i \in 1..Len(queue') : queue'[i].kind # "Frame"
  <2>1. SUFFICES ASSUME apc = "connecting"
                 PROVE  \A i \in 1..Len(queue') : queue'[i].kind # "Frame"
    OBVIOUS
  <2>2. CASE queue' = queue
    BY <1>0, <2>1, <2>2 DEF HandInv
  <2>3. ASSUME NEW incoming \in Incomings, Reported(incoming)
        PROVE  \A i \in 1..Len(queue') : queue'[i].kind # "Frame"
    <3>1. /\ Len(queue') = Len(queue) + 1 /\ queue'[Len(queue) + 1] = incoming
          /\ \A i \in 1..Len(queue) : queue'[i] = queue[i]
          /\ \A i \in 1..Len(queue') : i \in 1..Len(queue) \/ i = Len(queue) + 1
      BY <1>0, <2>3, AppendElements DEF Reported
    <3>2. incoming.kind # "Frame"
      <4>1. closes + 1 \in Nat /\ sockNo \in Nat
        BY <1>0
      <4>2. incoming = Closed(closes + 1, sockNo) \/ incoming = Overflow
        BY <2>1, <2>3 DEF Reported
      <4>3. Closed(closes + 1, sockNo).kind = "Closed" /\ Overflow.kind = "Overflow"
        BY <4>1, IncomingFacts
      <4> QED
        BY <4>2, <4>3
    <3> QED
      BY <1>0, <2>1, <3>1, <3>2 DEF HandInv
  <2> QED
    BY <2>1, <2>2, <2>3, QueueMoves
<1>3. CASE AttemptFails \/ Disconnected \/ CloseFrame
  <2>1. /\ closes' = closes + 1 /\ (arriving' = arriving \/ arriving' = <<>>)
        /\ UNCHANGED <<sockNo, closes_before_connecting, apc, inHand, joinSock>>
        /\ \/ client' = client
           \/ client = "ready" /\ client' = "wait"
    BY <1>3 DEF AttemptFails, Disconnected, CloseFrame, ReportClosed, agentVars
  <2>2. HandInv'
    BY <1>0, <1>2, <2>1 DEF HandInv
  <2>3. ConnectedInv'
    BY <1>0, <2>1 DEF ConnectedInv
  <2> QED
    BY <2>2, <2>3
<1>4. CASE ClientConnects
  BY <1>0, <1>4 DEF ClientConnects, HandInv, ConnectedInv, inboundVars, agentVars
<1>5. CASE Connected
  <2>1. /\ sockNo >= 1 /\ client' = "ready" /\ closes' = closes
        /\ UNCHANGED <<sockNo, arriving, queue, apc, inHand, joinSock>>
        /\ closes_before_connecting' =
              IF closes_before_connecting = {} THEN {closes} ELSE closes_before_connecting
    BY <1>0, <1>5 DEF Connected, ConnectedInv, agentVars
  <2>2. ConnectedInv'
    BY <1>0, <2>1 DEF ConnectedInv
  <2> QED
    BY <1>0, <2>1, <2>2 DEF HandInv
<1>6. CASE apc # "over" /\ Data
  <2>1. /\ apc \in {"session", "counting"}
        /\ UNCHANGED <<client, sockNo, closes, closes_before_connecting, agentVars>>
    BY <1>6, DataMoves
  <2> QED
    BY <1>0, <2>1 DEF HandInv, ConnectedInv, agentVars
<1>7. CASE ServerSends
  BY <1>0, <1>7 DEF ServerSends, HandInv, ConnectedInv, inboundVars, agentVars
<1>8. CASE AgentNext
  <2>1. ConnectedInv'
    BY <1>0, <1>8 DEF AgentNext, ConnectReturns, ConnectTimesOut, RecvFrame, Read, RecvEnd,
                      ConnectedInv, inboundVars
  <2>2. CASE ConnectReturns
    BY <1>0, <2>2 DEF ConnectReturns, HandInv, ConnectedInv, inboundVars
  <2>3. CASE ConnectTimesOut
    <3>1. apc = "connecting" /\ apc' = "over" /\ UNCHANGED inHand
      BY <2>3 DEF ConnectTimesOut
    <3> QED
      BY <1>0, <2>1, <3>1 DEF HandInv
  <2>4. CASE RecvFrame
    <3>1. apc = "session" /\ apc' = "counting" /\ inHand' = <<Head(queue)>>
          /\ UNCHANGED <<sockNo, joinSock>>
      BY <2>4 DEF RecvFrame
    <3>2. Len(inHand') = 1
      BY <3>1
    <3> QED
      BY <1>0, <2>1, <3>1, <3>2 DEF HandInv
  <2>5. CASE Read
    <3>1. apc = "counting" /\ apc' = "session" /\ inHand' = <<>> /\ UNCHANGED <<sockNo, joinSock>>
      BY <2>5 DEF Read
    <3> QED
      BY <1>0, <2>1, <3>1 DEF HandInv
  <2>6. CASE RecvEnd
    <3>1. apc = "session" /\ apc' \in {"over", "session"} /\ UNCHANGED <<sockNo, joinSock, inHand>>
      BY <2>6 DEF RecvEnd
    <3> QED
      BY <1>0, <2>1, <3>1 DEF HandInv
  <2> QED
    BY <1>8, <2>1, <2>2, <2>3, <2>4, <2>5, <2>6 DEF AgentNext
<1> QED
  BY <1>3, <1>4, <1>5, <1>6, <1>7, <1>8 DEF Next, ClientNext

\* What stands in front of a session when it has read one thing, or one more
\* has come.
LEMMA SocketStep ==
    ASSUME InboundInv, Next
    PROVE  SocketInv'
<1>0. /\ InboundTypeOK /\ HandInv /\ ConnectedInv /\ SocketInv
      /\ sockNo \in Nat /\ joinSock \in Nat /\ closes \in Nat /\ Len(queue) \in Nat
      /\ queue \in Seq(Incomings)
      /\ \A i \in 1..Len(queue) : queue[i] \in Incomings
  BY DEF InboundInv, InboundTypeOK
<1>1. SUFFICES ASSUME apc' \in {"session", "counting"}
               PROVE  SocketInv'
  BY DEF SocketInv
<1>2. CASE ConnectReturns
  <2>1. /\ client' # "wait" /\ joinSock' = sockNo' /\ sockNo' = sockNo /\ queue' = queue
        /\ \A i \in 1..Len(queue) : queue[i].kind # "Frame"
    BY <1>0, <1>2 DEF ConnectReturns, HandInv, inboundVars
  <2>2. \A i \in 1..Len(queue) : queue[i].kind = "Closed" => queue[i].sock <= sockNo
    BY DEF InboundInv, QueueInv
  <2> QED
    BY <2>1, <2>2 DEF SocketInv, Own
<1>3. CASE ClientConnects
  <2>1. /\ client = "wait" /\ apc' = apc
        /\ UNCHANGED <<queue, joinSock, closes_before_connecting>>
    BY <1>3 DEF ClientConnects, inboundVars, agentVars
  <2> QED
    BY <1>0, <1>1, <2>1 DEF SocketInv, Own, Ender, ends_session
<1>4. CASE Connected
  <2>1. /\ client = "up" /\ client' = "ready" /\ UNCHANGED <<queue, joinSock, sockNo, apc>>
        /\ closes_before_connecting # {} => closes_before_connecting' = closes_before_connecting
    BY <1>4 DEF Connected, agentVars
  <2>2. CASE closes_before_connecting # {}
    BY <1>0, <1>1, <2>1, <2>2 DEF SocketInv, Own, Ender, ends_session
  <2>3. CASE closes_before_connecting = {}
    <3>1. sockNo = joinSock
      BY <1>0, <1>1, <2>1, <2>3 DEF ConnectedInv, HandInv
    <3>2. \A i \in 1..Len(queue) : ~Ender(queue[i])
      BY <2>3 DEF Ender, ends_session
    <3>3. \A i \in 1..Len(queue) : \A j \in 1..(i - 1) : ~Ender(queue[j])
      BY <1>0, <3>2
    <3>4. \A i \in 1..Len(queue) : Own(queue[i])
      BY <1>0, <1>1, <2>1, <3>3 DEF SocketInv
    <3> QED
      BY <2>1, <3>1, <3>4 DEF SocketInv, Own
  <2> QED
    BY <2>2, <2>3
<1>5. CASE ServerSends \/ Read
  <2>1. UNCHANGED <<client, queue, joinSock, sockNo, closes_before_connecting>>
        /\ apc \in {"session", "counting"}
    BY <1>5 DEF ServerSends, Read, inboundVars, agentVars
  <2> QED
    BY <1>0, <2>1 DEF SocketInv, Own, Ender, ends_session
<1>6. CASE RecvFrame \/ RecvEnd
  <2>1. /\ queue # <<>> /\ queue' = Tail(queue) /\ apc = "session"
        /\ UNCHANGED <<client, joinSock, sockNo, closes_before_connecting>>
    BY <1>6 DEF RecvFrame, RecvEnd, inboundVars
  <2>2. ~Ender(Head(queue))
    BY <1>1, <1>6 DEF RecvFrame, RecvEnd, Ender
  <2>3. /\ \A i \in 1..Len(queue') : queue'[i] = queue[i + 1] /\ i + 1 \in 1..Len(queue)
        /\ \A i \in 2..Len(queue) : i - 1 \in 1..Len(queue') /\ queue'[i - 1] = queue[i]
        /\ Head(queue) = queue[1]
    BY <1>0, <2>1, TailElements
  <2>4. \A i \in 1..Len(queue) : Ender(queue[i]) => i \in 2..Len(queue)
    BY <1>0, <2>2, <2>3
  <2>5. \A i \in 1..Len(queue') : Ender(queue'[i]) <=> Ender(queue[i + 1])
    BY <2>1, <2>3 DEF Ender, ends_session
  <2>6. client' = "wait" \/ sockNo' # joinSock' => \E i \in 1..Len(queue') : Ender(queue'[i])
    <3>1. SUFFICES ASSUME client = "wait" \/ sockNo # joinSock
                   PROVE  \E i \in 1..Len(queue') : Ender(queue'[i])
      BY <2>1
    <3>2. PICK i \in 1..Len(queue) : Ender(queue[i])
      BY <1>0, <2>1, <3>1 DEF SocketInv
    <3>3. i - 1 \in 1..Len(queue') /\ (i - 1) + 1 = i
      BY <2>3, <2>4, <3>2
    <3> QED
      BY <2>5, <3>2, <3>3
  <2>7. ASSUME NEW i \in 1..Len(queue')
        PROVE  \/ Own(queue'[i])
               \/ \E j \in 1..(i - 1) : Ender(queue'[j])
    <3>1. i + 1 \in 1..Len(queue) /\ queue'[i] = queue[i + 1]
      BY <2>3, <2>7
    <3>2. CASE Own(queue[i + 1])
      BY <3>1, <3>2
    <3>3. ASSUME NEW j \in 1..((i + 1) - 1), Ender(queue[j])
          PROVE  \E h \in 1..(i - 1) : Ender(queue'[h])
      <4>1. j \in 1..Len(queue)
        BY <1>0, <3>1, <3>3
      <4>2. j - 1 \in 1..Len(queue') /\ (j - 1) + 1 = j /\ j \in 2..Len(queue)
        BY <2>3, <2>4, <3>3, <4>1
      <4>3. j - 1 \in 1..(i - 1)
        BY <3>3, <4>2
      <4> QED
        BY <2>5, <3>3, <4>2, <4>3
    <3> QED
      BY <1>0, <2>1, <3>1, <3>2, <3>3 DEF SocketInv
  <2> QED
    BY <2>1, <2>6, <2>7 DEF SocketInv, Own, Ender, ends_session
<1>7. ASSUME NEW incoming \in Incomings, Reported(incoming),
             \/ client' = client
             \/ client = "ready" /\ client' = "wait" /\ incoming = Closed(closes + 1, sockNo)
      PROVE  SocketInv'
  <2>1. /\ Len(queue') = Len(queue) + 1 /\ queue'[Len(queue) + 1] = incoming
        /\ \A i \in 1..Len(queue) : queue'[i] = queue[i] /\ i \in 1..Len(queue')
        /\ \A i \in 1..Len(queue') : i \in 1..Len(queue) \/ i = Len(queue) + 1
        /\ Len(queue) + 1 \in 1..Len(queue')
    <3>1. /\ Len(queue') = Len(queue) + 1 /\ queue'[Len(queue) + 1] = incoming
          /\ \A i \in 1..Len(queue) : queue'[i] = queue[i]
          /\ \A i \in 1..Len(queue') : i \in 1..Len(queue) \/ i = Len(queue) + 1
      BY <1>0, <1>7, AppendElements DEF Reported
    <3> QED
      BY <1>0, <3>1
  <2>2. /\ apc \in {"session", "counting"} /\ apc' = apc
        /\ UNCHANGED <<joinSock, sockNo, closes_before_connecting>>
    BY <1>1, <1>7 DEF Reported
  <2>3. \A i \in 1..Len(queue) : Ender(queue'[i]) <=> Ender(queue[i])
    BY <2>1, <2>2 DEF Ender, ends_session
  <2>4. client' = "wait" \/ sockNo' # joinSock' => \E i \in 1..Len(queue') : Ender(queue'[i])
    <3>1. CASE client = "wait" \/ sockNo # joinSock
      BY <1>0, <2>1, <2>2, <2>3, <3>1 DEF SocketInv
    <3>2. CASE client = "ready" /\ incoming = Closed(closes + 1, sockNo)
      <4>1. closes + 1 \in Nat /\ sockNo \in Nat
        BY <1>0
      <4>2. incoming.kind = "Closed" /\ incoming.n = closes + 1
        BY <3>2, <4>1, IncomingFacts
      <4>3. PICK before \in closes_before_connecting : before <= closes /\ before \in Nat
        BY <1>0, <3>2 DEF ConnectedInv, InboundTypeOK
      <4>4. incoming.n > before
        BY <1>0, <4>2, <4>3
      <4>5. Ender(queue'[Len(queue) + 1])
        BY <2>1, <2>2, <4>2, <4>3, <4>4 DEF Ender, ends_session
      <4> QED
        BY <2>1, <4>5
    <3> QED
      BY <1>7, <2>2, <3>1, <3>2
  <2>5. ASSUME NEW i \in 1..Len(queue')
        PROVE  \/ Own(queue'[i])
               \/ \E j \in 1..(i - 1) : Ender(queue'[j])
    <3>1. CASE i \in 1..Len(queue)
      <4>1. \A j \in 1..(i - 1) : j \in 1..Len(queue)
        BY <1>0, <3>1
      <4>2. \/ Own(queue[i])
            \/ \E j \in 1..(i - 1) : Ender(queue[j])
        BY <1>0, <2>1, <2>2, <2>5, <3>1 DEF SocketInv
      <4> QED
        BY <2>1, <2>3, <3>1, <4>1, <4>2
    <3>2. CASE i = Len(queue) + 1
      <4>1. /\ incoming.kind = "Frame" => incoming.pieces[1].sock = sockNo
            /\ incoming.kind = "Closed" => incoming.sock = sockNo
        <5>1. closes + 1 \in Nat /\ sockNo \in Nat
          BY <1>0
        <5>2. CASE incoming = Closed(closes + 1, sockNo) \/ incoming = Overflow
          BY <5>1, <5>2, IncomingFacts
        <5>3. ASSUME NEW m \in Messages, incoming = Frame(Pieces(m, sockNo), m.binary)
              PROVE  incoming.kind = "Frame" /\ incoming.pieces[1].sock = sockNo
          BY <1>0, <5>3, MessageFacts, IncomingFacts
        <5> QED
          BY <1>7, <5>2, <5>3 DEF Reported
      <4>4. CASE sockNo = joinSock
        BY <1>0, <2>1, <3>2, <4>1, <4>4 DEF Own
      <4>5. CASE sockNo # joinSock
        <5>1. PICK j \in 1..Len(queue) : Ender(queue[j])
          BY <1>0, <2>2, <4>5 DEF SocketInv
        <5>2. j \in 1..(i - 1)
          BY <1>0, <3>2
        <5> QED
          BY <2>3, <5>1, <5>2
      <4> QED
        BY <4>4, <4>5
    <3> QED
      BY <2>1, <3>1, <3>2
  <2> QED
    BY <2>2, <2>4, <2>5 DEF SocketInv, Own, Ender, ends_session
<1>8. CASE AttemptFails \/ Disconnected \/ CloseFrame
  <2>1. closes + 1 \in Nat /\ sockNo \in Nat
    BY <1>0
  <2>2. Reported(Closed(closes + 1, sockNo))
    BY <1>8 DEF AttemptFails, Disconnected, CloseFrame, ReportClosed, Reported, agentVars
  <2>3. client' = client \/ (client = "ready" /\ client' = "wait")
    BY <1>8 DEF AttemptFails, Disconnected, CloseFrame
  <2> QED
    BY <1>7, <2>1, <2>2, <2>3, IncomingFacts
<1>9. CASE apc # "over" /\ Data
  <2>1. UNCHANGED <<client, sockNo, closes, closes_before_connecting, agentVars>>
    BY <1>9, DataMoves
  <2>2. CASE UNCHANGED queue
    BY <1>0, <1>1, <2>1, <2>2 DEF SocketInv, Own, Ender, ends_session, agentVars
  <2>3. CASE UNCHANGED queue \/ \E incoming \in Incomings : Reported(incoming)
    BY <1>7, <2>1, <2>2, <2>3
  <2>4. queue # <<>> => queue' # Tail(queue)
    <3>1. queue' = queue \/ \E x \in Incomings : queue' = Append(queue, x)
      <4>1. PICK m \in Messages : \E k \in 1..Len(m.headers) :
                \/ Overflows
                \/ Kept(m, k)
                \/ k = Len(m.headers) /\ Done(m)
                \/ overflowed /\ UNCHANGED <<partial, binary, unread, overflowed, queue>>
        BY <1>9, DataMoves
      <4>2. Frame(Pieces(m, sockNo), m.binary) \in Incomings /\ Overflow \in Incomings
        BY <1>0, MessageFacts, IncomingFacts
      <4> QED
        BY <4>1, <4>2 DEF Overflows, Kept, Done
    <3>2. Len(queue') >= Len(queue)
      BY <1>0, <3>1, AppendElements
    <3>3. queue # <<>> => Len(Tail(queue)) < Len(queue)
      BY <1>0
    <3> QED
      BY <1>0, <3>2, <3>3
  <2> QED
    BY <2>3, <2>4, QueueMoves
<1> QED
  BY <1>1, <1>2, <1>3, <1>4, <1>5, <1>6, <1>8, <1>9
  DEF Next, ClientNext, AgentNext, ConnectTimesOut

\* What is counted is what is in the channel and in the agent's hand.
LEMMA AccountStep ==
    ASSUME InboundInv, Next
    PROVE  AccountInv'
<1>0. /\ InboundTypeOK /\ AccountInv /\ HandInv
      /\ unread \in Nat /\ Len(partial) \in Nat /\ MAX_UNREAD_BYTES \in Nat
      /\ closes + 1 \in Nat /\ sockNo \in Nat
      /\ queue \in Seq(Incomings) /\ inHand \in Seq(FrameSpace)
  BY SizesAssumption DEF InboundInv, InboundTypeOK
<1>1. /\ \A i \in 1..Len(queue) : queue[i] \in Incomings /\ FrameLen(queue[i]) \in Nat
      /\ \A i \in 1..Len(inHand) : inHand[i] \in FrameSpace /\ FrameLen(inHand[i]) \in Nat
  <2>1. \A i \in 1..Len(queue) : queue[i] \in Incomings
    BY <1>0
  <2>2. \A i \in 1..Len(inHand) : inHand[i] \in FrameSpace
    BY <1>0
  <2> QED
    BY <2>1, <2>2, IncomingFacts
<1>2. Bytes(queue) \in Nat /\ Bytes(inHand) \in Nat
  BY <1>0, <1>1, HeldFinite
<1>3. Bytes(<<>>) = 0 /\ Len(<<>>) = 0
  BY BytesEmpty
<1>4. \A incoming \in Incomings :
          Bytes(Append(queue, incoming)) = Bytes(queue) + FrameLen(incoming)
  BY <1>0, <1>1, IncomingFacts, BytesAppend
<1>5. queue # <<>> => /\ Bytes(Tail(queue)) = Bytes(queue) - FrameLen(Head(queue))
                      /\ Head(queue) \in Incomings /\ FrameLen(Head(queue)) \in Nat
  <2>1. queue # <<>> => Bytes(Tail(queue)) = Bytes(queue) - FrameLen(Head(queue))
    BY <1>0, <1>1, BytesTail
  <2>2. queue # <<>> => Head(queue) \in Incomings
    BY <1>0, TailElements
  <2> QED
    BY <2>1, <2>2, IncomingFacts
<1>6. ASSUME NEW frames \in Seq(FrameSpace), Len(frames) = 1
      PROVE  Bytes(frames) = FrameLen(frames[1]) /\ FrameLen(frames[1]) \in Nat
  <2>1. /\ frames # <<>> /\ Head(frames) = frames[1] /\ frames[1] \in FrameSpace
        /\ Tail(frames) = <<>> /\ \A i \in 1..Len(frames) : frames[i] \in FrameSpace
    <3>1. frames # <<>> /\ 1 \in 1..Len(frames)
      BY <1>6
    <3>2. \A i \in 1..Len(frames) : frames[i] \in FrameSpace
      OBVIOUS
    <3>3. Tail(frames) \in Seq(FrameSpace) /\ Len(Tail(frames)) = 0 /\ Head(frames) = frames[1]
      BY <1>6, <3>1, TailElements
    <3>4. Tail(frames) = <<>>
      BY <3>3, NothingElse
    <3> QED
      BY <3>1, <3>2, <3>3, <3>4
  <2>2. /\ FrameLen(frames[1]) \in Nat
        /\ \A i \in 1..Len(frames) : FrameLen(frames[i]) \in Nat
    BY <2>1, IncomingFacts
  <2>3. Bytes(<<>>) = Bytes(frames) - FrameLen(frames[1]) /\ Bytes(frames) \in Nat
    BY <2>1, <2>2, BytesTail, HeldFinite
  <2> QED
    BY <1>3, <2>2, <2>3
<1>7. CASE AttemptFails \/ Disconnected \/ CloseFrame
  <2>1. queue' = Append(queue, Closed(closes + 1, sockNo)) /\ UNCHANGED <<unread, partial, inHand>>
    BY <1>7 DEF AttemptFails, Disconnected, CloseFrame, ReportClosed, agentVars
  <2>2. Bytes(queue') = Bytes(queue) + 0
    BY <1>0, <1>4, <2>1, IncomingFacts
  <2> QED
    BY <1>0, <1>2, <2>1, <2>2 DEF AccountInv
<1>8. CASE ClientConnects \/ Connected \/ ServerSends \/ ConnectReturns \/ ConnectTimesOut
  <2>1. UNCHANGED <<queue, unread, partial, inHand>>
    BY <1>8 DEF ClientConnects, Connected, ServerSends, ConnectReturns, ConnectTimesOut,
                inboundVars, agentVars
  <2> QED
    BY <1>0, <2>1 DEF AccountInv
<1>9. CASE apc # "over" /\ Data
  <2>1. PICK m \in Messages : \E k \in 1..Len(m.headers) :
            \/ Overflows
            \/ Kept(m, k)
            \/ k = Len(m.headers) /\ Done(m)
            \/ overflowed /\ UNCHANGED <<partial, binary, unread, overflowed, queue>>
    BY <1>9, DataMoves
  <2>2. inHand' = inHand /\ Len(m.headers) \in Nat
    BY <1>9, DataMoves, MessagesAssumption DEF agentVars
  <2>3. CASE Overflows
    <3>1. Bytes(queue') = Bytes(queue) + 0
      BY <1>4, <2>3, IncomingFacts DEF Overflows
    <3> QED
      BY <1>0, <1>2, <1>3, <2>2, <2>3, <3>1 DEF AccountInv, Overflows
  <2>4. ASSUME NEW k \in 1..Len(m.headers), Kept(m, k)
        PROVE  AccountInv'
    BY <1>0, <2>2, <2>4 DEF AccountInv, Kept
  <2>5. CASE Done(m)
    <3>1. CASE UNCHANGED <<unread, queue>>
      BY <1>0, <1>3, <2>2, <2>5, <3>1 DEF AccountInv, Done
    <3>2. CASE /\ unread' = unread + Len(m.headers)
               /\ queue' = Append(queue, Frame(Pieces(m, sockNo), m.binary))
      <4>1. Bytes(queue') = Bytes(queue) + Len(m.headers)
        <5>1. /\ Frame(Pieces(m, sockNo), m.binary) \in Incomings
              /\ FrameLen(Frame(Pieces(m, sockNo), m.binary)) = Len(m.headers)
          BY <1>0, MessageFacts, IncomingFacts
        <5> QED
          BY <1>4, <3>2, <5>1
      <4>2. Len(partial') = 0 /\ unread + Len(m.headers) <= MAX_UNREAD_BYTES
        BY <1>3, <2>5 DEF Done
      <4>3. unread = Bytes(queue) + Bytes(inHand) /\ Bytes(inHand') = Bytes(inHand)
        BY <1>0, <2>2 DEF AccountInv
      <4>4. unread' + Len(partial') <= MAX_UNREAD_BYTES
        BY <1>0, <2>2, <3>2, <4>2
      <4>5. unread' = Bytes(queue') + Bytes(inHand')
        BY <1>2, <2>2, <3>2, <4>1, <4>3
      <4> QED
        BY <4>4, <4>5 DEF AccountInv
    <3> QED
      BY <2>5, <3>1, <3>2 DEF Done
  <2>6. CASE UNCHANGED <<partial, binary, unread, overflowed, queue>>
    BY <1>0, <2>2, <2>6 DEF AccountInv
  <2> QED
    BY <2>1, <2>3, <2>4, <2>5, <2>6
<1>10. CASE RecvFrame
  <2>1. /\ queue # <<>> /\ Head(queue).kind = "Frame" /\ apc = "session"
        /\ inHand' = <<Head(queue)>> /\ queue' = Tail(queue) /\ UNCHANGED <<unread, partial>>
    BY <1>10 DEF RecvFrame, inboundVars
  <2>2. Bytes(inHand') = FrameLen(Head(queue))
    <3>1. Head(queue) \in FrameSpace
      BY <1>5, <2>1, IncomingFacts
    <3>2. inHand' \in Seq(FrameSpace) /\ Len(inHand') = 1 /\ inHand'[1] = Head(queue)
      BY <2>1, <3>1
    <3> QED
      BY <1>6, <3>2
  <2>3. Bytes(inHand) = 0
    BY <1>0, <1>3, <2>1 DEF HandInv
  <2> QED
    BY <1>0, <1>2, <1>5, <2>1, <2>2, <2>3 DEF AccountInv
<1>11. CASE Read
  <2>1. /\ Len(inHand) = 1 /\ inHand' = <<>> /\ UNCHANGED <<queue, partial>>
        /\ unread' = IF unread > FrameLen(inHand[1]) THEN unread - FrameLen(inHand[1]) ELSE 0
    BY <1>0, <1>11 DEF Read, HandInv
  <2>2. Bytes(inHand) = FrameLen(inHand[1]) /\ FrameLen(inHand[1]) \in Nat
    BY <1>0, <1>6, <2>1
  <2>3. unread' = Bytes(queue) /\ Bytes(inHand') = 0 /\ unread' <= unread
    BY <1>0, <1>2, <1>3, <2>1, <2>2 DEF AccountInv
  <2> QED
    BY <1>0, <1>2, <2>1, <2>3 DEF AccountInv
<1>12. CASE RecvEnd
  <2>1. /\ queue # <<>> /\ Head(queue).kind # "Frame" /\ queue' = Tail(queue)
        /\ UNCHANGED <<unread, partial, inHand>>
    BY <1>12 DEF RecvEnd, inboundVars
  <2>2. FrameLen(Head(queue)) = 0
    BY <2>1 DEF FrameLen
  <2> QED
    BY <1>0, <1>2, <1>5, <2>1, <2>2 DEF AccountInv
<1> QED
  BY <1>7, <1>8, <1>9, <1>10, <1>11, <1>12 DEF Next, ClientNext, AgentNext

\* What a session reads, and what ends it.
ReadsOwn ==
    apc = "session" /\ apc' = "counting" => inHand'[1].pieces[1].sock = joinSock

EndsByOwn ==
    apc = "session" /\ apc' = "over" =>
        \/ Head(queue).kind = "Overflow"
        \/ Head(queue).kind = "Closed" /\ Head(queue).sock \in 1..joinSock

LEMMA SessionStep ==
    ASSUME InboundInv, Next
    PROVE  ReadsOwn /\ EndsByOwn
<1>0. /\ HandInv /\ SocketInv /\ QueueInv /\ queue \in Seq(Incomings) /\ joinSock \in Nat
  BY DEF InboundInv, InboundTypeOK
<1>1. queue # <<>> => /\ Head(queue) = queue[1] /\ 1 \in 1..Len(queue)
                      /\ Head(queue) \in Incomings
  BY <1>0, TailElements
<1>2. apc = "session" /\ queue # <<>> => Own(Head(queue))
  <2>1. SUFFICES ASSUME apc = "session", queue # <<>>
                 PROVE  Own(queue[1])
    BY <1>1
  <2>2. Own(queue[1]) \/ \E j \in 1..(1 - 1) : Ender(queue[j])
    BY <1>0, <1>1, <2>1 DEF SocketInv
  <2> QED
    BY <2>2
<1>3. CASE RecvFrame
  <2>1. /\ queue # <<>> /\ Head(queue).kind = "Frame" /\ apc = "session"
        /\ inHand' = <<Head(queue)>> /\ apc' = "counting"
    BY <1>3 DEF RecvFrame
  <2>2. Head(queue).pieces[1].sock = joinSock /\ inHand'[1] = Head(queue)
    BY <1>2, <2>1 DEF Own
  <2> QED
    BY <2>1, <2>2 DEF ReadsOwn, EndsByOwn
<1>4. CASE RecvEnd
  <2>1. /\ queue # <<>> /\ Head(queue).kind # "Frame" /\ apc = "session"
        /\ apc' = IF Head(queue).kind = "Overflow" \/ ends_session(Head(queue).n)
                  THEN "over" ELSE "session"
    BY <1>4 DEF RecvEnd
  <2>2. CASE Head(queue).kind = "Overflow" \/ apc' = "session"
    BY <2>1, <2>2 DEF ReadsOwn, EndsByOwn
  <2>3. CASE Head(queue).kind = "Closed" /\ ends_session(Head(queue).n)
    <3>1. Head(queue).sock \in Nat /\ Head(queue).sock <= joinSock
      BY <1>1, <1>2, <2>1, <2>3, IncomingFacts DEF Own
    <3>2. Head(queue).sock # 0
      BY <1>0, <1>1, <2>1, <2>3 DEF QueueInv
    <3>3. Head(queue).sock \in 1..joinSock
      BY <1>0, <3>1, <3>2
    <3> QED
      BY <2>1, <2>3, <3>3 DEF ReadsOwn, EndsByOwn
  <2> QED
    BY <1>1, <2>1, <2>2, <2>3, IncomingFacts
<1>5. CASE ClientNext \/ ServerSends
  <2>1. apc' = apc
    BY <1>5 DEF ClientNext, AttemptFails, ClientConnects, Connected, Disconnected,
        CloseFrame, Data, ServerSends, agentVars
  <2> QED
    BY <2>1 DEF ReadsOwn, EndsByOwn
<1>6. CASE ConnectReturns \/ ConnectTimesOut \/ Read
  BY <1>6 DEF ConnectReturns, ConnectTimesOut, Read, ReadsOwn, EndsByOwn
<1> QED
  BY <1>3, <1>4, <1>5, <1>6 DEF Next, AgentNext

----------------------------------------------------------------------------
(* The theorems.                                                           *)

LEMMA InboundInit == Init => InboundInv
<1>1. SUFFICES ASSUME Init
               PROVE  InboundInv
  OBVIOUS
<1>2. <<>> \in Seq(PieceSpace) /\ <<>> \in Seq(Incomings) /\ <<>> \in Seq(FrameSpace)
      /\ Len(<<>>) = 0
  OBVIOUS
<1>3. InboundTypeOK
  BY <1>1, <1>2 DEF Init, InboundTypeOK
<1>4. ArrivingInv /\ QueueInv /\ HandInv /\ ConnectedInv /\ SocketInv
  BY <1>1, <1>2
  DEF Init, ArrivingInv, QueueInv, HandInv, ConnectedInv, SocketInv
<1>5. AccountInv
  BY <1>1, <1>2, BytesEmpty, SizesAssumption DEF Init, AccountInv
<1> QED
  BY <1>3, <1>4, <1>5 DEF InboundInv

\* The types, what is where in a message, what is ahead of what in the queue, and
\* the account of it, together, whatever the client, NervesHub and the agent's
\* thread do and in whatever order.
THEOREM InboundInvariant == Spec => []InboundInv
<1>1. Init => InboundInv
  BY InboundInit
<1>2. InboundInv /\ [Next]_vars => InboundInv'
  <2>1. SUFFICES ASSUME InboundInv, [Next]_vars
                 PROVE  InboundInv'
    OBVIOUS
  <2>2. CASE Next
    BY <2>1, <2>2, TypeStep, ArrivingStep, QueueStep, HandStep, SocketStep, AccountStep
    DEF InboundInv
  <2>3. CASE UNCHANGED vars
    <3>1. UNCHANGED <<client, sockNo, arriving, partial, binary, unread, overflowed, closes,
                      closes_before_connecting, queue, apc, inHand, joinSock>>
      BY <2>3 DEF vars, inboundVars, agentVars
    <3>2. InboundTypeOK' /\ ArrivingInv' /\ HandInv' /\ ConnectedInv' /\ AccountInv'
      BY <2>1, <3>1 DEF InboundInv, InboundTypeOK, ArrivingInv, Rest, Begun, HandInv,
                        ConnectedInv, AccountInv
    <3>3. QueueInv' /\ SocketInv'
      BY <2>1, <3>1 DEF InboundInv, QueueInv, Whole, SocketInv, Own, Ender, ends_session
    <3> QED
      BY <3>2, <3>3 DEF InboundInv
  <2> QED
    BY <2>1, <2>2, <2>3
<1> QED
  BY <1>1, <1>2, PTL DEF Spec

\* Inbound::piece refuses what would pass the limit, and Inbound::read takes off
\* what piece put on: what waits is bounded and the account of it exact.
THEOREM WhatIsHeldIsBounded == Spec => []HeldBounded
<1>1. InboundInv => HeldBounded
  <2>1. SUFFICES ASSUME InboundInv
                 PROVE  HeldBounded
    OBVIOUS
  <2>2. /\ unread \in Nat /\ Len(partial) \in Nat /\ MAX_UNREAD_BYTES \in Nat
        /\ unread + Len(partial) <= MAX_UNREAD_BYTES
        /\ unread = Bytes(queue) + Bytes(inHand)
    BY <2>1, SizesAssumption DEF InboundInv, InboundTypeOK, AccountInv
  <2>3. Bytes(queue) \in Nat /\ Bytes(inHand) \in Nat
    <3>1. /\ queue \in Seq(Incomings) /\ inHand \in Seq(FrameSpace)
          /\ \A i \in 1..Len(queue) : queue[i] \in Incomings
          /\ \A i \in 1..Len(inHand) : inHand[i] \in FrameSpace
      BY <2>1 DEF InboundInv, InboundTypeOK
    <3> QED
      BY <3>1, IncomingFacts, HeldFinite
  <2> QED
    BY <2>2, <2>3 DEF HeldBounded
<1> QED
  BY <1>1, InboundInvariant, PTL

\* Whatever of a message is lost with a socket, the frames Inbound::piece hands on
\* are messages as they were sent.
THEOREM FramesAreWhole == Spec => []WholeMessages
<1>1. InboundInv => WholeMessages
  <2>1. SUFFICES ASSUME InboundInv, NEW i \in 1..Len(queue), queue[i].kind = "Frame"
                 PROVE  LET first == queue[i].pieces[1]
                        IN  /\ queue[i].pieces = Pieces(first.msg, first.sock)
                            /\ queue[i].binary = first.msg.binary
    BY DEF WholeMessages
  <2>2. PICK m \in Messages, sock \in Nat :
            queue[i].pieces = Pieces(m, sock) /\ queue[i].binary = m.binary
    BY <2>1 DEF InboundInv, QueueInv, Whole
  <2>3. Len(m.headers) \in Nat /\ m.headers # <<>> /\ 1 \in 1..Len(m.headers)
    BY MessagesAssumption, FramingAssumption
  <2>4. queue[i].pieces[1] = Piece(m, 1, sock)
    BY <2>2, <2>3 DEF Pieces
  <2>5. queue[i].pieces[1].msg = m /\ queue[i].pieces[1].sock = sock
    BY <2>3, <2>4, PieceFacts
  <2> QED
    BY <2>2, <2>5
<1> QED
  BY <1>1, InboundInvariant, PTL

\* Inbound.SessionIsItsSocket: the closes numbered by Inbound::closed and the
\* number Inbound::connected keeps tell the end of a socket that was reported
\* connected from the failed attempts before it, and such a close stands in the
\* queue ahead of anything of a later socket, its close included: a session reads
\* its own socket's messages, and ends by its own socket's close or by that of one
\* that had come and gone before it joined.
THEOREM SessionsKeepToASocket == Spec => SessionIsItsSocket
<1>1. InboundInv /\ [Next]_vars => [ReadsOwn /\ EndsByOwn]_vars
  BY SessionStep
<1>2. [][ReadsOwn /\ EndsByOwn]_vars => SessionIsItsSocket
  <2>1. [ReadsOwn /\ EndsByOwn]_vars =>
            [/\ apc = "session" /\ apc' = "counting" => inHand'[1].pieces[1].sock = joinSock
             /\ apc = "session" /\ apc' = "over" =>
                   \/ Head(queue).kind = "Overflow"
                   \/ Head(queue).kind = "Closed" /\ Head(queue).sock \in 1..joinSock]_vars
    BY DEF ReadsOwn, EndsByOwn
  <2> QED
    BY <2>1, PTL DEF SessionIsItsSocket
<1> QED
  BY <1>1, <1>2, InboundInvariant, PTL DEF Spec

============================================================================
