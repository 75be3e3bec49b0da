---------------------------- MODULE FbServeProofs ----------------------------
(***************************************************************************)
(* ServeInv is inductive: for any clients, requests, buffer size, backlog, *)
(* picture size, scale and number of rows drawn.                           *)
(***************************************************************************)
EXTENDS FbServe, FiniteSetTheorems, TLAPS

Connection ==
    [state : {"off", "open", "silent", "closed"}, request : Requests \cup {NoRequest},
     sent : Nat, got : Replies \cup {"cut", "reset"}]

\* What a client got fits its request: RightAnswer, a client at a time.
Fits(r) ==
    /\ r.got = "413"   => r.request.total >= RequestBytes
    /\ r.got = "reset" => r.request.total > r.request.head \/ r.request.total > RequestBytes
    /\ r.got \in Replies \ {"none", "413"} => r.sent >= r.request.head
    /\ r.got = "image" => r.request.kind = "frame"
Answers == \A c \in Clients : Fits(conn[c])

\* The two halves of the invariant, which share only where the server is.
Pictures == FreshImage /\ FreshCopy
Connections == OneConnection /\ Decided /\ Answers /\ OnceOnly

ServerTypes ==
    /\ pc \in {"accept", "recv", "read", "send", "exited"} /\ once \in BOOLEAN
    /\ client \in Clients \cup {NoClient}
    /\ used \in 0 .. RequestBytes /\ offset \in 0 .. Scale * ImageRows
    /\ reply \in Replies
ScreenTypes ==
    /\ framebuffer \in [Rows -> 0 .. MaxDraws] /\ bitmap \in [Picture -> 0 .. MaxDraws]
    /\ screen \in [Rows -> 0 .. MaxDraws] /\ asof \in [Rows -> 0 .. MaxDraws]
    /\ draws \in 0 .. MaxDraws
ClientTypes == queue \in Seq(Clients) /\ conn \in [Clients -> Connection]
Types == ServerTypes /\ ScreenTypes /\ ClientTypes

\* --once answers once, as a count.
LEMMA OnceCounts ==
    ASSUME OnceOnly, once
    PROVE  Cardinality({c \in Clients : conn[c].got # "none"}) <= 1
<1> DEFINE S == {c \in Clients : conn[c].got # "none"}
<1>1. S = {} \/ \E x : S = {x}
    BY DEF OnceOnly
<1>2. Cardinality(S) = 0 \/ Cardinality(S) = 1
    BY <1>1, FS_EmptySet, FS_Singleton
<1> HIDE DEF S
<1>3. Cardinality(S) <= 1
    BY <1>2
<1>4. QED
    BY <1>3 DEF S

LEMMA Gather == Types /\ Pictures /\ Connections => ServeInv
<1> SUFFICES ASSUME Types, Pictures, Connections PROVE ServeInv
    OBVIOUS
<1>1. TypeOK
    BY DEF Types, ServerTypes, ScreenTypes, ClientTypes, Connection, TypeOK
<1>2. RightAnswer
    <2>1. once => Cardinality({c \in Clients : conn[c].got # "none"}) <= 1
        BY OnceCounts DEF Connections
    <2>2. QED
        BY <2>1 DEF RightAnswer, Connections, Answers, Fits
<1>3. QED
    BY <1>1, <1>2 DEF ServeInv, Pictures, Connections

LEMMA GatherNext ==
    ASSUME Types', Pictures', Connections'
    PROVE  ServeInv'
<1>1. (Types /\ Pictures /\ Connections => ServeInv)'
    BY Gather, PTL
<1>2. QED
    BY <1>1

LEMMA Parts ==
    ASSUME ServeInv
    PROVE  Types /\ Pictures /\ Connections
<1>1. Types
    BY DEF ServeInv, TypeOK, Types, ServerTypes, ScreenTypes, ClientTypes, Connection
<1>2. Pictures
    BY DEF ServeInv, Pictures
<1>3. Connections
    BY DEF ServeInv, RightAnswer, Connections, Answers, Fits
<1>4. QED
    BY <1>1, <1>2, <1>3

\* The requests are of the shape the assumption gives them.
LEMMA RequestFacts ==
    ASSUME NEW q \in Requests \cup {NoRequest}
    PROVE  q.kind \in Kinds /\ q.head \in Nat /\ q.total \in Nat
<1>1. CASE q \in Requests
    <2>1. q \in [kind : Kinds, head : Nat \ {0}, total : Nat]
        BY <1>1, FbServeAssumption
    <2>2. QED
        BY <2>1
<1>2. CASE q = NoRequest
    BY <1>2 DEF NoRequest, Kinds
<1>3. QED
    BY <1>1, <1>2

\* The rows build_bitmap takes are rows of the screen (vita-fbserve.c:122-147).
LEMMA SizeFacts ==
    /\ Scale * ImageRows \in Nat /\ ImageRows <= Scale * ImageRows
    /\ \A y \in Picture : (ImageRows - 1 - y) * Scale \in Rows
<1>1. Scale \in Nat /\ ImageRows \in Nat /\ Scale >= 1 /\ ImageRows >= 1
    BY FbServeAssumption
<1>2. Scale * ImageRows \in Nat /\ ImageRows <= Scale * ImageRows
    BY <1>1
<1>3. ASSUME NEW y \in Picture PROVE (ImageRows - 1 - y) * Scale \in Rows
    <2> DEFINE k == ImageRows - 1 - y
    <2>1. k \in Nat /\ k <= ImageRows - 1
        BY <1>1 DEF Picture
    <2> HIDE DEF k
    <2>2. k * Scale \in Nat /\ k * Scale + Scale <= Scale * ImageRows
        BY <1>1, <2>1
    <2>3. k * Scale \in 0 .. Scale * ImageRows - 1
        BY <1>1, <1>2, <2>2
    <2>4. QED
        BY <2>3 DEF k, Rows
<1>4. QED
    BY <1>2, <1>3

-----------------------------------------------------------------------------
(* The pictures *)

\* The versions of rows are numbers.
LEMMA Versions ==
    ASSUME ScreenTypes
    PROVE  /\ draws \in Nat
           /\ \A r \in Rows : framebuffer[r] \in Nat /\ screen[r] \in Nat /\ asof[r] \in Nat
           /\ \A y \in Picture : bitmap[y] \in Nat
PROOF BY FbServeAssumption DEF ScreenTypes

\* Steps that touch neither the screen nor a buffer.
LEMMA PicturesStay ==
    ASSUME Pictures, UNCHANGED <<framebuffer, bitmap, screen, asof, draws>>,
           pc' = "read" => pc = "read" /\ offset' = offset,
           pc' = "send" /\ reply' = "image" => pc = "send" /\ reply = "image"
    PROVE  Pictures'
<1>1. FreshImage'
    BY DEF Pictures, FreshImage
<1>2. FreshCopy'
    BY DEF Pictures, FreshCopy
<1>3. QED
    BY <1>1, <1>2 DEF Pictures

\* A row is drawn: what was fresh stays fresh.
LEMMA DrawKeepsPictures ==
    ASSUME Types, Pictures, NEW w \in Rows, Draw(w)
    PROVE  ScreenTypes' /\ Pictures'
<1>1. ScreenTypes /\ FreshImage /\ FreshCopy
    BY DEF Types, Pictures
<1>2. /\ UNCHANGED <<pc, offset, reply, framebuffer, bitmap, asof>>
      /\ screen' = [screen EXCEPT ![w] = screen[w] + 1]
      /\ draws < MaxDraws /\ draws' = draws + 1
    BY DEF Draw, server
<1>3. /\ screen'[w] = screen[w] + 1
      /\ \A r \in Rows : r # w => screen'[r] = screen[r]
    BY <1>1, <1>2 DEF ScreenTypes
<1>4. ScreenTypes'
    <2>1. draws' \in 0 .. MaxDraws
        BY <1>1, <1>2, FbServeAssumption DEF ScreenTypes
    <2>2. screen[w] + 1 \in 0 .. MaxDraws
        BY <1>1, <1>2, Versions, FbServeAssumption DEF FreshCopy
    <2>3. screen' \in [Rows -> 0 .. MaxDraws]
        BY <1>1, <1>2, <2>2 DEF ScreenTypes
    <2>4. QED
        BY <1>1, <1>2, <2>1, <2>3 DEF ScreenTypes
<1>5. \A r \in Rows : screen[r] <= screen'[r] /\ screen'[r] <= draws' /\ screen'[r] \in Nat
    BY <1>1, <1>2, <1>3, Versions DEF FreshCopy
<1>6. FreshImage'
    <2> SUFFICES ASSUME pc = "send", reply = "image", NEW y \in Picture
                 PROVE  bitmap[y] \in asof[(ImageRows - 1 - y) * Scale]
                                         .. screen'[(ImageRows - 1 - y) * Scale]
        BY <1>2 DEF FreshImage
    <2> DEFINE r == (ImageRows - 1 - y) * Scale
    <2>1. r \in Rows
        BY SizeFacts
    <2>2. bitmap[y] \in asof[r] .. screen[r]
        BY <1>1 DEF FreshImage
    <2> HIDE DEF r
    <2>3. bitmap[y] \in asof[r] .. screen'[r]
        BY <1>1, <1>5, <2>1, <2>2, Versions
    <2>4. QED
        BY <2>3 DEF r
<1>7. FreshCopy'
    <2> SUFFICES ASSUME NEW r \in Rows
                 PROVE  /\ asof[r] <= screen'[r] /\ screen'[r] <= draws'
                        /\ pc = "read" /\ r < offset => framebuffer[r] \in asof[r] .. screen'[r]
        BY <1>2 DEF FreshCopy
    <2>1. asof[r] <= screen[r] /\ (pc = "read" /\ r < offset => framebuffer[r] \in asof[r] .. screen[r])
        BY <1>1 DEF FreshCopy
    <2>2. QED
        BY <1>1, <1>5, <2>1, Versions
<1>8. QED
    BY <1>4, <1>6, <1>7 DEF Pictures

\* read_frame: every row of the copy is of this request once all are read.
LEMMA ReadKeepsPictures ==
    ASSUME Types, Pictures, Read
    PROVE  ScreenTypes' /\ Pictures' /\ offset' \in 0 .. Scale * ImageRows
<1>1. ScreenTypes /\ FreshImage /\ FreshCopy /\ offset \in 0 .. Scale * ImageRows
    BY DEF Types, Pictures, ServerTypes
<1>2. UNCHANGED <<screen, draws, asof>> /\ pc = "read"
    BY DEF Read, Quiet
<1>3. CASE ShortRead /\ offset' = 0 /\ UNCHANGED framebuffer
    <2>1. ScreenTypes'
        BY <1>1, <1>2, <1>3 DEF ScreenTypes, ShortRead
    <2>2. Pictures'
        BY <1>1, <1>2, <1>3 DEF Pictures, FreshImage, FreshCopy, ShortRead
    <2>3. offset' \in 0 .. Scale * ImageRows
        BY <1>3, SizeFacts
    <2>4. QED
        BY <2>1, <2>2, <2>3
<1>4. ASSUME NEW n \in 1 .. Scale * ImageRows - offset,
             framebuffer' = [r \in Rows |-> IF r \in offset .. offset + n - 1
                                            THEN screen[r] ELSE framebuffer[r]],
             IF offset + n < Scale * ImageRows
             THEN offset' = offset + n /\ UNCHANGED <<pc, reply, bitmap>>
             ELSE /\ pc' = "send" /\ reply' = "image"
                  /\ bitmap' = Build(framebuffer')
                  /\ offset' = 0
      PROVE  ScreenTypes' /\ Pictures' /\ offset' \in 0 .. Scale * ImageRows
    <2>1. framebuffer' \in [Rows -> 0 .. MaxDraws]
        BY <1>1, <1>4 DEF ScreenTypes
    <2>2. \A r \in Rows : r < offset + n => framebuffer'[r] \in asof[r] .. screen[r]
        <3> SUFFICES ASSUME NEW r \in Rows, r < offset + n
                     PROVE  framebuffer'[r] \in asof[r] .. screen[r]
            OBVIOUS
        <3>1. r \in Nat /\ offset \in Nat /\ n \in Nat
            BY <1>1, SizeFacts DEF Rows
        <3>2. asof[r] <= screen[r] /\ (r < offset => framebuffer[r] \in asof[r] .. screen[r])
            BY <1>1, <1>2 DEF FreshCopy
        <3>3. framebuffer'[r] = IF r >= offset THEN screen[r] ELSE framebuffer[r]
            BY <1>4, <3>1
        <3>4. QED
            BY <1>1, <3>1, <3>2, <3>3, Versions
    <2>3. CASE offset + n < Scale * ImageRows
        <3>1. offset' = offset + n /\ UNCHANGED <<pc, reply, bitmap>>
            BY <1>4, <2>3
        <3>2. offset + n \in 0 .. Scale * ImageRows
            BY <1>1, <1>4, <2>3, SizeFacts
        <3>3. ScreenTypes'
            BY <1>1, <1>2, <2>1, <3>1 DEF ScreenTypes
        <3>4. FreshImage' /\ FreshCopy'
            BY <1>1, <1>2, <2>2, <3>1 DEF FreshImage, FreshCopy
        <3>5. QED
            BY <3>1, <3>2, <3>3, <3>4 DEF Pictures
    <2>4. CASE ~(offset + n < Scale * ImageRows)
        <3>1. pc' = "send" /\ reply' = "image" /\ bitmap' = Build(framebuffer') /\ offset' = 0
            BY <1>4, <2>4
        <3>2. \A r \in Rows : framebuffer'[r] \in asof[r] .. screen[r]
            <4>1. \A r \in Rows : r < offset + n
                BY <1>1, <1>4, <2>4, SizeFacts DEF Rows
            <4>2. QED
                BY <2>2, <4>1
        <3>3. \A y \in Picture : bitmap'[y] = framebuffer'[(ImageRows - 1 - y) * Scale]
            BY <3>1 DEF Build
        <3>4. bitmap' \in [Picture -> 0 .. MaxDraws]
            BY <2>1, <3>1, SizeFacts DEF Build
        <3>5. ScreenTypes'
            BY <1>1, <1>2, <2>1, <3>4 DEF ScreenTypes
        <3>6. FreshImage'
            BY <1>2, <3>2, <3>3, SizeFacts DEF FreshImage
        <3>7. FreshCopy'
            BY <1>1, <1>2, <3>1 DEF FreshCopy
        <3>8. QED
            BY <3>1, <3>5, <3>6, <3>7, SizeFacts DEF Pictures
    <2>5. QED
        BY <2>3, <2>4
<1>5. QED
    BY <1>3, <1>4 DEF Read

-----------------------------------------------------------------------------
(* The connections *)

\* What is known of any connection.
LEMMA ConnectionFacts ==
    ASSUME Types, NEW c \in Clients
    PROVE  /\ conn[c] \in Connection /\ conn[c].sent \in Nat
           /\ conn[c].request \in Requests \cup {NoRequest}
           /\ conn[c].request.kind \in Kinds
           /\ conn[c].request.head \in Nat /\ conn[c].request.total \in Nat
<1>1. conn[c] \in Connection
    BY DEF Types, ClientTypes
<1>2. conn[c].sent \in Nat /\ conn[c].request \in Requests \cup {NoRequest}
    BY <1>1 DEF Connection
<1>3. QED
    BY <1>1, <1>2, RequestFacts

\* One connection changes, the others do not.
LEMMA OneChanges ==
    ASSUME Types, NEW c \in Clients, NEW r \in Connection, conn' = [conn EXCEPT ![c] = r]
    PROVE  /\ conn' \in [Clients -> Connection] /\ conn'[c] = r
           /\ \A d \in Clients : d # c => conn'[d] = conn[d]
PROOF BY DEF Types, ClientTypes

\* Steps that leave the connections alone and change no decision.
LEMMA ConnectionsStay ==
    ASSUME Connections, UNCHANGED <<once, client, used, queue, conn>>,
           \/ UNCHANGED <<pc, reply>>
           \/ pc = "read" /\ pc' = "send" /\ reply' \in {"503", "image"}
    PROVE  Connections'
<1>1. OneConnection'
    BY DEF Connections, OneConnection
<1>2. Decided'
    BY DEF Connections, Decided
<1>3. Answers' /\ OnceOnly'
    BY DEF Connections, Answers, OnceOnly
<1>4. QED
    BY <1>1, <1>2, <1>3 DEF Connections

\* A client does something: it connects, sends or leaves.
LEMMA ClientKeeps ==
    ASSUME Types, Connections, NEW c \in Clients, NEW r \in Connection,
           conn' = [conn EXCEPT ![c] = r], r.got = conn[c].got, r.got = "none",
           r.state # "off", conn[c].sent <= r.sent, r.sent <= r.request.total,
           r.request = conn[c].request \/ conn[c].state = "off",
           UNCHANGED server,
           queue' = queue \/ queue' = Append(queue, c)
    PROVE  ClientTypes' /\ Connections'
<1>1. /\ conn' \in [Clients -> Connection] /\ conn'[c] = r
      /\ \A d \in Clients : d # c => conn'[d] = conn[d]
    BY OneChanges
<1>2. queue \in Seq(Clients) /\ queue' \in Seq(Clients)
    BY DEF Types, ClientTypes
<1>3. ClientTypes'
    BY <1>1, <1>2 DEF ClientTypes
<1>4. UNCHANGED <<pc, once, client, used, reply>>
    BY DEF server
<1>5. client # NoClient => client \in Clients
    BY DEF Types, ServerTypes
<1>6. OneConnection'
    <2>1. client # NoClient => conn'[client].state # "off" /\ used <= conn'[client].sent
        <3>1. used \in Nat
            BY FbServeAssumption DEF Types, ServerTypes
        <3>2. conn[c].sent \in Nat /\ r.sent \in Nat
            BY ConnectionFacts DEF Connection
        <3>3. QED
            BY <1>1, <1>5, <3>1, <3>2 DEF Connections, OneConnection
    <2>2. \A i \in 1 .. Len(queue') : conn'[queue'[i]].state # "off"
        <3>1. \A i \in 1 .. Len(queue) : queue[i] \in Clients /\ conn'[queue[i]].state # "off"
            BY <1>1, <1>2 DEF Connections, OneConnection
        <3>2. QED
            BY <1>1, <1>2, <3>1
    <2>3. \A d \in Clients : /\ conn'[d].state = "off" => conn'[d].got = "none" /\ conn'[d].sent = 0
                            /\ conn'[d].sent <= conn'[d].request.total
        BY <1>1 DEF Connections, OneConnection
    <2>4. QED
        BY <1>4, <2>1, <2>2, <2>3 DEF Connections, OneConnection
<1>7. Decided'
    <2>1. client # NoClient => conn'[client].request = conn[client].request
        BY <1>1, <1>5 DEF Connections, OneConnection
    <2>2. QED
        BY <1>4, <2>1 DEF Connections, Decided, OneConnection
<1>8. Answers'
    <2>1. Fits(r)
        BY DEF Fits, Replies
    <2>2. QED
        BY <1>1, <2>1 DEF Connections, Answers
<1>9. OnceOnly'
    BY <1>1, <1>4 DEF Connections, OnceOnly
<1>10. QED
    BY <1>3, <1>6, <1>7, <1>8, <1>9 DEF Connections

LEMMA ConnectKeeps ==
    ASSUME Types, Connections, NEW c \in Clients, NEW q \in Requests, Connect(c, q)
    PROVE  ClientTypes' /\ Connections'
<1> DEFINE r == [conn[c] EXCEPT !.state = "open", !.request = q]
<1>1. conn[c] \in Connection
    BY ConnectionFacts
<1>2. conn[c].got = "none" /\ conn[c].sent = 0
    BY DEF Connect, Connections, OneConnection
<1>3. q.total \in Nat
    BY RequestFacts
<1>4. /\ r \in Connection /\ r.got = conn[c].got /\ r.state = "open"
      /\ r.sent = conn[c].sent /\ r.request = q
    BY <1>1 DEF Connection
<1>5. conn' = [conn EXCEPT ![c] = r]
    BY DEF Connect, Types, ClientTypes
<1> HIDE DEF r
<1>6. r.sent = 0 /\ conn[c].sent <= r.sent /\ r.sent <= r.request.total /\ r.got = "none"
    BY <1>2, <1>3, <1>4
<1>7. QED
    BY <1>4, <1>5, <1>6, ClientKeeps DEF Connect

LEMMA SendMoreKeeps ==
    ASSUME Types, Connections, NEW c \in Clients, SendMore(c)
    PROVE  ClientTypes' /\ Connections'
<1>1. PICK n \in 1 .. conn[c].request.total - conn[c].sent :
          conn' = [conn EXCEPT ![c].sent = @ + n]
    BY DEF SendMore
<1> DEFINE r == [conn[c] EXCEPT !.sent = conn[c].sent + n]
<1>2. /\ conn[c] \in Connection /\ conn[c].sent \in Nat /\ conn[c].request.total \in Nat
    BY ConnectionFacts
<1>3. /\ conn[c].sent + n \in Nat /\ conn[c].sent <= conn[c].sent + n
      /\ conn[c].sent + n <= conn[c].request.total
    BY <1>1, <1>2
<1>4. /\ r \in Connection /\ r.got = conn[c].got /\ r.state = conn[c].state
      /\ r.request = conn[c].request /\ r.sent = conn[c].sent + n
    BY <1>2, <1>3 DEF Connection
<1>5. conn' = [conn EXCEPT ![c] = r]
    BY <1>1 DEF Types, ClientTypes
<1> HIDE DEF r
<1>6. QED
    BY <1>3, <1>4, <1>5, ClientKeeps DEF SendMore

LEMMA LeaveKeeps ==
    ASSUME Types, Connections, NEW c \in Clients, NEW how \in {"closed", "silent"}, Leave(c, how)
    PROVE  ClientTypes' /\ Connections'
<1> DEFINE r == [conn[c] EXCEPT !.state = how]
<1>1. conn[c] \in Connection /\ conn[c].sent \in Nat
    BY ConnectionFacts
<1>2. /\ r \in Connection /\ r.got = conn[c].got /\ r.state # "off"
      /\ r.request = conn[c].request /\ r.sent = conn[c].sent
    BY <1>1 DEF Connection
<1>3. conn' = [conn EXCEPT ![c] = r]
    BY DEF Leave, Types, ClientTypes
<1>4. conn[c].sent <= conn[c].request.total
    BY DEF Connections, OneConnection
<1> HIDE DEF r
<1>5. conn[c].sent <= r.sent /\ r.sent <= r.request.total
    BY <1>1, <1>2, <1>4
<1>6. r.got = "none" /\ UNCHANGED server /\ queue' = queue
    BY <1>2 DEF Leave
<1>7. QED
    BY <1>2, <1>3, <1>5, <1>6, ClientKeeps

LEMMA MinFacts ==
    ASSUME NEW a \in Nat, NEW b \in Nat
    PROVE  Min({a, b}) \in {a, b} /\ Min({a, b}) <= a /\ Min({a, b}) <= b
<1>1. \E x \in {a, b} : \A y \in {a, b} : x <= y
    OBVIOUS
<1>2. QED
    BY <1>1 DEF Min

\* The request line decides the answer (vita-fbserve.c:190-228).
LEMMA ParseFacts ==
    ASSUME NEW q, q.kind \in Kinds, NEW n \in Nat
    PROVE  /\ Parse(q, n) \in Replies \ {"image", "503"}
           /\ Parse(q, n) = "413" <=> n = RequestBytes
           /\ Parse(q, n) = "none" => q.kind = "frame"
PROOF BY DEF Parse, TooLarge, Kinds, Replies

LEMMA AcceptKeeps ==
    ASSUME Types, Connections, Accept
    PROVE  queue' \in Seq(Clients) /\ client' \in Clients /\ Connections'
<1>1. queue \in Seq(Clients) /\ queue # <<>>
    BY DEF Types, ClientTypes, Accept
<1>2. /\ client' \in Clients /\ queue' \in Seq(Clients)
      /\ client' = queue[1] /\ 1 \in 1 .. Len(queue)
      /\ Len(queue') = Len(queue) - 1 /\ \A i \in 1 .. Len(queue') : queue'[i] = queue[i + 1]
    BY <1>1 DEF Accept
<1>3. used = 0
    BY DEF Accept, Connections, OneConnection
<1>4. OneConnection'
    <2>1. conn'[client'].state # "off"
        BY <1>2 DEF Accept, Connections, OneConnection
    <2>2. used' <= conn'[client'].sent
        <3>1. conn[client'].sent \in Nat
            BY <1>2, ConnectionFacts
        <3>2. QED
            BY <1>3, <3>1 DEF Accept
    <2>3. \A i \in 1 .. Len(queue') : conn'[queue'[i]].state # "off"
        <3>1. \A i \in 1 .. Len(queue') : i + 1 \in 1 .. Len(queue)
            BY <1>1, <1>2
        <3>2. QED
            BY <1>2, <3>1 DEF Accept, Connections, OneConnection
    <2>4. client' # NoClient
        BY <1>2, FbServeAssumption
    <2>5. QED
        BY <2>1, <2>2, <2>3, <2>4 DEF Accept, Connections, OneConnection
<1>5. Decided'
    BY DEF Accept, Decided
<1>6. Answers' /\ OnceOnly'
    BY DEF Accept, Quiet, Connections, Answers, OnceOnly
<1>7. QED
    BY <1>2, <1>4, <1>5, <1>6 DEF Connections

\* accept fails, or the client closes first: nobody gets anything.
LEMMA DropKeeps ==
    ASSUME Connections, AcceptFails \/ RecvEnds
    PROVE  Connections'
<1>1. CASE AcceptFails
    BY <1>1 DEF AcceptFails, Quiet, Connections, OneConnection, Decided, Answers, OnceOnly
<1>2. CASE RecvEnds
    BY <1>2 DEF RecvEnds, Quiet, Connections, OneConnection, Decided, Answers, OnceOnly
<1>3. QED
    BY <1>1, <1>2

LEMMA RecvKeeps ==
    ASSUME Types, Pictures, Connections, Recv
    PROVE  ServerTypes' /\ ScreenTypes' /\ Pictures' /\ Connections'
<1>1. client \in Clients /\ client # NoClient
    BY DEF Types, ServerTypes, Connections, OneConnection, Recv
<1> DEFINE q == conn[client].request
           n == Min({conn[client].sent, RequestBytes})
<1>2. /\ conn[client].sent \in Nat /\ RequestBytes \in Nat /\ q.kind \in Kinds /\ q.head \in Nat
    BY <1>1, ConnectionFacts, FbServeAssumption
<1>3. n \in Nat /\ n <= conn[client].sent /\ n <= RequestBytes
    BY <1>2, MinFacts
<1>4. /\ used' = n /\ pc = "recv"
      /\ UNCHANGED <<client, framebuffer, bitmap, queue, conn, once, screen, draws>>
    BY DEF Recv, Quiet
<1>5. /\ conn[client].state # "off"
      /\ \A i \in 1 .. Len(queue) : conn[queue[i]].state # "off"
      /\ \A c \in Clients : /\ conn[c].state = "off" => conn[c].got = "none" /\ conn[c].sent = 0
                           /\ conn[c].sent <= conn[c].request.total
    BY <1>1 DEF Connections, OneConnection
<1>6. CASE n < q.head /\ n < RequestBytes
    <2>1. UNCHANGED <<pc, reply, offset, asof>>
        BY <1>6 DEF Recv
    <2> HIDE DEF q, n
    <2>2. ServerTypes' /\ ScreenTypes'
        BY <1>2, <1>3, <1>4, <2>1 DEF Types, ServerTypes, ScreenTypes
    <2>3. Pictures'
        BY <1>4, <2>1, PicturesStay
    <2>4. OneConnection' /\ Decided'
        BY <1>1, <1>3, <1>4, <1>5, <2>1 DEF OneConnection, Decided
    <2>5. Answers' /\ OnceOnly'
        BY <1>4, <2>1 DEF Connections, Answers, OnceOnly
    <2>6. QED
        BY <2>2, <2>3, <2>4, <2>5 DEF Connections
<1>7. CASE ~(n < q.head /\ n < RequestBytes)
    <2>1. /\ reply' = Parse(q, n) /\ pc' = (IF reply' = "none" THEN "read" ELSE "send")
          /\ offset' = 0 /\ asof' = screen
        BY <1>7 DEF Recv
    <2>2. /\ reply' \in Replies \ {"image", "503"}
          /\ reply' = "413" <=> n = RequestBytes
          /\ reply' = "none" => q.kind = "frame"
        BY <1>2, <1>3, <2>1, ParseFacts
    <2>3. n = RequestBytes \/ q.head <= n
        BY <1>2, <1>3, <1>7
    <2>4. q = conn'[client'].request
        BY <1>4
    <2> HIDE DEF q, n
    <2>5. ServerTypes'
        BY <1>2, <1>3, <1>4, <2>1, <2>2, SizeFacts DEF Types, ServerTypes
    <2>6. ScreenTypes'
        BY <1>4, <2>1 DEF Types, ScreenTypes
    <2>7. FreshImage'
        BY <2>2 DEF FreshImage
    <2>8. FreshCopy'
        <3>1. \A r \in Rows : screen[r] \in Nat /\ screen[r] <= draws /\ r \in Nat
            BY Versions, SizeFacts DEF Types, Pictures, FreshCopy, Rows
        <3>2. QED
            BY <1>4, <2>1, <3>1 DEF FreshCopy
    <2>9. OneConnection'
        BY <1>1, <1>3, <1>4, <1>5, <2>1 DEF OneConnection
    <2>10. Decided'
        BY <1>4, <2>1, <2>2, <2>3, <2>4 DEF Decided
    <2>11. Answers' /\ OnceOnly'
        BY <1>4, <2>1 DEF Connections, Answers, OnceOnly
    <2>12. QED
        BY <2>5, <2>6, <2>7, <2>8, <2>9, <2>10, <2>11 DEF Pictures, Connections
<1>8. QED
    BY <1>6, <1>7

\* The answer goes out and the connection is closed.
LEMMA FinishKeeps ==
    ASSUME Types, Pictures, Connections, Finish
    PROVE  Types' /\ Pictures' /\ Connections'
<1>1. client \in Clients /\ client # NoClient /\ pc = "send"
    BY DEF Types, ServerTypes, Connections, OneConnection, Finish
<1>2. PICK got \in {IF conn[client].state = "closed" THEN "cut" ELSE reply}
                    \cup (IF conn[client].sent > used THEN {"reset"} ELSE {}) :
          conn' = [conn EXCEPT ![client].got = got]
    BY DEF Finish
<1> DEFINE r == [conn[client] EXCEPT !.got = got]
           q == conn[client].request
<1>3. /\ conn[client] \in Connection /\ conn[client].sent \in Nat
      /\ q.head \in Nat /\ q.total \in Nat
    BY <1>1, ConnectionFacts
<1>4. used \in Nat /\ RequestBytes \in Nat /\ reply \in Replies
    BY FbServeAssumption DEF Types, ServerTypes
<1>5. /\ r \in Connection /\ r.got = got /\ r.sent = conn[client].sent
      /\ r.request = q /\ r.state = conn[client].state
    BY <1>2, <1>3, <1>4 DEF Connection
<1>6. conn' = [conn EXCEPT ![client] = r]
    BY <1>1, <1>2 DEF Types, ClientTypes
<1>7. /\ used <= conn[client].sent /\ conn[client].sent <= q.total
      /\ reply = "413" <=> used = RequestBytes
      /\ used = RequestBytes \/ q.head <= used
      /\ reply = "image" => q.kind = "frame"
    BY <1>1 DEF Connections, OneConnection, Decided
<1> HIDE DEF r, q
<1>8. Fits(r)
    <2>1. CASE got = "cut"
        BY <1>5, <2>1 DEF Fits, Replies
    <2>2. CASE got = "reset"
        <3>1. used < q.total
            BY <1>2, <1>3, <1>4, <1>7, <2>2 DEF Replies
        <3>2. q.total > q.head \/ q.total > RequestBytes
            BY <1>3, <1>4, <1>7, <3>1
        <3>3. QED
            BY <1>5, <2>2, <3>2 DEF Fits, Replies
    <2>3. CASE got = reply
        <3>1. reply = "413" => q.total >= RequestBytes
            BY <1>3, <1>4, <1>7
        <3>2. reply # "413" => conn[client].sent >= q.head
            BY <1>3, <1>4, <1>7
        <3>3. reply # "reset"
            BY <1>4 DEF Replies
        <3>4. QED
            BY <1>5, <1>7, <2>3, <3>1, <3>2, <3>3 DEF Fits
    <2>4. QED
        BY <1>2, <2>1, <2>2, <2>3
<1>9. /\ conn' \in [Clients -> Connection] /\ conn'[client] = r
      /\ \A d \in Clients : d # client => conn'[d] = conn[d]
    BY <1>1, <1>5, <1>6, OneChanges
<1>10. /\ pc' = (IF once THEN "exited" ELSE "accept") /\ client' = NoClient /\ reply' = "none"
       /\ used' = 0 /\ offset' = 0 /\ asof' = [x \in Rows |-> 0]
       /\ UNCHANGED <<framebuffer, bitmap, queue, once, screen, draws>>
    BY DEF Finish, Quiet
<1>11. Types'
    <2>1. ServerTypes'
        BY <1>10, <1>4, SizeFacts DEF Types, ServerTypes, Replies
    <2>2. ScreenTypes'
        BY <1>10, FbServeAssumption DEF Types, ScreenTypes
    <2>3. ClientTypes'
        BY <1>9, <1>10 DEF Types, ClientTypes
    <2>4. QED
        BY <2>1, <2>2, <2>3 DEF Types
<1>12. Pictures'
    <2>1. FreshImage'
        BY <1>10 DEF FreshImage
    <2>2. \A x \in Rows : 0 <= screen[x] /\ screen[x] <= draws
        BY Versions DEF Types, Pictures, FreshCopy
    <2>3. FreshCopy'
        BY <1>10, <2>2 DEF FreshCopy
    <2>4. QED
        BY <2>1, <2>3 DEF Pictures
<1>13. OneConnection'
    <2>1. \A d \in Clients : /\ conn'[d].state = conn[d].state /\ conn'[d].sent = conn[d].sent
                            /\ conn'[d].request = conn[d].request
        BY <1>5, <1>9 DEF q
    <2>2. \A i \in 1 .. Len(queue) : queue[i] \in Clients
        BY DEF Types, ClientTypes
    <2>3. \A i \in 1 .. Len(queue) : conn'[queue[i]].state # "off"
        BY <2>1, <2>2 DEF Connections, OneConnection
    <2>4. \A d \in Clients : conn'[d].state = "off" => conn'[d].got = "none" /\ conn'[d].sent = 0
        BY <1>1, <1>5, <1>9 DEF Connections, OneConnection
    <2>5. \A d \in Clients : conn'[d].sent <= conn'[d].request.total
        BY <2>1 DEF Connections, OneConnection
    <2>6. QED
        BY <1>10, <2>3, <2>4, <2>5 DEF OneConnection
<1>14. Decided'
    BY <1>10 DEF Decided
<1>15. Answers'
    BY <1>8, <1>9 DEF Connections, Answers
<1>16. OnceOnly'
    BY <1>1, <1>9, <1>10 DEF Connections, OnceOnly
<1>17. QED
    BY <1>11, <1>12, <1>13, <1>14, <1>15, <1>16 DEF Connections

-----------------------------------------------------------------------------
(* The theorem *)

LEMMA ServeInit == Init => ServeInv
<1> SUFFICES ASSUME Init PROVE ServeInv
    OBVIOUS
<1>1. Types
    <2>1. ServerTypes
        BY FbServeAssumption, SizeFacts DEF Init, ServerTypes, Replies
    <2>2. ScreenTypes
        BY FbServeAssumption DEF Init, ScreenTypes
    <2>3. ClientTypes
        <3>1. [state |-> "off", request |-> NoRequest, sent |-> 0, got |-> "none"] \in Connection
            BY DEF Connection, Replies
        <3>2. QED
            BY <3>1 DEF Init, ClientTypes
    <2>4. QED
        BY <2>1, <2>2, <2>3 DEF Types
<1>2. Pictures
    BY DEF Init, Pictures, FreshImage, FreshCopy
<1>3. Connections
    <2>1. OneConnection
        BY DEF Init, OneConnection, NoRequest
    <2>2. Decided /\ OnceOnly
        BY DEF Init, Decided, OnceOnly
    <2>3. Answers
        BY DEF Init, Answers, Fits
    <2>4. QED
        BY <2>1, <2>2, <2>3 DEF Connections
<1>4. QED
    BY <1>1, <1>2, <1>3, Gather

\* What clients and other programs do.
LEMMA WorldKeeps ==
    ASSUME ServeInv,
           \/ \E r \in Rows : Draw(r)
           \/ \E c \in Clients :
                 \/ \E q \in Requests : Connect(c, q)
                 \/ SendMore(c) \/ Leave(c, "closed") \/ Leave(c, "silent")
    PROVE  ServeInv'
<1>1. Types /\ Pictures /\ Connections
    BY Parts
<1>2. ASSUME NEW r \in Rows, Draw(r) PROVE ServeInv'
    <2>1. ScreenTypes' /\ Pictures'
        BY <1>1, <1>2, DrawKeepsPictures
    <2>2. UNCHANGED <<server, queue, conn>>
        BY <1>2 DEF Draw
    <2>3. ServerTypes' /\ ClientTypes'
        BY <1>1, <2>2 DEF Types, ServerTypes, ClientTypes, server
    <2>4. Connections'
        BY <1>1, <2>2, ConnectionsStay DEF server
    <2>5. QED
        BY <2>1, <2>3, <2>4, GatherNext DEF Types
<1>3. ASSUME NEW c \in Clients,
             \/ \E q \in Requests : Connect(c, q)
             \/ SendMore(c) \/ Leave(c, "closed") \/ Leave(c, "silent")
      PROVE  ServeInv'
    <2>1. ClientTypes' /\ Connections'
        BY <1>1, <1>3, ConnectKeeps, SendMoreKeeps, LeaveKeeps
    <2>2. UNCHANGED <<server, screen, draws, asof>>
        BY <1>3 DEF Connect, SendMore, Leave
    <2>3. ServerTypes' /\ ScreenTypes'
        BY <1>1, <2>2 DEF Types, ServerTypes, ScreenTypes, server
    <2>4. Pictures'
        BY <1>1, <2>2, PicturesStay DEF server
    <2>5. QED
        BY <2>1, <2>3, <2>4, GatherNext DEF Types
<1>4. QED
    BY <1>2, <1>3

\* What the server does.
LEMMA ServerKeeps ==
    ASSUME ServeInv, Server \/ AcceptFails
    PROVE  ServeInv'
<1>1. Types /\ Pictures /\ Connections
    BY Parts
<1>2. CASE Accept
    <2>1. queue' \in Seq(Clients) /\ client' \in Clients /\ Connections'
        BY <1>1, <1>2, AcceptKeeps
    <2>2. Types'
        BY <1>1, <1>2, <2>1 DEF Types, ServerTypes, ScreenTypes, ClientTypes, Accept, Quiet
    <2>3. Pictures'
        BY <1>1, <1>2, PicturesStay DEF Accept, Quiet
    <2>4. QED
        BY <2>1, <2>2, <2>3, GatherNext
<1>3. CASE AcceptFails \/ RecvEnds
    <2>1. Connections'
        BY <1>1, <1>3, DropKeeps
    <2>2. Types'
        BY <1>1, <1>3, FbServeAssumption
        DEF Types, ServerTypes, ScreenTypes, ClientTypes, AcceptFails, RecvEnds, Quiet
    <2>3. Pictures'
        BY <1>1, <1>3, PicturesStay DEF AcceptFails, RecvEnds, Quiet
    <2>4. QED
        BY <2>1, <2>2, <2>3, GatherNext
<1>4. CASE Recv
    <2>1. ServerTypes' /\ ScreenTypes' /\ Pictures' /\ Connections'
        BY <1>1, <1>4, RecvKeeps
    <2>2. ClientTypes'
        BY <1>1, <1>4 DEF Types, ClientTypes, Recv
    <2>3. QED
        BY <2>1, <2>2, GatherNext DEF Types
<1>5. CASE Read
    <2>1. ScreenTypes' /\ Pictures' /\ offset' \in 0 .. Scale * ImageRows
        BY <1>1, <1>5, ReadKeepsPictures
    <2>2. /\ UNCHANGED <<once, client, used, queue, conn>> /\ pc = "read"
          /\ \/ UNCHANGED <<pc, reply>>
             \/ pc' = "send" /\ reply' \in {"503", "image"}
        BY <1>5 DEF Read, Quiet, ShortRead
    <2>3. Connections'
        BY <1>1, <2>2, ConnectionsStay
    <2>4. ServerTypes' /\ ClientTypes'
        BY <1>1, <2>1, <2>2 DEF Types, ServerTypes, ClientTypes, Replies
    <2>5. QED
        BY <2>1, <2>3, <2>4, GatherNext DEF Types
<1>6. CASE SendRow
    <2>1. Connections'
        BY <1>1, <1>6, ConnectionsStay DEF SendRow, Quiet
    <2>2. Pictures'
        BY <1>1, <1>6, PicturesStay DEF SendRow, Quiet
    <2>3. offset + 1 \in 0 .. Scale * ImageRows
        BY <1>1, <1>6, SizeFacts, FbServeAssumption DEF SendRow, Types, ServerTypes
    <2>4. Types'
        BY <1>1, <1>6, <2>3 DEF SendRow, Quiet, Types, ServerTypes, ScreenTypes, ClientTypes
    <2>5. QED
        BY <2>1, <2>2, <2>4, GatherNext
<1>7. CASE Finish
    BY <1>1, <1>7, FinishKeeps, GatherNext
<1>8. QED
    BY <1>2, <1>3, <1>4, <1>5, <1>6, <1>7 DEF Server

LEMMA StutterKeeps == ServeInv /\ UNCHANGED vars => ServeInv'
<1> SUFFICES ASSUME ServeInv, UNCHANGED vars PROVE ServeInv'
    OBVIOUS
<1>1. Types /\ Pictures /\ Connections
    BY Parts
<1>2. UNCHANGED <<server, queue, conn, screen, draws, asof>>
    BY DEF vars
<1>3. Types'
    BY <1>1, <1>2 DEF Types, ServerTypes, ScreenTypes, ClientTypes, server
<1>4. Pictures' /\ Connections'
    BY <1>1, <1>2, PicturesStay, ConnectionsStay DEF server
<1>5. QED
    BY <1>3, <1>4, GatherNext

\* Every picture sent is of the screen since its request was in, whatever was
\* drawn, failed or was left in the static buffers; every answer fits the
\* request, however it arrives; --once answers once
\* (vita-fbserve.c:27-28, 91-147, 176-237, 317-332).
THEOREM ServesCorrectly == Spec => []ServeInv
<1>1. ServeInv /\ [Next]_vars => ServeInv'
    BY WorldKeeps, ServerKeeps, StutterKeeps DEF Next
<1>2. QED
    BY <1>1, ServeInit, PTL DEF Spec

=============================================================================
