------------------------------- MODULE FbServe -------------------------------
(***************************************************************************)
(* toolkit/share/vita-fbserve.c: one thread serves pictures of the screen, *)
(* one client at a time, through two static buffers.  Clients send in      *)
(* pieces, fall silent or go away; a program draws all the while.          *)
(***************************************************************************)
EXTENDS Integers, Sequences, FiniteSets, FiniteSetsExt

CONSTANTS
    Clients,
    NoClient,
    Requests,       \* what clients send: kind, bytes up to the blank line, bytes in all
    RequestBytes,   \* REQUEST_BYTES
    Backlog,        \* listen's second argument
    ImageRows,      \* IMAGE_HEIGHT
    Scale,          \* SCALE
    MaxDraws        \* bound: rows drawn by others

Kinds == {"bad", "post", "health", "other", "frame"}

ASSUME FbServeAssumption ==
    /\ NoClient \notin Clients
    /\ RequestBytes \in Nat \ {0} /\ Backlog \in Nat
    /\ ImageRows \in Nat \ {0} /\ Scale \in Nat \ {0} /\ MaxDraws \in Nat
    /\ Requests \subseteq [kind : Kinds, head : Nat \ {0}, total : Nat]
    /\ \A q \in Requests : q.head <= q.total

VARIABLES
    pc,             \* where the server is: "accept", "recv", "read", "send" or "exited"
    once,           \* --once
    client,         \* the connection it serves
    used,           \* bytes of the request received; 0 between requests
    offset,         \* rows read, or rows of the picture sent; 0 between requests
    reply,          \* the answer it sends
    framebuffer,    \* static: per row of the screen, the version copied
    bitmap,         \* static: per row of the picture, the version shown
    queue,          \* connections waiting for accept
    conn,           \* per client: its state, request, bytes sent, and what it got
    screen,         \* per row: how often it was drawn
    draws,
    asof            \* observation only: the screen when the last read began

server == <<pc, once, client, used, offset, reply, framebuffer, bitmap>>
vars   == <<server, queue, conn, screen, draws, asof>>

Rows    == 0 .. Scale * ImageRows - 1
Picture == 0 .. ImageRows - 1
NoRequest == [kind |-> "bad", head |-> 1, total |-> 1]     \* before one is chosen
Replies == {"none", "413", "400", "405", "health", "404", "503", "image"}

TypeOK ==
    /\ pc \in {"accept", "recv", "read", "send", "exited"} /\ once \in BOOLEAN
    /\ client \in Clients \cup {NoClient}
    /\ used \in 0 .. RequestBytes /\ offset \in 0 .. Scale * ImageRows
    /\ reply \in Replies
    /\ framebuffer \in [Rows -> 0 .. MaxDraws] /\ bitmap \in [Picture -> 0 .. MaxDraws]
    /\ queue \in Seq(Clients)
    /\ conn \in [Clients -> [state : {"off", "open", "silent", "closed"}, request : Requests \cup {NoRequest},
                             sent : Nat, got : Replies \cup {"cut", "reset"}]]
    /\ screen \in [Rows -> 0 .. MaxDraws] /\ asof \in [Rows -> 0 .. MaxDraws]
    /\ draws \in 0 .. MaxDraws

Init ==
    /\ pc = "accept" /\ once \in BOOLEAN /\ client = NoClient
    /\ used = 0 /\ offset = 0 /\ reply = "none"
    /\ framebuffer = [r \in Rows |-> 0] /\ bitmap = [y \in Picture |-> 0]
    /\ queue = <<>>
    /\ conn = [c \in Clients |-> [state |-> "off", request |-> NoRequest, sent |-> 0, got |-> "none"]]
    /\ screen = [r \in Rows |-> 0] /\ asof = screen /\ draws = 0

-----------------------------------------------------------------------------
(* The world *)

Draw(r) ==
    /\ draws < MaxDraws
    /\ draws' = draws + 1
    /\ screen' = [screen EXCEPT ![r] = @ + 1]
    /\ UNCHANGED <<server, queue, conn, asof>>

\* The kernel completes connections up to the backlog, and one more.
Connect(c, q) ==
    /\ conn[c].state = "off" /\ pc # "exited"
    /\ Len(queue) <= Backlog
    /\ queue' = Append(queue, c)
    /\ conn' = [conn EXCEPT ![c].state = "open", ![c].request = q]
    /\ UNCHANGED <<server, screen, draws, asof>>

SendMore(c) ==
    /\ conn[c].state = "open" /\ conn[c].got = "none" /\ pc # "exited"
    /\ \E n \in 1 .. conn[c].request.total - conn[c].sent :
          conn' = [conn EXCEPT ![c].sent = @ + n]
    /\ UNCHANGED <<server, queue, screen, draws, asof>>

\* A client closes its connection, or neither sends nor reads any more.
Leave(c, how) ==
    /\ conn[c].state = "open" /\ conn[c].got = "none" /\ pc # "exited"
    /\ conn' = [conn EXCEPT ![c].state = how]
    /\ UNCHANGED <<server, queue, screen, draws, asof>>

-----------------------------------------------------------------------------
(* main and handle_request *)

Quiet == UNCHANGED <<once, screen, draws>>

Accept ==
    /\ pc = "accept" /\ queue # <<>>
    /\ pc' = "recv" /\ client' = Head(queue) /\ queue' = Tail(queue)
    /\ UNCHANGED <<used, offset, reply, framebuffer, bitmap, conn, asof>> /\ Quiet

\* Any error of accept but EINTR ends the server.
AcceptFails ==
    /\ pc = "accept"
    /\ pc' = "exited"
    /\ UNCHANGED <<client, used, offset, reply, framebuffer, bitmap, queue, conn, asof>> /\ Quiet

\* Mutant: the buffer is taken for full with a byte to spare.
TooLargeMutant(n) == n >= RequestBytes - 1

TooLarge(n) == n = RequestBytes

\* The answer to a request of which n bytes were read; "none": read the screen.
Parse(q, n) ==
    IF TooLarge(n) THEN "413"
    ELSE CASE q.kind = "bad"    -> "400"
           [] q.kind = "post"   -> "405"
           [] q.kind = "health" -> "health"
           [] q.kind = "other"  -> "404"
           [] q.kind = "frame"  -> "none"

\* recv, until the blank line is in or the buffer full; then the request line.
Recv ==
    /\ pc = "recv"
    /\ conn[client].sent > used
    /\ LET q == conn[client].request
           n == Min({conn[client].sent, RequestBytes})
       IN  /\ used' = n
           /\ IF n < q.head /\ n < RequestBytes
              THEN UNCHANGED <<pc, reply, offset, asof>>
              ELSE /\ reply' = Parse(q, n)
                   /\ pc' = IF reply' = "none" THEN "read" ELSE "send"
                   /\ offset' = 0
                   /\ asof' = screen
    /\ UNCHANGED <<client, framebuffer, bitmap, queue, conn>> /\ Quiet

\* Mutant: a connection closed by its client is tried again.
HungUpMutant(c) == FALSE

HungUp(c) == conn[c].state = "closed"

\* The client closed first: nothing is answered, and --once goes on.
RecvEnds ==
    /\ pc = "recv" /\ conn[client].sent = used
    /\ HungUp(client)
    /\ pc' = "accept" /\ client' = NoClient /\ used' = 0
    /\ UNCHANGED <<offset, reply, framebuffer, bitmap, queue, conn, asof>> /\ Quiet

\* build_bitmap: one row in Scale, bottom row first.
Build(copy) == [y \in Picture |-> copy[(ImageRows - 1 - y) * Scale]]

\* Mutant: a read that ends early is taken for the whole frame.
ShortReadMutant == pc' = "send" /\ reply' = "image" /\ bitmap' = Build(framebuffer)

ShortRead == pc' = "send" /\ reply' = "503" /\ UNCHANGED bitmap

\* read_frame, a piece at a time; open or a read fails, or the device ends.
Read ==
    /\ pc = "read"
    /\ \/ \E n \in 1 .. Scale * ImageRows - offset :
             LET copy == [r \in Rows |-> IF r \in offset .. offset + n - 1 THEN screen[r]
                                                                          ELSE framebuffer[r]]
             IN  /\ framebuffer' = copy
                 /\ IF offset + n < Scale * ImageRows
                    THEN offset' = offset + n /\ UNCHANGED <<pc, reply, bitmap>>
                    ELSE /\ pc' = "send" /\ reply' = "image"
                         /\ bitmap' = Build(copy)
                         /\ offset' = 0
       \/ ShortRead /\ offset' = 0 /\ UNCHANGED framebuffer
    /\ UNCHANGED <<client, used, queue, conn, asof>> /\ Quiet

\* send_all of a piece of the picture waits for a client that does not read.
SendRow ==
    /\ pc = "send" /\ reply = "image" /\ offset < ImageRows
    /\ conn[client].state = "open"
    /\ offset' = offset + 1
    /\ UNCHANGED <<pc, client, used, reply, framebuffer, bitmap, queue, conn, asof>> /\ Quiet

\* The last send, or one that fails as the client is gone; then close.  Closing
\* with bytes unread resets the connection, and the answer may be lost.
Finish ==
    /\ pc = "send"
    /\ \/ reply # "image" \/ offset = ImageRows
       \/ conn[client].state = "closed"
    /\ \E got \in {IF conn[client].state = "closed" THEN "cut" ELSE reply}
                  \cup (IF conn[client].sent > used THEN {"reset"} ELSE {}) :
          conn' = [conn EXCEPT ![client].got = got]
    /\ pc' = IF once THEN "exited" ELSE "accept"
    /\ client' = NoClient /\ reply' = "none" /\ used' = 0 /\ offset' = 0
    /\ asof' = [r \in Rows |-> 0]
    /\ UNCHANGED <<framebuffer, bitmap, queue>> /\ Quiet

Server == Accept \/ Recv \/ RecvEnds \/ Read \/ SendRow \/ Finish

Next ==
    \/ Server \/ AcceptFails
    \/ \E r \in Rows : Draw(r)
    \/ \E c \in Clients :
          \/ \E q \in Requests : Connect(c, q)
          \/ SendMore(c) \/ Leave(c, "closed") \/ Leave(c, "silent")

\* The server is scheduled; a client that does not fall silent sends its request.
Fairness == WF_vars(Server) /\ \A c \in Clients : WF_vars(SendMore(c))

Spec == Init /\ [][Next]_vars /\ Fairness

-----------------------------------------------------------------------------
(* Properties *)

\* A picture that is sent shows, in every row, the screen at some moment since
\* the request was in: no row of an earlier request's copy is left in the static
\* buffers, although earlier reads may have failed half-way and rows are drawn
\* during the read (rows may be of different moments; the code promises no more)
\* (vita-fbserve.c:27-28, 91-147, 228-235).
FreshImage ==
    pc = "send" /\ reply = "image" =>
        \A y \in Picture : LET r == (ImageRows - 1 - y) * Scale
                           IN  bitmap[y] \in asof[r] .. screen[r]

\* What a client gets fits its request: 413 only to one of REQUEST_BYTES or more,
\* a lost answer only to one that sends more than is read, nothing but 413 to a
\* request without its blank line, and --once answers once (lines 179-237, 327).
RightAnswer ==
    /\ \A c \in Clients :
          LET q == conn[c].request
              got == conn[c].got
          IN  /\ got = "413"   => q.total >= RequestBytes
              /\ got = "reset" => q.total > q.head \/ q.total > RequestBytes
              /\ got \in Replies \ {"none", "413"} => conn[c].sent >= q.head
              /\ got = "image" => q.kind = "frame"
    /\ once => Cardinality({c \in Clients : conn[c].got # "none"}) <= 1

\* The server works for one connection, has no more of its request than was
\* sent, and has no bytes of an earlier one (vita-fbserve.c:176-185, 317-332).
OneConnection ==
    /\ client # NoClient <=> pc \in {"recv", "read", "send"}
    /\ client = NoClient => used = 0
    /\ client # NoClient => conn[client].state # "off" /\ used <= conn[client].sent
    /\ \A i \in 1 .. Len(queue) : conn[queue[i]].state # "off"
    /\ \A c \in Clients : /\ conn[c].state = "off" => conn[c].got = "none" /\ conn[c].sent = 0
                         /\ conn[c].sent <= conn[c].request.total

\* What the answer in hand was decided on is still so when it is sent, although
\* the client goes on sending (lines 179-228).
Decided ==
    pc \in {"read", "send"} =>
        LET q == conn[client].request
        IN  /\ reply = "413" <=> used = RequestBytes
            /\ used = RequestBytes \/ q.head <= used
            /\ pc = "read" => reply = "none"
            /\ pc = "read" \/ reply = "image" => q.kind = "frame"

\* The rows read so far are of this request (lines 91-120).
FreshCopy ==
    \A r \in Rows : /\ asof[r] <= screen[r] /\ screen[r] <= draws
                    /\ pc = "read" /\ r < offset => framebuffer[r] \in asof[r] .. screen[r]

\* --once leaves at most one client with an answer (line 327).
OnceOnly ==
    once => /\ pc # "exited" => \A c \in Clients : conn[c].got = "none"
            /\ \A c, d \in Clients : conn[c].got # "none" /\ conn[d].got # "none" => c = d

\* The buffers and the answers, with the types.
ServeInv ==
    /\ TypeOK /\ FreshImage /\ RightAnswer
    /\ OneConnection /\ Decided /\ FreshCopy /\ OnceOnly

\* The server waits for a client that fell silent.
Held ==
    /\ client # NoClient
    /\ conn[client].state = "silent"
    /\ \/ pc = "recv" /\ conn[client].sent = used
       \/ pc = "send" /\ reply = "image"

\* A client that connects and stays is answered, whatever others send or however
\* they leave, unless the server ends or waits without limit for one that fell
\* silent: recv and send have no timeout (lines 180, 62, 317-332).
Served ==
    \A c \in Clients :
        conn[c].state = "open" ~>
            \/ conn[c].got # "none" \/ conn[c].state \in {"closed", "silent"}
            \/ pc = "exited" \/ Held

=============================================================================
