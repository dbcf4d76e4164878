----------------------------- MODULE HttpServer -----------------------------
(* HttpServer::run() and handle_client() of http_server.cpp: one thread accepts a
   connection, reads the request with blocking read()s, calls the handler, writes
   the response and closes, while clients connect, send and hang up.

   A request is a row of pieces: its first Header pieces are the request line, the
   Content-Length of a request with a body, and so on up to the empty line; the
   body follows.  A read() returns some of the pieces that have arrived.  A client
   sends one request. *)
EXTENDS Integers, Sequences

CONSTANTS
    Clients,
    Header,    \* pieces up to and with the empty line
    Body,      \* per client, pieces of its body, as its Content-Length says
    ReadMax,   \* pieces that sizeof(buf) holds
    Backlog    \* connections that listen() lets wait

LengthAt == 2  \* the piece that Content-Length is in

ASSUME HttpServerAssumption ==
    /\ Header \in Nat /\ Header > LengthAt
    /\ Body \in [Clients -> Nat]
    /\ ReadMax \in Nat \ {0} /\ Backlog \in Nat \ {0}

VARIABLES
    conn,      \* per client: "idle", "open" or, by the server, "closed"
    sent,      \* pieces the client has sent
    ended,     \* the client has closed its end
    queue,     \* connections that wait for accept()
    phase,     \* "accept", "head", "body", "handle"; "stopped" after run()
    current,   \* the client whose request is read
    raw,       \* pieces of it that were read
    called,    \* per client, how often its handler was called
    body       \* per client, the pieces its handler was given as req.body

vars == <<conn, sent, ended, queue, phase, current, raw, called, body>>
peer == <<conn, sent, ended, queue>>
request == <<phase, current, raw, called, body>>

Pieces(c) == Header + Body[c]

Init ==
    /\ conn = [c \in Clients |-> "idle"]
    /\ sent = [c \in Clients |-> 0] /\ ended = [c \in Clients |-> FALSE]
    /\ queue = <<>>
    /\ phase = "accept" /\ current \in Clients /\ raw = 0
    /\ called = [c \in Clients |-> 0] /\ body = [c \in Clients |-> {}]
-----------------------------------------------------------------------------
\* The clients.
Connect(c) ==
    /\ conn[c] = "idle" /\ Len(queue) < Backlog /\ phase # "stopped"
    /\ conn' = [conn EXCEPT ![c] = "open"]
    /\ queue' = Append(queue, c)
    /\ UNCHANGED <<sent, ended, request>>

Send(c) ==
    /\ conn[c] = "open" /\ ~ ended[c] /\ sent[c] < Pieces(c)
    /\ sent' = [sent EXCEPT ![c] = @ + 1]
    /\ UNCHANGED <<conn, ended, queue, request>>

HangUp(c) ==
    /\ conn[c] = "open" /\ ~ ended[c]
    /\ ended' = [ended EXCEPT ![c] = TRUE]
    /\ UNCHANGED <<conn, sent, queue, request>>
-----------------------------------------------------------------------------
\* The thread of run().
\* The text of the last request is still there.
Accept_KeepRaw ==
    /\ phase = "accept" /\ queue # <<>>
    /\ phase' = "head" /\ current' = Head(queue) /\ queue' = Tail(queue)
    /\ UNCHANGED <<conn, sent, ended, raw, called, body>>

Accept ==
    /\ phase = "accept" /\ queue # <<>>
    /\ phase' = "head" /\ current' = Head(queue) /\ queue' = Tail(queue) /\ raw' = 0
    /\ UNCHANGED <<conn, sent, ended, called, body>>

\* accept() fails, and not for an interruption: run() returns, the program ends.
AcceptFails ==
    /\ phase = "accept" /\ phase' = "stopped"
    /\ UNCHANGED <<peer, current, raw, called, body>>

\* read() returns n pieces; at the end of what the client sends, none.
Reads(n) ==
    /\ n \in 1 .. ReadMax /\ raw + n <= sent[current]
    /\ raw' = raw + n
AtEnd == raw = sent[current] /\ ended[current]

LengthKnown(n) == Body[current] > 0 /\ n >= LengthAt

\* The loop over the headers ends with the empty line.
ReadHead ==
    /\ phase = "head"
    /\ \E n \in 1 .. ReadMax : Reads(n)
    /\ phase' = CASE raw' < Header -> "head"
                  [] raw' >= Header /\ LengthKnown(raw') -> "body"
                  [] OTHER -> "handle"
    /\ UNCHANGED <<peer, current, called, body>>

\* A read() of nothing is tried again.
HeadEnds_Again ==
    /\ phase = "head" /\ AtEnd /\ raw = 0
    /\ phase' = "accept" /\ conn' = [conn EXCEPT ![current] = "closed"]
    /\ UNCHANGED <<sent, ended, queue, current, raw, called, body>>

\* The early return forgets close().
HeadEnds_Leak ==
    /\ phase = "head" /\ AtEnd
    /\ phase' = IF raw = 0 THEN "accept" ELSE "handle"
    /\ UNCHANGED <<peer, current, raw, called, body>>

\* A client that hangs up first: without a byte it is closed unanswered, else what
\* came is parsed and handled as a request.
HeadEnds ==
    /\ phase = "head" /\ AtEnd
    /\ \/ raw = 0 /\ phase' = "accept" /\ conn' = [conn EXCEPT ![current] = "closed"]
       \/ raw > 0 /\ phase' = "handle" /\ UNCHANGED conn
    /\ UNCHANGED <<sent, ended, queue, current, raw, called, body>>

\* body_read starts from raw.size().
BodyMissing_FromStart == raw < Body[current]

\* body_read < content_length, with body_read = raw.size() - header_end.
BodyMissing == raw - Header < Body[current]

ReadBody ==
    /\ phase = "body" /\ BodyMissing
    /\ \E n \in 1 .. ReadMax : Reads(n)
    /\ UNCHANGED <<phase, peer, current, called, body>>

BodyDone ==
    /\ phase = "body" /\ (~ BodyMissing \/ AtEnd)
    /\ phase' = "handle"
    /\ UNCHANGED <<peer, current, raw, called, body>>

\* req.body: from the end of the headers, when Content-Length was seen.  Without
\* the empty line header_end is npos + 4 = 3, and the headers become the body.
RequestBody ==
    IF ~ LengthKnown(raw) THEN {}
    ELSE IF raw < Header THEN 1 .. raw ELSE Header + 1 .. raw

\* Dispatch, one write(), close().
Handle ==
    /\ phase = "handle"
    /\ called' = [called EXCEPT ![current] = @ + 1]
    /\ body' = [body EXCEPT ![current] = RequestBody]
    /\ conn' = [conn EXCEPT ![current] = "closed"]
    /\ phase' = "accept"
    /\ UNCHANGED <<sent, ended, queue, current, raw>>

Work == Accept \/ ReadHead \/ HeadEnds \/ ReadBody \/ BodyDone \/ Handle
Client(c) == Connect(c) \/ Send(c) \/ HangUp(c)
Next == Work \/ AcceptFails \/ \E c \in Clients : Client(c)
\* The server's thread goes on as long as it can.
Spec == Init /\ [][Next]_vars /\ WF_vars(Work)
\* Clients that do not stall: each sends its request or hangs up.
LiveClients == \A c \in Clients : WF_vars(Send(c) \/ HangUp(c))
LiveSpec == Spec /\ LiveClients
-----------------------------------------------------------------------------
TypeOK ==
    /\ conn \in [Clients -> {"idle", "open", "closed"}]
    /\ sent \in [Clients -> Nat] /\ \A c \in Clients : sent[c] <= Pieces(c)
    /\ ended \in [Clients -> BOOLEAN]
    /\ queue \in Seq(Clients) /\ Len(queue) <= Backlog
    /\ phase \in {"accept", "head", "body", "handle", "stopped"}
    /\ current \in Clients /\ raw \in 0 .. sent[current]
    /\ called \in [Clients -> 0 .. 1]
    /\ body \in [Clients -> SUBSET Nat]

\* However a request is cut into reads, and whoever hangs up meanwhile: a client
\* that sent its whole request before it was closed has had its handler called
\* with the body, all of it and nothing else.
WholeRequestHandled ==
    \A c \in Clients : conn[c] = "closed" /\ sent[c] = Pieces(c) =>
        called[c] = 1 /\ body[c] = Header + 1 .. Pieces(c)

\* A connection is never left behind: what is open waits in the backlog, once, or
\* is the one being read (http_server.cpp:203-204).
OpenIsWaitingOrRead ==
    \A c \in Clients : conn[c] = "open" =>
        IF \E i \in 1 .. Len(queue) : queue[i] = c
        THEN /\ \A i, j \in 1 .. Len(queue) : queue[i] = c /\ queue[j] = c => i = j
             /\ phase \in {"head", "body", "handle"} => current # c
        ELSE phase \in {"head", "body", "handle"} /\ current = c

\* Every connection is closed in the end, if accept() does not fail and no client
\* stalls; an unanswered one has sent nothing.
EveryoneAnswered ==
    \A c \in Clients :
        conn[c] = "open" ~> \/ conn[c] = "closed" /\ (called[c] = 1 \/ sent[c] = 0)
                            \/ phase = "stopped"
=============================================================================
