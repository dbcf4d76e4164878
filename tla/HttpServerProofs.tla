--------------------------- MODULE HttpServerProofs ---------------------------
(* For every set of clients, whatever they send and however it is cut into reads:
   the server's state is well-formed, no connection is left behind, and a request
   sent whole is handled whole. *)
EXTENDS HttpServer, TLAPS

Busy == phase \in {"head", "body", "handle"}
Waits(c) == \E i \in 1 .. Len(queue) : queue[i] = c

\* A client is in one place: the backlog holds each open connection once, apart
\* from the one being read.
Places ==
    /\ \A i \in 1 .. Len(queue) : conn[queue[i]] = "open"
    /\ \A i, j \in 1 .. Len(queue) : queue[i] = queue[j] => i = j
    /\ Busy => conn[current] = "open" /\ ~ Waits(current)
    /\ \A c \in Clients : conn[c] = "open" => Waits(c) \/ (Busy /\ current = c)

\* Nothing was called for a client before its connection is closed.
Fresh == \A c \in Clients : conn[c] # "closed" => called[c] = 0

\* When the handler's turn comes all has been read that the client will ever send.
Read ==
    /\ phase = "body" => raw >= Header /\ Body[current] > 0
    /\ phase = "handle" => \/ raw = Pieces(current)
                           \/ ended[current] /\ raw = sent[current]

\* Until it connects a client sends nothing.
Quiet == \A c \in Clients : conn[c] = "idle" => sent[c] = 0

IInv == TypeOK /\ Places /\ Fresh /\ Read /\ Quiet /\ WholeRequestHandled

-----------------------------------------------------------------------------
\* What is left of a backlog from which its first is taken.
LEMMA Dequeued ==
    ASSUME NEW q \in Seq(Clients), q # <<>>
    PROVE  /\ Tail(q) \in Seq(Clients) /\ Len(Tail(q)) = Len(q) - 1
           /\ Head(q) = q[1] /\ Len(q) \in Nat /\ Len(q) >= 1
           /\ \A i \in 1 .. Len(Tail(q)) : Tail(q)[i] = q[i + 1]
    OBVIOUS

LEMMA Enqueued ==
    ASSUME NEW q \in Seq(Clients), NEW c \in Clients
    PROVE  /\ Append(q, c) \in Seq(Clients) /\ Len(Append(q, c)) = Len(q) + 1 /\ Len(q) \in Nat
           /\ Append(q, c)[Len(q) + 1] = c
           /\ \A i \in 1 .. Len(q) : Append(q, c)[i] = q[i]
    OBVIOUS

\* A request is as long as its headers, at least.
LEMMA PiecesType == \A c \in Clients : Pieces(c) \in Nat /\ Pieces(c) >= Header /\ Header \in Nat /\ Header > 2
BY HttpServerAssumption DEF Pieces, LengthAt

LEMMA InitInv == Init => IInv
<1> SUFFICES ASSUME Init PROVE IInv OBVIOUS
<1> USE HttpServerAssumption DEF Init
<1>1. \A c \in Clients : Pieces(c) \in Nat /\ Pieces(c) > 0
  <2> HIDE DEF Init
  <2> SUFFICES ASSUME NEW c \in Clients PROVE Pieces(c) \in Nat /\ Pieces(c) > 0 OBVIOUS
  <2>1. Pieces(c) \in Nat /\ Pieces(c) >= Header /\ Header \in Nat /\ Header > 2 BY PiecesType
  <2> HIDE HttpServerAssumption
  <2> QED BY <2>1
<1>2. TypeOK BY <1>1 DEF TypeOK
<1>3. Places BY DEF Places, Busy, Waits
<1>4. Fresh /\ Read /\ Quiet BY DEF Fresh, Read, Quiet
<1>5. WholeRequestHandled BY DEF WholeRequestHandled
<1> QED BY <1>2, <1>3, <1>4, <1>5 DEF IInv

LEMMA StepTypeOK == IInv /\ [Next]_vars => TypeOK'
<1> SUFFICES ASSUME IInv, [Next]_vars PROVE TypeOK' OBVIOUS
<1>0. TypeOK /\ Places /\ Fresh /\ Read BY DEF IInv
<1> USE PiecesType
<1>1. CASE UNCHANGED vars BY <1>0, <1>1 DEF TypeOK, vars
<1>2. ASSUME NEW c \in Clients, Connect(c) PROVE TypeOK'
  <2>1. Len(queue) \in Nat /\ Len(queue') <= Backlog /\ queue' \in Seq(Clients)
    BY <1>0, <1>2, Enqueued, HttpServerAssumption DEF Connect, TypeOK
  <2> QED BY <1>0, <1>2, <2>1 DEF Connect, TypeOK, request
<1>3. ASSUME NEW c \in Clients, Send(c) PROVE TypeOK'
  BY <1>0, <1>3 DEF Send, TypeOK, request
<1>4. ASSUME NEW c \in Clients, HangUp(c) PROVE TypeOK'
  BY <1>0, <1>4 DEF HangUp, TypeOK, request
<1>5. CASE Accept
  <2>1. Head(queue) \in Clients /\ Tail(queue) \in Seq(Clients) /\ Len(Tail(queue)) <= Backlog
    BY <1>0, <1>5, Dequeued, HttpServerAssumption DEF Accept, TypeOK
  <2> QED BY <1>0, <1>5, <2>1 DEF Accept, TypeOK
<1>6. CASE AcceptFails BY <1>0, <1>6 DEF AcceptFails, TypeOK, peer
<1>7. CASE ReadHead
  <2>1. raw' \in 0 .. sent[current] BY <1>0, <1>7, HttpServerAssumption DEF ReadHead, Reads, TypeOK
  <2>2. phase' \in {"head", "body", "handle"} BY <1>7, <2>1, <1>0 DEF ReadHead, TypeOK
  <2> QED BY <1>0, <1>7, <2>1, <2>2 DEF ReadHead, TypeOK, peer
<1>8. CASE HeadEnds BY <1>0, <1>8 DEF HeadEnds, TypeOK
<1>9. CASE ReadBody
  <2>1. raw' \in 0 .. sent[current] BY <1>0, <1>9, HttpServerAssumption DEF ReadBody, Reads, TypeOK
  <2> QED BY <1>0, <1>9, <2>1 DEF ReadBody, TypeOK, peer
<1>10. CASE BodyDone BY <1>0, <1>10 DEF BodyDone, TypeOK, peer
<1>11. CASE Handle
  <2>1. called[current] = 0 BY <1>0, <1>11 DEF Handle, Places, Fresh, Busy, TypeOK
  <2>2. RequestBody \in SUBSET Nat BY <1>0 DEF RequestBody, TypeOK
  <2>3. body' \in [Clients -> SUBSET Nat] BY <1>0, <1>11, <2>2 DEF Handle, TypeOK
  <2>4. called' \in [Clients -> 0 .. 1] BY <1>0, <1>11, <2>1 DEF Handle, TypeOK
  <2> QED BY <1>0, <1>11, <2>3, <2>4 DEF Handle, TypeOK
<1> QED BY <1>1, <1>2, <1>3, <1>4, <1>5, <1>6, <1>7, <1>8, <1>9, <1>10, <1>11 DEF Next, Work, Client

LEMMA StepPlaces == IInv /\ [Next]_vars => Places'
<1> SUFFICES ASSUME IInv, [Next]_vars PROVE Places' OBVIOUS
<1>0. TypeOK /\ Places BY DEF IInv
<1>t. current \in Clients /\ queue \in Seq(Clients) /\ Len(queue) \in Nat
      /\ conn \in [Clients -> {"idle", "open", "closed"}]
      /\ \A i \in 1 .. Len(queue) : queue[i] \in Clients
  BY <1>0 DEF TypeOK
<1>1. ASSUME UNCHANGED <<conn, queue, current>>, Busy' = Busy PROVE Places'
  BY <1>0, <1>1 DEF Places, Waits
<1>2. ASSUME NEW c \in Clients, Connect(c) PROVE Places'
  <2>1. /\ queue' = Append(queue, c) /\ conn' = [conn EXCEPT ![c] = "open"]
        /\ conn[c] = "idle" /\ UNCHANGED <<phase, current>>
    BY <1>2 DEF Connect, request
  <2>2. /\ Len(queue') = Len(queue) + 1 /\ queue'[Len(queue) + 1] = c
        /\ \A i \in 1 .. Len(queue) : queue'[i] = queue[i]
    BY <2>1, <1>t, Enqueued
  <2>3. ~ Waits(c) BY <1>0, <2>1 DEF Places, Waits
  <2>4. \A i \in 1 .. Len(queue') : conn'[queue'[i]] = "open"
    BY <1>0, <1>t, <2>1, <2>2 DEF Places
  <2>5. \A i, j \in 1 .. Len(queue') : queue'[i] = queue'[j] => i = j
    BY <1>0, <1>t, <2>2, <2>3 DEF Places, Waits
  <2>6. ASSUME NEW d \in Clients PROVE Waits(d)' <=> Waits(d) \/ d = c
    BY <1>t, <2>2 DEF Waits
  <2>7. Busy' => conn'[current'] = "open" /\ ~ Waits(current)'
    BY <1>0, <1>t, <2>1, <2>6 DEF Places, Busy
  <2>8. \A d \in Clients : conn'[d] = "open" => Waits(d)' \/ (Busy' /\ current' = d)
    BY <1>0, <1>t, <2>1, <2>6 DEF Places, Busy
  <2> QED BY <2>4, <2>5, <2>7, <2>8 DEF Places
<1>3. CASE Accept
  <2>1. /\ queue # <<>> /\ queue' = Tail(queue) /\ current' = Head(queue) /\ UNCHANGED conn
        /\ phase = "accept" /\ phase' = "head"
    BY <1>3 DEF Accept
  <2>2. /\ Len(queue') = Len(queue) - 1 /\ current' = queue[1] /\ Len(queue) >= 1
        /\ \A i \in 1 .. Len(queue') : queue'[i] = queue[i + 1]
    BY <1>t, <2>1, Dequeued
  <2>3. \A i \in 1 .. Len(queue') : i + 1 \in 1 .. Len(queue) BY <1>t, <2>2
  <2>4. \A i \in 1 .. Len(queue') : conn'[queue'[i]] = "open"
    BY <1>0, <2>1, <2>2, <2>3 DEF Places
  <2>5. \A i, j \in 1 .. Len(queue') : queue'[i] = queue'[j] => i = j
    <3> SUFFICES ASSUME NEW i \in 1 .. Len(queue'), NEW j \in 1 .. Len(queue'), queue'[i] = queue'[j]
                 PROVE i = j OBVIOUS
    <3>1. queue[i + 1] = queue[j + 1] BY <2>2
    <3>2. i + 1 = j + 1 BY <1>0, <2>3, <3>1 DEF Places
    <3> QED BY <3>2, <1>t, <2>2
  <2>6. conn'[current'] = "open" /\ ~ Waits(current)'
    <3>1. 1 \in 1 .. Len(queue) BY <1>t, <2>2
    <3>2. \A i \in 1 .. Len(queue') : i + 1 # 1 BY <1>t, <2>2
    <3>3. \A i \in 1 .. Len(queue') : queue'[i] # queue[1]
      BY <1>0, <2>2, <2>3, <3>1, <3>2 DEF Places
    <3> QED BY <1>0, <2>1, <2>2, <3>1, <3>3 DEF Places, Waits
  <2>7. ASSUME NEW d \in Clients, conn'[d] = "open" PROVE Waits(d)' \/ (Busy' /\ current' = d)
    <3>1. PICK i \in 1 .. Len(queue) : queue[i] = d
      BY <1>0, <2>1, <2>7 DEF Places, Busy, Waits
    <3>2. CASE i = 1 BY <2>1, <2>2, <3>1, <3>2 DEF Busy
    <3>3. CASE i # 1
      <4>1. i - 1 \in 1 .. Len(queue') /\ (i - 1) + 1 = i BY <1>t, <2>2, <3>1, <3>3
      <4>2. queue'[i - 1] = d BY <2>2, <3>1, <4>1
      <4> QED BY <4>1, <4>2 DEF Waits
    <3> QED BY <3>2, <3>3
  <2> QED BY <2>4, <2>5, <2>6, <2>7 DEF Places
<1>4. ASSUME conn' = [conn EXCEPT ![current] = "closed"], phase' = "accept", Busy,
             UNCHANGED <<queue, current>>
      PROVE  Places'
  <2>1. ~ Waits(current) BY <1>0, <1>4 DEF Places
  <2>2. \A i \in 1 .. Len(queue) : queue[i] # current BY <2>1 DEF Waits
  <2>3. \A i \in 1 .. Len(queue') : conn'[queue'[i]] = "open" BY <1>0, <1>t, <1>4, <2>2 DEF Places
  <2>4. ~ Busy' BY <1>4 DEF Busy
  <2>5. \A c \in Clients : conn'[c] = "open" => Waits(c)' \/ (Busy' /\ current' = c)
    BY <1>0, <1>t, <1>4 DEF Places, Waits
  <2> QED BY <1>0, <1>4, <2>3, <2>4, <2>5 DEF Places
<1>5. CASE UNCHANGED vars BY <1>1, <1>5 DEF vars, Busy
<1>6. ASSUME NEW c \in Clients, Send(c) \/ HangUp(c) PROVE Places'
  BY <1>1, <1>6 DEF Send, HangUp, request, Busy
<1>7. CASE AcceptFails BY <1>1, <1>7 DEF AcceptFails, peer, Busy
<1>8. CASE ReadHead \/ ReadBody \/ BodyDone
  <2>1. Busy /\ UNCHANGED <<conn, queue, current>>
    BY <1>8 DEF ReadHead, ReadBody, BodyDone, peer, Busy
  <2>2. phase' \in {"head", "body", "handle"} BY <1>8 DEF ReadHead, ReadBody, BodyDone
  <2> QED BY <1>1, <2>1, <2>2 DEF Busy
<1>9. CASE HeadEnds
  <2>1. CASE raw = 0 BY <1>4, <1>9, <2>1 DEF HeadEnds, Busy
  <2>2. CASE raw # 0 BY <1>1, <1>9, <2>2 DEF HeadEnds, Busy
  <2> QED BY <2>1, <2>2
<1>10. CASE Handle BY <1>4, <1>10 DEF Handle, Busy
<1> QED BY <1>2, <1>3, <1>5, <1>6, <1>7, <1>8, <1>9, <1>10 DEF Next, Work, Client

LEMMA StepRead == IInv /\ [Next]_vars => Read'
<1> SUFFICES ASSUME IInv, [Next]_vars PROVE Read' OBVIOUS
<1>0. TypeOK /\ Read BY DEF IInv
<1> USE PiecesType
<1>t. /\ current \in Clients /\ raw \in Nat /\ sent \in [Clients -> Nat] /\ raw <= sent[current]
      /\ sent[current] <= Pieces(current) /\ ended \in [Clients -> BOOLEAN]
  BY <1>0 DEF TypeOK
<1>1. CASE UNCHANGED vars BY <1>0, <1>1 DEF Read, vars, Pieces
<1>2. ASSUME NEW c \in Clients, Connect(c) PROVE Read'
  BY <1>0, <1>2 DEF Read, Connect, request, Pieces
<1>3. ASSUME NEW c \in Clients, Send(c) PROVE Read'
  <2>1. UNCHANGED <<phase, raw, current, ended>> /\ ~ ended[c] /\ sent' = [sent EXCEPT ![c] = @ + 1]
    BY <1>3 DEF Send, request
  <2>2. ended[current] => sent'[current] = sent[current] BY <1>t, <2>1
  <2> QED BY <1>0, <2>1, <2>2 DEF Read, Pieces
<1>4. ASSUME NEW c \in Clients, HangUp(c) PROVE Read'
  BY <1>0, <1>t, <1>4 DEF Read, HangUp, request, Pieces
<1>5. CASE Accept BY <1>5 DEF Accept, Read
<1>6. CASE AcceptFails BY <1>6 DEF AcceptFails, Read
<1>7. CASE ReadHead
  <2>1. raw' \in Nat /\ raw' <= sent[current] /\ UNCHANGED <<current, sent, ended>>
    BY <1>t, <1>7, HttpServerAssumption DEF ReadHead, Reads, peer
  <2>2. phase' = "body" => raw' >= Header /\ Body[current] > 0
    BY <1>7, <2>1 DEF ReadHead, LengthKnown
  <2>3. phase' = "handle" => raw' >= Header /\ ~ LengthKnown(raw')
    <3>1. raw' < Header \/ raw' >= Header BY <1>t, <2>1
    <3>2. CASE raw' < Header
      <4>1. ~ (raw' >= Header) BY <1>t, <2>1, <3>2
      <4>2. phase' = "head" BY <1>7, <3>2, <4>1 DEF ReadHead
      <4> QED BY <4>2
    <3>3. CASE raw' >= Header /\ LengthKnown(raw')
      <4>1. ~ (raw' < Header) BY <1>t, <2>1, <3>3
      <4>2. phase' = "body" BY <1>7, <3>3, <4>1 DEF ReadHead
      <4> QED BY <4>2
    <3> QED BY <3>1, <3>2, <3>3
  <2>4. phase' = "handle" => Body[current] = 0
    <3>1. Body[current] \in Nat BY <1>t, HttpServerAssumption
    <3>2. raw' >= Header => raw' >= LengthAt BY <1>t, <2>1 DEF LengthAt
    <3> QED BY <2>3, <3>1, <3>2 DEF LengthKnown
  <2>5. phase' = "handle" => raw' = Pieces(current)
    BY <1>t, <2>1, <2>3, <2>4, HttpServerAssumption DEF Pieces
  <2> QED BY <2>1, <2>2, <2>5 DEF Read, Pieces
<1>8. CASE HeadEnds BY <1>8 DEF HeadEnds, AtEnd, Read
<1>9. CASE ReadBody
  <2>1. /\ phase = "body" /\ phase' = "body" /\ UNCHANGED current
        /\ raw' \in Nat /\ raw' >= raw /\ raw >= Header /\ Body[current] > 0
    BY <1>0, <1>t, <1>9, HttpServerAssumption DEF ReadBody, Reads, peer, Read
  <2>2. raw' >= Header BY <1>t, <2>1
  <2>3. phase' # "handle" /\ Body[current'] > 0 BY <2>1
  <2> QED BY <2>2, <2>3 DEF Read
<1>10. CASE BodyDone
  <2>1. phase' = "handle" /\ UNCHANGED <<current, raw, ended, sent>> BY <1>10 DEF BodyDone, peer
  <2>2. ~ BodyMissing => raw = Pieces(current) BY <1>t, HttpServerAssumption DEF BodyMissing, Pieces
  <2> QED BY <1>10, <2>1, <2>2 DEF BodyDone, AtEnd, Read, Pieces
<1>11. CASE Handle BY <1>11 DEF Handle, Read
<1> QED BY <1>1, <1>2, <1>3, <1>4, <1>5, <1>6, <1>7, <1>8, <1>9, <1>10, <1>11 DEF Next, Work, Client

\* What Handle leaves of the client it has handled.
LEMMA HandledWhole ==
    ASSUME IInv, Handle, sent[current] = Pieces(current)
    PROVE  raw = Pieces(current) /\ RequestBody = Header + 1 .. Pieces(current)
<1>0. TypeOK /\ Read BY DEF IInv
<1>1. current \in Clients /\ raw \in Nat BY <1>0 DEF TypeOK
<1>2. raw = Pieces(current) BY <1>0 DEF Read, Handle
<1>3. Body[current] \in Nat /\ Header \in Nat /\ Header > 2 BY <1>1, PiecesType, HttpServerAssumption
<1>4. CASE Body[current] = 0
  <2>1. RequestBody = {} BY <1>4 DEF RequestBody, LengthKnown
  <2>2. Header + 1 .. Pieces(current) = {} BY <1>3, <1>4 DEF Pieces
  <2> QED BY <1>2, <2>1, <2>2
<1>5. CASE Body[current] > 0
  <2>1. raw >= Header /\ LengthKnown(raw) BY <1>2, <1>3, <1>5 DEF Pieces, LengthKnown, LengthAt
  <2> QED BY <1>2, <1>3, <1>1, <2>1 DEF RequestBody
<1> QED BY <1>3, <1>4, <1>5

LEMMA StepHandled == IInv /\ [Next]_vars => (Fresh /\ Quiet /\ WholeRequestHandled)'
<1> SUFFICES ASSUME IInv, [Next]_vars PROVE (Fresh /\ Quiet /\ WholeRequestHandled)' OBVIOUS
<1>0. TypeOK /\ Places /\ Fresh /\ Quiet /\ WholeRequestHandled BY DEF IInv
<1> USE PiecesType
<1>t. /\ current \in Clients /\ raw \in Nat /\ sent \in [Clients -> Nat] /\ raw <= sent[current]
      /\ conn \in [Clients -> {"idle", "open", "closed"}] /\ called \in [Clients -> 0 .. 1]
      /\ body \in [Clients -> SUBSET Nat]
  BY <1>0 DEF TypeOK
<1>1. ASSUME UNCHANGED <<conn, sent, called, body>> PROVE (Fresh /\ Quiet /\ WholeRequestHandled)'
  BY <1>0, <1>1 DEF Fresh, Quiet, WholeRequestHandled, Pieces
<1>2. ASSUME NEW c \in Clients, Connect(c) PROVE (Fresh /\ Quiet /\ WholeRequestHandled)'
  BY <1>0, <1>t, <1>2 DEF Connect, request, Fresh, Quiet, WholeRequestHandled, Pieces
<1>3. ASSUME NEW c \in Clients, Send(c) PROVE (Fresh /\ Quiet /\ WholeRequestHandled)'
  BY <1>0, <1>t, <1>3 DEF Send, request, Fresh, Quiet, WholeRequestHandled, Pieces
<1>4. CASE HeadEnds
  <2>1. CASE raw = 0
    <3>1. sent[current] = 0 /\ sent[current] # Pieces(current)
      BY <1>4, <2>1, <1>t DEF HeadEnds, AtEnd
    <3> QED BY <1>0, <1>t, <1>4, <2>1, <3>1 DEF HeadEnds, Fresh, Quiet, WholeRequestHandled, Pieces
  <2>2. CASE raw # 0 BY <1>1, <1>4, <2>2 DEF HeadEnds
  <2> QED BY <2>1, <2>2
<1>5. CASE Handle
  <2>1. conn[current] = "open" /\ called[current] = 0
    BY <1>0, <1>5, <1>t DEF Handle, Places, Fresh, Busy
  <2>2. /\ conn' = [conn EXCEPT ![current] = "closed"] /\ called' = [called EXCEPT ![current] = @ + 1]
        /\ body' = [body EXCEPT ![current] = RequestBody] /\ UNCHANGED sent
    BY <1>5 DEF Handle
  <2>3. Fresh' /\ Quiet' BY <1>0, <1>t, <2>2 DEF Fresh, Quiet
  <2>4. ASSUME NEW c \in Clients, conn'[c] = "closed", sent'[c] = Pieces(c)
        PROVE  called'[c] = 1 /\ body'[c] = Header + 1 .. Pieces(c)
    <3>1. CASE c = current BY <1>5, <1>t, <2>1, <2>2, <2>4, <3>1, HandledWhole
    <3>2. CASE c # current BY <1>0, <1>t, <2>2, <2>4, <3>2 DEF WholeRequestHandled
    <3> QED BY <3>1, <3>2
  <2> QED BY <2>3, <2>4 DEF WholeRequestHandled, Pieces
<1>6. CASE UNCHANGED vars BY <1>1, <1>6 DEF vars
<1>7. ASSUME NEW c \in Clients, HangUp(c) PROVE (Fresh /\ Quiet /\ WholeRequestHandled)'
  BY <1>1, <1>7 DEF HangUp, request
<1>8. CASE Accept \/ AcceptFails \/ ReadHead \/ ReadBody \/ BodyDone
  BY <1>1, <1>8 DEF Accept, AcceptFails, ReadHead, ReadBody, BodyDone, peer
<1> QED BY <1>2, <1>3, <1>4, <1>5, <1>6, <1>7, <1>8 DEF Next, Work, Client

LEMMA Inductive == Spec => []IInv
<1>1. IInv /\ [Next]_vars => IInv' BY StepTypeOK, StepPlaces, StepRead, StepHandled DEF IInv
<1> QED BY InitInv, <1>1, PTL DEF Spec
-----------------------------------------------------------------------------
\* The state of the server and of its clients stays well-formed; in particular no
\* handler is called twice for a connection (handle_client()).
THEOREM TypeCorrect == Spec => []TypeOK
<1>1. IInv => TypeOK BY DEF IInv
<1> QED BY Inductive, <1>1, PTL

\* A client that gets to send its whole request has its handler called once, with
\* the whole body, however the pieces fall into reads.
THEOREM RequestsHandledWhole == Spec => []WholeRequestHandled
<1>1. IInv => WholeRequestHandled BY DEF IInv
<1> QED BY Inductive, <1>1, PTL

\* Each open connection is in the backlog, once, or is the one being read.
THEOREM NoConnectionLeft == Spec => []OpenIsWaitingOrRead
<1>1. IInv => OpenIsWaitingOrRead
  <2> SUFFICES ASSUME IInv, NEW c \in Clients, conn[c] = "open"
               PROVE  IF \E i \in 1 .. Len(queue) : queue[i] = c
                      THEN /\ \A i, j \in 1 .. Len(queue) : queue[i] = c /\ queue[j] = c => i = j
                           /\ phase \in {"head", "body", "handle"} => current # c
                      ELSE phase \in {"head", "body", "handle"} /\ current = c
    BY DEF OpenIsWaitingOrRead
  <2>1. Places BY DEF IInv
  <2>2. CASE Waits(c) BY <2>1, <2>2 DEF Places, Waits, Busy
  <2>3. CASE ~ Waits(c) BY <2>1, <2>3 DEF Places, Waits, Busy
  <2> QED BY <2>2, <2>3
<1> QED BY Inductive, <1>1, PTL
=============================================================================
