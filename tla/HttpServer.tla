------------------------------ MODULE HttpServer ------------------------------
(***************************************************************************)
(* The HTTP side of one server: the select() loop of mongoose over its     *)
(* listener and its connections, the HTTP protocol handler, ev_handler of  *)
(* server.cpp with the like counters, and static files.  Browsers connect, *)
(* write their requests and may leave at any point.  The effect of the     *)
(* diary and comment calls on Redis is the subject of DiaryCommit; here    *)
(* they only answer.                                                       *)
(***************************************************************************)
EXTENDS HttpRequest, FiniteSets

CONSTANTS
    Conns,          \* the browsers' connections
    NULL,           \* no connection
    Listener,       \* the listening connection
    Scripts,        \* Scripts[c]: the sequences of requests c may want to make
    SiteId,         \* site_id of this server
    Diaries,        \* diary ids
    FileLen,        \* units of the static file
    MaxSend,        \* MG_MAX_HTTP_SEND_MBUF
    MaxRequest,     \* MG_MAX_HTTP_REQUEST_SIZE
    RecvSize,       \* MG_TCP_RECV_BUFFER_SIZE
    SockBuf         \* room in the socket towards a browser

ASSUME ListenerAssumption == Listener \notin Conns
ASSUME SiteAssumption == SiteId \in {0, 1} /\ Diaries \subseteq Nat \ {0}
ASSUME SizeAssumption ==
    {FileLen, MaxSend, MaxRequest, RecvSize, SockBuf} \subseteq Nat \ {0}
\* What a chunked request makes of the requests buffered after it is left out.
ASSUME ScriptsAssumption ==
    \A c \in Conns : \A s \in Scripts[c] :
        (\E i \in DOMAIN s : ~s[i].waits) => \A i \in DOMAIN s : s[i].enc # "chunked"

\* The requests of browsers: only PUT and POST have a chunked body, the chunks
\* before the last have data, and a request without a length has no body.
Requests ==
    {r \in [id : Nat, uri : STRING, diary : Diaries, method : STRING, connection : STRING,
            enc : {"length", "chunked", "none"}, lines : Nat \ {0}, body : Seq(Nat \ {0}),
            waits : BOOLEAN] :
        /\ r.enc = "chunked" => r.method \in {"PUT", "POST"}
        /\ r.enc = "none" => r.body = <<>>}

ASSUME RequestsAssumption ==
    \A c \in Conns : \A s \in Scripts[c] : s \in Seq(Requests) /\ \A i \in DOMAIN s : s[i].id = i

\* What the streams and the mg_connection of a browser are made of.
RequestUnit == [kind : {"line", "bad", "end", "size", "data", "crlf"}, req : Requests, n : Nat]
AnswerUnit == [req : Nat, n : Nat, num : Int]
File == [open : BOOLEAN, req : Nat, pos : Nat, sent : Nat, cl : Nat, keepalive : BOOLEAN]
Connection ==
    [flags : SUBSET {"SEND_AND_CLOSE", "CLOSE_IMMEDIATELY"}, recv : Seq(RequestUnit),
     send : Seq(AnswerUnit), rcvd : Nat, chunk : Nat, file : File]

ASSUME NullAssumption == NULL \notin Connection

VARIABLES
    conns,      \* conns[c]: the mg_connection of c, NULL without one
    list,       \* mgr->active_connections
    phase,      \* where mg_socket_if_poll is: "select", "handle" or "close"
    todo,       \* the connections its loop has still to visit, with what select said
    likes,      \* likes[s][d]: diary_<d>_like in the Redis of site s
    aborted,    \* an assert has failed
    handled,    \* auxiliary: what the event handler was given on c, in order
    backlog,    \* connections to be accepted
    toServer,   \* toServer[c]: units on their way to the server
    toClient,   \* toClient[c]: units in the sockets towards c
    fin,        \* the end of c: "new", "open", "half" closed or "gone"
    cut,        \* c has left before all of its last request was out
    script,     \* the requests c wants to make
    sent,       \* how many of them it has begun
    got         \* what c has read

server == <<conns, list, phase, todo, aborted, handled, backlog>>
network == <<toServer, toClient>>
browser == <<fin, cut, script, sent, got>>
vars == <<server, likes, network, browser>>

PREFER_SITE(d) == d % 2

NoFile == [open |-> FALSE, req |-> 0, pos |-> 0, sent |-> 0, cl |-> 0, keepalive |-> FALSE]

mg_create_connection == [flags |-> {}, recv |-> <<>>, send |-> <<>>, rcvd |-> 0, chunk |-> 0, file |-> NoFile]

Init ==
    /\ conns = [c \in Conns |-> NULL] /\ list = <<Listener>>
    /\ phase = "select" /\ todo = <<>> /\ aborted = FALSE
    /\ handled = [c \in Conns |-> <<>>] /\ backlog = <<>>
    /\ likes = [s \in {0, 1} |-> [d \in Diaries \cup {0} |-> 0]]
    /\ toServer = [c \in Conns |-> <<>>] /\ toClient = [c \in Conns |-> <<>>]
    /\ fin = [c \in Conns |-> "new"] /\ cut = [c \in Conns |-> FALSE]
    /\ script \in {f \in [Conns -> UNION {Scripts[c] : c \in Conns}] : \A c \in Conns : f[c] \in Scripts[c]}
    /\ sent = [c \in Conns |-> 0] /\ got = [c \in Conns |-> <<>>]

-----------------------------------------------------------------------------
(***************************************************************************)
(* Handlers, on a record w of the connection, the likes, what was handled  *)
(* on the connection and whether an assert failed.  Units of an answer are *)
(* [req, n], with the number of likes if they say one.                     *)
(***************************************************************************)

Flag(w, flag) == [w EXCEPT !.conn.flags = @ \cup {flag}]

mg_send(w, units) == [w EXCEPT !.conn.send = @ \o units]

Unit(req, n) == [req |-> req.id, n |-> n, num |-> -1]

\* Mutant of ToRead: the file goes to the buffer whatever is in it.
ToRead_All(conn) == conn.file.cl - conn.file.sent

\* How much of the file fits in the send buffer now.
ToRead(conn) == Min({Max({0, MaxSend - Len(conn.send)}), Max({0, conn.file.cl - conn.file.sent})})

\* The next part of the file.
FilePart(conn) ==
    LET n == Min({ToRead(conn), Max({0, FileLen - conn.file.pos})})
    IN  [i \in 1..n |-> [req |-> conn.file.req, n |-> 1 + conn.file.pos + i, num |-> -1]]

\* conn with more units to send, and what is then left of its file.
Filled(conn, units, file, flags) == [conn EXCEPT !.send = @ \o units, !.file = file, !.flags = flags]

\* The file after n more units.
FileRead(file, n) == [file EXCEPT !.pos = @ + n, !.sent = @ + n]

\* Mutant of mg_http_transfer_file_data: the file stays open after its end.
TransferFile_Open(w) ==
    LET part == FilePart(w.conn)
    IN  IF ~w.conn.file.open THEN w
        ELSE [w EXCEPT !.conn = Filled(@, part, FileRead(@.file, Len(part)), @.flags)]

\* A file goes out as room is made for it, and its end may end the connection.
mg_http_transfer_file_data(w) ==
    LET file == w.conn.file
        part == FilePart(w.conn)
    IN  IF ~file.open THEN w
        ELSE IF file.sent + Len(part) < file.cl
        THEN [w EXCEPT !.conn = Filled(@, part, FileRead(file, Len(part)), @.flags)]
        ELSE [w EXCEPT !.conn = Filled(@, part, NoFile,
                 IF file.keepalive THEN @.flags ELSE @.flags \cup {"SEND_AND_CLOSE"})]

\* "keep-alive" and "Keep-Alive" alike; the requests are HTTP/1.1.
Keepalive(req) == req.connection \in {"none", "keep-alive", "Keep-Alive"}

\* mg_http_serve_file; `sent` is only reset when a transfer ends.
mg_http_serve_file(w, req) ==
    mg_http_transfer_file_data(
        [w EXCEPT !.conn = Filled(@, <<Unit(req, 1)>>,
            [open |-> TRUE, req |-> req.id, pos |-> 0, sent |-> @.file.sent,
             cl |-> FileLen, keepalive |-> Keepalive(req)], @.flags)])

mg_http_send_error(w, req) == Flag(mg_send(w, <<Unit(req, 1), Unit(req, 2)>>), "SEND_AND_CLOSE")

\* Mutant of LikeStore: the counter is looked up in the local Redis.
LikeStore_Local(d) == SiteId

\* redis_cli or redis_cli_master: likes live at the preferred site alone.
LikeStore(d) == PREFER_SITE(d)

AnswerNum(w, req, d) ==
    mg_send(w, <<Unit(req, 1), [Unit(req, 2) EXCEPT !.num = w.likes[LikeStore(d)][d]]>>)

\* INCR.
CountLike(w, d) == [w EXCEPT !.likes[PREFER_SITE(d)][d] = @ + 1]

handle_like(w, req, d) == AnswerNum(CountLike(w, d), req, d)
handle_get_like(w, req, d) == AnswerNum(w, req, d)

\* ev_handler for MG_EV_HTTP_REQUEST: /printcontent answers nothing.
ev_handler(w, req, d) ==
    CASE req.uri = "like" -> handle_like(w, req, d)
      [] req.uri = "get_like" -> handle_get_like(w, req, d)
      [] req.uri = "diary" -> mg_send(w, <<Unit(req, 1), Unit(req, 2)>>)
      [] req.uri = "printcontent" -> w
      [] req.uri = "file" -> mg_http_serve_file(w, req)
      [] OTHER -> mg_http_send_error(w, req)

\* The body the handler sees is all that is buffered after the head, and the
\* diary id it finds there is that of the request if the body is; else it is
\* `other`, what a part of it spells.
mg_http_call_endpoint_handler(w, hm, other) ==
    LET body == SubSeq(w.conn.recv, hm.len + 1, Len(w.conn.recv))
    IN  [ev_handler(w, hm.req, IF IsPrefix(Body(hm.req), body) THEN hm.req.diary ELSE other)
            EXCEPT !.handled = Append(@, [req |-> hm.req.id, whole |-> body = Body(hm.req)])]

\* Mutant of mbuf_remove: nothing is removed when all of it should be.
Remove_Strict(w, n) ==
    IF n < Len(w.conn.recv)
    THEN [w EXCEPT !.conn.recv = SubSeq(@, n + 1, Len(@))] ELSE w

mbuf_remove(w, n) ==
    IF n <= Len(w.conn.recv)
    THEN [w EXCEPT !.conn.recv = SubSeq(@, n + 1, Len(@))] ELSE w

\* Mutants of Complete: the head is enough; one unit more is waited for.
Complete_Head(w, hm) == TRUE
Complete_Strict(w, hm) == hm.message # Endless /\ hm.message < w.conn.rcvd

\* All of the message has been received.
Complete(w, hm) == hm.message # Endless /\ hm.message <= w.conn.rcvd

\* The end of mg_http_handler: the request whose head is hm is refused, waited
\* for, or handled.
Deliver(w, hm, other) ==
    IF hm.len < 0 \/ (hm.len = 0 /\ Len(w.conn.recv) >= MaxRequest)
    THEN Flag(w, "CLOSE_IMMEDIATELY")
    ELSE IF hm.len = 0 \/ ~Complete(w, hm) THEN w
    ELSE [mbuf_remove(mg_http_call_endpoint_handler(w, hm, other), hm.message)
            EXCEPT !.conn.rcvd = 0]

\* Its first half, on what follows the head when the body is chunked.
DeliverSeen(w, hm, seen, other) ==
    Deliver([w EXCEPT !.conn.recv = SubSeq(@, 1, hm.len) \o seen.buf, !.conn.chunk = seen.bodyLen],
            seen.hm, other)

ParseChunked(w, hm, rest, other) ==
    IF Len(rest) < w.conn.chunk THEN [w EXCEPT !.aborted = TRUE]
    ELSE DeliverSeen(w, hm, mg_handle_chunked(rest, w.conn.chunk, hm), other)

Parsed(w, hm, other) ==
    IF hm.len > 0 /\ hm.req.enc = "chunked"
    THEN ParseChunked(w, hm, SubSeq(w.conn.recv, hm.len + 1, Len(w.conn.recv)), other)
    ELSE Deliver(w, hm, other)

\* mg_http_handler for MG_EV_RECV of n units.
HttpRecv(w, n, other) ==
    Parsed([mg_http_transfer_file_data(w) EXCEPT !.conn.rcvd = @ + n], mg_parse_http(w.conn.recv), other)

\* mg_http_handler for MG_EV_CLOSE: what is buffered is the message.
HttpClose(w, other) ==
    LET hm == mg_parse_http(w.conn.recv)
    IN  mg_http_transfer_file_data(
            IF Len(w.conn.recv) > 0 /\ hm.len > 0
            THEN mg_http_call_endpoint_handler(w, hm, other) ELSE w)

-----------------------------------------------------------------------------
World(c) == [conn |-> conns[c], likes |-> likes, handled |-> handled[c], aborted |-> aborted]

SetWorld(c, w) ==
    /\ conns' = [conns EXCEPT ![c] = w.conn] /\ handled' = [handled EXCEPT ![c] = w.handled]
    /\ likes' = w.likes /\ aborted' = w.aborted

\* What select() reports: the end of a stream makes a socket readable.
Readable(c) ==
    IF c = Listener THEN backlog # <<>> ELSE toServer[c] # <<>> \/ fin[c] \in {"half", "gone"}

Writable(c) ==
    c # Listener /\ conns[c].send # <<>> /\ (Len(toClient[c]) < SockBuf \/ fin[c] = "gone")

\* The elements of a list that are in keep, in their order.
Among(all, keep) ==
    LET upTo[i \in 0..Len(all)] ==
            IF i = 0 THEN <<>>
            ELSE IF all[i] \in keep THEN Append(upTo[i - 1], all[i]) ELSE upTo[i - 1]
    IN  upTo[Len(all)]

\* The connections the loop does something to: without either, and without a
\* file open, MG_EV_POLL changes nothing.
Ready ==
    Among(list, {c \in ToSet(list) : Readable(c) \/ Writable(c) \/ (c # Listener /\ conns[c].file.open)})

\* Mutant of CloseNow: what is still to be sent is not waited for.
CloseNow_Unsent(conn) == conn.flags # {}

CloseNow(conn) ==
    \/ "CLOSE_IMMEDIATELY" \in conn.flags
    \/ conn.send = <<>> /\ "SEND_AND_CLOSE" \in conn.flags

\* Select, up to the return of select(): a call that times out changes nothing.
Select ==
    /\ phase = "select" /\ ~aborted /\ \E i \in DOMAIN list : Readable(list[i]) \/ Writable(list[i])
    /\ phase' = "handle"
    /\ todo' = [i \in DOMAIN Ready |-> [conn |-> Ready[i], rd |-> Readable(Ready[i]), wr |-> Writable(Ready[i])]]
    /\ UNCHANGED <<conns, list, aborted, handled, backlog, likes, network, browser>>

\* To the next connection of the loop, or to the loop that closes.
Advance(all, newConns) ==
    IF Len(todo) > 1 THEN todo' = Tail(todo) /\ phase' = phase
    ELSE LET dead == Among(all, {c \in Conns \cap ToSet(all) : CloseNow(newConns[c])})
         IN  /\ todo' = [i \in DOMAIN dead |-> [conn |-> dead[i], rd |-> FALSE, wr |-> FALSE]]
             /\ phase' = IF dead = <<>> THEN "select" ELSE "close"

\* mg_mgr_handle_conn of the listener: one connection at a time.
Accept ==
    /\ phase = "handle" /\ ~aborted /\ Head(todo).conn = Listener
    /\ IF Head(todo).rd
       THEN /\ conns' = [conns EXCEPT ![Head(backlog)] = mg_create_connection]
            /\ list' = <<Head(backlog)>> \o list
            /\ backlog' = Tail(backlog)
       ELSE UNCHANGED <<conns, list, backlog>>
    /\ Advance(list', conns')
    /\ UNCHANGED <<aborted, handled, likes, network, browser>>

\* What recv() may return: units, the end of the stream, or an error.
RecvResults(c) ==
    (1..Min({RecvSize, Len(toServer[c])}))
        \cup (IF toServer[c] = <<>> /\ fin[c] # "open" THEN {0} ELSE {})
        \cup (IF fin[c] = "gone" THEN {-1} ELSE {})

\* mg_handle_tcp_read.
AfterRead(c, w, n, other) ==
    IF n > 0 THEN HttpRecv([w EXCEPT !.conn.recv = @ \o SubSeq(toServer[c], 1, n)], n, other)
    ELSE Flag(w, IF n = 0 THEN "SEND_AND_CLOSE" ELSE "CLOSE_IMMEDIATELY")

\* What send() may return: as much as the socket takes, or an error.
SendResults(c, w) ==
    IF fin[c] = "gone" THEN {Len(w.conn.send), -1}
    ELSE {Min({Len(w.conn.send), SockBuf - Len(toClient[c])})}

\* Mutant of AfterWrite: one unit too few leaves the buffer.
AfterWrite_OffByOne(w, m) ==
    mg_http_transfer_file_data(
        IF m < 0 THEN Flag(w, "CLOSE_IMMEDIATELY") ELSE [w EXCEPT !.conn.send = SubSeq(@, Max({1, m}), Len(@))])

\* mg_if_sent_cb.
AfterWrite(w, m) ==
    mg_http_transfer_file_data(
        IF m < 0 THEN Flag(w, "CLOSE_IMMEDIATELY") ELSE [w EXCEPT !.conn.send = SubSeq(@, m + 1, Len(@))])

Alive(w) == "CLOSE_IMMEDIATELY" \notin w.conn.flags /\ ~w.aborted

\* MG_EV_POLL, after m units were sent; -2 stands for no call.
Polled(w, m) ==
    IF Alive(w) THEN mg_http_transfer_file_data(IF m = -2 THEN w ELSE AfterWrite(w, m)) ELSE w

\* The rest of mg_mgr_handle_conn, when n was read and made w of the connection.
WriteConn(c, n, w) ==
    \E m \in IF Alive(w) /\ Head(todo).wr /\ w.conn.send # <<>> THEN SendResults(c, w) ELSE {-2} :
       /\ SetWorld(c, Polled(w, m))
       /\ toServer' = [toServer EXCEPT ![c] = SubSeq(@, Max({0, n}) + 1, Len(@))]
       /\ toClient' = [toClient EXCEPT ![c] =
              IF fin[c] = "gone" THEN @ ELSE @ \o SubSeq(w.conn.send, 1, m)]

\* mg_mgr_handle_conn of a browser's connection: read, write, MG_EV_POLL.
HandleConn(c) ==
    /\ phase = "handle" /\ ~aborted /\ Head(todo).conn = c
    /\ \E n \in IF Head(todo).rd THEN RecvResults(c) ELSE {-2}, other \in Diaries \cup {0} :
          WriteConn(c, n, IF n = -2 THEN World(c) ELSE AfterRead(c, World(c), n, other))
    /\ Advance(list, conns')
    /\ UNCHANGED <<list, backlog, browser>>

\* mg_close_conn: the socket is closed before the handler hears of it.
CloseConn ==
    /\ phase = "close" /\ ~aborted
    /\ LET c == Head(todo).conn
       IN  \E other \in Diaries \cup {0} :
              LET w == HttpClose(World(c), other)
              IN  /\ SetWorld(c, [w EXCEPT !.conn = NULL])
                  /\ list' = Among(list, ToSet(list) \ {c})
                  /\ toServer' = [toServer EXCEPT ![c] = <<>>]
    /\ todo' = Tail(todo) /\ phase' = IF Len(todo) > 1 THEN "close" ELSE "select"
    /\ UNCHANGED <<backlog, toClient, browser>>

Loop == Select \/ Accept \/ (\E c \in Conns : HandleConn(c)) \/ CloseConn

-----------------------------------------------------------------------------
(***************************************************************************)
(* The browsers, the network and the other site's server: external.        *)
(***************************************************************************)

\* Units of the answer to a request.
AnswerLen(req) ==
    CASE req.uri = "file" -> 1 + FileLen
      [] req.uri \in {"printcontent", "malformed"} -> 0
      [] OTHER -> 2

AnswerUpTo(c, k) ==
    LET upTo[i \in 0..Len(script[c])] ==
            IF i = 0 THEN 0 ELSE upTo[i - 1] + AnswerLen(script[c][i])
    IN  upTo[k]

\* c has read the whole answers to its first k requests.
Answered(c, k) == Len(got[c]) >= AnswerUpTo(c, k)

\* The server has closed its end of the connection.
Closed(c) == fin[c] # "new" /\ conns[c] = NULL /\ c \notin ToSet(backlog)

Connect(c) ==
    /\ fin[c] = "new"
    /\ fin' = [fin EXCEPT ![c] = "open"] /\ backlog' = Append(backlog, c)
    /\ UNCHANGED <<conns, list, phase, todo, aborted, handled, likes, network, cut, script, sent, got>>

Request(c) ==
    /\ fin[c] = "open" /\ sent[c] < Len(script[c]) /\ ~Closed(c)
    /\ \/ ~script[c][sent[c] + 1].waits
       \/ Answered(c, sent[c]) /\ \A k \in 1..sent[c] : AnswerLen(script[c][k]) > 0
    /\ sent' = [sent EXCEPT ![c] = @ + 1]
    /\ toServer' = [toServer EXCEPT ![c] = @ \o Encoded(script[c][sent[c] + 1])]
    /\ UNCHANGED <<server, likes, toClient, fin, cut, script, got>>

Read(c) ==
    /\ toClient[c] # <<>> /\ fin[c] # "gone"
    /\ got' = [got EXCEPT ![c] = @ \o toClient[c]] /\ toClient' = [toClient EXCEPT ![c] = <<>>]
    /\ UNCHANGED <<server, likes, toServer, fin, cut, script, sent>>

\* The browser shuts its end down or goes away, when only `out` of what it
\* wrote has left.
Leave(c) ==
    /\ fin[c] = "open"
    /\ \E out \in 0..Len(toServer[c]), how \in {"half", "gone"} :
          /\ toServer' = [toServer EXCEPT ![c] = SubSeq(@, 1, out)]
          /\ cut' = [cut EXCEPT ![c] = out < Len(toServer[c])]
          /\ fin' = [fin EXCEPT ![c] = how]
          /\ toClient' = IF how = "gone" THEN [toClient EXCEPT ![c] = <<>>] ELSE toClient
    /\ UNCHANGED <<server, likes, script, sent, got>>

Environment == \E c \in Conns : Connect(c) \/ Request(c) \/ Read(c) \/ Leave(c)

Next == Loop \/ Environment

Spec == Init /\ [][Next]_vars

\* Loop is enabled: select() returns, or has returned.
LoopEnabled ==
    ~aborted /\ (phase # "select" \/ \E i \in DOMAIN list : Readable(list[i]) \/ Writable(list[i]))

\* The main thread runs the loop for ever: weak fairness of Loop, written out.
LoopFairness == []<>~LoopEnabled \/ []<><<<<phase, todo>>' # <<phase, todo>>>>_vars

\* And a browser that stays reads what it is sent.
FairSpec == Spec /\ LoopFairness /\ \A c \in Conns : WF_vars(Read(c))

-----------------------------------------------------------------------------
TypeOK ==
    /\ conns \in [Conns -> Connection \cup {NULL}]
    /\ \A c \in Conns : conns[c] # NULL /\ conns[c].file.open =>
          conns[c].file.sent \in 0..conns[c].file.cl - 1
    /\ list \in Seq(Conns \cup {Listener})
    /\ ToSet(list) = {Listener} \cup {c \in Conns : conns[c] # NULL}
    /\ phase \in {"select", "handle", "close"} /\ (phase = "select" <=> todo = <<>>)
    /\ todo \in Seq([conn : ToSet(list), rd : BOOLEAN, wr : BOOLEAN])
    /\ aborted \in BOOLEAN /\ likes \in [{0, 1} -> [Diaries \cup {0} -> Nat]]
    /\ handled \in [Conns -> Seq([req : Nat, whole : BOOLEAN])]
    /\ backlog \in Seq({c \in Conns : conns[c] = NULL})
    /\ toServer \in [Conns -> Seq(RequestUnit)] /\ toClient \in [Conns -> Seq(AnswerUnit)]
    /\ fin \in [Conns -> {"new", "open", "half", "gone"}] /\ cut \in [Conns -> BOOLEAN]
    /\ script \in [Conns -> Seq(Requests)] /\ \A c \in Conns : sent[c] \in 0..Len(script[c])
    /\ sent \in [Conns -> Nat] /\ got \in [Conns -> Seq(AnswerUnit)]

\* A browser the handler is written for: it waits for each answer and sends
\* one chunked body at most.
Plain(c) ==
    /\ \A k \in DOMAIN script[c] : script[c][k].waits
    /\ Cardinality({k \in DOMAIN script[c] : script[c][k].enc = "chunked"}) <= 1

\* The event handler gets the requests of a connection in order, each of them
\* once, also when buffered ones are delivered on MG_EV_CLOSE.
HandledOnceInOrder ==
    \A c \in Conns :
        /\ Len(handled[c]) <= sent[c]
        /\ \A i \in DOMAIN handled[c] : handled[c][i].req = i

\* And with its whole body, however the stream is cut up: only a browser that
\* leaves early makes the server act on a part of it (MG_EV_CLOSE does).
HandledWhole ==
    \A c \in Conns : Plain(c) /\ ~cut[c] /\ fin[c] # "gone" =>
        \A i \in DOMAIN handled[c] : handled[c][i].whole

\* What server-example.md says: "when an HTTP request is fully buffered".
OnlyWholeHandled ==
    \A c \in Conns : Plain(c) => \A i \in DOMAIN handled[c] : handled[c][i].whole

Sort(units) == [i \in DOMAIN units |-> <<units[i].req, units[i].n>>]

\* The answers due on c, one after the other.
Due(c) ==
    FlattenSeq([i \in DOMAIN handled[c] |->
        [n \in 1..AnswerLen(script[c][i]) |-> <<i, n>>]])

\* What c has got, with what is on its way in the sockets.
Delivered(c) == Sort(got[c] \o toClient[c])

\* The stream of a connection is the answers to its requests, whole and in
\* order: no part of a file is lost, repeated or mixed with another answer,
\* and nothing but a file being read is left to be sent.
AnswersInOrder ==
    \A c \in Conns : Plain(c) /\ conns[c] # NULL /\ fin[c] # "gone" =>
        LET stream == Delivered(c) \o Sort(conns[c].send)
        IN  /\ IsPrefix(stream, Due(c))
            /\ conns[c].file.open \/ Len(stream) = Len(Due(c))

\* The server closes a connection only after the whole of the last answer, a
\* file still being read included, has left, unless the request was invalid.
ClosedAfterAnswers ==
    \A c \in Conns :
        Plain(c) /\ Closed(c) /\ fin[c] = "open" /\ Len(handled[c]) = sent[c] => Delivered(c) = Due(c)

\* However large the file, at most MG_MAX_HTTP_SEND_MBUF of it is buffered.
FileBounded ==
    \A c \in Conns : conns[c] # NULL =>
        Cardinality({i \in DOMAIN conns[c].send :
            script[c][conns[c].send[i].req].uri = "file" /\ conns[c].send[i].n > 1}) <= MaxSend

\* The numbers of likes of a diary a browser reads never fall, whichever site
\* the diary prefers and whoever likes it there, and its own like is in them.
LikesNeverFall ==
    \A c \in Conns : \A i, j \in DOMAIN got[c] :
        LET one == got[c][i]
            later == got[c][j]
        IN  /\ i < j /\ one.num >= 0 /\ later.num >= 0 /\ ~cut[c] /\ Plain(c)
            /\ script[c][one.req].diary = script[c][later.req].diary
            => later.num >= one.num + IF script[c][later.req].uri = "like" THEN 1 ELSE 0

\* The assert of mg_handle_chunked holds until a connection brings a second
\* chunked request.
AbortsOnSecondChunked == aborted => \E c \in Conns : ~Plain(c)

\* A request a browser has sent and waits for is answered, or the server
\* closes the connection; /printcontent answers nothing.
EveryRequestAnswered ==
    \A c \in Conns :
        (Plain(c) /\ sent[c] > 0 /\ script[c][sent[c]].uri # "printcontent")
            ~> (Answered(c, sent[c]) \/ Closed(c) \/ fin[c] # "open" \/ aborted)
=============================================================================
