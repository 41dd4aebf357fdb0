----------------------------- MODULE HttpRequest -----------------------------
(***************************************************************************)
(* What mongoose.c makes of the bytes of a connection: the length of a     *)
(* request head, of the whole message, and the reassembly of a chunked     *)
(* body.  A buffer is a sequence of units [kind, req, n], the pieces the   *)
(* code tells apart: a header "line", the blank "end" of a head, the       *)
(* "size" line of a chunk of n bytes, the "crlf" after its data, the n-th  *)
(* unit of "data" of the body, and "bad", an unprintable byte.  A request  *)
(* has the fields uri, diary, method, connection (its Connection header),  *)
(* enc (length, chunked or none), lines, body (the sizes of its chunks;    *)
(* one, unless it is chunked) and waits: it is made only when the requests *)
(* before it have been answered.                                           *)
(***************************************************************************)
EXTENDS Integers, SequencesExt

\* Length of a body that ends with the connection, (size_t) ~0: no number of
\* units received reaches it.
Endless == -1

\* The sum of the first k chunk sizes.
BodyUpTo(req, k) ==
    LET upTo[i \in 0..Len(req.body)] == IF i = 0 THEN 0 ELSE upTo[i - 1] + req.body[i]
    IN  upTo[k]

BodyLen(req) == BodyUpTo(req, Len(req.body))

\* The body of a request, and what a client writes of it.
Body(req) == [i \in 1..BodyLen(req) |-> [kind |-> "data", req |-> req, n |-> i]]

Chunk(req, from, size) ==
    <<[kind |-> "size", req |-> req, n |-> size]>> \o SubSeq(Body(req), from + 1, from + size)
        \o <<[kind |-> "crlf", req |-> req, n |-> 0]>>

EncodedBody(req) ==
    IF req.enc = "chunked"
    THEN FlattenSeq([k \in DOMAIN req.body |-> Chunk(req, BodyUpTo(req, k - 1), req.body[k])])
             \o Chunk(req, BodyLen(req), 0)
    ELSE Body(req)

Encoded(req) ==
    [i \in 1..req.lines |-> [kind |-> IF req.uri = "malformed" THEN "bad" ELSE "line",
                             req |-> req, n |-> i]]
        \o <<[kind |-> "end", req |-> req, n |-> 0]>> \o EncodedBody(req)

-----------------------------------------------------------------------------
\* -1 if the head is malformed, 0 if it is not all there, else its length.
mg_http_get_request_len(buf) ==
    LET i == SelectInSeq(buf, LAMBDA u : u.kind \in {"bad", "end"})
    IN  IF i = 0 THEN 0 ELSE IF buf[i].kind = "bad" THEN -1 ELSE i

\* hm->message.len after the headers: Content-Length, or the end of the
\* connection for a method that has a body.
message_len(req, len) ==
    IF req.enc = "length" THEN len + BodyLen(req)
    ELSE IF req.method \in {"PUT", "POST"} THEN Endless ELSE len

\* The http_message of what is buffered; len is the length of the head.
mg_parse_http(buf) ==
    LET len == mg_http_get_request_len(buf)
    IN  IF len <= 0 THEN [len |-> len]
        ELSE [len |-> len, req |-> buf[1].req, message |-> message_len(buf[1].req, len)]

\* The length of the chunk that starts after the first i units, 0 unless all
\* of it is there.
mg_http_parse_chunk(buf, i) ==
    LET ends == i + buf[i + 1].n + 2
    IN  IF /\ i < Len(buf) /\ buf[i + 1].kind = "size"
           /\ ends <= Len(buf) /\ buf[ends].kind = "crlf"
        THEN ends - i ELSE 0

\* The loop of mg_handle_chunked over the chunks after the body reassembled so
\* far: where it stops, the data it collapses, and whether it met the last.
Reassembled(buf, bodyLen) ==
    LET scan[i \in bodyLen..Len(buf)] ==
            LET n == mg_http_parse_chunk(buf, i)
            IN  IF n = 0 THEN [at |-> i, data |-> <<>>, zero |-> FALSE]
                ELSE IF n = 2 THEN [at |-> i + 2, data |-> <<>>, zero |-> TRUE]
                ELSE LET rest == scan[i + n]
                     IN  [rest EXCEPT !.data = SubSeq(buf, i + 2, i + n - 1) \o @]
    IN  scan[bodyLen]

\* Mutant of mg_handle_chunked: what was parsed is remembered, not what it left.
HandleChunked_Raw(buf, bodyLen, hm) ==
    LET seen == Reassembled(buf, bodyLen)
        body == SubSeq(buf, 1, bodyLen) \o seen.data
        unparsed == SubSeq(buf, seen.at + 1, Len(buf))
    IN  [buf |-> body \o unparsed, bodyLen |-> seen.at,
         hm |-> IF seen.zero THEN [hm EXCEPT !.message = Len(body) + Len(unparsed) + hm.len] ELSE hm]

\* The buffer after the head, the length of the body in it (pd->chunk.body_len)
\* and hm, when buf is what follows the head of hm.
mg_handle_chunked(buf, bodyLen, hm) ==
    LET seen == Reassembled(buf, bodyLen)
        body == SubSeq(buf, 1, bodyLen) \o seen.data
        unparsed == SubSeq(buf, seen.at + 1, Len(buf))
    IN  IF seen.at = bodyLen THEN [buf |-> buf, bodyLen |-> bodyLen, hm |-> hm]
        ELSE [buf |-> body \o unparsed, bodyLen |-> Len(body),
              hm |-> IF seen.zero
                     THEN [hm EXCEPT !.message = Len(body) + Len(unparsed) + hm.len] ELSE hm]
=============================================================================
