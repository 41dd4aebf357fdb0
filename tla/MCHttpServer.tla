----------------------------- MODULE MCHttpServer -----------------------------
(***************************************************************************)
(* Instances of HttpServer: site 0 serves diary 2, which it prefers, and   *)
(* diary 1, which the other site does.                                     *)
(***************************************************************************)
EXTENDS HttpServer

CONSTANTS c1, c2, listener

Post(id, uri, diary, enc, body) ==
    [id |-> id, uri |-> uri, diary |-> diary, method |-> "POST", connection |-> "none",
     enc |-> enc, lines |-> 1, body |-> body, waits |-> TRUE]
Get(id, uri, connection) ==
    [id |-> id, uri |-> uri, diary |-> 1, method |-> "GET", connection |-> connection,
     enc |-> "none", lines |-> 1, body |-> <<>>, waits |-> TRUE]

\* The other site's diary: its likes and one more, then a file.
Page == <<Post(1, "get_like", 1, "length", <<1>>), Post(2, "like", 1, "length", <<2>>), Get(3, "file", "none")>>
Files == <<Get(1, "file", "keep-alive"), Get(2, "file", "close")>>
Chunked == <<Post(1, "like", 2, "chunked", <<1, 1>>), Post(2, "diary", 2, "length", <<2>>), Get(3, "missing", "none")>>
SecondChunked == <<Post(1, "like", 2, "chunked", <<2>>), Post(2, "like", 2, "chunked", <<1>>)>>
Bad == <<Get(1, "malformed", "none")>>
Long == <<[Get(1, "file", "none") EXCEPT !.lines = 5]>>
Silent == <<Post(1, "printcontent", 1, "length", <<1>>)>>

\* Requests made without waiting for the answers.
Pipelined(requests) == [k \in DOMAIN requests |-> [requests[k] EXCEPT !.waits = FALSE]]
Likes == Pipelined(<<Post(1, "like", 1, "length", <<1>>), Post(2, "like", 2, "length", <<1>>)>>)
TwoFiles == Pipelined(<<Get(1, "file", "none"), Get(2, "file", "none")>>)

MCScripts ==
    c1 :> {Page, Files, Chunked, SecondChunked, Bad, Long, Silent, Likes, TwoFiles}
    @@ c2 :> {<<Post(1, "like", 1, "length", <<1>>)>>}
===============================================================================
