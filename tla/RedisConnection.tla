--------------------------- MODULE RedisConnection ---------------------------
(***************************************************************************)
(* A blocking redisContext of hiredis (hiredis.c) and the threads that     *)
(* issue commands on it: redis_cli_master is used by the HTTP thread of    *)
(* the server alone, redis_cli by it and the replicater.  A command is its *)
(* number and is written as a whole; the bytes of the replies arrive in    *)
(* arbitrary pieces and go through the parser of RedisReader.              *)
(***************************************************************************)
EXTENDS RedisReader

CONSTANTS
    Threads,        \* the threads that share the context
    Answers,        \* the replies of Redis to the commands 1, 2, ...
    MaxConns        \* bound: connections made by redisReconnect

ASSUME MaxAssumption == MaxConns \in Nat

MaxCommands == Len(Answers)
Command == 1..MaxCommands
Conn == 0..MaxConns

(***************************************************************************)
(* Replies: the objects of one reply in the order RESP writes them, each   *)
(* with its place, the indices of the elements that hold it.  text is what *)
(* a line or bulk string holds, the number of elements of an array ("*"),  *)
(* or the type of a nil.                                                   *)
(***************************************************************************)

\* The RESP protocol, as Redis writes it.
EncodeObject(o) ==
    CASE o.type \in {"+", "-", ":", "*"} -> <<o.type>> \o o.text \o <<"CR", "LF">>
      [] o.type = "$" -> <<"$", ToString(Len(o.text)), "CR", "LF">> \o o.text \o <<"CR", "LF">>
      [] o.type = "nil" -> o.text \o <<"-", "1", "CR", "LF">>

Encode(v) == FlattenSeq([i \in DOMAIN v |-> EncodeObject(v[i])])

\* Redis answers each command with bytes.
ASSUME AnswersAssumption ==
    Answers \in Seq(Range(Answers)) /\ \A n \in DOMAIN Answers : Encode(Answers[n]) \in Seq(STRING)

\* What the reader creates of it.
Objects(v) ==
    [i \in DOMAIN v |->
        [path |-> v[i].path,
         value |-> IF v[i].type = "nil" THEN <<"nil">> ELSE <<v[i].type>> \o v[i].text]]

\* How deep the arrays of a reply are nested.
Depth(v) ==
    LET arrays == {i \in DOMAIN v : v[i].type = "*" \/ (v[i].type = "nil" /\ v[i].text = <<"*">>)}
    IN  Max({0} \cup {Len(v[i].path) + 1 : i \in arrays})

VARIABLES
    obuf,       \* c->obuf, not yet written
    reader,     \* c->reader
    err,        \* c->err: "none" or the kind of the error
    conn,       \* connections made so far by redisReconnect: the current one
    open,       \* Redis has not closed its end of the connection
    wire,       \* wire[c]: commands written to connection c and not executed by Redis
    back,       \* bytes sent by Redis on the current connection and not read
    pc,         \* pc[t]: where t stands in redisCommand
    pending,    \* pending[t]: the commands t has issued and has no reply to
    issued,     \* commands issued so far
    executed,   \* auxiliary: the commands Redis has executed of each connection, in order
    results     \* auxiliary: what redisCommand returned, in order

client == <<obuf, reader, err, conn, pc, pending, issued, results>>
redis == <<open, wire, back, executed>>
vars == <<client, redis>>

TypeOK ==
    /\ obuf \in Seq(Command)
    /\ wire \in [Conn -> Seq(Command)] /\ executed \in [Conn -> Seq(Command)]
    /\ reader.buf \in Seq(STRING) /\ reader.pos \in 0..Len(reader.buf) /\ Len(reader.stack) <= TaskLimit
    /\ back \in Seq(STRING)
    /\ err \in {"none", "IO", "PROTOCOL"} /\ open \in BOOLEAN
    /\ conn \in Conn /\ issued \in 0..MaxCommands
    /\ pc \in [Threads -> {"idle", "reader", "write", "read"}]
    /\ pending \in [Threads -> Seq(Command)]
    /\ results \in Seq([cmd : Command, reply : {Objects(Answers[n]) : n \in Command} \cup {NULL},
                        why : {"none", "IO", "PROTOCOL"}, last : Command, conn : Conn])

\* redisConnectWithTimeout has succeeded: redis_init exits otherwise.
Init ==
    /\ obuf = <<>> /\ reader = redisReaderCreate /\ err = "none" /\ conn = 0
    /\ open = TRUE /\ back = <<>>
    /\ wire = [c \in Conn |-> <<>>] /\ executed = [c \in Conn |-> <<>>]
    /\ pc = [t \in Threads |-> "idle"] /\ pending = [t \in Threads |-> <<>>]
    /\ issued = 0 /\ results = <<>>

-----------------------------------------------------------------------------
\* redisGetReply returns to its caller.  Kept with the reply: the error, the
\* command issued last and the connection.
Return(t, reply, why) ==
    /\ results' = Append(results,
                       [cmd |-> Head(pending[t]), reply |-> reply, why |-> why, last |-> issued,
                        conn |-> conn])
    /\ pending' = [pending EXCEPT ![t] = Tail(@)]
    /\ pc' = [pc EXCEPT ![t] = "idle"]

\* __redisSetError, and the NULL __redisBlockForReply makes of it.
Fail(t, why) == err' = why /\ Return(t, NULL, why)

\* Mutant of Failed: an earlier error is not looked at.
Failed_Never == FALSE

Failed == err # "none"

\* Mutant of NextCommand: the numbers start at 0.
NextCommand_Zero == issued

NextCommand == issued + 1

\* A command joins the output buffer, error or not: first half of redisCommand,
\* or redisAppendCommand of a caller that collects the replies later.
redisAppendCommand(t) ==
    /\ pc[t] = "idle" /\ issued < MaxCommands
    /\ issued' = issued + 1
    /\ pending' = [pending EXCEPT ![t] = Append(@, NextCommand)]
    /\ obuf' = Append(obuf, NextCommand)
    /\ UNCHANGED <<reader, err, conn, pc, results, redis>>

\* Second half of redisCommand, called for a reply that is due.
redisGetReply(t) ==
    /\ pc[t] = "idle" /\ pending[t] # <<>>
    /\ pc' = [pc EXCEPT ![t] = "reader"]
    /\ UNCHANGED <<obuf, reader, err, conn, pending, issued, results, redis>>

\* Hands over the reply the reader has got, goes on at `else` when it has none.
TakeReply(t, got, else) ==
    /\ reader' = got.reader
    /\ \/ /\ got.reader.err
          /\ Fail(t, "PROTOCOL")
       \/ /\ ~ got.reader.err /\ got.reply # NULL
          /\ Return(t, got.reply, "none")
          /\ err' = err
       \/ /\ ~ got.reader.err /\ got.reply = NULL
          /\ pc' = [pc EXCEPT ![t] = else]
          /\ UNCHANGED <<err, pending, results>>

\* It looks for a reply in the reader first.
redisGetReplyFromReader(t) ==
    /\ pc[t] = "reader"
    /\ TakeReply(t, redisReaderGetReply(reader), "write")
    /\ UNCHANGED <<obuf, conn, issued, redis>>

\* Mutant of Unwritten: a short write leaves the buffer as it is.
Unwritten_All(n) == IF n = Len(obuf) THEN <<>> ELSE obuf

\* What sdsrange leaves of obuf after a write of n commands.
Unwritten(n) == SubSeq(obuf, n + 1, Len(obuf))

\* "Return early when the context has seen an error."
EarlyReturn(t) ==
    /\ pc[t] \in {"write", "read"} /\ Failed
    /\ Return(t, NULL, err)
    /\ UNCHANGED <<obuf, reader, err, conn, issued, redis>>

\* One write of redisBufferWrite: all of obuf, a part of it, or an error.  A
\* connection Redis has closed may accept the bytes all the same.
redisBufferWrite(t) ==
    /\ pc[t] = "write" /\ ~ Failed
    /\ \/ /\ obuf = <<>>
          /\ pc' = [pc EXCEPT ![t] = "read"]
          /\ UNCHANGED <<obuf, err, wire, pending, results>>
       \/ /\ obuf # <<>>
          /\ \E n \in 1..Len(obuf) :
                /\ wire' = IF open THEN [wire EXCEPT ![conn] = @ \o SubSeq(obuf, 1, n)] ELSE wire
                /\ obuf' = Unwritten(n)
                /\ pc' = [pc EXCEPT ![t] = IF obuf' = <<>> THEN "read" ELSE "write"]
          /\ UNCHANGED <<err, pending, results>>
       \/ /\ obuf # <<>>
          /\ Fail(t, "IO")
          /\ UNCHANGED <<obuf, wire>>
    /\ UNCHANGED <<reader, conn, issued, open, back, executed>>

\* One turn of reading until there is a reply: some bytes are fed to the
\* reader, or the stream ends or the timeout of the socket does the wait.
redisBufferRead(t) ==
    /\ pc[t] = "read" /\ ~ Failed
    /\ \/ \E n \in 1..Len(back) :
              /\ TakeReply(t, redisReaderGetReply(redisReaderFeed(reader, SubSeq(back, 1, n))), "read")
              /\ back' = SubSeq(back, n + 1, Len(back))
       \/ /\ back = <<>>
          /\ Fail(t, "IO")
          /\ UNCHANGED <<reader, back>>
    /\ UNCHANGED <<obuf, conn, issued, open, wire, executed>>

\* redisReconnect: a new socket and empty buffers.  What was written to the old
\* one is still on its way, and the new one may be refused.
redisReconnect ==
    /\ conn < MaxConns /\ Failed
    /\ \A t \in Threads : pc[t] = "idle" /\ pending[t] = <<>>
    /\ conn' = conn + 1
    /\ obuf' = <<>> /\ reader' = redisReaderCreate /\ back' = <<>>
    /\ err' \in {"none", "IO"} /\ open' = (err' = "none")
    /\ UNCHANGED <<pc, pending, issued, results, wire, executed>>

\* Redis executes the commands of a connection in order and replies to each; it
\* serves the connections independently, an old one also after a later one.
Execute(c) ==
    /\ wire[c] # <<>>
    /\ executed' = [executed EXCEPT ![c] = Append(@, Head(wire[c]))]
    /\ wire' = [wire EXCEPT ![c] = Tail(@)]
    /\ back' = IF c = conn THEN back \o Encode(Answers[Head(wire[c])]) ELSE back
    /\ UNCHANGED <<open, client>>

\* Redis goes away, and the replies it has sent may be lost with it; or it
\* finds an old connection closed before it has read all of it.
Close(c) ==
    /\ \/ /\ c = conn /\ open /\ open' = FALSE
          /\ \E n \in 0..Len(back) : back' = SubSeq(back, 1, n)
       \/ /\ c < conn /\ wire[c] # <<>>
          /\ UNCHANGED <<open, back>>
    /\ wire' = [wire EXCEPT ![c] = <<>>]
    /\ UNCHANGED <<executed, client>>

redisCommand(t) ==
    \/ redisAppendCommand(t) \/ redisGetReply(t) \/ redisGetReplyFromReader(t)
    \/ EarlyReturn(t) \/ redisBufferWrite(t) \/ redisBufferRead(t)

Next ==
    \/ \E t \in Threads : redisCommand(t)
    \/ redisReconnect
    \/ \E c \in Conn : Execute(c) \/ Close(c)

Spec == Init /\ [][Next]_vars

-----------------------------------------------------------------------------
\* redisCommand hands a thread the reply to its own command, whole, or NULL, also
\* after a timeout whose late answer is still on its way, and after a
\* reconnection.
ReplyIsOwn ==
    \A i \in DOMAIN results :
        results[i].reply \in {Objects(Answers[results[i].cmd]), NULL}

\* A reply whose bytes have all arrived is handed over: a thread never waits
\* for one that sits in the reader.
ReplyNotStuck ==
    \A t \in Threads :
        pc[t] = "read" /\ open /\ wire[conn] = <<>> /\ back = <<>> =>
            ~ Contains(executed[conn], Head(pending[t]))

\* What Redis sends is refused for one reason, arrays nested too deep,
\* wherever the bytes are cut.
OnlyDepthRefused ==
    \A i \in DOMAIN results : results[i].why = "PROTOCOL" =>
        \E j \in 1..i : results[j].conn = results[i].conn /\ Depth(Answers[results[j].cmd]) >= TaskLimit

\* No command is executed twice, on the connection it was written to or another,
\* whatever part of a buffer was written; and of one connection none overtakes an
\* earlier one.  After redisReconnect Redis may still execute commands of the
\* old connection, behind those of the new one.
ExecutedInOrder ==
    \A c, d \in Conn : \A i \in DOMAIN executed[c], j \in DOMAIN executed[d] :
        /\ executed[c][i] = executed[d][j] => c = d
        /\ c = d /\ i < j => executed[c][i] < executed[d][j]

\* README.md:106, "Once an error is returned the context cannot be reused": the
\* commands after a failed one fail until redisReconnect, and Redis executes
\* none that is issued after it, on that connection or the next.
FailureSticks ==
    \A i, j \in DOMAIN results :
        i < j /\ results[i].conn = results[j].conn /\ results[i].reply = NULL =>
            /\ results[j].reply = NULL
            /\ results[j].cmd > results[i].last =>
                   \A c \in Conn : ~ Contains(executed[c], results[j].cmd)
=============================================================================
