----------------------------- MODULE RedisAsync -----------------------------
(***************************************************************************)
(* The asynchronous context of hiredis (async.c) under an event library: a *)
(* command joins the output buffer and its callback a list, the write and  *)
(* read events move bytes, and redisProcessCallbacks gives each reply to a *)
(* callback.  Callbacks run in the middle of that loop and may themselves  *)
(* issue commands, disconnect or free the context.  A command is its       *)
(* number, which stands for its callback too.                              *)
(***************************************************************************)
EXTENDS Integers, Sequences, FiniteSets, SequencesExt

CONSTANTS
    Channels,       \* channels commands may subscribe to
    NULL,           \* the reply of a callback whose command got none
    MaxCommands,    \* bound: commands accepted
    MaxPushed,      \* bound: messages and monitor lines Redis sends
    Careful         \* the application keeps to the rules of MayIssue

ASSUME ConstantsAssumption ==
    MaxCommands \in Nat /\ MaxPushed \in Nat /\ Careful \in BOOLEAN /\ IsFiniteSet(Channels)

Kind == {"regular", "subscribe", "unsubscribe", "monitor"}
NoCb == 0
Command == 1..MaxCommands
Flag == {"CONNECTED", "DISCONNECTING", "FREEING", "IN_CALLBACK", "SUBSCRIBED", "MONITORING"}

FreeLoop == {"freeReplies", "freeInvalid", "freeChannels"}
AnyChannel == CHOOSE c \in Channels : TRUE

TooManyClients == [type |-> "error", of |-> NoCb]

VARIABLES
    flags,      \* c->flags
    err,        \* c->err: "none" or its kind
    acErr,      \* ac->err, the copy the application and the status see
    obuf,       \* commands in the output buffer
    got,        \* whole replies in the reader
    replies,    \* ac->replies, callbacks of regular commands
    invalid,    \* ac->sub.invalid
    channels,   \* ac->sub.channels: the callback of a channel, NoCb for none
    addRead,    \* the event library watches for readability
    addWrite,   \* and for writability
    cb,         \* the local of redisProcessCallbacks, kept from reply to reply
    pc,         \* where the thread of the event loop is
    caller,     \* and the loop that the running callback returns to
    status,     \* what onDisconnect was called with, if it was
    asked,      \* auxiliary: the application has called redisAsyncDisconnect or Free
    cmds,       \* auxiliary: the commands accepted, whether in subscribed mode
    calls,      \* auxiliary: callbacks called and their replies
    sock,       \* "connecting", "up" or "refused"
    open,       \* Redis has not closed the connection
    wire,       \* commands written and not executed
    back,       \* replies sent and not read
    part,       \* the first of them has been read in part
    subs,       \* channels Redis holds subscribed for this connection
    monitored,  \* Redis sends it the commands of others
    pushed      \* messages and lines sent so far

lists == <<replies, invalid, channels>>
events == <<addRead, addWrite>>
control == <<cb, pc, caller, status, asked, calls>>
redis == <<sock, open, wire, back, part, subs, monitored, pushed>>
context == <<flags, err, acErr, obuf, got, lists, events, control, cmds>>
vars == <<context, redis>>

Reply ==
    [type : {"bulk", "error", "status"}, of : Command]
        \cup {TooManyClients, [type |-> "line"]}
        \cup [type : {"array"}, what : {"subscribe", "unsubscribe", "message"},
              channel : Channels, left : 0..Cardinality(Channels)]

ASSUME NullAssumption == NULL \notin Reply

TypeOK ==
    /\ flags \subseteq Flag
    /\ err \in {"none", "IO", "OTHER"} /\ acErr \in {"none", "IO", "OTHER"}
    /\ obuf \in Seq(Command) /\ wire \in Seq(Command)
    /\ got \in Seq(Reply) /\ back \in Seq(Reply)
    /\ replies \in Seq(Command \cup {NoCb}) /\ invalid \in Seq(Command)
    /\ channels \in [Channels -> Command \cup {NoCb}]
    /\ addRead \in BOOLEAN /\ addWrite \in BOOLEAN
    /\ cb \in Command \cup {NoCb}
    /\ pc \in {"idle", "process", "callback", "freed", "aborted"} \cup FreeLoop
    /\ caller \in {"process"} \cup FreeLoop
    /\ status \in {"none", "OK", "ERR"} /\ asked \in BOOLEAN
    /\ cmds \in Seq([kind : Kind, channel : Channels, subscribed : BOOLEAN]) /\ Len(cmds) <= MaxCommands
    /\ calls \in Seq([cb : Command, reply : Reply \cup {NULL}])
    /\ sock \in {"connecting", "up", "refused"}
    /\ open \in BOOLEAN /\ part \in BOOLEAN /\ monitored \in BOOLEAN
    /\ subs \subseteq Channels /\ pushed \in 0..MaxPushed

\* redisAsyncConnect has returned a context without an error, with or without
\* a connect callback, which asks for the first write event.
Init ==
    /\ flags = {} /\ err = "none" /\ acErr = "none"
    /\ obuf = <<>> /\ got = <<>> /\ replies = <<>> /\ invalid = <<>>
    /\ channels = [c \in Channels |-> NoCb]
    /\ addRead = FALSE /\ addWrite \in BOOLEAN
    /\ cb = NoCb /\ pc = "idle" /\ caller = "process" /\ status = "none" /\ asked = FALSE
    /\ cmds = <<>> /\ calls = <<>>
    /\ sock = "connecting" /\ open = TRUE /\ wire = <<>> /\ back = <<>> /\ part = FALSE
    /\ subs = {} /\ monitored = FALSE /\ pushed = 0

-----------------------------------------------------------------------------
\* Mutant of CopyError: ac->err keeps its value.
CopyError_Missing(e) == acErr

\* __redisAsyncCopyError
CopyError(e) == e

\* Mutant of DisconnectFlags: an error does not stop new commands.
DisconnectFlags_Open(f, e) == f

\* "make sure that pending callbacks cannot call new commands"
DisconnectFlags(f, e) == IF e = "none" THEN f ELSE f \cup {"DISCONNECTING"}

\* __redisAsyncDisconnect up to the call of __redisAsyncFree, with the flags f
\* and the error e: a clean disconnect asserts that no callback is pending.
Disconnect(f, e) ==
    /\ err' = e /\ acErr' = CopyError(e)
    /\ flags' = DisconnectFlags(f, e)
    /\ pc' = IF e = "none" /\ replies # <<>> THEN "aborted" ELSE "freeReplies"

\* __redisRunCallback calls the function of callback c.
RunCallback(c, reply, loop) ==
    /\ flags' = flags \cup {"IN_CALLBACK"}
    /\ calls' = Append(calls, [cb |-> c, reply |-> reply])
    /\ pc' = "callback" /\ caller' = loop

\* Mutant of FreeNow: a disconnect does not wait for the other replies.
FreeNow_Disconnecting == caller = "process" /\ flags \cap {"FREEING", "DISCONNECTING"} # {}

\* "Proceed with free'ing when redisAsyncFree() was called."
FreeNow == caller = "process" /\ "FREEING" \in flags

\* The function returns; redisProcessCallbacks then frees the context if
\* redisAsyncFree has been called.
CallbackReturns ==
    /\ pc = "callback"
    /\ flags' = flags \ {"IN_CALLBACK"}
    /\ pc' = IF FreeNow THEN "freeReplies" ELSE caller
    /\ UNCHANGED <<err, acErr, obuf, got, lists, events, cb, caller, status, asked, calls, cmds, redis>>

\* __redisAsyncFree calls the callbacks of replies, of invalid commands and of
\* channels with NULL, in three loops that do not go back.
InReplies == pc = "freeReplies" /\ replies # <<>>
InInvalid == pc = "freeInvalid" \/ (pc = "freeReplies" /\ replies = <<>>)
InChannels == pc = "freeChannels" \/ (InInvalid /\ invalid = <<>>)

FreeCallback ==
    /\ \/ /\ InReplies
          /\ replies' = Tail(replies)
          /\ IF Head(replies) = NoCb
             THEN UNCHANGED <<flags, calls, pc, caller>>
             ELSE RunCallback(Head(replies), NULL, "freeReplies")
          /\ UNCHANGED <<invalid, channels>>
       \/ /\ InInvalid /\ invalid # <<>>
          /\ invalid' = Tail(invalid)
          /\ RunCallback(Head(invalid), NULL, "freeInvalid")
          /\ UNCHANGED <<replies, channels>>
       \/ \E c \in Channels :
              /\ InChannels /\ channels[c] # NoCb
              /\ channels' = [channels EXCEPT ![c] = NoCb]
              /\ RunCallback(channels[c], NULL, "freeChannels")
              /\ UNCHANGED <<replies, invalid>>
    /\ UNCHANGED <<err, acErr, obuf, got, events, cb, status, asked, cmds, redis>>

\* The rest of it: the event library lets go, onDisconnect is called on a
\* context that had been connected, and the socket is closed.
FreeContext ==
    /\ InChannels /\ \A c \in Channels : channels[c] = NoCb
    /\ addRead' = FALSE /\ addWrite' = FALSE
    /\ status' = IF "CONNECTED" \notin flags THEN "none"
                 ELSE IF "FREEING" \in flags \/ acErr = "none" THEN "OK" ELSE "ERR"
    /\ pc' = "freed" /\ open' = FALSE
    /\ UNCHANGED <<flags, err, acErr, obuf, got, lists, cb, caller, asked, calls, cmds,
                   sock, wire, back, part, subs, monitored, pushed>>

-----------------------------------------------------------------------------
(***************************************************************************)
(* What the application calls, from outside or from a callback.            *)
(***************************************************************************)
Issued(kind) == \E n \in DOMAIN cmds : cmds[n].kind = kind

\* Commands Redis has not executed.
Outstanding == Range(obuf \o wire)

\* An UNSUBSCRIBE whose reply has not been handled.
Unsubscribing ==
    \/ \E n \in Outstanding : cmds[n].kind = "unsubscribe"
    \/ \E r \in Range(back \o got) : r.type = "array" /\ r.what = "unsubscribe"

\* The rules of a careful application, which nothing states and the assertions
\* need: it unsubscribes what it has subscribed, waits for the reply to an
\* UNSUBSCRIBE before the next command, and gives MONITOR a connection on which
\* nothing else is outstanding or follows.
MayIssue(kind, channel) ==
    /\ ~ Unsubscribing /\ ~ Issued("monitor")
    /\ kind = "unsubscribe" => channels[channel] # NoCb
    /\ kind = "monitor" =>
           /\ pc = "idle" /\ Outstanding = {} /\ back = <<>>
           /\ "SUBSCRIBED" \notin flags

\* Mutant of AddWrite: the write event is left as it is.
AddWrite_Not == addWrite

\* "Always schedule a write when the write buffer is non-empty"
AddWrite == TRUE

\* Mutant of NextCommand: the numbers start at 0.
NextCommand_Zero == Len(cmds)

NextCommand == Len(cmds) + 1

\* __redisAsyncCommand: where the callback goes depends on the command.
redisAsyncCommand(kind, channel) ==
    LET n == NextCommand
    IN  /\ pc \in {"idle", "callback"} /\ Len(cmds) < MaxCommands
        /\ flags \cap {"DISCONNECTING", "FREEING"} = {}
        /\ Careful => MayIssue(kind, channel)
        /\ cmds' = Append(cmds, [kind |-> kind, channel |-> channel,
                              subscribed |-> "SUBSCRIBED" \in flags])
        /\ obuf' = Append(obuf, n)
        /\ addWrite' = AddWrite
        /\ \/ /\ kind = "subscribe"
              /\ flags' = flags \cup {"SUBSCRIBED"}
              /\ channels' = [channels EXCEPT ![channel] = n]
              /\ UNCHANGED <<replies, invalid>>
           \/ /\ kind = "unsubscribe" /\ "SUBSCRIBED" \in flags
              /\ UNCHANGED <<flags, lists>>
           \/ /\ kind = "monitor"
              /\ flags' = flags \cup {"MONITORING"}
              /\ replies' = Append(replies, n)
              /\ UNCHANGED <<invalid, channels>>
           \/ /\ kind = "regular"
              /\ IF "SUBSCRIBED" \in flags
                 THEN invalid' = Append(invalid, n) /\ replies' = replies
                 ELSE replies' = Append(replies, n) /\ invalid' = invalid
              /\ UNCHANGED <<flags, channels>>
        /\ UNCHANGED <<err, acErr, got, addRead, control, redis>>

\* Mutant of Immediately: callbacks that are due are not waited for.
Immediately_Always(f) == "IN_CALLBACK" \notin f

\* Mutant of Immediately: it is always left to redisProcessCallbacks.
Immediately_Never(f) == FALSE

\* redisAsyncDisconnect: "we can only disconnect immediately when there are no
\* pending callbacks".
Immediately(f) == "IN_CALLBACK" \notin f /\ replies = <<>>

redisAsyncDisconnect ==
    /\ pc \in {"idle", "callback"} /\ "DISCONNECTING" \notin flags
    /\ asked' = TRUE
    /\ LET f == flags \cup {"DISCONNECTING"}
       IN  IF Immediately(f)
           THEN Disconnect(f, err)
           ELSE flags' = f /\ UNCHANGED <<err, acErr, pc>>
    /\ UNCHANGED <<obuf, got, lists, events, cb, caller, status, calls, cmds, redis>>

\* redisAsyncFree: in a callback only the flag is set.
redisAsyncFree ==
    /\ pc \in {"idle", "callback"} /\ "FREEING" \notin flags
    /\ asked' = TRUE
    /\ flags' = flags \cup {"FREEING"}
    /\ pc' = IF "IN_CALLBACK" \in flags THEN pc ELSE "freeReplies"
    /\ UNCHANGED <<err, acErr, obuf, got, lists, events, cb, caller, status, calls, cmds, redis>>

Application ==
    \/ \E kind \in Kind, channel \in Channels :
           (kind \in {"regular", "monitor"} => channel = AnyChannel) /\ redisAsyncCommand(kind, channel)
    \/ redisAsyncDisconnect \/ redisAsyncFree

-----------------------------------------------------------------------------
(***************************************************************************)
(* The events.  The first write event tells whether connect succeeded;     *)
(* reads are watched for only after that.                                  *)
(***************************************************************************)
\* __redisAsyncHandleConnect on a refused connection.
HandleConnectFails ==
    /\ pc = "idle" /\ addWrite /\ sock = "refused"
    /\ Disconnect(flags, "IO")
    /\ UNCHANGED <<obuf, got, lists, events, cb, caller, status, asked, calls, cmds, redis>>

\* redisAsyncHandleWrite: part of obuf is written, or an error shows that the
\* connection is gone; what a closed connection accepts is lost.
redisAsyncHandleWrite ==
    /\ pc = "idle" /\ addWrite /\ sock = "up"
    /\ LET f == flags \cup {"CONNECTED"}
       IN  \/ \E k \in 0..Len(obuf) :
                 /\ k = 0 => obuf = <<>>
                 /\ wire' = IF open THEN wire \o SubSeq(obuf, 1, k) ELSE wire
                 /\ obuf' = SubSeq(obuf, k + 1, Len(obuf))
                 /\ addWrite' = (obuf' # <<>>) /\ addRead' = TRUE
                 /\ flags' = f
                 /\ UNCHANGED <<err, acErr, pc>>
           \/ /\ obuf # <<>> /\ ~ open
              /\ Disconnect(f, "IO")
              /\ UNCHANGED <<obuf, wire, events>>
    /\ UNCHANGED <<got, lists, cb, caller, status, asked, calls, cmds,
                   sock, open, back, part, subs, monitored, pushed>>

\* redisAsyncHandleRead: some replies, the last perhaps in part, or the end of
\* the stream.
redisAsyncHandleRead ==
    /\ pc = "idle" /\ addRead
    /\ \/ \E k \in 0..Len(back) :
              /\ back # <<>>
              /\ got' = SubSeq(back, 1, k)
              /\ back' = SubSeq(back, k + 1, Len(back))
              /\ part' \in {p \in BOOLEAN : p => back' # <<>>}
              /\ k = 0 => part' /\ ~ part
              /\ pc' = "process" /\ cb' = NoCb
              /\ UNCHANGED <<flags, err, acErr>>
       \/ /\ back = <<>> /\ ~ open
          /\ Disconnect(flags, "IO")
          /\ UNCHANGED <<got, back, part, cb>>
    /\ UNCHANGED <<obuf, lists, events, caller, status, asked, calls, cmds,
                   sock, open, wire, subs, monitored, pushed>>

-----------------------------------------------------------------------------
(***************************************************************************)
(* redisProcessCallbacks, one reply at a time.                             *)
(***************************************************************************)
\* No more replies: time to disconnect, to keep the callback of a monitor, or
\* to wait for the next event.
Drained == obuf = <<>> /\ replies = <<>>

\* Mutant of Kept: every callback is put back.
Kept_Always == Append(replies, cb)

\* "If monitor mode, repush callback"
Kept == IF "MONITORING" \in flags THEN Append(replies, cb) ELSE replies

NoReply ==
    /\ pc = "process" /\ got = <<>>
    /\ IF "DISCONNECTING" \in flags /\ Drained
       THEN Disconnect(flags, err) /\ replies' = replies
       ELSE /\ replies' = Kept
            /\ pc' = "idle"
            /\ UNCHANGED <<flags, err, acErr>>
    /\ UNCHANGED <<obuf, got, invalid, channels, events, cb, caller, status, asked, calls, cmds, redis>>

\* The reply goes to callback c; without one it is dropped.
Deliver(c, f) ==
    /\ cb' = c /\ got' = Tail(got)
    /\ IF c = NoCb
       THEN flags' = f /\ UNCHANGED <<calls, pc, caller>>
       ELSE /\ flags' = f \cup {"IN_CALLBACK"}
            /\ calls' = Append(calls, [cb |-> c, reply |-> Head(got)])
            /\ pc' = "callback" /\ caller' = "process"

\* Pending regular callbacks come first.
RegularReply ==
    /\ pc = "process" /\ got # <<>> /\ replies # <<>>
    /\ replies' = Tail(replies)
    /\ Deliver(Head(replies), flags)
    /\ UNCHANGED <<err, acErr, obuf, invalid, channels, events, status, asked, cmds, redis>>

\* An error without a pending callback ends the connection.
SpontaneousError ==
    /\ pc = "process" /\ got # <<>> /\ replies = <<>> /\ Head(got).type = "error"
    /\ got' = Tail(got)
    /\ Disconnect(flags, "OTHER")
    /\ UNCHANGED <<obuf, lists, events, cb, caller, status, asked, calls, cmds, redis>>

\* "If this was the last unsubscribe message, revert to non-subscribe mode."
SubscribedAfter(r) ==
    IF r.what = "unsubscribe" /\ r.left = 0 THEN flags \ {"SUBSCRIBED"} ELSE flags

\* __redisGetSubscribeCallback; cb keeps its value when it finds nothing.
SubscribeCallback(r) ==
    \/ /\ r.type = "array" /\ channels[r.channel] # NoCb
       /\ Deliver(channels[r.channel], SubscribedAfter(r))
       /\ channels' = [channels EXCEPT ![r.channel] = IF r.what = "unsubscribe" THEN NoCb ELSE @]
       /\ invalid' = invalid
    \/ /\ r.type # "array" /\ invalid # <<>>
       /\ Deliver(Head(invalid), flags)
       /\ invalid' = Tail(invalid) /\ channels' = channels

\* A reply no callback is pending for, which asserts that the context "*must* be
\* subscribed or monitoring".
PushedReply ==
    LET r == Head(got)
        finds == IF r.type = "array" THEN channels[r.channel] # NoCb ELSE invalid # <<>>
    IN  /\ pc = "process" /\ got # <<>> /\ replies = <<>> /\ r.type # "error"
        /\ IF flags \cap {"SUBSCRIBED", "MONITORING"} = {}
           THEN pc' = "aborted" /\ UNCHANGED <<flags, got, invalid, channels, cb, caller, calls>>
           ELSE IF "SUBSCRIBED" \in flags /\ finds
           THEN SubscribeCallback(r)
           ELSE Deliver(cb, flags) /\ UNCHANGED <<invalid, channels>>
        /\ UNCHANGED <<err, acErr, obuf, replies, events, status, asked, cmds, redis>>

redisProcessCallbacks ==
    NoReply \/ RegularReply \/ SpontaneousError \/ PushedReply

Loop == redisProcessCallbacks \/ CallbackReturns \/ FreeCallback \/ FreeContext

-----------------------------------------------------------------------------
(***************************************************************************)
(* Redis and the network, until the context is freed, and only between the *)
(* events: while it handles one, the thread does not look at the socket    *)
(* again.  A Redis that has too many clients answers a new connection with *)
(* an error and closes it.                                                 *)
(***************************************************************************)
ConnectEnds ==
    /\ pc = "idle" /\ sock = "connecting"
    /\ \/ sock' \in {"up", "refused"} /\ UNCHANGED <<open, back>>
       \/ sock' = "up" /\ open' = FALSE /\ back' = <<TooManyClients>>
    /\ UNCHANGED <<context, wire, part, subs, monitored, pushed>>

\* In subscriber mode Redis refuses most regular commands.
Answer(n, r) ==
    LET kind == cmds[n].kind
        pubsub(held) == [type |-> "array", what |-> kind, channel |-> cmds[n].channel,
                         left |-> Cardinality(held)]
    IN  \/ kind = "regular" /\ r = [type |-> "bulk", of |-> n] /\ UNCHANGED <<subs, monitored>>
        \/ /\ kind \in {"regular", "monitor"} /\ subs # {}
           /\ r = [type |-> "error", of |-> n] /\ UNCHANGED <<subs, monitored>>
        \/ /\ kind = "monitor" /\ subs = {}
           /\ r = [type |-> "status", of |-> n]
           /\ monitored' = TRUE /\ subs' = subs
        \/ /\ kind = "subscribe"
           /\ subs' = subs \cup {cmds[n].channel} /\ monitored' = monitored
           /\ r = pubsub(subs')
        \/ /\ kind = "unsubscribe"
           /\ subs' = subs \ {cmds[n].channel} /\ monitored' = monitored
           /\ r = pubsub(subs')

Execute ==
    /\ pc = "idle" /\ open /\ wire # <<>>
    /\ wire' = Tail(wire)
    /\ \E r \in Reply : Answer(Head(wire), r) /\ back' = Append(back, r)
    /\ UNCHANGED <<context, sock, open, part, pushed>>

\* A message of a channel, or the command of another client.
Push ==
    /\ pc = "idle" /\ open /\ pushed < MaxPushed
    /\ pushed' = pushed + 1
    /\ \E r \in Reply :
          /\ \/ r.type = "array" /\ r.what = "message" /\ r.left = 0 /\ r.channel \in subs
             \/ r.type = "line" /\ monitored
          /\ back' = Append(back, r)
    /\ UNCHANGED <<context, sock, open, wire, part, subs, monitored>>

\* Redis goes away.  To lose the last replies it has sent would look to the
\* context like closing before them.
Close ==
    /\ pc = "idle" /\ open /\ sock = "up"
    /\ open' = FALSE /\ wire' = <<>>
    /\ UNCHANGED <<context, sock, back, part, subs, monitored, pushed>>

Redis == ConnectEnds \/ Execute \/ Push \/ Close

Next ==
    Application \/ HandleConnectFails \/ redisAsyncHandleWrite \/ redisAsyncHandleRead \/ Loop \/ Redis

Spec == Init /\ [][Next]_vars

\* The event library reports the events that are watched for, callbacks
\* return, the attempt to connect ends and Redis answers.
Fairness ==
    /\ WF_vars(Loop)
    /\ WF_vars(HandleConnectFails)
    /\ WF_vars(redisAsyncHandleWrite)
    /\ WF_vars(redisAsyncHandleRead)
    /\ WF_vars(ConnectEnds)
    /\ WF_vars(Execute)

FairSpec == Spec /\ Fairness

-----------------------------------------------------------------------------
RegularCommands == {n \in DOMAIN cmds : cmds[n].kind = "regular"}
CallsOf(n) == {i \in DOMAIN calls : calls[i].cb = n}

\* The assertions of async.c hold: line 464, "the context *must* be subscribed
\* or monitoring", and line 340, "there should be no pending callbacks".
AssertionsHold == pc # "aborted"

\* The callback of a regular command is called once, whatever fails and
\* whatever the callbacks before it do: never twice, and at the latest when
\* the context is freed.
CalledOnce ==
    \A n \in RegularCommands :
        /\ Cardinality(CallsOf(n)) <= 1
        /\ pc = "freed" => CallsOf(n) # {}

\* A callback gets what it waits for, or NULL: a regular one the reply to its
\* command or the error of a Redis that refuses the connection ("pending
\* regular callbacks will get a reply before pub/sub messages arrive"), a
\* subscription what concerns its channel, a monitor the lines.
OwnReply ==
    \A i \in DOMAIN calls :
        LET r == calls[i].reply
            c == cmds[calls[i].cb]
        IN  r \in {NULL, TooManyClients} \/
                CASE c.kind = "regular" -> r.type \in {"bulk", "error"} /\ r.of = calls[i].cb
                  [] c.kind = "monitor" -> r.type \in {"status", "line"}
                  [] OTHER -> r.type = "array" /\ r.channel = c.channel

\* README.md:330: redisAsyncDisconnect lets every command accepted outside the
\* subscribed mode have its reply first; its callback gets NULL only when the
\* connection fails or the application frees the context.
NullOnlyAfterFailure ==
    \A i \in DOMAIN calls :
        LET c == cmds[calls[i].cb]
        IN  calls[i].reply = NULL /\ c.kind = "regular" /\ ~ c.subscribed =>
                err # "none" \/ "FREEING" \in flags

\* README.md:277 of hiredis: every context that was connected has onDisconnect
\* called.  It is told REDIS_OK only if the application asked for the end, so
\* never of a connection that just failed, and REDIS_ERR only with the cause of a
\* failure in ac->err.  (Not that each failure is told as one: when the
\* connection fails and one of the callbacks called with NULL frees the context,
\* async.c:308 tells REDIS_OK.)
StatusTruthful ==
    pc = "freed" /\ "CONNECTED" \in flags =>
        /\ status # "none"
        /\ status = "OK" => asked
        /\ status = "ERR" => err # "none" /\ acErr = err

\* A regular command that was accepted has its callback called in the end.
EveryCallbackCalled ==
    \A n \in Command : (n \in RegularCommands) ~> (CallsOf(n) # {})

\* A context that is disconnected is freed in the end, after a MONITOR only
\* when the connection fails.
DisconnectCompletes ==
    ("DISCONNECTING" \in flags /\ ~ Issued("monitor")) ~> (pc = "freed")
=============================================================================
