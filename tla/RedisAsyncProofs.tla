-------------------------- MODULE RedisAsyncProofs --------------------------
(***************************************************************************)
(* The asynchronous context of hiredis: types, what onDisconnect is told,  *)
(* NULL only after a failure, and, for an application that keeps to the    *)
(* rules of MayIssue, the assertions of async.c, one call per callback and *)
(* the right reply for each.                                               *)
(***************************************************************************)
EXTENDS RedisAsync, RisingSequences, FiniteSetTheorems

-----------------------------------------------------------------------------
(***************************************************************************)
(* Replies, and the steps of the system one by one.                        *)
(***************************************************************************)
\* Answers to one regular command or MONITOR, and answers of subscriptions.
Num(r) == r.type \in {"bulk", "error", "status"} /\ r.of # NoCb
Arr(r) == r.type = "array"
Unsub(r) == Arr(r) /\ r.what = "unsubscribe"

LEMMA ReplyKinds ==
    ASSUME NEW r \in Reply
    PROVE  /\ r.type \in {"bulk", "error", "status", "line", "array"}
           /\ Num(r) => r.of \in Command /\ r # TooManyClients
           /\ Arr(r) => /\ r.channel \in Channels
                        /\ r.what \in {"subscribe", "unsubscribe", "message"}
                        /\ r.left \in Nat
           /\ r.type = "bulk" => Num(r)
           /\ r.type = "error" => Num(r) \/ r = TooManyClients
           /\ r # NULL
<1>1. r # NULL
  BY NullAssumption
<1>2. IsFiniteSet(Channels) /\ Cardinality(Channels) \in Nat
  BY ConstantsAssumption, FS_CardinalityType
<1>3. 0..Cardinality(Channels) \subseteq Nat
  BY <1>2
<1>4. CASE r \in [type : {"bulk", "error", "status"}, of : Command]
  <2>1. r.type \in {"bulk", "error", "status"} /\ r.of \in Command /\ r.of # NoCb
    BY <1>4 DEF Command, NoCb
  <2>2. r # TooManyClients
    BY <2>1 DEF TooManyClients
  <2>. QED
    BY <1>1, <2>1, <2>2 DEF Num, Arr
<1>5. CASE r = TooManyClients
  BY <1>1, <1>5 DEF TooManyClients, Num, Arr
<1>6. CASE r = [type |-> "line"]
  <2>1. r.type = "line"
    BY <1>6
  <2>. QED
    BY <1>1, <2>1 DEF Num, Arr
<1>7. CASE r \in [type : {"array"}, what : {"subscribe", "unsubscribe", "message"},
                  channel : Channels, left : 0..Cardinality(Channels)]
  <2>1. /\ r.type = "array" /\ r.what \in {"subscribe", "unsubscribe", "message"}
        /\ r.channel \in Channels /\ r.left \in 0..Cardinality(Channels)
    BY <1>7
  <2>. QED
    BY <1>1, <1>3, <2>1 DEF Num, Arr
<1>. QED
  BY <1>4, <1>5, <1>6, <1>7 DEF Reply

LEMMA CommandNumbers ==
    /\ MaxCommands \in Nat /\ Command \subseteq Nat /\ NoCb \notin Command
    /\ \A n \in Nat : n < MaxCommands => n + 1 \in Command
BY ConstantsAssumption DEF Command, NoCb

LEMMA HeadTail ==
    ASSUME NEW S, NEW s \in Seq(S), s # <<>>
    PROVE  /\ Head(s) \in S /\ Tail(s) \in Seq(S)
           /\ Head(s) \in Range(s) /\ Range(Tail(s)) \subseteq Range(s)
           /\ Range(s) = Range(Tail(s)) \cup {Head(s)}
<1>1. Len(s) \in Nat /\ Len(s) >= 1 /\ DOMAIN s = 1..Len(s) /\ s[1] = Head(s) /\ s[1] \in S
  BY EmptySeq, LenProperties, ElementOfSeq
<1>2. /\ Tail(s) \in Seq(S) /\ DOMAIN Tail(s) = 1..(Len(s) - 1)
      /\ \A i \in 1..(Len(s) - 1) : Tail(s)[i] = s[i + 1]
  BY HeadTailProperties, LenProperties
<1>3. PICK t : t = Tail(s)
  OBVIOUS
<1>4. DOMAIN t = 1..(Len(s) - 1) /\ \A i \in 1..(Len(s) - 1) : t[i] = s[i + 1]
  BY <1>2, <1>3
<1>5. Head(s) \in Range(s)
  BY <1>1 DEF Range
<1>6. Range(t) \subseteq Range(s)
  <2>1. ASSUME NEW i \in DOMAIN t PROVE t[i] \in Range(s)
    <3>1. i + 1 \in DOMAIN s /\ t[i] = s[i + 1]
      BY <1>1, <1>4
    <3>. QED
      BY <3>1 DEF Range
  <2>. QED
    BY <2>1 DEF Range
<1>7. ASSUME NEW x \in Range(s) PROVE x \in Range(t) \cup {Head(s)}
  <2>1. PICK i \in DOMAIN s : s[i] = x
    BY DEF Range
  <2>2. CASE i = 1
    BY <1>1, <2>1, <2>2
  <2>3. CASE i # 1
    <3>1. i - 1 \in DOMAIN t /\ t[i - 1] = s[(i - 1) + 1] /\ (i - 1) + 1 = i
      BY <1>1, <1>4, <2>3
    <3>2. t[i - 1] = x
      BY <2>1, <3>1
    <3>. QED
      BY <3>1, <3>2 DEF Range
  <2>. QED
    BY <2>2, <2>3
<1>. QED
  BY <1>1, <1>2, <1>3, <1>5, <1>6, <1>7

\* The steps that issue no command.
Step ==
    \/ redisAsyncDisconnect \/ redisAsyncFree \/ HandleConnectFails
    \/ redisAsyncHandleWrite \/ redisAsyncHandleRead
    \/ NoReply \/ RegularReply \/ SpontaneousError \/ PushedReply
    \/ CallbackReturns \/ FreeCallback \/ FreeContext
    \/ ConnectEnds \/ Execute \/ Push \/ Close

LEMMA Steps ==
    ASSUME [Next]_vars
    PROVE  \/ UNCHANGED vars
           \/ \E kind \in Kind, channel \in Channels : redisAsyncCommand(kind, channel)
           \/ Step
BY DEF Next, Application, Loop, redisProcessCallbacks, Redis, Step

LEMMA StepKeepsCommands ==
    ASSUME Step
    PROVE  cmds' = cmds
BY DEF Step, redisAsyncDisconnect, redisAsyncFree, HandleConnectFails, redisAsyncHandleWrite,
       redisAsyncHandleRead, NoReply, RegularReply, SpontaneousError, PushedReply, CallbackReturns,
       FreeCallback, FreeContext, ConnectEnds, Execute, Push, Close, context, redis

-----------------------------------------------------------------------------
(***************************************************************************)
(* Types.                                                                  *)
(***************************************************************************)
LEMMA TypeInit ==
    ASSUME Init
    PROVE  TypeOK
<1>1. /\ \A S : <<>> \in Seq(S)
      /\ Len(<<>>) = 0 /\ 0 <= MaxCommands /\ 0 \in 0..MaxPushed
  BY EmptySeq, ConstantsAssumption
<1>2. channels \in [Channels -> Command \cup {NoCb}]
  BY DEF Init
<1>. QED
  BY <1>1, <1>2 DEF Init, TypeOK, FreeLoop

LEMMA DisconnectType ==
    ASSUME TypeOK, NEW f \in SUBSET Flag, NEW e \in {"none", "IO", "OTHER"}, Disconnect(f, e)
    PROVE  /\ err' \in {"none", "IO", "OTHER"} /\ acErr' \in {"none", "IO", "OTHER"}
           /\ flags' \subseteq Flag /\ pc' \in {"aborted", "freeReplies"}
BY DEF Disconnect, CopyError, DisconnectFlags, Flag

LEMMA CallType ==
    ASSUME TypeOK, NEW c \in Command, NEW r \in Reply \cup {NULL}
    PROVE  Append(calls, [cb |-> c, reply |-> r]) \in Seq([cb : Command, reply : Reply \cup {NULL}])
<1>1. calls \in Seq([cb : Command, reply : Reply \cup {NULL}])
  BY DEF TypeOK
<1>2. PICK x \in [cb : Command, reply : Reply \cup {NULL}] : x = [cb |-> c, reply |-> r]
  OBVIOUS
<1>. QED
  BY <1>1, <1>2, AppendProperties

LEMMA DeliverType ==
    ASSUME TypeOK, got # <<>>, NEW c \in Command \cup {NoCb}, NEW f \in SUBSET Flag, Deliver(c, f)
    PROVE  /\ cb' \in Command \cup {NoCb} /\ got' \in Seq(Reply) /\ flags' \subseteq Flag
           /\ calls' \in Seq([cb : Command, reply : Reply \cup {NULL}])
           /\ pc' \in {pc, "callback"} /\ caller' \in {caller, "process"}
<1>1. got \in Seq(Reply) /\ Head(got) \in Reply /\ Tail(got) \in Seq(Reply)
  BY HeadTail DEF TypeOK
<1>2. calls \in Seq([cb : Command, reply : Reply \cup {NULL}])
  BY DEF TypeOK
<1>3. c # NoCb => Append(calls, [cb |-> c, reply |-> Head(got)]) \in Seq([cb : Command, reply : Reply \cup {NULL}])
  BY <1>1, CallType
<1>. QED
  BY <1>1, <1>2, <1>3 DEF Deliver, Flag

LEMMA RunType ==
    ASSUME TypeOK, NEW c \in Command, NEW loop \in FreeLoop, RunCallback(c, NULL, loop)
    PROVE  /\ flags' \subseteq Flag /\ pc' = "callback" /\ caller' \in {"process"} \cup FreeLoop
           /\ calls' \in Seq([cb : Command, reply : Reply \cup {NULL}])
<1>1. Append(calls, [cb |-> c, reply |-> NULL]) \in Seq([cb : Command, reply : Reply \cup {NULL}])
  BY CallType
<1>2. flags \subseteq Flag
  BY DEF TypeOK
<1>. QED
  BY <1>1, <1>2 DEF RunCallback, Flag

LEMMA TypeCommand ==
    ASSUME TypeOK, NEW kind \in Kind, NEW channel \in Channels, redisAsyncCommand(kind, channel)
    PROVE  TypeOK'
<1>. DEFINE n == NextCommand
            C == [kind : Kind, channel : Channels, subscribed : BOOLEAN]
            e == [kind |-> kind, channel |-> channel, subscribed |-> "SUBSCRIBED" \in flags]
<1>1. n \in Command /\ Len(cmds) \in Nat /\ n = Len(cmds) + 1 /\ n <= MaxCommands
  BY CommandNumbers, ConstantsAssumption DEF TypeOK, redisAsyncCommand, NextCommand
<1>2. PICK x \in C : x = e
  <2>1. e \in C
    OBVIOUS
  <2>. HIDE DEF e, C
  <2>. QED
    BY <2>1
<1>3. /\ Append(cmds, x) \in Seq(C) /\ Len(Append(cmds, x)) = n
      /\ Append(obuf, n) \in Seq(Command)
      /\ Append(replies, n) \in Seq(Command \cup {NoCb})
      /\ Append(invalid, n) \in Seq(Command)
      /\ [channels EXCEPT ![channel] = n] \in [Channels -> Command \cup {NoCb}]
  BY <1>1, <1>2, AppendProperties DEF TypeOK
<1>4. cmds' = Append(cmds, x) /\ obuf' = Append(obuf, n)
  BY <1>2 DEF redisAsyncCommand
<1>. HIDE DEF n, C, e
<1>5. cmds' \in Seq(C) /\ Len(cmds') <= MaxCommands /\ obuf' \in Seq(Command)
  BY <1>1, <1>3, <1>4
<1>6. /\ flags' \subseteq Flag /\ replies' \in Seq(Command \cup {NoCb}) /\ invalid' \in Seq(Command)
      /\ channels' \in [Channels -> Command \cup {NoCb}]
  BY <1>3 DEF redisAsyncCommand, n, TypeOK, Flag, lists
<1>7. addWrite' \in BOOLEAN
  BY DEF redisAsyncCommand, AddWrite
<1>8. UNCHANGED <<err, acErr, got, addRead, control, redis>>
  BY DEF redisAsyncCommand
<1>. QED
  BY <1>5, <1>6, <1>7, <1>8 DEF TypeOK, control, redis, C

LEMMA TypeStep ==
    ASSUME TypeOK, Step
    PROVE  TypeOK'
<1>1. CASE redisAsyncDisconnect
  <2>1. /\ err' \in {"none", "IO", "OTHER"} /\ acErr' \in {"none", "IO", "OTHER"}
        /\ flags' \subseteq Flag /\ pc' \in {pc, "aborted", "freeReplies"}
    <3>1. flags \cup {"DISCONNECTING"} \in SUBSET Flag /\ err \in {"none", "IO", "OTHER"}
      BY DEF TypeOK, Flag
    <3>2. CASE Disconnect(flags \cup {"DISCONNECTING"}, err)
      BY <3>1, <3>2, DisconnectType
    <3>3. CASE flags' = flags \cup {"DISCONNECTING"} /\ UNCHANGED <<err, acErr, pc>>
      BY <3>1, <3>3 DEF TypeOK
    <3>. QED
      BY <1>1, <3>2, <3>3 DEF redisAsyncDisconnect
  <2>2. asked' = TRUE /\ UNCHANGED <<obuf, got, lists, events, cb, caller, status, calls, cmds, redis>>
    BY <1>1 DEF redisAsyncDisconnect
  <2>. QED
    BY <2>1, <2>2 DEF TypeOK, FreeLoop, lists, events, redis
<1>2. CASE redisAsyncFree
  BY <1>2 DEF redisAsyncFree, TypeOK, FreeLoop, Flag, lists, events, redis
<1>3. CASE HandleConnectFails
  <2>1. /\ err' \in {"none", "IO", "OTHER"} /\ acErr' \in {"none", "IO", "OTHER"}
        /\ flags' \subseteq Flag /\ pc' \in {"aborted", "freeReplies"}
    BY <1>3, DisconnectType DEF HandleConnectFails, TypeOK
  <2>2. UNCHANGED <<obuf, got, lists, events, cb, caller, status, asked, calls, cmds, redis>>
    BY <1>3 DEF HandleConnectFails
  <2>. QED
    BY <2>1, <2>2 DEF TypeOK, FreeLoop, lists, events, redis
<1>4. CASE redisAsyncHandleWrite
  <2>. DEFINE f == flags \cup {"CONNECTED"}
  <2>1. f \in SUBSET Flag
    BY DEF TypeOK, Flag
  <2>2. UNCHANGED <<got, lists, cb, caller, status, asked, calls, cmds,
                    sock, open, back, part, subs, monitored, pushed>>
    BY <1>4 DEF redisAsyncHandleWrite
  <2>3. CASE obuf # <<>> /\ ~ open /\ Disconnect(f, "IO") /\ UNCHANGED <<obuf, wire, events>>
    <3>1. /\ err' \in {"none", "IO", "OTHER"} /\ acErr' \in {"none", "IO", "OTHER"}
          /\ flags' \subseteq Flag /\ pc' \in {"aborted", "freeReplies"}
      BY <2>1, <2>3, DisconnectType
    <3>. QED
      BY <2>2, <2>3, <3>1 DEF TypeOK, FreeLoop, lists, events
  <2>4. ASSUME NEW k \in 0..Len(obuf),
               /\ wire' = IF open THEN wire \o SubSeq(obuf, 1, k) ELSE wire
               /\ obuf' = SubSeq(obuf, k + 1, Len(obuf))
               /\ addWrite' = (obuf' # <<>>) /\ addRead' = TRUE
               /\ flags' = f
               /\ UNCHANGED <<err, acErr, pc>>
        PROVE  TypeOK'
    <3>1. SubSeq(obuf, 1, k) \in Seq(Command) /\ SubSeq(obuf, k + 1, Len(obuf)) \in Seq(Command)
      BY CutType DEF TypeOK
    <3>2. wire \o SubSeq(obuf, 1, k) \in Seq(Command)
      BY <3>1, ConcatProperties DEF TypeOK
    <3>3. wire' \in Seq(Command) /\ obuf' \in Seq(Command) /\ addWrite' \in BOOLEAN /\ addRead' \in BOOLEAN
      BY <2>4, <3>1, <3>2 DEF TypeOK
    <3>. QED
      BY <2>1, <2>2, <2>4, <3>3 DEF TypeOK, lists
  <2>. QED
    BY <1>4, <2>3, <2>4 DEF redisAsyncHandleWrite
<1>5. CASE redisAsyncHandleRead
  <2>2. UNCHANGED <<obuf, lists, events, caller, status, asked, calls, cmds,
                    sock, open, wire, subs, monitored, pushed>>
    BY <1>5 DEF redisAsyncHandleRead
  <2>3. CASE back = <<>> /\ ~ open /\ Disconnect(flags, "IO") /\ UNCHANGED <<got, back, part, cb>>
    <3>1. /\ err' \in {"none", "IO", "OTHER"} /\ acErr' \in {"none", "IO", "OTHER"}
          /\ flags' \subseteq Flag /\ pc' \in {"aborted", "freeReplies"}
      BY <2>3, DisconnectType DEF TypeOK
    <3>. QED
      BY <2>2, <2>3, <3>1 DEF TypeOK, FreeLoop, lists, events
  <2>4. ASSUME NEW k \in 0..Len(back),
               /\ got' = SubSeq(back, 1, k)
               /\ back' = SubSeq(back, k + 1, Len(back))
               /\ part' \in {p \in BOOLEAN : p => back' # <<>>}
               /\ pc' = "process" /\ cb' = NoCb
               /\ UNCHANGED <<flags, err, acErr>>
        PROVE  TypeOK'
    <3>1. SubSeq(back, 1, k) \in Seq(Reply) /\ SubSeq(back, k + 1, Len(back)) \in Seq(Reply)
      BY CutType DEF TypeOK
    <3>2. got' \in Seq(Reply) /\ back' \in Seq(Reply) /\ part' \in BOOLEAN
      BY <2>4, <3>1
    <3>. QED
      BY <2>2, <2>4, <3>2 DEF TypeOK, lists, events
  <2>. QED
    BY <1>5, <2>3, <2>4 DEF redisAsyncHandleRead
<1>6. CASE NoReply
  <2>1. UNCHANGED <<obuf, got, invalid, channels, events, cb, caller, status, asked, calls, cmds, redis>>
    BY <1>6 DEF NoReply
  <2>2. CASE Disconnect(flags, err) /\ replies' = replies
    <3>1. /\ err' \in {"none", "IO", "OTHER"} /\ acErr' \in {"none", "IO", "OTHER"}
          /\ flags' \subseteq Flag /\ pc' \in {"aborted", "freeReplies"}
      BY <2>2, DisconnectType DEF TypeOK
    <3>. QED
      BY <2>1, <2>2, <3>1 DEF TypeOK, FreeLoop, events, redis
  <2>3. CASE replies' = Kept /\ pc' = "idle" /\ UNCHANGED <<flags, err, acErr>>
    <3>1. Append(replies, cb) \in Seq(Command \cup {NoCb})
      BY AppendProperties DEF TypeOK
    <3>2. replies' \in Seq(Command \cup {NoCb})
      BY <2>3, <3>1 DEF Kept, TypeOK
    <3>. QED
      BY <2>1, <2>3, <3>2 DEF TypeOK, events, redis
  <2>. QED
    BY <1>6, <2>2, <2>3 DEF NoReply
<1>7. CASE RegularReply
  <2>1. Head(replies) \in Command \cup {NoCb} /\ Tail(replies) \in Seq(Command \cup {NoCb})
    BY <1>7, HeadTail DEF TypeOK, RegularReply
  <2>2. Deliver(Head(replies), flags) /\ got # <<>> /\ replies' = Tail(replies)
    BY <1>7 DEF RegularReply
  <2>3. flags \in SUBSET Flag
    BY DEF TypeOK
  <2>4. /\ cb' \in Command \cup {NoCb} /\ got' \in Seq(Reply) /\ flags' \subseteq Flag
        /\ calls' \in Seq([cb : Command, reply : Reply \cup {NULL}])
        /\ pc' \in {pc, "callback"} /\ caller' \in {caller, "process"}
    BY <2>1, <2>2, <2>3, DeliverType
  <2>5. UNCHANGED <<err, acErr, obuf, invalid, channels, events, status, asked, cmds, redis>>
    BY <1>7 DEF RegularReply
  <2>. QED
    BY <2>1, <2>2, <2>4, <2>5 DEF TypeOK, events, redis
<1>8. CASE SpontaneousError
  <2>1. /\ err' \in {"none", "IO", "OTHER"} /\ acErr' \in {"none", "IO", "OTHER"}
        /\ flags' \subseteq Flag /\ pc' \in {"aborted", "freeReplies"}
    BY <1>8, DisconnectType DEF SpontaneousError, TypeOK
  <2>2. got' \in Seq(Reply)
    BY <1>8, HeadTail DEF TypeOK, SpontaneousError
  <2>3. UNCHANGED <<obuf, lists, events, cb, caller, status, asked, calls, cmds, redis>>
    BY <1>8 DEF SpontaneousError
  <2>. QED
    BY <2>1, <2>2, <2>3 DEF TypeOK, FreeLoop, lists, events, redis
<1>9. CASE PushedReply
  <2>. DEFINE r == Head(got)
  <2>1. got # <<>> /\ pc = "process" /\ UNCHANGED <<err, acErr, obuf, replies, events, status, asked, cmds, redis>>
    BY <1>9 DEF PushedReply
  <2>2. r \in Reply /\ (Arr(r) => r.channel \in Channels)
    BY <2>1, HeadTail, ReplyKinds DEF TypeOK
  <2>3. flags \in SUBSET Flag /\ SubscribedAfter(r) \in SUBSET Flag /\ cb \in Command \cup {NoCb}
    BY DEF TypeOK, SubscribedAfter
  <2>4. CASE pc' = "aborted" /\ UNCHANGED <<flags, got, invalid, channels, cb, caller, calls>>
    BY <2>1, <2>4 DEF TypeOK, events, redis
  <2>5. CASE Deliver(cb, flags) /\ UNCHANGED <<invalid, channels>>
    <3>1. /\ cb' \in Command \cup {NoCb} /\ got' \in Seq(Reply) /\ flags' \subseteq Flag
          /\ calls' \in Seq([cb : Command, reply : Reply \cup {NULL}])
          /\ pc' \in {pc, "callback"} /\ caller' \in {caller, "process"}
      BY <2>1, <2>3, <2>5, DeliverType
    <3>. QED
      BY <2>1, <2>5, <3>1 DEF TypeOK, events, redis
  <2>6. CASE /\ r.type = "array" /\ channels[r.channel] # NoCb
             /\ Deliver(channels[r.channel], SubscribedAfter(r))
             /\ channels' = [channels EXCEPT ![r.channel] = IF r.what = "unsubscribe" THEN NoCb ELSE @]
             /\ invalid' = invalid
    <3>1. channels[r.channel] \in Command \cup {NoCb} /\ channels' \in [Channels -> Command \cup {NoCb}]
      BY <2>2, <2>6 DEF TypeOK, Arr
    <3>2. /\ cb' \in Command \cup {NoCb} /\ got' \in Seq(Reply) /\ flags' \subseteq Flag
          /\ calls' \in Seq([cb : Command, reply : Reply \cup {NULL}])
          /\ pc' \in {pc, "callback"} /\ caller' \in {caller, "process"}
      BY <2>1, <2>3, <2>6, <3>1, DeliverType
    <3>. QED
      BY <2>1, <2>6, <3>1, <3>2 DEF TypeOK, events, redis
  <2>7. CASE /\ invalid # <<>>
             /\ Deliver(Head(invalid), flags)
             /\ invalid' = Tail(invalid) /\ channels' = channels
    <3>1. Head(invalid) \in Command /\ Tail(invalid) \in Seq(Command)
      BY <2>7, HeadTail DEF TypeOK
    <3>2. /\ cb' \in Command \cup {NoCb} /\ got' \in Seq(Reply) /\ flags' \subseteq Flag
          /\ calls' \in Seq([cb : Command, reply : Reply \cup {NULL}])
          /\ pc' \in {pc, "callback"} /\ caller' \in {caller, "process"}
      BY <2>1, <2>3, <2>7, <3>1, DeliverType
    <3>. QED
      BY <2>1, <2>7, <3>1, <3>2 DEF TypeOK, events, redis
  <2>. QED
    BY <1>9, <2>4, <2>5, <2>6, <2>7 DEF PushedReply, SubscribeCallback
<1>10. CASE CallbackReturns
  BY <1>10 DEF CallbackReturns, TypeOK, FreeLoop, lists, events, redis
<1>11. CASE FreeCallback
  <2>1. UNCHANGED <<err, acErr, obuf, got, events, cb, status, asked, cmds, redis>>
    BY <1>11 DEF FreeCallback
  <2>2. {"freeReplies", "freeInvalid", "freeChannels"} \subseteq FreeLoop
    BY DEF FreeLoop
  <2>3. CASE /\ InReplies /\ replies' = Tail(replies)
             /\ IF Head(replies) = NoCb
                THEN UNCHANGED <<flags, calls, pc, caller>>
                ELSE RunCallback(Head(replies), NULL, "freeReplies")
             /\ UNCHANGED <<invalid, channels>>
    <3>1. Head(replies) \in Command \cup {NoCb} /\ Tail(replies) \in Seq(Command \cup {NoCb})
      BY <2>3, HeadTail DEF TypeOK, InReplies
    <3>2. CASE Head(replies) = NoCb
      BY <2>1, <2>3, <3>1, <3>2 DEF TypeOK, events, redis
    <3>3. CASE Head(replies) # NoCb
      <4>1. Head(replies) \in Command /\ RunCallback(Head(replies), NULL, "freeReplies")
        BY <2>3, <3>1, <3>3
      <4>2. /\ flags' \subseteq Flag /\ pc' = "callback" /\ caller' \in {"process"} \cup FreeLoop
            /\ calls' \in Seq([cb : Command, reply : Reply \cup {NULL}])
        BY <2>2, <4>1, RunType
      <4>. QED
        BY <2>1, <2>3, <3>1, <4>2 DEF TypeOK, events, redis
    <3>. QED
      BY <3>2, <3>3
  <2>4. CASE /\ invalid # <<>> /\ invalid' = Tail(invalid)
             /\ RunCallback(Head(invalid), NULL, "freeInvalid")
             /\ UNCHANGED <<replies, channels>>
    <3>1. Head(invalid) \in Command /\ Tail(invalid) \in Seq(Command)
      BY <2>4, HeadTail DEF TypeOK
    <3>2. /\ flags' \subseteq Flag /\ pc' = "callback" /\ caller' \in {"process"} \cup FreeLoop
          /\ calls' \in Seq([cb : Command, reply : Reply \cup {NULL}])
      BY <2>2, <2>4, <3>1, RunType
    <3>. QED
      BY <2>1, <2>4, <3>1, <3>2 DEF TypeOK, events, redis
  <2>5. ASSUME NEW c \in Channels, channels[c] # NoCb,
               channels' = [channels EXCEPT ![c] = NoCb],
               RunCallback(channels[c], NULL, "freeChannels"),
               UNCHANGED <<replies, invalid>>
        PROVE  TypeOK'
    <3>1. channels[c] \in Command /\ channels' \in [Channels -> Command \cup {NoCb}]
      BY <2>5 DEF TypeOK
    <3>2. /\ flags' \subseteq Flag /\ pc' = "callback" /\ caller' \in {"process"} \cup FreeLoop
          /\ calls' \in Seq([cb : Command, reply : Reply \cup {NULL}])
      BY <2>2, <2>5, <3>1, RunType
    <3>. QED
      BY <2>1, <2>5, <3>1, <3>2 DEF TypeOK, events, redis
  <2>. QED
    BY <1>11, <2>3, <2>4, <2>5 DEF FreeCallback
<1>12. CASE FreeContext
  <2>1. /\ status' \in {"none", "OK", "ERR"} /\ pc' = "freed"
        /\ addRead' = FALSE /\ addWrite' = FALSE /\ open' = FALSE
    BY <1>12 DEF FreeContext
  <2>2. UNCHANGED <<flags, err, acErr, obuf, got, lists, cb, caller, asked, calls, cmds,
                    sock, wire, back, part, subs, monitored, pushed>>
    BY <1>12 DEF FreeContext
  <2>. QED
    BY <2>1, <2>2 DEF TypeOK, lists
<1>13. CASE ConnectEnds
  <2>1. TooManyClients \in Reply
    BY DEF Reply
  <2>2. <<TooManyClients>> \in Seq(Reply)
    BY <2>1
  <2>3. back' \in Seq(Reply) /\ open' \in BOOLEAN /\ sock' \in {"connecting", "up", "refused"}
    BY <1>13, <2>2 DEF ConnectEnds, TypeOK
  <2>4. UNCHANGED <<context, wire, part, subs, monitored, pushed>>
    BY <1>13 DEF ConnectEnds
  <2>. QED
    BY <2>3, <2>4 DEF TypeOK, context, control, lists, events
<1>14. CASE Execute
  <2>1. wire' \in Seq(Command) /\ Head(wire) \in Command
    BY <1>14, HeadTail DEF Execute, TypeOK
  <2>2. PICK r \in Reply : Answer(Head(wire), r) /\ back' = Append(back, r)
    BY <1>14 DEF Execute
  <2>3. back' \in Seq(Reply)
    BY <2>2, AppendProperties DEF TypeOK
  <2>4. monitored' \in BOOLEAN /\ subs' \subseteq Channels
    <3>1. Arr(r) => r.channel \in Channels
      BY ReplyKinds
    <3>2. r.channel = cmds[Head(wire)].channel => r.type # "array" \/ cmds[Head(wire)].channel \in Channels
      BY <3>1 DEF Arr
    <3>3. CASE UNCHANGED <<subs, monitored>>
      BY <3>3 DEF TypeOK
    <3>4. CASE monitored' = TRUE /\ subs' = subs
      BY <3>4 DEF TypeOK
    <3>5. CASE /\ subs' = subs \cup {cmds[Head(wire)].channel} /\ monitored' = monitored
               /\ r = [type |-> "array", what |-> cmds[Head(wire)].kind, channel |-> cmds[Head(wire)].channel,
                       left |-> Cardinality(subs')]
      <4>1. r.type = "array" /\ r.channel = cmds[Head(wire)].channel
        BY <3>5
      <4>. QED
        BY <3>2, <3>5, <4>1 DEF TypeOK
    <3>6. CASE subs' = subs \ {cmds[Head(wire)].channel} /\ monitored' = monitored
      BY <3>6 DEF TypeOK
    <3>. QED
      BY <2>2, <3>3, <3>4, <3>5, <3>6 DEF Answer
  <2>5. UNCHANGED <<context, sock, open, part, pushed>>
    BY <1>14 DEF Execute
  <2>. QED
    BY <2>1, <2>3, <2>4, <2>5 DEF TypeOK, context, control, lists, events
<1>15. CASE Push
  <2>1. PICK r \in Reply : back' = Append(back, r)
    BY <1>15 DEF Push
  <2>2. back' \in Seq(Reply)
    BY <2>1, AppendProperties DEF TypeOK
  <2>3. pushed' \in 0..MaxPushed
    BY <1>15, ConstantsAssumption DEF Push, TypeOK
  <2>4. UNCHANGED <<context, sock, open, wire, part, subs, monitored>>
    BY <1>15 DEF Push
  <2>. QED
    BY <2>2, <2>3, <2>4 DEF TypeOK, context, control, lists, events
<1>16. CASE Close
  <2>1. <<>> \in Seq(Command)
    BY EmptySeq
  <2>2. open' = FALSE /\ wire' = <<>> /\ UNCHANGED <<context, sock, back, part, subs, monitored, pushed>>
    BY <1>16 DEF Close
  <2>3. open' \in BOOLEAN /\ wire' \in Seq(Command)
    BY <2>1, <2>2
  <2>. QED
    BY <2>2, <2>3 DEF TypeOK, context, control, lists, events
<1>. QED
  BY <1>1, <1>2, <1>3, <1>4, <1>5, <1>6, <1>7, <1>8, <1>9, <1>10, <1>11, <1>12, <1>13, <1>14,
     <1>15, <1>16 DEF Step

LEMMA TypeNext ==
    ASSUME TypeOK, [Next]_vars
    PROVE  TypeOK'
<1>1. CASE UNCHANGED vars
  BY <1>1 DEF TypeOK, vars, context, redis, control, lists, events
<1>. QED
  BY <1>1, Steps, TypeCommand, TypeStep

\* Every variable of the context and of Redis keeps its type, whatever the
\* application calls, for any number of commands and messages.
THEOREM TypeContextCorrect == Spec => []TypeOK
BY TypeInit, TypeNext, PTL DEF Spec

-----------------------------------------------------------------------------
(***************************************************************************)
(* Where a callback that is called comes from.                             *)
(***************************************************************************)
\* c is called with r; the callback of no command is not.
Called(c, r) == calls' = IF c = NoCb THEN calls ELSE Append(calls, [cb |-> c, reply |-> r])

Still == UNCHANGED <<lists, calls>> /\ cb' \in {cb, NoCb}

FromReplies(r) ==
    /\ replies # <<>> /\ replies' = Tail(replies) /\ Called(Head(replies), r)
    /\ IF r = NULL THEN pc = "freeReplies" ELSE pc = "process" /\ got # <<>> /\ r = Head(got)
    /\ cb' \in {cb, Head(replies)} /\ UNCHANGED <<invalid, channels>>

FromInvalid(r) ==
    /\ invalid # <<>> /\ invalid' = Tail(invalid) /\ Called(Head(invalid), r)
    /\ r # NULL => /\ pc = "process" /\ got # <<>> /\ replies = <<>>
                   /\ r = Head(got) /\ r.type \notin {"array", "error"}
    /\ cb' \in {cb, Head(invalid)} /\ UNCHANGED <<replies, channels>>

FromChannel(c, r) ==
    /\ channels[c] # NoCb /\ channels' \in {channels, [channels EXCEPT ![c] = NoCb]}
    /\ Called(channels[c], r)
    /\ r # NULL => r.type = "array" /\ r.channel = c
    /\ cb' \in {cb, channels[c]} /\ UNCHANGED <<replies, invalid>>

\* The callback of a monitor is put back.
Repushed ==
    /\ NoReply /\ replies' = Append(replies, cb) /\ "MONITORING" \in flags
    /\ cb' = cb /\ UNCHANGED <<invalid, channels, calls>>

\* A reply that nothing waits for goes to the callback before.
Again(r) ==
    /\ pc = "process" /\ got # <<>> /\ replies = <<>> /\ r.type # "error"
    /\ Called(cb, r) /\ r # NULL
    /\ ~ (/\ "SUBSCRIBED" \in flags
          /\ IF r.type = "array" THEN channels[r.channel] # NoCb ELSE invalid # <<>>)
    /\ r = Head(got) /\ cb' = cb /\ UNCHANGED lists

Moves ==
    \/ Still
    \/ \E r \in Reply \cup {NULL} :
           FromReplies(r) \/ FromInvalid(r) \/ (\E c \in Channels : FromChannel(c, r))
    \/ Repushed
    \/ \E r \in Reply : Again(r)

LEMMA ListMoves ==
    ASSUME TypeOK, Step
    PROVE  Moves
<1>1. CASE \/ redisAsyncDisconnect \/ redisAsyncFree \/ HandleConnectFails
           \/ redisAsyncHandleWrite \/ redisAsyncHandleRead \/ CallbackReturns \/ FreeContext
  <2>1. Still
    BY <1>1 DEF redisAsyncDisconnect, redisAsyncFree, HandleConnectFails, redisAsyncHandleWrite,
                redisAsyncHandleRead, CallbackReturns, FreeContext, lists, Still
  <2>. QED
    BY <2>1 DEF Moves
<1>2. CASE ConnectEnds \/ Execute \/ Push \/ Close
  <2>1. UNCHANGED context
    BY <1>2 DEF ConnectEnds, Execute, Push, Close
  <2>2. Still
    BY <2>1 DEF context, control, Still
  <2>. QED
    BY <2>2 DEF Moves
<1>3. CASE NoReply
  <2>1. Still \/ Repushed
    BY <1>3 DEF NoReply, Still, Repushed, lists, Kept
  <2>. QED
    BY <2>1 DEF Moves
<1>4. CASE RegularReply
  <2>1. Head(got) \in Reply /\ Head(got) # NULL
    BY <1>4, HeadTail, ReplyKinds DEF RegularReply, TypeOK
  <2>2. FromReplies(Head(got))
    BY <1>4, <2>1 DEF RegularReply, FromReplies, Deliver, Called
  <2>. QED
    BY <2>1, <2>2 DEF Moves
<1>5. CASE SpontaneousError
  <2>1. Still
    BY <1>5 DEF SpontaneousError, Still, lists
  <2>. QED
    BY <2>1 DEF Moves
<1>6. CASE PushedReply
  <2>1. PICK r \in Reply : r = Head(got) /\ r # NULL /\ (Arr(r) => r.channel \in Channels)
    BY <1>6, HeadTail, ReplyKinds DEF PushedReply, TypeOK
  <2>2. UNCHANGED replies
    BY <1>6 DEF PushedReply
  <2>3. CASE UNCHANGED <<flags, got, invalid, channels, cb, caller, calls>>
    BY <2>2, <2>3 DEF Moves, Still, lists
  <2>4. CASE SubscribeCallback(Head(got))
    <3>1. CASE /\ r.type = "array" /\ channels[r.channel] # NoCb
               /\ Deliver(channels[r.channel], SubscribedAfter(r))
               /\ channels' = [channels EXCEPT ![r.channel] = IF r.what = "unsubscribe" THEN NoCb ELSE @]
               /\ invalid' = invalid
      <4>1. channels' \in {channels, [channels EXCEPT ![r.channel] = NoCb]}
        BY <3>1, <2>1 DEF TypeOK, Arr
      <4>2. FromChannel(r.channel, r)
        BY <2>1, <2>2, <3>1, <4>1 DEF FromChannel, Deliver, Called
      <4>. QED
        BY <2>1, <3>1, <4>2 DEF Moves, Arr
    <3>2. CASE /\ r.type # "array" /\ invalid # <<>> /\ Deliver(Head(invalid), flags)
               /\ invalid' = Tail(invalid) /\ channels' = channels
      <4>1. FromInvalid(r)
        BY <1>6, <2>1, <2>2, <3>2 DEF FromInvalid, Deliver, Called, PushedReply
      <4>. QED
        BY <4>1 DEF Moves
    <3>. QED
      BY <2>1, <2>4, <3>1, <3>2 DEF SubscribeCallback
  <2>5. CASE /\ Deliver(cb, flags) /\ UNCHANGED <<invalid, channels>>
             /\ ~ (/\ "SUBSCRIBED" \in flags
                   /\ IF Head(got).type = "array" THEN channels[Head(got).channel] # NoCb ELSE invalid # <<>>)
    <3>1. Again(r)
      BY <1>6, <2>1, <2>2, <2>5 DEF Again, Deliver, Called, lists, PushedReply
    <3>. QED
      BY <3>1 DEF Moves
  <2>. QED
    BY <1>6, <2>3, <2>4, <2>5 DEF PushedReply
<1>7. CASE FreeCallback
  <2>1. cb' = cb
    BY <1>7 DEF FreeCallback
  <2>2. CASE /\ InReplies /\ replies' = Tail(replies)
             /\ IF Head(replies) = NoCb
                THEN UNCHANGED <<flags, calls, pc, caller>>
                ELSE RunCallback(Head(replies), NULL, "freeReplies")
             /\ UNCHANGED <<invalid, channels>>
    <3>1. FromReplies(NULL)
      BY <2>1, <2>2 DEF FromReplies, Called, RunCallback, InReplies
    <3>. QED
      BY <3>1 DEF Moves
  <2>3. CASE /\ invalid # <<>> /\ invalid' = Tail(invalid)
             /\ RunCallback(Head(invalid), NULL, "freeInvalid")
             /\ UNCHANGED <<replies, channels>>
    <3>1. Head(invalid) # NoCb
      BY <2>3, HeadTail, CommandNumbers DEF TypeOK
    <3>2. FromInvalid(NULL)
      BY <2>1, <2>3, <3>1 DEF FromInvalid, Called, RunCallback
    <3>. QED
      BY <3>2 DEF Moves
  <2>4. ASSUME NEW c \in Channels, channels[c] # NoCb,
               channels' = [channels EXCEPT ![c] = NoCb],
               RunCallback(channels[c], NULL, "freeChannels"),
               UNCHANGED <<replies, invalid>>
        PROVE  Moves
    <3>1. FromChannel(c, NULL)
      BY <2>1, <2>4 DEF FromChannel, Called, RunCallback
    <3>. QED
      BY <3>1 DEF Moves
  <2>. QED
    BY <1>7, <2>2, <2>3, <2>4 DEF FreeCallback
<1>. QED
  BY <1>1, <1>2, <1>3, <1>4, <1>5, <1>6, <1>7 DEF Step

-----------------------------------------------------------------------------
(***************************************************************************)
(* Every number anywhere is that of a command accepted, of the right kind. *)
(***************************************************************************)
Known ==
    /\ Range(obuf) \subseteq DOMAIN cmds /\ Range(wire) \subseteq DOMAIN cmds
    /\ \A x \in Range(replies) : x = NoCb \/ x \in DOMAIN cmds
    /\ \A x \in Range(invalid) : x \in DOMAIN cmds /\ cmds[x].kind = "regular" /\ cmds[x].subscribed
    /\ \A c \in Channels :
           channels[c] = NoCb \/
               (channels[c] \in DOMAIN cmds /\ cmds[channels[c]].kind = "subscribe" /\ cmds[channels[c]].channel = c)
    /\ cb = NoCb \/ cb \in DOMAIN cmds
    /\ \A i \in DOMAIN calls : calls[i].cb \in DOMAIN cmds

LEMMA KnownInit ==
    ASSUME Init
    PROVE  Known
<1>1. \A s : s = <<>> => DOMAIN s = {} /\ Range(s) = {}
  BY EmptySeq DEF Range
<1>. QED
  BY <1>1 DEF Init, Known

\* The commands accepted keep their numbers, and the new one gets the next.
LEMMA CommandsGrow ==
    ASSUME TypeOK, NEW kind \in Kind, NEW channel \in Channels, redisAsyncCommand(kind, channel)
    PROVE  LET n == Len(cmds) + 1
           IN  /\ n \in Command /\ n \notin DOMAIN cmds /\ n # NoCb
               /\ DOMAIN cmds' = DOMAIN cmds \cup {n} /\ \A x \in DOMAIN cmds : x < n /\ x \in Command
               /\ \A x \in DOMAIN cmds : cmds'[x] = cmds[x]
               /\ cmds'[n].kind = kind /\ cmds'[n].channel = channel
               /\ cmds'[n].subscribed <=> "SUBSCRIBED" \in flags
               /\ obuf' = Append(obuf, n)
<1>. DEFINE n == Len(cmds) + 1
            e == [kind |-> kind, channel |-> channel, subscribed |-> "SUBSCRIBED" \in flags]
            C == [kind : Kind, channel : Channels, subscribed : BOOLEAN]
<1>1. cmds' = Append(cmds, e) /\ obuf' = Append(obuf, n) /\ Len(cmds) < MaxCommands
  BY DEF redisAsyncCommand, NextCommand
<1>2. e \in C /\ cmds \in Seq(C)
  BY DEF TypeOK
<1>6. e.kind = kind /\ e.channel = channel /\ (e.subscribed <=> "SUBSCRIBED" \in flags)
  OBVIOUS
<1>. HIDE DEF e, C
<1>3. /\ Len(cmds) \in Nat /\ DOMAIN cmds = 1..Len(cmds) /\ DOMAIN cmds' = 1..n
      /\ (\A x \in 1..Len(cmds) : cmds'[x] = cmds[x]) /\ cmds'[n] = e
  BY <1>1, <1>2, AppendProperties, LenProperties
<1>4. n \in Command /\ \A x \in DOMAIN cmds : x < n /\ x \in Command
  BY <1>1, <1>3, ConstantsAssumption DEF Command
<1>5. n \notin DOMAIN cmds /\ n # NoCb /\ DOMAIN cmds' = DOMAIN cmds \cup {n}
  BY <1>3 DEF NoCb
<1>. QED
  BY <1>1, <1>3, <1>4, <1>5, <1>6

LEMMA CallsGrow ==
    ASSUME TypeOK, NEW c \in Command, NEW r \in Reply \cup {NULL},
           calls' = Append(calls, [cb |-> c, reply |-> r])
    PROVE  LET m == Len(calls) + 1
           IN  /\ m \notin DOMAIN calls /\ DOMAIN calls' = DOMAIN calls \cup {m}
               /\ \A i \in DOMAIN calls : calls'[i] = calls[i]
               /\ calls'[m].cb = c /\ calls'[m].reply = r
<1>. DEFINE m == Len(calls) + 1
            e == [cb |-> c, reply |-> r]
            C == [cb : Command, reply : Reply \cup {NULL}]
<1>1. e \in C /\ calls \in Seq(C) /\ e.cb = c /\ e.reply = r /\ calls' = Append(calls, e)
  BY DEF TypeOK
<1>. HIDE DEF e, C
<1>2. /\ Len(calls) \in Nat /\ DOMAIN calls = 1..Len(calls) /\ DOMAIN calls' = 1..m
      /\ (\A x \in 1..Len(calls) : calls'[x] = calls[x]) /\ calls'[m] = e
  BY <1>1, AppendProperties, LenProperties
<1>3. m \notin DOMAIN calls /\ DOMAIN calls' = DOMAIN calls \cup {m}
  BY <1>2
<1>. QED
  BY <1>1, <1>2, <1>3

LEMMA KnownCommand ==
    ASSUME TypeOK, Known, NEW kind \in Kind, NEW channel \in Channels, redisAsyncCommand(kind, channel)
    PROVE  Known'
<1>1. PICK n : /\ n = Len(cmds) + 1 /\ n \in Command /\ n # NoCb
               /\ DOMAIN cmds' = DOMAIN cmds \cup {n}
               /\ \A x \in DOMAIN cmds : cmds'[x] = cmds[x]
               /\ cmds'[n].kind = kind /\ cmds'[n].channel = channel
               /\ cmds'[n].subscribed <=> "SUBSCRIBED" \in flags
               /\ obuf' = Append(obuf, n)
  BY CommandsGrow
<1>2. Range(obuf') = Range(obuf) \cup {n}
  BY <1>1, AppendRange DEF TypeOK
<1>3. UNCHANGED <<wire, cb, calls>>
  BY DEF redisAsyncCommand, control, redis
<1>4. Range(Append(replies, n)) = Range(replies) \cup {n} /\ Range(Append(invalid, n)) = Range(invalid) \cup {n}
  <2>1. n \in Command \cup {NoCb} /\ n \in Command
    BY <1>1
  <2>2. replies \in Seq(Command \cup {NoCb}) /\ invalid \in Seq(Command)
    BY DEF TypeOK
  <2>3. Range(Append(replies, n)) = Range(replies) \cup {n}
    BY <2>1, <2>2, AppendRange
  <2>4. Range(Append(invalid, n)) = Range(invalid) \cup {n}
    BY <2>1, <2>2, AppendRange
  <2>. QED
    BY <2>3, <2>4
<1>5. \A x \in Range(replies') : x \in Range(replies) \cup {n}
  BY <1>1, <1>4 DEF redisAsyncCommand, NextCommand, lists
<1>6. \A x \in Range(invalid') : x \in Range(invalid) \/ (x = n /\ kind = "regular" /\ "SUBSCRIBED" \in flags)
  BY <1>1, <1>4 DEF redisAsyncCommand, NextCommand, lists
<1>7. \A c \in Channels : channels'[c] = channels[c] \/ (channels'[c] = n /\ kind = "subscribe" /\ c = channel)
  BY <1>1 DEF redisAsyncCommand, NextCommand, lists, TypeOK
<1>8. Range(obuf') \subseteq DOMAIN cmds' /\ Range(wire') \subseteq DOMAIN cmds'
  BY <1>1, <1>2, <1>3 DEF Known
<1>9. /\ \A x \in Range(replies') : x = NoCb \/ x \in DOMAIN cmds'
      /\ cb' = NoCb \/ cb' \in DOMAIN cmds'
      /\ \A i \in DOMAIN calls' : calls'[i].cb \in DOMAIN cmds'
  BY <1>1, <1>3, <1>5 DEF Known
<1>10. ASSUME NEW x \in Range(invalid')
       PROVE  x \in DOMAIN cmds' /\ cmds'[x].kind = "regular" /\ cmds'[x].subscribed
  <2>1. CASE x \in Range(invalid)
    <3>1. x \in DOMAIN cmds /\ cmds[x].kind = "regular" /\ cmds[x].subscribed
      BY <2>1 DEF Known
    <3>. QED
      BY <1>1, <3>1
  <2>2. CASE x = n /\ kind = "regular" /\ "SUBSCRIBED" \in flags
    BY <1>1, <2>2
  <2>. QED
    BY <1>6, <2>1, <2>2
<1>11. ASSUME NEW c \in Channels
       PROVE  \/ channels'[c] = NoCb
              \/ channels'[c] \in DOMAIN cmds' /\ cmds'[channels'[c]].kind = "subscribe" /\ cmds'[channels'[c]].channel = c
  <2>1. CASE channels'[c] = channels[c]
    BY <1>1, <2>1 DEF Known
  <2>2. CASE channels'[c] = n /\ kind = "subscribe" /\ c = channel
    BY <1>1, <2>2
  <2>. QED
    BY <1>7, <2>1, <2>2
<1>. QED
  BY <1>8, <1>9, <1>10, <1>11 DEF Known

\* Commands only move from the buffer to the wire.
LEMMA BytesMove ==
    ASSUME TypeOK, Step
    PROVE  Range(obuf') \subseteq Range(obuf) \cup Range(wire) /\ Range(wire') \subseteq Range(obuf) \cup Range(wire)
<1>1. CASE redisAsyncHandleWrite
  <2>1. CASE UNCHANGED <<obuf, wire>>
    BY <2>1
  <2>2. ASSUME NEW k \in 0..Len(obuf),
               /\ wire' = IF open THEN wire \o SubSeq(obuf, 1, k) ELSE wire
               /\ obuf' = SubSeq(obuf, k + 1, Len(obuf))
        PROVE  Range(obuf') \subseteq Range(obuf) \cup Range(wire) /\ Range(wire') \subseteq Range(obuf) \cup Range(wire)
    <3>1. /\ SubSeq(obuf, 1, k) \in Seq(Command) /\ Range(SubSeq(obuf, 1, k)) \subseteq Range(obuf)
          /\ Range(SubSeq(obuf, k + 1, Len(obuf))) \subseteq Range(obuf)
      BY CutType DEF TypeOK
    <3>2. Range(wire \o SubSeq(obuf, 1, k)) = Range(wire) \cup Range(SubSeq(obuf, 1, k))
      <4>1. wire \in Seq(Command)
        BY DEF TypeOK
      <4>2. PICK p \in Seq(Command) : p = SubSeq(obuf, 1, k)
        BY <3>1
      <4>3. Range(wire \o p) = Range(wire) \cup Range(p)
        BY <4>1, JoinRange
      <4>. QED
        BY <4>2, <4>3
    <3>. QED
      BY <2>2, <3>1, <3>2
  <2>. QED
    BY <1>1, <2>1, <2>2 DEF redisAsyncHandleWrite
<1>2. CASE Execute
  BY <1>2, HeadTail DEF Execute, context, TypeOK
<1>3. CASE Close
  <2>1. Range(<<>>) = {}
    BY EmptySeq DEF Range
  <2>. QED
    BY <1>3, <2>1 DEF Close, context
<1>4. CASE ~ redisAsyncHandleWrite /\ ~ Execute /\ ~ Close
  <2>1. UNCHANGED <<obuf, wire>>
    BY <1>4 DEF Step, redisAsyncDisconnect, redisAsyncFree, HandleConnectFails, redisAsyncHandleRead,
       NoReply, RegularReply, SpontaneousError, PushedReply, CallbackReturns, FreeCallback, FreeContext,
       ConnectEnds, Push, context, redis
  <2>. QED
    BY <2>1
<1>. QED
  BY <1>1, <1>2, <1>3, <1>4

LEMMA KnownStep ==
    ASSUME TypeOK, Known, Step
    PROVE  Known'
<1>1. cmds' = cmds
  BY StepKeepsCommands
<1>2. Range(obuf') \subseteq Range(obuf) \cup Range(wire) /\ Range(wire') \subseteq Range(obuf) \cup Range(wire)
  BY BytesMove
<1>3. ASSUME NEW c, NEW r \in Reply \cup {NULL}, Called(c, r), c = NoCb \/ c \in DOMAIN cmds
      PROVE  \A i \in DOMAIN calls' : calls'[i].cb \in DOMAIN cmds
  <2>1. CASE c = NoCb
    BY <1>3, <2>1 DEF Called, Known
  <2>2. CASE c # NoCb
    <3>1. c \in Command
      BY <1>3, <2>2, LenProperties, ConstantsAssumption DEF TypeOK, Command
    <3>2. calls' = Append(calls, [cb |-> c, reply |-> r])
      BY <1>3, <2>2 DEF Called
    <3>. QED
      BY <1>3, <2>2, <3>1, <3>2, CallsGrow DEF Known
  <2>. QED
    BY <2>1, <2>2
<1>4. CASE Still
  BY <1>1, <1>2, <1>4 DEF Known, Still, lists
<1>5. ASSUME NEW r \in Reply \cup {NULL}, FromReplies(r) PROVE Known'
  <2>1. Head(replies) \in Range(replies) /\ Range(replies') \subseteq Range(replies)
    BY <1>5, HeadTail DEF FromReplies, TypeOK
  <2>2. \A i \in DOMAIN calls' : calls'[i].cb \in DOMAIN cmds
    BY <1>3, <1>5, <2>1 DEF FromReplies, Known
  <2>. QED
    BY <1>1, <1>2, <1>5, <2>1, <2>2 DEF FromReplies, Known
<1>6. ASSUME NEW r \in Reply \cup {NULL}, FromInvalid(r) PROVE Known'
  <2>1. Head(invalid) \in Range(invalid) /\ Range(invalid') \subseteq Range(invalid)
    BY <1>6, HeadTail DEF FromInvalid, TypeOK
  <2>2. \A i \in DOMAIN calls' : calls'[i].cb \in DOMAIN cmds
    BY <1>3, <1>6, <2>1 DEF FromInvalid, Known
  <2>. QED
    BY <1>1, <1>2, <1>6, <2>1, <2>2 DEF FromInvalid, Known
<1>7. ASSUME NEW r \in Reply \cup {NULL}, NEW c \in Channels, FromChannel(c, r) PROVE Known'
  <2>1. \A d \in Channels : channels'[d] \in {channels[d], NoCb}
    BY <1>7 DEF FromChannel, TypeOK
  <2>2. \A i \in DOMAIN calls' : calls'[i].cb \in DOMAIN cmds
    BY <1>3, <1>7 DEF FromChannel, Known
  <2>. QED
    BY <1>1, <1>2, <1>7, <2>1, <2>2 DEF FromChannel, Known
<1>8. CASE Repushed
  <2>1. Range(replies') = Range(replies) \cup {cb}
    <3>1. replies \in Seq(Command \cup {NoCb}) /\ cb \in Command \cup {NoCb}
      BY DEF TypeOK
    <3>2. replies' = Append(replies, cb)
      BY <1>8 DEF Repushed
    <3>. QED
      BY <3>1, <3>2, AppendRange
  <2>. QED
    BY <1>1, <1>2, <1>8, <2>1 DEF Repushed, Known
<1>9. ASSUME NEW r \in Reply, Again(r) PROVE Known'
  <2>1. \A i \in DOMAIN calls' : calls'[i].cb \in DOMAIN cmds
    BY <1>3, <1>9 DEF Again, Known
  <2>. QED
    BY <1>1, <1>2, <1>9, <2>1 DEF Again, Known, lists
<1>. QED
  BY <1>4, <1>5, <1>6, <1>7, <1>8, <1>9, ListMoves DEF Moves

LEMMA KnownUnchanged ==
    ASSUME Known, UNCHANGED vars
    PROVE  Known'
BY DEF Known, vars, context, lists, control, redis

\* The three loops of __redisAsyncFree do not go back, they are entered with
\* DISCONNECTING or FREEING set, and with callbacks of replies pending only
\* after a failure or when the application frees the context.
Ending == pc \in FreeLoop \/ (pc = "callback" /\ caller \in FreeLoop)
PastReplies ==
    pc \in {"freeInvalid", "freeChannels", "freed"} \/ (pc = "callback" /\ caller \in {"freeInvalid", "freeChannels"})
PastInvalid == pc \in {"freeChannels", "freed"} \/ (pc = "callback" /\ caller = "freeChannels")

Failed == err # "none" \/ "FREEING" \in flags

\* Without a failure, the flags that end a context are set by the application.
Asked == "FREEING" \in flags \/ ("DISCONNECTING" \in flags /\ err = "none") => asked

ControlInv ==
    /\ acErr = err
    /\ pc = "callback" => "IN_CALLBACK" \in flags
    /\ Ending => /\ "DISCONNECTING" \in flags \/ "FREEING" \in flags
                 /\ Failed \/ replies = <<>>
    /\ PastReplies => replies = <<>>
    /\ PastInvalid => invalid = <<>>
    /\ Asked
    /\ StatusTruthful

LEMMA ControlInit ==
    ASSUME Init
    PROVE  ControlInv
BY DEF Init, ControlInv, Ending, PastReplies, PastInvalid, Asked, StatusTruthful, FreeLoop

LEMMA ControlCommand ==
    ASSUME TypeOK, ControlInv, NEW kind \in Kind, NEW channel \in Channels, redisAsyncCommand(kind, channel)
    PROVE  ControlInv'
<1>1. pc \in {"idle", "callback"} /\ flags \cap {"DISCONNECTING", "FREEING"} = {}
      /\ UNCHANGED <<err, acErr, pc, caller, status, asked>>
  BY DEF redisAsyncCommand, control
<1>2. flags \subseteq flags' /\ flags' \cap {"DISCONNECTING", "FREEING"} = {}
  BY <1>1 DEF redisAsyncCommand
<1>3. ~ Ending /\ ~ PastReplies /\ ~ PastInvalid
  BY <1>1 DEF ControlInv, Ending, PastReplies, PastInvalid, FreeLoop
<1>4. ~ Ending' /\ ~ PastReplies' /\ ~ PastInvalid' /\ pc' # "freed"
  BY <1>1, <1>3 DEF Ending, PastReplies, PastInvalid
<1>5. Asked' /\ StatusTruthful'
  BY <1>2, <1>4 DEF Asked, StatusTruthful
<1>. QED
  BY <1>1, <1>2, <1>4, <1>5 DEF ControlInv

\* A disconnect with an error, or with none and no callback pending.
LEMMA DisconnectControl ==
    ASSUME NEW f, NEW e \in {"none", "IO", "OTHER"}, Disconnect(f, e),
           e # "none" \/ "DISCONNECTING" \in f, e = "none" \/ "FREEING" \in f => asked',
           UNCHANGED <<replies, invalid>>
    PROVE  ControlInv'
<1>1. acErr' = err' /\ err' = e /\ f \subseteq flags' /\ flags' \subseteq f \cup {"DISCONNECTING"}
  BY DEF Disconnect, CopyError, DisconnectFlags
<1>2. pc' \in {"aborted", "freeReplies"}
  BY DEF Disconnect
<1>3. ~ PastReplies' /\ ~ PastInvalid' /\ pc' # "callback" /\ pc' # "freed"
  BY <1>2 DEF PastReplies, PastInvalid
<1>4. "DISCONNECTING" \in flags'
  BY DEF Disconnect, DisconnectFlags
<1>5. pc' = "freeReplies" => e # "none" \/ replies = <<>>
  BY DEF Disconnect
<1>6. Ending' => pc' = "freeReplies"
  BY <1>2 DEF Ending, FreeLoop
<1>. QED
  BY <1>1, <1>3, <1>4, <1>5, <1>6 DEF ControlInv, Asked, StatusTruthful, Failed

LEMMA ControlStep ==
    ASSUME TypeOK, Known, ControlInv, Step
    PROVE  ControlInv'
<1>. err \in {"none", "IO", "OTHER"} /\ invalid \in Seq(Command) /\ replies \in Seq(Command \cup {NoCb})
  BY DEF TypeOK
<1>. USE DEF ControlInv
<1>1. CASE redisAsyncDisconnect
  <2>1. asked' /\ UNCHANGED <<replies, invalid, caller, status>>
    BY <1>1 DEF redisAsyncDisconnect, lists
  <2>2. CASE Disconnect(flags \cup {"DISCONNECTING"}, err)
    BY <2>1, <2>2, DisconnectControl
  <2>3. CASE flags' = flags \cup {"DISCONNECTING"} /\ UNCHANGED <<err, acErr, pc>>
    <3>1. pc # "freed"
      BY <1>1 DEF redisAsyncDisconnect
    <3>. QED
      BY <2>1, <2>3, <3>1 DEF Ending, PastReplies, PastInvalid, Asked, StatusTruthful, Failed
  <2>. QED
    BY <1>1, <2>2, <2>3 DEF redisAsyncDisconnect
<1>2. CASE redisAsyncFree
  <2>1. /\ asked' /\ UNCHANGED <<replies, invalid, caller, status, err, acErr>> /\ pc # "freed"
        /\ flags' = flags \cup {"FREEING"} /\ pc' \in {pc, "freeReplies"}
    BY <1>2 DEF redisAsyncFree, lists
  <2>. QED
    BY <2>1 DEF Ending, PastReplies, PastInvalid, Asked, StatusTruthful, Failed
<1>3. CASE HandleConnectFails
  <2>1. Disconnect(flags, "IO") /\ UNCHANGED <<replies, invalid, asked>>
    BY <1>3 DEF HandleConnectFails, lists
  <2>. QED
    BY <2>1, DisconnectControl DEF Asked
<1>4. CASE redisAsyncHandleWrite
  <2>1. UNCHANGED <<replies, invalid, caller, status, asked>> /\ pc = "idle"
    BY <1>4 DEF redisAsyncHandleWrite, lists
  <2>2. CASE Disconnect(flags \cup {"CONNECTED"}, "IO")
    BY <2>1, <2>2, DisconnectControl DEF Asked
  <2>3. CASE flags' = flags \cup {"CONNECTED"} /\ UNCHANGED <<err, acErr, pc>>
    BY <2>1, <2>3 DEF Ending, PastReplies, PastInvalid, Asked, StatusTruthful, FreeLoop
  <2>. QED
    BY <1>4, <2>2, <2>3 DEF redisAsyncHandleWrite
<1>5. CASE redisAsyncHandleRead
  <2>1. UNCHANGED <<replies, invalid, caller, status, asked>> /\ pc = "idle"
    BY <1>5 DEF redisAsyncHandleRead, lists
  <2>2. CASE Disconnect(flags, "IO")
    BY <2>1, <2>2, DisconnectControl DEF Asked
  <2>3. CASE pc' = "process" /\ UNCHANGED <<flags, err, acErr>>
    BY <2>1, <2>3 DEF Ending, PastReplies, PastInvalid, Asked, StatusTruthful, FreeLoop
  <2>. QED
    BY <1>5, <2>2, <2>3 DEF redisAsyncHandleRead
<1>6. CASE NoReply
  <2>1. UNCHANGED <<invalid, caller, status, asked>> /\ pc = "process"
    BY <1>6 DEF NoReply
  <2>2. CASE "DISCONNECTING" \in flags /\ Drained /\ Disconnect(flags, err) /\ replies' = replies
    BY <2>1, <2>2, DisconnectControl DEF Asked
  <2>3. CASE pc' = "idle" /\ UNCHANGED <<flags, err, acErr>>
    BY <2>1, <2>3 DEF Ending, PastReplies, PastInvalid, Asked, StatusTruthful, FreeLoop
  <2>. QED
    BY <1>6, <2>2, <2>3 DEF NoReply
<1>7. ASSUME NEW c, NEW f, Deliver(c, f), f \subseteq flags \cup {"SUBSCRIBED"}, pc = "process",
             UNCHANGED <<err, acErr, status, asked>>
      PROVE  ControlInv'
  BY <1>7 DEF Deliver, Ending, PastReplies, PastInvalid, Asked, StatusTruthful, FreeLoop
<1>8. CASE RegularReply
  BY <1>7, <1>8 DEF RegularReply
<1>9. CASE SpontaneousError
  <2>1. Disconnect(flags, "OTHER") /\ UNCHANGED <<replies, invalid, asked>>
    BY <1>9 DEF SpontaneousError, lists
  <2>. QED
    BY <2>1, DisconnectControl DEF Asked
<1>10. CASE PushedReply
  <2>1. pc = "process" /\ UNCHANGED <<err, acErr, replies, status, asked>>
    BY <1>10 DEF PushedReply
  <2>2. CASE pc' = "aborted" /\ UNCHANGED <<flags, invalid, caller>>
    BY <2>1, <2>2 DEF Ending, PastReplies, PastInvalid, Asked, StatusTruthful, FreeLoop
  <2>3. CASE SubscribeCallback(Head(got))
    <3>1. SubscribedAfter(Head(got)) \subseteq flags
      BY DEF SubscribedAfter
    <3>. QED
      BY <1>7, <2>1, <2>3, <3>1 DEF SubscribeCallback
  <2>4. CASE Deliver(cb, flags)
    BY <1>7, <2>1, <2>4
  <2>. QED
    BY <1>10, <2>2, <2>3, <2>4 DEF PushedReply
<1>11. CASE CallbackReturns
  <2>1. /\ pc = "callback" /\ flags' = flags \ {"IN_CALLBACK"}
        /\ UNCHANGED <<err, acErr, replies, invalid, caller, status, asked>>
    BY <1>11 DEF CallbackReturns, lists
  <2>2. caller \in {"process"} \cup FreeLoop
    BY DEF TypeOK
  <2>3. CASE FreeNow /\ pc' = "freeReplies"
    <3>1. "FREEING" \in flags'
      BY <2>1, <2>3 DEF FreeNow
    <3>. QED
      BY <2>1, <2>3, <3>1 DEF Ending, PastReplies, PastInvalid, Asked, StatusTruthful, Failed
  <2>4. CASE pc' = caller
    <3>1. pc' # "freed" /\ pc' # "callback"
      BY <2>2, <2>4 DEF FreeLoop
    <3>2. (Ending' => Ending) /\ (PastReplies' => PastReplies) /\ (PastInvalid' => PastInvalid)
      BY <2>1, <2>4, <3>1 DEF Ending, PastReplies, PastInvalid, FreeLoop
    <3>3. Failed => Failed'
      BY <2>1 DEF Failed
    <3>. QED
      BY <2>1, <3>1, <3>2, <3>3 DEF Asked, StatusTruthful
  <2>. QED
    BY <1>11, <2>3, <2>4 DEF CallbackReturns
<1>12. CASE FreeCallback
  <2>1. UNCHANGED <<err, acErr, status, asked>>
    BY <1>12 DEF FreeCallback
  <2>2. Ending /\ pc \in FreeLoop
    BY <1>12 DEF FreeCallback, InReplies, InInvalid, InChannels, Ending, FreeLoop
  <2>3. CASE /\ InReplies /\ replies' = Tail(replies)
             /\ IF Head(replies) = NoCb
                THEN UNCHANGED <<flags, calls, pc, caller>>
                ELSE RunCallback(Head(replies), NULL, "freeReplies")
             /\ UNCHANGED <<invalid, channels>>
    <3>1. Failed /\ pc = "freeReplies"
      BY <2>2, <2>3 DEF InReplies
    <3>2. flags \subseteq flags' /\ flags' \subseteq flags \cup {"IN_CALLBACK"}
      BY <2>3 DEF RunCallback
    <3>3. Failed'
      BY <2>1, <3>1, <3>2 DEF Failed
    <3>4. \/ pc' = "freeReplies" /\ caller' = caller
          \/ pc' = "callback" /\ caller' = "freeReplies" /\ "IN_CALLBACK" \in flags'
      BY <2>3, <3>1 DEF RunCallback
    <3>5. Asked' /\ StatusTruthful'
      BY <2>1, <3>2, <3>4 DEF Asked, StatusTruthful
    <3>. QED
      BY <2>1, <2>2, <2>3, <3>2, <3>3, <3>4, <3>5 DEF PastReplies, PastInvalid
  <2>4. CASE /\ InInvalid /\ invalid # <<>> /\ invalid' = Tail(invalid)
             /\ RunCallback(Head(invalid), NULL, "freeInvalid")
             /\ UNCHANGED <<replies, channels>>
    <3>1. replies = <<>>
      BY <2>4 DEF InInvalid, PastReplies
    <3>. QED
      BY <2>1, <2>2, <2>4, <3>1 DEF RunCallback, PastReplies, PastInvalid, Asked, StatusTruthful
  <2>5. CASE /\ InChannels
             /\ UNCHANGED <<replies, invalid>>
             /\ \E c \in Channels : RunCallback(channels[c], NULL, "freeChannels")
    <3>1. replies = <<>> /\ invalid = <<>>
      BY <2>5 DEF InChannels, InInvalid, PastReplies, PastInvalid
    <3>. QED
      BY <2>1, <2>2, <2>5, <3>1 DEF RunCallback, PastReplies, PastInvalid, Asked, StatusTruthful
  <2>. QED
    BY <1>12, <2>3, <2>4, <2>5 DEF FreeCallback
<1>13. CASE FreeContext
  <2>1. /\ replies = <<>> /\ invalid = <<>> /\ Ending
        /\ pc' = "freed" /\ UNCHANGED <<flags, err, acErr, replies, invalid, caller, asked>>
    BY <1>13 DEF FreeContext, InChannels, InInvalid, PastReplies, PastInvalid, Ending, FreeLoop, lists
  <2>2. status' = IF "CONNECTED" \notin flags THEN "none"
                  ELSE IF "FREEING" \in flags \/ acErr = "none" THEN "OK" ELSE "ERR"
    BY <1>13 DEF FreeContext
  <2>3. Asked' /\ StatusTruthful'
    BY <2>1, <2>2 DEF Asked, StatusTruthful
  <2>. QED
    BY <2>1, <2>3 DEF Ending, FreeLoop
<1>14. CASE ConnectEnds \/ Execute \/ Push \/ Close
  <2>1. UNCHANGED context
    BY <1>14 DEF ConnectEnds, Execute, Push, Close
  <2>. QED
    BY <2>1 DEF context, lists, control, Ending, PastReplies, PastInvalid, Asked, StatusTruthful, Failed
<1>. QED
  BY <1>1, <1>2, <1>3, <1>4, <1>5, <1>6, <1>8, <1>9, <1>10, <1>11, <1>12, <1>13, <1>14 DEF Step

\* A failure is not taken back.
LEMMA FailedStays ==
    ASSUME TypeOK, [Next]_vars, Failed
    PROVE  Failed'
<1>1. CASE UNCHANGED vars
  BY <1>1 DEF vars, context, Failed
<1>2. CASE \E kind \in Kind, channel \in Channels : redisAsyncCommand(kind, channel)
  BY <1>2 DEF redisAsyncCommand, Failed
<1>3. CASE Step
  <2>1. ASSUME NEW f, NEW e, Disconnect(f, e), flags \subseteq f, e = err \/ e # "none"
        PROVE  Failed'
    BY <2>1 DEF Disconnect, DisconnectFlags, Failed
  <2>2. ASSUME NEW c, NEW f, Deliver(c, f), "FREEING" \in flags => "FREEING" \in f, UNCHANGED err
        PROVE  Failed'
    BY <2>2 DEF Deliver, Failed
  <2>3. CASE redisAsyncDisconnect \/ redisAsyncFree
    BY <2>1, <2>3 DEF redisAsyncDisconnect, redisAsyncFree, Failed
  <2>4. CASE HandleConnectFails \/ redisAsyncHandleRead \/ NoReply \/ SpontaneousError
    BY <2>1, <2>4 DEF HandleConnectFails, redisAsyncHandleRead, NoReply, SpontaneousError, Failed
  <2>5. CASE redisAsyncHandleWrite
    BY <2>1, <2>5 DEF redisAsyncHandleWrite, Failed
  <2>6. CASE RegularReply \/ PushedReply
    BY <2>2, <2>6 DEF RegularReply, PushedReply, SubscribeCallback, SubscribedAfter, Failed
  <2>7. CASE CallbackReturns \/ FreeCallback \/ FreeContext
    BY <2>7 DEF CallbackReturns, FreeCallback, FreeContext, RunCallback, Failed
  <2>8. CASE ConnectEnds \/ Execute \/ Push \/ Close
    BY <2>8 DEF ConnectEnds, Execute, Push, Close, context, Failed
  <2>. QED
    BY <1>3, <2>3, <2>4, <2>5, <2>6, <2>7, <2>8 DEF Step
<1>. QED
  BY <1>1, <1>2, <1>3, Steps

LEMMA NullNext ==
    ASSUME TypeOK, Known, ControlInv, NullOnlyAfterFailure, [Next]_vars
    PROVE  NullOnlyAfterFailure'
<1>1. CASE UNCHANGED vars
  BY <1>1 DEF NullOnlyAfterFailure, vars, context, control
<1>2. ASSUME NEW kind \in Kind, NEW channel \in Channels, redisAsyncCommand(kind, channel)
      PROVE  NullOnlyAfterFailure'
  <2>1. \A x \in DOMAIN cmds : cmds'[x] = cmds[x]
    BY <1>2, CommandsGrow
  <2>2. UNCHANGED <<calls, err>> /\ flags \subseteq flags'
    BY <1>2 DEF redisAsyncCommand, control
  <2>. QED
    BY <2>1, <2>2 DEF Known, NullOnlyAfterFailure
<1>3. CASE Step
  <2>1. cmds' = cmds /\ (Failed => Failed')
    BY <1>3, StepKeepsCommands, FailedStays DEF Next, Step, Application, Loop, redisProcessCallbacks, Redis
  <2>2. CASE UNCHANGED calls
    BY <2>1, <2>2 DEF NullOnlyAfterFailure, Failed
  <2>3. ASSUME NEW c \in Command, NEW r \in Reply \cup {NULL}, Called(c, r),
               r = NULL /\ cmds[c].kind = "regular" /\ ~ cmds[c].subscribed => Failed'
        PROVE  NullOnlyAfterFailure'
    <3>1. calls' = Append(calls, [cb |-> c, reply |-> r])
      BY <2>3, CommandNumbers DEF Called
    <3>2. PICK m : /\ DOMAIN calls' = DOMAIN calls \cup {m}
                   /\ \A i \in DOMAIN calls : calls'[i] = calls[i]
                   /\ calls'[m].cb = c /\ calls'[m].reply = r
      BY <3>1, CallsGrow
    <3>. QED
      BY <2>1, <2>3, <3>2 DEF NullOnlyAfterFailure, Failed
  <2>4. ASSUME NEW c, NEW r, Called(c, r), c = NoCb PROVE UNCHANGED calls
    BY <2>4 DEF Called
  <2>5. ASSUME NEW r \in Reply \cup {NULL}, FromReplies(r) PROVE NullOnlyAfterFailure'
    <3>1. Head(replies) \in Command \cup {NoCb} /\ Called(Head(replies), r)
      BY <2>5, HeadTail DEF FromReplies, TypeOK
    <3>2. r = NULL => Failed
      BY <2>5 DEF FromReplies, ControlInv, Ending, FreeLoop
    <3>. QED
      BY <2>1, <2>2, <2>3, <2>4, <3>1, <3>2
  <2>6. ASSUME NEW r \in Reply \cup {NULL}, FromInvalid(r) PROVE NullOnlyAfterFailure'
    <3>1. Head(invalid) \in Command /\ Head(invalid) \in Range(invalid) /\ Called(Head(invalid), r)
      BY <2>6, HeadTail DEF FromInvalid, TypeOK
    <3>2. cmds[Head(invalid)].subscribed
      BY <3>1 DEF Known
    <3>. QED
      BY <2>3, <3>1, <3>2
  <2>7. ASSUME NEW r \in Reply \cup {NULL}, NEW c \in Channels, FromChannel(c, r) PROVE NullOnlyAfterFailure'
    <3>1. channels[c] \in Command /\ Called(channels[c], r) /\ cmds[channels[c]].kind = "subscribe"
      BY <2>7 DEF FromChannel, TypeOK, Known
    <3>. QED
      BY <2>3, <3>1
  <2>8. ASSUME NEW r \in Reply, Again(r) PROVE NullOnlyAfterFailure'
    <3>1. cb \in Command \cup {NoCb} /\ Called(cb, r) /\ r # NULL
      BY <2>8 DEF Again, TypeOK
    <3>. QED
      BY <2>2, <2>3, <2>4, <3>1
  <2>9. Still \/ Repushed => UNCHANGED calls
    BY DEF Still, Repushed
  <2>. QED
    BY <1>3, <2>2, <2>5, <2>6, <2>7, <2>8, <2>9, ListMoves DEF Moves
<1>. QED
  BY <1>1, <1>2, <1>3, Steps

Base == TypeOK /\ Known /\ ControlInv

LEMMA BaseInit == Init => Base
BY TypeInit, KnownInit, ControlInit DEF Base

LEMMA BaseNext == Base /\ [Next]_vars => Base'
<1>. SUFFICES ASSUME TypeOK, Known, ControlInv, [Next]_vars PROVE TypeOK' /\ Known' /\ ControlInv'
  BY DEF Base
<1>1. TypeOK'
  BY TypeNext
<1>2. Known'
  BY Steps, KnownUnchanged, KnownCommand, KnownStep
<1>3. UNCHANGED vars => ControlInv'
  BY DEF ControlInv, vars, context, lists, control, Ending, PastReplies, PastInvalid, Asked, StatusTruthful, Failed
<1>4. ControlInv'
  BY <1>3, Steps, ControlCommand, ControlStep
<1>. QED
  BY <1>1, <1>2, <1>4

\* Whatever the callbacks do while the context is freed, onDisconnect is told of
\* success only when the application has asked for the end, by redisAsyncDisconnect
\* or redisAsyncFree, and of a failure only with its cause in ac->err.
THEOREM StatusTruthfulCorrect == Spec => []StatusTruthful
<1>1. Base => StatusTruthful
  BY DEF Base, ControlInv
<1>. QED
  BY <1>1, BaseInit, BaseNext, PTL DEF Spec

\* A command accepted outside the subscribed mode loses its reply only when the
\* connection fails or the application frees the context: redisAsyncDisconnect
\* lets all of them have theirs first.
THEOREM NullOnlyAfterFailureCorrect == Spec => []NullOnlyAfterFailure
<1>1. Init => NullOnlyAfterFailure
  BY EmptySeq DEF Init, NullOnlyAfterFailure
<1>2. Base /\ NullOnlyAfterFailure /\ [Next]_vars => NullOnlyAfterFailure'
  BY NullNext DEF Base
<1>. QED
  BY <1>1, <1>2, BaseInit, BaseNext, PTL DEF Spec

-----------------------------------------------------------------------------
(***************************************************************************)
(* The pipeline of an application that keeps to the rules of MayIssue and  *)
(* has not issued MONITOR.  L are the replies sent and not handled, Q the  *)
(* commands not executed, P and I the callbacks of replies and of invalid, *)
(* ch the callbacks of channels, S the channels Redis holds subscribed, F  *)
(* the flags and cs the commands; up tells whether the connection is open. *)
(***************************************************************************)
\* x is answered by one of the first n replies.
Answered(L, x, n) == \E j \in DOMAIN L : j <= n /\ Num(L[j]) /\ L[j].of = x

\* The answers of regular commands rise, skip no callback that is pending and
\* come, for those of replies, before anything about a subscription.
Answers(L, P, I, up) ==
    /\ \A i \in DOMAIN L :
           \/ Num(L[i]) /\ L[i].type \in {"bulk", "error"}
           \/ Arr(L[i])
           \/ L[i] = TooManyClients /\ Len(L) = 1 /\ ~ up
    /\ \A i, j \in DOMAIN L : i < j /\ Num(L[i]) /\ Num(L[j]) => L[i].of < L[j].of
    /\ \A i \in DOMAIN L : Num(L[i]) => L[i].of \in P \cup I
    /\ \A i \in DOMAIN L : \A x \in P \cup I : Num(L[i]) /\ x < L[i].of => Answered(L, x, i - 1)
    /\ \A i \in DOMAIN L : \A x \in P : Arr(L[i]) => Answered(L, x, i - 1)

\* A pending callback waits for a command of the queue or for a reply sent,
\* as long as the connection lasts.
Queued(L, Q, P, I, cs, up) ==
    /\ \A x \in P, y \in I : x < y
    /\ \A x \in P \cup I : cs[x].kind = "regular"
    /\ \A i \in DOMAIN L : \A q \in Q : Num(L[i]) => L[i].of < q
    /\ up => \A x \in P \cup I : x \in Q \/ Answered(L, x, Len(L))
    /\ up => \A q \in Q : cs[q].kind = "regular" => q \in P \cup I
    /\ \A x \in P, q \in Q : cs[q].kind # "regular" => x < q

\* What SUBSCRIBED says of Redis and of what is on the way.
Subscribed(L, Q, P, I, S, F, cs) ==
    /\ S # {} => \A x \in P : Answered(L, x, Len(L))
    /\ "SUBSCRIBED" \notin F =>
           /\ S = {} /\ I = {}
           /\ \A i \in DOMAIN L : ~ Arr(L[i])
           /\ \A q \in Q : cs[q].kind = "regular"

\* An UNSUBSCRIBE is the last command until its reply has been handled.
LastCommand(L, Q, P, I, S, cs) ==
    /\ \A q \in Q : cs[q].kind = "unsubscribe" =>
           (\A p \in Q : p <= q) /\ \A i \in DOMAIN L : ~ Unsub(L[i])
    /\ \A i \in DOMAIN L : Unsub(L[i]) =>
           /\ Q = {}
           /\ \A j \in DOMAIN L : j > i => ~ Num(L[j]) /\ ~ Unsub(L[j]) /\ L[j].channel # L[i].channel
           /\ \A x \in P \cup I : Answered(L, x, i - 1)
           /\ L[i].channel \notin S
           /\ L[i].left = 0 => i = Len(L) /\ S = {}

\* Whatever arrives about a channel finds a callback.
Held(L, Q, ch, S, cs) ==
    /\ \A c \in S : ch[c] # NoCb
    /\ \A i \in DOMAIN L : Arr(L[i]) => ch[L[i].channel] # NoCb
    /\ \A q \in Q : cs[q].kind # "regular" => ch[cs[q].channel] # NoCb

Match(L, Q, P, I, ch, S, F, cs, up) ==
    /\ Answers(L, P, I, up)
    /\ Queued(L, Q, P, I, cs, up)
    /\ Subscribed(L, Q, P, I, S, F, cs)
    /\ LastCommand(L, Q, P, I, S, cs)
    /\ Held(L, Q, ch, S, cs)

\* M is L with r behind it.
Grown(L, r, M) ==
    /\ M \in Seq(Reply) /\ Len(L) \in Nat /\ Len(M) = Len(L) + 1
    /\ DOMAIN L = 1..Len(L) /\ DOMAIN M = DOMAIN L \cup {Len(L) + 1}
    /\ \A i \in DOMAIN L : M[i] = L[i] /\ i < Len(L) + 1
    /\ M[Len(L) + 1] = r
    /\ \A x, n : Answered(L, x, n) => Answered(M, x, n)
    /\ \A x : Answered(L, x, Len(L)) => Answered(M, x, Len(L) + 1)
    /\ Num(r) => Answered(M, r.of, Len(L) + 1)

LEMMA AppendAnswered ==
    ASSUME NEW L \in Seq(Reply), NEW r \in Reply
    PROVE  Grown(L, r, Append(L, r))
<1>. PICK M : M = Append(L, r)
  OBVIOUS
<1>1. /\ M \in Seq(Reply) /\ Len(L) \in Nat /\ Len(M) = Len(L) + 1
      /\ DOMAIN L = 1..Len(L) /\ DOMAIN M = 1..(Len(L) + 1)
      /\ \A i \in 1..Len(L) : M[i] = L[i]
      /\ M[Len(L) + 1] = r
  BY AppendProperties, LenProperties
<1>2. DOMAIN M = DOMAIN L \cup {Len(L) + 1} /\ \A i \in DOMAIN L : M[i] = L[i] /\ i < Len(L) + 1
  BY <1>1
<1>3. \A x, n : Answered(L, x, n) => Answered(M, x, n)
  BY <1>2 DEF Answered
<1>4. \A x : Answered(L, x, Len(L)) => Answered(M, x, Len(L) + 1)
  <2>1. \A j \in DOMAIN L : j <= Len(L) + 1 /\ j \in DOMAIN M /\ M[j] = L[j]
    BY <1>1, <1>2
  <2>. QED
    BY <2>1 DEF Answered
<1>5. Num(r) => Answered(M, r.of, Len(L) + 1)
  BY <1>1, <1>2 DEF Answered
<1>. QED
  BY <1>1, <1>2, <1>3, <1>4, <1>5 DEF Grown

\* T is L without its first reply.
Rest(L, T) ==
    /\ T \in Seq(Reply) /\ Len(L) \in Nat /\ Len(L) >= 1 /\ Len(T) = Len(L) - 1
    /\ DOMAIN L = 1..Len(L) /\ DOMAIN T = 1..(Len(L) - 1)
    /\ \A i \in DOMAIN T : i + 1 \in DOMAIN L /\ T[i] = L[i + 1]
    /\ \A x : \A n \in Int : Answered(L, x, n + 1) /\ ~ (Num(L[1]) /\ L[1].of = x) => Answered(T, x, n)

LEMMA TailAnswered ==
    ASSUME NEW L \in Seq(Reply), L # <<>>
    PROVE  Rest(L, Tail(L))
<1>. PICK T : T = Tail(L)
  OBVIOUS
<1>1. /\ T \in Seq(Reply) /\ Len(L) \in Nat /\ Len(L) >= 1 /\ Len(T) = Len(L) - 1
      /\ DOMAIN L = 1..Len(L) /\ DOMAIN T = 1..(Len(L) - 1)
      /\ \A i \in 1..(Len(L) - 1) : T[i] = L[i + 1]
  BY HeadTailProperties, LenProperties, EmptySeq
<1>2. \A i \in DOMAIN T : i + 1 \in DOMAIN L /\ T[i] = L[i + 1]
  BY <1>1
<1>3. ASSUME NEW x, NEW n \in Int, Answered(L, x, n + 1), ~ (Num(L[1]) /\ L[1].of = x)
      PROVE  Answered(T, x, n)
  <2>1. PICK j \in DOMAIN L : j <= n + 1 /\ Num(L[j]) /\ L[j].of = x
    BY <1>3 DEF Answered
  <2>2. j # 1
    BY <1>3, <2>1
  <2>3. PICK i \in DOMAIN T : i + 1 = j /\ i <= n
    <3>1. j - 1 \in DOMAIN T /\ (j - 1) + 1 = j /\ j - 1 <= n
      BY <1>1, <2>1, <2>2
    <3>. QED
      BY <3>1
  <2>4. T[i] = L[j]
    BY <1>2, <2>3
  <2>. QED
    BY <2>1, <2>3, <2>4 DEF Answered
<1>. QED
  BY <1>1, <1>2, <1>3 DEF Rest

\* The connection ends, and with it some of the queue.
LEMMA MatchLose ==
    ASSUME NEW L \in Seq(Reply), NEW Q \in SUBSET Nat, NEW P \in SUBSET Nat, NEW I \in SUBSET Nat,
           NEW ch, NEW S, NEW F, NEW cs, NEW up \in BOOLEAN, NEW R \in SUBSET Q,
           Match(L, Q, P, I, ch, S, F, cs, up)
    PROVE  Match(L, R, P, I, ch, S, F, cs, FALSE)
<1>. USE DEF Match
<1>1. Answers(L, P, I, FALSE)
  BY DEF Answers
<1>2. Queued(L, R, P, I, cs, FALSE)
  BY DEF Queued
<1>3. Subscribed(L, R, P, I, S, F, cs) /\ Held(L, R, ch, S, cs)
  BY DEF Subscribed, Held
<1>4. LastCommand(L, R, P, I, S, cs)
  BY DEF LastCommand
<1>. QED
  BY <1>1, <1>2, <1>3, <1>4

\* Command n joins the queue; ds are the commands with it.
Joins(n, ds, L, Q, P, I, cs) ==
    /\ \A x \in Q \cup P \cup I : x < n /\ ds[x] = cs[x]
    /\ \A i \in DOMAIN L : ~ Unsub(L[i])
    /\ \A q \in Q : cs[q].kind # "unsubscribe"

RegularIn(ds, n) == ds[n].kind = "regular"

\* It is a regular one.
LEMMA MatchRegular ==
    ASSUME NEW L \in Seq(Reply), NEW Q \in SUBSET Nat, NEW P \in SUBSET Nat, NEW I \in SUBSET Nat,
           NEW ch, NEW S, NEW F, NEW cs, NEW up \in BOOLEAN, NEW n \in Nat, NEW ds,
           Match(L, Q, P, I, ch, S, F, cs, up),
           Joins(n, ds, L, Q, P, I, cs), RegularIn(ds, n), NEW X, NEW Y,
           IF "SUBSCRIBED" \in F THEN X = P /\ Y = I \cup {n} ELSE X = P \cup {n} /\ Y = I
    PROVE  Match(L, Q \cup {n}, X, Y, ch, S, F, ds, up)
<1>. USE DEF Match, Joins, RegularIn
<1>1. \A i \in DOMAIN L : Num(L[i]) => L[i].of < n /\ L[i].of \in P \cup I /\ L[i].of \in Nat
  BY DEF Answers
<1>2. \A q \in Q \cup {n} : ds[q].kind # "unsubscribe" /\ (q \in Q => ds[q] = cs[q])
  OBVIOUS
<1>3. CASE "SUBSCRIBED" \in F
  <2>1. Answers(L, P, I \cup {n}, up)
    <3>1. \A i \in DOMAIN L : \A x \in P \cup (I \cup {n}) : Num(L[i]) /\ x < L[i].of => x \in P \cup I
      <4>1. \A i \in DOMAIN L : Num(L[i]) => ~ (n < L[i].of)
        BY <1>1
      <4>. QED
        BY <4>1
    <3>. QED
      BY <3>1 DEF Answers
  <2>2. Queued(L, Q \cup {n}, P, I \cup {n}, ds, up)
    BY <1>1 DEF Queued
  <2>3. Subscribed(L, Q \cup {n}, P, I \cup {n}, S, F, ds)
    BY <1>3 DEF Subscribed
  <2>4. LastCommand(L, Q \cup {n}, P, I \cup {n}, S, ds)
    BY <1>2 DEF LastCommand
  <2>5. Held(L, Q \cup {n}, ch, S, ds)
    BY DEF Held
  <2>. QED
    BY <1>3, <2>1, <2>2, <2>3, <2>4, <2>5
<1>4. CASE "SUBSCRIBED" \notin F
  <2>0. S = {} /\ I = {} /\ (\A i \in DOMAIN L : ~ Arr(L[i])) /\ \A q \in Q \cup {n} : ds[q].kind = "regular"
    BY <1>4 DEF Subscribed
  <2>1. Answers(L, P \cup {n}, I, up)
    <3>1. \A i \in DOMAIN L : \A x \in (P \cup {n}) \cup I : Num(L[i]) /\ x < L[i].of => x \in P \cup I
      <4>1. \A i \in DOMAIN L : Num(L[i]) => ~ (n < L[i].of)
        BY <1>1
      <4>. QED
        BY <4>1
    <3>. QED
      BY <2>0, <3>1 DEF Answers
  <2>2. Queued(L, Q \cup {n}, P \cup {n}, I, ds, up)
    BY <1>1, <2>0 DEF Queued
  <2>3. Subscribed(L, Q \cup {n}, P \cup {n}, I, S, F, ds)
    BY <2>0 DEF Subscribed
  <2>4. LastCommand(L, Q \cup {n}, P \cup {n}, I, S, ds)
    BY <1>2 DEF LastCommand
  <2>5. Held(L, Q \cup {n}, ch, S, ds)
    BY <2>0 DEF Held
  <2>. QED
    BY <1>4, <2>1, <2>2, <2>3, <2>4, <2>5
<1>. QED
  BY <1>3, <1>4

\* It is SUBSCRIBE or UNSUBSCRIBE; dh are the callbacks and G the flags then.
Subscribes(n, ds, Q, ch, dh, G, cs) ==
    /\ ds[n].kind \in {"subscribe", "unsubscribe"} /\ "SUBSCRIBED" \in G
    /\ \A q \in Q : cs[q].channel \in Channels
    /\ \A c \in Channels : ch[c] # NoCb => dh[c] # NoCb
    /\ dh[ds[n].channel] # NoCb

LEMMA MatchSubscribe ==
    ASSUME NEW L \in Seq(Reply), NEW Q \in SUBSET Nat, NEW P \in SUBSET Nat, NEW I \in SUBSET Nat,
           NEW ch, NEW S \in SUBSET Channels, NEW F, NEW cs, NEW up \in BOOLEAN, NEW n \in Nat, NEW ds, NEW dh, NEW G,
           Match(L, Q, P, I, ch, S, F, cs, up),
           Joins(n, ds, L, Q, P, I, cs), Subscribes(n, ds, Q, ch, dh, G, cs)
    PROVE  Match(L, Q \cup {n}, P, I, dh, S, G, ds, up)
<1>. USE DEF Match, Joins, Subscribes
<1>1. \A i \in DOMAIN L : Num(L[i]) => L[i].of < n
  BY DEF Answers
<1>2. Queued(L, Q \cup {n}, P, I, ds, up)
  BY <1>1 DEF Queued
<1>3. Subscribed(L, Q \cup {n}, P, I, S, G, ds)
  BY DEF Subscribed
<1>4. LastCommand(L, Q \cup {n}, P, I, S, ds)
  <2>1. \A q \in Q \cup {n} : ds[q].kind = "unsubscribe" => q = n
    OBVIOUS
  <2>2. \A p \in Q \cup {n} : p <= n
    OBVIOUS
  <2>. QED
    BY <2>1, <2>2 DEF LastCommand
<1>5. Held(L, Q \cup {n}, dh, S, ds)
  <2>1. \A i \in DOMAIN L : Arr(L[i]) => L[i].channel \in Channels
    BY ReplyKinds, LenProperties, ElementOfSeq
  <2>. QED
    BY <2>1 DEF Held
<1>. QED
  BY <1>2, <1>3, <1>4, <1>5


\* The reply r to command q, after which Redis holds Z subscribed.
Replied(q, r, S, Z, cs) ==
    \/ Num(r) /\ r.type \in {"bulk", "error"} /\ r.of = q /\ cs[q].kind = "regular" /\ Z = S
    \/ /\ Arr(r) /\ r.channel = cs[q].channel /\ r.what = "subscribe"
       /\ cs[q].kind = "subscribe" /\ Z = S \cup {cs[q].channel}
    \/ /\ Arr(r) /\ r.channel = cs[q].channel /\ r.what = "unsubscribe" /\ (r.left = 0 => Z = {})
       /\ cs[q].kind = "unsubscribe" /\ Z = S \ {cs[q].channel}

\* Redis executes the first command of the queue and replies to it.
LEMMA MatchExecute ==
    ASSUME NEW L \in Seq(Reply), NEW Q \in SUBSET Nat, NEW P \in SUBSET Nat, NEW I \in SUBSET Nat,
           NEW ch, NEW S, NEW F, NEW cs, NEW q \in Q, NEW r \in Reply, NEW Z,
           Match(L, Q, P, I, ch, S, F, cs, TRUE),
           \A p \in Q : q <= p,
           Replied(q, r, S, Z, cs)
    PROVE  Match(Append(L, r), Q \ {q}, P, I, ch, Z, F, cs, TRUE)
<1>. DEFINE k == Len(L) + 1
<1>9. PICK M : M = Append(L, r) /\ Grown(L, r, M)
  BY AppendAnswered
<1>0. /\ M \in Seq(Reply) /\ Len(L) \in Nat /\ Len(M) = k
      /\ DOMAIN L = 1..Len(L) /\ DOMAIN M = DOMAIN L \cup {k}
      /\ \A i \in DOMAIN L : M[i] = L[i] /\ i < k /\ i \in Nat
      /\ M[k] = r
      /\ \A x, n : Answered(L, x, n) => Answered(M, x, n)
      /\ \A x : Answered(L, x, Len(L)) => Answered(M, x, k)
      /\ Num(r) => Answered(M, r.of, k)
      /\ k - 1 = Len(L) /\ k \in Nat
  <2>1. /\ M \in Seq(Reply) /\ Len(L) \in Nat /\ Len(M) = k
        /\ DOMAIN L = 1..Len(L) /\ DOMAIN M = DOMAIN L \cup {k}
        /\ \A i \in DOMAIN L : M[i] = L[i] /\ i < k
        /\ M[k] = r
        /\ \A x, n : Answered(L, x, n) => Answered(M, x, n)
        /\ \A x : Answered(L, x, Len(L)) => Answered(M, x, k)
        /\ Num(r) => Answered(M, r.of, k)
    BY <1>9 DEF Grown
  <2>2. k - 1 = Len(L) /\ k \in Nat /\ \A i \in DOMAIN L : i \in Nat
    BY <2>1
  <2>. QED
    BY <2>1, <2>2
<1>. HIDE DEF k
<1>. USE DEF Match
<1>1. Num(r) \/ Arr(r) => ~ (Num(r) /\ Arr(r)) /\ (Unsub(r) => Arr(r))
  BY DEF Num, Arr, Unsub
<1>2. \A i \in DOMAIN L : ~ Unsub(L[i])
  BY DEF LastCommand
<1>3. ASSUME NEW x \in P \cup I, x < q PROVE Answered(L, x, Len(L))
  <2>1. x \in Q \/ Answered(L, x, Len(L))
    BY DEF Queued
  <2>2. x \in Nat /\ q \in Nat /\ ~ (q <= x)
    BY <1>3
  <2>3. x \notin Q
    BY <2>2
  <2>. QED
    BY <2>1, <2>3
<1>4. cs[q].kind # "regular" => \A x \in P : Answered(L, x, Len(L))
  <2>1. cs[q].kind # "regular" => \A x \in P : x < q
    BY DEF Queued
  <2>. QED
    BY <1>3, <2>1
<1>5. \A i \in DOMAIN M : i = k \/ (i \in DOMAIN L /\ M[i] = L[i])
  BY <1>0
<1>6. \A i \in DOMAIN L : Num(L[i]) => L[i].of < q
  BY DEF Queued
<1>7. Num(r) => r.of = q /\ q \in P \cup I /\ cs[q].kind = "regular" /\ r.type \in {"bulk", "error"} /\ Z = S
  BY <1>1 DEF Queued, Replied
<1>8. Arr(r) => cs[q].kind # "regular" /\ r.channel = cs[q].channel
  BY <1>1 DEF Replied
<1>10. Num(r) \/ Arr(r)
  BY DEF Replied
<1>11. \A i, j \in DOMAIN M : i < j => i \in DOMAIN L /\ M[i] = L[i] /\ (j = k \/ (j \in DOMAIN L /\ M[j] = L[j]))
  BY <1>0
<1>20. Answers(M, P, I, TRUE)
  <2>1. \A i \in DOMAIN M : \/ Num(M[i]) /\ M[i].type \in {"bulk", "error"}
                            \/ Arr(M[i])
    BY <1>0, <1>5, <1>7, <1>10 DEF Answers
  <2>2. \A i, j \in DOMAIN M : i < j /\ Num(M[i]) /\ Num(M[j]) => M[i].of < M[j].of
    BY <1>0, <1>6, <1>7, <1>11 DEF Answers
  <2>3. \A i \in DOMAIN M : Num(M[i]) => M[i].of \in P \cup I
    BY <1>0, <1>5, <1>7 DEF Answers
  <2>4. \A i \in DOMAIN M : \A x \in P \cup I : Num(M[i]) /\ x < M[i].of => Answered(M, x, i - 1)
    <3>1. \A x \in P \cup I : Num(r) /\ x < r.of => Answered(M, x, k - 1)
      BY <1>0, <1>3, <1>7
    <3>2. \A i \in DOMAIN L : \A x \in P \cup I : Num(L[i]) /\ x < L[i].of => Answered(M, x, i - 1)
      BY <1>0 DEF Answers
    <3>. QED
      BY <1>0, <1>5, <3>1, <3>2
  <2>5. \A i \in DOMAIN M : \A x \in P : Arr(M[i]) => Answered(M, x, i - 1)
    <3>1. \A x \in P : Arr(r) => Answered(M, x, k - 1)
      BY <1>0, <1>4, <1>8
    <3>2. \A i \in DOMAIN L : \A x \in P : Arr(L[i]) => Answered(M, x, i - 1)
      BY <1>0 DEF Answers
    <3>. QED
      BY <1>0, <1>5, <3>1, <3>2
  <2>. QED
    BY <2>1, <2>2, <2>3, <2>4, <2>5 DEF Answers
<1>21. Queued(M, Q \ {q}, P, I, cs, TRUE)
  <2>1. \A i \in DOMAIN M : \A p \in Q \ {q} : Num(M[i]) => M[i].of < p
    <3>1. \A p \in Q \ {q} : q < p
      OBVIOUS
    <3>2. \A i \in DOMAIN L : \A p \in Q \ {q} : Num(L[i]) => L[i].of < p
      BY DEF Queued
    <3>. QED
      BY <1>0, <1>5, <1>7, <3>1, <3>2
  <2>2. \A x \in P \cup I : x \in Q \ {q} \/ Answered(M, x, Len(M))
    <3>1. CASE Num(r)
      <4>1. \A x \in P \cup I : x \in Q \/ Answered(M, x, Len(M))
        BY <1>0 DEF Queued
      <4>. QED
        BY <1>0, <1>7, <3>1, <4>1
    <3>2. CASE Arr(r)
      <4>1. \A x \in P \cup I : x # q
        BY <1>8, <3>2 DEF Queued
      <4>. QED
        BY <1>0, <4>1 DEF Queued
    <3>. QED
      BY <1>10, <3>1, <3>2
  <2>. QED
    BY <2>1, <2>2 DEF Queued
<1>22. Subscribed(M, Q \ {q}, P, I, Z, F, cs)
  <2>1. Z # {} => \A x \in P : Answered(M, x, Len(M))
    <3>1. CASE Num(r)
      BY <1>0, <1>7, <3>1 DEF Subscribed
    <3>2. CASE Arr(r)
      BY <1>0, <1>4, <1>8, <3>2
    <3>. QED
      BY <1>10, <3>1, <3>2
  <2>2. ASSUME "SUBSCRIBED" \notin F
        PROVE  /\ Z = {} /\ I = {}
               /\ \A i \in DOMAIN M : ~ Arr(M[i])
               /\ \A p \in Q \ {q} : cs[p].kind = "regular"
    <3>1. cs[q].kind = "regular" /\ S = {} /\ I = {} /\ (\A i \in DOMAIN L : ~ Arr(L[i]))
          /\ \A p \in Q : cs[p].kind = "regular"
      BY <2>2 DEF Subscribed
    <3>2. Num(r) /\ ~ Arr(r)
      BY <1>1, <1>8, <1>10, <3>1
    <3>. QED
      BY <1>0, <1>5, <1>7, <3>1, <3>2
  <2>. QED
    BY <2>1, <2>2 DEF Subscribed
<1>23. LastCommand(M, Q \ {q}, P, I, Z, cs)
  <2>1. CASE Unsub(r)
    <3>1. /\ cs[q].kind = "unsubscribe" /\ Z = S \ {cs[q].channel} /\ r.channel = cs[q].channel
          /\ r.left = 0 => Z = {}
      BY <1>1, <2>1 DEF Unsub, Replied
    <3>2. \A p \in Q : p <= q
      BY <3>1 DEF LastCommand
    <3>3. Q \ {q} = {}
      BY <3>2
    <3>4. \A x \in P \cup I : Answered(L, x, Len(L))
      <4>1. \A x \in P \cup I : x # q
        BY <3>1 DEF Queued
      <4>. QED
        BY <3>3, <4>1 DEF Queued
    <3>5. ASSUME NEW i \in DOMAIN M, Unsub(M[i])
          PROVE  /\ Q \ {q} = {}
                 /\ \A j \in DOMAIN M : j > i => ~ Num(M[j]) /\ ~ Unsub(M[j]) /\ M[j].channel # M[i].channel
                 /\ \A x \in P \cup I : Answered(M, x, i - 1)
                 /\ M[i].channel \notin Z
                 /\ M[i].left = 0 => i = Len(M) /\ Z = {}
      <4>1. i = k
        BY <1>0, <1>2, <1>5, <3>5
      <4>2. \A j \in DOMAIN M : ~ (j > k)
        BY <1>0
      <4>3. \A x \in P \cup I : Answered(M, x, k - 1)
        BY <1>0, <3>4
      <4>. QED
        BY <1>0, <3>1, <3>3, <4>1, <4>2, <4>3
    <3>. QED
      BY <3>3, <3>5 DEF LastCommand
  <2>2. CASE ~ Unsub(r)
    <3>1. \A i \in DOMAIN M : ~ Unsub(M[i])
      BY <1>0, <1>2, <1>5, <2>2
    <3>. QED
      BY <3>1 DEF LastCommand
  <2>. QED
    BY <2>1, <2>2
<1>24. Held(M, Q \ {q}, ch, Z, cs)
  <2>1. Arr(r) => ch[r.channel] # NoCb
    BY <1>8 DEF Held
  <2>2. \A i \in DOMAIN M : Arr(M[i]) => ch[M[i].channel] # NoCb
    BY <1>0, <1>5, <2>1 DEF Held
  <2>3. \A c \in Z : ch[c] # NoCb
    <3>1. CASE Num(r)
      BY <1>7, <3>1 DEF Held
    <3>2. CASE Arr(r)
      BY <1>1, <1>8, <2>1, <3>2 DEF Held, Replied
    <3>. QED
      BY <1>10, <3>1, <3>2
  <2>. QED
    BY <2>2, <2>3 DEF Held
<1>. QED
  BY <1>9, <1>20, <1>21, <1>22, <1>23, <1>24

\* A message of a channel that Redis holds subscribed.
LEMMA MatchPush ==
    ASSUME NEW L \in Seq(Reply), NEW Q \in SUBSET Nat, NEW P \in SUBSET Nat, NEW I \in SUBSET Nat,
           NEW ch, NEW S, NEW F, NEW cs, NEW r \in Reply,
           Match(L, Q, P, I, ch, S, F, cs, TRUE),
           Arr(r), ~ Unsub(r), r.channel \in S
    PROVE  Match(Append(L, r), Q, P, I, ch, S, F, cs, TRUE)
<1>. DEFINE k == Len(L) + 1
<1>9. PICK M : M = Append(L, r) /\ Grown(L, r, M)
  BY AppendAnswered
<1>0. /\ M \in Seq(Reply) /\ Len(L) \in Nat /\ Len(M) = k
      /\ DOMAIN L = 1..Len(L) /\ DOMAIN M = DOMAIN L \cup {k}
      /\ \A i \in DOMAIN L : M[i] = L[i] /\ i < k /\ i \in Nat
      /\ M[k] = r
      /\ \A x, n : Answered(L, x, n) => Answered(M, x, n)
      /\ \A x : Answered(L, x, Len(L)) => Answered(M, x, k)
      /\ k - 1 = Len(L) /\ k \in Nat
  <2>1. /\ M \in Seq(Reply) /\ Len(L) \in Nat /\ Len(M) = k
        /\ DOMAIN L = 1..Len(L) /\ DOMAIN M = DOMAIN L \cup {k}
        /\ \A i \in DOMAIN L : M[i] = L[i] /\ i < k
        /\ M[k] = r
        /\ \A x, n : Answered(L, x, n) => Answered(M, x, n)
        /\ \A x : Answered(L, x, Len(L)) => Answered(M, x, k)
        /\ Num(r) => Answered(M, r.of, k)
    BY <1>9 DEF Grown
  <2>2. k - 1 = Len(L) /\ k \in Nat /\ \A i \in DOMAIN L : i \in Nat
    BY <2>1
  <2>. QED
    BY <2>1, <2>2
<1>. HIDE DEF k
<1>. USE DEF Match
<1>1. ~ Num(r)
  BY DEF Num, Arr
<1>4. \A x \in P : Answered(L, x, Len(L))
  BY DEF Subscribed
<1>5. \A i \in DOMAIN M : i = k \/ (i \in DOMAIN L /\ M[i] = L[i])
  BY <1>0
<1>11. \A i, j \in DOMAIN M : i < j => i \in DOMAIN L /\ M[i] = L[i] /\ (j = k \/ (j \in DOMAIN L /\ M[j] = L[j]))
  BY <1>0
<1>20. Answers(M, P, I, TRUE)
  <2>1. \A i \in DOMAIN M : \/ Num(M[i]) /\ M[i].type \in {"bulk", "error"}
                            \/ Arr(M[i])
    BY <1>0, <1>5 DEF Answers
  <2>2. \A i, j \in DOMAIN M : i < j /\ Num(M[i]) /\ Num(M[j]) => M[i].of < M[j].of
    BY <1>0, <1>1, <1>11 DEF Answers
  <2>3. \A i \in DOMAIN M : Num(M[i]) => M[i].of \in P \cup I
    BY <1>0, <1>1, <1>5 DEF Answers
  <2>4. \A i \in DOMAIN M : \A x \in P \cup I : Num(M[i]) /\ x < M[i].of => Answered(M, x, i - 1)
    <3>2. \A i \in DOMAIN L : \A x \in P \cup I : Num(L[i]) /\ x < L[i].of => Answered(M, x, i - 1)
      BY <1>0 DEF Answers
    <3>. QED
      BY <1>0, <1>1, <1>5, <3>2
  <2>5. \A i \in DOMAIN M : \A x \in P : Arr(M[i]) => Answered(M, x, i - 1)
    <3>1. \A x \in P : Answered(M, x, k - 1)
      BY <1>0, <1>4
    <3>2. \A i \in DOMAIN L : \A x \in P : Arr(L[i]) => Answered(M, x, i - 1)
      BY <1>0 DEF Answers
    <3>. QED
      BY <1>0, <1>5, <3>1, <3>2
  <2>. QED
    BY <2>1, <2>2, <2>3, <2>4, <2>5 DEF Answers
<1>21. Queued(M, Q, P, I, cs, TRUE)
  BY <1>0, <1>1, <1>5 DEF Queued
<1>22. Subscribed(M, Q, P, I, S, F, cs)
  BY <1>0, <1>4 DEF Subscribed
<1>23. LastCommand(M, Q, P, I, S, cs)
  <2>1. \A i \in DOMAIN M : Unsub(M[i]) => i \in DOMAIN L /\ Unsub(L[i]) /\ M[i] = L[i]
    BY <1>0, <1>5
  <2>2. ASSUME NEW i \in DOMAIN L, Unsub(L[i])
        PROVE  /\ Q = {}
               /\ \A j \in DOMAIN M : j > i => ~ Num(M[j]) /\ ~ Unsub(M[j]) /\ M[j].channel # L[i].channel
               /\ \A x \in P \cup I : Answered(M, x, i - 1)
               /\ L[i].channel \notin S
               /\ L[i].left # 0
    <3>1. /\ Q = {} /\ L[i].channel \notin S /\ L[i].left # 0
          /\ \A j \in DOMAIN L : j > i => ~ Num(L[j]) /\ ~ Unsub(L[j]) /\ L[j].channel # L[i].channel
          /\ \A x \in P \cup I : Answered(L, x, i - 1)
      BY <2>2 DEF LastCommand
    <3>2. r.channel # L[i].channel
      BY <3>1
    <3>. QED
      BY <1>0, <1>1, <1>5, <3>1, <3>2
  <2>3. \A p \in Q : cs[p].kind = "unsubscribe" =>
           (\A x \in Q : x <= p) /\ \A i \in DOMAIN M : ~ Unsub(M[i])
    BY <2>1 DEF LastCommand
  <2>. QED
    BY <2>1, <2>2, <2>3 DEF LastCommand
<1>24. Held(M, Q, ch, S, cs)
  BY <1>0, <1>5 DEF Held
<1>. QED
  BY <1>9, <1>20, <1>21, <1>22, <1>23, <1>24

\* What may stand at the front: when callbacks of replies wait, the reply of
\* the first of them, or the error of a Redis that has too many clients.
LEMMA FrontReply ==
    ASSUME NEW L \in Seq(Reply), NEW Q \in SUBSET Nat, NEW P \in SUBSET Nat, NEW I \in SUBSET Nat,
           NEW ch, NEW S, NEW F, NEW cs, NEW up \in BOOLEAN, NEW p \in P,
           Match(L, Q, P, I, ch, S, F, cs, up),
           L # <<>>, \A x \in P : p <= x
    PROVE  \/ Num(L[1]) /\ L[1].of = p /\ L[1].type \in {"bulk", "error"}
           \/ L[1] = TooManyClients /\ Len(L) = 1 /\ ~ up
<1>1. DOMAIN L = 1..Len(L) /\ 1 \in DOMAIN L /\ Len(L) \in Nat
  BY EmptySeq, LenProperties
<1>2. \A x : ~ Answered(L, x, 1 - 1)
  BY <1>1 DEF Answered
<1>3. ~ Arr(L[1])
  BY <1>1, <1>2 DEF Match, Answers
<1>4. ASSUME Num(L[1]), L[1].of # p PROVE FALSE
  <2>1. L[1].of \in P \cup I /\ L[1].of \in Nat
    BY <1>1, <1>4 DEF Match, Answers
  <2>2. p < L[1].of
    <3>1. CASE L[1].of \in P
      <4>1. p <= L[1].of /\ p \in Nat
        BY <3>1
      <4>. QED
        BY <1>4, <2>1, <4>1
    <3>2. CASE L[1].of \in I
      BY <3>2 DEF Match, Queued
    <3>. QED
      BY <2>1, <3>1, <3>2
  <2>. QED
    BY <1>1, <1>2, <1>4, <2>2 DEF Match, Answers
<1>. QED
  BY <1>1, <1>3, <1>4 DEF Match, Answers

\* When none waits, an error, what finds the callback of a channel, or the
\* reply of the first invalid command.
LEMMA FrontPushed ==
    ASSUME NEW L \in Seq(Reply), NEW Q \in SUBSET Nat, NEW P \in SUBSET Nat, NEW I \in SUBSET Nat,
           NEW ch, NEW S, NEW F, NEW cs, NEW up \in BOOLEAN,
           Match(L, Q, P, I, ch, S, F, cs, up), P = {},
           L # <<>>, L[1].type # "error"
    PROVE  /\ "SUBSCRIBED" \in F
           /\ \/ Arr(L[1]) /\ ch[L[1].channel] # NoCb
              \/ /\ Num(L[1]) /\ L[1].type = "bulk" /\ L[1].of \in I
                 /\ \A x \in I : L[1].of <= x
<1>1. DOMAIN L = 1..Len(L) /\ 1 \in DOMAIN L /\ Len(L) \in Nat
  BY EmptySeq, LenProperties
<1>2. \A x : ~ Answered(L, x, 1 - 1)
  BY <1>1 DEF Answered
<1>3. L[1] # TooManyClients
  BY DEF TooManyClients
<1>4. Arr(L[1]) \/ (Num(L[1]) /\ L[1].type = "bulk")
  BY <1>1, <1>3 DEF Match, Answers
<1>5. CASE Arr(L[1])
  BY <1>1, <1>5 DEF Match, Subscribed, Held
<1>6. CASE Num(L[1]) /\ L[1].type = "bulk"
  <2>1. L[1].of \in I /\ L[1].of \in Nat
    BY <1>1, <1>6 DEF Match, Answers
  <2>2. "SUBSCRIBED" \in F
    BY <2>1 DEF Match, Subscribed
  <2>3. ASSUME NEW x \in I PROVE L[1].of <= x
    <3>1. ~ (x < L[1].of)
      BY <1>1, <1>2, <1>6 DEF Match, Answers
    <3>2. x \in Nat
      BY <2>3
    <3>. QED
      BY <2>1, <3>1, <3>2
  <2>. QED
    BY <1>6, <2>1, <2>2, <2>3
<1>. QED
  BY <1>4, <1>5, <1>6

\* The reply at the front is handled, and the callback it was for is gone.
LEMMA MatchDrop ==
    ASSUME NEW L \in Seq(Reply), NEW Q \in SUBSET Nat, NEW P \in SUBSET Nat, NEW I \in SUBSET Nat,
           NEW ch, NEW S, NEW F, NEW cs, NEW up \in BOOLEAN, NEW p \in Nat,
           Match(L, Q, P, I, ch, S, F, cs, up),
           L # <<>>,
           \/ Num(L[1]) /\ L[1].of = p
           \/ Arr(L[1]) /\ p \notin P \cup I
           \/ L[1] = TooManyClients /\ p \in P
    PROVE  Match(Tail(L), Q, P \ {p}, I \ {p}, ch, S, F, cs, up)
<1>. DEFINE k == Len(L) - 1
<1>1. PICK T : T = Tail(L) /\ Rest(L, T)
  BY TailAnswered
<1>2. /\ T \in Seq(Reply) /\ Len(T) = k /\ k \in Nat /\ Len(L) = k + 1
      /\ DOMAIN L = 1..(k + 1) /\ DOMAIN T = 1..k
      /\ \A i \in DOMAIN T : i + 1 \in DOMAIN L /\ T[i] = L[i + 1] /\ i \in Int /\ i + 1 > 1 /\ (i + 1) - 1 = (i - 1) + 1
      /\ 1 \in DOMAIN L
  BY <1>1 DEF Rest
<1>3. \A x \in (P \ {p}) \cup (I \ {p}) : ~ (Num(L[1]) /\ L[1].of = x)
  <2>1. Num(L[1]) => ~ Arr(L[1]) /\ L[1] # TooManyClients
    BY DEF Num, Arr, TooManyClients
  <2>. QED
    BY <2>1
<1>4. ASSUME NEW x \in (P \ {p}) \cup (I \ {p}), NEW n \in Int, Answered(L, x, n + 1)
      PROVE  Answered(T, x, n)
  BY <1>1, <1>3, <1>4 DEF Rest
<1>5. ASSUME NEW x \in (P \ {p}) \cup (I \ {p}), Answered(L, x, Len(L))
      PROVE  Answered(T, x, Len(T))
  BY <1>2, <1>4, <1>5
<1>6. ASSUME NEW x \in (P \ {p}) \cup (I \ {p}), NEW i \in DOMAIN T, Answered(L, x, (i + 1) - 1)
      PROVE  Answered(T, x, i - 1)
  <2>1. i - 1 \in Int /\ (i + 1) - 1 = (i - 1) + 1
    BY <1>2
  <2>2. Answered(L, x, (i - 1) + 1)
    BY <1>6, <2>1
  <2>. QED
    BY <1>4, <2>1, <2>2
<1>. HIDE DEF k
<1>. USE DEF Match
<1>7. L[1] = TooManyClients => S = {} \/ P = {}
  <2>1. ASSUME L[1] = TooManyClients, NEW x \in P, Answered(L, x, Len(L)) PROVE FALSE
    <3>1. Len(L) = 1 /\ DOMAIN L = {1}
      <4>1. Num(L[1]) => L[1].of # NoCb
        BY DEF Num
      <4>2. ~ Num(L[1]) /\ ~ Arr(L[1])
        BY <2>1 DEF Num, Arr, TooManyClients, NoCb
      <4>3. Len(L) = 1
        BY <1>2, <4>2 DEF Answers
      <4>. QED
        BY <1>2, <4>3
    <3>2. ~ Num(L[1])
      BY <2>1 DEF Num, TooManyClients, NoCb
    <3>. QED
      BY <2>1, <3>1, <3>2 DEF Answered
  <2>. QED
    BY <2>1 DEF Subscribed
<1>8. \A i \in DOMAIN T : Num(T[i]) => T[i].of # p
  <2>1. CASE Num(L[1]) /\ L[1].of = p
    <3>1. \A i \in DOMAIN T : Num(T[i]) => p < T[i].of
      BY <1>2, <2>1 DEF Answers
    <3>. QED
      BY <3>1
  <2>2. CASE Arr(L[1]) /\ p \notin P \cup I
    BY <1>2, <2>2 DEF Answers
  <2>3. CASE L[1] = TooManyClients
    <3>1. ~ Num(L[1]) /\ ~ Arr(L[1])
      BY <2>3 DEF Num, Arr, TooManyClients, NoCb
    <3>2. Len(L) = 1
      BY <1>2, <3>1 DEF Answers
    <3>3. DOMAIN T = {}
      BY <1>2, <3>2
    <3>. QED
      BY <3>3
  <2>. QED
    BY <2>1, <2>2, <2>3
<1>9. up => \A q \in Q : q # p \/ q \notin P \cup I
  <2>1. CASE Num(L[1]) /\ L[1].of = p
    <3>1. \A q \in Q : p < q
      BY <1>2, <2>1 DEF Queued
    <3>. QED
      BY <3>1
  <2>2. CASE Arr(L[1]) /\ p \notin P \cup I
    BY <2>2
  <2>3. CASE L[1] = TooManyClients
    <3>1. ~ Num(L[1]) /\ ~ Arr(L[1])
      BY <2>3 DEF Num, Arr, TooManyClients, NoCb
    <3>2. ~ up
      BY <1>2, <3>1 DEF Answers
    <3>. QED
      BY <3>2
  <2>. QED
    BY <2>1, <2>2, <2>3
<1>20. Answers(T, P \ {p}, I \ {p}, up)
  <2>1. \A i \in DOMAIN T : \/ Num(T[i]) /\ T[i].type \in {"bulk", "error"}
                            \/ Arr(T[i])
    <3>1. \A i \in DOMAIN T : Len(L) # 1
      BY <1>2
    <3>. QED
      BY <1>2, <3>1 DEF Answers
  <2>2. \A i, j \in DOMAIN T : i < j /\ Num(T[i]) /\ Num(T[j]) => T[i].of < T[j].of
    <3>1. \A i, j \in DOMAIN T : i < j => i + 1 < j + 1
      BY <1>2
    <3>. QED
      BY <1>2, <3>1 DEF Answers
  <2>3. \A i \in DOMAIN T : Num(T[i]) => T[i].of \in (P \ {p}) \cup (I \ {p})
    BY <1>2, <1>8 DEF Answers
  <2>4. ASSUME NEW i \in DOMAIN T, NEW x \in (P \ {p}) \cup (I \ {p}), Num(T[i]), x < T[i].of
        PROVE  Answered(T, x, i - 1)
    <3>1. Answered(L, x, (i + 1) - 1)
      BY <1>2, <2>4 DEF Answers
    <3>. QED
      BY <1>6, <3>1
  <2>5. ASSUME NEW i \in DOMAIN T, NEW x \in P \ {p}, Arr(T[i])
        PROVE  Answered(T, x, i - 1)
    <3>1. Answered(L, x, (i + 1) - 1)
      BY <1>2, <2>5 DEF Answers
    <3>. QED
      BY <1>6, <3>1
  <2>. QED
    BY <2>1, <2>2, <2>3, <2>4, <2>5 DEF Answers
<1>21. Queued(T, Q, P \ {p}, I \ {p}, cs, up)
  <2>1. \A i \in DOMAIN T : \A q \in Q : Num(T[i]) => T[i].of < q
    BY <1>2 DEF Queued
  <2>2. up => \A x \in (P \ {p}) \cup (I \ {p}) : x \in Q \/ Answered(T, x, Len(T))
    BY <1>5 DEF Queued
  <2>3. up => \A q \in Q : cs[q].kind = "regular" => q \in (P \ {p}) \cup (I \ {p})
    BY <1>9 DEF Queued
  <2>. QED
    BY <2>1, <2>2, <2>3 DEF Queued
<1>22. Subscribed(T, Q, P \ {p}, I \ {p}, S, F, cs)
  <2>1. S # {} => \A x \in P \ {p} : Answered(T, x, Len(T))
    BY <1>5 DEF Subscribed
  <2>2. "SUBSCRIBED" \notin F => \A i \in DOMAIN T : ~ Arr(T[i])
    BY <1>2 DEF Subscribed
  <2>. QED
    BY <2>1, <2>2 DEF Subscribed
<1>23. LastCommand(T, Q, P \ {p}, I \ {p}, S, cs)
  <2>1. \A q \in Q : cs[q].kind = "unsubscribe" =>
           (\A x \in Q : x <= q) /\ \A i \in DOMAIN T : ~ Unsub(T[i])
    BY <1>2 DEF LastCommand
  <2>2. ASSUME NEW i \in DOMAIN T, Unsub(T[i])
        PROVE  /\ Q = {}
               /\ \A j \in DOMAIN T : j > i => ~ Num(T[j]) /\ ~ Unsub(T[j]) /\ T[j].channel # T[i].channel
               /\ \A x \in (P \ {p}) \cup (I \ {p}) : Answered(T, x, i - 1)
               /\ T[i].channel \notin S
               /\ T[i].left = 0 => i = Len(T) /\ S = {}
    <3>1. /\ Q = {} /\ L[i + 1].channel \notin S
          /\ \A j \in DOMAIN L : j > i + 1 => ~ Num(L[j]) /\ ~ Unsub(L[j]) /\ L[j].channel # L[i + 1].channel
          /\ \A x \in P \cup I : Answered(L, x, (i + 1) - 1)
          /\ L[i + 1].left = 0 => i + 1 = Len(L) /\ S = {}
      BY <1>2, <2>2 DEF LastCommand
    <3>2. \A j \in DOMAIN T : j > i => j + 1 > i + 1
      BY <1>2
    <3>3. \A x \in (P \ {p}) \cup (I \ {p}) : Answered(T, x, i - 1)
      BY <1>6, <3>1
    <3>4. i + 1 = Len(L) => i = Len(T)
      BY <1>2
    <3>. QED
      BY <1>2, <3>1, <3>2, <3>3, <3>4
  <2>. QED
    BY <2>1, <2>2 DEF LastCommand
<1>24. Held(T, Q, ch, S, cs)
  <2>1. \A i \in DOMAIN L : Arr(L[i]) => ch[L[i].channel] # NoCb
    BY DEF Held
  <2>2. \A i \in DOMAIN T : Arr(T[i]) => ch[T[i].channel] # NoCb
    BY <1>2, <2>1
  <2>. QED
    BY <2>2 DEF Held
<1>. QED
  BY <1>1, <1>20, <1>21, <1>22, <1>23, <1>24

\* The reply to an UNSUBSCRIBE is handled: its channel has no callback any
\* more, and after the last one the connection is in no subscribed mode.
LEMMA MatchUnsubscribed ==
    ASSUME NEW L \in Seq(Reply), NEW Q \in SUBSET Nat, NEW P \in SUBSET Nat, NEW I \in SUBSET Nat,
           NEW ch, NEW S \in SUBSET Channels, NEW F, NEW cs, NEW up \in BOOLEAN, NEW dh, NEW G,
           Match(L, Q, P, I, ch, S, F, cs, up),
           Match(Tail(L), Q, P, I, ch, S, F, cs, up),
           L # <<>>, Unsub(L[1]),
           \A c \in Channels : c # L[1].channel => dh[c] = ch[c],
           L[1].left # 0 => G = F
    PROVE  Match(Tail(L), Q, P, I, dh, S, G, cs, up)
<1>1. PICK T : T = Tail(L) /\ Rest(L, T)
  BY TailAnswered
<1>2. /\ DOMAIN L = 1..Len(L) /\ DOMAIN T = 1..(Len(L) - 1) /\ 1 \in DOMAIN L /\ Len(L) \in Nat
      /\ \A i \in DOMAIN T : i + 1 \in DOMAIN L /\ T[i] = L[i + 1] /\ i + 1 > 1
  BY <1>1 DEF Rest
<1>3. /\ Q = {} /\ L[1].channel \notin S
      /\ \A j \in DOMAIN L : j > 1 => L[j].channel # L[1].channel
      /\ \A x \in P \cup I : Answered(L, x, 1 - 1)
      /\ L[1].left = 0 => 1 = Len(L) /\ S = {}
  BY <1>2 DEF Match, LastCommand
<1>4. P \cup I = {}
  BY <1>2, <1>3 DEF Answered
<1>5. \A i \in DOMAIN T : T[i].channel # L[1].channel
  BY <1>2, <1>3
<1>6. Held(T, Q, dh, S, cs)
  <2>1. \A i \in DOMAIN L : Arr(L[i]) => L[i].channel \in Channels
    BY ReplyKinds, LenProperties, ElementOfSeq
  <2>2. \A i \in DOMAIN T : Arr(T[i]) => T[i].channel \in Channels
    BY <1>2, <2>1
  <2>. QED
    BY <1>1, <1>3, <1>5, <2>2 DEF Match, Held
<1>7. Subscribed(T, Q, P, I, S, G, cs)
  <2>1. CASE L[1].left = 0
    <3>1. Len(L) = 1 /\ S = {}
      BY <1>3, <2>1
    <3>2. DOMAIN T = {}
      BY <1>2, <3>1
    <3>. QED
      BY <1>3, <1>4, <3>1, <3>2 DEF Subscribed
  <2>2. CASE L[1].left # 0
    BY <1>1, <2>2 DEF Match
  <2>. QED
    BY <2>1, <2>2
<1>. QED
  BY <1>1, <1>6, <1>7 DEF Match

-----------------------------------------------------------------------------
(***************************************************************************)
(* The invariant of a careful application: while the context lives, its    *)
(* pipeline is as above; a MONITOR has the connection for itself.          *)
(***************************************************************************)
Processing == pc = "process" \/ (pc = "callback" /\ caller = "process")
Live == pc = "idle" \/ Processing

Sent == got \o back
Queue == wire \o obuf

Lined ==
    /\ Rising(Queue) /\ Rising(replies) /\ Rising(invalid) /\ NoCb \notin Range(replies)
    /\ Match(Sent, Range(Queue), Range(replies), Range(invalid), channels, subs, flags, cmds, open)

Mon(x) == x = NoCb \/ cmds[x].kind = "monitor"

\* Nothing arrives any more.
Dead == ~ open /\ got = <<>> /\ back = <<>> /\ ~ Processing

\* Whatever is pending or arrives is the monitor's.
Alone ==
    /\ \A x \in Range(replies) \cup Range(wire) \cup Range(obuf) : Mon(x)
    /\ Processing => Mon(cb)
    /\ \A r \in Range(got) \cup Range(back) : r.type \in {"status", "line"} \/ r = TooManyClients

Watching ==
    /\ "SUBSCRIBED" \notin flags /\ "MONITORING" \in flags
    /\ subs = {} /\ invalid = <<>>
    /\ Dead \/ Alone

Connection ==
    /\ pc = "idle" => got = <<>>
    /\ ~ open \/ sock # "up" => wire = <<>>
    /\ sock = "connecting" => back = <<>> /\ open /\ subs = {} /\ ~ monitored
    /\ monitored => Issued("monitor")

LiveInv ==
    Live =>
        /\ Connection
        /\ Issued("monitor") => Watching
        /\ ~ Issued("monitor") => "MONITORING" \notin flags /\ Lined

LEMMA LineType ==
    ASSUME TypeOK
    PROVE  /\ got \in Seq(Reply) /\ back \in Seq(Reply) /\ Sent \in Seq(Reply)
           /\ wire \in Seq(Command) /\ obuf \in Seq(Command) /\ Queue \in Seq(Command)
           /\ wire \in Seq(Nat) /\ obuf \in Seq(Nat)
           /\ Queue \in Seq(Nat) /\ replies \in Seq(Nat) /\ invalid \in Seq(Nat)
           /\ Range(Queue) \in SUBSET Nat /\ Range(replies) \in SUBSET Nat /\ Range(invalid) \in SUBSET Nat
           /\ Range(Queue) = Range(wire) \cup Range(obuf)
           /\ open \in BOOLEAN
<1>1. /\ got \in Seq(Reply) /\ back \in Seq(Reply) /\ wire \in Seq(Command) /\ obuf \in Seq(Command)
      /\ replies \in Seq(Command \cup {NoCb}) /\ invalid \in Seq(Command) /\ open \in BOOLEAN
  BY DEF TypeOK
<1>2. got \o back \in Seq(Reply) /\ wire \o obuf \in Seq(Command)
  BY <1>1, ConcatProperties
<1>3. Range(wire \o obuf) = Range(wire) \cup Range(obuf)
  BY <1>1, RangeConcatenation
<1>4. Command \subseteq Nat /\ Command \cup {NoCb} \subseteq Nat
  BY CommandNumbers DEF NoCb
<1>5. \A s : s \in Seq(Command) \/ s \in Seq(Command \cup {NoCb}) => s \in Seq(Nat)
  BY <1>4
<1>6. ASSUME NEW s \in Seq(Nat) PROVE Range(s) \in SUBSET Nat
  BY RangeOfSeq
<1>7. wire \in Seq(Nat) /\ obuf \in Seq(Nat) /\ wire \o obuf \in Seq(Nat) /\ replies \in Seq(Nat) /\ invalid \in Seq(Nat)
  BY <1>1, <1>2, <1>5
<1>. QED
  BY <1>1, <1>2, <1>3, <1>6, <1>7 DEF Sent, Queue

LEMMA LiveInit ==
    ASSUME Init
    PROVE  LiveInv
<1>1. <<>> \o <<>> = <<>>
  BY ConcatEmptySeq, EmptySeq
<1>2. Sent = <<>> /\ Queue = <<>> /\ replies = <<>> /\ invalid = <<>>
  BY <1>1 DEF Init, Sent, Queue
<1>3. DOMAIN <<>> = {} /\ Range(<<>>) = {}
  BY EmptySeq DEF Range
<1>4. Rising(<<>>)
  BY <1>3 DEF Rising
<1>5. Match(<<>>, {}, {}, {}, channels, {}, flags, cmds, open)
  BY <1>3 DEF Match, Answers, Queued, Subscribed, LastCommand, Held
<1>6. subs = {} /\ flags = {} /\ cmds = <<>>
  BY DEF Init
<1>7. Lined
  BY <1>2, <1>3, <1>4, <1>5, <1>6 DEF Lined
<1>8. ~ Issued("monitor")
  BY <1>3, <1>6 DEF Issued
<1>9. Connection
  BY DEF Init, Connection
<1>. QED
  BY <1>6, <1>7, <1>8, <1>9 DEF LiveInv

\* A context that is being freed does not come back to life.
LEMMA LiveBefore ==
    ASSUME TypeOK, ControlInv, [Next]_vars, Live'
    PROVE  Live
<1>1. CASE UNCHANGED vars
  BY <1>1 DEF vars, context, control, Live, Processing
<1>2. CASE \E kind \in Kind, channel \in Channels : redisAsyncCommand(kind, channel)
  BY <1>2 DEF redisAsyncCommand, control, Live, Processing
<1>3. ASSUME NEW f, NEW e, Disconnect(f, e) PROVE FALSE
  BY <1>3 DEF Disconnect, Live, Processing
<1>4. CASE redisAsyncDisconnect \/ HandleConnectFails \/ redisAsyncHandleWrite \/ redisAsyncHandleRead
  BY <1>3, <1>4 DEF redisAsyncDisconnect, HandleConnectFails, redisAsyncHandleWrite, redisAsyncHandleRead, Live, Processing
<1>5. CASE redisAsyncFree
  BY <1>5 DEF redisAsyncFree, Live, Processing
<1>6. CASE NoReply \/ RegularReply \/ SpontaneousError \/ PushedReply
  BY <1>6 DEF NoReply, RegularReply, SpontaneousError, PushedReply, Live, Processing
<1>7. CASE CallbackReturns
  <2>1. caller' = caller /\ pc = "callback" /\ pc' \in {"freeReplies", caller}
    BY <1>7 DEF CallbackReturns
  <2>2. caller \in {"process"} \cup FreeLoop
    BY DEF TypeOK
  <2>. QED
    BY <2>1, <2>2 DEF Live, Processing, FreeLoop
<1>8. CASE FreeCallback
  <2>1. pc \in FreeLoop /\ (pc' = pc \/ (pc' = "callback" /\ caller' \in FreeLoop))
    BY <1>8 DEF FreeCallback, RunCallback, InReplies, InInvalid, InChannels, FreeLoop
  <2>. QED
    BY <2>1 DEF Live, Processing, FreeLoop
<1>9. CASE FreeContext
  BY <1>9 DEF FreeContext, Live, Processing
<1>10. CASE ConnectEnds \/ Execute \/ Push \/ Close
  BY <1>10 DEF ConnectEnds, Execute, Push, Close, context, control, Live, Processing
<1>. QED
  BY <1>1, <1>2, <1>4, <1>5, <1>6, <1>7, <1>8, <1>9, <1>10, Steps DEF Step

\* A step that touches nothing of the pipeline.
Quiet ==
    /\ UNCHANGED <<got, back, wire, obuf, replies, invalid, channels, subs, open, sock, monitored, cmds, cb>>
    /\ "SUBSCRIBED" \in flags' <=> "SUBSCRIBED" \in flags
    /\ "MONITORING" \in flags' <=> "MONITORING" \in flags
    /\ Processing' => Processing
    /\ pc' = "idle" => pc = "idle" \/ got = <<>>

LEMMA MatchFlags ==
    ASSUME NEW L, NEW Q, NEW P, NEW I, NEW ch, NEW S, NEW F, NEW G, NEW cs, NEW up,
           "SUBSCRIBED" \in G <=> "SUBSCRIBED" \in F
    PROVE  Match(L, Q, P, I, ch, S, F, cs, up) => Match(L, Q, P, I, ch, S, G, cs, up)
<1>1. Subscribed(L, Q, P, I, S, F, cs) => Subscribed(L, Q, P, I, S, G, cs)
  BY DEF Subscribed
<1>. QED
  BY <1>1 DEF Match

LEMMA LiveQuiet ==
    ASSUME LiveInv, Live, Quiet
    PROVE  LiveInv'
<1>1. Connection'
  BY DEF LiveInv, Connection, Quiet, Issued
<1>2. Issued("monitor")' <=> Issued("monitor")
  BY DEF Issued, Quiet
<1>3. Issued("monitor") => Watching'
  <2>1. (Alone => Alone') /\ (Dead => Dead')
    BY DEF Quiet, Alone, Dead, Mon
  <2>. QED
    BY <2>1 DEF LiveInv, Watching, Quiet
<1>4. ~ Issued("monitor") => "MONITORING" \notin flags' /\ Lined'
  <2>1. ASSUME Lined PROVE Lined'
    <3>1. Sent' = Sent /\ Queue' = Queue
      BY DEF Quiet, Sent, Queue
    <3>2. Match(Sent, Range(Queue), Range(replies), Range(invalid), channels, subs, flags', cmds, open)
      BY <2>1, MatchFlags DEF Quiet, Lined
    <3>. QED
      BY <2>1, <3>1, <3>2 DEF Quiet, Lined
  <2>. QED
    BY <2>1 DEF LiveInv, Quiet
<1>. QED
  BY <1>1, <1>2, <1>3, <1>4 DEF LiveInv

-----------------------------------------------------------------------------
(***************************************************************************)
(* The steps under a MONITOR.                                              *)
(***************************************************************************)
\* What comes and goes is the monitor's.
LEMMA WatchingStays ==
    ASSUME Watching, cmds' = cmds, subs' = subs, invalid' = invalid,
           "SUBSCRIBED" \notin flags', "MONITORING" \in flags',
           \A x \in Range(replies') \cup Range(wire') \cup Range(obuf') :
               Alone => Mon(x),
           Processing' => Alone /\ Mon(cb'),
           \A r \in Range(got') \cup Range(back') : Alone => r.type \in {"status", "line"} \/ r = TooManyClients,
           Dead => ~ open' /\ got' = <<>> /\ back' = <<>>
    PROVE  Watching'
<1>1. \A x : Mon(x)' <=> Mon(x)
  BY DEF Mon
<1>2. CASE Alone
  <2>1. Alone'
    BY <1>1, <1>2 DEF Alone
  <2>. QED
    BY <2>1 DEF Watching
<1>3. CASE Dead
  <2>1. Dead' \/ Alone
    BY <1>3 DEF Dead
  <2>. QED
    BY <1>2, <2>1 DEF Watching
<1>. QED
  BY <1>2, <1>3 DEF Watching

LEMMA WatchStep ==
    ASSUME TypeOK, Known, LiveInv, Live, Step, Live', Watching
    PROVE  Watching' \/ Quiet
<1>. USE DEF Watching
<1>0. cmds' = cmds /\ Connection
  BY StepKeepsCommands DEF LiveInv
<1>1. \A x \in Range(wire') \cup Range(obuf') : x \in Range(wire) \cup Range(obuf)
  BY BytesMove
<1>2. Alone => \A x \in Range(replies) \cup Range(wire') \cup Range(obuf') : Mon(x)
  BY <1>1 DEF Alone
<1>3. Range(<<>>) = {}
  BY EmptySeq DEF Range
<1>4. Processing => Alone
  BY DEF Dead
<1>5. ASSUME NEW f, NEW e, Disconnect(f, e) PROVE FALSE
  BY <1>5 DEF Disconnect, Live, Processing
<1>6. CASE redisAsyncDisconnect \/ redisAsyncFree \/ CallbackReturns
  BY <1>5, <1>6 DEF redisAsyncDisconnect, redisAsyncFree, CallbackReturns, Quiet, Live, Processing, lists, redis
<1>7. CASE redisAsyncHandleWrite
  <2>1. /\ flags' = flags \cup {"CONNECTED"} /\ pc = "idle" /\ pc' = pc
        /\ UNCHANGED <<got, back, replies, invalid, subs, open, cb>>
    BY <1>5, <1>7 DEF redisAsyncHandleWrite, lists
  <2>. QED
    BY <1>0, <1>2, <2>1, WatchingStays DEF Processing, Alone, Dead
<1>8. CASE redisAsyncHandleRead
  <2>1. PICK k \in 0..Len(back) :
           /\ back # <<>> /\ got' = SubSeq(back, 1, k) /\ back' = SubSeq(back, k + 1, Len(back))
           /\ cb' = NoCb /\ flags' = flags /\ UNCHANGED <<replies, invalid, subs>>
    BY <1>5, <1>8 DEF redisAsyncHandleRead, lists
  <2>2. Range(got') \subseteq Range(back) /\ Range(back') \subseteq Range(back)
    BY <2>1, CutType DEF TypeOK
  <2>3. Alone
    BY <2>1 DEF Dead
  <2>4. Mon(cb')
    BY <2>1 DEF Mon
  <2>. QED
    BY <1>0, <1>2, <2>1, <2>2, <2>3, <2>4, WatchingStays DEF Alone, Dead
<1>9. CASE NoReply
  <2>1. /\ replies' = Append(replies, cb) /\ pc' = "idle" /\ pc = "process" /\ flags' = flags
        /\ UNCHANGED <<got, back, invalid, subs, open>>
    BY <1>5, <1>9 DEF NoReply, Kept, redis
  <2>2. Alone /\ Mon(cb)
    BY <1>4, <2>1 DEF Processing, Alone
  <2>3. Range(replies') = Range(replies) \cup {cb}
    <3>1. replies \in Seq(Command \cup {NoCb}) /\ cb \in Command \cup {NoCb}
      BY DEF TypeOK
    <3>2. Range(Append(replies, cb)) = Range(replies) \cup {cb}
      BY <3>1, AppendRange
    <3>. QED
      BY <2>1, <3>2
  <2>. QED
    BY <1>0, <1>2, <2>1, <2>2, <2>3, WatchingStays DEF Alone, Dead, Processing
<1>10. CASE RegularReply
  <2>1. /\ Head(replies) \in Range(replies) /\ Range(replies') \subseteq Range(replies)
        /\ Range(got') \subseteq Range(got)
    BY <1>10, HeadTail DEF TypeOK, RegularReply, Deliver
  <2>2. Alone /\ pc = "process"
    BY <1>4, <1>10 DEF Processing, RegularReply
  <2>3. cb' = Head(replies) /\ flags' \in {flags, flags \cup {"IN_CALLBACK"}} /\ UNCHANGED <<back, invalid, subs, open>>
    BY <1>10 DEF RegularReply, Deliver, redis
  <2>4. Mon(cb')
    BY <2>1, <2>2, <2>3 DEF Alone
  <2>. QED
    BY <1>0, <1>2, <2>1, <2>2, <2>3, <2>4, WatchingStays DEF Alone, Dead, Processing
<1>11. CASE PushedReply
  <2>1. pc = "process" /\ got # <<>> /\ UNCHANGED <<replies, back, subs, open>>
    BY <1>11 DEF PushedReply, redis
  <2>2. pc' # "aborted"
    BY DEF Live, Processing
  <2>3. Deliver(cb, flags) /\ UNCHANGED <<invalid, channels>>
    BY <1>11, <2>2 DEF PushedReply
  <2>4. Alone /\ Mon(cb) /\ Range(got') \subseteq Range(got) /\ cb' = cb
    BY <1>4, <2>1, <2>3, HeadTail DEF TypeOK, Deliver, Processing, Alone
  <2>5. flags' \in {flags, flags \cup {"IN_CALLBACK"}}
    BY <2>3 DEF Deliver
  <2>. QED
    BY <1>0, <1>2, <2>1, <2>3, <2>4, <2>5, WatchingStays DEF Alone, Dead, Processing
<1>12. CASE ConnectEnds
  <2>1. sock = "connecting" /\ pc = "idle" /\ UNCHANGED <<context, wire, subs>> /\ back' \in {back, <<TooManyClients>>}
    BY <1>12 DEF ConnectEnds
  <2>2. open /\ Alone /\ ~ Dead
    BY <1>0, <2>1 DEF Connection, Dead
  <2>3. UNCHANGED <<flags, got, replies, invalid, obuf, cb, pc, caller>>
    BY <2>1 DEF context, lists, control
  <2>4. Range(<<TooManyClients>>) = {TooManyClients}
    BY DEF Range
  <2>. QED
    BY <1>0, <1>2, <2>1, <2>2, <2>3, <2>4, WatchingStays DEF Alone, Processing
<1>13. CASE Execute
  <2>1. pc = "idle" /\ open /\ wire # <<>> /\ UNCHANGED <<flags, got, replies, invalid, obuf, cb, pc, caller, open>>
    BY <1>13 DEF Execute, context, lists, control
  <2>2. PICK r \in Reply : Answer(Head(wire), r) /\ back' = Append(back, r)
    BY <1>13 DEF Execute
  <2>3. Alone /\ ~ Dead
    BY <2>1 DEF Dead
  <2>4. Head(wire) \in Range(wire) /\ Head(wire) \in Command
    BY <2>1, HeadTail DEF TypeOK
  <2>5. cmds[Head(wire)].kind = "monitor"
    BY <2>3, <2>4, CommandNumbers DEF Alone, Mon
  <2>6. r.type = "status" /\ subs' = subs
    BY <2>2, <2>5 DEF Answer
  <2>7. Range(back') = Range(back) \cup {r}
    BY <2>2, AppendRange DEF TypeOK
  <2>. QED
    BY <1>0, <1>2, <2>1, <2>3, <2>6, <2>7, WatchingStays DEF Alone, Processing
<1>14. CASE Push
  <2>1. pc = "idle" /\ open /\ UNCHANGED <<flags, got, replies, invalid, obuf, wire, cb, pc, caller, open, subs>>
    BY <1>14 DEF Push, context, lists, control
  <2>2. PICK r \in Reply : r.type = "line" /\ back' = Append(back, r)
    BY <1>14 DEF Push
  <2>3. Alone /\ ~ Dead
    BY <2>1 DEF Dead
  <2>4. Range(back') = Range(back) \cup {r}
    BY <2>2, AppendRange DEF TypeOK
  <2>. QED
    BY <1>0, <1>2, <2>1, <2>2, <2>3, <2>4, WatchingStays DEF Alone, Processing
<1>15. CASE Close
  <2>1. pc = "idle" /\ open /\ UNCHANGED <<flags, got, replies, invalid, obuf, back, cb, pc, caller, subs>>
    BY <1>15 DEF Close, context, lists, control
  <2>2. Alone /\ ~ Dead
    BY <2>1 DEF Dead
  <2>. QED
    BY <1>0, <1>2, <2>1, <2>2, WatchingStays DEF Alone, Processing
<1>16. CASE HandleConnectFails \/ SpontaneousError
  BY <1>5, <1>16 DEF HandleConnectFails, SpontaneousError
<1>17. CASE FreeCallback \/ FreeContext
  <2>1. pc \in FreeLoop
    BY <1>17 DEF FreeCallback, FreeContext, InReplies, InInvalid, InChannels, FreeLoop
  <2>. QED
    BY <2>1 DEF Live, Processing, FreeLoop
<1>. QED
  BY <1>6, <1>7, <1>8, <1>9, <1>10, <1>11, <1>12, <1>13, <1>14, <1>15, <1>16, <1>17 DEF Step

-----------------------------------------------------------------------------
(***************************************************************************)
(* The steps without one.                                                  *)
(***************************************************************************)
\* The commands of the queue and of the callbacks are known.
LEMMA KnownLine ==
    ASSUME TypeOK, Known
    PROVE  /\ \A x \in Range(Queue) : x \in DOMAIN cmds
           /\ \A x \in Range(invalid) : x \in DOMAIN cmds
           /\ \A x \in Range(replies) : x = NoCb \/ x \in DOMAIN cmds
BY LineType DEF Known

LEMMA LineRead ==
    ASSUME TypeOK, Lined, NEW k \in 0..Len(back), got = <<>>,
           got' = SubSeq(back, 1, k), back' = SubSeq(back, k + 1, Len(back)),
           UNCHANGED <<wire, obuf, replies, invalid, channels, subs, flags, cmds, open>>
    PROVE  Lined'
<1>1. Sent = back
  BY LineType, ConcatEmptySeq DEF Sent
<1>2. SubSeq(back, 1, k) \o SubSeq(back, k + 1, Len(back)) = back
  BY LineType, CutJoin
<1>3. Sent' = Sent /\ Queue' = Queue
  BY <1>1, <1>2 DEF Sent, Queue
<1>. QED
  BY <1>3 DEF Lined

LEMMA LineWrite ==
    ASSUME TypeOK, Lined, NEW k \in 0..Len(obuf), ~ open => wire = <<>>,
           wire' = IF open THEN wire \o SubSeq(obuf, 1, k) ELSE wire,
           obuf' = SubSeq(obuf, k + 1, Len(obuf)),
           "SUBSCRIBED" \in flags' <=> "SUBSCRIBED" \in flags,
           UNCHANGED <<got, back, replies, invalid, channels, subs, cmds, open>>
    PROVE  Lined'
<1>1. Sent' = Sent
  BY DEF Sent
<1>2. /\ SubSeq(obuf, 1, k) \in Seq(Command) /\ SubSeq(obuf, k + 1, Len(obuf)) \in Seq(Command)
      /\ Range(SubSeq(obuf, k + 1, Len(obuf))) \subseteq Range(obuf)
  BY LineType, CutType
<1>3. SubSeq(obuf, 1, k) \o SubSeq(obuf, k + 1, Len(obuf)) = obuf
  BY LineType, CutJoin
<1>4. CASE open
  <2>1. (wire \o SubSeq(obuf, 1, k)) \o SubSeq(obuf, k + 1, Len(obuf)) = wire \o obuf
    <3>1. PICK u \in Seq(Command), v \in Seq(Command) :
             u = SubSeq(obuf, 1, k) /\ v = SubSeq(obuf, k + 1, Len(obuf))
      BY <1>2
    <3>2. wire \in Seq(Command)
      BY LineType
    <3>3. PICK w \in Seq(Command) : w = wire
      BY <3>2
    <3>4. (w \o u) \o v = w \o (u \o v)
      BY ConcatAssociative
    <3>. QED
      BY <1>3, <3>1, <3>3, <3>4
  <2>2. Queue' = Queue
    BY <1>4, <2>1 DEF Queue
  <2>3. Match(Sent, Range(Queue), Range(replies), Range(invalid), channels, subs, flags', cmds, open)
    BY MatchFlags DEF Lined
  <2>. QED
    BY <1>1, <2>2, <2>3 DEF Lined
<1>5. CASE ~ open
  <2>1. Queue = obuf /\ wire = <<>>
    BY <1>5, LineType, ConcatEmptySeq DEF Queue
  <2>2. Queue' = SubSeq(obuf, k + 1, Len(obuf))
    BY <1>2, <1>5, <2>1, ConcatEmptySeq DEF Queue
  <2>3. obuf \in Seq(Nat) /\ k \in 0..Len(obuf)
    BY <2>1, LineType
  <2>9. Rising(obuf)
    BY <2>1 DEF Lined
  <2>4. Rising(Queue')
    BY <2>2, <2>3, <2>9, CutOrder, PieceOrder
  <2>5. Range(Queue') \in SUBSET Range(Queue)
    BY <1>2, <2>1, <2>2
  <2>6. Match(Sent, Range(Queue), Range(replies), Range(invalid), channels, subs, flags', cmds, open)
    BY MatchFlags DEF Lined
  <2>7. open = FALSE
    BY <1>5, LineType
  <2>8. Match(Sent, Range(Queue'), Range(replies), Range(invalid), channels, subs, flags', cmds, FALSE)
    BY <2>5, <2>6, LineType, MatchLose
  <2>. QED
    BY <1>1, <2>4, <2>7, <2>8 DEF Lined
<1>. QED
  BY <1>4, <1>5

LEMMA LineClose ==
    ASSUME TypeOK, Lined, open' = FALSE, wire' = <<>>,
           UNCHANGED <<got, back, obuf, replies, invalid, channels, subs, flags, cmds>>
    PROVE  Lined'
<1>1. Sent' = Sent
  BY DEF Sent
<1>2. Queue' = obuf
  BY LineType, ConcatEmptySeq DEF Queue
<1>3. Rising(obuf)
  <2>1. wire \in Seq(Nat) /\ obuf \in Seq(Nat)
    BY LineType
  <2>. DEFINE n == Len(wire)
  <2>2. PICK q \in Seq(Nat) : q = Queue
    BY LineType
  <2>3. /\ Len(wire) \in Nat /\ Len(obuf) \in Nat /\ DOMAIN obuf = 1..Len(obuf)
        /\ DOMAIN q = 1..(Len(wire) + Len(obuf))
        /\ \A i \in 1..(Len(wire) + Len(obuf)) : q[i] = IF i <= Len(wire) THEN wire[i] ELSE obuf[i - Len(wire)]
    BY <2>1, <2>2, ConcatProperties, LenProperties DEF Queue
  <2>4. ASSUME NEW i \in 1..Len(obuf) PROVE i + n \in DOMAIN q /\ q[i + n] = obuf[i]
    <3>1. i + n \in 1..(Len(wire) + Len(obuf)) /\ ~ (i + n <= Len(wire)) /\ (i + n) - Len(wire) = i
      BY <2>3, <2>4
    <3>. QED
      BY <2>3, <3>1
  <2>5. ASSUME NEW i \in 1..Len(obuf), NEW j \in 1..Len(obuf), i < j PROVE i + n < j + n
    BY <2>3, <2>5
  <2>6. Rising(q)
    BY <2>2 DEF Lined
  <2>. QED
    BY <2>3, <2>4, <2>5, <2>6 DEF Rising
<1>4. Range(obuf) \in SUBSET Range(Queue)
  BY LineType
<1>5. Match(Sent, Range(obuf), Range(replies), Range(invalid), channels, subs, flags, cmds, FALSE)
  BY <1>4, LineType, MatchLose DEF Lined
<1>. QED
  BY <1>1, <1>2, <1>3, <1>5 DEF Lined

\* A Redis that has too many clients.
LEMMA LineRefused ==
    ASSUME TypeOK, Lined, open, got = <<>>, back = <<>>, wire = <<>>,
           open' = FALSE, back' = <<TooManyClients>>,
           UNCHANGED <<got, obuf, wire, replies, invalid, channels, subs, flags, cmds>>
    PROVE  Lined'
<1>. DEFINE N == <<TooManyClients>>
            Q == Range(Queue)
            P == Range(replies)
            I == Range(invalid)
<1>1. <<>> \o <<>> = <<>> /\ N \in Seq(Reply) /\ <<>> \o N = N
  BY EmptySeq, ConcatEmptySeq DEF Reply
<1>2. Sent = <<>> /\ Sent' = N /\ Queue' = Queue
  BY <1>1 DEF Sent, Queue
<1>3. DOMAIN <<>> = {} /\ DOMAIN N = {1} /\ N[1] = TooManyClients /\ Len(N) = 1
  BY EmptySeq
<1>. HIDE DEF N, Q, P, I
<1>4. Match(<<>>, Q, P, I, channels, subs, flags, cmds, open)
  BY <1>2 DEF Lined, Q, P, I
<1>5. ~ Num(TooManyClients) /\ ~ Arr(TooManyClients) /\ ~ Unsub(TooManyClients)
  BY DEF Num, Arr, Unsub, TooManyClients, NoCb
<1>6. \A x, n : ~ Answered(<<>>, x, n)
  BY <1>3 DEF Answered
<1>7. Answers(N, P, I, FALSE)
  BY <1>3, <1>5 DEF Answers
<1>8. Queued(N, Q, P, I, cmds, FALSE)
  BY <1>3, <1>4, <1>5 DEF Match, Queued
<1>9. Subscribed(N, Q, P, I, subs, flags, cmds)
  BY <1>3, <1>4, <1>5, <1>6 DEF Match, Subscribed
<1>10. LastCommand(N, Q, P, I, subs, cmds) /\ Held(N, Q, channels, subs, cmds)
  BY <1>3, <1>4, <1>5 DEF Match, LastCommand, Held
<1>11. Match(N, Q, P, I, channels, subs, flags, cmds, FALSE)
  BY <1>7, <1>8, <1>9, <1>10 DEF Match
<1>. QED
  BY <1>2, <1>11 DEF Lined, Q, P, I

LEMMA LineExecute ==
    ASSUME TypeOK, Known, Lined, ~ Issued("monitor"), Execute, got = <<>>
    PROVE  Lined'
<1>1. /\ open /\ wire # <<>> /\ wire' = Tail(wire) /\ UNCHANGED <<context, open>>
      /\ wire \in Seq(Command)
  BY DEF Execute, TypeOK
<1>2. PICK r \in Reply : Answer(Head(wire), r) /\ back' = Append(back, r)
  BY DEF Execute
<1>3. UNCHANGED <<got, obuf, replies, invalid, channels, flags, cmds, open>>
  BY <1>1 DEF context, lists
<1>4. /\ Queue # <<>> /\ Head(Queue) = Head(wire) /\ Queue' = Tail(Queue)
  BY <1>1, <1>3, LineType, JoinHead DEF Queue
<1>5. Sent' = Append(Sent, r)
  BY <1>2, <1>3, LineType, JoinAppend DEF Sent
<1>. DEFINE q == Head(Queue)
<1>6. /\ Rising(Queue') /\ q \in Range(Queue) /\ Range(Queue') = Range(Queue) \ {q}
      /\ \A p \in Range(Queue) : q <= p
  BY <1>4, LineType, RisingHead DEF Lined
<1>. HIDE DEF q
<1>7. q \in DOMAIN cmds /\ q = Head(wire) /\ q \in Command
  BY <1>1, <1>4, <1>6, KnownLine, HeadTail DEF q
<1>8. cmds[q].kind \in Kind /\ cmds[q].kind # "monitor"
  <2>. DEFINE C == [kind : Kind, channel : Channels, subscribed : BOOLEAN]
  <2>1. cmds \in Seq(C)
    BY DEF TypeOK
  <2>2. cmds[q] \in C
    <3>. HIDE DEF C
    <3>1. q \in 1..Len(cmds)
      BY <1>7, <2>1, LenProperties
    <3>. QED
      BY <2>1, <3>1, ElementOfSeq
  <2>. QED
    BY <1>7, <2>2 DEF Issued
<1>9. Replied(q, r, subs, subs', cmds)
  <2>1. CASE r = [type |-> "bulk", of |-> q] /\ cmds[q].kind = "regular" /\ UNCHANGED subs
    BY <1>7, <2>1, CommandNumbers DEF Replied, Num
  <2>2. CASE r = [type |-> "error", of |-> q] /\ cmds[q].kind \in {"regular", "monitor"} /\ UNCHANGED subs
    BY <1>7, <1>8, <2>2, CommandNumbers DEF Replied, Num
  <2>3. CASE /\ cmds[q].kind = "subscribe" /\ subs' = subs \cup {cmds[q].channel}
             /\ r = [type |-> "array", what |-> cmds[q].kind, channel |-> cmds[q].channel,
                     left |-> Cardinality(subs')]
    <3>1. r.type = "array" /\ r.what = "subscribe" /\ r.channel = cmds[q].channel
      BY <2>3
    <3>. QED
      BY <2>3, <3>1 DEF Replied, Arr
  <2>4. CASE /\ cmds[q].kind = "unsubscribe" /\ subs' = subs \ {cmds[q].channel}
             /\ r = [type |-> "array", what |-> cmds[q].kind, channel |-> cmds[q].channel,
                     left |-> Cardinality(subs')]
    <3>1. r.type = "array" /\ r.what = "unsubscribe" /\ r.channel = cmds[q].channel /\ r.left = Cardinality(subs')
      BY <2>4
    <3>2. IsFiniteSet(subs')
      <4>1. subs' \in SUBSET Channels
        BY <2>4 DEF TypeOK
      <4>. QED
        BY <4>1, ConstantsAssumption, FS_Subset
    <3>3. r.left = 0 => subs' = {}
      BY <3>1, <3>2, FS_EmptySet
    <3>. QED
      BY <2>4, <3>1, <3>3 DEF Replied, Arr
  <2>. QED
    BY <1>2, <1>7, <1>8, <2>1, <2>2, <2>3, <2>4 DEF Answer
<1>10. open = TRUE
  BY <1>1, LineType
<1>11. Match(Sent, Range(Queue), Range(replies), Range(invalid), channels, subs, flags, cmds, TRUE)
  BY <1>10 DEF Lined
<1>12. Match(Append(Sent, r), Range(Queue) \ {q}, Range(replies), Range(invalid), channels, subs', flags, cmds, TRUE)
  BY <1>6, <1>9, <1>11, LineType, MatchExecute
<1>. QED
  BY <1>3, <1>5, <1>6, <1>10, <1>12 DEF Lined

LEMMA LinePush ==
    ASSUME TypeOK, Lined, Push, ~ monitored
    PROVE  Lined'
<1>1. open /\ UNCHANGED <<context, wire, subs, open>>
  BY DEF Push
<1>2. PICK r \in Reply : /\ r.type = "array" /\ r.what = "message" /\ r.channel \in subs
                         /\ back' = Append(back, r)
  BY DEF Push
<1>3. UNCHANGED <<got, obuf, wire, replies, invalid, channels, flags, cmds, subs, open>>
  BY <1>1 DEF context, lists
<1>4. Sent' = Append(Sent, r) /\ Queue' = Queue
  BY <1>2, <1>3, LineType, JoinAppend DEF Sent, Queue
<1>5. open = TRUE
  BY <1>1, LineType
<1>6. Match(Sent, Range(Queue), Range(replies), Range(invalid), channels, subs, flags, cmds, TRUE)
  BY <1>5 DEF Lined
<1>7. Match(Append(Sent, r), Range(Queue), Range(replies), Range(invalid), channels, subs, flags, cmds, TRUE)
  BY <1>2, <1>6, LineType, MatchPush DEF Arr, Unsub
<1>. QED
  BY <1>3, <1>4, <1>5, <1>7 DEF Lined


LEMMA EmptyRange ==
    ASSUME NEW S, NEW s \in Seq(S), Range(s) = {}
    PROVE  s = <<>>
<1>1. SUFFICES ASSUME s # <<>> PROVE FALSE
  OBVIOUS
<1>. QED
  BY <1>1, HeadTail

\* What MayIssue says of the pipeline.
LEMMA NoUnsubscribe ==
    ASSUME TypeOK, ~ Unsubscribing
    PROVE  /\ \A q \in Range(Queue) : cmds[q].kind # "unsubscribe"
           /\ \A i \in DOMAIN Sent : ~ Unsub(Sent[i])
<1>1. Range(obuf \o wire) = Range(Queue)
  <2>1. wire \in Seq(Command) /\ obuf \in Seq(Command)
    BY LineType
  <2>2. PICK u \in Seq(Command), v \in Seq(Command) : u = obuf /\ v = wire
    BY <2>1
  <2>3. Range(u \o v) = Range(u) \cup Range(v)
    BY JoinRange
  <2>. QED
    BY <2>2, <2>3, LineType
<1>2. Range(back \o got) = Range(Sent)
  <2>1. got \in Seq(Reply) /\ back \in Seq(Reply)
    BY LineType
  <2>2. PICK u \in Seq(Reply), v \in Seq(Reply) : u = back /\ v = got
    BY <2>1
  <2>3. Range(u \o v) = Range(u) \cup Range(v) /\ Range(v \o u) = Range(v) \cup Range(u)
    BY JoinRange
  <2>. QED
    BY <2>2, <2>3 DEF Sent
<1>3. \A q \in Range(Queue) : cmds[q].kind # "unsubscribe"
  BY <1>1 DEF Unsubscribing, Outstanding
<1>4. \A r \in Range(Sent) : ~ Unsub(r)
  BY <1>2 DEF Unsubscribing, Unsub, Arr
<1>. QED
  BY <1>3, <1>4 DEF Range

LEMMA LineCommand ==
    ASSUME TypeOK, Known, Lined, NEW kind \in Kind, NEW channel \in Channels,
           redisAsyncCommand(kind, channel), kind # "monitor", MayIssue(kind, channel)
    PROVE  Lined'
<1>1. PICK n : /\ n = Len(cmds) + 1 /\ n \in Command /\ n # NoCb
               /\ DOMAIN cmds' = DOMAIN cmds \cup {n}
               /\ \A x \in DOMAIN cmds : x < n /\ cmds'[x] = cmds[x]
               /\ cmds'[n].kind = kind /\ cmds'[n].channel = channel
               /\ obuf' = Append(obuf, n)
  BY CommandsGrow
<1>2. n \in Nat
  BY <1>1, CommandNumbers
<1>3. UNCHANGED <<got, back, wire, subs, open>>
  BY DEF redisAsyncCommand, redis
<1>4. Sent' = Sent
  BY <1>3 DEF Sent
<1>5. Queue' = Append(Queue, n)
  <2>1. PICK u \in Seq(Command), v \in Seq(Command) : u = obuf /\ v = wire
    BY LineType
  <2>2. v \o Append(u, n) = Append(v \o u, n)
    BY <1>1, JoinAppend
  <2>. QED
    BY <1>1, <1>3, <2>1, <2>2 DEF Queue
<1>6. \A x \in Range(Queue) \cup Range(replies) \cup Range(invalid) : x < n /\ cmds'[x] = cmds[x]
  BY <1>1, KnownLine DEF Lined
<1>7. Rising(Queue') /\ Range(Queue') = Range(Queue) \cup {n}
  <2>1. Queue \in Seq(Nat) /\ Queue \in Seq(Command)
    BY LineType
  <2>2. PICK q \in Seq(Nat) : q = Queue
    BY <2>1
  <2>3. Rising(q) /\ \A x \in Range(q) : x < n
    BY <1>6, <2>2 DEF Lined
  <2>4. Rising(Append(q, n)) /\ Range(Append(q, n)) = Range(q) \cup {n}
    BY <1>2, <2>3, RisingAppend, AppendRange
  <2>. QED
    BY <1>5, <2>2, <2>4
<1>8. /\ \A q \in Range(Queue) : cmds[q].kind # "unsubscribe"
      /\ \A i \in DOMAIN Sent : ~ Unsub(Sent[i])
  BY NoUnsubscribe DEF MayIssue
<1>9. Match(Sent, Range(Queue), Range(replies), Range(invalid), channels, subs, flags, cmds, open)
  BY DEF Lined
<1>12. PICK L \in Seq(Reply), Q \in SUBSET Nat, P \in SUBSET Nat, I \in SUBSET Nat, up \in BOOLEAN :
           L = Sent /\ Q = Range(Queue) /\ P = Range(replies) /\ I = Range(invalid) /\ up = open
  BY LineType
<1>15. PICK ds : ds = cmds'
  OBVIOUS
<1>13. Match(L, Q, P, I, channels, subs, flags, cmds, up)
  BY <1>9, <1>12
<1>14. Joins(n, ds, L, Q, P, I, cmds) /\ ds[n].kind = kind /\ ds[n].channel = channel
  BY <1>1, <1>6, <1>8, <1>12, <1>15 DEF Joins
<1>10. CASE kind = "regular"
  <2>1. flags' = flags /\ channels' = channels
    BY <1>10 DEF redisAsyncCommand
  <2>2. ASSUME NEW s \in Seq(Nat), Rising(s), \A x \in Range(s) : x < n
        PROVE  Rising(Append(s, n)) /\ Range(Append(s, n)) = Range(s) \cup {n}
    BY <1>2, <2>2, RisingAppend, AppendRange
  <2>3. replies \in Seq(Nat) /\ invalid \in Seq(Nat)
    BY LineType
  <2>4. CASE "SUBSCRIBED" \in flags
    <3>1. invalid' = Append(invalid, n) /\ replies' = replies
      BY <1>1, <1>10, <2>4 DEF redisAsyncCommand, NextCommand
    <3>2. Rising(invalid') /\ Range(invalid') = Range(invalid) \cup {n}
      BY <1>6, <2>2, <2>3, <3>1 DEF Lined
    <3>3. Match(Sent, Range(Queue) \cup {n}, Range(replies), Range(invalid) \cup {n}, channels, subs, flags, cmds', open)
      <4>1. Match(L, Q \cup {n}, P, I \cup {n}, channels, subs, flags, ds, up)
        <5>1. RegularIn(ds, n) /\ Joins(n, ds, L, Q, P, I, cmds)
          BY <1>10, <1>14 DEF RegularIn
        <5>2. PICK X, Y : X = P /\ Y = I \cup {n}
          OBVIOUS
        <5>3. IF "SUBSCRIBED" \in flags THEN X = P /\ Y = I \cup {n} ELSE X = P \cup {n} /\ Y = I
          BY <2>4, <5>2
        <5>4. Match(L, Q \cup {n}, X, Y, channels, subs, flags, ds, up)
          BY <1>2, <1>13, <5>1, <5>3, MatchRegular
        <5>. QED
          BY <5>2, <5>4
      <4>. QED
        BY <1>12, <1>15, <4>1
    <3>. QED
      BY <1>3, <1>4, <1>7, <2>1, <3>1, <3>2, <3>3 DEF Lined
  <2>5. CASE "SUBSCRIBED" \notin flags
    <3>1. replies' = Append(replies, n) /\ invalid' = invalid
      BY <1>1, <1>10, <2>5 DEF redisAsyncCommand, NextCommand
    <3>2. Rising(replies') /\ Range(replies') = Range(replies) \cup {n}
      BY <1>6, <2>2, <2>3, <3>1 DEF Lined
    <3>3. Match(Sent, Range(Queue) \cup {n}, Range(replies) \cup {n}, Range(invalid), channels, subs, flags, cmds', open)
      <4>1. Match(L, Q \cup {n}, P \cup {n}, I, channels, subs, flags, ds, up)
        <5>1. RegularIn(ds, n) /\ Joins(n, ds, L, Q, P, I, cmds)
          BY <1>10, <1>14 DEF RegularIn
        <5>2. PICK X, Y : X = P \cup {n} /\ Y = I
          OBVIOUS
        <5>3. IF "SUBSCRIBED" \in flags THEN X = P /\ Y = I \cup {n} ELSE X = P \cup {n} /\ Y = I
          BY <2>5, <5>2
        <5>4. Match(L, Q \cup {n}, X, Y, channels, subs, flags, ds, up)
          BY <1>2, <1>13, <5>1, <5>3, MatchRegular
        <5>. QED
          BY <5>2, <5>4
      <4>. QED
        BY <1>12, <1>15, <4>1
    <3>. QED
      BY <1>1, <1>3, <1>4, <1>7, <2>1, <3>1, <3>2, <3>3 DEF Lined
  <2>. QED
    BY <2>4, <2>5
<1>11. CASE kind \in {"subscribe", "unsubscribe"}
  <2>1. UNCHANGED <<replies, invalid>> /\ "SUBSCRIBED" \in flags'
    BY <1>11 DEF redisAsyncCommand, lists
  <2>2. /\ \A c \in Channels : channels[c] # NoCb => channels'[c] # NoCb
        /\ channels'[channel] # NoCb
    <3>1. CASE kind = "subscribe"
      <4>1. channels' = [channels EXCEPT ![channel] = n]
        BY <1>1, <3>1 DEF redisAsyncCommand, NextCommand
      <4>. QED
        BY <1>1, <4>1 DEF TypeOK
    <3>2. CASE kind = "unsubscribe"
      BY <3>2 DEF redisAsyncCommand, lists, MayIssue
    <3>. QED
      BY <1>11, <3>1, <3>2
  <2>3. \A q \in Range(Queue) : cmds[q].channel \in Channels
    <3>. DEFINE C == [kind : Kind, channel : Channels, subscribed : BOOLEAN]
    <3>1. cmds \in Seq(C)
      BY DEF TypeOK
    <3>2. \A q \in DOMAIN cmds : cmds[q] \in C
      <4>. HIDE DEF C
      <4>. QED
        BY <3>1, LenProperties, ElementOfSeq
    <3>. QED
      BY <3>2, KnownLine
  <2>4. subs \in SUBSET Channels
    BY DEF TypeOK
  <2>5. Match(Sent, Range(Queue) \cup {n}, Range(replies), Range(invalid), channels', subs, flags', cmds', open)
    <3>1. PICK S \in SUBSET Channels : S = subs
      BY <2>4
    <3>6. PICK dh, G : dh = channels' /\ G = flags'
      OBVIOUS
    <3>2. Match(L, Q, P, I, channels, S, flags, cmds, up)
      BY <1>13, <3>1
    <3>3. Subscribes(n, ds, Q, channels, dh, G, cmds)
      BY <1>11, <1>12, <1>14, <2>1, <2>2, <2>3, <3>6 DEF Subscribes
    <3>5. Match(L, Q \cup {n}, P, I, dh, S, G, ds, up)
      BY <1>2, <1>14, <3>2, <3>3, MatchSubscribe
    <3>. QED
      BY <1>12, <1>15, <3>1, <3>5, <3>6
  <2>. QED
    BY <1>3, <1>4, <1>7, <2>1, <2>5 DEF Lined
<1>. QED
  BY <1>10, <1>11 DEF Kind

\* MONITOR gets a connection on which nothing else happens.
LEMMA WatchStarts ==
    ASSUME TypeOK, Known, Lined, Connection, NEW channel \in Channels,
           redisAsyncCommand("monitor", channel), MayIssue("monitor", channel)
    PROVE  Watching'
<1>1. PICK n : /\ n = Len(cmds) + 1 /\ n \in Command /\ n # NoCb
               /\ cmds'[n].kind = "monitor"
               /\ obuf' = Append(obuf, n)
  BY CommandsGrow DEF Kind
<1>2. /\ pc = "idle" /\ Outstanding = {} /\ back = <<>> /\ "SUBSCRIBED" \notin flags
  BY DEF MayIssue
<1>3. /\ replies' = Append(replies, n) /\ invalid' = invalid /\ flags' = flags \cup {"MONITORING"}
      /\ UNCHANGED <<got, back, wire, subs, open, pc, caller>>
  BY <1>1 DEF redisAsyncCommand, NextCommand, redis, control
<1>4. got = <<>> /\ Sent = <<>>
  <2>1. got = <<>>
    BY <1>2 DEF Connection
  <2>. QED
    BY <1>2, <2>1, LineType, ConcatEmptySeq DEF Sent
<1>5. wire = <<>> /\ obuf = <<>> /\ Range(Queue) = {}
  <2>1. PICK u \in Seq(Command), v \in Seq(Command) : u = obuf /\ v = wire
    BY LineType
  <2>2. Range(u \o v) = Range(u) \cup Range(v)
    BY JoinRange
  <2>3. Range(u) = {} /\ Range(v) = {}
    BY <1>2, <2>1, <2>2 DEF Outstanding
  <2>4. u = <<>> /\ v = <<>>
    BY <2>3, EmptyRange
  <2>. QED
    BY <2>1, <2>3, <2>4, LineType
<1>6. Match(<<>>, {}, Range(replies), Range(invalid), channels, subs, flags, cmds, open)
  BY <1>4, <1>5 DEF Lined
<1>7. subs = {} /\ Range(invalid) = {}
  BY <1>2, <1>6 DEF Match, Subscribed
<1>8. invalid = <<>>
  BY <1>7, LineType, EmptyRange
<1>9. CASE ~ open
  <2>1. Dead'
    BY <1>2, <1>3, <1>4, <1>9 DEF Dead, Processing
  <2>. QED
    BY <1>2, <1>3, <1>7, <1>8, <2>1 DEF Watching
<1>10. CASE open
  <2>1. \A x : ~ Answered(<<>>, x, Len(<<>>))
    BY EmptySeq DEF Answered
  <2>2. Range(replies) = {}
    BY <1>6, <1>10, <2>1 DEF Match, Queued
  <2>3. Range(replies') = {n} /\ Range(obuf') = {n}
    <3>1. replies \in Seq(Nat) /\ obuf \in Seq(Nat) /\ n \in Nat
      BY <1>1, LineType, CommandNumbers
    <3>2. Range(obuf) = {}
      BY <1>5, EmptySeq DEF Range
    <3>3. Range(Append(replies, n)) = Range(replies) \cup {n} /\ Range(Append(obuf, n)) = Range(obuf) \cup {n}
      BY <3>1, AppendRange
    <3>. QED
      BY <1>1, <1>3, <2>2, <3>2, <3>3
  <2>4. Range(wire') = {} /\ Range(got') = {} /\ Range(back') = {}
    BY <1>2, <1>3, <1>4, <1>5, EmptySeq DEF Range
  <2>5. Mon(n)' /\ ~ Processing'
    BY <1>1, <1>2, <1>3 DEF Mon, Processing
  <2>6. Alone'
    BY <2>3, <2>4, <2>5 DEF Alone
  <2>. QED
    BY <1>2, <1>3, <1>7, <1>8, <2>6 DEF Watching
<1>. QED
  BY <1>9, <1>10

\* Whatever is handled is the first of what has been sent.
LEMMA SentHead ==
    ASSUME TypeOK, got # <<>>
    PROVE  /\ Sent # <<>> /\ Sent[1] = Head(got) /\ Head(got) \in Reply
           /\ got' = Tail(got) /\ back' = back => Sent' = Tail(Sent)
<1>1. PICK u \in Seq(Reply), v \in Seq(Reply) : u = got /\ v = back
  BY LineType
<1>2. u \o v # <<>> /\ Head(u \o v) = Head(u) /\ Tail(u \o v) = Tail(u) \o v
  BY <1>1, JoinHead
<1>3. Head(u) \in Reply
  BY <1>1, HeadTail
<1>4. PICK w \in Seq(Reply) : w = u \o v
  BY ConcatProperties
<1>5. Head(w) = w[1]
  OBVIOUS
<1>. QED
  BY <1>1, <1>2, <1>3, <1>4, <1>5 DEF Sent

\* The first reply is what the first callback of replies is waiting for.
LEMMA LineFront ==
    ASSUME TypeOK, Lined, got # <<>>, replies # <<>>
    PROVE  /\ cmds[Head(replies)].kind = "regular"
           /\ \/ /\ Num(Head(got)) /\ Head(got).of = Head(replies)
                 /\ Head(got).type \in {"bulk", "error"}
              \/ Head(got) = TooManyClients
<1>2. Sent # <<>> /\ Sent[1] = Head(got)
  BY SentHead
<1>3. /\ Head(replies) \in Range(replies)
      /\ \A x \in Range(replies) : Head(replies) <= x
  BY LineType, RisingHead DEF Lined
<1>4. PICK L \in Seq(Reply), Q \in SUBSET Nat, P \in SUBSET Nat, I \in SUBSET Nat, up \in BOOLEAN :
          L = Sent /\ Q = Range(Queue) /\ P = Range(replies) /\ I = Range(invalid) /\ up = open
  BY LineType
<1>5. PICK p \in P : p = Head(replies)
  BY <1>3, <1>4
<1>6. Match(L, Q, P, I, channels, subs, flags, cmds, up) /\ L # <<>> /\ \A x \in P : p <= x
  BY <1>2, <1>3, <1>4, <1>5 DEF Lined
<1>7. \/ Num(L[1]) /\ L[1].of = p /\ L[1].type \in {"bulk", "error"}
      \/ L[1] = TooManyClients
  BY <1>6, FrontReply
<1>8. cmds[p].kind = "regular"
  BY <1>6 DEF Match, Queued
<1>. QED
  BY <1>2, <1>4, <1>5, <1>7, <1>8

LEMMA LineReply ==
    ASSUME TypeOK, Lined, RegularReply
    PROVE  Lined'
<1>1. /\ got # <<>> /\ got' = Tail(got) /\ replies # <<>> /\ replies' = Tail(replies)
      /\ UNCHANGED <<obuf, invalid, channels, back, wire, subs, open, cmds>>
      /\ "SUBSCRIBED" \in flags' <=> "SUBSCRIBED" \in flags
  BY DEF RegularReply, Deliver, redis
<1>2. Sent # <<>> /\ Sent[1] = Head(got) /\ Sent' = Tail(Sent) /\ Queue' = Queue
  BY <1>1, SentHead DEF Queue
<1>3. /\ Rising(replies') /\ Head(replies) \in Range(replies)
      /\ Range(replies') = Range(replies) \ {Head(replies)}
  BY <1>1, LineType, RisingHead DEF Lined
<1>4. PICK L \in Seq(Reply), Q \in SUBSET Nat, P \in SUBSET Nat, I \in SUBSET Nat, up \in BOOLEAN :
          L = Sent /\ Q = Range(Queue) /\ P = Range(replies) /\ I = Range(invalid) /\ up = open
  BY LineType
<1>5. PICK p \in P : p = Head(replies)
  BY <1>3, <1>4
<1>6. Match(L, Q, P, I, channels, subs, flags, cmds, up) /\ L # <<>>
  BY <1>2, <1>4 DEF Lined
<1>7. \/ Num(L[1]) /\ L[1].of = p
      \/ L[1] = TooManyClients
  BY <1>1, <1>2, <1>4, <1>5, LineFront
<1>8. Match(Tail(L), Q, P \ {p}, I \ {p}, channels, subs, flags, cmds, up)
  BY <1>6, <1>7, MatchDrop
<1>9. I \ {p} = I
  BY <1>6 DEF Match, Queued
<1>10. Match(Tail(L), Q, P \ {p}, I, channels, subs, flags', cmds, up)
  BY <1>1, <1>8, <1>9, MatchFlags
<1>. QED
  BY <1>1, <1>2, <1>3, <1>4, <1>5, <1>10 DEF Lined

\* A reply that none is waiting for is the business of a channel or of the
\* first invalid command, unless it is an error.
LEMMA LinePushed ==
    ASSUME TypeOK, Lined, pc = "process", got # <<>>, replies = <<>>, Head(got).type # "error"
    PROVE  /\ "SUBSCRIBED" \in flags
           /\ \/ Arr(Head(got)) /\ channels[Head(got).channel] # NoCb
              \/ /\ ~ Arr(Head(got)) /\ invalid # <<>> /\ Num(Head(got)) /\ Head(got).type = "bulk"
                 /\ Head(got).of = Head(invalid)
<1>1. Sent # <<>> /\ Sent[1] = Head(got) /\ Head(got) \in Reply
  BY SentHead
<1>2. PICK L \in Seq(Reply), Q \in SUBSET Nat, I \in SUBSET Nat, up \in BOOLEAN :
          L = Sent /\ Q = Range(Queue) /\ I = Range(invalid) /\ up = open
  BY LineType
<1>3. PICK P \in SUBSET Nat : P = Range(replies) /\ P = {}
  <2>1. Range(replies) = {} /\ {} \in SUBSET Nat
    BY EmptySeq DEF Range
  <2>. QED
    BY <2>1
<1>4. Match(L, Q, P, I, channels, subs, flags, cmds, up) /\ L # <<>> /\ L[1].type # "error"
  BY <1>1, <1>2, <1>3 DEF Lined
<1>5. /\ "SUBSCRIBED" \in flags
      /\ \/ Arr(L[1]) /\ channels[L[1].channel] # NoCb
         \/ /\ Num(L[1]) /\ L[1].type = "bulk" /\ L[1].of \in I
            /\ \A x \in I : L[1].of <= x
  BY <1>3, <1>4, FrontPushed
<1>6. CASE Num(L[1]) /\ L[1].type = "bulk" /\ L[1].of \in I /\ \A x \in I : L[1].of <= x
  <2>1. invalid # <<>>
    BY <1>2, <1>6, EmptySeq DEF Range
  <2>2. Head(invalid) \in Range(invalid) /\ Head(invalid) \in Nat /\ \A x \in Range(invalid) : Head(invalid) <= x
    BY <2>1, LineType, RisingHead DEF Lined
  <2>3. PICK x \in I, y \in I : x = L[1].of /\ y = Head(invalid) /\ x <= y /\ y <= x
    BY <1>2, <1>6, <2>2
  <2>4. x = y
    BY <2>3
  <2>5. ~ Arr(L[1])
    BY <1>6 DEF Arr
  <2>. QED
    BY <1>1, <1>2, <1>5, <1>6, <2>1, <2>3, <2>4, <2>5
<1>. QED
  BY <1>1, <1>2, <1>5, <1>6

LEMMA LinePushedReply ==
    ASSUME TypeOK, Lined, PushedReply
    PROVE  Lined' /\ SubscribeCallback(Head(got))
<1>1. /\ pc = "process" /\ got # <<>> /\ replies = <<>> /\ Head(got).type # "error"
      /\ UNCHANGED <<obuf, replies, back, wire, subs, open, cmds>>
  BY DEF PushedReply, redis
<1>2. /\ "SUBSCRIBED" \in flags
      /\ \/ Arr(Head(got)) /\ channels[Head(got).channel] # NoCb
         \/ /\ ~ Arr(Head(got)) /\ invalid # <<>> /\ Num(Head(got)) /\ Head(got).type = "bulk"
            /\ Head(got).of = Head(invalid)
  BY <1>1, LinePushed
<1>3. SubscribeCallback(Head(got))
  BY <1>2 DEF PushedReply, Arr
<1>4. got' = Tail(got)
  BY <1>3 DEF SubscribeCallback, Deliver
<1>5. Sent # <<>> /\ Sent[1] = Head(got) /\ Head(got) \in Reply /\ Sent' = Tail(Sent) /\ Queue' = Queue
  BY <1>1, <1>4, SentHead DEF Queue
<1>6. PICK L \in Seq(Reply), Q \in SUBSET Nat, I \in SUBSET Nat, up \in BOOLEAN :
          L = Sent /\ Q = Range(Queue) /\ I = Range(invalid) /\ up = open
  BY LineType
<1>7. PICK P \in SUBSET Nat : P = Range(replies) /\ P = {}
  <2>1. Range(replies) = {} /\ {} \in SUBSET Nat
    BY <1>1, EmptySeq DEF Range
  <2>. QED
    BY <2>1
<1>8. Match(L, Q, P, I, channels, subs, flags, cmds, up) /\ L # <<>>
  BY <1>5, <1>6, <1>7 DEF Lined
<1>9. CASE Arr(Head(got))
  <2>1. PICK r \in Reply : r = Head(got) /\ r = L[1]
    BY <1>5, <1>6
  <2>2. /\ Arr(r) /\ r.channel \in Channels
    BY <1>9, <2>1, ReplyKinds
  <2>3. /\ Deliver(channels[r.channel], SubscribedAfter(r))
        /\ channels' = [channels EXCEPT ![r.channel] = IF r.what = "unsubscribe" THEN NoCb ELSE @]
        /\ invalid' = invalid
    BY <1>3, <2>1, <2>2 DEF SubscribeCallback, Arr
  <2>4. 0 \in Nat /\ 0 \notin P \cup I /\ I \ {0} = I /\ P \ {0} = P
    <3>1. invalid \in Seq(Command)
      BY DEF TypeOK
    <3>2. Range(invalid) \subseteq Command
      BY <3>1, RangeOfSeq
    <3>. QED
      BY <1>6, <1>7, <3>2, CommandNumbers DEF NoCb
  <2>5. Match(Tail(L), Q, P, I, channels, subs, flags, cmds, up)
    <3>1. Arr(L[1])
      BY <2>1, <2>2
    <3>2. Match(Tail(L), Q, P \ {0}, I \ {0}, channels, subs, flags, cmds, up)
      BY <1>8, <2>4, <3>1, MatchDrop
    <3>. QED
      BY <2>4, <3>2
  <2>6. "SUBSCRIBED" \in flags' <=> "SUBSCRIBED" \in SubscribedAfter(r)
    BY <2>3 DEF Deliver
  <2>7. Match(Tail(L), Q, P, I, channels', subs, flags', cmds, up)
    <3>1. CASE Unsub(r)
      <4>1. PICK S \in SUBSET Channels : S = subs
        BY DEF TypeOK
      <4>2. PICK dh, G : dh = channels' /\ G = SubscribedAfter(r)
        OBVIOUS
      <4>3. \A c \in Channels : c # L[1].channel => dh[c] = channels[c]
        BY <2>1, <2>2, <2>3, <4>2 DEF TypeOK
      <4>4. Unsub(L[1]) /\ (L[1].left # 0 => G = flags)
        BY <2>1, <3>1, <4>2 DEF SubscribedAfter
      <4>5. Match(L, Q, P, I, channels, S, flags, cmds, up) /\ Match(Tail(L), Q, P, I, channels, S, flags, cmds, up)
        BY <1>8, <2>5, <4>1
      <4>6. Match(Tail(L), Q, P, I, dh, S, G, cmds, up)
        BY <1>7, <1>8, <4>3, <4>4, <4>5, MatchUnsubscribed
      <4>7. Match(Tail(L), Q, P, I, dh, S, flags', cmds, up)
        BY <2>6, <4>2, <4>6, MatchFlags
      <4>. QED
        BY <4>1, <4>2, <4>7
    <3>2. CASE ~ Unsub(r)
      <4>1. channels' = channels /\ SubscribedAfter(r) = flags
        BY <2>2, <2>3, <3>2 DEF Unsub, SubscribedAfter, TypeOK
      <4>. QED
        BY <2>5, <2>6, <4>1, MatchFlags
    <3>. QED
      BY <3>1, <3>2
  <2>. QED
    BY <1>1, <1>3, <1>5, <1>6, <1>7, <2>3, <2>7 DEF Lined
<1>10. CASE ~ Arr(Head(got))
  <2>1. /\ Num(Head(got)) /\ Head(got).of = Head(invalid) /\ invalid # <<>> /\ Head(got).type = "bulk"
    BY <1>2, <1>10
  <2>2. Deliver(Head(invalid), flags) /\ invalid' = Tail(invalid) /\ channels' = channels
    BY <1>3, <2>1 DEF SubscribeCallback
  <2>3. "SUBSCRIBED" \in flags' <=> "SUBSCRIBED" \in flags
    BY <2>2 DEF Deliver
  <2>4. /\ Rising(invalid') /\ Head(invalid) \in Nat
        /\ Range(invalid') = Range(invalid) \ {Head(invalid)}
    BY <2>1, <2>2, LineType, RisingHead DEF Lined
  <2>5. PICK p \in Nat : p = Head(invalid)
    BY <2>4
  <2>6. \/ Num(L[1]) /\ L[1].of = p
        \/ Arr(L[1]) /\ p \notin P \cup I
    BY <1>5, <1>6, <2>1, <2>5
  <2>7. Match(Tail(L), Q, P \ {p}, I \ {p}, channels, subs, flags, cmds, up)
    BY <1>8, <2>6, MatchDrop
  <2>8. Match(Tail(L), Q, P, I \ {p}, channels, subs, flags', cmds, up)
    <3>1. P \ {p} = P
      BY <1>7
    <3>. QED
      BY <2>3, <2>7, <3>1, MatchFlags
  <2>. QED
    BY <1>1, <1>3, <1>5, <1>6, <1>7, <2>2, <2>4, <2>5, <2>8 DEF Lined
<1>. QED
  BY <1>9, <1>10

LEMMA ConnectionStep ==
    ASSUME TypeOK, Known, Connection, Live, Live', Step
    PROVE  Connection'
<1>. USE DEF Connection
<1>0. cmds' = cmds /\ (Issued("monitor")' <=> Issued("monitor"))
  BY StepKeepsCommands DEF Issued
<1>1. ASSUME NEW f, NEW e, Disconnect(f, e) PROVE FALSE
  BY <1>1 DEF Disconnect, Live, Processing
<1>2. CASE redisAsyncDisconnect \/ redisAsyncFree
  BY <1>0, <1>1, <1>2 DEF redisAsyncDisconnect, redisAsyncFree, redis, Live, Processing
<1>3. CASE redisAsyncHandleWrite
  <2>1. pc = "idle" /\ sock = "up" /\ UNCHANGED <<got, sock, open, back, subs, monitored>> /\ (~ open => wire' = wire)
    BY <1>1, <1>3 DEF redisAsyncHandleWrite
  <2>. QED
    BY <1>0, <2>1
<1>4. CASE redisAsyncHandleRead
  <2>1. back # <<>> /\ pc' = "process" /\ UNCHANGED <<sock, open, wire, subs, monitored>>
    BY <1>1, <1>4 DEF redisAsyncHandleRead
  <2>. QED
    BY <1>0, <2>1
<1>5. CASE NoReply
  BY <1>0, <1>1, <1>5 DEF NoReply, redis
<1>6. CASE CallbackReturns
  <2>1. pc' # "idle" /\ UNCHANGED redis
    BY <1>6 DEF CallbackReturns, TypeOK, FreeLoop
  <2>. QED
    BY <1>0, <2>1 DEF redis
<1>7. CASE RegularReply \/ PushedReply
  <2>1. pc' # "idle" /\ UNCHANGED redis
    BY <1>7 DEF RegularReply, PushedReply, SubscribeCallback, Deliver
  <2>. QED
    BY <1>0, <2>1 DEF redis
<1>8. CASE HandleConnectFails \/ SpontaneousError
  BY <1>1, <1>8 DEF HandleConnectFails, SpontaneousError
<1>9. CASE FreeCallback \/ FreeContext
  <2>1. pc \in FreeLoop
    BY <1>9 DEF FreeCallback, FreeContext, InReplies, InInvalid, InChannels, FreeLoop
  <2>. QED
    BY <2>1 DEF Live, Processing, FreeLoop
<1>10. CASE ConnectEnds
  <2>1. pc' = pc /\ got' = got /\ sock = "connecting" /\ sock' \in {"up", "refused"} /\ UNCHANGED <<wire, subs, monitored>>
    BY <1>10 DEF ConnectEnds, context, control
  <2>. QED
    BY <1>0, <2>1
<1>11. CASE Execute
  <2>1. /\ pc' = pc /\ got' = got /\ open /\ wire # <<>> /\ sock = "up" /\ UNCHANGED <<sock, open>>
    BY <1>11 DEF Execute, context, control
  <2>2. PICK r : Answer(Head(wire), r)
    BY <1>11 DEF Execute
  <2>3. Head(wire) \in DOMAIN cmds
    BY <2>1, HeadTail DEF TypeOK, Known
  <2>4. monitored' = monitored \/ Issued("monitor")
    BY <2>2, <2>3 DEF Answer, Issued
  <2>. QED
    BY <1>0, <2>1, <2>4
<1>12. CASE Push
  <2>1. pc' = pc /\ got' = got /\ UNCHANGED <<sock, open, wire, subs, monitored>> /\ sock # "connecting"
    BY <1>12 DEF Push, context, control
  <2>. QED
    BY <1>0, <2>1
<1>13. CASE Close
  <2>1. pc' = pc /\ got' = got /\ UNCHANGED <<sock, back, subs, monitored>> /\ sock = "up" /\ wire' = <<>>
    BY <1>13 DEF Close, context, control
  <2>. QED
    BY <1>0, <2>1
<1>. QED
  BY <1>2, <1>3, <1>4, <1>5, <1>6, <1>7, <1>8, <1>9, <1>10, <1>11, <1>12, <1>13 DEF Step

LEMMA LineStep ==
    ASSUME TypeOK, Known, Connection, Lined, "MONITORING" \notin flags, ~ Issued("monitor"),
           Live, Live', Step
    PROVE  ("MONITORING" \notin flags' /\ Lined') \/ Quiet
<1>. USE DEF Connection
<1>0. cmds' = cmds
  BY StepKeepsCommands
<1>1. ASSUME NEW f, NEW e, Disconnect(f, e) PROVE FALSE
  BY <1>1 DEF Disconnect, Live, Processing
<1>2. CASE redisAsyncDisconnect \/ redisAsyncFree \/ CallbackReturns
  BY <1>1, <1>2 DEF redisAsyncDisconnect, redisAsyncFree, CallbackReturns, Quiet, Live, Processing, lists, redis
<1>3. CASE redisAsyncHandleWrite
  <2>1. PICK k \in 0..Len(obuf) :
           /\ wire' = IF open THEN wire \o SubSeq(obuf, 1, k) ELSE wire
           /\ obuf' = SubSeq(obuf, k + 1, Len(obuf)) /\ flags' = flags \cup {"CONNECTED"}
    BY <1>1, <1>3 DEF redisAsyncHandleWrite
  <2>2. UNCHANGED <<got, back, replies, invalid, channels, subs, cmds, open>>
    BY <1>3 DEF redisAsyncHandleWrite, lists
  <2>. QED
    BY <2>1, <2>2, LineWrite
<1>4. CASE redisAsyncHandleRead
  <2>1. PICK k \in 0..Len(back) :
           /\ got' = SubSeq(back, 1, k) /\ back' = SubSeq(back, k + 1, Len(back)) /\ flags' = flags
    BY <1>1, <1>4 DEF redisAsyncHandleRead
  <2>2. pc = "idle" /\ UNCHANGED <<wire, obuf, replies, invalid, channels, subs, cmds, open>>
    BY <1>4 DEF redisAsyncHandleRead, lists
  <2>3. got = <<>>
    BY <2>2
  <2>. QED
    BY <2>1, <2>2, <2>3, LineRead
<1>5. CASE NoReply
  BY <1>1, <1>5 DEF NoReply, Kept, Quiet, Processing, redis
<1>6. CASE RegularReply
  BY <1>6, LineReply DEF RegularReply, Deliver
<1>7. CASE PushedReply
  <2>1. Lined' /\ SubscribeCallback(Head(got))
    BY <1>7, LinePushedReply
  <2>. QED
    BY <2>1 DEF SubscribeCallback, SubscribedAfter, Deliver
<1>8. CASE HandleConnectFails \/ SpontaneousError
  BY <1>1, <1>8 DEF HandleConnectFails, SpontaneousError
<1>9. CASE FreeCallback \/ FreeContext
  <2>1. pc \in FreeLoop
    BY <1>9 DEF FreeCallback, FreeContext, InReplies, InInvalid, InChannels, FreeLoop
  <2>. QED
    BY <2>1 DEF Live, Processing, FreeLoop
<1>10. CASE ConnectEnds
  <2>1. pc = "idle" /\ UNCHANGED <<got, obuf, wire, replies, invalid, channels, subs, flags, cmds>> /\ sock = "connecting"
    BY <1>10 DEF ConnectEnds, context, lists
  <2>2. open /\ back = <<>> /\ wire = <<>> /\ got = <<>>
    BY <2>1
  <2>3. CASE UNCHANGED <<open, back>>
    <3>1. Sent' = Sent /\ Queue' = Queue
      BY <2>1, <2>3 DEF Sent, Queue
    <3>. QED
      BY <2>1, <2>3, <3>1 DEF Lined
  <2>4. CASE open' = FALSE /\ back' = <<TooManyClients>>
    BY <2>1, <2>2, <2>4, LineRefused
  <2>. QED
    BY <1>10, <2>3, <2>4 DEF ConnectEnds
<1>11. CASE Execute
  <2>1. pc = "idle" /\ flags' = flags
    BY <1>11 DEF Execute, context
  <2>. QED
    BY <1>11, <2>1, LineExecute
<1>12. CASE Push
  <2>1. flags' = flags
    BY <1>12 DEF Push, context
  <2>. QED
    BY <1>12, <2>1, LinePush
<1>13. CASE Close
  <2>1. open' = FALSE /\ wire' = <<>> /\ UNCHANGED <<got, back, obuf, replies, invalid, channels, subs, flags, cmds>>
    BY <1>13 DEF Close, context, lists
  <2>. QED
    BY <2>1, LineClose
<1>. QED
  BY <1>2, <1>3, <1>4, <1>5, <1>6, <1>7, <1>8, <1>9, <1>10, <1>11, <1>12, <1>13 DEF Step

LEMMA LiveNext ==
    ASSUME Careful, Base, LiveInv, [Next]_vars
    PROVE  LiveInv'
<1>. SUFFICES ASSUME Live' PROVE LiveInv'
  BY DEF LiveInv
<1>0. TypeOK /\ Known /\ ControlInv
  BY DEF Base
<1>1. Live
  BY <1>0, LiveBefore
<1>2. /\ Connection
      /\ Issued("monitor") => Watching
      /\ ~ Issued("monitor") => "MONITORING" \notin flags /\ Lined
  BY <1>1 DEF LiveInv
<1>3. CASE UNCHANGED vars
  <2>1. Quiet
    BY <1>3 DEF vars, context, redis, lists, control, Quiet, Processing
  <2>. QED
    BY <1>1, <2>1, LiveQuiet
<1>4. ASSUME NEW kind \in Kind, NEW channel \in Channels, redisAsyncCommand(kind, channel)
      PROVE  LiveInv'
  <2>1. MayIssue(kind, channel)
    BY <1>4 DEF redisAsyncCommand
  <2>2. ~ Issued("monitor")
    BY <2>1 DEF MayIssue
  <2>3. /\ UNCHANGED <<got, pc, open, sock, wire, back, subs, monitored>>
        /\ flags' \subseteq flags \cup {"SUBSCRIBED"} \/ kind = "monitor"
    BY <1>4 DEF redisAsyncCommand, redis, control
  <2>4. PICK n : /\ DOMAIN cmds' = DOMAIN cmds \cup {n} /\ cmds'[n].kind = kind
                 /\ \A x \in DOMAIN cmds : cmds'[x] = cmds[x]
    BY <1>0, <1>4, CommandsGrow
  <2>5. Issued("monitor")' <=> kind = "monitor"
    BY <2>2, <2>4 DEF Issued
  <2>6. Connection'
    BY <1>2, <2>2, <2>3 DEF Connection
  <2>7. CASE kind = "monitor"
    <3>1. Watching'
      BY <1>0, <1>2, <1>4, <2>1, <2>2, <2>7, WatchStarts
    <3>. QED
      BY <2>5, <2>6, <2>7, <3>1 DEF LiveInv
  <2>8. CASE kind # "monitor"
    <3>1. Lined'
      BY <1>0, <1>2, <1>4, <2>1, <2>2, <2>8, LineCommand
    <3>. QED
      BY <1>2, <2>2, <2>3, <2>5, <2>6, <2>8, <3>1 DEF LiveInv
  <2>. QED
    BY <2>7, <2>8
<1>5. CASE Step
  <2>1. Connection'
    BY <1>0, <1>1, <1>2, <1>5, ConnectionStep
  <2>2. Issued("monitor")' <=> Issued("monitor")
    BY <1>5, StepKeepsCommands DEF Issued
  <2>3. Quiet => LiveInv'
    BY <1>1, LiveQuiet
  <2>4. CASE Issued("monitor")
    <3>1. Watching' \/ Quiet
      BY <1>0, <1>1, <1>2, <1>5, <2>4, WatchStep
    <3>. QED
      BY <2>1, <2>2, <2>3, <2>4, <3>1 DEF LiveInv
  <2>5. CASE ~ Issued("monitor")
    <3>1. ("MONITORING" \notin flags' /\ Lined') \/ Quiet
      BY <1>0, <1>1, <1>2, <1>5, <2>5, LineStep
    <3>. QED
      BY <2>1, <2>2, <2>3, <2>5, <3>1 DEF LiveInv
  <2>. QED
    BY <2>4, <2>5
<1>. QED
  BY <1>3, <1>4, <1>5, Steps

\* The assertions of async.c hold for an application that keeps to the rules of
\* MayIssue: a clean disconnect finds no callback pending, and a reply that
\* nothing is waiting for is one of a subscribed or monitoring context.
THEOREM AssertionsHoldCorrect == ASSUME Careful PROVE Spec => []AssertionsHold
<1>1. Init => LiveInv /\ AssertionsHold
  BY LiveInit DEF Init, AssertionsHold
<1>2. ASSUME Base, LiveInv, AssertionsHold, [Next]_vars PROVE AssertionsHold'
  <2>. USE DEF AssertionsHold
  <2>0. TypeOK /\ Known /\ ControlInv
    BY <1>2 DEF Base
  <2>1. CASE UNCHANGED vars
    BY <1>2, <2>1 DEF vars, context, control
  <2>2. CASE \E kind \in Kind, channel \in Channels : redisAsyncCommand(kind, channel)
    BY <2>2 DEF redisAsyncCommand, control
  <2>3. ASSUME NEW f, NEW e, Disconnect(f, e), e # "none" \/ replies = <<>> PROVE pc' # "aborted"
    BY <2>3 DEF Disconnect
  <2>4. CASE redisAsyncDisconnect \/ NoReply
    BY <1>2, <2>3, <2>4 DEF redisAsyncDisconnect, NoReply, Immediately, Drained
  <2>5. CASE HandleConnectFails \/ redisAsyncHandleWrite \/ redisAsyncHandleRead \/ SpontaneousError
    BY <1>2, <2>3, <2>5 DEF HandleConnectFails, redisAsyncHandleWrite, redisAsyncHandleRead, SpontaneousError
  <2>6. CASE PushedReply
    <3>1. /\ pc = "process" /\ got # <<>> /\ replies = <<>> /\ Head(got).type # "error"
      BY <2>6 DEF PushedReply
    <3>2. Live
      BY <3>1 DEF Live, Processing
    <3>3. flags \cap {"SUBSCRIBED", "MONITORING"} # {}
      <4>1. CASE Issued("monitor")
        BY <1>2, <3>2, <4>1 DEF LiveInv, Watching
      <4>2. CASE ~ Issued("monitor")
        <5>1. Lined
          BY <1>2, <3>2, <4>2 DEF LiveInv
        <5>2. "SUBSCRIBED" \in flags
          BY <2>0, <3>1, <5>1, LinePushed
        <5>. QED
          BY <5>2
      <4>. QED
        BY <4>1, <4>2
    <3>. QED
      BY <2>6, <3>1, <3>3 DEF PushedReply, SubscribeCallback, Deliver
  <2>7. CASE RegularReply \/ FreeCallback \/ FreeContext \/ redisAsyncFree
    BY <1>2, <2>7 DEF RegularReply, Deliver, FreeCallback, RunCallback, FreeContext, redisAsyncFree
  <2>8. CASE CallbackReturns
    BY <2>0, <2>8 DEF CallbackReturns, TypeOK, FreeLoop
  <2>9. CASE ConnectEnds \/ Execute \/ Push \/ Close
    BY <1>2, <2>9 DEF ConnectEnds, Execute, Push, Close, context, control
  <2>. QED
    BY <1>2, <2>1, <2>2, <2>4, <2>5, <2>6, <2>7, <2>8, <2>9, Steps DEF Step
<1>. QED
  BY <1>1, <1>2, BaseInit, BaseNext, LiveNext, PTL DEF Spec

-----------------------------------------------------------------------------
(***************************************************************************)
(* Every callback gets its own reply.                                      *)
(***************************************************************************)
Own(c, r) ==
    r \in {NULL, TooManyClients} \/
        CASE cmds[c].kind = "regular" -> r.type \in {"bulk", "error"} /\ r.of = c
          [] cmds[c].kind = "monitor" -> r.type \in {"status", "line"}
          [] OTHER -> r.type = "array" /\ r.channel = cmds[c].channel

LEMMA OwnCalled ==
    ASSUME TypeOK, Known, OwnReply, cmds' = cmds, NEW c \in Command \cup {NoCb}, NEW r \in Reply \cup {NULL},
           Called(c, r), c # NoCb => Own(c, r)
    PROVE  OwnReply'
<1>1. OwnReply <=> \A i \in DOMAIN calls : Own(calls[i].cb, calls[i].reply)
  BY DEF OwnReply, Own
<1>2. OwnReply' <=> \A i \in DOMAIN calls' : Own(calls'[i].cb, calls'[i].reply)
  BY DEF OwnReply, Own
<1>3. CASE c = NoCb
  BY <1>1, <1>2, <1>3 DEF Called
<1>4. CASE c # NoCb
  <2>1. calls' = Append(calls, [cb |-> c, reply |-> r]) /\ c \in Command
    BY <1>4 DEF Called
  <2>2. PICK m : /\ DOMAIN calls' = DOMAIN calls \cup {m}
                 /\ \A i \in DOMAIN calls : calls'[i] = calls[i]
                 /\ calls'[m].cb = c /\ calls'[m].reply = r
    BY <2>1, CallsGrow
  <2>. QED
    BY <1>1, <1>2, <1>4, <2>2
<1>. QED
  BY <1>3, <1>4

\* What is handled while the context lives.
LEMMA HandledReply ==
    ASSUME TypeOK, Known, LiveInv, pc = "process", got # <<>>
    PROVE  /\ Head(got) \in Reply
           /\ Issued("monitor") =>
                  /\ invalid = <<>> /\ Mon(cb) /\ (replies # <<>> => Mon(Head(replies)))
                  /\ Head(got).type \in {"status", "line"} \/ Head(got) = TooManyClients
           /\ ~ Issued("monitor") => Lined /\ "MONITORING" \notin flags
<1>1. Live /\ Processing
  BY DEF Live, Processing
<1>2. Head(got) \in Reply /\ Head(got) \in Range(got)
  BY HeadTail DEF TypeOK
<1>3. replies # <<>> => Head(replies) \in Range(replies)
  BY HeadTail DEF TypeOK
<1>4. Issued("monitor") => Alone /\ invalid = <<>>
  BY <1>1 DEF LiveInv, Watching, Dead
<1>. QED
  BY <1>1, <1>2, <1>3, <1>4 DEF LiveInv, Alone

LEMMA KindOfCommand ==
    ASSUME TypeOK, NEW n \in DOMAIN cmds
    PROVE  cmds[n].kind \in Kind /\ n # NoCb /\ n \in Command
<1>. DEFINE C == [kind : Kind, channel : Channels, subscribed : BOOLEAN]
<1>1. cmds \in Seq(C) /\ Len(cmds) <= MaxCommands
  BY DEF TypeOK
<1>2. cmds[n] \in C /\ n \in 1..Len(cmds) /\ Len(cmds) \in Nat
  <2>. HIDE DEF C
  <2>. QED
    BY <1>1, LenProperties, ElementOfSeq
<1>. QED
  BY <1>1, <1>2, ConstantsAssumption DEF Command, NoCb

LEMMA OwnNext ==
    ASSUME Base, LiveInv, OwnReply, [Next]_vars
    PROVE  OwnReply'
<1>0. TypeOK /\ Known
  BY DEF Base
<1>1. CASE UNCHANGED vars
  BY <1>1 DEF OwnReply, vars, context, control
<1>2. ASSUME NEW kind \in Kind, NEW channel \in Channels, redisAsyncCommand(kind, channel)
      PROVE  OwnReply'
  <2>1. \A x \in DOMAIN cmds : cmds'[x] = cmds[x]
    BY <1>0, <1>2, CommandsGrow
  <2>2. calls' = calls
    BY <1>2 DEF redisAsyncCommand, control
  <2>. QED
    BY <1>0, <2>1, <2>2 DEF Known, OwnReply
<1>3. CASE Step
  <2>1. cmds' = cmds
    BY <1>3, StepKeepsCommands
  <2>2. CASE Still \/ Repushed
    <3>1. calls' = calls
      BY <2>2 DEF Still, Repushed
    <3>. QED
      BY <2>1, <3>1 DEF OwnReply
  <2>3. ASSUME NEW r \in Reply \cup {NULL}, FromReplies(r) PROVE OwnReply'
    <3>1. replies # <<>> /\ Called(Head(replies), r)
      BY <2>3 DEF FromReplies
    <3>2. Head(replies) \in Command \cup {NoCb}
      BY <1>0, <3>1, HeadTail DEF TypeOK
    <3>3. ASSUME Head(replies) # NoCb, r # NULL, r # TooManyClients PROVE Own(Head(replies), r)
      <4>1. pc = "process" /\ got # <<>> /\ r = Head(got)
        BY <2>3, <3>3 DEF FromReplies
      <4>2. CASE Issued("monitor")
        <5>1. cmds[Head(replies)].kind = "monitor" /\ r.type \in {"status", "line"}
          BY <1>0, <3>1, <3>3, <4>1, <4>2, HandledReply DEF Mon
        <5>. QED
          BY <5>1 DEF Own
      <4>3. CASE ~ Issued("monitor")
        <5>1. cmds[Head(replies)].kind = "regular" /\ r.of = Head(replies) /\ r.type \in {"bulk", "error"}
          BY <1>0, <3>1, <3>3, <4>1, <4>3, HandledReply, LineFront
        <5>. QED
          BY <5>1 DEF Own
      <4>. QED
        BY <4>2, <4>3
    <3>4. Head(replies) # NoCb => Own(Head(replies), r)
      BY <3>3 DEF Own
    <3>. QED
      BY <1>0, <2>1, <3>1, <3>2, <3>4, OwnCalled
  <2>4. ASSUME NEW r \in Reply \cup {NULL}, FromInvalid(r) PROVE OwnReply'
    <3>1. invalid # <<>> /\ Called(Head(invalid), r)
      BY <2>4 DEF FromInvalid
    <3>2. Head(invalid) \in Command \cup {NoCb} /\ Head(invalid) \in Range(invalid)
      BY <1>0, <3>1, HeadTail DEF TypeOK
    <3>3. ASSUME r # NULL PROVE Own(Head(invalid), r)
      <4>1. pc = "process" /\ got # <<>> /\ replies = <<>> /\ r = Head(got) /\ r.type \notin {"array", "error"}
        BY <2>4, <3>3 DEF FromInvalid
      <4>2. Lined
        BY <1>0, <3>1, <4>1, HandledReply
      <4>3. r.type = "bulk" /\ r.of = Head(invalid)
        BY <1>0, <4>1, <4>2, LinePushed DEF Arr
      <4>4. cmds[Head(invalid)].kind = "regular"
        BY <1>0, <3>2 DEF Known
      <4>. QED
        BY <4>3, <4>4 DEF Own
    <3>4. Own(Head(invalid), r)
      BY <3>3 DEF Own
    <3>. QED
      BY <1>0, <2>1, <3>1, <3>2, <3>4, OwnCalled
  <2>5. ASSUME NEW r \in Reply \cup {NULL}, NEW c \in Channels, FromChannel(c, r) PROVE OwnReply'
    <3>1. channels[c] # NoCb /\ Called(channels[c], r) /\ channels[c] \in Command \cup {NoCb}
      BY <1>0, <2>5 DEF FromChannel, TypeOK
    <3>2. cmds[channels[c]].kind = "subscribe" /\ cmds[channels[c]].channel = c
      BY <1>0, <3>1 DEF Known
    <3>3. r # NULL => r.type = "array" /\ r.channel = c
      BY <2>5 DEF FromChannel
    <3>4. Own(channels[c], r)
      BY <3>2, <3>3 DEF Own
    <3>. QED
      BY <1>0, <2>1, <3>1, <3>4, OwnCalled
  <2>6. ASSUME NEW r \in Reply, Again(r) PROVE OwnReply'
    <3>1. /\ pc = "process" /\ got # <<>> /\ replies = <<>> /\ r.type # "error" /\ r = Head(got) /\ Called(cb, r)
          /\ ~ (/\ "SUBSCRIBED" \in flags
                /\ IF r.type = "array" THEN channels[r.channel] # NoCb ELSE invalid # <<>>)
      BY <2>6 DEF Again
    <3>2. Issued("monitor")
      BY <1>0, <3>1, HandledReply, LinePushed DEF Arr
    <3>3. Mon(cb) /\ (r.type \in {"status", "line"} \/ r = TooManyClients)
      BY <1>0, <3>1, <3>2, HandledReply
    <3>4. cb # NoCb => Own(cb, r)
      BY <3>3 DEF Mon, Own
    <3>5. cb \in Command \cup {NoCb}
      BY <1>0 DEF TypeOK
    <3>. QED
      BY <1>0, <2>1, <3>1, <3>4, <3>5, OwnCalled
  <2>. QED
    BY <1>0, <1>3, <2>2, <2>3, <2>4, <2>5, <2>6, ListMoves DEF Moves
<1>. QED
  BY <1>1, <1>2, <1>3, Steps

\* A callback is called with the reply it waits for, with the error of a Redis
\* that refuses the connection or with NULL, for an application that keeps to
\* the rules of MayIssue: redisProcessCallbacks never hands one to another.
THEOREM OwnReplyCorrect == ASSUME Careful PROVE Spec => []OwnReply
<1>1. Init => OwnReply
  BY EmptySeq DEF Init, OwnReply
<1>. QED
  BY <1>1, BaseInit, BaseNext, LiveInit, LiveNext, OwnNext, PTL DEF Spec

-----------------------------------------------------------------------------
(***************************************************************************)
(* Every callback of a regular command is called once.                     *)
(***************************************************************************)
\* No member of R is twice in s.
Once(s, R) == \A i, j \in DOMAIN s : s[i] \in R /\ s[i] = s[j] => i = j

LEMMA OnceTail ==
    ASSUME NEW S, NEW s \in Seq(S), s # <<>>, NEW R, Once(s, R)
    PROVE  Once(Tail(s), R) /\ (Head(s) \in R => Head(s) \notin Range(Tail(s)))
<1>. PICK t \in Seq(S) : t = Tail(s)
  BY HeadTailProperties
<1>1. /\ Len(s) \in Nat /\ Len(s) >= 1 /\ DOMAIN s = 1..Len(s) /\ s[1] = Head(s)
      /\ DOMAIN t = 1..(Len(s) - 1) /\ \A i \in 1..(Len(s) - 1) : t[i] = s[i + 1]
  BY EmptySeq, LenProperties, HeadTailProperties
<1>2. \A i \in DOMAIN t : i + 1 \in DOMAIN s /\ t[i] = s[i + 1] /\ i + 1 # 1
  BY <1>1
<1>3. \A i, j \in DOMAIN t : i + 1 = j + 1 => i = j
  BY <1>1
<1>4. Once(t, R)
  BY <1>2, <1>3 DEF Once
<1>5. Head(s) \in R => Head(s) \notin Range(t)
  <2>1. 1 \in DOMAIN s /\ Head(s) = s[1]
    BY <1>1
  <2>. QED
    BY <1>2, <2>1 DEF Once, Range
<1>. QED
  BY <1>4, <1>5

LEMMA OnceAppend ==
    ASSUME NEW S, NEW s \in Seq(S), NEW x \in S, NEW R, Once(s, R), x \in R => x \notin Range(s)
    PROVE  Once(Append(s, x), R)
<1>. PICK t \in Seq(S) : t = Append(s, x)
  BY AppendProperties
<1>1. /\ Len(s) \in Nat /\ DOMAIN s = 1..Len(s) /\ DOMAIN t = 1..(Len(s) + 1)
      /\ (\A i \in 1..Len(s) : t[i] = s[i]) /\ t[Len(s) + 1] = x
  BY AppendProperties, LenProperties
<1>2. DOMAIN t = DOMAIN s \cup {Len(s) + 1} /\ (\A i \in DOMAIN s : t[i] = s[i])
  BY <1>1
<1>3. x \in R => \A i \in DOMAIN s : s[i] # x
  BY DEF Range
<1>. QED
  BY <1>1, <1>2, <1>3 DEF Once

\* A callback waits in one list or has been called.
CalledInv ==
    /\ Once(replies, RegularCommands) /\ Once(invalid, RegularCommands)
    /\ \A n \in RegularCommands :
           /\ ~ (n \in Range(replies) /\ n \in Range(invalid))
           /\ n \in Range(replies) \cup Range(invalid) <=> CallsOf(n) = {}
           /\ \A i, j \in CallsOf(n) : i = j

LEMMA CalledInit ==
    ASSUME Init
    PROVE  CalledInv
BY EmptySeq DEF Init, CalledInv, Once, RegularCommands

\* Callback c is called and leaves the list that it waited in, if it was that of
\* a regular command.
LEMMA CallOnce ==
    ASSUME TypeOK, CalledInv, cmds' = cmds, NEW c \in Command \cup {NoCb}, NEW r \in Reply \cup {NULL},
           Called(c, r), NoCb \notin RegularCommands,
           Once(replies', RegularCommands), Once(invalid', RegularCommands),
           c \in RegularCommands => c \in Range(replies) \cup Range(invalid),
           \A n \in RegularCommands :
               /\ n \in Range(replies') <=> n \in Range(replies) /\ n # c
               /\ n \in Range(invalid') <=> n \in Range(invalid) /\ n # c
    PROVE  CalledInv'
<1>1. RegularCommands' = RegularCommands
  BY DEF RegularCommands
<1>2. ASSUME NEW n \in RegularCommands
      PROVE  /\ n \in Range(replies') \cup Range(invalid') <=> CallsOf(n)' = {}
             /\ \A i, j \in CallsOf(n)' : i = j
  <2>1. CASE c # n
    <3>1. CallsOf(n)' = CallsOf(n)
      <4>1. CASE c = NoCb
        BY <4>1 DEF Called, CallsOf
      <4>2. CASE c # NoCb
        <5>1. calls' = Append(calls, [cb |-> c, reply |-> r]) /\ c \in Command
          BY <4>2 DEF Called
        <5>2. PICK m : /\ m \notin DOMAIN calls /\ DOMAIN calls' = DOMAIN calls \cup {m}
                       /\ \A i \in DOMAIN calls : calls'[i] = calls[i]
                       /\ calls'[m].cb = c
          BY <5>1, CallsGrow
        <5>. QED
          BY <2>1, <5>2 DEF CallsOf
      <4>. QED
        BY <4>1, <4>2
    <3>. QED
      BY <1>2, <2>1, <3>1 DEF CalledInv
  <2>2. CASE c = n
    <3>1. c # NoCb /\ c \in Command /\ CallsOf(n) = {}
      BY <1>2, <2>2 DEF CalledInv
    <3>2. calls' = Append(calls, [cb |-> c, reply |-> r])
      BY <3>1 DEF Called
    <3>3. PICK m : /\ m \notin DOMAIN calls /\ DOMAIN calls' = DOMAIN calls \cup {m}
                   /\ \A i \in DOMAIN calls : calls'[i] = calls[i]
                   /\ calls'[m].cb = c
      BY <3>1, <3>2, CallsGrow
    <3>4. CallsOf(n)' = {m}
      BY <2>2, <3>1, <3>3 DEF CallsOf
    <3>. QED
      BY <1>2, <2>2, <3>4
  <2>. QED
    BY <2>1, <2>2
<1>3. \A n \in RegularCommands : ~ (n \in Range(replies') /\ n \in Range(invalid'))
  BY DEF CalledInv
<1>. QED
  BY <1>1, <1>2, <1>3 DEF CalledInv

LEMMA CalledCommand ==
    ASSUME TypeOK, Known, CalledInv, NEW kind \in Kind, NEW channel \in Channels, redisAsyncCommand(kind, channel)
    PROVE  CalledInv'
<1>. DEFINE R == RegularCommands
<1>1. PICK n : /\ n = Len(cmds) + 1 /\ n \in Command /\ n # NoCb /\ n \notin DOMAIN cmds
               /\ DOMAIN cmds' = DOMAIN cmds \cup {n}
               /\ \A x \in DOMAIN cmds : cmds'[x] = cmds[x]
               /\ cmds'[n].kind = kind
  BY CommandsGrow
<1>2. /\ kind = "regular" => R' = R \cup {n}
      /\ kind # "regular" => R' = R
      /\ n \notin R
  BY <1>1 DEF RegularCommands
<1>3. n \notin Range(replies) /\ n \notin Range(invalid)
  BY <1>1 DEF Known
<1>4. \A x : CallsOf(x)' = CallsOf(x)
  BY DEF redisAsyncCommand, control, CallsOf
<1>5. CallsOf(n) = {}
  BY <1>1 DEF Known, CallsOf
<1>6. \/ kind = "regular" /\ replies' = replies /\ invalid' = Append(invalid, n)
      \/ kind = "regular" /\ replies' = Append(replies, n) /\ invalid' = invalid
      \/ kind # "regular" /\ replies' \in {replies, Append(replies, n)} /\ invalid' = invalid
  BY <1>1 DEF redisAsyncCommand, NextCommand, lists, Kind
<1>7. /\ replies \in Seq(Command \cup {NoCb}) /\ invalid \in Seq(Command)
      /\ n \in Command \cup {NoCb} /\ n \in Command
  BY <1>1 DEF TypeOK
<1>8. Range(Append(replies, n)) = Range(replies) \cup {n} /\ Range(Append(invalid, n)) = Range(invalid) \cup {n}
  BY <1>7, AppendRange
<1>9. Once(replies, R') /\ Once(invalid, R')
  <2>1. \A i \in DOMAIN replies : replies[i] \in R' => replies[i] \in R
    BY <1>2, <1>3 DEF Range
  <2>2. \A i \in DOMAIN invalid : invalid[i] \in R' => invalid[i] \in R
    BY <1>2, <1>3 DEF Range
  <2>. QED
    BY <2>1, <2>2 DEF CalledInv, Once
<1>10. Once(Append(replies, n), R') /\ Once(Append(invalid, n), R')
  <2>. HIDE DEF R
  <2>. QED
    BY <1>3, <1>7, <1>9, OnceAppend
<1>11. CASE kind = "regular"
  <2>1. Range(replies') \cup Range(invalid') = Range(replies) \cup Range(invalid) \cup {n}
    BY <1>6, <1>8, <1>11
  <2>2. Once(replies', R') /\ Once(invalid', R')
    BY <1>6, <1>9, <1>10, <1>11
  <2>3. ASSUME NEW x \in R'
        PROVE  /\ ~ (x \in Range(replies') /\ x \in Range(invalid'))
               /\ x \in Range(replies') \cup Range(invalid') <=> CallsOf(x)' = {}
               /\ \A i, j \in CallsOf(x)' : i = j
    <3>1. CASE x = n
      BY <1>3, <1>4, <1>5, <1>6, <1>8, <1>11, <2>1, <3>1
    <3>2. CASE x # n
      <4>1. x \in RegularCommands
        BY <1>2, <1>11, <2>3, <3>2
      <4>. QED
        BY <1>4, <1>6, <1>8, <1>11, <3>2, <4>1 DEF CalledInv
    <3>. QED
      BY <3>1, <3>2
  <2>. QED
    BY <2>2, <2>3 DEF CalledInv
<1>12. CASE kind # "regular"
  <2>1. Once(replies', R') /\ Once(invalid', R')
    BY <1>6, <1>9, <1>10, <1>12
  <2>2. R' = R /\ \A x \in R : x # n
    BY <1>2, <1>12
  <2>3. \A x \in R : (x \in Range(replies') <=> x \in Range(replies)) /\ (x \in Range(invalid') <=> x \in Range(invalid))
    BY <1>6, <1>8, <1>12, <2>2
  <2>. QED
    BY <1>4, <2>1, <2>2, <2>3 DEF CalledInv
<1>. QED
  BY <1>11, <1>12

LEMMA CalledNext ==
    ASSUME Base, LiveInv, CalledInv, [Next]_vars
    PROVE  CalledInv'
<1>0. TypeOK /\ Known
  BY DEF Base
<1>1. CASE UNCHANGED vars
  BY <1>1 DEF CalledInv, RegularCommands, CallsOf, vars, context, lists, control
<1>2. CASE \E kind \in Kind, channel \in Channels : redisAsyncCommand(kind, channel)
  BY <1>0, <1>2, CalledCommand
<1>3. CASE Step
  <2>1. cmds' = cmds /\ NoCb \notin RegularCommands
    BY <1>0, <1>3, StepKeepsCommands, KindOfCommand DEF RegularCommands
  <2>2. Once(replies, RegularCommands) /\ Once(invalid, RegularCommands)
    BY DEF CalledInv
  <2>3. replies \in Seq(Command \cup {NoCb}) /\ invalid \in Seq(Command) /\ cb \in Command \cup {NoCb}
    BY <1>0 DEF TypeOK
  <2>4. CASE Still
    BY <2>1, <2>4 DEF Still, lists, CalledInv, RegularCommands, CallsOf
  <2>5. ASSUME NEW r \in Reply \cup {NULL}, FromReplies(r) PROVE CalledInv'
    <3>1. replies # <<>> /\ replies' = Tail(replies) /\ invalid' = invalid /\ Called(Head(replies), r)
      BY <2>5 DEF FromReplies
    <3>2. /\ Head(replies) \in Command \cup {NoCb} /\ Head(replies) \in Range(replies)
          /\ Range(replies) = Range(replies') \cup {Head(replies)}
      BY <2>3, <3>1, HeadTail
    <3>3. /\ Once(replies', RegularCommands)
          /\ Head(replies) \in RegularCommands => Head(replies) \notin Range(replies')
      BY <2>2, <2>3, <3>1, OnceTail
    <3>4. \A n \in RegularCommands :
             /\ n \in Range(replies') <=> n \in Range(replies) /\ n # Head(replies)
             /\ n \in Range(invalid') <=> n \in Range(invalid) /\ n # Head(replies)
      BY <3>1, <3>2, <3>3 DEF CalledInv
    <3>. QED
      BY <1>0, <2>1, <2>2, <3>1, <3>2, <3>3, <3>4, CallOnce
  <2>6. ASSUME NEW r \in Reply \cup {NULL}, FromInvalid(r) PROVE CalledInv'
    <3>1. invalid # <<>> /\ invalid' = Tail(invalid) /\ replies' = replies /\ Called(Head(invalid), r)
      BY <2>6 DEF FromInvalid
    <3>2. /\ Head(invalid) \in Command \cup {NoCb} /\ Head(invalid) \in Range(invalid)
          /\ Range(invalid) = Range(invalid') \cup {Head(invalid)}
      BY <2>3, <3>1, HeadTail
    <3>3. /\ Once(invalid', RegularCommands)
          /\ Head(invalid) \in RegularCommands => Head(invalid) \notin Range(invalid')
      BY <2>2, <2>3, <3>1, OnceTail
    <3>4. \A n \in RegularCommands :
             /\ n \in Range(replies') <=> n \in Range(replies) /\ n # Head(invalid)
             /\ n \in Range(invalid') <=> n \in Range(invalid) /\ n # Head(invalid)
      BY <3>1, <3>2, <3>3 DEF CalledInv
    <3>. QED
      BY <1>0, <2>1, <2>2, <3>1, <3>2, <3>3, <3>4, CallOnce
  <2>7. ASSUME NEW c \in Command \cup {NoCb}, NEW r \in Reply \cup {NULL}, Called(c, r),
               c \notin RegularCommands, UNCHANGED <<replies, invalid>>
        PROVE  CalledInv'
    <3>1. \A n \in RegularCommands : n # c
      BY <2>7
    <3>. QED
      BY <1>0, <2>1, <2>2, <2>7, <3>1, CallOnce
  <2>8. ASSUME NEW r \in Reply \cup {NULL}, NEW c \in Channels, FromChannel(c, r) PROVE CalledInv'
    <3>1. /\ channels[c] # NoCb /\ Called(channels[c], r) /\ channels[c] \in Command \cup {NoCb}
          /\ UNCHANGED <<replies, invalid>>
      BY <1>0, <2>8 DEF FromChannel, TypeOK
    <3>2. channels[c] \notin RegularCommands
      BY <1>0, <3>1 DEF Known, RegularCommands
    <3>. QED
      BY <2>7, <3>1, <3>2
  <2>9. CASE Repushed
    <3>1. /\ pc = "process" /\ "MONITORING" \in flags
          /\ replies' = Append(replies, cb) /\ invalid' = invalid /\ calls' = calls
      BY <2>9 DEF Repushed, NoReply
    <3>2. Live /\ Processing
      BY <3>1 DEF Live, Processing
    <3>3. cb \notin RegularCommands
      <4>1. Watching
        BY <3>1, <3>2 DEF LiveInv
      <4>2. Mon(cb)
        BY <3>2, <4>1 DEF Watching, Dead, Alone
      <4>. QED
        BY <2>1, <4>2 DEF Mon, RegularCommands
    <3>4. Range(replies') = Range(replies) \cup {cb} /\ Once(replies', RegularCommands)
      BY <2>2, <2>3, <3>1, <3>3, AppendRange, OnceAppend
    <3>5. \A n \in RegularCommands : n # cb /\ (n \in Range(replies') <=> n \in Range(replies))
      BY <3>3, <3>4
    <3>6. RegularCommands' = RegularCommands /\ \A n : CallsOf(n)' = CallsOf(n)
      BY <2>1, <3>1 DEF RegularCommands, CallsOf
    <3>. QED
      BY <2>2, <3>1, <3>4, <3>5, <3>6 DEF CalledInv
  <2>10. ASSUME NEW r \in Reply, Again(r) PROVE CalledInv'
    <3>1. /\ pc = "process" /\ got # <<>> /\ replies = <<>> /\ r.type # "error" /\ r = Head(got) /\ Called(cb, r)
          /\ ~ (/\ "SUBSCRIBED" \in flags
                /\ IF r.type = "array" THEN channels[r.channel] # NoCb ELSE invalid # <<>>)
          /\ UNCHANGED <<replies, invalid>>
      BY <2>10 DEF Again, lists
    <3>2. Issued("monitor")
      BY <1>0, <3>1, HandledReply, LinePushed DEF Arr
    <3>3. Mon(cb)
      BY <1>0, <3>1, <3>2, HandledReply
    <3>4. cb \notin RegularCommands
      BY <2>1, <3>3 DEF Mon, RegularCommands
    <3>. QED
      BY <2>3, <2>7, <3>1, <3>4
  <2>. QED
    BY <1>0, <1>3, <2>4, <2>5, <2>6, <2>8, <2>9, <2>10, ListMoves DEF Moves
<1>. QED
  BY <1>1, <1>2, <1>3, Steps

\* The callback of a regular command is called once, whatever fails and
\* whatever the callbacks before it do, for an application that keeps to the
\* rules of MayIssue: never twice, and at the latest when __redisAsyncFree
\* takes the lists down.
THEOREM CalledOnceCorrect == ASSUME Careful PROVE Spec => []CalledOnce
<1>1. ASSUME Base, CalledInv PROVE CalledOnce
  <2>1. ASSUME NEW n \in RegularCommands
        PROVE  Cardinality(CallsOf(n)) <= 1 /\ (pc = "freed" => CallsOf(n) # {})
    <3>1. CASE CallsOf(n) = {}
      <4>1. Cardinality(CallsOf(n)) = 0
        BY <3>1, FS_EmptySet
      <4>2. n \in Range(replies) \cup Range(invalid)
        BY <1>1, <2>1, <3>1 DEF CalledInv
      <4>3. replies # <<>> \/ invalid # <<>>
        BY <4>2, EmptySeq DEF Range
      <4>4. pc # "freed"
        BY <1>1, <4>3 DEF Base, ControlInv, PastReplies, PastInvalid
      <4>. QED
        BY <4>1, <4>4
    <3>2. CASE CallsOf(n) # {}
      <4>1. PICK i : CallsOf(n) = {i}
        BY <1>1, <2>1, <3>2 DEF CalledInv
      <4>2. Cardinality(CallsOf(n)) = 1
        BY <4>1, FS_Singleton
      <4>. QED
        BY <3>2, <4>2
    <3>. QED
      BY <3>1, <3>2
  <2>. QED
    BY <2>1 DEF CalledOnce
<1>. QED
  BY <1>1, BaseInit, BaseNext, LiveInit, LiveNext, CalledInit, CalledNext, PTL DEF Spec
=============================================================================
