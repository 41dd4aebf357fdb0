# A verification of the ads-diary server

ads-diary is a shared diary served from two sites. Each site runs a web server
(`src/mongoose/server.cpp`) and a Redis of its own; edits and comments are
committed under parallel snapshot isolation (PSI) and replicated between the
sites over ZeroMQ. This directory holds TLA+ modules of that protocol, the TLC
configurations that check them on small instances, and proofs checked by TLAPS.

## 1. The system

Every diary has a *preferred site*, the parity of its id (`PREFER_SITE`).

| Part | State | Operations | Code |
|---|---|---|---|
| HTTP thread of a server | locals of the one handler in progress, `committedVTS` | `handle_edit_diary`, `handle_add_comment`, `handle_get_diary_content`, `handle_get_comments`, `handle_like`, `handle_get_like` | server.cpp:249-427 |
| Commit protocol | lock keys, histories, `committedVTS`, `msg_list` | `fast_commit`, `slow_commit`, `acquire_lock`, `release_lock` | server.cpp:85-105, 429-563 |
| Replicater thread | the message being applied, `committedVTS`, `msg_list` | receive, store, release, count, publish | server.cpp:141-226 |
| Redis of a site | `diary_<id>`, `diary_<id>_comments` (lists), `<key>_lock`, `diary_<id>_like` (counters) | RPUSH, LRANGE, INCR, SET, GET | used through hiredis |
| hiredis, blocking | output buffer, reply parser, error of a `redisContext` | `redisCommand`, pipelined calls, `redisReconnect` | hiredis.c, read.c |
| hiredis, asynchronous | lists of callbacks, flags, subscriptions | `redisAsyncCommand`, events, disconnect, free | async.c (the server does not use it) |
| HTTP server | connections with their buffers, chunked bodies and files | accept, read, assemble, handle, send, close | mongoose.c |
| ZeroMQ channel | messages published and not received | send, receive | server.cpp:207-213, 175 |
| Versions and objects | `psi_ver_t`, fields, JSON form | conversion | object.hpp |
| Start-up | command line, connections, seed data | `main`, `redis_init`, `replicater_init`, `generate_data` | server.cpp:107-139, 228-246, 597-774 |
| Web client | `diary_ver1`, `diary_ver2` of each open page | load, edit, comment, like | www/js/detail.js |

How the parts meet:

- The two threads of a server share `committedVTS` (under `vts_lock`),
  `msg_list` (under `mutex`) and the connection `redis_cli` (under nothing).
- The two servers share the Redis of the preferred site: a site that is not
  preferred takes the lock there, and reads the history there
  (`redis_cli_master`), but stores its commit in its own Redis. It returns with
  the lock taken; the preferred site's replicater gives it back once it has
  stored the commit.
- A commit is acknowledged when it is in `msg_list`. The replicater publishes the
  whole list after each message it applies, or when its poll has timed out.
- A page remembers the version it was shown and sends it back with an edit. That
  version is the start timestamp of the commit.

### What is hard, and what makes each part correct

| Part | Hard behaviour | Correct when |
|---|---|---|
| Locks | one lock key is taken by INCR and reset by SET 0 from up to three threads on two machines; failed attempts keep raising it | one owner at a time, free exactly when nobody owns it (`SingleWriter`), and always free again (`LockReleased`) |
| Commit | the history is checked at one site and stored at the other; pages hold stale versions | first committer wins (`NoLostUpdate`), timestamps are unique (`VersionsUnique`) |
| Replication | a commit is on its way through four places; receiving is four steps | no commit is lost or counted twice (`SeqnoConservation`), one order at both sites (`SameOrder`), causes before effects (`CausalReplication`), equal stores at rest (`Converged`), arrival (`Replicated`) |
| Reading | the index is into one list and used on another | `ReadInBounds`; the last edit is shown (`LatestReadIsLastCommit`, which fails) |
| Start-up, failure | restart from (0,0) over old data, lost messages, a lock left taken | still one owner (`MutualExclusion`); without a crash, commits are never counted twice, reordered or overwritten (`NeverCountedTwice`, `OrderedReplicas`, `NoEditOverwritten`); with one they are (`ConflictsFound` fails) |
| Redis connection | short writes, replies cut anywhere, timeouts with a late answer, two threads on one context | each reply goes to its command (`ReplyIsOwn`), none stays in the parser (`ReplyNotStuck`), nothing is executed twice (`ExecutedInOrder`), nothing issued after a failure (`FailureSticks`) |
| HTTP | requests in pieces over many rounds of a loop shared by all connections, chunked bodies, files larger than the buffer, browsers that leave | handled once, in order and whole; answers whole, in order, before the close, and always |
| Asynchronous commands | callbacks that issue commands, disconnect or free the context they are called from; modes that change between a command and its reply | each callback is called once (`CalledOnce`, `EveryCallbackCalled`) with its own reply (`OwnReply`), a disconnect ends (`DisconnectCompletes`) and is reported truly (`StatusTruthful`) |

The hazards, line by line, are in `PROJECT.json`.

## 2. Modules

    Versions         psi_ver_t, the two sites, the order on versions
    DiaryHistory     the two loops over a history              EXTENDS Versions
    DiaryCommit      the protocol: two servers, four threads   EXTENDS DiaryHistory
    DiaryCommitProps its properties, the refinement mapping    EXTENDS DiaryCommit
    DiaryRegister    the abstract specification
    DiaryClaims      what comments and docs say and the code does not do
    DiaryFaults      start-up, crash, restart, lost messages   EXTENDS DiaryCommitProps
    DiaryFaultClaims what a fault makes false                  EXTENDS DiaryFaults
    RedisReader      the reply parser of hiredis
    RedisConnection  a blocking context and its threads        EXTENDS RedisReader
    RedisAsync       an asynchronous context
    HttpRequest      request heads, lengths, chunked bodies
    HttpServer       the select loop, handlers, likes, files   EXTENDS HttpRequest
    MC*              the modules TLC runs
    DiaryCommitProofs  types, the conservation of numbers, unique timestamps,
                     one owner per lock, first committer wins, one order,
                     the refinement of DiaryRegister
    DiaryReplicaProofs  causes before effects, convergence, reads
    DiaryFaultProofs what is true of DiaryFaults
                     (each of these extends those it rests on)
    RisingSequences  lemmas on sequences and sets of numbers
    RedisConnectionProofs, RedisAsyncProofs
                     the theorems of the two kinds of context
    HttpServerProofs the HTTP server: types, bounds, what is handled
    HttpAnswerProofs what its browsers get          EXTENDS HttpServerProofs

The Diary modules are the protocol of the server. They take for granted that a
Redis command is atomic and answered by its own reply, and that the event
loop calls one handler at a time with the request a page has sent. What it
takes to provide that is the subject of the other three groups:
`RedisConnection` (and the claim that two threads share one), `HttpServer`, and
`RedisAsync` for the half of hiredis the server does not use.

### The commit protocol

`DiaryCommit` is the core. One step is one Redis command, or one section under a
mutex, so everything that can happen between two of them does.

| Variable | Code |
|---|---|
| `history[s][k]` | the Redis list `k` of site `s`, each entry reduced to its version |
| `lock[s][k]` | the Redis counter `<k>_lock` of site `s` |
| `committedVTS[s]` | `committedVTS` of server `s` |
| `pc[s]`, `txn[s]` | the point the HTTP thread has reached in `fast_commit` or `slow_commit`, and its locals |
| `msg_list[s]` | `msg_list` |
| `net[s]` | the messages between the PUB socket of the peer and the SUB socket of `s` |
| `rpc[s]`, `rep_msg[s]` | the point the replicater has reached in its loop, and its message |
| `pages[s][d]` | the pairs `(diary_ver1, diary_ver2)` held by open pages of diary `d` |
| `committed[k]` | none (auxiliary): the commits of `k` in the order of their stamps, for the properties |

| Action | Code |
|---|---|
| `handle_edit_diary`, `handle_add_comment` | the handler up to its INCR, with the early return when the lock is taken |
| `FastCheck`, `FastAbort`, `FastStamp`, `FastPush`, `FastQueue`, `FastDone` | `fast_commit`: LRANGE and check; SET 0 and return false; stamp; RPUSH; queue; SET 0 and return true |
| `SlowCheck`, `SlowAbort`, `SlowStamp`, `SlowPush`, `SlowQueue` | `slow_commit`, on the lock and the history of the peer |
| `handle_get_diary_content` | LRANGE and the scan; the page keeps the version shown |
| `RepRecv`, `RepPush`, `RepUnlock`, `RepCount`, `RepDrain` | one turn of the replicater's loop |

`DiaryRegister` says what editing promises with none of this: a log of edits per
diary, each made from the newest version, and one view per site that grows by
the next edit of the log. `DiaryCommitProps` maps the log to `committed`
and the views to the histories; `ImplementsRegister` is the abstract
specification under that mapping.

What the model takes for granted: each Redis command is atomic and is answered
by its own reply; the sockets are connected and lose nothing; both servers are up
and have generated their data, once (the last two are put back by
`DiaryFaults`); a client submits only versions a page has held,
(-1,-1) included; texts and users are payload the protocol never looks at; the
two integers of a version stay within the range of int.
An edit sent before its page has loaded has version (-1,-1), which every
history refuses. When the access `hlist[max_idx]` is out of bounds the model lets
the reply show any entry; `ReadInBounds` shows that it never is under these
assumptions.

### Start-up and faults

`DiaryFaults` runs the actions of `DiaryCommit` on servers that come and go.

| Variable, action | Code |
|---|---|
| `up`, `Start` | the process: `main` creates the replicater thread, then calls `generate_data` |
| `toSeed`, `generate_data` | the RPUSHes `generate_data` has yet to make, one a step; requests are served after the last |
| `joined`, `Join` | the subscription has reached the PUB socket of the peer |
| `RepDrain`, `RepDrop` | the send loop, to a peer that has joined or to nobody |
| `Crash` | the process dies, between any two steps: killed, or on the NULL a failed `redisCommand` returns, which every caller dereferences. `committedVTS`, `msg_list`, the handler and the message being applied are gone; the two Redis, with locks taken, stay; messages sent and not yet received may be lost from the newest on, and those the dead server has not applied are |

A crash between the timestamp and the RPUSH of a commit takes the commit out of
`committed`: it never was stored anywhere.

### The Redis connection

`RedisReader` is the parser of read.c on symbols (a type byte, a digit, CR, LF,
anything else): its stack of tasks, its position, the discarding of consumed
bytes, lines, bulk strings, nested arrays and its errors. `RedisConnection` puts it behind a
context: `redisAppendCommand` adds to `obuf`; `redisGetReply` looks in
the reader, writes (`redisBufferWrite` writes any part of the buffer), reads
(`redisBufferRead` gets any part of what has arrived), or returns NULL on an
error, end of stream or timeout, after which `EarlyReturn` refuses
until `redisReconnect`. Redis executes the commands of a connection in order
and may close it between any two steps. `redisReconnect` only closes the socket: what had been
written to it stays in a queue of its own (`wire[c]` for connection `c`), which Redis may read at
any time, before or after what the next connection brings, or find closed; its
replies then go nowhere. A reply is compared with the objects
the parser created, at their places in the arrays.

`RedisAsync` has the callback lists of an asynchronous context, its flags,
its events and the loop of `redisProcessCallbacks`; `asked` records that the application has called
`redisAsyncDisconnect` or `redisAsyncFree`. A running callback is a state of its
own (`pc = "callback"`), in which the application may issue commands, call
`redisAsyncDisconnect` or `redisAsyncFree`; after it `CallbackReturns` goes back to the
loop that called. A failed assertion ends in `"aborted"`. Redis and the
network act between the events, as the thread does not look at the socket in
the middle of one. The error replies of a Redis that has too many clients or is
in subscriber mode are included.

`Careful` are the rules `MayIssue` that an application has to keep for the
assertions of async.c to hold, and that nothing in the repository states: unsubscribe
what is subscribed, wait for the reply to an UNSUBSCRIBE before the next
command, and use MONITOR on a connection of its own.

### The HTTP server

`HttpServer` is one turn of `mg_socket_if_poll` after the other: select, then
for each ready connection accept, read or write, then the loop that closes. A
request is a sequence of units (header lines, the blank line, chunk sizes, data); the socket
delivers them in pieces. `mg_http_handler` works on the connection's buffer:
`HttpRecv` for MG_EV_RECV, `HttpClose` for MG_EV_CLOSE with what is
buffered. `ev_handler` answers a like from the counter of the preferred site;
the effect of the diary and comment calls is the subject of `DiaryCommit`. A
file goes out in pieces as the send buffer has room
(`mg_http_transfer_file_data`). Browsers connect, write, read, shut down one
direction or disappear, after any part of what they wrote.

## 3. Runs

| Run | Instance | States | Shows |
|---|---|---|---|
| `safety` | diary 2 and its comments, 2 commits per site, lock counter up to 2 | 2.0 M | type, locks, clocks, first committer wins, order, causality, convergence, reads |
| `two_diaries` | diaries 1 and 2, 1 commit per site, with fairness | 0.12 M | unique timestamps across objects; every step is a step of the register or a stutter; locks are given back, commits arrive |
| `faults` | diary 2, 3 edits, an edit and a comment, or 1 commit and a crash | 0.65 M | what start-up, lost messages and a crash leave of the guarantees |
| `redis_one` | 3 replies (nested, nil, empty, too deep), 1 thread, a reconnection | 0.14 M | replies, order of execution, failures |
| `async` | 3 commands, 2 channels, 1 pushed message, with fairness | 0.70 M | callbacks and disconnection |
| `http` | 2 connections, 9 scripts of up to 3 requests, with fairness | 0.67 M | requests, answers, files, likes |
| `claim_latest`, `claim_updating`, `claim_conflicts`, `claim_shared`, `claim_whole`, `claim_assert` | | until violated | six statements of the repository that the code refutes |

Bounds. `Diaries = {2}` has site 0 preferred, so site 0 runs `fast_commit`, site 1
runs `slow_commit`, and both fast-commit comments, the one path on which both sites
write one list. Diary 1 adds the opposite roles and the four seeded comments. `MaxSeqno = 2`
is the least with a commit made from another commit at each site, with two
messages in one queue to reorder, and with a second lock holder after the
first. Diaries interact only through the vectors and the queues, so two
of them show what there is between objects. `MaxLock = 2` lets an attempt fail while the
lock is held; a higher count is read in the same way (only the result 1 is
tested). Past `MaxLock` an attempt is not offered: it changes nothing but the
counter. A commit is only started below `MaxSeqno`; the rest of the protocol
always runs to its end. The network and the queues have no bound of their own.

`faults`: the constraint `FewCommits` allows three edits without a crash (a lost
one, a later one of the same site, and one of the peer), or an edit and a comment, and
one commit with a crash, after which the properties left are about locks; all of
them are theorems for any number of commits and crashes. `MaxCrashes = 1` as the second crash of a server meets the state
the first one met, a store with data and a vector at zero.

`redis_one`: `DiscardAt = 8` and `TaskLimit = 5` stand for 1024 consumed bytes
and 9 tasks. Both limits are reached: the replies are longer than 8 symbols,
one array is nested too deep, and several nested arrays end with one element.
One reconnection, as a further one starts from the same empty buffers; two connections are then read
in any interleaving.

`async`: three commands are a subscription, its end and one in between, or two
regular ones and one issued by a callback. Replies are whole or cut in one place, as the
parser has a model of its own.

`http`: sizes are in units. A file of 3 does not fit the send buffer of 2, a
request of 5 lines is above the limit of 4, a receive takes 3 and a socket
has room for 2, so that every buffer fills and every message is cut. The scripts hold
each kind of request: likes of both sites' diaries, keep-alive and closing
files, chunked, missing, malformed, oversized, unanswered and pipelined ones. The second
connection only sends a like, which is enough to interleave with each of them.

In `redis_one`, `http` and `async` a final state is a real end (all commands issued,
all browsers gone, the process aborted by an assert, the context freed),
so they do not check for deadlock; in the others no state is one: the replicater's turn with nothing to send is always
possible, as in the code, and a server that is down can be started. The safety properties do not rest on it.

Each property of a passing run has a mutant, a small wrong change of a mapped definition that
the same run refutes: the peer's lock given back after every commit,
the own number counted for the peer's, the messages sent back to front, the history
checked at the wrong site, and so on (definitions named `X_Suffix` next to `X`).

### Fairness

`FairSpec` adds weak fairness to the steps of a handler that has begun
(`fast_commit` and `slow_commit` never wait for anything but a Redis reply), to
the replicater's receiving (its poll returns when there is a message), to its
applying steps, and to its publishing (the poll has a timeout of 100 ms, so the loop
turns). Requests are not fair: no client has to come. With that, every lock that is taken is released
and every commit reaches both sites.

`HttpServer`: the main thread calls `mg_mgr_poll` for ever, which is weak fairness of
the loop (written out in `LoopFairness` with the condition under which the loop
is enabled, for which TLC would otherwise evaluate the whole action), and a browser that stays reads. Browsers need not send.

`RedisAsync`: the event library reports the events that are watched for, the
functions called return, an attempt to connect ends, and a Redis that is
there answers. The application need not do anything.

### What the claims show

- `LatestReadIsLastCommit` (server.cpp:278): site 0 commits (1,0). The replicater of site 1
  stores it, a page of site 1 loads it and edits it. The slow commit passes the
  check, and is stamped before the replicater has counted (1,0): its timestamp is
  (0,1), not above (1,0). The edit is acknowledged and replicated, and no read
  ever shows it, as the scan keeps the first of two incomparable entries. Pages go on
  loading (1,0), which the check refuses: the diary can never be edited
  again. Counting before storing, or both under one lock, would close the gap.
- `TakenMeansUpdating` (server.cpp:557): site 1 commits before the peer has
  subscribed. The message is dropped and with it the release of the lock, and the
  diary is "being updated" for good.
- `ConflictsFound` (server.cpp:459): after a restart the vector counts from (0,0)
  again. New commits are stamped below the versions already stored, no check finds
  them newer than what a page holds, and the next edit overwrites one.
- `ReplyIsOwn` with two threads (hiredis README.md:71): the HTTP thread and the replicater
  share `redis_cli`. One reads the reply to the other's command; an INCR of a
  lock can return the length of a list.
- `OnlyWholeHandled` (server-example.md:8): a browser that leaves in the middle
  of a body still has its form handled, cut where it left.
- `AssertionsHold` without `Careful` (async.c:464): SUBSCRIBE, UNSUBSCRIBE, GET in one
  go end in a failed assertion.

### What else came to light

Not stated as a claim, since no text of the repository says otherwise, or covered by a weaker property:

- Comments are fast-committed at both sites (server.cpp:430 speaks of the preferred one),
  so comment lists of the two sites can differ in order: `SameOrder` is about
  diaries and `Converged` compares bags. Failed attempts leave their INCR
  in the lock key (storage.txt:22 speaks of 0 and 1), until the holder's SET 0.
- `handle_add_comment` says success when the lock was taken and the comment
  dropped; `handle_like` returns an unassigned `success`; `/printcontent` answers
  nothing, and its browser waits.
- Pipelined requests: `rcvd` is reset with the next request already in the
  buffer, which then waits for bytes that may never come, or is taken for a part of the body
  before it; a second file starts with the first one's `sent`. A second chunked request on a connection
  meets the assert of `mg_handle_chunked`, or a wrong offset. The pages send neither.
- async.c: MONITOR puts the callback called last back in the list, so that a line can
  reach another command's callback or none; an error reply to a command issued while
  subscribed ends the connection, where line 636 means it for the callback; a
  disconnect does not wait for commands issued while subscribed (README.md:330
  says all); `onConnect` runs without IN_CALLBACK, so a context freed in it is used afterwards.
- A failed connection is not always reported as one: when one of the callbacks that are then called with
  NULL frees the context, `onDisconnect` is told REDIS_OK (async.c:304-308), where
  README.md:277-279 of hiredis has REDIS_ERR for a disconnection caused by an error.
  `StatusTruthful` is therefore one-sided: REDIS_OK is told only to an application that asked
  for the end, so not of a connection that just failed, and REDIS_ERR only with its cause.
- Commands do not keep their order across a reconnection: those left in the socket that
  `redisReconnect` closes (hiredis.c:647) may be executed after commands of the new one, though
  their callers were told of a failure. `ExecutedInOrder` is about one connection at a time, and
  says that nothing is executed twice on any of them.

## 4. Theorems

Those about diaries are proved for every set of diaries and every bound, those of
`SpecFaults` for any number of crashes, those about Redis connections for any number of
commands, replies of any shape, any limits of the parser and any channels, those of
`HttpServer` for any browsers, scripts, sizes of files, buffers and limits, and any way
recv() and send() cut the streams up.

| Theorem | Statement |
|---|---|
| `TypeCorrect` (DiaryCommitProofs) | `Spec => []TypeOK` |
| `SeqnoCorrect` (DiaryCommitProofs) | `Spec => []SeqnoConservation` |
| `VersionsUniqueCorrect` (DiaryCommitProofs) | `Spec => []VersionsUnique` |
| `SingleWriterCorrect` (DiaryCommitProofs) | `Spec => []SingleWriter` |
| `NoLostUpdateCorrect` (DiaryCommitProofs) | `Spec => []NoLostUpdate` |
| `SameOrderCorrect` (DiaryCommitProofs) | `Spec => []SameOrder` |
| `RegisterCorrect` (DiaryCommitProofs) | `Spec => ImplementsRegister` |
| `CausalReplicationCorrect` (DiaryReplicaProofs) | `Spec => []CausalReplication` |
| `ConvergedCorrect` (DiaryReplicaProofs) | `Spec => []Converged` |
| `ReadInBoundsCorrect` (DiaryReplicaProofs) | `Spec => []ReadInBounds` |
| `TypeFaultsCorrect` (DiaryFaultProofs) | `SpecFaults => []TypeOKFaults` |
| `MutualExclusionCorrect` (DiaryFaultProofs) | `SpecFaults => []MutualExclusion` |
| `NeverCountedTwiceCorrect` (DiaryFaultProofs) | `SpecFaults => []NeverCountedTwice` |
| `OrderedReplicasCorrect` (DiaryFaultProofs) | `SpecFaults => []OrderedReplicas` |
| `NoEditOverwrittenCorrect` (DiaryFaultProofs) | `SpecFaults => []NoEditOverwritten` |
| `ExecutedInOrderCorrect` (RedisConnectionProofs) | `Spec => []ExecutedInOrder` |
| `FailureSticksCorrect` (RedisConnectionProofs) | `Spec => []FailureSticks`, for one thread |
| `TypeContextCorrect` (RedisAsyncProofs) | `Spec => []TypeOK` |
| `StatusTruthfulCorrect` (RedisAsyncProofs) | `Spec => []StatusTruthful` |
| `NullOnlyAfterFailureCorrect` (RedisAsyncProofs) | `Spec => []NullOnlyAfterFailure` |
| `AssertionsHoldCorrect` (RedisAsyncProofs) | `Spec => []AssertionsHold`, if `Careful` |
| `OwnReplyCorrect` (RedisAsyncProofs) | `Spec => []OwnReply`, if `Careful` |
| `CalledOnceCorrect` (RedisAsyncProofs) | `Spec => []CalledOnce`, if `Careful` |
| `TypeCorrect` (HttpServerProofs) | `Spec => []TypeOK` |
| `FileCorrect` (HttpServerProofs) | `Spec => []FileBounded` |
| `OrderCorrect` (HttpServerProofs) | `Spec => []HandledOnceInOrder` |
| `AnswersCorrect` (HttpAnswerProofs) | `Spec => []AnswersInOrder` |
| `AbortsCorrect` (HttpAnswerProofs) | `Spec => []AbortsOnSecondChunked` |
| `ClosedCorrect` (HttpAnswerProofs) | `Spec => []ClosedAfterAnswers` |

The assumptions are those the modules name for their constants (`...Assumption`)
and the two hypotheses of the table. One thread: with two, a thread may still find
its reply in the parser when the other has failed. `Careful`: an application that keeps to `MayIssue`;
without it `claim_assert` shows a failed assertion. The scripts of `HttpServer` are
sequences of well-formed requests (`RequestsAssumption`), and one with a chunked request
does not pipeline (`ScriptsAssumption`): what the chunk offset makes of the requests
behind it is not modelled.

The arguments:

- `TypeOK` is inductive. What the scan computes does not enter its proof: whichever
  entry it picks, the version a page keeps is one of the history.
- `SeqnoConservation` is inductive with `TypeOK`: a sequence number moves from the
  stamped handler to the queue, to the channel, to the replicater and to
  the peer's vector, and each action moves one or moves several at once
  from `msg_list` to `net`. The lemmas on `Transit` say what appending, sending
  and receiving do to the concatenation.
- Uniqueness needs more: a site's view of the *other* number may lag, so two stamps of
  different sites must differ in some number. From `SeqnoConservation`, no
  site's view is ahead of the owner's own number (`ClockBound`). Every
  committed version is at most the current numbers of both owners, so a new stamp, one
  above its owner's current number, is different from all of them.
- `SingleWriter` is strengthened to `LockInv`: for each lock the four ways to own it
  exclude each other and agree with the counter. The
  interesting step is the release by the replicater: the owner
  passes from handler to queue, to channel, to replicater, without a moment
  with two owners or none.
- First committer wins. The conflict check reads one history, the preferred
  site's, and sees nothing that is on its way there. `HomeStores` says why that
  is enough: each commit of a diary is in that history, or is *owed* to it
  by whoever owns the lock (a handler about to push, a slow commit on its way, the replicater
  with one in hand). A handler that has taken the lock is its only owner, by `SingleWriter`, and
  owes nothing yet, so the history it checks is complete. `Rising` (no commit is
  at or below an earlier one of its diary, from `ClockBound`) and `HandlerInv`
  (a page's version is one its site holds) turn a check without conflict into
  `startTs = Newest`. Together they are `EditInv`, inductive over the
  lock invariant.
- One order. `Way(s)` is all that is on the way to `s`: the commit its replicater has in
  hand, those sent, those queued, the one the peer's handler has stamped. `InOrder` says that `s`
  stores a prefix of the commits of a diary and that what it misses is on
  the way in that order, or is the one its own handler is about to store. The
  difficulty is a diary that both sites edit: a commit of the one must not
  overtake one of the other. It cannot, as an edit is only stamped when nothing of its diary
  is on its way to the preferred site (`NothingOnWay`), and the other site,
  which must have been shown the version it edits, has all earlier ones.
- The refinement puts the two together. The log of a diary is the list of
  its commits and the view of a site its history (`EditLog`, `Stored`). A stamp is
  an `Edit`, by `NoLostUpdate` and `Rising`; an RPUSH of the handler or of the
  replicater is a `Store`, by `InOrder`; a comment, and any other step, changes neither.
  `Numbered` keeps the versions inside the set the register is given.
- Causes before effects and agreement at rest rest on one number per pair of sites:
  `Reach(s, t)` is how far `s` has stored the commits of `t`, which is its vector
  less the own commit it has yet to store, plus the peer's commit it has stored and
  not counted. `Reached`: `s` has everything of `t` up to it. `Within`: no entry of
  `s` depends on anything above it. `OnWay`: what is on its way continues
  from it, one number after the other. Only the two RPUSHes move it, by one. An entry that
  covers a commit of `t` has a component at least as high, so the
  commit is within reach and stored. At rest both reach the same numbers, and a list
  holds its seeds and each commit once (`StoredOften`), so the bags are equal.
- The lemmas of locks and numbers are stated so that they hold of faulty servers too.
  `LockInv(r, k, exact)` with `exact` FALSE drops one direction, that a lock
  without an owner is free: a lock may have been left taken. What remains is
  inductive under crashes as well, since a crash or a lost message only takes
  owners away (`OwnersShrink`); the messages left are a prefix or a suffix of those
  there were (`SentPrefix`, `SentSuffix`). `SeqnoGap(gap)` is the conservation law with
  `gap[s]` numbers lost on their way to `s`. Every step of `DiaryCommit` keeps it with the
  same gap, a message published to nobody widens it (`DropGap`), and
  `NeverCountedTwice` says that a gap is never negative.
- Edits under lost messages. Until the first crash, a site that has lost commits
  of its peer is only behind. A slow commit that is lost leaves the lock of its diary
  taken, so no later edit is checked against a history without it, and what is not lost keeps its
  order. `Early` is `EditInv` and `InOrder` with lost commits allowed; `FaultInv` adds the types
  and the locks, which hold after crashes too.
- Reads. The loop that chooses the entry to show skips what is not above the entry
  it has, and its index is used on the list without the skipped ones. An edit that is
  not above the one before it (`Risen`) is never shown, so no page holds its version
  and no edit follows it (`Showable`): only the last entry of a history can be one that is
  skipped, and the index is then in range. The loop is unfolded entry by entry, by an
  induction over a set of numbers, as a rule with an operator parameter cannot be used.
- Order of execution. What a connection has executed, what is in its socket and, for the
  current one, what is in `obuf` is one rising sequence (`Line`), whatever part of the buffer a
  write takes, and no command stands in two of these sequences (`Held`). A reconnection
  drops the buffer and starts a new, empty sequence; the old ones stay, and are executed when
  Redis reads them.
- Failures. An error in the context sticks by `EarlyReturn`. The case to be excluded is a
  thread that fails without one: the parser has given no reply, and a
  later call finds one in the same bytes. It does not, as the parser settles within one
  turn more than it has unread symbols, and gives the same answer until bytes
  arrive (`Silent`, `Sticks`).
- The asynchronous context. `Known` and `ControlInv` hold of every application: each
  callback in a list is that of an accepted command, a freeing loop is entered only with a
  flag set and never goes back, and callbacks still pending in one mean that
  the connection failed or was freed. A flag that ends a context without an error was set at
  the application's request (`Asked`). `StatusTruthful` and `NullOnlyAfterFailure` follow.
- Replies and callbacks match by `Match`, over all replies sent and not
  handled (`got` and then `back`) and all commands not executed (`wire` and then `obuf`): the
  replies of regular commands come in the order of the callbacks and skip none (`Answers`), every
  pending callback has its command or its reply on the way (`Queued`),
  nothing arrives about a subscription before SUBSCRIBED is set and the regular
  callbacks before it are answered (`Subscribed`), an UNSUBSCRIBE is the last command until its
  reply is handled (`LastCommand`), and a channel that is spoken of has a
  callback (`Held`). A monitoring connection has only monitor lines (`Alone`) or is closed.
  Together with what the context knows of its socket this is `LiveInv`, inductive
  for a careful application; the assertions and `OwnReply` follow from it.
- `CalledInv`: the callback of a regular command stands once in one of the two lists, or has
  been called, once. The lists are empty when the context is freed.
- The HTTP server. One turn of the loop for a connection is a sequence of few kinds of
  step: receive, parse, move a part of the file, flag, write. `Keeps(c, G)` says that each of
  them stays in a set `G` of states of a connection (the connection with what is
  on its way to it and from it), and `HandleConnIs` lifts that to the whole of `HandleConn`, so
  an invariant is shown of five small steps and not of their combinations. `StepOf` is what any
  step of the system does to one connection. Functions defined by recursion
  (`Among`, `Reassembled`, `BodyUpTo`) are unfolded by inductions over sets of numbers.
- Order. `Flow`: what is buffered and on its way is what the browser wrote after the request
  handled last (`Straight`), or, while a chunked body is being collapsed, a stream that
  starts with its head and ends with its last chunk (`Chunky`). The head the parser finds is
  then that of the next request, and what it takes off the buffer when it has handled one
  leaves the stream at the start of another: as `rcvd` never exceeds
  what is buffered (`Metered`), no request is handled before all of it has come.
- Answers. A unit of an answer says where it belongs, so the stream to the browser is right
  when each unit stands at its own place (`Placed`), and complete but for the rest of an open file
  (`Told`). A browser that waits has read all answers when it asks again (`Flow` bounds what can have
  been answered), so no handler runs with a file open or units to send (`Idle`).
  `FileBounded` is about places as well: a piece of a file is put within
  the first `MaxSend` units of a buffer.
- The assertion of `mg_handle_chunked` holds while the offset it remembers is at most what is
  buffered behind the head (`Remembers`): until the body is whole it is one of this request's,
  and a second chunked request is the only one that finds the offset of another.
- Closing. A connection is flagged only when all that was asked has been handled and no file is
  open, or the next request has been refused (`Finished`), until its answer
  has left. It is then closed, and not handled again: `PhaseAt` says that what is over
  when the loop passes it is what the closing loop visits. MG_EV_CLOSE finds nothing to handle.

## 5. Checked by TLC only

- Of the blocking connection, `TypeOK`, `ReplyIsOwn`, `ReplyNotStuck` and `OnlyDepthRefused`.
  That the parser returns the objects that were encoded is a fact
  about a nested reply of any depth, an induction over data, which the provers
  cannot use.
- Of `HttpServer`, `HandledWhole` and `LikesNeverFall`, which rests on it: that the
  chunks collapsed so far are the body, unit by unit, however often the
  loop of `mg_handle_chunked` was interrupted, is an induction over data as well.
- Liveness under fairness (`LockReleased`, `Replicated`, `EveryCallbackCalled`,
  `DisconnectCompletes`, `EveryRequestAnswered`), which is out of the prover's reach.
- The claims, which are false.

## 6. Not modelled

- The greater part of the vendored code: json.hpp, jQuery, Bootstrap and js.cookie;
  of mongoose, TLS, UDP, DNS, MQTT, CoAP, websockets, CGI, WebDAV, ranges, listings, the ports
  to other platforms and the second copy of the sources in mongoose/src
  (mongoose.c is those files put together); of hiredis, sds.c and dict.c (data
  structures used as sequences and maps), net.c (sockets) and the adapters. They are
  nine tenths of the 73 thousand lines: the server's own code, a thousand lines, is
  modelled, and of the libraries the parts it runs through. A larger share could
  only come from code this program never executes.
- `handle_get_comments` only reads, and no property depends on it. JSON conversion: the fields
  are payload.
- Of `RedisAsync`, a regular command that Redis answers with an array while the connection is subscribed
  (PING), which line 375 of async.c takes for a message of a channel, and subscriptions by pattern.
- Page layout, login cookie, `timer.hpp`, the load scripts, option parsing.
- Out-of-memory paths, text lengths, integers beyond int.
- The high-water mark of ZeroMQ: with it reached, PUB drops what it sends as it does
  before a peer has joined, which `DiaryFaults` has.

## 7. Plan

What is left, in this order:

1. Theorems: `HandledWhole` and `LikesNeverFall` of `HttpServer`, and the types of
   `RedisConnection`.
2. `DiaryHistory` alone, over all histories up to a length, against a
   reference definition of the maximum: which histories, seeded late or by a
   restart, make the scan read out of bounds.
3. Patterns and NULL callbacks of the asynchronous context.
