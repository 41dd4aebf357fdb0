----------------------------- MODULE DiaryCommit -----------------------------
(***************************************************************************)
(* Two diary servers with one Redis each, committing edits and comments    *)
(* under parallel snapshot isolation (server.cpp).  Per site there are two *)
(* threads: the HTTP thread runs one handler at a time (handle_edit_diary, *)
(* handle_add_comment, handle_get_diary_content), the replicater thread    *)
(* applies the peer's commits and publishes the local ones.  A step is one *)
(* Redis command or one mutex-protected section.  Both servers are up,     *)
(* their data is generated and their sockets are connected.                *)
(***************************************************************************)
EXTENDS DiaryHistory

CONSTANTS
    Diaries,    \* the ids of the generated diaries in use
    MaxSeqno,   \* bound: commits started by one site
    MaxLock     \* bound: value of a lock key (failed attempts keep raising it)

ASSUME DiariesAssumption == Diaries \subseteq Nat /\ Diaries # {}
ASSUME BoundsAssumption == MaxSeqno \in Nat /\ MaxLock \in Nat

\* The Redis lists diary_<id> and diary_<id>_comments.
Keys == [type : {"DIARY", "COMMENT"}, id : Diaries]
DiaryKeys == {k \in Keys : k.type = "DIARY"}
DiaryKey(d) == [type |-> "DIARY", id |-> d]
CommentKey(d) == [type |-> "COMMENT", id |-> d]

PREFER_SITE(k) == k.id % 2

Message == [commit_type : {"FAST_CMT", "SLOW_CMT"}, key : Keys, ver : Version]

\* Where the HTTP thread stands in fast_commit or slow_commit.
MainPC == {"idle",
           "fast_check", "fast_stamp", "fast_push", "fast_queue",
           "fast_done", "fast_abort",
           "slow_check", "slow_stamp", "slow_push", "slow_queue", "slow_abort"}

\* Where the replicater thread stands in its loop.
RepPC == {"poll", "push", "unlock", "count", "drain"}

VARIABLES
    history,       \* history[s][k]: the list k in the Redis of site s
    lock,          \* lock[s][k]: the counter <k>_lock in the Redis of site s
    committedVTS,  \* committedVTS[s]: the vector of server s
    pc,            \* pc[s]: control state of the HTTP thread of s
    txn,           \* txn[s]: its locals: the object being committed
    msg_list,      \* msg_list[s]: commits of s waiting to be published
    net,           \* net[s]: published messages not yet received by s
    rpc,           \* rpc[s]: control state of the replicater thread of s
    rep_msg,       \* rep_msg[s]: the message it is applying
    pages,         \* pages[s][d]: the versions open pages of site s hold of d
    committed      \* auxiliary: committed[k], the commits of k in the order
                   \* their timestamps were taken

vars == <<history, lock, committedVTS, pc, txn, msg_list, net, rpc, rep_msg,
          pages, committed>>

Commit == [site : Sites, base : Version, ver : Version]

TypeOK ==
    /\ history \in [Sites -> [Keys -> Seq(Version)]]
    /\ lock \in [Sites -> [Keys -> Nat]]
    /\ committedVTS \in [Sites -> [Sites -> Nat]]
    /\ pc \in [Sites -> MainPC]
    /\ txn \in [Sites -> [key : Keys, startTs : Version, ver : Version]]
    /\ msg_list \in [Sites -> Seq(Message)]
    /\ net \in [Sites -> Seq(Message)]
    /\ rpc \in [Sites -> RepPC]
    /\ rep_msg \in [Sites -> Message]
    /\ pages \in [Sites -> [Diaries -> SUBSET Version]]
    /\ committed \in [Keys -> Seq(Commit)]

\* What generate_data pushes on both sites: one entry per diary and four
\* comments on diary 1, all at version (0, 0).
Seed(k) ==
    IF k.type = "DIARY" THEN <<Zero>>
    ELSE IF k.id = 1 THEN [i \in 1..4 |-> Zero] ELSE <<>>

\* The locals before the first request have no meaning; any key will do.
NoKey == CHOOSE k \in Keys : TRUE

\* A server that has just started: nothing in memory, nothing on its way.
InitServers ==
    /\ committedVTS = [s \in Sites |-> Zero]
    /\ pc = [s \in Sites |-> "idle"]
    /\ txn = [s \in Sites |-> [key |-> NoKey, startTs |-> Zero, ver |-> Zero]]
    /\ msg_list = [s \in Sites |-> <<>>]
    /\ net = [s \in Sites |-> <<>>]
    /\ rpc = [s \in Sites |-> "poll"]
    /\ rep_msg = [s \in Sites |-> [commit_type |-> "FAST_CMT", key |-> NoKey, ver |-> Zero]]
    /\ pages = [s \in Sites |-> [d \in Diaries |-> {Unloaded}]]
    /\ committed = [k \in Keys |-> <<>>]

Init ==
    /\ history = [s \in Sites |-> [k \in Keys |-> Seed(k)]]
    /\ lock = [s \in Sites |-> [k \in Keys |-> 0]]
    /\ InitServers

-----------------------------------------------------------------------------
(***************************************************************************)
(* Steps shared by the commit paths.                                       *)
(***************************************************************************)

\* INCR <k>_lock in the Redis of site r, for the HTTP thread of s: the lock is
\* taken when the result is 1; otherwise the handler replies and is done.
acquire_lock(s, r, k, startTs, next) ==
    /\ lock[r][k] < MaxLock
    /\ lock' = [lock EXCEPT ![r][k] = @ + 1]
    /\ \/ /\ lock[r][k] = 0
          /\ pc' = [pc EXCEPT ![s] = next]
          /\ txn' = [txn EXCEPT ![s] = [key |-> k, startTs |-> startTs, ver |-> startTs]]
       \/ /\ lock[r][k] # 0
          /\ UNCHANGED <<pc, txn>>
    /\ UNCHANGED <<history, committedVTS, msg_list, net, rpc, rep_msg, pages, committed>>

\* SET <k>_lock 0 in the Redis of site r, after which the handler of s replies.
release_lock(s, r) ==
    /\ lock' = [lock EXCEPT ![r][txn[s].key] = 0]
    /\ pc' = [pc EXCEPT ![s] = "idle"]
    /\ UNCHANGED <<history, committedVTS, txn, msg_list, net, rpc, rep_msg, pages, committed>>

\* LRANGE on the history kept by site r, and the conflict check over it.
CheckHistory(s, r, clean, conflict) ==
    /\ pc' = [pc EXCEPT ![s] = IF Conflict(txn[s].startTs, history[r][txn[s].key])
                               THEN conflict ELSE clean]
    /\ UNCHANGED <<history, lock, committedVTS, txn, msg_list, net, rpc, rep_msg, pages, committed>>

\* Mutant of NextVTS: no increment.
NextVTS_Stale(s) == committedVTS[s]

NextVTS(s) == [committedVTS[s] EXCEPT ![s] = @ + 1]

\* committedVTS[site_id]++ and the copy of the vector into the object, under
\* vts_lock.
StampVTS(s, next) ==
    LET vts == NextVTS(s)
    IN  /\ committedVTS' = [committedVTS EXCEPT ![s] = vts]
        /\ txn' = [txn EXCEPT ![s].ver = vts]
        /\ committed' = [committed EXCEPT ![txn[s].key] =
                            Append(@, [site |-> s, base |-> txn[s].startTs, ver |-> vts])]
        /\ pc' = [pc EXCEPT ![s] = next]
        /\ UNCHANGED <<history, lock, msg_list, net, rpc, rep_msg, pages>>

\* RPUSH of the object to the history kept by site r.
Push(s, r, next) ==
    /\ history' = [history EXCEPT ![r][txn[s].key] = Append(@, txn[s].ver)]
    /\ pc' = [pc EXCEPT ![s] = next]
    /\ UNCHANGED <<lock, committedVTS, txn, msg_list, net, rpc, rep_msg, pages, committed>>

\* msg_list.push_back under mutex.
QueueMsg(s, type, next) ==
    /\ msg_list' = [msg_list EXCEPT ![s] =
                       Append(@, [commit_type |-> type, key |-> txn[s].key, ver |-> txn[s].ver])]
    /\ pc' = [pc EXCEPT ![s] = next]
    /\ UNCHANGED <<history, lock, committedVTS, txn, net, rpc, rep_msg, pages, committed>>

-----------------------------------------------------------------------------
(***************************************************************************)
(* fast_commit.                                                            *)
(***************************************************************************)
FastAcquire(s, k, startTs, next) ==
    /\ pc[s] = "idle"
    /\ committedVTS[s][s] < MaxSeqno
    /\ acquire_lock(s, s, k, startTs, next)

FastCheck(s) == pc[s] = "fast_check" /\ CheckHistory(s, s, "fast_stamp", "fast_abort")
FastAbort(s) == pc[s] = "fast_abort" /\ release_lock(s, s)
FastStamp(s) == pc[s] = "fast_stamp" /\ StampVTS(s, "fast_push")
FastPush(s)  == pc[s] = "fast_push" /\ Push(s, s, "fast_queue")
FastQueue(s) == pc[s] = "fast_queue" /\ QueueMsg(s, "FAST_CMT", "fast_done")
FastDone(s)  == pc[s] = "fast_done" /\ release_lock(s, s)

(***************************************************************************)
(* slow_commit: the lock and the history checked are those of the          *)
(* preferred site (redis_cli_master); the lock stays taken on success.     *)
(***************************************************************************)
SlowAcquire(s, k, startTs) ==
    /\ pc[s] = "idle"
    /\ committedVTS[s][s] < MaxSeqno
    /\ acquire_lock(s, Other(s), k, startTs, "slow_check")

\* Mutant of SlowCheck: it reads the history of its own site.
SlowCheck_Local(s) == pc[s] = "slow_check" /\ CheckHistory(s, s, "slow_stamp", "slow_abort")

SlowCheck(s) == pc[s] = "slow_check" /\ CheckHistory(s, Other(s), "slow_stamp", "slow_abort")
SlowAbort(s) == pc[s] = "slow_abort" /\ release_lock(s, Other(s))
SlowStamp(s) == pc[s] = "slow_stamp" /\ StampVTS(s, "slow_push")

\* Mutant of SlowPush: the commit goes to the preferred site.
SlowPush_Master(s) == pc[s] = "slow_push" /\ Push(s, Other(s), "slow_queue")

SlowPush(s)  == pc[s] = "slow_push" /\ Push(s, s, "slow_queue")
SlowQueue(s) == pc[s] = "slow_queue" /\ QueueMsg(s, "SLOW_CMT", "idle")

-----------------------------------------------------------------------------
(***************************************************************************)
(* Request handlers.                                                       *)
(***************************************************************************)

\* An open page submits an edit with the version it holds.
handle_edit_diary(s, d) ==
    \E startTs \in pages[s][d] :
        \/ /\ PREFER_SITE(DiaryKey(d)) = s
           /\ FastAcquire(s, DiaryKey(d), startTs, "fast_check")
        \/ /\ PREFER_SITE(DiaryKey(d)) # s
           /\ SlowAcquire(s, DiaryKey(d), startTs)

\* A comment is fast-committed wherever it arrives, with no conflict check.
handle_add_comment(s, d) == FastAcquire(s, CommentKey(d), Zero, "fast_stamp")

\* A page loads the diary from the local Redis and keeps the version shown.
handle_get_diary_content(s, d) ==
    /\ pc[s] = "idle"
    /\ \E i \in Shown(history[s][DiaryKey(d)]) :
          pages' = [pages EXCEPT ![s][d] = @ \cup {history[s][DiaryKey(d)][i]}]
    /\ UNCHANGED <<history, lock, committedVTS, pc, txn, msg_list, net, rpc, rep_msg, committed>>

-----------------------------------------------------------------------------
(***************************************************************************)
(* The replicater thread.                                                  *)
(***************************************************************************)

\* zmq_recv of the next message of the peer.
RepRecv(s) ==
    /\ rpc[s] = "poll"
    /\ net[s] # <<>>
    /\ rep_msg' = [rep_msg EXCEPT ![s] = Head(net[s])]
    /\ net' = [net EXCEPT ![s] = Tail(@)]
    /\ rpc' = [rpc EXCEPT ![s] = "push"]
    /\ UNCHANGED <<history, lock, committedVTS, pc, txn, msg_list, pages, committed>>

\* Mutants of AfterPush: the lock is released after every commit of the peer,
\* and after none.
AfterPush_UnlockAll(m) == "unlock"
AfterPush_UnlockNone(m) == "count"

\* A slow commit of the peer holds the local lock.
AfterPush(m) == IF m.commit_type = "SLOW_CMT" THEN "unlock" ELSE "count"

\* RPUSH of the peer's object to the local history.
RepPush(s) ==
    /\ rpc[s] = "push"
    /\ history' = [history EXCEPT ![s][rep_msg[s].key] = Append(@, rep_msg[s].ver)]
    /\ rpc' = [rpc EXCEPT ![s] = AfterPush(rep_msg[s])]
    /\ UNCHANGED <<lock, committedVTS, pc, txn, msg_list, net, rep_msg, pages, committed>>

\* SET <k>_lock 0.
RepUnlock(s) ==
    /\ rpc[s] = "unlock"
    /\ lock' = [lock EXCEPT ![s][rep_msg[s].key] = 0]
    /\ rpc' = [rpc EXCEPT ![s] = "count"]
    /\ UNCHANGED <<history, committedVTS, pc, txn, msg_list, net, rep_msg, pages, committed>>

\* Mutants of PeerVTS: the own number is counted, or the peer's is lowered.
PeerVTS_Own(s) == [committedVTS[s] EXCEPT ![s] = @ + 1]
PeerVTS_Minus(s) == [committedVTS[s] EXCEPT ![Other(s)] = @ - 1]

PeerVTS(s) == [committedVTS[s] EXCEPT ![Other(s)] = @ + 1]

\* committedVTS[1 - site_id] += 1 under vts_lock.
RepCount(s) ==
    /\ rpc[s] = "count"
    /\ committedVTS' = [committedVTS EXCEPT ![s] = PeerVTS(s)]
    /\ rpc' = [rpc EXCEPT ![s] = "drain"]
    /\ UNCHANGED <<history, lock, pc, txn, msg_list, net, rep_msg, pages, committed>>

\* Mutants of Published: the list is taken from its back, sent twice, or not
\* sent.
Published_Back(s) == Reverse(msg_list[s])
Published_Twice(s) == msg_list[s] \o msg_list[s]
Published_None(s) == <<>>

\* The messages of the send loop, front first.
Published(s) == msg_list[s]

\* After a message, or when the poll times out, the whole msg_list is
\* published under mutex.
RepDrain(s) ==
    /\ rpc[s] \in {"poll", "drain"}
    /\ net' = [net EXCEPT ![Other(s)] = @ \o Published(s)]
    /\ msg_list' = [msg_list EXCEPT ![s] = <<>>]
    /\ rpc' = [rpc EXCEPT ![s] = "poll"]
    /\ UNCHANGED <<history, lock, committedVTS, pc, txn, rep_msg, pages, committed>>

-----------------------------------------------------------------------------
FastStep(s) ==
    \/ FastCheck(s) \/ FastAbort(s) \/ FastStamp(s)
    \/ FastPush(s) \/ FastQueue(s) \/ FastDone(s)

SlowStep(s) ==
    \/ SlowCheck(s) \/ SlowAbort(s) \/ SlowStamp(s)
    \/ SlowPush(s) \/ SlowQueue(s)

RepStep(s) ==
    \/ RepRecv(s) \/ RepPush(s) \/ RepUnlock(s) \/ RepCount(s) \/ RepDrain(s)

Request(s) ==
    \E d \in Diaries :
        \/ handle_edit_diary(s, d)
        \/ handle_add_comment(s, d)
        \/ handle_get_diary_content(s, d)

Next == \E s \in Sites : Request(s) \/ FastStep(s) \/ SlowStep(s) \/ RepStep(s)

Spec == Init /\ [][Next]_vars

\* Both threads of a server keep running: a handler that has begun takes its
\* next step (fast_commit and slow_commit never wait), and the replicater
\* loops forever with a bounded poll.  Requests are up to the clients.
Fairness ==
    \A s \in Sites :
        /\ WF_vars(FastStep(s))
        /\ WF_vars(SlowStep(s))
        /\ WF_vars(RepRecv(s))
        /\ WF_vars(RepPush(s) \/ RepUnlock(s) \/ RepCount(s))
        /\ WF_vars(RepDrain(s))

FairSpec == Spec /\ Fairness
=============================================================================
