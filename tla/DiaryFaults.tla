----------------------------- MODULE DiaryFaults -----------------------------
(***************************************************************************)
(* The servers of DiaryCommit with what it takes for granted put back:     *)
(* start-up, crashes and restarts, and a PUB socket that drops what it     *)
(* sends while the peer has not subscribed (server.cpp, main).  A crash    *)
(* loses what a server holds in memory, whether the process was killed or  *)
(* dereferenced the NULL a failed Redis command returns.  The two Redis,   *)
(* the browsers and what the peer has received stay.                       *)
(***************************************************************************)
EXTENDS DiaryCommitProps

CONSTANT MaxCrashes     \* bound: crashes of the two servers together

ASSUME CrashesAssumption == MaxCrashes \in Nat

VARIABLES
    up,         \* up[s]: the process of site s runs
    toSeed,     \* toSeed[s]: the keys generate_data has yet to push to
    joined,     \* joined[s]: the peer's PUB socket knows the subscription of s
    crashes     \* crashes so far

faultVars == <<up, toSeed, joined, crashes>>
allVars == <<vars, faultVars>>

TypeOKFaults ==
    /\ TypeOK
    /\ up \in [Sites -> BOOLEAN]
    /\ toSeed \in [Sites -> Seq(Keys)]
    /\ joined \in [Sites -> BOOLEAN]
    /\ crashes \in 0..MaxCrashes

\* The RPUSHes of generate_data, in its order, as far as they are in use.
SeedList ==
    LET inUse(k) == IF k \in Keys THEN <<k>> ELSE <<>>
        diary(i) == inUse([type |-> "DIARY", id |-> i])
        comment  == inUse([type |-> "COMMENT", id |-> 1])
    IN  diary(1) \o diary(2) \o diary(3) \o comment \o comment \o comment \o comment

\* Both servers are down and both Redis are empty.
InitFaults ==
    /\ history = [s \in Sites |-> [k \in Keys |-> <<>>]]
    /\ lock = [s \in Sites |-> [k \in Keys |-> 0]]
    /\ InitServers
    /\ up = [s \in Sites |-> FALSE]
    /\ toSeed = [s \in Sites |-> <<>>]
    /\ joined = [s \in Sites |-> FALSE]
    /\ crashes = 0

\* main: the replicater thread is created, then generate_data begins.
Start(s) ==
    /\ ~ up[s]
    /\ up' = [up EXCEPT ![s] = TRUE]
    /\ toSeed' = [toSeed EXCEPT ![s] = SeedList]
    /\ UNCHANGED <<vars, joined, crashes>>

\* One RPUSH of generate_data, at version (0, 0), whatever the list holds.
generate_data(s) ==
    /\ up[s] /\ toSeed[s] # <<>>
    /\ history' = [history EXCEPT ![s][Head(toSeed[s])] = Append(@, Zero)]
    /\ toSeed' = [toSeed EXCEPT ![s] = Tail(@)]
    /\ UNCHANGED <<lock, committedVTS, pc, txn, msg_list, net, rpc, rep_msg, pages, committed>>
    /\ UNCHANGED <<up, joined, crashes>>

\* The subscription of s reaches the PUB socket of the peer.
Join(s) ==
    /\ up[s] /\ up[Other(s)] /\ ~ joined[s]
    /\ joined' = [joined EXCEPT ![s] = TRUE]
    /\ UNCHANGED <<vars, up, toSeed, crashes>>

\* The replicater publishes to nobody: msg_list is emptied all the same.
RepDrop(s) ==
    /\ ~ joined[Other(s)]
    /\ rpc[s] \in {"poll", "drain"}
    /\ msg_list' = [msg_list EXCEPT ![s] = <<>>]
    /\ rpc' = [rpc EXCEPT ![s] = "poll"]
    /\ UNCHANGED <<history, lock, committedVTS, pc, txn, net, rep_msg, pages, committed>>

Replicate(s) ==
    \/ RepRecv(s) \/ RepPush(s) \/ RepUnlock(s) \/ RepCount(s)
    \/ joined[Other(s)] /\ RepDrain(s)
    \/ RepDrop(s)

\* The event loop begins after generate_data.
Serve(s) == toSeed[s] = <<>> /\ (Request(s) \/ FastStep(s) \/ SlowStep(s))

Run(s) ==
    /\ up[s]
    /\ Replicate(s) \/ Serve(s)
    /\ UNCHANGED faultVars

\* The last commit of s to k.
LastCommit(s, k, i) ==
    /\ i \in DOMAIN committed[k] /\ committed[k][i].site = s
    /\ \A j \in DOMAIN committed[k] : j > i => committed[k][j].site # s

\* When s dies between the timestamp and the RPUSH of a commit, that one never
\* took place.
Uncommit(s) ==
    LET k == txn[s].key
    IN  \/ /\ pc[s] \in {"fast_push", "slow_push"}
           /\ \E i \in DOMAIN committed[k] :
                 LastCommit(s, k, i) /\ committed' = [committed EXCEPT ![k] = RemoveAt(@, i)]
        \/ pc[s] \notin {"fast_push", "slow_push"} /\ UNCHANGED committed

\* The messages s has sent and the peer has not received yet may be lost, the
\* newest ones first; those s has not applied are.
Crash(s) ==
    /\ up[s] /\ crashes < MaxCrashes
    /\ crashes' = crashes + 1
    /\ up' = [up EXCEPT ![s] = FALSE]
    /\ toSeed' = [toSeed EXCEPT ![s] = <<>>]
    /\ joined' = [r \in Sites |-> FALSE]
    /\ committedVTS' = [committedVTS EXCEPT ![s] = Zero]
    /\ pc' = [pc EXCEPT ![s] = "idle"]
    /\ rpc' = [rpc EXCEPT ![s] = "poll"]
    /\ msg_list' = [msg_list EXCEPT ![s] = <<>>]
    /\ \E n \in 0..Len(net[Other(s)]) :
          net' = [net EXCEPT ![s] = <<>>, ![Other(s)] = SubSeq(@, 1, n)]
    /\ Uncommit(s)
    /\ UNCHANGED <<history, lock, txn, rep_msg, pages>>

NextFaults ==
    \E s \in Sites : Start(s) \/ generate_data(s) \/ Join(s) \/ Run(s) \/ Crash(s)

SpecFaults == InitFaults /\ [][NextFaults]_allVars

-----------------------------------------------------------------------------
\* Crashes and lost messages never let two writers in: however a lock came to
\* be left behind, it has at most one owner, and it reads above 0 while it has.
MutualExclusion ==
    \A r \in Sites, k \in Keys :
        /\ \A a, b \in Owners(r, k) : a = b
        /\ Owners(r, k) # {} => lock[r][k] > 0

\* A lost message leaves the peer's vector behind and never ahead: as long as
\* no server has crashed, no commit is counted twice, and none before it was
\* stamped.
NeverCountedTwice ==
    crashes = 0 =>
        \A s \in Sites :
            committedVTS[s][Other(s)] + Len(Transit(s)) + Applying(s) + Stamping(Other(s))
                <= committedVTS[Other(s)][Other(s)]

\* Messages lost before the sockets join leave gaps and change no order: each
\* site stores the edits of a diary in the order they committed in, wherever
\* generate_data puts the seed.
OrderedReplicas ==
    crashes = 0 =>
        \A k \in DiaryKeys, s \in Sites : \A i, j \in DOMAIN history[s][k] :
            LET u == history[s][k][i]
                v == history[s][k][j]
            IN  i < j /\ u # Zero /\ v # Zero =>
                    \E m, n \in DOMAIN committed[k] :
                        m < n /\ u = committed[k][m].ver /\ v = committed[k][n].ver

\* A replica that misses commits never lets an edit through that overwrites
\* one: as long as no server has crashed, every edit after the first commits
\* over the one before it.
NoEditOverwritten ==
    crashes = 0 =>
        \A k \in DiaryKeys : \A i \in DOMAIN committed[k] \ {1} :
            committed[k][i].base = committed[k][i - 1].ver
=============================================================================
