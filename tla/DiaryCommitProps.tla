-------------------------- MODULE DiaryCommitProps --------------------------
(***************************************************************************)
(* What the commit and replication protocol of DiaryCommit guarantees.     *)
(***************************************************************************)
EXTENDS DiaryCommit

\* The commits on their way to site r, oldest first: received by its socket,
\* then still queued at the peer.
Transit(r) == net[r] \o msg_list[Other(r)]

Stamped == {"fast_push", "fast_queue", "slow_push", "slow_queue"}
FastHeld == {"fast_check", "fast_abort", "fast_stamp", "fast_push", "fast_queue", "fast_done"}
SlowHeld == {"slow_check", "slow_abort", "slow_stamp", "slow_push", "slow_queue"}

IsSlow(m, k) == m.commit_type = "SLOW_CMT" /\ m.key = k

\* The ways to own the lock of k in the Redis of r: the local handler, the
\* handler of the peer, the replicater applying a slow commit of the peer,
\* and each slow commit on its way.
FastOwns(r, k)  == pc[r] \in FastHeld /\ txn[r].key = k
SlowOwns(r, k)  == pc[Other(r)] \in SlowHeld /\ txn[Other(r)].key = k
ApplyOwns(r, k) == rpc[r] \in {"push", "unlock"} /\ IsSlow(rep_msg[r], k)
SentOwns(r, k)  == {i \in DOMAIN Transit(r) : IsSlow(Transit(r)[i], k)}

Owners(r, k) ==
         (IF FastOwns(r, k) THEN {<<"fast", 0>>} ELSE {})
    \cup (IF SlowOwns(r, k) THEN {<<"slow", 0>>} ELSE {})
    \cup (IF ApplyOwns(r, k) THEN {<<"apply", 0>>} ELSE {})
    \cup {<<"sent", i>> : i \in SentOwns(r, k)}

\* A lock key covers a commit from its INCR to its SET 0, across sites and
\* messages: it never has two owners, and it reads 0 exactly when it has none
\* (it is neither released under an owner nor left taken by a finished one).
SingleWriter ==
    \A r \in Sites, k \in Keys :
        /\ \A a, b \in Owners(r, k) : a = b
        /\ lock[r][k] = 0 <=> Owners(r, k) = {}

\* The commits of the peer that s has received and not counted, 0 or 1, and
\* the ones s has stamped and not queued.
Applying(s) == IF rpc[s] \in {"push", "unlock", "count"} THEN 1 ELSE 0
Stamping(s) == IF pc[s] \in Stamped THEN 1 ELSE 0

\* Every sequence number a site has given out is counted by the peer's vector
\* or belongs to exactly one commit on its way there: none is lost, none is
\* counted twice.
SeqnoConservation ==
    \A s \in Sites :
        committedVTS[Other(s)][Other(s)] =
            committedVTS[s][Other(s)] + Len(Transit(s)) + Applying(s) + Stamping(Other(s))

\* No two commits, of one site or of both, of one object or of two, carry the
\* same timestamp.
VersionsUnique ==
    \A k1, k2 \in Keys :
        \A i \in DOMAIN committed[k1], j \in DOMAIN committed[k2] :
            committed[k1][i].ver = committed[k2][j].ver => k1 = k2 /\ i = j

\* First committer wins: an edit commits only if the version its page had
\* loaded is the one the edit before it produced, so no edit silently
\* overwrites another.
NoLostUpdate ==
    \A k \in DiaryKeys : \A i \in DOMAIN committed[k] :
        committed[k][i].base = IF i = 1 THEN Zero ELSE committed[k][i - 1].ver

Vers(cs) == [i \in DOMAIN cs |-> cs[i].ver]

\* Both sites store the edits of a diary in the one order they committed in:
\* each history is a prefix of the same sequence.
SameOrder ==
    \A k \in DiaryKeys, s \in Sites :
        IsPrefix(history[s][k], Seed(k) \o Vers(committed[k]))

\* A site that shows a commit has every commit its timestamp covers, of any
\* diary or comment list, and stores no entry after one that covers it.
CausalReplication ==
    \A s \in Sites, k \in Keys : \A i \in DOMAIN history[s][k] :
        /\ \A k2 \in Keys : \A j \in DOMAIN committed[k2] :
               Leq(committed[k2][j].ver, history[s][k][i])
                   => Contains(history[s][k2], committed[k2][j].ver)
        /\ \A j \in 1..(i - 1) :
               Leq(history[s][k][i], history[s][k][j])
                   => history[s][k][i] = history[s][k][j]

Quiescent ==
    \A s \in Sites : pc[s] = "idle" /\ rpc[s] = "poll" /\ Transit(s) = <<>>

\* With nothing in progress both sites hold the same entries, each as often,
\* and the same vector.
Converged ==
    Quiescent =>
        /\ \A k \in Keys : ToBag(history[0][k]) = ToBag(history[1][k])
        /\ committedVTS[0] = committedVTS[1]

\* handle_get_diary_content indexes hlist inside its bounds.
ReadInBounds == \A s \in Sites, d \in Diaries : InBounds(Scan(history[s][DiaryKey(d)]))

-----------------------------------------------------------------------------
\* The edits of each diary, and the versions of it each site has stored.
EditLog ==
    [d \in Diaries |->
        [i \in DOMAIN committed[DiaryKey(d)] |->
            [base |-> committed[DiaryKey(d)][i].base, ver |-> committed[DiaryKey(d)][i].ver]]]

Stored == [s \in Sites |-> [d \in Diaries |-> history[s][DiaryKey(d)]]]

\* The abstract register, with the commits of the diaries as its log and the
\* histories as its views.
Register ==
    INSTANCE DiaryRegister WITH
        Objects <- Diaries,
        FirstVersion <- Zero,
        VersionSet <- [Sites -> 0..MaxSeqno],
        log <- EditLog,
        view <- Stored

\* The protocol implements the register: a commit extends the one sequence of
\* its diary from its newest version, and each RPUSH, of the handler or of the
\* replicater, stores the next version of that sequence.
ImplementsRegister == Register!SpecRegister

-----------------------------------------------------------------------------
\* A lock that is taken is given back: the commit under it is refused, done,
\* or applied by the preferred site.
LockReleased ==
    \A r \in Sites, k \in Keys : lock[r][k] > 0 ~> lock[r][k] = 0

\* A commit reaches the history of both sites.
Replicated ==
    \A k \in Keys : \A n \in 1..(2 * MaxSeqno) : \A s \in Sites :
        Len(committed[k]) >= n ~>
            n \in DOMAIN committed[k] /\ Contains(history[s][k], committed[k][n].ver)
=============================================================================
