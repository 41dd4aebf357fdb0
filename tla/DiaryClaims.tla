----------------------------- MODULE DiaryClaims -----------------------------
(***************************************************************************)
(* Statements the repository makes about the protocol that the code does   *)
(* not keep: each is refuted by a run.                                     *)
(***************************************************************************)
EXTENDS DiaryCommitProps

\* server.cpp:278, "latest_diary": with nothing in progress at either site, a
\* read shows the last edit committed.  The replicater makes a commit of the
\* peer readable before committedVTS counts it, so an edit of that commit can
\* be stamped with a version not above it, which no read ever picks.
LatestReadIsLastCommit ==
    Quiescent =>
        \A s \in Sites, d \in Diaries : \A i \in Shown(history[s][DiaryKey(d)]) :
            history[s][DiaryKey(d)][i] = Last(Seed(DiaryKey(d)) \o Vers(committed[DiaryKey(d)]))
=============================================================================
