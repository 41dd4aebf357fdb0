--------------------------- MODULE MCDiaryFaults ---------------------------
EXTENDS DiaryFaults

\* Three edits leave room for a lost one, a later one of the same site and one
\* of the peer, a comment for one of either kind on its way with an edit; with
\* a crash, one commit before or after it shows what a restart makes of locks
\* and messages.
Weight(k) == IF crashes = 0 /\ k \notin DiaryKeys THEN 2 ELSE 1

FewCommits ==
    SumFunction([k \in Keys |-> Weight(k) * Len(committed[k])]) <= IF crashes = 0 THEN 3 ELSE 1
=============================================================================
