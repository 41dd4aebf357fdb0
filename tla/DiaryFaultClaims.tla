-------------------------- MODULE DiaryFaultClaims --------------------------
(***************************************************************************)
(* Statements of the code that start-up order, a lost message or a restart *)
(* makes false: each is refuted by a run.                                  *)
(***************************************************************************)
EXTENDS DiaryFaults

\* server.cpp:557, "the lock was not obtained, the other site is updating": a
\* lock that reads above 0 is held by a commit in progress.  A slow commit
\* published before the peer has subscribed never releases the lock it took.
TakenMeansUpdating ==
    \A r \in Sites, k \in Keys : lock[r][k] > 0 => Owners(r, k) # {}

\* server.cpp:459, "check whether objs in write-set have conflicts": an edit
\* over a version that was edited since is refused.  A restarted server counts
\* from (0, 0) again, so its commits carry versions no check finds newer.
ConflictsFound ==
    \A k \in DiaryKeys : \A i \in DOMAIN committed[k] \ {1} :
        committed[k][i].base = committed[k][i - 1].ver
=============================================================================
