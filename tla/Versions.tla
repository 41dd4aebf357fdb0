------------------------------ MODULE Versions ------------------------------
(***************************************************************************)
(* The vector timestamps of the diary server: psi_ver_t of object.hpp, one *)
(* sequence number per site.  A version is written <<first, second>> in    *)
(* the code and indexed by the site here.                                  *)
(***************************************************************************)
EXTENDS Integers

\* site_id is 0 or 1: committedVTS has two entries.
Sites == {0, 1}

\* 1 - site_id, the peer whose commits the replicater applies.
Other(s) == 1 - s

\* std::pair<int,int>.
Version == [Sites -> Int]

\* psi_ver_t(0, 0): the version of generated data, the start of every scan
\* and the start timestamp of a comment.
Zero == [s \in Sites |-> 0]

\* diary_ver1 = diary_ver2 = -1: what a page holds before its load returns.
Unloaded == [s \in Sites |-> -1]

\* Neither component of u is above the one of v.
Leq(u, v) == \A s \in Sites : u[s] <= v[s]
=============================================================================
