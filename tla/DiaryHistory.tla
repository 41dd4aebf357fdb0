---------------------------- MODULE DiaryHistory ----------------------------
(***************************************************************************)
(* The two loops the server runs over a history (the reply of LRANGE key 0 *)
(* -1): the conflict check of the commit paths and the search of           *)
(* handle_get_diary_content for the version to show.  A history is the     *)
(* sequence of the versions of its entries; positions count from 1.        *)
(***************************************************************************)
EXTENDS Versions, Sequences, SequencesExt

\* Mutant of Conflict: && for ||.
Conflict_Both(startTs, h) == \E i \in DOMAIN h : \A s \in Sites : startTs[s] < h[i][s]

\* Some entry of h is newer than startTs in one component.
Conflict(startTs, h) == \E i \in DOMAIN h : ~ Leq(h[i], startTs)

\* Mutant of ScanEntry: > for >=, so an entry equal to the maximum is skipped.
ScanEntry_Strict(h, acc, i) ==
    IF Leq(acc.max_ver, h[i]) /\ h[i] # acc.max_ver
    THEN [max_ver |-> h[i], max_idx |-> i, hlist |-> Append(acc.hlist, i)]
    ELSE acc

\* One turn of the loop: an entry not below the maximum so far becomes the
\* maximum, and only such an entry is copied to hlist (hlist holds the
\* positions of the copies in h).
ScanEntry(h, acc, i) ==
    IF Leq(acc.max_ver, h[i])
    THEN [max_ver |-> h[i], max_idx |-> i, hlist |-> Append(acc.hlist, i)]
    ELSE acc

\* What the loop has found after each number of turns.
Turns(h) ==
    LET turn[i \in 0..Len(h)] ==
            IF i = 0 THEN [max_ver |-> Zero, max_idx |-> 1, hlist |-> <<>>]
            ELSE ScanEntry(h, turn[i - 1], i)
    IN  turn

Scan(h) == Turns(h)[Len(h)]

\* hlist[max_idx] is an element of hlist.
InBounds(scan) == scan.max_idx \in DOMAIN scan.hlist

\* The positions of h whose entry the reply can show: hlist[max_idx], and any
\* entry when that access is out of bounds (undefined behaviour).
Shown(h) ==
    LET scan == Scan(h)
    IN  {i \in DOMAIN h : InBounds(scan) => i = scan.hlist[scan.max_idx]}
=============================================================================
