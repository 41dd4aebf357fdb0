------------------------- MODULE MCDiaryFaultClaims -------------------------
EXTENDS DiaryFaultClaims

\* The conflict is one between edits.
NoComments == \A k \in Keys \ DiaryKeys : committed[k] = <<>>
=============================================================================
