--------------------------- MODULE MCDiaryCommit ---------------------------
EXTENDS DiaryCommitProps
=============================================================================
