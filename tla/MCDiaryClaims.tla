---------------------------- MODULE MCDiaryClaims ----------------------------
EXTENDS DiaryClaims
=============================================================================
