--------------------------- MODULE MCTimeAccounts ---------------------------
EXTENDS TimeAccounts, TLC

Alike == Permutations(Tasks)
=============================================================================
