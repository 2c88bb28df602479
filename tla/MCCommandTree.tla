---------------------------- MODULE MCCommandTree ----------------------------
EXTENDS CommandTree, TLC

\* One name is that of a built-in word, one is too long and is cut to another.
MCStored == "a" :> "a" @@ "~" :> "~" @@ "along" :> "a"

Alike == Permutations(Records)
=============================================================================
