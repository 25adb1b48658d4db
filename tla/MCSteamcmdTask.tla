--------------------------- MODULE MCSteamcmdTask ---------------------------
(* SteamcmdTask with a few task IDs, interchangeable where only states are  *)
(* checked.                                                                 *)
EXTENDS SteamcmdTask, TLC

StartsAlike == Permutations(StartId)

\* A server that is updated on every start, one that is not, and an
\* install-only task (for which update_on_start makes no difference).
Updated     == [launch |-> TRUE, update |-> TRUE]
NotUpdated  == [launch |-> TRUE, update |-> FALSE]
Install     == [launch |-> FALSE, update |-> TRUE]

AnyTask     == {Updated, NotUpdated, Install}
UpdatedTask == {Updated}
InstallOnly == {Install}
=============================================================================
