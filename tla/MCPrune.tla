-------------------------------- MODULE MCPrune --------------------------------
(* Small instances of Prune: see Prune.cfg, and PruneProgress.cfg for what *)
(* must happen in the end.                                                 *)
EXTENDS Prune, TLC

Alike == Permutations(Sessions) \cup Permutations(Connections)
=============================================================================
