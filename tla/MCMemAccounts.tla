--------------------------- MODULE MCMemAccounts ---------------------------
(* A small instance of MemAccounts: see MemAccounts.cfg.                   *)
EXTENDS MemAccounts, TLC

(* Nothing tells two accounts, addresses or tokens apart.                  *)
Alike == Permutations(Uids) \cup Permutations(Addresses) \cup Permutations(TokenIds)
=============================================================================
