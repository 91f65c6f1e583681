--------------------------- MODULE MCAccountCodes ---------------------------
(* A small instance of AccountCodes: see AccountCodes.cfg.  Nothing tells   *)
(* two accounts, codes of a kind or requests apart.                         *)
EXTENDS AccountCodes, TLC

Alike == Permutations(Uids) \cup Permutations(Codes) \cup Permutations(SigninIds)
           \cup Permutations(UnblockIds) \cup Permutations(Requests)
=============================================================================
