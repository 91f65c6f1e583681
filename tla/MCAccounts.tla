----------------------------- MODULE MCAccounts -----------------------------
(* A small instance of Accounts: see Accounts.cfg.                         *)
EXTENDS Accounts, TLC

(* Nothing tells two accounts, addresses, tokens or connections apart.     *)
Alike ==
  Permutations(Uids) \cup Permutations(Addresses) \cup Permutations(TokenIds)
    \cup Permutations(Connections)
=============================================================================
