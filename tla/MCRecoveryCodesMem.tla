------------------------- MODULE MCRecoveryCodesMem -------------------------
(* Small instances of RecoveryCodesMem: see the .cfg files.                *)
EXTENDS RecoveryCodesMem

CONSTANTS u1, u2, c1, c2, c3, c4, r1, r2
=============================================================================
