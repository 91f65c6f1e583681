-------------------------- MODULE MCConnectionPool --------------------------
(* Small instances of ConnectionPool: see the .cfg files.                  *)
EXTENDS ConnectionPool

CONSTANTS q1, t1, t2, c1, c2
=============================================================================
