----------------------------- MODULE MCJobPool -----------------------------
(* Small instance of JobPool: three jobs that two runners compete for.     *)
EXTENDS JobPool
=============================================================================
