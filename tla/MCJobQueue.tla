----------------------------- MODULE MCJobQueue -----------------------------
(* Small instance of JobQueue: two jobs, two runners, a back-off of two    *)
(* ticks and transactions up to one tick old.                              *)
EXTENDS JobQueue
=============================================================================
