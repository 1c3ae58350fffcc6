------------------------ MODULE MCReconcileRequests ------------------------
(* Two requests, three connections, and their jobs.                        *)
EXTENDS ReconcileRequests
=============================================================================
