---------------------------- MODULE RevisionLog ----------------------------
(***************************************************************************)
(* What CreateRevision promises: each intent has one history of revisions, *)
(* a request adds at most one revision to it, in one indivisible step, and *)
(* is answered with the place of that revision. IntentStore implements it. *)
(***************************************************************************)
EXTENDS Integers, Sequences

CONSTANTS
    Ids,       \* intent ids
    Requests   \* CreateRevision requests

VARIABLES
    log,       \* per intent, the requests that made its revisions, in order
    answer     \* the revision number a request was answered with; 0 without

Init ==
    /\ log = [i \in Ids |-> <<>>]
    /\ answer = [t \in Requests |-> 0]

Added(t) == \E i \in Ids : \E n \in 1..Len(log[i]) : log[i][n] = t

\* The answer may be lost: the client sees an error, the revision is there.
AddRevision(t, i) ==
    /\ ~Added(t)
    /\ log' = [log EXCEPT ![i] = Append(@, t)]
    /\ \/ answer' = [answer EXCEPT ![t] = Len(log[i]) + 1]
       \/ UNCHANGED answer

Next == \E t \in Requests, i \in Ids : AddRevision(t, i)

Spec == Init /\ [][Next]_<<log, answer>>
=============================================================================
