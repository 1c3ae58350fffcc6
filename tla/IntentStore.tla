---------------------------- MODULE IntentStore ----------------------------
(***************************************************************************)
(* Intents and their revisions: CreateIntent, and concurrent CreateRevision*)
(* requests statement by statement (repos_intent.go, create_revision.go).  *)
(* A transaction runs READ COMMITTED: it reads what is committed, plus its *)
(* own rows, and holds the row lock it takes until it ends.                *)
(***************************************************************************)
EXTENDS Integers, Sequences

CONSTANTS
    Ids,       \* uuids of intents, and Unknown
    Unknown,   \* a uuid that no intent has
    Key,       \* intents.key of each id
    Requests,  \* CreateRevision requests; each runs once
    None

ASSUME StoreAssumption == Unknown \in Ids /\ None \notin Ids \cup Requests

VARIABLES
    intents,    \* the rows of intents
    current,    \* intents.current_revision; 0 for NULL
    revisions,  \* the rows of intent_revisions; id is the bigserial order
    lock,       \* the transaction that holds the row lock of each intent
    pc,         \* where each request is
    about,      \* its intentID
    next,       \* its local variable next
    audit       \* audit_log

vars == <<intents, current, revisions, lock, pc, about, next, audit>>

RequestStates == {"new", "begun", "locked", "numbered", "inserted", "answered", "error"}

Rows == [intent : Ids, number : Nat \ {0}, by : Requests]

TypeOK ==
    /\ intents \subseteq Ids \ {Unknown}
    /\ current \in [Ids -> Nat]
    /\ revisions \subseteq Rows
    /\ lock \in [Ids -> Requests \cup {None}]
    /\ pc \in [Requests -> RequestStates]
    /\ about \in [Requests -> Ids \cup {None}]
    /\ next \in [Requests -> Nat]
    /\ \A t \in Requests : pc[t] \in {"numbered", "inserted"} => next[t] # 0
    /\ audit \subseteq [action : {"create_intent", "create_revision", "guardrail_denied"},
                        intent : Ids, number : Nat]

Init ==
    /\ intents = {}
    /\ current = [i \in Ids |-> 0]
    /\ revisions = {}
    /\ lock = [i \in Ids |-> None]
    /\ pc = [t \in Requests |-> "new"]
    /\ about = [t \in Requests |-> None]
    /\ next = [t \in Requests |-> 0]
    /\ audit = {}

Goto(t, s) == pc' = [pc EXCEPT ![t] = s]

Audited(action, i, n) == audit' = audit \cup {[action |-> action, intent |-> i, number |-> n]}

\* The end of a transaction releases its lock.
Unlocked(t) == [i \in Ids |-> IF lock[i] = t THEN None ELSE lock[i]]

NumbersOf(i) == {r.number : r \in {s \in revisions : s.intent = i}}

-----------------------------------------------------------------------------
\* One transaction. The INSERT waits for, and then fails on, a row with the
\* same key (intents.key is UNIQUE), so the whole of it is one step.
CreateIntent(i) ==
    /\ i \notin intents \cup {Unknown}
    /\ \A k \in intents : Key[k] # Key[i]
    /\ intents' = intents \cup {i}
    /\ Audited("create_intent", i, 0)
    /\ UNCHANGED <<current, revisions, lock, pc, about, next>>

\* A request knows the id of an intent from the answer of CreateIntent; any
\* other uuid is no intent's.
BeginRevision(t, i) ==
    /\ pc[t] = "new"
    /\ i \in intents \cup {Unknown}
    /\ about' = [about EXCEPT ![t] = i]
    /\ Goto(t, "begun")
    /\ UNCHANGED <<intents, current, revisions, lock, next, audit>>

\* ValidateBasic or ValidateGuardrails rejects the spec. The denial is audited
\* outside a transaction and the error of the audit is ignored.
RejectRevision(t, i) ==
    /\ pc[t] = "new"
    /\ i \in intents \cup {Unknown}
    /\ Goto(t, "error")
    /\ Audited("guardrail_denied", i, 0) \/ UNCHANGED audit
    /\ UNCHANGED <<intents, current, revisions, lock, about, next>>

\* SELECT 1 FROM intents WHERE id=$1 FOR UPDATE: waits for the lock; without
\* a row it locks nothing and is no error.
LockIntent(t) ==
    /\ pc[t] = "begun"
    /\ \/ about[t] \notin intents /\ UNCHANGED lock
       \/ /\ about[t] \in intents /\ lock[about[t]] = None
          /\ lock' = [lock EXCEPT ![about[t]] = t]
    /\ Goto(t, "locked")
    /\ UNCHANGED <<intents, current, revisions, about, next, audit>>

IsLatest(i, n) == n \in NumbersOf(i) \cup {0} /\ \A m \in NumbersOf(i) : m <= n

\* Mutant of NextNumber: MAX(revision) without COALESCE, NULL for the first.
NextOrNull(t) ==
    /\ pc[t] = "locked"
    /\ \E n \in NumbersOf(about[t]) \cup {0} :
         /\ IsLatest(about[t], n)
         /\ next' = [next EXCEPT ![t] = IF n = 0 THEN 0 ELSE n + 1]
    /\ Goto(t, "numbered")
    /\ UNCHANGED <<intents, current, revisions, lock, about, audit>>

\* SELECT COALESCE(MAX(revision),0)+1: a new snapshot, of what is committed.
NextNumber(t) ==
    /\ pc[t] = "locked"
    /\ \E n \in NumbersOf(about[t]) \cup {0} :
         /\ IsLatest(about[t], n)
         /\ next' = [next EXCEPT ![t] = n + 1]
    /\ Goto(t, "numbered")
    /\ UNCHANGED <<intents, current, revisions, lock, about, audit>>

\* Another transaction has inserted the same row and has not ended.
RowPending(t) ==
    \E u \in Requests : pc[u] = "inserted" /\ about[u] = about[t] /\ next[u] = next[t]

\* Mutant of InsertRevision: current_revision is updated by a statement of
\* its own, which an abort does not undo.
InsertAndPublish(t) ==
    /\ pc[t] = "numbered"
    /\ about[t] \in intents /\ next[t] \notin NumbersOf(about[t]) /\ ~RowPending(t)
    /\ current' = [current EXCEPT ![about[t]] = next[t]]
    /\ Goto(t, "inserted")
    /\ UNCHANGED <<intents, revisions, lock, about, next, audit>>

\* INSERT INTO intent_revisions: waits for a pending row of the same number.
\* Foreign key and UNIQUE(intent_id, revision) reject what does not fit (Abort).
InsertRevision(t) ==
    /\ pc[t] = "numbered"
    /\ about[t] \in intents /\ next[t] \notin NumbersOf(about[t]) /\ ~RowPending(t)
    /\ Goto(t, "inserted")
    /\ UNCHANGED <<intents, current, revisions, lock, about, next, audit>>

\* Mutant of CommitRevision: answers with MAX(revision) as it was read.
CommitAnsweringLast(t) ==
    /\ pc[t] = "inserted"
    /\ revisions' = revisions \cup {[intent |-> about[t], number |-> next[t], by |-> t]}
    /\ current' = [current EXCEPT ![about[t]] = next[t]]
    /\ next' = [next EXCEPT ![t] = @ - 1]
    /\ Audited("create_revision", about[t], next[t])
    /\ lock' = Unlocked(t)
    /\ Goto(t, "answered") \/ Goto(t, "error")
    /\ UNCHANGED <<intents, about>>

\* UPDATE intents, the audit entry and the commit. Its answer may be lost.
CommitRevision(t) ==
    /\ pc[t] = "inserted"
    /\ revisions' = revisions \cup {[intent |-> about[t], number |-> next[t], by |-> t]}
    /\ current' = [current EXCEPT ![about[t]] = next[t]]
    /\ Audited("create_revision", about[t], next[t])
    /\ lock' = Unlocked(t)
    /\ Goto(t, "answered") \/ Goto(t, "error")
    /\ UNCHANGED <<intents, about, next>>

\* Mutant of Abort: no deferred Rollback, the session keeps its lock.
AbortKeepingLock(t) ==
    /\ pc[t] \in {"begun", "locked", "numbered", "inserted"}
    /\ Goto(t, "error")
    /\ UNCHANGED <<intents, current, revisions, lock, about, next, audit>>

\* A statement fails, the client goes away or the API dies: a rollback.
Abort(t) ==
    /\ pc[t] \in {"begun", "locked", "numbered", "inserted"}
    /\ lock' = Unlocked(t)
    /\ Goto(t, "error")
    /\ UNCHANGED <<intents, current, revisions, about, next, audit>>

Step(t) ==
    \/ LockIntent(t) \/ NextNumber(t) \/ InsertRevision(t) \/ CommitRevision(t) \/ Abort(t)

Next ==
    \/ \E i \in Ids : CreateIntent(i)
    \/ \E t \in Requests :
         \/ \E i \in Ids : BeginRevision(t, i) \/ RejectRevision(t, i)
         \/ Step(t)

Spec == Init /\ [][Next]_vars

\* PostgreSQL serves every transaction: a statement that need not wait ends.
\* Abort is not owed, but a statement that cannot succeed does end in one.
Serve(t) ==
    \/ LockIntent(t) \/ NextNumber(t) \/ InsertRevision(t) \/ CommitRevision(t)
    \/ pc[t] = "numbered" /\ about[t] \notin intents /\ Abort(t)

FairSpec == Spec /\ \A t \in Requests : WF_vars(Serve(t))

-----------------------------------------------------------------------------
InTx(t) == pc[t] \in {"locked", "numbered", "inserted"}

\* The revisions of an intent are numbered 1, 2, 3 ... without a gap or a
\* double, and current_revision is the last of them, whatever requests race
\* or roll back (CreateRevision writes the two tables in one transaction).
GaplessHistory ==
    /\ \A i \in Ids : NumbersOf(i) = 1..current[i]
    /\ \A r, s \in revisions : r.intent = s.intent /\ r.number = s.number => r = s

\* The number a transaction has read stays the next one until it inserts:
\* no request about an existing intent fails on UNIQUE(intent_id, revision)
\* (the FOR UPDATE of CreateRevision).
NumberIsFree ==
    \A t \in Requests :
        pc[t] \in {"numbered", "inserted"} /\ about[t] \in intents
        => next[t] = current[about[t]] + 1 /\ ~\E u \in Requests \ {t} : InTx(u) /\ about[u] = about[t]

\* The history of an intent as RevisionLog sees it.
AuthorOf(i, n) == (CHOOSE r \in revisions : r.intent = i /\ r.number = n).by
History == [i \in Ids |-> [n \in 1..current[i] |-> AuthorOf(i, n)]]
Answers == [t \in Requests |-> IF pc[t] = "answered" THEN next[t] ELSE 0]

Log == INSTANCE RevisionLog WITH log <- History, answer <- Answers

\* Racing, failing and half-answered requests add to one history per intent,
\* one indivisible revision at a time, and each answer names its own revision.
LogSpec == Log!Spec

\* No request waits for ever for the lock of another (deferred Rollback).
RequestsEnd ==
    \A t \in Requests : pc[t] = "begun" ~> pc[t] \in {"answered", "error"}
=============================================================================
