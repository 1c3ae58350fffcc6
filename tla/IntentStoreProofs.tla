------------------------- MODULE IntentStoreProofs -------------------------
(***************************************************************************)
(* Theorems about IntentStore for any numbers of intents and requests: one *)
(* gapless history per intent, and RevisionLog implemented.                *)
(***************************************************************************)
EXTENDS IntentStore, SequenceTheorems, TLAPS

\* A transaction about an intent holds its row lock, a request is about an
\* intent it knows, and what it has inserted refers to a row.
LockInv ==
    \A t \in Requests :
        /\ InTx(t) /\ about[t] \in intents => lock[about[t]] = t
        /\ pc[t] # "new" => pc[t] \in {"answered", "error"} \/ about[t] \in intents \cup {Unknown}
        /\ pc[t] = "inserted" => about[t] \in intents

\* The number a transaction has read is the next one of its intent.
NumberInv ==
    \A t \in Requests :
        pc[t] \in {"numbered", "inserted"} /\ about[t] \in intents
        => next[t] = current[about[t]] + 1

\* A request has its revision when it is over, never before.
AuthorInv == \A r \in revisions : pc[r.by] \in {"answered", "error"}

StoreInv == TypeOK /\ LockInv /\ NumberInv /\ AuthorInv /\ GaplessHistory

\* The initial states satisfy the invariant.
LEMMA StoreInit == Init => StoreInv
<1> SUFFICES ASSUME Init PROVE StoreInv
    OBVIOUS
<1> USE StoreAssumption DEF Init
<1>1. TypeOK
    BY DEF TypeOK, RequestStates
<1>2. LockInv /\ NumberInv /\ AuthorInv
    BY DEF LockInv, NumberInv, AuthorInv, InTx
<1>3. GaplessHistory
    BY DEF GaplessHistory, NumbersOf
<1> QED BY <1>1, <1>2, <1>3 DEF StoreInv

\* Every step keeps the types.
LEMMA TypeStep == StoreInv /\ [Next]_vars => TypeOK'
<1> SUFFICES ASSUME StoreInv, [Next]_vars PROVE TypeOK'
    OBVIOUS
<1> USE StoreAssumption DEF StoreInv, TypeOK, RequestStates, Goto, Audited
<1>1. ASSUME NEW i \in Ids, CreateIntent(i) PROVE TypeOK'
    BY <1>1 DEF CreateIntent
<1>2. ASSUME NEW t \in Requests, NEW i \in Ids, BeginRevision(t, i) \/ RejectRevision(t, i)
      PROVE  TypeOK'
    BY <1>2 DEF BeginRevision, RejectRevision
<1>3. ASSUME NEW t \in Requests, LockIntent(t) PROVE TypeOK'
    BY <1>3 DEF LockIntent
<1>4. ASSUME NEW t \in Requests, NextNumber(t) PROVE TypeOK'
  <2>1. PICK n \in NumbersOf(about[t]) \cup {0} : next' = [next EXCEPT ![t] = n + 1]
      BY <1>4 DEF NextNumber
  <2>2. n \in Nat
      BY DEF NumbersOf, Rows
  <2> QED BY <1>4, <2>1, <2>2 DEF NextNumber
<1>5. ASSUME NEW t \in Requests, InsertRevision(t) PROVE TypeOK'
    BY <1>5 DEF InsertRevision
<1>6. ASSUME NEW t \in Requests, CommitRevision(t) PROVE TypeOK'
  <2>1. about[t] \in intents /\ about[t] \in Ids /\ next[t] \in Nat \ {0}
      BY <1>6 DEF CommitRevision, LockInv
  <2>2. [intent |-> about[t], number |-> next[t], by |-> t] \in Rows
      BY <2>1 DEF Rows
  <2>3. lock' \in [Ids -> Requests \cup {None}]
      BY <1>6 DEF CommitRevision, Unlocked
  <2>4. revisions' \subseteq Rows /\ current' \in [Ids -> Nat]
      BY <1>6, <2>1, <2>2 DEF CommitRevision
  <2>5. pc' \in [Requests -> RequestStates]
      BY <1>6 DEF CommitRevision
  <2>6. \A u \in Requests : pc'[u] \in {"numbered", "inserted"} => next'[u] # 0
      BY <1>6 DEF CommitRevision
  <2>7. audit' \subseteq [action : {"create_intent", "create_revision", "guardrail_denied"},
                          intent : Ids, number : Nat]
      BY <1>6, <2>1 DEF CommitRevision
  <2>8. intents' = intents /\ about' = about /\ next' = next
      BY <1>6 DEF CommitRevision
  <2> QED BY <2>3, <2>4, <2>5, <2>6, <2>7, <2>8
<1>7. ASSUME NEW t \in Requests, Abort(t) PROVE TypeOK'
    BY <1>7 DEF Abort, Unlocked
<1>8. CASE UNCHANGED vars
    BY <1>8 DEF vars
<1> QED BY <1>1, <1>2, <1>3, <1>4, <1>5, <1>6, <1>7, <1>8 DEF Next, Step

\* Two transactions about one intent are one.
LEMMA OneWriter ==
    ASSUME StoreInv, NEW t \in Requests, NEW u \in Requests, InTx(t), InTx(u),
           about[t] \in intents, about[u] = about[t]
    PROVE  u = t
BY DEF StoreInv, LockInv

\* MAX(revision) is current_revision.
LEMMA LatestIsCurrent ==
    ASSUME StoreInv, NEW i \in Ids, NEW n \in NumbersOf(i) \cup {0}, IsLatest(i, n)
    PROVE  n = current[i]
<1>1. NumbersOf(i) = 1..current[i] /\ current[i] \in Nat
    BY DEF StoreInv, TypeOK, GaplessHistory
<1> QED BY <1>1 DEF IsLatest

\* Every step keeps the locks.
LEMMA LockStep == StoreInv /\ [Next]_vars => LockInv'
<1> SUFFICES ASSUME StoreInv, [Next]_vars PROVE LockInv'
    OBVIOUS
<1> USE StoreAssumption DEF StoreInv, TypeOK, LockInv, InTx, Goto
<1>1. ASSUME NEW i \in Ids, CreateIntent(i) PROVE LockInv'
    BY <1>1 DEF CreateIntent
<1>2. ASSUME NEW t \in Requests, NEW i \in Ids, BeginRevision(t, i) \/ RejectRevision(t, i)
      PROVE  LockInv'
    BY <1>2 DEF BeginRevision, RejectRevision
<1>3. ASSUME NEW t \in Requests, LockIntent(t) PROVE LockInv'
    BY <1>3 DEF LockIntent
<1>4. ASSUME NEW t \in Requests, NextNumber(t) \/ InsertRevision(t) PROVE LockInv'
    BY <1>4 DEF NextNumber, InsertRevision
<1>5. ASSUME NEW t \in Requests, CommitRevision(t) PROVE LockInv'
    BY <1>5 DEF CommitRevision, Unlocked
<1>6. ASSUME NEW t \in Requests, Abort(t) PROVE LockInv'
    BY <1>6 DEF Abort, Unlocked
<1>7. CASE UNCHANGED vars
    BY <1>7 DEF vars
<1> QED BY <1>1, <1>2, <1>3, <1>4, <1>5, <1>6, <1>7 DEF Next, Step

\* Every step keeps the numbers read, since the others do not commit meanwhile.
LEMMA NumberStep == StoreInv /\ [Next]_vars => NumberInv'
<1> SUFFICES ASSUME StoreInv, [Next]_vars PROVE NumberInv'
    OBVIOUS
<1> USE StoreAssumption DEF StoreInv, TypeOK, NumberInv, Goto
<1>1. ASSUME NEW i \in Ids, CreateIntent(i) PROVE NumberInv'
    BY <1>1 DEF CreateIntent, LockInv
<1>2. ASSUME NEW t \in Requests, NEW i \in Ids, BeginRevision(t, i) \/ RejectRevision(t, i)
      PROVE  NumberInv'
    BY <1>2 DEF BeginRevision, RejectRevision
<1>3. ASSUME NEW t \in Requests, LockIntent(t) \/ InsertRevision(t) \/ Abort(t)
      PROVE  NumberInv'
    BY <1>3 DEF LockIntent, InsertRevision, Abort
<1>4. ASSUME NEW t \in Requests, NextNumber(t) PROVE NumberInv'
  <2>1. about[t] \in intents => next'[t] = current[about[t]] + 1
      BY <1>4, LatestIsCurrent DEF NextNumber
  <2> QED BY <1>4, <2>1 DEF NextNumber
<1>5. ASSUME NEW t \in Requests, CommitRevision(t) PROVE NumberInv'
  <2> SUFFICES ASSUME NEW u \in Requests, pc'[u] \in {"numbered", "inserted"}, about[u] \in intents
               PROVE  next[u] = current'[about[u]] + 1
      BY <1>5 DEF CommitRevision
  <2>1. u # t /\ pc[u] = pc'[u]
      BY <1>5 DEF CommitRevision
  <2>2. about[u] # about[t]
      BY <1>5, <2>1, OneWriter DEF CommitRevision, InTx
  <2> QED BY <1>5, <2>1, <2>2 DEF CommitRevision
<1>6. CASE UNCHANGED vars
    BY <1>6 DEF vars
<1> QED BY <1>1, <1>2, <1>3, <1>4, <1>5, <1>6 DEF Next, Step

\* A commit adds the next revision, under a number that is free.
LEMMA CommitAdds ==
    ASSUME StoreInv, NEW t \in Requests, CommitRevision(t)
    PROVE  /\ about[t] \in Ids /\ next[t] = current[about[t]] + 1
           /\ \A i \in Ids : current'[i] = IF i = about[t] THEN current[i] + 1 ELSE current[i]
           /\ \A r \in revisions : r.intent = about[t] => r.number < next[t]
           /\ \A r \in revisions : r.by # t
<1> USE DEF StoreInv, TypeOK, CommitRevision
<1>1. about[t] \in Ids /\ next[t] = current[about[t]] + 1
    BY DEF LockInv, NumberInv
<1>2. \A i \in Ids : current'[i] = IF i = about[t] THEN current[i] + 1 ELSE current[i]
    BY <1>1
<1>3. ASSUME NEW r \in revisions, r.intent = about[t] PROVE r.number < next[t]
  <2>1. r.number \in NumbersOf(about[t])
      BY <1>3 DEF NumbersOf
  <2> QED BY <1>1, <2>1 DEF GaplessHistory
<1>4. \A r \in revisions : r.by # t
    BY DEF AuthorInv
<1> QED BY <1>1, <1>2, <1>3, <1>4

\* Every step keeps the authors and the history.
LEMMA HistoryStep == StoreInv /\ [Next]_vars => AuthorInv' /\ GaplessHistory'
<1> SUFFICES ASSUME StoreInv, [Next]_vars PROVE AuthorInv' /\ GaplessHistory'
    OBVIOUS
<1>a. TypeOK /\ AuthorInv /\ GaplessHistory
    BY DEF StoreInv
<1>b. \A r \in revisions : r.by \in Requests
    BY <1>a DEF TypeOK, Rows
<1>1. ASSUME NEW t \in Requests, CommitRevision(t) PROVE AuthorInv' /\ GaplessHistory'
  <2> DEFINE row == [intent |-> about[t], number |-> next[t], by |-> t]
  <2>1. /\ revisions' = revisions \cup {row}
        /\ pc'[t] \in {"answered", "error"} /\ \A u \in Requests \ {t} : pc'[u] = pc[u]
      BY <1>1, <1>a DEF CommitRevision, Goto, TypeOK
  <2>2. AuthorInv'
      BY <2>1, <1>a, <1>b DEF AuthorInv
  <2>3. ASSUME NEW i \in Ids PROVE NumbersOf(i)' = 1..current'[i]
    <3>1. NumbersOf(i) = 1..current[i] /\ current[i] \in Nat
        BY <1>a DEF GaplessHistory, TypeOK
    <3>2. CASE i = about[t]
      <4>1. NumbersOf(i)' = NumbersOf(i) \cup {next[t]}
        <5>1. {r \in revisions' : r.intent = i} = {r \in revisions : r.intent = i} \cup {row}
            BY <2>1, <3>2
        <5>2. row.number = next[t]
            OBVIOUS
        <5> HIDE DEF row
        <5> QED BY <5>1, <5>2 DEF NumbersOf
      <4> QED BY <1>1, <3>1, <3>2, <4>1, CommitAdds
    <3>3. CASE i # about[t]
      <4>1. NumbersOf(i)' = NumbersOf(i)
          BY <2>1, <3>3 DEF NumbersOf
      <4> QED BY <1>1, <3>1, <3>3, <4>1, CommitAdds
    <3> QED BY <3>2, <3>3
  <2>4. ASSUME NEW r \in revisions', NEW s \in revisions', r.intent = s.intent,
               r.number = s.number
        PROVE  r = s
    <3>1. \A q \in revisions : ~(q.intent = row.intent /\ q.number = row.number)
      <4>1. \A q \in revisions : q.number \in Nat /\ next[t] \in Nat
          BY <1>a DEF TypeOK, Rows
      <4>2. \A q \in revisions : q.intent = about[t] => q.number < next[t]
          BY <1>1, CommitAdds
      <4> QED BY <4>1, <4>2
    <3> QED BY <2>1, <2>4, <3>1, <1>a DEF GaplessHistory
  <2> QED BY <2>2, <2>3, <2>4 DEF GaplessHistory
<1>2. ASSUME UNCHANGED <<revisions, current>>,
             \A u \in Requests : pc[u] \in {"answered", "error"} => pc'[u] = pc[u]
      PROVE  AuthorInv' /\ GaplessHistory'
  <2>1. \A i \in Ids : NumbersOf(i)' = NumbersOf(i)
      BY <1>2 DEF NumbersOf
  <2>2. AuthorInv'
      BY <1>2, <1>a, <1>b DEF AuthorInv
  <2> QED BY <1>2, <1>a, <2>1, <2>2 DEF GaplessHistory
<1> USE <1>a DEF TypeOK, Goto
<1>3. ASSUME NEW i \in Ids, CreateIntent(i) PROVE AuthorInv' /\ GaplessHistory'
    BY <1>2, <1>3 DEF CreateIntent
<1>4. ASSUME NEW t \in Requests, NEW i \in Ids, BeginRevision(t, i) \/ RejectRevision(t, i)
      PROVE  AuthorInv' /\ GaplessHistory'
    BY <1>2, <1>4 DEF BeginRevision, RejectRevision
<1>5. ASSUME NEW t \in Requests,
             LockIntent(t) \/ NextNumber(t) \/ InsertRevision(t) \/ Abort(t)
      PROVE  AuthorInv' /\ GaplessHistory'
    BY <1>2, <1>5 DEF LockIntent, NextNumber, InsertRevision, Abort
<1>6. CASE UNCHANGED vars
    BY <1>2, <1>6 DEF vars
<1> QED BY <1>1, <1>3, <1>4, <1>5, <1>6 DEF Next, Step

\* The invariant is inductive.
LEMMA StoreStep == StoreInv /\ [Next]_vars => StoreInv'
BY TypeStep, LockStep, NumberStep, HistoryStep DEF StoreInv

\* Types, locks, numbers and histories, for any number of racing requests.
THEOREM StoreIsSafe == Spec => []StoreInv
BY StoreInit, StoreStep, PTL DEF Spec

\* Types: the rows and columns, the locks and where each request is have
\* values of their types, and a number that is about to be written is not 0.
THEOREM StoreTypesHold == Spec => []TypeOK
<1>1. StoreInv => TypeOK
    BY DEF StoreInv
<1> QED BY <1>1, StoreIsSafe, PTL

\* Every intent has one history, numbered without a gap or a double, whose end
\* current_revision names (CreateRevision).
THEOREM HistoriesAreGapless == Spec => []GaplessHistory
<1>1. StoreInv => GaplessHistory
    BY DEF StoreInv
<1> QED BY <1>1, StoreIsSafe, PTL

\* FOR UPDATE makes the number that MAX(revision)+1 yields stay free: no request
\* about an intent is refused for a number that another one took.
THEOREM NumbersStayFree == Spec => []NumberIsFree
<1>1. StoreInv => NumberIsFree
  <2> SUFFICES ASSUME StoreInv, NEW t \in Requests, pc[t] \in {"numbered", "inserted"},
                      about[t] \in intents
               PROVE  /\ next[t] = current[about[t]] + 1
                      /\ \A u \in Requests : InTx(u) /\ about[u] = about[t] => u = t
      BY DEF NumberIsFree
  <2> QED BY OneWriter DEF StoreInv, NumberInv, InTx
<1> QED BY <1>1, StoreIsSafe, PTL

-----------------------------------------------------------------------------
\* A row is the one that AuthorOf chooses for its number.
LEMMA AuthorIs ==
    ASSUME StoreInv, NEW r \in revisions
    PROVE  AuthorOf(r.intent, r.number) = r.by
<1>1. \A s \in revisions : s.intent = r.intent /\ s.number = r.number => s = r
    BY DEF StoreInv, GaplessHistory
<1>2. (CHOOSE s \in revisions : s.intent = r.intent /\ s.number = r.number) = r
    BY <1>1
<1> QED BY <1>2 DEF AuthorOf

\* Every number up to current_revision has a row.
LEMMA NumberNames ==
    ASSUME StoreInv, NEW i \in Ids, NEW n \in 1..current[i]
    PROVE  \E r \in revisions : r.intent = i /\ r.number = n /\ AuthorOf(i, n) = r.by
<1>1. n \in NumbersOf(i)
    BY DEF StoreInv, GaplessHistory
<1>2. PICK r \in revisions : r.intent = i /\ r.number = n
    BY <1>1 DEF NumbersOf
<1> QED BY <1>2, AuthorIs

\* The history of an intent is a sequence as long as current_revision says.
LEMMA HistoryIsLog ==
    ASSUME StoreInv, NEW i \in Ids
    PROVE  History[i] \in Seq(Requests) /\ Len(History[i]) = current[i]
<1>1. current[i] \in Nat
    BY DEF StoreInv, TypeOK
<1>2. \A n \in 1..current[i] : AuthorOf(i, n) \in Requests
    BY NumberNames DEF StoreInv, TypeOK, Rows
<1>3. History[i] = [n \in 1..current[i] |-> AuthorOf(i, n)]
    BY DEF History
<1>4. [n \in 1..current[i] |-> AuthorOf(i, n)] \in [1..current[i] -> Requests]
    BY <1>2
<1> HIDE DEF AuthorOf
<1> QED BY <1>1, <1>3, <1>4, SeqDef

\* The commit of a request appends it to the history of its intent.
LEMMA CommitIsAdd ==
    ASSUME StoreInv, StoreInv', NEW t \in Requests, CommitRevision(t),
           NEW i \in Ids, i = about[t]
    PROVE  Log!AddRevision(t, i)
<1> PICK m \in Nat : m = current[i]
    BY DEF StoreInv, TypeOK
<1>a. /\ next[t] = m + 1 /\ current'[i] = m + 1
      /\ \A k \in Ids \ {i} : current'[k] = current[k]
      /\ \A r \in revisions : r.by # t
    BY CommitAdds
<1>b. PICK row \in revisions' : row.intent = i /\ row.number = m + 1 /\ row.by = t
  <2> DEFINE new == [intent |-> i, number |-> next[t], by |-> t]
  <2>1. new \in revisions'
      BY DEF CommitRevision
  <2>2. new.intent = i /\ new.number = m + 1 /\ new.by = t
      BY <1>a
  <2> QED BY <2>1, <2>2
<1>c. \A k \in Ids : History[k] \in Seq(Requests) /\ Len(History[k]) = current[k]
    BY HistoryIsLog
<1>d. ASSUME NEW r \in revisions' PROVE AuthorOf(r.intent, r.number)' = r.by
  <2>1. \A s \in revisions' : s.intent = r.intent /\ s.number = r.number => s = r
      BY DEF StoreInv, GaplessHistory
  <2>2. (CHOOSE s \in revisions' : s.intent = r.intent /\ s.number = r.number) = r
      BY <2>1
  <2> QED BY <2>2 DEF AuthorOf
<1>1. ~Log!Added(t)
  <2> SUFFICES ASSUME NEW k \in Ids, NEW n \in 1..Len(History[k]), History[k][n] = t PROVE FALSE
      BY DEF Log!Added
  <2>1. n \in 1..current[k] /\ History[k][n] = AuthorOf(k, n)
      BY <1>c DEF History
  <2> QED BY <2>1, <1>a, NumberNames
<1>2. History' = [History EXCEPT ![i] = Append(@, t)]
  <2>1. ASSUME NEW k \in Ids, NEW n \in 1..current[k] PROVE AuthorOf(k, n)' = AuthorOf(k, n)
    <3>1. PICK r \in revisions : r.intent = k /\ r.number = n /\ AuthorOf(k, n) = r.by
        BY NumberNames
    <3>2. r \in revisions'
        BY DEF CommitRevision
    <3>3. AuthorOf(r.intent, r.number)' = r.by
        BY <3>2, <1>d
    <3> QED BY <3>1, <3>3
  <2>2. AuthorOf(i, m + 1)' = t
      BY <1>b, <1>d
  <2>3. ASSUME NEW k \in Ids, k # i PROVE History'[k] = History[k]
    <3>1. current'[k] = current[k]
        BY <1>a, <2>3
    <3> QED BY <2>1, <3>1 DEF History
  <2>4. History'[i] = Append(History[i], t)
    <3>1. History[i] \in Seq(Requests) /\ Len(History[i]) = m
        BY <1>c
    <3>2. /\ Append(History[i], t) \in Seq(Requests)
          /\ Len(Append(History[i], t)) = m + 1
          /\ \A n \in 1..m : Append(History[i], t)[n] = History[i][n]
          /\ Append(History[i], t)[m + 1] = t
        BY <3>1, AppendProperties
    <3>3. History'[i] = [n \in 1..(m + 1) |-> AuthorOf(i, n)']
        BY <1>a DEF History
    <3>4. ASSUME NEW n \in 1..(m + 1) PROVE History'[i][n] = Append(History[i], t)[n]
      <4>1. CASE n = m + 1
        <5>1. History'[i][m + 1] = AuthorOf(i, m + 1)'
            BY <3>3
        <5> QED BY <2>2, <3>2, <4>1, <5>1
      <4>2. CASE n \in 1..m
        <5>1. History[i][n] = AuthorOf(i, n)
            BY <4>2 DEF History
        <5>2. AuthorOf(i, n)' = AuthorOf(i, n)
            BY <2>1, <4>2
        <5> QED BY <4>2, <3>2, <3>3, <5>1, <5>2
      <4>3. n = m + 1 \/ n \in 1..m
          OBVIOUS
      <4> QED BY <4>1, <4>2, <4>3
    <3>5. History'[i] \in Seq(Requests) /\ Len(History'[i]) = m + 1
      <4>1. \A n \in 1..(m + 1) : History'[i][n] \in Requests
          BY <3>2, <3>4, ElementOfSeq
      <4>2. History'[i] \in [1..(m + 1) -> Requests]
          BY <3>3, <4>1
      <4> QED BY <4>2, SeqDef
    <3>6. ASSUME NEW a \in Seq(Requests), NEW b \in Seq(Requests), Len(a) = m + 1,
                 Len(b) = m + 1, \A n \in 1..(m + 1) : a[n] = b[n]
          PROVE  a = b
        BY <3>6, SeqEqual
    <3> QED BY <3>2, <3>4, <3>5, <3>6
  <2> QED BY <2>3, <2>4 DEF History
<1>3. \/ Answers' = [Answers EXCEPT ![t] = Len(History[i]) + 1]
      \/ Answers' = Answers
  <2>1. Len(History[i]) + 1 = next[t] /\ pc[t] = "inserted" /\ next' = next
      BY <1>a, <1>c DEF CommitRevision
  <2>2. pc' = [pc EXCEPT ![t] = "answered"] \/ pc' = [pc EXCEPT ![t] = "error"]
      BY DEF CommitRevision, Goto
  <2>3. pc \in [Requests -> RequestStates]
      BY DEF StoreInv, TypeOK
  <2> QED BY <2>1, <2>2, <2>3 DEF Answers
<1> QED BY <1>1, <1>2, <1>3 DEF Log!AddRevision

\* The initial states are those of the log.
LEMMA LogInit == Init => Log!Init
BY DEF Init, Log!Init, History, Answers

\* Every other step leaves the histories and the answers as they are.
LEMMA LogStep == StoreInv /\ StoreInv' /\ [Next]_vars => [Log!Next]_<<History, Answers>>
<1> SUFFICES ASSUME StoreInv, StoreInv', [Next]_vars
             PROVE  Log!Next \/ (History' = History /\ Answers' = Answers)
    OBVIOUS
<1>1. ASSUME NEW t \in Requests, CommitRevision(t) PROVE Log!Next
  <2>1. about[t] \in Ids
      BY <1>1, CommitAdds
  <2> QED BY <1>1, <2>1, CommitIsAdd DEF Log!Next
<1>2. ASSUME UNCHANGED <<revisions, current>>,
             \A u \in Requests : (pc'[u] = "answered") = (pc[u] = "answered"),
             \A u \in Requests : pc[u] = "answered" => next'[u] = next[u]
      PROVE  History' = History /\ Answers' = Answers
    BY <1>2 DEF History, Answers, AuthorOf
<1> USE DEF StoreInv, TypeOK, Goto
<1>3. ASSUME NEW i \in Ids, CreateIntent(i) PROVE History' = History /\ Answers' = Answers
    BY <1>2, <1>3 DEF CreateIntent
<1>4. ASSUME NEW t \in Requests, NEW i \in Ids, BeginRevision(t, i) \/ RejectRevision(t, i)
      PROVE  History' = History /\ Answers' = Answers
    BY <1>2, <1>4 DEF BeginRevision, RejectRevision
<1>5. ASSUME NEW t \in Requests, LockIntent(t) \/ InsertRevision(t) \/ Abort(t)
      PROVE  History' = History /\ Answers' = Answers
    BY <1>2, <1>5 DEF LockIntent, InsertRevision, Abort
<1>6. ASSUME NEW t \in Requests, NextNumber(t) PROVE History' = History /\ Answers' = Answers
    BY <1>2, <1>6 DEF NextNumber
<1>7. CASE UNCHANGED vars
    BY <1>2, <1>7 DEF vars
<1> QED BY <1>1, <1>3, <1>4, <1>5, <1>6, <1>7 DEF Next, Step

\* CreateRevision behaves as if each request added its revision in one step:
\* the transaction of CreateRevision implements RevisionLog.
THEOREM StoreImplementsLog == Spec => LogSpec
<1>1. Spec => [](StoreInv)
    BY StoreIsSafe
<1>2. Init => Log!Init
    BY LogInit
<1>3. StoreInv /\ StoreInv' /\ [Next]_vars => [Log!Next]_<<History, Answers>>
    BY LogStep
<1> QED BY <1>1, <1>2, <1>3, PTL DEF Spec, LogSpec, Log!Spec
=============================================================================
