-------------------------- MODULE RevisionPipeline --------------------------
(***************************************************************************)
(* Intents and their revisions as they are validated, stored, rendered and *)
(* queried. A transaction is two steps here, its start and its commit,     *)
(* because updated_at is the time of the start: IntentStore shows that the *)
(* statements between them are indivisible. A request that is rejected     *)
(* changes nothing here (its audit entry is in IntentStore), and so does a *)
(* query.                                                                  *)
(***************************************************************************)
EXTENDS PolicyRendering, Reachability, FiniteSets

CONSTANTS
    Specs,           \* the specs that clients submit
    Requests,        \* the parameters of the queries that clients send
    Writers,         \* the connections that clients' transactions run on
    MaxTransactions, \* bound on the transactions that are started
    MaxRevisions,    \* bound on the revisions of all intents together
    Common           \* bound: at most one stored revision is none of these

\* The parameters of GET /reachability.
Parameters == {"intentId", "revision", "fromNamespace", "fromSelector", "toNamespace",
               "toService", "port", "protocol", "direction"}

ASSUME PipelineAssumption ==
    /\ MaxTransactions \in Nat /\ MaxRevisions \in Nat
    /\ \A params \in Requests : params = [p \in Parameters |-> params[p]]

VARIABLES
    history,    \* intent_revisions: the specs of each intent in order
    updatedAt,  \* intents.updated_at; 0: the intent has no row
    clock,      \* the time of the last start of a transaction
    began,      \* the start of each writer's open transaction; 0: it has none
    writes      \* the intent that it writes; Nil: none

vars == <<history, updatedAt, clock, began, writes>>

Created(i) == updatedAt[i] # 0

Rows == UNION {{<<i, n>> : n \in 1..Len(history[i])} : i \in Intents}

\* Rows are told apart by their times, and from those that open transactions
\* are about to write.
TimesDiffer ==
    /\ \A i, j \in Intents : Created(i) /\ updatedAt[i] = updatedAt[j] => i = j
    /\ \A c \in Writers, i \in Intents : Created(i) => updatedAt[i] # began[c]
    /\ \A c, d \in Writers : began[c] # 0 /\ began[c] = began[d] => c = d

\* Every variable has a value of its type; the times of rows and transactions
\* differ, and only intents that exist have revisions.
TypeOK ==
    /\ history \in [Intents -> Seq(Specs)]
    /\ clock \in Nat
    /\ updatedAt \in [Intents -> 0..clock]
    /\ began \in [Writers -> 0..clock]
    /\ writes \in [Writers -> Intents \cup {Nil}]
    /\ \A c \in Writers : began[c] = 0 <=> writes[c] = Nil
    /\ TimesDiffer
    /\ \A i \in Intents : history[i] # <<>> => Created(i)

Init ==
    /\ history = [i \in Intents |-> <<>>]
    /\ updatedAt = [i \in Intents |-> 0]
    /\ clock = 0
    /\ began = [c \in Writers |-> 0]
    /\ writes = [c \in Writers |-> Nil]

\* What an open transaction writes nobody reads before its commit.
Begin(c, i) ==
    /\ began[c] = 0
    /\ clock < MaxTransactions
    /\ clock' = clock + 1
    /\ began' = [began EXCEPT ![c] = clock']
    /\ writes' = [writes EXCEPT ![c] = i]
    /\ UNCHANGED <<history, updatedAt>>

\* The transaction of CreateIntent; the id is new.
BeginIntent(c, i) ==
    /\ ~Created(i) /\ \A d \in Writers : writes[d] # i
    /\ Begin(c, i)

\* That of CreateRevision; the client has been told the id by CreateIntent.
BeginRevision(c, i) ==
    /\ Created(i)
    /\ Cardinality(Rows) + Cardinality({d \in Writers : writes[d] \in {j \in Intents : Created(j)}})
         < MaxRevisions
    /\ Begin(c, i)

\* Mutant of Touched: the update leaves updated_at alone.
Untouched(c) == updatedAt

\* Mutant of Touched: the update has lost its WHERE.
TouchedAll(c) == [i \in Intents |-> IF Created(i) THEN began[c] ELSE 0]

\* updated_at = now(): the start of the transaction, whatever has been
\* committed since.
Touched(c) == [updatedAt EXCEPT ![writes[c]] = began[c]]

End(c) ==
    /\ began' = [began EXCEPT ![c] = 0]
    /\ writes' = [writes EXCEPT ![c] = Nil]
    /\ UNCHANGED clock

CommitIntent(c) ==
    /\ began[c] # 0 /\ ~Created(writes[c])
    /\ updatedAt' = [updatedAt EXCEPT ![writes[c]] = began[c]]
    /\ UNCHANGED history
    /\ End(c)

\* The spec was validated before the transaction.
CommitRevision(c, s) ==
    /\ began[c] # 0 /\ Created(writes[c])
    /\ s \in Common \/ \A row \in Rows : history[row[1]][row[2]] \in Common
    /\ Accepted(s)
    /\ history' = [history EXCEPT ![writes[c]] = Append(@, s)]
    /\ updatedAt' = Touched(c)
    /\ End(c)

\* A statement or the commit fails, or the client is gone.
Rollback(c) == began[c] # 0 /\ End(c) /\ UNCHANGED <<history, updatedAt>>

Next ==
    \E c \in Writers :
        \/ \E i \in Intents : BeginIntent(c, i) \/ BeginRevision(c, i)
        \/ CommitIntent(c)
        \/ \E s \in Specs : CommitRevision(c, s)
        \/ Rollback(c)

Spec == Init /\ [][Next]_vars

-----------------------------------------------------------------------------
\* The answer to a request during which the reads about lost fail.
Answer(params, lost) == Check(history, updatedAt, lost, params)

\* The traffic a verdict is about, in the policy of a revision: from the pods
\* it selects to the target's namespace (egress), or the other way.
Directions(q) == IF q.direction = "both" THEN {"ingress", "egress"} ELSE {q.direction}

GrantsQuery(s, q) ==
    LET policy == RenderNetworkPolicy(s) IN
    /\ policy.namespace = q.fromNamespace
    /\ SelectorMatch(policy.selector, q.fromSelector)
    /\ \A dir \in Directions(q) :
         Grants(policy, dir, [namespace |-> q.toNamespace], q.protocol, q.port)

\* The revisions that an answer may rest on.
Asked(i, n, q) ==
    /\ q.intentId \in {Nil, i}
    /\ n = IF q.revision = 0 THEN Len(history[i]) ELSE q.revision

\* "allowed" is true of the evidence: the revision that the answer names was
\* asked about, and the policy it renders to grants the traffic, for every
\* query as it is decoded and whatever reads fail (CheckReachability.Handle
\* against RenderNetworkPolicy). What the cluster holds is another matter.
AllowedIsEnforced ==
    \A params \in Requests, lost \in SUBSET (Intents \cup {Nil}) :
        LET answer == Answer(params, lost)
            i == answer.intentId
            n == answer.revision IN
        answer.verdict = "allowed" =>
            /\ i \in Intents /\ n \in 1..Len(history[i])
            /\ Asked(i, n, Decoded(params))
            /\ GrantsQuery(history[i][n], Decoded(params))

\* The search over all intents agrees with a query of each: of the listed
\* intents that can be read it allows what one allows, and its answer is that
\* of the intent it names. An intent that cannot be read is passed over, so
\* that the search may deny what this one alone would allow (handleGlobal
\* against handleSingle).
GlobalIsSingle ==
    \A params \in Requests, lost \in SUBSET Intents :
        params.intentId = "" /\ ~Rejected(params) =>
            LET alone(i) == Answer([params EXCEPT !.intentId = i], {})
                read == Listed(updatedAt) \ lost
                answer == Answer(params, lost) IN
            /\ answer.verdict = "allowed" <=> \E i \in read : alone(i).verdict = "allowed"
            /\ answer.verdict # "unknown" =>
                 answer.intentId \in read /\ answer = alone(answer.intentId)

\* The intents that would be listed before the one that c writes: their
\* transactions have started after that of c and committed before it.
Overtaking(c) == {j \in Intents \ {writes[c]} : updatedAt[j] > began[c]}

FreshStep ==
    \A c \in Writers, i \in Intents, params \in Requests :
        /\ history'[i] # history[i] /\ writes[c] = i /\ writes'[c] # i
        /\ Cardinality(Overtaking(c)) < Limit
        /\ params.intentId = "" /\ ~Rejected(params)
        /\ Answer([params EXCEPT !.intentId = i], {})'.verdict = "allowed"
        => \A lost \in SUBSET (Intents \ {i}) : Answer(params, lost)'.verdict = "allowed"

\* The revision that has just been committed takes part in the global search,
\* unless Limit other intents were written by transactions that started later
\* and committed earlier: those hide it however new it is (updated_at in
\* CreateRevision of the repository, ORDER BY in ListIntents).
FreshIsGlobal == [][FreshStep]_vars

Stored(s) == \E i \in Intents : \E n \in 1..Len(history[i]) : s = history[i][n]

\* Destinations that Kubernetes has a peer for.
HasPeer(d) ==
    \/ d.type = "service" /\ d.namespace # ""
    \/ d.type = "cidr" /\ d.cidr # ""

\* How far the guardrails, which look at the spec, bind the policy, into which
\* the renderer mixes the ports and peers of all rules. SSH and RDP stay closed
\* to the internet, and in prod only an approved spec opens egress to it,
\* unless the policy is for every peer because no destination has one, or the
\* spec is written in a way that the renderer reads otherwise than the
\* guardrail: a protocol that is none of the two becomes TCP, a port may be
\* out of range, and directions are told apart by their case.
GuardedPolicies ==
    \A s \in Specs : Stored(s) =>
        LET policy == RenderNetworkPolicy(s)
            internet == [cidr |-> Internet]
            everyPeer == \A d \in s.destinations : ~HasPeer(d) IN
        /\ \A dir \in {"ingress", "egress"}, port \in {22, 3389} :
             Grants(policy, dir, internet, "TCP", port) =>
                 \/ everyPeer
                 \/ \E r \in s.rules :
                      \/ r.protocol \notin Tcp \cup Udp /\ port \in r.ports
                      \/ ~(r.ports \subseteq Ports)
        /\ \A rule \in policy.rules["egress"] :
             IsProd(s) /\ ~s.approvalRequired /\ (rule.peers = {} \/ internet \in rule.peers) =>
                 \/ everyPeer
                 \/ \A r \in s.rules : r.direction \notin {"egress", "both"}

\* A stored revision always renders, and to a policy that selects some pods
\* by label: never to one about every pod of its namespace (an empty
\* podSelector), and never with a rule open to all peers or ports if it is
\* documented and each of its destinations has a peer.
PolicyIsConfined ==
    \A s \in Specs : Stored(s) =>
        LET policy == RenderNetworkPolicy(s) IN
        /\ ~RenderError(s)
        /\ DOMAIN policy.selector # {}
        /\ Documented(s) /\ (\A d \in s.destinations : HasPeer(d)) =>
             \A rule \in policy.rules["ingress"] \cup policy.rules["egress"] :
                 rule.peers # {} /\ rule.ports # {}

\* Each part of what a policy of a documented spec grants is said by the spec:
\* the direction by some rule, protocol and port together by some rule, the
\* peer by some destination. A rule is for every peer only if no destination
\* has one (all are fqdns, or name no namespace), and never for every port.
GrantsOnlyNamed ==
    \A s \in Specs : Stored(s) /\ Documented(s) =>
        \A dir \in {"ingress", "egress"} : \A rule \in RenderNetworkPolicy(s).rules[dir] :
            /\ \E r \in s.rules : r.direction \in {dir, "both"}
            /\ rule.ports # {}
            /\ \A e \in rule.ports :
                 \E r \in s.rules : r.protocol = e.protocol /\ e.port \in r.ports
            /\ rule.peers = {} => \A d \in s.destinations : ~HasPeer(d)
            /\ \A peer \in rule.peers : \E d \in s.destinations :
                 \/ d.type = "service" /\ peer = [namespace |-> d.namespace]
                 \/ d.type = "cidr" /\ peer = [cidr |-> d.cidr]
=============================================================================
