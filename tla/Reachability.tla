----------------------------- MODULE Reachability -----------------------------
(***************************************************************************)
(* GET /reachability: the decoding of the query (handlers_reachability.go) *)
(* and the verdict (check_reachability.go), about one revision of an       *)
(* intent or about the current revisions of the intents that are listed.   *)
(*                                                                         *)
(* Revisions never change, so reading the current number and then the row  *)
(* is one step. lost is the set of intents about which a read of this      *)
(* request fails, with Nil in it if the list cannot be read.               *)
(***************************************************************************)
EXTENDS IntentSpec, Sequences, FiniteSets

CONSTANTS
    Intents,   \* intent ids
    Nil,       \* uuid.Nil: no intent is meant
    Malformed, \* a parameter that does not parse
    Limit      \* 200: what handleGlobal asks ListIntents for

\* No intent has an id that stands for none, or that is no uuid.
ASSUME ReachabilityAssumption == {Nil, Malformed, ""} \cap Intents = {} /\ Limit \in Nat

SelectorMatch(actual, want) == \A k \in DOMAIN want : Label(actual, k) = want[k]

\* Mutant of DirMatch: a query for both directions is content with one.
DirMatchEither(rule, query) == query = "both" \/ rule = "both" \/ rule = query

DirMatch(rule, query) ==
    \/ rule = query
    \/ rule = "both" /\ query \in {"ingress", "egress"}

SubjectMatches(s, q) ==
    s.namespace = q.fromNamespace /\ SelectorMatch(s.selector, q.fromSelector)

DestinationMatches(s, q) == Service(q.toNamespace, q.toService) \in s.destinations

RuleMatches(s, q) ==
    \E r \in s.rules :
        DirMatch(r.direction, q.direction) /\ r.protocol = q.protocol /\ q.port \in r.ports

\* The revision is a candidate of the global search.
Candidate(s, q) == SubjectMatches(s, q) /\ DestinationMatches(s, q)

\* An answer with the revision that it gives as evidence.
Result(verdict, i, n) == [verdict |-> verdict, intentId |-> i, revision |-> n]

\* An answer without evidence: "unknown", or an error.
Bare(verdict) == Result(verdict, Nil, 0)

\* handleSingle: a revision that is not about the query denies it as well.
SingleVerdict(s, q) ==
    IF Candidate(s, q) /\ RuleMatches(s, q) THEN "allowed" ELSE "denied"

\* The answer about one intent, of which h is the sequence of revisions.
Single(i, h, q) ==
    LET n == IF q.revision = 0 THEN Len(h) ELSE q.revision IN
    CASE n = 0 -> Bare("unknown")
      [] n \in 1..Len(h) -> Result(SingleVerdict(h[n], q), i, n)
      [] OTHER -> Bare("error")

\* ListIntents, ORDER BY updated_at DESC LIMIT; 0 stands for no row. No two
\* rows have the same time.
Listed(updatedAt) ==
    {i \in Intents :
        /\ updatedAt[i] # 0
        /\ Cardinality({j \in Intents : updatedAt[j] > updatedAt[i]}) < Limit}

Current(history, i) == history[i][Len(history[i])]

\* The listed intents whose current revision is read and is a candidate: one
\* without revisions is passed over, and so is one whose revision cannot be read.
Candidates(history, updatedAt, lost, q) ==
    {i \in Listed(updatedAt) \ lost : history[i] # <<>> /\ Candidate(Current(history, i), q)}

\* The first and the last of them that the loop comes to.
Newest(updatedAt, I) == CHOOSE i \in I : \A j \in I : updatedAt[j] <= updatedAt[i]
Oldest(updatedAt, I) == CHOOSE i \in I : \A j \in I : updatedAt[i] <= updatedAt[j]

\* Mutant of Global: the first candidate decides.
GlobalFirstCandidate(history, updatedAt, lost, q) ==
    LET candidates == Candidates(history, updatedAt, lost, q)
        i == Newest(updatedAt, candidates) IN
    IF Nil \in lost THEN Bare("error")
    ELSE IF candidates # {}
    THEN Result(SingleVerdict(Current(history, i), q), i, Len(history[i]))
    ELSE Bare("unknown")

\* handleGlobal: the first candidate with a matching rule ends the search, and
\* each one without replaces the denial to be given at its end.
Global(history, updatedAt, lost, q) ==
    LET candidates == Candidates(history, updatedAt, lost, q)
        allowing == {i \in candidates : RuleMatches(Current(history, i), q)}
        first == Newest(updatedAt, allowing)
        last == Oldest(updatedAt, candidates) IN
    IF Nil \in lost THEN Bare("error")
    ELSE IF allowing # {} THEN Result("allowed", first, Len(history[first]))
    ELSE IF candidates # {} THEN Result("denied", last, Len(history[last]))
    ELSE Bare("unknown")

\* CheckReachability.Handle of a query that it does not reject.
Verdict(history, updatedAt, lost, q) ==
    IF q.intentId = Nil THEN Global(history, updatedAt, lost, q)
    ELSE IF q.intentId \in Intents \ lost /\ updatedAt[q.intentId] # 0
    THEN Single(q.intentId, history[q.intentId], q)
    ELSE Bare("error")

-----------------------------------------------------------------------------
\* The handler. A parameter left out is "" (0 for the numbers; a revision
\* given as 0 counts as malformed).

DecodedProtocol(p) == IF p \in Udp THEN "UDP" ELSE "TCP"

DecodedDirection(d) ==
    IF d \in Ingress THEN "ingress" ELSE IF d \in Both THEN "both" ELSE "egress"

\* Any of these conditions is answered 400; the use case repeats those that
\* the handler has tested, and adds the last.
Rejected(params) ==
    \/ \E p \in {"intentId", "revision", "port", "fromSelector"} : params[p] = Malformed
    \/ params.intentId = "" /\ params.revision # 0
    \/ params.revision < 0
    \/ "" \in {params.fromNamespace, params.toNamespace, params.toService}
    \/ params.port \notin Ports
    \/ params.protocol \notin Tcp \cup Udp \cup {""}
    \/ params.direction \notin Ingress \cup Egress \cup Both \cup {""}
    \/ params.intentId = Nil /\ params.revision # 0

Decoded(params) ==
    [params EXCEPT
        !.intentId = IF @ = "" THEN Nil ELSE @,
        !.protocol = DecodedProtocol(@),
        !.direction = DecodedDirection(@)]

\* The answer to a request.
Check(history, updatedAt, lost, params) ==
    IF Rejected(params) THEN Bare("error")
    ELSE Verdict(history, updatedAt, lost, Decoded(params))
===============================================================================
