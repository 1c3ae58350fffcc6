---------------------------- MODULE PolicyProofs ----------------------------
(***************************************************************************)
(* What the policies of stored revisions allow, and what a verdict of the  *)
(* reachability query is worth, for every spec and every query.            *)
(***************************************************************************)
EXTENDS RevisionPipeline, WellFoundedInduction, SequenceTheorems, TLAPS

\* What a revision has passed is never asked of it again: the invariant keeps
\* it for every row.
StoredInv ==
    /\ history \in [Intents -> Seq(Specs)]
    /\ \A i \in Intents : \A n \in 1..Len(history[i]) : Accepted(history[i][n])

PipelineInv == StoredInv /\ TypeOK

-----------------------------------------------------------------------------
\* A transaction starts at a time of its own.
LEMMA BeginIsTyped ==
    ASSUME PipelineInv, NEW c \in Writers, NEW i \in Intents, Begin(c, i)
    PROVE  PipelineInv'
<1>1. clock \in Nat /\ clock' = clock + 1 /\ UNCHANGED <<history, updatedAt>>
    BY DEF PipelineInv, TypeOK, Begin
<1>2. /\ began' \in [Writers -> 0..clock'] /\ began'[c] = clock'
      /\ \A d \in Writers \ {c} : began'[d] = began[d]
    BY <1>1 DEF PipelineInv, TypeOK, Begin
<1>3. /\ writes' \in [Writers -> Intents \cup {Nil}] /\ writes'[c] = i
      /\ \A d \in Writers \ {c} : writes'[d] = writes[d]
    BY DEF PipelineInv, TypeOK, Begin
<1>4. updatedAt' \in [Intents -> 0..clock']
    BY <1>1 DEF PipelineInv, TypeOK
<1>5. \A j \in Intents : updatedAt[j] # clock'
    BY <1>1 DEF PipelineInv, TypeOK
<1>6. \A d \in Writers : began[d] # clock'
    BY <1>1 DEF PipelineInv, TypeOK
<1>7. TimesDiffer'
    BY <1>1, <1>2, <1>5, <1>6 DEF PipelineInv, TypeOK, TimesDiffer, Created
<1>8. \A d \in Writers : began'[d] = 0 <=> writes'[d] = Nil
  <2>1. clock' # 0
      BY <1>1
  <2>2. i # Nil
      BY ReachabilityAssumption, Zenon
  <2> QED BY <1>2, <1>3, <2>1, <2>2 DEF PipelineInv, TypeOK
<1>9. StoredInv' /\ \A j \in Intents : history'[j] # <<>> => Created(j)'
    BY <1>1 DEF PipelineInv, TypeOK, StoredInv, Created
<1> QED BY <1>1, <1>2, <1>3, <1>4, <1>7, <1>8, <1>9 DEF PipelineInv, TypeOK, StoredInv

\* A transaction that ends leaves the others as they are.
LEMMA EndIsTyped ==
    ASSUME PipelineInv, NEW c \in Writers, End(c)
    PROVE  /\ clock' = clock
           /\ began' \in [Writers -> 0..clock] /\ began'[c] = 0
           /\ \A d \in Writers \ {c} : began'[d] = began[d]
           /\ writes' \in [Writers -> Intents \cup {Nil}] /\ writes'[c] = Nil
           /\ \A d \in Writers \ {c} : writes'[d] = writes[d]
           /\ \A d \in Writers : began'[d] = 0 <=> writes'[d] = Nil
BY DEF PipelineInv, TypeOK, End

\* A row gets the time of the transaction that writes it, and keeps it apart
\* from all others.
LEMMA CommitIsTyped ==
    ASSUME PipelineInv, NEW c \in Writers, began[c] # 0, End(c),
           updatedAt' = [updatedAt EXCEPT ![writes[c]] = began[c]]
    PROVE  /\ writes[c] \in Intents
           /\ updatedAt' \in [Intents -> 0..clock] /\ updatedAt'[writes[c]] = began[c]
           /\ \A j \in Intents \ {writes[c]} : updatedAt'[j] = updatedAt[j]
           /\ TimesDiffer'
<1>1. writes[c] \in Intents /\ began[c] \in 0..clock
    BY DEF PipelineInv, TypeOK
<1>2. /\ updatedAt' \in [Intents -> 0..clock] /\ updatedAt'[writes[c]] = began[c]
      /\ \A j \in Intents \ {writes[c]} : updatedAt'[j] = updatedAt[j]
    BY <1>1 DEF PipelineInv, TypeOK
<1>3. began'[c] = 0 /\ \A d \in Writers \ {c} : began'[d] = began[d]
    BY EndIsTyped
<1>4. /\ \A i, j \in Intents : updatedAt[i] # 0 /\ updatedAt[i] = updatedAt[j] => i = j
      /\ \A d \in Writers, i \in Intents : updatedAt[i] # 0 => updatedAt[i] # began[d]
      /\ \A d, e \in Writers : began[d] # 0 /\ began[d] = began[e] => d = e
    BY DEF PipelineInv, TypeOK, TimesDiffer, Created
<1>5. \A i, j \in Intents : updatedAt'[i] # 0 /\ updatedAt'[i] = updatedAt'[j] => i = j
    BY <1>1, <1>2, <1>4
<1>6. \A d \in Writers, i \in Intents : updatedAt'[i] # 0 => updatedAt'[i] # began'[d]
    BY <1>1, <1>2, <1>3, <1>4
<1>7. \A d, e \in Writers : began'[d] # 0 /\ began'[d] = began'[e] => d = e
    BY <1>3, <1>4
<1> QED BY <1>1, <1>2, <1>5, <1>6, <1>7 DEF TimesDiffer, Created

\* The initial state satisfies the invariant.
LEMMA PipelineInit == Init => PipelineInv
BY DEF Init, PipelineInv, StoredInv, TypeOK, TimesDiffer, Created

\* A revision is checked before it is stored, and none is ever changed.
LEMMA PipelineStep == PipelineInv /\ [Next]_vars => PipelineInv'
<1> SUFFICES ASSUME PipelineInv, [Next]_vars PROVE PipelineInv'
    OBVIOUS
<1>1. ASSUME NEW c \in Writers, NEW i \in Intents, BeginIntent(c, i) \/ BeginRevision(c, i)
      PROVE  PipelineInv'
    BY <1>1, BeginIsTyped DEF BeginIntent, BeginRevision
<1>2. ASSUME NEW c \in Writers, CommitIntent(c) PROVE PipelineInv'
  <2>1. /\ began[c] # 0 /\ End(c) /\ UNCHANGED history
        /\ updatedAt' = [updatedAt EXCEPT ![writes[c]] = began[c]]
      BY <1>2 DEF CommitIntent
  <2>2. StoredInv'
      BY <2>1 DEF PipelineInv, StoredInv
  <2>3. \A j \in Intents : Created(j) => Created(j)'
      BY <2>1, CommitIsTyped DEF Created
  <2>4. \A j \in Intents : history'[j] # <<>> => Created(j)'
      BY <2>1, <2>3 DEF PipelineInv, TypeOK
  <2> QED BY <2>1, <2>2, <2>4, EndIsTyped, CommitIsTyped DEF PipelineInv, TypeOK, StoredInv
<1>3. ASSUME NEW c \in Writers, NEW s \in Specs, CommitRevision(c, s) PROVE PipelineInv'
  <2> DEFINE i == writes[c]
  <2>1. /\ began[c] # 0 /\ End(c) /\ Accepted(s) /\ Created(i)
        /\ history' = [history EXCEPT ![i] = Append(@, s)]
        /\ updatedAt' = [updatedAt EXCEPT ![i] = began[c]]
      BY <1>3, Zenon DEF CommitRevision, Touched
  <2>2. i \in Intents
      BY <2>1, CommitIsTyped
  <2> HIDE DEF i
  <2>3. /\ history' \in [Intents -> Seq(Specs)]
        /\ \A j \in Intents : j # i => history'[j] = history[j]
        /\ history'[i] = Append(history[i], s)
      BY <2>1, <2>2, AppendProperties DEF PipelineInv, StoredInv
  <2>4. ASSUME NEW j \in Intents, NEW n \in 1..Len(history'[j]) PROVE Accepted(history'[j][n])
      BY <2>1, <2>2, <2>3, <2>4, AppendProperties DEF PipelineInv, StoredInv
  <2>5. StoredInv'
      BY <2>3, <2>4 DEF StoredInv
  <2>6. \A j \in Intents : Created(j) => Created(j)'
      BY <2>1, CommitIsTyped DEF Created, i
  <2>7. \A j \in Intents : history'[j] # <<>> => Created(j)'
      BY <2>1, <2>3, <2>6 DEF PipelineInv, TypeOK
  <2> QED BY <2>1, <2>3, <2>5, <2>7, EndIsTyped, CommitIsTyped DEF PipelineInv, TypeOK, i
<1>4. ASSUME NEW c \in Writers, Rollback(c) PROVE PipelineInv'
  <2>1. End(c) /\ UNCHANGED <<history, updatedAt>>
      BY <1>4 DEF Rollback
  <2>2. TimesDiffer'
      BY <2>1, EndIsTyped DEF PipelineInv, TypeOK, TimesDiffer, Created
  <2> QED BY <2>1, <2>2, EndIsTyped DEF PipelineInv, TypeOK, StoredInv, Created
<1>5. CASE UNCHANGED vars
    BY <1>5 DEF PipelineInv, StoredInv, TypeOK, TimesDiffer, Created, vars
<1> QED BY <1>1, <1>2, <1>3, <1>4, <1>5, Zenon DEF Next

\* Revisions, rows and their times are what readers take them for.
THEOREM PipelineIsTyped == Spec => []TypeOK
<1>1. PipelineInv => TypeOK
    BY DEF PipelineInv
<1> QED BY <1>1, PipelineInit, PipelineStep, PTL DEF Spec

-----------------------------------------------------------------------------
\* The ports of TCP and UDP fit an int32.
LEMMA PortFits == \A p \in Ports : ToInt32(p) = p /\ ToInt32(p) > 0
<1> SUFFICES ASSUME NEW p \in Ports PROVE ToInt32(p) = p /\ ToInt32(p) > 0
    OBVIOUS
<1>1. p \in Int /\ 0 < p /\ -Int32Max - 1 <= p /\ p <= Int32Max
  <2>1. p \in Int /\ 0 < p /\ p <= 65535
      BY SMT DEF Ports
  <2>2. Int32Max \in Int /\ Int32Max >= 65535
      BY Int32Assumption, SMT
  <2> QED BY <2>1, <2>2, SMT
<1>2. p \in (-Int32Max - 1)..Int32Max
    BY <1>1, Int32Assumption, SMT
<1>3. ToInt32(p) = p
    BY <1>2, Zenon DEF ToInt32
<1> QED BY <1>1, <1>3

\* A rendered port in range is one of the spec, under its protocol as the
\* renderer reads it.
LEMMA RenderedInRange ==
    ASSUME NEW s, \A r \in s.rules : r.ports \subseteq Ports, NEW e \in PortsFromRules(s.rules)
    PROVE  \E r \in s.rules : Protocol(r) = e.protocol /\ e.port \in r.ports
<1>0. PICK r \in s.rules : \E p \in r.ports :
          e = [protocol |-> Protocol(r), port |-> ToInt32(p)]
    BY Zenon DEF PortsFromRules
<1>1. PICK p \in r.ports : e = [protocol |-> Protocol(r), port |-> ToInt32(p)]
    BY <1>0, Zenon
<1>2. p \in Ports
    BY Zenon
<1>3. ToInt32(p) = p
    BY <1>2, PortFits, Zenon
<1>4. e.protocol = Protocol(r) /\ e.port = p
    BY <1>1, <1>3, Zenon
<1> QED BY <1>4, Zenon

\* A port of the rendered policy is one of the spec, with its protocol.
LEMMA RenderedPorts ==
    ASSUME NEW s, Documented(s), NEW e \in PortsFromRules(s.rules)
    PROVE  \E r \in s.rules : r.protocol = e.protocol /\ e.port \in r.ports
<1>1. \A r \in s.rules : r.ports \subseteq Ports
    BY Zenon DEF Documented
<1>2. PICK r \in s.rules : Protocol(r) = e.protocol /\ e.port \in r.ports
    BY <1>1, RenderedInRange, Zenon
<1>3. Protocol(r) = r.protocol
    BY Zenon DEF Documented, Protocol, Udp
<1> QED BY <1>2, <1>3, Zenon

\* A port of the spec is rendered, whatever the range of int32 above 65535.
LEMMA PortIsRendered ==
    ASSUME NEW s, NEW r \in s.rules, NEW p \in r.ports, p \in Ports
    PROVE  [protocol |-> Protocol(r), port |-> p] \in PortsFromRules(s.rules)
<1>1. ToInt32(p) = p /\ ToInt32(p) > 0
    BY PortFits, Zenon
<1>2. p \in {n \in r.ports : ToInt32(n) > 0}
    BY <1>1, Zenon
<1>3. [protocol |-> Protocol(r), port |-> ToInt32(p)] \in
          {[protocol |-> Protocol(r), port |-> ToInt32(n)] : n \in {m \in r.ports : ToInt32(m) > 0}}
    BY <1>2, Zenon
<1>4. [protocol |-> Protocol(r), port |-> ToInt32(p)] \in PortsFromRules(s.rules)
    BY <1>3, Zenon DEF PortsFromRules
<1> QED BY <1>1, <1>4, Zenon

\* Peers are told apart by their fields.
LEMMA PeerKinds ==
    ASSUME NEW a, NEW b
    PROVE  [namespace |-> a] # [cidr |-> b]
<1>1. DOMAIN [namespace |-> a] = {"namespace"} /\ DOMAIN [cidr |-> b] = {"cidr"}
    OBVIOUS
<1> QED BY <1>1

\* A peer of the rendered policy is a destination of the spec.
LEMMA RenderedPeers ==
    ASSUME NEW s, NEW peer \in PeersFromDestinations(s.destinations)
    PROVE  \E d \in s.destinations :
               \/ d.type = "service" /\ peer = [namespace |-> d.namespace]
               \/ d.type = "cidr" /\ peer = [cidr |-> d.cidr]
BY Zenon DEF PeersFromDestinations

\* A policy that has the whole internet for a peer is of a spec with it.
LEMMA RenderedInternet ==
    ASSUME NEW s, [cidr |-> Internet] \in PeersFromDestinations(s.destinations)
    PROVE  InternetDest(s)
<1>1. PICK d \in s.destinations :
          \/ d.type = "service" /\ [cidr |-> Internet] = [namespace |-> d.namespace]
          \/ d.type = "cidr" /\ [cidr |-> Internet] = [cidr |-> d.cidr]
    BY RenderedPeers
<1>2. d.type = "cidr" /\ [cidr |-> Internet] = [cidr |-> d.cidr]
    BY <1>1, PeerKinds
<1>3. [cidr |-> Internet].cidr = [cidr |-> d.cidr].cidr
    BY <1>2
<1> QED BY <1>2, <1>3 DEF InternetDest

\* The rules of a policy: one of all peers and all ports in each direction
\* that some rule of the spec names.
LEMMA RenderedRule ==
    ASSUME NEW s, NEW dir \in {"ingress", "egress"},
           NEW rule \in RenderNetworkPolicy(s).rules[dir]
    PROVE  /\ rule.peers = PeersFromDestinations(s.destinations)
           /\ rule.ports = PortsFromRules(s.rules)
           /\ Wants(s.rules, IF dir = "ingress" THEN Ingress ELSE Egress)
<1>1. RenderNetworkPolicy(s).rules[dir] =
          PolicyRules(s, IF dir = "ingress" THEN Ingress ELSE Egress)
    BY DEF RenderNetworkPolicy
<1> QED BY <1>1 DEF PolicyRules

\* A documented spec names a direction as the code that renders it spells it.
LEMMA DocumentedDirection ==
    ASSUME NEW s, Documented(s), NEW dir \in {"ingress", "egress"},
           Wants(s.rules, IF dir = "ingress" THEN Ingress ELSE Egress)
    PROVE  \E r \in s.rules : r.direction \in {dir, "both"}
BY Zenon DEF Documented, Wants, Ingress, Egress, Both

\* A destination that has a peer is rendered.
LEMMA PeersAreRendered ==
    ASSUME NEW s, NEW d \in s.destinations, HasPeer(d)
    PROVE  PeersFromDestinations(s.destinations) # {}
BY Zenon DEF HasPeer, PeersFromDestinations

\* An accepted spec with ports in range gives a rule ports.
LEMMA PortsAreRendered ==
    ASSUME NEW s, Accepted(s), \A r \in s.rules : r.ports \subseteq Ports
    PROVE  PortsFromRules(s.rules) # {}
<1>1. PICK r \in s.rules : TRUE
    BY Zenon DEF Accepted, ValidateBasic
<1>2. PICK p \in r.ports : TRUE
    BY Zenon DEF Accepted, ValidateBasic
<1>3. p \in Ports
    BY Zenon
<1> QED BY <1>3, PortIsRendered, Zenon

-----------------------------------------------------------------------------
\* A stored spec was accepted.
LEMMA StoredIsAccepted ==
    ASSUME PipelineInv, NEW s, Stored(s)
    PROVE  Accepted(s)
BY DEF PipelineInv, StoredInv, Stored

\* Whatever the renderer mixes, each part of a policy is in its spec, and what
\* it leaves empty, and so open, is only the peers of a spec that has none.
THEOREM PoliciesGrantOnlyNamed == Spec => []GrantsOnlyNamed
<1>1. ASSUME PipelineInv PROVE GrantsOnlyNamed
  <2> SUFFICES ASSUME NEW s \in Specs, Stored(s), Documented(s), NEW dir \in {"ingress", "egress"},
                      NEW rule \in RenderNetworkPolicy(s).rules[dir]
               PROVE  /\ \E r \in s.rules : r.direction \in {dir, "both"}
                      /\ rule.ports # {}
                      /\ \A e \in rule.ports :
                           \E r \in s.rules : r.protocol = e.protocol /\ e.port \in r.ports
                      /\ rule.peers = {} => \A d \in s.destinations : ~HasPeer(d)
                      /\ \A peer \in rule.peers : \E d \in s.destinations :
                           \/ d.type = "service" /\ peer = [namespace |-> d.namespace]
                           \/ d.type = "cidr" /\ peer = [cidr |-> d.cidr]
      BY DEF GrantsOnlyNamed
  <2>0. /\ rule.peers = PeersFromDestinations(s.destinations)
        /\ rule.ports = PortsFromRules(s.rules)
      BY RenderedRule
  <2>1. \E r \in s.rules : r.direction \in {dir, "both"}
      BY RenderedRule, DocumentedDirection
  <2>2. rule.ports # {}
    <3>1. Accepted(s)
        BY <1>1, StoredIsAccepted
    <3>2. \A r \in s.rules : r.ports \subseteq Ports
        BY Zenon DEF Documented
    <3> QED BY <2>0, <3>1, <3>2, PortsAreRendered, Zenon
  <2>3. \A e \in rule.ports : \E r \in s.rules : r.protocol = e.protocol /\ e.port \in r.ports
      BY RenderedRule, RenderedPorts
  <2>4. rule.peers = {} => \A d \in s.destinations : ~HasPeer(d)
      BY <2>0, PeersAreRendered, Zenon
  <2>5. \A peer \in rule.peers : \E d \in s.destinations :
           \/ d.type = "service" /\ peer = [namespace |-> d.namespace]
           \/ d.type = "cidr" /\ peer = [cidr |-> d.cidr]
    <3> SUFFICES ASSUME NEW peer \in rule.peers
                 PROVE  \E d \in s.destinations :
                            \/ d.type = "service" /\ peer = [namespace |-> d.namespace]
                            \/ d.type = "cidr" /\ peer = [cidr |-> d.cidr]
        OBVIOUS
    <3>1. peer \in PeersFromDestinations(s.destinations)
        BY <2>0, Zenon
    <3> QED BY <3>1, RenderedPeers, Zenon
  <2> QED BY <2>1, <2>2, <2>3, <2>4, <2>5
<1> QED BY <1>1, PipelineInit, PipelineStep, PTL DEF Spec

\* Every stored revision renders to a policy confined to labelled pods, and
\* to peers and ports that are listed.
THEOREM PoliciesAreConfined == Spec => []PolicyIsConfined
<1>1. ASSUME PipelineInv PROVE PolicyIsConfined
  <2> SUFFICES ASSUME NEW s \in Specs, Stored(s)
               PROVE  /\ ~RenderError(s)
                      /\ DOMAIN RenderNetworkPolicy(s).selector # {}
                      /\ Documented(s) /\ (\A d \in s.destinations : HasPeer(d)) =>
                           \A rule \in RenderNetworkPolicy(s).rules["ingress"]
                                     \cup RenderNetworkPolicy(s).rules["egress"] :
                               rule.peers # {} /\ rule.ports # {}
      BY DEF PolicyIsConfined
  <2>1. Accepted(s)
      BY <1>1, StoredIsAccepted
  <2>2. ~RenderError(s) /\ DOMAIN RenderNetworkPolicy(s).selector # {}
      BY <2>1, Zenon DEF Accepted, ValidateBasic, RenderError, RenderNetworkPolicy
  <2>3. ASSUME Documented(s), \A d \in s.destinations : HasPeer(d), NEW dir \in {"ingress", "egress"},
               NEW rule \in RenderNetworkPolicy(s).rules[dir]
        PROVE  rule.peers # {} /\ rule.ports # {}
    <3>1. PICK d \in s.destinations : TRUE
        BY <2>1, Zenon DEF Accepted, ValidateBasic
    <3>2. PeersFromDestinations(s.destinations) # {}
        BY <2>3, <3>1, PeersAreRendered, Zenon
    <3>3. \A r \in s.rules : r.ports \subseteq Ports
        BY <2>3, Zenon DEF Documented
    <3>4. PortsFromRules(s.rules) # {}
        BY <2>1, <3>3, PortsAreRendered, Zenon
    <3> QED BY <2>3, <3>2, <3>4, RenderedRule
  <2> QED BY <2>2, <2>3
<1> QED BY <1>1, PipelineInit, PipelineStep, PTL DEF Spec

\* A policy rule that reaches the internet is of a spec that names it, if any
\* destination of the spec has a peer.
LEMMA ReachedInternet ==
    ASSUME NEW s, NEW d \in s.destinations, HasPeer(d),
           NEW dir \in {"ingress", "egress"}, NEW rule \in RenderNetworkPolicy(s).rules[dir],
           rule.peers = {} \/ [cidr |-> Internet] \in rule.peers
    PROVE  InternetDest(s)
<1>1. rule.peers = PeersFromDestinations(s.destinations)
    BY RenderedRule
<1>2. [cidr |-> Internet] \in PeersFromDestinations(s.destinations)
    BY <1>1, PeersAreRendered, Zenon
<1> QED BY <1>2, RenderedInternet, Zenon

\* A TCP port that a policy opens to the internet is one of a TCP rule of the
\* spec, if all ports are in range and no other protocol is given for it.
LEMMA OpenedPort ==
    ASSUME NEW s, Accepted(s), NEW d \in s.destinations, HasPeer(d),
           NEW dir \in {"ingress", "egress"}, NEW port,
           Grants(RenderNetworkPolicy(s), dir, [cidr |-> Internet], "TCP", port),
           \A r \in s.rules : r.ports \subseteq Ports,
           \A r \in s.rules : port \in r.ports => r.protocol \in Tcp \cup Udp
    PROVE  InternetDest(s) /\ \E r \in s.rules : r.protocol \in Tcp /\ port \in r.ports
<1> DEFINE policy == RenderNetworkPolicy(s)
           e == [protocol |-> "TCP", port |-> port]
<1>1. PICK rule \in policy.rules[dir] :
          /\ rule.peers = {} \/ [cidr |-> Internet] \in rule.peers
          /\ rule.ports = {} \/ e \in rule.ports
    BY Zenon DEF Grants
<1>2. InternetDest(s)
    BY <1>1, ReachedInternet, Zenon
<1>3. e \in PortsFromRules(s.rules)
  <2>1. rule.ports = PortsFromRules(s.rules)
      BY <1>1, RenderedRule, Zenon
  <2>2. PortsFromRules(s.rules) # {}
      BY PortsAreRendered, Zenon
  <2> QED BY <1>1, <2>1, <2>2, Zenon
<1>4. e.protocol = "TCP" /\ e.port = port
    OBVIOUS
<1> HIDE DEF e
<1>5. PICK r \in s.rules : Protocol(r) = e.protocol /\ e.port \in r.ports
    BY <1>3, RenderedInRange, Zenon
<1>6. r.protocol \in Tcp
    BY <1>4, <1>5, Zenon DEF Protocol
<1> QED BY <1>2, <1>4, <1>5, <1>6, Zenon

\* The guardrails, which see the rules one by one, hold of the policy, which
\* mixes them, as far as the renderer reads the spec as they do.
THEOREM PoliciesAreGuarded == Spec => []GuardedPolicies
<1>1. ASSUME PipelineInv PROVE GuardedPolicies
  <2> SUFFICES ASSUME NEW s \in Specs, Stored(s), ~\A d \in s.destinations : ~HasPeer(d)
               PROVE  /\ \A dir \in {"ingress", "egress"}, port \in {22, 3389} :
                           Grants(RenderNetworkPolicy(s), dir, [cidr |-> Internet], "TCP", port) =>
                             \E r \in s.rules :
                                 \/ r.protocol \notin Tcp \cup Udp /\ port \in r.ports
                                 \/ ~(r.ports \subseteq Ports)
                      /\ \A rule \in RenderNetworkPolicy(s).rules["egress"] :
                           /\ IsProd(s) /\ ~s.approvalRequired
                           /\ rule.peers = {} \/ [cidr |-> Internet] \in rule.peers
                           => \A r \in s.rules : r.direction \notin {"egress", "both"}
      BY DEF GuardedPolicies
  <2>0. PICK d \in s.destinations : HasPeer(d)
      OBVIOUS
  <2>1. Accepted(s)
      BY <1>1, StoredIsAccepted
  <2>2. ASSUME NEW dir \in {"ingress", "egress"}, NEW port \in {22, 3389},
               Grants(RenderNetworkPolicy(s), dir, [cidr |-> Internet], "TCP", port),
               \A r \in s.rules : r.ports \subseteq Ports,
               \A r \in s.rules : port \in r.ports => r.protocol \in Tcp \cup Udp
        PROVE  FALSE
    <3>1. InternetDest(s) /\ \E r \in s.rules : r.protocol \in Tcp /\ port \in r.ports
        BY <2>0, <2>1, <2>2, OpenedPort
    <3>2. OpensLogin(s)
        BY <3>1 DEF OpensLogin
    <3>3. "INTERNET_SSH_RDP" \in EvaluateGuardrails(s)
        BY <3>1, <3>2 DEF EvaluateGuardrails
    <3> QED BY <2>1, <3>3 DEF Accepted
  <2>3. ASSUME NEW rule \in RenderNetworkPolicy(s).rules["egress"], IsProd(s), ~s.approvalRequired,
               rule.peers = {} \/ [cidr |-> Internet] \in rule.peers,
               NEW r \in s.rules, r.direction \in {"egress", "both"}
        PROVE  FALSE
    <3>1. InternetDest(s)
        BY <2>0, <2>3, ReachedInternet, Zenon
    <3>2. OpensEgress(s)
        BY <2>3, Zenon DEF OpensEgress
    <3>3. "PROD_INTERNET_EGRESS_REQUIRES_APPROVAL" \in EvaluateGuardrails(s)
        BY <2>3, <3>1, <3>2 DEF EvaluateGuardrails
    <3> QED BY <2>1, <3>3 DEF Accepted
  <2> QED BY <2>2, <2>3
<1> QED BY <1>1, PipelineInit, PipelineStep, PTL DEF Spec

-----------------------------------------------------------------------------
\* A query that is not rejected names a port and a service with a namespace,
\* and is decoded to the spellings that the specs are documented to use.
LEMMA DecodedQuery ==
    ASSUME NEW params \in Requests, ~Rejected(params)
    PROVE  /\ Decoded(params).port \in Ports
           /\ Decoded(params).protocol \in {"TCP", "UDP"}
           /\ Decoded(params).direction \in {"ingress", "egress", "both"}
           /\ Decoded(params).toNamespace # ""
           /\ Decoded(params).intentId = Nil => Decoded(params).revision = 0
<1>1. DOMAIN params = Parameters
    BY PipelineAssumption, Zenon
<1>2. /\ Decoded(params).port = params.port
      /\ Decoded(params).toNamespace = params.toNamespace
      /\ Decoded(params).protocol = DecodedProtocol(params.protocol)
      /\ Decoded(params).direction = DecodedDirection(params.direction)
      /\ Decoded(params).revision = params.revision
      /\ Decoded(params).intentId = IF params.intentId = "" THEN Nil ELSE params.intentId
    BY <1>1, PipelineAssumption DEF Decoded, Parameters
<1>3. /\ params.port \in Ports /\ params.toNamespace # ""
      /\ params.intentId \in {"", Nil} => params.revision = 0
    BY Zenon DEF Rejected
<1> QED BY <1>2, <1>3, Zenon DEF DecodedProtocol, DecodedDirection

\* The fields of the records.
LEMMA ServiceFields == \A ns, name :
    Service(ns, name).type = "service" /\ Service(ns, name).namespace = ns
BY DEF Service

LEMMA PolicyFields == \A s :
    /\ RenderNetworkPolicy(s).namespace = s.namespace
    /\ RenderNetworkPolicy(s).selector = s.selector
    /\ RenderNetworkPolicy(s).rules["ingress"] = PolicyRules(s, Ingress)
    /\ RenderNetworkPolicy(s).rules["egress"] = PolicyRules(s, Egress)
BY DEF RenderNetworkPolicy

\* A revision that allows the query renders to a policy that grants it.
LEMMA MatchIsGranted ==
    ASSUME NEW s, NEW q, Candidate(s, q), RuleMatches(s, q),
           q.port \in Ports, q.protocol \in {"TCP", "UDP"},
           q.direction \in {"ingress", "egress", "both"}, q.toNamespace # ""
    PROVE  GrantsQuery(s, q)
<1> DEFINE policy == RenderNetworkPolicy(s)
           peer == [namespace |-> q.toNamespace]
           port == [protocol |-> q.protocol, port |-> q.port]
<1>1. PICK r \in s.rules :
          DirMatch(r.direction, q.direction) /\ r.protocol = q.protocol /\ q.port \in r.ports
    BY Zenon DEF RuleMatches
<1>2. Protocol(r) = q.protocol
    BY <1>1, Zenon DEF Protocol, Udp
<1>3. port \in PortsFromRules(s.rules)
    BY <1>1, <1>2, PortIsRendered, Zenon
<1>4. peer \in PeersFromDestinations(s.destinations)
  <2> DEFINE d == Service(q.toNamespace, q.toService)
  <2>1. d \in s.destinations
      BY Zenon DEF Candidate, DestinationMatches
  <2>2. d.type = "service" /\ d.namespace = q.toNamespace
      BY ServiceFields, Zenon
  <2> HIDE DEF d
  <2>3. d \in {e \in s.destinations : e.type = "service" /\ e.namespace # ""}
      BY <2>1, <2>2, Zenon
  <2>4. [namespace |-> d.namespace] \in PeersFromDestinations(s.destinations)
      BY <2>3, Zenon DEF PeersFromDestinations
  <2> QED BY <2>2, <2>4, Zenon
<1>5. ASSUME NEW dir \in Directions(q) PROVE Grants(policy, dir, peer, q.protocol, q.port)
  <2> DEFINE spelled == IF dir = "ingress" THEN Ingress ELSE Egress
             rule == [peers |-> PeersFromDestinations(s.destinations),
                      ports |-> PortsFromRules(s.rules)]
  <2>1. dir \in {"ingress", "egress"} /\ r.direction \in {dir, "both"}
      BY <1>1, <1>5, Zenon DEF Directions, DirMatch
  <2>2. Wants(s.rules, spelled)
      BY <2>1, Zenon DEF Wants, Ingress, Egress, Both
  <2>3. PolicyRules(s, spelled) = {rule}
      BY <1>3, <2>2, Zenon DEF PolicyRules
  <2>4. policy.rules[dir] = PolicyRules(s, spelled)
      BY <2>1, PolicyFields, Zenon
  <2>5. rule \in policy.rules[dir]
      BY <2>3, <2>4, Zenon
  <2>6. peer \in rule.peers /\ port \in rule.ports
      BY <1>3, <1>4, Zenon
  <2> HIDE DEF rule
  <2> QED BY <2>5, <2>6, Zenon DEF Grants
<1>6. policy.namespace = q.fromNamespace /\ SelectorMatch(policy.selector, q.fromSelector)
  <2>1. policy.namespace = s.namespace /\ policy.selector = s.selector
      BY PolicyFields, Zenon
  <2>2. s.namespace = q.fromNamespace /\ SelectorMatch(s.selector, q.fromSelector)
      BY Zenon DEF Candidate, SubjectMatches
  <2> HIDE DEF policy
  <2> QED BY <2>1, <2>2, Zenon
<1> QED BY <1>5, <1>6, Zenon DEF GrantsQuery

\* The fields of an answer.
LEMMA ResultFields == \A v, i, n :
    /\ Result(v, i, n).verdict = v
    /\ Result(v, i, n).intentId = i
    /\ Result(v, i, n).revision = n
    /\ Bare(v).verdict = v
BY DEF Result, Bare

\* The answer is this one, about that revision of intent i.
Says(answer, verdict, i, n) ==
    answer = Result(verdict, i, n) /\ answer.verdict = verdict /\ answer.intentId = i

\* A result says what its fields say.
LEMMA ResultSays == \A verdict, i, n : Says(Result(verdict, i, n), verdict, i, n)
BY ResultFields DEF Says

\* An answer that allows has evidence.
LEMMA AllowedIsResult ==
    ASSUME NEW answer, answer.verdict = "allowed"
    PROVE  /\ answer # Bare("error") /\ answer # Bare("unknown")
           /\ \A i, n : answer # Result("denied", i, n)
<1>1. Bare("error").verdict = "error" /\ Bare("unknown").verdict = "unknown"
    BY ResultFields, Zenon
<1>2. \A i, n : Result("denied", i, n).verdict = "denied"
    BY ResultFields, Zenon
<1> QED BY <1>1, <1>2

\* The natural numbers that a set holds have a least one.
LEMMA LeastNumber ==
    ASSUME NEW T \in SUBSET Nat, T # {}
    PROVE  \E x \in T : \A y \in T : x <= y
<1> DEFINE R == {p \in Nat \X Nat : p[1] < p[2]}
<1>1. IsWellFoundedOn(R, Nat)
    BY NatLessThanWellFounded DEF OpToRel
<1> HIDE DEF R
<1>2. PICK x \in T : \A y \in T : ~(<<y, x>> \in R)
    BY <1>1, WFMin
<1>3. \A y \in T : ~(y < x)
    BY <1>2 DEF R
<1> QED BY <1>3

\* The first and the last intent of a list are in it, however long it is.
LEMMA Ends ==
    ASSUME TypeOK, NEW I \in SUBSET Intents, I # {}
    PROVE  Newest(updatedAt, I) \in I /\ Oldest(updatedAt, I) \in I
<1>1. clock \in Nat /\ \A i \in I : updatedAt[i] \in 0..clock
    BY DEF TypeOK
<1>2. \E i \in I : \A j \in I : updatedAt[i] <= updatedAt[j]
  <2> DEFINE T == {updatedAt[i] : i \in I}
  <2>1. T \in SUBSET Nat /\ T # {}
      BY <1>1
  <2>2. PICK x \in T : \A y \in T : x <= y
      BY <2>1, LeastNumber
  <2> QED BY <2>2
<1>3. \E i \in I : \A j \in I : updatedAt[j] <= updatedAt[i]
  <2> DEFINE T == {clock - updatedAt[i] : i \in I}
  <2>1. T \in SUBSET Nat /\ T # {}
      BY <1>1
  <2>2. PICK x \in T : \A y \in T : x <= y
      BY <2>1, LeastNumber
  <2>3. PICK i \in I : x = clock - updatedAt[i]
      BY <2>2
  <2>4. ASSUME NEW j \in I PROVE updatedAt[j] <= updatedAt[i]
    <3>1. clock - updatedAt[i] <= clock - updatedAt[j]
        BY <2>2, <2>3
    <3> QED BY <1>1, <3>1
  <2> QED BY <2>4
<1> QED BY <1>2, <1>3, Zenon DEF Newest, Oldest

\* What the search over all intents answers.
LEMMA GlobalAnswer ==
    ASSUME TypeOK, NEW lost, Nil \notin lost, NEW q
    PROVE  LET candidates == Candidates(history, updatedAt, lost, q)
               allows(i) == RuleMatches(Current(history, i), q)
               answer == Global(history, updatedAt, lost, q) IN
           \/ /\ \E i \in candidates : allows(i)
              /\ \E i \in candidates :
                   allows(i) /\ Says(answer, "allowed", i, Len(history[i]))
           \/ /\ \A i \in candidates : ~allows(i)
              /\ \E i \in candidates : Says(answer, "denied", i, Len(history[i]))
           \/ candidates = {} /\ answer = Bare("unknown")
<1> DEFINE candidates == Candidates(history, updatedAt, lost, q)
           allowing == {i \in candidates : RuleMatches(Current(history, i), q)}
           first == Newest(updatedAt, allowing)
           last == Oldest(updatedAt, candidates)
           answer == Global(history, updatedAt, lost, q)
<1>1. candidates \subseteq Intents
    BY Zenon DEF Candidates, Listed
<1>2. answer = IF allowing # {} THEN Result("allowed", first, Len(history[first]))
               ELSE IF candidates # {} THEN Result("denied", last, Len(history[last]))
               ELSE Bare("unknown")
    BY Zenon DEF Global
<1> HIDE DEF candidates, first, last, answer
<1>3. ASSUME allowing # {}
      PROVE  first \in allowing /\ answer = Result("allowed", first, Len(history[first]))
    BY <1>1, <1>2, <1>3, Ends, Zenon DEF first
<1>4. ASSUME allowing = {}, candidates # {}
      PROVE  last \in candidates /\ answer = Result("denied", last, Len(history[last]))
    BY <1>1, <1>2, <1>4, Ends, Zenon DEF last
<1>5. ASSUME candidates = {} PROVE answer = Bare("unknown")
    BY <1>2, <1>5, Zenon
<1>6. \/ allowing # {} /\ Says(answer, "allowed", first, Len(history[first]))
      \/ allowing = {} /\ candidates # {} /\ Says(answer, "denied", last, Len(history[last]))
      \/ candidates = {}
    BY <1>3, <1>4, ResultSays, Zenon
<1> QED BY <1>3, <1>4, <1>5, <1>6, Zenon DEF candidates, answer

\* A verdict "allowed" rests on the revision that it names.
LEMMA AllowedByOne ==
    ASSUME PipelineInv, NEW lost, NEW q, q.intentId = Nil => q.revision = 0,
           Verdict(history, updatedAt, lost, q).verdict = "allowed"
    PROVE  LET i == Verdict(history, updatedAt, lost, q).intentId
               n == Verdict(history, updatedAt, lost, q).revision IN
           /\ i \in Intents /\ n \in 1..Len(history[i])
           /\ Asked(i, n, q) /\ Candidate(history[i][n], q) /\ RuleMatches(history[i][n], q)
<1> DEFINE answer == Verdict(history, updatedAt, lost, q)
<1>1. CASE q.intentId = Nil
  <2>1. answer = Global(history, updatedAt, lost, q)
      BY <1>1, Zenon DEF Verdict
  <2>2. Nil \notin lost
    <3>1. Nil \in lost => answer = Bare("error")
        BY <2>1, Zenon DEF Global
    <3> QED BY <3>1, AllowedIsResult
  <2>3. PICK i \in Candidates(history, updatedAt, lost, q) :
            /\ RuleMatches(Current(history, i), q)
            /\ Says(answer, "allowed", i, Len(history[i]))
    <3> HIDE DEF answer
    <3>1. answer # Bare("unknown") /\ \A i, n : ~Says(answer, "denied", i, n)
        BY AllowedIsResult, Zenon DEF answer, Says
    <3> QED BY <2>1, <2>2, <3>1, GlobalAnswer, Zenon DEF PipelineInv
  <2>4. i \in Intents /\ history[i] # <<>> /\ Candidate(Current(history, i), q)
      BY <2>3, Zenon DEF Candidates, Listed
  <2>5. history[i] \in Seq(Specs)
      BY <2>4 DEF PipelineInv, StoredInv
  <2>6. Len(history[i]) \in 1..Len(history[i])
      BY <2>4, <2>5, EmptySeq
  <2>7. Asked(i, Len(history[i]), q)
      BY <1>1, Zenon DEF Asked
  <2>8. answer.intentId = i /\ answer.revision = Len(history[i])
      BY <2>3, ResultFields DEF Says
  <2> HIDE DEF answer
  <2>9. /\ answer.intentId \in Intents /\ answer.revision \in 1..Len(history[answer.intentId])
        /\ Asked(answer.intentId, answer.revision, q)
        /\ Candidate(history[answer.intentId][answer.revision], q)
        /\ RuleMatches(history[answer.intentId][answer.revision], q)
      BY <2>3, <2>4, <2>6, <2>7, <2>8, Zenon DEF Current
  <2> QED BY <2>9, Zenon DEF answer
<1>2. CASE q.intentId # Nil
  <2> DEFINE i == q.intentId
             h == history[i]
             n == IF q.revision = 0 THEN Len(h) ELSE q.revision
  <2>1. i \in Intents /\ answer = Single(i, h, q)
    <3>1. \/ i \in Intents /\ answer = Single(i, h, q)
          \/ answer = Bare("error")
        BY <1>2, Zenon DEF Verdict
    <3> QED BY <3>1, AllowedIsResult
  <2>2. Single(i, h, q) = CASE n = 0 -> Bare("unknown")
                            [] n \in 1..Len(h) -> Result(SingleVerdict(h[n], q), i, n)
                            [] OTHER -> Bare("error")
      BY Zenon DEF Single
  <2>3. Asked(i, n, q)
      BY Zenon DEF Asked
  <2> HIDE DEF answer, n, h, i
  <2>4. n \in 1..Len(h) /\ answer = Result(SingleVerdict(h[n], q), i, n)
    <3>1. n # 0
        BY <2>1, <2>2, ResultFields DEF answer
    <3>2. n \in 1..Len(h)
        BY <2>1, <2>2, <3>1, ResultFields DEF answer
    <3> QED BY <2>1, <2>2, <3>1, <3>2
  <2>5. answer.intentId = i /\ answer.revision = n /\ SingleVerdict(h[n], q) = "allowed"
    <3>1. answer.verdict = "allowed"
        BY DEF answer
    <3> QED BY <2>4, <3>1, ResultFields
  <2>6. Candidate(h[n], q) /\ RuleMatches(h[n], q)
      BY <2>5, Zenon DEF SingleVerdict
  <2> QED BY <2>1, <2>3, <2>4, <2>5, <2>6, Zenon DEF h, answer
<1> QED BY <1>1, <1>2

\* What the reachability query calls allowed the policy of its evidence grants.
THEOREM AllowedTrafficIsEnforced == Spec => []AllowedIsEnforced
<1>1. ASSUME PipelineInv PROVE AllowedIsEnforced
  <2> SUFFICES ASSUME NEW params \in Requests, NEW lost \in SUBSET (Intents \cup {Nil}),
                      Answer(params, lost).verdict = "allowed"
               PROVE  LET i == Answer(params, lost).intentId
                          n == Answer(params, lost).revision IN
                      /\ i \in Intents /\ n \in 1..Len(history[i])
                      /\ Asked(i, n, Decoded(params))
                      /\ GrantsQuery(history[i][n], Decoded(params))
      BY Zenon DEF AllowedIsEnforced
  <2> DEFINE q == Decoded(params)
             i == Answer(params, lost).intentId
             n == Answer(params, lost).revision
  <2>1. ~Rejected(params)
    <3>1. Rejected(params) => Answer(params, lost) = Bare("error")
        BY Zenon DEF Answer, Check
    <3> QED BY <3>1, AllowedIsResult
  <2>2. Answer(params, lost) = Verdict(history, updatedAt, lost, q)
      BY <2>1, Zenon DEF Answer, Check
  <2>3. q.intentId = Nil => q.revision = 0
      BY <2>1, DecodedQuery, ZenonT(30)
  <2>4. /\ i \in Intents /\ n \in 1..Len(history[i])
        /\ Asked(i, n, q) /\ Candidate(history[i][n], q) /\ RuleMatches(history[i][n], q)
    <3> HIDE DEF q
    <3> QED BY <1>1, <2>2, <2>3, AllowedByOne, Zenon
  <2>5. GrantsQuery(history[i][n], q)
      BY <2>1, <2>4, DecodedQuery, MatchIsGranted, Zenon
  <2> QED BY <2>4, <2>5
<1> QED BY <1>1, PipelineInit, PipelineStep, PTL DEF Spec

-----------------------------------------------------------------------------
\* What the decoding changes of a query, and what it leaves.
LEMMA DecodedFields ==
    ASSUME NEW params, DOMAIN params = Parameters
    PROVE  /\ Decoded(params).intentId = IF params.intentId = "" THEN Nil ELSE params.intentId
           /\ Decoded(params).revision = params.revision
           /\ Decoded(params).fromNamespace = params.fromNamespace
           /\ Decoded(params).fromSelector = params.fromSelector
           /\ Decoded(params).toNamespace = params.toNamespace
           /\ Decoded(params).toService = params.toService
           /\ Decoded(params).port = params.port
           /\ Decoded(params).protocol = DecodedProtocol(params.protocol)
           /\ Decoded(params).direction = DecodedDirection(params.direction)
<1> DEFINE id == IF params.intentId = "" THEN Nil ELSE params.intentId
           first == [params EXCEPT !.intentId = IF @ = "" THEN Nil ELSE @]
           second == [first EXCEPT !.protocol = DecodedProtocol(@)]
<1>1. /\ DOMAIN first = Parameters
      /\ \A p \in Parameters : first[p] = IF p = "intentId" THEN id ELSE params[p]
    BY Zenon
<1> HIDE DEF id, first
<1>2. /\ DOMAIN second = Parameters
      /\ \A p \in Parameters : second[p] =
           IF p = "protocol" THEN DecodedProtocol(first["protocol"]) ELSE first[p]
    BY <1>1, Zenon
<1> HIDE DEF second
<1>3. Decoded(params) = [second EXCEPT !.direction = DecodedDirection(@)]
    BY Zenon DEF Decoded, first, second
<1>4. \A p \in Parameters : Decoded(params)[p] =
        IF p = "direction" THEN DecodedDirection(second["direction"]) ELSE second[p]
    BY <1>2, <1>3, Zenon
<1>5. /\ Decoded(params).intentId = id
      /\ Decoded(params).revision = params.revision
      /\ Decoded(params).fromNamespace = params.fromNamespace
      /\ Decoded(params).fromSelector = params.fromSelector
      /\ Decoded(params).toNamespace = params.toNamespace
      /\ Decoded(params).toService = params.toService
      /\ Decoded(params).port = params.port
      /\ Decoded(params).protocol = DecodedProtocol(params.protocol)
      /\ Decoded(params).direction = DecodedDirection(params.direction)
    BY <1>1, <1>2, <1>4 DEF Parameters
<1> QED BY <1>5, Zenon DEF id

\* A query about all intents, asked of one of them instead, is decoded to the
\* same question about the latest revision of that one.
LEMMA AskedOfOne ==
    ASSUME NEW params \in Requests, params.intentId = "", ~Rejected(params), NEW i \in Intents
    PROVE  LET one == [params EXCEPT !.intentId = i] IN
           /\ ~Rejected(one)
           /\ Decoded(one).intentId = i /\ Decoded(one).revision = 0
           /\ \A s : /\ Candidate(s, Decoded(one)) <=> Candidate(s, Decoded(params))
                     /\ RuleMatches(s, Decoded(one)) <=> RuleMatches(s, Decoded(params))
<1> DEFINE one == [params EXCEPT !.intentId = i]
<1>1. DOMAIN params = Parameters
    BY PipelineAssumption, Zenon
<1>2. DOMAIN one = Parameters
    BY <1>1, Zenon
<1>3. /\ one.intentId = i
      /\ one.revision = params.revision
      /\ one.fromNamespace = params.fromNamespace /\ one.fromSelector = params.fromSelector
      /\ one.toNamespace = params.toNamespace /\ one.toService = params.toService
      /\ one.port = params.port /\ one.protocol = params.protocol
      /\ one.direction = params.direction
  <2>1. \A p \in Parameters : one[p] = IF p = "intentId" THEN i ELSE params[p]
      BY <1>1, Zenon
  <2> HIDE DEF one
  <2>2. \A p \in Parameters \ {"intentId"} : one[p] = params[p]
      BY <2>1, Zenon
  <2>3. "intentId" \in Parameters
      BY Zenon DEF Parameters
  <2> QED BY <2>1, <2>2, <2>3, Zenon DEF Parameters
<1>4. i # Malformed /\ i # "" /\ i # Nil
    BY ReachabilityAssumption, Zenon
<1>5. params.revision = 0
    BY Zenon DEF Rejected
<1> HIDE DEF one
<1>6. ~Rejected(one)
  <2>1. one.intentId # Malformed /\ one.intentId # "" /\ one.intentId # Nil
      BY <1>3, <1>4, Zenon
  <2> QED BY <1>3, <2>1, Zenon DEF Rejected
<1>7. /\ Decoded(one).intentId = i /\ Decoded(one).revision = 0
      /\ Decoded(one).fromNamespace = params.fromNamespace
      /\ Decoded(one).fromSelector = params.fromSelector
      /\ Decoded(one).toNamespace = params.toNamespace
      /\ Decoded(one).toService = params.toService
      /\ Decoded(one).port = params.port
      /\ Decoded(one).protocol = DecodedProtocol(params.protocol)
      /\ Decoded(one).direction = DecodedDirection(params.direction)
    BY <1>2, <1>3, <1>4, <1>5, DecodedFields, Zenon
<1>8. /\ Decoded(params).fromNamespace = params.fromNamespace
      /\ Decoded(params).fromSelector = params.fromSelector
      /\ Decoded(params).toNamespace = params.toNamespace
      /\ Decoded(params).toService = params.toService
      /\ Decoded(params).port = params.port
      /\ Decoded(params).protocol = DecodedProtocol(params.protocol)
      /\ Decoded(params).direction = DecodedDirection(params.direction)
    BY <1>1, DecodedFields, Zenon
<1>9. ASSUME NEW s
      PROVE  /\ Candidate(s, Decoded(one)) <=> Candidate(s, Decoded(params))
             /\ RuleMatches(s, Decoded(one)) <=> RuleMatches(s, Decoded(params))
  <2> DEFINE a == Decoded(one)
             b == Decoded(params)
  <2>1. /\ a.fromNamespace = b.fromNamespace /\ a.fromSelector = b.fromSelector
        /\ a.toNamespace = b.toNamespace /\ a.toService = b.toService
        /\ a.port = b.port /\ a.protocol = b.protocol /\ a.direction = b.direction
      BY <1>7, <1>8, Zenon
  <2> HIDE DEF a, b
  <2>2. Candidate(s, a) <=> Candidate(s, b)
      BY <2>1, Zenon DEF Candidate, SubjectMatches, DestinationMatches
  <2>3. RuleMatches(s, a) <=> RuleMatches(s, b)
      BY <2>1, Zenon DEF RuleMatches
  <2> QED BY <2>2, <2>3, Zenon DEF a, b
<1> QED BY <1>6, <1>7, <1>9, Zenon DEF one

\* What a single intent answers about its latest revision.
LEMMA LatestVerdict ==
    ASSUME NEW i, NEW h \in Seq(Specs), NEW q, q.revision = 0
    PROVE  Single(i, h, q) = IF h = <<>> THEN Bare("unknown")
                             ELSE Result(SingleVerdict(h[Len(h)], q), i, Len(h))
<1>1. Len(h) \in Nat /\ (Len(h) = 0 <=> h = <<>>)
    BY EmptySeq
<1> QED BY <1>1 DEF Single

\* Asked of one intent that exists, the query is answered from its latest
\* revision.
LEMMA AnswerOfOne ==
    ASSUME PipelineInv, NEW params \in Requests, params.intentId = "", ~Rejected(params),
           NEW i \in Intents, Created(i)
    PROVE  LET h == history[i]
               q == Decoded(params) IN
           Answer([params EXCEPT !.intentId = i], {}) =
               IF h = <<>> THEN Bare("unknown")
               ELSE Result(SingleVerdict(Current(history, i), q), i, Len(h))
<1> DEFINE h == history[i]
           s == h[Len(h)]
           one == [params EXCEPT !.intentId = i]
           q == Decoded(one)
<1>1. h \in Seq(Specs)
    BY Zenon DEF PipelineInv, TypeOK
<1>2. /\ ~Rejected(one) /\ q.intentId = i /\ q.revision = 0
      /\ Candidate(s, q) <=> Candidate(s, Decoded(params))
      /\ RuleMatches(s, q) <=> RuleMatches(s, Decoded(params))
    BY AskedOfOne, Zenon
<1>3. i # Nil
    BY ReachabilityAssumption, Zenon
<1> HIDE DEF one, q
<1>4. Answer(one, {}) = Verdict(history, updatedAt, {}, q)
    BY <1>2, Zenon DEF Answer, Check, q
<1>5. Verdict(history, updatedAt, {}, q) = Single(i, h, q)
    BY <1>2, <1>3, Zenon DEF Verdict, Created
<1>6. Single(i, h, q) = IF h = <<>> THEN Bare("unknown")
                        ELSE Result(SingleVerdict(s, q), i, Len(h))
    BY <1>1, <1>2, LatestVerdict, Zenon
<1>7. SingleVerdict(s, q) = SingleVerdict(s, Decoded(params))
    BY <1>2, Zenon DEF SingleVerdict
<1> QED BY <1>4, <1>5, <1>6, <1>7, Zenon DEF one, Current

\* What all intents and each intent answer about those that are listed and
\* can be read.
LEMMA GlobalSingle == PipelineInv => GlobalIsSingle
<1> SUFFICES ASSUME PipelineInv, NEW params \in Requests, NEW lost \in SUBSET Intents,
                    params.intentId = "", ~Rejected(params)
             PROVE  LET alone(i) == Answer([params EXCEPT !.intentId = i], {})
                        read == Listed(updatedAt) \ lost
                        answer == Answer(params, lost) IN
                    /\ answer.verdict = "allowed" <=> \E i \in read : alone(i).verdict = "allowed"
                    /\ answer.verdict # "unknown" =>
                         answer.intentId \in read /\ answer = alone(answer.intentId)
    BY Zenon DEF GlobalIsSingle
<1> DEFINE q == Decoded(params)
           alone(i) == Answer([params EXCEPT !.intentId = i], {})
           read == Listed(updatedAt) \ lost
           answer == Answer(params, lost)
           candidates == Candidates(history, updatedAt, lost, q)
           allows(i) == RuleMatches(Current(history, i), q)
<1>1. answer = Global(history, updatedAt, lost, q)
  <2>1. q.intentId = Nil
      BY PipelineAssumption, DecodedFields, Zenon
  <2> QED BY <2>1, Zenon DEF Answer, Check, Verdict
<1>2. \A i \in read :
        alone(i) = IF history[i] = <<>> THEN Bare("unknown")
                   ELSE Result(SingleVerdict(Current(history, i), q), i, Len(history[i]))
    BY AnswerOfOne, Zenon DEF Listed, Created
<1>3. \A i : i \in candidates <=>
               i \in read /\ history[i] # <<>> /\ Candidate(Current(history, i), q)
    BY Zenon DEF Candidates
<1>4. \A i \in candidates :
        alone(i) = Result(IF allows(i) THEN "allowed" ELSE "denied", i, Len(history[i]))
    BY <1>2, <1>3, Zenon DEF SingleVerdict
<1>5. ASSUME NEW i \in read, alone(i).verdict = "allowed"
      PROVE  i \in candidates /\ allows(i)
  <2>1. alone(i) # Bare("unknown") /\ alone(i) # Result("denied", i, Len(history[i]))
    <3> HIDE DEF alone
    <3> QED BY <1>5, AllowedIsResult, Zenon
  <2> QED BY <1>2, <1>3, <2>1, Zenon DEF SingleVerdict
<1>6. \/ /\ \E i \in candidates : allows(i)
         /\ \E i \in candidates : allows(i) /\ Says(answer, "allowed", i, Len(history[i]))
      \/ /\ \A i \in candidates : ~allows(i)
         /\ \E i \in candidates : Says(answer, "denied", i, Len(history[i]))
      \/ candidates = {} /\ answer = Bare("unknown")
  <2>1. Nil \notin lost
      BY ReachabilityAssumption, Zenon
  <2> HIDE DEF answer, q
  <2> QED BY <1>1, <2>1, GlobalAnswer, Zenon DEF PipelineInv
<1> HIDE DEF q, alone, read, answer, candidates, allows
<1>7. CASE \E i \in candidates : allows(i)
  <2>1. PICK i \in candidates : allows(i) /\ Says(answer, "allowed", i, Len(history[i]))
      BY <1>6, <1>7, Zenon
  <2>2. answer = alone(i) /\ i \in read
      BY <1>3, <1>4, <2>1, Zenon DEF Says
  <2>3. answer.verdict = "allowed" /\ answer.intentId = i
      BY <2>1, Zenon DEF Says
  <2> QED BY <2>2, <2>3, Zenon DEF alone, read, answer
<1>8. CASE \A i \in candidates : ~allows(i)
  <2>1. ~\E i \in read : alone(i).verdict = "allowed"
      BY <1>5, <1>8, Zenon
  <2>2. ASSUME candidates = {} PROVE answer.verdict = "unknown"
      BY <1>6, <2>2, ResultFields, Zenon
  <2>3. ASSUME candidates # {}
        PROVE  answer.verdict = "denied" /\ answer.intentId \in read /\ answer = alone(answer.intentId)
    <3>1. PICK i \in candidates : Says(answer, "denied", i, Len(history[i]))
        BY <1>6, <1>8, <2>3, Zenon
    <3>2. answer.verdict = "denied" /\ answer.intentId = i
        BY <3>1, Zenon DEF Says
    <3>3. alone(i) = answer /\ i \in read
        BY <1>3, <1>4, <1>8, <3>1, Zenon DEF Says
    <3> QED BY <3>2, <3>3, Zenon
  <2>4. /\ answer.verdict = "allowed" <=> \E i \in read : alone(i).verdict = "allowed"
        /\ answer.verdict # "unknown" => answer.intentId \in read /\ answer = alone(answer.intentId)
      BY <2>1, <2>2, <2>3, Zenon
  <2> QED BY <2>4, Zenon DEF alone, read, answer
<1> QED BY <1>7, <1>8, Zenon

\* The search over all intents never contradicts the query of an intent that
\* it lists and can read, for any revisions, any times and any limit.
THEOREM GlobalAgreesWithSingle == Spec => []GlobalIsSingle
BY PipelineInit, PipelineStep, GlobalSingle, PTL DEF Spec

\* A revision that fewer than Limit intents have overtaken is in the list when
\* it is committed.
LEMMA FreshIsListed ==
    ASSUME PipelineInv, [Next]_vars, NEW c \in Writers, NEW i \in Intents,
           history'[i] # history[i], writes[c] = i, writes'[c] # i,
           Cardinality(Overtaking(c)) < Limit
    PROVE  i \in Listed(updatedAt')
<1>1. PICK d \in Writers, s \in Specs : CommitRevision(d, s)
    BY Zenon DEF Next, BeginIntent, BeginRevision, Begin, CommitIntent, Rollback, vars
<1>2. c = d
    BY <1>1, EndIsTyped DEF CommitRevision
<1>3. /\ updatedAt' \in [Intents -> 0..clock] /\ updatedAt'[i] = began[c] /\ began[c] # 0
      /\ \A j \in Intents \ {i} : updatedAt'[j] = updatedAt[j]
    BY <1>1, <1>2, CommitIsTyped DEF CommitRevision, Touched
<1>4. {j \in Intents : updatedAt'[j] > updatedAt'[i]} = Overtaking(c)
  <2>1. clock \in Nat
      BY DEF PipelineInv, TypeOK
  <2>2. updatedAt'[i] \in Nat
      BY <1>3, <2>1
  <2>3. ~(updatedAt'[i] > updatedAt'[i])
      BY <2>2
  <2> QED BY <1>3, <2>3, Zenon DEF Overtaking
<1> QED BY <1>3, <1>4, Zenon DEF Listed

\* So the search over all intents allows what such a revision allows, when it
\* has just been committed.
THEOREM FreshRevisionsAreSearched == Spec => FreshIsGlobal
<1>1. ASSUME PipelineInv, GlobalIsSingle', [Next]_vars PROVE [FreshStep]_vars
  <2> SUFFICES ASSUME NEW c \in Writers, NEW i \in Intents, NEW params \in Requests,
                      history'[i] # history[i], writes[c] = i, writes'[c] # i,
                      Cardinality(Overtaking(c)) < Limit,
                      params.intentId = "", ~Rejected(params),
                      Answer([params EXCEPT !.intentId = i], {})'.verdict = "allowed",
                      NEW lost \in SUBSET (Intents \ {i})
               PROVE  Answer(params, lost)'.verdict = "allowed"
      BY Zenon DEF FreshStep
  <2>1. i \in Listed(updatedAt') \ lost
      BY <1>1, FreshIsListed, Zenon
  <2>2. lost \in SUBSET Intents
      BY Zenon
  <2>3. \/ Answer(params, lost)'.verdict = "allowed"
        \/ ~\E j \in Listed(updatedAt') \ lost :
              Answer([params EXCEPT !.intentId = j], {})'.verdict = "allowed"
      BY <1>1, <2>2, Zenon DEF GlobalIsSingle
  <2> QED BY <2>1, <2>3, Zenon
<1> QED BY <1>1, PipelineInit, PipelineStep, GlobalAgreesWithSingle, PTL DEF Spec, FreshIsGlobal
=============================================================================
