--------------------------- MODULE PolicyRendering ---------------------------
(***************************************************************************)
(* From a spec to the NetworkPolicy: Compile (policy_compiler.go) copies   *)
(* the subject, destinations and rules into the artifact, which passes     *)
(* through JSON, and RenderNetworkPolicy (render_networkpolicy.go) turns   *)
(* the artifact into the policy. Grants is what Kubernetes makes of it.    *)
(***************************************************************************)
EXTENDS IntentSpec

CONSTANTS
    PolicyName(_),  \* "ncp-" and the sanitized app label: not one-to-one
    Int32Max,       \* 2147483647, or any bound above the ports
    Overflowed      \* what float64 to int32 yields out of range (Go leaves it open)

ASSUME Int32Assumption == Int32Max \in Nat /\ Int32Max >= 65535 /\ Overflowed \in Int

Name(s) == IF Label(s.selector, "app") # "" THEN PolicyName(s.selector["app"]) ELSE "ncp-policy"

ToInt32(p) == IF p \in (-Int32Max - 1)..Int32Max THEN p ELSE Overflowed

\* Mutant of Protocol: every protocol is rendered as TCP.
ProtocolAlwaysTcp(r) == "TCP"

Protocol(r) == IF r.protocol \in Udp THEN "UDP" ELSE "TCP"

\* The ports of all rules, whatever their directions.
PortsFromRules(rules) ==
    UNION {{[protocol |-> Protocol(r), port |-> ToInt32(p)] : p \in {n \in r.ports : ToInt32(n) > 0}}
              : r \in rules}

\* A service becomes its whole namespace; an fqdn has no counterpart.
PeersFromDestinations(dests) ==
    {[namespace |-> d.namespace] : d \in {e \in dests : e.type = "service" /\ e.namespace # ""}}
        \cup {[cidr |-> d.cidr] : d \in {e \in dests : e.type = "cidr" /\ e.cidr # ""}}

Wants(rules, dir) == \E r \in rules : r.direction \in dir \cup Both

\* Each rule of a direction yields the same policy rule, of all peers and all
\* ports; a policy rule of nothing is left out.
PolicyRules(s, dir) ==
    LET peers == PeersFromDestinations(s.destinations)
        ports == PortsFromRules(s.rules) IN
    IF Wants(s.rules, dir) /\ ~(peers = {} /\ ports = {})
    THEN {[peers |-> peers, ports |-> ports]}
    ELSE {}

PolicyTypes(s) ==
    {t \in {"Ingress", "Egress"} :
        \/ t = "Ingress" /\ Wants(s.rules, Ingress)
        \/ t = "Egress" /\ (Wants(s.rules, Egress) \/ ~Wants(s.rules, Ingress))}

RenderError(s) == s.namespace = ""

RenderNetworkPolicy(s) ==
    [namespace |-> s.namespace,
     name      |-> Name(s),
     selector  |-> s.selector,
     types     |-> PolicyTypes(s),
     rules     |-> [ingress |-> PolicyRules(s, Ingress), egress |-> PolicyRules(s, Egress)]]

\* Kubernetes: a rule without peers is about every peer, one without ports
\* about every port.
Grants(policy, dir, peer, protocol, port) ==
    \E rule \in policy.rules[dir] :
        /\ rule.peers = {} \/ peer \in rule.peers
        /\ rule.ports = {} \/ [protocol |-> protocol, port |-> port] \in rule.ports
=============================================================================
