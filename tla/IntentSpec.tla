----------------------------- MODULE IntentSpec -----------------------------
(***************************************************************************)
(* The spec of an intent revision (spec.go) and what CreateRevision asks   *)
(* of it before it is stored: ValidateBasic and EvaluateGuardrails.        *)
(*                                                                         *)
(* Lists are sets: no reader depends on order or on repetition. Every      *)
(* reader folds the case of a destination's type, so one value stands for  *)
(* all its spellings. Protocols and directions are folded, and CIDRs are   *)
(* trimmed, by some readers and not by others: their spellings are kept.   *)
(***************************************************************************)
EXTENDS Integers

CONSTANTS
    Internet,  \* the CIDR 0.0.0.0/0
    Padded     \* the same with spaces around it

Ports == 1..65535

\* The spellings that strings.EqualFold, ToUpper and ToLower identify.
Tcp == {"TCP", "tcp"}
Udp == {"UDP", "udp"}
Ingress == {"ingress", "Ingress"}
Egress == {"egress", "Egress"}
Both == {"both", "Both"}

\* A spec has the fields envs, team, cluster, namespace, selector (a function
\* on label keys), destinations, rules and approvalRequired; a rule has a
\* direction, a protocol and ports; a destination has a type and the field of
\* its type. The empty string stands for a field left out.
Service(ns, name) == [type |-> "service", namespace |-> ns, name |-> name]
Cidr(c) == [type |-> "cidr", cidr |-> c]
Fqdn == [type |-> "fqdn"]
Rule(dir, proto, ports) == [direction |-> dir, protocol |-> proto, ports |-> ports]

\* The zero value of a missing key of a Go map.
Label(labels, k) == IF k \in DOMAIN labels THEN labels[k] ELSE ""

\* Mutant of ValidateBasic: an empty selector is accepted.
ValidateWithoutSelector(s) ==
    /\ s.envs # {} /\ s.team # ""
    /\ s.cluster # "" /\ s.namespace # ""
    /\ s.destinations # {} /\ s.rules # {}
    /\ \A r \in s.rules : r.ports # {} /\ r.protocol # "" /\ r.direction # ""

ValidateBasic(s) ==
    /\ s.envs # {} /\ s.team # ""
    /\ s.cluster # "" /\ s.namespace # ""
    /\ DOMAIN s.selector # {}
    /\ s.destinations # {} /\ s.rules # {}
    /\ \A r \in s.rules : r.ports # {} /\ r.protocol # "" /\ r.direction # ""

\* The CIDR is compared as it is trimmed; the renderer takes it untrimmed.
InternetDest(s) == \E d \in s.destinations : d.type = "cidr" /\ d.cidr \in {Internet, Padded}

IsProd(s) == \E e \in s.envs : e \in {"prod", "production"}

\* Mutant of OpensLogin: looks at egress rules only.
OpensLoginOutward(s) ==
    \E r \in s.rules :
        r.protocol \in Tcp /\ r.direction = "egress" /\ r.ports \cap {22, 3389} # {}

\* SSH or RDP in a TCP rule, whatever its direction.
OpensLogin(s) == \E r \in s.rules : r.protocol \in Tcp /\ r.ports \cap {22, 3389} # {}

\* The direction is compared as it is spelled.
OpensEgress(s) == \E r \in s.rules : r.direction \in {"egress", "both"}

EvaluateGuardrails(s) ==
    {v \in {"INTERNET_SSH_RDP", "PROD_INTERNET_EGRESS_REQUIRES_APPROVAL"} :
        /\ InternetDest(s)
        /\ v = "INTERNET_SSH_RDP" => OpensLogin(s)
        /\ v = "PROD_INTERNET_EGRESS_REQUIRES_APPROVAL" =>
             IsProd(s) /\ OpensEgress(s) /\ ~s.approvalRequired}

\* What CreateRevision stores.
Accepted(s) == ValidateBasic(s) /\ EvaluateGuardrails(s) = {}

\* The values that openapi.yaml documents; nothing in the code enforces them.
Documented(s) ==
    \A r \in s.rules :
        /\ r.direction \in {"ingress", "egress", "both"}
        /\ r.protocol \in {"TCP", "UDP"}
        /\ r.ports \subseteq Ports
=============================================================================
