------------------------- MODULE MCRevisionPipeline -------------------------
(* A small instance of RevisionPipeline: specs that differ in one thing    *)
(* each, and the queries that tell them apart.                             *)
EXTENDS RevisionPipeline, TLC

CONSTANTS i1, i2, i3, i4, c1, c2

\* What the requests do not name may be exchanged.
Symmetry == Permutations({i2, i3}) \cup Permutations({c1, c2})

\* Two labels that sanitizeName makes equal.
MCPolicyName(app) == IF app \in {"svc.a", "svc-a"} THEN "ncp-svc-a" ELSE "ncp-other"

\* What amd64 makes of it: the least int32.
MCOverflowed == -Int32Max - 1

App(a) == [k \in {"app"} |-> a]

B == Service("shop", "svc-b")
OtherB == Service("bank", "svc-b")
Net == Cidr(Internet)

Base == [envs |-> {"dev"}, team |-> "t", cluster |-> "c1", namespace |-> "pay",
         selector |-> App("svc.a"), destinations |-> {B},
         rules |-> {Rule("egress", "TCP", {443})}, approvalRequired |-> FALSE]

Destinations == {{B}, {Net}, {B, Net}, {Fqdn}, {Fqdn, B}}

RuleSets == {{Rule("egress", "TCP", {443})},
             {Rule("egress", "TCP", {443}), Rule("ingress", "UDP", {53})},
             {Rule("both", "TCP", {53})},
             {Rule("ingress", "TCP", {22})},
             {Rule("egress", "TCP", {443}), Rule("ingress", "TCP", {3389})}}

Plain == {[Base EXCEPT !.destinations = d, !.rules = r] : d \in Destinations, r \in RuleSets}

Prod == {[Base EXCEPT !.envs = {"prod"}, !.destinations = {Net}, !.rules = r,
                      !.approvalRequired = a] :
            r \in {{Rule("both", "TCP", {53})}, {Rule("ingress", "TCP", {443})}}, a \in BOOLEAN}

\* Two services of one name, and specs that are not documented, or not valid.
Odd == {[Base EXCEPT !.destinations = {OtherB, B}],
        [Base EXCEPT !.rules = {Rule("Egress", "tcp", {443})}],
        [Base EXCEPT !.rules = {Rule("egress", "TCP", {0, 200000})}],
        [Base EXCEPT !.destinations = {Net}, !.rules = {Rule("egress", "SCTP", {22})}],
        [Base EXCEPT !.destinations = {Net}, !.envs = {"prod"}, !.rules = {Rule("Egress", "tcp", {443})}],
        [Base EXCEPT !.destinations = {Cidr(Padded)}, !.rules = {Rule("egress", "TCP", {22})}],
        [Base EXCEPT !.rules = {Rule("egress", "TCP", {})}],
        [Base EXCEPT !.selector = [k \in {} |-> ""]],
        [Base EXCEPT !.selector = [k \in {"tier"} |-> "db"]],
        [Base EXCEPT !.namespace = ""],
        [Base EXCEPT !.namespace = "shop"],
        [Base EXCEPT !.destinations = {}]}

MCSpecs == Plain \cup Prod \cup Odd

\* They differ in what they allow and deny of the traffic to one service.
MCCommon == {[Base EXCEPT !.rules = r] :
                r \in {{Rule("egress", "TCP", {443})}, {Rule("both", "TCP", {53})}}}
            \cup {[Base EXCEPT !.namespace = "shop"]}

Params == [intentId |-> "", revision |-> 0, fromNamespace |-> "pay", fromSelector |-> App("svc.a"),
           toNamespace |-> "shop", toService |-> "svc-b", port |-> 443,
           protocol |-> "", direction |-> ""]

Good == {[Params EXCEPT !.port = p, !.protocol = pr, !.direction = d] :
            p \in {443, 53}, pr \in {"", "udp"}, d \in {"", "ingress", "both"}}

Others == {[Params EXCEPT !.intentId = i1, !.revision = 1],
           [Params EXCEPT !.intentId = i1],
           [Params EXCEPT !.intentId = i1, !.port = 53, !.direction = "both"],
           [Params EXCEPT !.revision = 1],
           [Params EXCEPT !.intentId = Nil, !.revision = 1],
           [Params EXCEPT !.intentId = Malformed],
           [Params EXCEPT !.fromSelector = Malformed],
           [Params EXCEPT !.intentId = i4],
           [Params EXCEPT !.port = 65536],
           [Params EXCEPT !.protocol = "icmp"],
           [Params EXCEPT !.toNamespace = "bank"],
           [Params EXCEPT !.fromSelector = [k \in {"tier"} |-> ""]],
           [Params EXCEPT !.fromSelector = [k \in {"tier"} |-> "db"]],
           [Params EXCEPT !.fromNamespace = "shop"]}

MCRequests == Good \cup Others
=============================================================================
