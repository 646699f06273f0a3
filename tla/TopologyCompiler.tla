-------------------------- MODULE TopologyCompiler --------------------------
(***************************************************************************)
(* The compiler of topologies (backend/app/topology_compiler.py), which    *)
(* accepts paths and nothing else, and what is derived from its plan: the  *)
(* network each host is attached to, the warnings about hosts on several   *)
(* links and the rows a deploy records (deployment_service.py), the rows   *)
(* that `cloudnet plan` expects (scenario_plan.py), and the quotas         *)
(* (scenario_quotas.py).                                                   *)
(*                                                                         *)
(* A topology is its nodes [name, type], its links [from, to, net] and its *)
(* firewall rules [name, protocol, from, to], as sequences.  A subnet is   *)
(* an IP version and the bits of its prefix; one that ipaddress cannot     *)
(* parse is None.                                                          *)
(***************************************************************************)
EXTENDS Naturals, Sequences, FiniteSets, SequencesExt

CONSTANTS
    MaxHosts,    \* CLOUDNET_MAX_HOST_NODES_PER_SCENARIO
    MaxNetworks, \* CLOUDNET_MAX_NETWORKS_PER_SCENARIO and CLOUDNET_MAX_VPCS_PER_SCENARIO_RUN
    MaxCost,     \* CLOUDNET_MAX_SCENARIO_COST_RISK_UNITS
    MaxInstances \* AWS_MAX_INSTANCES_PER_DEPLOY

ASSUME QuotaAssumption == {MaxHosts, MaxNetworks, MaxCost, MaxInstances} \subseteq Nat

None == [version |-> 0, bits |-> <<>>]

\* SUPPORTED_NODE_TYPES and SUPPORTED_FIREWALL_PROTOCOLS
NodeTypes == {"host", "router"}
Protocols == {"icmp", "tcp"}

Names(nodes) == {nodes[i].name : i \in DOMAIN nodes}

GoodNodes(nodes) ==
    /\ \A i \in DOMAIN nodes : nodes[i].type \in NodeTypes
    /\ \A i, j \in DOMAIN nodes : nodes[i].name = nodes[j].name => i = j

GoodLinks(t) ==
    \A i \in DOMAIN t.links :
        {t.links[i].from, t.links[i].to} \subseteq Names(t.nodes) /\ t.links[i].net # None

GoodRules(t) ==
    /\ \A i \in DOMAIN t.rules :
         t.rules[i].protocol \in Protocols /\ {t.rules[i].from, t.rules[i].to} \subseteq Names(t.nodes)
    /\ \A i, j \in DOMAIN t.rules : t.rules[i].name = t.rules[j].name => i = j

\* ipaddress: CIDR blocks overlap when one contains the other.
Overlap(m, n) ==
    m.version = n.version /\ (IsPrefix(m.bits, n.bits) \/ IsPrefix(n.bits, m.bits))

Overlapping(links) ==
    \E i, j \in DOMAIN links : i < j /\ Overlap(links[i].net, links[j].net)

-----------------------------------------------------------------------------
(* The checks of _reject_cycles; its search is in CycleSearch. *)

\* A link of a node to itself is left out.
Joining(links) == {i \in DOMAIN links : links[i].from # links[i].to}

Ends(links) == UNION {{links[i].from, links[i].to} : i \in Joining(links)}

\* adjacency, link_counts: the links of a node
Meets(links, n) == {i \in Joining(links) : n \in {links[i].from, links[i].to}}

\* Mutant: three links of a node are accepted.
Crowded3(links) == \E n \in Ends(links) : Cardinality(Meets(links, n)) > 3

Crowded(links) == \E n \in Ends(links) : Cardinality(Meets(links, n)) > 2

\* What compile_topology raises an error about before it searches.
Parses(t) ==
    GoodNodes(t.nodes) /\ GoodLinks(t) /\ ~Overlapping(t.links) /\ ~Crowded(t.links)

Plan(t) ==
    [networks |-> [i \in DOMAIN t.links |-> <<t.links[i].from, t.links[i].to>>],
     servers |-> t.nodes,
     rules |-> t.rules]

-----------------------------------------------------------------------------
(* Deploying a plan *)

HostsOf(plan) == {plan.servers[i].name : i \in {j \in DOMAIN plan.servers : plan.servers[j].type = "host"}}

AttachedTo(plan, h) == {i \in DOMAIN plan.networks : h \in Range(plan.networks[i])}

\* _network_id_for_node, first_subnet_by_node
HomeOf(plan, h) == CHOOSE i \in AttachedTo(plan, h) : \A j \in AttachedTo(plan, h) : i <= j

\* The compiler accepts a host that is on no link, and on AWS rules without a host that would
\* bring their security group; the deploy fails.
Deployable(provider, plan) ==
    /\ \A h \in HostsOf(plan) : AttachedTo(plan, h) # {}
    /\ provider = "aws" =>
         /\ plan.networks # <<>> /\ Cardinality(HostsOf(plan)) <= MaxInstances
         /\ plan.rules # <<>> => HostsOf(plan) # {}

\* link_counts: a link of a host to itself counts twice.
Mentions(plan, h) ==
    Cardinality({m \in (DOMAIN plan.networks) \X {1, 2} : plan.networks[m[1]][m[2]] = h})

\* Mutant: only a third link is worth a warning.
WarnedOf3(plan) == {h \in HostsOf(plan) : Mentions(plan, h) > 2}

\* multi_homed_warnings
Warned(plan) == {h \in HostsOf(plan) : Mentions(plan, h) > 1}

\* The rows of a deploy: on AWS one VPC with one gateway, and a table for each subnet.
Each(plan, kinds) == {<<k, i>> : k \in kinds, i \in DOMAIN plan.networks}
DeployRows(provider, plan) ==
    {<<"instance", h>> : h \in HostsOf(plan)} \cup
    IF provider = "aws"
    THEN {<<"VPC", 1>>, <<"internet_gateway", 1>>}
         \cup Each(plan, {"subnet", "route_table", "route_table_association"})
         \cup {<<"security_group", 0>> : h \in HostsOf(plan)}
    ELSE Each(plan, {"network", "subnet"})

\* Mutant: the plan of the other providers is used for all.
PlainRows(provider, plan) ==
    Each(plan, {"network", "subnet"}) \cup {<<"instance", h>> : h \in HostsOf(plan)}

\* _expected_idempotency_plan_rows
ExpectedRows(provider, plan) ==
    {<<"instance", h>> : h \in HostsOf(plan)} \cup
    IF provider = "aws"
    THEN {<<"VPC", 1>> : i \in DOMAIN plan.networks} \cup {<<"security_group", 0>>}
         \cup Each(plan, {"subnet", "internet_gateway", "route_table", "route_table_association"})
    ELSE Each(plan, {"network", "subnet"})

\* assert_topology_quotas
Admitted(plan) ==
    /\ Cardinality(HostsOf(plan)) <= MaxHosts
    /\ Len(plan.networks) <= MaxNetworks
    /\ Cardinality(HostsOf(plan)) + Len(plan.networks) <= MaxCost

=============================================================================
