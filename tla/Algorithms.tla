----------------------------- MODULE Algorithms -----------------------------
(***************************************************************************)
(* The pure parts of CloudNet, run on every input of a bounded set and     *)
(* compared with definitions that say what they are for: a topology is     *)
(* compiled and deployed, latencies are summarised, requirements are       *)
(* judged.                                                                 *)
(***************************************************************************)
EXTENDS CycleSearch, Metrics

CONSTANTS
    Topologies,   \* topologies to compile
    Providers,    \* the providers to deploy them with
    Latencies,    \* lists of latencies to summarise
    Thresholds,   \* requirements to judge
    Measurements, \* what they are judged by
    Width         \* bits of an address

\* The links of a topology are a list (yaml), a scenario's requirements a record of four.
ASSUME TopologiesAssumption ==
    \A t \in Topologies : Len(t.links) \in Nat /\ DOMAIN t.links = 1..Len(t.links)
ASSUME SubnetsAssumption ==
    /\ Width \in Nat
    /\ \A t \in Topologies : \A i \in DOMAIN t.links :
         t.links[i].net.bits \in Seq({0, 1}) /\ Len(t.links[i].net.bits) <= Width
ASSUME LatenciesAssumption == Latencies \subseteq Seq(Nat)
ASSUME ThresholdsAssumption ==
    \A s \in Thresholds : DOMAIN s = {"rate", "avg", "p95", "recovery"}

VARIABLES
    task,    \* the kind of the input and the input
    result   \* what has been computed of it

vars == <<task, result, visited, stack>>

Done(kind) == result # <<>> /\ result[1] = kind

Init ==
    /\ \/ \E t \in Topologies, p \in Providers : task = <<"compile", t, p>>
       \/ \E l \in Latencies : task = <<"summarise", l>>
       \/ \E s \in Thresholds, m \in Measurements : task = <<"judge", s, m>>
    /\ result = <<>>
    /\ Idle

\* compile_topology: what is checked first, the search, and the rest.
Parse ==
    /\ task[1] = "compile" /\ result = <<>>
    /\ result' = IF Parses(task[2]) THEN <<"search">> ELSE <<"error">>
    /\ UNCHANGED <<task, search>>

Search ==
    /\ result = <<"search">> /\ Step(task[2].links)
    /\ UNCHANGED <<task, result>>

Reject ==
    /\ result = <<"search">> /\ Closing(task[2].links)
    /\ result' = <<"error">> /\ Stop
    /\ UNCHANGED task

Compile ==
    /\ result = <<"search">> /\ Searched(task[2].links)
    /\ result' = IF GoodRules(task[2]) THEN <<"plan", Plan(task[2])>> ELSE <<"error">>
    /\ Stop
    /\ UNCHANGED task

\* A scenario, and the validation of a topology, hold the plan against their quotas; the
\* routes that compile and deploy a topology do not.
Refuse ==
    /\ Done("plan") /\ ~Admitted(result[2])
    /\ result' = <<"refused", result[2]>>
    /\ UNCHANGED <<task, search>>

\* The deploy of the plan: its rows, and where each host is.
Deploy ==
    /\ Done("plan")
    /\ LET plan == result[2]
       IN  result' = IF Deployable(task[3], plan)
                     THEN <<"deployed", plan, DeployRows(task[3], plan),
                            [h \in HostsOf(plan) |-> HomeOf(plan, h)]>>
                     ELSE <<"failed", plan>>
    /\ UNCHANGED <<task, search>>

Summarise ==
    /\ task[1] = "summarise" /\ result = <<>>
    /\ result' = <<"p95", P95(task[2])>>
    /\ UNCHANGED <<task, search>>

Judge ==
    /\ task[1] = "judge" /\ result = <<>>
    /\ result' = <<"verdict", Met(task[2], task[3])>>
    /\ UNCHANGED <<task, search>>

Next == Parse \/ Search \/ Reject \/ Compile \/ Refuse \/ Deploy \/ Summarise \/ Judge

Spec == Init /\ [][Next]_vars

\* A request is handled by one thread, which is not stopped.
FairSpec == Spec /\ WF_vars(Next)

-----------------------------------------------------------------------------
(* Properties *)

Addresses == [1..Width -> {0, 1}]

\* Two subnets have an address in common.
Shares(m, n) ==
    m.version = n.version /\ \E a \in Addresses : IsPrefix(m.bits, a) /\ IsPrefix(n.bits, a)

\* The compiler accepts well-formed nodes, links and rules exactly when no two subnets share an
\* address and the links that join two nodes are paths: no node is on three of them and they
\* form no ring, two links between the same nodes included (compile_topology,
\* _reject_cycles, whose search tells links apart by their nodes alone).  A link of a node to
\* itself is left out of the search, and so passes as part of a path, although
\* docs/topology-support.md:26 has cycles rejected.
CompilesPaths ==
    task[1] = "compile" /\ result \notin {<<>>, <<"search">>} =>
        LET t == task[2]
            links == t.links
            paths == /\ \A i, j \in DOMAIN links : i # j => ~Shares(links[i].net, links[j].net)
                     /\ \A n \in Names(t.nodes) : Cardinality(Meets(links, n)) <= 2
                     /\ \A S \in SUBSET Joining(links) : ~Ring(links, S)
        IN  (result # <<"error">>) <=>
                /\ GoodNodes(t.nodes) /\ GoodLinks(t) /\ GoodRules(t)
                /\ paths

\* Every topology is accepted or rejected: the search ends, also where links form rings and
\* where they are doubled (_reject_cycles).
EveryTopologyIsAnswered ==
    task[1] = "compile" ~> result \notin {<<>>, <<"search">>}

\* A host of a deployed topology is warned about exactly when one of its links is not the one
\* its server is on (docs/topology-support.md, multi_homed_warnings).  A link of a host to
\* itself makes a warning of its own and is left out.
WarnedAreSplit ==
    Done("deployed") =>
        \A h \in DOMAIN result[4] :
            (\A i \in AttachedTo(result[2], h) : i \in Joining(task[2].links)) =>
                (h \in Warned(result[2]) <=> AttachedTo(result[2], h) # {result[4][h]})

\* `cloudnet plan` expects every row that a deploy records, so that it never offers to delete
\* what is in use (_idempotency_plan_lines: recorded - desired).  What it expects in vain are
\* the gateways of the later subnets on AWS, where they share one, and a group nobody uses.
PlanCoversDeploy ==
    Done("deployed") =>
        LET expected == ExpectedRows(task[3], result[2])
        IN  /\ result[3] \subseteq expected
            /\ \A r \in expected \ result[3] :
                 task[3] = "aws" /\ r[1] \in {"internet_gateway", "security_group"}

\* The 95th percentile is the smallest of the latencies that at least 95% of them do not
\* exceed, for lists of every length, one and two included (p95_latency_ms).
P95IsNearestRank ==
    Done("p95") =>
        LET s == task[2]
            UpTo(x) == Cardinality({i \in DOMAIN s : s[i] <= x})
            Below(x) == Cardinality({i \in DOMAIN s : s[i] < x})
        IN  IF s = <<>> THEN result[2] = {}
            ELSE \E x \in Range(s) :
                     /\ result[2] = {x}
                     /\ 100 * UpTo(x) >= 95 * Len(s) /\ 100 * Below(x) < 95 * Len(s)

\* No threshold hides another: the requirements are met exactly when each would be met alone
\* (evaluate_requirements).
ThresholdsAreIndependent ==
    Done("verdict") =>
        LET spec == task[2]
            Only(k) == [j \in DOMAIN spec |-> IF j = k THEN spec[j] ELSE {}]
        IN  result[2] <=> \A k \in DOMAIN spec : Met(Only(k), task[3])

=============================================================================
