---------------------------- MODULE AwsProvider ----------------------------
(***************************************************************************)
(* Deployment on AWS: the branch of deploy_topology that calls             *)
(* _deploy_aws_resources (backend/app/services/deployment_service.py), the *)
(* operations of backend/app/providers/aws_provider.py under it, and the   *)
(* teardown through delete_network.                                        *)
(*                                                                         *)
(* A create looks for what it should make by tags (Project, Name) and      *)
(* makes it in several calls: create, tag, attach.  Any call may fail,     *)
(* with or without its effect, and call_with_retry then starts the whole   *)
(* create again.  The teardown deletes what is in the VPC and refuses to   *)
(* go on where it meets something without CloudNet's tags.  The account    *)
(* is shared with other topologies and with strangers.                     *)
(*                                                                         *)
(* Each topology has one handler at a time; Deployment.tla has several     *)
(* handlers of one topology, crashes and state.json.                       *)
(***************************************************************************)
EXTENDS Naturals, Sequences, FiniteSets

CONSTANTS
    Topologies,
    Label,       \* the name of each topology
    Segments,    \* links of each topology, a subnet each
    Home,        \* Home[t][n]: the segment of the n-th host of t
    Retries,     \* CLOUDNET_PROVIDER_MAX_RETRIES
    MaxForeign,      \* bound: things that strangers make
    MaxDisturbances, \* bound: these and calls that fail
    MaxRequests,     \* bound: deploys and cleanups
    MaxActive        \* bound: of these at a time

ASSUME AwsPlanAssumption ==
    \A t \in Topologies :
        Segments[t] \in Nat \ {0} /\ Home[t] \in Seq(1..Segments[t]) /\ Home[t] # <<>>
ASSUME AwsBoundAssumption == {Retries, MaxForeign, MaxDisturbances, MaxRequests, MaxActive} \subseteq Nat

VARIABLES
    account,  \* what is alive at AWS
    nextId,   \* ids are never used again
    worker,   \* the handler of each topology
    rows,     \* its deploymentresource rows
    active,   \* its status is ACTIVE
    cut,      \* ids of things whose creation or teardown an error has cut off (observer)
    faults,
    foreign,
    requests

vars == <<account, nextId, worker, rows, active, cut, faults, foreign, requests>>

Kinds == {"vpc", "subnet", "igw", "rt", "sg", "instance"}

\* vpc: the VPC it is in or attached to; of: an instance's subnet, the subnet a route table is
\* associated with; up: an instance that is not shutting down, a group with the plan's rules.
\* tagged: Project and Name are set; name is what they say or would say, and for a subnet
\* stands for its CIDR too.  An instance that is up may be pending or stopped: create_server
\* waits for the ones it makes, not for those it finds.
Thing(id, kind, name, vpc, of) ==
    [id |-> id, kind |-> kind, name |-> name, vpc |-> vpc, of |-> of,
     tagged |-> FALSE, ours |-> TRUE, up |-> kind = "instance"]
Tag(x) == [x EXCEPT !.tagged = TRUE]

NetworkName(t) == <<Label[t], 0>>
SubnetName(t, n) == <<Label[t], n>>
HostName(n) == <<"host", n>>
GroupName == <<"cloudnet-sg", 0>>
NoName == <<"", 0>>

Ids == {x.id : x \in account}
In(v) == {x \in account : x.vpc = v}
Ofkind(v, k) == {x \in In(v) : x.kind = k}
With(id) == {x \in account : x.id = id}

\* got: the id last found or made, per kind; made: what this attempt of a create has made;
\* left: what a loop of the teardown has still to delete.
Resting == [pc |-> "idle", at |-> 1, tries |-> 0, got |-> [k \in Kinds |-> 0],
            made |-> {}, left |-> {}]

Init ==
    /\ account = {}
    /\ nextId = 1
    /\ worker = [t \in Topologies |-> Resting]
    /\ rows = [t \in Topologies |-> {}]
    /\ active = [t \in Topologies |-> FALSE]
    /\ cut = {}
    /\ faults = 0
    /\ foreign = 0
    /\ requests = 0

-----------------------------------------------------------------------------
(* Calls and their failure *)

At(t, pc) == worker[t].pc = pc
Goes(t, w) == worker' = [worker EXCEPT ![t] = w]
To(t, pc) == [worker[t] EXCEPT !.pc = pc]
Found(t, pc, k, id) == [worker[t] EXCEPT !.pc = pc, !.got[k] = id]
Made(t, pc, k) == [worker[t] EXCEPT !.pc = pc, !.got[k] = nextId, !.made = @ \cup {nextId}]
Vpc(t) == worker[t].got["vpc"]

\* Where call_with_retry starts again.
Create(pc) == CASE pc \in {"vpc", "makeVpc"} -> "vpc"
                [] pc \in {"subnet", "makeSubnet", "gateway", "table"} -> "subnet"
                [] pc \in {"instance", "group", "run"} -> "instance"
                [] OTHER -> "none"

Retried(t) == [worker[t] EXCEPT !.pc = Create(worker[t].pc), !.tries = @ + 1, !.made = {}]
Undone(t) == [Resting EXCEPT !.pc = "rows"]
Stopped(t) == [Resting EXCEPT !.pc = "drop"]

\* Mutant: one attempt too many.
OnceMore(t) == worker[t].tries <= Retries

MayRetry(t) == worker[t].tries < Retries

\* An exception: a create is retried if is_retryable says so, a deploy ends in its cleanup,
\* and a teardown stops, which cleanup_topology_deployment logs.
Raises(t, retryable) ==
    /\ Goes(t, IF Create(worker[t].pc) # "none" /\ retryable /\ MayRetry(t)
               THEN Retried(t)
               ELSE IF Create(worker[t].pc) # "none" \/ At(t, "firewall") THEN Undone(t)
               ELSE Stopped(t))
    /\ cut' = cut \cup worker[t].made \cup worker[t].left
                  \cup (IF Create(worker[t].pc) = "none" THEN {Vpc(t)} ELSE {})
                  \cup ({x.id : x \in account'} \ Ids)

Numbered == nextId' = IF \E x \in account' : x.id = nextId THEN nextId + 1 ELSE nextId

\* Calls that lead from account to whole through the accounts of partial.  One may fail,
\* before its effect or after it.
Calls(t, partial, whole, w) ==
    /\ \/ account' = whole /\ Goes(t, w) /\ UNCHANGED <<cut, faults>>
       \/ /\ faults + foreign < MaxDisturbances /\ faults' = faults + 1
          /\ account' \in partial \cup {account, whole}
          /\ \E retryable \in BOOLEAN : Raises(t, retryable)
    /\ Numbered
    /\ UNCHANGED <<rows, active, foreign, requests>>

Reads(t, w) == Calls(t, {}, account, w)

\* AWS or the code itself refuses, with an error that is not retryable.
Refuses(t) ==
    /\ UNCHANGED <<account, nextId, rows, active, faults, foreign, requests>>
    /\ Raises(t, FALSE)

Local(t, w) == Goes(t, w) /\ UNCHANGED <<account, nextId, cut, faults, foreign, requests>>

-----------------------------------------------------------------------------
(* _deploy_aws_resources *)

Requested ==
    /\ requests < MaxRequests /\ requests' = requests + 1
    /\ Cardinality({t \in Topologies : ~At(t, "idle")}) < MaxActive

\* With rows, the deploy would be idempotent.
BeginDeploy(t) ==
    /\ At(t, "idle") /\ rows[t] = {}
    /\ Requested
    /\ Goes(t, To(t, "vpc"))
    /\ UNCHANGED <<account, nextId, rows, active, cut, faults, foreign>>

\* Mutant: nothing is looked for.
FindsNoVpc(t) == {}

CloudnetVpcs(t) == {x \in account : x.kind = "vpc" /\ x.tagged /\ x.name = NetworkName(t)}

\* create_network
FindVpc(t) ==
    /\ At(t, "vpc")
    /\ \/ \E x \in CloudnetVpcs(t) : Reads(t, Found(t, "rowVpc", "vpc", x.id))
       \/ CloudnetVpcs(t) = {} /\ Reads(t, To(t, "makeVpc"))

\* Mutant: the tags are forgotten.
NoTag(t, x) == x

Tagged(t, x) == Tag(x)

MakeVpc(t) ==
    /\ At(t, "makeVpc")
    /\ LET new == Thing(nextId, "vpc", NetworkName(t), nextId, 0)
       IN  Calls(t, {account \cup {new}}, account \cup {Tagged(t, new)}, Made(t, "rowVpc", "vpc"))

Row(k, n, id) == [kind |-> k, at |-> n, id |-> id]
NextCreate(t, pc, n) == [worker[t] EXCEPT !.pc = pc, !.at = n, !.tries = 0, !.made = {}]

RowVpc(t) ==
    /\ At(t, "rowVpc")
    /\ rows' = [rows EXCEPT ![t] = @ \cup {Row("vpc", 0, Vpc(t))}]
    /\ Local(t, NextCreate(t, "subnet", 1))
    /\ UNCHANGED active

CloudnetSubnets(t) ==
    {x \in Ofkind(Vpc(t), "subnet") : x.tagged /\ x.name = SubnetName(t, worker[t].at)}

\* An id of this set, or none.
OneOf(S) == IF S = {} THEN {0} ELSE {x.id : x \in S}

\* create_subnet: what is found is described and taken as it is.
FindSubnet(t) ==
    /\ At(t, "subnet")
    /\ \/ \E x \in CloudnetSubnets(t) :
            \E g \in OneOf(Ofkind(Vpc(t), "igw")) :
              \E r \in OneOf({y \in Ofkind(Vpc(t), "rt") : y.of = x.id}) :
                Reads(t, [worker[t] EXCEPT !.pc = "rowSubnet", !.got["subnet"] = x.id,
                                           !.got["igw"] = g, !.got["rt"] = r])
       \/ CloudnetSubnets(t) = {} /\ Reads(t, To(t, "makeSubnet"))

\* AWS refuses overlapping subnets, tagged or not, of this VPC.
MakeSubnet(t) ==
    /\ At(t, "makeSubnet")
    /\ LET name == SubnetName(t, worker[t].at)
           new == Thing(nextId, "subnet", name, Vpc(t), 0)
       IN  \/ /\ \E x \in Ofkind(Vpc(t), "subnet") : x.name = name
              /\ Refuses(t)
           \/ /\ \A x \in Ofkind(Vpc(t), "subnet") : x.name # name
              /\ Calls(t, {account \cup {new}}, account \cup {Tag(new)}, Made(t, "gateway", "subnet"))

\* The internet gateway of the VPC, or a new one: created, tagged, attached.
Gateway(t) ==
    /\ At(t, "gateway")
    /\ LET new == Thing(nextId, "igw", NoName, 0, 0)
       IN  \/ \E x \in Ofkind(Vpc(t), "igw") : Reads(t, Found(t, "table", "igw", x.id))
           \/ /\ Ofkind(Vpc(t), "igw") = {}
              /\ Calls(t, {account \cup {new}, account \cup {Tag(new)}},
                       account \cup {[Tag(new) EXCEPT !.vpc = Vpc(t)]}, Made(t, "table", "igw"))

\* Mutant: the table is not associated.
Unassociated(t) == 0

Associated(t) == worker[t].got["subnet"]

\* A route table: created, tagged, given its route, associated with the subnet.
Table(t) ==
    /\ At(t, "table")
    /\ LET new == Thing(nextId, "rt", NoName, Vpc(t), 0)
       IN  Calls(t, {account \cup {new}, account \cup {Tag(new)}},
                 account \cup {[Tag(new) EXCEPT !.of = Associated(t)]}, Made(t, "rowSubnet", "rt"))

\* Rows of the subnet, its gateway and its table; an id that has a row gets no second.
RowSubnet(t) ==
    /\ At(t, "rowSubnet")
    /\ LET n == worker[t].at
           known == {r.id : r \in rows[t]} \cup {0}
       IN  /\ rows' = [rows EXCEPT ![t] = @
                 \cup {Row("subnet", n, worker[t].got["subnet"])}
                 \cup {r \in {Row(k, n, worker[t].got[k]) : k \in {"igw", "rt"}} : r.id \notin known}]
           /\ Local(t, IF n < Segments[t] THEN NextCreate(t, "subnet", n + 1)
                       ELSE NextCreate(t, "instance", 1))
    /\ UNCHANGED active

HomeSubnet(t) ==
    (CHOOSE r \in rows[t] : r.kind = "subnet" /\ r.at = Home[t][worker[t].at]).id

\* Every state but terminated is asked for, shutting-down as well.
CloudnetInstances(t) ==
    {x \in Ofkind(Vpc(t), "instance") :
        x.of = HomeSubnet(t) /\ x.tagged /\ x.name = HostName(worker[t].at)}

Groups(t) == {x \in Ofkind(Vpc(t), "sg") : x.name = GroupName}

\* create_server: an instance that shuts down may have lost its interface and its group.
FindInstance(t) ==
    /\ At(t, "instance")
    /\ \/ \E x \in CloudnetInstances(t) :
            \E g \in OneOf(Groups(t)) \cup (IF x.up THEN {} ELSE {0}) :
              Reads(t, [worker[t] EXCEPT !.pc = "rowInstance", !.got["instance"] = x.id,
                                         !.got["sg"] = g])
       \/ CloudnetInstances(t) = {} /\ Reads(t, To(t, "group"))

\* _get_or_create_security_group: found by its group name, whatever its tags.
Group(t) ==
    /\ At(t, "group")
    /\ LET new == Thing(nextId, "sg", GroupName, Vpc(t), 0)
       IN  \/ \E x \in Groups(t) : Reads(t, Found(t, "run", "sg", x.id))
           \/ /\ Groups(t) = {}
              /\ Calls(t, {account \cup {new}}, account \cup {Tag(new)}, Made(t, "run", "sg"))

\* run_instances tags the instance in the call that makes it; then come the waiters.
Run(t) ==
    /\ At(t, "run")
    /\ LET new == Thing(nextId, "instance", HostName(worker[t].at), Vpc(t), HomeSubnet(t))
       IN  Calls(t, {}, account \cup {Tag(new)}, Made(t, "rowInstance", "instance"))

\* _record_aws_server_resource
RowInstance(t) ==
    /\ At(t, "rowInstance")
    /\ LET n == worker[t].at
           known == {r.id : r \in rows[t]} \cup {0}
       IN  /\ rows' = [rows EXCEPT ![t] = @
                 \cup {r \in {Row("sg", 0, worker[t].got["sg"])} : r.id \notin known}
                 \cup {Row("instance", n, worker[t].got["instance"])}]
           /\ Local(t, IF n + 1 \in DOMAIN Home[t] THEN NextCreate(t, "instance", n + 1)
                       ELSE NextCreate(t, "firewall", 1))
    /\ UNCHANGED active

\* ensure_firewall_rules, which is not retried; a rule that is there is skipped.
Firewall(t) ==
    /\ At(t, "firewall")
    /\ LET group == {x \in account : Row("sg", 0, x.id) \in rows[t]}
       IN  \/ group = {} /\ Refuses(t)
           \/ /\ group # {}
              /\ Calls(t, {}, (account \ group) \cup {[x EXCEPT !.up = TRUE] : x \in group},
                       To(t, "active"))

Activate(t) ==
    /\ At(t, "active")
    /\ active' = [active EXCEPT ![t] = TRUE]
    /\ Local(t, Resting)
    /\ UNCHANGED rows

-----------------------------------------------------------------------------
(* cleanup_topology_deployment and delete_network *)

BeginCleanup(t) ==
    /\ At(t, "idle")
    /\ Requested
    /\ Goes(t, To(t, "rows"))
    /\ UNCHANGED <<account, nextId, rows, active, cut, faults, foreign>>

\* Without rows there is nothing to do, for a failed deploy as well as for a request.
ListRows(t) ==
    /\ At(t, "rows")
    /\ \/ rows[t] = {} /\ Local(t, Resting) /\ active' = [active EXCEPT ![t] = FALSE]
       \/ /\ \E r \in rows[t] : r.kind = "vpc" /\ Local(t, Found(t, "checkVpc", "vpc", r.id))
          /\ UNCHANGED active
    /\ UNCHANGED rows

\* _get_vpc and _validate_vpc_cleanup_allowed
CheckVpc(t) ==
    /\ At(t, "checkVpc")
    /\ \/ With(Vpc(t)) \cap {x \in account : x.tagged} # {} /\ Reads(t, To(t, "instances"))
       \/ With(Vpc(t)) \cap {x \in account : x.tagged} = {} /\ Refuses(t)

\* Mutant: terminated instances are not awaited.
NotAwaited(t, S) == {}

Awaited(t, S) == S

\* _cloudnet_instance_ids_for_vpc does not see an instance that is shutting down.
Terminate(t) ==
    /\ At(t, "instances")
    /\ LET listed == {x \in Ofkind(Vpc(t), "instance") : x.up}
       IN  \/ (\E x \in listed : ~x.tagged) /\ Refuses(t)
           \/ /\ \A x \in listed : x.tagged
              /\ Calls(t, {}, (account \ listed) \cup {[x EXCEPT !.up = FALSE] : x \in listed},
                       [To(t, "await") EXCEPT !.left = Awaited(t, {x.id : x \in listed})])

Await(t) ==
    /\ At(t, "await")
    /\ \/ worker[t].left \cap Ids = {} /\ Reads(t, [To(t, "groups") EXCEPT !.left = {}])
       \/ /\ worker[t].left \cap Ids # {} /\ faults + foreign < MaxDisturbances /\ faults' = faults + 1
          /\ UNCHANGED <<account, nextId, rows, active, foreign, requests>>
          /\ Raises(t, FALSE)

\* _delete_cloudnet_security_groups: a group is not deleted while an instance uses it.
DeleteGroup(t) ==
    /\ At(t, "groups")
    /\ \/ Groups(t) = {} /\ Reads(t, To(t, "listTables"))
       \/ \E x \in Groups(t) :
            IF x.tagged /\ \A y \in Ofkind(Vpc(t), "instance") : ~y.ours
            THEN Calls(t, {}, account \ {x}, To(t, "listTables"))
            ELSE Refuses(t)

\* Mutant: tables are deleted whatever their tags.
Everything(S) == S

\* _is_cloudnet_resource.  It also takes a name that begins with cloudnet-, which no stranger's
\* thing has here and CloudNet's have with their tags.
Cloudnets(S) == {x \in S : x.tagged}

ListTables(t) ==
    /\ At(t, "listTables")
    /\ Reads(t, [To(t, "tables") EXCEPT !.left = {x.id : x \in Cloudnets(Ofkind(Vpc(t), "rt"))}])

\* _delete_cloudnet_route_tables: disassociated, then deleted.
DeleteTable(t) ==
    /\ At(t, "tables")
    /\ \/ worker[t].left = {} /\ Local(t, To(t, "listGateways")) /\ UNCHANGED <<rows, active>>
       \/ \E x \in account :
            /\ x.id \in worker[t].left
            /\ Calls(t, {(account \ {x}) \cup {[x EXCEPT !.of = 0]}}, account \ {x},
                     [worker[t] EXCEPT !.left = @ \ {x.id}])

ListGateways(t) ==
    /\ At(t, "listGateways")
    /\ Reads(t, [To(t, "gateways") EXCEPT !.left = {x.id : x \in Cloudnets(Ofkind(Vpc(t), "igw"))}])

\* _delete_cloudnet_internet_gateways: detached, which AWS refuses while an instance has a
\* public address, then deleted.
DeleteGateway(t) ==
    /\ At(t, "gateways")
    /\ \/ worker[t].left = {} /\ Local(t, To(t, "listSubnets")) /\ UNCHANGED <<rows, active>>
       \/ worker[t].left # {} /\ Ofkind(Vpc(t), "instance") # {} /\ Refuses(t)
       \/ \E x \in account :
            /\ x.id \in worker[t].left /\ Ofkind(Vpc(t), "instance") = {}
            /\ Calls(t, {(account \ {x}) \cup {[x EXCEPT !.vpc = 0]}}, account \ {x},
                     [worker[t] EXCEPT !.left = @ \ {x.id}])

ListSubnets(t) ==
    /\ At(t, "listSubnets")
    /\ LET listed == Ofkind(Vpc(t), "subnet")
       IN  \/ (\E x \in listed : ~x.tagged) /\ Refuses(t)
           \/ /\ \A x \in listed : x.tagged
              /\ Reads(t, [To(t, "subnets") EXCEPT !.left = {x.id : x \in listed}])

DeleteSubnet(t) ==
    /\ At(t, "subnets")
    /\ \/ worker[t].left = {} /\ Local(t, To(t, "deleteVpc")) /\ UNCHANGED <<rows, active>>
       \/ \E x \in account :
            /\ x.id \in worker[t].left
            /\ IF \E y \in account : y.kind = "instance" /\ y.of = x.id
               THEN Refuses(t)
               ELSE Calls(t, {}, account \ {x}, [worker[t] EXCEPT !.left = @ \ {x.id}])

\* Mutant: the VPC is left.
LeaveVpc(t) == At(t, "deleteVpc") /\ Reads(t, [Resting EXCEPT !.pc = "drop"])

\* AWS refuses while anything is in the VPC.
DeleteVpc(t) ==
    /\ At(t, "deleteVpc")
    /\ IF In(Vpc(t)) = With(Vpc(t))
       THEN Calls(t, {}, account \ With(Vpc(t)), [Resting EXCEPT !.pc = "drop"])
       ELSE Refuses(t)

\* The rows go, whatever the teardown has left.
DropRows(t) ==
    /\ At(t, "drop")
    /\ rows' = [rows EXCEPT ![t] = {}]
    /\ active' = [active EXCEPT ![t] = FALSE]
    /\ Local(t, Resting)

-----------------------------------------------------------------------------
(* AWS and strangers *)

\* An instance that shuts down is terminated at last.
Terminated ==
    /\ \E x \in account : x.kind = "instance" /\ ~x.up /\ account' = account \ {x}
    /\ UNCHANGED <<nextId, worker, rows, active, cut, faults, foreign, requests>>

\* Somebody uses a VPC of CloudNet's for something of his own.
Stranger ==
    /\ foreign < MaxForeign /\ faults + foreign < MaxDisturbances
    /\ foreign' = foreign + 1
    /\ \E v \in {x.id : x \in {y \in account : y.kind = "vpc"}} :
         \/ \E k \in {"subnet", "rt"} :
              account' = account \cup {[Thing(nextId, k, NoName, v, 0) EXCEPT !.ours = FALSE]}
         \/ \E s \in Ofkind(v, "subnet") :
              account' = account \cup {[Thing(nextId, "instance", NoName, v, s.id) EXCEPT !.ours = FALSE]}
    /\ nextId' = nextId + 1
    /\ UNCHANGED <<worker, rows, active, cut, faults, requests>>

Step(t) ==
    \/ FindVpc(t) \/ MakeVpc(t) \/ RowVpc(t)
    \/ FindSubnet(t) \/ MakeSubnet(t) \/ Gateway(t) \/ Table(t) \/ RowSubnet(t)
    \/ FindInstance(t) \/ Group(t) \/ Run(t) \/ RowInstance(t)
    \/ Firewall(t) \/ Activate(t)
    \/ ListRows(t) \/ CheckVpc(t) \/ Terminate(t) \/ Await(t) \/ DeleteGroup(t)
    \/ ListTables(t) \/ DeleteTable(t) \/ ListGateways(t) \/ DeleteGateway(t)
    \/ ListSubnets(t) \/ DeleteSubnet(t) \/ DeleteVpc(t) \/ DropRows(t)

Next ==
    \/ \E t \in Topologies : BeginDeploy(t) \/ BeginCleanup(t) \/ Step(t)
    \/ Terminated
    \/ Stranger

Spec == Init /\ [][Next]_vars

-----------------------------------------------------------------------------
(* Properties *)

\* Type correctness; ids name one thing, and no create is tried more than Retries + 1 times.
AwsTypeOK ==
    /\ \A x \in account :
         /\ x.id \in 1..(nextId - 1) /\ x.kind \in Kinds /\ {x.vpc, x.of} \subseteq 0..(nextId - 1)
         /\ {x.tagged, x.ours, x.up} \subseteq BOOLEAN
         /\ \A y \in account : x.id = y.id => x = y
    /\ \A t \in Topologies :
         /\ worker[t].tries \in 0..Retries
         /\ worker[t].at \in 1..(Segments[t] + Len(Home[t]))
         /\ worker[t].got \in [Kinds -> 0..(nextId - 1)]
         /\ worker[t].made \cup worker[t].left \subseteq 1..(nextId - 1)
         /\ \A r \in rows[t] : r.kind \in Kinds /\ r.id \in 1..(nextId - 1)
    /\ active \in [Topologies -> BOOLEAN]
    /\ cut \subseteq 1..(nextId - 1)

\* A create that is retried, or a deploy that is repeated, makes nothing twice: no two VPCs, two
\* subnets of a VPC or two instances of a subnet have CloudNet's tags and the same name.
UniqueNames ==
    \A x, y \in account :
        /\ x.kind = y.kind /\ x.kind \in {"vpc", "subnet", "instance"}
        /\ x.tagged /\ y.tagged /\ x.name = y.name /\ x.of = y.of
        /\ x.kind # "vpc" => x.vpc = y.vpc
        => x = y

\* A topology that is ACTIVE has what its rows say: each subnet with a route to a gateway, each
\* host on its subnet with an instance that is not shutting down, and a group with the rules;
\* unless an error had cut off the creation of the subnet or a teardown of the VPC, for what is
\* found by tag is not repaired.
DeployedIsWhole ==
    \A t \in Topologies :
        active[t] /\ At(t, "idle") =>
            /\ \A n \in 1..Segments[t] : \E r \in rows[t], x \in account :
                 /\ r = Row("subnet", n, x.id) /\ x.name = SubnetName(t, n)
                 /\ \/ {x.id, x.vpc} \cap cut # {}
                    \/ /\ \E y \in Ofkind(x.vpc, "rt") : y.tagged /\ y.of = x.id
                       /\ Ofkind(x.vpc, "igw") # {}
            /\ \A n \in DOMAIN Home[t] : \E r, s \in rows[t] :
                 /\ r.kind = "instance" /\ r.at = n /\ s.kind = "subnet" /\ s.at = Home[t][n]
                 /\ \/ \E x \in With(r.id) : x.up /\ x.of = s.id /\ x.name = HostName(n)
                    \/ \E v \in rows[t] : v.kind = "vpc" /\ v.id \in cut
            /\ \E r \in rows[t], x \in account : r = Row("sg", 0, x.id) /\ x.up

\* When no request is under way, what CloudNet has made is where a cleanup or the next deploy
\* finds it, in a VPC that a row names or that has a topology's name and tags, unless an error
\* has cut it off itself.
NothingMislaid ==
    (\A t \in Topologies : At(t, "idle")) =>
        \A x \in account : x.ours /\ x.id \notin cut =>
            \/ \E t \in Topologies : Row("vpc", 0, x.vpc) \in rows[t]
            \/ \E v \in With(x.vpc) : v.tagged /\ \E t \in Topologies : v.name = NetworkName(t)

\* A teardown leaves nothing: when no request is under way and there are no rows, nothing of
\* CloudNet's is alive, whatever strangers do, unless an error has cut something off.
TornDown ==
    (cut = {} /\ \A t \in Topologies : At(t, "idle") /\ rows[t] = {}) =>
        \A x \in account : ~x.ours

\* What strangers have made is neither deleted nor changed, and what is in a VPC that a topology
\* has recorded changes only with that topology's handler, or when an instance goes down.
SparesOthers ==
    [][ /\ \A x \in account : ~x.ours => x \in account'
        /\ \A t \in Topologies : \A r \in rows[t] :
             r.kind = "vpc" /\ worker'[t] = worker[t] =>
                 \A x \in In(r.id) : x \in account' \/ (x.kind = "instance" /\ ~x.up) ]_vars

\* A teardown is refused only for something that has no tags, or for an instance that an earlier
\* teardown was cut off from waiting for; the order of its deletions never stands in its way.
RefusedForOthers ==
    [][ \A t \in Topologies :
          worker[t] # worker'[t] /\ worker'[t] = Stopped(t) /\ Vpc(t) \in cut' /\ faults' = faults =>
              \E x \in With(Vpc(t)) \cup In(Vpc(t)) : ~x.tagged \/ x.id \in cut ]_vars

\* README.md:62: the cleanup of a failed deploy removes provider objects "to avoid orphans".
FailedDeployLeavesNothing ==
    (\A t \in Topologies : At(t, "idle") /\ rows[t] = {}) => \A x \in account : ~x.ours
=============================================================================
