-------------------------- MODULE AwsProviderProofs --------------------------
(***************************************************************************)
(* Proofs about AwsProvider, for any topologies, any number of strangers,  *)
(* failed calls, retries and requests.                                     *)
(*                                                                         *)
(* The actions are met in one place only, where each is shown to keep to   *)
(* two outlines: Frame(t), what a step of t's handler may do to the        *)
(* account, and Turns(t), how the handler itself may go on.  BaseInv, then *)
(* FindInv, and from these HeldInv, SweptInv, StandInv and BuiltInv follow *)
(* from the outlines.                                                      *)
(***************************************************************************)
EXTENDS AwsProvider, FiniteSetTheorems, TLAPS

-----------------------------------------------------------------------------
(* The inductive invariants *)

\* Topologies have names of their own.
NamesDiffer == \A t, u \in Topologies : Label[t] = Label[u] => t = u

\* No two topologies of one name have a handler each at the same time.
Apart == NamesDiffer \/ MaxActive <= 1

Names ==
    {NoName, GroupName} \cup {HostName(n) : n \in Nat}
        \cup {<<Label[t], n>> : t \in Topologies, n \in Nat}

Before(n) == 1..(n - 1)
Things(n) ==
    [id : Before(n), kind : Kinds, name : Names, vpc : 0..(n - 1), of : 0..(n - 1),
     tagged : BOOLEAN, ours : BOOLEAN, up : BOOLEAN]
Rows(n) == [kind : Kinds, at : Nat, id : Before(n)]

VpcPCs == {"vpc", "makeVpc"}
SubnetPCs == {"subnet", "makeSubnet", "gateway", "table"}
HostPCs == {"instance", "group", "run"}
CreatePCs == VpcPCs \cup SubnetPCs \cup HostPCs
DeployPCs == SubnetPCs \cup HostPCs \cup {"rowSubnet", "rowInstance", "firewall", "active"}
LoopPCs == {"await", "tables", "gateways", "subnets"}
TornPCs == {"tables", "listGateways", "gateways", "listSubnets", "subnets", "deleteVpc"}
TeardownPCs == {"instances", "await", "groups", "listTables"} \cup TornPCs
PCs == VpcPCs \cup DeployPCs \cup TeardownPCs \cup {"idle", "rowVpc", "rows", "checkVpc", "drop"}

Workers(n) ==
    [pc : PCs, at : Nat \ {0}, tries : 0..Retries, got : [Kinds -> 0..(n - 1)],
     made : SUBSET Before(n), left : SUBSET Before(n)]

\* What a handler of t at w has recorded in R.
PlacedAt(t, w, R) ==
    /\ w.pc \in SubnetPCs \cup {"rowSubnet"} => w.at <= Segments[t]
    /\ w.pc \in HostPCs \cup {"rowInstance"} => w.at <= Len(Home[t])
    /\ w.pc \notin SubnetPCs \cup HostPCs \cup {"rowSubnet", "rowInstance"} => w.at = 1
    /\ w.pc \in {"idle", "rows", "drop"} => w = [Resting EXCEPT !.pc = w.pc]
    /\ w.pc \in DeployPCs \cup TeardownPCs \cup {"rowVpc", "checkVpc"} => w.got["vpc"] # 0
    /\ w.pc \in {"gateway", "table", "rowSubnet"} => w.got["subnet"] # 0
    /\ w.pc = "rowInstance" => w.got["instance"] # 0
    /\ w.pc \in SubnetPCs \cup {"rowSubnet"} =>
          \A n \in Before(w.at) : \E r \in R : r.kind = "subnet" /\ r.at = n
    /\ w.pc \in HostPCs \cup {"rowInstance", "firewall", "active"} =>
          \A n \in 1..Segments[t] : \E r \in R : r.kind = "subnet" /\ r.at = n
    /\ w.pc \in HostPCs \cup {"rowInstance"} =>
          \A n \in Before(w.at) : \E r \in R : r.kind = "instance" /\ r.at = n
    /\ w.pc \in {"firewall", "active"} =>
          \A n \in DOMAIN Home[t] : \E r \in R : r.kind = "instance" /\ r.at = n
Placed(t) == PlacedAt(t, worker[t], rows[t])

ProviderTypes ==
    /\ nextId \in Nat \ {0}
    /\ account \subseteq Things(nextId)
    /\ \A x, y \in account : x.id = y.id => x = y
    /\ worker \in [Topologies -> Workers(nextId)]
    /\ rows \in [Topologies -> SUBSET Rows(nextId)]
    /\ active \in [Topologies -> BOOLEAN]
    /\ cut \subseteq Before(nextId)
    /\ {faults, foreign, requests} \subseteq Nat
    /\ \A t \in Topologies : Placed(t)

-----------------------------------------------------------------------------
\* What things of each kind are like, whoever made them.
Shaped(x) ==
    /\ x.kind = "vpc" => x.vpc = x.id /\ x.of = 0 /\ \E t \in Topologies : x.name = NetworkName(t)
    /\ x.kind = "subnet" => x.of = 0
    /\ x.kind = "sg" => x.name = GroupName
    /\ ~x.ours =>
          ~x.tagged /\ x.kind \in {"subnet", "rt", "instance"} /\ (x.kind = "instance" => x.up)

\* What a handler has found or made, and what it has still to delete, is of the kind it takes
\* it for and in its VPC.
LoopKind == [await |-> "instance", tables |-> "rt", gateways |-> "igw", subnets |-> "subnet"]
KnownAt(t, w, A) ==
    /\ \A k \in Kinds, x \in A : x.id = w.got[k] =>
          /\ x.kind = k
          /\ k = "vpc" => x.name = NetworkName(t)
          /\ x.vpc = w.got["vpc"] \/ (k = "igw" /\ x.vpc = 0)
    /\ w.pc \in VpcPCs => \A k \in Kinds : w.got[k] = 0
    /\ w.pc \notin LoopPCs => w.left = {}
    /\ w.pc \in LoopPCs => \A x \in A : x.id \in w.left =>
          /\ x.kind = LoopKind[w.pc] /\ x.tagged
          /\ x.vpc = w.got["vpc"] \/ (w.pc = "gateways" /\ x.vpc = 0)
Known(t) == KnownAt(t, worker[t], account)

\* Rows are of one VPC and what is in it.
RecordedAt(t, w, R, A) ==
    /\ w.pc \in VpcPCs \cup {"rowVpc"} => R = {}
    /\ w.pc \in DeployPCs \cup TeardownPCs \cup {"checkVpc"} => Row("vpc", 0, w.got["vpc"]) \in R
    /\ R # {} => \E r \in R : r.kind = "vpc"
    /\ \A r, s \in R : r.kind = "vpc" /\ s.kind = "vpc" => r = s /\ r.at = 0
    /\ \A r \in R, x \in A : x.id = r.id =>
          /\ x.kind = r.kind
          /\ x.kind = "vpc" => x.name = NetworkName(t)
          /\ \A v \in R : v.kind = "vpc" => x.vpc = v.id \/ (x.kind = "igw" /\ x.vpc = 0)
Recorded(t) == RecordedAt(t, worker[t], rows[t], account)

BaseInv ==
    /\ ProviderTypes
    /\ \A x \in account : Shaped(x)
    /\ \A t \in Topologies : Known(t) /\ Recorded(t)

-----------------------------------------------------------------------------
\* A thing is in a VPC that has been tagged, unless an error has cut it off or it is a stranger's.
Housed(x) ==
    \/ x.id \in cut /\ (x.vpc = 0 \/ x.kind = "vpc")
    \/ \E v \in With(x.vpc) : v.kind = "vpc" /\ (x.ours => v.tagged)

Tags(v) == \E x \in With(v) : x.tagged

\* The VPC that a handler works on and the subnet it is making are alive; what it has looked
\* for and not found is still not there.
LivePCs == DeployPCs \cup TeardownPCs \cup {"rowVpc"}
VpcAlive(t) == worker[t].pc \in LivePCs => Tags(Vpc(t))
SubnetAlive(t) ==
    worker[t].pc \in {"gateway", "table", "rowSubnet"} =>
        \E x \in Ofkind(Vpc(t), "subnet") :
            x.id = worker[t].got["subnet"] /\ x.tagged /\ x.name = SubnetName(t, worker[t].at)
VpcMissing(t) == At(t, "makeVpc") => CloudnetVpcs(t) = {}
HostMissing(t) == worker[t].pc \in {"group", "run"} => CloudnetInstances(t) = {}
Current(t) == VpcAlive(t) /\ SubnetAlive(t) /\ VpcMissing(t) /\ HostMissing(t)

Busy == {t \in Topologies : ~At(t, "idle")}
Exclusive == IsFiniteSet(Busy) /\ \A t, u \in Busy : Label[t] = Label[u] => t = u

OneGroup == \A x, y \in account : x.kind = "sg" /\ y.kind = "sg" /\ x.vpc = y.vpc => x = y

FindInv ==
    /\ Exclusive
    /\ \A x \in account : Housed(x)
    /\ \A t \in Topologies : Current(t)
    /\ OneGroup
    /\ UniqueNames

-----------------------------------------------------------------------------
\* Until an error cuts something off, what CloudNet has made is in a VPC that a row names or
\* that is about to get its row, and when rows are dropped there is nothing in their VPC.
HasRow(t, v) == Row("vpc", 0, v) \in rows[t]
Holds(t, v) == HasRow(t, v) \/ (At(t, "rowVpc") /\ v = Vpc(t))
Emptied(t) == At(t, "drop") => \A r \in rows[t] : r.kind = "vpc" => In(r.id) = {}
HeldInv ==
    cut = {} =>
      /\ \A x \in account : x.ours => \E t \in Topologies : Holds(t, x.vpc)
      /\ \A t \in Topologies : Emptied(t)

-----------------------------------------------------------------------------
\* An instance goes down only for a teardown, which waits for it or has been cut off.
Down(x) ==
    x.kind = "instance" /\ ~x.up =>
        x.vpc \in cut \/ \E t \in Topologies : At(t, "await") /\ x.id \in worker[t].left

\* Instances are in their subnet's VPC.
AtHome(x) == x.kind = "instance" => \A s \in With(x.of) : s.kind = "subnet" /\ s.vpc = x.vpc

\* A teardown deletes kind by kind.
SweptAt(w, A, C) ==
    LET v == w.got["vpc"] IN
    /\ w.pc \in {"await", "groups", "listTables"} \cup TornPCs /\ v \notin C =>
         \A x \in A : x.kind = "instance" /\ x.vpc = v /\ x.ours => w.pc = "await" /\ x.id \in w.left
    /\ w.pc \in {"listTables"} \cup TornPCs => \A x \in A : ~(x.kind = "sg" /\ x.vpc = v)
    /\ w.pc \in TornPCs =>
         \A x \in A : x.kind = "rt" /\ x.vpc = v /\ x.tagged => w.pc = "tables" /\ x.id \in w.left
    /\ w.pc \in {"gateways", "listSubnets", "subnets", "deleteVpc"} =>
         \A x \in A : x.kind = "igw" /\ x.vpc = v /\ x.tagged => w.pc = "gateways" /\ x.id \in w.left
    /\ w.pc \in {"subnets", "deleteVpc"} =>
         \A x \in A : x.kind = "subnet" /\ x.vpc = v /\ x.tagged => w.pc = "subnets" /\ x.id \in w.left
Swept(t) == SweptAt(worker[t], account, cut)

SweptInv ==
    /\ \A x \in account : Down(x) /\ AtHome(x)
    /\ \A t \in Topologies : Swept(t)

Stands(t) == At(t, "drop") \/ \A r \in rows[t] : r.kind = "vpc" => Tags(r.id)
StandInv == \A t \in Topologies : Stands(t)

-----------------------------------------------------------------------------
Routed(x, A) ==
    /\ \E y \in A : y.kind = "rt" /\ y.vpc = x.vpc /\ y.tagged /\ y.of = x.id
    /\ \E y \in A : y.kind = "igw" /\ y.vpc = x.vpc

\* A subnet has its route, unless it is being made or torn down or that has been cut off.
InWork(t, x) ==
    \/ worker[t].pc \in {"gateway", "table"} /\ x.id = worker[t].got["subnet"]
    \/ worker[t].pc \in TornPCs /\ x.vpc = Vpc(t)
Connected(x) ==
    x.kind = "subnet" /\ x.tagged =>
        x.id \in cut \/ x.vpc \in cut \/ Routed(x, account) \/ \E t \in Topologies : InWork(t, x)

\* What the rows R of a topology name is in A.
SubnetStands(t, r, A) ==
    \E x \in A : x.id = r.id /\ x.kind = "subnet" /\ x.tagged /\ x.name = SubnetName(t, r.at)
HostStands(t, n, id, R, A, C) ==
    \E s \in R :
        /\ s.kind = "subnet" /\ s.at = Home[t][n]
        /\ \/ \E v \in R : v.kind = "vpc" /\ v.id \in C
           \/ \E x \in A : x.id = id /\ x.up /\ x.of = s.id /\ x.name = HostName(n)
RowsStand(t, R, A, C) ==
    \A r \in R :
        /\ r.kind = "subnet" => SubnetStands(t, r, A)
        /\ r.kind = "instance" => r.at \in DOMAIN Home[t] /\ HostStands(t, r.at, r.id, R, A, C)
GroupStands(R, A) == \E r \in R, x \in A : r = Row("sg", 0, x.id) /\ x.up

BuiltAt(t, w, R, A, C, up) ==
    /\ w.pc \in DeployPCs \/ (w.pc = "idle" /\ up) => RowsStand(t, R, A, C)
    /\ w.pc = "active" \/ (w.pc = "idle" /\ up) => GroupStands(R, A)
    /\ w.pc = "idle" /\ up =>
         /\ \A n \in 1..Segments[t] : \E r \in R : r.kind = "subnet" /\ r.at = n
         /\ \A n \in DOMAIN Home[t] : \E r \in R : r.kind = "instance" /\ r.at = n
    /\ w.pc = "rowInstance" => HostStands(t, w.at, w.got["instance"], R, A, C)
    /\ w.pc \in {"gateway", "table"} => w.got["subnet"] \in w.made
    /\ w.pc = "table" => \E y \in A : y.kind = "igw" /\ y.vpc = w.got["vpc"]
Built(t) == BuiltAt(t, worker[t], rows[t], account, cut, active[t])

BuiltInv ==
    /\ \A x \in account : Connected(x)
    /\ \A t \in Topologies : Built(t)

-----------------------------------------------------------------------------
(* What a step makes of the account *)

\* y is x after a group has got its rules, an instance has gone down, a table has been
\* disassociated or a gateway detached.
Renews(x, y) ==
    \E v \in {x.vpc, 0}, o \in {x.of, 0}, u \in BOOLEAN :
        /\ y = [x EXCEPT !.vpc = v, !.of = o, !.up = u]
        /\ v = x.vpc \/ x.kind = "igw"
        /\ o = x.of \/ x.kind = "rt"
        /\ u = x.up \/ (x.kind = "sg" /\ u) \/ (x.kind = "instance" /\ ~u)

AddsTo(a, new) == a = account \cup {new} /\ new \in Things(nextId + 1) /\ new.id = nextId
Thins(a) ==
    /\ \A y \in a : \E x \in account : y = x \/ Renews(x, y)
    /\ \A y, z \in a : y.id = z.id => y = z
Change(a) == (\E new : AddsTo(a, new)) \/ Thins(a)

LEMMA RenewedThing ==
  ASSUME NEW n \in Nat \ {0}, NEW x \in Things(n), NEW y, Renews(x, y)
  PROVE  /\ y \in Things(n) /\ y.id = x.id /\ y.kind = x.kind /\ y.name = x.name
         /\ y.tagged = x.tagged /\ y.ours = x.ours
         /\ y.vpc = x.vpc \/ (y.vpc = 0 /\ x.kind = "igw")
         /\ y.of = x.of \/ (y.of = 0 /\ x.kind = "rt")
         /\ y.up = x.up \/ (x.kind = "sg" /\ y.up) \/ (x.kind = "instance" /\ ~y.up)
<1>1. PICK v \in {x.vpc, 0}, o \in {x.of, 0}, u \in BOOLEAN :
        /\ y = [x EXCEPT !.vpc = v, !.of = o, !.up = u]
        /\ v = x.vpc \/ x.kind = "igw"
        /\ o = x.of \/ x.kind = "rt"
        /\ u = x.up \/ (x.kind = "sg" /\ u) \/ (x.kind = "instance" /\ ~u)
  BY DEF Renews
<1>2. v \in 0..(n - 1) /\ o \in 0..(n - 1)
  BY <1>1 DEF Things
<1> HIDE DEF Renews
<1>3. y \in Things(n) /\ y.id = x.id /\ y.kind = x.kind /\ y.name = x.name
         /\ y.tagged = x.tagged /\ y.ours = x.ours /\ y.vpc = v /\ y.of = o /\ y.up = u
  BY <1>1, <1>2 DEF Things
<1>4. QED
  BY <1>1, <1>3

LEMMA MoreIds ==
  ASSUME NEW n \in Nat \ {0}
  PROVE  /\ n + 1 \in Nat \ {0} /\ Before(n) \subseteq Before(n + 1)
         /\ Things(n) \subseteq Things(n + 1) /\ Rows(n) \subseteq Rows(n + 1)
         /\ Workers(n) \subseteq Workers(n + 1)
<1>1. Before(n) \subseteq Before(n + 1) /\ 0..(n - 1) \subseteq 0..((n + 1) - 1)
  BY DEF Before
<1>2. Things(n) \subseteq Things(n + 1) /\ Rows(n) \subseteq Rows(n + 1)
  BY <1>1 DEF Things, Rows
<1>3. [Kinds -> 0..(n - 1)] \subseteq [Kinds -> 0..((n + 1) - 1)]
  BY <1>1
<1>4. Workers(n) \subseteq Workers(n + 1)
  <2>1. SUBSET Before(n) \subseteq SUBSET Before(n + 1)
    BY <1>1
  <2>2. QED
    BY <1>3, <2>1 DEF Workers
<1>5. QED
  BY <1>1, <1>2, <1>4

\* The account and the ids after a change.
LEMMA Changed ==
  ASSUME ProviderTypes, Change(account'), Numbered
  PROVE  /\ nextId' \in {nextId, nextId + 1} /\ nextId' \in Nat \ {0}
         /\ account' \subseteq Things(nextId')
         /\ \A x, y \in account' : x.id = y.id => x = y
         /\ \A new : AddsTo(account', new) => nextId' = nextId + 1
         /\ Thins(account') => nextId' = nextId
<1>1. nextId \in Nat \ {0} /\ account \subseteq Things(nextId)
      /\ \A x, y \in account : x.id = y.id => x = y
  BY DEF ProviderTypes
<1>2. \A x \in account : x.id \in Nat /\ x.id < nextId
  BY <1>1 DEF Things, Before
<1>3. CASE \E new : AddsTo(account', new)
  <2>1. PICK new : AddsTo(account', new)
    BY <1>3
  <2>2. nextId' = nextId + 1
    BY <2>1 DEF AddsTo, Numbered
  <2>3. account' \subseteq Things(nextId')
    BY <1>1, <2>1, <2>2, MoreIds DEF AddsTo
  <2>4. \A x, y \in account' : x.id = y.id => x = y
    BY <1>1, <1>2, <2>1 DEF AddsTo
  <2>5. ~Thins(account')
    <3> SUFFICES ASSUME Thins(account') PROVE FALSE
      OBVIOUS
    <3>1. PICK x \in account : new = x \/ Renews(x, new)
      BY <2>1 DEF Thins, AddsTo
    <3>2. new.id = x.id
      BY <3>1, <1>1, RenewedThing
    <3>3. x.id < nextId /\ x.id \in Nat /\ nextId \in Nat
      BY <1>1, <1>2
    <3>4. new.id = nextId
      BY <2>1 DEF AddsTo
    <3>5. QED
      BY <3>2, <3>3, <3>4
  <2>6. QED
    BY <1>1, <2>2, <2>3, <2>4, <2>5
<1>4. CASE Thins(account')
  <2>1. \A y \in account' : \E x \in account : y \in Things(nextId) /\ y.id = x.id
    BY <1>1, <1>4, RenewedThing DEF Thins
  <2>2. nextId' = nextId
    BY <1>2, <2>1 DEF Numbered
  <2>3. \A new : ~AddsTo(account', new)
    BY <1>2, <2>1 DEF AddsTo
  <2>4. QED
    BY <1>1, <1>4, <2>1, <2>2, <2>3 DEF Thins
<1>5. QED
  BY <1>3, <1>4 DEF Change

LEMMA KeptThins ==
  ASSUME ProviderTypes
  PROVE  Thins(account)
BY DEF ProviderTypes, Thins

-----------------------------------------------------------------------------
(* Types *)

LEMMA WorkerFields ==
  ASSUME ProviderTypes, NEW t \in Topologies
  PROVE  /\ worker[t] \in Workers(nextId) /\ rows[t] \in SUBSET Rows(nextId) /\ Placed(t)
         /\ worker[t].pc \in PCs /\ worker[t].at \in Nat \ {0} /\ worker[t].tries \in 0..Retries
         /\ worker[t].got \in [Kinds -> 0..(nextId - 1)] /\ Vpc(t) \in 0..(nextId - 1)
         /\ worker[t].made \subseteq Before(nextId) /\ worker[t].left \subseteq Before(nextId)
<1>1. worker[t] \in Workers(nextId) /\ rows[t] \in SUBSET Rows(nextId) /\ Placed(t)
  BY DEF ProviderTypes
<1>2. /\ worker[t].pc \in PCs /\ worker[t].at \in Nat \ {0} /\ worker[t].tries \in 0..Retries
      /\ worker[t].got \in [Kinds -> 0..(nextId - 1)]
      /\ worker[t].made \subseteq Before(nextId) /\ worker[t].left \subseteq Before(nextId)
  BY <1>1 DEF Workers
<1>3. Vpc(t) \in 0..(nextId - 1)
  BY <1>2 DEF Vpc, Kinds
<1>4. QED
  BY <1>1, <1>2, <1>3

LEMMA PlanTypes ==
  ASSUME NEW t \in Topologies
  PROVE  Segments[t] \in Nat \ {0} /\ Len(Home[t]) \in Nat \ {0} /\ Retries \in Nat
         /\ DOMAIN Home[t] = 1..Len(Home[t]) /\ \A n \in DOMAIN Home[t] : Home[t][n] \in 1..Segments[t]
<1>1. Segments[t] \in Nat \ {0} /\ Home[t] \in Seq(1..Segments[t]) /\ Home[t] # <<>>
  BY AwsPlanAssumption
<1>2. Retries \in Nat
  BY AwsBoundAssumption
<1>3. Len(Home[t]) \in Nat \ {0}
  BY <1>1
<1>4. QED
  BY <1>1, <1>2, <1>3

LEMMA RestingTyped ==
  ASSUME NEW n \in Nat \ {0}, NEW pc \in {"idle", "rows", "drop"}
  PROVE  [Resting EXCEPT !.pc = pc] \in Workers(n)
<1>1. [k \in Kinds |-> 0] \in [Kinds -> 0..(n - 1)]
  OBVIOUS
<1>2. 0 \in 0..Retries
  BY AwsBoundAssumption
<1>3. QED
  BY <1>1, <1>2 DEF Resting, Workers, PCs

\* Where a failed call leaves its handler.
LEMMA FailedPlaced ==
  ASSUME ProviderTypes, NEW t \in Topologies,
         worker[t].pc \in CreatePCs \cup TeardownPCs \cup {"firewall", "checkVpc"},
         NEW retryable \in BOOLEAN, Raises(t, retryable)
  PROVE  \E w : /\ worker' = [worker EXCEPT ![t] = w] /\ w \in Workers(nextId)
                /\ PlacedAt(t, w, rows[t])
                /\ \/ w = Undone(t) /\ worker[t].pc \in CreatePCs \cup {"firewall"}
                   \/ w = Stopped(t) /\ worker[t].pc \in TeardownPCs \cup {"checkVpc"}
                   \/ w = Retried(t) /\ worker[t].pc \in CreatePCs
<1>1. nextId \in Nat \ {0}
  BY DEF ProviderTypes
<1>2. Create(worker[t].pc) # "none" <=> worker[t].pc \in CreatePCs
  BY DEF Create, CreatePCs, VpcPCs, SubnetPCs, HostPCs
<1>3. Undone(t) \in Workers(nextId) /\ PlacedAt(t, Undone(t), rows[t])
  <2>1. Undone(t) = [Resting EXCEPT !.pc = "rows"]
    BY DEF Undone
  <2>2. QED
    BY <1>1, <2>1, RestingTyped
    DEF PlacedAt, Resting, SubnetPCs, HostPCs, DeployPCs, TeardownPCs, TornPCs
<1>4. Stopped(t) \in Workers(nextId) /\ PlacedAt(t, Stopped(t), rows[t])
  <2>1. Stopped(t) = [Resting EXCEPT !.pc = "drop"]
    BY DEF Stopped
  <2>2. QED
    BY <1>1, <2>1, RestingTyped
    DEF PlacedAt, Resting, SubnetPCs, HostPCs, DeployPCs, TeardownPCs, TornPCs
<1>5. CASE worker' = [worker EXCEPT ![t] = Retried(t)] /\ worker[t].pc \in CreatePCs /\ MayRetry(t)
  <2>1. /\ Retried(t).pc = Create(worker[t].pc) /\ Retried(t).at = worker[t].at
        /\ Retried(t).got = worker[t].got /\ Retried(t) \in Workers(nextId)
    <3>1. worker[t].tries + 1 \in 0..Retries
      BY <1>5, WorkerFields, AwsBoundAssumption DEF MayRetry
    <3>2. Create(worker[t].pc) \in PCs
      BY <1>5 DEF Create, PCs, CreatePCs, VpcPCs, SubnetPCs, HostPCs, DeployPCs
    <3>3. QED
      BY <3>1, <3>2, WorkerFields DEF Retried, Workers
  <2>2. PlacedAt(t, Retried(t), rows[t])
    <3>1. PlacedAt(t, worker[t], rows[t])
      BY WorkerFields DEF Placed
    <3>2. CASE worker[t].pc \in VpcPCs
      BY <2>1, <3>1, <3>2 DEF PlacedAt, Create, VpcPCs, SubnetPCs, HostPCs, DeployPCs, TeardownPCs, TornPCs
    <3>3. CASE worker[t].pc \in SubnetPCs
      BY <2>1, <3>1, <3>3 DEF PlacedAt, Create, VpcPCs, SubnetPCs, HostPCs, DeployPCs, TeardownPCs, TornPCs
    <3>4. CASE worker[t].pc \in HostPCs
      BY <2>1, <3>1, <3>4 DEF PlacedAt, Create, VpcPCs, SubnetPCs, HostPCs, DeployPCs, TeardownPCs, TornPCs
    <3>5. QED
      BY <1>5, <3>2, <3>3, <3>4 DEF CreatePCs
  <2>3. QED
    BY <1>5, <2>1, <2>2
<1>6. QED
  <2>1. CASE worker' = [worker EXCEPT ![t] = Undone(t)] /\ worker[t].pc \in CreatePCs \cup {"firewall"}
    BY <1>3, <2>1
  <2>2. CASE worker' = [worker EXCEPT ![t] = Stopped(t)] /\ worker[t].pc \in TeardownPCs \cup {"checkVpc"}
    BY <1>4, <2>2
  <2>3. worker[t].pc \notin CreatePCs \cup {"firewall"} => worker[t].pc \in TeardownPCs \cup {"checkVpc"}
    OBVIOUS
  <2>4. QED
    BY <1>2, <1>5, <2>1, <2>2, <2>3 DEF Raises, Goes, At

LEMMA RaisedCut ==
  ASSUME ProviderTypes, NEW t \in Topologies,
         worker[t].pc \in CreatePCs \cup TeardownPCs \cup {"firewall", "checkVpc"},
         NEW retryable \in BOOLEAN, Raises(t, retryable), Change(account'), Numbered
  PROVE  cut' \subseteq Before(nextId')
<1>1. nextId' \in Nat \ {0} /\ nextId \in Nat \ {0} /\ account' \subseteq Things(nextId')
      /\ Before(nextId) \subseteq Before(nextId')
  BY Changed, MoreIds DEF ProviderTypes
<1>2. cut \subseteq Before(nextId) /\ worker[t].made \subseteq Before(nextId)
      /\ worker[t].left \subseteq Before(nextId)
  BY WorkerFields DEF ProviderTypes
<1>3. {x.id : x \in account'} \subseteq Before(nextId')
  BY <1>1 DEF Things
<1>4. Create(worker[t].pc) = "none" => Vpc(t) \in Before(nextId) \/ worker[t].pc = "firewall"
  <2>1. Create(worker[t].pc) # "none" <=> worker[t].pc \in CreatePCs
    BY DEF Create, CreatePCs, VpcPCs, SubnetPCs, HostPCs
  <2>2. worker[t].pc \in TeardownPCs \cup {"checkVpc", "firewall"} => Vpc(t) # 0
    BY WorkerFields DEF Placed, PlacedAt, Vpc, DeployPCs
  <2>3. QED
    BY <1>1, <2>1, <2>2, WorkerFields DEF Before
<1>5. worker[t].pc = "firewall" => Vpc(t) \in Before(nextId)
  <2>1. worker[t].pc = "firewall" => Vpc(t) # 0
    BY WorkerFields DEF Placed, PlacedAt, Vpc, DeployPCs
  <2>2. QED
    BY <1>1, <2>1, WorkerFields DEF Before
<1>6. QED
  BY <1>1, <1>2, <1>3, <1>4, <1>5 DEF Raises

LEMMA StepTyped ==
  ASSUME ProviderTypes, NEW t \in Topologies, NEW w,
         worker' = [worker EXCEPT ![t] = w], w \in Workers(nextId'),
         nextId' \in {nextId, nextId + 1},
         account' \subseteq Things(nextId'), \A x, y \in account' : x.id = y.id => x = y,
         rows' \in [Topologies -> SUBSET Rows(nextId')],
         \A u \in Topologies \ {t} : rows'[u] = rows[u], PlacedAt(t, w, rows'[t]),
         active' \in [Topologies -> BOOLEAN], cut' \subseteq Before(nextId'),
         {faults', foreign', requests'} \subseteq Nat
  PROVE  ProviderTypes'
<1>1. nextId' \in Nat \ {0} /\ Workers(nextId) \subseteq Workers(nextId')
  BY MoreIds DEF ProviderTypes
<1>2. worker' \in [Topologies -> Workers(nextId')]
  BY <1>1 DEF ProviderTypes
<1>3. \A u \in Topologies : Placed(u)'
  <2>1. worker'[t] = w /\ \A u \in Topologies \ {t} : worker'[u] = worker[u]
    BY DEF ProviderTypes
  <2>2. \A u \in Topologies : PlacedAt(u, worker'[u], rows'[u])
    BY <2>1 DEF ProviderTypes, Placed
  <2>3. QED
    BY <2>2 DEF Placed, PlacedAt
<1>4. QED
  BY <1>1, <1>2, <1>3 DEF ProviderTypes

LEMMA RaisesTyped ==
  ASSUME ProviderTypes, NEW t \in Topologies,
         worker[t].pc \in CreatePCs \cup TeardownPCs \cup {"firewall", "checkVpc"},
         NEW retryable \in BOOLEAN, Raises(t, retryable), Change(account'), Numbered,
         UNCHANGED <<rows, active>>, {faults', foreign', requests'} \subseteq Nat
  PROVE  ProviderTypes'
<1>1. PICK w : worker' = [worker EXCEPT ![t] = w] /\ w \in Workers(nextId)
               /\ PlacedAt(t, w, rows[t])
  BY FailedPlaced
<1>2. /\ nextId' \in {nextId, nextId + 1} /\ account' \subseteq Things(nextId')
      /\ \A x, y \in account' : x.id = y.id => x = y
  BY Changed
<1>3. Workers(nextId) \subseteq Workers(nextId') /\ Rows(nextId) \subseteq Rows(nextId')
  BY <1>2, MoreIds DEF ProviderTypes
<1>4. rows' \in [Topologies -> SUBSET Rows(nextId')] /\ w \in Workers(nextId')
      /\ active' \in [Topologies -> BOOLEAN]
  BY <1>1, <1>3 DEF ProviderTypes
<1>5. cut' \subseteq Before(nextId')
  BY RaisedCut
<1>6. PlacedAt(t, w, rows'[t])
  BY <1>1
<1>7. QED
  BY <1>1, <1>2, <1>4, <1>5, <1>6, StepTyped

LEMMA RefusesTyped ==
  ASSUME ProviderTypes, NEW t \in Topologies,
         worker[t].pc \in CreatePCs \cup TeardownPCs \cup {"firewall", "checkVpc"}, Refuses(t)
  PROVE  ProviderTypes'
<1>1. Change(account') /\ Numbered
  <2>1. Thins(account') /\ account' = account /\ nextId' = nextId
    BY KeptThins DEF Refuses
  <2>2. \A x \in account : x.id # nextId
    BY DEF ProviderTypes, Things, Before
  <2>3. QED
    BY <2>1, <2>2 DEF Change, Numbered
<1>2. {faults', foreign', requests'} \subseteq Nat
  BY DEF Refuses, ProviderTypes
<1>3. QED
  BY <1>1, <1>2, RaisesTyped DEF Refuses

LEMMA CallTyped ==
  ASSUME ProviderTypes, NEW t \in Topologies, NEW partial, NEW whole, NEW w,
         Calls(t, partial, whole, w), \A a \in partial \cup {whole} : Change(a),
         worker[t].pc \in CreatePCs \cup TeardownPCs \cup {"firewall", "checkVpc"},
         w \in Workers(nextId) \/ (w \in Workers(nextId + 1) /\ \E new : AddsTo(whole, new)),
         PlacedAt(t, w, rows[t])
  PROVE  ProviderTypes'
<1>1. Change(account') /\ Numbered /\ UNCHANGED <<rows, active>>
      /\ {faults', foreign', requests'} \subseteq Nat
  <2>1. Change(account)
    BY KeptThins DEF Change
  <2>2. faults' \in Nat /\ UNCHANGED <<rows, active, foreign, requests>> /\ Numbered
    BY DEF Calls, ProviderTypes
  <2>3. Change(account')
    BY <2>1 DEF Calls
  <2>4. QED
    BY <2>2, <2>3 DEF ProviderTypes
<1>2. CASE account' = whole /\ Goes(t, w) /\ UNCHANGED <<cut, faults>>
  <2>1. /\ nextId' \in {nextId, nextId + 1} /\ account' \subseteq Things(nextId')
        /\ \A x, y \in account' : x.id = y.id => x = y
        /\ (\E new : AddsTo(whole, new)) => nextId' = nextId + 1
    BY <1>1, <1>2, Changed
  <2>2. Workers(nextId) \subseteq Workers(nextId') /\ Rows(nextId) \subseteq Rows(nextId')
        /\ Before(nextId) \subseteq Before(nextId')
    BY <2>1, MoreIds DEF ProviderTypes
  <2>3. rows' \in [Topologies -> SUBSET Rows(nextId')] /\ w \in Workers(nextId')
        /\ active' \in [Topologies -> BOOLEAN] /\ cut' \subseteq Before(nextId')
    BY <1>1, <1>2, <2>1, <2>2 DEF ProviderTypes
  <2>4. PlacedAt(t, w, rows'[t])
    BY <1>1
  <2>5. QED
    BY <1>1, <1>2, <2>1, <2>3, <2>4, StepTyped DEF Goes
<1>3. CASE \E retryable \in BOOLEAN : Raises(t, retryable)
  BY <1>1, <1>3, RaisesTyped
<1>4. QED
  BY <1>2, <1>3 DEF Calls

\* A call that only reads.
LEMMA ReadTyped ==
  ASSUME ProviderTypes, NEW t \in Topologies, NEW w, Reads(t, w),
         worker[t].pc \in CreatePCs \cup TeardownPCs \cup {"firewall", "checkVpc"},
         w \in Workers(nextId), PlacedAt(t, w, rows[t])
  PROVE  ProviderTypes'
<1>1. Change(account)
  BY KeptThins DEF Change
<1>2. \A a \in {} \cup {account} : Change(a)
  BY <1>1
<1>3. Calls(t, {}, account, w)
  BY DEF Reads
<1>4. QED
  BY <1>2, <1>3, CallTyped

\* A step between two calls, which may write rows.
LEMMA LocalTyped ==
  ASSUME ProviderTypes, NEW t \in Topologies, NEW w, Local(t, w),
         w \in Workers(nextId), PlacedAt(t, w, rows'[t]),
         rows' \in [Topologies -> SUBSET Rows(nextId)],
         \A u \in Topologies \ {t} : rows'[u] = rows[u],
         active' \in [Topologies -> BOOLEAN]
  PROVE  ProviderTypes'
<1>1. {faults', foreign', requests'} \subseteq Nat
  BY DEF Local, ProviderTypes
<1>2. UNCHANGED <<account, nextId, cut>> /\ worker' = [worker EXCEPT ![t] = w]
  BY DEF Local, Goes
<1>3. QED
  BY <1>1, <1>2, StepTyped DEF ProviderTypes

-----------------------------------------------------------------------------
(* Handlers and things that a step makes *)

LEMMA Moves ==
  ASSUME ProviderTypes, NEW t \in Topologies, NEW pc \in PCs
  PROVE  /\ To(t, pc) \in Workers(nextId) /\ To(t, pc).pc = pc
         /\ To(t, pc).at = worker[t].at /\ To(t, pc).got = worker[t].got
         /\ To(t, pc).made = worker[t].made /\ To(t, pc).left = worker[t].left
         /\ To(t, pc).tries = worker[t].tries
BY WorkerFields DEF To, Workers

LEMMA Finds ==
  ASSUME ProviderTypes, NEW t \in Topologies, NEW pc \in PCs, NEW k \in Kinds,
         NEW id \in 0..(nextId - 1)
  PROVE  /\ Found(t, pc, k, id) \in Workers(nextId) /\ Found(t, pc, k, id).pc = pc
         /\ Found(t, pc, k, id).at = worker[t].at
         /\ Found(t, pc, k, id).got[k] = id
         /\ \A j \in Kinds \ {k} : Found(t, pc, k, id).got[j] = worker[t].got[j]
         /\ Found(t, pc, k, id).made = worker[t].made /\ Found(t, pc, k, id).left = worker[t].left
<1>1. worker[t] \in Workers(nextId) /\ worker[t].got \in [Kinds -> 0..(nextId - 1)]
  BY WorkerFields
<1>2. [worker[t].got EXCEPT ![k] = id] \in [Kinds -> 0..(nextId - 1)]
  BY <1>1
<1>3. QED
  BY <1>1, <1>2 DEF Found, Workers

LEMMA Makes ==
  ASSUME ProviderTypes, NEW t \in Topologies, NEW pc \in PCs, NEW k \in Kinds
  PROVE  /\ Made(t, pc, k) \in Workers(nextId + 1) /\ Made(t, pc, k).pc = pc
         /\ Made(t, pc, k).at = worker[t].at
         /\ Made(t, pc, k).got[k] = nextId
         /\ \A j \in Kinds \ {k} : Made(t, pc, k).got[j] = worker[t].got[j]
         /\ Made(t, pc, k).made = worker[t].made \cup {nextId}
         /\ Made(t, pc, k).left = worker[t].left
<1>1. worker[t] \in Workers(nextId) /\ nextId \in Nat \ {0}
  BY WorkerFields DEF ProviderTypes
<1>2. worker[t] \in Workers(nextId + 1) /\ nextId \in Before(nextId + 1)
  BY <1>1, MoreIds DEF Before
<1>3. worker[t].got \in [Kinds -> 0..((nextId + 1) - 1)] /\ worker[t].made \subseteq Before(nextId + 1)
  BY <1>2 DEF Workers
<1>4. /\ [worker[t].got EXCEPT ![k] = nextId] \in [Kinds -> 0..((nextId + 1) - 1)]
      /\ worker[t].made \cup {nextId} \in SUBSET Before(nextId + 1)
  BY <1>1, <1>2, <1>3
<1>5. QED
  BY <1>2, <1>4 DEF Made, Workers

LEMMA Nexts ==
  ASSUME ProviderTypes, NEW t \in Topologies, NEW pc \in PCs, NEW n \in Nat \ {0}
  PROVE  /\ NextCreate(t, pc, n) \in Workers(nextId) /\ NextCreate(t, pc, n).pc = pc
         /\ NextCreate(t, pc, n).at = n /\ NextCreate(t, pc, n).got = worker[t].got
         /\ NextCreate(t, pc, n).made = {} /\ NextCreate(t, pc, n).left = worker[t].left
<1>1. 0 \in 0..Retries
  BY AwsBoundAssumption
<1>2. QED
  BY <1>1, WorkerFields DEF NextCreate, Workers

LEMMA Listed ==
  ASSUME ProviderTypes, NEW t \in Topologies, NEW pc \in PCs, NEW S \in SUBSET Before(nextId)
  PROVE  /\ [To(t, pc) EXCEPT !.left = S] \in Workers(nextId)
         /\ [To(t, pc) EXCEPT !.left = S].pc = pc /\ [To(t, pc) EXCEPT !.left = S].left = S
         /\ [To(t, pc) EXCEPT !.left = S].at = worker[t].at
         /\ [To(t, pc) EXCEPT !.left = S].got = worker[t].got
         /\ [To(t, pc) EXCEPT !.left = S].made = worker[t].made
BY Moves DEF Workers

LEMMA Strikes ==
  ASSUME ProviderTypes, NEW t \in Topologies, NEW id
  PROVE  /\ [worker[t] EXCEPT !.left = @ \ {id}] \in Workers(nextId)
         /\ [worker[t] EXCEPT !.left = @ \ {id}].pc = worker[t].pc
         /\ [worker[t] EXCEPT !.left = @ \ {id}].left = worker[t].left \ {id}
         /\ [worker[t] EXCEPT !.left = @ \ {id}].at = worker[t].at
         /\ [worker[t] EXCEPT !.left = @ \ {id}].got = worker[t].got
         /\ [worker[t] EXCEPT !.left = @ \ {id}].made = worker[t].made
BY WorkerFields DEF Workers

LEMMA NewThing ==
  ASSUME ProviderTypes, NEW k \in Kinds, NEW name \in Names, NEW v \in 0..nextId,
         NEW o \in 0..(nextId - 1)
  PROVE  LET new == Thing(nextId, k, name, v, o) IN
         /\ new \in Things(nextId + 1) /\ Tag(new) \in Things(nextId + 1)
         /\ new.id = nextId /\ Tag(new).id = nextId
         /\ new.kind = k /\ new.name = name /\ new.vpc = v /\ new.of = o /\ ~new.tagged /\ new.ours
         /\ new.up = (k = "instance")
         /\ Tag(new).kind = k /\ Tag(new).name = name /\ Tag(new).vpc = v /\ Tag(new).of = o
         /\ Tag(new).tagged /\ Tag(new).ours /\ Tag(new).up = (k = "instance")
<1>1. nextId \in Nat \ {0}
  BY DEF ProviderTypes
<1>2. nextId \in Before(nextId + 1) /\ v \in 0..((nextId + 1) - 1) /\ o \in 0..((nextId + 1) - 1)
      /\ (k = "instance") \in BOOLEAN
  BY <1>1 DEF Before
<1>3. QED
  BY <1>2 DEF Thing, Things, Tag

LEMMA NamesOf ==
  ASSUME NEW t \in Topologies
  PROVE  /\ NetworkName(t) \in Names /\ GroupName \in Names /\ NoName \in Names
         /\ \A n \in Nat : SubnetName(t, n) \in Names /\ HostName(n) \in Names
BY DEF Names, NetworkName, SubnetName

LEMMA LessThins ==
  ASSUME ProviderTypes, NEW S
  PROVE  Thins(account \ S)
BY DEF ProviderTypes, Thins

LEMMA UpThins ==
  ASSUME ProviderTypes, NEW S \in SUBSET account, NEW b \in BOOLEAN,
         \A x \in S : x.kind = IF b THEN "sg" ELSE "instance"
  PROVE  /\ Thins((account \ S) \cup {[x EXCEPT !.up = b] : x \in S})
         /\ \A x \in S : Renews(x, [x EXCEPT !.up = b])
<1>1. \A x \in S : Renews(x, [x EXCEPT !.up = b]) /\ [x EXCEPT !.up = b].id = x.id
  <2> SUFFICES ASSUME NEW x \in S
               PROVE  Renews(x, [x EXCEPT !.up = b]) /\ [x EXCEPT !.up = b].id = x.id
    OBVIOUS
  <2>1. x \in Things(nextId)
    BY DEF ProviderTypes
  <2>2. [x EXCEPT !.up = b] = [x EXCEPT !.vpc = x.vpc, !.of = x.of, !.up = b]
    BY <2>1 DEF Things
  <2>3. QED
    BY <2>1, <2>2 DEF Renews, Things
<1>2. \A x, y \in account : x.id = y.id => x = y
  BY DEF ProviderTypes
<1>3. ASSUME NEW y \in (account \ S) \cup {[x EXCEPT !.up = b] : x \in S}
      PROVE  \E x \in account : /\ y.id = x.id /\ (y = x \/ Renews(x, y))
                               /\ y = IF x \in S THEN [x EXCEPT !.up = b] ELSE x
  BY <1>1
<1>4. QED
  BY <1>2, <1>3, <1>1 DEF Thins

LEMMA LooseThins ==
  ASSUME ProviderTypes, NEW x \in account
  PROVE  /\ x.kind = "rt" => /\ Renews(x, [x EXCEPT !.of = 0])
                             /\ Thins((account \ {x}) \cup {[x EXCEPT !.of = 0]})
         /\ x.kind = "igw" => /\ Renews(x, [x EXCEPT !.vpc = 0])
                              /\ Thins((account \ {x}) \cup {[x EXCEPT !.vpc = 0]})
<1>1. x \in Things(nextId)
  BY DEF ProviderTypes
<1>2. /\ [x EXCEPT !.of = 0] = [x EXCEPT !.vpc = x.vpc, !.of = 0, !.up = x.up]
      /\ [x EXCEPT !.vpc = 0] = [x EXCEPT !.vpc = 0, !.of = x.of, !.up = x.up]
      /\ [x EXCEPT !.of = 0].id = x.id /\ [x EXCEPT !.vpc = 0].id = x.id /\ x.up \in BOOLEAN
  BY <1>1 DEF Things
<1>3. \A y, z \in account : y.id = z.id => y = z
  BY DEF ProviderTypes
<1>4. x.kind = "rt" => Renews(x, [x EXCEPT !.of = 0])
  BY <1>2 DEF Renews
<1>5. x.kind = "igw" => Renews(x, [x EXCEPT !.vpc = 0])
  BY <1>2 DEF Renews
<1>6. QED
  BY <1>2, <1>3, <1>4, <1>5, ZenonT(60) DEF Thins

\* A handler stays within the creation of a subnet, of a host, or within a teardown.
LEMMA SubnetMove ==
  ASSUME NEW t \in Topologies, NEW v, NEW w, NEW R, PlacedAt(t, v, R), v.pc \in SubnetPCs,
         w.pc \in SubnetPCs \cup {"rowSubnet"}, w.at = v.at, w.got["vpc"] = v.got["vpc"],
         w.pc \in {"gateway", "table", "rowSubnet"} => w.got["subnet"] # 0
  PROVE  PlacedAt(t, w, R)
BY DEF PlacedAt, SubnetPCs, HostPCs, DeployPCs, TeardownPCs, TornPCs

LEMMA HostMove ==
  ASSUME NEW t \in Topologies, NEW v, NEW w, NEW R, PlacedAt(t, v, R), v.pc \in HostPCs,
         w.pc \in HostPCs \cup {"rowInstance"}, w.at = v.at, w.got["vpc"] = v.got["vpc"],
         w.pc = "rowInstance" => w.got["instance"] # 0
  PROVE  PlacedAt(t, w, R)
BY DEF PlacedAt, SubnetPCs, HostPCs, DeployPCs, TeardownPCs, TornPCs

LEMMA TeardownMove ==
  ASSUME NEW t \in Topologies, NEW v, NEW w, NEW R, PlacedAt(t, v, R),
         v.pc \in TeardownPCs \cup {"checkVpc"},
         w.pc \in TeardownPCs, w.at = v.at, w.got["vpc"] = v.got["vpc"]
  PROVE  PlacedAt(t, w, R)
BY DEF PlacedAt, SubnetPCs, HostPCs, DeployPCs, TeardownPCs, TornPCs

LEMMA RestingPlaced ==
  ASSUME NEW t \in Topologies, NEW R, NEW pc \in {"idle", "rows", "drop"}
  PROVE  /\ PlacedAt(t, [Resting EXCEPT !.pc = pc], R) /\ [Resting EXCEPT !.pc = pc].pc = pc
         /\ [Resting EXCEPT !.pc = "idle"] = Resting
<1> DEFINE w == [Resting EXCEPT !.pc = pc]
<1>1. w.pc = pc /\ w.at = 1 /\ w = [Resting EXCEPT !.pc = w.pc]
  BY DEF Resting
<1>2. [Resting EXCEPT !.pc = "idle"] = Resting
  BY DEF Resting
<1> HIDE DEF w
<1>3. PlacedAt(t, w, R)
  BY <1>1 DEF PlacedAt, SubnetPCs, HostPCs, DeployPCs, TeardownPCs, TornPCs
<1>4. QED
  BY <1>1, <1>2, <1>3 DEF w

\* What a handler is doing, by its place.
LEMMA AtWork ==
  ASSUME ProviderTypes, NEW t \in Topologies
  PROVE  /\ PlacedAt(t, worker[t], rows[t]) /\ nextId \in Nat \ {0}
         /\ worker[t].got \in [Kinds -> 0..(nextId - 1)] /\ Vpc(t) \in 0..(nextId - 1)
         /\ \A k \in Kinds : worker[t].got[k] \in 0..(nextId - 1)
         /\ Vpc(t) \in 0..nextId /\ worker[t].at \in Nat \ {0} /\ Vpc(t) = worker[t].got["vpc"]
         /\ \A x \in account : x.id \in 0..(nextId - 1) /\ x.id # 0 /\ x.id \in Before(nextId)
                               /\ x \in Things(nextId)
<1>1. nextId \in Nat \ {0} /\ account \subseteq Things(nextId)
  BY DEF ProviderTypes
<1>2. \A x \in account : x.id \in Before(nextId) /\ x \in Things(nextId)
  BY <1>1 DEF Things
<1>3. \A x \in account : x.id \in 0..(nextId - 1) /\ x.id # 0
  BY <1>1, <1>2 DEF Before
<1>4. QED
  BY <1>1, <1>2, <1>3, WorkerFields DEF Placed, Vpc

-----------------------------------------------------------------------------
(* Types: the deploy *)

LEMMA BeginTyped ==
  ASSUME ProviderTypes, NEW t \in Topologies, BeginDeploy(t) \/ BeginCleanup(t)
  PROVE  ProviderTypes'
<1>1. PICK pc \in {"vpc", "rows"} : Goes(t, To(t, pc)) /\ (pc = "vpc" => rows[t] = {})
  BY DEF BeginDeploy, BeginCleanup
<1>2. /\ At(t, "idle") /\ UNCHANGED <<account, nextId, rows, active, cut, faults, foreign>>
      /\ requests' = requests + 1
  BY DEF BeginDeploy, BeginCleanup, Requested
<1>3. worker[t] = Resting
  BY <1>2, AtWork, RestingPlaced DEF PlacedAt, At
<1>4. To(t, pc) \in Workers(nextId)
  BY Moves DEF PCs, VpcPCs
<1>5. PlacedAt(t, To(t, pc), rows[t])
  BY <1>3 DEF PlacedAt, To, Resting, SubnetPCs, HostPCs, DeployPCs, TeardownPCs, TornPCs
<1>6. {faults', foreign', requests'} \subseteq Nat
  BY <1>2 DEF ProviderTypes
<1>7. QED
  BY <1>1, <1>2, <1>4, <1>5, <1>6, StepTyped DEF ProviderTypes, Goes

LEMMA FindVpcTyped ==
  ASSUME ProviderTypes, NEW t \in Topologies, FindVpc(t)
  PROVE  ProviderTypes'
<1>1. worker[t].pc = "vpc" /\ worker[t].pc \in CreatePCs
  BY DEF FindVpc, At, CreatePCs, VpcPCs
<1> USE DEF PCs, DeployPCs, VpcPCs, SubnetPCs, HostPCs, TeardownPCs, TornPCs
<1>2. ASSUME NEW x \in account, Reads(t, Found(t, "rowVpc", "vpc", x.id))
      PROVE  ProviderTypes'
  <2> DEFINE w == Found(t, "rowVpc", "vpc", x.id)
  <2>1. x.id \in 0..(nextId - 1) /\ x.id # 0
    BY AtWork
  <2>2. w \in Workers(nextId) /\ w.pc = "rowVpc" /\ w.at = worker[t].at /\ w.got["vpc"] # 0
    BY <2>1, Finds, SMTT(30) DEF Kinds
  <2>3. Reads(t, w)
    BY <1>2
  <2> HIDE DEF w
  <2>4. PlacedAt(t, w, rows[t])
    BY <1>1, <2>2, AtWork DEF PlacedAt
  <2>5. QED
    BY <1>1, <2>2, <2>3, <2>4, ReadTyped
<1>3. ASSUME Reads(t, To(t, "makeVpc")) PROVE ProviderTypes'
  <2> DEFINE w == To(t, "makeVpc")
  <2>1. w \in Workers(nextId) /\ w.pc = "makeVpc" /\ w.at = worker[t].at
    BY Moves
  <2>2. Reads(t, w)
    BY <1>3
  <2> HIDE DEF w
  <2>3. PlacedAt(t, w, rows[t])
    BY <1>1, <2>1, AtWork DEF PlacedAt
  <2>4. QED
    BY <1>1, <2>1, <2>2, <2>3, ReadTyped
<1>4. QED
  BY <1>2, <1>3 DEF FindVpc, CloudnetVpcs

LEMMA MakeVpcTyped ==
  ASSUME ProviderTypes, NEW t \in Topologies, MakeVpc(t)
  PROVE  ProviderTypes'
<1> DEFINE new == Thing(nextId, "vpc", NetworkName(t), nextId, 0)
<1> DEFINE w == Made(t, "rowVpc", "vpc")
<1>1. worker[t].pc = "makeVpc" /\ worker[t].pc \in CreatePCs
  BY DEF MakeVpc, At, CreatePCs, VpcPCs
<1>2. AddsTo(account \cup {new}, new) /\ AddsTo(account \cup {Tag(new)}, Tag(new))
  <2>1. "vpc" \in Kinds /\ nextId \in 0..nextId /\ 0 \in 0..(nextId - 1)
    BY AtWork DEF Kinds
  <2>2. new \in Things(nextId + 1) /\ Tag(new) \in Things(nextId + 1)
        /\ new.id = nextId /\ Tag(new).id = nextId
    BY <2>1, NewThing, NamesOf
  <2>3. QED
    BY <2>2 DEF AddsTo
<1>3. Calls(t, {account \cup {new}}, account \cup {Tag(new)}, w)
  BY DEF MakeVpc, Tagged
<1>4. w \in Workers(nextId + 1) /\ w.pc = "rowVpc" /\ w.at = worker[t].at /\ w.got["vpc"] = nextId
  BY Makes DEF Kinds, PCs
<1>5. \A a \in {account \cup {new}} \cup {account \cup {Tag(new)}} : Change(a)
  BY <1>2 DEF Change
<1> HIDE DEF new, w
<1>6. PlacedAt(t, w, rows[t])
  BY <1>1, <1>4, AtWork
  DEF PlacedAt, DeployPCs, VpcPCs, SubnetPCs, HostPCs, TeardownPCs, TornPCs
<1>7. QED
  BY <1>1, <1>2, <1>3, <1>4, <1>5, <1>6, CallTyped

LEMMA RowVpcTyped ==
  ASSUME ProviderTypes, NEW t \in Topologies, RowVpc(t)
  PROVE  ProviderTypes'
<1> DEFINE w == NextCreate(t, "subnet", 1)
<1>1. worker[t].pc = "rowVpc" /\ Vpc(t) # 0 /\ worker[t].got["vpc"] # 0
  BY AtWork DEF RowVpc, At, PlacedAt
<1>2. Row("vpc", 0, Vpc(t)) \in Rows(nextId)
  BY <1>1, AtWork DEF Row, Rows, Kinds, Before
<1>3. /\ rows' \in [Topologies -> SUBSET Rows(nextId)] /\ active' \in [Topologies -> BOOLEAN]
      /\ \A u \in Topologies \ {t} : rows'[u] = rows[u]
  BY <1>2 DEF RowVpc, ProviderTypes
<1>4. w \in Workers(nextId) /\ w.pc = "subnet" /\ w.at = 1 /\ w.got = worker[t].got
  <2>1. "subnet" \in PCs /\ 1 \in Nat \ {0}
    BY DEF PCs, DeployPCs, SubnetPCs
  <2>2. QED
    BY <2>1, Nexts
<1>5. Local(t, w)
  BY DEF RowVpc
<1>6. 1 <= Segments[t] /\ Before(1) = {}
  BY PlanTypes DEF Before
<1> HIDE DEF w
<1>7. PlacedAt(t, w, rows'[t])
  BY <1>1, <1>4, <1>6
  DEF PlacedAt, DeployPCs, VpcPCs, SubnetPCs, HostPCs, TeardownPCs, TornPCs
<1>8. QED
  BY <1>3, <1>4, <1>5, <1>7, LocalTyped

LEMMA FindSubnetTyped ==
  ASSUME ProviderTypes, NEW t \in Topologies, FindSubnet(t)
  PROVE  ProviderTypes'
<1>1. worker[t].pc = "subnet" /\ worker[t].pc \in CreatePCs /\ worker[t].pc \in SubnetPCs
  BY DEF FindSubnet, At, CreatePCs, SubnetPCs
<1>2. ASSUME NEW x \in account, NEW g \in 0..(nextId - 1), NEW r \in 0..(nextId - 1),
             Reads(t, [worker[t] EXCEPT !.pc = "rowSubnet", !.got["subnet"] = x.id,
                                        !.got["igw"] = g, !.got["rt"] = r])
      PROVE  ProviderTypes'
  <2> DEFINE w == [worker[t] EXCEPT !.pc = "rowSubnet", !.got["subnet"] = x.id,
                                    !.got["igw"] = g, !.got["rt"] = r]
  <2>1. worker[t] \in Workers(nextId) /\ x.id \in 0..(nextId - 1) /\ x.id # 0
        /\ worker[t].got \in [Kinds -> 0..(nextId - 1)]
    BY WorkerFields, AtWork
  <2>2. "rowSubnet" \in PCs
    BY DEF PCs, DeployPCs
  <2>3. w \in Workers(nextId) /\ w.pc = "rowSubnet" /\ w.at = worker[t].at
        /\ w.got["subnet"] = x.id /\ w.got["vpc"] = worker[t].got["vpc"]
    BY <2>1, <2>2 DEF Workers, Kinds
  <2>4. Reads(t, w)
    BY <1>2
  <2> HIDE DEF w
  <2>5. PlacedAt(t, w, rows[t])
    BY <1>1, <2>1, <2>3, AtWork, SubnetMove
  <2>6. QED
    BY <1>1, <2>3, <2>4, <2>5, ReadTyped
<1>3. ASSUME Reads(t, To(t, "makeSubnet")) PROVE ProviderTypes'
  <2>1. "makeSubnet" \in SubnetPCs /\ "makeSubnet" \in PCs
    BY DEF SubnetPCs, PCs, DeployPCs
  <2>2. PlacedAt(t, To(t, "makeSubnet"), rows[t])
    BY <1>1, <2>1, Moves, AtWork, SubnetMove
  <2>3. QED
    BY <1>1, <1>3, <2>1, <2>2, Moves, ReadTyped
<1>4. \A S \in SUBSET account : OneOf(S) \subseteq 0..(nextId - 1)
  BY AtWork DEF OneOf
<1>5. /\ OneOf(Ofkind(Vpc(t), "igw")) \subseteq 0..(nextId - 1)
      /\ \A x : OneOf({y \in Ofkind(Vpc(t), "rt") : y.of = x.id}) \subseteq 0..(nextId - 1)
  BY <1>4 DEF Ofkind, In
<1>6. CloudnetSubnets(t) \subseteq account
  BY DEF CloudnetSubnets, Ofkind, In
<1>7. CASE \E x \in CloudnetSubnets(t) :
            \E g \in OneOf(Ofkind(Vpc(t), "igw")) :
              \E r \in OneOf({y \in Ofkind(Vpc(t), "rt") : y.of = x.id}) :
                Reads(t, [worker[t] EXCEPT !.pc = "rowSubnet", !.got["subnet"] = x.id,
                                           !.got["igw"] = g, !.got["rt"] = r])
  <2>1. PICK x \in CloudnetSubnets(t), g \in OneOf(Ofkind(Vpc(t), "igw")) :
          \E r \in OneOf({y \in Ofkind(Vpc(t), "rt") : y.of = x.id}) :
            Reads(t, [worker[t] EXCEPT !.pc = "rowSubnet", !.got["subnet"] = x.id,
                                       !.got["igw"] = g, !.got["rt"] = r])
    BY <1>7
  <2>2. PICK r \in OneOf({y \in Ofkind(Vpc(t), "rt") : y.of = x.id}) :
            Reads(t, [worker[t] EXCEPT !.pc = "rowSubnet", !.got["subnet"] = x.id,
                                       !.got["igw"] = g, !.got["rt"] = r])
    BY <2>1
  <2>3. x \in account /\ g \in 0..(nextId - 1) /\ r \in 0..(nextId - 1)
    BY <1>5, <1>6
  <2>4. QED
    BY <1>2, <2>2, <2>3
<1>8. QED
  BY <1>3, <1>7 DEF FindSubnet

LEMMA MakeSubnetTyped ==
  ASSUME ProviderTypes, NEW t \in Topologies, MakeSubnet(t)
  PROVE  ProviderTypes'
<1> DEFINE new == Thing(nextId, "subnet", SubnetName(t, worker[t].at), Vpc(t), 0)
<1> DEFINE w == Made(t, "gateway", "subnet")
<1>1. worker[t].pc = "makeSubnet" /\ worker[t].pc \in CreatePCs /\ worker[t].pc \in SubnetPCs
  BY DEF MakeSubnet, At, CreatePCs, SubnetPCs
<1>2. AddsTo(account \cup {new}, new) /\ AddsTo(account \cup {Tag(new)}, Tag(new))
  <2>1. "subnet" \in Kinds /\ Vpc(t) \in 0..nextId /\ 0 \in 0..(nextId - 1)
        /\ SubnetName(t, worker[t].at) \in Names
    BY AtWork, NamesOf DEF Kinds
  <2>2. new \in Things(nextId + 1) /\ Tag(new) \in Things(nextId + 1)
        /\ new.id = nextId /\ Tag(new).id = nextId
    BY <2>1, NewThing
  <2>3. QED
    BY <2>2 DEF AddsTo
<1>3. w \in Workers(nextId + 1) /\ w.pc = "gateway" /\ w.at = worker[t].at
      /\ w.got["subnet"] = nextId /\ w.got["vpc"] = worker[t].got["vpc"]
  BY Makes DEF Kinds, PCs, DeployPCs, SubnetPCs
<1>4. \A a \in {account \cup {new}} \cup {account \cup {Tag(new)}} : Change(a)
  BY <1>2 DEF Change
<1>5. Refuses(t) \/ Calls(t, {account \cup {new}}, account \cup {Tag(new)}, w)
  BY DEF MakeSubnet
<1> HIDE DEF new, w
<1>6. PlacedAt(t, w, rows[t])
  BY <1>1, <1>3, AtWork, SubnetMove DEF SubnetPCs
<1>7. QED
  BY <1>1, <1>2, <1>3, <1>4, <1>5, <1>6, CallTyped, RefusesTyped

LEMMA GatewayTyped ==
  ASSUME ProviderTypes, NEW t \in Topologies, Gateway(t)
  PROVE  ProviderTypes'
<1> DEFINE new == Thing(nextId, "igw", NoName, 0, 0)
<1> DEFINE att == [Tag(new) EXCEPT !.vpc = Vpc(t)]
<1> DEFINE m == Made(t, "table", "igw")
<1>1. worker[t].pc = "gateway" /\ worker[t].pc \in CreatePCs /\ worker[t].pc \in SubnetPCs
      /\ worker[t].got["subnet"] # 0 /\ "table" \in PCs
  BY AtWork DEF Gateway, At, CreatePCs, SubnetPCs, PlacedAt, PCs, DeployPCs
<1>2. ASSUME NEW x \in account, Reads(t, Found(t, "table", "igw", x.id))
      PROVE  ProviderTypes'
  <2> DEFINE w == Found(t, "table", "igw", x.id)
  <2>1. w \in Workers(nextId) /\ w.pc = "table" /\ w.at = worker[t].at
        /\ w.got["subnet"] = worker[t].got["subnet"] /\ w.got["vpc"] = worker[t].got["vpc"]
    BY <1>1, Finds, AtWork DEF Kinds
  <2>2. Reads(t, w)
    BY <1>2
  <2> HIDE DEF w
  <2>3. PlacedAt(t, w, rows[t])
    BY <1>1, <2>1, AtWork, SubnetMove DEF SubnetPCs
  <2>4. QED
    BY <1>1, <2>1, <2>2, <2>3, ReadTyped
<1>3. /\ AddsTo(account \cup {new}, new) /\ AddsTo(account \cup {Tag(new)}, Tag(new))
      /\ AddsTo(account \cup {att}, att)
  <2>1. "igw" \in Kinds /\ 0 \in 0..nextId /\ 0 \in 0..(nextId - 1) /\ Vpc(t) \in 0..((nextId + 1) - 1)
    BY AtWork DEF Kinds
  <2>2. new \in Things(nextId + 1) /\ Tag(new) \in Things(nextId + 1)
        /\ new.id = nextId /\ Tag(new).id = nextId
    BY <2>1, NewThing, NamesOf
  <2>3. att \in Things(nextId + 1) /\ att.id = nextId
    BY <2>1, <2>2 DEF Things
  <2> HIDE DEF new, att
  <2>4. QED
    BY <2>2, <2>3 DEF AddsTo
<1>4. m \in Workers(nextId + 1) /\ m.pc = "table" /\ m.at = worker[t].at
      /\ m.got["subnet"] = worker[t].got["subnet"] /\ m.got["vpc"] = worker[t].got["vpc"]
  BY <1>1, Makes DEF Kinds
<1>5. \A a \in {account \cup {new}, account \cup {Tag(new)}} \cup {account \cup {att}} : Change(a)
  BY <1>3 DEF Change
<1>6. \/ \E x \in account : Reads(t, Found(t, "table", "igw", x.id))
      \/ Calls(t, {account \cup {new}, account \cup {Tag(new)}}, account \cup {att}, m)
  BY DEF Gateway, Ofkind, In
<1> HIDE DEF new, att, m
<1>7. PlacedAt(t, m, rows[t])
  BY <1>1, <1>4, AtWork, SubnetMove DEF SubnetPCs
<1>8. QED
  BY <1>1, <1>2, <1>3, <1>4, <1>5, <1>6, <1>7, CallTyped

LEMMA TableTyped ==
  ASSUME ProviderTypes, NEW t \in Topologies, Table(t)
  PROVE  ProviderTypes'
<1> DEFINE new == Thing(nextId, "rt", NoName, Vpc(t), 0)
<1> DEFINE tied == [Tag(new) EXCEPT !.of = worker[t].got["subnet"]]
<1> DEFINE w == Made(t, "rowSubnet", "rt")
<1>1. worker[t].pc = "table" /\ worker[t].pc \in CreatePCs /\ worker[t].pc \in SubnetPCs
      /\ worker[t].got["subnet"] # 0 /\ "rowSubnet" \in PCs
  BY AtWork DEF Table, At, CreatePCs, SubnetPCs, PlacedAt, PCs, DeployPCs
<1>2. /\ AddsTo(account \cup {new}, new) /\ AddsTo(account \cup {Tag(new)}, Tag(new))
      /\ AddsTo(account \cup {tied}, tied)
  <2>1. "rt" \in Kinds /\ Vpc(t) \in 0..nextId /\ 0 \in 0..(nextId - 1)
        /\ worker[t].got["subnet"] \in 0..((nextId + 1) - 1)
    BY AtWork DEF Kinds
  <2>2. new \in Things(nextId + 1) /\ Tag(new) \in Things(nextId + 1)
        /\ new.id = nextId /\ Tag(new).id = nextId
    BY <2>1, NewThing, NamesOf
  <2>3. tied \in Things(nextId + 1) /\ tied.id = nextId
    BY <2>1, <2>2 DEF Things
  <2> HIDE DEF new, tied
  <2>4. QED
    BY <2>2, <2>3 DEF AddsTo
<1>3. Calls(t, {account \cup {new}, account \cup {Tag(new)}}, account \cup {tied}, w)
  BY DEF Table, Associated
<1>4. w \in Workers(nextId + 1) /\ w.pc = "rowSubnet" /\ w.at = worker[t].at
      /\ w.got["subnet"] = worker[t].got["subnet"] /\ w.got["vpc"] = worker[t].got["vpc"]
  BY <1>1, Makes DEF Kinds
<1>5. \A a \in {account \cup {new}, account \cup {Tag(new)}} \cup {account \cup {tied}} : Change(a)
  BY <1>2 DEF Change
<1> HIDE DEF new, tied, w
<1>6. PlacedAt(t, w, rows[t])
  BY <1>1, <1>4, AtWork, SubnetMove DEF SubnetPCs
<1>7. QED
  BY <1>1, <1>2, <1>3, <1>4, <1>5, <1>6, CallTyped

LEMMA RowSubnetTyped ==
  ASSUME ProviderTypes, NEW t \in Topologies, RowSubnet(t)
  PROVE  ProviderTypes'
<1> DEFINE n == worker[t].at
<1> DEFINE w == IF n < Segments[t] THEN NextCreate(t, "subnet", n + 1) ELSE NextCreate(t, "instance", 1)
<1> DEFINE more == {r \in {Row(k, n, worker[t].got[k]) : k \in {"igw", "rt"}} :
                      r.id \notin {s.id : s \in rows[t]} \cup {0}}
<1>1. worker[t].pc = "rowSubnet" /\ worker[t].got["subnet"] # 0 /\ n <= Segments[t]
      /\ worker[t].got["vpc"] # 0 /\ n \in Nat \ {0} /\ Segments[t] \in Nat \ {0}
      /\ 1 <= Len(Home[t]) /\ \A m \in Before(n) : \E r \in rows[t] : r.kind = "subnet" /\ r.at = m
  <2>1. worker[t].pc = "rowSubnet" /\ PlacedAt(t, worker[t], rows[t])
    BY AtWork DEF RowSubnet, At
  <2>2. worker[t].got["subnet"] # 0 /\ n <= Segments[t]
        /\ \A m \in Before(n) : \E r \in rows[t] : r.kind = "subnet" /\ r.at = m
    BY <2>1 DEF PlacedAt
  <2>3. worker[t].got["vpc"] # 0
    BY <2>1 DEF PlacedAt, DeployPCs
  <2>4. n \in Nat \ {0} /\ Segments[t] \in Nat \ {0} /\ 1 <= Len(Home[t])
    BY AtWork, PlanTypes
  <2>5. QED
    BY <2>1, <2>2, <2>3, <2>4
<1>2. rows'[t] = rows[t] \cup {Row("subnet", n, worker[t].got["subnet"])} \cup more
      /\ \A u \in Topologies \ {t} : rows'[u] = rows[u]
      /\ DOMAIN rows' = Topologies /\ rows' = [v \in Topologies |-> rows'[v]]
  BY DEF RowSubnet, ProviderTypes
<1>3. rows' \in [Topologies -> SUBSET Rows(nextId)] /\ active' \in [Topologies -> BOOLEAN]
  <2>1. Row("subnet", n, worker[t].got["subnet"]) \in Rows(nextId)
    BY <1>1, AtWork DEF Row, Rows, Kinds, Before
  <2>2. more \subseteq Rows(nextId)
    <3>1. \A k \in {"igw", "rt"} : worker[t].got[k] \in 0..(nextId - 1)
      BY AtWork DEF Kinds
    <3>2. \A k \in {"igw", "rt"} : worker[t].got[k] # 0 => Row(k, n, worker[t].got[k]) \in Rows(nextId)
      BY <1>1, <3>1, AtWork, SMTT(30) DEF Row, Rows, Kinds, Before
    <3>3. QED
      BY <3>2 DEF Row
  <2>3. rows'[t] \in SUBSET Rows(nextId)
    BY <1>2, <2>1, <2>2 DEF ProviderTypes
  <2>4. QED
    BY <1>2, <2>3 DEF ProviderTypes, RowSubnet
<1>4. \E r \in rows'[t] : r.kind = "subnet" /\ r.at = n
  <2>1. Row("subnet", n, worker[t].got["subnet"]) \in rows'[t]
    BY <1>2
  <2>2. QED
    BY <2>1 DEF Row
<1>5. \A m \in Before(n) : \E r \in rows'[t] : r.kind = "subnet" /\ r.at = m
  BY <1>1, <1>2
<1>6. Local(t, w)
  BY DEF RowSubnet
<1>7. CASE n < Segments[t]
  <2>1. w = NextCreate(t, "subnet", n + 1)
    BY <1>7
  <2>2. "subnet" \in PCs /\ n + 1 \in Nat \ {0} /\ n + 1 <= Segments[t]
        /\ Before(n + 1) = Before(n) \cup {n}
    BY <1>1, <1>7 DEF PCs, DeployPCs, SubnetPCs, Before
  <2>3. w \in Workers(nextId) /\ w.pc = "subnet" /\ w.at = n + 1 /\ w.got = worker[t].got
    BY <2>1, <2>2, Nexts
  <2> HIDE DEF w, n, more
  <2>4. PlacedAt(t, w, rows'[t])
    BY <1>1, <1>4, <1>5, <2>2, <2>3
    DEF PlacedAt, DeployPCs, VpcPCs, SubnetPCs, HostPCs, TeardownPCs, TornPCs
  <2>5. QED
    BY <1>2, <1>3, <1>6, <2>3, <2>4, LocalTyped
<1>8. CASE ~(n < Segments[t])
  <2>1. w = NextCreate(t, "instance", 1)
    BY <1>8
  <2>2. "instance" \in PCs /\ 1 \in Nat \ {0} /\ Before(1) = {}
        /\ 1..Segments[t] = Before(n) \cup {n}
    BY <1>1, <1>8 DEF PCs, DeployPCs, HostPCs, Before
  <2>3. w \in Workers(nextId) /\ w.pc = "instance" /\ w.at = 1 /\ w.got = worker[t].got
    BY <2>1, <2>2, Nexts
  <2> HIDE DEF w, n, more
  <2>4. PlacedAt(t, w, rows'[t])
    BY <1>1, <1>4, <1>5, <2>2, <2>3
    DEF PlacedAt, DeployPCs, VpcPCs, SubnetPCs, HostPCs, TeardownPCs, TornPCs
  <2>5. QED
    BY <1>2, <1>3, <1>6, <2>3, <2>4, LocalTyped
<1>9. QED
  BY <1>7, <1>8

\* The subnet of a host has its row.
LEMMA HomeRow ==
  ASSUME ProviderTypes, NEW t \in Topologies, worker[t].pc \in HostPCs
  PROVE  \E r \in rows[t] : /\ r.kind = "subnet" /\ r.at = Home[t][worker[t].at]
                            /\ r.id = HomeSubnet(t) /\ r \in Rows(nextId)
<1>1. worker[t].at \in DOMAIN Home[t]
  <2>1. worker[t].at <= Len(Home[t])
    BY AtWork DEF PlacedAt
  <2>2. QED
    BY <2>1, AtWork, PlanTypes
<1>2. \E r \in rows[t] : r.kind = "subnet" /\ r.at = Home[t][worker[t].at]
  BY <1>1, AtWork, PlanTypes DEF PlacedAt
<1>3. rows[t] \subseteq Rows(nextId)
  BY WorkerFields
<1>4. QED
  BY <1>2, <1>3 DEF HomeSubnet

LEMMA FindInstanceTyped ==
  ASSUME ProviderTypes, NEW t \in Topologies, FindInstance(t)
  PROVE  ProviderTypes'
<1>1. worker[t].pc = "instance" /\ worker[t].pc \in CreatePCs /\ worker[t].pc \in HostPCs
  BY DEF FindInstance, At, CreatePCs, HostPCs
<1>2. ASSUME NEW x \in account, NEW g \in 0..(nextId - 1),
             Reads(t, [worker[t] EXCEPT !.pc = "rowInstance", !.got["instance"] = x.id,
                                        !.got["sg"] = g])
      PROVE  ProviderTypes'
  <2> DEFINE w == [worker[t] EXCEPT !.pc = "rowInstance", !.got["instance"] = x.id,
                                    !.got["sg"] = g]
  <2>1. worker[t] \in Workers(nextId) /\ x.id \in 0..(nextId - 1) /\ x.id # 0
        /\ worker[t].got \in [Kinds -> 0..(nextId - 1)]
    BY WorkerFields, AtWork
  <2>2. "rowInstance" \in PCs
    BY DEF PCs, DeployPCs
  <2>3. w \in Workers(nextId) /\ w.pc = "rowInstance" /\ w.at = worker[t].at
        /\ w.got["instance"] = x.id /\ w.got["vpc"] = worker[t].got["vpc"]
    BY <2>1, <2>2 DEF Workers, Kinds
  <2>4. Reads(t, w)
    BY <1>2
  <2> HIDE DEF w
  <2>5. PlacedAt(t, w, rows[t])
    BY <1>1, <2>1, <2>3, AtWork, HostMove
  <2>6. QED
    BY <1>1, <2>3, <2>4, <2>5, ReadTyped
<1>3. ASSUME Reads(t, To(t, "group")) PROVE ProviderTypes'
  <2>1. "group" \in HostPCs /\ "group" \in PCs
    BY DEF HostPCs, PCs, DeployPCs
  <2>2. PlacedAt(t, To(t, "group"), rows[t])
    BY <1>1, <2>1, Moves, AtWork, HostMove
  <2>3. QED
    BY <1>1, <1>3, <2>1, <2>2, Moves, ReadTyped
<1>4. OneOf(Groups(t)) \cup {0} \subseteq 0..(nextId - 1)
  BY AtWork DEF OneOf, Groups, Ofkind, In
<1>5. CloudnetInstances(t) \subseteq account
  BY DEF CloudnetInstances, Ofkind, In
<1>6. CASE \E x \in CloudnetInstances(t) :
            \E g \in OneOf(Groups(t)) \cup (IF x.up THEN {} ELSE {0}) :
              Reads(t, [worker[t] EXCEPT !.pc = "rowInstance", !.got["instance"] = x.id,
                                         !.got["sg"] = g])
  BY <1>2, <1>4, <1>5, <1>6
<1>7. QED
  BY <1>3, <1>6 DEF FindInstance

LEMMA GroupTyped ==
  ASSUME ProviderTypes, NEW t \in Topologies, Group(t)
  PROVE  ProviderTypes'
<1> DEFINE new == Thing(nextId, "sg", GroupName, Vpc(t), 0)
<1> DEFINE m == Made(t, "run", "sg")
<1>1. worker[t].pc = "group" /\ worker[t].pc \in CreatePCs /\ worker[t].pc \in HostPCs /\ "run" \in PCs
  BY DEF Group, At, CreatePCs, HostPCs, PCs, DeployPCs
<1>2. ASSUME NEW x \in account, Reads(t, Found(t, "run", "sg", x.id))
      PROVE  ProviderTypes'
  <2> DEFINE w == Found(t, "run", "sg", x.id)
  <2>1. w \in Workers(nextId) /\ w.pc = "run" /\ w.at = worker[t].at
        /\ w.got["vpc"] = worker[t].got["vpc"]
    BY <1>1, Finds, AtWork DEF Kinds
  <2>2. Reads(t, w)
    BY <1>2
  <2> HIDE DEF w
  <2>3. PlacedAt(t, w, rows[t])
    BY <1>1, <2>1, AtWork, HostMove DEF HostPCs
  <2>4. QED
    BY <1>1, <2>1, <2>2, <2>3, ReadTyped
<1>3. AddsTo(account \cup {new}, new) /\ AddsTo(account \cup {Tag(new)}, Tag(new))
  <2>1. "sg" \in Kinds /\ Vpc(t) \in 0..nextId /\ 0 \in 0..(nextId - 1)
    BY AtWork DEF Kinds
  <2>2. new \in Things(nextId + 1) /\ Tag(new) \in Things(nextId + 1)
        /\ new.id = nextId /\ Tag(new).id = nextId
    BY <2>1, NewThing, NamesOf
  <2>3. QED
    BY <2>2 DEF AddsTo
<1>4. m \in Workers(nextId + 1) /\ m.pc = "run" /\ m.at = worker[t].at
      /\ m.got["vpc"] = worker[t].got["vpc"]
  BY <1>1, Makes DEF Kinds
<1>5. \A a \in {account \cup {new}} \cup {account \cup {Tag(new)}} : Change(a)
  BY <1>3 DEF Change
<1>6. \/ \E x \in account : Reads(t, Found(t, "run", "sg", x.id))
      \/ Calls(t, {account \cup {new}}, account \cup {Tag(new)}, m)
  BY DEF Group, Groups, Ofkind, In
<1> HIDE DEF new, m
<1>7. PlacedAt(t, m, rows[t])
  BY <1>1, <1>4, AtWork, HostMove DEF HostPCs
<1>8. QED
  BY <1>1, <1>2, <1>3, <1>4, <1>5, <1>6, <1>7, CallTyped

LEMMA RunTyped ==
  ASSUME ProviderTypes, NEW t \in Topologies, Run(t)
  PROVE  ProviderTypes'
<1> DEFINE new == Thing(nextId, "instance", HostName(worker[t].at), Vpc(t), HomeSubnet(t))
<1> DEFINE w == Made(t, "rowInstance", "instance")
<1>1. worker[t].pc = "run" /\ worker[t].pc \in CreatePCs /\ worker[t].pc \in HostPCs
      /\ "rowInstance" \in PCs /\ nextId \in Nat \ {0}
  BY AtWork DEF Run, At, CreatePCs, HostPCs, PCs, DeployPCs
<1>2. AddsTo(account \cup {Tag(new)}, Tag(new))
  <2>1. HomeSubnet(t) \in 0..(nextId - 1)
    BY <1>1, HomeRow DEF Rows, Before
  <2>2. "instance" \in Kinds /\ Vpc(t) \in 0..nextId /\ HostName(worker[t].at) \in Names
    BY AtWork, NamesOf DEF Kinds
  <2>3. Tag(new) \in Things(nextId + 1) /\ Tag(new).id = nextId
    BY <2>1, <2>2, NewThing
  <2>4. QED
    BY <2>3 DEF AddsTo
<1>3. Calls(t, {}, account \cup {Tag(new)}, w)
  BY DEF Run
<1>4. w \in Workers(nextId + 1) /\ w.pc = "rowInstance" /\ w.at = worker[t].at
      /\ w.got["instance"] = nextId /\ w.got["vpc"] = worker[t].got["vpc"]
  BY <1>1, Makes DEF Kinds
<1>5. \A a \in {} \cup {account \cup {Tag(new)}} : Change(a)
  BY <1>2 DEF Change
<1> HIDE DEF new, w
<1>6. PlacedAt(t, w, rows[t])
  BY <1>1, <1>4, AtWork, HostMove
<1>7. QED
  BY <1>1, <1>2, <1>3, <1>4, <1>5, <1>6, CallTyped

LEMMA RowInstanceTyped ==
  ASSUME ProviderTypes, NEW t \in Topologies, RowInstance(t)
  PROVE  ProviderTypes'
<1> DEFINE n == worker[t].at
<1> DEFINE w == IF n + 1 \in DOMAIN Home[t] THEN NextCreate(t, "instance", n + 1)
                ELSE NextCreate(t, "firewall", 1)
<1> DEFINE more == {r \in {Row("sg", 0, worker[t].got["sg"])} :
                      r.id \notin {s.id : s \in rows[t]} \cup {0}}
<1>1. worker[t].pc = "rowInstance" /\ worker[t].got["instance"] # 0 /\ n <= Len(Home[t])
      /\ worker[t].got["vpc"] # 0 /\ n \in Nat \ {0} /\ DOMAIN Home[t] = 1..Len(Home[t])
      /\ Len(Home[t]) \in Nat \ {0}
      /\ (\A m \in Before(n) : \E r \in rows[t] : r.kind = "instance" /\ r.at = m)
      /\ (\A m \in 1..Segments[t] : \E r \in rows[t] : r.kind = "subnet" /\ r.at = m)
  BY AtWork, PlanTypes DEF RowInstance, At, PlacedAt, DeployPCs
<1>2. rows'[t] = rows[t] \cup more \cup {Row("instance", n, worker[t].got["instance"])}
      /\ \A u \in Topologies \ {t} : rows'[u] = rows[u]
      /\ DOMAIN rows' = Topologies /\ rows' = [v \in Topologies |-> rows'[v]]
  BY DEF RowInstance, ProviderTypes
<1>3. rows' \in [Topologies -> SUBSET Rows(nextId)] /\ active' \in [Topologies -> BOOLEAN]
  <2>1. Row("instance", n, worker[t].got["instance"]) \in Rows(nextId)
    BY <1>1, AtWork DEF Row, Rows, Kinds, Before
  <2>2. more \subseteq Rows(nextId)
    <3>1. worker[t].got["sg"] \in 0..(nextId - 1)
      BY AtWork DEF Kinds
    <3>2. worker[t].got["sg"] # 0 => Row("sg", 0, worker[t].got["sg"]) \in Rows(nextId)
      BY <1>1, <3>1, AtWork DEF Row, Rows, Kinds, Before
    <3>3. QED
      BY <3>2 DEF Row
  <2>3. rows'[t] \in SUBSET Rows(nextId)
    BY <1>2, <2>1, <2>2 DEF ProviderTypes
  <2>4. QED
    BY <1>2, <2>3 DEF ProviderTypes, RowInstance
<1>4. \E r \in rows'[t] : r.kind = "instance" /\ r.at = n
  <2>1. Row("instance", n, worker[t].got["instance"]) \in rows'[t]
    BY <1>2
  <2>2. QED
    BY <2>1 DEF Row
<1>5. /\ \A m \in Before(n) : \E r \in rows'[t] : r.kind = "instance" /\ r.at = m
      /\ \A m \in 1..Segments[t] : \E r \in rows'[t] : r.kind = "subnet" /\ r.at = m
  BY <1>1, <1>2
<1>6. Local(t, w)
  BY DEF RowInstance
<1>7. CASE n + 1 \in DOMAIN Home[t]
  <2>1. w = NextCreate(t, "instance", n + 1)
    BY <1>7
  <2>2. "instance" \in PCs /\ n + 1 \in Nat \ {0} /\ n + 1 <= Len(Home[t])
        /\ Before(n + 1) = Before(n) \cup {n}
    BY <1>1, <1>7 DEF PCs, DeployPCs, HostPCs, Before
  <2>3. w \in Workers(nextId) /\ w.pc = "instance" /\ w.at = n + 1 /\ w.got = worker[t].got
    BY <2>1, <2>2, Nexts
  <2> HIDE DEF w, n, more
  <2>4. PlacedAt(t, w, rows'[t])
    BY <1>1, <1>4, <1>5, <2>2, <2>3
    DEF PlacedAt, DeployPCs, VpcPCs, SubnetPCs, HostPCs, TeardownPCs, TornPCs
  <2>5. QED
    BY <1>2, <1>3, <1>6, <2>3, <2>4, LocalTyped
<1>8. CASE ~(n + 1 \in DOMAIN Home[t])
  <2>1. w = NextCreate(t, "firewall", 1)
    BY <1>8
  <2>2. "firewall" \in PCs /\ 1 \in Nat \ {0} /\ DOMAIN Home[t] = Before(n) \cup {n}
    BY <1>1, <1>8 DEF PCs, DeployPCs, HostPCs, Before
  <2>3. w \in Workers(nextId) /\ w.pc = "firewall" /\ w.at = 1 /\ w.got = worker[t].got
    BY <2>1, <2>2, Nexts
  <2> HIDE DEF w, n, more
  <2>4. \A m \in DOMAIN Home[t] : \E r \in rows'[t] : r.kind = "instance" /\ r.at = m
    BY <1>4, <1>5, <2>2
  <2>5. PlacedAt(t, w, rows'[t])
    BY <1>1, <1>5, <2>3, <2>4
    DEF PlacedAt, DeployPCs, VpcPCs, SubnetPCs, HostPCs, TeardownPCs, TornPCs
  <2>6. QED
    BY <1>2, <1>3, <1>6, <2>3, <2>5, LocalTyped
<1>9. QED
  BY <1>7, <1>8

LEMMA FirewallTyped ==
  ASSUME ProviderTypes, NEW t \in Topologies, Firewall(t),
         \A x \in account : Row("sg", 0, x.id) \in rows[t] => x.kind = "sg"
  PROVE  ProviderTypes'
<1> DEFINE group == {x \in account : Row("sg", 0, x.id) \in rows[t]}
<1> DEFINE whole == (account \ group) \cup {[x EXCEPT !.up = TRUE] : x \in group}
<1> DEFINE w == To(t, "active")
<1>1. worker[t].pc = "firewall"
  BY DEF Firewall, At
<1>2. group \in SUBSET account /\ \A x \in group : x.kind = IF TRUE THEN "sg" ELSE "instance"
  OBVIOUS
<1>3. Thins(whole)
  BY <1>2, UpThins
<1>4. \A a \in {} \cup {whole} : Change(a)
  BY <1>3 DEF Change
<1>5. w \in Workers(nextId) /\ w.pc = "active" /\ w.at = worker[t].at /\ w.got = worker[t].got
  BY Moves DEF PCs, DeployPCs
<1>6. Refuses(t) \/ Calls(t, {}, whole, w)
  BY DEF Firewall
<1> HIDE DEF group, whole, w
<1>7. PlacedAt(t, w, rows[t])
  <2>1. /\ worker[t].at = 1 /\ worker[t].got["vpc"] # 0
        /\ \A n \in 1..Segments[t] : \E r \in rows[t] : r.kind = "subnet" /\ r.at = n
        /\ \A n \in DOMAIN Home[t] : \E r \in rows[t] : r.kind = "instance" /\ r.at = n
    BY <1>1, AtWork DEF PlacedAt, DeployPCs, SubnetPCs, HostPCs
  <2>2. QED
    BY <1>5, <2>1 DEF PlacedAt, SubnetPCs, HostPCs
<1>8. CASE Refuses(t)
  BY <1>1, <1>8, RefusesTyped
<1>9. CASE Calls(t, {}, whole, w)
  BY <1>1, <1>4, <1>5, <1>7, <1>9, CallTyped
<1>10. QED
  BY <1>6, <1>8, <1>9

LEMMA ActivateTyped ==
  ASSUME ProviderTypes, NEW t \in Topologies, Activate(t)
  PROVE  ProviderTypes'
<1>1. Resting \in Workers(nextId)
  BY AtWork, RestingTyped, RestingPlaced
<1>2. PlacedAt(t, Resting, rows'[t])
  BY RestingPlaced
<1>3. /\ rows' \in [Topologies -> SUBSET Rows(nextId)] /\ active' \in [Topologies -> BOOLEAN]
      /\ \A u \in Topologies \ {t} : rows'[u] = rows[u]
  BY DEF Activate, ProviderTypes
<1>4. QED
  BY <1>1, <1>2, <1>3, LocalTyped DEF Activate

-----------------------------------------------------------------------------
(* Types: the teardown *)

LEMMA ListRowsTyped ==
  ASSUME ProviderTypes, NEW t \in Topologies, ListRows(t)
  PROVE  ProviderTypes'
<1>1. /\ rows' \in [Topologies -> SUBSET Rows(nextId)] /\ active' \in [Topologies -> BOOLEAN]
      /\ \A u \in Topologies \ {t} : rows'[u] = rows[u]
  BY DEF ListRows, ProviderTypes
<1>2. CASE Local(t, Resting)
  <2>1. Resting \in Workers(nextId) /\ PlacedAt(t, Resting, rows'[t])
    BY AtWork, RestingTyped, RestingPlaced
  <2>2. QED
    BY <1>1, <1>2, <2>1, LocalTyped
<1>3. ASSUME NEW r \in rows[t], Local(t, Found(t, "checkVpc", "vpc", r.id)) PROVE ProviderTypes'
  <2> DEFINE w == Found(t, "checkVpc", "vpc", r.id)
  <2>1. r.id \in 0..(nextId - 1) /\ r.id # 0
    <3>1. r \in Rows(nextId)
      BY WorkerFields
    <3>2. QED
      BY <3>1, AtWork DEF Rows, Before
  <2>2. w \in Workers(nextId) /\ w.pc = "checkVpc" /\ w.at = worker[t].at /\ w.got["vpc"] = r.id
    <3>1. "vpc" \in Kinds /\ "checkVpc" \in PCs
      BY DEF Kinds, PCs
    <3>2. QED
      BY <2>1, <3>1, Finds
  <2>3. Local(t, w)
    BY <1>3
  <2>4. worker[t].at = 1
    BY AtWork DEF ListRows, At, PlacedAt, SubnetPCs, HostPCs
  <2> HIDE DEF w
  <2>5. PlacedAt(t, w, rows'[t])
    BY <2>1, <2>2, <2>4 DEF PlacedAt, DeployPCs, VpcPCs, SubnetPCs, HostPCs, TeardownPCs, TornPCs
  <2>6. QED
    BY <1>1, <2>2, <2>3, <2>5, LocalTyped
<1>4. QED
  BY <1>2, <1>3 DEF ListRows

\* A step of a teardown that goes on, or is refused.
LEMMA TeardownTyped ==
  ASSUME ProviderTypes, NEW t \in Topologies, worker[t].pc \in TeardownPCs \cup {"checkVpc"},
         NEW partial, NEW whole, NEW w, Refuses(t) \/ Calls(t, partial, whole, w),
         \A a \in partial \cup {whole} : Thins(a),
         w \in Workers(nextId), w.pc \in TeardownPCs, w.at = worker[t].at,
         w.got["vpc"] = worker[t].got["vpc"]
  PROVE  ProviderTypes'
<1>1. PlacedAt(t, w, rows[t])
  BY AtWork, TeardownMove
<1>2. \A a \in partial \cup {whole} : Change(a)
  BY DEF Change
<1>3. QED
  BY <1>1, <1>2, CallTyped, RefusesTyped

LEMMA ReadOrRefusedTyped ==
  ASSUME ProviderTypes, NEW t \in Topologies, worker[t].pc \in TeardownPCs \cup {"checkVpc"},
         NEW w, Refuses(t) \/ Reads(t, w),
         w \in Workers(nextId), w.pc \in TeardownPCs, w.at = worker[t].at,
         w.got["vpc"] = worker[t].got["vpc"]
  PROVE  ProviderTypes'
<1>1. Refuses(t) \/ Calls(t, {}, account, w)
  BY DEF Reads
<1>2. \A a \in {} \cup {account} : Thins(a)
  BY KeptThins
<1>3. QED
  BY <1>1, <1>2, TeardownTyped

LEMMA NextStageTyped ==
  ASSUME ProviderTypes, NEW t \in Topologies, worker[t].pc \in TeardownPCs,
         NEW w, Local(t, w), UNCHANGED <<rows, active>>,
         w \in Workers(nextId), w.pc \in TeardownPCs, w.at = worker[t].at,
         w.got["vpc"] = worker[t].got["vpc"]
  PROVE  ProviderTypes'
<1>1. PlacedAt(t, w, rows'[t])
  BY AtWork, TeardownMove
<1>2. /\ rows' \in [Topologies -> SUBSET Rows(nextId)] /\ active' \in [Topologies -> BOOLEAN]
      /\ \A u \in Topologies \ {t} : rows'[u] = rows[u]
  BY DEF ProviderTypes
<1>3. QED
  BY <1>1, <1>2, LocalTyped

LEMMA SomeIds ==
  ASSUME ProviderTypes, NEW S \in SUBSET account
  PROVE  {x.id : x \in S} \in SUBSET Before(nextId)
BY AtWork DEF ProviderTypes, Things

\* The places of a teardown.
LEMMA TeardownPlaces ==
  /\ TeardownPCs \subseteq PCs
  /\ TeardownPCs = {"instances", "await", "groups", "listTables", "tables", "listGateways", "gateways",
                    "listSubnets", "subnets", "deleteVpc"}
BY DEF PCs, TeardownPCs, TornPCs

LEMMA CheckVpcTyped ==
  ASSUME ProviderTypes, NEW t \in Topologies, CheckVpc(t)
  PROVE  ProviderTypes'
<1>1. Refuses(t) \/ Reads(t, To(t, "instances"))
  BY DEF CheckVpc
<1>2. worker[t].pc = "checkVpc" /\ "instances" \in TeardownPCs /\ "instances" \in PCs
  BY TeardownPlaces DEF CheckVpc, At
<1>3. QED
  BY <1>1, <1>2, Moves, ReadOrRefusedTyped

LEMMA TerminateTyped ==
  ASSUME ProviderTypes, NEW t \in Topologies, Terminate(t)
  PROVE  ProviderTypes'
<1> DEFINE listed == {x \in Ofkind(Vpc(t), "instance") : x.up}
<1> DEFINE whole == (account \ listed) \cup {[x EXCEPT !.up = FALSE] : x \in listed}
<1> DEFINE w == [To(t, "await") EXCEPT !.left = {x.id : x \in listed}]
<1>1. Refuses(t) \/ Calls(t, {}, whole, w)
  BY DEF Terminate, Awaited
<1>2. worker[t].pc = "instances" /\ "instances" \in TeardownPCs /\ "await" \in TeardownPCs /\ "await" \in PCs
  BY TeardownPlaces DEF Terminate, At
<1>3. listed \in SUBSET account /\ \A x \in listed : x.kind = IF FALSE THEN "sg" ELSE "instance"
  BY DEF Ofkind, In
<1>4. w \in Workers(nextId) /\ w.pc = "await" /\ w.at = worker[t].at /\ w.got = worker[t].got
  <2>1. {x.id : x \in listed} \in SUBSET Before(nextId)
    BY <1>3, SomeIds
  <2> HIDE DEF listed
  <2>2. QED
    BY <1>2, <2>1, Listed
<1>5. Thins(whole)
  BY <1>3, UpThins
<1>6. \A a \in {} \cup {whole} : Thins(a)
  BY <1>5
<1> HIDE DEF listed, whole, w
<1>7. QED
  BY <1>1, <1>2, <1>4, <1>6, TeardownTyped

LEMMA AwaitTyped ==
  ASSUME ProviderTypes, NEW t \in Topologies, Await(t)
  PROVE  ProviderTypes'
<1> DEFINE w == [To(t, "groups") EXCEPT !.left = {}]
<1>1. worker[t].pc = "await" /\ "await" \in TeardownPCs /\ "groups" \in TeardownPCs /\ "groups" \in PCs
  BY TeardownPlaces DEF Await, At
<1>2. w \in Workers(nextId) /\ w.pc = "groups" /\ w.at = worker[t].at /\ w.got = worker[t].got
  BY <1>1, Listed
<1>3. CASE Reads(t, w)
  <2> HIDE DEF w
  <2>1. QED
    BY <1>1, <1>2, <1>3, ReadOrRefusedTyped
<1>4. CASE faults' = faults + 1 /\ UNCHANGED <<account, nextId, rows, active, foreign, requests>>
           /\ Raises(t, FALSE)
  <2>1. Change(account')
    BY <1>4, KeptThins DEF Change
  <2>2. Numbered
    BY <1>4, AtWork DEF Numbered, Before
  <2>3. {faults', foreign', requests'} \subseteq Nat
    BY <1>4 DEF ProviderTypes
  <2>4. QED
    BY <1>1, <1>4, <2>1, <2>2, <2>3, RaisesTyped
<1>5. QED
  BY <1>3, <1>4 DEF Await

LEMMA DeleteGroupTyped ==
  ASSUME ProviderTypes, NEW t \in Topologies, DeleteGroup(t)
  PROVE  ProviderTypes'
<1> DEFINE w == To(t, "listTables")
<1>1. worker[t].pc = "groups" /\ "groups" \in TeardownPCs /\ "listTables" \in TeardownPCs
      /\ "listTables" \in PCs
  BY TeardownPlaces DEF DeleteGroup, At
<1>2. w \in Workers(nextId) /\ w.pc = "listTables" /\ w.at = worker[t].at /\ w.got = worker[t].got
  BY <1>1, Moves
<1>3. Refuses(t) \/ Reads(t, w) \/ \E x \in account : Calls(t, {}, account \ {x}, w)
  BY DEF DeleteGroup, Groups, Ofkind, In
<1> HIDE DEF w
<1>4. ASSUME NEW x, Calls(t, {}, account \ {x}, w) PROVE ProviderTypes'
  <2>1. \A a \in {} \cup {account \ {x}} : Thins(a)
    BY LessThins
  <2>2. QED
    BY <1>1, <1>2, <1>4, <2>1, TeardownTyped
<1>5. QED
  BY <1>1, <1>2, <1>3, <1>4, ReadOrRefusedTyped

\* The loops over route tables, gateways and subnets begin with a listing.
LEMMA ListTyped ==
  ASSUME ProviderTypes, NEW t \in Topologies, ListTables(t) \/ ListGateways(t) \/ ListSubnets(t)
  PROVE  ProviderTypes'
<1>1. PICK S \in SUBSET account, pc \in {"tables", "gateways", "subnets"} :
          Refuses(t) \/ Reads(t, [To(t, pc) EXCEPT !.left = {x.id : x \in S}])
  <2>1. CASE ListTables(t)
    BY <2>1 DEF ListTables, Cloudnets, Ofkind, In
  <2>2. CASE ListGateways(t)
    BY <2>2 DEF ListGateways, Cloudnets, Ofkind, In
  <2>3. CASE ListSubnets(t)
    BY <2>3 DEF ListSubnets, Ofkind, In
  <2>4. QED
    BY <2>1, <2>2, <2>3
<1>2. worker[t].pc \in TeardownPCs /\ pc \in TeardownPCs /\ pc \in PCs
  BY TeardownPlaces DEF ListTables, ListGateways, ListSubnets, At
<1> DEFINE w == [To(t, pc) EXCEPT !.left = {x.id : x \in S}]
<1>3. w \in Workers(nextId) /\ w.pc = pc /\ w.at = worker[t].at /\ w.got = worker[t].got
  <2>1. {x.id : x \in S} \in SUBSET Before(nextId)
    BY SomeIds
  <2>2. QED
    BY <1>2, <2>1, Listed
<1>4. Refuses(t) \/ Reads(t, w)
  BY <1>1
<1> HIDE DEF w
<1>5. QED
  BY <1>2, <1>3, <1>4, ReadOrRefusedTyped

\* One turn of such a loop, or its end.
LEMMA LoopTyped ==
  ASSUME ProviderTypes, NEW t \in Topologies,
         DeleteTable(t) \/ DeleteGateway(t) \/ DeleteSubnet(t),
         At(t, "tables") \/ At(t, "gateways") =>
           \A x \in account : x.id \in worker[t].left => x.kind = IF At(t, "tables") THEN "rt" ELSE "igw"
  PROVE  ProviderTypes'
<1>1. worker[t].pc \in TeardownPCs
  BY TeardownPlaces DEF DeleteTable, DeleteGateway, DeleteSubnet, At
<1>2. ASSUME NEW pc \in {"listGateways", "listSubnets", "deleteVpc"},
             Local(t, To(t, pc)), UNCHANGED <<rows, active>>
      PROVE  ProviderTypes'
  <2>1. pc \in TeardownPCs /\ pc \in PCs
    BY TeardownPlaces
  <2>2. QED
    BY <1>1, <1>2, <2>1, Moves, NextStageTyped
<1>3. ASSUME NEW x \in account, x.id \in worker[t].left, NEW partial,
             \A a \in partial : Thins(a),
             Calls(t, partial, account \ {x}, [worker[t] EXCEPT !.left = @ \ {x.id}])
      PROVE  ProviderTypes'
  <2> DEFINE w == [worker[t] EXCEPT !.left = @ \ {x.id}]
  <2>1. w \in Workers(nextId) /\ w.pc = worker[t].pc /\ w.at = worker[t].at /\ w.got = worker[t].got
    BY Strikes
  <2>2. Calls(t, partial, account \ {x}, w)
    BY <1>3
  <2>3. \A a \in partial \cup {account \ {x}} : Thins(a)
    BY <1>3, LessThins
  <2> HIDE DEF w
  <2>4. QED
    BY <1>1, <2>1, <2>2, <2>3, TeardownTyped
<1>4. CASE Refuses(t)
  BY <1>1, <1>4, RefusesTyped
<1>5. CASE DeleteTable(t)
  <2>1. ASSUME NEW x \in account, x.id \in worker[t].left
        PROVE  \A a \in {(account \ {x}) \cup {[x EXCEPT !.of = 0]}} : Thins(a)
    BY <1>5, <2>1, LooseThins DEF DeleteTable
  <2>2. \/ Local(t, To(t, "listGateways")) /\ UNCHANGED <<rows, active>>
        \/ \E x \in account :
            /\ x.id \in worker[t].left
            /\ Calls(t, {(account \ {x}) \cup {[x EXCEPT !.of = 0]}}, account \ {x},
                     [worker[t] EXCEPT !.left = @ \ {x.id}])
    BY <1>5 DEF DeleteTable
  <2>3. ASSUME NEW x \in account, x.id \in worker[t].left,
               Calls(t, {(account \ {x}) \cup {[x EXCEPT !.of = 0]}}, account \ {x},
                     [worker[t] EXCEPT !.left = @ \ {x.id}])
        PROVE  ProviderTypes'
    BY <1>3, <2>1, <2>3
  <2>4. QED
    BY <1>2, <2>2, <2>3
<1>6. CASE DeleteGateway(t)
  <2>1. ASSUME NEW x \in account, x.id \in worker[t].left
        PROVE  \A a \in {(account \ {x}) \cup {[x EXCEPT !.vpc = 0]}} : Thins(a)
    BY <1>6, <2>1, LooseThins DEF DeleteGateway, At
  <2>2. QED
    BY <1>2, <1>3, <1>4, <1>6, <2>1, ZenonT(60) DEF DeleteGateway
<1>7. CASE DeleteSubnet(t)
  <2>1. \/ Local(t, To(t, "deleteVpc")) /\ UNCHANGED <<rows, active>>
        \/ Refuses(t)
        \/ \E x \in account :
            /\ x.id \in worker[t].left
            /\ Calls(t, {}, account \ {x}, [worker[t] EXCEPT !.left = @ \ {x.id}])
    BY <1>7 DEF DeleteSubnet
  <2>2. ASSUME NEW x \in account, x.id \in worker[t].left,
               Calls(t, {}, account \ {x}, [worker[t] EXCEPT !.left = @ \ {x.id}])
        PROVE  ProviderTypes'
    <3>1. \A a \in {} : Thins(a)
      OBVIOUS
    <3>2. QED
      BY <1>3, <2>2, <3>1
  <2>3. QED
    BY <1>2, <1>4, <2>1, <2>2
<1>8. QED
  BY <1>5, <1>6, <1>7

LEMMA DeleteVpcTyped ==
  ASSUME ProviderTypes, NEW t \in Topologies, DeleteVpc(t)
  PROVE  ProviderTypes'
<1>1. Refuses(t) \/ Calls(t, {}, account \ With(Vpc(t)), [Resting EXCEPT !.pc = "drop"])
  BY DEF DeleteVpc
<1>2. worker[t].pc \in TeardownPCs
  BY TeardownPlaces DEF DeleteVpc, At
<1>3. \A a \in {} \cup {account \ With(Vpc(t))} : Change(a)
  BY LessThins DEF Change
<1>4. [Resting EXCEPT !.pc = "drop"] \in Workers(nextId)
      /\ PlacedAt(t, [Resting EXCEPT !.pc = "drop"], rows[t])
  BY AtWork, RestingTyped, RestingPlaced
<1>5. QED
  BY <1>1, <1>2, <1>3, <1>4, CallTyped, RefusesTyped

LEMMA DropRowsTyped ==
  ASSUME ProviderTypes, NEW t \in Topologies, DropRows(t)
  PROVE  ProviderTypes'
<1>1. Resting \in Workers(nextId) /\ PlacedAt(t, Resting, rows'[t])
  BY AtWork, RestingTyped, RestingPlaced
<1>2. /\ rows' \in [Topologies -> SUBSET Rows(nextId)] /\ active' \in [Topologies -> BOOLEAN]
      /\ \A u \in Topologies \ {t} : rows'[u] = rows[u]
  BY DEF DropRows, ProviderTypes
<1>3. QED
  BY <1>1, <1>2, LocalTyped DEF DropRows

-----------------------------------------------------------------------------
(* Types: AWS and strangers *)

\* What is not of a handler leaves them where they are.
LEMMA OutsideTyped ==
  ASSUME ProviderTypes, UNCHANGED <<worker, rows, active, cut>>,
         nextId' \in {nextId, nextId + 1},
         account' \subseteq Things(nextId'), \A x, y \in account' : x.id = y.id => x = y,
         {faults', foreign', requests'} \subseteq Nat
  PROVE  ProviderTypes'
<1>1. nextId' \in Nat \ {0} /\ Workers(nextId) \subseteq Workers(nextId')
      /\ Before(nextId) \subseteq Before(nextId') /\ Rows(nextId) \subseteq Rows(nextId')
  BY MoreIds DEF ProviderTypes
<1>2. worker' \in [Topologies -> Workers(nextId')] /\ rows' \in [Topologies -> SUBSET Rows(nextId')]
  BY <1>1 DEF ProviderTypes
<1>3. \A u \in Topologies : Placed(u)'
  <2>1. \A u \in Topologies : PlacedAt(u, worker'[u], rows'[u])
    BY DEF ProviderTypes, Placed
  <2>2. QED
    BY <2>1 DEF Placed, PlacedAt
<1>4. QED
  BY <1>1, <1>2, <1>3 DEF ProviderTypes

LEMMA TerminatedTyped ==
  ASSUME ProviderTypes, Terminated
  PROVE  ProviderTypes'
<1>1. nextId' \in {nextId, nextId + 1} /\ account' \subseteq account
  BY DEF Terminated
<1>2. account' \subseteq Things(nextId') /\ \A x, y \in account' : x.id = y.id => x = y
  BY <1>1 DEF ProviderTypes, Terminated
<1>3. {faults', foreign', requests'} \subseteq Nat
  BY DEF ProviderTypes, Terminated
<1>4. QED
  BY <1>1, <1>2, <1>3, OutsideTyped DEF Terminated

\* What a stranger makes.
Strange(new) ==
    /\ account' = account \cup {new} /\ nextId' = nextId + 1 /\ new.id = nextId
    /\ new \in Things(nextId + 1) /\ ~new.ours /\ ~new.tagged /\ Shaped(new) /\ new.up = (new.kind = "instance")
    /\ \E v \in account : v.kind = "vpc" /\ v.id = new.vpc
    /\ IF new.kind = "instance"
       THEN \E s \in account : s.kind = "subnet" /\ s.id = new.of /\ s.vpc = new.vpc
       ELSE new.of = 0

LEMMA StrangerMakes ==
  ASSUME ProviderTypes, Stranger
  PROVE  \E new : Strange(new)
<1>1. PICK v \in account : v.kind = "vpc" /\
         \/ \E k \in {"subnet", "rt"} :
              account' = account \cup {[Thing(nextId, k, NoName, v.id, 0) EXCEPT !.ours = FALSE]}
         \/ \E s \in Ofkind(v.id, "subnet") :
              account' = account \cup
                {[Thing(nextId, "instance", NoName, v.id, s.id) EXCEPT !.ours = FALSE]}
  BY DEF Stranger
<1>2. v.id \in 0..nextId /\ nextId' = nextId + 1 /\ NoName \in Names
  BY DEF Stranger, ProviderTypes, Things, Before, Names
<1>3. ASSUME NEW k \in Kinds, NEW o \in 0..(nextId - 1),
             k \in {"subnet", "rt"} => o = 0,
             k = "instance" => \E s \in account : s.kind = "subnet" /\ s.id = o /\ s.vpc = v.id,
             k \in {"subnet", "rt", "instance"},
             account' = account \cup {[Thing(nextId, k, NoName, v.id, o) EXCEPT !.ours = FALSE]}
      PROVE  \E new : Strange(new)
  <2> DEFINE th == Thing(nextId, k, NoName, v.id, o)
  <2> DEFINE new == [th EXCEPT !.ours = FALSE]
  <2>1. /\ th \in Things(nextId + 1) /\ th.id = nextId /\ th.kind = k /\ th.name = NoName /\ th.vpc = v.id
        /\ th.of = o /\ ~th.tagged /\ th.up = (k = "instance")
    BY <1>2, NewThing
  <2> HIDE DEF th
  <2>2. /\ new \in Things(nextId + 1) /\ new.id = nextId /\ new.kind = k /\ new.name = NoName
        /\ new.vpc = v.id /\ new.of = o /\ ~new.tagged /\ new.up = (k = "instance") /\ ~new.ours
    BY <2>1 DEF Things
  <2>3. account' = account \cup {new}
    BY <1>3 DEF th
  <2> HIDE DEF new
  <2>4. Strange(new)
    BY <1>1, <1>2, <1>3, <2>2, <2>3 DEF Strange, Shaped
  <2>5. QED
    BY <2>4
<1>4. ASSUME NEW k \in {"subnet", "rt"},
             account' = account \cup {[Thing(nextId, k, NoName, v.id, 0) EXCEPT !.ours = FALSE]}
      PROVE  \E new : Strange(new)
  <2>1. k \in Kinds /\ 0 \in 0..(nextId - 1)
    BY DEF Kinds, ProviderTypes
  <2>2. QED
    BY <1>3, <1>4, <2>1
<1>5. ASSUME NEW s \in Ofkind(v.id, "subnet"),
             account' = account \cup
                {[Thing(nextId, "instance", NoName, v.id, s.id) EXCEPT !.ours = FALSE]}
      PROVE  \E new : Strange(new)
  <2>1. "instance" \in Kinds /\ s.id \in 0..(nextId - 1) /\ s \in account /\ s.kind = "subnet" /\ s.vpc = v.id
    BY DEF Kinds, Ofkind, In, ProviderTypes, Things, Before
  <2>2. QED
    BY <1>3, <1>5, <2>1
<1>6. QED
  BY <1>1, <1>4, <1>5

LEMMA StrangerTyped ==
  ASSUME ProviderTypes, Stranger
  PROVE  ProviderTypes'
<1>1. PICK new : Strange(new)
  BY StrangerMakes
<1>2. AddsTo(account', new) /\ nextId' = nextId + 1
  BY <1>1 DEF Strange, AddsTo
<1>3. Change(account') /\ Numbered
  BY <1>1, <1>2 DEF Change, Numbered, Strange
<1>4. {faults', foreign', requests'} \subseteq Nat
  BY DEF Stranger, ProviderTypes
<1>5. QED
  BY <1>3, <1>4, Changed, OutsideTyped DEF Stranger

LEMMA TypesInit ==
  ASSUME Init
  PROVE  ProviderTypes
<1>1. nextId \in Nat \ {0} /\ Resting \in Workers(nextId) /\ \A t \in Topologies : PlacedAt(t, Resting, rows[t])
  <2>1. [Resting EXCEPT !.pc = "idle"] = Resting
    BY DEF Resting
  <2>2. nextId = 1
    BY DEF Init
  <2>3. QED
    BY <2>1, <2>2, RestingTyped, RestingPlaced
<1>2. worker \in [Topologies -> Workers(nextId)] /\ \A t \in Topologies : Placed(t)
  BY <1>1 DEF Init, Placed
<1>3. QED
  BY <1>1, <1>2 DEF Init, ProviderTypes

-----------------------------------------------------------------------------
(* What a step of a handler leaves of the account *)

\* y is what the handler of t makes next; it is whole or has been cut off.
IsNew(t, y) ==
    /\ y \in Things(nextId + 1) /\ y.id = nextId /\ y.ours /\ Shaped(y)
    /\ \/ y.kind = "vpc" /\ At(t, "makeVpc") /\ y.name = NetworkName(t)
       \/ /\ y.kind = "subnet" /\ At(t, "makeSubnet") /\ y.vpc = Vpc(t)
          /\ y.name = SubnetName(t, worker[t].at)
          /\ \A x \in Ofkind(Vpc(t), "subnet") : x.name # y.name
       \/ y.kind = "igw" /\ At(t, "gateway") /\ y.vpc \in {0, Vpc(t)}
       \/ y.kind = "rt" /\ At(t, "table") /\ y.vpc = Vpc(t)
       \/ y.kind = "sg" /\ At(t, "group") /\ y.vpc = Vpc(t) /\ Groups(t) = {}
       \/ /\ y.kind = "instance" /\ At(t, "run") /\ y.vpc = Vpc(t) /\ y.of = HomeSubnet(t)
          /\ y.name = HostName(worker[t].at) /\ y.up /\ y.tagged
    /\ \/ y.id \in cut'
       \/ /\ y.tagged
          /\ y.kind = "igw" => y.vpc = Vpc(t)
          /\ y.kind = "rt" => y.of = worker[t].got["subnet"]

\* x is what the handler of t deletes or changes next.
Gone(t, x) ==
    /\ x.ours /\ (x.vpc = Vpc(t) \/ (x.kind = "igw" /\ x.vpc = 0))
    /\ \/ At(t, "firewall") /\ x.kind = "sg"
       \/ At(t, "instances") /\ x.kind = "instance" /\ x.up
       \/ At(t, "groups") /\ x.kind = "sg"
       \/ At(t, "tables") /\ x.kind = "rt" /\ x.id \in worker[t].left
       \/ At(t, "gateways") /\ x.kind = "igw" /\ x.id \in worker[t].left
       \/ At(t, "subnets") /\ x.kind = "subnet" /\ x.id \in worker[t].left
       \/ At(t, "deleteVpc") /\ x.id = Vpc(t) /\ In(Vpc(t)) = With(Vpc(t))

Frame(t) ==
    /\ \A y \in account' :
         \/ y \in account
         \/ IsNew(t, y) /\ nextId' = nextId + 1
         \/ \E x \in account : Gone(t, x) /\ Renews(x, y) /\ (y.vpc = x.vpc \/ x.id \in cut')
    /\ \A x \in account : x \in account' \/ Gone(t, x)
    /\ cut \subseteq cut'

LEMMA StillFrame ==
  ASSUME NEW t, account' = account, cut \subseteq cut'
  PROVE  Frame(t)
BY DEF Frame

LEMMA CallFrame ==
  ASSUME NEW t, NEW partial, NEW whole, NEW w, Calls(t, partial, whole, w)
  PROVE  /\ account' \in partial \cup {account, whole} /\ cut \subseteq cut' /\ Numbered
         /\ \/ account' = whole
            \/ \A x \in account' : x.id \in Ids \/ x.id \in cut'
BY DEF Calls, Raises

\* A creation: nothing, a piece that is cut off, or the whole thing.
LEMMA MakeFrame ==
  ASSUME ProviderTypes, NEW t, NEW partial, NEW w, NEW new,
         Calls(t, partial, account \cup {new}, w), IsNew(t, new),
         \A a \in partial :
           \E y : a = account \cup {y} /\ y.id = nextId /\ (y.id \in cut' => IsNew(t, y))
  PROVE  Frame(t)
<1>1. nextId \notin Ids /\ new.id = nextId
  BY DEF Ids, ProviderTypes, Things, Before, IsNew
<1>2. CASE account' = account
  BY <1>2, CallFrame, StillFrame
<1>3. ASSUME NEW y, account' = account \cup {y}, y.id = nextId, IsNew(t, y) PROVE Frame(t)
  <2>1. nextId' = nextId + 1
    BY <1>3, CallFrame DEF Numbered
  <2>2. QED
    BY <1>3, <2>1, CallFrame DEF Frame
<1>4. ASSUME NEW y, account' = account \cup {y}, y.id = nextId, y.id \in cut' => IsNew(t, y)
      PROVE  Frame(t)
  <2>1. CASE account' = account \cup {new}
    BY <1>1, <1>3, <2>1
  <2>2. CASE account' # account \cup {new}
    <3>1. y.id \in cut'
      BY <1>1, <1>4, <2>2, CallFrame
    <3>2. QED
      BY <1>3, <1>4, <3>1
  <2>3. QED
    BY <2>1, <2>2
<1>5. account' \in partial \cup {account, account \cup {new}}
  BY CallFrame
<1>6. QED
  BY <1>1, <1>2, <1>3, <1>4, <1>5


\* A deletion or a change of what is there.
LEMMA LessFrame ==
  ASSUME NEW t, NEW partial, NEW whole, NEW w, Calls(t, partial, whole, w),
         \A y \in whole : \/ y \in account
                         \/ \E x \in account : Gone(t, x) /\ Renews(x, y) /\ y.vpc = x.vpc,
         \A a \in partial : \A y \in a :
            \/ y \in account
            \/ \E x \in account : Gone(t, x) /\ Renews(x, y) /\ x.id \in worker[t].left,
         \A a \in partial \cup {whole} : \A x \in account : x \in a \/ Gone(t, x)
  PROVE  Frame(t)
<1>1. cut \subseteq cut'
  BY CallFrame
<1>2. CASE account' = whole \/ account' = account
  BY <1>1, <1>2 DEF Frame
<1>3. CASE account' \in partial /\ account' # whole
  <2>1. worker[t].left \subseteq cut'
    BY <1>3 DEF Calls, Raises
  <2>2. QED
    BY <1>1, <1>3, <2>1 DEF Frame
<1>4. QED
  BY <1>2, <1>3, CallFrame

LEMMA RefusesFrame ==
  ASSUME NEW t, Refuses(t)
  PROVE  Frame(t)
BY StillFrame DEF Refuses, Raises

LEMMA ReadsFrame ==
  ASSUME NEW t, NEW w, Reads(t, w)
  PROVE  Frame(t)
<1>1. Calls(t, {}, account, w)
  BY DEF Reads
<1>2. account' = account /\ cut \subseteq cut'
  BY <1>1, CallFrame
<1>3. QED
  BY <1>2, StillFrame

\* The row of its VPC, which a handler has from its first create to the end of its teardown.
LEMMA OwnVpcRow ==
  ASSUME BaseInv, NEW t \in Topologies,
         worker[t].pc \in DeployPCs \cup TeardownPCs \cup {"checkVpc"}
  PROVE  /\ Row("vpc", 0, Vpc(t)) \in rows[t]
         /\ \A r \in rows[t] : r.kind = "vpc" => r.id = Vpc(t)
         /\ \A r \in rows[t], x \in account : x.id = r.id =>
               /\ x.kind = r.kind
               /\ x.vpc = Vpc(t) \/ (x.kind = "igw" /\ x.vpc = 0)
BY DEF BaseInv, Recorded, RecordedAt, Vpc, Row

LEMMA FirewallFrame ==
  ASSUME BaseInv, NEW t \in Topologies, Firewall(t)
  PROVE  Frame(t)
<1> DEFINE group == {x \in account : Row("sg", 0, x.id) \in rows[t]}
           whole == (account \ group) \cup {[x EXCEPT !.up = TRUE] : x \in group}
<1>1. At(t, "firewall") /\ (Refuses(t) \/ Calls(t, {}, whole, To(t, "active"))) /\ ProviderTypes
  BY DEF Firewall, BaseInv
<1>2. \A x \in group : x.kind = "sg" /\ x.vpc = Vpc(t) /\ x.ours
  <2>1. worker[t].pc \in DeployPCs
    BY <1>1 DEF At, DeployPCs
  <2>2. \A x \in group : x.kind = "sg" /\ x.vpc = Vpc(t)
    BY <2>1, OwnVpcRow DEF Row
  <2>3. QED
    BY <2>2 DEF BaseInv, Shaped
<1>3. \A x \in group : Renews(x, [x EXCEPT !.up = TRUE]) /\ Gone(t, x)
  <2>1. group \in SUBSET account /\ \A x \in group : x.kind = IF TRUE THEN "sg" ELSE "instance"
    BY <1>2
  <2>2. QED
    BY <1>1, <1>2, <2>1, UpThins DEF Gone
<1>4. /\ \A y \in whole : \/ y \in account
                        \/ \E x \in account : Gone(t, x) /\ Renews(x, y) /\ y.vpc = x.vpc
      /\ \A a \in {} \cup {whole} : \A x \in account : x \in a \/ Gone(t, x)
  <2>1. \A x \in group : [x EXCEPT !.up = TRUE].vpc = x.vpc
    BY <1>1 DEF ProviderTypes, Things
  <2>2. QED
    BY <1>3, <2>1, ZenonT(60)
<1> HIDE DEF whole
<1>5. CASE Calls(t, {}, whole, To(t, "active"))
  BY <1>4, <1>5, LessFrame
<1>6. QED
  BY <1>1, <1>5, RefusesFrame

LEMMA TerminateFrame ==
  ASSUME BaseInv, NEW t \in Topologies, Terminate(t)
  PROVE  Frame(t)
<1> DEFINE listed == {x \in Ofkind(Vpc(t), "instance") : x.up}
           whole == (account \ listed) \cup {[x EXCEPT !.up = FALSE] : x \in listed}
           w == [To(t, "await") EXCEPT !.left = {x.id : x \in listed}]
<1>1. At(t, "instances") /\ ProviderTypes
      /\ (Refuses(t) \/ (Calls(t, {}, whole, w) /\ \A x \in listed : x.tagged))
  BY DEF Terminate, BaseInv, Awaited
<1> HIDE DEF w
<1>2. CASE Calls(t, {}, whole, w) /\ \A x \in listed : x.tagged
  <2>1. \A x \in listed : x \in account /\ x.kind = "instance" /\ x.vpc = Vpc(t) /\ x.ours /\ x.up
    BY <1>2 DEF Ofkind, In, BaseInv, Shaped
  <2>2. listed \in SUBSET account /\ \A x \in listed : x.kind = IF FALSE THEN "sg" ELSE "instance"
    BY <2>1
  <2> HIDE DEF listed
  <2>3. \A x \in listed : Renews(x, [x EXCEPT !.up = FALSE]) /\ Gone(t, x)
    BY <1>1, <2>1, <2>2, UpThins DEF Gone
  <2>4. /\ \A y \in whole : \/ y \in account
                          \/ \E x \in account : Gone(t, x) /\ Renews(x, y) /\ y.vpc = x.vpc
        /\ \A a \in {} \cup {whole} : \A x \in account : x \in a \/ Gone(t, x)
    <3>1. \A x \in listed : [x EXCEPT !.up = FALSE].vpc = x.vpc
      BY <1>1, <2>2 DEF ProviderTypes, Things
    <3>2. QED
      BY <2>2, <2>3, <3>1
  <2> HIDE DEF whole
  <2>5. QED
    BY <1>2, <2>4, LessFrame
<1>3. QED
  BY <1>1, <1>2, RefusesFrame

LEMMA DeleteGroupFrame ==
  ASSUME BaseInv, NEW t \in Topologies, DeleteGroup(t)
  PROVE  Frame(t)
<1>1. At(t, "groups")
  BY DEF DeleteGroup
<1>2. ASSUME NEW x \in Groups(t), Calls(t, {}, account \ {x}, To(t, "listTables")) PROVE Frame(t)
  <2>1. x \in account /\ Gone(t, x)
    BY <1>1 DEF Gone, Groups, Ofkind, In, BaseInv, Shaped
  <2>2. /\ \A y \in account \ {x} : y \in account
        /\ \A a \in {} \cup {account \ {x}} : \A y \in account : y \in a \/ Gone(t, y)
    BY <2>1
  <2>3. QED
    BY <1>2, <2>2, LessFrame
<1>3. QED
  BY <1>2, ReadsFrame, RefusesFrame DEF DeleteGroup

\* What a loop of the teardown has still to delete.
LEMMA LeftOfLoop ==
  ASSUME BaseInv, NEW t \in Topologies, NEW x \in account, x.id \in worker[t].left
  PROVE  /\ worker[t].pc \in LoopPCs /\ x.kind = LoopKind[worker[t].pc] /\ x.tagged /\ x.ours
         /\ x.vpc = Vpc(t) \/ (At(t, "gateways") /\ x.vpc = 0)
BY DEF BaseInv, Known, KnownAt, Shaped, Vpc, At

LEMMA LoopFrame ==
  ASSUME BaseInv, NEW t \in Topologies, DeleteTable(t) \/ DeleteGateway(t) \/ DeleteSubnet(t)
  PROVE  Frame(t)
<1>1. \A x \in account : x.id \in worker[t].left => Gone(t, x) /\ x.kind = LoopKind[worker[t].pc]
  BY LeftOfLoop DEF Gone, LoopKind, At, DeleteTable, DeleteGateway, DeleteSubnet
<1>2. ASSUME NEW x \in account, x.id \in worker[t].left, NEW y, NEW w, Renews(x, y),
             Calls(t, {(account \ {x}) \cup {y}}, account \ {x}, w)
      PROVE  Frame(t)
  <2>1. /\ \A z \in account \ {x} : z \in account
        /\ \A a \in {(account \ {x}) \cup {y}} : \A z \in a :
             z \in account \/ \E u \in account : Gone(t, u) /\ Renews(u, z) /\ u.id \in worker[t].left
        /\ \A a \in {(account \ {x}) \cup {y}} \cup {account \ {x}} :
             \A z \in account : z \in a \/ Gone(t, z)
    BY <1>1, <1>2
  <2>2. QED
    BY <1>2, <2>1, LessFrame
<1>3. ProviderTypes
  BY DEF BaseInv
<1>4. ASSUME NEW pc, Local(t, To(t, pc)) PROVE Frame(t)
  BY <1>4, StillFrame DEF Local
<1>5. CASE DeleteTable(t)
  <2>1. ASSUME NEW x \in account, x.id \in worker[t].left PROVE Renews(x, [x EXCEPT !.of = 0])
    <3>1. x.kind = "rt"
      BY <1>1, <1>5, <2>1 DEF DeleteTable, At, LoopKind
    <3>2. QED
      BY <1>3, <3>1, LooseThins
  <2>2. \/ Local(t, To(t, "listGateways"))
        \/ \E x \in account :
            /\ x.id \in worker[t].left
            /\ Calls(t, {(account \ {x}) \cup {[x EXCEPT !.of = 0]}}, account \ {x},
                     [worker[t] EXCEPT !.left = @ \ {x.id}])
    BY <1>5 DEF DeleteTable
  <2>3. QED
    BY <1>2, <1>4, <2>1, <2>2
<1>6. CASE DeleteGateway(t)
  <2>1. ASSUME NEW x \in account, x.id \in worker[t].left PROVE Renews(x, [x EXCEPT !.vpc = 0])
    <3>1. x.kind = "igw"
      BY <1>1, <1>6, <2>1 DEF DeleteGateway, At, LoopKind
    <3>2. QED
      BY <1>3, <3>1, LooseThins
  <2>2. \/ Local(t, To(t, "listSubnets"))
        \/ Refuses(t)
        \/ \E x \in account :
            /\ x.id \in worker[t].left
            /\ Calls(t, {(account \ {x}) \cup {[x EXCEPT !.vpc = 0]}}, account \ {x},
                     [worker[t] EXCEPT !.left = @ \ {x.id}])
    BY <1>6 DEF DeleteGateway
  <2>3. QED
    BY <1>2, <1>4, <2>1, <2>2, RefusesFrame
<1>7. CASE DeleteSubnet(t)
  <2>1. ASSUME NEW x \in account, x.id \in worker[t].left, NEW w, Calls(t, {}, account \ {x}, w)
        PROVE  Frame(t)
    <3>1. /\ \A z \in account \ {x} : z \in account
          /\ \A a \in {} \cup {account \ {x}} : \A z \in account : z \in a \/ Gone(t, z)
      BY <1>1, <2>1
    <3>2. QED
      BY <2>1, <3>1, LessFrame
  <2>2. \/ Local(t, To(t, "deleteVpc"))
        \/ Refuses(t)
        \/ \E x \in account :
            /\ x.id \in worker[t].left
            /\ Calls(t, {}, account \ {x}, [worker[t] EXCEPT !.left = @ \ {x.id}])
    BY <1>7 DEF DeleteSubnet
  <2>3. QED
    BY <1>4, <2>1, <2>2, RefusesFrame
<1>8. QED
  BY <1>5, <1>6, <1>7

LEMMA DeleteVpcFrame ==
  ASSUME BaseInv, NEW t \in Topologies, DeleteVpc(t)
  PROVE  Frame(t)
<1>1. CASE In(Vpc(t)) = With(Vpc(t)) /\ Calls(t, {}, account \ With(Vpc(t)), [Resting EXCEPT !.pc = "drop"])
  <2>1. At(t, "deleteVpc") /\ worker[t].pc \in DeployPCs \cup TeardownPCs \cup {"checkVpc"}
    BY TeardownPlaces DEF DeleteVpc, At
  <2>2. \A x \in With(Vpc(t)) : x \in account /\ x.kind = "vpc" /\ x.ours /\ x.vpc = Vpc(t) /\ x.id = Vpc(t)
    <3>1. \A x \in With(Vpc(t)) : x \in account /\ x.id = Row("vpc", 0, Vpc(t)).id /\ x.id = Vpc(t)
      BY DEF With, Row
    <3>2. \A x \in With(Vpc(t)) : x.kind = "vpc"
      BY <2>1, <3>1, OwnVpcRow DEF Row
    <3>3. QED
      BY <3>1, <3>2 DEF BaseInv, Shaped
  <2>3. \A x \in With(Vpc(t)) : Gone(t, x)
    BY <1>1, <2>1, <2>2 DEF Gone
  <2>4. /\ \A z \in account \ With(Vpc(t)) : z \in account
        /\ \A a \in {} \cup {account \ With(Vpc(t))} : \A z \in account : z \in a \/ Gone(t, z)
    BY <2>3
  <2>5. QED
    BY <1>1, <2>4, LessFrame
<1>2. QED
  BY <1>1, RefusesFrame DEF DeleteVpc


-----------------------------------------------------------------------------
(* What is there is known for what it is *)

LEMMA StepTypes ==
  ASSUME BaseInv, NEW t \in Topologies, BeginDeploy(t) \/ BeginCleanup(t) \/ Step(t)
  PROVE  ProviderTypes'
<1>1. ProviderTypes
  BY DEF BaseInv
<1>2. CASE Firewall(t)
  <2>1. worker[t].pc \in DeployPCs
    BY <1>2 DEF Firewall, At, DeployPCs
  <2>2. \A x \in account : Row("sg", 0, x.id) \in rows[t] => x.kind = "sg"
    BY <2>1, OwnVpcRow DEF Row
  <2>3. QED
    BY <1>1, <1>2, <2>2, FirewallTyped
<1>3. CASE DeleteTable(t) \/ DeleteGateway(t) \/ DeleteSubnet(t)
  <2>1. At(t, "tables") \/ At(t, "gateways") =>
           \A x \in account : x.id \in worker[t].left => x.kind = IF At(t, "tables") THEN "rt" ELSE "igw"
    BY LeftOfLoop DEF LoopKind, At
  <2>2. QED
    BY <1>1, <1>3, <2>1, LoopTyped
<1>4. QED
  BY <1>1, <1>2, <1>3, BeginTyped, FindVpcTyped, MakeVpcTyped, RowVpcTyped, FindSubnetTyped,
     MakeSubnetTyped, GatewayTyped, TableTyped, RowSubnetTyped, FindInstanceTyped, GroupTyped,
     RunTyped, RowInstanceTyped, ActivateTyped, ListRowsTyped, CheckVpcTyped, TerminateTyped,
     AwaitTyped, DeleteGroupTyped, ListTyped, DeleteVpcTyped, DropRowsTyped DEF Step

\* x, after a step.
Same(x, y) ==
    /\ y.id = x.id /\ y.kind = x.kind /\ y.name = x.name /\ y.tagged = x.tagged /\ y.ours = x.ours
    /\ y.vpc = x.vpc \/ (y.kind = "igw" /\ y.vpc = 0)
    /\ y.of = x.of \/ (y.kind = "rt" /\ y.of = 0)
    /\ y = x \/ x.ours
Follows == \A y \in account' : Shaped(y) /\ (y.id = nextId \/ \E x \in account : Same(x, y))

LEMMA OursRenewed ==
  ASSUME NEW n \in Nat \ {0}, NEW x \in Things(n), x.ours, NEW y, Renews(x, y)
  PROVE  Same(x, y)
<1>1. x.ours
  OBVIOUS
<1>2. /\ y.id = x.id /\ y.kind = x.kind /\ y.name = x.name
      /\ y.vpc = x.vpc \/ (y.vpc = 0 /\ x.kind = "igw")
      /\ y.of = x.of \/ (y.of = 0 /\ x.kind = "rt")
  BY RenewedThing
<1>3. y.tagged = x.tagged /\ y.ours = x.ours
  BY RenewedThing
<1>4. QED
  BY <1>1, <1>2, <1>3 DEF Same

LEMMA RenewsSame ==
  ASSUME ProviderTypes, NEW x \in account, x.ours, NEW y, Renews(x, y)
  PROVE  Same(x, y)
<1>1. x \in Things(nextId) /\ nextId \in Nat \ {0}
  BY DEF ProviderTypes
<1>2. QED
  BY <1>1, OursRenewed

LEMMA SameShaped ==
  ASSUME NEW x, NEW y, Shaped(x), Same(x, y)
  PROVE  Shaped(y)
<1>1. CASE y = x
  BY <1>1
<1>2. CASE y.ours
  BY <1>2 DEF Shaped, Same
<1>3. QED
  BY <1>1, <1>2 DEF Same

LEMMA FrameFollows ==
  ASSUME BaseInv, NEW t, Frame(t)
  PROVE  Follows
<1> SUFFICES ASSUME NEW y \in account'
             PROVE  Shaped(y) /\ (y.id = nextId \/ \E x \in account : Same(x, y))
  BY DEF Follows
<1>1. CASE y \in account
  BY <1>1 DEF Same, BaseInv
<1>2. CASE IsNew(t, y)
  BY <1>2 DEF IsNew
<1>3. CASE \E x \in account : Gone(t, x) /\ Renews(x, y)
  <2>1. PICK x \in account : x.ours /\ Renews(x, y)
    BY <1>3 DEF Gone
  <2>2. Shaped(x) /\ ProviderTypes
    BY DEF BaseInv
  <2>3. Same(x, y)
    BY <2>1, <2>2, RenewsSame
  <2>4. QED
    BY <2>2, <2>3, SameShaped
<1>4. QED
  BY <1>1, <1>2, <1>3 DEF Frame

LEMMA OutsideFollows ==
  ASSUME BaseInv, Terminated \/ Stranger
  PROVE  Follows
<1>1. CASE Terminated
  BY <1>1 DEF Terminated, Follows, Same, BaseInv
<1>2. CASE Stranger
  <2>1. PICK new : Strange(new)
    BY <1>2, StrangerMakes DEF BaseInv
  <2>2. QED
    BY <2>1 DEF Strange, Follows, Same, BaseInv
<1>3. QED
  BY <1>1, <1>2

LEMMA KnownFollows ==
  ASSUME ProviderTypes, Follows, NEW u, NEW w \in Workers(nextId), KnownAt(u, w, account)
  PROVE  KnownAt(u, w, account')
<1>1. nextId \in Nat \ {0} /\ w.left \subseteq Before(nextId) /\ \A k \in Kinds : w.got[k] \in 0..(nextId - 1)
  BY DEF ProviderTypes, Workers
<1>2. \A k \in Kinds : nextId # w.got[k] /\ nextId \notin w.left
  BY <1>1 DEF Before
<1>3. \A y \in account' : (\E k \in Kinds : y.id = w.got[k]) \/ y.id \in w.left =>
        \E x \in account : Same(x, y)
  <2> SUFFICES ASSUME NEW y \in account', (\E k \in Kinds : y.id = w.got[k]) \/ y.id \in w.left
               PROVE  \E x \in account : Same(x, y)
    OBVIOUS
  <2>1. y.id # nextId
    BY <1>2, "vpc" \in Kinds DEF Kinds
  <2>2. QED
    BY <2>1 DEF Follows
<1>4. \A k \in Kinds, y \in account' : y.id = w.got[k] =>
          /\ y.kind = k
          /\ k = "vpc" => y.name = NetworkName(u)
          /\ y.vpc = w.got["vpc"] \/ (k = "igw" /\ y.vpc = 0)
  BY <1>3 DEF KnownAt, Same
<1>5. w.pc \in LoopPCs => \A y \in account' : y.id \in w.left =>
          /\ y.kind = LoopKind[w.pc] /\ y.tagged
          /\ y.vpc = w.got["vpc"] \/ (w.pc = "gateways" /\ y.vpc = 0)
  BY <1>3 DEF KnownAt, Same, LoopKind, LoopPCs
<1>6. QED
  BY <1>4, <1>5 DEF KnownAt

LEMMA RecordedFollows ==
  ASSUME ProviderTypes, Follows, NEW u, NEW w, NEW R \in SUBSET Rows(nextId), RecordedAt(u, w, R, account)
  PROVE  RecordedAt(u, w, R, account')
<1>1. \A r \in R : r.id # nextId
  BY DEF ProviderTypes, Rows, Before
<1>2. ASSUME NEW r \in R, NEW y \in account', y.id = r.id PROVE \E x \in account : Same(x, y)
  <2>1. y.id # nextId
    BY <1>1, <1>2
  <2>2. QED
    BY <2>1 DEF Follows
<1>3. \A r \in R, y \in account' : y.id = r.id =>
          /\ y.kind = r.kind
          /\ y.kind = "vpc" => y.name = NetworkName(u)
          /\ \A v \in R : v.kind = "vpc" => y.vpc = v.id \/ (y.kind = "igw" /\ y.vpc = 0)
  BY <1>2 DEF RecordedAt, Same
<1>4. QED
  BY <1>3 DEF RecordedAt

LEMMA OthersBase ==
  ASSUME BaseInv, Follows, NEW u \in Topologies, worker'[u] = worker[u], rows'[u] = rows[u]
  PROVE  Known(u)' /\ Recorded(u)'
<1>1. ProviderTypes /\ worker[u] \in Workers(nextId) /\ rows[u] \in SUBSET Rows(nextId)
      /\ KnownAt(u, worker[u], account) /\ RecordedAt(u, worker[u], rows[u], account)
  BY DEF BaseInv, Known, Recorded, ProviderTypes
<1>2. KnownAt(u, worker[u], account') /\ RecordedAt(u, worker[u], rows[u], account')
  BY <1>1, KnownFollows, RecordedFollows
<1>3. KnownAt(u, worker'[u], account') /\ RecordedAt(u, worker'[u], rows'[u], account')
  BY <1>2
<1>4. QED
  BY <1>3 DEF Known, Recorded, KnownAt, RecordedAt

LEMMA BaseAfter ==
  ASSUME BaseInv, ProviderTypes', Follows, NEW t \in Topologies, NEW w,
         worker' = [worker EXCEPT ![t] = w], \A u \in Topologies \ {t} : rows'[u] = rows[u],
         KnownAt(t, w, account'), RecordedAt(t, w, rows'[t], account')
  PROVE  BaseInv'
<1>1. worker'[t] = w /\ \A u \in Topologies \ {t} : worker'[u] = worker[u]
  BY DEF BaseInv, ProviderTypes
<1>2. ASSUME NEW u \in Topologies PROVE Known(u)' /\ Recorded(u)'
  <2>1. CASE u = t
    <3>1. KnownAt(u, worker'[u], account') /\ RecordedAt(u, worker'[u], rows'[u], account')
      BY <1>1, <2>1
    <3>2. QED
      BY <3>1 DEF Known, Recorded, KnownAt, RecordedAt
  <2>2. CASE u # t
    BY <1>1, <2>2, OthersBase
  <2>3. QED
    BY <2>1, <2>2
<1>3. \A x \in account' : Shaped(x)'
  BY DEF Follows, Shaped
<1>4. QED
  BY <1>2, <1>3 DEF BaseInv

\* The places from which a handler calls AWS.
CallPCs == CreatePCs \cup TeardownPCs \cup {"firewall", "checkVpc"}

LEMMA RestingKnown ==
  ASSUME BaseInv, NEW t \in Topologies, NEW pc \in {"idle", "rows", "drop"}, NEW R,
         R = {} \/ R = rows[t]
  PROVE  LET w == [Resting EXCEPT !.pc = pc] IN
         KnownAt(t, w, account) /\ RecordedAt(t, w, R, account)
<1> DEFINE w == [Resting EXCEPT !.pc = pc]
<1>1. w.pc = pc /\ w.left = {} /\ \A k \in Kinds : w.got[k] = 0
  BY DEF Resting
<1>2. \A x \in account : x.id # 0
  BY AtWork DEF BaseInv
<1>3. RecordedAt(t, worker[t], rows[t], account)
  BY DEF BaseInv, Recorded
<1> HIDE DEF w
<1>4. KnownAt(t, w, account)
  BY <1>1, <1>2 DEF KnownAt, LoopPCs, VpcPCs
<1>5. RecordedAt(t, w, R, account)
  BY <1>1, <1>3 DEF RecordedAt, VpcPCs, DeployPCs, SubnetPCs, HostPCs, TeardownPCs, TornPCs
<1>6. QED
  BY <1>4, <1>5 DEF w

LEMMA RecordedMove ==
  ASSUME NEW t, NEW v, NEW w, NEW R, NEW A, RecordedAt(t, v, R, A),
         \/ w.pc \in VpcPCs \cup {"rowVpc"} /\ v.pc \in VpcPCs \cup {"rowVpc"}
         \/ /\ w.pc \in DeployPCs \cup TeardownPCs \cup {"checkVpc"}
            /\ v.pc \in DeployPCs \cup TeardownPCs \cup {"checkVpc"}
            /\ w.got["vpc"] = v.got["vpc"]
  PROVE  RecordedAt(t, w, R, A)
BY DEF RecordedAt, VpcPCs, DeployPCs, SubnetPCs, HostPCs, TeardownPCs, TornPCs

LEMMA FailedBase ==
  ASSUME BaseInv, ProviderTypes', Follows, NEW t \in Topologies, worker[t].pc \in CallPCs,
         NEW retryable \in BOOLEAN, Raises(t, retryable), rows' = rows
  PROVE  BaseInv'
<1>1. PICK w : /\ worker' = [worker EXCEPT ![t] = w] /\ w \in Workers(nextId)
               /\ \/ w = Undone(t) \/ w = Stopped(t)
                  \/ w = Retried(t) /\ worker[t].pc \in CreatePCs
  BY FailedPlaced DEF BaseInv, CallPCs
<1>2. ProviderTypes /\ rows[t] \in SUBSET Rows(nextId) /\ worker[t] \in Workers(nextId)
  BY DEF BaseInv, ProviderTypes
<1>3. KnownAt(t, w, account) /\ RecordedAt(t, w, rows[t], account)
  <2>1. CASE w = Undone(t) \/ w = Stopped(t)
    BY <2>1, RestingKnown DEF Undone, Stopped
  <2>2. CASE w = Retried(t) /\ worker[t].pc \in CreatePCs
    <3>1. /\ w.pc = Create(worker[t].pc) /\ w.got = worker[t].got /\ w.left = worker[t].left
      BY <1>2, <2>2 DEF Retried, Workers
    <3>2. KnownAt(t, worker[t], account) /\ RecordedAt(t, worker[t], rows[t], account)
      BY DEF BaseInv, Known, Recorded
    <3>3. KnownAt(t, w, account)
      BY <2>2, <3>1, <3>2 DEF KnownAt, Create, CreatePCs, VpcPCs, SubnetPCs, HostPCs, LoopPCs
    <3>4. RecordedAt(t, w, rows[t], account)
      BY <2>2, <3>1, <3>2 DEF RecordedAt, Create, CreatePCs, VpcPCs, DeployPCs, SubnetPCs, HostPCs,
         TeardownPCs, TornPCs
    <3>5. QED
      BY <3>3, <3>4
  <2>3. QED
    BY <1>1, <2>1, <2>2
<1>4. KnownAt(t, w, account') /\ RecordedAt(t, w, rows[t], account')
  BY <1>1, <1>2, <1>3, KnownFollows, RecordedFollows
<1>5. QED
  BY <1>1, <1>4, BaseAfter

-----------------------------------------------------------------------------
(* The turns of a handler *)

\* A call has failed or has been refused.
Fails(t) ==
    /\ worker[t].pc \in CallPCs
    /\ \E retryable \in BOOLEAN : Raises(t, retryable)
    /\ UNCHANGED <<rows, active>>

Moved(v, w, pc) == w.pc = pc /\ w.at = v.at /\ w.got = v.got /\ w.made = v.made /\ w.left = v.left
Got(v, w, pc, K) ==
    /\ w.pc = pc /\ w.at = v.at /\ w.made = v.made /\ w.left = v.left
    /\ \A k \in Kinds \ K : w.got[k] = v.got[k]
NextTo(v, w, pc, n) == w.pc = pc /\ w.at = n /\ w.got = v.got /\ w.made = {} /\ w.left = v.left

\* It has found nothing, or goes on.
Passes(t, w) ==
    LET v == worker[t] IN
    \/ v.pc = "idle" /\ Moved(v, w, "vpc") /\ rows[t] = {}
    \/ v.pc = "idle" /\ Moved(v, w, "rows")
    \/ v.pc = "vpc" /\ Moved(v, w, "makeVpc") /\ CloudnetVpcs(t) = {}
    \/ v.pc = "subnet" /\ Moved(v, w, "makeSubnet") /\ CloudnetSubnets(t) = {}
    \/ v.pc = "instance" /\ Moved(v, w, "group") /\ CloudnetInstances(t) = {}
    \/ v.pc = "checkVpc" /\ Moved(v, w, "instances") /\ Tags(Vpc(t))
    \/ v.pc = "groups" /\ Moved(v, w, "listTables") /\ Groups(t) = {}
    \/ v.pc = "tables" /\ Moved(v, w, "listGateways") /\ v.left = {}
    \/ v.pc = "gateways" /\ Moved(v, w, "listSubnets") /\ v.left = {}
    \/ v.pc = "subnets" /\ Moved(v, w, "deleteVpc") /\ v.left = {}

\* It has found something.
Gets(t, w) ==
    LET v == worker[t] IN
    \/ /\ v.pc = "vpc" /\ Got(v, w, "rowVpc", {"vpc"})
       /\ \E x \in CloudnetVpcs(t) : w.got["vpc"] = x.id
    \/ /\ v.pc = "subnet" /\ Got(v, w, "rowSubnet", {"subnet", "igw", "rt"})
       /\ \E x \in CloudnetSubnets(t) :
            /\ w.got["subnet"] = x.id
            /\ w.got["igw"] \in OneOf(Ofkind(Vpc(t), "igw"))
            /\ w.got["rt"] \in OneOf({y \in Ofkind(Vpc(t), "rt") : y.of = x.id})
    \/ /\ v.pc = "gateway" /\ Got(v, w, "table", {"igw"})
       /\ \E x \in Ofkind(Vpc(t), "igw") : w.got["igw"] = x.id
    \/ /\ v.pc = "instance" /\ Got(v, w, "rowInstance", {"instance", "sg"})
       /\ \E x \in CloudnetInstances(t) : w.got["instance"] = x.id
       /\ w.got["sg"] \in OneOf(Groups(t)) \cup {0}
    \/ /\ v.pc = "group" /\ Got(v, w, "run", {"sg"})
       /\ \E x \in Groups(t) : w.got["sg"] = x.id
    \/ /\ v.pc = "rows" /\ Got(v, w, "checkVpc", {"vpc"})
       /\ \E r \in rows[t] : r.kind = "vpc" /\ w.got["vpc"] = r.id

\* It has listed what to delete.
Lists(t, w) ==
    LET v == worker[t] IN
    /\ w.at = v.at /\ w.got = v.got /\ w.made = v.made
    /\ \/ v.pc = "await" /\ w.pc = "groups" /\ v.left \cap Ids = {} /\ w.left = {}
       \/ /\ v.pc = "listTables" /\ w.pc = "tables"
          /\ w.left = {x.id : x \in Cloudnets(Ofkind(Vpc(t), "rt"))}
       \/ /\ v.pc = "listGateways" /\ w.pc = "gateways"
          /\ w.left = {x.id : x \in Cloudnets(Ofkind(Vpc(t), "igw"))}
       \/ /\ v.pc = "listSubnets" /\ w.pc = "subnets"
          /\ \A x \in Ofkind(Vpc(t), "subnet") : x.tagged
          /\ w.left = {x.id : x \in Ofkind(Vpc(t), "subnet")}

\* It has made something.
AfterMaking == [vpc |-> "rowVpc", subnet |-> "gateway", igw |-> "table", rt |-> "rowSubnet",
                sg |-> "run", instance |-> "rowInstance"]
Creates(t, w) ==
    LET v == worker[t] IN
    \E new :
        /\ account' = account \cup {new} /\ nextId' = nextId + 1 /\ IsNew(t, new) /\ new.tagged
        /\ w.pc = AfterMaking[new.kind] /\ w.at = v.at /\ w.left = v.left
        /\ w.made = v.made \cup {nextId} /\ w.got[new.kind] = nextId
        /\ \A k \in Kinds \ {new.kind} : w.got[k] = v.got[k]

\* It has changed or deleted something.
Deletes(t, w) ==
    LET v == worker[t] IN
    \/ /\ v.pc = "firewall" /\ Moved(v, w, "active")
       /\ LET group == {x \in account : Row("sg", 0, x.id) \in rows[t]}
          IN  /\ group # {}
              /\ account' = (account \ group) \cup {[x EXCEPT !.up = TRUE] : x \in group}
    \/ /\ v.pc = "instances" /\ w.pc = "await"
       /\ w.at = v.at /\ w.got = v.got /\ w.made = v.made
       /\ LET listed == {x \in Ofkind(Vpc(t), "instance") : x.up}
          IN  /\ w.left = {x.id : x \in listed} /\ \A x \in listed : x.tagged
              /\ account' = (account \ listed) \cup {[x EXCEPT !.up = FALSE] : x \in listed}
    \/ /\ v.pc = "groups" /\ Moved(v, w, "listTables")
       /\ \A y \in Ofkind(Vpc(t), "instance") : ~y.ours
       /\ \E x \in Groups(t) : account' = account \ {x}
    \/ /\ v.pc \in {"tables", "gateways", "subnets"} /\ w.pc = v.pc
       /\ w.at = v.at /\ w.got = v.got /\ w.made = v.made
       /\ \E x \in account :
            /\ x.id \in v.left /\ w.left = v.left \ {x.id} /\ account' = account \ {x}
            /\ v.pc = "subnets" => \A y \in account : ~(y.kind = "instance" /\ y.of = x.id)
    \/ /\ v.pc = "deleteVpc" /\ w = Stopped(t)
       /\ In(Vpc(t)) = With(Vpc(t)) /\ account' = account \ With(Vpc(t))

\* It has written rows.
Writes(t, w) ==
    LET v == worker[t] IN
    \/ /\ v.pc = "rowVpc" /\ NextTo(v, w, "subnet", 1)
       /\ rows'[t] = rows[t] \cup {Row("vpc", 0, Vpc(t))} /\ active'[t] = active[t]
    \/ /\ v.pc = "rowSubnet"
       /\ IF v.at < Segments[t] THEN NextTo(v, w, "subnet", v.at + 1) ELSE NextTo(v, w, "instance", 1)
       /\ rows'[t] = rows[t] \cup {Row("subnet", v.at, v.got["subnet"])}
            \cup {r \in {Row(k, v.at, v.got[k]) : k \in {"igw", "rt"}} :
                    r.id \notin {s.id : s \in rows[t]} \cup {0}}
       /\ active'[t] = active[t]
    \/ /\ v.pc = "rowInstance"
       /\ IF v.at + 1 \in DOMAIN Home[t] THEN NextTo(v, w, "instance", v.at + 1)
          ELSE NextTo(v, w, "firewall", 1)
       /\ rows'[t] = rows[t] \cup {Row("instance", v.at, v.got["instance"])}
            \cup {r \in {Row("sg", 0, v.got["sg"])} : r.id \notin {s.id : s \in rows[t]} \cup {0}}
       /\ active'[t] = active[t]
    \/ v.pc = "active" /\ w = Resting /\ rows'[t] = rows[t] /\ active'[t] = TRUE
    \/ v.pc = "rows" /\ w = Resting /\ rows[t] = {} /\ rows'[t] = {} /\ active'[t] = FALSE
    \/ v.pc = "drop" /\ w = Resting /\ rows'[t] = {} /\ active'[t] = FALSE

Turn(t, w) ==
    /\ cut' = cut /\ \A u \in Topologies \ {t} : rows'[u] = rows[u] /\ active'[u] = active[u]
    /\ \/ UNCHANGED <<account, nextId, rows, active>> /\ (Passes(t, w) \/ Gets(t, w) \/ Lists(t, w))
       \/ UNCHANGED <<rows, active>> /\ Creates(t, w)
       \/ UNCHANGED <<nextId, rows, active>> /\ Deletes(t, w)
       \/ UNCHANGED <<account, nextId>> /\ Writes(t, w)
Turns(t) == Fails(t) \/ \E w : Goes(t, w) /\ Turn(t, w)

LEMMA CallTurn ==
  ASSUME NEW t, NEW partial, NEW whole, NEW w, Calls(t, partial, whole, w), worker[t].pc \in CallPCs
  PROVE  \/ Fails(t)
         \/ account' = whole /\ Goes(t, w) /\ Numbered /\ UNCHANGED <<cut, rows, active>>
BY DEF Calls, Fails

LEMMA CallPlaces ==
  CallPCs = {"vpc", "makeVpc", "subnet", "makeSubnet", "gateway", "table", "instance", "group", "run",
             "instances", "await", "groups", "listTables", "tables", "listGateways", "gateways",
             "listSubnets", "subnets", "deleteVpc", "firewall", "checkVpc"}
BY DEF CallPCs, CreatePCs, VpcPCs, SubnetPCs, HostPCs, TeardownPCs, TornPCs

LEMMA RefusesTurn ==
  ASSUME NEW t, Refuses(t), worker[t].pc \in CallPCs
  PROVE  Fails(t)
BY DEF Refuses, Fails

\* The account keeps its next id when nothing is made.
LEMMA NothingNew ==
  ASSUME ProviderTypes, Numbered, Thins(account')
  PROVE  nextId' = nextId
<1>1. \A y \in account' : \E x \in account : y.id = x.id
  <2> SUFFICES ASSUME NEW y \in account' PROVE \E x \in account : y.id = x.id
    OBVIOUS
  <2>1. PICK x \in account : y = x \/ Renews(x, y)
    BY DEF Thins
  <2>2. x \in Things(nextId) /\ nextId \in Nat \ {0}
    BY DEF ProviderTypes
  <2>3. QED
    BY <2>1, <2>2, RenewedThing
<1>2. \A x \in account : x.id # nextId
  BY AtWork DEF ProviderTypes, Things, Before
<1>3. QED
  BY <1>1, <1>2 DEF Numbered

LEMMA ReadTurn ==
  ASSUME ProviderTypes, NEW t, NEW w, Reads(t, w), worker[t].pc \in CallPCs
  PROVE  Fails(t) \/ (Goes(t, w) /\ UNCHANGED <<account, nextId, cut, rows, active>>)
<1>1. Calls(t, {}, account, w)
  BY DEF Reads
<1>2. account' = account /\ Numbered => nextId' = nextId
  BY KeptThins, NothingNew
<1>3. QED
  BY <1>1, <1>2, CallTurn

LEMMA LocalTurn ==
  ASSUME NEW t, NEW w, Local(t, w)
  PROVE  Goes(t, w) /\ UNCHANGED <<account, nextId, cut>>
BY DEF Local

LEMMA BeginTurn ==
  ASSUME BaseInv, NEW t \in Topologies, BeginDeploy(t) \/ BeginCleanup(t)
  PROVE  Turns(t)
<1>1. PICK pc \in {"vpc", "rows"} : Goes(t, To(t, pc)) /\ (pc = "vpc" => rows[t] = {})
  BY DEF BeginDeploy, BeginCleanup
<1>2. worker[t].pc = "idle" /\ UNCHANGED <<account, nextId, rows, active, cut>> /\ ProviderTypes
  BY DEF BeginDeploy, BeginCleanup, At, BaseInv
<1>3. Moved(worker[t], To(t, pc), pc)
  <2>1. pc \in PCs
    BY DEF PCs, VpcPCs
  <2>2. QED
    BY <1>2, <2>1, Moves DEF Moved
<1>4. Passes(t, To(t, pc))
  BY <1>1, <1>2, <1>3 DEF Passes
<1>5. QED
  BY <1>1, <1>2, <1>4 DEF Turns, Turn

\* A read that moves a handler on.
LEMMA PassTurn ==
  ASSUME ProviderTypes, NEW t \in Topologies, NEW pc \in PCs,
         \/ Reads(t, To(t, pc)) /\ worker[t].pc \in CallPCs
         \/ Local(t, To(t, pc)) /\ UNCHANGED <<rows, active>>,
         Moved(worker[t], To(t, pc), pc) => Passes(t, To(t, pc))
  PROVE  Turns(t)
<1>1. Moved(worker[t], To(t, pc), pc)
  BY Moves DEF Moved
<1>2. Passes(t, To(t, pc))
  BY <1>1
<1>3. Fails(t) \/ (Goes(t, To(t, pc)) /\ UNCHANGED <<account, nextId, cut, rows, active>>)
  BY ReadTurn, LocalTurn
<1>4. QED
  BY <1>2, <1>3 DEF Turns, Turn

LEMMA GetTurn ==
  ASSUME ProviderTypes, NEW t \in Topologies, NEW w,
         Reads(t, w) /\ worker[t].pc \in CallPCs, Gets(t, w) \/ Lists(t, w)
  PROVE  Turns(t)
BY ReadTurn DEF Turns, Turn

LEMMA FindVpcTurn ==
  ASSUME BaseInv, NEW t \in Topologies, FindVpc(t)
  PROVE  Turns(t)
<1>1. worker[t].pc = "vpc" /\ worker[t].pc \in CallPCs /\ ProviderTypes /\ "makeVpc" \in PCs
      /\ "rowVpc" \in PCs /\ "vpc" \in Kinds
  BY CallPlaces DEF FindVpc, At, BaseInv, PCs, VpcPCs, Kinds
<1>2. ASSUME NEW x \in CloudnetVpcs(t), Reads(t, Found(t, "rowVpc", "vpc", x.id)) PROVE Turns(t)
  <2> DEFINE w == Found(t, "rowVpc", "vpc", x.id)
  <2>1. x.id \in 0..(nextId - 1)
    BY <1>1, AtWork DEF CloudnetVpcs
  <2>2. Got(worker[t], w, "rowVpc", {"vpc"}) /\ w.got["vpc"] = x.id
    BY <1>1, <2>1, Finds DEF Got
  <2>3. Reads(t, w)
    BY <1>2
  <2> HIDE DEF w
  <2>4. Gets(t, w)
    BY <1>1, <2>2 DEF Gets
  <2>5. QED
    BY <1>1, <2>3, <2>4, GetTurn
<1>3. CASE CloudnetVpcs(t) = {} /\ Reads(t, To(t, "makeVpc"))
  BY <1>1, <1>3, PassTurn DEF Passes
<1>4. QED
  BY <1>2, <1>3 DEF FindVpc

LEMMA FindSubnetTurn ==
  ASSUME BaseInv, NEW t \in Topologies, FindSubnet(t)
  PROVE  Turns(t)
<1>1. worker[t].pc = "subnet" /\ worker[t].pc \in CallPCs /\ ProviderTypes /\ "makeSubnet" \in PCs
      /\ "rowSubnet" \in PCs
  BY CallPlaces DEF FindSubnet, At, BaseInv, PCs, DeployPCs, SubnetPCs
<1>2. ASSUME NEW x \in CloudnetSubnets(t), NEW g \in OneOf(Ofkind(Vpc(t), "igw")),
             NEW r \in OneOf({y \in Ofkind(Vpc(t), "rt") : y.of = x.id}),
             Reads(t, [worker[t] EXCEPT !.pc = "rowSubnet", !.got["subnet"] = x.id,
                                        !.got["igw"] = g, !.got["rt"] = r])
      PROVE  Turns(t)
  <2> DEFINE w == [worker[t] EXCEPT !.pc = "rowSubnet", !.got["subnet"] = x.id,
                                    !.got["igw"] = g, !.got["rt"] = r]
  <2>1. worker[t] \in Workers(nextId) /\ worker[t].got \in [Kinds -> 0..(nextId - 1)]
    BY <1>1, WorkerFields
  <2>2. Got(worker[t], w, "rowSubnet", {"subnet", "igw", "rt"})
        /\ w.got["subnet"] = x.id /\ w.got["igw"] = g /\ w.got["rt"] = r
    BY <2>1 DEF Workers, Kinds, Got
  <2>3. Reads(t, w)
    BY <1>2
  <2> HIDE DEF w
  <2>4. Gets(t, w)
    BY <1>1, <2>2 DEF Gets
  <2>5. QED
    BY <1>1, <2>3, <2>4, GetTurn
<1>3. CASE CloudnetSubnets(t) = {} /\ Reads(t, To(t, "makeSubnet"))
  BY <1>1, <1>3, PassTurn DEF Passes
<1>4. QED
  BY <1>2, <1>3 DEF FindSubnet

LEMMA FindInstanceTurn ==
  ASSUME BaseInv, NEW t \in Topologies, FindInstance(t)
  PROVE  Turns(t)
<1>1. worker[t].pc = "instance" /\ worker[t].pc \in CallPCs /\ ProviderTypes /\ "group" \in PCs
      /\ "rowInstance" \in PCs
  BY CallPlaces DEF FindInstance, At, BaseInv, PCs, DeployPCs, HostPCs
<1>2. ASSUME NEW x \in CloudnetInstances(t), NEW g \in OneOf(Groups(t)) \cup {0},
             Reads(t, [worker[t] EXCEPT !.pc = "rowInstance", !.got["instance"] = x.id, !.got["sg"] = g])
      PROVE  Turns(t)
  <2> DEFINE w == [worker[t] EXCEPT !.pc = "rowInstance", !.got["instance"] = x.id, !.got["sg"] = g]
  <2>1. worker[t] \in Workers(nextId) /\ worker[t].got \in [Kinds -> 0..(nextId - 1)]
    BY <1>1, WorkerFields
  <2>2. Got(worker[t], w, "rowInstance", {"instance", "sg"}) /\ w.got["instance"] = x.id /\ w.got["sg"] = g
    BY <2>1 DEF Workers, Kinds, Got
  <2>3. Reads(t, w)
    BY <1>2
  <2> HIDE DEF w
  <2>4. Gets(t, w)
    BY <1>1, <2>2 DEF Gets
  <2>5. QED
    BY <1>1, <2>3, <2>4, GetTurn
<1>3. CASE CloudnetInstances(t) = {} /\ Reads(t, To(t, "group"))
  BY <1>1, <1>3, PassTurn DEF Passes
<1>4. CASE \E x \in CloudnetInstances(t) :
            \E g \in OneOf(Groups(t)) \cup (IF x.up THEN {} ELSE {0}) :
              Reads(t, [worker[t] EXCEPT !.pc = "rowInstance", !.got["instance"] = x.id,
                                         !.got["sg"] = g])
  <2>1. PICK x \in CloudnetInstances(t) :
          \E g \in OneOf(Groups(t)) \cup (IF x.up THEN {} ELSE {0}) :
              Reads(t, [worker[t] EXCEPT !.pc = "rowInstance", !.got["instance"] = x.id,
                                         !.got["sg"] = g])
    BY <1>4
  <2>2. \E g \in OneOf(Groups(t)) \cup {0} :
              Reads(t, [worker[t] EXCEPT !.pc = "rowInstance", !.got["instance"] = x.id,
                                         !.got["sg"] = g])
    BY <2>1
  <2>3. QED
    BY <1>2, <2>2
<1>5. QED
  BY <1>3, <1>4 DEF FindInstance

\* A creation.
LEMMA MakeTurn ==
  ASSUME BaseInv, NEW t \in Topologies, NEW pc, NEW k \in Kinds, NEW partial, NEW new,
         Calls(t, partial, account \cup {new}, Made(t, pc, k)), worker[t].pc \in CallPCs,
         pc \in PCs, pc = AfterMaking[k], new.kind = k, new.tagged, new.id = nextId,
         cut' = cut => IsNew(t, new)
  PROVE  Turns(t)
<1>1. ProviderTypes
  BY DEF BaseInv
<1>2. CASE /\ account' = account \cup {new} /\ Goes(t, Made(t, pc, k)) /\ Numbered
           /\ UNCHANGED <<cut, rows, active>>
  <2> DEFINE w == Made(t, pc, k)
  <2>1. nextId' = nextId + 1
    BY <1>2 DEF Numbered
  <2>2. w.pc = pc /\ w.at = worker[t].at /\ w.got[k] = nextId
        /\ (\A j \in Kinds \ {k} : w.got[j] = worker[t].got[j])
        /\ w.made = worker[t].made \cup {nextId} /\ w.left = worker[t].left
    BY <1>1, Makes
  <2>3. Goes(t, w)
    BY <1>2
  <2> HIDE DEF w
  <2>4. Creates(t, w)
    BY <1>2, <2>1, <2>2 DEF Creates
  <2>5. QED
    BY <1>2, <2>3, <2>4 DEF Turns, Turn
<1>3. CASE Fails(t)
  BY <1>3 DEF Turns
<1>4. QED
  BY <1>2, <1>3, CallTurn

LEMMA MakeVpcTurn ==
  ASSUME BaseInv, NEW t \in Topologies, MakeVpc(t)
  PROVE  Frame(t) /\ Turns(t)
<1> DEFINE new == Thing(nextId, "vpc", NetworkName(t), nextId, 0)
<1>1. ProviderTypes /\ At(t, "makeVpc")
      /\ Calls(t, {account \cup {new}}, account \cup {Tag(new)}, Made(t, "rowVpc", "vpc"))
  BY DEF BaseInv, MakeVpc, Tagged
<1>2. \A y \in {new, Tag(new)} : /\ y \in Things(nextId + 1) /\ y.id = nextId /\ y.ours /\ y.kind = "vpc"
                                 /\ y.name = NetworkName(t) /\ y.vpc = nextId /\ y.of = 0
  <2>1. "vpc" \in Kinds /\ nextId \in 0..nextId /\ 0 \in 0..(nextId - 1)
    BY <1>1, AtWork DEF Kinds
  <2>2. QED
    BY <1>1, <2>1, NewThing, NamesOf
<1>3. Tag(new).tagged
  BY DEF Tag, Thing
<1> HIDE DEF new
<1>4. IsNew(t, Tag(new)) /\ (new.id \in cut' => IsNew(t, new))
  BY <1>1, <1>2, <1>3 DEF IsNew, Shaped
<1>5. \A a \in {account \cup {new}} :
        \E y : a = account \cup {y} /\ y.id = nextId /\ (y.id \in cut' => IsNew(t, y))
  BY <1>2, <1>4
<1>6. Frame(t)
  BY <1>1, <1>4, <1>5, MakeFrame
<1>7. "vpc" \in Kinds /\ "rowVpc" \in PCs /\ AfterMaking["vpc"] = "rowVpc" /\ worker[t].pc \in CallPCs
  BY <1>1, CallPlaces DEF Kinds, PCs, AfterMaking, At
<1>8. Turns(t)
  BY <1>1, <1>2, <1>3, <1>4, <1>7, MakeTurn
<1>9. QED
  BY <1>6, <1>8

LEMMA MakeSubnetTurn ==
  ASSUME BaseInv, NEW t \in Topologies, MakeSubnet(t)
  PROVE  Frame(t) /\ Turns(t)
<1> DEFINE name == SubnetName(t, worker[t].at)
<1> DEFINE new == Thing(nextId, "subnet", name, Vpc(t), 0)
<1>1. ProviderTypes /\ At(t, "makeSubnet")
      /\ "subnet" \in Kinds /\ "gateway" \in PCs /\ AfterMaking["subnet"] = "gateway"
      /\ worker[t].pc \in CallPCs
  BY CallPlaces DEF BaseInv, MakeSubnet, Kinds, PCs, DeployPCs, SubnetPCs, AfterMaking, At
<1>2. CASE Refuses(t)
  BY <1>1, <1>2, RefusesFrame, RefusesTurn DEF Turns
<1>3. CASE /\ \A x \in Ofkind(Vpc(t), "subnet") : x.name # name
           /\ Calls(t, {account \cup {new}}, account \cup {Tag(new)}, Made(t, "gateway", "subnet"))
  <2>1. \A y \in {new, Tag(new)} : /\ y \in Things(nextId + 1) /\ y.id = nextId /\ y.ours
                                   /\ y.kind = "subnet" /\ y.name = name /\ y.vpc = Vpc(t) /\ y.of = 0
    <3>1. "subnet" \in Kinds /\ Vpc(t) \in 0..nextId /\ 0 \in 0..(nextId - 1) /\ name \in Names
      BY <1>1, AtWork, NamesOf DEF Kinds
    <3>2. QED
      BY <1>1, <3>1, NewThing
  <2>2. Tag(new).tagged
    BY DEF Tag, Thing
  <2> HIDE DEF new
  <2>3. IsNew(t, Tag(new)) /\ (new.id \in cut' => IsNew(t, new))
    BY <1>1, <1>3, <2>1, <2>2 DEF IsNew, Shaped
  <2>4. \A a \in {account \cup {new}} :
          \E y : a = account \cup {y} /\ y.id = nextId /\ (y.id \in cut' => IsNew(t, y))
    BY <2>1, <2>3
  <2>5. Frame(t)
    BY <1>1, <1>3, <2>3, <2>4, MakeFrame
  <2>6. Turns(t)
    BY <1>1, <1>3, <2>1, <2>2, <2>3, MakeTurn
  <2>7. QED
    BY <2>5, <2>6
<1>4. QED
  BY <1>2, <1>3 DEF MakeSubnet

LEMMA GatewayTurn ==
  ASSUME BaseInv, NEW t \in Topologies, Gateway(t)
  PROVE  Frame(t) /\ Turns(t)
<1> DEFINE new == Thing(nextId, "igw", NoName, 0, 0)
<1> DEFINE att == [Tag(new) EXCEPT !.vpc = Vpc(t)]
<1>1. ProviderTypes /\ At(t, "gateway") /\ worker[t].pc = "gateway"
      /\ "igw" \in Kinds /\ "table" \in PCs /\ AfterMaking["igw"] = "table"
      /\ worker[t].pc \in CallPCs
  BY CallPlaces DEF BaseInv, Gateway, Kinds, PCs, DeployPCs, SubnetPCs, AfterMaking, At
<1>2. ASSUME NEW x \in Ofkind(Vpc(t), "igw"), Reads(t, Found(t, "table", "igw", x.id))
      PROVE  Frame(t) /\ Turns(t)
  <2> DEFINE w == Found(t, "table", "igw", x.id)
  <2>1. x.id \in 0..(nextId - 1)
    BY <1>1, AtWork DEF Ofkind, In
  <2>2. Got(worker[t], w, "table", {"igw"}) /\ w.got["igw"] = x.id
    BY <1>1, <2>1, Finds DEF Got
  <2>3. Reads(t, w)
    BY <1>2
  <2> HIDE DEF w
  <2>4. Gets(t, w)
    BY <1>1, <2>2 DEF Gets
  <2>5. QED
    BY <1>1, <2>3, <2>4, GetTurn, ReadsFrame
<1>3. CASE Calls(t, {account \cup {new}, account \cup {Tag(new)}}, account \cup {att},
                 Made(t, "table", "igw"))
  <2>1. "igw" \in Kinds /\ 0 \in 0..nextId /\ 0 \in 0..(nextId - 1) /\ NoName \in Names
        /\ Vpc(t) \in 0..((nextId + 1) - 1)
    BY <1>1, AtWork, NamesOf DEF Kinds
  <2>2. \A y \in {new, Tag(new)} : /\ y \in Things(nextId + 1) /\ y.id = nextId /\ y.ours
                                   /\ y.kind = "igw" /\ y.vpc = 0 /\ y.of = 0
    BY <1>1, <2>1, NewThing
  <2>3. Tag(new).tagged
    BY DEF Tag, Thing
  <2> HIDE DEF new
  <2>5. att \in Things(nextId + 1) /\ att.id = nextId /\ att.ours /\ att.kind = "igw"
        /\ att.vpc = Vpc(t) /\ att.tagged
    BY <2>1, <2>2, <2>3 DEF Things
  <2> HIDE DEF att
  <2>6. IsNew(t, att) /\ \A y \in {new, Tag(new)} : y.id \in cut' => IsNew(t, y)
    BY <1>1, <2>2, <2>5 DEF IsNew, Shaped
  <2>7. \A a \in {account \cup {new}, account \cup {Tag(new)}} :
          \E y : a = account \cup {y} /\ y.id = nextId /\ (y.id \in cut' => IsNew(t, y))
    BY <2>2, <2>6
  <2>8. Frame(t)
    BY <1>1, <1>3, <2>6, <2>7, MakeFrame
  <2>9. Turns(t)
    BY <1>1, <1>3, <2>5, <2>6, MakeTurn
  <2>10. QED
    BY <2>8, <2>9
<1>4. QED
  BY <1>2, <1>3 DEF Gateway

LEMMA TableTurn ==
  ASSUME BaseInv, NEW t \in Topologies, Table(t)
  PROVE  Frame(t) /\ Turns(t)
<1> DEFINE new == Thing(nextId, "rt", NoName, Vpc(t), 0)
<1> DEFINE tied == [Tag(new) EXCEPT !.of = worker[t].got["subnet"]]
<1>1. ProviderTypes /\ At(t, "table")
      /\ Calls(t, {account \cup {new}, account \cup {Tag(new)}}, account \cup {tied},
            Made(t, "rowSubnet", "rt"))
  BY DEF BaseInv, Table, Associated
<1>2. "rt" \in Kinds /\ Vpc(t) \in 0..nextId /\ 0 \in 0..(nextId - 1) /\ NoName \in Names
      /\ worker[t].got["subnet"] \in 0..((nextId + 1) - 1)
  BY <1>1, AtWork, NamesOf DEF Kinds
<1>3. \A y \in {new, Tag(new)} : /\ y \in Things(nextId + 1) /\ y.id = nextId /\ y.ours
                                 /\ y.kind = "rt" /\ y.vpc = Vpc(t)
  BY <1>1, <1>2, NewThing
<1>4. Tag(new).tagged
  BY DEF Tag, Thing
<1> HIDE DEF new
<1>6. tied \in Things(nextId + 1) /\ tied.id = nextId /\ tied.ours /\ tied.kind = "rt"
      /\ tied.vpc = Vpc(t) /\ tied.tagged /\ tied.of = worker[t].got["subnet"]
  BY <1>2, <1>3, <1>4 DEF Things
<1> HIDE DEF tied
<1>7. IsNew(t, tied) /\ \A y \in {new, Tag(new)} : y.id \in cut' => IsNew(t, y)
  BY <1>1, <1>3, <1>6 DEF IsNew, Shaped
<1>8. \A a \in {account \cup {new}, account \cup {Tag(new)}} :
        \E y : a = account \cup {y} /\ y.id = nextId /\ (y.id \in cut' => IsNew(t, y))
  BY <1>3, <1>7
<1>9. Frame(t)
  BY <1>1, <1>7, <1>8, MakeFrame
<1>10. "rt" \in Kinds /\ "rowSubnet" \in PCs /\ AfterMaking["rt"] = "rowSubnet" /\ worker[t].pc \in CallPCs
  BY <1>1, CallPlaces DEF Kinds, PCs, DeployPCs, AfterMaking, At
<1>11. Turns(t)
  BY <1>1, <1>6, <1>7, <1>10, MakeTurn
<1>12. QED
  BY <1>9, <1>11

LEMMA GroupTurn ==
  ASSUME BaseInv, NEW t \in Topologies, Group(t)
  PROVE  Frame(t) /\ Turns(t)
<1> DEFINE new == Thing(nextId, "sg", GroupName, Vpc(t), 0)
<1>1. ProviderTypes /\ At(t, "group") /\ worker[t].pc = "group"
      /\ "sg" \in Kinds /\ "run" \in PCs /\ AfterMaking["sg"] = "run" /\ worker[t].pc \in CallPCs
  BY CallPlaces DEF BaseInv, Group, Kinds, PCs, DeployPCs, HostPCs, AfterMaking, At
<1>2. ASSUME NEW x \in Groups(t), Reads(t, Found(t, "run", "sg", x.id)) PROVE Frame(t) /\ Turns(t)
  <2> DEFINE w == Found(t, "run", "sg", x.id)
  <2>1. x.id \in 0..(nextId - 1)
    BY <1>1, AtWork DEF Groups, Ofkind, In
  <2>2. Got(worker[t], w, "run", {"sg"}) /\ w.got["sg"] = x.id
    BY <1>1, <2>1, Finds DEF Got
  <2>3. Reads(t, w)
    BY <1>2
  <2> HIDE DEF w
  <2>4. Gets(t, w)
    BY <1>1, <2>2 DEF Gets
  <2>5. QED
    BY <1>1, <2>3, <2>4, GetTurn, ReadsFrame
<1>3. CASE /\ Groups(t) = {}
           /\ Calls(t, {account \cup {new}}, account \cup {Tag(new)}, Made(t, "run", "sg"))
  <2>1. \A y \in {new, Tag(new)} : /\ y \in Things(nextId + 1) /\ y.id = nextId /\ y.ours
                                   /\ y.kind = "sg" /\ y.name = GroupName /\ y.vpc = Vpc(t)
    <3>1. "sg" \in Kinds /\ Vpc(t) \in 0..nextId /\ 0 \in 0..(nextId - 1) /\ GroupName \in Names
      BY <1>1, AtWork, NamesOf DEF Kinds
    <3>2. QED
      BY <1>1, <3>1, NewThing
  <2>2. Tag(new).tagged
    BY DEF Tag, Thing
  <2> HIDE DEF new
  <2>3. IsNew(t, Tag(new)) /\ (new.id \in cut' => IsNew(t, new))
    BY <1>1, <1>3, <2>1, <2>2 DEF IsNew, Shaped
  <2>4. \A a \in {account \cup {new}} :
          \E y : a = account \cup {y} /\ y.id = nextId /\ (y.id \in cut' => IsNew(t, y))
    BY <2>1, <2>3
  <2>5. Frame(t)
    BY <1>1, <1>3, <2>3, <2>4, MakeFrame
  <2>6. Turns(t)
    BY <1>1, <1>3, <2>1, <2>2, <2>3, MakeTurn
  <2>7. QED
    BY <2>5, <2>6
<1>4. QED
  BY <1>2, <1>3 DEF Group

LEMMA RunTurn ==
  ASSUME BaseInv, NEW t \in Topologies, Run(t)
  PROVE  Frame(t) /\ Turns(t)
<1> DEFINE host == HostName(worker[t].at)
           o == HomeSubnet(t)
           v == Vpc(t)
           new == Thing(nextId, "instance", host, v, o)
<1>1. ProviderTypes /\ At(t, "run")
      /\ Calls(t, {}, account \cup {Tag(new)}, Made(t, "rowInstance", "instance"))
  BY DEF BaseInv, Run
<1>2. o \in 0..(nextId - 1)
  BY <1>1, HomeRow, AtWork DEF Rows, Before, HostPCs, At
<1>3. "instance" \in Kinds /\ v \in 0..nextId /\ host \in Names
  BY <1>1, AtWork, NamesOf DEF Kinds
<1>4. o = HomeSubnet(t) /\ v = Vpc(t) /\ host = HostName(worker[t].at)
  OBVIOUS
<1> HIDE DEF o, v, host
<1>5. /\ Tag(new) \in Things(nextId + 1) /\ Tag(new).id = nextId /\ Tag(new).ours
      /\ Tag(new).kind = "instance" /\ Tag(new).name = host
      /\ Tag(new).vpc = v /\ Tag(new).of = o /\ Tag(new).up /\ Tag(new).tagged
  <2>1. Tag(new).up /\ Tag(new).tagged
    BY DEF Tag, Thing
  <2>2. ProviderTypes
    BY <1>1
  <2>3. QED
    BY <1>2, <1>3, <2>1, <2>2, NewThing
<1> DEFINE made == Tag(new)
<1> HIDE DEF made
<1>6. IsNew(t, made)
  BY <1>1, <1>4, <1>5 DEF IsNew, Shaped, made
<1>7. Calls(t, {}, account \cup {made}, Made(t, "rowInstance", "instance"))
  BY <1>1 DEF made
<1>8. Frame(t)
  BY <1>1, <1>6, <1>7, MakeFrame
<1>9. "rowInstance" \in PCs /\ AfterMaking["instance"] = "rowInstance" /\ worker[t].pc \in CallPCs
      /\ made.kind = "instance" /\ made.tagged /\ made.id = nextId
  BY <1>1, <1>5, CallPlaces DEF PCs, DeployPCs, AfterMaking, At, made
<1>10. Turns(t)
  BY <1>3, <1>6, <1>7, <1>9, MakeTurn
<1>11. QED
  BY <1>8, <1>10

\* The steps that write rows.
LEMMA WriteTurn ==
  ASSUME NEW t \in Topologies, NEW w, Local(t, w), Writes(t, w),
         \A u \in Topologies \ {t} : rows'[u] = rows[u] /\ active'[u] = active[u]
  PROVE  Turns(t)
BY LocalTurn DEF Turns, Turn

LEMMA RowVpcTurn ==
  ASSUME BaseInv, NEW t \in Topologies, RowVpc(t)
  PROVE  Turns(t)
<1> DEFINE w == NextCreate(t, "subnet", 1)
<1>1. worker[t].pc = "rowVpc" /\ ProviderTypes /\ Local(t, w)
      /\ rows' = [rows EXCEPT ![t] = @ \cup {Row("vpc", 0, Vpc(t))}] /\ active' = active
  BY DEF RowVpc, At, BaseInv
<1>2. NextTo(worker[t], w, "subnet", 1)
  <2>1. "subnet" \in PCs /\ 1 \in Nat \ {0}
    BY DEF PCs, DeployPCs, SubnetPCs
  <2>2. QED
    BY <1>1, <2>1, Nexts DEF NextTo
<1> HIDE DEF w
<1>3. rows'[t] = rows[t] \cup {Row("vpc", 0, Vpc(t))} /\ \A u \in Topologies \ {t} : rows'[u] = rows[u]
  BY <1>1 DEF ProviderTypes
<1>4. QED
  BY <1>1, <1>2, <1>3, WriteTurn DEF Writes

LEMMA RowSubnetTurn ==
  ASSUME BaseInv, NEW t \in Topologies, RowSubnet(t)
  PROVE  Turns(t)
<1> DEFINE n == worker[t].at
           w == IF n < Segments[t] THEN NextCreate(t, "subnet", n + 1) ELSE NextCreate(t, "instance", 1)
           more == {r \in {Row(k, n, worker[t].got[k]) : k \in {"igw", "rt"}} :
                      r.id \notin {s.id : s \in rows[t]} \cup {0}}
<1>1. worker[t].pc = "rowSubnet" /\ ProviderTypes /\ Local(t, w)
      /\ rows' = [rows EXCEPT ![t] = @ \cup {Row("subnet", n, worker[t].got["subnet"])} \cup more]
      /\ active' = active
  BY DEF RowSubnet, At, BaseInv
<1>2. n \in Nat \ {0} /\ n + 1 \in Nat \ {0} /\ 1 \in Nat \ {0} /\ "subnet" \in PCs /\ "instance" \in PCs
  BY <1>1, AtWork DEF PCs, DeployPCs, SubnetPCs, HostPCs
<1>3. IF n < Segments[t] THEN NextTo(worker[t], w, "subnet", n + 1) ELSE NextTo(worker[t], w, "instance", 1)
  <2>1. CASE n < Segments[t]
    BY <1>1, <1>2, <2>1, Nexts DEF NextTo
  <2>2. CASE ~(n < Segments[t])
    BY <1>1, <1>2, <2>2, Nexts DEF NextTo
  <2>3. QED
    BY <2>1, <2>2
<1> HIDE DEF w, more
<1>4. rows'[t] = rows[t] \cup {Row("subnet", n, worker[t].got["subnet"])} \cup more
      /\ \A u \in Topologies \ {t} : rows'[u] = rows[u]
  BY <1>1 DEF ProviderTypes
<1>5. Writes(t, w)
  BY <1>1, <1>3, <1>4 DEF Writes, more
<1>6. QED
  BY <1>1, <1>4, <1>5, WriteTurn

LEMMA RowInstanceTurn ==
  ASSUME BaseInv, NEW t \in Topologies, RowInstance(t)
  PROVE  Turns(t)
<1> DEFINE n == worker[t].at
           w == IF n + 1 \in DOMAIN Home[t] THEN NextCreate(t, "instance", n + 1)
                ELSE NextCreate(t, "firewall", 1)
           more == {r \in {Row("sg", 0, worker[t].got["sg"])} : r.id \notin {s.id : s \in rows[t]} \cup {0}}
           own == Row("instance", n, worker[t].got["instance"])
<1>1. worker[t].pc = "rowInstance" /\ ProviderTypes /\ Local(t, w)
      /\ rows' = [rows EXCEPT ![t] = @ \cup more \cup {own}]
      /\ active' = active
  BY DEF RowInstance, At, BaseInv
<1>2. n \in Nat \ {0} /\ n + 1 \in Nat \ {0} /\ 1 \in Nat \ {0} /\ "firewall" \in PCs /\ "instance" \in PCs
  BY <1>1, AtWork DEF PCs, DeployPCs, SubnetPCs, HostPCs
<1>3. IF n + 1 \in DOMAIN Home[t] THEN NextTo(worker[t], w, "instance", n + 1)
      ELSE NextTo(worker[t], w, "firewall", 1)
  <2>1. CASE n + 1 \in DOMAIN Home[t]
    BY <1>1, <1>2, <2>1, Nexts DEF NextTo
  <2>2. CASE ~(n + 1 \in DOMAIN Home[t])
    BY <1>1, <1>2, <2>2, Nexts DEF NextTo
  <2>3. QED
    BY <2>1, <2>2
<1> HIDE DEF w, more, own
<1>4. rows'[t] = rows[t] \cup {own} \cup more
      /\ \A u \in Topologies \ {t} : rows'[u] = rows[u]
  BY <1>1 DEF ProviderTypes
<1>5. Writes(t, w)
  BY <1>1, <1>3, <1>4 DEF Writes, more, own
<1>6. QED
  BY <1>1, <1>4, <1>5, WriteTurn

LEMMA RestTurn ==
  ASSUME BaseInv, NEW t \in Topologies, Activate(t) \/ DropRows(t) \/ ListRows(t)
  PROVE  Turns(t)
<1>1. ProviderTypes
  BY DEF BaseInv
<1>2. CASE Activate(t)
  <2>1. /\ active'[t] = TRUE /\ rows' = rows /\ worker[t].pc = "active" /\ Local(t, Resting)
        /\ \A u \in Topologies \ {t} : active'[u] = active[u]
    BY <1>1, <1>2 DEF Activate, At, ProviderTypes
  <2>2. QED
    BY <2>1, WriteTurn DEF Writes
<1>3. CASE DropRows(t)
  <2>1. /\ active'[t] = FALSE /\ rows'[t] = {} /\ worker[t].pc = "drop" /\ Local(t, Resting)
        /\ \A u \in Topologies \ {t} : active'[u] = active[u] /\ rows'[u] = rows[u]
    BY <1>1, <1>3 DEF DropRows, At, ProviderTypes
  <2>2. QED
    BY <2>1, WriteTurn DEF Writes
<1>4. CASE rows[t] = {} /\ Local(t, Resting) /\ active' = [active EXCEPT ![t] = FALSE] /\ ListRows(t)
  <2>1. /\ active'[t] = FALSE /\ rows'[t] = {} /\ worker[t].pc = "rows" /\ Local(t, Resting)
        /\ \A u \in Topologies \ {t} : active'[u] = active[u] /\ rows'[u] = rows[u]
    BY <1>1, <1>4 DEF ListRows, At, ProviderTypes
  <2>2. QED
    BY <1>4, <2>1, WriteTurn DEF Writes
<1>5. ASSUME NEW r \in rows[t], r.kind = "vpc", Local(t, Found(t, "checkVpc", "vpc", r.id)),
             UNCHANGED <<rows, active>>, At(t, "rows")
      PROVE  Turns(t)
  <2> DEFINE w == Found(t, "checkVpc", "vpc", r.id)
  <2>1. r.id \in 0..(nextId - 1) /\ "vpc" \in Kinds /\ "checkVpc" \in PCs
    <3>1. r \in Rows(nextId)
      BY <1>1, WorkerFields
    <3>2. QED
      BY <1>1, <3>1, AtWork DEF Rows, Before, Kinds, PCs
  <2>2. Got(worker[t], w, "checkVpc", {"vpc"}) /\ w.got["vpc"] = r.id
    BY <1>1, <2>1, Finds DEF Got
  <2>3. Local(t, w)
    BY <1>5
  <2> HIDE DEF w
  <2>4. Gets(t, w)
    BY <1>5, <2>2 DEF Gets, At
  <2>5. QED
    BY <1>5, <2>3, <2>4, LocalTurn DEF Turns, Turn
<1>6. QED
  BY <1>2, <1>3, <1>4, <1>5 DEF ListRows

\* The teardown.
LEMMA DeleteTurn ==
  ASSUME ProviderTypes, NEW t \in Topologies, NEW partial, NEW whole, NEW w,
         Refuses(t) \/ Calls(t, partial, whole, w), worker[t].pc \in CallPCs, Thins(whole),
         account' = whole => Deletes(t, w)
  PROVE  Turns(t)
<1>1. CASE account' = whole /\ Goes(t, w) /\ Numbered /\ UNCHANGED <<cut, rows, active>>
  <2>1. nextId' = nextId
    BY <1>1, NothingNew
  <2>2. QED
    BY <1>1, <2>1 DEF Turns, Turn
<1>2. CASE Fails(t)
  BY <1>2 DEF Turns
<1>3. QED
  BY <1>1, <1>2, CallTurn, RefusesTurn

LEMMA FirewallTurn ==
  ASSUME BaseInv, NEW t \in Topologies, Firewall(t)
  PROVE  Turns(t)
<1> DEFINE group == {x \in account : Row("sg", 0, x.id) \in rows[t]}
           whole == (account \ group) \cup {[x EXCEPT !.up = TRUE] : x \in group}
           w == To(t, "active")
<1>1. worker[t].pc = "firewall" /\ worker[t].pc \in CallPCs /\ worker[t].pc \in DeployPCs /\ ProviderTypes
      /\ (Refuses(t) \/ (group # {} /\ Calls(t, {}, whole, w)))
  BY CallPlaces DEF Firewall, BaseInv, At, DeployPCs
<1>2. Thins(whole)
  <2>1. \A x \in group : x.kind = "sg"
    BY <1>1, OwnVpcRow, ZenonT(60) DEF Row
  <2>2. group \in SUBSET account /\ \A x \in group : x.kind = IF TRUE THEN "sg" ELSE "instance"
    BY <2>1
  <2>3. QED
    BY <1>1, <2>2, UpThins
<1>3. Moved(worker[t], w, "active")
  <2>1. "active" \in PCs
    BY DEF PCs, DeployPCs
  <2>2. QED
    BY <1>1, <2>1, Moves DEF Moved
<1> HIDE DEF w
<1>4. group # {} /\ account' = whole => Deletes(t, w)
  BY <1>1, <1>3 DEF Deletes
<1> HIDE DEF whole, group
<1>5. CASE Refuses(t)
  BY <1>1, <1>5, RefusesTurn DEF Turns
<1>6. CASE group # {} /\ Calls(t, {}, whole, w)
  BY <1>1, <1>2, <1>4, <1>6, DeleteTurn
<1>7. QED
  BY <1>1, <1>5, <1>6

LEMMA TerminateTurn ==
  ASSUME BaseInv, NEW t \in Topologies, Terminate(t)
  PROVE  Turns(t)
<1> DEFINE listed == {x \in Ofkind(Vpc(t), "instance") : x.up}
           whole == (account \ listed) \cup {[x EXCEPT !.up = FALSE] : x \in listed}
           w == [To(t, "await") EXCEPT !.left = {x.id : x \in listed}]
<1>1. worker[t].pc = "instances" /\ worker[t].pc \in CallPCs /\ ProviderTypes
      /\ (Refuses(t) \/ (Calls(t, {}, whole, w) /\ \A x \in listed : x.tagged))
  BY CallPlaces DEF Terminate, BaseInv, Awaited, At
<1>2. listed \in SUBSET account /\ \A x \in listed : x.kind = IF FALSE THEN "sg" ELSE "instance"
  BY DEF Ofkind, In
<1>3. Thins(whole)
  BY <1>1, <1>2, UpThins
<1>4. w.pc = "await" /\ w.at = worker[t].at /\ w.got = worker[t].got /\ w.made = worker[t].made
      /\ w.left = {x.id : x \in listed}
  <2>1. {x.id : x \in listed} \in SUBSET Before(nextId) /\ "await" \in PCs
    BY <1>1, <1>2, SomeIds, TeardownPlaces
  <2> HIDE DEF listed
  <2>2. QED
    BY <1>1, <2>1, Listed
<1> HIDE DEF w
<1>5. (\A x \in listed : x.tagged) /\ account' = whole => Deletes(t, w)
  BY <1>1, <1>4 DEF Deletes
<1> HIDE DEF whole, listed
<1>6. CASE Refuses(t)
  BY <1>1, <1>6, RefusesTurn DEF Turns
<1>7. CASE Calls(t, {}, whole, w) /\ \A x \in listed : x.tagged
  BY <1>1, <1>3, <1>5, <1>7, DeleteTurn
<1>8. QED
  BY <1>1, <1>6, <1>7

LEMMA DeleteGroupTurn ==
  ASSUME BaseInv, NEW t \in Topologies, DeleteGroup(t)
  PROVE  Turns(t)
<1> DEFINE w == To(t, "listTables")
<1>1. worker[t].pc = "groups" /\ worker[t].pc \in CallPCs /\ ProviderTypes /\ "listTables" \in PCs
  BY CallPlaces, TeardownPlaces DEF DeleteGroup, BaseInv, At
<1>2. CASE Groups(t) = {} /\ Reads(t, To(t, "listTables"))
  BY <1>1, <1>2, PassTurn DEF Passes
<1>3. ASSUME NEW x \in Groups(t), \A y \in Ofkind(Vpc(t), "instance") : ~y.ours,
             Calls(t, {}, account \ {x}, To(t, "listTables"))
      PROVE  Turns(t)
  <2>1. Moved(worker[t], w, "listTables") /\ Calls(t, {}, account \ {x}, w)
    BY <1>1, <1>3, Moves DEF Moved
  <2> HIDE DEF w
  <2>2. account' = account \ {x} => Deletes(t, w)
    BY <1>1, <1>3, <2>1 DEF Deletes
  <2>3. QED
    BY <1>1, <2>1, <2>2, LessThins, DeleteTurn
<1>4. CASE Refuses(t)
  BY <1>1, <1>4, RefusesTurn DEF Turns
<1>5. QED
  BY <1>2, <1>3, <1>4 DEF DeleteGroup

LEMMA LoopTurn ==
  ASSUME BaseInv, NEW t \in Topologies, DeleteTable(t) \/ DeleteGateway(t) \/ DeleteSubnet(t)
  PROVE  Turns(t)
<1>1. worker[t].pc \in {"tables", "gateways", "subnets"} /\ worker[t].pc \in CallPCs /\ ProviderTypes
  BY CallPlaces DEF DeleteTable, DeleteGateway, DeleteSubnet, BaseInv, At
<1>2. ASSUME NEW x \in account, x.id \in worker[t].left, NEW partial,
             Calls(t, partial, account \ {x}, [worker[t] EXCEPT !.left = @ \ {x.id}]),
             worker[t].pc = "subnets" => \A y \in account : ~(y.kind = "instance" /\ y.of = x.id)
      PROVE  Turns(t)
  <2> DEFINE w == [worker[t] EXCEPT !.left = @ \ {x.id}]
  <2>1. w.pc = worker[t].pc /\ w.at = worker[t].at /\ w.got = worker[t].got /\ w.made = worker[t].made
        /\ w.left = worker[t].left \ {x.id} /\ Calls(t, partial, account \ {x}, w)
    BY <1>1, <1>2, Strikes
  <2> HIDE DEF w
  <2>2. account' = account \ {x} => Deletes(t, w)
    BY <1>1, <1>2, <2>1 DEF Deletes
  <2>3. QED
    BY <1>1, <2>1, <2>2, LessThins, DeleteTurn
<1>3. CASE Refuses(t)
  BY <1>1, <1>3, RefusesTurn DEF Turns
<1>4. ASSUME NEW pc \in {"listGateways", "listSubnets", "deleteVpc"}, Local(t, To(t, pc)),
             UNCHANGED <<rows, active>>, worker[t].left = {},
             \/ worker[t].pc = "tables" /\ pc = "listGateways"
             \/ worker[t].pc = "gateways" /\ pc = "listSubnets"
             \/ worker[t].pc = "subnets" /\ pc = "deleteVpc"
      PROVE  Turns(t)
  <2>1. pc \in PCs
    BY TeardownPlaces
  <2>2. QED
    BY <1>1, <1>4, <2>1, PassTurn DEF Passes
<1>5. CASE DeleteTable(t)
  BY <1>2, <1>4, <1>5 DEF DeleteTable, At
<1>6. CASE DeleteGateway(t)
  BY <1>2, <1>3, <1>4, <1>6 DEF DeleteGateway, At
<1>7. CASE DeleteSubnet(t)
  BY <1>2, <1>3, <1>4, <1>7 DEF DeleteSubnet, At
<1>8. QED
  BY <1>5, <1>6, <1>7

LEMMA DeleteVpcTurn ==
  ASSUME BaseInv, NEW t \in Topologies, DeleteVpc(t)
  PROVE  Turns(t)
<1>1. worker[t].pc = "deleteVpc" /\ worker[t].pc \in CallPCs /\ ProviderTypes
  BY CallPlaces DEF DeleteVpc, BaseInv, At
<1>2. CASE In(Vpc(t)) = With(Vpc(t)) /\ Calls(t, {}, account \ With(Vpc(t)), Stopped(t))
  <2>1. account' = account \ With(Vpc(t)) => Deletes(t, Stopped(t))
    BY <1>1, <1>2 DEF Deletes
  <2>2. QED
    BY <1>1, <1>2, <2>1, LessThins, DeleteTurn
<1>3. CASE Refuses(t)
  BY <1>1, <1>3, RefusesTurn DEF Turns
<1>4. QED
  BY <1>2, <1>3 DEF DeleteVpc, Stopped

LEMMA CheckTurn ==
  ASSUME BaseInv, NEW t \in Topologies, CheckVpc(t)
  PROVE  Turns(t)
<1>1. worker[t].pc = "checkVpc" /\ worker[t].pc \in CallPCs /\ ProviderTypes /\ "instances" \in PCs
  BY CallPlaces, TeardownPlaces DEF CheckVpc, BaseInv, At
<1>2. CASE With(Vpc(t)) \cap {x \in account : x.tagged} # {} /\ Reads(t, To(t, "instances"))
  <2>1. Tags(Vpc(t))
    BY <1>2 DEF Tags
  <2>2. QED
    BY <1>1, <1>2, <2>1, PassTurn DEF Passes
<1>3. CASE Refuses(t)
  BY <1>1, <1>3, RefusesTurn DEF Turns
<1>4. QED
  BY <1>2, <1>3 DEF CheckVpc

LEMMA ListTurn ==
  ASSUME BaseInv, NEW t \in Topologies,
         Await(t) \/ ListTables(t) \/ ListGateways(t) \/ ListSubnets(t)
  PROVE  Turns(t)
<1>1. worker[t].pc \in CallPCs /\ ProviderTypes
  BY CallPlaces DEF Await, ListTables, ListGateways, ListSubnets, BaseInv, At
<1>2. CASE Refuses(t)
  BY <1>1, <1>2, RefusesTurn DEF Turns
<1>3. CASE worker[t].left \cap Ids = {} /\ Reads(t, [To(t, "groups") EXCEPT !.left = {}]) /\ Await(t)
  <2> DEFINE w == [To(t, "groups") EXCEPT !.left = {}]
  <2>1. "groups" \in PCs /\ {} \in SUBSET Before(nextId)
    BY TeardownPlaces
  <2>2. Reads(t, w)
    BY <1>3
  <2>3. w.pc = "groups" /\ w.at = worker[t].at /\ w.got = worker[t].got /\ w.made = worker[t].made
        /\ w.left = {}
    <3> DEFINE v == To(t, "groups")
    <3>1. v \in Workers(nextId) /\ v.pc = "groups" /\ v.at = worker[t].at /\ v.got = worker[t].got
          /\ v.made = worker[t].made
      BY <1>1, <2>1, Moves
    <3> HIDE DEF v
    <3>2. w = [v EXCEPT !.left = {}]
      BY DEF v
    <3>3. QED
      BY <3>1, <3>2 DEF Workers
  <2> HIDE DEF w
  <2>4. Lists(t, w)
    BY <1>3, <2>3 DEF Lists, Await, At
  <2>5. QED
    BY <1>1, <2>2, <2>4, GetTurn
<1>4. CASE UNCHANGED <<rows, active>> /\ Raises(t, FALSE)
  BY <1>1, <1>4 DEF Turns, Fails
<1>5. CASE ListTables(t)
  <2> DEFINE S == Cloudnets(Ofkind(Vpc(t), "rt"))
             ids == {x.id : x \in S}
             w == [To(t, "tables") EXCEPT !.left = ids]
  <2>1. ids \in SUBSET Before(nextId) /\ "tables" \in PCs
    <3>1. S \in SUBSET account
      BY DEF Cloudnets, Ofkind, In
    <3> HIDE DEF S
    <3>2. QED
      BY <1>1, <3>1, SomeIds, TeardownPlaces
  <2>2. Reads(t, w)
    BY <1>5 DEF ListTables
  <2> HIDE DEF S, ids
  <2>3. w.pc = "tables" /\ w.at = worker[t].at /\ w.got = worker[t].got /\ w.made = worker[t].made
        /\ w.left = ids
    <3> DEFINE v == To(t, "tables")
    <3>1. v \in Workers(nextId) /\ v.pc = "tables" /\ v.at = worker[t].at /\ v.got = worker[t].got
          /\ v.made = worker[t].made
      BY <1>1, <2>1, Moves
    <3> HIDE DEF v
    <3>2. w = [v EXCEPT !.left = ids]
      BY DEF v
    <3>3. QED
      BY <3>1, <3>2 DEF Workers
  <2> HIDE DEF w
  <2>4. Lists(t, w)
    BY <1>5, <2>3 DEF Lists, ListTables, At, S, ids
  <2>5. QED
    BY <1>1, <2>2, <2>4, GetTurn
<1>6. CASE ListGateways(t)
  <2> DEFINE S == Cloudnets(Ofkind(Vpc(t), "igw"))
             ids == {x.id : x \in S}
             w == [To(t, "gateways") EXCEPT !.left = ids]
  <2>1. ids \in SUBSET Before(nextId) /\ "gateways" \in PCs
    <3>1. S \in SUBSET account
      BY DEF Cloudnets, Ofkind, In
    <3> HIDE DEF S
    <3>2. QED
      BY <1>1, <3>1, SomeIds, TeardownPlaces
  <2>2. Reads(t, w)
    BY <1>6 DEF ListGateways
  <2> HIDE DEF S, ids
  <2>3. w.pc = "gateways" /\ w.at = worker[t].at /\ w.got = worker[t].got /\ w.made = worker[t].made
        /\ w.left = ids
    <3> DEFINE v == To(t, "gateways")
    <3>1. v \in Workers(nextId) /\ v.pc = "gateways" /\ v.at = worker[t].at /\ v.got = worker[t].got
          /\ v.made = worker[t].made
      BY <1>1, <2>1, Moves
    <3> HIDE DEF v
    <3>2. w = [v EXCEPT !.left = ids]
      BY DEF v
    <3>3. QED
      BY <3>1, <3>2 DEF Workers
  <2> HIDE DEF w
  <2>4. Lists(t, w)
    BY <1>6, <2>3 DEF Lists, ListGateways, At, S, ids
  <2>5. QED
    BY <1>1, <2>2, <2>4, GetTurn
<1>7. CASE ListSubnets(t) /\ ~Refuses(t)
  <2> DEFINE S == Ofkind(Vpc(t), "subnet")
             ids == {x.id : x \in S}
             w == [To(t, "subnets") EXCEPT !.left = ids]
  <2>1. ids \in SUBSET Before(nextId) /\ "subnets" \in PCs
    <3>1. S \in SUBSET account
      BY DEF Cloudnets, Ofkind, In
    <3> HIDE DEF S
    <3>2. QED
      BY <1>1, <3>1, SomeIds, TeardownPlaces
  <2>2. Reads(t, w)
    BY <1>7 DEF ListSubnets
  <2> HIDE DEF S, ids
  <2>3. w.pc = "subnets" /\ w.at = worker[t].at /\ w.got = worker[t].got /\ w.made = worker[t].made
        /\ w.left = ids
    <3> DEFINE v == To(t, "subnets")
    <3>1. v \in Workers(nextId) /\ v.pc = "subnets" /\ v.at = worker[t].at /\ v.got = worker[t].got
          /\ v.made = worker[t].made
      BY <1>1, <2>1, Moves
    <3> HIDE DEF v
    <3>2. w = [v EXCEPT !.left = ids]
      BY DEF v
    <3>3. QED
      BY <3>1, <3>2 DEF Workers
  <2> HIDE DEF w
  <2>4. Lists(t, w)
    BY <1>7, <2>3 DEF Lists, ListSubnets, At, S, ids
  <2>5. QED
    BY <1>1, <2>2, <2>4, GetTurn
<1>8. QED
  BY <1>2, <1>3, <1>4, <1>5, <1>6, <1>7 DEF Await

\* What a handler does to the account is on its own VPC, or new.
LEMMA StepFrame ==
  ASSUME BaseInv, NEW t \in Topologies, BeginDeploy(t) \/ BeginCleanup(t) \/ Step(t)
  PROVE  Frame(t)
<1>1. CASE BeginDeploy(t) \/ BeginCleanup(t)
  BY <1>1, StillFrame DEF BeginDeploy, BeginCleanup
<1>2. CASE FindVpc(t)
  BY <1>2, ReadsFrame DEF FindVpc
<1>3. CASE FindSubnet(t)
  BY <1>3, ReadsFrame DEF FindSubnet
<1>4. CASE FindInstance(t)
  BY <1>4, ReadsFrame DEF FindInstance
<1>5. CASE RowVpc(t) \/ RowSubnet(t) \/ RowInstance(t) \/ Activate(t) \/ DropRows(t)
  <2>1. UNCHANGED <<account, cut>>
    BY <1>5 DEF RowVpc, RowSubnet, RowInstance, Activate, DropRows, Local
  <2>2. QED
    BY <2>1, StillFrame
<1>6. CASE ListRows(t)
  <2>1. UNCHANGED <<account, cut>>
    BY <1>6 DEF ListRows, Local
  <2>2. QED
    BY <2>1, StillFrame
<1>7. CASE CheckVpc(t)
  BY <1>7, ReadsFrame, RefusesFrame DEF CheckVpc
<1>8. CASE Await(t)
  <2>1. CASE Reads(t, [To(t, "groups") EXCEPT !.left = {}])
    BY <2>1, ReadsFrame
  <2>2. CASE UNCHANGED account /\ Raises(t, FALSE)
    BY <2>2, StillFrame DEF Raises
  <2>3. QED
    BY <1>8, <2>1, <2>2 DEF Await
<1>9. CASE ListTables(t) \/ ListGateways(t) \/ ListSubnets(t)
  BY <1>9, ReadsFrame, RefusesFrame DEF ListTables, ListGateways, ListSubnets
<1>10. CASE MakeVpc(t) \/ MakeSubnet(t) \/ Gateway(t) \/ Table(t) \/ Group(t) \/ Run(t)
  BY <1>10, MakeVpcTurn, MakeSubnetTurn, GatewayTurn, TableTurn, GroupTurn, RunTurn
<1>11. CASE \/ Firewall(t) \/ Terminate(t) \/ DeleteGroup(t) \/ DeleteVpc(t)
            \/ DeleteTable(t) \/ DeleteGateway(t) \/ DeleteSubnet(t)
  BY <1>11, FirewallFrame, TerminateFrame, DeleteGroupFrame, LoopFrame, DeleteVpcFrame
<1>12. QED
  BY <1>1, <1>2, <1>3, <1>4, <1>5, <1>6, <1>7, <1>8, <1>9, <1>10, <1>11 DEF Step

LEMMA StepTurns ==
  ASSUME BaseInv, NEW t \in Topologies, BeginDeploy(t) \/ BeginCleanup(t) \/ Step(t)
  PROVE  Turns(t)
BY BeginTurn, FindVpcTurn, MakeVpcTurn, RowVpcTurn, FindSubnetTurn, MakeSubnetTurn, GatewayTurn,
   TableTurn, RowSubnetTurn, FindInstanceTurn, GroupTurn, RunTurn, RowInstanceTurn, FirewallTurn,
   RestTurn, CheckTurn, TerminateTurn, ListTurn, DeleteGroupTurn, LoopTurn, DeleteVpcTurn DEF Step

-----------------------------------------------------------------------------
(* What is there is known for what it is: every step *)

LEMMA OneOfIds ==
  ASSUME NEW S, NEW id \in OneOf(S)
  PROVE  (id = 0 /\ S = {}) \/ \E x \in S : x.id = id
BY DEF OneOf

\* A handler at rest has found nothing.
LEMMA AtRest ==
  ASSUME ProviderTypes, NEW t \in Topologies, worker[t].pc \in {"idle", "rows", "drop"}
  PROVE  /\ worker[t].got = [k \in Kinds |-> 0] /\ worker[t].left = {} /\ worker[t].made = {}
         /\ worker[t].at = 1
<1>1. PlacedAt(t, worker[t], rows[t])
  BY AtWork
<1>2. worker[t] = [Resting EXCEPT !.pc = worker[t].pc]
  BY <1>1 DEF PlacedAt
<1> DEFINE pc == worker[t].pc
<1>3. worker[t] = [Resting EXCEPT !.pc = pc]
  BY <1>2
<1> HIDE DEF pc
<1>4. QED
  BY <1>3 DEF Resting

LEMMA PassesBase ==
  ASSUME BaseInv, NEW t \in Topologies, NEW w, Passes(t, w)
  PROVE  KnownAt(t, w, account) /\ RecordedAt(t, w, rows[t], account)
<1>1. KnownAt(t, worker[t], account) /\ RecordedAt(t, worker[t], rows[t], account)
  BY DEF BaseInv, Known, Recorded
<1>2. worker[t].pc = "idle" => \A k \in Kinds : worker[t].got[k] = 0
  BY AtRest DEF BaseInv
<1>3. KnownAt(t, w, account)
  BY <1>1, <1>2 DEF Passes, Moved, KnownAt, VpcPCs, LoopPCs
<1>4. RecordedAt(t, w, rows[t], account)
  BY <1>1 DEF Passes, Moved, RecordedAt, VpcPCs, DeployPCs, SubnetPCs, HostPCs, TeardownPCs, TornPCs
<1>5. QED
  BY <1>3, <1>4

LEMMA GetsBase ==
  ASSUME BaseInv, NEW t \in Topologies, NEW w, Gets(t, w)
  PROVE  KnownAt(t, w, account) /\ RecordedAt(t, w, rows[t], account)
<1>1. KnownAt(t, worker[t], account) /\ RecordedAt(t, worker[t], rows[t], account)
      /\ \A x \in account : Shaped(x)
  BY DEF BaseInv, Known, Recorded
<1>2. /\ \A x, y \in account : x.id = y.id => x = y
      /\ \A x \in account : x.id # 0
  BY AtWork DEF BaseInv, ProviderTypes
<1>3. worker[t].left = {} /\ w.left = {} /\ w.pc \notin VpcPCs /\ w.pc \notin LoopPCs
  BY <1>1 DEF Gets, Got, KnownAt, LoopPCs, VpcPCs
<1>4. \A k \in Kinds, x \in account : x.id = w.got[k] =>
          /\ x.kind = k
          /\ k = "vpc" => x.name = NetworkName(t)
          /\ x.vpc = w.got["vpc"] \/ (k = "igw" /\ x.vpc = 0)
  <2>1. CASE worker[t].pc = "vpc"
    <3>1. PICK x \in CloudnetVpcs(t) : w.got["vpc"] = x.id
      BY <2>1 DEF Gets
    <3>2. x \in account /\ x.kind = "vpc" /\ x.name = NetworkName(t) /\ x.vpc = x.id
      BY <1>1, <3>1 DEF CloudnetVpcs, Shaped
    <3>3. \A k \in Kinds \ {"vpc"} : w.got[k] = 0
      BY <1>1, <2>1 DEF Gets, Got, KnownAt, VpcPCs
    <3>4. QED
      BY <1>2, <3>1, <3>2, <3>3
  <2>2. CASE worker[t].pc = "rows"
    <3>1. PICK r \in rows[t] : r.kind = "vpc" /\ w.got["vpc"] = r.id
      BY <2>2 DEF Gets
    <3>2. \A x \in account : x.id = r.id => x.kind = "vpc" /\ x.name = NetworkName(t) /\ x.vpc = x.id
      BY <1>1, <3>1 DEF RecordedAt, Shaped
    <3>3. \A k \in Kinds \ {"vpc"} : w.got[k] = 0
      <4>1. worker[t].got = [k \in Kinds |-> 0]
        BY <2>2, AtRest DEF BaseInv
      <4>2. QED
        BY <2>2, <4>1 DEF Gets, Got
    <3>4. QED
      BY <1>2, <3>1, <3>2, <3>3
  <2>3. CASE worker[t].pc = "subnet"
    <3>1. PICK s \in CloudnetSubnets(t) :
            /\ w.got["subnet"] = s.id
            /\ w.got["igw"] \in OneOf(Ofkind(Vpc(t), "igw"))
            /\ w.got["rt"] \in OneOf({y \in Ofkind(Vpc(t), "rt") : y.of = s.id})
      BY <2>3 DEF Gets
    <3>2. s \in account /\ s.kind = "subnet" /\ s.vpc = Vpc(t)
      BY DEF CloudnetSubnets, Ofkind, In
    <3>3. w.got["igw"] = 0 \/ \E y \in account : y.id = w.got["igw"] /\ y.kind = "igw" /\ y.vpc = Vpc(t)
      BY <3>1, OneOfIds DEF Ofkind, In
    <3>4. w.got["rt"] = 0 \/ \E y \in account : y.id = w.got["rt"] /\ y.kind = "rt" /\ y.vpc = Vpc(t)
      BY <3>1, OneOfIds DEF Ofkind, In
    <3>5. w.got["vpc"] = Vpc(t) /\ \A k \in Kinds \ {"subnet", "igw", "rt"} : w.got[k] = worker[t].got[k]
      BY <2>3 DEF Gets, Got, Vpc, Kinds
    <3>6. QED
      BY <1>1, <1>2, <3>1, <3>2, <3>3, <3>4, <3>5 DEF KnownAt, Vpc
  <2>4. CASE worker[t].pc = "gateway"
    <3>1. PICK s \in Ofkind(Vpc(t), "igw") : w.got["igw"] = s.id
      BY <2>4 DEF Gets
    <3>2. w.got["vpc"] = Vpc(t) /\ \A k \in Kinds \ {"igw"} : w.got[k] = worker[t].got[k]
      BY <2>4 DEF Gets, Got, Vpc, Kinds
    <3>3. s \in account /\ s.kind = "igw" /\ s.vpc = Vpc(t)
      BY DEF Ofkind, In
    <3>4. QED
      BY <1>1, <1>2, <3>1, <3>2, <3>3 DEF KnownAt, Vpc
  <2>5. CASE worker[t].pc = "instance"
    <3>1. PICK s \in CloudnetInstances(t) : w.got["instance"] = s.id
      BY <2>5 DEF Gets
    <3>2. s \in account /\ s.kind = "instance" /\ s.vpc = Vpc(t)
      BY DEF CloudnetInstances, Ofkind, In
    <3>3. w.got["sg"] = 0 \/ \E y \in account : y.id = w.got["sg"] /\ y.kind = "sg" /\ y.vpc = Vpc(t)
      BY <2>5, OneOfIds DEF Gets, Groups, Ofkind, In
    <3>4. w.got["vpc"] = Vpc(t) /\ \A k \in Kinds \ {"instance", "sg"} : w.got[k] = worker[t].got[k]
      BY <2>5 DEF Gets, Got, Vpc, Kinds
    <3>5. QED
      BY <1>1, <1>2, <3>1, <3>2, <3>3, <3>4 DEF KnownAt, Vpc
  <2>6. CASE worker[t].pc = "group"
    <3>1. PICK s \in Groups(t) : w.got["sg"] = s.id
      BY <2>6 DEF Gets
    <3>2. w.got["vpc"] = Vpc(t) /\ \A k \in Kinds \ {"sg"} : w.got[k] = worker[t].got[k]
      BY <2>6 DEF Gets, Got, Vpc, Kinds
    <3>3. s \in account /\ s.kind = "sg" /\ s.vpc = Vpc(t)
      BY DEF Groups, Ofkind, In
    <3>4. QED
      BY <1>1, <1>2, <3>1, <3>2, <3>3 DEF KnownAt, Vpc
  <2>7. QED
    BY <2>1, <2>2, <2>3, <2>4, <2>5, <2>6 DEF Gets
<1>5. KnownAt(t, w, account)
  BY <1>3, <1>4 DEF KnownAt
<1>6. RecordedAt(t, w, rows[t], account)
  <2>1. CASE worker[t].pc = "rows"
    <3>1. PICK r \in rows[t] : r.kind = "vpc" /\ w.got["vpc"] = r.id
      BY <2>1 DEF Gets
    <3>2. r.at = 0 /\ r \in Rows(nextId)
      BY <1>1, <3>1, WorkerFields DEF RecordedAt, BaseInv
    <3>3. r = Row("vpc", 0, r.id)
      BY <3>1, <3>2 DEF Rows, Row
    <3>4. QED
      BY <1>1, <2>1, <3>1, <3>3
      DEF Gets, Got, RecordedAt, VpcPCs, DeployPCs, SubnetPCs, HostPCs, TeardownPCs, TornPCs
  <2>2. CASE worker[t].pc # "rows"
    <3>1. worker[t].pc # "vpc" => w.got["vpc"] = worker[t].got["vpc"]
      BY <2>2 DEF Gets, Got, Kinds
    <3>2. \/ w.pc \in VpcPCs \cup {"rowVpc"} /\ worker[t].pc \in VpcPCs \cup {"rowVpc"}
          \/ /\ w.pc \in DeployPCs \cup TeardownPCs \cup {"checkVpc"}
             /\ worker[t].pc \in DeployPCs \cup TeardownPCs \cup {"checkVpc"}
             /\ w.got["vpc"] = worker[t].got["vpc"]
      BY <2>2, <3>1 DEF Gets, Got, VpcPCs, DeployPCs, SubnetPCs, HostPCs
    <3>3. QED
      BY <1>1, <3>2, RecordedMove
  <2>3. QED
    BY <2>1, <2>2
<1>7. QED
  BY <1>5, <1>6

LEMMA ListsBase ==
  ASSUME BaseInv, NEW t \in Topologies, NEW w, Lists(t, w)
  PROVE  KnownAt(t, w, account) /\ RecordedAt(t, w, rows[t], account)
<1>1. KnownAt(t, worker[t], account) /\ RecordedAt(t, worker[t], rows[t], account)
      /\ \A x, y \in account : x.id = y.id => x = y
  BY DEF BaseInv, Known, Recorded, ProviderTypes
<1>2. \A x \in account : x.id \in w.left =>
        x.kind = LoopKind[w.pc] /\ x.tagged /\ x.vpc = w.got["vpc"]
  BY <1>1 DEF Lists, Cloudnets, Ofkind, In, LoopKind, Vpc
<1>3. w.got = worker[t].got /\ w.pc \notin VpcPCs /\ (w.pc \notin LoopPCs => w.left = {})
      /\ w.pc \in TeardownPCs /\ worker[t].pc \in TeardownPCs
  BY TeardownPlaces DEF Lists, VpcPCs, LoopPCs
<1>4. KnownAt(t, w, account)
  BY <1>1, <1>2, <1>3 DEF KnownAt
<1>5. RecordedAt(t, w, rows[t], account)
  BY <1>1, <1>3, RecordedMove
<1>6. QED
  BY <1>4, <1>5

LEMMA CreatesBase ==
  ASSUME BaseInv, NEW t \in Topologies, NEW w, Creates(t, w)
  PROVE  KnownAt(t, w, account') /\ RecordedAt(t, w, rows[t], account')
<1>1. KnownAt(t, worker[t], account) /\ RecordedAt(t, worker[t], rows[t], account) /\ ProviderTypes
  BY DEF BaseInv, Known, Recorded
<1>2. PICK new :
        /\ account' = account \cup {new} /\ IsNew(t, new) /\ new.tagged
        /\ w.pc = AfterMaking[new.kind] /\ w.left = worker[t].left /\ w.got[new.kind] = nextId
        /\ \A k \in Kinds \ {new.kind} : w.got[k] = worker[t].got[k]
  BY DEF Creates
<1>3. new.kind \in Kinds /\ new.id = nextId /\ new.id # 0
  BY <1>1, <1>2, AtWork DEF IsNew, Things
<1>4. /\ \A x \in account : x.id # nextId
      /\ \A k \in Kinds : worker[t].got[k] # nextId
      /\ \A r \in rows[t] : r.id # nextId
  <2>1. rows[t] \subseteq Rows(nextId)
    BY <1>1, WorkerFields
  <2>2. QED
    BY <1>1, <2>1, AtWork DEF Before, Rows
<1>5. worker[t].left = {} /\ w.pc \notin LoopPCs /\ w.pc \notin VpcPCs
  <2>1. worker[t].pc \notin LoopPCs
    BY <1>2 DEF IsNew, At, LoopPCs
  <2>2. w.pc \notin LoopPCs /\ w.pc \notin VpcPCs
    BY <1>2, <1>3 DEF AfterMaking, LoopPCs, VpcPCs, Kinds
  <2>3. QED
    BY <1>1, <2>1, <2>2 DEF KnownAt
<1>6. CASE new.kind = "vpc"
  <2>1. worker[t].pc = "makeVpc" /\ new.name = NetworkName(t) /\ new.vpc = nextId
    BY <1>2, <1>3, <1>6 DEF IsNew, At, Shaped
  <2>2. (\A k \in Kinds \ {"vpc"} : w.got[k] = 0) /\ w.got["vpc"] = nextId /\ rows[t] = {}
    BY <1>1, <1>2, <1>6, <2>1 DEF KnownAt, RecordedAt, VpcPCs
  <2>3. \A k \in Kinds, x \in account' : x.id = w.got[k] =>
          x.kind = k /\ x.name = NetworkName(t) /\ x.vpc = w.got["vpc"]
    BY <1>1, <1>2, <1>3, <1>4, <1>6, <2>1, <2>2, AtWork
  <2>4. w.pc = "rowVpc"
    BY <1>2, <1>6 DEF AfterMaking
  <2>5. QED
    BY <1>1, <1>2, <1>5, <2>2, <2>3, <2>4
    DEF KnownAt, RecordedAt, VpcPCs, DeployPCs, SubnetPCs, HostPCs, TeardownPCs, TornPCs
<1>7. CASE new.kind # "vpc"
  <2>1. w.got["vpc"] = worker[t].got["vpc"]
    BY <1>2, <1>7 DEF Kinds
  <2>2. new.vpc = w.got["vpc"] \/ (new.kind = "igw" /\ new.vpc = 0)
    BY <1>2, <1>7, <2>1 DEF IsNew, Vpc
  <2>3. \A k \in Kinds, x \in account' : x.id = w.got[k] =>
          /\ x.kind = k
          /\ k = "vpc" => x.name = NetworkName(t)
          /\ x.vpc = w.got["vpc"] \/ (k = "igw" /\ x.vpc = 0)
    <3> SUFFICES ASSUME NEW k \in Kinds, NEW x \in account', x.id = w.got[k]
                 PROVE  /\ x.kind = k
                        /\ k = "vpc" => x.name = NetworkName(t)
                        /\ x.vpc = w.got["vpc"] \/ (k = "igw" /\ x.vpc = 0)
      OBVIOUS
    <3>1. CASE k = new.kind
      BY <1>2, <1>3, <1>4, <1>7, <2>2, <3>1
    <3>2. CASE k # new.kind
      <4>1. w.got[k] = worker[t].got[k]
        BY <1>2, <3>2
      <4>2. x \in account
        BY <1>2, <1>3, <1>4, <4>1
      <4>3. QED
        BY <1>1, <2>1, <4>1, <4>2 DEF KnownAt
    <3>3. QED
      BY <3>1, <3>2
  <2>4. RecordedAt(t, worker[t], rows[t], account')
    BY <1>1, <1>2, <1>3, <1>4 DEF RecordedAt
  <2>5. worker[t].pc \in DeployPCs /\ w.pc \in DeployPCs
    BY <1>2, <1>3, <1>7 DEF IsNew, At, AfterMaking, DeployPCs, SubnetPCs, HostPCs, Kinds
  <2>6. KnownAt(t, w, account')
    BY <1>2, <1>5, <2>3 DEF KnownAt
  <2>7. RecordedAt(t, w, rows[t], account')
    BY <2>1, <2>4, <2>5, RecordedMove
  <2>8. QED
    BY <2>6, <2>7
<1>8. QED
  BY <1>6, <1>7

LEMMA DeletesBase ==
  ASSUME BaseInv, NEW t \in Topologies, NEW w, Deletes(t, w)
  PROVE  KnownAt(t, w, account) /\ RecordedAt(t, w, rows[t], account)
<1>1. KnownAt(t, worker[t], account) /\ RecordedAt(t, worker[t], rows[t], account)
      /\ \A x, y \in account : x.id = y.id => x = y
  BY DEF BaseInv, Known, Recorded, ProviderTypes
<1>2. CASE w = Stopped(t)
  BY <1>2, RestingKnown DEF Stopped
<1>3. CASE w # Stopped(t)
  <2>1. w.got = worker[t].got /\ w.pc \notin VpcPCs
    BY <1>3 DEF Deletes, Moved, VpcPCs
  <2>2. w.pc \notin LoopPCs => w.left = {}
    BY <1>1, <1>3 DEF Deletes, Moved, KnownAt, LoopPCs
  <2>3. w.pc \in LoopPCs => \A x \in account : x.id \in w.left =>
          /\ x.kind = LoopKind[w.pc] /\ x.tagged
          /\ x.vpc = w.got["vpc"] \/ (w.pc = "gateways" /\ x.vpc = 0)
    <3>1. CASE worker[t].pc = "instances"
      BY <1>1, <1>3, <2>1, <3>1 DEF Deletes, LoopKind, Ofkind, In, Vpc
    <3>2. CASE worker[t].pc \in {"tables", "gateways", "subnets"}
      <4>1. w.pc = worker[t].pc /\ w.left \subseteq worker[t].left /\ w.pc \in LoopPCs
        BY <1>3, <3>2 DEF Deletes, LoopPCs
      <4>2. QED
        BY <1>1, <2>1, <4>1 DEF KnownAt
    <3>3. CASE worker[t].pc \notin {"instances", "tables", "gateways", "subnets"}
      BY <1>3, <3>3 DEF Deletes, Moved, LoopPCs
    <3>4. QED
      BY <3>1, <3>2, <3>3
  <2>4. KnownAt(t, w, account)
    BY <1>1, <2>1, <2>2, <2>3 DEF KnownAt
  <2>5. /\ w.pc \in DeployPCs \cup TeardownPCs \cup {"checkVpc"}
        /\ worker[t].pc \in DeployPCs \cup TeardownPCs \cup {"checkVpc"}
    BY <1>3, TeardownPlaces DEF Deletes, Moved, DeployPCs
  <2>6. QED
    BY <1>1, <2>1, <2>4, <2>5, RecordedMove
<1>4. QED
  BY <1>2, <1>3

\* A row of what the handler has found or made is of its VPC.
LEMMA NewRows ==
  ASSUME BaseInv, NEW t \in Topologies, NEW w, NEW R, worker[t].pc \in {"rowSubnet", "rowInstance"},
         rows[t] \subseteq R, w.pc \in DeployPCs, w.got = worker[t].got,
         \A r \in R : r \in rows[t] \/ \E k \in Kinds \ {"vpc"} : r.kind = k /\ r.id = worker[t].got[k]
  PROVE  RecordedAt(t, w, R, account)
<1>1. KnownAt(t, worker[t], account) /\ RecordedAt(t, worker[t], rows[t], account)
  BY DEF BaseInv, Known, Recorded
<1>2. Row("vpc", 0, Vpc(t)) \in rows[t] /\ \A r \in rows[t] : r.kind = "vpc" => r.id = Vpc(t)
  BY OwnVpcRow DEF DeployPCs
<1>3. \A r \in R : r.kind = "vpc" => r \in rows[t]
  OBVIOUS
<1>4. \A r \in R, x \in account : x.id = r.id =>
          /\ x.kind = r.kind
          /\ x.kind = "vpc" => x.name = NetworkName(t)
          /\ \A v \in R : v.kind = "vpc" => x.vpc = v.id \/ (x.kind = "igw" /\ x.vpc = 0)
  <2> SUFFICES ASSUME NEW r \in R, NEW x \in account, x.id = r.id
               PROVE  /\ x.kind = r.kind
                      /\ x.kind = "vpc" => x.name = NetworkName(t)
                      /\ \A v \in R : v.kind = "vpc" => x.vpc = v.id \/ (x.kind = "igw" /\ x.vpc = 0)
    OBVIOUS
  <2>1. CASE r \in rows[t]
    BY <1>1, <1>3, <2>1 DEF RecordedAt
  <2>2. CASE \E k \in Kinds \ {"vpc"} : r.kind = k /\ r.id = worker[t].got[k]
    BY <1>1, <1>2, <1>3, <2>2 DEF KnownAt, Vpc
  <2>3. QED
    BY <2>1, <2>2
<1>5. QED
  BY <1>1, <1>2, <1>3, <1>4
  DEF RecordedAt, Vpc, Row, VpcPCs, DeployPCs, SubnetPCs, HostPCs, TeardownPCs, TornPCs

LEMMA WritesBase ==
  ASSUME BaseInv, NEW t \in Topologies, NEW w, Writes(t, w)
  PROVE  KnownAt(t, w, account) /\ RecordedAt(t, w, rows'[t], account)
<1>1. KnownAt(t, worker[t], account) /\ RecordedAt(t, worker[t], rows[t], account)
  BY DEF BaseInv, Known, Recorded
<1>2. CASE w = Resting
  <2>1. Resting = [Resting EXCEPT !.pc = "idle"]
    BY DEF Resting
  <2>2. rows'[t] = {} \/ rows'[t] = rows[t]
    BY <1>2 DEF Writes, NextTo, Resting
  <2>3. QED
    BY <1>2, <2>1, <2>2, RestingKnown
<1>3. CASE worker[t].pc \in {"rowVpc", "rowSubnet", "rowInstance"}
  <2>1. w.got = worker[t].got /\ w.left = worker[t].left
        /\ w.pc \in {"subnet", "instance", "firewall"}
    BY <1>3 DEF Writes, NextTo
  <2>2. KnownAt(t, w, account)
    BY <1>1, <1>3, <2>1 DEF KnownAt, LoopPCs, VpcPCs
  <2>3. RecordedAt(t, w, rows'[t], account)
    <3>1. CASE worker[t].pc = "rowVpc"
      <4>1. rows'[t] = {Row("vpc", 0, Vpc(t))} /\ w.pc = "subnet"
        BY <1>1, <3>1 DEF Writes, NextTo, RecordedAt
      <4>2. \A x \in account : x.id = Vpc(t) =>
              x.kind = "vpc" /\ x.name = NetworkName(t) /\ x.vpc = Vpc(t)
        BY <1>1 DEF KnownAt, Vpc, Kinds
      <4>3. QED
        BY <2>1, <4>1, <4>2 DEF RecordedAt, Row, Vpc, VpcPCs
    <3>2. CASE worker[t].pc \in {"rowSubnet", "rowInstance"}
      <4>1. w.pc \in DeployPCs
        BY <2>1 DEF DeployPCs, SubnetPCs, HostPCs
      <4>2. /\ rows[t] \subseteq rows'[t]
            /\ \A r \in rows'[t] : r \in rows[t] \/ \E k \in Kinds \ {"vpc"} :
                 r.kind = k /\ r.id = worker[t].got[k]
        BY <3>2 DEF Writes, Row, Kinds
      <4>3. QED
        BY <2>1, <3>2, <4>1, <4>2, NewRows
    <3>3. QED
      BY <1>3, <3>1, <3>2
  <2>4. QED
    BY <2>2, <2>3
<1>4. QED
  BY <1>2, <1>3 DEF Writes

LEMMA BaseStep ==
  ASSUME BaseInv, NEW t \in Topologies, BeginDeploy(t) \/ BeginCleanup(t) \/ Step(t)
  PROVE  BaseInv'
<1>1. Follows /\ ProviderTypes' /\ Turns(t) /\ ProviderTypes
  BY StepFrame, FrameFollows, StepTypes, StepTurns DEF BaseInv
<1>2. CASE Fails(t)
  BY <1>1, <1>2, FailedBase DEF Fails
<1>3. ASSUME NEW w, Goes(t, w), Turn(t, w) PROVE BaseInv'
  <2>1. worker' = [worker EXCEPT ![t] = w] /\ \A u \in Topologies \ {t} : rows'[u] = rows[u]
    BY <1>3 DEF Goes, Turn
  <2>2. KnownAt(t, w, account') /\ RecordedAt(t, w, rows'[t], account')
    <3>1. CASE UNCHANGED <<account, nextId, rows, active>> /\ (Passes(t, w) \/ Gets(t, w) \/ Lists(t, w))
      BY <3>1, PassesBase, GetsBase, ListsBase
    <3>2. CASE UNCHANGED <<rows, active>> /\ Creates(t, w)
      BY <3>2, CreatesBase
    <3>3. CASE UNCHANGED <<nextId, rows, active>> /\ Deletes(t, w)
      <4>1. w \in Workers(nextId) /\ rows[t] \in SUBSET Rows(nextId)
        BY <1>1, <2>1, <3>3 DEF ProviderTypes
      <4>2. KnownAt(t, w, account) /\ RecordedAt(t, w, rows[t], account)
        BY <3>3, DeletesBase
      <4>3. QED
        BY <1>1, <3>3, <4>1, <4>2, KnownFollows, RecordedFollows
    <3>4. CASE UNCHANGED <<account, nextId>> /\ Writes(t, w)
      BY <3>4, WritesBase
    <3>5. QED
      BY <1>3, <3>1, <3>2, <3>3, <3>4 DEF Turn
  <2>3. QED
    BY <1>1, <2>1, <2>2, BaseAfter
<1>4. QED
  BY <1>1, <1>2, <1>3 DEF Turns

LEMMA BaseOutside ==
  ASSUME BaseInv, Terminated \/ Stranger
  PROVE  BaseInv'
<1>1. Follows /\ ProviderTypes' /\ UNCHANGED <<worker, rows>>
  BY OutsideFollows, TerminatedTyped, StrangerTyped DEF BaseInv, Terminated, Stranger
<1>2. \A u \in Topologies : Known(u)' /\ Recorded(u)'
  BY <1>1, OthersBase
<1>3. \A x \in account' : Shaped(x)'
  BY <1>1 DEF Follows, Shaped
<1>4. QED
  BY <1>1, <1>2, <1>3 DEF BaseInv

LEMMA BaseStutter ==
  ASSUME BaseInv, UNCHANGED vars
  PROVE  BaseInv'
<1>1. UNCHANGED <<account, nextId, worker, rows, active, cut, faults, foreign, requests>>
  BY DEF vars
<1>2. Follows
  BY <1>1 DEF Follows, Same, BaseInv
<1>3. ProviderTypes'
  BY <1>1, OutsideTyped DEF BaseInv, ProviderTypes
<1>4. \A u \in Topologies : Known(u)' /\ Recorded(u)'
  BY <1>1, <1>2, OthersBase
<1>5. \A x \in account' : Shaped(x)'
  BY <1>2 DEF Follows, Shaped
<1>6. QED
  BY <1>3, <1>4, <1>5 DEF BaseInv

LEMMA BaseInit ==
  ASSUME Init
  PROVE  BaseInv
<1>1. ProviderTypes /\ account = {}
  BY TypesInit DEF Init
<1>2. ASSUME NEW t \in Topologies PROVE Known(t) /\ Recorded(t)
  <2>1. worker[t] = Resting /\ rows[t] = {}
    BY DEF Init
  <2>2. Resting.pc = "idle" /\ Resting.left = {}
    BY DEF Resting
  <2>3. QED
    BY <1>1, <2>1, <2>2
    DEF Known, KnownAt, Recorded, RecordedAt, VpcPCs, LoopPCs, DeployPCs, SubnetPCs, HostPCs,
        TeardownPCs, TornPCs
<1>3. QED
  BY <1>1, <1>2 DEF BaseInv

\* Ids, records and things agree on what is of which kind and in which VPC, whatever handlers,
\* strangers and failures do: a create and a teardown touch only what they have found or made.
THEOREM AwsBaseInvariant == Spec => []BaseInv
<1>1. Init => BaseInv
  BY BaseInit
<1>2. BaseInv /\ [Next]_vars => BaseInv'
  BY BaseStep, BaseOutside, BaseStutter DEF Next
<1>3. QED
  BY <1>1, <1>2, PTL DEF Spec

\* No id is used twice, whatever deploys, cleanups, failures and strangers do at the same time:
\* what a handler has found, made or listed, and what the rows name, has an id that AWS has given
\* out, and call_with_retry never tries a create more than Retries + 1 times.
THEOREM AwsTypeCorrect == Spec => []AwsTypeOK
<1>1. BaseInv => AwsTypeOK
  <2> SUFFICES ASSUME BaseInv PROVE AwsTypeOK
    OBVIOUS
  <2>1. ProviderTypes /\ account \subseteq Things(nextId) /\ nextId \in Nat \ {0}
    BY DEF BaseInv, ProviderTypes
  <2>2. ASSUME NEW x \in account
        PROVE  /\ x.id \in 1..(nextId - 1) /\ x.kind \in Kinds /\ {x.vpc, x.of} \subseteq 0..(nextId - 1)
               /\ {x.tagged, x.ours, x.up} \subseteq BOOLEAN
               /\ \A y \in account : x.id = y.id => x = y
    BY <2>1 DEF ProviderTypes, Things, Before
  <2>3. ASSUME NEW t \in Topologies
        PROVE  /\ worker[t].tries \in 0..Retries
               /\ worker[t].at \in 1..(Segments[t] + Len(Home[t]))
               /\ worker[t].got \in [Kinds -> 0..(nextId - 1)]
               /\ worker[t].made \cup worker[t].left \subseteq 1..(nextId - 1)
               /\ \A r \in rows[t] : r.kind \in Kinds /\ r.id \in 1..(nextId - 1)
    <3>1. /\ worker[t].tries \in 0..Retries /\ worker[t].got \in [Kinds -> 0..(nextId - 1)]
          /\ worker[t].made \cup worker[t].left \subseteq 1..(nextId - 1)
          /\ rows[t] \subseteq Rows(nextId) /\ worker[t].at \in Nat \ {0}
      BY <2>1, WorkerFields DEF Before
    <3>2. worker[t].at <= Segments[t] \/ worker[t].at <= Len(Home[t]) \/ worker[t].at = 1
      BY <2>1, AtWork DEF PlacedAt
    <3>3. worker[t].at \in 1..(Segments[t] + Len(Home[t]))
      BY <3>1, <3>2, PlanTypes
    <3>4. QED
      BY <3>1, <3>3 DEF Rows, Before
  <2>4. active \in [Topologies -> BOOLEAN] /\ cut \subseteq 1..(nextId - 1)
    BY <2>1 DEF ProviderTypes, Before
  <2>5. QED
    BY <2>2, <2>3, <2>4 DEF AwsTypeOK
<1>2. QED
  BY <1>1, AwsBaseInvariant, PTL

-----------------------------------------------------------------------------
(* What a handler looks for it finds *)

LEMMA BeginOthers ==
  ASSUME NEW t, Turns(t), ProviderTypes, t \in Topologies
  PROVE  \E w : worker' = [worker EXCEPT ![t] = w] /\ \A u \in Topologies \ {t} : rows'[u] = rows[u]
BY DEF Turns, Fails, Raises, Goes, Turn

LEMMA StepsAtWork ==
  ASSUME NEW t, Step(t)
  PROVE  ~At(t, "idle")
BY DEF Step, At, FindVpc, MakeVpc, RowVpc, FindSubnet, MakeSubnet, Gateway, Table, RowSubnet,
   FindInstance, Group, Run, RowInstance, Firewall, Activate, ListRows, CheckVpc, Terminate, Await,
   DeleteGroup, ListTables, DeleteTable, ListGateways, DeleteGateway, ListSubnets, DeleteSubnet,
   DeleteVpc, DropRows

LEMMA ExclusiveStep ==
  ASSUME Exclusive, Apart, NEW t \in Topologies, BeginDeploy(t) \/ BeginCleanup(t) \/ Step(t),
         ProviderTypes, Turns(t)
  PROVE  Exclusive'
<1>1. PICK w : worker' = [worker EXCEPT ![t] = w]
  BY BeginOthers
<1>2. Busy' \subseteq Busy \cup {t}
  BY <1>1 DEF Busy, At, ProviderTypes
<1>3. IsFiniteSet(Busy) /\ IsFiniteSet(Busy \cup {t})
  BY FS_AddElement DEF Exclusive
<1>4. IsFiniteSet(Busy')
  BY <1>2, <1>3, FS_Subset
<1>5. \A u, v \in Busy' : Label[u] = Label[v] => u = v
  <2>1. CASE NamesDiffer
    BY <1>2, <2>1 DEF NamesDiffer, Busy
  <2>2. CASE t \in Busy
    BY <1>2, <2>2 DEF Exclusive
  <2>3. CASE t \notin Busy /\ MaxActive <= 1
    <3>1. Cardinality(Busy) < MaxActive /\ MaxActive \in Nat
      BY <2>3, StepsAtWork, AwsBoundAssumption DEF BeginDeploy, BeginCleanup, Requested, Busy
    <3>2. Cardinality(Busy) \in Nat
      BY <1>3, FS_CardinalityType
    <3>3. Cardinality(Busy) = 0
      BY <2>3, <3>1, <3>2
    <3>4. Busy = {}
      BY <1>3, <3>3, FS_EmptySet
    <3>5. QED
      BY <1>2, <3>4
  <2>4. QED
    BY <2>1, <2>2, <2>3 DEF Apart
<1>6. QED
  BY <1>4, <1>5 DEF Exclusive

\* What is there after a step of t was there before or is what t has made.
LEMMA Whence ==
  ASSUME BaseInv, NEW t \in Topologies, Frame(t), NEW y \in account'
  PROVE  (\E x \in account : Same(x, y)) \/ IsNew(t, y)
<1>1. ProviderTypes
  BY DEF BaseInv
<1>2. CASE y \in account
  BY <1>2 DEF Same
<1>3. ASSUME NEW x \in account, Gone(t, x), Renews(x, y) PROVE Same(x, y)
  BY <1>1, <1>3, RenewsSame DEF Gone
<1>4. QED
  BY <1>2, <1>3 DEF Frame

LEMMA GoneVpc ==
  ASSUME BaseInv, NEW t \in Topologies, Frame(t), NEW v \in account, v.kind = "vpc"
  PROVE  \/ v \in account'
         \/ At(t, "deleteVpc") /\ v.id = Vpc(t) /\ In(Vpc(t)) = With(Vpc(t))
BY DEF Frame, Gone

\* The VPC that a handler works on.
LEMMA WorkedOn ==
  ASSUME BaseInv, NEW t \in Topologies, NEW v \in With(Vpc(t))
  PROVE  v \in account /\ v.id = Vpc(t) /\ v.kind = "vpc" /\ v.name = NetworkName(t)
<1>1. "vpc" \in Kinds /\ Vpc(t) = worker[t].got["vpc"]
  BY DEF Kinds, Vpc
<1>2. v \in account /\ v.id = Vpc(t)
  BY DEF With
<1>3. QED
  BY <1>1, <1>2 DEF BaseInv, Known, KnownAt

LEMMA HousedStep ==
  ASSUME BaseInv, BaseInv', NEW t \in Topologies, Frame(t), \A x \in account : Housed(x),
         VpcAlive(t), NEW y \in account'
  PROVE  Housed(y)'
<1>1. cut \subseteq cut' /\ ProviderTypes
  BY DEF Frame, BaseInv
<1>2. ASSUME NEW x \in account, y.id = x.id, y.kind = x.kind, y.vpc = x.vpc, y.tagged = x.tagged,
             y.ours = x.ours
      PROVE  Housed(y)'
  <2>1. CASE x.id \in cut /\ (x.vpc = 0 \/ x.kind = "vpc")
    BY <1>1, <1>2, <2>1 DEF Housed
  <2>2. ASSUME NEW v \in With(x.vpc), v.kind = "vpc", x.ours => v.tagged PROVE Housed(y)'
    <3>1. v \in account /\ v.id = x.vpc
      BY DEF With
    <3>2. CASE v \in account'
      BY <1>2, <2>2, <3>1, <3>2 DEF Housed, With
    <3>3. CASE v \notin account'
      <4>1. x \in With(Vpc(t)) /\ v.id = Vpc(t)
        BY <2>2, <3>1, <3>3, GoneVpc DEF In
      <4>2. x = v
        BY <1>1, <3>1, <4>1 DEF With, ProviderTypes
      <4>3. QED
        BY <1>2, <2>2, <3>1, <4>2 DEF Housed, With
    <3>4. QED
      BY <3>2, <3>3
  <2>3. QED
    BY <2>1, <2>2 DEF Housed
<1>3. CASE y \in account
  BY <1>2, <1>3
<1>4. ASSUME NEW x \in account, Gone(t, x), Renews(x, y), y.vpc = x.vpc \/ x.id \in cut'
      PROVE  Housed(y)'
  <2>1. Same(x, y)
    BY <1>1, <1>4, RenewsSame DEF Gone
  <2>2. CASE y.vpc = x.vpc
    BY <1>2, <2>1, <2>2 DEF Same
  <2>3. CASE y.vpc # x.vpc
    BY <1>4, <2>1, <2>3 DEF Same, Housed
  <2>4. QED
    BY <2>2, <2>3
<1>5. CASE IsNew(t, y)
  <2>1. CASE y.kind = "vpc"
    <3>1. y.vpc = y.id /\ (y.id \in cut' \/ y.tagged)
      BY <1>5, <2>1 DEF IsNew, Shaped
    <3>2. QED
      BY <2>1, <3>1 DEF Housed, With
  <2>2. CASE y.kind # "vpc"
    <3>1. /\ worker[t].pc \in {"makeSubnet", "gateway", "table", "group", "run"}
          /\ y.vpc = Vpc(t) \/ (y.vpc = 0 /\ y.id \in cut')
      BY <1>5, <2>2 DEF IsNew, At
    <3>2. CASE y.vpc = Vpc(t)
      <4>1. Tags(Vpc(t))
        BY <3>1 DEF VpcAlive, LivePCs, DeployPCs, SubnetPCs, HostPCs
      <4>2. PICK v \in With(Vpc(t)) : v.tagged
        BY <4>1 DEF Tags
      <4>3. v \in account' /\ v.kind = "vpc" /\ v.id = Vpc(t)
        BY <3>1, WorkedOn, GoneVpc DEF At
      <4>4. QED
        BY <3>2, <4>2, <4>3 DEF Housed, With
    <3>3. QED
      BY <3>1, <3>2 DEF Housed
  <2>3. QED
    BY <2>1, <2>2
<1>6. QED
  BY <1>3, <1>4, <1>5 DEF Frame

\* Only one handler works on a VPC.
LEMMA OnesOwnVpc ==
  ASSUME BaseInv, Exclusive, NEW t \in Topologies, NEW u \in Topologies, Vpc(u) = Vpc(t),
         ~At(t, "idle"), ~At(u, "idle"), Tags(Vpc(u))
  PROVE  u = t
<1>1. PICK v \in With(Vpc(u)) : v.tagged
  BY DEF Tags
<1>2. v.name = NetworkName(t) /\ v.name = NetworkName(u)
  BY WorkedOn
<1>3. Label[t] = Label[u]
  BY <1>2 DEF NetworkName
<1>4. QED
  BY <1>3 DEF Exclusive, Busy

LEMMA LiveAtWork ==
  ASSUME NEW t, worker[t].pc \in LivePCs
  PROVE  ~At(t, "idle")
BY DEF At, LivePCs, DeployPCs, SubnetPCs, HostPCs, TeardownPCs, TornPCs

LEMMA CurrentOthers ==
  ASSUME BaseInv, BaseInv', NEW t \in Topologies, Frame(t), Exclusive,
         NEW u \in Topologies \ {t}, Current(u), worker'[u] = worker[u], rows'[u] = rows[u]
  PROVE  Current(u)'
<1>1. Vpc(u)' = Vpc(u)
  BY DEF Vpc
<1>2. ASSUME worker[u].pc \in LivePCs
      PROVE  Tags(Vpc(u)) /\ (At(t, "idle") \/ Vpc(t) # Vpc(u))
  <2>1. Tags(Vpc(u)) /\ ~At(u, "idle")
    BY <1>2, LiveAtWork DEF Current, VpcAlive
  <2>2. QED
    BY <2>1, OnesOwnVpc
<1>3. VpcAlive(u)'
  <2> SUFFICES ASSUME worker[u].pc \in LivePCs PROVE Tags(Vpc(u))'
    BY DEF VpcAlive
  <2>1. PICK v \in With(Vpc(u)) : v.tagged
    BY <1>2 DEF Tags
  <2>2. v \in account' /\ v.id = Vpc(u)
    BY <1>2, WorkedOn, GoneVpc DEF At
  <2>3. QED
    BY <1>1, <2>1, <2>2 DEF Tags, With
<1>4. SubnetAlive(u)'
  <2> SUFFICES ASSUME worker[u].pc \in {"gateway", "table", "rowSubnet"}
               PROVE  \E x \in Ofkind(Vpc(u), "subnet")' :
                        /\ x.id = worker[u].got["subnet"] /\ x.tagged
                        /\ x.name = SubnetName(u, worker[u].at)
    BY DEF SubnetAlive, SubnetName
  <2>1. PICK x \in Ofkind(Vpc(u), "subnet") :
          /\ x.id = worker[u].got["subnet"] /\ x.tagged /\ x.name = SubnetName(u, worker[u].at)
    BY DEF Current, SubnetAlive
  <2>2. x \in account /\ x.kind = "subnet" /\ x.vpc = Vpc(u)
    BY DEF Ofkind, In
  <2>3. At(t, "idle") \/ Vpc(t) # Vpc(u)
    BY <1>2 DEF LivePCs, DeployPCs, SubnetPCs
  <2>4. x \in account'
    BY <2>2, <2>3 DEF Frame, Gone, At
  <2>5. QED
    BY <1>1, <2>1, <2>2, <2>4 DEF Ofkind, In
<1>5. VpcMissing(u)'
  <2> SUFFICES ASSUME At(u, "makeVpc"), NEW y \in account', y.kind = "vpc", y.tagged,
                      y.name = NetworkName(u)
               PROVE  FALSE
    BY DEF VpcMissing, At, CloudnetVpcs, NetworkName
  <2>1. CloudnetVpcs(u) = {}
    BY DEF Current, VpcMissing
  <2>2. CASE IsNew(t, y)
    <3>1. y.name = NetworkName(t)
      BY <2>2 DEF IsNew
    <3>2. Label[t] = Label[u]
      BY <3>1 DEF NetworkName
    <3>3. QED
      BY <2>2, <3>2 DEF Exclusive, Busy, At, IsNew
  <2>3. ASSUME NEW x \in account, Same(x, y) PROVE FALSE
    BY <2>1, <2>3 DEF Same, CloudnetVpcs
  <2>4. QED
    BY <2>2, <2>3, Whence
<1>6. HostMissing(u)'
  <2>1. HomeSubnet(u)' = HomeSubnet(u)
    BY DEF HomeSubnet
  <2> SUFFICES ASSUME worker[u].pc \in {"group", "run"}, NEW y \in account', y.kind = "instance",
                      y.vpc = Vpc(u), y.of = HomeSubnet(u), y.tagged, y.name = HostName(worker[u].at)
               PROVE  FALSE
    BY <1>1, <2>1 DEF HostMissing, CloudnetInstances, Ofkind, In
  <2>2. CloudnetInstances(u) = {}
    BY DEF Current, HostMissing
  <2>3. CASE IsNew(t, y)
    <3>1. y.vpc = Vpc(t)
      BY <2>3 DEF IsNew
    <3>2. At(t, "idle") \/ Vpc(t) # Vpc(u)
      BY <1>2 DEF LivePCs, DeployPCs, HostPCs
    <3>3. QED
      BY <2>3, <3>1, <3>2 DEF IsNew, At
  <2>4. ASSUME NEW x \in account, Same(x, y) PROVE FALSE
    BY <2>2, <2>4 DEF Same, CloudnetInstances, Ofkind, In
  <2>5. QED
    BY <2>3, <2>4, Whence
<1>7. QED
  BY <1>3, <1>4, <1>5, <1>6 DEF Current

\* Where a failed call leads.
LEMMA FailedWhere ==
  ASSUME BaseInv, NEW t \in Topologies, Fails(t)
  PROVE  \/ worker'[t].pc \in {"rows", "drop"}
         \/ /\ worker[t].pc \in CreatePCs /\ worker'[t].pc = Create(worker[t].pc)
            /\ worker'[t].got = worker[t].got /\ worker'[t].at = worker[t].at
            /\ worker'[t].left = worker[t].left
<1>1. ProviderTypes
  BY DEF BaseInv
<1>2. PICK retryable \in BOOLEAN : Raises(t, retryable)
  BY DEF Fails
<1>3. PICK w : /\ worker' = [worker EXCEPT ![t] = w]
               /\ \/ w = Undone(t) \/ w = Stopped(t)
                  \/ w = Retried(t) /\ worker[t].pc \in CreatePCs
  BY <1>1, <1>2, FailedPlaced DEF Fails, CallPCs
<1>4. worker'[t] = w /\ worker[t] \in Workers(nextId)
  BY <1>1, <1>3 DEF ProviderTypes
<1>5. CASE w = Undone(t) \/ w = Stopped(t)
  BY <1>1, <1>4, <1>5, RestingPlaced DEF Undone, Stopped
<1>6. CASE w = Retried(t) /\ worker[t].pc \in CreatePCs
  BY <1>4, <1>6 DEF Retried, Workers
<1>7. QED
  BY <1>3, <1>5, <1>6

\* How a handler comes to its VPC.
LEMMA ComesToVpc ==
  ASSUME BaseInv, NEW t \in Topologies, NEW w, Turn(t, w), w.pc \in LivePCs
  PROVE  \/ /\ worker[t].pc \in LivePCs /\ ~At(t, "deleteVpc") /\ w.got["vpc"] = Vpc(t)
         \/ At(t, "checkVpc") /\ UNCHANGED account /\ w.got["vpc"] = Vpc(t) /\ Tags(Vpc(t))
         \/ UNCHANGED account /\ \E x \in account : x.tagged /\ w.got["vpc"] = x.id
         \/ \E y \in account' : y.tagged /\ w.got["vpc"] = y.id
<1> USE DEF LivePCs, At, Vpc, DeployPCs, SubnetPCs, HostPCs, TeardownPCs, TornPCs
<1>1. CASE UNCHANGED account /\ Passes(t, w)
  BY <1>1 DEF Passes, Moved
<1>2. CASE UNCHANGED account /\ Gets(t, w)
  <2>1. CASE worker[t].pc = "vpc"
    BY <1>2, <2>1 DEF Gets, CloudnetVpcs
  <2>2. CASE worker[t].pc # "vpc"
    BY <1>2, <2>2 DEF Gets, Got, Kinds
  <2>3. QED
    BY <2>1, <2>2
<1>3. CASE Lists(t, w)
  BY <1>3 DEF Lists
<1>4. CASE Creates(t, w)
  <2>1. PICK new : /\ account' = account \cup {new} /\ IsNew(t, new) /\ new.tagged
                   /\ w.got[new.kind] = nextId
                   /\ \A k \in Kinds \ {new.kind} : w.got[k] = worker[t].got[k]
    BY <1>4 DEF Creates
  <2>2. new.id = nextId
    BY <2>1 DEF IsNew
  <2>3. CASE new.kind = "vpc"
    BY <2>1, <2>2, <2>3
  <2>4. CASE new.kind # "vpc"
    BY <2>1, <2>4 DEF IsNew, Kinds
  <2>5. QED
    BY <2>3, <2>4
<1>5. CASE Deletes(t, w)
  BY <1>5 DEF Deletes, Moved, Stopped, Resting
<1>6. CASE Writes(t, w)
  BY <1>6 DEF Writes, NextTo, Resting
<1>7. QED
  BY <1>1, <1>2, <1>3, <1>4, <1>5, <1>6 DEF Turn

LEMMA VpcAliveOwn ==
  ASSUME BaseInv, NEW t \in Topologies, Frame(t), Turns(t), VpcAlive(t)
  PROVE  VpcAlive(t)'
<1>1. ASSUME Tags(Vpc(t)), ~At(t, "deleteVpc") PROVE \E y \in account' : y.tagged /\ y.id = Vpc(t)
  <2>1. PICK v \in With(Vpc(t)) : v.tagged
    BY <1>1 DEF Tags
  <2>2. v \in account' /\ v.id = Vpc(t)
    BY <1>1, WorkedOn, GoneVpc
  <2>3. QED
    BY <2>1, <2>2
<1> SUFFICES ASSUME worker'[t].pc \in LivePCs
             PROVE  \E y \in account' : y.tagged /\ y.id = worker'[t].got["vpc"]
  BY DEF VpcAlive, Tags, With, Vpc
<1>2. CASE Fails(t)
  <2>1. worker[t].pc \in CreatePCs /\ worker'[t].pc = Create(worker[t].pc)
        /\ worker'[t].got = worker[t].got
    BY <1>2, FailedWhere DEF LivePCs, DeployPCs, SubnetPCs, HostPCs, TeardownPCs, TornPCs
  <2>2. worker[t].pc \in LivePCs /\ ~At(t, "deleteVpc")
    BY <2>1 DEF Create, LivePCs, CreatePCs, VpcPCs, DeployPCs, SubnetPCs, HostPCs, TeardownPCs,
       TornPCs, At
  <2>3. QED
    BY <1>1, <2>1, <2>2 DEF VpcAlive, Vpc
<1>3. ASSUME NEW w, Goes(t, w), Turn(t, w) PROVE \E y \in account' : y.tagged /\ y.id = worker'[t].got["vpc"]
  <2>1. worker'[t] = w
    BY <1>3 DEF Goes, BaseInv, ProviderTypes
  <2>2. \/ /\ worker[t].pc \in LivePCs /\ ~At(t, "deleteVpc") /\ w.got["vpc"] = Vpc(t)
        \/ At(t, "checkVpc") /\ UNCHANGED account /\ w.got["vpc"] = Vpc(t) /\ Tags(Vpc(t))
        \/ UNCHANGED account /\ \E x \in account : x.tagged /\ w.got["vpc"] = x.id
        \/ \E y \in account' : y.tagged /\ w.got["vpc"] = y.id
    BY <1>3, <2>1, ComesToVpc
  <2>3. QED
    BY <1>1, <2>1, <2>2 DEF VpcAlive, At
<1>4. QED
  BY <1>2, <1>3 DEF Turns

LEMMA SubnetAliveOwn ==
  ASSUME BaseInv, NEW t \in Topologies, Frame(t), Turns(t), SubnetAlive(t)
  PROVE  SubnetAlive(t)'
<1> DEFINE Is(x, v) ==
             /\ x.kind = "subnet" /\ x.vpc = v.got["vpc"] /\ x.id = v.got["subnet"] /\ x.tagged
             /\ x.name = SubnetName(t, v.at)
<1> SUFFICES ASSUME worker'[t].pc \in {"gateway", "table", "rowSubnet"}
             PROVE  \E x \in account' : Is(x, worker'[t])
  BY DEF SubnetAlive, Ofkind, In, Vpc, SubnetName
<1>1. ~Fails(t)
  BY FailedWhere DEF Create
<1>2. PICK w : Goes(t, w) /\ Turn(t, w)
  BY <1>1 DEF Turns
<1>3. worker'[t] = w
  BY <1>2 DEF Goes, BaseInv, ProviderTypes
<1>4. ASSUME worker[t].pc \in {"gateway", "table", "rowSubnet"}, account \subseteq account',
             w.got["vpc"] = Vpc(t), w.got["subnet"] = worker[t].got["subnet"], w.at = worker[t].at
      PROVE  \E x \in account' : Is(x, w)
  BY <1>4 DEF SubnetAlive, Ofkind, In, Vpc
<1>5. CASE UNCHANGED account /\ Passes(t, w)
  BY <1>3, <1>5 DEF Passes, Moved
<1>6. CASE UNCHANGED account /\ Gets(t, w)
  <2>1. CASE worker[t].pc = "subnet"
    <3>1. PICK x \in CloudnetSubnets(t) : w.got["subnet"] = x.id
      BY <1>6, <2>1 DEF Gets
    <3>2. w.got["vpc"] = Vpc(t) /\ w.at = worker[t].at
      BY <1>6, <2>1 DEF Gets, Got, Kinds, Vpc
    <3>3. QED
      BY <1>3, <1>6, <3>1, <3>2 DEF CloudnetSubnets, Ofkind, In
  <2>2. CASE worker[t].pc = "gateway"
    <3>1. w.got["vpc"] = Vpc(t) /\ w.at = worker[t].at /\ w.got["subnet"] = worker[t].got["subnet"]
      BY <1>6, <2>2 DEF Gets, Got, Kinds, Vpc
    <3>2. QED
      BY <1>3, <1>4, <1>6, <2>2, <3>1
  <2>3. QED
    BY <1>3, <1>6, <2>1, <2>2 DEF Gets, Got
<1>7. CASE Lists(t, w)
  BY <1>3, <1>7 DEF Lists
<1>8. CASE Creates(t, w)
  <2>1. PICK new : /\ account' = account \cup {new} /\ IsNew(t, new) /\ new.tagged
                   /\ w.pc = AfterMaking[new.kind] /\ w.at = worker[t].at /\ w.got[new.kind] = nextId
                   /\ \A k \in Kinds \ {new.kind} : w.got[k] = worker[t].got[k]
    BY <1>8 DEF Creates
  <2>2. CASE new.kind = "subnet"
    <3>1. w.got["vpc"] = Vpc(t) /\ new.id = nextId /\ new.vpc = Vpc(t)
          /\ new.name = SubnetName(t, worker[t].at)
      BY <2>1, <2>2 DEF IsNew, Kinds, Vpc
    <3>2. QED
      BY <1>3, <2>1, <2>2, <3>1
  <2>3. CASE new.kind \in {"igw", "rt"}
    <3>1. /\ worker[t].pc \in {"gateway", "table", "rowSubnet"} /\ w.got["vpc"] = Vpc(t)
          /\ w.got["subnet"] = worker[t].got["subnet"]
      BY <2>1, <2>3 DEF IsNew, Kinds, Vpc, At
    <3>2. QED
      BY <1>3, <1>4, <2>1, <3>1
  <2>4. QED
    <3>1. new.kind \in {"vpc", "subnet", "igw", "rt", "sg", "instance"}
      BY <2>1 DEF IsNew
    <3>2. QED
      BY <1>3, <2>1, <2>2, <2>3, <3>1 DEF AfterMaking
<1>9. CASE Deletes(t, w)
  BY <1>3, <1>9 DEF Deletes, Moved, Stopped, Resting
<1>10. CASE Writes(t, w)
  BY <1>3, <1>10 DEF Writes, NextTo, Resting
<1>11. QED
  BY <1>2, <1>3, <1>5, <1>6, <1>7, <1>8, <1>9, <1>10 DEF Turn

LEMMA MissingOwn ==
  ASSUME BaseInv, NEW t \in Topologies, Frame(t), Turns(t), HostMissing(t)
  PROVE  VpcMissing(t)' /\ HostMissing(t)'
<1>1. ASSUME At(t, "makeVpc")' \/ worker'[t].pc \in {"group", "run"} PROVE ~Fails(t)
  BY <1>1, FailedWhere DEF Create, At
<1>2. ASSUME NEW w, Goes(t, w), Turn(t, w), w.pc = "makeVpc"
      PROVE  account' = account /\ CloudnetVpcs(t) = {}
  BY <1>2 DEF Turn, Passes, Moved, Gets, Got, Lists, Creates, AfterMaking, IsNew, Deletes, Stopped,
     Resting, Writes, NextTo
<1>3. ASSUME NEW w, Goes(t, w), Turn(t, w), w.pc \in {"group", "run"}
      PROVE  /\ w.at = worker[t].at /\ w.got["vpc"] = Vpc(t) /\ rows'[t] = rows[t]
             /\ CloudnetInstances(t) = {}
             /\ account' = account \/ \E new : account' = account \cup {new} /\ new.kind = "sg"
  <2>1. CASE UNCHANGED <<account, nextId, rows, active>> /\ (Passes(t, w) \/ Gets(t, w) \/ Lists(t, w))
    BY <1>3, <2>1 DEF Passes, Moved, Gets, Got, Lists, Vpc, HostMissing, Kinds
  <2>2. CASE UNCHANGED <<rows, active>> /\ Creates(t, w)
    <3>1. PICK new : /\ account' = account \cup {new} /\ IsNew(t, new)
                     /\ w.pc = AfterMaking[new.kind] /\ w.at = worker[t].at
                     /\ \A k \in Kinds \ {new.kind} : w.got[k] = worker[t].got[k]
      BY <2>2 DEF Creates
    <3>2. new.kind \in {"vpc", "subnet", "igw", "rt", "sg", "instance"}
      BY <3>1 DEF IsNew
    <3>3. new.kind = "sg"
      BY <1>3, <3>1, <3>2 DEF AfterMaking
    <3>4. At(t, "group") /\ w.got["vpc"] = Vpc(t)
      BY <3>1, <3>3 DEF IsNew, Kinds, Vpc
    <3>5. QED
      BY <2>2, <3>1, <3>3, <3>4 DEF HostMissing, At
  <2>3. CASE Deletes(t, w) \/ Writes(t, w)
    BY SMTT(30), <1>3, <2>3 DEF Deletes, Moved, Stopped, Resting, Writes, NextTo
  <2>4. QED
    BY <1>3, <2>1, <2>2, <2>3 DEF Turn
<1>4. ASSUME NEW w, Goes(t, w) PROVE worker'[t] = w
  BY <1>4 DEF Goes, BaseInv, ProviderTypes
<1>5. VpcMissing(t)'
  <2> SUFFICES ASSUME At(t, "makeVpc")' PROVE CloudnetVpcs(t)' = {}
    BY DEF VpcMissing
  <2>1. account' = account /\ CloudnetVpcs(t) = {}
    BY <1>1, <1>2, <1>4 DEF Turns, At
  <2>2. QED
    BY <2>1 DEF CloudnetVpcs, NetworkName
<1>6. HostMissing(t)'
  <2> SUFFICES ASSUME worker'[t].pc \in {"group", "run"} PROVE CloudnetInstances(t)' = {}
    BY DEF HostMissing
  <2>1. PICK w : Goes(t, w) /\ Turn(t, w)
    BY <1>1 DEF Turns
  <2>2. worker'[t] = w
    BY <1>4, <2>1
  <2>3. /\ worker'[t].at = worker[t].at /\ Vpc(t)' = Vpc(t) /\ rows'[t] = rows[t]
        /\ CloudnetInstances(t) = {}
        /\ account' = account \/ \E new : account' = account \cup {new} /\ new.kind = "sg"
    BY <1>3, <2>1, <2>2 DEF Vpc
  <2>4. HomeSubnet(t)' = HomeSubnet(t)
    BY <2>3 DEF HomeSubnet
  <2>5. QED
    BY <2>3, <2>4 DEF CloudnetInstances, Ofkind, In, HostName
<1>7. QED
  BY <1>5, <1>6

LEMMA FoundOnce ==
  ASSUME BaseInv, BaseInv', NEW t \in Topologies, Frame(t), Current(t), OneGroup, UniqueNames
  PROVE  OneGroup' /\ UniqueNames'
<1>1. \A x, y \in account' : x.id = y.id => x = y
  BY DEF BaseInv, ProviderTypes
<1>2. ASSUME NEW x \in account', NEW y \in account', IsNew(t, x), IsNew(t, y) PROVE x = y
  BY <1>1, <1>2 DEF IsNew
<1>3. OneGroup'
  <2> SUFFICES ASSUME NEW x \in account', NEW y \in account', x.kind = "sg", y.kind = "sg", x.vpc = y.vpc
               PROVE  x = y
    BY DEF OneGroup
  <2>1. ASSUME NEW u \in account, NEW v \in account, Same(u, x), Same(v, y) PROVE x = y
    <3>1. u = v
      BY <2>1 DEF Same, OneGroup
    <3>2. QED
      BY <1>1, <2>1, <3>1 DEF Same
  <2>2. ASSUME NEW u \in account, NEW a, NEW b, Same(u, a), IsNew(t, b), a.kind = "sg", b.kind = "sg",
               a.vpc = b.vpc
        PROVE  FALSE
    <3>1. Groups(t) = {} /\ b.vpc = Vpc(t)
      BY <2>2 DEF IsNew
    <3>2. u.kind = "sg" /\ u.vpc = Vpc(t) /\ u.name = GroupName
      BY <2>2, <3>1, ZenonT(60) DEF Same, BaseInv, Shaped
    <3>3. QED
      BY <3>1, <3>2 DEF Groups, Ofkind, In
  <2>3. QED
    BY <1>2, <2>1, <2>2, Whence
<1>4. UniqueNames'
  <2> DEFINE Twins(x, y) ==
               /\ x.kind = y.kind /\ x.kind \in {"vpc", "subnet", "instance"}
               /\ x.tagged /\ y.tagged /\ x.name = y.name /\ x.of = y.of
               /\ x.kind # "vpc" => x.vpc = y.vpc
  <2> SUFFICES ASSUME NEW x \in account', NEW y \in account', Twins(x, y) PROVE x = y
    BY DEF UniqueNames
  <2>1. ASSUME NEW u \in account, NEW v \in account, Same(u, x), Same(v, y) PROVE x = y
    <3>1. Twins(u, v)
      BY <2>1 DEF Same
    <3>2. u = v
      BY <3>1 DEF UniqueNames
    <3>3. QED
      BY <1>1, <2>1, <3>2 DEF Same
  <2>2. ASSUME NEW u \in account, NEW a, NEW b, Same(u, a), IsNew(t, b), Twins(a, b) PROVE FALSE
    <3>1. Twins(u, b)
      BY <2>2 DEF Same
    <3>2. CASE b.kind = "vpc"
      BY <2>2, <3>1, <3>2 DEF IsNew, Current, VpcMissing, CloudnetVpcs
    <3>3. CASE b.kind = "subnet"
      BY <2>2, <3>1, <3>3 DEF IsNew, Ofkind, In
    <3>4. CASE b.kind = "instance"
      <4>1. CloudnetInstances(t) = {} /\ b.vpc = Vpc(t) /\ b.of = HomeSubnet(t)
            /\ b.name = HostName(worker[t].at)
        BY <2>2, <3>4 DEF IsNew, Current, HostMissing, At
      <4>2. QED
        BY <3>1, <3>4, <4>1 DEF CloudnetInstances, Ofkind, In
    <3>5. QED
      BY <3>1, <3>2, <3>3, <3>4
  <2>3. Twins(y, x)
    OBVIOUS
  <2> HIDE DEF Twins
  <2>4. QED
    BY <1>2, <2>1, <2>2, <2>3, Whence
<1>5. QED
  BY <1>3, <1>4

LEMMA FindStep ==
  ASSUME BaseInv, BaseInv', FindInv, Apart, NEW t \in Topologies,
         BeginDeploy(t) \/ BeginCleanup(t) \/ Step(t)
  PROVE  FindInv'
<1>1. Frame(t) /\ Turns(t) /\ ProviderTypes
  BY StepFrame, StepTurns DEF BaseInv
<1>2. Current(t) /\ Exclusive /\ \A x \in account : Housed(x)
  BY DEF FindInv
<1>3. Exclusive'
  BY <1>1, <1>2, ExclusiveStep
<1>4. \A y \in account' : Housed(y)'
  BY <1>1, <1>2, HousedStep DEF Current
<1>5. OneGroup' /\ UniqueNames'
  BY <1>1, <1>2, FoundOnce DEF FindInv
<1>6. ASSUME NEW u \in Topologies PROVE Current(u)'
  <2>1. CASE u = t
    BY <1>1, <1>2, <2>1, VpcAliveOwn, SubnetAliveOwn, MissingOwn DEF Current
  <2>2. CASE u # t
    <3>1. worker'[u] = worker[u] /\ rows'[u] = rows[u]
      BY <1>1, <2>2, BeginOthers DEF ProviderTypes
    <3>2. QED
      BY <1>1, <1>2, <2>2, <3>1, CurrentOthers DEF FindInv
  <2>3. QED
    BY <2>1, <2>2
<1>7. QED
  BY <1>3, <1>4, <1>5, <1>6 DEF FindInv

LEMMA FindOutside ==
  ASSUME BaseInv, BaseInv', FindInv, UNCHANGED <<worker, rows, cut>>,
         \A y \in account' : y \in account \/ Strange(y),
         \A x \in account : x \in account' \/ (x.kind = "instance" /\ ~x.up)
  PROVE  FindInv'
<1>1. Exclusive'
  BY DEF FindInv, Exclusive, Busy, At
<1>2. ASSUME NEW y \in account' PROVE Housed(y)'
  <2>1. CASE y \in account
    BY <2>1 DEF FindInv, Housed, With
  <2>2. CASE Strange(y)
    BY <2>2 DEF Strange, Housed, With
  <2>3. QED
    BY <2>1, <2>2
<1>3. ASSUME NEW u \in Topologies PROVE Current(u)'
  <2>1. Current(u) /\ Vpc(u)' = Vpc(u) /\ HomeSubnet(u)' = HomeSubnet(u)
    BY DEF FindInv, Vpc, HomeSubnet
  <2>2. VpcAlive(u)'
    <3> SUFFICES ASSUME worker[u].pc \in LivePCs PROVE Tags(Vpc(u))'
      BY DEF VpcAlive
    <3>1. PICK v \in With(Vpc(u)) : v.tagged
      BY <2>1 DEF Current, VpcAlive, Tags
    <3>2. v \in account' /\ v.id = Vpc(u)
      BY WorkedOn
    <3>3. QED
      BY <2>1, <3>1, <3>2 DEF Tags, With
  <2>3. SubnetAlive(u)'
    BY <2>1 DEF Current, SubnetAlive, Ofkind, In, SubnetName
  <2>4. VpcMissing(u)'
    BY <2>1 DEF Current, VpcMissing, CloudnetVpcs, At, NetworkName, Strange
  <2>5. HostMissing(u)'
    BY <2>1 DEF Current, HostMissing, CloudnetInstances, Ofkind, In, HostName, Strange
  <2>6. QED
    BY <2>2, <2>3, <2>4, <2>5 DEF Current
<1>4. \A y \in account' : Strange(y) => ~y.tagged /\ y.kind # "sg"
  BY DEF Strange, Shaped
<1>5. OneGroup'
  BY <1>4 DEF FindInv, OneGroup
<1>6. UniqueNames'
  BY <1>4 DEF FindInv, UniqueNames
<1>7. QED
  BY <1>1, <1>2, <1>3, <1>5, <1>6 DEF FindInv

LEMMA OutsideAccount ==
  ASSUME ProviderTypes, Terminated \/ Stranger \/ UNCHANGED vars
  PROVE  /\ UNCHANGED <<worker, rows, active, cut>>
         /\ \A y \in account' : y \in account \/ Strange(y)
         /\ \A x \in account : x \in account' \/ (x.kind = "instance" /\ ~x.up)
<1>1. CASE Terminated
  BY <1>1 DEF Terminated
<1>2. CASE Stranger
  <2>1. PICK new : Strange(new)
    BY <1>2, StrangerMakes
  <2>2. account' = account \cup {new}
    BY <2>1 DEF Strange
  <2>3. QED
    BY <1>2, <2>1, <2>2 DEF Stranger
<1>3. CASE UNCHANGED vars
  BY <1>3 DEF vars
<1>4. QED
  BY <1>1, <1>2, <1>3

LEMMA FindInit ==
  ASSUME Init
  PROVE  FindInv
<1>1. account = {} /\ \A t \in Topologies : worker[t].pc = "idle"
  BY DEF Init, Resting
<1>2. Busy = {}
  BY <1>1 DEF Busy, At
<1>3. Exclusive
  BY <1>2, FS_EmptySet DEF Exclusive
<1>4. \A t \in Topologies : Current(t)
  BY <1>1 DEF Current, VpcAlive, SubnetAlive, VpcMissing, HostMissing, At, LivePCs, DeployPCs,
     SubnetPCs, HostPCs, TeardownPCs, TornPCs
<1>5. QED
  BY <1>1, <1>3, <1>4 DEF FindInv, OneGroup, UniqueNames

\* Where topologies differ in name, or take turns, a handler that has looked for something by its
\* tags and not found it still has not got it when it makes it, and its VPC and the subnet it is
\* making are alive: so say FindVpc, FindSubnet and FindInstance, and call_with_retry keeps it.
THEOREM AwsFindInvariant == Apart => (Spec => []FindInv)
<1> SUFFICES ASSUME Apart PROVE Spec => []FindInv
  OBVIOUS
<1>1. Init => FindInv
  BY FindInit
<1>2. BaseInv /\ BaseInv' /\ FindInv /\ [Next]_vars => FindInv'
  <2> SUFFICES ASSUME BaseInv, BaseInv', FindInv, [Next]_vars PROVE FindInv'
    OBVIOUS
  <2>1. CASE \E t \in Topologies : BeginDeploy(t) \/ BeginCleanup(t) \/ Step(t)
    BY <2>1, FindStep
  <2>2. CASE Terminated \/ Stranger \/ UNCHANGED vars
    BY <2>2, OutsideAccount, FindOutside DEF BaseInv
  <2>3. QED
    BY <2>1, <2>2 DEF Next
<1>3. QED
  BY <1>1, <1>2, AwsBaseInvariant, PTL DEF Spec

\* A create that call_with_retry starts again after any failure, and a deploy that is repeated,
\* make nothing twice.
THEOREM AwsUniqueNames == Apart => (Spec => []UniqueNames)
<1> SUFFICES ASSUME Apart PROVE Spec => []UniqueNames
  OBVIOUS
<1>1. FindInv => UniqueNames
  BY DEF FindInv
<1>2. Spec => []FindInv
  BY AwsFindInvariant
<1>3. QED
  BY <1>1, <1>2, PTL

\* Once no request is under way, what CloudNet has made is where a cleanup or the next deploy
\* finds it, unless an error has cut it off.
THEOREM AwsNothingMislaid == Apart => (Spec => []NothingMislaid)
<1> SUFFICES ASSUME Apart PROVE Spec => []NothingMislaid
  OBVIOUS
<1>1. BaseInv /\ FindInv => NothingMislaid
  <2> SUFFICES ASSUME BaseInv, FindInv, NEW x \in account, x.ours, x.id \notin cut
               PROVE  \E v \in With(x.vpc) : v.tagged /\ \E t \in Topologies : v.name = NetworkName(t)
    BY DEF NothingMislaid
  <2>1. PICK v \in With(x.vpc) : v.kind = "vpc" /\ v.tagged
    BY DEF FindInv, Housed
  <2>2. QED
    BY <2>1 DEF BaseInv, Shaped, With
<1>2. Spec => []FindInv
  BY AwsFindInvariant
<1>3. QED
  BY <1>1, <1>2, AwsBaseInvariant, PTL

-----------------------------------------------------------------------------
(* What a teardown leaves *)

\* A failure that cuts nothing off is one of a create that has made nothing.
LEMMA CutNothing ==
  ASSUME BaseInv, NEW t \in Topologies, Fails(t), cut' = {}
  PROVE  /\ worker[t].pc \in CreatePCs /\ ~At(t, "drop")' /\ rows' = rows
         /\ \A y \in account' : y.id \in Ids
<1>1. PICK retryable \in BOOLEAN : Raises(t, retryable)
  BY DEF Fails
<1>2. Create(worker[t].pc) # "none" /\ \A y \in account' : y.id \in Ids
  BY <1>1 DEF Raises
<1>3. worker[t].pc \in CreatePCs
  BY <1>2 DEF Create, CreatePCs, VpcPCs, SubnetPCs, HostPCs
<1>4. \E w \in {Undone(t), Retried(t)} : worker' = [worker EXCEPT ![t] = w]
  BY <1>1, <1>2 DEF Raises, Goes
<1>5. worker'[t] \in {Undone(t), Retried(t)} /\ worker[t] \in Workers(nextId)
  BY <1>4 DEF BaseInv, ProviderTypes
<1>6. CASE worker'[t] = Undone(t)
  BY <1>2, <1>3, <1>6 DEF Undone, Resting, At, Fails
<1>7. CASE worker'[t] = Retried(t)
  <2>1. Retried(t).pc = Create(worker[t].pc)
    BY <1>5 DEF Retried, Workers
  <2>2. QED
    BY <1>2, <1>3, <1>7, <2>1 DEF Create, At, Fails
<1>8. QED
  BY <1>5, <1>6, <1>7

LEMMA DropsRows ==
  ASSUME BaseInv, NEW t \in Topologies, Turns(t), cut' = {}, NEW u \in Topologies
  PROVE  rows[u] \subseteq rows'[u] \/ (u = t /\ At(t, "drop"))
<1>1. CASE Fails(t)
  BY <1>1 DEF Fails
<1>2. ASSUME NEW w, Turn(t, w) PROVE rows[u] \subseteq rows'[u] \/ (u = t /\ At(t, "drop"))
  <2>1. CASE u # t
    BY <1>2, <2>1 DEF Turn
  <2>2. CASE u = t /\ UNCHANGED rows
    BY <2>2
  <2>3. CASE u = t /\ Writes(t, w)
    BY <2>3 DEF Writes, At
  <2>4. QED
    BY <1>2, <2>1, <2>2, <2>3 DEF Turn
<1>3. QED
  BY <1>1, <1>2 DEF Turns

LEMMA HoldsStep ==
  ASSUME BaseInv, NEW t \in Topologies, Frame(t), Turns(t), cut' = {}, cut = {}, HeldInv,
         NEW x \in account, x.ours
  PROVE  \E u \in Topologies : Holds(u, x.vpc)'
<1>1. PICK u \in Topologies : Holds(u, x.vpc)
  BY DEF HeldInv
<1>2. CASE HasRow(u, x.vpc)
  <2>1. ~(u = t /\ At(t, "drop"))
    BY <1>2 DEF HeldInv, Emptied, HasRow, Row, In
  <2>2. Row("vpc", 0, x.vpc) \in rows'[u]
    BY <1>2, <2>1, DropsRows DEF HasRow
  <2>3. QED
    BY <2>2 DEF Holds, HasRow, Row
<1>3. CASE At(u, "rowVpc") /\ x.vpc = Vpc(u)
  <2>1. PICK w : worker' = [worker EXCEPT ![t] = w]
    BY BeginOthers DEF BaseInv
  <2>2. CASE u # t
    <3>1. worker'[u] = worker[u]
      BY <2>1, <2>2
    <3>2. QED
      BY <1>3, <3>1 DEF Holds, At, Vpc
  <2>3. CASE u = t
    <3>1. ~Fails(t)
      BY <1>3, <2>3 DEF Fails, CallPCs, CreatePCs, VpcPCs, SubnetPCs, HostPCs, TeardownPCs, TornPCs, At
    <3>2. PICK v : Turn(t, v)
      BY <3>1 DEF Turns
    <3>3. Writes(t, v)
      BY <1>3, <2>3, <3>2 DEF Turn, Passes, Gets, Lists, Creates, IsNew, Deletes, At
    <3>4. Row("vpc", 0, Vpc(t)) \in rows'[t]
      BY <1>3, <2>3, <3>3 DEF Writes, At
    <3>5. QED
      BY <1>3, <2>3, <3>4 DEF Holds, HasRow, Row
  <2>4. QED
    BY <2>2, <2>3
<1>4. QED
  BY <1>1, <1>2, <1>3 DEF Holds

LEMMA NewHeld ==
  ASSUME BaseInv, NEW t \in Topologies, Turns(t), cut' = {}, NEW y \in account', IsNew(t, y),
         nextId' = nextId + 1
  PROVE  \E u \in Topologies : Holds(u, y.vpc)'
<1>1. y.id \notin Ids /\ nextId \in Nat /\ (y.vpc = y.id \/ y.kind # "vpc")
  BY DEF IsNew, Ids, BaseInv, ProviderTypes, Things, Before, Shaped
<1>2. CASE y.kind = "vpc"
  <2>1. y.id = nextId /\ nextId \in Nat /\ y \notin account /\ y.vpc = nextId
    BY <1>1, <1>2 DEF IsNew, Ids
  <2>2. ~Fails(t)
    BY <1>1, <1>2, CutNothing
  <2>3. PICK w : Goes(t, w) /\ Turn(t, w)
    BY <2>2 DEF Turns
  <2>4. Creates(t, w)
    <3>1. nextId' # nextId /\ account' # account
      BY <2>1
    <3>2. QED
      BY <2>3, <3>1 DEF Turn
  <2>5. w.pc = "rowVpc" /\ w.got["vpc"] = nextId
    BY <1>2, <2>1, <2>4 DEF Creates, AfterMaking
  <2>6. worker'[t] = w
    BY <2>3 DEF Goes, BaseInv, ProviderTypes
  <2>7. QED
    BY <2>1, <2>5, <2>6 DEF Holds, At, Vpc
<1>3. CASE y.kind # "vpc"
  <2>1. y.vpc = Vpc(t) /\ worker[t].pc \in {"makeSubnet", "gateway", "table", "group", "run"}
    BY <1>3 DEF IsNew, At
  <2>2. Row("vpc", 0, Vpc(t)) \in rows[t]
    BY <2>1, OwnVpcRow DEF DeployPCs, SubnetPCs, HostPCs
  <2>3. Row("vpc", 0, y.vpc) \in rows'[t]
    BY <2>1, <2>2, DropsRows DEF At
  <2>4. QED
    BY <2>3 DEF Holds, HasRow, Row
<1>4. QED
  BY <1>2, <1>3

LEMMA EmptiedOthers ==
  ASSUME BaseInv, NEW t \in Topologies, Frame(t), VpcAlive(t), cut' = {},
         NEW u \in Topologies, Emptied(u), worker'[u] = worker[u], rows'[u] = rows[u]
  PROVE  Emptied(u)'
<1> SUFFICES ASSUME At(u, "drop"), NEW r \in rows[u], r.kind = "vpc", NEW y \in account', y.vpc = r.id
             PROVE  FALSE
  BY DEF Emptied, At, In
<1>1. In(r.id) = {} /\ r.id \in Before(nextId) /\ nextId \in Nat
  BY DEF Emptied, BaseInv, ProviderTypes, Rows
<1>2. ASSUME NEW x \in account, x.vpc = y.vpc PROVE FALSE
  BY <1>1, <1>2 DEF In
<1>3. CASE IsNew(t, y)
  <2>1. CASE y.kind = "vpc"
    BY <1>1, <1>3, <2>1 DEF IsNew, Shaped, Before
  <2>2. CASE y.kind # "vpc"
    <3>1. y.vpc = Vpc(t) /\ worker[t].pc \in {"makeSubnet", "gateway", "table", "group", "run"}
      BY <1>3, <2>2 DEF IsNew, At
    <3>2. PICK v \in With(Vpc(t)) : v.tagged
      BY <3>1 DEF VpcAlive, LivePCs, DeployPCs, SubnetPCs, HostPCs, Tags
    <3>3. v \in account /\ v.id = Vpc(t) /\ v.kind = "vpc"
      BY WorkedOn
    <3>4. v.vpc = y.vpc
      BY <3>1, <3>3 DEF BaseInv, Shaped
    <3>5. QED
      BY <1>2, <3>3, <3>4
  <2>3. QED
    BY <2>1, <2>2
<1>4. QED
  BY <1>2, <1>3 DEF Frame

LEMMA EmptiedOwn ==
  ASSUME BaseInv, NEW t \in Topologies, Turns(t), cut' = {}
  PROVE  Emptied(t)'
<1> SUFFICES ASSUME At(t, "drop")', NEW r \in rows'[t], r.kind = "vpc", NEW y \in account', y.vpc = r.id
             PROVE  FALSE
  BY DEF Emptied, In
<1>1. PICK w : Goes(t, w) /\ Turn(t, w)
  BY CutNothing DEF Turns
<1>2. w.pc = "drop"
  BY <1>1 DEF Goes, BaseInv, ProviderTypes, At
<1>3. UNCHANGED rows /\ Deletes(t, w)
  <2>1. ~Creates(t, w)
    BY <1>2 DEF Creates, IsNew, AfterMaking
  <2>2. QED
    BY <1>1, <1>2, <2>1 DEF Turn, Passes, Moved, Gets, Got, Lists, Writes, NextTo, Resting
<1>4. worker[t].pc = "deleteVpc" /\ In(Vpc(t)) = With(Vpc(t)) /\ account' = account \ With(Vpc(t))
  BY <1>2, <1>3 DEF Deletes, Moved
<1>5. r.id = Vpc(t)
  BY <1>3, <1>4, OwnVpcRow DEF TeardownPCs, TornPCs
<1>6. QED
  BY <1>4, <1>5 DEF In

LEMMA HeldStep ==
  ASSUME BaseInv, FindInv, HeldInv, NEW t \in Topologies, BeginDeploy(t) \/ BeginCleanup(t) \/ Step(t)
  PROVE  HeldInv'
<1> SUFFICES ASSUME cut' = {}
             PROVE  /\ \A y \in account' : y.ours => \E u \in Topologies : Holds(u, y.vpc)'
                    /\ \A u \in Topologies : Emptied(u)'
  BY DEF HeldInv
<1>1. Frame(t) /\ Turns(t) /\ ProviderTypes /\ VpcAlive(t)
  BY StepFrame, StepTurns DEF BaseInv, FindInv, Current
<1>2. cut = {}
  BY <1>1 DEF Frame
<1>3. ASSUME NEW y \in account', y.ours PROVE \E u \in Topologies : Holds(u, y.vpc)'
  <2>1. CASE y \in account
    BY <1>1, <1>2, <1>3, <2>1, HoldsStep
  <2>2. CASE IsNew(t, y) /\ nextId' = nextId + 1
    BY <1>1, <2>2, NewHeld
  <2>3. ASSUME NEW x \in account, x.ours, y.vpc = x.vpc PROVE \E u \in Topologies : Holds(u, y.vpc)'
    BY <1>1, <1>2, <2>3, HoldsStep
  <2>4. QED
    BY <1>1, <2>1, <2>2, <2>3 DEF Frame, Gone
<1>4. ASSUME NEW u \in Topologies PROVE Emptied(u)'
  <2>1. CASE u = t
    BY <1>1, <2>1, EmptiedOwn
  <2>2. CASE u # t
    <3>1. worker'[u] = worker[u] /\ rows'[u] = rows[u]
      BY <1>1, <2>2, BeginOthers DEF ProviderTypes
    <3>2. QED
      BY <1>1, <1>2, <3>1, EmptiedOthers DEF HeldInv
  <2>3. QED
    BY <2>1, <2>2
<1>5. QED
  BY <1>3, <1>4

LEMMA HeldOutside ==
  ASSUME BaseInv, HeldInv, UNCHANGED <<worker, rows, cut>>,
         \A y \in account' : y \in account \/ Strange(y)
  PROVE  HeldInv'
<1> SUFFICES ASSUME cut = {}
             PROVE  /\ \A y \in account' : y.ours => \E u \in Topologies : Holds(u, y.vpc)'
                    /\ \A u \in Topologies : Emptied(u)'
  BY DEF HeldInv
<1>1. \A y \in account' : y.ours => \E u \in Topologies : Holds(u, y.vpc)'
  BY DEF HeldInv, Strange, Holds, HasRow, Row, At, Vpc
<1>2. ASSUME NEW u \in Topologies PROVE Emptied(u)'
  <2> SUFFICES ASSUME At(u, "drop"), NEW r \in rows[u], r.kind = "vpc", NEW y \in account', y.vpc = r.id
               PROVE  FALSE
    BY DEF Emptied, At, In
  <2>1. In(r.id) = {}
    BY DEF HeldInv, Emptied
  <2>2. ~Strange(y)
    BY <2>1 DEF Strange, In, BaseInv, Shaped
  <2>3. QED
    BY <2>1, <2>2 DEF In
<1>3. QED
  BY <1>1, <1>2

\* Until an error cuts something off, what CloudNet has made is in the VPC that a row names or
\* that create_network has just returned, so no object is without a record.
THEOREM AwsHeldInvariant == Apart => (Spec => []HeldInv)
<1> SUFFICES ASSUME Apart PROVE Spec => []HeldInv
  OBVIOUS
<1>1. Init => HeldInv
  <2> SUFFICES ASSUME Init PROVE HeldInv
    OBVIOUS
  <2>1. account = {} /\ \A t \in Topologies : rows[t] = {}
    BY DEF Init
  <2>2. QED
    BY <2>1 DEF HeldInv, Emptied
<1>2. BaseInv /\ FindInv /\ HeldInv /\ [Next]_vars => HeldInv'
  <2> SUFFICES ASSUME BaseInv, FindInv, HeldInv, [Next]_vars PROVE HeldInv'
    OBVIOUS
  <2>1. CASE \E t \in Topologies : BeginDeploy(t) \/ BeginCleanup(t) \/ Step(t)
    BY <2>1, HeldStep
  <2>2. CASE Terminated \/ Stranger \/ UNCHANGED vars
    BY <2>2, OutsideAccount, HeldOutside DEF BaseInv
  <2>3. QED
    BY <2>1, <2>2 DEF Next
<1>3. Spec => []FindInv
  BY AwsFindInvariant
<1>4. QED
  BY <1>1, <1>2, <1>3, AwsBaseInvariant, PTL DEF Spec

\* A teardown leaves nothing: everything that a deploy has made is in a VPC with a row, and
\* cleanup_topology_deployment drops the rows only after delete_network has emptied their VPC,
\* unless an error has cut something off.
THEOREM AwsTornDown == Apart => (Spec => []TornDown)
<1> SUFFICES ASSUME Apart PROVE Spec => []TornDown
  OBVIOUS
<1>1. HeldInv => TornDown
  BY DEF HeldInv, TornDown, Holds, HasRow, At
<1>2. Spec => []HeldInv
  BY AwsHeldInvariant
<1>3. QED
  BY <1>1, <1>2, PTL

-----------------------------------------------------------------------------
(* What a teardown has still to delete *)

LEMMA FailedTeardown ==
  ASSUME BaseInv, NEW t \in Topologies, Fails(t), worker[t].pc \in TeardownPCs \cup {"checkVpc"}
  PROVE  /\ Vpc(t) \in cut' /\ worker[t].left \subseteq cut' /\ worker'[t] = Stopped(t)
         /\ At(t, "drop")'
<1>1. Create(worker[t].pc) = "none" /\ ~At(t, "firewall")
  BY DEF Create, At, TeardownPCs, TornPCs
<1>2. PICK retryable \in BOOLEAN : Raises(t, retryable)
  BY DEF Fails
<1>3. worker' = [worker EXCEPT ![t] = Stopped(t)] /\ Vpc(t) \in cut' /\ worker[t].left \subseteq cut'
  BY <1>1, <1>2 DEF Raises, Goes
<1>4. worker'[t] = Stopped(t)
  BY <1>3 DEF BaseInv, ProviderTypes
<1>5. QED
  BY <1>3, <1>4 DEF Stopped, Resting, At

LEMMA DownStep ==
  ASSUME BaseInv, NEW t \in Topologies, Frame(t), Turns(t), \A x \in account : Down(x),
         NEW y \in account'
  PROVE  Down(y)'
<1> SUFFICES ASSUME y.kind = "instance", ~y.up
             PROVE  y.vpc \in cut' \/ \E u \in Topologies : At(u, "await")' /\ y.id \in worker'[u].left
  BY DEF Down
<1>1. ProviderTypes /\ cut \subseteq cut'
  BY DEF BaseInv, Frame
<1>2. CASE y \in account
  <2>1. CASE y.vpc \in cut
    BY <1>1, <2>1
  <2>2. ASSUME NEW u \in Topologies, At(u, "await"), y.id \in worker[u].left
        PROVE  y.vpc \in cut' \/ \E v \in Topologies : At(v, "await")' /\ y.id \in worker'[v].left
    <3>1. CASE u # t
      <4>1. worker'[u] = worker[u]
        BY <1>1, <3>1, BeginOthers DEF ProviderTypes
      <4>2. QED
        BY <2>2, <4>1 DEF At
    <3>2. CASE u = t
      <4>1. y.vpc = Vpc(t)
        BY <1>2, <2>2, <3>2, LeftOfLoop DEF At
      <4>2. Fails(t)
        <5>1. y.id \in Ids
          BY <1>2 DEF Ids
        <5>2. ASSUME NEW w, Turn(t, w) PROVE FALSE
          BY <2>2, <3>2, <5>1, <5>2
          DEF Turn, Passes, Gets, Lists, Creates, IsNew, Deletes, Writes, At
        <5>3. QED
          BY <5>2 DEF Turns
      <4>3. QED
        BY <2>2, <3>2, <4>1, <4>2, FailedTeardown DEF At, TeardownPCs
    <3>3. QED
      BY <3>1, <3>2
  <2>3. QED
    BY <1>2, <2>1, <2>2 DEF Down
<1>3. CASE IsNew(t, y)
  BY <1>3 DEF IsNew
<1>4. ASSUME NEW x \in account, Gone(t, x), Renews(x, y), y \notin account
      PROVE  y.vpc \in cut' \/ \E u \in Topologies : At(u, "await")' /\ y.id \in worker'[u].left
  <2>1. Same(x, y) /\ x.kind = "instance" /\ x.vpc = y.vpc
    BY <1>1, <1>4, RenewsSame DEF Gone, Same
  <2>2. At(t, "instances") /\ x.up /\ x.vpc = Vpc(t)
    <3>1. ~(x.id = Vpc(t))
      BY <2>1, WorkedOn DEF With
    <3>2. QED
      BY <1>4, <2>1, <3>1 DEF Gone
  <2>3. CASE Fails(t)
    BY <2>1, <2>2, <2>3, FailedTeardown DEF At, TeardownPCs
  <2>4. ASSUME NEW w, Goes(t, w), Turn(t, w)
        PROVE  At(t, "await")' /\ y.id \in worker'[t].left
    <3>1. account' # account
      BY <1>4
    <3>2. Deletes(t, w)
      BY <2>2, <2>4, <3>1 DEF Turn, Creates, IsNew, At
    <3>3. w.pc = "await" /\ w.left = {z.id : z \in {u \in Ofkind(Vpc(t), "instance") : u.up}}
      BY <2>2, <3>2 DEF Deletes, At
    <3>4. y.id \in w.left
      BY <2>1, <2>2, <3>3 DEF Ofkind, In, Same
    <3>5. QED
      BY <2>4, <3>3, <3>4 DEF Goes, At, ProviderTypes, BaseInv
  <2>5. QED
    BY <2>3, <2>4 DEF Turns
<1>5. QED
  BY <1>2, <1>3, <1>4 DEF Frame

LEMMA AtHomeStep ==
  ASSUME BaseInv, BaseInv', NEW t \in Topologies, Frame(t), \A x \in account : AtHome(x),
         NEW y \in account'
  PROVE  AtHome(y)'
<1> SUFFICES ASSUME y.kind = "instance", NEW s \in account', s.id = y.of
             PROVE  s.kind = "subnet" /\ s.vpc = y.vpc
  BY DEF AtHome, With
<1>1. nextId \in Nat /\ \A x \in account : x.of \in 0..(nextId - 1)
  BY DEF BaseInv, ProviderTypes, Things
<1>2. ASSUME NEW x \in account, Same(x, y) PROVE s.kind = "subnet" /\ s.vpc = y.vpc
  <2>1. x.kind = "instance" /\ x.of = y.of /\ x.vpc = y.vpc
    BY <1>2 DEF Same
  <2>2. ~IsNew(t, s)
    BY <1>1, <2>1 DEF IsNew
  <2>3. PICK z \in account : Same(z, s)
    BY <2>2, Whence
  <2>4. z.kind = "subnet" /\ z.vpc = x.vpc
    BY <2>1, <2>3 DEF Same, AtHome, With
  <2>5. QED
    BY <2>1, <2>3, <2>4 DEF Same
<1>3. CASE IsNew(t, y)
  <2>1. At(t, "run") /\ y.vpc = Vpc(t) /\ y.of = HomeSubnet(t)
    BY <1>3 DEF IsNew
  <2>2. PICK r \in rows[t] : r.kind = "subnet" /\ r.id = HomeSubnet(t) /\ r \in Rows(nextId)
    BY <2>1, HomeRow DEF At, HostPCs, BaseInv
  <2>3. ~IsNew(t, s)
    BY <1>1, <2>1, <2>2 DEF IsNew, Rows, Before
  <2>4. PICK z \in account : Same(z, s)
    BY <2>3, Whence
  <2>5. z.id = r.id
    BY <2>1, <2>2, <2>4 DEF Same
  <2>6. z.kind = "subnet" /\ z.vpc = Vpc(t)
    BY <2>1, <2>2, <2>5, OwnVpcRow DEF At, DeployPCs, HostPCs
  <2>7. QED
    BY <2>1, <2>4, <2>6 DEF Same
<1>4. QED
  BY <1>2, <1>3, Whence

\* Nothing comes into the VPC that another handler works on.
LEMMA StaysOut ==
  ASSUME BaseInv, NEW t \in Topologies, Frame(t), Exclusive, NEW u \in Topologies \ {t}, VpcAlive(u),
         worker[u].pc \in LivePCs, NEW y \in account', y.vpc = Vpc(u), y.kind # "vpc"
  PROVE  \E x \in account : Same(x, y) /\ x.vpc = Vpc(u)
<1>1. Vpc(u) # 0 /\ Tags(Vpc(u))
  <2>1. PlacedAt(u, worker[u], rows[u]) /\ Vpc(u) = worker[u].got["vpc"]
    BY AtWork DEF BaseInv
  <2>2. QED
    BY <2>1 DEF PlacedAt, LivePCs, VpcAlive
<1>2. ~IsNew(t, y)
  <2> SUFFICES ASSUME IsNew(t, y) PROVE FALSE
    OBVIOUS
  <2>1. y.vpc = Vpc(t) /\ ~At(t, "idle")
    BY <1>1 DEF IsNew, At
  <2>2. QED
    BY <1>1, <2>1, OnesOwnVpc, LiveAtWork
<1>3. PICK x \in account : Same(x, y)
  BY <1>2, Whence
<1>4. QED
  BY <1>1, <1>3 DEF Same

LEMMA SweptOthers ==
  ASSUME BaseInv, NEW t \in Topologies, Frame(t), FindInv, NEW u \in Topologies \ {t}, Swept(u),
         worker'[u] = worker[u]
  PROVE  Swept(u)'
<1>1. Exclusive /\ VpcAlive(u) /\ cut \subseteq cut'
  BY DEF FindInv, Current, Frame
<1>2. CASE worker[u].pc \in TeardownPCs
  <2>1. \A y \in account' : y.vpc = Vpc(u) /\ y.kind # "vpc" =>
          \E x \in account : /\ x.vpc = Vpc(u) /\ x.kind = y.kind /\ x.id = y.id
                             /\ x.tagged = y.tagged /\ x.ours = y.ours
    BY <1>1, <1>2, StaysOut DEF LivePCs, Same
  <2>2. SweptAt(worker[u], account', cut')
    BY <1>1, <2>1 DEF Swept, SweptAt, Vpc
  <2>3. QED
    BY <2>2 DEF Swept
<1>3. CASE worker[u].pc \notin TeardownPCs
  BY <1>3 DEF Swept, SweptAt, TeardownPCs, TornPCs
<1>4. QED
  BY <1>2, <1>3

LEMMA SweptOwn ==
  ASSUME BaseInv, NEW t \in Topologies, NEW w, FindInv, SweptInv, Turn(t, w)
  PROVE  SweptAt(w, account', cut')
<1> DEFINE v == worker[t]
<1>1. /\ ProviderTypes /\ cut' = cut /\ SweptAt(v, account, cut) /\ Vpc(t) = v.got["vpc"]
      /\ \A x, y \in account : x.id = y.id => x = y
  BY DEF Turn, SweptInv, Swept, Vpc, BaseInv, ProviderTypes
<1>2. \A x \in account : x.kind = "sg" => x.name = GroupName
  BY DEF BaseInv, Shaped
<1>3. CASE UNCHANGED account /\ Passes(t, w)
  <2>1. w.pc \in TornPCs \cup {"await", "groups", "listTables"} =>
          /\ w.got = v.got /\ w.left = v.left
          /\ \/ v.pc = "groups" /\ w.pc = "listTables" /\ Groups(t) = {}
             \/ v.pc = "tables" /\ w.pc = "listGateways" /\ v.left = {}
             \/ v.pc = "gateways" /\ w.pc = "listSubnets" /\ v.left = {}
             \/ v.pc = "subnets" /\ w.pc = "deleteVpc" /\ v.left = {}
    BY <1>3 DEF Passes, Moved, TornPCs
  <2>2. \A x \in account : x.kind = "sg" /\ x.vpc = v.got["vpc"] => x \in Groups(t)
    BY <1>1, <1>2 DEF Groups, Ofkind, In
  <2>3. CASE w.pc = "listTables"
    BY <1>1, <1>3, <2>1, <2>2, <2>3 DEF SweptAt, TornPCs
  <2>4. CASE w.pc \in {"listGateways", "listSubnets", "deleteVpc"}
    BY <1>1, <1>3, <2>1, <2>4 DEF SweptAt, TornPCs
  <2>5. QED
    BY <2>1, <2>3, <2>4 DEF SweptAt, TornPCs
<1>4. CASE Gets(t, w) \/ Creates(t, w)
  BY <1>4, SMTT(30) DEF Gets, Got, Creates, IsNew, AfterMaking, SweptAt, TornPCs
<1>5. CASE UNCHANGED account /\ Lists(t, w)
  <2>1. w.got = v.got
    BY <1>5 DEF Lists
  <2>2. CASE v.pc = "await"
    <3>1. v.left \cap Ids = {} /\ w.pc = "groups"
      BY <1>5, <2>2 DEF Lists
    <3>2. QED
      BY <1>1, <1>5, <2>1, <2>2, <3>1 DEF SweptAt, TornPCs, Ids
  <2>3. CASE v.pc = "listTables"
    <3>1. /\ w.pc = "tables"
          /\ \A x \in account : x.kind = "rt" /\ x.vpc = v.got["vpc"] /\ x.tagged => x.id \in w.left
      BY <1>1, <1>5, <2>3 DEF Lists, Cloudnets, Ofkind, In
    <3>2. QED
      BY <1>1, <1>5, <2>1, <2>3, <3>1 DEF SweptAt, TornPCs
  <2>4. CASE v.pc = "listGateways"
    <3>1. /\ w.pc = "gateways"
          /\ \A x \in account : x.kind = "igw" /\ x.vpc = v.got["vpc"] /\ x.tagged => x.id \in w.left
      BY <1>1, <1>5, <2>4 DEF Lists, Cloudnets, Ofkind, In
    <3>2. QED
      BY <1>1, <1>5, <2>1, <2>4, <3>1 DEF SweptAt, TornPCs
  <2>5. CASE v.pc = "listSubnets"
    <3>1. /\ w.pc = "subnets"
          /\ \A x \in account : x.kind = "subnet" /\ x.vpc = v.got["vpc"] /\ x.tagged => x.id \in w.left
      BY <1>1, <1>5, <2>5 DEF Lists, Ofkind, In
    <3>2. QED
      BY <1>1, <1>5, <2>1, <2>5, <3>1 DEF SweptAt, TornPCs
  <2>6. QED
    BY <1>5, <2>2, <2>3, <2>4, <2>5 DEF Lists
<1>6. CASE Deletes(t, w)
  <2>1. CASE v.pc = "firewall" \/ v.pc = "deleteVpc"
    BY <1>6, <2>1 DEF Deletes, Moved, Stopped, Resting, SweptAt, TornPCs
  <2>2. CASE v.pc = "instances"
    <3> DEFINE listed == {x \in Ofkind(Vpc(t), "instance") : x.up}
    <3>1. /\ w.pc = "await" /\ w.got = v.got /\ w.left = {x.id : x \in listed}
          /\ account' = (account \ listed) \cup {[x EXCEPT !.up = FALSE] : x \in listed}
      BY <1>6, <2>2 DEF Deletes
    <3>2. \A x \in listed : [x EXCEPT !.up = FALSE].id = x.id
      BY <1>1 DEF ProviderTypes, Things, Ofkind, In
    <3>3. ASSUME NEW y \in account \ listed, y.kind = "instance", y.vpc = w.got["vpc"],
                 w.got["vpc"] \notin cut
          PROVE  FALSE
      <4>1. ~y.up /\ y.vpc = Vpc(t)
        BY <1>1, <3>1, <3>3 DEF Ofkind, In
      <4>2. PICK u \in Topologies : At(u, "await") /\ y.id \in worker[u].left
        BY <3>1, <3>3, <4>1 DEF SweptInv, Down
      <4>3. y.vpc = Vpc(u)
        BY <4>2, LeftOfLoop DEF At
      <4>4. Tags(Vpc(u)) /\ ~At(u, "idle") /\ ~At(t, "idle")
        BY <2>2, <4>2 DEF FindInv, Current, VpcAlive, LivePCs, TeardownPCs, At
      <4>5. u = t
        BY <4>1, <4>3, <4>4, OnesOwnVpc DEF FindInv
      <4>6. QED
        BY <2>2, <4>2, <4>5 DEF At
    <3>4. ASSUME NEW y \in account', y.kind = "instance", y.vpc = w.got["vpc"], w.got["vpc"] \notin cut
          PROVE  y.id \in w.left
      BY <3>1, <3>2, <3>3, <3>4, ZenonT(60)
    <3> HIDE DEF listed
    <3>5. QED
      BY <1>1, <3>1, <3>4 DEF SweptAt, TornPCs
  <2>3. CASE v.pc = "groups"
    <3>1. w.pc = "listTables" /\ w.got = v.got /\ w.left = v.left
      BY <1>6, <2>3 DEF Deletes, Moved
    <3>2. PICK x \in Groups(t) : account' = account \ {x}
      BY <1>6, <2>3 DEF Deletes
    <3>3. x.kind = "sg" /\ x.vpc = Vpc(t) /\ x \in account
      BY DEF Groups, Ofkind, In
    <3>4. \A y \in account' : ~(y.kind = "sg" /\ y.vpc = Vpc(t))
      BY <3>2, <3>3 DEF FindInv, OneGroup
    <3>5. QED
      BY <1>1, <2>3, <3>1, <3>2, <3>4 DEF SweptAt, TornPCs
  <2>4. CASE v.pc \in {"tables", "gateways", "subnets"}
    <3>1. w.pc = v.pc /\ w.got = v.got
      BY <1>6, <2>4 DEF Deletes
    <3>2. PICK x \in account : w.left = v.left \ {x.id} /\ account' = account \ {x}
      BY <1>6, <2>4 DEF Deletes
    <3>3. \A y \in account' : y \in account /\ (y.id \in v.left => y.id \in w.left)
      BY <1>1, <3>2
    <3>4. QED
      BY <1>1, <2>4, <3>1, <3>3 DEF SweptAt, TornPCs
  <2>5. QED
    BY <1>6, <2>1, <2>2, <2>3, <2>4 DEF Deletes
<1>7. CASE Writes(t, w)
  BY <1>7 DEF Writes, NextTo, Resting, SweptAt, TornPCs
<1>8. QED
  BY <1>3, <1>4, <1>5, <1>6, <1>7 DEF Turn

LEMMA SweptStep ==
  ASSUME BaseInv, BaseInv', FindInv, SweptInv, NEW t \in Topologies,
         BeginDeploy(t) \/ BeginCleanup(t) \/ Step(t)
  PROVE  SweptInv'
<1>1. Frame(t) /\ Turns(t) /\ ProviderTypes
  BY StepFrame, StepTurns DEF BaseInv
<1>2. \A x \in account : Down(x) /\ AtHome(x)
  BY DEF SweptInv
<1>3. \A y \in account' : Down(y)' /\ AtHome(y)'
  BY <1>1, <1>2, DownStep, AtHomeStep
<1>4. Swept(t)'
  <2>1. CASE Fails(t)
    <3>1. worker'[t].pc \notin {"await", "groups", "listTables"} \cup TornPCs
      BY <2>1, FailedWhere DEF Create, TornPCs
    <3>2. QED
      BY <3>1 DEF Swept, SweptAt, TornPCs
  <2>2. ASSUME NEW w, Goes(t, w), Turn(t, w) PROVE Swept(t)'
    <3>1. worker'[t] = w
      BY <1>1, <2>2 DEF Goes, ProviderTypes
    <3>2. SweptAt(w, account', cut')
      BY <2>2, SweptOwn
    <3>3. QED
      BY <3>1, <3>2 DEF Swept
  <2>3. QED
    BY <1>1, <2>1, <2>2 DEF Turns
<1>5. ASSUME NEW u \in Topologies \ {t} PROVE Swept(u)'
  <2>1. worker'[u] = worker[u]
    BY <1>1, BeginOthers DEF ProviderTypes
  <2>2. QED
    BY <1>1, <2>1, SweptOthers DEF SweptInv
<1>6. QED
  BY <1>3, <1>4, <1>5 DEF SweptInv

LEMMA SweptOutside ==
  ASSUME BaseInv, BaseInv', SweptInv, UNCHANGED <<worker, cut>>,
         \A y \in account' : y \in account \/ Strange(y)
  PROVE  SweptInv'
<1>1. \A y \in account' : Strange(y) => ~y.ours /\ ~y.tagged /\ y.kind # "sg"
  BY DEF Strange, Shaped
<1>2. ASSUME NEW u \in Topologies PROVE Swept(u)'
  <2>1. SweptAt(worker[u], account, cut)
    BY DEF SweptInv, Swept
  <2>2. SweptAt(worker[u], account', cut)
    BY <1>1, <2>1 DEF SweptAt
  <2>3. QED
    BY <2>2 DEF Swept
<1>3. ASSUME NEW y \in account' PROVE Down(y)' /\ AtHome(y)'
  <2>1. Down(y)'
    BY DEF Down, SweptInv, At, Strange
  <2>2. AtHome(y)'
    <3> SUFFICES ASSUME y.kind = "instance", NEW s \in account', s.id = y.of
                 PROVE  s.kind = "subnet" /\ s.vpc = y.vpc
      BY DEF AtHome, With
    <3>1. \A x, z \in account' : x.id = z.id => x = z
      BY DEF BaseInv, ProviderTypes
    <3>2. nextId \in Nat /\ \A x \in account : x.of \in 0..(nextId - 1)
      BY DEF BaseInv, ProviderTypes, Things
    <3>3. CASE y \in account
      <4>1. s.id # nextId
        BY <3>2, <3>3
      <4>2. s \in account
        BY <4>1 DEF Strange
      <4>3. QED
        BY <3>3, <4>2 DEF SweptInv, AtHome, With
    <3>4. CASE Strange(y)
      <4>1. PICK z \in account : z.kind = "subnet" /\ z.id = y.of /\ z.vpc = y.vpc
        BY <3>4 DEF Strange
      <4>2. account \subseteq account'
        BY <3>4 DEF Strange
      <4>3. s = z
        BY <3>1, <4>1, <4>2
      <4>4. QED
        BY <4>1, <4>3
    <3>5. QED
      BY <3>3, <3>4
  <2>3. QED
    BY <2>1, <2>2
<1>4. QED
  BY <1>2, <1>3 DEF SweptInv

\* A teardown deletes kind by kind: once it is past a kind, nothing of that kind that it would
\* have deleted is left in its VPC, and what goes down is what a teardown awaits.
THEOREM AwsSweptInvariant == Apart => (Spec => []SweptInv)
<1> SUFFICES ASSUME Apart PROVE Spec => []SweptInv
  OBVIOUS
<1>1. Init => SweptInv
  <2> SUFFICES ASSUME Init PROVE SweptInv
    OBVIOUS
  <2>1. account = {} /\ \A t \in Topologies : worker[t].pc = "idle"
    BY DEF Init, Resting
  <2>2. QED
    BY <2>1 DEF SweptInv, Swept, SweptAt, TornPCs
<1>2. BaseInv /\ BaseInv' /\ FindInv /\ SweptInv /\ [Next]_vars => SweptInv'
  <2> SUFFICES ASSUME BaseInv, BaseInv', FindInv, SweptInv, [Next]_vars PROVE SweptInv'
    OBVIOUS
  <2>1. CASE \E t \in Topologies : BeginDeploy(t) \/ BeginCleanup(t) \/ Step(t)
    BY <2>1, SweptStep
  <2>2. CASE Terminated \/ Stranger \/ UNCHANGED vars
    BY <2>2, OutsideAccount, SweptOutside DEF BaseInv
  <2>3. QED
    BY <2>1, <2>2 DEF Next
<1>3. Spec => []FindInv
  BY AwsFindInvariant
<1>4. QED
  BY <1>1, <1>2, <1>3, AwsBaseInvariant, PTL DEF Spec

-----------------------------------------------------------------------------
(* Topologies of different names *)

\* The VPC that a row names is its topology's.
LEMMA RecordedVpc ==
  ASSUME BaseInv, NEW t \in Topologies, NEW r \in rows[t], r.kind = "vpc", NEW v \in With(r.id)
  PROVE  v \in account /\ v.id = r.id /\ v.kind = "vpc" /\ v.name = NetworkName(t)
BY DEF With, BaseInv, Recorded, RecordedAt

LEMMA NamedApart ==
  ASSUME NamesDiffer, NEW t \in Topologies, NEW u \in Topologies, NetworkName(t) = NetworkName(u)
  PROVE  t = u
BY DEF NamesDiffer, NetworkName

LEMMA StandsOthers ==
  ASSUME BaseInv, NamesDiffer, NEW t \in Topologies, Frame(t), NEW u \in Topologies \ {t}, Stands(u),
         worker'[u] = worker[u], rows'[u] = rows[u]
  PROVE  Stands(u)'
<1>1. CASE At(u, "drop")
  BY <1>1 DEF Stands, At
<1>2. ASSUME NEW r \in rows[u], r.kind = "vpc", Tags(r.id) PROVE Tags(r.id)'
  <2>1. PICK v \in With(r.id) : v.tagged
    BY <1>2 DEF Tags
  <2>2. v \in account /\ v.id = r.id /\ v.kind = "vpc" /\ v.name = NetworkName(u)
    BY <1>2, RecordedVpc
  <2>3. v.id # Vpc(t)
    BY <2>2, WorkedOn, NamedApart DEF With
  <2>4. v \in account'
    BY <2>2, <2>3, GoneVpc
  <2>5. QED
    BY <2>1, <2>2, <2>4 DEF Tags, With
<1>3. QED
  BY <1>1, <1>2 DEF Stands

LEMMA StandsOwn ==
  ASSUME BaseInv, NEW t \in Topologies, Frame(t), Turns(t), Stands(t), VpcAlive(t)
  PROVE  Stands(t)'
<1> SUFFICES ASSUME ~At(t, "drop")', NEW r \in rows'[t], r.kind = "vpc"
             PROVE  \E y \in account' : y.tagged /\ y.id = r.id
  BY DEF Stands, Tags, With
<1>1. ~At(t, "deleteVpc")
  <2> SUFFICES ASSUME At(t, "deleteVpc") PROVE FALSE
    OBVIOUS
  <2>1. ~Fails(t)
    BY FailedTeardown DEF At, TeardownPCs, TornPCs
  <2>2. PICK w : Goes(t, w) /\ Turn(t, w)
    BY <2>1 DEF Turns
  <2>3. w.pc = "drop"
    BY <2>2 DEF Turn, Passes, Gets, Lists, Creates, IsNew, Deletes, Writes, Stopped, Resting, At
  <2>4. QED
    BY <2>2, <2>3 DEF Goes, At, BaseInv, ProviderTypes
<1>2. ASSUME NEW v \in account, v.tagged, v.kind = "vpc", v.id = r.id
      PROVE  \E y \in account' : y.tagged /\ y.id = r.id
  BY <1>1, <1>2, GoneVpc
<1>3. CASE At(t, "drop")
  <2>1. ~Fails(t)
    BY <1>3 DEF Fails, CallPCs, CreatePCs, VpcPCs, SubnetPCs, HostPCs, TeardownPCs, TornPCs, At
  <2>2. \E w : Writes(t, w)
    BY <1>3, <2>1 DEF Turns, Turn, Passes, Gets, Lists, Creates, IsNew, Deletes, At
  <2>3. rows'[t] = {}
    BY <1>3, <2>2 DEF Writes, At
  <2>4. QED
    BY <2>3
<1>4. CASE r \in rows[t] /\ ~At(t, "drop")
  <2>1. PICK v \in With(r.id) : v.tagged
    BY <1>4 DEF Stands, Tags
  <2>2. QED
    BY <1>2, <1>4, <2>1, RecordedVpc
<1>5. CASE r \notin rows[t]
  <2>1. ~Fails(t)
    BY <1>5 DEF Fails
  <2>2. PICK w : Turn(t, w)
    BY <2>1 DEF Turns
  <2>3. Writes(t, w)
    BY <1>5, <2>2 DEF Turn
  <2>4. CASE At(t, "rowVpc")
    <3>1. r.id = Vpc(t)
      BY <1>5, <2>3, <2>4 DEF Writes, At, Row
    <3>2. PICK v \in With(Vpc(t)) : v.tagged
      BY <2>4 DEF VpcAlive, LivePCs, Tags, At
    <3>3. QED
      BY <1>2, <3>1, <3>2, WorkedOn
  <2>5. CASE ~At(t, "rowVpc")
    BY <1>5, <2>3, <2>5 DEF Writes, At, Row
  <2>6. QED
    BY <2>4, <2>5
<1>6. QED
  BY <1>3, <1>4, <1>5

LEMMA StandStep ==
  ASSUME BaseInv, FindInv, StandInv, NamesDiffer, NEW t \in Topologies,
         BeginDeploy(t) \/ BeginCleanup(t) \/ Step(t)
  PROVE  StandInv'
<1>1. Frame(t) /\ Turns(t) /\ ProviderTypes /\ VpcAlive(t)
  BY StepFrame, StepTurns DEF BaseInv, FindInv, Current
<1>2. Stands(t)'
  BY <1>1, StandsOwn DEF StandInv
<1>3. ASSUME NEW u \in Topologies \ {t} PROVE Stands(u)'
  <2>1. worker'[u] = worker[u] /\ rows'[u] = rows[u]
    BY <1>1, BeginOthers DEF ProviderTypes
  <2>2. QED
    BY <1>1, <2>1, StandsOthers DEF StandInv
<1>4. QED
  BY <1>2, <1>3 DEF StandInv

LEMMA StandOutside ==
  ASSUME BaseInv, StandInv, UNCHANGED <<worker, rows>>,
         \A x \in account : x \in account' \/ (x.kind = "instance" /\ ~x.up)
  PROVE  StandInv'
<1> SUFFICES ASSUME NEW t \in Topologies PROVE Stands(t)'
  BY DEF StandInv
<1>1. CASE At(t, "drop")
  BY <1>1 DEF Stands, At
<1>2. ASSUME NEW r \in rows[t], r.kind = "vpc", Tags(r.id) PROVE Tags(r.id)'
  <2>1. PICK v \in With(r.id) : v.tagged
    BY <1>2 DEF Tags
  <2>2. QED
    BY <1>2, <2>1, RecordedVpc DEF Tags, With
<1>3. QED
  BY <1>1, <1>2 DEF StandInv, Stands

\* The VPC that a row names is alive and tagged, until its teardown is over.
THEOREM AwsStandInvariant == NamesDiffer => (Spec => []StandInv)
<1> SUFFICES ASSUME NamesDiffer PROVE Spec => []StandInv
  OBVIOUS
<1>1. Init => StandInv
  BY DEF Init, StandInv, Stands
<1>2. BaseInv /\ FindInv /\ StandInv /\ [Next]_vars => StandInv'
  <2> SUFFICES ASSUME BaseInv, FindInv, StandInv, [Next]_vars PROVE StandInv'
    OBVIOUS
  <2>1. CASE \E t \in Topologies : BeginDeploy(t) \/ BeginCleanup(t) \/ Step(t)
    BY <2>1, StandStep
  <2>2. CASE Terminated \/ Stranger \/ UNCHANGED vars
    BY <2>2, OutsideAccount, StandOutside DEF BaseInv
  <2>3. QED
    BY <2>1, <2>2 DEF Next
<1>3. Apart
  BY DEF Apart
<1>4. Spec => []FindInv
  BY <1>3, AwsFindInvariant
<1>5. QED
  BY <1>1, <1>2, <1>4, AwsBaseInvariant, PTL DEF Spec

LEMMA TurnsMove ==
  ASSUME BaseInv, NEW t \in Topologies, Turns(t), account' # account
  PROVE  worker'[t] # worker[t]
<1>1. ProviderTypes
  BY DEF BaseInv
<1>2. CASE Fails(t)
  <2>1. worker[t].pc \in CallPCs /\ worker[t].tries \in Nat
    BY <1>1, <1>2, WorkerFields, PlanTypes DEF Fails
  <2>2. PICK w : /\ worker' = [worker EXCEPT ![t] = w]
                 /\ \/ w = Undone(t) \/ w = Stopped(t)
                    \/ w = Retried(t)
    BY <1>1, <1>2, FailedPlaced DEF Fails, CallPCs
  <2>3. worker'[t] = w /\ worker[t] \in Workers(nextId)
    BY <1>1, <2>2 DEF ProviderTypes
  <2>4. CASE w = Undone(t) \/ w = Stopped(t)
    BY <2>1, <2>3, <2>4 DEF Undone, Stopped, Resting, CallPCs, CreatePCs, VpcPCs, SubnetPCs, HostPCs,
       TeardownPCs, TornPCs
  <2>5. CASE w = Retried(t)
    <3>1. w.tries = worker[t].tries + 1
      BY <2>3, <2>5 DEF Retried, Workers
    <3>2. QED
      BY <2>1, <2>3, <3>1
  <2>6. QED
    BY <2>2, <2>4, <2>5
<1>3. ASSUME NEW w, Goes(t, w), Turn(t, w) PROVE worker'[t] # worker[t]
  <2>1. worker'[t] = w
    BY <1>1, <1>3 DEF Goes, ProviderTypes
  <2>2. Creates(t, w) \/ Deletes(t, w)
    BY <1>3 DEF Turn
  <2>3. CASE Creates(t, w)
    BY <2>1, <2>3 DEF Creates, IsNew, AfterMaking, At
  <2>4. CASE Deletes(t, w)
    BY <2>1, <2>4 DEF Deletes, Moved, Stopped, Resting
  <2>5. QED
    BY <2>2, <2>3, <2>4
<1>4. QED
  BY <1>2, <1>3 DEF Turns

\* The VPC that a topology has recorded is in no other's hands.
LEMMA OwnedVpc ==
  ASSUME BaseInv, FindInv, NamesDiffer, NEW t \in Topologies, NEW s \in Topologies,
         NEW r \in rows[t], r.kind = "vpc", r.id = Vpc(s), worker[s].pc \in LivePCs
  PROVE  s = t
<1>1. PICK v \in With(Vpc(s)) : v.tagged
  BY DEF FindInv, Current, VpcAlive, Tags
<1>2. v.name = NetworkName(s) /\ v.name = NetworkName(t)
  BY <1>1, WorkedOn, RecordedVpc
<1>3. QED
  BY <1>2, NamedApart

LEMMA SparesRecorded ==
  ASSUME BaseInv, FindInv, NamesDiffer, NEW s \in Topologies, Frame(s), NEW t \in Topologies \ {s},
         NEW r \in rows[t], r.kind = "vpc", NEW x \in account, x.vpc = r.id
  PROVE  x \in account'
<1> SUFFICES ASSUME x \notin account' PROVE FALSE
  OBVIOUS
<1>1. Gone(s, x)
  BY DEF Frame
<1>2. r.id # 0
  BY WorkerFields DEF BaseInv, Rows, Before
<1>3. r.id = Vpc(s) /\ worker[s].pc \in LivePCs
  BY <1>1, <1>2 DEF Gone, At, LivePCs, DeployPCs, TeardownPCs, TornPCs
<1>4. QED
  BY <1>3, OwnedVpc

LEMMA SparesStep ==
  ASSUME BaseInv, FindInv, NamesDiffer, NEW s \in Topologies,
         BeginDeploy(s) \/ BeginCleanup(s) \/ Step(s)
  PROVE  /\ \A x \in account : ~x.ours => x \in account'
         /\ \A t \in Topologies : \A r \in rows[t] :
              r.kind = "vpc" /\ worker'[t] = worker[t] =>
                  \A x \in In(r.id) : x \in account' \/ (x.kind = "instance" /\ ~x.up)
<1>1. Frame(s) /\ Turns(s)
  BY StepFrame, StepTurns
<1>2. \A x \in account : ~x.ours => x \in account'
  BY <1>1 DEF Frame, Gone
<1>3. ASSUME NEW t \in Topologies, NEW r \in rows[t], r.kind = "vpc", worker'[t] = worker[t],
             NEW x \in In(r.id), x \notin account'
      PROVE  FALSE
  <2>1. s # t /\ x \in account /\ x.vpc = r.id
    BY <1>1, <1>3, TurnsMove DEF In
  <2>2. QED
    BY <1>1, <1>3, <2>1, SparesRecorded
<1>4. QED
  BY <1>2, <1>3

\* What strangers have made is neither deleted nor changed, and what is in a VPC that a topology
\* has recorded is changed by that topology's handler alone: the tags and the VPC that every
\* deletion asks for keep the others' things safe.
THEOREM AwsSparesOthers == NamesDiffer => (Spec => SparesOthers)
<1> SUFFICES ASSUME NamesDiffer PROVE Spec => SparesOthers
  OBVIOUS
<1> DEFINE Spares ==
      /\ \A x \in account : ~x.ours => x \in account'
      /\ \A t \in Topologies : \A r \in rows[t] :
           r.kind = "vpc" /\ worker'[t] = worker[t] =>
               \A x \in In(r.id) : x \in account' \/ (x.kind = "instance" /\ ~x.up)
<1>1. BaseInv /\ FindInv /\ [Next]_vars => [Spares]_vars
  <2> SUFFICES ASSUME BaseInv, FindInv, Next PROVE Spares
    OBVIOUS
  <2>1. CASE \E t \in Topologies : BeginDeploy(t) \/ BeginCleanup(t) \/ Step(t)
    BY <2>1, SparesStep
  <2>2. CASE Terminated \/ Stranger
    <3>1. \A x \in account : x \in account' \/ (x.kind = "instance" /\ ~x.up)
      BY <2>2, OutsideAccount DEF BaseInv
    <3>2. \A x \in account : ~x.ours /\ x.kind = "instance" => x.up
      BY DEF BaseInv, Shaped
    <3>3. QED
      BY <3>1, <3>2 DEF In
  <2>3. QED
    BY <2>1, <2>2 DEF Next
<1>2. Apart
  BY DEF Apart
<1>3. Spec => []FindInv
  BY <1>2, AwsFindInvariant
<1>4. QED
  BY <1>1, <1>3, AwsBaseInvariant, PTL DEF Spec, SparesOthers

-----------------------------------------------------------------------------
(* Refusals *)

LEMMA CalledStops ==
  ASSUME BaseInv, NEW t \in Topologies, NEW partial, NEW whole, NEW w, Calls(t, partial, whole, w),
         worker'[t].pc = "drop", faults' = faults
  PROVE  w.pc = "drop" /\ cut' = cut
<1>1. faults \in Nat
  BY DEF BaseInv, ProviderTypes
<1>2. Goes(t, w) /\ cut' = cut
  BY <1>1 DEF Calls
<1>3. QED
  BY <1>2 DEF Goes, BaseInv, ProviderTypes

LEMMA ReadStops ==
  ASSUME BaseInv, NEW t \in Topologies, NEW w, Reads(t, w), worker'[t].pc = "drop", faults' = faults
  PROVE  w.pc = "drop"
BY CalledStops DEF Reads

LEMMA LocalStops ==
  ASSUME BaseInv, NEW t \in Topologies, NEW w, Local(t, w), worker'[t].pc = "drop"
  PROVE  w.pc = "drop"
BY DEF Local, Goes, BaseInv, ProviderTypes

LEMMA StopsInTeardown ==
  ASSUME BaseInv, NEW t \in Topologies, Turns(t), worker'[t].pc = "drop"
  PROVE  worker[t].pc \in TeardownPCs \cup {"checkVpc"}
<1>1. CASE Fails(t)
  <2>1. PICK w : /\ worker' = [worker EXCEPT ![t] = w]
                 /\ \/ w = Undone(t)
                    \/ w = Stopped(t) /\ worker[t].pc \in TeardownPCs \cup {"checkVpc"}
                    \/ w = Retried(t) /\ worker[t].pc \in CreatePCs
    BY <1>1, FailedPlaced DEF Fails, CallPCs, BaseInv
  <2>2. worker'[t] = w /\ worker[t] \in Workers(nextId)
    BY <2>1 DEF BaseInv, ProviderTypes
  <2>3. Undone(t).pc = "rows"
    BY DEF Undone, Resting
  <2>4. worker[t].pc \in CreatePCs => Retried(t).pc # "drop"
    BY <2>2 DEF Retried, Workers, Create, CreatePCs, VpcPCs, SubnetPCs, HostPCs
  <2>5. QED
    BY <2>1, <2>2, <2>3, <2>4
<1>2. ASSUME NEW w, Goes(t, w), Turn(t, w) PROVE worker[t].pc \in TeardownPCs
  <2>1. w.pc = "drop"
    BY <1>2 DEF Goes, BaseInv, ProviderTypes
  <2>2. ~Creates(t, w)
    BY <2>1 DEF Creates, IsNew, AfterMaking
  <2>3. Deletes(t, w)
    BY <1>2, <2>1, <2>2 DEF Turn, Passes, Moved, Gets, Got, Lists, Writes, NextTo, Resting
  <2>4. QED
    BY <2>1, <2>3 DEF Deletes, Moved, TeardownPCs, TornPCs
<1>3. QED
  BY <1>1, <1>2 DEF Turns

\* Why a teardown stops without a failed call.
Reasons(t) ==
    \/ At(t, "checkVpc") /\ ~Tags(Vpc(t))
    \/ worker[t].pc \in TeardownPCs /\ \E x \in In(Vpc(t)) : ~x.tagged
    \/ worker[t].pc \in {"groups", "gateways"} /\ \E y \in Ofkind(Vpc(t), "instance") : y.ours \/ ~y.tagged
    \/ At(t, "subnets") /\ \E x, y \in account : x.id \in worker[t].left /\ y.kind = "instance" /\ y.of = x.id
    \/ At(t, "deleteVpc") /\ (In(Vpc(t)) # With(Vpc(t)) \/ cut' = cut)

LEMMA StopReasons ==
  ASSUME BaseInv, NEW t \in Topologies, Turns(t), Step(t), worker'[t].pc = "drop", faults' = faults
  PROVE  Reasons(t)
<1>1. /\ worker[t].pc \in TeardownPCs \cup {"checkVpc"} /\ ProviderTypes /\ faults \in Nat
      /\ worker[t] \in Workers(nextId)
  BY StopsInTeardown DEF BaseInv, ProviderTypes
<1>2. \/ CheckVpc(t) \/ Terminate(t) \/ Await(t) \/ DeleteGroup(t)
      \/ ListTables(t) \/ DeleteTable(t) \/ ListGateways(t) \/ DeleteGateway(t)
      \/ ListSubnets(t) \/ DeleteSubnet(t) \/ DeleteVpc(t)
  BY <1>1 DEF Step, At, TeardownPCs, TornPCs, FindVpc, MakeVpc, RowVpc, FindSubnet, MakeSubnet,
     Gateway, Table, RowSubnet, FindInstance, Group, Run, RowInstance, Firewall, Activate, ListRows,
     DropRows
<1>3. ASSUME NEW pc PROVE To(t, pc).pc = pc
  BY <1>1 DEF To, Workers
<1>4. ASSUME NEW pc, pc # "drop", NEW S PROVE ~Reads(t, [To(t, pc) EXCEPT !.left = S])
  <2> DEFINE w == [To(t, pc) EXCEPT !.left = S]
  <2>1. w.pc = pc
    BY <1>1 DEF To, Workers
  <2> HIDE DEF w
  <2>2. ~Reads(t, w)
    BY <1>4, <2>1, ReadStops
  <2>3. QED
    BY <2>2 DEF w
<1>5. ASSUME NEW S PROVE [worker[t] EXCEPT !.left = S].pc = worker[t].pc
  BY <1>1 DEF Workers
<1>6. CASE CheckVpc(t)
  <2>1. ~Reads(t, To(t, "instances"))
    BY <1>3, ReadStops
  <2>2. QED
    BY <1>6, <2>1 DEF CheckVpc, Reasons, Tags, With, At
<1>7. CASE Terminate(t)
  <2> DEFINE listed == {x \in Ofkind(Vpc(t), "instance") : x.up}
             w == [To(t, "await") EXCEPT !.left = Awaited(t, {x.id : x \in listed})]
  <2>1. w.pc # "drop"
    BY <1>1 DEF To, Workers
  <2>2. \/ \E x \in listed : ~x.tagged
        \/ Calls(t, {}, (account \ listed) \cup {[x EXCEPT !.up = FALSE] : x \in listed}, w)
    BY <1>7 DEF Terminate
  <2>3. \E x \in listed : ~x.tagged
    <3> HIDE DEF w
    <3>1. QED
      BY <2>1, <2>2, CalledStops
  <2>4. QED
    BY <1>7, <2>3 DEF Terminate, At, Reasons, Ofkind, TeardownPCs
<1>8. CASE Await(t)
  <2>1. faults' # faults + 1
    BY <1>1
  <2>2. Reads(t, [To(t, "groups") EXCEPT !.left = {}])
    BY <1>8, <2>1 DEF Await
  <2>3. QED
    BY <1>4, <2>2
<1>9. CASE DeleteGroup(t)
  <2>1. ASSUME NEW x PROVE ~Calls(t, {}, account \ {x}, To(t, "listTables"))
    BY <1>3, <2>1, CalledStops
  <2>2. ~Reads(t, To(t, "listTables"))
    BY <1>3, ReadStops
  <2>3. PICK x \in Groups(t) : ~x.tagged \/ \E y \in Ofkind(Vpc(t), "instance") : y.ours
    BY <1>9, <2>1, <2>2 DEF DeleteGroup
  <2>4. QED
    BY <1>9, <2>3 DEF DeleteGroup, At, Reasons, Groups, Ofkind, TeardownPCs
<1>10. CASE ListTables(t) \/ ListGateways(t)
  BY <1>4, <1>10 DEF ListTables, ListGateways
<1>11. ASSUME NEW pc, pc # "drop" PROVE ~Local(t, To(t, pc))
  BY <1>3, <1>11, LocalStops
<1>12. ASSUME NEW x, NEW partial, NEW whole
       PROVE  ~Calls(t, partial, whole, [worker[t] EXCEPT !.left = @ \ {x.id}])
  <2> DEFINE w == [worker[t] EXCEPT !.left = @ \ {x.id}]
  <2>1. w.pc # "drop"
    BY <1>1, <1>5 DEF TeardownPCs, TornPCs
  <2> HIDE DEF w
  <2>2. ~Calls(t, partial, whole, w)
    BY <2>1, CalledStops
  <2>3. QED
    BY <2>2 DEF w
<1>13. CASE DeleteTable(t)
  <2>1. \/ Local(t, To(t, "listGateways"))
        \/ \E x \in account : Calls(t, {(account \ {x}) \cup {[x EXCEPT !.of = 0]}}, account \ {x},
                                    [worker[t] EXCEPT !.left = @ \ {x.id}])
    BY <1>13 DEF DeleteTable
  <2>2. QED
    BY <1>11, <1>12, <2>1
<1>14. CASE DeleteGateway(t)
  <2>1. \/ Local(t, To(t, "listSubnets"))
        \/ Ofkind(Vpc(t), "instance") # {}
        \/ \E x \in account : Calls(t, {(account \ {x}) \cup {[x EXCEPT !.vpc = 0]}}, account \ {x},
                                    [worker[t] EXCEPT !.left = @ \ {x.id}])
    BY <1>14 DEF DeleteGateway
  <2>2. Ofkind(Vpc(t), "instance") # {}
    BY <1>11, <1>12, <2>1
  <2>3. \A y \in Ofkind(Vpc(t), "instance") : y.ours \/ ~y.tagged
    BY DEF Ofkind, In, BaseInv, Shaped
  <2>4. QED
    BY <1>14, <2>2, <2>3 DEF DeleteGateway, At, Reasons
<1>15. CASE ListSubnets(t)
  <2>1. ASSUME NEW S PROVE ~Reads(t, [To(t, "subnets") EXCEPT !.left = S])
    BY <1>4, <2>1
  <2>2. \E x \in Ofkind(Vpc(t), "subnet") : ~x.tagged
    BY <1>15, <2>1 DEF ListSubnets
  <2>3. QED
    BY <1>15, <2>2 DEF ListSubnets, At, Reasons, Ofkind, TeardownPCs, TornPCs
<1>16. CASE DeleteSubnet(t)
  <2>1. \/ Local(t, To(t, "deleteVpc"))
        \/ \E x \in account : /\ x.id \in worker[t].left
                              /\ \E y \in account : y.kind = "instance" /\ y.of = x.id
        \/ \E x \in account : Calls(t, {}, account \ {x}, [worker[t] EXCEPT !.left = @ \ {x.id}])
    BY <1>16 DEF DeleteSubnet
  <2>2. QED
    BY <1>11, <1>12, <1>16, <2>1 DEF DeleteSubnet, At, Reasons
<1>17. CASE DeleteVpc(t)
  <2>1. \/ In(Vpc(t)) # With(Vpc(t))
        \/ Calls(t, {}, account \ With(Vpc(t)), [Resting EXCEPT !.pc = "drop"])
    BY <1>17 DEF DeleteVpc
  <2>2. QED
    BY <1>17, <2>1, CalledStops DEF DeleteVpc, At, Reasons
<1>18. QED
  BY <1>2, <1>6, <1>7, <1>8, <1>9, <1>10, <1>13, <1>14, <1>15, <1>16, <1>17

\* The instances that are still in the VPC once those that were awaited are gone.
LEMMA InstanceLeft ==
  ASSUME BaseInv, SweptInv, NEW t \in Topologies, worker[t].pc \in {"groups", "listTables"} \cup TornPCs,
         NEW y \in account, y.kind = "instance", y.vpc = Vpc(t)
  PROVE  Vpc(t) \in cut \/ ~y.tagged
<1>1. ~y.ours => ~y.tagged
  BY DEF BaseInv, Shaped
<1>2. SweptAt(worker[t], account, cut) /\ worker[t].got["vpc"] = Vpc(t) /\ worker[t].pc # "await"
  BY DEF SweptInv, Swept, Vpc, TornPCs
<1>3. QED
  BY <1>1, <1>2 DEF SweptAt

LEMMA RefusedStep ==
  ASSUME BaseInv, FindInv, SweptInv, StandInv, NEW t \in Topologies, Reasons(t), Vpc(t) \in cut'
  PROVE  \E x \in With(Vpc(t)) \cup In(Vpc(t)) : ~x.tagged \/ x.id \in cut
<1>1. ~At(t, "checkVpc") \/ Tags(Vpc(t))
  <2> SUFFICES ASSUME At(t, "checkVpc") PROVE Tags(Vpc(t))
    OBVIOUS
  <2>1. PICK r \in rows[t] : r.kind = "vpc" /\ r.id = Vpc(t)
    BY OwnVpcRow DEF At, Row
  <2>2. QED
    BY <2>1 DEF StandInv, Stands, At
<1>2. worker[t].pc \in TeardownPCs
  BY <1>1 DEF Reasons, TeardownPCs, TornPCs, At
<1>3. PICK v \in With(Vpc(t)) : v.tagged
  BY <1>2 DEF FindInv, Current, VpcAlive, LivePCs, Tags
<1>4. v \in account /\ v.id = Vpc(t) /\ v.vpc = Vpc(t)
  BY WorkedOn DEF BaseInv, Shaped
<1>5. CASE Vpc(t) \in cut
  BY <1>3, <1>4, <1>5
<1>6. ASSUME NEW y \in account, y.kind = "instance", y.vpc = Vpc(t),
             worker[t].pc \in {"groups", "listTables"} \cup TornPCs
      PROVE  \E x \in With(Vpc(t)) \cup In(Vpc(t)) : ~x.tagged \/ x.id \in cut
  BY <1>5, <1>6, InstanceLeft DEF In
<1>7. CASE \E x \in In(Vpc(t)) : ~x.tagged
  BY <1>7
<1>8. CASE worker[t].pc \in {"groups", "gateways"} /\ \E y \in Ofkind(Vpc(t), "instance") : y.ours \/ ~y.tagged
  BY <1>6, <1>8 DEF Ofkind, In, TornPCs
<1>9. CASE At(t, "subnets") /\ \E x, y \in account : x.id \in worker[t].left /\ y.kind = "instance" /\ y.of = x.id
  <2>1. PICK x \in account, y \in account : x.id \in worker[t].left /\ y.kind = "instance" /\ y.of = x.id
    BY <1>9
  <2>2. x.vpc = Vpc(t)
    BY <1>9, <2>1, LeftOfLoop DEF At
  <2>3. y.vpc = x.vpc
    BY <2>1 DEF SweptInv, AtHome, With
  <2>4. QED
    BY <1>6, <1>9, <2>1, <2>2, <2>3 DEF At, TornPCs
<1>10. CASE At(t, "deleteVpc") /\ In(Vpc(t)) # With(Vpc(t))
  <2>1. PICK z \in account : z.vpc = Vpc(t) /\ z.id # Vpc(t)
    <3>1. \A z \in With(Vpc(t)) : z \in In(Vpc(t))
      BY WorkedOn DEF BaseInv, Shaped, In
    <3>2. QED
      BY <1>10, <3>1 DEF In, With
  <2>2. CASE ~z.tagged
    BY <2>1, <2>2 DEF In
  <2>3. CASE z.kind = "instance"
    BY <1>6, <1>10, <2>1, <2>3 DEF At, TornPCs
  <2>4. CASE z.tagged /\ z.kind # "instance"
    <3>1. SweptAt(worker[t], account, cut) /\ worker[t].pc = "deleteVpc" /\ worker[t].got["vpc"] = Vpc(t)
      BY <1>10 DEF SweptInv, Swept, Vpc, At
    <3>2. z.kind \in {"vpc", "subnet", "igw", "rt", "sg", "instance"}
      BY DEF BaseInv, ProviderTypes, Things, Kinds
    <3>3. z.kind # "vpc"
      BY <2>1 DEF BaseInv, Shaped
    <3>4. QED
      BY <2>1, <2>4, <3>1, <3>2, <3>3 DEF SweptAt, TornPCs
  <2>5. QED
    BY <2>2, <2>3, <2>4
<1>11. CASE cut' = cut
  BY <1>5, <1>11
<1>12. QED
  BY <1>1, <1>7, <1>8, <1>9, <1>10, <1>11 DEF Reasons

\* delete_network never stands in its own way: it is refused only for something without tags, or
\* for something that an earlier error has cut off.
THEOREM AwsRefusedForOthers == NamesDiffer => (Spec => RefusedForOthers)
<1> SUFFICES ASSUME NamesDiffer PROVE Spec => RefusedForOthers
  OBVIOUS
<1> DEFINE Refused ==
      \A t \in Topologies :
          worker[t] # worker'[t] /\ worker'[t] = Stopped(t) /\ Vpc(t) \in cut' /\ faults' = faults =>
              \E x \in With(Vpc(t)) \cup In(Vpc(t)) : ~x.tagged \/ x.id \in cut
<1>1. BaseInv /\ FindInv /\ SweptInv /\ StandInv /\ [Next]_vars => [Refused]_vars
  <2> SUFFICES ASSUME BaseInv, FindInv, SweptInv, StandInv, Next, NEW t \in Topologies,
                      worker[t] # worker'[t], worker'[t] = Stopped(t), Vpc(t) \in cut', faults' = faults
               PROVE  \E x \in With(Vpc(t)) \cup In(Vpc(t)) : ~x.tagged \/ x.id \in cut
    OBVIOUS
  <2>1. PICK s \in Topologies : BeginDeploy(s) \/ BeginCleanup(s) \/ Step(s)
    BY DEF Next, Terminated, Stranger
  <2>2. Turns(s)
    BY <2>1, StepTurns
  <2>3. s = t
    BY <2>2, BeginOthers DEF BaseInv, ProviderTypes
  <2>4. worker'[t].pc = "drop"
    BY DEF Stopped, Resting
  <2>5. Step(t)
    <3>1. worker[t].pc \in TeardownPCs \cup {"checkVpc"}
      BY <2>2, <2>3, <2>4, StopsInTeardown
    <3>2. QED
      BY <2>1, <2>3, <3>1 DEF BeginDeploy, BeginCleanup, At, TeardownPCs, TornPCs
  <2>6. Reasons(t)
    BY <2>2, <2>3, <2>4, <2>5, StopReasons
  <2>7. QED
    BY <2>6, RefusedStep
<1>2. Apart
  BY DEF Apart
<1>3. (Spec => []FindInv) /\ (Spec => []SweptInv) /\ (Spec => []StandInv)
  BY <1>2, AwsFindInvariant, AwsSweptInvariant, AwsStandInvariant
<1>4. QED
  BY <1>1, <1>3, AwsBaseInvariant, PTL DEF Spec, RefusedForOthers

-----------------------------------------------------------------------------
(* What a deploy has built *)

LEMMA FailedCuts ==
  ASSUME BaseInv, NEW t \in Topologies, Fails(t)
  PROVE  worker[t].made \subseteq cut' /\ \A y \in account' : y.id \in Ids \/ y.id \in cut'
BY DEF Fails, Raises

LEMMA RoutedMore ==
  ASSUME NEW x, NEW A, NEW B, Routed(x, A),
         \A y \in A : y.kind \in {"rt", "igw"} /\ y.vpc = x.vpc => y \in B
  PROVE  Routed(x, B)
BY DEF Routed

\* A teardown keeps at it or is cut off.
LEMMA TornOn ==
  ASSUME BaseInv, NEW t \in Topologies, Turns(t), worker[t].pc \in TornPCs,
         NEW y \in account', y \in account, y.kind = "subnet", y.vpc = Vpc(t)
  PROVE  y.vpc \in cut' \/ InWork(t, y)'
<1>1. CASE Fails(t)
  BY <1>1, FailedTeardown DEF TeardownPCs
<1>2. ASSUME NEW w, Goes(t, w), Turn(t, w) PROVE InWork(t, y)'
  <2>1. worker'[t] = w /\ worker[t].got["vpc"] = Vpc(t)
    BY <1>2 DEF Goes, BaseInv, ProviderTypes, Vpc
  <2>2. worker[t].pc # "deleteVpc" \/ ~Deletes(t, w)
    <3>1. y.id # Vpc(t)
      BY WorkedOn DEF With
    <3>2. ASSUME worker[t].pc = "deleteVpc", Deletes(t, w) PROVE FALSE
      <4>1. In(Vpc(t)) = With(Vpc(t))
        BY <3>2 DEF Deletes
      <4>2. QED
        BY <3>1, <4>1 DEF In, With
    <3>3. QED
      BY <3>2
  <2>3. w.pc \in TornPCs /\ w.got["vpc"] = Vpc(t)
    BY <1>2, <2>1, <2>2
    DEF Turn, Passes, Moved, Gets, Lists, Creates, IsNew, Deletes, Writes, TornPCs, At
  <2>4. QED
    BY <2>1, <2>3 DEF InWork, Vpc
<1>3. QED
  BY <1>1, <1>2 DEF Turns

\* A create of a subnet comes to its end or is cut off.
LEMMA WiredOn ==
  ASSUME BaseInv, BaseInv', NEW t \in Topologies, Frame(t), Turns(t), Built(t),
         worker[t].pc \in {"gateway", "table"},
         NEW y \in account', y \in account, y.kind = "subnet", y.id = worker[t].got["subnet"]
  PROVE  y.id \in cut' \/ InWork(t, y)' \/ Routed(y, account')
<1>1. CASE Fails(t)
  BY <1>1, FailedCuts DEF Built, BuiltAt
<1>2. ASSUME NEW w, Goes(t, w), Turn(t, w) PROVE InWork(t, y)' \/ Routed(y, account')
  <2>1. worker'[t] = w
    BY <1>2 DEF Goes, BaseInv, ProviderTypes
  <2>2. y.vpc = Vpc(t)
    BY DEF BaseInv, Known, KnownAt, Kinds, Vpc
  <2>3. CASE Gets(t, w)
    <3>1. w.pc = "table" /\ w.got["subnet"] = worker[t].got["subnet"]
      BY <2>3 DEF Gets, Got, Kinds
    <3>2. QED
      BY <2>1, <3>1 DEF InWork
  <2>4. CASE Creates(t, w)
    <3>1. PICK new : /\ account' = account \cup {new} /\ IsNew(t, new) /\ new.tagged
                     /\ w.pc = AfterMaking[new.kind]
                     /\ \A k \in Kinds \ {new.kind} : w.got[k] = worker[t].got[k]
      BY <2>4 DEF Creates
    <3>2. CASE worker[t].pc = "gateway"
      <4>1. new.kind = "igw"
        BY <3>1, <3>2 DEF IsNew, At
      <4>2. w.pc = "table" /\ w.got["subnet"] = worker[t].got["subnet"]
        BY <3>1, <4>1 DEF AfterMaking, Kinds
      <4>3. QED
        BY <2>1, <4>2 DEF InWork
    <3>3. CASE worker[t].pc = "table"
      <4>1. new.id = nextId /\ nextId \notin cut /\ cut' = cut
        BY <1>2, <3>1 DEF IsNew, Turn, BaseInv, ProviderTypes, Before
      <4>2. new.kind = "rt" /\ new.vpc = Vpc(t) /\ new.of = y.id
        BY <3>1, <3>3, <4>1 DEF IsNew, At
      <4>3. \E g \in account : g.kind = "igw" /\ g.vpc = Vpc(t)
        BY <3>3 DEF Built, BuiltAt, Vpc
      <4>4. QED
        BY <2>2, <3>1, <4>2, <4>3 DEF Routed
    <3>4. QED
      BY <3>2, <3>3
  <2>5. QED
    BY <1>2, <2>3, <2>4 DEF Turn, Passes, Lists, Deletes, Writes
<1>3. QED
  BY <1>1, <1>2 DEF Turns

LEMMA ConnectedStep ==
  ASSUME BaseInv, BaseInv', NEW t \in Topologies, Frame(t), Turns(t), FindInv,
         \A x \in account : Connected(x), Built(t), NEW y \in account'
  PROVE  Connected(y)'
<1> SUFFICES ASSUME y.kind = "subnet", y.tagged
             PROVE  \/ y.id \in cut' \/ y.vpc \in cut' \/ Routed(y, account')
                    \/ \E u \in Topologies : InWork(u, y)'
  BY DEF Connected
<1>1. cut \subseteq cut' /\ ProviderTypes
  BY DEF Frame, BaseInv
<1>2. CASE y \in account
  <2>1. CASE y.id \in cut \/ y.vpc \in cut
    BY <1>1, <2>1
  <2>2. ASSUME NEW u \in Topologies, InWork(u, y)
        PROVE  y.id \in cut' \/ y.vpc \in cut' \/ Routed(y, account') \/ InWork(u, y)'
    <3>1. CASE u # t
      <4>1. worker'[u] = worker[u]
        BY <1>1, <3>1, BeginOthers DEF ProviderTypes
      <4>2. QED
        BY <2>2, <4>1 DEF InWork, Vpc
    <3>2. CASE u = t /\ worker[t].pc \in TornPCs /\ y.vpc = Vpc(t)
      BY <1>2, <3>2, TornOn
    <3>3. CASE u = t /\ worker[t].pc \in {"gateway", "table"} /\ y.id = worker[t].got["subnet"]
      BY <1>2, <3>3, WiredOn
    <3>4. QED
      BY <2>2, <3>1, <3>2, <3>3 DEF InWork
  <2>3. CASE Routed(y, account) /\ y.id \notin cut
    <3>1. y.vpc # 0
      <4>1. PICK v \in With(y.vpc) : v.kind = "vpc"
        BY <1>2, <2>3 DEF FindInv, Housed
      <4>2. QED
        BY <1>1, <4>1 DEF With, ProviderTypes, Things, Before
    <3>2. CASE \A x \in account : x.kind \in {"rt", "igw"} /\ x.vpc = y.vpc => x \in account'
      BY <2>3, <3>2, RoutedMore
    <3>3. ASSUME NEW x \in account, x.kind \in {"rt", "igw"}, x.vpc = y.vpc, x \notin account'
          PROVE  y.vpc \in cut' \/ InWork(t, y)'
      <4>1. Gone(t, x)
        BY <3>3 DEF Frame
      <4>2. x.id # Vpc(t)
        BY <3>3, WorkedOn DEF With
      <4>3. worker[t].pc \in TornPCs /\ y.vpc = Vpc(t)
        BY <3>1, <3>3, <4>1, <4>2 DEF Gone, At, TornPCs
      <4>4. QED
        BY <1>2, <4>3, TornOn
    <3>4. QED
      BY <3>2, <3>3
  <2>4. QED
    BY <1>2, <2>1, <2>2, <2>3 DEF Connected
<1>3. CASE y \notin account
  <2>1. IsNew(t, y)
    <3>1. ASSUME NEW x \in account, Gone(t, x), Renews(x, y) PROVE x = y
      <4>1. x.kind = "subnet"
        BY <1>1, <3>1, RenewsSame DEF Gone, Same
      <4>2. y = [x EXCEPT !.vpc = x.vpc, !.of = x.of, !.up = x.up]
        BY <3>1, <4>1 DEF Renews
      <4>3. x \in Things(nextId)
        BY <1>1 DEF ProviderTypes
      <4>4. QED
        BY <4>2, <4>3 DEF Things
    <3>2. QED
      BY <1>3, <3>1 DEF Frame
  <2>2. At(t, "makeSubnet") /\ y.id = nextId /\ y.id \notin Ids
    BY <1>1, <2>1 DEF IsNew, Ids, ProviderTypes, Things, Before
  <2>3. CASE Fails(t)
    BY <2>2, <2>3, FailedCuts
  <2>4. ASSUME NEW w, Goes(t, w), Turn(t, w) PROVE InWork(t, y)'
    <3>1. worker'[t] = w
      BY <1>1, <2>4 DEF Goes, ProviderTypes
    <3>2. Creates(t, w)
      BY <1>3, <2>2, <2>4 DEF Turn, Deletes, At
    <3>3. w.pc = "gateway" /\ w.got["subnet"] = nextId
      BY <1>3, <3>2 DEF Creates, AfterMaking
    <3>4. QED
      BY <2>2, <3>1, <3>3 DEF InWork
  <2>5. QED
    BY <2>3, <2>4 DEF Turns
<1>4. QED
  BY <1>2, <1>3

LEMMA HostStays ==
  ASSUME NEW t, NEW n, NEW id, NEW R, NEW A, NEW C, NEW S, NEW B, NEW D, HostStands(t, n, id, R, A, C),
         R \subseteq S, C \subseteq D, \A x \in A : x.id = id /\ x.up => x \in B
  PROVE  HostStands(t, n, id, S, B, D)
BY DEF HostStands

LEMMA RowsStay ==
  ASSUME NEW t, NEW R, NEW A, NEW C, NEW B, NEW D, RowsStand(t, R, A, C), C \subseteq D,
         \A r \in R, x \in A :
            x.id = r.id => x \in B \/ r.kind \notin {"subnet", "instance"} \/ (r.kind = "instance" /\ ~x.up)
  PROVE  RowsStand(t, R, B, D)
<1>1. ASSUME NEW r \in R, r.kind = "subnet" PROVE SubnetStands(t, r, B)
  BY <1>1 DEF RowsStand, SubnetStands
<1>2. ASSUME NEW r \in R, r.kind = "instance"
      PROVE  r.at \in DOMAIN Home[t] /\ HostStands(t, r.at, r.id, R, B, D)
  <2>1. r.at \in DOMAIN Home[t] /\ HostStands(t, r.at, r.id, R, A, C)
    BY <1>2 DEF RowsStand
  <2>2. \A x \in A : x.id = r.id /\ x.up => x \in B
    BY <1>2
  <2>3. QED
    BY <2>1, <2>2, HostStays
<1>3. QED
  BY <1>1, <1>2 DEF RowsStand

\* Rows are added.
LEMMA RowsGrow ==
  ASSUME NEW t, NEW R, NEW A, NEW C, NEW S, RowsStand(t, R, A, C), R \subseteq S,
         \A r \in S \ R : /\ r.kind = "subnet" => SubnetStands(t, r, A)
                          /\ r.kind = "instance" =>
                                r.at \in DOMAIN Home[t] /\ HostStands(t, r.at, r.id, R, A, C)
  PROVE  RowsStand(t, S, A, C)
<1>1. ASSUME NEW r \in S, r.kind = "subnet" PROVE SubnetStands(t, r, A)
  BY <1>1 DEF RowsStand
<1>2. ASSUME NEW r \in S, r.kind = "instance"
      PROVE  r.at \in DOMAIN Home[t] /\ HostStands(t, r.at, r.id, S, A, C)
  <2>1. r.at \in DOMAIN Home[t] /\ HostStands(t, r.at, r.id, R, A, C)
    BY <1>2 DEF RowsStand
  <2>2. QED
    BY <2>1, HostStays
<1>3. QED
  BY <1>1, <1>2 DEF RowsStand

\* What is in the account that the rows of t name is there after another's step.
LEMMA BuiltKept ==
  ASSUME BaseInv, NEW t \in Topologies, Built(t), worker'[t] = worker[t], rows'[t] = rows[t],
         active'[t] = active[t], cut \subseteq cut',
         \A r \in rows[t], x \in account :
            r.kind = "vpc" /\ x.vpc = r.id => x \in account' \/ (x.kind = "instance" /\ ~x.up)
  PROVE  Built(t)'
<1> DEFINE w == worker[t]
           R == rows[t]
<1>1. BuiltAt(t, w, R, account, cut, active[t]) /\ RecordedAt(t, w, R, account)
  BY DEF Built, BaseInv, Recorded
<1>2. \A r \in R, x \in account : x.id = r.id /\ r.kind # "igw" =>
        x.kind = r.kind /\ (x \in account' \/ (x.kind = "instance" /\ ~x.up))
  <2> SUFFICES ASSUME NEW r \in R, NEW x \in account, x.id = r.id, r.kind # "igw"
               PROVE  x.kind = r.kind /\ (x \in account' \/ (x.kind = "instance" /\ ~x.up))
    OBVIOUS
  <2>1. PICK v \in R : v.kind = "vpc"
    BY <1>1 DEF RecordedAt
  <2>2. x.kind = r.kind /\ x.vpc = v.id
    BY <1>1, <2>1 DEF RecordedAt
  <2>3. QED
    BY <2>1, <2>2
<1>3. w.pc \in DeployPCs \/ (w.pc = "idle" /\ active[t]) => RowsStand(t, R, account', cut')
  <2>1. \A r \in R, x \in account :
          x.id = r.id => x \in account' \/ r.kind \notin {"subnet", "instance"} \/ (r.kind = "instance" /\ ~x.up)
    BY <1>2
  <2>2. QED
    BY <1>1, <2>1, RowsStay DEF BuiltAt
<1>4. GroupStands(R, account) => GroupStands(R, account')
  <2> SUFFICES ASSUME NEW r \in R, NEW x \in account, r = Row("sg", 0, x.id), x.up
               PROVE  x \in account'
    BY DEF GroupStands
  <2>1. r.id = x.id /\ r.kind = "sg"
    BY DEF Row
  <2>2. QED
    BY <1>2, <2>1
<1>5. w.pc \in DeployPCs => /\ Row("vpc", 0, Vpc(t)) \in R /\ Row("vpc", 0, Vpc(t)).kind = "vpc"
                            /\ Row("vpc", 0, Vpc(t)).id = w.got["vpc"] /\ Vpc(t) = w.got["vpc"]
  BY OwnVpcRow DEF Row, Vpc
<1>6. w.pc = "rowInstance" => HostStands(t, w.at, w.got["instance"], R, account', cut')
  <2> SUFFICES ASSUME w.pc = "rowInstance" PROVE HostStands(t, w.at, w.got["instance"], R, account', cut')
    OBVIOUS
  <2>1. \A x \in account : x.id = w.got["instance"] => x.vpc = w.got["vpc"]
    BY DEF BaseInv, Known, KnownAt, Kinds
  <2>2. \A x \in account : x.id = w.got["instance"] /\ x.up => x \in account'
    BY <1>5, <2>1 DEF DeployPCs
  <2>3. QED
    BY <1>1, <2>2, HostStays DEF BuiltAt
<1>7. w.pc = "table" => \E y \in account' : y.kind = "igw" /\ y.vpc = w.got["vpc"]
  BY <1>1, <1>5 DEF BuiltAt, DeployPCs, SubnetPCs
<1>8. BuiltAt(t, w, R, account', cut', active[t])
  BY <1>1, <1>3, <1>4, <1>6, <1>7 DEF BuiltAt
<1>9. QED
  BY <1>8 DEF Built

LEMMA BuiltOthers ==
  ASSUME BaseInv, FindInv, NamesDiffer, NEW s \in Topologies, Frame(s), NEW t \in Topologies \ {s}, Built(t),
         worker'[t] = worker[t], rows'[t] = rows[t], active'[t] = active[t]
  PROVE  Built(t)'
<1>1. \A r \in rows[t], x \in account : r.kind = "vpc" /\ x.vpc = r.id => x \in account'
  BY SparesRecorded
<1>2. QED
  BY <1>1, BuiltKept DEF Frame

\* A deploy changes no subnet and no instance that is there.
LEMMA DeployKeeps ==
  ASSUME BaseInv, NEW t \in Topologies, Frame(t), worker[t].pc \in DeployPCs
  PROVE  /\ \A x \in account : x \in account' \/ (x.kind = "sg" /\ At(t, "firewall"))
         /\ \A r \in rows[t], x \in account :
              x.id = r.id => x \in account' \/ r.kind \notin {"subnet", "instance"}
<1>1. ASSUME NEW x \in account, x \notin account' PROVE x.kind = "sg" /\ At(t, "firewall")
  <2>1. Gone(t, x)
    BY <1>1 DEF Frame
  <2>2. QED
    BY <2>1 DEF Gone, At, DeployPCs, SubnetPCs, HostPCs
<1>2. \A r \in rows[t], x \in account : x.id = r.id => x.kind = r.kind
  BY OwnVpcRow
<1>3. QED
  BY <1>1, <1>2

\* The instance that create_server has found runs, or its VPC has been cut off.
LEMMA FoundHost ==
  ASSUME BaseInv, FindInv, SweptInv, NEW t \in Topologies, At(t, "instance"),
         NEW x \in CloudnetInstances(t)
  PROVE  HostStands(t, worker[t].at, x.id, rows[t], account, cut)
<1>1. x \in account /\ x.kind = "instance" /\ x.vpc = Vpc(t) /\ x.of = HomeSubnet(t)
      /\ x.name = HostName(worker[t].at)
  BY DEF CloudnetInstances, Ofkind, In
<1>2. PICK s \in rows[t] : s.kind = "subnet" /\ s.at = Home[t][worker[t].at] /\ s.id = HomeSubnet(t)
  BY HomeRow DEF At, HostPCs, BaseInv
<1>3. CASE x.up
  BY <1>1, <1>2, <1>3 DEF HostStands
<1>4. CASE x.vpc \in cut
  <2>1. PICK v \in rows[t] : v.kind = "vpc" /\ v.id = Vpc(t)
    BY OwnVpcRow DEF At, DeployPCs, HostPCs, Row
  <2>2. QED
    BY <1>1, <1>2, <1>4, <2>1 DEF HostStands
<1>5. ASSUME NEW u \in Topologies, At(u, "await"), x.id \in worker[u].left PROVE FALSE
  <2>1. x.vpc = Vpc(u)
    BY <1>1, <1>5, LeftOfLoop DEF At
  <2>2. Tags(Vpc(u)) /\ ~At(u, "idle") /\ ~At(t, "idle")
    BY <1>5 DEF FindInv, Current, VpcAlive, LivePCs, TeardownPCs, At
  <2>3. u = t
    BY <1>1, <2>1, <2>2, OnesOwnVpc DEF FindInv
  <2>4. QED
    BY <1>5, <2>3 DEF At
<1>6. QED
  BY <1>1, <1>3, <1>4, <1>5 DEF SweptInv, Down

\* What a handler has built when it goes on to w.
LEMMA PassesBuilt ==
  ASSUME NEW t \in Topologies, NEW w, Passes(t, w), Built(t)
  PROVE  BuiltAt(t, w, rows[t], account, cut, active[t])
<1>1. w.pc \in DeployPCs => worker[t].pc \in DeployPCs
  BY DEF Passes, Moved, DeployPCs, SubnetPCs, HostPCs
<1>2. w.pc \notin {"idle", "active", "rowInstance", "gateway", "table"}
  BY DEF Passes, Moved
<1>3. QED
  BY <1>1, <1>2 DEF Built, BuiltAt

LEMMA GetsBuilt ==
  ASSUME BaseInv, FindInv, SweptInv, NEW t \in Topologies, NEW w, Gets(t, w), Built(t)
  PROVE  BuiltAt(t, w, rows[t], account, cut, active[t])
<1>1. w.pc \in DeployPCs => worker[t].pc \in DeployPCs
  BY DEF Gets, Got, DeployPCs, SubnetPCs, HostPCs
<1>2. w.pc \notin {"idle", "active", "gateway"}
  BY DEF Gets, Got
<1>3. w.pc = "table" => /\ w.got["subnet"] \in w.made
                        /\ \E y \in account : y.kind = "igw" /\ y.vpc = w.got["vpc"]
  <2> SUFFICES ASSUME w.pc = "table"
               PROVE  /\ w.got["subnet"] \in w.made
                      /\ \E y \in account : y.kind = "igw" /\ y.vpc = w.got["vpc"]
    OBVIOUS
  <2>1. /\ worker[t].pc = "gateway" /\ w.made = worker[t].made /\ w.got["subnet"] = worker[t].got["subnet"]
        /\ w.got["vpc"] = Vpc(t) /\ \E x \in Ofkind(Vpc(t), "igw") : w.got["igw"] = x.id
    BY DEF Gets, Got, Kinds, Vpc
  <2>2. QED
    BY <2>1 DEF Built, BuiltAt, Ofkind, In
<1>4. w.pc = "rowInstance" => HostStands(t, w.at, w.got["instance"], rows[t], account, cut)
  <2> SUFFICES ASSUME w.pc = "rowInstance"
               PROVE  HostStands(t, w.at, w.got["instance"], rows[t], account, cut)
    OBVIOUS
  <2>1. /\ At(t, "instance") /\ w.at = worker[t].at
        /\ \E x \in CloudnetInstances(t) : w.got["instance"] = x.id
    BY DEF Gets, Got, At
  <2>2. QED
    BY <2>1, FoundHost
<1>5. QED
  BY <1>1, <1>2, <1>3, <1>4 DEF Built, BuiltAt

LEMMA CreatesBuilt ==
  ASSUME BaseInv, NEW t \in Topologies, NEW w, Creates(t, w), cut' = cut, Built(t)
  PROVE  BuiltAt(t, w, rows[t], account', cut, active[t])
<1>1. PICK new : /\ account' = account \cup {new} /\ IsNew(t, new) /\ new.tagged
                 /\ w.pc = AfterMaking[new.kind] /\ w.at = worker[t].at
                 /\ w.made = worker[t].made \cup {nextId} /\ w.got[new.kind] = nextId
                 /\ \A k \in Kinds \ {new.kind} : w.got[k] = worker[t].got[k]
  BY DEF Creates
<1>2. new.id = nextId /\ new.kind \in Kinds
  BY <1>1 DEF IsNew, Kinds
<1>3. nextId \notin cut'
  BY DEF BaseInv, ProviderTypes, Before
<1>4. w.pc \notin {"idle", "active"} /\ (w.pc \in DeployPCs => worker[t].pc \in DeployPCs)
  BY <1>1, <1>2 DEF AfterMaking, IsNew, At, Kinds, DeployPCs, SubnetPCs, HostPCs
<1>5. w.pc \in DeployPCs => RowsStand(t, rows[t], account', cut)
  BY <1>1, <1>4, RowsStay DEF Built, BuiltAt
<1>6. w.pc \in {"gateway", "table"} => w.got["subnet"] \in w.made
  <2>1. CASE new.kind = "subnet"
    BY <1>1, <2>1
  <2>2. CASE new.kind = "igw"
    BY <1>1, <2>2 DEF IsNew, At, Kinds, Built, BuiltAt
  <2>3. QED
    BY <1>1, <1>2, <2>1, <2>2 DEF AfterMaking, Kinds
<1>7. w.pc = "table" => \E y \in account' : y.kind = "igw" /\ y.vpc = w.got["vpc"]
  <2> SUFFICES ASSUME w.pc = "table" PROVE \E y \in account' : y.kind = "igw" /\ y.vpc = w.got["vpc"]
    OBVIOUS
  <2>1. new.kind = "igw"
    BY <1>1, <1>2 DEF AfterMaking, Kinds
  <2>2. new.vpc = Vpc(t) /\ w.got["vpc"] = Vpc(t)
    BY <1>1, <1>2, <1>3, <2>1 DEF IsNew, Kinds, Vpc
  <2>3. QED
    BY <1>1, <2>1, <2>2
<1>8. w.pc = "rowInstance" => HostStands(t, w.at, w.got["instance"], rows[t], account', cut)
  <2> SUFFICES ASSUME w.pc = "rowInstance"
               PROVE  HostStands(t, w.at, w.got["instance"], rows[t], account', cut)
    OBVIOUS
  <2>1. new.kind = "instance"
    BY <1>1, <1>2 DEF AfterMaking, Kinds
  <2>2. /\ worker[t].pc \in HostPCs /\ new.of = HomeSubnet(t) /\ new.name = HostName(w.at) /\ new.up
        /\ w.got["instance"] = new.id
    BY <1>1, <1>2, <2>1 DEF IsNew, At, HostPCs
  <2>3. PICK s \in rows[t] : s.kind = "subnet" /\ s.at = Home[t][w.at] /\ s.id = HomeSubnet(t)
    BY <1>1, <2>2, HomeRow DEF BaseInv
  <2>4. QED
    BY <1>1, <2>2, <2>3 DEF HostStands
<1>9. QED
  BY <1>4, <1>5, <1>6, <1>7, <1>8 DEF BuiltAt

LEMMA DeletesBuilt ==
  ASSUME BaseInv, NEW t \in Topologies, Frame(t), NEW w, Deletes(t, w), Built(t)
  PROVE  BuiltAt(t, w, rows[t], account', cut, active[t])
<1>1. CASE worker[t].pc = "firewall"
  <2>1. w.pc = "active" /\ worker[t].pc \in DeployPCs
    BY <1>1 DEF Deletes, Moved, DeployPCs
  <2>2. RowsStand(t, rows[t], account', cut)
    BY <2>1, DeployKeeps, RowsStay DEF Built, BuiltAt
  <2>3. GroupStands(rows[t], account')
    <3>1. PICK x \in account : Row("sg", 0, x.id) \in rows[t] /\ [x EXCEPT !.up = TRUE] \in account'
      BY <1>1 DEF Deletes
    <3>2. x \in Things(nextId)
      BY DEF BaseInv, ProviderTypes
    <3>3. [x EXCEPT !.up = TRUE].id = x.id /\ [x EXCEPT !.up = TRUE].up
      BY <3>2 DEF Things
    <3>4. QED
      BY <3>1, <3>3 DEF GroupStands
  <2>4. QED
    BY <2>1, <2>2, <2>3 DEF BuiltAt
<1>2. CASE worker[t].pc # "firewall"
  <2>1. w.pc \notin DeployPCs \cup {"idle"}
    BY <1>2 DEF Deletes, Moved, Stopped, Resting, DeployPCs, SubnetPCs, HostPCs
  <2>2. QED
    BY <2>1 DEF BuiltAt, DeployPCs, SubnetPCs
<1>3. QED
  BY <1>1, <1>2

LEMMA WritesBuilt ==
  ASSUME BaseInv, FindInv, NEW t \in Topologies, NEW w, Writes(t, w), Built(t)
  PROVE  BuiltAt(t, w, rows'[t], account, cut, active'[t])
<1>1. CASE worker[t].pc = "rowVpc"
  <2>1. rows[t] = {}
    BY <1>1 DEF BaseInv, Recorded, RecordedAt
  <2>2. rows'[t] = {Row("vpc", 0, Vpc(t))} /\ w.pc = "subnet"
    BY <1>1, <2>1 DEF Writes, NextTo
  <2>3. QED
    BY <2>2 DEF BuiltAt, RowsStand, Row
<1>2. CASE worker[t].pc = "rowSubnet"
  <2>1. /\ w.pc \in {"subnet", "instance"} /\ rows[t] \subseteq rows'[t]
        /\ \A r \in rows'[t] \ rows[t] :
              \/ r = Row("subnet", worker[t].at, worker[t].got["subnet"])
              \/ \E k \in {"igw", "rt"} : r = Row(k, worker[t].at, worker[t].got[k])
    BY <1>2 DEF Writes, NextTo
  <2>2. RowsStand(t, rows[t], account, cut)
    BY <1>2 DEF Built, BuiltAt, DeployPCs
  <2>3. PICK x \in account : /\ x.kind = "subnet" /\ x.id = worker[t].got["subnet"] /\ x.tagged
                             /\ x.name = SubnetName(t, worker[t].at)
    BY <1>2 DEF FindInv, Current, SubnetAlive, Ofkind, In
  <2>4. \A r \in rows'[t] \ rows[t] : r.kind # "instance" /\ (r.kind = "subnet" => SubnetStands(t, r, account))
    BY <2>1, <2>3 DEF Row, SubnetStands
  <2>5. RowsStand(t, rows'[t], account, cut)
    BY <2>1, <2>2, <2>4, RowsGrow
  <2>6. QED
    BY <2>1, <2>5 DEF BuiltAt
<1>3. CASE worker[t].pc = "rowInstance"
  <2>1. /\ w.pc \in {"instance", "firewall"} /\ rows[t] \subseteq rows'[t]
        /\ \A r \in rows'[t] \ rows[t] :
              \/ r = Row("instance", worker[t].at, worker[t].got["instance"])
              \/ r = Row("sg", 0, worker[t].got["sg"])
    BY <1>3 DEF Writes, NextTo
  <2>2. RowsStand(t, rows[t], account, cut)
        /\ HostStands(t, worker[t].at, worker[t].got["instance"], rows[t], account, cut)
    BY <1>3 DEF Built, BuiltAt, DeployPCs
  <2>3. worker[t].at \in DOMAIN Home[t]
    <3>1. worker[t].at <= Len(Home[t]) /\ worker[t].at \in Nat \ {0}
      BY <1>3, WorkerFields DEF BaseInv, Placed, PlacedAt
    <3>2. QED
      BY <3>1, PlanTypes
  <2>4. \A r \in rows'[t] \ rows[t] :
          /\ r.kind # "subnet"
          /\ r.kind = "instance" => r.at = worker[t].at /\ r.id = worker[t].got["instance"]
    BY <2>1 DEF Row
  <2>5. RowsStand(t, rows'[t], account, cut)
    BY <2>1, <2>2, <2>3, <2>4, RowsGrow
  <2>6. QED
    BY <2>1, <2>5 DEF BuiltAt
<1>4. CASE worker[t].pc = "active"
  <2>1. w = Resting /\ rows'[t] = rows[t]
    BY <1>4 DEF Writes
  <2>2. PlacedAt(t, worker[t], rows[t])
    BY WorkerFields DEF BaseInv, Placed
  <2>3. RowsStand(t, rows[t], account, cut) /\ GroupStands(rows[t], account)
    BY <1>4 DEF Built, BuiltAt, DeployPCs
  <2>4. QED
    BY <1>4, <2>1, <2>2, <2>3 DEF BuiltAt, PlacedAt, Resting, DeployPCs, SubnetPCs, HostPCs
<1>5. CASE worker[t].pc \in {"rows", "drop"}
  <2>1. w.pc = "idle" /\ active'[t] = FALSE
    BY <1>5 DEF Writes, Resting
  <2>2. QED
    BY <2>1 DEF BuiltAt, DeployPCs, SubnetPCs, HostPCs
<1>6. QED
  BY <1>1, <1>2, <1>3, <1>4, <1>5 DEF Writes

LEMMA BuiltOwn ==
  ASSUME BaseInv, FindInv, SweptInv, NEW t \in Topologies, Frame(t), Turns(t), Built(t)
  PROVE  Built(t)'
<1>1. CASE Fails(t)
  <2>1. rows' = rows /\ active' = active /\ cut \subseteq cut'
    BY <1>1 DEF Fails, Frame
  <2>2. CASE worker'[t].pc \in {"rows", "drop"}
    BY <2>2 DEF Built, BuiltAt, DeployPCs, SubnetPCs, HostPCs
  <2>3. CASE worker[t].pc \in CreatePCs /\ worker'[t].pc = Create(worker[t].pc)
    <3>1. worker'[t].pc \in {"vpc", "subnet", "instance"}
      BY <2>3 DEF Create, CreatePCs, VpcPCs, SubnetPCs, HostPCs
    <3>2. worker'[t].pc \in DeployPCs => worker[t].pc \in DeployPCs
      BY <2>3 DEF Create, CreatePCs, VpcPCs, SubnetPCs, HostPCs, DeployPCs
    <3>3. worker'[t].pc \in DeployPCs => RowsStand(t, rows[t], account', cut')
      BY <2>1, <3>2, DeployKeeps, RowsStay DEF Built, BuiltAt
    <3>4. QED
      BY <2>1, <3>1, <3>3 DEF Built, BuiltAt
  <2>4. QED
    BY <1>1, <2>2, <2>3, FailedWhere
<1>2. ASSUME NEW w, Goes(t, w), Turn(t, w) PROVE Built(t)'
  <2>1. worker'[t] = w
    BY <1>2 DEF Goes, BaseInv, ProviderTypes
  <2>2. BuiltAt(t, w, rows'[t], account', cut', active'[t])
    <3>1. CASE UNCHANGED <<account, rows, active>> /\ (Passes(t, w) \/ Gets(t, w))
      BY <1>2, <3>1, PassesBuilt, GetsBuilt DEF Turn
    <3>2. CASE Lists(t, w)
      BY <3>2 DEF Lists, BuiltAt, DeployPCs, SubnetPCs, HostPCs
    <3>3. CASE UNCHANGED <<rows, active>> /\ Creates(t, w)
      BY <1>2, <3>3, CreatesBuilt DEF Turn
    <3>4. CASE UNCHANGED <<rows, active>> /\ Deletes(t, w)
      BY <1>2, <3>4, DeletesBuilt DEF Turn
    <3>5. CASE UNCHANGED account /\ Writes(t, w)
      BY <1>2, <3>5, WritesBuilt DEF Turn
    <3>6. QED
      BY <1>2, <3>1, <3>2, <3>3, <3>4, <3>5 DEF Turn
  <2>3. QED
    BY <2>1, <2>2 DEF Built
<1>3. QED
  BY <1>1, <1>2 DEF Turns

LEMMA BuiltStep ==
  ASSUME BaseInv, BaseInv', FindInv, SweptInv, BuiltInv, NamesDiffer, NEW t \in Topologies,
         BeginDeploy(t) \/ BeginCleanup(t) \/ Step(t)
  PROVE  BuiltInv'
<1>1. Frame(t) /\ Turns(t) /\ ProviderTypes
  BY StepFrame, StepTurns DEF BaseInv
<1>2. \A y \in account' : Connected(y)'
  BY <1>1, ConnectedStep DEF BuiltInv
<1>3. Built(t)'
  BY <1>1, BuiltOwn DEF BuiltInv
<1>4. ASSUME NEW u \in Topologies \ {t} PROVE Built(u)'
  <2>1. worker'[u] = worker[u] /\ rows'[u] = rows[u]
    BY <1>1, BeginOthers DEF ProviderTypes
  <2>2. active'[u] = active[u]
    BY <1>1 DEF Turns, Fails, Turn
  <2>3. QED
    BY <1>1, <2>1, <2>2, BuiltOthers DEF BuiltInv
<1>5. QED
  BY <1>2, <1>3, <1>4 DEF BuiltInv

LEMMA BuiltOutside ==
  ASSUME BaseInv, BuiltInv, UNCHANGED <<worker, rows, active, cut>>,
         \A y \in account' : y \in account \/ Strange(y),
         \A x \in account : x \in account' \/ (x.kind = "instance" /\ ~x.up)
  PROVE  BuiltInv'
<1>1. ASSUME NEW y \in account' PROVE Connected(y)'
  <2> SUFFICES ASSUME y.kind = "subnet", y.tagged
               PROVE  y.id \in cut \/ y.vpc \in cut \/ Routed(y, account') \/ \E t \in Topologies : InWork(t, y)
    BY DEF Connected, InWork, Vpc
  <2>1. y \in account
    BY DEF Strange
  <2>2. Routed(y, account) => Routed(y, account')
    BY RoutedMore
  <2>3. QED
    BY <2>1, <2>2 DEF BuiltInv, Connected
<1>2. ASSUME NEW t \in Topologies PROVE Built(t)'
  BY BuiltKept DEF BuiltInv
<1>3. QED
  BY <1>1, <1>2 DEF BuiltInv

\* What a deploy has recorded stands, up to where it is, and a subnet that nobody works on has a
\* route to a gateway; an error can only have cut it off.
THEOREM AwsBuiltInvariant == NamesDiffer => (Spec => []BuiltInv)
<1> SUFFICES ASSUME NamesDiffer PROVE Spec => []BuiltInv
  OBVIOUS
<1>1. Init => BuiltInv
  <2> SUFFICES ASSUME Init PROVE BuiltInv
    OBVIOUS
  <2>1. account = {} /\ \A t \in Topologies : worker[t].pc = "idle" /\ ~active[t]
    BY DEF Init, Resting
  <2>2. QED
    BY <2>1 DEF BuiltInv, Built, BuiltAt, DeployPCs, SubnetPCs, HostPCs
<1>2. BaseInv /\ BaseInv' /\ FindInv /\ SweptInv /\ BuiltInv /\ [Next]_vars => BuiltInv'
  <2> SUFFICES ASSUME BaseInv, BaseInv', FindInv, SweptInv, BuiltInv, [Next]_vars PROVE BuiltInv'
    OBVIOUS
  <2>1. CASE \E t \in Topologies : BeginDeploy(t) \/ BeginCleanup(t) \/ Step(t)
    BY <2>1, BuiltStep
  <2>2. CASE Terminated \/ Stranger \/ UNCHANGED vars
    BY <2>2, OutsideAccount, BuiltOutside DEF BaseInv
  <2>3. QED
    BY <2>1, <2>2 DEF Next
<1>3. Apart
  BY DEF Apart
<1>4. (Spec => []FindInv) /\ (Spec => []SweptInv)
  BY <1>3, AwsFindInvariant, AwsSweptInvariant
<1>5. QED
  BY <1>1, <1>2, <1>4, AwsBaseInvariant, PTL DEF Spec

LEMMA SubnetWhole ==
  ASSUME BaseInv, FindInv, BuiltInv, NamesDiffer, NEW t \in Topologies, active[t], At(t, "idle"),
         NEW n \in 1..Segments[t]
  PROVE  \E r \in rows[t], x \in account :
            /\ r = Row("subnet", n, x.id) /\ x.name = SubnetName(t, n)
            /\ \/ {x.id, x.vpc} \cap cut # {}
               \/ /\ \E y \in Ofkind(x.vpc, "rt") : y.tagged /\ y.of = x.id
                  /\ Ofkind(x.vpc, "igw") # {}
<1>1. RowsStand(t, rows[t], account, cut) /\ \E r \in rows[t] : r.kind = "subnet" /\ r.at = n
  BY DEF BuiltInv, Built, BuiltAt, At
<1>2. PICK r \in rows[t] : r.kind = "subnet" /\ r.at = n
  BY <1>1
<1>3. PICK x \in account : x.id = r.id /\ x.kind = "subnet" /\ x.tagged /\ x.name = SubnetName(t, n)
  BY <1>1, <1>2 DEF RowsStand, SubnetStands
<1>4. r = Row("subnet", n, x.id)
  BY <1>2, <1>3, WorkerFields DEF BaseInv, Rows, Row
<1>5. CASE Routed(x, account)
  <2>1. \E y \in Ofkind(x.vpc, "rt") : y.tagged /\ y.of = x.id
    BY <1>5 DEF Routed, Ofkind, In
  <2>2. Ofkind(x.vpc, "igw") # {}
    BY <1>5 DEF Routed, Ofkind, In
  <2>3. QED
    BY <1>3, <1>4, <2>1, <2>2
<1>6. ASSUME NEW u \in Topologies, InWork(u, x) PROVE FALSE
  <2>1. x.vpc = Vpc(u) /\ worker[u].pc \in LivePCs
    BY <1>3, <1>6
    DEF InWork, BaseInv, Known, KnownAt, Kinds, Vpc, LivePCs, DeployPCs, SubnetPCs, TeardownPCs
  <2>2. PICK v \in rows[t] : v.kind = "vpc"
    BY <1>2 DEF BaseInv, Recorded, RecordedAt
  <2>3. x.vpc = v.id
    BY <1>2, <1>3, <2>2 DEF BaseInv, Recorded, RecordedAt
  <2>4. u = t
    BY <2>1, <2>2, <2>3, OwnedVpc
  <2>5. QED
    BY <2>1, <2>4 DEF At, LivePCs, DeployPCs, SubnetPCs, HostPCs, TeardownPCs, TornPCs
<1>7. CASE x.id \in cut \/ x.vpc \in cut
  BY <1>3, <1>4, <1>7
<1>8. QED
  BY <1>3, <1>5, <1>6, <1>7 DEF BuiltInv, Connected

\* An ACTIVE topology has at AWS what its rows say, each subnet with its route, each host with an instance
\* on its subnet, and a group with the rules, whatever calls have failed, been retried or been
\* done halfway, and whatever others do, except where an error has cut something off.
THEOREM AwsDeployedIsWhole == NamesDiffer => (Spec => []DeployedIsWhole)
<1> SUFFICES ASSUME NamesDiffer PROVE Spec => []DeployedIsWhole
  OBVIOUS
<1>1. BaseInv /\ FindInv /\ BuiltInv => DeployedIsWhole
  <2> SUFFICES ASSUME BaseInv, FindInv, BuiltInv, NEW t \in Topologies, active[t], At(t, "idle")
               PROVE  /\ \A n \in 1..Segments[t] : \E r \in rows[t], x \in account :
                           /\ r = Row("subnet", n, x.id) /\ x.name = SubnetName(t, n)
                           /\ \/ {x.id, x.vpc} \cap cut # {}
                              \/ /\ \E y \in Ofkind(x.vpc, "rt") : y.tagged /\ y.of = x.id
                                 /\ Ofkind(x.vpc, "igw") # {}
                      /\ \A n \in DOMAIN Home[t] : \E r, s \in rows[t] :
                           /\ r.kind = "instance" /\ r.at = n /\ s.kind = "subnet" /\ s.at = Home[t][n]
                           /\ \/ \E x \in With(r.id) : x.up /\ x.of = s.id /\ x.name = HostName(n)
                              \/ \E v \in rows[t] : v.kind = "vpc" /\ v.id \in cut
                      /\ \E r \in rows[t], x \in account : r = Row("sg", 0, x.id) /\ x.up
    BY DEF DeployedIsWhole
  <2>1. /\ RowsStand(t, rows[t], account, cut) /\ GroupStands(rows[t], account)
        /\ \A n \in DOMAIN Home[t] : \E r \in rows[t] : r.kind = "instance" /\ r.at = n
    BY DEF BuiltInv, Built, BuiltAt, At
  <2>2. ASSUME NEW n \in DOMAIN Home[t]
        PROVE  \E r, s \in rows[t] :
                 /\ r.kind = "instance" /\ r.at = n /\ s.kind = "subnet" /\ s.at = Home[t][n]
                 /\ \/ \E x \in With(r.id) : x.up /\ x.of = s.id /\ x.name = HostName(n)
                    \/ \E v \in rows[t] : v.kind = "vpc" /\ v.id \in cut
    <3>1. PICK r \in rows[t] : r.kind = "instance" /\ r.at = n
      BY <2>1
    <3>2. HostStands(t, n, r.id, rows[t], account, cut)
      BY <2>1, <3>1 DEF RowsStand
    <3>3. QED
      BY <3>1, <3>2 DEF HostStands, With
  <2>3. \E r \in rows[t], x \in account : r = Row("sg", 0, x.id) /\ x.up
    BY <2>1 DEF GroupStands
  <2>4. QED
    BY <2>2, <2>3, SubnetWhole
<1>2. Apart
  BY DEF Apart
<1>3. (Spec => []FindInv) /\ (Spec => []BuiltInv)
  BY <1>2, AwsFindInvariant, AwsBuiltInvariant
<1>4. QED
  BY <1>1, <1>3, AwsBaseInvariant, PTL
=============================================================================
