------------------------- MODULE AlgorithmsProofs -------------------------
(***************************************************************************)
(* What is computed of every topology, every list of latencies and every   *)
(* list of requirements, whatever their number and size: which topologies  *)
(* are accepted, the warnings about hosts on several links, the rows a     *)
(* plan announces, the 95th percentile and the verdict on requirements.    *)
(***************************************************************************)
EXTENDS Algorithms, CycleSearchProofs

-----------------------------------------------------------------------------
(* The results a task can have *)

RingFree(links) == \A S \in SUBSET Joining(links) : ~Ring(links, S)

Accepted(t) ==
    Parses(t) /\ RingFree(t.links) /\ GoodRules(t)

\* A topology is searched, is rejected, or has a plan, which is refused, is deployed or fails.
Compiled(t, p) ==
    /\ task = <<"compile", t, p>>
    /\ \/ result = <<>> /\ Idle
       \/ result = <<"search">> /\ Parses(t) /\ SearchInv(t.links)
       \/ result = <<"error">> /\ ~Accepted(t)
       \/ /\ result \in {<<"plan", Plan(t)>>, <<"refused", Plan(t)>>, <<"failed", Plan(t)>>}
          /\ Accepted(t)
       \/ /\ result = <<"deployed", Plan(t), DeployRows(p, Plan(t)),
                        [h \in HostsOf(Plan(t)) |-> HomeOf(Plan(t), h)]>>
          /\ Deployable(p, Plan(t)) /\ Accepted(t)

Summarised(l) ==
    /\ task = <<"summarise", l>>
    /\ result \in {<<>>, <<"p95", P95(l)>>}

JudgedBy(s, m) ==
    /\ task = <<"judge", s, m>>
    /\ result \in {<<>>, <<"verdict", Met(s, m)>>}

AlgInv ==
    \/ \E t \in Topologies, p \in Providers : Compiled(t, p)
    \/ \E l \in Latencies : Summarised(l)
    \/ \E s \in Thresholds, m \in Measurements : JudgedBy(s, m)

LEMMA LinksAreListed ==
    ASSUME NEW t \in Topologies, Parses(t)
    PROVE  Listed(t.links)
BY TopologiesAssumption DEF Listed, Parses

\* A topology whose search is under way.
LEMMA UnderSearch ==
    ASSUME AlgInv, result = <<"search">>
    PROVE  \E t \in Topologies, p \in Providers :
             task = <<"compile", t, p>> /\ Parses(t) /\ SearchInv(t.links) /\ Listed(t.links)
<1>1. PICK t \in Topologies, p \in Providers :
        task = <<"compile", t, p>> /\ Parses(t) /\ SearchInv(t.links)
  BY DEF AlgInv, Compiled, Summarised, JudgedBy
<1>2. QED
  BY <1>1, LinksAreListed

LEMMA SearchInvKept ==
    ASSUME visited' = visited, stack' = stack
    PROVE  \A links : SearchInv(links)' <=> SearchInv(links)
BY DEF SearchInv, PathInv, ReachInv, TwinInv, NoRingInv, Known, Followed

\* A result is always the one its task calls for: the search keeps its invariant, what it
\* rejects has a ring and what it lets pass has none, and each later step of Algorithms
\* computes from the task it was given and from the plan of that task.
THEOREM AlgInvariant == Spec => []AlgInv
<1>1. Init => AlgInv
  BY DEF Init, AlgInv, Compiled, Summarised, JudgedBy
<1>2. AlgInv /\ [Next]_vars => AlgInv'
  <2> SUFFICES ASSUME AlgInv, [Next]_vars PROVE AlgInv'
    OBVIOUS
  <2>1. CASE Parse
    <3>1. PICK t \in Topologies, p \in Providers : task = <<"compile", t, p>> /\ Idle
      BY <2>1 DEF Parse, AlgInv, Compiled, Summarised, JudgedBy
    <3>2. task' = task /\ result' = IF Parses(t) THEN <<"search">> ELSE <<"error">>
      BY <2>1, <3>1 DEF Parse
    <3>3. visited' = visited /\ stack' = stack
      BY <2>1 DEF Parse, search
    <3>4. SearchInv(t.links)
      BY <3>1, SearchBegins
    <3>5. SearchInv(t.links)'
      <4>1. SearchInv(t.links)' <=> SearchInv(t.links)
        BY <3>3, SearchInvKept
      <4>2. QED
        BY <3>4, <4>1
    <3>6. ~Parses(t) => ~Accepted(t)
      BY DEF Accepted
    <3>7. Compiled(t, p)'
      BY <3>1, <3>2, <3>5, <3>6 DEF Compiled
    <3>8. QED
      BY <3>7 DEF AlgInv
  <2>2. CASE Search
    <3>1. PICK t \in Topologies, p \in Providers :
            task = <<"compile", t, p>> /\ Parses(t) /\ SearchInv(t.links) /\ Listed(t.links)
      BY <2>2, UnderSearch DEF Search
    <3>2. Step(t.links) /\ task' = task /\ result' = <<"search">>
      BY <2>2, <3>1 DEF Search
    <3>3. SearchInv(t.links)'
      BY <3>1, <3>2, SearchGoesOn
    <3>4. Compiled(t, p)'
      BY <3>1, <3>2, <3>3 DEF Compiled
    <3>5. QED
      BY <3>4 DEF AlgInv
  <2>3. CASE Reject
    <3>1. PICK t \in Topologies, p \in Providers :
            task = <<"compile", t, p>> /\ Parses(t) /\ SearchInv(t.links) /\ Listed(t.links)
      BY <2>3, UnderSearch DEF Reject
    <3>2. Closing(t.links) /\ task' = task /\ result' = <<"error">>
      BY <2>3, <3>1 DEF Reject
    <3>3. ~Accepted(t)
      BY <3>1, <3>2, ClosingARing DEF Accepted, RingFree
    <3>4. Compiled(t, p)'
      BY <3>1, <3>2, <3>3 DEF Compiled
    <3>5. QED
      BY <3>4 DEF AlgInv
  <2>4. CASE Compile
    <3>1. PICK t \in Topologies, p \in Providers :
            task = <<"compile", t, p>> /\ Parses(t) /\ SearchInv(t.links) /\ Listed(t.links)
      BY <2>4, UnderSearch DEF Compile
    <3>2. /\ Searched(t.links) /\ task' = task
          /\ result' = IF GoodRules(t) THEN <<"plan", Plan(t)>> ELSE <<"error">>
      BY <2>4, <3>1 DEF Compile
    <3>3. RingFree(t.links)
      BY <3>1, <3>2, SearchedWithoutRing DEF RingFree
    <3>4. Accepted(t) <=> GoodRules(t)
      BY <3>1, <3>3 DEF Accepted
    <3>5. Compiled(t, p)'
      BY <3>1, <3>2, <3>4 DEF Compiled
    <3>6. QED
      BY <3>5 DEF AlgInv
  <2>5. CASE Deploy
    <3>1. PICK t \in Topologies, p \in Providers :
            task = <<"compile", t, p>> /\ result = <<"plan", Plan(t)>> /\ Accepted(t)
      BY <2>5 DEF Deploy, Done, AlgInv, Compiled, Summarised, JudgedBy
    <3>2. Compiled(t, p)'
      BY <2>5, <3>1 DEF Deploy, Compiled
    <3>3. QED
      BY <3>2 DEF AlgInv
  <2>6. CASE Summarise
    <3>1. PICK l \in Latencies : task = <<"summarise", l>>
      BY <2>6 DEF Summarise, AlgInv, Compiled, Summarised, JudgedBy
    <3>2. Summarised(l)'
      BY <2>6, <3>1 DEF Summarise, Summarised
    <3>3. QED
      BY <3>2 DEF AlgInv
  <2>7. CASE Judge
    <3>1. PICK s \in Thresholds, m \in Measurements : task = <<"judge", s, m>>
      BY <2>7 DEF Judge, AlgInv, Compiled, Summarised, JudgedBy
    <3>2. JudgedBy(s, m)'
      BY <2>7, <3>1 DEF Judge, JudgedBy
    <3>3. QED
      BY <3>2 DEF AlgInv
  <2>8. CASE UNCHANGED vars
    <3>1. task' = task /\ result' = result /\ visited' = visited /\ stack' = stack
      BY <2>8 DEF vars
    <3>2. \A links : SearchInv(links)' <=> SearchInv(links)
      BY <3>1, SearchInvKept
    <3>3. Idle' <=> Idle
      BY <3>1 DEF Idle
    <3>4. ASSUME NEW t \in Topologies, NEW p \in Providers, Compiled(t, p) PROVE Compiled(t, p)'
      BY <3>1, <3>2, <3>3, <3>4 DEF Compiled
    <3>5. QED
      BY <3>1, <3>4 DEF AlgInv, Summarised, JudgedBy
  <2>9. CASE Refuse
    <3>1. PICK t \in Topologies, p \in Providers :
            task = <<"compile", t, p>> /\ result = <<"plan", Plan(t)>> /\ Accepted(t)
      BY <2>9 DEF Refuse, Done, AlgInv, Compiled, Summarised, JudgedBy
    <3>2. Compiled(t, p)'
      BY <2>9, <3>1 DEF Refuse, Compiled
    <3>3. QED
      BY <3>2 DEF AlgInv
  <2>10. QED
    BY <2>1, <2>2, <2>3, <2>4, <2>5, <2>6, <2>7, <2>8, <2>9 DEF Next
<1>3. QED
  BY <1>1, <1>2, PTL DEF Spec

LEMMA Verdicts ==
    ASSUME AlgInv, Done("verdict")
    PROVE  \E s \in Thresholds, m \in Measurements :
               task = <<"judge", s, m>> /\ result = <<"verdict", Met(s, m)>>
BY DEF AlgInv, Done, Compiled, Summarised, JudgedBy

LEMMA Deployments ==
    ASSUME AlgInv, Done("deployed")
    PROVE  \E t \in Topologies, p \in Providers :
             /\ task = <<"compile", t, p>>
             /\ result = <<"deployed", Plan(t), DeployRows(p, Plan(t)),
                           [h \in HostsOf(Plan(t)) |-> HomeOf(Plan(t), h)]>>
             /\ Deployable(p, Plan(t))
BY DEF AlgInv, Done, Compiled, Summarised, JudgedBy

-----------------------------------------------------------------------------
(* Requirements *)

\* The verdict on four thresholds is the conjunction of the verdicts on each alone.
LEMMA MetByEach ==
    ASSUME NEW spec, DOMAIN spec = {"rate", "avg", "p95", "recovery"}, NEW m
    PROVE  LET Only(k) == [j \in DOMAIN spec |-> IF j = k THEN spec[j] ELSE {}]
           IN  Met(spec, m) <=> \A k \in DOMAIN spec : Met(Only(k), m)
<1> DEFINE Only(k) == [j \in DOMAIN spec |-> IF j = k THEN spec[j] ELSE {}]
<1>1. Met(Only("rate"), m) <=> Availability(spec.rate, m)
  BY DEF Met, Availability, Latency, Recovery, Within
<1>2. Met(Only("avg"), m) <=> Within(spec.avg, m.avg)
  BY DEF Met, Availability, Latency, Recovery, Within
<1>3. Met(Only("p95"), m) <=> Within(spec.p95, m.p95)
  BY DEF Met, Availability, Latency, Recovery, Within
<1>4. Met(Only("recovery"), m) <=> Within(spec.recovery, m.recovery)
  BY DEF Met, Availability, Latency, Recovery, Within
<1>5. Met(spec, m) <=> /\ Availability(spec.rate, m) /\ Within(spec.avg, m.avg)
                       /\ Within(spec.p95, m.p95) /\ Within(spec.recovery, m.recovery)
  BY DEF Met, Latency, Recovery
<1> HIDE DEF Only
<1>6. (\A k \in DOMAIN spec : Met(Only(k), m)) <=>
         /\ Met(Only("rate"), m) /\ Met(Only("avg"), m)
         /\ Met(Only("p95"), m) /\ Met(Only("recovery"), m)
  OBVIOUS
<1>7. Met(spec, m) <=> \A k \in DOMAIN spec : Met(Only(k), m)
  BY <1>1, <1>2, <1>3, <1>4, <1>5, <1>6
<1>8. QED
  BY <1>7 DEF Only

\* No threshold hides another: the requirements of a scenario are met exactly when each would
\* be met alone, whatever the measurements (evaluate_requirements).
THEOREM ThresholdsIndependent == Spec => []ThresholdsAreIndependent
<1>1. AlgInv => ThresholdsAreIndependent
  <2> SUFFICES ASSUME AlgInv, Done("verdict") PROVE ThresholdsAreIndependent
    BY DEF ThresholdsAreIndependent
  <2>1. PICK s \in Thresholds, m \in Measurements :
          task = <<"judge", s, m>> /\ result = <<"verdict", Met(s, m)>>
    BY Verdicts
  <2>2. task[2] = s /\ task[3] = m /\ (result[2] <=> Met(s, m))
    BY <2>1
  <2>3. LET Only(k) == [j \in DOMAIN s |-> IF j = k THEN s[j] ELSE {}]
        IN  Met(s, m) <=> \A k \in DOMAIN s : Met(Only(k), m)
    BY MetByEach, ThresholdsAssumption
  <2>4. QED
    BY <2>2, <2>3, Zenon DEF ThresholdsAreIndependent
<1>2. QED
  BY <1>1, AlgInvariant, PTL

-----------------------------------------------------------------------------
(* Rows *)

LEMMA UpToIsFinite ==
    ASSUME NEW n \in Nat
    PROVE  IsFiniteSet(1..n) /\ Cardinality(1..n) = n
<1>1. 1 \in Int /\ n \in Int /\ (IF 1 > n THEN 0 ELSE n - 1 + 1) = n
  OBVIOUS
<1>2. QED
  BY <1>1, FS_Interval

LEMMA NetworksOfPlan ==
    ASSUME NEW t \in Topologies
    PROVE  /\ DOMAIN Plan(t).networks = 1..Len(t.links) /\ Len(t.links) \in Nat
           /\ Plan(t).networks # <<>> => 1 \in DOMAIN Plan(t).networks
<1>1. DOMAIN Plan(t).networks = 1..Len(t.links) /\ Len(t.links) \in Nat
  BY TopologiesAssumption DEF Plan
<1>2. ASSUME Len(t.links) = 0 PROVE Plan(t).networks = <<>>
  BY <1>1, <1>2 DEF Plan
<1>3. QED
  BY <1>1, <1>2

\* What a deploy records was announced, and what was announced in vain is a gateway or a
\* group on AWS.
LEMMA ExpectedCoverRows ==
    ASSUME NEW t \in Topologies, NEW p, Deployable(p, Plan(t))
    PROVE  LET expected == ExpectedRows(p, Plan(t))
               rows == DeployRows(p, Plan(t))
           IN  /\ rows \subseteq expected
               /\ \A r \in expected \ rows :
                    p = "aws" /\ r[1] \in {"internet_gateway", "security_group"}
<1> DEFINE plan == Plan(t)
           expected == ExpectedRows(p, plan)
           rows == DeployRows(p, plan)
<1>1. CASE p # "aws"
  <2>1. expected = rows
    BY <1>1 DEF ExpectedRows, DeployRows
  <2>2. QED
    BY <2>1
<1>2. CASE p = "aws"
  <2> DEFINE hosts == {<<"instance", h>> : h \in HostsOf(plan)}
             tables == Each(plan, {"subnet", "route_table", "route_table_association"})
             gateways == Each(plan, {"internet_gateway"})
  <2>1. 1 \in DOMAIN plan.networks
    BY <1>2, NetworksOfPlan DEF Deployable
  <2>2. rows = hosts \cup {<<"VPC", 1>>, <<"internet_gateway", 1>>} \cup tables
                 \cup {<<"security_group", 0>> : h \in HostsOf(plan)}
    BY <1>2 DEF DeployRows
  <2>3. expected = hosts \cup {<<"VPC", 1>> : i \in DOMAIN plan.networks}
                     \cup {<<"security_group", 0>>} \cup tables \cup gateways
    BY <1>2 DEF ExpectedRows, Each
  <2>4. <<"internet_gateway", 1>> \in gateways
    BY <2>1 DEF Each
  <2>5. {<<"VPC", 1>> : i \in DOMAIN plan.networks} = {<<"VPC", 1>>}
    BY <2>1
  <2>6. \A r \in gateways : r[1] = "internet_gateway"
    BY DEF Each
  <2> HIDE DEF hosts, tables, gateways, plan, expected, rows
  <2>7. rows \subseteq expected
    BY <2>2, <2>3, <2>4, <2>5
  <2>8. \A r \in expected \ rows : r = <<"security_group", 0>> \/ r \in gateways
    BY <2>2, <2>3, <2>5
  <2>9. QED
    BY <1>2, <2>6, <2>7, <2>8 DEF expected, rows, plan
<1>3. QED
  BY <1>1, <1>2

\* `cloudnet plan` announces every row that a deploy records, for topologies of any size, so
\* it never offers to delete what is in use (_expected_idempotency_plan_rows).
THEOREM PlansCoverDeploys == Spec => []PlanCoversDeploy
<1>1. AlgInv => PlanCoversDeploy
  <2> SUFFICES ASSUME AlgInv, Done("deployed") PROVE PlanCoversDeploy
    BY DEF PlanCoversDeploy
  <2>1. PICK t \in Topologies, p \in Providers :
             /\ task = <<"compile", t, p>>
             /\ result = <<"deployed", Plan(t), DeployRows(p, Plan(t)),
                           [h \in HostsOf(Plan(t)) |-> HomeOf(Plan(t), h)]>>
             /\ Deployable(p, Plan(t))
    BY Deployments
  <2>2. task[3] = p /\ result[2] = Plan(t) /\ result[3] = DeployRows(p, Plan(t))
    BY <2>1
  <2>3. QED
    BY <2>1, <2>2, ExpectedCoverRows, Zenon DEF PlanCoversDeploy
<1>2. QED
  BY <1>1, AlgInvariant, PTL

-----------------------------------------------------------------------------
(* Warnings *)

\* The ends of networks at which a host is.
Mentioned(plan, h) ==
    {m \in (DOMAIN plan.networks) \X {1, 2} : plan.networks[m[1]][m[2]] = h}

LEMMA MentionsAreFinite ==
    ASSUME NEW t \in Topologies, NEW h
    PROVE  IsFiniteSet(Mentioned(Plan(t), h))
<1>1. IsFiniteSet(DOMAIN Plan(t).networks)
  <2>1. DOMAIN Plan(t).networks = 1..Len(t.links) /\ Len(t.links) \in Nat
    BY NetworksOfPlan
  <2>2. IsFiniteSet(1..Len(t.links))
    BY <2>1, UpToIsFinite
  <2>3. QED
    BY <2>1, <2>2
<1>2. IsFiniteSet({1, 2})
  <2>1. IsFiniteSet({1})
    BY FS_Singleton
  <2>2. {1, 2} = {1} \cup {2}
    OBVIOUS
  <2>3. QED
    BY <2>1, <2>2, FS_AddElement
<1>3. IsFiniteSet((DOMAIN Plan(t).networks) \X {1, 2})
  BY <1>1, <1>2, FS_Product
<1>4. QED
  BY <1>3, FS_Subset DEF Mentioned

\* A host is mentioned once when it is on one network, at one end of it; it is mentioned
\* twice when it is on two.
LEMMA MentionedOnce ==
    ASSUME NEW t \in Topologies, NEW h,
           AttachedTo(Plan(t), h) # {},
           \A i \in AttachedTo(Plan(t), h) : i \in Joining(t.links)
    PROVE  Mentions(Plan(t), h) > 1 <=> \A i : AttachedTo(Plan(t), h) # {i}
<1> DEFINE networks == Plan(t).networks
           M == Mentioned(Plan(t), h)
<1>1. Cardinality(M) \in Nat /\ Mentions(Plan(t), h) = Cardinality(M) /\ IsFiniteSet(M)
  BY MentionsAreFinite, FS_CardinalityType DEF Mentions, Mentioned
<1>2. \A i \in DOMAIN networks :
        /\ DOMAIN networks[i] = {1, 2}
        /\ i \in Joining(t.links) => networks[i][1] # networks[i][2]
  BY DEF Plan, Joining
<1>3. \A i : i \in AttachedTo(Plan(t), h) <=> \E k \in {1, 2} : <<i, k>> \in M
  BY <1>2 DEF AttachedTo, Range, Mentioned
<1>4. \A m \in M : m = <<m[1], m[2]>> /\ m[1] \in DOMAIN networks /\ m[2] \in {1, 2}
                   /\ networks[m[1]][m[2]] = h
  BY DEF Mentioned
<1>5. ASSUME NEW i, AttachedTo(Plan(t), h) = {i} PROVE Cardinality(M) = 1
  <2>1. PICK k \in {1, 2} : <<i, k>> \in M
    BY <1>3, <1>5
  <2>2. ASSUME NEW m \in M PROVE m = <<i, k>>
    <3>1. m[1] = i
      <4>1. <<m[1], m[2]>> \in M /\ m[2] \in {1, 2}
        BY <1>4
      <4>2. m[1] \in AttachedTo(Plan(t), h)
        BY <1>3, <4>1
      <4>3. QED
        BY <1>5, <4>2
    <3>2. i \in Joining(t.links) /\ i \in DOMAIN networks /\ networks[i][m[2]] = h /\ networks[i][k] = h
      BY <1>4, <1>5, <2>1, <3>1
    <3>3. m[2] = k
      BY <1>2, <1>4, <3>2
    <3>4. QED
      BY <1>4, <3>1, <3>3
  <2>3. M = {<<i, k>>}
    BY <2>1, <2>2
  <2>4. QED
    BY <2>3, FS_Singleton
<1>6. ASSUME \A i : AttachedTo(Plan(t), h) # {i} PROVE Cardinality(M) > 1
  <2>1. PICK i, j : i \in AttachedTo(Plan(t), h) /\ j \in AttachedTo(Plan(t), h) /\ i # j
    BY <1>6
  <2>2. PICK k, l : <<i, k>> \in M /\ <<j, l>> \in M
    BY <1>3, <2>1
  <2>3. ~\E x : M = {x}
    BY <2>1, <2>2
  <2>4. Cardinality(M) # 1
    BY <1>1, <2>3, FS_Singleton
  <2>5. Cardinality(M) # 0
    BY <1>1, <2>2, FS_EmptySet
  <2>6. QED
    BY <1>1, <2>4, <2>5
<1>7. QED
  BY <1>1, <1>5, <1>6

\* A host of a deployed topology is warned about exactly when it is on a network its server
\* is not on, for topologies of any size; links of a host to itself are left out
\* (multi_homed_warnings, _network_id_for_node).
THEOREM WarningsAreRight == Spec => []WarnedAreSplit
<1>1. AlgInv => WarnedAreSplit
  <2> SUFFICES ASSUME AlgInv, Done("deployed") PROVE WarnedAreSplit
    BY DEF WarnedAreSplit
  <2>1. PICK t \in Topologies, p \in Providers :
             /\ task = <<"compile", t, p>>
             /\ result = <<"deployed", Plan(t), DeployRows(p, Plan(t)),
                           [h \in HostsOf(Plan(t)) |-> HomeOf(Plan(t), h)]>>
             /\ Deployable(p, Plan(t))
    BY Deployments
  <2>2. /\ task[2] = t /\ result[2] = Plan(t)
        /\ result[4] = [h \in HostsOf(Plan(t)) |-> HomeOf(Plan(t), h)]
    BY <2>1
  <2>3. ASSUME NEW h \in HostsOf(Plan(t)),
               \A i \in AttachedTo(Plan(t), h) : i \in Joining(t.links)
        PROVE  h \in Warned(Plan(t)) <=> AttachedTo(Plan(t), h) # {HomeOf(Plan(t), h)}
    <3>1. AttachedTo(Plan(t), h) # {}
      BY <2>1 DEF Deployable
    <3>2. h \in Warned(Plan(t)) <=> \A i : AttachedTo(Plan(t), h) # {i}
      BY <2>3, <3>1, MentionedOnce DEF Warned
    <3>3. ASSUME NEW i, AttachedTo(Plan(t), h) = {i} PROVE HomeOf(Plan(t), h) = i
      <4>1. i \in Nat
        BY <3>3, NetworksOfPlan DEF AttachedTo
      <4>2. QED
        BY <3>3, <4>1 DEF HomeOf
    <3>4. QED
      BY <3>2, <3>3
  <2>4. QED
    BY <2>2, <2>3 DEF WarnedAreSplit
<1>2. QED
  BY <1>1, AlgInvariant, PTL

-----------------------------------------------------------------------------
(* Acceptance *)

LEMMA PrefixElements ==
    ASSUME NEW s \in Seq({0, 1}), NEW u \in Seq({0, 1})
    PROVE  IsPrefix(s, u) <=> Len(s) <= Len(u) /\ \A k \in 1..Len(s) : s[k] = u[k]
<1>1. SubSeq(s, 1, Len(s)) = [k \in 1..Len(s) |-> s[k]]
  OBVIOUS
<1>2. ASSUME Len(s) <= Len(u)
      PROVE  SubSeq(u, 1, Len(s)) = [k \in 1..Len(s) |-> u[k]]
  BY <1>2
<1>3. ([k \in 1..Len(s) |-> s[k]] = [k \in 1..Len(s) |-> u[k]]) <=> \A k \in 1..Len(s) : s[k] = u[k]
  OBVIOUS
<1>4. QED
  BY <1>1, <1>2, <1>3 DEF IsPrefix

\* CIDR blocks overlap exactly when they have an address in common.
LEMMA OverlapIsSharing ==
    ASSUME NEW t \in Topologies, NEW i \in DOMAIN t.links, NEW j \in DOMAIN t.links
    PROVE  Overlap(t.links[i].net, t.links[j].net) <=> Shares(t.links[i].net, t.links[j].net)
<1> DEFINE s == t.links[i].net.bits
           u == t.links[j].net.bits
<1>1. /\ s \in Seq({0, 1}) /\ Len(s) <= Width /\ u \in Seq({0, 1}) /\ Len(u) <= Width /\ Width \in Nat
  BY SubnetsAssumption
<1> HIDE DEF s, u
<1>2. \A a \in Addresses : a \in Seq({0, 1}) /\ Len(a) = Width
  BY <1>1 DEF Addresses
\* An address of the longer block.
<1>3. ASSUME NEW v \in Seq({0, 1}), Len(v) <= Width
      PROVE  \E a \in Addresses : \A k \in 1..Len(v) : a[k] = v[k]
  <2> DEFINE a == [k \in 1..Width |-> IF k <= Len(v) THEN v[k] ELSE 0]
  <2>1. a \in Addresses
    BY <1>1, <1>3 DEF Addresses
  <2>2. \A k \in 1..Len(v) : a[k] = v[k]
    BY <1>1, <1>3
  <2>3. QED
    BY <2>1, <2>2
<1>4. ASSUME NEW v \in Seq({0, 1}), NEW w \in Seq({0, 1}), Len(v) <= Width, Len(w) <= Width, IsPrefix(v, w)
      PROVE  \E a \in Addresses : IsPrefix(v, a) /\ IsPrefix(w, a)
  <2>1. PICK a \in Addresses : \A k \in 1..Len(w) : a[k] = w[k]
    BY <1>3, <1>4
  <2>2. a \in Seq({0, 1}) /\ Len(a) = Width
    BY <1>2
  <2>3. Len(v) \in Nat /\ Len(w) \in Nat /\ Len(v) <= Len(w) /\ \A k \in 1..Len(v) : v[k] = w[k]
    BY <1>4, PrefixElements
  <2>4. \A k \in 1..Len(v) : v[k] = a[k]
    BY <2>1, <2>3
  <2>5. \A k \in 1..Len(w) : w[k] = a[k]
    BY <2>1
  <2>6. IsPrefix(v, a)
    BY <1>4, <2>2, <2>4, PrefixElements
  <2>7. IsPrefix(w, a)
    BY <1>4, <2>2, <2>5, PrefixElements
  <2>8. QED
    BY <2>6, <2>7
<1>5. ASSUME NEW a \in Addresses, IsPrefix(s, a), IsPrefix(u, a)
      PROVE  IsPrefix(s, u) \/ IsPrefix(u, s)
  <2>1. /\ Len(s) \in Nat /\ Len(u) \in Nat
        /\ \A k \in 1..Len(s) : s[k] = a[k]
        /\ \A k \in 1..Len(u) : u[k] = a[k]
    BY <1>1, <1>2, <1>5, PrefixElements
  <2>2. CASE Len(s) <= Len(u)
    <3>1. \A k \in 1..Len(s) : s[k] = u[k]
      BY <2>1, <2>2
    <3>2. QED
      BY <1>1, <2>2, <3>1, PrefixElements
  <2>3. CASE Len(u) <= Len(s)
    <3>1. \A k \in 1..Len(u) : u[k] = s[k]
      BY <2>1, <2>3
    <3>2. QED
      BY <1>1, <2>3, <3>1, PrefixElements
  <2>4. QED
    BY <2>1, <2>2, <2>3
<1>6. (IsPrefix(s, u) \/ IsPrefix(u, s)) <=> \E a \in Addresses : IsPrefix(s, a) /\ IsPrefix(u, a)
  BY <1>1, <1>4, <1>5
<1>7. QED
  BY <1>6 DEF Overlap, Shares, s, u

\* What is accepted, in the words of CompilesPaths.
LEMMA AcceptedPaths ==
    ASSUME NEW t \in Topologies
    PROVE  Accepted(t) <=>
             /\ GoodNodes(t.nodes) /\ GoodLinks(t) /\ GoodRules(t)
             /\ \A i, j \in DOMAIN t.links : i # j => ~Shares(t.links[i].net, t.links[j].net)
             /\ \A n \in Names(t.nodes) : Cardinality(Meets(t.links, n)) <= 2
             /\ \A S \in SUBSET Joining(t.links) : ~Ring(t.links, S)
<1> DEFINE links == t.links
<1>1. Len(links) \in Nat /\ DOMAIN links = 1..Len(links)
  BY TopologiesAssumption
<1>2. ~Overlapping(links) <=> \A i, j \in DOMAIN links : i # j => ~Shares(links[i].net, links[j].net)
  <2>1. ASSUME NEW i \in DOMAIN links, NEW j \in DOMAIN links
        PROVE  /\ Overlap(links[i].net, links[j].net) <=> Shares(links[i].net, links[j].net)
               /\ Shares(links[i].net, links[j].net) <=> Shares(links[j].net, links[i].net)
    BY OverlapIsSharing DEF Shares
  <2>2. \A i, j \in DOMAIN links : i # j <=> i < j \/ j < i
    BY <1>1
  <2>3. QED
    BY <2>1, <2>2 DEF Overlapping
<1>3. \A n : Cardinality(Meets(links, n)) \in Nat
  BY <1>1, MeetsAreFinite, FS_CardinalityType
<1>4. ASSUME GoodLinks(t)
      PROVE  ~Crowded(links) <=> \A n \in Names(t.nodes) : Cardinality(Meets(links, n)) <= 2
  <2>1. Ends(links) \subseteq Names(t.nodes)
    BY <1>4 DEF GoodLinks, Ends, Joining
  <2>2. ASSUME NEW n, n \notin Ends(links) PROVE Cardinality(Meets(links, n)) = 0
    <3>1. Meets(links, n) = {}
      BY <2>2 DEF Meets, Ends
    <3>2. QED
      BY <3>1, FS_EmptySet
  <2>3. \A n : Cardinality(Meets(links, n)) > 2 <=> ~(Cardinality(Meets(links, n)) <= 2)
    BY <1>3
  <2>4. QED
    BY <1>3, <2>1, <2>2, <2>3 DEF Crowded
<1>5. QED
  BY <1>2, <1>4, Zenon DEF Accepted, Parses, RingFree

\* The compiler accepts exactly the well-formed topologies whose subnets are disjoint and whose
\* links, those of a node to itself left out, are paths, for topologies of any size
\* (compile_topology, _reject_cycles).
THEOREM AcceptsPathsOnly == Spec => []CompilesPaths
<1>1. AlgInv => CompilesPaths
  <2> SUFFICES ASSUME AlgInv, task[1] = "compile", result \notin {<<>>, <<"search">>}
               PROVE  CompilesPaths
    BY DEF CompilesPaths
  <2>1. PICK t \in Topologies, p \in Providers : Compiled(t, p)
    BY DEF AlgInv, Summarised, JudgedBy
  <2>2. task[2] = t
    BY <2>1 DEF Compiled
  <2>3. result # <<"error">> <=> Accepted(t)
    BY <2>1 DEF Compiled
  <2>4. QED
    BY <2>2, <2>3, AcceptedPaths, Zenon DEF CompilesPaths
<1>2. QED
  BY <1>1, AlgInvariant, PTL

\* The search of every topology ends: each of its steps lowers a natural number, for any
\* number of nodes and links, also where they form rings (visit).
THEOREM SearchEnds ==
    Spec => [][Search => \E t \in Topologies : task[2] = t /\
                 Distance(t.links) \in Nat /\ Distance(t.links)' < Distance(t.links)]_vars
<1>1. ASSUME AlgInv, Search
      PROVE  \E t \in Topologies : task[2] = t /\
               Distance(t.links) \in Nat /\ Distance(t.links)' < Distance(t.links)
  <2>1. PICK t \in Topologies : task[2] = t /\ SearchInv(t.links) /\ Listed(t.links)
    BY <1>1, UnderSearch DEF Search
  <2>2. Step(t.links)
    BY <1>1, <2>1 DEF Search
  <2>3. Distance(t.links) \in Nat /\ Distance(t.links)' < Distance(t.links)
    BY <2>1, <2>2, StepIsCloser
  <2>4. QED
    BY <2>1, <2>3
<1>2. AlgInv /\ [Next]_vars =>
        [Search => \E t \in Topologies : task[2] = t /\
            Distance(t.links) \in Nat /\ Distance(t.links)' < Distance(t.links)]_vars
  BY <1>1
<1>3. QED
  BY <1>2, AlgInvariant, PTL DEF Spec

\* Until it has ended, the search has a step to take, finds a cycle or has visited every node
\* (visit, _reject_cycles).
THEOREM SearchIsNeverStuck ==
    Spec => [](result = <<"search">> => \E t \in Topologies : task[2] = t /\ Movable(t.links))
<1>1. ASSUME AlgInv, result = <<"search">>
      PROVE  \E t \in Topologies : task[2] = t /\ Movable(t.links)
  <2>1. PICK t \in Topologies : task[2] = t /\ SearchInv(t.links) /\ Listed(t.links)
    BY <1>1, UnderSearch
  <2>2. QED
    BY <2>1, SearchIsMovable
<1>2. AlgInv => (result = <<"search">> => \E t \in Topologies : task[2] = t /\ Movable(t.links))
  BY <1>1
<1>3. QED
  BY <1>2, AlgInvariant, PTL

-----------------------------------------------------------------------------
(* The 95th percentile *)

\* What is sorted before s[i], itself included.
Before(s, i) == {j \in DOMAIN s : s[j] < s[i] \/ (s[j] = s[i] /\ j <= i)}

LEMMA SubsetsOfList ==
    ASSUME NEW s \in Seq(Nat), NEW S \in SUBSET DOMAIN s
    PROVE  IsFiniteSet(S) /\ Cardinality(S) \in Nat /\ Cardinality(S) <= Len(s)
<1>1. DOMAIN s = 1..Len(s) /\ Len(s) \in Nat
  OBVIOUS
<1>2. IsFiniteSet(1..Len(s)) /\ Cardinality(1..Len(s)) = Len(s)
  BY <1>1, UpToIsFinite
<1>3. QED
  BY <1>1, <1>2, FS_Subset, FS_CardinalityType

LEMMA SmallerSubset ==
    ASSUME NEW s \in Seq(Nat), NEW S \in SUBSET DOMAIN s, NEW T \in SUBSET S, NEW i \in S, i \notin T
    PROVE  Cardinality(T) < Cardinality(S)
<1>1. IsFiniteSet(S) /\ Cardinality(S) \in Nat
  BY SubsetsOfList
<1>2. T \in SUBSET DOMAIN s
  OBVIOUS
<1>3. Cardinality(T) \in Nat
  BY <1>2, SubsetsOfList
<1>4. Cardinality(T) <= Cardinality(S) /\ Cardinality(T) # Cardinality(S)
  BY <1>1, FS_Subset
<1>5. QED
  BY <1>1, <1>3, <1>4

\* No two latencies have the same place, equal ones included.
LEMMA PlacesDiffer ==
    ASSUME NEW s \in Seq(Nat), NEW i \in DOMAIN s, NEW j \in DOMAIN s, i # j
    PROVE  Place(s, i) # Place(s, j)
<1>1. \A k \in DOMAIN s : s[k] \in Nat /\ k \in Nat
  OBVIOUS
<1>2. ASSUME NEW k \in DOMAIN s, NEW l \in DOMAIN s, s[k] < s[l] \/ (s[k] = s[l] /\ k < l)
      PROVE  Place(s, k) < Place(s, l)
  <2>1. Before(s, k) \subseteq Before(s, l)
    <3> SUFFICES ASSUME NEW p \in Before(s, k) PROVE p \in Before(s, l)
      OBVIOUS
    <3>1. p \in DOMAIN s /\ (s[p] < s[k] \/ (s[p] = s[k] /\ p <= k))
      BY DEF Before
    <3>2. s[p] \in Nat /\ s[k] \in Nat /\ s[l] \in Nat /\ p \in Nat /\ k \in Nat /\ l \in Nat
      BY <1>1, <3>1
    <3>3. CASE s[k] < s[l]
      <4>1. s[p] < s[l]
        <5>1. \A a, b, c \in Nat : (a < b \/ a = b) /\ b < c => a < c
          OBVIOUS
        <5>2. QED
          BY <3>1, <3>2, <3>3, <5>1, Zenon
      <4>2. QED
        BY <3>1, <4>1 DEF Before
    <3>4. CASE s[k] = s[l] /\ k < l
      <4>1. s[p] < s[l] \/ (s[p] = s[l] /\ p <= l)
        BY <3>1, <3>2, <3>4
      <4>2. QED
        BY <3>1, <4>1 DEF Before
    <3>5. QED
      BY <1>2, <3>3, <3>4
  <2>2. l \in Before(s, l)
    BY <1>1 DEF Before
  <2>3. l \notin Before(s, k)
    <3>1. s[k] \in Nat /\ s[l] \in Nat /\ k \in Nat /\ l \in Nat
      BY <1>1
    <3>2. ~(s[l] < s[k] \/ (s[l] = s[k] /\ l <= k))
      BY <1>2, <3>1
    <3>3. QED
      BY <3>2 DEF Before
  <2>4. Before(s, l) \in SUBSET DOMAIN s
    BY DEF Before
  <2>5. Cardinality(Before(s, k)) < Cardinality(Before(s, l))
    BY <2>1, <2>2, <2>3, <2>4, SmallerSubset
  <2>6. QED
    BY <2>5 DEF Place, Before
<1>3. \A k \in DOMAIN s : Place(s, k) \in Nat
  <2> SUFFICES ASSUME NEW k \in DOMAIN s PROVE Place(s, k) \in Nat
    OBVIOUS
  <2>1. Before(s, k) \in SUBSET DOMAIN s
    BY DEF Before
  <2>2. QED
    BY <2>1, SubsetsOfList DEF Place, Before
<1>4. \/ s[i] < s[j] \/ (s[i] = s[j] /\ i < j)
      \/ s[j] < s[i] \/ (s[j] = s[i] /\ j < i)
  BY <1>1
<1>5. QED
  BY <1>2, <1>3, <1>4

\* Every place is taken, so that sorting a list leaves out none of it.
LEMMA PlacesAreTaken ==
    ASSUME NEW s \in Seq(Nat), NEW k \in 1..Len(s)
    PROVE  \E i \in DOMAIN s : Place(s, i) = k
<1> DEFINE f == [i \in DOMAIN s |-> Place(s, i)]
<1>1. DOMAIN s = 1..Len(s) /\ Len(s) \in Nat
  OBVIOUS
<1>2. \A i \in DOMAIN s : Place(s, i) \in 1..Len(s)
  <2> SUFFICES ASSUME NEW i \in DOMAIN s PROVE Place(s, i) \in 1..Len(s)
    OBVIOUS
  <2>1. Before(s, i) \in SUBSET DOMAIN s /\ i \in Before(s, i)
    BY DEF Before
  <2>2. /\ IsFiniteSet(Before(s, i)) /\ Cardinality(Before(s, i)) \in Nat
        /\ Cardinality(Before(s, i)) <= Len(s)
    BY <2>1, SubsetsOfList
  <2>3. Cardinality(Before(s, i)) # 0
    BY <2>1, <2>2, FS_EmptySet
  <2>4. QED
    BY <1>1, <2>2, <2>3 DEF Place, Before
<1>3. f \in [DOMAIN s -> 1..Len(s)]
  BY <1>2
<1>4. \A i, j \in DOMAIN s : f[i] = f[j] => i = j
  BY PlacesDiffer
<1>5. f \in Injection(DOMAIN s, 1..Len(s))
  BY <1>3, <1>4 DEF Injection, IsInjective
<1>6. IsFiniteSet(1..Len(s)) /\ Cardinality(DOMAIN s) = Cardinality(1..Len(s))
  BY <1>1, UpToIsFinite
<1>7. f \in Surjection(DOMAIN s, 1..Len(s))
  BY <1>5, <1>6, FS_Injection
<1>8. QED
  BY <1>7 DEF Surjection

\* The element of place k: at least k are not above it, fewer than k below it.
LEMMA SortedElement ==
    ASSUME NEW s \in Seq(Nat), NEW k \in 1..Len(s)
    PROVE  /\ Sorted(s)[k] \in Range(s)
           /\ Cardinality({i \in DOMAIN s : s[i] <= Sorted(s)[k]}) >= k
           /\ Cardinality({i \in DOMAIN s : s[i] < Sorted(s)[k]}) < k
<1>1. PICK i \in DOMAIN s : Place(s, i) = k /\ Sorted(s)[k] = s[i]
  BY PlacesAreTaken DEF Sorted
<1> DEFINE UpTo == {j \in DOMAIN s : s[j] <= s[i]}
           Below == {j \in DOMAIN s : s[j] < s[i]}
<1>2. \A j \in DOMAIN s : s[j] \in Nat /\ j \in Nat
  OBVIOUS
<1>3. Before(s, i) \in SUBSET UpTo /\ Below \in SUBSET Before(s, i)
  BY <1>2 DEF Before
<1>4. i \in Before(s, i) /\ i \notin Below
  BY <1>2 DEF Before
<1>5. Before(s, i) \in SUBSET DOMAIN s /\ UpTo \in SUBSET DOMAIN s
  BY DEF Before
<1>6. Cardinality(Before(s, i)) = k
  BY <1>1 DEF Place, Before
<1>7. Cardinality(Before(s, i)) <= Cardinality(UpTo)
  BY <1>3, <1>5, SubsetsOfList, FS_Subset
<1>8. Cardinality(Below) < Cardinality(Before(s, i))
  BY <1>3, <1>4, <1>5, SmallerSubset
<1>9. Cardinality(UpTo) \in Nat
  BY <1>5, SubsetsOfList
<1>10. Sorted(s)[k] \in Range(s)
  BY <1>1 DEF Range
<1>11. QED
  BY <1>1, <1>6, <1>7, <1>8, <1>9, <1>10

\* The rank is in the list, also where the list has one element.
LEMMA RankIsNearest ==
    ASSUME NEW n \in Nat \ {0}
    PROVE  /\ Rank95(n) \in 1..n
           /\ 100 * Rank95(n) >= 95 * n /\ 100 * (Rank95(n) - 1) < 95 * n
<1>1. /\ Rank95(n) \in Int
      /\ 100 * Rank95(n) <= 95 * n + 99 /\ 95 * n + 99 < 100 * Rank95(n) + 100
  BY DEF Rank95
<1>2. QED
  BY <1>1

\* The 95th percentile of a list of latencies of any length is the smallest of them that at
\* least 95% do not exceed, and there is none for an empty list (p95_latency_ms).
THEOREM P95Correct == Spec => []P95IsNearestRank
<1>1. AlgInv => P95IsNearestRank
  <2> SUFFICES ASSUME AlgInv, Done("p95") PROVE P95IsNearestRank
    BY DEF P95IsNearestRank
  <2>1. PICK s \in Latencies : task = <<"summarise", s>> /\ result = <<"p95", P95(s)>>
    BY DEF AlgInv, Done, Compiled, Summarised, JudgedBy
  <2>2. task[2] = s /\ result[2] = P95(s) /\ s \in Seq(Nat)
    BY <2>1, LatenciesAssumption
  <2> DEFINE x == Sorted(s)[Rank95(Len(s))]
             UpTo == {i \in DOMAIN s : s[i] <= x}
             Below == {i \in DOMAIN s : s[i] < x}
  <2>3. CASE s = <<>>
    <3>1. P95(s) = {}
      BY <2>3 DEF P95
    <3>2. QED
      BY <2>2, <2>3, <3>1 DEF P95IsNearestRank
  <2>4. CASE s # <<>>
    <3>1. Len(s) \in Nat \ {0}
      BY <2>2, <2>4
    <3>2. Rank95(Len(s)) \in 1..Len(s)
      BY <3>1, RankIsNearest
    <3>3. Len(Sorted(s)) = Len(s)
      BY <3>1 DEF Sorted
    <3>4. P95(s) = {x}
      BY <2>4, <3>1, <3>2, <3>3 DEF P95
    <3>5. x \in Range(s) /\ Cardinality(UpTo) >= Rank95(Len(s)) /\ Cardinality(Below) < Rank95(Len(s))
      BY <2>2, <3>2, SortedElement
    <3>6. Cardinality(UpTo) \in Nat /\ Cardinality(Below) \in Nat
      <4>1. UpTo \in SUBSET DOMAIN s /\ Below \in SUBSET DOMAIN s
        OBVIOUS
      <4>2. QED
        BY <2>2, <4>1, SubsetsOfList
    <3>7. 100 * Cardinality(UpTo) >= 95 * Len(s) /\ 100 * Cardinality(Below) < 95 * Len(s)
      <4> HIDE DEF UpTo, Below, x
      <4>1. 100 * Rank95(Len(s)) >= 95 * Len(s) /\ 100 * (Rank95(Len(s)) - 1) < 95 * Len(s)
        BY <3>1, RankIsNearest
      <4>2. QED
        BY <3>1, <3>2, <3>5, <3>6, <4>1
    <3>8. QED
      BY <2>2, <2>4, <3>4, <3>5, <3>7, ZenonT(60) DEF P95IsNearestRank
  <2>5. QED
    BY <2>3, <2>4
<1>2. QED
  BY <1>1, AlgInvariant, PTL

=============================================================================
