# CloudNet in TLA+

CloudNet is a control plane for network test beds: a FastAPI backend
(`backend/app`) that takes a YAML topology, compiles it to a plan of provider
operations, creates the resources (networks, subnets, servers) at a provider (mock,
AWS, OpenStack, Proxmox), pings between the nodes, injects failures, and tears
everything down again. It records what it owns in SQLite and in a file,
`state.json`. This directory holds TLA+ models of it, the TLC runs that check them
and TLAPS proofs about them. Paths below are relative to the repository's root, those of
services, providers and routes to `backend/app`.

## 1. Inventory

| Component | State it keeps | Operations | What is hard | Modelled in |
|---|---|---|---|---|
| Deployment life cycle (`services/deployment_service.py`, `routes/topology.py`) | `topology.status`, `deploymentresource` rows, provider resources, `state.json` | deploy, hydrate, idempotent deploy, failed deploy, cleanup | four stores, a commit or a remote call apart; concurrent requests; crash; partial failure | `Deployment`; its AWS branch in `AwsProvider` |
| Cleanup janitor (`services/cleanup_janitor.py`) | none of its own: one reading of `state.json` | scan, delete orphans, strike entry, reset status | works on a stale reading while deploys run | `Deployment` |
| Topology API (`routes/topology.py`) | `topology`, `node`, `link` tables | create, patch, delete, list, plan, status | deletion cascades over rows and tells neither provider nor `state.json`; ids are used again | `Deployment` (without PATCH) |
| Retry and error classes (`services/provider_retry.py`, `provider_errors.py`) | attempt counter | `call_with_retry`, `is_retryable` | retry of a call that did succeed; bound of the loop | `Deployment`, `AwsProvider` (the loop) |
| Local state store (`services/local_state_store.py`) | `state.json`, its temporary file | load, save, record snapshot, record failure, remove, clear | read-modify-write without a lock, one temporary name for all writers | `StateStore`, `StateMap` |
| Connectivity validation (`services/connectivity_service.py`, `topology_validate_service.py`) | thread pool, list of results | validate links, validate firewall rules | results of parallel jobs, timeouts, order, a pool that waits | `Validation`, `VerdictList` |
| Mock provider, factory (`providers/`) | streak counters of a process-wide object, server states | ping, status, stop, start | shared by all threads without a lock | `Validation`, `Scenario` |
| Scenario runner (`services/scenario_service.py`) | `scenariorun` row, step records, recovery clock | deploy, validate, fail, drift, reconcile, cleanup steps; quotas; requirements; closing cleanup | verdict and clock over long step sequences; error paths | `Scenario`; its deploys among other requests in `Deployment` |
| Failure injection (`services/failure_service.py`) | events, server state | stop and start a node | the provider's call and what is reported of it are apart | `Scenario`, `Validation` |
| Drift and reconciliation (`services/drift_service.py`, `control_plane_service.py`) | none; reads rows and provider | detect drift, reconcile | readings one by one of a moving provider | `Scenario` |
| AWS provider (`providers/aws_provider.py`) | VPCs, subnets, gateways, route tables, groups, instances, found by tag | get-or-create, ensure rule, ordered delete | operations of several calls that fail half way and are retried; an account shared with others | `AwsProvider` |
| Compiler (`topology_compiler.py`) | none | `compile_topology`, cycle rejection | a recursive search for cycles that must end and miss none | `TopologyCompiler`, `CycleSearch` |
| Plan, quotas, warnings (`services/scenario_plan.py`, `scenario_quotas.py`, `deployment_service.py::multi_homed_warnings`) | none | expected rows, quota checks | must agree with what a deploy does | `TopologyCompiler` |
| Requirements, metrics (`services/requirements_evaluation.py`, `ping_metrics.py`) | none | evaluate, p95 | pure; boundaries | `Metrics` |
| OpenStack and Proxmox adapters, access, export, payload validation, events, CLI, scripts | little or none | translation of formats, remote calls, printing | nothing concurrent or stateful enough to model | section 10 |

How they interact. The sync handlers of `routes/topology.py` and
`routes/cleanup.py` run on the thread pool of the server, so several deploys,
cleanups, validations, deletions and janitor runs are under way at once, each with its own
SQLAlchemy session on one SQLite database, all of them with one provider object and one
`state.json`. `run_scenario_endpoint` is `async def` and runs a whole scenario on
the event loop, so that nothing else is admitted until it returns, while handlers
admitted before go on. A scenario calls the same `deploy_topology`,
`cleanup_topology_deployment` and `validate_topology_links` as the API. The janitor calls
the same `teardown_provider_resources` as the cleanup. A validation starts a pool of
threads of its own, whose pings call the shared provider object.

What makes each correct:

* Deployment: all of the plan or nothing; no duplicates on repeated runs; nothing at
  the provider that no store lists; `state.json` agrees with the rows; a teardown's
  order never blocks itself; every request ends.
* Janitor: deletes only what no row lists; ends although a delete fails.
* State store: a concurrent or interrupted write leaves a file that can be read; what was
  saved is what is published.
* Validation: one verdict for each job, in job order; PASSED only for an answer; a job that
  timed out is a failure once, whatever it answers later; no thread is left behind.
* Scenario: PASSED exactly when all went as expected; the recovery time is of the failure it
  follows; a reading is about the step that reports it; the cleanup asked for is made.
* AWS: get-or-create makes nothing twice, also after a creation that failed half way; a
  teardown leaves nothing and spares what others have made.
* Compiler, plan, metrics and requirements: equal to definitions of what they are for.

## 2. Modules

| Module | Role |
|---|---|
| `Deployment`, `DeploymentProofs`, `SerialProofs` | deploys, cleanups, the janitor, creations and deletions of topologies, all interleaved, with crashes |
| `StateStore`, `StateMap`, `StateStoreProofs` | `state.json` at the grain of file operations; the map of entries it should be |
| `Validation`, `VerdictList`, `ValidationProofs` | the pool and its pings; the list of verdicts a caller sees |
| `AwsProvider`, `AwsProviderProofs` | the AWS branch of a deploy, get-or-create and teardown |
| `Scenario`, `ScenarioProofs` | a scenario run with drift detection and reconciliation |
| `TopologyCompiler`, `Metrics` | the pure parts as operators |
| `CycleSearch`, `CycleSearchProofs` | the compiler's depth-first search, step by step |
| `Algorithms`, `AlgorithmsProofs` | the machine that runs all of these on bounded inputs |
| `MC*` | instances for TLC, one module and its `.cfg` files each |

The composition follows the calls. `Deployment` loads and saves `state.json` in two steps, each
of them whole, and `StateStore` has the inside of these (section 4). `Scenario` has of a
deploy, a cleanup and a validation their result; `Deployment` and `Validation` have the
inside of these. `AwsProvider` refines nothing of `Deployment`: it is the other branch of
the same function, with providers that find by tag instead of making fresh ids.

Possible continuations: several handlers of one topology in `AwsProvider`, PATCH of a
topology under a deploy, the parsing of ping output.

## 3. Deployment

`Deployment.tla` models `deploy_topology`, `cleanup_topology_deployment`,
`run_cleanup_janitor`, the create, deploy and delete handlers and, as far as it calls
them, the scenario runner. It follows the branch of `deploy_topology` for providers
that issue fresh ids (mock, OpenStack, Proxmox).

State. `status` and `rows` are SQLite, `snapshot` is `state.json`, `cloud` is the
provider, `req` holds for each server thread the handler it runs with its local
variables, the `state.json` it has loaded and not yet saved, and the place it has
reached. `nextId` is the provider's id counter. `gen` and
`orphaned` only observe: how often a topology id has been created, and which live
resources the program has lost its last row for, with the cause.

Actions. One per commit, provider call or file operation, because another thread, a
fault or a crash can come between any two of these and nowhere else that matters.

| Code | Actions |
|---|---|
| `deploy_topology`: is there anything to do | `ListRows`, `ReadSnapshot`, `InsertRows`, `Relist`, `FinishIdempotent`, `LoadState`, `WriteSnapshot` |
| its create loop, `call_with_retry` | `Create`, `CreateRefused`, `CreateUnanswered`, `RecordRow`, `Activate`, `CollectRows` |
| its except branch | `MarkFailed`, `ListFailed`, `LoadState`, `RecordFailed`, then the cleanup's actions with `nested` |
| `cleanup_topology_deployment`, `teardown_provider_resources` | `CleanupList`, `DeleteOne`, `DeleteFails`, `DropRows`, `ResetStatus`, `LoadState`, `ForgetEntry` |
| `run_cleanup_janitor` | `BeginJanitor`, `JanitorScan`, `DeleteOne`/`DeleteFails` at "sweep", `LoadState`, `JanitorStrike`, `JanitorMark`, `EndJanitor` |
| `create_topology`, `delete_topology` | `CreateTopology`, `BeginDelete`, `DeleteTopology` |
| `ScenarioRunner.run` | `BeginScenario` (with `CreateTopology` before it: `_persist_topology`), `ScenarioStep` |

Details of the code the model keeps because they decide what can go wrong:

* The session caches. SQLAlchemy expires loaded attributes at a commit and reloads them at
  the next access, which raises when the row is gone (`Vanished`). Assigning the
  value that is loaded emits no UPDATE (`Committed`), so a session can fail to restore
  a status another thread has changed. `seen` is what the session has loaded.
* SQLite reuses ids. Tables have an INTEGER PRIMARY KEY without AUTOINCREMENT, so
  deleted ids at the top are given out again, to rows (`IsTop`) and to topologies
  (`CreateTopology`). A cleanup deletes rows by the ids it has listed (`Dropped`).
* A scenario runs on the event loop (`LoopFree`): no request begins while one runs.
* Updates of `state.json`. A handler loads the whole file (`LoadState`), changes the entry of
  its topology and saves the whole file (`WriteEntry`), without a lock: what another handler
  has saved in between is lost, an entry dropped or one that was removed back again. The
  removal of an entry that is not there saves nothing (`Saved`). A save is in a `try` that logs
  and drops the exception.
* A janitor whose UPDATE finds no topology has a session that needs a rollback it does not get,
  so that its next listing ends it (`JanitorMark`).
* A cleanup that meets a failing delete logs it and forgets its rows all the same, the
  janitor keeps its entry (`DeleteFails`).

### Runs of MCDeployment

| Run | Instance | What it shows |
|---|---|---|
| `deployment_serial` | 2 threads in `OrderlySpec`, 2 topologies, a network, a subnet and a server, 1 retry, 2 refused calls, 3 requests | of a topology that no handler works on: all of a plan or nothing (`AllOrNothing`), no orphans (`NoOrphans`), `state.json` agrees with SQLite (`SnapshotAgrees`); `TypeOK` |
| `deployment_concurrent` | 2 threads, every request, every kind of fault but refusals, 1 fault, 3 requests, the id created twice, fair threads | `Accounted`; `RefusedOnlyByStrangers`; `RequestsEnd` |
| `deployment_reclaim` | 2 threads in `OrderlySpec`, 2 topologies, each created twice, a network and a server, 5 requests, 1 refused call | `Reclaimable`: what is at the provider is in a row, in an ACTIVE entry, or about to be recorded; no duplicates (`NoDuplicates`), the janitor deletes nothing a row lists (`JanitorSparesRecorded`), a cleanup drops no rows but its topology's (`CleanupKeepsOthers`) |
| `deployment_duplicates`, `deployment_hydration` | the smallest that shows it | one finding each, section 11 |

Four more configurations give counterexamples a reader can replay: `janitor_race`,
`row_ids`, `crash` and `lost_update` (section 11). A fifth, `turns`, passes: the last three
properties of `reclaim` in `TurnSpec`, with every request, scenarios too, and every kind of
fault.

What the server leaves to its clients. Nothing in the code makes two handlers wait for each
other, and some promises need that they do. `TurnSpec` keeps the behaviours of `Spec` in which
the handlers of one topology take turns (`TakeTurns`), those of different topologies
interleaved as ever; `AloneSpec` those in which the janitor moreover has the server to
itself (`JanitorAlone`); `OrderlySpec` those in which moreover no handler loads `state.json` to
change it while another is about to save it (`UpdatesApart`), whichever topologies they are of.
All three allow more than serving one request at a time does: creates, deletes, commits and
listings of different topologies interleave in each.

* Without `TakeTurns`, each of the properties in `turns` fails (`duplicates`, `janitor_race`,
  `row_ids` in section 11).
* Without `JanitorAlone`, `Reclaimable` fails in six requests: a janitor that has read an entry
  waits while another strikes it, and strikes with its old reading the entry that a later deploy
  of the same id has written and whose topology is deleted before it comes to it.
* Without `UpdatesApart`, `AllOrNothing`, `SnapshotAgrees` and `Reclaimable` fail although all
  the rest is in order. One topology's save drops the ACTIVE entry that another's deploy has just
  written: the two stores disagree, and when that topology is deleted nothing lists its
  resources (`lost_update`). Or it brings back the entry that another's cleanup has just removed,
  from which the next deploy hydrates resources that are gone.

Bounds. `MaxRequests`, `MaxFaults`, `MaxGenerations`, `MaxTopology` and the plan's length
bound the instance. Two threads are enough for every race found, since each is between a
list or check in one handler and a write in another; three requests let two run while
a third has prepared the state; a plan of a network and what is attached to it is the
smallest in which a create can fail after another has succeeded and in which the order
of deletion matters; two generations are needed to use an id twice. In `reclaim`, the
conjunction of a deletion, a new topology of the same id and its deploy takes five
requests. `Reclaimable` is checked without the cleanups of scenarios: with them it
is false by design of the code (a cleanup of a topology that has been recreated). Likewise it
and the properties of `serial` are those of calls that fail by refusing: an answer that
is lost, a failing delete or write and a crash each leave something in one store that another
does not have. In the runs without fairness the two threads are interchangeable (`Threads`).

Fairness. `FairSpec` assumes that a thread which has been admitted is scheduled and
that a provider call returns or raises (`WF_vars(Step(r))` for each thread). Clients
need send nothing. `call_with_retry` has a finite number of attempts. That a call returns
is an assumption: the adapters set no timeout of their own on create and delete and leave
it to their SDKs (boto3 times out, the mock answers at once). No fairness is assumed of
faults.

## 4. State store

`StateStore.tla` models `local_state_store.py` at the grain of the file system: `path` and
`tmp` are the inodes that have the names `state.json` and `state.json.tmp`, `data` is what
each inode contains, and a writer keeps the inode it opened although its name has gone.
`Record`, `Remove` and `Clear` are the operations up to `save_state` (load and change),
`OpenTmp`, `WriteTmp` and `Replace` are the statements of `save_state`, `SaveFails` and
`Die` are a raising file operation and the death of a process, in any place. A read that
finds no JSON gives the empty skeleton, as `load_state` does (`Loaded`). Writing over
longer content leaves its tail behind, so that the file is no JSON (`Torn`); how long a
payload is, is not modelled, and both outcomes are explored. `shared` and `overlapped` are
observers: whether two writers have ever had the temporary file open at once, and whether
an update has ever begun while another writer was saving.

`StateMap.tla` is the abstract specification: a map of entries, one update changing one
entry or clearing all, at once or not at all. It is what `OrderlySpec` makes of `snapshot` in
`Deployment`.

| Run | Instance | What it shows |
|---|---|---|
| `store_writers` | two handlers, a `cloudnet state clear`, 2 entries, 2 records, 4 updates, 2 faults, an inode for each name and writer | `ReadableUnlessShared`, `PublishedUnlessShared`: the file is whole and what was saved is what is published, until two writers have the temporary file open at once; `ImplementsMap`: it refines `StateMap` until a writer begins while another is saving; `StoreTypeOK` |

The configuration `lost_update` replays what then goes wrong (section 11). Four updates let
two overlap after two have filled both entries; entries and writers are symmetric.

`ReadableUnlessShared` is exact: when two handlers do have the temporary file open at
once, the one truncates what the other renames, and `state.json` is then empty to every
reader until the next save, which starts from the empty skeleton and so loses all entries.
Deadlock is not checked, for the number of updates is bounded.

What this means for `Deployment`. It has the two halves of an update as two steps, so that lost
updates are among its behaviours, and its properties that need updates not to overlap say so
(`UpdatesApart`, section 3). `Accounted` and `RefusedOnlyByStrangers` need no such thing and are
checked and proved with updates lost at will. What is one step there and several here is
`save_state` itself: two saves that share the temporary file, after which the file may read as
empty, are in this module only; they make entries disappear as lost updates do, all at once.

## 5. Validation

`Validation.tla` models `validate_topology_links` and `validate_topology_firewall_rules`
with the pool of `ThreadPoolExecutor`, several calls at a time, over the mock provider whose
failure streak all threads share.

| Code | Actions |
|---|---|
| `validate_topology_endpoint`, the STARTED event, submission of the jobs | `Begin`, `Submit` |
| a thread of the pool: `_execute_link_ping_job` or `_execute_icmp_ping_job`, `MockProvider.run_ping`, `_before_op` | `Start`, `CheckTarget`, `ReadStreak`, `Spend`, `Answer` |
| the loop over the futures: `fut.result(timeout=...)` in job order | `Collect`, `TimeOut`, `Break` |
| the end of the `with` block and the response | `Finish`, `Propagate` |
| other requests: node-down, recover, cleanup, deletion | `SetHost`, `DeleteTopology` |

Kept because they decide what can go wrong: `fut.result` waits for the first job that has
no verdict, whichever has answered; a job that times out is not cancelled, and the `with`
block waits for it all the same; a commit expires the topology, so that a deletion by
another request raises at the next access; the streak is read and written back in two
steps. `_before_op` counts in a process-wide object, so a streak of 1 may fail two pings,
but never none.

`VerdictList.tla` says what a caller sees of one call: a list filled from front to back,
never corrected, and a status that sums it up.

| Run | Instance | What it shows |
|---|---|---|
| `validation_calls` | two calls, one with three links and one with firewall rules, pools of two threads, a streak of 1, one disturbance (a database error, a lost packet, or a change by another request) | `PassedIsAnswered`, `NoThreadOutlivesItsCall`, `StreakIsServed`, `ImplementsVerdictList`, `ValidationTypeOK`; under fairness `VerdictsComplete` and `CallsEndIfPingsAnswer` |

Bounds. Three jobs on two threads are the smallest case with a queue; two calls share the
streak; links in both directions let answers overtake each other.

Fairness. `FairSpec` assumes `WF_vars(Progress)`: some thread that can go on does, and the
timeout of `fut.result` fires. `Answer` is not in `Progress`: over SSH a ping may never
answer (`recv_exit_status` has no timeout). That every link gets its verdict holds even so;
that the call returns needs the pings to answer, and `CallsEndIfPingsAnswer` states that
assumption. The configuration `hang` shows the call that does not return without it.

## 6. AWS

`AwsProvider.tla` models `_deploy_aws_resources`, the creates and `delete_network` of
`aws_provider.py`, and the cleanup around them. `account` is what is alive at AWS,
things with an id, a kind, a VPC, what they are attached to, and whether they have
CloudNet's tags; `worker` is the handler of each topology.

| Code | Actions |
|---|---|
| `create_network` | `FindVpc`, `MakeVpc`, `RowVpc` |
| `create_subnet`, `_ensure_internet_gateway`, route tables | `FindSubnet`, `MakeSubnet`, `Gateway`, `Table`, `RowSubnet` |
| `create_server`, `_get_or_create_security_group` | `FindInstance`, `Group`, `Run`, `RowInstance` |
| `ensure_firewall_rules`, the end of a deploy | `Firewall`, `Activate` |
| `cleanup_topology_deployment`, `delete_network` and its helpers, in their order | `ListRows`, `CheckVpc`, `Terminate`, `Await`, `DeleteGroup`, `ListTables`, `DeleteTable`, `ListGateways`, `DeleteGateway`, `ListSubnets`, `DeleteSubnet`, `DeleteVpc`, `DropRows` |
| AWS itself; other users of the account | `Terminated`; `Stranger` |

A step may be several calls (create, tag, attach). `Calls` gives it every outcome: all of
them done, or a failure before, between or after them, retryable or not, after which
`call_with_retry` starts the whole create again. `cut` observes what an error has cut off:
such a thing may be untagged, unattached or half torn down, and no later request repairs it.

| Run | Instance | What it shows |
|---|---|---|
| `aws_account` | two topologies (two subnets and a host; one and one), one stranger, two failed calls or strangers in all, three requests | `UniqueNames`, `DeployedIsWhole`, `NothingMislaid`, `TornDown`, `SparesOthers`, `RefusedForOthers`, `AwsTypeOK` |
| `aws_orphans` | one topology, one failed call | the finding on orphans, section 11 |

Bounds. One failure can cut off a create and a second one its retry or the cleanup;
three requests are a deploy that fails, a second one and a cleanup. An instance that is `up` may
be pending or stopped, since one that is found by its tags is not awaited, and nothing stops
instances here; names that begin with cloudnet-, which a teardown accepts as well as tags, are
only CloudNet's. `MaxActive` is 1:
requests on different topologies come one after the other in this run, since their handlers
share nothing but names, and topologies with different names have none in common. The
second host of a topology is left out for the same reason: it goes through the steps of the
first. The proofs (section 9) need neither bound: any number of handlers at once, of
topologies with any number of segments and hosts. Deadlock is not checked: requests are
bounded.

## 7. Scenario

`Scenario.tla` models `ScenarioRunner.run` and what its steps call over the servers of one
topology: `inject_node_down`, `detect_topology_drift`, `reconcile_topology`, the validation,
the evaluation of the requirements, `_finalize_scenario_run`, `_attempt_scenario_cleanup`.

| Code | Actions |
|---|---|
| the loop over the steps, the quota on the duration | `Begin`, `TakeStep`, `OutOfTime`, `NoMoreSteps` |
| deploy, cleanup and fail steps | `Deploy`, `Cleanup`, `FailNode` |
| `detect_topology_drift`, host by host | `DriftHost`, `DriftRead` |
| `reconcile_topology`: drift; the status of each server, and its start when it is stopped; the wait for those started; firewall rules; validation | `DriftHost`, `DriftRead`; `ReadStatus`, `StartServer`; `StatusesRead`, `AwaitServer`; `Repaired`; `Ping`, `Reconciled` |
| the validate step | `Ping`, `Validated` |
| requirements, verdict, report, closing cleanup | `Evaluate`, `Report`, `Close` |
| node-down and recover by requests admitted before | `Change` |
| the provider: a server on its way arrives | `Settle` |

The steps of a scenario are chosen as it goes, which covers every scenario of `MaxSteps`
records. `was` and `misread` observe how the hosts have been since the step began, so that
a report can be compared with what was there to see. Thresholds and options of the run
(`limited`, `closing`) are chosen when the code reads them.

`instant` says which provider it is. On AWS `stop_server` and `start_server` return while the
server is stopping or pending, it arrives when it likes (`Settle`), and `start_server` raises
for one that is still stopping; on the mock all this is at once, and waiting does not look. A
reconciliation asks each server for its status and starts those that are stopped, in two steps
another request can come between, then waits for them; an exception of a start or of the wait
is caught by nobody ("raised"). Without rows it takes the servers from the ACTIVE entry of
`state.json`; without either it cannot find the group of the firewall rules, and records a
failed step (ControlPlaneError, in `Repaired`). It refuses OpenStack and Proxmox from the start,
which are not in this module. A run begins with a topology of its own, so without an entry; a
deploy that hydrates the entry of a predecessor is in `Deployment`.

What `ReconcileRevives` says is therefore qualified. A server that was stopped when its status
was read has been up before the reconciliation reports, or that raises; one that was not found
stopped may have been on its way, to stop or to start, and is then left to itself. So a fail step
followed at once by a reconcile step is RECONCILED on AWS with the server about to be down:
`MCScenario_stopping` replays it (section 11).

| Run | Instance | What it shows |
|---|---|---|
| `scenario_runs` | two linked hosts, five records, one failed call or change by another request | `VerdictMatchesRecords`, `RecoveryIsMeasured`, `ReadingsAreReal`, `ReconcileRevives`, `ClosedAsAsked`, `ScenarioTypeOK` |
| `scenario_recovery` | three hosts, five records, no disturbance | the finding on the recovery clock, section 11 |

Bounds. Deploy, failure, reconciliation, validation and one more step are five records;
one change between two readings, or between a reading and the start that follows from it, is
what a stale reading takes. A run ends, so deadlock is
not checked; one whose exception no one catches stops at "raised", with its row RUNNING.

## 8. Pure parts

`TopologyCompiler` and `Metrics` are functions as operators: the checks of a topology, its
plan, the rows a deploy records and those that `cloudnet plan` expects, quotas, warnings; p95
and the verdict on thresholds. `CycleSearch` is the recursive `visit` of `_reject_cycles` as a
machine: `visited` is the set of that name, `stack` has a frame for each call that has not
returned (its node, its parent, the links its loop has not come to), and `Begin`, `Skip`,
`Descend`, `Return` and `Closing` are the outer loop, the two branches of the inner one, its
end and the raise. The inner loop takes links in the order of the topology, as adjacency
lists have them; the outer loop takes its nodes in any order.

`Algorithms` runs each on every input of a bounded set: `Parse`, `Search`, `Reject`, `Compile`
are a compilation, which the routes that compile and deploy a topology follow with no more;
`Refuse` are the quotas, which a scenario and the validation of a topology hold the plan against;
`Deploy`, `Summarise` and `Judge` are the rest. Its properties say what is computed without
saying how:

* `CompilesPaths`: well-formed topologies are accepted exactly when subnets are disjoint, no
  node is on three links and no links form a ring. A link of a node to itself counts for
  neither: the search leaves it out, and it passes, although docs/topology-support.md:26 has
  cycles rejected.
* `WarnedAreSplit`: who is warned about is who has a link that its server is not on.
* `PlanCoversDeploy`: `cloudnet plan` expects every row that a deploy records.
* `P95IsNearestRank`: the smallest latency that 95% do not exceed, for lists of every length.
* `ThresholdsAreIndependent`: no threshold hides another.

The run `algorithms_inputs` takes all graphs of up to three links on four nodes, those of
four links that can be rings, all pairs of subnets of up to two bits, the mistakes a payload
can have, lists of up to 45 latencies of three values, and thresholds and measurements of
three values each. A ring through three or four nodes, a double link and a self-link are
all among these. Addresses have two bits (`Width`), enough for every way two of the
subnets can lie. Latencies are numbers of which only the order matters.

That the search ends, also on rings and double links, is proved (section 9). The
configuration `MCAlgorithms_termination` checks it on the same topologies as a liveness
property, `EveryTopologyIsAnswered`; `FairSpec` assumes that the one thread which handles a
request is not stopped (`WF_vars(Next)`), and nothing in a compilation waits for anything.

## 9. Proofs

Assumptions on the constants are the named ASSUMEs of the modules, and TLC evaluates
them in every run. In each case the property is not inductive and a stronger invariant is,
which TLC has checked on the run's instance before it was proved.

`DeploymentProofs.tla`, for every plan a compiler may produce (`PlanAssumption`), any number
of threads, topologies, retries, requests and faults (`BoundAssumption`):

* `TypeCorrect`: `Spec => []TypeOK`.
* `NothingLost`: `Spec => []Accounted`.
* `TeardownOrder`: `Spec => RefusedOnlyByStrangers`.

All three follow from `Invariance` (`Spec => []IInv`). `Accounted` is not inductive by
itself. `DropRows` would break it if a listed row could be of a live resource that the
teardown had passed, so `IInv` says of each handler in a teardown that what it has listed
and no longer has to do is gone from the provider, unless a delete has failed. For
"gone" to be lasting, an id must never be issued twice: every id in a row, an entry, a
handler or at the provider is below `nextId`. What a handler holds it holds between
the provider's answer and the row (`held` is empty elsewhere), and there it holds one
resource. `TeardownOrder` needs that networks are attached to nothing, that steps are
steps of the plan, and that the sets a handler works on are finite, so that there is a
next one to delete.

`SerialProofs.tla`, for every plan, any number of threads, topologies, retries, requests, faults
and generations. With H1 for `Spec /\ []TakeTurns` and H2 for
`H1 /\ []JanitorAlone /\ []UpdatesApart`:

* `NoSecondResource`, `JanitorInTurn`, `CleanupInTurn`: `H1 => []NoDuplicates`, `H1 =>
  JanitorSparesRecorded`, `H1 => CleanupKeepsOthers`, for every request and every fault.
* `WholeOrNothing`: `H2 => []AllOrNothing`, when calls fail only by refusing (`Reliable`).
* `NoneOrphaned`, `SnapshotsAgree`: `H2 => []NoOrphans` and `H2 => []SnapshotAgrees`, when
  moreover no topology is deleted.
* `AlwaysReclaimable`: `H2 => []Reclaimable`, when calls fail only by refusing and deletions
  of topologies do not meet scenarios' cleanups (`Separate`).

Nothing in the code makes the hypotheses true. They say in which order clients' requests and
the updates of `state.json` come and what fails, never what one handler does, and for each there
is a counterexample without it (section 3). A server with one thread meets all three by itself
(`OneThreadTakesTurns`). Where two handlers of one topology meet, the first three theorems
fail, and so do the others (section 11). Where updates of the file overlap, even of different
topologies, `WholeOrNothing`, `SnapshotsAgree` and `AlwaysReclaimable` fail; `NoneOrphaned` is
proved from the same invariant (the serial instance has no counterexample to it without the
hypothesis), and the first three theorems do not need the file to be right.
Faults other than
refusals: an unanswered create leaves a resource without a row, a failed delete or a crash
leaves one whose row or entry is gone, a failed write of `state.json` leaves a stale entry. A
deletion cascades over rows and tells neither the provider nor `state.json`. With deletions and
scenarios together, the cleanup of a topology that was recreated under an old id removes the
entry that was the last trace of its predecessor's resources.

Each builds on the one before. `TurnInv` holds under `TakeTurns` alone: rows and entries
that name the same resource are rows of one topology, at one place of its plan (`RowsApart`,
`EntriesApart`), and a handler that is under way knows the present stores of its topology
(`Informed`), for nobody else can have changed them; so a deploy that found no rows has none to
duplicate, a janitor's orphans have no row, and the row ids a cleanup has listed are still its
own. `AgreeInv` adds, for reliable calls, how far each handler has come (`Progress`): which
steps of the plan have their rows, which of the resources it tears down are still there. A
topology nobody works on is ACTIVE with all of its plan or has no rows, and its entry lists the
same (`Settled`); a set of resources being torn down is closed under attachment (`Closed`), so
that no delete is refused; and the file a handler has loaded and not yet saved is the file as it
is (`FilesCurrent`), so that its save changes one entry. This last is where `UpdatesApart`
enters: a save by one handler would make the file of another old (`FilesStayCurrent`), and then
no other has one (`SaveLetsGo`). `KeptInv` says that every live resource has a row, an entry or a
handler that holds it, and that what a snapshot or a cleanup overwrites in `state.json` is
listed by a row or gone (`Forgettable`); without deletions, an ACTIVE entry of a topology
without rows is only seen inside a cleanup (`BackedInv`).

That several handlers are under way is met in two halves, for each of the three invariants.
What the acting handler establishes is said of it alone (`InTurn`, `Agreed`, `KeptBy`), one
lemma for each action, as if it were by itself. What a step leaves to the others is proved once
for all actions: it changes rows, entries and resources of its own topology only
(`StepIsLocal`, `LeavesOthers`), and so disturbs nothing a handler of another one knows
(`OthersInformed`, `OthersProgress`, `OthersKept`). Only the janitor remembers entries of
other topologies, which is why it must be alone from the second invariant on.

`StateStoreProofs.tla`, for any number of writers, entries, updates and faults:

* `StoreTypeCorrect`, `Readable`, `Published`: the type invariant and the two properties of
  a whole file.
* `StoreImplementsMap`: `Spec => ImplementsMap`.

The invariant (`StoreInv`) says that until two writers share the temporary file, a writer
between open and rename has open what has the temporary name, alone, and the file is
empty before it writes and holds its copy after. For the refinement (`SoloInv`), until a
writer begins while another is saving, one at most is busy, and its copy is one update away
from what is published.

`ValidationProofs.tla`, for any number of calls, checks, threads and disturbances and any
streak:

* `ValidationTypeCorrect`, `PassedVerdicts`, `ThreadsEnd`, `StreakServed`: the four invariants.
* `ValidationImplementsVerdictList`: `Spec => ImplementsVerdictList`.

The invariant (`ValInv`) ties the parts of a call together: it has jobs from `Submit` on and
threads until it ends, an answer is a job's last word, and a slot is filled with it. The
streak needs a promise made in advance: what a thread has read of the counter plus what has
been refused never falls below the streak asked for (`Owed`), whatever other threads write
over it. All steps of a thread are first shown to be of one form (`Advances`), and the
bound on the pool follows from the cardinality of the jobs at work.

`ScenarioProofs.tla`, for any hosts, any links, scenarios of any length, any number of failed
calls and changes:

* `ScenarioTypeCorrect`, `VerdictCorrect`, `RecoveryMeasured`, `ClosingCorrect`: the four
  invariants.
* `ReadingsCorrect`, `ReconcileCorrect`: the two action properties.

The invariant (`ScenInv`) says which step each stage works on, what the verdict is before
and after the requirements, that the clock holds the last failure and whether one was
reconciled, and of each loop what the hosts it has passed have been like; of a
reconciliation that means what it has read of them, which of them it has started, and that
those it has awaited have been up (`ReadInv`, `Seen`, `Dealt`). Each of the eight
steps that push a record is shown to push a faithful one (`Faithful`: the record, the clock
and the observations agree); verdict, clock and the two action properties follow from that
alone.

`AwsProviderProofs.tla`, for any topologies, any number of strangers, failed calls, retries
and requests:

* `AwsTypeCorrect`: `Spec => []AwsTypeOK`, without further hypotheses.
* `AwsUniqueNames`, `AwsNothingMislaid`, `AwsTornDown`: the three invariants, when no two
  topologies of one name are handled at the same time (`Apart`: their names differ, or
  `MaxActive` is 1 at most).
* `AwsDeployedIsWhole`, `AwsSparesOthers`, `AwsRefusedForOthers`: the invariant and the two
  action properties, when the names of topologies differ (`NamesDiffer`).

The code does not enforce either hypothesis; the run satisfies both. Two handlers of one name
may each look for a VPC before the other has made it, and then make two; and topologies
of one name share a VPC even when they take turns, so that the teardown of the one deletes
what the other has recorded (section 11). Under `NamesDiffer` any number of handlers may be at
work at once, which no run tries.

The 27 steps of a handler are met once, where each is shown to keep to two outlines: `Frame`,
what it may do to the account (keep, make one thing that is whole or cut off, change or delete
what is in its VPC and for what it is), and `Turns`, how the handler goes on (it fails, passes,
finds, lists, creates, deletes or writes rows). Everything else follows from the outlines.
`BaseInv` says that ids are used once and that what handlers, rows and things say of kinds and
VPCs agrees. `FindInv` says that what a handler has looked for and not found is still missing
when it makes it, that the VPC and the subnet it works on are alive (`Current`), and
that everything is in a tagged VPC or cut off (`Housed`); `UniqueNames` is inductive only with
these. `HeldInv` has a row, or a handler about to write it, for the VPC of everything made,
and the VPC empty when its rows are dropped. `SweptInv` follows a teardown kind by kind, so that
no deletion meets what an earlier one should have removed; `StandInv` keeps the VPC of a row
alive until its teardown is over. `BuiltInv` follows a deploy: what has a row stands, and a
subnet has its route unless it is in the making, being torn down, or cut off.

`CycleSearchProofs.tla` and `AlgorithmsProofs.tla`, for topologies, lists of latencies and
thresholds of any number and size (a topology's links are a list, its subnets' prefixes are no
longer than an address, a scenario's requirements have their four fields):

* `AcceptsPathsOnly`: `Spec => []CompilesPaths`.
* `SearchEnds`, `SearchIsNeverStuck`: each step of the search lowers a natural number, and until
  it has ended one of its guards holds.
* `P95Correct`: `Spec => []P95IsNearestRank`.
* `WarningsAreRight`: `Spec => []WarnedAreSplit`.
* `PlansCoverDeploys`: `Spec => []PlanCoversDeploy`.
* `ThresholdsIndependent`: `Spec => []ThresholdsAreIndependent`.

`AlgInv` lists the results a task can have, with the invariant of the search while it is under
way. `CompilesPaths` speaks of every set of links and of nothing the search keeps, so `SearchInv`
ties the two. The stack is a path of the graph (`PathInv`): frames have different nodes, each
is the parent of the next, and a link that the lower one has passed joins them. A link that a
call has followed led to a visited node (`ReachInv`). No ring consists of links that have been
followed, those left at the root set apart (`NoRingInv`). Both directions use that no node has
three links, which is checked before. When the search closes on a visited node, that node is on
the stack, since a visited node whose call has returned has had all its links followed, and
the links between its frame and the top with the closing one are a ring (`ClosedPath`,
`ClosingARing`). When it is over every link has been followed (`SearchedWithoutRing`). The
search skips every link to the parent, not only the one it came by. So that it misses none,
`TwinInv` says of a link left to follow whose far end has followed it already, and is not the
parent, that it is double: then it is at the root, where no link is skipped.

`SearchEnds` counts four for a node not visited, one for a link not followed and one for a call
under way (`Distance`): a call adds itself and at most two links. Subnets share an address
exactly when one prefix begins the other (`OverlapIsSharing`). No two latencies have
the same place in the sorted list, so every place is taken (`PlacesAreTaken`, by the
cardinalities of an injection), and what is at place k has k latencies not above it and fewer
than k below it (`SortedElement`). A host's mentions are counted by the cardinality of a finite
set (`MentionedOnce`): it is one when the host is on one link, at one of its ends, and more
when it is on two. On AWS the shared VPC and its gateway are announced because a deploy
without networks is refused (`ExpectedCoverRows`).

Every safety property of a passing run is a theorem. Only model-checked is liveness
(`RequestsEnd`, `VerdictsComplete`, `CallsEndIfPingsAnswer`, `EveryTopologyIsAnswered`): the
prover has no rules for ENABLED, on which fairness rests. For `EveryTopologyIsAnswered`,
`SearchEnds` and `SearchIsNeverStuck` are the parts of the argument that need none.

## 10. Not modelled

* Pings over SSM on AWS, its listings and the checks of routes and groups that a validation
  or a drift detection makes: they read, and are in `Scenario` calls that may fail.
* What a ping prints and how it is parsed. Its verdict is in `Validation`, the latencies are
  inputs of `Metrics`.
* `is_retryable`: whether an error is retried is a choice. (It looks for the words of
  throttling and timeouts before those of invalid requests.)
* PATCH of a topology, and SQLite's own errors (a locked database).
* What is written in a row or an entry beyond the resource: names, labels, times; backoff
  times of `call_with_retry`.
* OpenStack and Proxmox adapters: SDK calls; what they promise is in `Attachable`, `Blocked`,
  `CreateRefused` and `DeleteFails` of `Deployment`.
* Access and export services, payload validation, event log, CLI other than `state clear`,
  scripts: no state that another component acts on.
* Python's bound on nested calls, which a path of some hundred nodes would meet in `visit`.
* Several handlers of one topology on AWS: `Deployment` has the races between handlers,
  and on AWS they meet in names that are looked up before they are made.

## 11. Findings

Each of the first four is a run that TLC finds violated, with the line that says otherwise.

1. `deployment_duplicates`: two concurrent deploys of a topology create every resource twice,
   though README.md:37 promises that repeated runs create no duplicates.
2. `deployment_hydration`: a new topology that is given the id of a deleted one becomes
   ACTIVE with the old one's resources, though README.md:28 speaks of the same topology name.
3. `aws_orphans`: a VPC whose tagging fails is in no row and has no tags, so that neither the
   cleanup of the failed deploy nor any later one finds it, though README.md:62 says the
   cleanup avoids orphans.
4. `scenario_recovery`: a reconciliation of an earlier failure lets a validation end the
   recovery of a later one that nothing has reconciled, though README.md:406 asks for a
   reconcile following that failure.

Further configurations whose counterexamples a reader can replay with TLC:

* `MCDeployment_janitor_race`: the janitor deletes resources that a deploy has meanwhile
  hydrated into rows, against its docstring (cleanup_janitor.py:41).
* `MCDeployment_row_ids`: the slower of two cleanups deletes rows of another topology that
  were given the ids it had listed.
* `MCDeployment_crash`: what a crash during a deploy leaves behind is in no ACTIVE entry,
  where README.md:495 says the janitor finds it.
* `MCDeployment_lost_update`: of two topologies whose updates of `state.json` overlap, the one's
  save drops the other's ACTIVE entry, and a deletion then leaves resources that no row and no
  entry lists.
* `MCScenario_stopping`: a reconciliation at once after a fail step, on AWS, skips the server
  that is still stopping and reports RECONCILED, where README.md:581 has reconcile restart
  stopped instances.
* `MCStateStore_lost_update`: a save drops the entry another request has just added, though
  local_state_store.py:108 says it merges.
* `MCValidation_hang`: a ping that never answers keeps its call for ever after its verdict
  has been recorded at the timeout.

Read off while modelling, without a run of their own:

* After a failed deploy whose cleanup succeeds nothing in `state.json` says so, because
  `RecordFailed` comes first and `ForgetEntry` removes the entry; README.md:490 gives the
  opposite order.
* AWS: security groups are found by group name and not by tags (README.md:41); a subnet that
  was created and not tagged blocks every retry, by its CIDR, and the teardown, which refuses
  what has no tags; a deploy after a teardown that failed half way reuses what is tagged
  without restoring its routes; an instance that shuts down is reused; a gateway that was
  detached and not deleted is found by nothing; topologies of one name share a VPC.
* A fail step is SUCCESS although the stop of the server failed; a reconciliation is
  RECONCILED whatever its validation says; a run that fails only by its requirements names no
  failed step; an exception of `start_server` or `resource_exists` inside a reconciliation
  leaves the run RUNNING without its closing cleanup (README.md:52).
* The mock's streak (README.md:63, "deterministic first-N-call failures") may fail more than
  N calls when threads overlap; its server states are keyed by host name and so shared by all
  topologies.
* Availability is met by zero tests. The compiler accepts hosts without a link, which a
  deploy refuses, and on AWS firewall rules without hosts, for which a deploy has no group. A
  link of a host to itself passes the search for cycles and gives a warning of several networks.
  `cloudnet plan` prints CREATE for the gateways of later subnets on AWS for ever, although
  the docstring of `scenario_plan` says its names match the rows.
