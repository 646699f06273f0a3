---------------------------- MODULE Deployment ----------------------------
(***************************************************************************)
(* The deployment life cycle of one control-plane process                  *)
(* (backend/app/services/deployment_service.py, cleanup_janitor.py and the *)
(* deploy, delete and create handlers of routes/topology.py), on a         *)
(* provider that issues fresh ids (the non-AWS branch of deploy_topology). *)
(*                                                                         *)
(* Three stores can disagree: SQLite (topology.status and the              *)
(* deploymentresource rows), the provider (cloud) and state.json           *)
(* (snapshot).  A handler is a thread that works on all three with one     *)
(* action per commit, provider call or file operation, so that handlers    *)
(* interleave, calls fail and the process crashes at every point where     *)
(* they can in the code.                                                   *)
(***************************************************************************)
EXTENDS Naturals, Sequences, FiniteSets

CONSTANTS
    Requests,        \* threads that run request handlers
    MaxTopology,     \* topology ids are 1..MaxTopology
    Plan,            \* the compiled plan: one step per resource, in creation order
    Retries,         \* provider_max_retries()
    Operations,      \* which requests clients send
    FaultKinds,      \* which faults the environment may inject
    MaxFaults,       \* bound: faults injected in a behaviour
    MaxRequests,     \* bound: requests begun in a behaviour
    MaxGenerations   \* bound: times one topology id is created

Kinds == {"network", "subnet", "server"}
AllOperations == {"deploy", "scenario", "janitor", "delete"}
AllFaults == {"refuse", "answer", "delete", "write", "crash"}

Topologies == 1..MaxTopology
Steps == 1..Len(Plan)

\* What compile_topology guarantees: a network is created before what is attached to it.
ASSUME PlanAssumption ==
    /\ Plan \in Seq([kind : Kinds, net : Nat])
    /\ Len(Plan) > 0
    /\ \A s \in Steps :
         IF Plan[s].kind = "network"
         THEN Plan[s].net = 0
         ELSE Plan[s].net \in 1..(s - 1) /\ Plan[Plan[s].net].kind = "network"

ASSUME BoundAssumption ==
    /\ MaxTopology \in Nat \ {0}
    /\ Retries \in 0..10
    /\ MaxFaults \in Nat /\ MaxRequests \in Nat /\ MaxGenerations \in Nat
    /\ Operations \subseteq AllOperations
    /\ FaultKinds \subseteq AllFaults

Statuses == {"CREATED", "ACTIVE", "FAILED"}

\* A provider resource.  gen is the incarnation of the topology id it was made for,
\* net the id of the network it is attached to (0 for a network).
Resource == [id : Nat \ {0}, step : Steps, topo : Topologies, gen : Nat, net : Nat]

\* A deploymentresource row, and an entry of state.json's "deployments".
Row == [id : Nat, topo : Topologies, res : Resource]
Entry == [status : Statuses \cup {"NONE"}, resources : SUBSET Resource]
NoEntry == [status |-> "NONE", resources |-> {}]

Causes == {"answer", "crash", "abort", "teardown", "delete", "rowid"}

PCs == {"idle", "list", "hydrate", "insert", "relist", "finish", "create", "record",
        "activate", "collect", "snapshot", "fail", "listFailed", "recordFailed",
        "cleanup", "teardown", "drop", "reset", "forget",
        "next", "wrapup", "scan", "sweep", "strike", "mark", "delete"}

\* What a handler remembers.  seen is the status its session has loaded for the
\* topology: "EXPIRED" after a commit, until the next attribute access reloads it.  file
\* holds the state.json it has loaded, from load_state to save_state.
Handler == [op : AllOperations \cup {"none", "final"},
            topo : Topologies,
            gen : Nat,
            pc : PCs,
            seen : Statuses \cup {"ABSENT", "EXPIRED"},
            step : Nat,
            tries : 0..Retries,
            made : [Steps -> Nat],
            held : SUBSET Resource,
            listed : SUBSET Row,
            todo : SUBSET Resource,
            failed : BOOLEAN,
            nested : BOOLEAN,
            entries : [Topologies -> SUBSET Resource],
            file : SUBSET [Topologies -> Entry]]

Idle == [op |-> "none", topo |-> 1, gen |-> 0, pc |-> "idle", seen |-> "EXPIRED",
         step |-> 1, tries |-> 0, made |-> [s \in Steps |-> 0], held |-> {},
         listed |-> {}, todo |-> {}, failed |-> FALSE, nested |-> FALSE,
         entries |-> [t \in Topologies |-> {}], file |-> {}]

VARIABLES
    status,    \* Topology.status by id, "ABSENT" when there is no such row
    rows,      \* the deploymentresource table
    snapshot,  \* state.json, by topology id
    cloud,     \* the resources that exist at the provider
    req,       \* the handler each thread runs
    nextId,    \* the next id the provider issues
    gen,       \* how often each topology id has been created (observer)
    orphaned,  \* <<cause, resource>>: the program lost its last row for it (observer)
    faults,    \* faults injected so far
    begun      \* requests begun so far

vars == <<status, rows, snapshot, cloud, req, nextId, gen, orphaned, faults, begun>>
env == <<nextId, gen, faults, begun>>

Init ==
    /\ status = [t \in Topologies |-> "ABSENT"]
    /\ rows = {}
    /\ snapshot = [t \in Topologies |-> NoEntry]
    /\ cloud = {}
    /\ req = [r \in Requests |-> Idle]
    /\ nextId = 1
    /\ gen = [t \in Topologies |-> 0]
    /\ orphaned = {}
    /\ faults = 0
    /\ begun = 0

-----------------------------------------------------------------------------
(* Reading the stores *)

Exists(t) == status[t] # "ABSENT"
RowsOf(t) == {w \in rows : w.topo = t}
ResourcesOf(W) == {w.res : w \in W}
IdsOf(W) == {w.id : w \in W}
ActiveResources(t) == IF snapshot[t].status = "ACTIVE" THEN snapshot[t].resources ELSE {}
KindOf(x) == Plan[x.step].kind

\* The session finds no row when it reloads an expired topology (ObjectDeletedError).
Vanished(r) == req[r].seen = "EXPIRED" /\ ~Exists(req[r].topo)

\* The status the session holds after an attribute access.
Loaded(r) == IF req[r].seen = "EXPIRED" THEN status[req[r].topo] ELSE req[r].seen

\* The status column after `topology.status = s; commit`: the unit of work emits no
\* UPDATE when s is the value it has loaded.
Committed(r, s) ==
    IF req[r].seen = s THEN status ELSE [status EXCEPT ![req[r].topo] = s]

\* SQLite's INTEGER PRIMARY KEY without AUTOINCREMENT: the largest id in the table
\* plus one, so that ids of deleted rows at the top are used again.
IsTop(top) == /\ top = 0 \/ \E w \in rows : w.id = top
              /\ \A w \in rows : w.id <= top

Inserted(S, t, top) ==
    {[id |-> top + Cardinality({y \in S : y.id <= x.id}), topo |-> t, res |-> x] : x \in S}

Tops == {0} \cup IdsOf(rows)

Fault(kind) ==
    /\ kind \in FaultKinds
    /\ faults < MaxFaults
    /\ faults' = faults + 1
    /\ UNCHANGED <<nextId, gen, begun>>

\* The handler on thread r moves on.
Becomes(r, handler) == req' = [req EXCEPT ![r] = handler]

-----------------------------------------------------------------------------
(* Updates of state.json: load the whole file, change the entry of the handler's topology,
   save the whole file.  Nothing keeps another handler from saving in between. *)

Saving == {"snapshot", "recordFailed", "forget", "strike"}

LoadState(r) ==
    /\ req[r].pc \in Saving
    /\ req[r].file = {}
    /\ ~Vanished(r)
    /\ Becomes(r, [req[r] EXCEPT !.file = {snapshot}, !.seen = Loaded(r)])
    /\ UNCHANGED <<status, rows, snapshot, cloud, orphaned, env>>

\* What the file holds after save_state.  A removal saves only what it has changed.
Saved(f, t, entry) ==
    IF entry = NoEntry /\ f[t] = NoEntry THEN snapshot ELSE [f EXCEPT ![t] = entry]

\* save_state, best effort: its exceptions are logged and dropped.
WriteEntry(r, entry) ==
    \E f \in req[r].file :
        \/ snapshot' = Saved(f, req[r].topo, entry) /\ UNCHANGED env
        \/ Fault("write") /\ UNCHANGED snapshot

-----------------------------------------------------------------------------
(* Requests begin and end.  A scenario runs inside an `async def` handler and
   blocks the event loop, so nothing else begins until it has ended. *)

LoopFree == \A r \in Requests : req[r].op \notin {"scenario", "final"}

Begin(r, op) ==
    /\ op \in Operations
    /\ req[r].pc = "idle"
    /\ LoopFree
    /\ begun < MaxRequests
    /\ begun' = begun + 1
    /\ UNCHANGED <<status, rows, snapshot, cloud, nextId, gen, orphaned, faults>>

\* How a handler goes on when an operation has ended "ok", "failed" (DeploymentError)
\* or "raised" (anything else).  Only a scenario goes on: _load_topology must find
\* the topology, but overwrites no status that the session has loaded.
Ended(r, result) ==
    IF req[r].op = "scenario" /\ result # "raised" /\ Exists(req[r].topo)
    THEN [Idle EXCEPT !.op = "scenario", !.topo = req[r].topo,
                      !.pc = IF result = "ok" THEN "next" ELSE "wrapup",
                      !.seen = Loaded(r)]
    ELSE Idle

\* The handler gives up with an unexpected exception.
Raise(r) == Becomes(r, Ended(r, "raised"))

\* How a cleanup ends: the one inside a failed deploy never hides the DeploymentError.
CleanupEnds(r, result) ==
    Becomes(r, Ended(r, IF req[r].nested THEN "failed" ELSE result))

BeginDeploy(r, t) ==
    /\ Begin(r, "deploy")
    /\ Exists(t)
    /\ Becomes(r, [Idle EXCEPT !.op = "deploy", !.topo = t, !.pc = "list"])

BeginScenario(r, t) ==
    /\ Begin(r, "scenario")
    /\ Exists(t)
    /\ Becomes(r, [Idle EXCEPT !.op = "scenario", !.topo = t, !.pc = "next",
                                              !.seen = status[t]])

\* One step of a running scenario: deploy, cleanup, the cleanup that closes the run
\* (cleanup_after_run, or cleanup_on_failure after a failed step), or its end.  The run's
\* results are committed before that last cleanup; a second attempt at it, after one that
\* raised, finds the topology still gone.
ScenarioStep(r) ==
    /\ req[r].pc \in {"next", "wrapup"}
    /\ \/ /\ req[r].pc = "next"
          /\ begun < MaxRequests
          /\ begun' = begun + 1
          /\ \/ Becomes(r, [req[r] EXCEPT !.pc = "list"])
             \/ Becomes(r, [req[r] EXCEPT !.pc = "cleanup"])
       \/ /\ Becomes(r, [req[r] EXCEPT !.pc = "cleanup", !.op = "final", !.seen = "EXPIRED"])
          /\ UNCHANGED begun
       \/ /\ Becomes(r, Idle)
          /\ UNCHANGED begun
    /\ UNCHANGED <<status, rows, snapshot, cloud, nextId, gen, orphaned, faults>>

-----------------------------------------------------------------------------
(* deploy_topology: is there anything to do? *)

\* Mutant: the check of the deployment rows is dropped.
NeverHasRows(t) == FALSE

\* `if existing:`
HasRows(t) == RowsOf(t) # {}

ListRows(r) ==
    LET t == req[r].topo IN
    /\ req[r].pc = "list"
    /\ \/ Vanished(r) /\ Raise(r)
       \/ /\ ~Vanished(r)
          /\ Becomes(r, [req[r] EXCEPT !.pc = IF HasRows(t) THEN "finish" ELSE "hydrate",
                                !.seen = Loaded(r),
                                !.gen = gen[t],
                                !.listed = RowsOf(t)])
    /\ UNCHANGED <<status, rows, snapshot, cloud, orphaned, env>>

\* resources_from_local_state: the ACTIVE entry under this topology id, if any.
ReadSnapshot(r) ==
    LET found == ActiveResources(req[r].topo) IN
    /\ req[r].pc = "hydrate"
    /\ Becomes(r, [req[r] EXCEPT !.pc = IF found = {} THEN "relist" ELSE "insert",
                          !.todo = found])
    /\ UNCHANGED <<status, rows, snapshot, cloud, orphaned, env>>

\* The hydrated rows and status ACTIVE in one commit.  Without a topology row the UPDATE
\* fails and nothing is inserted; when there is nothing to update the rows go in.
InsertRows(r) ==
    LET t == req[r].topo IN
    /\ req[r].pc = "insert"
    /\ \/ /\ ~Exists(t) /\ req[r].seen # "ACTIVE"
          /\ Raise(r)
          /\ UNCHANGED <<status, rows>>
       \/ /\ ~Exists(t) /\ req[r].seen = "ACTIVE"
          /\ \E top \in Tops : IsTop(top) /\ rows' = rows \cup Inserted(req[r].todo, t, top)
          /\ Raise(r)
          /\ UNCHANGED status
       \/ /\ Exists(t)
          /\ \E top \in Tops : IsTop(top) /\ rows' = rows \cup Inserted(req[r].todo, t, top)
          /\ status' = Committed(r, "ACTIVE")
          /\ Becomes(r, [req[r] EXCEPT !.pc = "relist", !.todo = {}, !.seen = status'[t]])
    /\ UNCHANGED <<snapshot, cloud, orphaned, env>>

Relist(r) ==
    LET t == req[r].topo IN
    /\ req[r].pc = "relist"
    /\ Becomes(r, [req[r] EXCEPT !.pc = IF HasRows(t) THEN "finish" ELSE "create",
                          !.listed = RowsOf(t)])
    /\ UNCHANGED <<status, rows, snapshot, cloud, orphaned, env>>

\* _finish_idempotent_deploy up to the snapshot.  The commit expires the rows it was
\* given; reading them again raises if one is gone, with status ACTIVE committed.
FinishIdempotent(r) ==
    LET t == req[r].topo
        again == {w \in rows : w.id \in IdsOf(req[r].listed)} IN
    /\ req[r].pc = "finish"
    /\ \/ ~Exists(t) /\ Raise(r) /\ UNCHANGED status
       \/ /\ Exists(t)
          /\ status' = Committed(r, "ACTIVE")
          /\ \/ /\ IdsOf(again) = IdsOf(req[r].listed)
                /\ Becomes(r, [req[r] EXCEPT !.pc = "snapshot", !.listed = again,
                                      !.seen = status'[t]])
             \/ IdsOf(again) # IdsOf(req[r].listed) /\ Raise(r)
    /\ UNCHANGED <<rows, snapshot, cloud, orphaned, env>>

\* record_deploy_snapshot, on both the fresh and the idempotent path.
WriteSnapshot(r) ==
    /\ req[r].pc = "snapshot"
    /\ WriteEntry(r, [status |-> req[r].seen, resources |-> ResourcesOf(req[r].listed)])
    /\ Becomes(r, Ended(r, "ok"))
    /\ UNCHANGED <<status, rows, cloud, orphaned>>

-----------------------------------------------------------------------------
(* deploy_topology: the create loop *)

\* What create_network, create_subnet or create_server returns for the current step.
NewResource(r) ==
    LET q == req[r] IN
    [id |-> nextId, step |-> q.step, topo |-> q.topo, gen |-> q.gen,
     net |-> IF Plan[q.step].net = 0 THEN 0 ELSE q.made[Plan[q.step].net]]

\* The provider refuses to attach to a network that is gone, and to delete a network
\* that something is attached to.
Attachable(x) == x.net = 0 \/ \E y \in cloud : y.id = x.net
Blocked(x) == KindOf(x) = "network" /\ \E y \in cloud : y.net = x.id

Create(r) ==
    /\ req[r].pc = "create"
    /\ Attachable(NewResource(r))
    /\ cloud' = cloud \cup {NewResource(r)}
    /\ nextId' = nextId + 1
    /\ Becomes(r, [req[r] EXCEPT !.pc = "record", !.held = {NewResource(r)}, !.tries = 0])
    /\ UNCHANGED <<status, rows, snapshot, gen, orphaned, faults, begun>>

\* Mutants: one attempt too many, and an error that is swallowed.
RetryOnceMore(r) ==
    \/ /\ req[r].tries <= Retries
       /\ Becomes(r, [req[r] EXCEPT !.tries = @ + 1])
    \/ Becomes(r, [req[r] EXCEPT !.pc = "fail"])

SwallowError(r) == Becomes(r, [req[r] EXCEPT !.pc = "activate"])

\* call_with_retry: a retryable error is tried again until the retries are used up.
RetryOrFail(r) ==
    \/ /\ req[r].tries < Retries
       /\ Becomes(r, [req[r] EXCEPT !.tries = @ + 1])
    \/ Becomes(r, [req[r] EXCEPT !.pc = "fail"])

CreateRefused(r) ==
    /\ req[r].pc = "create"
    /\ \/ Fault("refuse") /\ RetryOrFail(r)
       \/ /\ ~Attachable(NewResource(r))
          /\ Becomes(r, [req[r] EXCEPT !.pc = "fail"])
          /\ UNCHANGED env
    /\ UNCHANGED <<status, rows, snapshot, cloud, orphaned>>

\* The provider creates the resource and its answer is lost: the call raises.
CreateUnanswered(r) ==
    LET x == NewResource(r) IN
    /\ req[r].pc = "create"
    /\ Attachable(x)
    /\ "answer" \in FaultKinds
    /\ faults < MaxFaults
    /\ faults' = faults + 1
    /\ cloud' = cloud \cup {x}
    /\ nextId' = nextId + 1
    /\ orphaned' = orphaned \cup {<<"answer", x>>}
    /\ RetryOrFail(r)
    /\ UNCHANGED <<status, rows, snapshot, gen, begun>>

\* The row of the resource just created.  Building it reads topology.id, which raises
\* when the topology was deleted since the session's last commit.
RecordRow(r) ==
    LET q == req[r] IN
    /\ q.pc = "record"
    /\ \/ /\ Vanished(r)
          /\ orphaned' = orphaned \cup {<<"abort", x>> : x \in q.held}
          /\ Raise(r)
          /\ UNCHANGED rows
       \/ /\ ~Vanished(r)
          /\ \E top \in Tops :
               IsTop(top) /\ rows' = rows \cup {[id |-> top + 1, topo |-> q.topo, res |-> x] :
                                                x \in q.held}
          /\ \E x \in q.held :
               Becomes(r, [req[r] EXCEPT !.pc = IF q.step = Len(Plan) THEN "activate" ELSE "create",
                                  !.step = q.step + 1,
                                  !.made = [@ EXCEPT ![q.step] = x.id],
                                  !.held = {},
                                  !.seen = "EXPIRED"])
          /\ UNCHANGED orphaned
    /\ UNCHANGED <<status, snapshot, cloud, env>>

\* The whole plan exists: status ACTIVE, committed and read back.
Activate(r) ==
    LET t == req[r].topo IN
    /\ req[r].pc = "activate"
    /\ \/ ~Exists(t) /\ Raise(r) /\ UNCHANGED status
       \/ /\ Exists(t)
          /\ status' = Committed(r, "ACTIVE")
          /\ Becomes(r, [req[r] EXCEPT !.pc = "collect", !.seen = status'[t]])
    /\ UNCHANGED <<rows, snapshot, cloud, orphaned, env>>

\* Mutant: the snapshot lists what was listed before the create loop.
CollectStale(r) ==
    /\ req[r].pc = "collect"
    /\ Becomes(r, [req[r] EXCEPT !.pc = "snapshot"])
    /\ UNCHANGED <<status, rows, snapshot, cloud, orphaned, env>>

\* The rows the snapshot will list, read before the file is written.
CollectRows(r) ==
    /\ req[r].pc = "collect"
    /\ Becomes(r, [req[r] EXCEPT !.pc = "snapshot", !.listed = RowsOf(req[r].topo)])
    /\ UNCHANGED <<status, rows, snapshot, cloud, orphaned, env>>

-----------------------------------------------------------------------------
(* deploy_topology: the except branch *)

\* Every way through it without a topology row raises out of the handler.
MarkFailed(r) ==
    LET t == req[r].topo IN
    /\ req[r].pc = "fail"
    /\ \/ ~Exists(t) /\ Raise(r) /\ UNCHANGED status
       \/ /\ Exists(t)
          /\ status' = Committed(r, "FAILED")
          /\ Becomes(r, [req[r] EXCEPT !.pc = "listFailed", !.seen = "EXPIRED"])
    /\ UNCHANGED <<rows, snapshot, cloud, orphaned, env>>

\* The partial rows.
ListFailed(r) ==
    /\ req[r].pc = "listFailed"
    /\ \/ Vanished(r) /\ Raise(r)
       \/ /\ ~Vanished(r)
          /\ Becomes(r, [req[r] EXCEPT !.pc = "recordFailed", !.listed = RowsOf(req[r].topo),
                                !.seen = Loaded(r)])
    /\ UNCHANGED <<status, rows, snapshot, cloud, orphaned, env>>

\* Record them as FAILED, and clean up if there are any.
RecordFailed(r) ==
    /\ req[r].pc = "recordFailed"
    /\ WriteEntry(r, [status |-> "FAILED", resources |-> ResourcesOf(req[r].listed)])
    /\ \/ req[r].listed = {} /\ Becomes(r, Ended(r, "failed"))
       \/ /\ req[r].listed # {}
          /\ Becomes(r, [req[r] EXCEPT !.pc = "cleanup", !.nested = TRUE, !.file = {}])
    /\ UNCHANGED <<status, rows, cloud, orphaned>>

-----------------------------------------------------------------------------
(* cleanup_topology_deployment *)

CleanupList(r) ==
    LET t == req[r].topo IN
    /\ req[r].pc = "cleanup"
    /\ \/ Vanished(r) /\ CleanupEnds(r, "raised")
       \/ /\ ~Vanished(r)
          /\ Becomes(r, [req[r] EXCEPT !.pc = IF RowsOf(t) = {} THEN "reset" ELSE "teardown",
                                !.listed = RowsOf(t),
                                !.todo = ResourcesOf(RowsOf(t)),
                                !.failed = FALSE,
                                !.seen = Loaded(r)])
    /\ UNCHANGED <<status, rows, snapshot, cloud, orphaned, env>>

\* Mutant: creation order.
TierReversed(x) == CASE KindOf(x) = "network" -> 0
                     [] KindOf(x) = "subnet" -> 1
                     [] OTHER -> 4

\* _deployment_resource_delete_order: servers, then subnets, then networks.
Tier(x) == CASE KindOf(x) = "server" -> 0
             [] KindOf(x) = "subnet" -> 1
             [] OTHER -> 4

IsNextDelete(r, x) == x \in req[r].todo /\ \A y \in req[r].todo : Tier(x) <= Tier(y)

\* One provider delete of teardown_provider_resources, for a cleanup ("teardown") or the
\* janitor ("sweep").  Deleting what is already gone succeeds.
DeleteOne(r) ==
    /\ req[r].pc \in {"teardown", "sweep"}
    /\ \E x \in req[r].todo :
         /\ IsNextDelete(r, x)
         /\ ~Blocked(x)
         /\ cloud' = cloud \ {x}
         /\ Becomes(r, [req[r] EXCEPT !.todo = @ \ {x},
                               !.pc = IF req[r].todo # {x} THEN @
                                         ELSE IF @ = "teardown" THEN "drop" ELSE "strike"])
    /\ UNCHANGED <<status, rows, snapshot, orphaned, env>>

\* The first delete that raises ends the teardown.  A cleanup logs it and goes on to
\* forget the rows; the janitor keeps the entry and goes to the next one.
DeleteFails(r) ==
    /\ req[r].pc \in {"teardown", "sweep"}
    /\ \E x \in req[r].todo :
         /\ IsNextDelete(r, x)
         /\ Fault("delete") \/ (Blocked(x) /\ UNCHANGED env)
    /\ Becomes(r, [req[r] EXCEPT !.pc = IF @ = "teardown" THEN "drop" ELSE "scan",
                          !.failed = TRUE,
                          !.todo = {}])
    /\ UNCHANGED <<status, rows, snapshot, cloud, orphaned>>

\* Mutants: every row the topology has by now; every row there is.
DroppedByTopology(r) == RowsOf(req[r].topo)
DroppedUnfiltered(r) == rows

\* The rows a cleanup or the cascade of delete_topology deletes: by the ids it has listed.
Dropped(r) == {w \in rows : w.id \in IdsOf(req[r].listed)}

\* What deleting the listed rows by id loses of what is live: rows whose teardown did
\* not succeed, and rows of somebody else that have been given a listed id since.
Lost(r, cause) ==
    LET gone == {w \in rows : w.id \in IdsOf(req[r].listed)} IN
    {<<cause, w.res>> : w \in gone \cap req[r].listed}
    \cup {<<"rowid", w.res>> : w \in gone \ req[r].listed}

DropRows(r) ==
    /\ req[r].pc = "drop"
    /\ rows' = rows \ Dropped(r)
    /\ orphaned' = orphaned \cup {o \in Lost(r, "teardown") :
                                     o[2] \in cloud /\ (o[1] = "teardown" => req[r].failed)}
    /\ Becomes(r, [req[r] EXCEPT !.pc = "reset", !.seen = "EXPIRED"])
    /\ UNCHANGED <<status, snapshot, cloud, env>>

\* Status CREATED.  After dropping rows the session reads the topology back at once;
\* when there were none it does so only for remove_local_deployment.
ResetStatus(r) ==
    LET t == req[r].topo
        skipped == req[r].listed = {} IN
    /\ req[r].pc = "reset"
    /\ \/ /\ ~Exists(t)
          /\ CleanupEnds(r, IF skipped /\ req[r].seen = "CREATED" THEN "ok" ELSE "raised")
          /\ UNCHANGED status
       \/ /\ Exists(t)
          /\ status' = Committed(r, "CREATED")
          /\ Becomes(r, [req[r] EXCEPT !.pc = "forget",
                                !.seen = IF skipped THEN "EXPIRED" ELSE status'[t]])
    /\ UNCHANGED <<rows, snapshot, cloud, orphaned, env>>

\* Mutant: the entry stays in state.json.
ForgetNothing(r) ==
    /\ req[r].pc = "forget"
    /\ CleanupEnds(r, "ok")
    /\ UNCHANGED <<status, rows, snapshot, cloud, orphaned, env>>

ForgetEntry(r) ==
    /\ req[r].pc = "forget"
    /\ \/ Vanished(r) /\ UNCHANGED <<snapshot, env>>
       \/ WriteEntry(r, NoEntry)
    /\ CleanupEnds(r, "ok")
    /\ UNCHANGED <<status, rows, cloud, orphaned>>

-----------------------------------------------------------------------------
(* routes/topology.py: create and delete a topology *)

\* The id is one above the largest id in the table, so that the id of the newest
\* topology is used again after its deletion.
CreateTopology(t) ==
    /\ \A u \in Topologies : (Exists(u) => u < t) /\ (u = t - 1 => Exists(u))
    /\ gen[t] < MaxGenerations
    /\ gen' = [gen EXCEPT ![t] = @ + 1]
    /\ status' = [status EXCEPT ![t] = "CREATED"]
    /\ UNCHANGED <<rows, snapshot, cloud, req, nextId, orphaned, faults, begun>>

\* delete_topology: the cascade reads the rows, then deletes them with the topology.
\* Neither the provider nor state.json is told.
BeginDelete(r, t) ==
    /\ Begin(r, "delete")
    /\ Exists(t)
    /\ Becomes(r, [Idle EXCEPT !.op = "delete", !.topo = t, !.pc = "delete",
                                              !.listed = RowsOf(t)])

DeleteTopology(r) ==
    /\ req[r].pc = "delete"
    /\ rows' = rows \ Dropped(r)
    /\ status' = [status EXCEPT ![req[r].topo] = "ABSENT"]
    /\ orphaned' = orphaned \cup {o \in Lost(r, "delete") : o[2] \in cloud}
    /\ Becomes(r, Idle)
    /\ UNCHANGED <<snapshot, cloud, env>>

-----------------------------------------------------------------------------
(* run_cleanup_janitor: one read of state.json, then entry by entry *)

BeginJanitor(r) ==
    /\ Begin(r, "janitor")
    /\ Becomes(r, [Idle EXCEPT !.op = "janitor", !.pc = "scan",
                                  !.entries = [t \in Topologies |-> ActiveResources(t)]])

\* Mutants: every entry counts as orphaned; an entry is not removed from the work list.
NothingBacked(t) == FALSE
ScannedAgain(r, t) == req[r].entries

\* The janitor's rows check, and the entries left to scan after t.
Backed(t) == RowsOf(t) # {}
Scanned(r, t) == [req[r].entries EXCEPT ![t] = {}]

\* The next entry of the loaded state: skipped when the topology has rows.
JanitorScan(r) ==
    /\ req[r].pc = "scan"
    /\ \E t \in Topologies :
         /\ req[r].entries[t] # {}
         /\ Becomes(r, [req[r] EXCEPT !.entries = Scanned(r, t),
                               !.topo = t,
                               !.seen = status[t],
                               !.pc = IF Backed(t) THEN "scan" ELSE "sweep",
                               !.todo = IF Backed(t) THEN {} ELSE req[r].entries[t]])
    /\ UNCHANGED <<status, rows, snapshot, cloud, orphaned, env>>

\* Remove the entry, whatever it is by now; a write error leaves the status alone.
JanitorStrike(r) ==
    /\ req[r].pc = "strike"
    /\ WriteEntry(r, NoEntry)
    /\ Becomes(r, [req[r] EXCEPT !.pc = IF req[r].seen = "ABSENT" \/ faults' # faults
                                       THEN "scan" ELSE "mark",
                          !.file = {}])
    /\ UNCHANGED <<status, rows, cloud, orphaned>>

\* Status CREATED.  An UPDATE that finds no topology leaves the session unusable: the next
\* listing raises out of the janitor.
JanitorMark(r) ==
    /\ req[r].pc = "mark"
    /\ \/ /\ Exists(req[r].topo) \/ req[r].seen = "CREATED"
          /\ status' = Committed(r, "CREATED")
          /\ Becomes(r, [req[r] EXCEPT !.pc = "scan"])
       \/ /\ ~Exists(req[r].topo) /\ req[r].seen # "CREATED"
          /\ Becomes(r, Idle)
          /\ UNCHANGED status
    /\ UNCHANGED <<rows, snapshot, cloud, orphaned, env>>

EndJanitor(r) ==
    /\ req[r].pc = "scan"
    /\ \A t \in Topologies : req[r].entries[t] = {}
    /\ Becomes(r, Idle)
    /\ UNCHANGED <<status, rows, snapshot, cloud, orphaned, env>>

-----------------------------------------------------------------------------
\* The process dies: handlers are gone, the three stores stay as they are.
Crash ==
    /\ Fault("crash")
    /\ \E r \in Requests : req[r].pc # "idle"
    /\ orphaned' = orphaned \cup {<<"crash", x>> : x \in UNION {req[r].held : r \in Requests}}
    /\ req' = [r \in Requests |-> Idle]
    /\ UNCHANGED <<status, rows, snapshot, cloud>>

DeployStep(r) ==
    \/ ListRows(r) \/ ReadSnapshot(r) \/ InsertRows(r) \/ Relist(r)
    \/ FinishIdempotent(r) \/ WriteSnapshot(r)
    \/ Create(r) \/ CreateRefused(r) \/ CreateUnanswered(r) \/ RecordRow(r)
    \/ Activate(r) \/ CollectRows(r) \/ MarkFailed(r) \/ ListFailed(r) \/ RecordFailed(r)

CleanupStep(r) ==
    \/ CleanupList(r) \/ DeleteOne(r) \/ DeleteFails(r) \/ DropRows(r)
    \/ ResetStatus(r) \/ ForgetEntry(r)

JanitorStep(r) == JanitorScan(r) \/ JanitorStrike(r) \/ JanitorMark(r) \/ EndJanitor(r)

\* What the thread of an admitted request does next.
Step(r) ==
    \/ ScenarioStep(r) \/ DeployStep(r) \/ CleanupStep(r) \/ DeleteTopology(r) \/ JanitorStep(r)
    \/ LoadState(r)

Arrive(r) ==
    \/ \E t \in Topologies : BeginDeploy(r, t) \/ BeginScenario(r, t) \/ BeginDelete(r, t)
    \/ BeginJanitor(r)

AllIdle == \A r \in Requests : req[r].pc = "idle"

\* No request is running and none needs to come: the server may rest here for ever.
Rest == AllIdle /\ UNCHANGED vars

Next ==
    \/ \E t \in Topologies : CreateTopology(t)
    \/ \E r \in Requests : Arrive(r) \/ Step(r)
    \/ Crash
    \/ Rest

Spec == Init /\ [][Next]_vars

\* Threads are scheduled and provider calls return or raise.
FairSpec == Spec /\ \A r \in Requests : WF_vars(Step(r))

-----------------------------------------------------------------------------
(* What the server leaves to its clients: nothing makes two handlers of one topology wait
   for each other, or anybody for the janitor, or for an update of state.json to end.  The
   janitor is at work on the topology whose entry it has taken up. *)

AtWork(h) == h.pc \notin {"idle", "scan"}

Quiet(t) == \A r \in Requests : AtWork(req[r]) => req[r].topo # t

TakeTurns ==
    \A q, r \in Requests :
        q # r /\ AtWork(req[q]) /\ AtWork(req[r]) => req[q].topo # req[r].topo

JanitorPCs == {"scan", "sweep", "strike", "mark"}

\* Nothing else is under way while the janitor works on what it has read of state.json.
JanitorAlone ==
    \A q, r \in Requests : q # r /\ req[q].pc \in JanitorPCs => req[r].pc = "idle"

\* No handler loads state.json to change it while another is about to save it.
UpdatesApart == \A q, r \in Requests : q # r => req[q].file = {} \/ req[r].file = {}

-----------------------------------------------------------------------------
(* Properties *)

HandlerOK(h) ==
    /\ h \in Handler
    /\ IsFiniteSet(h.listed)
    /\ IsFiniteSet(h.todo)
    /\ \A t \in Topologies : IsFiniteSet(h.entries[t])
    /\ \A f \in h.file, t \in Topologies : IsFiniteSet(f[t].resources)

\* Every variable holds a value the code can store in it, and the sets are finite.
TypeOK ==
    /\ status \in [Topologies -> Statuses \cup {"ABSENT"}]
    /\ rows \subseteq Row /\ IsFiniteSet(rows)
    /\ snapshot \in [Topologies -> Entry]
    /\ \A t \in Topologies : IsFiniteSet(snapshot[t].resources)
    /\ cloud \subseteq Resource
    /\ req \in [Requests -> Handler]
    /\ \A r \in Requests : HandlerOK(req[r])
    /\ nextId \in Nat \ {0}
    /\ gen \in [Topologies -> Nat]
    /\ orphaned \subseteq Causes \X Resource
    /\ faults \in Nat
    /\ begun \in Nat

Recorded(x) == \E w \in rows : w.res = x
InFlight(x) == \E r \in Requests : x \in req[r].held
Orphaned(x) == \E c \in Causes : <<c, x>> \in orphaned

\* Whatever exists at the provider is in a deploymentresource row, or in the hands of a
\* handler that is about to record it, or was lost to one of six causes: an answer that
\* never came, a crash or an abort between create and commit, a failed teardown, the
\* deletion of its topology, a reused row id.  No interleaving of deploys, cleanups,
\* janitor runs and deletions loses a resource in another way, whoever hydrated, listed
\* or overwrote what in between.
Accounted == \A x \in cloud : Recorded(x) \/ InFlight(x) \/ Orphaned(x)

\* A teardown that is not hit by a provider fault is stopped only by a resource that is
\* not on its list: the delete order never makes it block itself.
RefusedOnlyByStrangers ==
    [][\A r \in Requests :
         req[r].pc \in {"teardown", "sweep"} /\ req'[r].failed /\ ~req[r].failed
            /\ faults' = faults
         => \E y \in cloud : KindOf(y) # "network" /\ y \notin req[r].todo]_vars

\* A topology that no handler works on has all of its plan or nothing: ACTIVE with exactly
\* one recorded live resource per step, anything else with no row.
AllOrNothing ==
    \A t \in Topologies : Quiet(t) =>
        /\ status[t] = "ACTIVE" =>
              /\ \A s \in Steps : \E w \in RowsOf(t) : w.res.step = s /\ w.res \in cloud
              /\ \A v, w \in RowsOf(t) : v.res.step = w.res.step => v = w
        /\ status[t] # "ACTIVE" => RowsOf(t) = {}

\* Repeated runs create no second set of resources: two rows of a topology are never
\* for the same step of its plan.
NoDuplicates ==
    \A v, w \in rows : v.topo = w.topo /\ v.res.step = w.res.step => v.res = w.res

\* Of a topology that no handler works on, nothing is left at the provider that no row lists.
NoOrphans == \A x \in cloud : Quiet(x.topo) => Recorded(x)

\* state.json says of each topology that no handler works on what SQLite says: an ACTIVE
\* entry with the ids of its rows, or no ACTIVE entry at all.
SnapshotAgrees ==
    \A t \in Topologies : Quiet(t) => ActiveResources(t) = ResourcesOf(RowsOf(t))

\* CloudNet can still delete whatever is at the provider: a row lists it, for a cleanup, or
\* an ACTIVE entry of state.json does, for the janitor or for the next deploy to hydrate
\* from, or the handler that has created it is about to record it.
Reclaimable ==
    \A x \in cloud :
        Recorded(x) \/ InFlight(x) \/ \E t \in Topologies : x \in ActiveResources(t)

\* The janitor never deletes a resource that a row lists.
JanitorSparesRecorded ==
    [][\A r \in Requests, x \in cloud :
         req[r].pc = "sweep" /\ x \in req[r].todo /\ x \notin cloud' => ~Recorded(x)]_vars

\* A row is about a resource made for the topology that has its id today.
RowsOfThisTopology == \A w \in rows : Exists(w.topo) => w.res.gen = gen[w.topo]

\* A cleanup or the deletion of a topology removes rows of its own topology only.
CleanupKeepsOthers ==
    [][\A r \in Requests, w \in rows :
         req[r].pc \in {"drop", "delete"} /\ req'[r] # req[r] /\ w \notin rows'
            => w.topo = req[r].topo]_vars

\* What a crash left behind at the provider is listed in an ACTIVE entry of state.json,
\* where the janitor looks for it.
CrashOrphansListed ==
    \A o \in orphaned : o[1] = "crash" /\ o[2] \in cloud =>
        \E t \in Topologies : o[2] \in ActiveResources(t)

\* Every admitted request ends.
RequestsEnd == \A r \in Requests : req[r].pc # "idle" ~> req[r].pc = "idle"

=============================================================================
