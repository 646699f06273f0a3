------------------------------ MODULE Scenario ------------------------------
(***************************************************************************)
(* A scenario run (backend/app/services/scenario_service.py) over the      *)
(* servers of one topology: its steps call failure injection               *)
(* (failure_service.py), drift detection (drift_service.py),               *)
(* reconciliation (control_plane_service.py) and validation, which read    *)
(* and repair the servers one by one while requests admitted earlier stop  *)
(* and start them.  The run keeps records of its steps, a clock of the     *)
(* recovery and a verdict, and ends with the cleanup that was asked for.   *)
(*                                                                         *)
(* The steps of the scenario are chosen as it goes.  Deployment.tla and    *)
(* Validation.tla have the inside of a deploy, a cleanup and a validation. *)
(***************************************************************************)
EXTENDS Naturals, Sequences

CONSTANTS
    Hosts,
    Tested,     \* the pairs of hosts that a validation pings
    MaxSteps,   \* bound: steps of a scenario
    MaxDisturbances \* bound: calls that fail, and stops and starts by other requests

ASSUME ScenarioAssumption == Tested # {} /\ Tested \subseteq Hosts \X Hosts
ASSUME ScenarioBoundAssumption == {MaxSteps, MaxDisturbances} \subseteq Nat

VARIABLES
    pc,         \* where the runner is
    closing,    \* input, chosen when it is read: cleanup never, after a failure, or always
    limited,    \* input, chosen when it is read: the recovery time is limited
    instant,    \* input: the provider is the mock, which stops and starts servers at once
    step,       \* the step under way
    todo,       \* what its loop has still to look at
    bad,        \* what its loop has found so far: drift, or a failed ping
    starting,   \* the host that a reconciliation has found stopped and is about to start
    started,    \* started_instances of the reconciliation
    log,        \* step_records
    ok,         \* overall_ok
    met,        \* req_ok, the verdict on the requirements
    clock,      \* failure_perf, reconcile_after_failure, recovery_seconds
    attempts,   \* attempts at the closing cleanup
    run,        \* the scenariorun row: its status
    rows,       \* hosts that have a deploymentresource row
    entry,      \* state.json has an ACTIVE entry that lists the servers
    server,     \* the provider's servers
    was,        \* conditions each host has been in since the step began (observer)
    misread,    \* a call has failed since the step began (observer)
    disturbed   \* disturbances so far

input == <<closing, limited, instant>>
repair == <<starting, started>>
runner == <<input, step, todo, bad, repair, log, ok, met, clock, attempts, run>>
provider == <<rows, entry, server>>
vars == <<pc, runner, provider, was, misread, disturbed>>

NoStep == [action |-> "none", expected |-> "none"]
NoClock == [failed |-> 0, reconciled |-> FALSE, recovery |-> <<>>]

Init ==
    /\ pc = "idle"
    /\ closing = "none" /\ limited = FALSE /\ instant \in BOOLEAN
    /\ step = NoStep /\ todo = {} /\ bad = FALSE
    /\ starting = {} /\ started = {}
    /\ log = <<>> /\ ok = TRUE /\ met = TRUE /\ clock = NoClock
    /\ attempts = 0
    /\ run = "none"
    /\ rows = {} /\ entry = FALSE
    /\ server = [h \in Hosts |-> "absent"]
    /\ was = [h \in Hosts |-> {}]
    /\ misread = FALSE
    /\ disturbed = 0

-----------------------------------------------------------------------------
(* Records, readings and faults *)

Conditions == {"absent", "pending", "running", "stopping", "stopped"}
Condition(h) == IF h \in rows THEN server[h] ELSE "absent"
Up(h) == Condition(h) = "running"

\* stop_server and start_server on AWS return while the server is on its way; they change
\* nothing when there is nothing to do, and raise when the server is on the way back.
Halted(h) == IF server[h] # "running" THEN server[h] ELSE IF instant THEN "stopped" ELSE "stopping"
Revived(h) == IF server[h] # "stopped" THEN server[h] ELSE IF instant THEN "running" ELSE "pending"

\* The observers: what hosts have been like since a step that reads them began, and after
\* this step.
Reading == pc \in {"drift", "repair", "await", "validate"}
Observes == was' = [h \in Hosts |-> IF Reading' THEN was[h] \cup {Condition(h)'} ELSE {}]
StartsToObserve == was' = [h \in Hosts |-> {Condition(h)}] /\ misread' = FALSE

Disturb == disturbed < MaxDisturbances /\ disturbed' = disturbed + 1
Fault == Disturb /\ misread' = TRUE
NoFault == UNCHANGED <<disturbed, misread>>

Record(action, expected, actual, passed) ==
    [action |-> action, expected |-> expected, actual |-> actual, passed |-> passed]

Now == Len(log) + 1

\* push_step, and `if not ok: overall_ok = False`.
Pushes(actual, passed) ==
    /\ log' = Append(log, Record(step.action, step.expected, actual, passed))
    /\ ok' = (ok /\ passed)
    /\ step' = NoStep

Unchanged == UNCHANGED <<input, met, attempts, run>>

-----------------------------------------------------------------------------
(* The run *)

\* _create_scenario_run_placeholder.  The scenario has a deploy step or gets an implicit one.
Begin ==
    /\ pc = "idle" /\ run = "none"
    /\ run' = "RUNNING"
    /\ \/ pc' = "steps" /\ UNCHANGED step
       \/ pc' = "deploy" /\ step' = [action |-> "deploy", expected |-> "ACTIVE"]
    /\ UNCHANGED <<input, todo, bad, repair, log, ok, met, clock, attempts, provider, was, misread,
                   disturbed>>

Takes(next, action, expected, set) ==
    /\ pc' = next
    /\ step' = [action |-> action, expected |-> expected]
    /\ todo' = set
    /\ bad' = FALSE
    /\ UNCHANGED <<log, ok, clock>>

\* The next step of the scenario.
TakeStep ==
    /\ pc = "steps" /\ Len(log) < MaxSteps
    /\ \/ Takes("deploy", "deploy", "ACTIVE", {})
       \/ \E e \in {"PASSED", "FAILED"} : Takes("validate", "validate", e, Tested)
       \/ \E h \in Hosts : Takes("fail", "fail", "SUCCESS", {h})
       \/ \E e \in {"DETECTED", "CLEAN"} : Takes("drift", "drift", e, Hosts)
       \/ Takes("drift", "reconcile", "RECONCILED", Hosts)
       \/ Takes("cleanup", "cleanup", "CLEANED", {})
    /\ StartsToObserve
    /\ UNCHANGED <<repair, provider, disturbed>> /\ Unchanged

\* The quota on the duration of a run, checked before each step and the implicit deploy.
OutOfTime ==
    /\ pc = "steps" \/ (pc = "deploy" /\ log = <<>>)
    /\ log' = Append(log, Record("quota", "within_limit", "FAILED", FALSE))
    /\ ok' = FALSE /\ step' = NoStep
    /\ pc' = "evaluate"
    /\ UNCHANGED <<todo, bad, repair, clock, provider, was, misread, disturbed>> /\ Unchanged

\* A scenario has a deploy step, or got one.
NoMoreSteps ==
    /\ pc = "steps" /\ \E i \in DOMAIN log : log[i].action = "deploy"
    /\ pc' = "evaluate"
    /\ UNCHANGED <<step, todo, bad, repair, log, ok, clock, provider, was, misread, disturbed>>
    /\ Unchanged

\* deploy_topology: with rows it calls nobody, without rows and with an ACTIVE entry of
\* state.json it takes over what the entry lists.  The entry is written, best effort.  A
\* failure ends in its own cleanup, and ends the steps.
Deploy ==
    /\ pc = "deploy"
    /\ \/ /\ Pushes("ACTIVE", TRUE) /\ pc' = "steps"
          /\ rows' = Hosts
          /\ server' = IF rows # {} \/ entry THEN server ELSE [h \in Hosts |-> "running"]
          /\ (entry' = TRUE /\ NoFault) \/ (UNCHANGED entry /\ Fault)
       \/ /\ rows = {} /\ ~entry /\ Fault /\ Pushes("FAILED", FALSE) /\ pc' = "evaluate"
          /\ UNCHANGED provider
    /\ UNCHANGED <<todo, bad, repair, clock>> /\ Unchanged
    /\ Observes

\* cleanup_topology_deployment drops the rows, whatever its teardown leaves, and the entry
\* unless the file cannot be written.
Cleans ==
    LET gone == [h \in Hosts |-> IF h \in rows THEN "absent" ELSE server[h]] IN
    /\ rows' = {}
    /\ \/ server' = gone /\ entry' = FALSE /\ NoFault
       \/ Fault /\ server' \in {server, gone} /\ entry' \in {entry, FALSE}

Cleanup ==
    /\ pc = "cleanup"
    /\ Cleans
    /\ Pushes(IF rows = {} THEN "SKIPPED" ELSE "CLEANED", TRUE)
    /\ pc' = "steps"
    /\ UNCHANGED <<todo, bad, repair, clock>> /\ Unchanged
    /\ Observes

\* inject_node_down: a host without a row is an error; a stop that fails is an event FAILED
\* and for the runner a success.
FailNode ==
    /\ pc = "fail"
    /\ \E h \in todo :
         \/ /\ h \notin rows
            /\ Pushes("FAILED", FALSE) /\ NoFault
            /\ UNCHANGED <<provider, clock>>
         \/ /\ h \in rows
            /\ Pushes("SUCCESS", TRUE)
            /\ clock' = [clock EXCEPT !.failed = Now]
            /\ UNCHANGED <<rows, entry>>
            /\ \/ server' = [server EXCEPT ![h] = Halted(h)] /\ NoFault
               \/ Fault /\ UNCHANGED server
    /\ pc' = "steps" /\ todo' = {}
    /\ UNCHANGED <<bad, repair>> /\ Unchanged
    /\ Observes

-----------------------------------------------------------------------------
(* Drift and reconciliation *)

\* Mutant: a row is enough, the server's status is not asked for.
Recorded(h) == h \in rows

Runs(h) == Up(h)

\* One host of detect_topology_drift.  A call that fails counts as a missing server.
DriftHost ==
    /\ pc = "drift"
    /\ \E h \in todo :
         /\ todo' = todo \ {h}
         /\ \/ bad' = (bad \/ ~Runs(h)) /\ NoFault
            \/ h \in rows /\ bad' = TRUE /\ Fault
    /\ UNCHANGED <<pc, step, repair, log, ok, clock, provider>> /\ Unchanged
    /\ Observes

\* The end of the reading; resource_exists of the subnets may raise what no one catches.
\* A reconciliation goes on with the servers that rows list, or the entry if there are none.
DriftRead ==
    /\ pc = "drift" /\ todo = {}
    /\ \/ /\ step.action = "drift"
          /\ LET seen == IF bad THEN "DETECTED" ELSE "CLEAN"
             IN  Pushes(seen, seen = step.expected)
          /\ pc' = "steps" /\ bad' = FALSE /\ NoFault
          /\ UNCHANGED todo
       \/ /\ step.action = "reconcile"
          /\ pc' = "repair" /\ bad' = FALSE /\ NoFault
          /\ todo' = IF rows = {} /\ entry THEN Hosts ELSE rows
          /\ UNCHANGED <<step, log, ok>>
       \/ rows # {} /\ Fault /\ pc' = "raised" /\ UNCHANGED <<step, todo, bad, log, ok>>
    /\ UNCHANGED <<repair, clock, provider>> /\ Unchanged
    /\ Observes

Stopped(h) == server[h] = "stopped"

\* reconcile_topology asks for the status of one server after the other.  Only a stopped one
\* is to be started: one that is still stopping is left as it is, and a status that cannot
\* be read, or says the server is gone, is noted.
ReadStatus ==
    /\ pc = "repair" /\ starting = {}
    /\ \E h \in todo :
         /\ todo' = todo \ {h}
         /\ \/ starting' = {g \in {h} : Stopped(g)} /\ NoFault
            \/ Fault /\ UNCHANGED starting
    /\ UNCHANGED <<pc, step, bad, started, log, ok, clock, provider>> /\ Unchanged
    /\ Observes

\* start_server raises what no one catches, when another request has begun to stop the server
\* again, for one.
StartServer ==
    /\ pc = "repair"
    /\ \E h \in starting :
         \/ /\ server[h] # "stopping" /\ NoFault
            /\ server' = [server EXCEPT ![h] = Revived(h)]
            /\ starting' = starting \ {h} /\ started' = started \cup {h}
            /\ UNCHANGED pc
         \/ /\ Fault \/ (server[h] = "stopping" /\ NoFault)
            /\ pc' = "raised"
            /\ UNCHANGED <<server, repair>>
    /\ UNCHANGED <<step, todo, bad, log, ok, clock, rows, entry>> /\ Unchanged
    /\ Observes

StatusesRead ==
    /\ pc = "repair" /\ todo = {} /\ starting = {}
    /\ pc' = "await" /\ todo' = started
    /\ UNCHANGED <<step, bad, repair, log, ok, clock, provider, was, misread, disturbed>>
    /\ Unchanged

\* Mutant: nobody waits.
Arrived(h) == TRUE

Awaited(h) == instant \/ server[h] = "running"

\* wait_for_server_running waits for a server that is on its way, and raises what no one
\* catches for one that has been stopped again; the mock does not look.
AwaitServer ==
    /\ pc = "await"
    /\ \E h \in todo :
         \/ Awaited(h) /\ todo' = todo \ {h} /\ NoFault /\ UNCHANGED pc
         \/ /\ Fault \/ (server[h] \in {"stopping", "stopped"} /\ ~instant /\ NoFault)
            /\ pc' = "raised" /\ UNCHANGED todo
    /\ UNCHANGED <<step, bad, repair, log, ok, clock, provider>> /\ Unchanged
    /\ Observes

\* The firewall rules.  ControlPlaneError, which is recorded, when nothing lists their security
\* group.
Repaired ==
    /\ pc = "await" /\ todo = {}
    /\ \/ pc' = "validate" /\ todo' = Tested /\ NoFault /\ UNCHANGED <<step, started, log, ok>>
       \/ /\ ~instant /\ rows = {} /\ ~entry /\ NoFault
          /\ Pushes("none", FALSE) /\ pc' = "steps" /\ started' = {} /\ UNCHANGED todo
       \/ Fault /\ pc' = "raised" /\ UNCHANGED <<step, todo, started, log, ok>>
    /\ UNCHANGED <<bad, starting, clock, provider>> /\ Unchanged
    /\ Observes

-----------------------------------------------------------------------------
(* Validation *)

Ping ==
    /\ pc = "validate"
    /\ \E p \in todo :
         /\ todo' = todo \ {p}
         /\ \/ bad' = (bad \/ ~Up(p[1]) \/ ~Up(p[2])) /\ NoFault
            \/ bad' = TRUE /\ Fault
    /\ UNCHANGED <<pc, step, repair, log, ok, clock, provider>> /\ Unchanged
    /\ Observes

Passes(label) == label = "PASSED" /\ step.action = "validate" /\ step.expected = "PASSED"

\* Mutants: the clock does not ask for a reconciliation; it is set again by every validation.
AnyPass(label) == Passes(label) /\ clock.failed # 0 /\ clock.recovery = <<>>
Recovers(label) ==
    Passes(label) /\ clock.failed # 0 /\ clock.reconciled /\ clock.recovery = <<>>

\* Mutant: an expected failure that does not come is no failure of the run.
Lenient(label) == label = step.expected \/ step.expected = "FAILED"

AsExpected(label) == label = step.expected

\* The validation of a step.  An exception other than its own is recorded as FAILED.
Validated ==
    /\ pc = "validate" /\ todo = {} /\ step.action = "validate"
    /\ LET label == IF bad THEN "FAILED" ELSE "PASSED"
       IN  \/ /\ Pushes(label, AsExpected(label)) /\ NoFault
              /\ clock' = IF Recovers(label)
                          THEN [clock EXCEPT !.recovery = <<clock.failed, Now>>]
                          ELSE clock
           \/ Pushes("FAILED", FALSE) /\ Fault /\ UNCHANGED clock
    /\ pc' = "steps" /\ bad' = FALSE
    /\ UNCHANGED <<todo, repair, provider>> /\ Unchanged
    /\ Observes

\* The validation inside a reconciliation does not change its result.
Reconciled ==
    /\ pc = "validate" /\ todo = {} /\ step.action = "reconcile"
    /\ \/ /\ Pushes("RECONCILED", TRUE) /\ pc' = "steps" /\ NoFault
          /\ clock' = [clock EXCEPT !.reconciled = @ \/ clock.failed # 0]
       \/ Fault /\ pc' = "raised" /\ UNCHANGED <<step, log, ok, clock>>
    /\ bad' = FALSE /\ started' = {}
    /\ UNCHANGED <<todo, starting, provider>> /\ Unchanged
    /\ Observes

-----------------------------------------------------------------------------
(* The end of the run *)

Measured == clock.recovery # <<>>

\* evaluate_requirements: a threshold for the recovery is missed when none was measured; each
\* of the thresholds may be met or missed.  _finalize_scenario_run stores the verdict.
Evaluate ==
    /\ pc = "evaluate"
    /\ limited' \in BOOLEAN
    /\ met' \in BOOLEAN /\ (met' /\ limited' => Measured)
    /\ ok' = (ok /\ met')
    /\ run' = IF ok' THEN "PASSED" ELSE "FAILED"
    /\ pc' = "close"
    /\ UNCHANGED <<closing, instant, step, todo, bad, repair, log, clock, attempts, provider, was,
                   misread, disturbed>>

\* The records are in the report now; the options of the run say what is to follow.
Report ==
    /\ pc = "close"
    /\ closing' \in {"never", "failure", "always"}
    /\ log' = <<>> /\ clock' = NoClock
    /\ pc' = "closing"
    /\ UNCHANGED <<limited, instant, step, todo, bad, repair, ok, met, attempts, run, provider,
                   was, misread, disturbed>>

\* Mutant: only the runs that passed are cleaned up after.
AfterPass == closing = "always" \/ (closing = "failure" /\ ok)

Asked == closing = "always" \/ (closing = "failure" /\ ~ok)

\* Mutant: a third attempt.
FewAttempts == attempts < 3

MayTry == attempts < 2

\* _attempt_scenario_cleanup: an exception (of the database, say) is tried again, once;
\* these failures are not counted as disturbances.
Close ==
    /\ pc = "closing"
    /\ \/ ~Asked /\ pc' = "done" /\ NoFault /\ UNCHANGED <<provider, attempts>>
       \/ /\ Asked /\ MayTry /\ attempts' = attempts + 1
          /\ \/ Cleans /\ pc' = "done"
             \/ NoFault /\ UNCHANGED <<pc, provider>>
       \/ Asked /\ ~MayTry /\ pc' = "done" /\ NoFault /\ UNCHANGED <<provider, attempts>>
    /\ UNCHANGED <<input, step, todo, bad, repair, log, ok, met, clock, run>>
    /\ Observes

\* Another request stops or starts a server: POST .../failures/node-down and .../recover/node.
\* After the steps nothing of the run depends on it.
Watched == pc \in {"steps", "drift", "repair", "await", "validate"}

Change ==
    /\ Watched /\ Disturb
    /\ \E h \in rows : \E s \in {Halted(h), Revived(h)} :
         s # server[h] /\ server' = [server EXCEPT ![h] = s]
    /\ UNCHANGED <<pc, runner, rows, entry, misread>>
    /\ Observes

\* A server that is on its way arrives.
Settle ==
    /\ Watched
    /\ \E h \in Hosts :
         \/ server[h] = "stopping" /\ server' = [server EXCEPT ![h] = "stopped"]
         \/ server[h] = "pending" /\ server' = [server EXCEPT ![h] = "running"]
    /\ UNCHANGED <<pc, runner, rows, entry, misread, disturbed>>
    /\ Observes

Step ==
    \/ Begin \/ TakeStep \/ OutOfTime \/ NoMoreSteps
    \/ Deploy \/ Cleanup \/ FailNode
    \/ DriftHost \/ DriftRead \/ ReadStatus \/ StartServer \/ StatusesRead
    \/ AwaitServer \/ Repaired
    \/ Ping \/ Validated \/ Reconciled
    \/ Evaluate \/ Report \/ Close

Next == Step \/ Change \/ Settle

Spec == Init /\ [][Next]_vars

-----------------------------------------------------------------------------
(* Properties *)

Stages == {"idle", "deploy", "steps", "cleanup", "fail", "drift", "repair", "await", "validate",
           "raised", "evaluate", "close", "closing", "done"}

\* The variables have their types, and the closing cleanup is tried at most twice
\* (_attempt_scenario_cleanup).
ScenarioTypeOK ==
    /\ pc \in Stages
    /\ closing \in {"none", "never", "failure", "always"} /\ limited \in BOOLEAN
    /\ {bad, ok, met, misread, instant, entry} \subseteq BOOLEAN
    /\ todo \subseteq Hosts \/ todo \subseteq Tested
    /\ starting \subseteq Hosts /\ started \subseteq Hosts
    /\ clock.failed \in 0 .. Len(log) /\ clock.reconciled \in BOOLEAN
    /\ attempts \in 0 .. 2
    /\ run \in {"none", "RUNNING", "PASSED", "FAILED"}
    /\ rows \in {{}, Hosts}
    /\ server \in [Hosts -> Conditions]
    /\ was \in [Hosts -> SUBSET Conditions]
    /\ disturbed \in 0 .. MaxDisturbances

\* A run that ends is PASSED exactly when every step came out as the scenario expected,
\* a validation that should fail included, and the requirements are met; with a requirement
\* on the recovery this takes a failure, a reconciliation and a passed validation in this
\* order (ScenarioRunner.run, _finalize_scenario_run).
VerdictMatchesRecords ==
    pc = "close" =>
        /\ run \in {"PASSED", "FAILED"}
        /\ (run = "PASSED") <=> (met /\ \A i \in DOMAIN log : log[i].passed)
        /\ \A i \in DOMAIN log :
             log[i].passed => \/ log[i].actual = log[i].expected
                              \/ log[i].action = "cleanup" /\ log[i].actual = "SKIPPED"
        /\ run = "PASSED" /\ limited =>
             \E f, r, v \in DOMAIN log :
                 /\ f < r /\ r < v
                 /\ log[f].action = "fail" /\ log[r].action = "reconcile"
                 /\ log[v].action = "validate" /\ log[v].actual = "PASSED"

Failures == {i \in DOMAIN log : log[i].action = "fail" /\ log[i].passed}
Repairs == {r \in DOMAIN log : log[r].actual = "RECONCILED" /\ \E f \in Failures : f < r}
Proofs == {v \in DOMAIN log : /\ log[v].action = "validate" /\ log[v].expected = "PASSED"
                              /\ log[v].actual = "PASSED"
                              /\ \E r \in Repairs : r < v}

\* The recovery is measured from the last failure before it to the first passed validation
\* that follows a reconciliation after a failure, whatever failures, recoveries and
\* validations come before, between and after (failure_perf, reconcile_after_failure,
\* recovery_seconds).
RecoveryIsMeasured ==
    IF Proofs = {}
    THEN clock.recovery = <<>>
    ELSE \E f \in Failures, v \in Proofs :
             /\ clock.recovery = <<f, v>>
             /\ \A w \in Proofs : v <= w
             /\ \A g \in Failures : g > v \/ g <= f

Pushed == Len(log') > Len(log)
Latest == log'[Len(log')]
\* How a host has been at some moment of the step that ends now.
Been(h, condition) == condition \in was[h]
BeenUp(h) == Been(h, "running")
BeenDown(h) == \E condition \in Conditions \ {"running"} : Been(h, condition)

\* Drift detection and validation read the hosts one after the other while other requests
\* stop and start them.  What they report is nevertheless about this step: a clean topology
\* or a passed validation has seen every host it is about up, and a drift or a failed
\* validation some host down, unless a call failed (detect_topology_drift,
\* validate_topology_links).
ReadingsAreReal ==
    [][ Pushed =>
          /\ Latest.actual = "CLEAN" => \A h \in Hosts : BeenUp(h)
          /\ Latest.actual = "PASSED" =>
               \A p \in Tested : BeenUp(p[1]) /\ BeenUp(p[2])
          /\ Latest.actual \in {"DETECTED", "FAILED"} /\ Latest.action \in {"drift", "validate"}
               => misread' \/ \E h \in Hosts : BeenDown(h) ]_vars

\* After a reconciliation without a failed call every host with a record has been up since it
\* began, unless it was gone or, not having been found stopped, was seen on its way to stop or
\* to start: no host stays stopped, or is still starting after it was found stopped, whoever
\* stops and starts servers between reading, starting and waiting (reconcile_topology).
OnItsWay(h) == Been(h, "stopping") \/ Been(h, "pending")

ReconcileRevives ==
    [][ Pushed /\ Latest.actual = "RECONCILED" =>
          \/ misread'
          \/ \A h \in rows :
               BeenUp(h) \/ Been(h, "absent") \/ (h \notin started /\ OnItsWay(h)) ]_vars

\* A run is over with its records removed when its options ask for it, unless both attempts
\* at the cleanup have failed (cleanup_after_run, cleanup_on_failure).
ClosedAsAsked ==
    pc = "done" /\ (closing = "always" \/ (closing = "failure" /\ run = "FAILED"))
        => rows = {} \/ attempts = 2

\* README.md:406: the recovery ends with a validation after a reconciliation that follows
\* this very failure.
RecoveryOfThisFailure ==
    Measured => \E r \in Repairs : clock.recovery[1] < r /\ r < clock.recovery[2]

=============================================================================
