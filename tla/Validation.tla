---------------------------- MODULE Validation ----------------------------
(***************************************************************************)
(* Validation of a topology's connectivity                                 *)
(* (backend/app/services/connectivity_service.py): a call submits one ping *)
(* job per link, or per ICMP firewall rule, to a thread pool of its own,   *)
(* waits for the answers in the order of the jobs, each wait bounded by a  *)
(* timeout, and records one verdict per job.  The `with` block of the pool *)
(* waits for every job before the call can return.                         *)
(*                                                                         *)
(* Pings run against the mock provider, whose failure streak is a counter  *)
(* that all threads of the server share, while other requests stop and     *)
(* start servers and delete the topology.  The step Answer stands for any  *)
(* provider's ping: over SSH it may never come (recv_exit_status has no    *)
(* timeout).                                                               *)
(***************************************************************************)
EXTENDS Naturals, FiniteSets

CONSTANTS
    Calls,       \* requests that validate a topology each
    Hosts,       \* hosts of these topologies
    Checks,      \* per call, the links or the firewall rules of its topology, in order
    MaxParallel, \* MAX_PARALLEL_VALIDATIONS
    Streak,      \* CLOUDNET_MOCK_RUN_PING_FAILS
    MaxDisturbances \* bound: database errors, losses of packets, and changes that other
                    \* requests make to hosts or topology

Positions(c) == DOMAIN Checks[c]
Kinds == {"link", "icmp", "other"}

ASSUME ChecksAssumption ==
    \A c \in Calls :
        /\ Positions(c) \subseteq Nat /\ IsFiniteSet(Positions(c))
        /\ \A i \in Positions(c) :
             Checks[c][i].kind \in Kinds /\ {Checks[c][i].from, Checks[c][i].to} \subseteq Hosts
ASSUME ValidationBoundAssumption ==
    MaxParallel \in Nat \ {0} /\ Streak \in Nat /\ MaxDisturbances \in Nat

VARIABLES
    stage,   \* where each call is
    slots,   \* its list of verdicts, each committed as a connectivitytest row as well
    job,     \* its ping jobs
    outcome, \* what it has returned
    host,    \* the server of each host: not deployed, stopped or running
    exists,  \* the topology of a call is in the database
    streak,  \* the mock provider's remaining failures of run_ping
    refused, \* pings that the streak has failed (observer)
    disturbed \* disturbances so far

call == <<stage, slots, outcome>>
world == <<host, exists>>
mock == <<streak, refused>>
vars == <<stage, slots, job, outcome, host, exists, streak, refused, disturbed>>

\* Without firewall rules every link is tested, otherwise the rules for ICMP.
Tested(c) == {i \in Positions(c) : Checks[c][i].kind # "other"}
Plain(c) == \A i \in Positions(c) : Checks[c][i].kind = "link"

\* pc: the step the worker takes next; seen: the streak it has read; answer: its result.
Job == [pc : {"none", "queued", "target", "streak", "spend", "source", "done"},
        seen : Nat,
        answer : {"none", "PASSED", "FAILED", "error"}]
NoJob == [pc |-> "none", seen |-> 0, answer |-> "none"]
At(step, n) == [pc |-> step, seen |-> n, answer |-> "none"]
Done(answer) == [pc |-> "done", seen |-> 0, answer |-> answer]

Init ==
    /\ stage = [c \in Calls |-> "idle"]
    /\ slots = [c \in Calls |-> [i \in Positions(c) |->
                            IF i \in Tested(c) THEN "none" ELSE "SKIPPED"]]
    /\ job = [c \in Calls |-> [i \in Positions(c) |-> NoJob]]
    /\ outcome = [c \in Calls |-> "none"]
    /\ host = [h \in Hosts |-> "running"]
    /\ exists = [c \in Calls |-> TRUE]
    /\ streak = Streak
    /\ refused = 0
    /\ disturbed = 0

-----------------------------------------------------------------------------
(* The pool *)

Disturb == disturbed < MaxDisturbances /\ disturbed' = disturbed + 1

Working(c) == {i \in Tested(c) : job[c][i].pc \notin {"none", "queued", "done"}}
Queued(c) == {i \in Tested(c) : job[c][i].pc = "queued"}

\* Mutant: more threads than max_workers.
AlwaysFree(c) == TRUE

\* max_workers = min(max_parallel_validations, jobs).
Free(c) == Cardinality(Working(c)) < MaxParallel

\* Mutant: only jobs that have answered are counted, not those that have raised.
Answered(c) ==
    \A i \in Tested(c) : job[c][i].pc = "none" \/ job[c][i].answer \in {"PASSED", "FAILED"}

\* Nothing is left for the threads of the pool.
Finished(c) == \A i \in Tested(c) : job[c][i].pc \in {"none", "done"}

Moves(c, i, j) == job' = [job EXCEPT ![c][i] = j]
Works(c, i, j) == Moves(c, i, j) /\ UNCHANGED <<call, world>>

\* A thread that is free takes the first job of the queue and looks for the topology and
\* the servers of both ends.  What another request deletes is not found.
Start(c, i) ==
    /\ i \in Queued(c) /\ \A j \in Queued(c) : i <= j
    /\ Free(c)
    /\ \/ /\ exists[c] /\ host[Checks[c][i].from] # "absent" /\ host[Checks[c][i].to] # "absent"
          /\ Works(c, i, At("target", 0))
          /\ UNCHANGED disturbed
       \/ /\ ~exists[c] \/ host[Checks[c][i].from] = "absent" \/ host[Checks[c][i].to] = "absent"
          /\ Works(c, i, Done("FAILED"))
          /\ UNCHANGED disturbed
       \/ Disturb /\ Works(c, i, Done("error"))
    /\ UNCHANGED mock

\* provider.get_server_status of the target; the mock knows no deleted servers.
CheckTarget(c, i) ==
    /\ job[c][i].pc = "target"
    /\ Works(c, i, IF host[Checks[c][i].to] = "stopped" THEN Done("FAILED") ELSE At("streak", 0))
    /\ UNCHANGED <<mock, disturbed>>

\* Mutant: the last failure is forgotten.
OneIsNone(n) == n > 1

\* Counts down: n > 0.
Refuses(n) == n > 0

\* MockProvider._before_op: the counter is read ...
ReadStreak(c, i) ==
    /\ job[c][i].pc = "streak"
    /\ Works(c, i, IF Refuses(streak) THEN At("spend", streak) ELSE At("source", 0))
    /\ UNCHANGED <<mock, disturbed>>

\* ... and written back less one, whatever other threads have made of it.
Spend(c, i) ==
    /\ job[c][i].pc = "spend"
    /\ streak' = job[c][i].seen - 1
    /\ refused' = refused + 1
    /\ Works(c, i, Done("FAILED"))
    /\ UNCHANGED disturbed

\* The rest of run_ping: the source must be running, and no packet may be lost.
Answer(c, i) ==
    /\ job[c][i].pc = "source"
    /\ \/ /\ host[Checks[c][i].from] # "stopped"
          /\ Works(c, i, Done("PASSED"))
          /\ UNCHANGED disturbed
       \/ /\ host[Checks[c][i].from] = "stopped"
          /\ Works(c, i, Done("FAILED"))
          /\ UNCHANGED disturbed
       \/ Disturb /\ Works(c, i, Done("FAILED"))
    /\ UNCHANGED mock

-----------------------------------------------------------------------------
(* The call *)

Stays == UNCHANGED <<job, world, mock, disturbed>>

\* validate_topology_endpoint: 404 when the topology is not there.
Begin(c) ==
    /\ stage[c] = "idle"
    /\ exists[c]
    /\ stage' = [stage EXCEPT ![c] = "begun"]
    /\ UNCHANGED <<slots, outcome>>
    /\ Stays

Ends(c, result) ==
    /\ stage' = [stage EXCEPT ![c] = "ended"]
    /\ outcome' = [outcome EXCEPT ![c] = result]

\* The STARTED event has been committed, which expires the topology: it is read again,
\* and raises when it is gone.  Then all jobs are submitted.
Submit(c) ==
    /\ stage[c] = "begun"
    /\ \/ /\ exists[c]
          /\ stage' = [stage EXCEPT ![c] = "collect"]
          /\ job' = [job EXCEPT ![c] = [i \in Positions(c) |->
                        IF i \in Tested(c) THEN At("queued", 0) ELSE NoJob]]
          /\ UNCHANGED outcome
       \/ /\ ~exists[c]
          /\ Ends(c, "raised")
          /\ UNCHANGED job
    /\ UNCHANGED <<slots, world, mock, disturbed>>

Unfilled(c) == {i \in Tested(c) : slots[c][i] = "none"}

\* Mutant: results are taken as they come.
WaitsForAny(c, i) == stage[c] = "collect" /\ i \in Unfilled(c)

\* The future that fut.result is called on.
WaitsFor(c, i) ==
    /\ stage[c] = "collect"
    /\ i \in Unfilled(c) /\ \A j \in Unfilled(c) : i <= j

Fill(c, i, verdict) ==
    /\ slots' = [slots EXCEPT ![c][i] = verdict]
    /\ UNCHANGED <<stage, outcome>>
    /\ Stays

\* Mutant: whatever comes within the timeout has passed.
CollectAny(c, i) ==
    /\ WaitsFor(c, i)
    /\ job[c][i].answer \in {"PASSED", "FAILED"}
    /\ Fill(c, i, "PASSED")

\* The answer is there: it is recorded, committed and put in its slot.
Collect(c, i) ==
    /\ WaitsFor(c, i)
    /\ job[c][i].answer \in {"PASSED", "FAILED"}
    /\ Fill(c, i, job[c][i].answer)

\* Mutant: the wait has no limit.
WaitForEver(c, i) == FALSE /\ Fill(c, i, "FAILED")

\* It is not there in time, whether the job is running or still queued: FAILED, and what
\* the job answers later is dropped.
TimeOut(c, i) ==
    /\ WaitsFor(c, i)
    /\ job[c][i].pc # "done"
    /\ Fill(c, i, "FAILED")

\* The job has raised, or the commit of the verdict does: the loop is left, but not the
\* pool.
Break(c, i) ==
    /\ WaitsFor(c, i)
    /\ \/ job[c][i].answer = "error" /\ UNCHANGED disturbed
       \/ Disturb
    /\ stage' = [stage EXCEPT ![c] = "broken"]
    /\ UNCHANGED <<slots, outcome, job, world, mock>>

\* Mutant: shutdown(wait=False) when the loop was left.
LeavePool(c) ==
    /\ stage[c] = "broken"
    /\ Ends(c, "raised")
    /\ UNCHANGED slots
    /\ Stays

\* The `with` block waits for the threads, then the exception goes on.
Propagate(c) ==
    /\ stage[c] = "broken"
    /\ Finished(c)
    /\ Ends(c, "raised")
    /\ UNCHANGED slots
    /\ Stays

Failures(c) == {i \in Positions(c) : slots[c][i] = "FAILED"}

\* Mutant: one link that answers is enough.
OverallAny(c) ==
    IF (\E i \in Positions(c) : slots[c][i] = "PASSED") \/ ~Plain(c) THEN "PASSED" ELSE "FAILED"

\* Links: some, and all have passed.  Rules: none has failed.
Overall(c) ==
    IF Plain(c) THEN IF Positions(c) # {} /\ \A i \in Positions(c) : slots[c][i] = "PASSED"
                  THEN "PASSED" ELSE "FAILED"
             ELSE IF Failures(c) = {} THEN "PASSED" ELSE "FAILED"

\* The `with` block has waited for the threads; the commits have expired the topology, so
\* that it is read again for the response and the events.
Finish(c) ==
    /\ stage[c] = "collect"
    /\ Unfilled(c) = {}
    /\ Finished(c)
    /\ Ends(c, IF exists[c] THEN Overall(c) ELSE "raised")
    /\ UNCHANGED slots
    /\ Stays

-----------------------------------------------------------------------------
(* Other requests *)

\* inject_node_down, recover_node, a cleanup that drops the row, a deploy that adds it.
SetHost(h, state) ==
    /\ Disturb
    /\ host[h] # state
    /\ host' = [host EXCEPT ![h] = state]
    /\ UNCHANGED <<call, job, exists, mock>>

DeleteTopology(c) ==
    /\ Disturb
    /\ exists[c]
    /\ exists' = [exists EXCEPT ![c] = FALSE]
    /\ UNCHANGED <<call, job, host, mock>>

-----------------------------------------------------------------------------
WorkerStep(c, i) == Start(c, i) \/ CheckTarget(c, i) \/ ReadStreak(c, i) \/ Spend(c, i)

CallStep(c) ==
    \/ Submit(c) \/ Finish(c) \/ Propagate(c)
    \/ \E i \in Tested(c) : Collect(c, i) \/ TimeOut(c, i) \/ Break(c, i)

Next ==
    \/ \E c \in Calls : \/ Begin(c) \/ CallStep(c)
                        \/ \E i \in Tested(c) : WorkerStep(c, i) \/ Answer(c, i)
    \/ \E h \in Hosts, state \in {"absent", "stopped", "running"} : SetHost(h, state)
    \/ \E c \in Calls : DeleteTopology(c)

Spec == Init /\ [][Next]_vars

\* Some thread that can go on does, and fut.result wakes up at its timeout.  Nothing makes
\* a ping answer.
Progress == \E c \in Calls : CallStep(c) \/ \E i \in Tested(c) : WorkerStep(c, i)

FairSpec == Spec /\ WF_vars(Progress)

-----------------------------------------------------------------------------
(* Properties *)

Verdicts == {"none", "PASSED", "FAILED", "SKIPPED"}

\* Every variable holds a value of its type, and the pool never runs more jobs than
\* MAX_PARALLEL_VALIDATIONS.
ValidationTypeOK ==
    /\ stage \in [Calls -> {"idle", "begun", "collect", "broken", "ended"}]
    /\ DOMAIN slots = Calls /\ DOMAIN job = Calls
    /\ \A c \in Calls : /\ slots[c] \in [Positions(c) -> Verdicts]
                        /\ job[c] \in [Positions(c) -> Job]
                        /\ Cardinality(Working(c)) <= MaxParallel
    /\ outcome \in [Calls -> {"none", "PASSED", "FAILED", "raised"}]
    /\ host \in [Hosts -> {"absent", "stopped", "running"}]
    /\ exists \in [Calls -> BOOLEAN]
    /\ streak \in Nat /\ refused \in Nat /\ disturbed \in Nat

\* A verdict PASSED is the answer of the job at that very position, however the pings
\* overtake each other, whichever time out and whatever the other call is doing; and a
\* call that reports PASSED has such an answer for all it has tested.
PassedIsAnswered ==
    \A c \in Calls : \A i \in Tested(c) :
        slots[c][i] = "PASSED" \/ outcome[c] = "PASSED" => job[c][i].answer = "PASSED"

\* When a call has returned, or raised in the middle of its results, no thread of its
\* pool is left that would still ping, or read the database for a request that is over.
NoThreadOutlivesItsCall == \A c \in Calls : stage[c] = "ended" => Finished(c)

\* The mock provider's streak is never cut short: for all the threads that read and write
\* the counter unlocked, no ping passes before as many as were asked for have failed.
StreakIsServed ==
    (\E c \in Calls : \E i \in Tested(c) : job[c][i].answer = "PASSED") => refused >= Streak

\* Each call is, to its caller, a list of verdicts filled in order and never corrected:
\* List(c)!Spec for every c, whose box is taken in front of the quantifier.
List(c) == INSTANCE VerdictList
               WITH Entries <- Positions(c), Tests <- Tested(c),
                    slots <- slots[c], outcome <- outcome[c]
ImplementsVerdictList ==
    /\ \A c \in Calls : List(c)!Init
    /\ [][\A c \in Calls : [List(c)!Next]_<<slots[c], outcome[c]>>]_<<slots, outcome>>

\* Every link gets its verdict, or the call fails, even when pings never answer.
VerdictsComplete == []<>(\A c \in Calls : stage[c] = "collect" => Unfilled(c) = {})

\* VALIDATION_TIMEOUT_SECONDS caps each ping job: again and again no call is under way.
CallsEnd == []<>(\A c \in Calls : stage[c] \in {"idle", "ended"})

\* Calls end when the pings answer, whichever time out, raise or are dropped before.
CallsEndIfPingsAnswer ==
    []<>(\A c \in Calls : \A i \in Tested(c) : job[c][i].pc # "source") => CallsEnd

=============================================================================
