--------------------------- MODULE ScenarioProofs ---------------------------
(***************************************************************************)
(* Proofs about Scenario, for any hosts, any links, scenarios of any       *)
(* length and any number of failed calls and changes by other requests.    *)
(***************************************************************************)
EXTENDS Scenario, TLAPS

-----------------------------------------------------------------------------
(* The inductive invariant *)

Actions == {"none", "quota", "deploy", "validate", "fail", "drift", "reconcile", "cleanup"}
Labels == {"none", "within_limit", "ACTIVE", "PASSED", "FAILED", "SUCCESS", "DETECTED", "CLEAN",
           "RECONCILED", "CLEANED", "SKIPPED"}
LogRecord == [action : Actions, expected : Labels, actual : Labels, passed : BOOLEAN]
Clock == [failed : Nat, reconciled : BOOLEAN, recovery : Seq(Nat)]

Shapes ==
    /\ log \in Seq(LogRecord)
    /\ step \in [action : Actions, expected : Labels]
    /\ clock \in Clock

\* Each stage works on a step of its own kind, with what the scenario may expect of it.
StepFits ==
    /\ pc = "deploy" => step.action = "deploy" /\ step.expected = "ACTIVE"
    /\ pc = "cleanup" => step.action = "cleanup" /\ step.expected = "CLEANED"
    /\ pc = "fail" => step.action = "fail" /\ step.expected = "SUCCESS"
    /\ pc \in {"repair", "await"} => step.action = "reconcile" /\ step.expected = "RECONCILED"
    /\ pc = "drift" =>
         step.action = "drift" \/ (step.action = "reconcile" /\ step.expected = "RECONCILED")
    /\ pc = "validate" =>
         step.action = "validate" \/ (step.action = "reconcile" /\ step.expected = "RECONCILED")

\* A record of success says what the scenario expected, or that there was nothing to clean;
\* only a reconciliation says RECONCILED.
Deserved(r) ==
    /\ r.passed => r.actual = r.expected \/ (r.action = "cleanup" /\ r.actual = "SKIPPED")
    /\ r.actual = "RECONCILED" => r.action = "reconcile"

AllPassed == \A i \in DOMAIN log : log[i].passed

\* The verdict on the records, then on records and requirements, then in the row.
VerdictInv ==
    /\ \A i \in DOMAIN log : Deserved(log[i])
    /\ pc \notin {"close", "closing", "done"} => (ok <=> AllPassed)
    /\ pc = "close" => (ok <=> met /\ AllPassed) /\ (met /\ limited => Measured)
    /\ pc \in {"close", "closing", "done"} => run = IF ok THEN "PASSED" ELSE "FAILED"

\* The clock remembers the last failure, and whether any was reconciled since the first.
ClockInv ==
    /\ IF clock.failed = 0 THEN Failures = {}
       ELSE clock.failed \in Failures /\ \A f \in Failures : f <= clock.failed
    /\ clock.reconciled <=> Repairs # {}
    /\ RecoveryIsMeasured

\* What a reconciliation has dealt with: hosts it started, and hosts it left as they were.
Seen(h) == BeenUp(h) \/ Been(h, "absent")
Dealt(h) == Seen(h) \/ (h \notin started /\ OnItsWay(h))

\* What a loop has looked at has been as it says, and what it repaired has been up.
ReadInv ==
    /\ pc = "drift" =>
         /\ todo \subseteq Hosts
         /\ ~bad => \A h \in Hosts \ todo : BeenUp(h)
         /\ bad => misread \/ \E h \in Hosts : BeenDown(h)
    /\ pc = "repair" =>
         /\ todo \subseteq Hosts /\ ~bad
         /\ \A h \in rows \cap started : instant => Seen(h)
         /\ misread \/ \A h \in rows \ (todo \cup starting \cup started) : Dealt(h)
    /\ pc = "await" =>
         /\ todo \subseteq Hosts /\ ~bad
         /\ \A h \in rows \cap started : instant \/ h \notin todo => Seen(h)
         /\ misread \/ \A h \in rows \ started : Dealt(h)
    /\ pc = "validate" =>
         /\ todo \subseteq Tested
         /\ ~bad => \A p \in Tested \ todo : BeenUp(p[1]) /\ BeenUp(p[2])
         /\ bad => misread \/ \E h \in Hosts : BeenDown(h)
         /\ step.action = "reconcile" => misread \/ \A h \in rows : Dealt(h)

\* The mock's servers are never on their way.
Instant == instant => \A h \in Hosts : server[h] \notin {"pending", "stopping"}

\* A reconciliation begins without servers that it has started.
Idle ==
    \/ pc \in {"repair", "await", "raised"}
    \/ pc = "validate" /\ step.action = "reconcile"
    \/ started = {}

ScenInv ==
    /\ ScenarioTypeOK /\ Shapes /\ StepFits
    /\ VerdictInv /\ ClockInv /\ ReadInv /\ Instant /\ Idle /\ ClosedAsAsked

-----------------------------------------------------------------------------
(* Types *)

\* A record is appended at the end.
LEMMA Appended ==
    ASSUME Shapes, NEW r \in LogRecord, log' = Append(log, r)
    PROVE  /\ log' \in Seq(LogRecord) /\ Len(log') = Now /\ Len(log) \in Nat
           /\ DOMAIN log' = DOMAIN log \cup {Now}
           /\ log'[Now] = r
           /\ \A i \in DOMAIN log : i \in Nat /\ 0 < i /\ i < Now /\ log'[i] = log[i]
<1>1. log \in Seq(LogRecord) /\ Now = Len(log) + 1
    BY DEF Shapes, Now
<1>2. log' \in Seq(LogRecord) /\ Len(log') = Len(log) + 1 /\ Len(log) \in Nat
    BY <1>1
<1>3. DOMAIN log' = 1 .. Len(log) + 1 /\ DOMAIN log = 1 .. Len(log)
    BY <1>1, <1>2
<1>4. log'[Len(log) + 1] = r
    BY <1>1
<1>5. \A i \in 1 .. Len(log) : log'[i] = log[i]
    BY <1>1
<1>6. 1 .. Len(log) + 1 = (1 .. Len(log)) \cup {Len(log) + 1}
    BY <1>2
<1>7. DOMAIN log' = DOMAIN log \cup {Now}
    BY <1>1, <1>3, <1>6
<1>8. \A i \in DOMAIN log : i \in Nat /\ 0 < i /\ i < Now /\ log'[i] = log[i]
    BY <1>1, <1>2, <1>3, <1>5
<1> QED
    BY <1>1, <1>2, <1>4, <1>7, <1>8

\* What push_step appends has the type of a record.
LEMMA PushesRecord ==
    ASSUME Shapes, NEW actual \in Labels, NEW passed \in BOOLEAN, Pushes(actual, passed)
    PROVE  /\ Record(step.action, step.expected, actual, passed) \in LogRecord
           /\ log' = Append(log, Record(step.action, step.expected, actual, passed))
           /\ ok' = (ok /\ passed)
           /\ step' = NoStep /\ step' \in [action : Actions, expected : Labels]
<1>1. step.action \in Actions /\ step.expected \in Labels
    BY DEF Shapes
<1>2. Record(step.action, step.expected, actual, passed) \in LogRecord
    BY <1>1, Zenon DEF Record, LogRecord
<1>3. NoStep \in [action : Actions, expected : Labels]
    BY DEF NoStep, Actions, Labels
<1> QED
    BY <1>2, <1>3, Zenon DEF Pushes

-----------------------------------------------------------------------------
(* The steps that push a record *)

Ends == {"close", "closing", "done"}

\* A record is pushed, and the run goes on.
Pushing(r) ==
    /\ r \in LogRecord /\ Deserved(r)
    /\ log' = Append(log, r) /\ ok' = (ok /\ r.passed) /\ step' = NoStep
    /\ pc \notin Ends /\ pc' \in {"steps", "evaluate"}
    /\ Unchanged

\* What the record does to the clock.
Proves(r) == r.action = "validate" /\ r.expected = "PASSED" /\ r.actual = "PASSED"
Clocked(r) ==
    /\ clock' \in Clock
    /\ clock'.failed = IF r.action = "fail" /\ r.passed THEN Now ELSE clock.failed
    /\ clock'.reconciled <=> clock.reconciled \/ (r.actual = "RECONCILED" /\ clock.failed # 0)
    /\ clock'.recovery = IF Proves(r) /\ clock.failed # 0 /\ clock.reconciled /\ clock.recovery = <<>>
                         THEN <<clock.failed, Now>> ELSE clock.recovery

\* What the record says has been seen.
Real(r) ==
    /\ r.actual = "CLEAN" => \A h \in Hosts : BeenUp(h)
    /\ r.actual = "PASSED" => \A p \in Tested : BeenUp(p[1]) /\ BeenUp(p[2])
    /\ r.actual \in {"DETECTED", "FAILED"} /\ r.action \in {"drift", "validate"} =>
         misread' \/ \E h \in Hosts : BeenDown(h)
    /\ r.actual = "RECONCILED" => misread' \/ \A h \in rows : Dealt(h)

Faithful(r) == Pushing(r) /\ Clocked(r) /\ Real(r)

LEMMA PushesIsPushing ==
    ASSUME ScenInv, NEW actual \in Labels, NEW passed \in BOOLEAN, Pushes(actual, passed),
           pc \notin Ends, pc' \in {"steps", "evaluate"}, Unchanged,
           passed => actual = step.expected \/ (step.action = "cleanup" /\ actual = "SKIPPED"),
           actual = "RECONCILED" => step.action = "reconcile"
    PROVE  \E r \in LogRecord :
               /\ Pushing(r)
               /\ r.action = step.action /\ r.expected = step.expected
               /\ r.actual = actual /\ r.passed = passed
<1> DEFINE r == Record(step.action, step.expected, actual, passed)
<1>1. /\ r \in LogRecord /\ log' = Append(log, r) /\ ok' = (ok /\ passed) /\ step' = NoStep
    BY PushesRecord DEF ScenInv
<1>2. /\ r.action = step.action /\ r.expected = step.expected
      /\ r.actual = actual /\ r.passed = passed
    BY DEF Record
<1>3. Deserved(r)
    BY <1>2 DEF Deserved
<1> QED
    BY <1>1, <1>2, <1>3, Zenon DEF Pushing

\* The clock does not see most of the records.
LEMMA ClockStands ==
    ASSUME ScenInv, NEW r \in LogRecord, UNCHANGED clock,
           r.action = "fail" => ~r.passed, r.actual # "RECONCILED", ~Proves(r)
    PROVE  Clocked(r)
BY DEF ScenInv, Shapes, Clock, Clocked

LEMMA DeployRecords == ASSUME ScenInv, Deploy PROVE \E r \in LogRecord : Faithful(r)
<1>1. pc = "deploy" /\ UNCHANGED clock /\ Unchanged /\ step.action = "deploy" /\ step.expected = "ACTIVE"
    BY DEF ScenInv, StepFits, Deploy
<1>2. PICK actual \in {"ACTIVE", "FAILED"}, passed \in BOOLEAN :
          /\ Pushes(actual, passed) /\ pc' \in {"steps", "evaluate"}
          /\ passed => actual = "ACTIVE"
    BY DEF Deploy
<1>3. actual \in Labels
    BY DEF Labels
<1>4. PICK r \in LogRecord : Pushing(r) /\ r.action = "deploy" /\ r.actual = actual
    BY <1>1, <1>2, <1>3, PushesIsPushing DEF Ends
<1>5. Real(r)
    BY <1>4 DEF Real
<1> QED
    BY <1>1, <1>4, <1>5, ClockStands DEF Faithful, Proves

LEMMA CleanupRecords == ASSUME ScenInv, Cleanup PROVE \E r \in LogRecord : Faithful(r)
<1>1. pc = "cleanup" /\ UNCHANGED clock /\ Unchanged /\ step.action = "cleanup" /\ step.expected = "CLEANED"
    BY DEF ScenInv, StepFits, Cleanup
<1>2. PICK actual \in {"SKIPPED", "CLEANED"}, passed \in BOOLEAN :
          Pushes(actual, passed) /\ pc' = "steps"
    BY DEF Cleanup
<1>3. /\ actual \in Labels /\ actual # "RECONCILED"
      /\ actual = step.expected \/ (step.action = "cleanup" /\ actual = "SKIPPED")
    BY <1>1, <1>2 DEF Labels
<1>4. PICK r \in LogRecord : Pushing(r) /\ r.action = "cleanup" /\ r.actual = actual
    BY <1>1, <1>2, <1>3, PushesIsPushing DEF Ends
<1>5. Real(r)
    BY <1>4 DEF Real
<1> QED
    BY <1>1, <1>4, <1>5, ClockStands DEF Faithful, Proves

LEMMA FailNodeRecords == ASSUME ScenInv, FailNode PROVE \E r \in LogRecord : Faithful(r)
<1>1. pc = "fail" /\ pc' = "steps" /\ Unchanged /\ step.action = "fail" /\ step.expected = "SUCCESS"
    BY DEF ScenInv, StepFits, FailNode
<1>2. CASE Pushes("FAILED", FALSE) /\ UNCHANGED clock
  <2>1. PICK actual \in {"FAILED"}, passed \in BOOLEAN : Pushes(actual, passed) /\ ~passed
      BY <1>2
  <2>2. actual \in Labels
      BY DEF Labels
  <2>3. PICK r \in LogRecord : Pushing(r) /\ r.action = "fail" /\ r.actual = actual /\ r.passed = passed
      BY <1>1, <2>1, <2>2, PushesIsPushing DEF Ends
  <2>4. Real(r)
      BY <2>3 DEF Real
  <2> QED
      BY <1>2, <2>1, <2>3, <2>4, ClockStands DEF Faithful, Proves
<1>3. CASE Pushes("SUCCESS", TRUE) /\ clock' = [clock EXCEPT !.failed = Now]
  <2>1. PICK actual \in {"SUCCESS"}, passed \in BOOLEAN : Pushes(actual, passed) /\ passed
      BY <1>3
  <2>2. PICK r \in LogRecord : Pushing(r) /\ r.action = "fail" /\ r.actual = actual /\ r.passed = passed
    <3>1. actual \in Labels /\ actual = step.expected
        BY <1>1 DEF Labels
    <3> QED
        BY <1>1, <2>1, <3>1, PushesIsPushing DEF Ends
  <2>3. Real(r)
      BY <2>2 DEF Real
  <2>4. clock \in Clock /\ Now \in Nat
      BY DEF ScenInv, Shapes, Now
  <2>5. clock' \in Clock /\ clock'.failed = Now /\ clock'.reconciled = clock.reconciled
        /\ clock'.recovery = clock.recovery
      BY <1>3, <2>4 DEF Clock
  <2>6. Clocked(r)
      BY <2>1, <2>2, <2>4, <2>5 DEF Clocked, Proves, Clock
  <2> QED
      BY <2>2, <2>3, <2>6 DEF Faithful
<1> QED
    BY <1>2, <1>3 DEF FailNode

LEMMA OutOfTimeRecords == ASSUME ScenInv, OutOfTime PROVE \E r \in LogRecord : Faithful(r)
<1> DEFINE r == Record("quota", "within_limit", "FAILED", FALSE)
<1>1. /\ pc \in {"steps", "deploy"} /\ pc' = "evaluate" /\ UNCHANGED clock /\ Unchanged
      /\ log' = Append(log, r) /\ ok' = FALSE /\ step' = NoStep
    BY DEF OutOfTime
<1>2. /\ r \in LogRecord /\ r.action = "quota" /\ r.actual = "FAILED"
      /\ r.expected = "within_limit" /\ r.passed = FALSE
    BY DEF Record, LogRecord, Actions, Labels
<1>3. Deserved(r) /\ Real(r)
    BY <1>2 DEF Deserved, Real
<1>4. ok' = (ok /\ r.passed)
    BY <1>1, <1>2
<1>5. Pushing(r)
    BY <1>1, <1>2, <1>3, <1>4, Zenon DEF Pushing, Ends
<1> QED
    BY <1>1, <1>2, <1>3, <1>5, ClockStands DEF Faithful, Proves

LEMMA DriftRecords ==
    ASSUME ScenInv, DriftRead, pc' = "steps" PROVE \E r \in LogRecord : Faithful(r)
<1>1. /\ pc = "drift" /\ todo = {} /\ step.action = "drift" /\ UNCHANGED <<clock, misread>> /\ Unchanged
      /\ LET seen == IF bad THEN "DETECTED" ELSE "CLEAN"
         IN  Pushes(seen, seen = step.expected)
    BY DEF DriftRead, NoFault
<1> DEFINE seen == IF bad THEN "DETECTED" ELSE "CLEAN"
<1>2. seen \in Labels /\ \E passed \in BOOLEAN : Pushes(seen, passed) /\ (passed => seen = step.expected)
    BY <1>1, Zenon DEF Labels
<1>3. PICK r \in LogRecord : Pushing(r) /\ r.action = "drift" /\ r.actual = seen
    BY <1>1, <1>2, PushesIsPushing DEF Ends
<1>4. Real(r)
    BY <1>1, <1>3 DEF Real, ScenInv, ReadInv
<1>5. r.actual # "RECONCILED"
    BY <1>3
<1> QED
    BY <1>1, <1>3, <1>4, <1>5, ClockStands DEF Faithful, Proves

LEMMA RepairedRecords ==
    ASSUME ScenInv, Repaired, pc' = "steps" PROVE \E r \in LogRecord : Faithful(r)
<1>1. /\ pc = "await" /\ UNCHANGED clock /\ Unchanged /\ Pushes("none", FALSE)
      /\ step.action = "reconcile"
    BY DEF Repaired, ScenInv, StepFits
<1>2. PICK actual \in {"none"}, passed \in BOOLEAN : Pushes(actual, passed) /\ ~passed
    BY <1>1
<1>3. actual \in Labels
    BY DEF Labels
<1>4. PICK r \in LogRecord : Pushing(r) /\ r.action = "reconcile" /\ r.actual = actual
    BY <1>1, <1>2, <1>3, PushesIsPushing DEF Ends
<1>5. Real(r)
    BY <1>4 DEF Real
<1> QED
    BY <1>1, <1>4, <1>5, ClockStands DEF Faithful, Proves

LEMMA ValidatedRecords == ASSUME ScenInv, Validated PROVE \E r \in LogRecord : Faithful(r)
<1>1. /\ pc = "validate" /\ todo = {} /\ step.action = "validate" /\ pc' = "steps" /\ Unchanged
    BY DEF Validated
<1> DEFINE label == IF bad THEN "FAILED" ELSE "PASSED"
<1>2. CASE /\ Pushes(label, AsExpected(label)) /\ NoFault
           /\ clock' = IF Recovers(label)
                       THEN [clock EXCEPT !.recovery = <<clock.failed, Now>>] ELSE clock
  <2>1. label \in Labels
        /\ \E passed \in BOOLEAN : Pushes(label, passed) /\ (passed => label = step.expected)
      BY <1>2, Zenon DEF Labels, AsExpected
  <2>2. PICK r \in LogRecord : /\ Pushing(r) /\ r.action = "validate" /\ r.actual = label
                               /\ r.expected = step.expected
      BY <1>1, <1>2, <2>1, PushesIsPushing DEF Ends
  <2>3. Real(r)
      BY <1>1, <1>2, <2>2 DEF Real, ScenInv, ReadInv, NoFault
  <2>4. clock \in Clock /\ Now \in Nat
      BY DEF ScenInv, Shapes, Now
  <2>5. Recovers(label) <=>
            Proves(r) /\ clock.failed # 0 /\ clock.reconciled /\ clock.recovery = <<>>
      BY <1>1, <2>2 DEF Recovers, Passes, Proves
  <2>6. CASE Recovers(label)
    <3>1. <<clock.failed, Now>> \in Seq(Nat)
        BY <2>4 DEF Clock
    <3>2. clock' \in Clock /\ clock'.failed = clock.failed /\ clock'.reconciled = clock.reconciled
          /\ clock'.recovery = <<clock.failed, Now>>
        BY <1>2, <2>4, <2>6, <3>1 DEF Clock
    <3>3. Clocked(r)
        BY <2>2, <2>5, <2>6, <3>2 DEF Clocked
    <3> QED
        BY <2>2, <2>3, <3>3 DEF Faithful
  <2>7. CASE ~Recovers(label)
    <3>1. clock' = clock /\ label # "RECONCILED"
        BY <1>2, <2>7
    <3>2. Clocked(r)
        BY <2>2, <2>4, <2>5, <2>7, <3>1 DEF Clocked
    <3> QED
        BY <2>2, <2>3, <3>2 DEF Faithful
  <2> QED
      BY <2>6, <2>7
<1>3. CASE Pushes("FAILED", FALSE) /\ Fault /\ UNCHANGED clock
  <2>1. PICK actual \in {"FAILED"}, passed \in BOOLEAN : Pushes(actual, passed) /\ ~passed
      BY <1>3
  <2>2. actual \in Labels
      BY DEF Labels
  <2>3. PICK r \in LogRecord : Pushing(r) /\ r.action = "validate" /\ r.actual = actual
      BY <1>1, <2>1, <2>2, PushesIsPushing DEF Ends
  <2>4. Real(r)
      BY <1>3, <2>3 DEF Real, Fault
  <2> QED
      BY <1>3, <2>3, <2>4, ClockStands DEF Faithful, Proves
<1> QED
    BY <1>2, <1>3 DEF Validated

LEMMA ReconciledRecords ==
    ASSUME ScenInv, Reconciled, pc' = "steps" PROVE \E r \in LogRecord : Faithful(r)
<1>1. /\ pc = "validate" /\ step.action = "reconcile" /\ Unchanged /\ Pushes("RECONCILED", TRUE)
      /\ NoFault /\ clock' = [clock EXCEPT !.reconciled = @ \/ clock.failed # 0]
    BY DEF Reconciled
<1>2. step.expected = "RECONCILED"
    BY <1>1 DEF ScenInv, StepFits
<1>3. PICK r \in LogRecord : Pushing(r) /\ r.action = "reconcile" /\ r.actual = "RECONCILED"
  <2>1. PICK actual \in {"RECONCILED"}, passed \in BOOLEAN : Pushes(actual, passed)
      BY <1>1
  <2>2. actual \in Labels
      BY DEF Labels
  <2> QED
      BY <1>1, <1>2, <2>1, <2>2, PushesIsPushing DEF Ends
<1>4. Real(r)
    BY <1>1, <1>3 DEF Real, ScenInv, ReadInv, NoFault
<1>5. clock \in Clock
    BY DEF ScenInv, Shapes
<1>6. /\ clock' \in Clock /\ clock'.failed = clock.failed /\ clock'.recovery = clock.recovery
      /\ clock'.reconciled <=> clock.reconciled \/ clock.failed # 0
    BY <1>1, <1>5 DEF Clock
<1>7. Clocked(r)
    BY <1>3, <1>6 DEF Clocked, Proves
<1> QED
    BY <1>3, <1>4, <1>7 DEF Faithful

-----------------------------------------------------------------------------
(* Verdict and clock *)

LEMMA PushKeepsVerdict ==
    ASSUME ScenInv, NEW r \in LogRecord, Faithful(r) PROVE VerdictInv'
<1>1. /\ DOMAIN log' = DOMAIN log \cup {Now} /\ log'[Now] = r
      /\ \A i \in DOMAIN log : log'[i] = log[i]
    BY Appended DEF ScenInv, Faithful, Pushing
<1>2. \A i \in DOMAIN log' : Deserved(log'[i])
    BY <1>1 DEF ScenInv, VerdictInv, Faithful, Pushing
<1>3. AllPassed' <=> AllPassed /\ r.passed
    BY <1>1 DEF AllPassed
<1>4. pc \notin Ends /\ (ok <=> AllPassed) /\ (ok' <=> ok /\ r.passed)
    BY DEF ScenInv, VerdictInv, Faithful, Pushing, Ends
<1>5. pc' \notin Ends
    BY DEF Faithful, Pushing, Ends
<1> QED
    BY <1>2, <1>3, <1>4, <1>5 DEF VerdictInv, Ends

LEMMA PushKeepsClock ==
    ASSUME ScenInv, NEW r \in LogRecord, Faithful(r) PROVE ClockInv'
<1>1. /\ DOMAIN log' = DOMAIN log \cup {Now} /\ log'[Now] = r /\ Now \in Nat /\ Now > 0
      /\ \A i \in DOMAIN log : i \in Nat /\ 0 < i /\ i < Now /\ log'[i] = log[i]
    BY Appended DEF ScenInv, Faithful, Pushing, Now
<1>2. Now \notin DOMAIN log
    BY <1>1
<1>3. Failures' = Failures \cup (IF r.action = "fail" /\ r.passed THEN {Now} ELSE {})
    BY <1>1, <1>2 DEF Failures
<1>4. /\ Failures \subseteq DOMAIN log /\ Failures \subseteq Failures'
      /\ Failures' \subseteq Failures \cup {Now}
    BY <1>3 DEF Failures
<1>5. Repairs' = Repairs \cup (IF r.actual = "RECONCILED" /\ Failures # {} THEN {Now} ELSE {})
  <2>1. ASSUME NEW i \in DOMAIN log PROVE i \in Repairs' <=> i \in Repairs
      BY <1>1, <1>4, <2>1 DEF Repairs
  <2>2. Now \in Repairs' <=> r.actual = "RECONCILED" /\ Failures # {}
      BY <1>1, <1>4 DEF Repairs
  <2>3. Repairs \subseteq DOMAIN log /\ Repairs' \subseteq DOMAIN log'
      BY DEF Repairs
  <2> QED
      BY <1>1, <1>2, <2>1, <2>2, <2>3
<1>6. Repairs \subseteq DOMAIN log
    BY DEF Repairs
<1>7. Proofs' = Proofs \cup (IF Proves(r) /\ Repairs # {} THEN {Now} ELSE {})
  <2>1. ASSUME NEW i \in DOMAIN log PROVE i \in Proofs' <=> i \in Proofs
      BY <1>1, <1>5, <1>6, <2>1 DEF Proofs
  <2>2. Now \in Proofs' <=> Proves(r) /\ Repairs # {}
      BY <1>1, <1>5, <1>6 DEF Proofs, Proves
  <2>3. Proofs \subseteq DOMAIN log /\ Proofs' \subseteq DOMAIN log'
      BY DEF Proofs
  <2> QED
      BY <1>1, <1>2, <2>1, <2>2, <2>3
<1>8. /\ Clocked(r) /\ ClockInv /\ clock.failed \in Nat
      /\ Proofs \subseteq DOMAIN log
    BY DEF ScenInv, Shapes, Clock, Faithful, Proofs
<1>9. IF clock'.failed = 0 THEN Failures' = {}
      ELSE clock'.failed \in Failures' /\ \A f \in Failures' : f <= clock'.failed
    BY <1>1, <1>3, <1>4, <1>8 DEF Clocked, ClockInv
<1>10. clock'.reconciled <=> Repairs' # {}
    BY <1>5, <1>8 DEF Clocked, ClockInv
<1>11. RecoveryIsMeasured'
  <2>1. \A f, v \in Nat : <<f, v>> # <<>>
      OBVIOUS
  <2>2. Failures # {} => clock.failed # 0
      BY <1>8 DEF ClockInv
  <2>3. Repairs # {} => Failures # {}
      BY DEF Repairs
  <2>4. CASE Proofs = {} /\ Proves(r) /\ Repairs # {}
    <3>1. clock'.recovery = <<clock.failed, Now>>
        BY <1>8, <2>2, <2>3, <2>4 DEF Clocked, ClockInv, RecoveryIsMeasured
    <3>2. Proofs' = {Now} /\ r.action # "fail"
        BY <1>7, <2>4 DEF Proves
    <3>3. clock.failed \in Failures' /\ \A g \in Failures' : g <= clock.failed
        BY <1>3, <1>8, <2>2, <2>3, <2>4, <3>2 DEF ClockInv
    <3> QED
        BY <1>1, <3>1, <3>2, <3>3 DEF RecoveryIsMeasured
  <2>5. CASE Proofs = {} /\ ~(Proves(r) /\ Repairs # {})
    <3>1. clock'.recovery = <<>>
        BY <1>8, <2>5 DEF Clocked, ClockInv, RecoveryIsMeasured
    <3> QED
        BY <1>7, <2>5, <3>1 DEF RecoveryIsMeasured
  <2>6. CASE Proofs # {}
    <3>1. PICK f \in Failures, v \in Proofs :
              /\ clock.recovery = <<f, v>>
              /\ \A w \in Proofs : v <= w
              /\ \A g \in Failures : g > v \/ g <= f
        BY <1>8, <2>6 DEF ClockInv, RecoveryIsMeasured
    <3>2. f \in Nat /\ v \in Nat /\ v < Now
        BY <1>1, <1>4, <1>8
    <3>3. clock'.recovery = <<f, v>>
        BY <1>8, <2>1, <3>1, <3>2 DEF Clocked
    <3>4. f \in Failures' /\ v \in Proofs' /\ Proofs' # {}
        BY <1>4, <1>7
    <3>5. \A w \in Proofs' : v <= w
        BY <1>1, <1>7, <3>1, <3>2
    <3>6. \A g \in Failures' : g > v \/ g <= f
        BY <1>1, <1>4, <3>1, <3>2
    <3> QED
        BY <3>3, <3>4, <3>5, <3>6 DEF RecoveryIsMeasured
  <2> QED
      BY <2>4, <2>5, <2>6
<1> QED
    BY <1>9, <1>10, <1>11 DEF ClockInv

\* Steps that touch neither records nor clock.
LEMMA ClockUntouched == ASSUME ScenInv, UNCHANGED <<log, clock>> PROVE ClockInv'
BY DEF ScenInv, ClockInv, RecoveryIsMeasured, Failures, Repairs, Proofs

LEMMA VerdictUntouched ==
    ASSUME ScenInv, UNCHANGED <<log, ok>>, pc \notin Ends, pc' \notin Ends PROVE VerdictInv'
BY DEF ScenInv, VerdictInv, AllPassed, Ends

\* Every step pushes a record, leaves the records alone, or belongs to the end of the run.
Silent == UNCHANGED <<log, ok, clock>> /\ pc \notin Ends /\ pc' \notin Ends

LEMMA RecordSteps ==
    ASSUME ScenInv, Next
    PROVE  (\E r \in LogRecord : Faithful(r)) \/ Silent \/ Evaluate \/ Report \/ Close
<1>1. Begin => Silent
    BY DEF Begin, Silent, Ends
<1>2. TakeStep => Silent
    BY DEF TakeStep, Takes, Silent, Ends
<1>3. NoMoreSteps => Silent
    BY DEF NoMoreSteps, Silent, Ends
<1>4. DriftHost \/ ReadStatus \/ StartServer \/ StatusesRead \/ AwaitServer \/ Ping => Silent
    BY DEF DriftHost, ReadStatus, StartServer, StatusesRead, AwaitServer, Ping, Unchanged, Silent,
           Ends
<1>5. Change \/ Settle => Silent
    BY DEF Change, Settle, Watched, runner, Silent, Ends
<1>6. CASE DriftRead
  <2>1. pc' = "steps" \/ Silent
      BY <1>6 DEF DriftRead, Silent, Ends
  <2> QED
      BY <1>6, <2>1, DriftRecords
<1>7. CASE Reconciled
  <2>1. pc' = "steps" \/ Silent
      BY <1>7 DEF Reconciled, Silent, Ends
  <2> QED
      BY <1>7, <2>1, ReconciledRecords
<1>8. CASE Repaired
  <2>1. pc' = "steps" \/ Silent
      BY <1>8 DEF Repaired, Silent, Ends
  <2> QED
      BY <1>8, <2>1, RepairedRecords
<1> QED
    BY <1>1, <1>2, <1>3, <1>4, <1>5, <1>6, <1>7, <1>8, DeployRecords, CleanupRecords, FailNodeRecords,
       OutOfTimeRecords, ValidatedRecords DEF Next, Step

LEMMA NextKeepsVerdict == ASSUME ScenInv, Next PROVE VerdictInv'
<1>1. CASE Evaluate
  <2>1. /\ pc = "evaluate" /\ pc' = "close" /\ UNCHANGED <<log, clock>>
        /\ ok' = (ok /\ met') /\ (met' /\ limited' => Measured)
        /\ run' = IF ok' THEN "PASSED" ELSE "FAILED"
      BY <1>1 DEF Evaluate
  <2>2. (ok <=> AllPassed) /\ \A i \in DOMAIN log : Deserved(log[i])
      BY <2>1 DEF ScenInv, VerdictInv
  <2>3. (ok' <=> met' /\ AllPassed') /\ (met' /\ limited' => Measured')
      BY <2>1, <2>2 DEF AllPassed, Measured
  <2> QED
      BY <2>1, <2>2, <2>3 DEF VerdictInv
<1>2. CASE Report
  <2>1. pc = "close" /\ pc' = "closing" /\ log' = <<>> /\ UNCHANGED <<ok, run>>
      BY <1>2 DEF Report
  <2>2. DOMAIN log' = {}
      BY <2>1
  <2> QED
      BY <2>1, <2>2 DEF ScenInv, VerdictInv
<1>3. CASE Close
    BY <1>3 DEF Close, ScenInv, VerdictInv, AllPassed, Measured
<1> QED
    BY <1>1, <1>2, <1>3, RecordSteps, PushKeepsVerdict, VerdictUntouched DEF Silent

LEMMA NextKeepsClock == ASSUME ScenInv, Next PROVE ClockInv'
<1>1. CASE Report
  <2>1. log' = <<>> /\ clock'.failed = 0 /\ clock'.reconciled = FALSE /\ clock'.recovery = <<>>
      BY <1>1 DEF Report, NoClock
  <2>2. DOMAIN log' = {}
      BY <2>1
  <2>3. Failures' = {} /\ Repairs' = {} /\ Proofs' = {}
      BY <2>2 DEF Failures, Repairs, Proofs
  <2> QED
      BY <2>1, <2>3 DEF ClockInv, RecoveryIsMeasured
<1>2. Evaluate \/ Close => UNCHANGED <<log, clock>>
    BY DEF Evaluate, Close
<1> QED
    BY <1>1, <1>2, RecordSteps, PushKeepsClock, ClockUntouched DEF Silent

-----------------------------------------------------------------------------
(* Stages, types and the closing cleanup *)

LEMMA NextKeepsFit == ASSUME ScenInv, Next PROVE StepFits'
<1> USE DEF ScenInv, StepFits
<1>1. CASE Begin
    BY <1>1 DEF Begin
<1>2. CASE TakeStep
    BY <1>2 DEF TakeStep, Takes
<1>3. CASE OutOfTime \/ NoMoreSteps \/ Deploy \/ Cleanup \/ FailNode
    BY <1>3 DEF OutOfTime, NoMoreSteps, Deploy, Cleanup, FailNode
<1>4. CASE DriftHost \/ DriftRead
    BY <1>4 DEF DriftHost, DriftRead
<1>5. CASE ReadStatus \/ StartServer \/ StatusesRead \/ AwaitServer \/ Repaired
    BY <1>5 DEF ReadStatus, StartServer, StatusesRead, AwaitServer, Repaired
<1>6. CASE Ping \/ Validated \/ Reconciled
    BY <1>6 DEF Ping, Validated, Reconciled
<1>7. CASE Evaluate \/ Report \/ Close
    BY <1>7 DEF Evaluate, Report, Close
<1>8. CASE Change \/ Settle
    BY <1>8 DEF Change, Settle, runner
<1> QED
    BY <1>1, <1>2, <1>3, <1>4, <1>5, <1>6, <1>7, <1>8 DEF Next, Step

LEMMA NextKeepsClosing == ASSUME ScenInv, Next PROVE ClosedAsAsked'
<1>1. CASE Close
  <2>1. /\ pc = "closing" /\ UNCHANGED <<closing, ok, run>> /\ attempts \in 0 .. 2
        /\ run = IF ok THEN "PASSED" ELSE "FAILED"
      BY <1>1 DEF Close, input, ScenInv, ScenarioTypeOK, VerdictInv
  <2>2. CASE ~Asked
      BY <1>1, <2>1, <2>2 DEF Close, Asked, ClosedAsAsked
  <2>3. CASE Asked /\ ~MayTry
      BY <1>1, <2>1, <2>3 DEF Close, MayTry, ClosedAsAsked
  <2>4. CASE Cleans
      BY <2>4 DEF Cleans, ClosedAsAsked
  <2>5. CASE UNCHANGED pc
      BY <2>1, <2>5 DEF ClosedAsAsked
  <2> QED
      BY <1>1, <2>2, <2>3, <2>4, <2>5 DEF Close
<1>2. Next /\ pc' = "done" => Close
    BY DEF Next, Step, Begin, TakeStep, Takes, OutOfTime, NoMoreSteps, Deploy, Cleanup, FailNode,
           DriftHost, DriftRead, ReadStatus, StartServer, StatusesRead, AwaitServer, Repaired, Ping,
           Validated, Reconciled, Evaluate, Report, Change, Settle, Watched
<1> QED
    BY <1>1, <1>2 DEF ClosedAsAsked

LEMMA NextKeepsIdle == ASSUME ScenInv, Next PROVE Idle'
<1>1. Idle
    BY DEF ScenInv
<1>2. CASE Begin \/ TakeStep \/ OutOfTime \/ NoMoreSteps \/ Deploy \/ Cleanup \/ FailNode
    BY <1>1, <1>2 DEF Begin, TakeStep, OutOfTime, NoMoreSteps, Deploy, Cleanup, FailNode, repair, Idle
<1>3. CASE DriftHost \/ DriftRead \/ ReadStatus \/ StartServer
    BY <1>1, <1>3 DEF DriftHost, DriftRead, ReadStatus, StartServer, repair, Idle
<1>4. CASE StatusesRead \/ AwaitServer \/ Repaired
    BY <1>1, <1>4 DEF StatusesRead, AwaitServer, Repaired, repair, Idle, ScenInv, StepFits
<1>5. CASE Ping \/ Validated \/ Reconciled
    BY <1>1, <1>5 DEF Ping, Validated, Reconciled, repair, Idle
<1>6. CASE Evaluate \/ Report \/ Close \/ Change \/ Settle
    BY <1>1, <1>6 DEF Evaluate, Report, Close, Change, Settle, runner, repair, Idle
<1> QED
    BY <1>2, <1>3, <1>4, <1>5, <1>6 DEF Next, Step

LEMMA NoStepType == NoStep \in [action : Actions, expected : Labels]
BY DEF NoStep, Actions, Labels

LEMMA StepTyped == ASSUME ScenInv, Next PROVE step' \in [action : Actions, expected : Labels]
<1>1. step \in [action : Actions, expected : Labels]
    BY DEF ScenInv, Shapes
<1>2. CASE Begin
    BY <1>1, <1>2 DEF Begin, Actions, Labels
<1>3. CASE TakeStep
    BY <1>3 DEF TakeStep, Takes, Actions, Labels
<1>4. CASE DriftRead
    BY <1>1, <1>4, NoStepType DEF DriftRead, Pushes
<1>5. CASE Reconciled
    BY <1>1, <1>5, NoStepType DEF Reconciled, Pushes
<1>6. CASE OutOfTime \/ Deploy \/ Cleanup \/ FailNode \/ Validated
    BY <1>6, NoStepType DEF OutOfTime, Deploy, Cleanup, FailNode, Validated, Pushes
<1>7. CASE \/ NoMoreSteps \/ DriftHost \/ ReadStatus \/ StartServer \/ StatusesRead \/ AwaitServer
           \/ Ping \/ Change \/ Settle
    BY <1>1, <1>7 DEF NoMoreSteps, DriftHost, ReadStatus, StartServer, StatusesRead, AwaitServer,
                      Ping, Change, Settle, runner
<1>8. CASE Evaluate \/ Report \/ Close
    BY <1>1, <1>8 DEF Evaluate, Report, Close
<1>9. CASE Repaired
    BY <1>1, <1>9, NoStepType DEF Repaired, Pushes
<1> QED
    BY <1>2, <1>3, <1>4, <1>5, <1>6, <1>7, <1>8, <1>9 DEF Next, Step

LEMMA NextKeepsShapes ==
    ASSUME ScenInv, Next
    PROVE  Shapes' /\ clock'.failed \in 0 .. Len(log') /\ clock'.reconciled \in BOOLEAN
<1>1. /\ log \in Seq(LogRecord) /\ clock \in Clock /\ clock.failed \in 0 .. Len(log)
      /\ Len(log) \in Nat
    BY DEF ScenInv, Shapes, ScenarioTypeOK
<1>2. ASSUME NEW r \in LogRecord, Faithful(r)
      PROVE  log' \in Seq(LogRecord) /\ clock' \in Clock /\ clock'.failed \in 0 .. Len(log')
  <2>1. log' \in Seq(LogRecord) /\ Len(log') = Now /\ Now = Len(log) + 1
      BY <1>2, Appended DEF ScenInv, Faithful, Pushing, Now
  <2>2. clock' \in Clock /\ clock'.failed \in {Now, clock.failed}
      BY <1>2 DEF Faithful, Clocked
  <2> QED
      BY <1>1, <2>1, <2>2
<1>3. CASE UNCHANGED <<log, clock>>
    BY <1>1, <1>3, StepTyped DEF Shapes, Clock
<1>4. CASE Report
  <2>1. log' = <<>> /\ clock' = [failed |-> 0, reconciled |-> FALSE, recovery |-> <<>>]
      BY <1>4 DEF Report, NoClock
  <2>2. log' \in Seq(LogRecord) /\ Len(log') = 0
      BY <2>1
  <2>3. clock' \in Clock
      BY <2>1 DEF Clock
  <2> QED
      BY <2>1, <2>2, <2>3, StepTyped DEF Shapes, Clock
<1>5. Evaluate \/ Close => UNCHANGED <<log, clock>>
    BY DEF Evaluate, Close
<1>6. (\E r \in LogRecord : Faithful(r)) =>
          Shapes' /\ clock'.failed \in 0 .. Len(log') /\ clock'.reconciled \in BOOLEAN
    BY <1>2, StepTyped DEF Shapes, Clock
<1> QED
    BY <1>3, <1>4, <1>5, <1>6, RecordSteps DEF Silent

\* Rows and servers.
Servers == rows \in {{}, Hosts} /\ server \in [Hosts -> Conditions]

LEMMA NextKeepsServers == ASSUME ScenInv, Next PROVE Servers' /\ Instant'
<1>1. Servers /\ Instant
    BY DEF ScenInv, ScenarioTypeOK, Servers
<1>2. CASE UNCHANGED <<provider, instant>>
    BY <1>1, <1>2 DEF provider, Servers, Instant
<1>3. CASE Deploy
    BY <1>1, <1>3 DEF Deploy, provider, Servers, Conditions, Instant, Unchanged, input
<1>4. ASSUME Cleans, UNCHANGED instant PROVE Servers' /\ Instant'
    BY <1>1, <1>4 DEF Cleans, Servers, Conditions, Instant
<1>5. CASE FailNode
    BY <1>1, <1>5 DEF FailNode, Halted, provider, Servers, Conditions, Instant, Unchanged, input
<1>6. CASE StartServer
    BY <1>1, <1>6 DEF StartServer, Revived, Servers, Conditions, Instant, Unchanged, input
<1>7. CASE Change \/ Settle
    BY <1>1, <1>7 DEF Change, Settle, Halted, Revived, Servers, Conditions, Instant, runner, input
<1>8. Cleanup => Cleans /\ UNCHANGED instant
    BY DEF Cleanup, Unchanged, input
<1>9. Close => (Cleans \/ UNCHANGED provider) /\ UNCHANGED instant
    BY DEF Close, input
<1>10. \/ Begin \/ TakeStep \/ OutOfTime \/ NoMoreSteps \/ DriftHost \/ DriftRead \/ ReadStatus
       \/ StatusesRead \/ AwaitServer \/ Repaired
       \/ Ping \/ Validated \/ Reconciled \/ Evaluate \/ Report
       => UNCHANGED <<provider, instant>>
    BY DEF Begin, TakeStep, OutOfTime, NoMoreSteps, DriftHost, DriftRead, ReadStatus, StatusesRead,
           AwaitServer, Repaired, Ping, Validated, Reconciled, Evaluate, Report, Unchanged, input
<1> QED
    BY <1>2, <1>3, <1>4, <1>5, <1>6, <1>7, <1>8, <1>9, <1>10 DEF Next, Step

\* What the observers note is a condition.
LEMMA Observed ==
    ASSUME ScenInv, Servers', Observes
    PROVE  /\ was' \in [Hosts -> SUBSET Conditions]
           /\ pc' \in {"drift", "repair", "await", "validate"} =>
                \A h \in Hosts : was'[h] = was[h] \cup {Condition(h)'}
<1>1. was \in [Hosts -> SUBSET Conditions]
    BY DEF ScenInv, ScenarioTypeOK
<1>2. \A h \in Hosts : Condition(h)' \in Conditions
    BY DEF Condition, Servers, Conditions
<1> QED
    BY <1>1, <1>2 DEF Observes, Reading

LEMMA StartObserved ==
    ASSUME ScenInv, StartsToObserve
    PROVE  was' \in [Hosts -> SUBSET Conditions] /\ misread' = FALSE
<1>1. \A h \in Hosts : Condition(h) \in Conditions
    BY DEF Condition, Conditions, ScenInv, ScenarioTypeOK
<1> QED
    BY <1>1 DEF StartsToObserve

LEMMA Booleans ==
    ASSUME ScenInv
    PROVE  /\ bad \in BOOLEAN /\ ok \in BOOLEAN /\ met \in BOOLEAN /\ misread \in BOOLEAN
           /\ limited \in BOOLEAN /\ instant \in BOOLEAN /\ entry \in BOOLEAN
BY Zenon DEF ScenInv, ScenarioTypeOK

LEMMA FaultTypes ==
    ASSUME ScenInv, Fault \/ NoFault \/ (Disturb /\ UNCHANGED misread)
    PROVE  disturbed' \in 0 .. MaxDisturbances /\ misread' \in BOOLEAN
<1>1. misread \in BOOLEAN
    BY Booleans
<1>2. misread' = TRUE \/ misread' = misread
    BY DEF Fault, NoFault
<1>3. MaxDisturbances \in Nat /\ disturbed \in 0 .. MaxDisturbances
    BY ScenarioBoundAssumption DEF ScenInv, ScenarioTypeOK
<1>4. disturbed' \in 0 .. MaxDisturbances
    BY <1>3 DEF Fault, NoFault, Disturb
<1>5. misread' \in BOOLEAN
    BY <1>1, <1>2, Zenon
<1> QED
    BY <1>4, <1>5

\* The variables of the runner that the records do not tell about.
RunnerOK ==
    /\ pc \in Stages
    /\ closing \in {"none", "never", "failure", "always"}
    /\ todo \subseteq Hosts \/ todo \subseteq Tested
    /\ starting \subseteq Hosts /\ started \subseteq Hosts
    /\ attempts \in 0 .. 2
    /\ run \in {"none", "RUNNING", "PASSED", "FAILED"}

LEMMA NextKeepsRunner == ASSUME ScenInv, Next PROVE RunnerOK'
<1>1. RunnerOK /\ rows \subseteq Hosts
    BY DEF ScenInv, ScenarioTypeOK, RunnerOK
<1> USE <1>1 DEF RunnerOK, Stages, repair
<1>2. CASE Begin
    BY <1>2 DEF Begin, input
<1>3. CASE TakeStep
    BY <1>3 DEF TakeStep, Takes, Unchanged, input
<1>4. CASE OutOfTime \/ NoMoreSteps
    BY <1>4 DEF OutOfTime, NoMoreSteps, Unchanged, input
<1>5. CASE Deploy \/ Cleanup \/ FailNode
    BY <1>5 DEF Deploy, Cleanup, FailNode, Unchanged, input
<1>6. CASE DriftHost \/ Ping
    BY <1>6 DEF DriftHost, Ping, Unchanged, input
<1>7. CASE DriftRead
    BY <1>7 DEF DriftRead, Unchanged, input
<1>8. CASE ReadStatus \/ StartServer \/ StatusesRead \/ AwaitServer \/ Repaired
  <2>1. pc = "repair" => todo \subseteq Hosts
      BY DEF ScenInv, ReadInv
  <2> QED
      BY <1>8, <2>1 DEF ReadStatus, StartServer, StatusesRead, AwaitServer, Repaired, Unchanged, input
<1>9. CASE Validated \/ Reconciled
    BY <1>9 DEF Validated, Reconciled, Unchanged, input
<1>10. CASE Evaluate
    BY <1>10 DEF Evaluate, input
<1>11. CASE Report
    BY <1>11 DEF Report
<1>12. CASE Close
    BY <1>12 DEF Close, MayTry, input
<1>13. CASE Change \/ Settle
    BY <1>13 DEF Change, Settle, runner, input
<1> QED
    BY <1>2, <1>3, <1>4, <1>5, <1>6, <1>7, <1>8, <1>9, <1>10, <1>11, <1>12, <1>13 DEF Next, Step

LEMMA NextKeepsBad == ASSUME ScenInv, Next PROVE bad' \in BOOLEAN
<1>1. \/ UNCHANGED bad \/ bad' = FALSE \/ bad' = TRUE
      \/ \E h \in Hosts : bad' = (bad \/ ~Runs(h))
      \/ \E p \in Tested : bad' = (bad \/ ~Up(p[1]) \/ ~Up(p[2]))
  <2>1. CASE DriftHost
      BY <2>1, Zenon DEF DriftHost, ScenInv, ReadInv
  <2>2. CASE Ping
      BY <2>2, Zenon DEF Ping, ScenInv, ReadInv
  <2>3. CASE TakeStep
      BY <2>3, Zenon DEF TakeStep, Takes
  <2>4. CASE DriftRead
      BY <2>4, Zenon DEF DriftRead
  <2>5. CASE Change \/ Settle
      BY <2>5, Zenon DEF Change, Settle, runner
  <2>6. CASE Validated \/ Reconciled
      BY <2>6, Zenon DEF Validated, Reconciled
  <2>7. CASE \/ Begin \/ OutOfTime \/ NoMoreSteps \/ Deploy \/ Cleanup \/ FailNode \/ ReadStatus
             \/ StartServer \/ StatusesRead \/ AwaitServer \/ Repaired \/ Evaluate \/ Report \/ Close
      BY <2>7 DEF Begin, OutOfTime, NoMoreSteps, Deploy, Cleanup, FailNode, ReadStatus, StartServer,
                  StatusesRead, AwaitServer, Repaired, Evaluate, Report, Close
  <2> QED
      BY <2>1, <2>2, <2>3, <2>4, <2>5, <2>6, <2>7, Zenon DEF Next, Step
<1> QED
    BY <1>1, Booleans, Zenon

LEMMA NextKeepsEntry == ASSUME ScenInv, Next PROVE entry' \in BOOLEAN
<1>1. entry \in BOOLEAN
    BY Booleans
<1>2. UNCHANGED entry \/ entry' = TRUE \/ entry' = FALSE
  <2>1. CASE Deploy
      BY <2>1, Zenon DEF Deploy, provider
  <2>2. CASE Cleanup
      BY <2>2, <1>1, Zenon DEF Cleanup, Cleans
  <2>3. CASE Close
      BY <2>3, <1>1, Zenon DEF Close, Cleans, provider
  <2>4. CASE FailNode
      BY <2>4, Zenon DEF FailNode, provider
  <2>5. CASE StartServer \/ Change \/ Settle
      BY <2>5, Zenon DEF StartServer, Change, Settle
  <2>6. CASE UNCHANGED provider
      BY <2>6, Zenon DEF provider
  <2>7. \/ Begin \/ TakeStep \/ OutOfTime \/ NoMoreSteps \/ DriftHost \/ DriftRead \/ ReadStatus
        \/ StatusesRead \/ AwaitServer \/ Repaired
        \/ Ping \/ Validated \/ Reconciled \/ Evaluate \/ Report
        => UNCHANGED provider
      BY DEF Begin, TakeStep, OutOfTime, NoMoreSteps, DriftHost, DriftRead, ReadStatus,
             StatusesRead, AwaitServer, Repaired, Ping, Validated, Reconciled, Evaluate, Report
  <2> QED
      BY <2>1, <2>2, <2>3, <2>4, <2>5, <2>6, <2>7 DEF Next, Step
<1> QED
    BY <1>1, <1>2, Zenon

LEMMA NextKeepsVerdicts ==
    ASSUME ScenInv, Next
    PROVE  ok' \in BOOLEAN /\ met' \in BOOLEAN /\ limited' \in BOOLEAN /\ instant' \in BOOLEAN
<1>1. ok \in BOOLEAN /\ met \in BOOLEAN /\ limited \in BOOLEAN /\ instant \in BOOLEAN
    BY Booleans
<1>2. ok' \in BOOLEAN
  <2>1. ASSUME NEW r \in LogRecord, Faithful(r) PROVE ok' \in BOOLEAN
      BY <2>1, Zenon DEF Faithful, Pushing
  <2>2. Silent \/ Report \/ Close => ok' = ok
      BY DEF Silent, Report, Close
  <2>3. Evaluate => ok' = (ok /\ met')
      BY Zenon DEF Evaluate
  <2> QED
      BY <1>1, <2>1, <2>2, <2>3, RecordSteps, Zenon
<1>3. CASE Evaluate
    BY <1>1, <1>2, <1>3, Zenon DEF Evaluate
<1>4. Next /\ ~Evaluate => UNCHANGED <<met, limited, instant>>
    BY DEF Next, Step, Begin, TakeStep, OutOfTime, NoMoreSteps, Deploy, Cleanup, FailNode,
           DriftHost, DriftRead, ReadStatus, StartServer, StatusesRead, AwaitServer, Repaired, Ping,
           Validated, Reconciled, Report, Close, Change, Settle, runner, input, Unchanged
<1> QED
    BY <1>1, <1>2, <1>3, <1>4

LEMMA NextKeepsObservers ==
    ASSUME ScenInv, Next
    PROVE  /\ was' \in [Hosts -> SUBSET Conditions]
           /\ disturbed' \in 0 .. MaxDisturbances /\ misread' \in BOOLEAN
<1>1. was \in [Hosts -> SUBSET Conditions] /\ disturbed \in 0 .. MaxDisturbances
    BY DEF ScenInv, ScenarioTypeOK
<1>2. misread \in BOOLEAN
    BY Booleans
<1>3. CASE TakeStep
  <2>1. StartsToObserve /\ UNCHANGED disturbed
      BY <1>3 DEF TakeStep
  <2>2. misread' \in BOOLEAN
      BY <2>1, StartObserved, Zenon
  <2> QED
      BY <1>1, <2>1, <2>2, StartObserved
<1>4. CASE Begin \/ OutOfTime \/ NoMoreSteps \/ StatusesRead \/ Evaluate \/ Report
  <2>1. UNCHANGED <<was, misread, disturbed>>
      BY <1>4 DEF Begin, OutOfTime, NoMoreSteps, StatusesRead, Evaluate, Report
  <2> QED
      BY <1>1, <1>2, <2>1
<1>5. ASSUME Observes, Fault \/ NoFault \/ (Disturb /\ UNCHANGED misread)
      PROVE  /\ was' \in [Hosts -> SUBSET Conditions]
             /\ disturbed' \in 0 .. MaxDisturbances /\ misread' \in BOOLEAN
    BY <1>5, Observed, NextKeepsServers, FaultTypes
<1>6. CASE Deploy \/ Cleanup \/ FailNode \/ DriftHost \/ DriftRead
    BY <1>5, <1>6 DEF Deploy, Cleanup, Cleans, FailNode, DriftHost, DriftRead
<1>7. CASE ReadStatus \/ StartServer \/ AwaitServer \/ Repaired
    BY <1>5, <1>7 DEF ReadStatus, StartServer, AwaitServer, Repaired
<1>8. CASE Ping \/ Validated \/ Reconciled \/ Close \/ Change
    BY <1>5, <1>8 DEF Ping, Validated, Reconciled, Close, Cleans, Change
<1>9. CASE Settle
    BY <1>5, <1>9 DEF Settle, NoFault
<1> QED
    BY <1>3, <1>4, <1>6, <1>7, <1>8, <1>9 DEF Next, Step

LEMMA NextKeepsTypes == ASSUME ScenInv, Next PROVE ScenarioTypeOK'
<1>1. {bad, ok, met, misread, instant, entry}' \subseteq BOOLEAN
    BY NextKeepsBad, NextKeepsEntry, NextKeepsVerdicts, NextKeepsObservers, Zenon
<1> QED
    BY <1>1, NextKeepsVerdicts, NextKeepsObservers, NextKeepsRunner, NextKeepsServers,
       NextKeepsShapes DEF ScenarioTypeOK, RunnerOK, Servers

-----------------------------------------------------------------------------
(* Readings *)

Stay == pc' \in {"drift", "repair", "await", "validate"}

\* What observes keeps what was seen, and adds how the hosts are.
LEMMA Noted ==
    ASSUME ScenInv, Next, Observes, Stay
    PROVE  \A h \in Hosts :
               /\ was[h] \subseteq was'[h]
               /\ Condition(h)' \in was'[h]
               /\ Condition(h)' \in Conditions
<1>1. \A h \in Hosts : was'[h] = was[h] \cup {Condition(h)'}
    BY Observed, NextKeepsServers DEF Stay
<1>2. \A h \in Hosts : Condition(h)' \in Conditions
    BY NextKeepsServers DEF Servers, Condition, Conditions
<1> QED
    BY <1>1, <1>2

\* What was seen of a host stays seen.
LEMMA StillSeen ==
    ASSUME ScenInv, Next, Observes, Stay
    PROVE  \A h \in Hosts :
               /\ BeenUp(h) => BeenUp(h)'
               /\ BeenDown(h) => BeenDown(h)'
               /\ Seen(h) => Seen(h)'
               /\ OnItsWay(h) => OnItsWay(h)'
BY Noted DEF BeenUp, BeenDown, Been, Seen, OnItsWay

LEMMA ConditionStays ==
    ASSUME UNCHANGED provider PROVE \A h \in Hosts : Condition(h)' = Condition(h)
BY DEF Condition, provider

LEMMA PairsOfHosts == \A p \in Tested : p[1] \in Hosts /\ p[2] \in Hosts
BY ScenarioAssumption

\* A look at a host sees it up, or sees it down.
LEMMA Looked ==
    ASSUME ScenInv, Next, Observes, Stay, UNCHANGED provider
    PROVE  \A h \in Hosts : (Up(h) => BeenUp(h)') /\ (~Up(h) => BeenDown(h)')
BY Noted, ConditionStays DEF Up, BeenUp, BeenDown, Been

LEMMA DriftHostReads == ASSUME ScenInv, DriftHost PROVE ReadInv'
<1>1. PICK h \in todo :
          /\ todo' = todo \ {h}
          /\ \/ bad' = (bad \/ ~Up(h)) /\ NoFault
             \/ bad' = TRUE /\ Fault
    BY DEF DriftHost, Runs
<1>2. pc = "drift" /\ pc' = "drift" /\ UNCHANGED provider /\ Observes /\ Next /\ Stay
    BY DEF DriftHost, Next, Step, Stay
<1>3. /\ todo \subseteq Hosts
      /\ ~bad => \A k \in Hosts \ todo : BeenUp(k)
      /\ bad => misread \/ \E k \in Hosts : BeenDown(k)
    BY <1>2 DEF ScenInv, ReadInv
<1>4. \A k \in Hosts : (BeenUp(k) => BeenUp(k)') /\ (BeenDown(k) => BeenDown(k)')
    BY <1>2, StillSeen
<1>5. (Up(h) => BeenUp(h)') /\ (~Up(h) => BeenDown(h)')
    BY <1>1, <1>2, <1>3, Looked
<1>6. CASE bad' = TRUE /\ Fault
  <2>1. misread' = TRUE /\ bad' = TRUE
      BY <1>6 DEF Fault
  <2> QED
      BY <1>1, <1>2, <1>3, <2>1 DEF ReadInv
<1>7. CASE bad' = (bad \/ ~Up(h)) /\ NoFault
  <2>1. misread' = misread
      BY <1>7 DEF NoFault
  <2>2. bad' <=> bad \/ ~Up(h)
      BY <1>7
  <2>3. ~bad' => \A k \in Hosts \ todo' : BeenUp(k)'
      BY <1>1, <1>3, <1>4, <1>5, <2>2
  <2>4. bad' => misread' \/ \E k \in Hosts : BeenDown(k)'
      BY <1>1, <1>3, <1>4, <1>5, <2>1, <2>2
  <2>5. todo' \subseteq Hosts
      BY <1>1, <1>3
  <2> QED
      BY <1>2, <2>3, <2>4, <2>5 DEF ReadInv
<1> QED
    BY <1>1, <1>6, <1>7

LEMMA PingReads == ASSUME ScenInv, Ping PROVE ReadInv'
<1>1. PICK p \in todo :
          /\ todo' = todo \ {p}
          /\ \/ bad' = (bad \/ ~Up(p[1]) \/ ~Up(p[2])) /\ NoFault
             \/ bad' = TRUE /\ Fault
    BY DEF Ping
<1>2. /\ pc = "validate" /\ pc' = "validate" /\ UNCHANGED <<provider, step, started>> /\ Observes
      /\ Next /\ Stay
    BY DEF Ping, Next, Step, Stay, repair
<1>3. /\ todo \subseteq Tested
      /\ ~bad => \A q \in Tested \ todo : BeenUp(q[1]) /\ BeenUp(q[2])
      /\ bad => misread \/ \E k \in Hosts : BeenDown(k)
      /\ step.action = "reconcile" => misread \/ \A k \in rows : Dealt(k)
    BY <1>2 DEF ScenInv, ReadInv
<1>4. \A k \in Hosts : (BeenUp(k) => BeenUp(k)') /\ (BeenDown(k) => BeenDown(k)')
    BY <1>2, StillSeen
<1>5. p[1] \in Hosts /\ p[2] \in Hosts
    BY <1>3, PairsOfHosts
<1>6. \A k \in Hosts : (Up(k) => BeenUp(k)') /\ (~Up(k) => BeenDown(k)')
    BY <1>2, Looked
<1>7. rows' = rows /\ \A k \in rows : Dealt(k) => Dealt(k)'
    BY <1>2, StillSeen DEF provider, ScenInv, ScenarioTypeOK, Dealt
<1>8. CASE bad' = TRUE /\ Fault
  <2>1. misread' = TRUE /\ bad' = TRUE
      BY <1>8 DEF Fault
  <2> QED
      BY <1>1, <1>2, <1>3, <2>1 DEF ReadInv
<1>9. CASE bad' = (bad \/ ~Up(p[1]) \/ ~Up(p[2])) /\ NoFault
  <2>1. misread' = misread
      BY <1>9 DEF NoFault
  <2>2. bad' <=> bad \/ ~Up(p[1]) \/ ~Up(p[2])
      BY <1>9
  <2>3. ~bad' => \A q \in Tested \ todo' : BeenUp(q[1])' /\ BeenUp(q[2])'
      BY <1>1, <1>3, <1>4, <1>5, <1>6, <2>2, PairsOfHosts
  <2>4. bad' => misread' \/ \E k \in Hosts : BeenDown(k)'
      BY <1>1, <1>3, <1>4, <1>5, <1>6, <2>1, <2>2
  <2>5. step'.action = "reconcile" => misread' \/ \A k \in rows' : Dealt(k)'
      BY <1>2, <1>3, <1>7, <2>1
  <2>6. todo' \subseteq Tested
      BY <1>1, <1>3
  <2> QED
      BY <1>2, <2>3, <2>4, <2>5, <2>6 DEF ReadInv
<1> QED
    BY <1>1, <1>8, <1>9

\* A host whose status is read, and is not stopped, is up, gone or on its way.
LEMMA ReadStatusReads == ASSUME ScenInv, ReadStatus PROVE ReadInv'
<1>1. PICK h \in todo :
          /\ todo' = todo \ {h}
          /\ \/ starting' = {g \in {h} : Stopped(g)} /\ NoFault
             \/ Fault /\ UNCHANGED starting
    BY DEF ReadStatus
<1>2. /\ pc = "repair" /\ pc' = "repair" /\ starting = {} /\ UNCHANGED <<bad, started, provider>>
      /\ UNCHANGED instant /\ Observes /\ Next /\ Stay
    BY DEF ReadStatus, Next, Step, Stay, Unchanged, input
<1>3. /\ todo \subseteq Hosts /\ ~bad /\ rows \subseteq Hosts
      /\ \A k \in rows \cap started : instant => Seen(k)
      /\ misread \/ \A k \in rows \ (todo \cup starting \cup started) : Dealt(k)
    BY <1>2 DEF ScenInv, ReadInv, ScenarioTypeOK
<1>4. rows' = rows /\ \A k \in rows : (Seen(k) => Seen(k)') /\ (Dealt(k) => Dealt(k)')
    BY <1>2, <1>3, StillSeen DEF provider, Dealt
<1>5. todo' \subseteq Hosts /\ ~bad' /\ \A k \in rows' \cap started' : instant' => Seen(k)'
    BY <1>1, <1>2, <1>3, <1>4
<1>6. misread' \/ \A k \in rows' \ (todo' \cup starting' \cup started') : Dealt(k)'
  <2>1. CASE Fault
      BY <2>1 DEF Fault
  <2>2. CASE starting' = {g \in {h} : Stopped(g)} /\ NoFault
    <3>1. misread' = misread
        BY <2>2 DEF NoFault
    <3>2. ASSUME h \in rows, ~Stopped(h), h \notin started PROVE Dealt(h)'
      <4>1. Condition(h) = server[h] /\ server[h] \in Conditions \ {"stopped"}
          BY <1>3, <3>2 DEF Condition, Stopped, ScenInv, ScenarioTypeOK
      <4>2. Condition(h) \in was'[h]
          BY <1>2, <1>3, <3>2, Noted, ConditionStays
      <4> QED
          BY <1>2, <3>2, <4>1, <4>2
             DEF Dealt, Seen, OnItsWay, BeenUp, Been, Conditions
    <3>3. ASSUME NEW k \in rows, k \notin todo', k \notin starting', k \notin started', ~misread
          PROVE  Dealt(k)'
      <4>1. CASE k = h
          BY <1>2, <2>2, <3>2, <3>3, <4>1
      <4>2. CASE k # h
          BY <1>1, <1>2, <1>3, <1>4, <3>3, <4>2
      <4> QED
          BY <4>1, <4>2
    <3> QED
        BY <1>4, <3>1, <3>3
  <2> QED
      BY <1>1, <2>1, <2>2
<1> QED
    BY <1>2, <1>5, <1>6 DEF ReadInv

\* A server of the mock that is started is up, or gone.
LEMMA StartServerReads == ASSUME ScenInv, StartServer PROVE ReadInv'
<1>1. CASE pc' = "raised"
    BY <1>1 DEF ReadInv
<1>2. CASE pc' # "raised"
  <2>1. PICK h \in starting :
            /\ server[h] # "stopping" /\ NoFault
            /\ server' = [server EXCEPT ![h] = Revived(h)]
            /\ starting' = starting \ {h} /\ started' = started \cup {h} /\ UNCHANGED pc
      BY <1>2 DEF StartServer
  <2>2. /\ pc = "repair" /\ pc' = "repair" /\ UNCHANGED <<todo, bad, rows, instant>>
        /\ Observes /\ Next /\ Stay /\ UNCHANGED misread
      BY <2>1 DEF StartServer, Next, Step, Stay, Unchanged, input, NoFault
  <2>3. /\ todo \subseteq Hosts /\ ~bad /\ rows \subseteq Hosts /\ starting \subseteq Hosts
        /\ \A k \in rows \cap started : instant => Seen(k)
        /\ misread \/ \A k \in rows \ (todo \cup starting \cup started) : Dealt(k)
        /\ server \in [Hosts -> Conditions]
        /\ instant => server[h] # "pending"
      BY <2>1, <2>2 DEF ScenInv, ReadInv, ScenarioTypeOK, Instant
  <2>4. \A k \in Hosts : (Seen(k) => Seen(k)') /\ (OnItsWay(k) => OnItsWay(k)')
      BY <2>2, StillSeen
  <2>5. ASSUME h \in rows, instant PROVE Seen(h)'
    <3>1. server'[h] \in {"running", "absent"}
        BY <2>1, <2>3, <2>5 DEF Revived, Conditions
    <3>2. Condition(h)' = server'[h] /\ Condition(h)' \in was'[h]
        BY <2>2, <2>3, <2>5, Noted DEF Condition
    <3> QED
        BY <3>1, <3>2 DEF Seen, BeenUp, Been
  <2>6. \A k \in rows' \cap started' : instant' => Seen(k)'
      BY <2>1, <2>2, <2>3, <2>4, <2>5
  <2>7. misread' \/ \A k \in rows' \ (todo' \cup starting' \cup started') : Dealt(k)'
      BY <2>1, <2>2, <2>3, <2>4 DEF Dealt
  <2> QED
      BY <2>2, <2>3, <2>6, <2>7 DEF ReadInv
<1> QED
    BY <1>1, <1>2

LEMMA StatusesReadReads == ASSUME ScenInv, StatusesRead PROVE ReadInv'
<1>1. /\ pc = "repair" /\ pc' = "await" /\ todo = {} /\ starting = {} /\ todo' = started
      /\ UNCHANGED <<bad, started, rows, was, misread, instant>>
    BY DEF StatusesRead, repair, provider, Unchanged, input
<1>2. /\ started \subseteq Hosts /\ ~bad
      /\ \A k \in rows \cap started : instant => Seen(k)
      /\ misread \/ \A k \in rows \ started : Dealt(k)
    BY <1>1 DEF ScenInv, ReadInv, ScenarioTypeOK
<1>3. \A k \in Hosts : (Seen(k) <=> Seen(k)') /\ (Dealt(k) <=> Dealt(k)')
    BY <1>1 DEF Seen, Dealt, OnItsWay, BeenUp, Been
<1>4. rows \subseteq Hosts
    BY DEF ScenInv, ScenarioTypeOK
<1> QED
    BY <1>1, <1>2, <1>3, <1>4 DEF ReadInv

\* A server that the reconciliation waits for is up when the waiting ends.
LEMMA AwaitServerReads == ASSUME ScenInv, AwaitServer PROVE ReadInv'
<1>1. CASE pc' = "raised"
    BY <1>1 DEF ReadInv
<1>2. CASE pc' # "raised"
  <2>1. PICK h \in todo : Awaited(h) /\ todo' = todo \ {h} /\ NoFault /\ UNCHANGED pc
      BY <1>2 DEF AwaitServer
  <2>2. /\ pc = "await" /\ pc' = "await" /\ UNCHANGED <<bad, started, provider, instant, misread>>
        /\ Observes /\ Next /\ Stay
      BY <2>1 DEF AwaitServer, Next, Step, Stay, Unchanged, input, NoFault, repair
  <2>3. /\ todo \subseteq Hosts /\ ~bad /\ rows \subseteq Hosts
        /\ \A k \in rows \cap started : instant \/ k \notin todo => Seen(k)
        /\ misread \/ \A k \in rows \ started : Dealt(k)
      BY <2>2 DEF ScenInv, ReadInv, ScenarioTypeOK
  <2>4. rows' = rows /\ \A k \in rows : (Seen(k) => Seen(k)') /\ (Dealt(k) => Dealt(k)')
      BY <2>2, <2>3, StillSeen DEF provider, Dealt
  <2>5. ASSUME h \in rows, ~instant PROVE Seen(h)'
    <3>1. Up(h)
        BY <2>1, <2>5 DEF Awaited, Up, Condition
    <3> QED
        BY <2>2, <2>3, <2>5, <3>1, Looked DEF Seen
  <2>6. \A k \in rows' \cap started' : instant' \/ k \notin todo' => Seen(k)'
      BY <2>1, <2>2, <2>3, <2>4, <2>5
  <2> QED
      BY <2>1, <2>2, <2>3, <2>4, <2>6 DEF ReadInv
<1> QED
    BY <1>1, <1>2

LEMMA RepairedReads == ASSUME ScenInv, Repaired PROVE ReadInv'
<1>1. CASE pc' # "validate"
    BY <1>1 DEF Repaired, ReadInv
<1>2. CASE pc' = "validate"
  <2>1. /\ pc = "await" /\ pc' = "validate" /\ todo = {} /\ todo' = Tested
        /\ UNCHANGED <<step, bad, rows, misread, started>> /\ Observes /\ Next /\ Stay
      BY <1>2 DEF Repaired, provider, repair, NoFault, Next, Step, Stay
  <2>2. /\ ~bad /\ rows \subseteq Hosts
        /\ \A k \in rows \cap started : Seen(k)
        /\ misread \/ \A k \in rows \ started : Dealt(k)
      BY <2>1 DEF ScenInv, ReadInv, ScenarioTypeOK
  <2>3. misread \/ \A k \in rows : Dealt(k)
      BY <2>2 DEF Dealt
  <2>4. \A k \in rows : Dealt(k) => Dealt(k)'
      BY <2>1, <2>2, StillSeen DEF Dealt
  <2> QED
      BY <2>1, <2>2, <2>3, <2>4 DEF ReadInv
<1> QED
    BY <1>1, <1>2

\* Other requests, and servers that arrive, leave what the loops have seen.
LEMMA OthersRead == ASSUME ScenInv, Change \/ Settle PROVE ReadInv'
<1>1. /\ UNCHANGED <<pc, step, todo, bad, starting, started, rows, misread, instant>>
      /\ Observes /\ rows \subseteq Hosts /\ Next
    BY DEF Change, Settle, runner, repair, input, ScenInv, ScenarioTypeOK, Next
<1>2. CASE ~Stay
    BY <1>1, <1>2 DEF ReadInv, Stay
<1>3. CASE Stay
  <2>1. \A k \in Hosts : /\ BeenUp(k) => BeenUp(k)'
                         /\ BeenDown(k) => BeenDown(k)'
                         /\ Seen(k) => Seen(k)'
                         /\ Dealt(k) => Dealt(k)'
      BY <1>1, <1>3, StillSeen DEF Dealt
  <2>2. ReadInv
      BY DEF ScenInv
  <2>3. CASE pc = "drift"
      BY <1>1, <2>1, <2>2, <2>3 DEF ReadInv
  <2>4. CASE pc = "repair"
      BY <1>1, <2>1, <2>2, <2>4 DEF ReadInv
  <2>5. CASE pc = "await"
      BY <1>1, <2>1, <2>2, <2>5 DEF ReadInv
  <2>6. CASE pc = "validate"
      BY <1>1, <2>1, <2>2, <2>6, PairsOfHosts DEF ReadInv
  <2> QED
      BY <1>1, <1>3, <2>3, <2>4, <2>5, <2>6 DEF Stay
<1> QED
    BY <1>2, <1>3

LEMMA NextKeepsReads == ASSUME ScenInv, Next PROVE ReadInv'
<1>1. CASE ~Stay
    BY <1>1 DEF ReadInv, Stay
<1>2. CASE TakeStep
  <2>1. /\ misread' = FALSE /\ bad' = FALSE /\ pc' \notin {"repair", "await"}
        /\ pc' = "drift" => todo' = Hosts
        /\ pc' = "validate" => todo' = Tested /\ step'.action = "validate"
      BY <1>2 DEF TakeStep, Takes, StartsToObserve
  <2> QED
      BY <2>1 DEF ReadInv
<1>3. CASE DriftRead /\ pc' = "repair"
  <2>1. todo' \subseteq Hosts /\ rows' \subseteq todo' /\ bad' = FALSE /\ started' = {}
      BY <1>3 DEF DriftRead, provider, repair, ScenInv, ScenarioTypeOK, Idle
  <2> QED
      BY <1>3, <2>1 DEF ReadInv
<1>4. \/ ~Stay
      \/ TakeStep \/ (DriftRead /\ pc' = "repair")
      \/ DriftHost \/ Ping \/ ReadStatus \/ StartServer \/ StatusesRead \/ AwaitServer \/ Repaired
      \/ Change \/ Settle
    BY DEF Next, Step, Begin, OutOfTime, NoMoreSteps, Deploy, Cleanup, FailNode, DriftRead,
           Validated, Reconciled, Evaluate, Report, Close, Stay
<1> QED
    BY <1>1, <1>2, <1>3, <1>4, DriftHostReads, PingReads, ReadStatusReads, StartServerReads,
       StatusesReadReads, AwaitServerReads, RepairedReads, OthersRead

-----------------------------------------------------------------------------
(* Results *)

LEMMA InitScenInv == ASSUME Init PROVE ScenInv
<1>1. log = <<>> /\ log \in Seq(LogRecord) /\ DOMAIN log = {} /\ Len(log) = 0
    BY DEF Init
<1>2. clock = NoClock /\ clock \in Clock
    BY DEF Init, NoClock, Clock
<1>3. Shapes
    BY <1>1, <1>2, NoStepType DEF Init, Shapes
<1>4. {bad, ok, met, misread, instant, entry} \subseteq BOOLEAN
    BY Zenon DEF Init
<1>5. ScenarioTypeOK
  <2>1. /\ clock.failed \in 0 .. Len(log) /\ clock.reconciled \in BOOLEAN
        /\ disturbed \in 0 .. MaxDisturbances
      BY <1>1, <1>2, ScenarioBoundAssumption DEF Init, NoClock
  <2>2. /\ server \in [Hosts -> Conditions]
        /\ was \in [Hosts -> SUBSET Conditions]
      BY DEF Init, Conditions
  <2>3. limited \in BOOLEAN
      BY Zenon DEF Init
  <2> QED
      BY <1>4, <2>1, <2>2, <2>3 DEF Init, ScenarioTypeOK, Stages
<1>6. VerdictInv
    BY <1>1 DEF Init, VerdictInv, AllPassed
<1>7. Failures = {} /\ Repairs = {} /\ Proofs = {}
    BY <1>1 DEF Failures, Repairs, Proofs
<1>8. ClockInv
    BY <1>2, <1>7 DEF ClockInv, RecoveryIsMeasured, NoClock
<1> QED
    BY <1>3, <1>5, <1>6, <1>8 DEF Init, ScenInv, StepFits, ReadInv, Instant, Idle, ClosedAsAsked

LEMMA StutterKeepsScenInv == ASSUME ScenInv, UNCHANGED vars PROVE ScenInv'
<1>1. UNCHANGED <<pc, closing, limited, instant, step, todo, bad, starting, started, log, ok, met,
                  clock, attempts, run, rows, entry, server, was, misread, disturbed>>
    BY DEF vars, runner, input, repair, provider
<1>2. (ScenarioTypeOK /\ Shapes /\ StepFits)'
    BY <1>1 DEF ScenInv, ScenarioTypeOK, Shapes, StepFits
<1>3. VerdictInv'
    BY <1>1 DEF ScenInv, VerdictInv, AllPassed, Measured
<1>4. ClockInv'
    BY <1>1, ClockUntouched
<1>5. (ReadInv /\ Instant /\ Idle /\ ClosedAsAsked)'
    BY <1>1 DEF ScenInv, ReadInv, Instant, Idle, ClosedAsAsked, BeenUp, BeenDown, Been, Seen, Dealt, OnItsWay
<1> QED
    BY <1>2, <1>3, <1>4, <1>5 DEF ScenInv

LEMMA NextKeepsScenInv == ASSUME ScenInv, [Next]_vars PROVE ScenInv'
<1>1. CASE Next
    BY <1>1, NextKeepsTypes, NextKeepsShapes, NextKeepsFit, NextKeepsVerdict, NextKeepsClock,
       NextKeepsReads, NextKeepsServers, NextKeepsIdle, NextKeepsClosing DEF ScenInv
<1> QED
    BY <1>1, StutterKeepsScenInv

\* The strengthened invariant of a scenario run: stages, records, verdict, clock and what the
\* loops have seen agree in every reachable state of ScenarioRunner.run.
THEOREM ScenarioInvariance == Spec => []ScenInv
BY InitScenInv, NextKeepsScenInv, PTL DEF Spec

\* The variables keep their types, and the closing cleanup is never tried a third time
\* (_attempt_scenario_cleanup).
THEOREM ScenarioTypeCorrect == Spec => []ScenarioTypeOK
<1>1. ScenInv => ScenarioTypeOK
    BY DEF ScenInv
<1> QED
    BY <1>1, ScenarioInvariance, PTL

\* The row of a run says PASSED exactly when every step came out as expected and the
\* requirements are met; a limited recovery takes a failure, a reconciliation and a passed
\* validation in this order (ScenarioRunner.run, _finalize_scenario_run).
THEOREM VerdictCorrect == Spec => []VerdictMatchesRecords
<1>1. ASSUME ScenInv PROVE VerdictMatchesRecords
  <2> SUFFICES ASSUME pc = "close" PROVE VerdictMatchesRecords
      BY DEF VerdictMatchesRecords
  <2>1. (ok <=> met /\ AllPassed) /\ (met /\ limited => Measured)
        /\ run = (IF ok THEN "PASSED" ELSE "FAILED")
      BY <1>1 DEF ScenInv, VerdictInv
  <2>2. \A i \in DOMAIN log : Deserved(log[i])
      BY <1>1 DEF ScenInv, VerdictInv
  <2>3. ASSUME Measured
        PROVE  \E f, r, v \in DOMAIN log :
                 /\ f < r /\ r < v
                 /\ log[f].action = "fail" /\ log[r].action = "reconcile"
                 /\ log[v].action = "validate" /\ log[v].actual = "PASSED"
    <3>1. PICK v \in Proofs : TRUE
        BY <1>1, <2>3 DEF ScenInv, ClockInv, RecoveryIsMeasured, Measured
    <3>2. PICK r \in Repairs : r < v
        BY DEF Proofs
    <3>3. PICK f \in Failures : f < r
        BY DEF Repairs
    <3>4. log[r].action = "reconcile"
        BY <1>1 DEF Repairs, ScenInv, VerdictInv, Deserved
    <3> QED
        BY <3>1, <3>2, <3>3, <3>4 DEF Proofs, Repairs, Failures
  <2> QED
      BY <2>1, <2>2, <2>3 DEF VerdictMatchesRecords, AllPassed, Deserved
<1> QED
    BY <1>1, ScenarioInvariance, PTL

\* The recovery time runs from the last failure before it to the first passed validation
\* after a reconciliation of a failure (failure_perf, reconcile_after_failure).
THEOREM RecoveryMeasured == Spec => []RecoveryIsMeasured
<1>1. ScenInv => RecoveryIsMeasured
    BY DEF ScenInv, ClockInv
<1> QED
    BY <1>1, ScenarioInvariance, PTL

\* A run that asked for its cleanup is over without rows, unless both attempts have failed
\* (cleanup_after_run, cleanup_on_failure).
THEOREM ClosingCorrect == Spec => []ClosedAsAsked
<1>1. ScenInv => ClosedAsAsked
    BY DEF ScenInv
<1> QED
    BY <1>1, ScenarioInvariance, PTL

\* A step that makes the records longer pushes a faithful one.
LEMMA PushedIsFaithful ==
    ASSUME ScenInv, Next, Pushed PROVE \E r \in LogRecord : Faithful(r) /\ Latest = r
<1>1. Len(log) \in Nat
    BY DEF ScenInv, Shapes
<1>2. ASSUME NEW r \in LogRecord, Faithful(r) PROVE Latest = r
  <2>1. Len(log') = Now /\ log'[Now] = r
      BY <1>2, Appended DEF ScenInv, Faithful, Pushing
  <2> QED
      BY <2>1 DEF Latest
<1>3. log' # log
    BY <1>1 DEF Pushed
<1>4. log' # <<>>
  <2>1. Len(<<>>) = 0
      OBVIOUS
  <2> QED
      BY <1>1, <2>1 DEF Pushed
<1>5. Silent \/ Evaluate \/ Report \/ Close => log' = log \/ log' = <<>>
    BY DEF Silent, Evaluate, Report, Close
<1> QED
    BY <1>2, <1>3, <1>4, <1>5, RecordSteps

\* What drift detection and validation report is about this step, although other requests
\* stop and start the hosts between their readings (detect_topology_drift,
\* validate_topology_links).
THEOREM ReadingsCorrect == Spec => ReadingsAreReal
<1> DEFINE Reported ==
        Pushed =>
          /\ Latest.actual = "CLEAN" => \A h \in Hosts : BeenUp(h)
          /\ Latest.actual = "PASSED" =>
               \A p \in Tested : BeenUp(p[1]) /\ BeenUp(p[2])
          /\ Latest.actual \in {"DETECTED", "FAILED"} /\ Latest.action \in {"drift", "validate"}
               => misread' \/ \E h \in Hosts : BeenDown(h)
<1>1. ASSUME ScenInv, Next PROVE Reported
    BY <1>1, PushedIsFaithful DEF Faithful, Real
<1>2. ScenInv /\ [Next]_vars => [Reported]_vars
    BY <1>1
<1> QED
    BY <1>2, ScenarioInvariance, PTL DEF Spec, ReadingsAreReal

\* After a reconciliation without a failed call every recorded host has been up since it began,
\* unless it was gone or, not having been found stopped, was seen on its way: whoever stops and
\* starts servers between reading, starting and waiting, and although a stop or a start takes
\* time (reconcile_topology, wait_for_server_running).
THEOREM ReconcileCorrect == Spec => ReconcileRevives
<1> DEFINE Repaid ==
        Pushed /\ Latest.actual = "RECONCILED" =>
          \/ misread'
          \/ \A h \in rows :
               BeenUp(h) \/ Been(h, "absent") \/ (h \notin started /\ OnItsWay(h))
<1>1. ASSUME ScenInv, Next PROVE Repaid
    BY <1>1, PushedIsFaithful DEF Faithful, Real, Dealt, Seen
<1>2. ScenInv /\ [Next]_vars => [Repaid]_vars
    BY <1>1
<1> QED
    BY <1>2, ScenarioInvariance, PTL DEF Spec, ReconcileRevives

=============================================================================
