-------------------------- MODULE ValidationProofs --------------------------
(***************************************************************************)
(* Proofs about Validation, for any number of calls, checks, threads and   *)
(* disturbances and any streak.                                            *)
(***************************************************************************)
EXTENDS Validation, FiniteSetTheorems, TLAPS

-----------------------------------------------------------------------------
(* The inductive invariant *)

\* A call has jobs from Submit on, and threads until it has ended; what it does not test
\* it skips.
Staged(c) ==
    /\ stage[c] \in {"idle", "begun"} => \A i \in Tested(c) : job[c][i].pc = "none"
    /\ stage[c] = "ended" => Finished(c)
    /\ outcome[c] # "none" <=> stage[c] = "ended"
    /\ \A i \in Positions(c) \ Tested(c) : slots[c][i] = "SKIPPED"

\* An answer is a job's last word; what is filled in as passed has been answered so.
Truthful(c, i) ==
    /\ job[c][i].answer # "none" => job[c][i].pc = "done"
    /\ slots[c][i] # "SKIPPED"
    /\ slots[c][i] = "PASSED" \/ outcome[c] = "PASSED" => job[c][i].answer = "PASSED"

\* What a thread has read of the streak, and what it does after it, never promises less
\* than the streak that was asked for.
Owed(c, i) ==
    /\ job[c][i].pc = "spend" => job[c][i].seen > 0 /\ refused + job[c][i].seen >= Streak
    /\ job[c][i].pc = "source" \/ job[c][i].answer = "PASSED" => refused >= Streak

CallsInv ==
    \A c \in Calls : /\ Staged(c)
                     /\ \A i \in Tested(c) : Truthful(c, i) /\ Owed(c, i)

ValInv ==
    /\ ValidationTypeOK
    /\ CallsInv
    /\ refused + streak >= Streak

-----------------------------------------------------------------------------
(* Facts about the operators *)

\* What is tested is among the positions.
LEMMA TestedPositions == ASSUME NEW c \in Calls PROVE Tested(c) \subseteq Positions(c)
BY DEF Tested

\* The jobs at work are finitely many.
LEMMA WorkingFinite ==
    ASSUME NEW c \in Calls
    PROVE  IsFiniteSet(Working(c)) /\ Cardinality(Working(c)) \in Nat
<1>1. Working(c) \subseteq Positions(c)
    BY TestedPositions DEF Working
<1>2. IsFiniteSet(Positions(c))
    BY ChecksAssumption
<1> QED
    BY <1>1, <1>2, FS_Subset, FS_CardinalityType

\* Records of jobs.
LEMMA Jobs ==
    /\ NoJob \in Job
    /\ \A step \in {"queued", "target", "streak", "source"} : At(step, 0) \in Job
    /\ \A n \in Nat : At("spend", n) \in Job
    /\ \A answer \in {"PASSED", "FAILED", "error"} : Done(answer) \in Job
BY DEF NoJob, At, Done, Job

-----------------------------------------------------------------------------
(* The steps of the threads *)

\* What every step of a thread does: the job at i moves on to j.
Advances(c, i, j) ==
    /\ Works(c, i, j)
    /\ job[c][i].pc \in {"queued", "target", "streak", "spend", "source"}
    /\ j.pc \notin {"none", "queued"}
    /\ j.answer # "none" => j.pc = "done"
    /\ job[c][i].pc = "queued" /\ j.pc # "done" => Free(c)
    /\ streak' \in Nat /\ refused' \in Nat /\ disturbed' \in Nat
    /\ refused' >= refused /\ refused' + streak' >= Streak
    /\ j.pc = "spend" => j.seen > 0 /\ refused' + j.seen >= Streak
    /\ j.pc = "source" \/ j.answer = "PASSED" => refused' >= Streak

LEMMA DisturbType == ASSUME disturbed \in Nat, Disturb PROVE disturbed' \in Nat
BY DEF Disturb

LEMMA StartAdvances ==
    ASSUME ValInv, NEW c \in Calls, NEW i \in Tested(c), Start(c, i)
    PROVE  \E j \in Job : Advances(c, i, j)
<1>1. job[c][i].pc = "queued" /\ Free(c) /\ UNCHANGED mock
    BY DEF Start, Queued
<1>2. streak \in Nat /\ refused \in Nat /\ disturbed \in Nat /\ refused + streak >= Streak
    BY DEF ValInv, ValidationTypeOK
<1>3. PICK j \in {At("target", 0), Done("FAILED"), Done("error")} :
          Works(c, i, j) /\ disturbed' \in Nat
    BY <1>2, DisturbType DEF Start
<1>4. j \in Job /\ j.pc \in {"target", "done"} /\ j.answer # "PASSED"
      /\ (j.answer # "none" => j.pc = "done")
    BY Jobs DEF At, Done
<1> QED
    BY <1>1, <1>2, <1>3, <1>4, ValidationBoundAssumption DEF Advances, mock

LEMMA CheckTargetAdvances ==
    ASSUME ValInv, NEW c \in Calls, NEW i \in Tested(c), CheckTarget(c, i)
    PROVE  \E j \in Job : Advances(c, i, j)
<1>1. job[c][i].pc = "target" /\ UNCHANGED <<mock, disturbed>>
    BY DEF CheckTarget
<1>2. streak \in Nat /\ refused \in Nat /\ disturbed \in Nat /\ refused + streak >= Streak
    BY DEF ValInv, ValidationTypeOK
<1>3. PICK j \in {At("streak", 0), Done("FAILED")} : Works(c, i, j)
    BY DEF CheckTarget
<1>4. j \in Job /\ j.pc \in {"streak", "done"} /\ j.answer # "PASSED"
      /\ (j.answer # "none" => j.pc = "done")
    BY Jobs DEF At, Done
<1> QED
    BY <1>1, <1>2, <1>3, <1>4, ValidationBoundAssumption DEF Advances, mock

LEMMA ReadStreakAdvances ==
    ASSUME ValInv, NEW c \in Calls, NEW i \in Tested(c), ReadStreak(c, i)
    PROVE  \E j \in Job : Advances(c, i, j)
<1>1. job[c][i].pc = "streak" /\ UNCHANGED <<mock, disturbed>>
    BY DEF ReadStreak
<1>2. streak \in Nat /\ refused \in Nat /\ disturbed \in Nat /\ refused + streak >= Streak
    BY DEF ValInv, ValidationTypeOK
<1>3. CASE streak > 0
  <2>1. Works(c, i, At("spend", streak)) /\ At("spend", streak) \in Job
      BY <1>2, <1>3, Jobs DEF ReadStreak, Refuses
  <2>2. At("spend", streak).pc = "spend" /\ At("spend", streak).seen = streak
        /\ At("spend", streak).answer = "none"
      BY DEF At
  <2> QED
      BY <1>1, <1>2, <1>3, <2>1, <2>2, ValidationBoundAssumption DEF Advances, mock
<1>4. CASE ~(streak > 0)
  <2>1. Works(c, i, At("source", 0)) /\ At("source", 0) \in Job
      BY <1>4, Jobs DEF ReadStreak, Refuses
  <2>2. At("source", 0).pc = "source" /\ At("source", 0).answer = "none"
      BY DEF At
  <2> QED
      BY <1>1, <1>2, <1>4, <2>1, <2>2, ValidationBoundAssumption DEF Advances, mock
<1> QED
    BY <1>3, <1>4

LEMMA SpendAdvances ==
    ASSUME ValInv, NEW c \in Calls, NEW i \in Tested(c), Spend(c, i)
    PROVE  \E j \in Job : Advances(c, i, j)
<1>1. /\ job[c][i].pc = "spend" /\ Works(c, i, Done("FAILED")) /\ UNCHANGED disturbed
      /\ streak' = job[c][i].seen - 1 /\ refused' = refused + 1
    BY DEF Spend
<1>2. refused \in Nat /\ disturbed \in Nat
    BY DEF ValInv, ValidationTypeOK
<1>3. job[c][i].seen \in Nat
    BY TestedPositions DEF ValInv, ValidationTypeOK, Job
<1>4. job[c][i].seen > 0 /\ refused + job[c][i].seen >= Streak
    BY <1>1 DEF ValInv, CallsInv, Owed
<1>5. Done("FAILED") \in Job /\ Done("FAILED").pc = "done" /\ Done("FAILED").answer = "FAILED"
    BY Jobs DEF Done
<1> QED
    BY <1>1, <1>2, <1>3, <1>4, <1>5, ValidationBoundAssumption DEF Advances

LEMMA AnswerAdvances ==
    ASSUME ValInv, NEW c \in Calls, NEW i \in Tested(c), Answer(c, i)
    PROVE  \E j \in Job : Advances(c, i, j)
<1>1. job[c][i].pc = "source" /\ UNCHANGED mock
    BY DEF Answer
<1>2. streak \in Nat /\ refused \in Nat /\ disturbed \in Nat /\ refused + streak >= Streak
    BY DEF ValInv, ValidationTypeOK
<1>3. refused >= Streak
    BY <1>1 DEF ValInv, CallsInv, Owed
<1>4. PICK j \in {Done("PASSED"), Done("FAILED")} : Works(c, i, j) /\ disturbed' \in Nat
    BY <1>2, DisturbType DEF Answer
<1>5. j \in Job /\ j.pc = "done"
    BY Jobs DEF Done
<1> QED
    BY <1>1, <1>2, <1>3, <1>4, <1>5, ValidationBoundAssumption DEF Advances, mock

LEMMA ThreadAdvances ==
    ASSUME ValInv, NEW c \in Calls, NEW i \in Tested(c), WorkerStep(c, i) \/ Answer(c, i)
    PROVE  \E j \in Job : Advances(c, i, j)
BY StartAdvances, CheckTargetAdvances, ReadStreakAdvances, SpendAdvances, AnswerAdvances
   DEF WorkerStep

\* Only the job at i has moved.
LEMMA MovesOne ==
    ASSUME ValidationTypeOK, NEW c \in Calls, NEW i \in Tested(c), NEW j \in Job, Moves(c, i, j)
    PROVE  /\ DOMAIN job' = Calls
           /\ \A d \in Calls : job'[d] \in [Positions(d) -> Job]
           /\ \A d \in Calls : d # c => job'[d] = job[d]
           /\ job'[c][i] = j
           /\ \A k \in Positions(c) : k # i => job'[c][k] = job[c][k]
<1>1. DOMAIN job = Calls /\ \A d \in Calls : job[d] \in [Positions(d) -> Job]
    BY DEF ValidationTypeOK
<1>2. i \in Positions(c)
    BY TestedPositions
<1> QED
    BY <1>1, <1>2 DEF Moves

\* The pool stays within its threads.
LEMMA AdvanceWithinPool ==
    ASSUME ValidationTypeOK, NEW c \in Calls, NEW i \in Tested(c), NEW j \in Job,
           Advances(c, i, j), NEW d \in Calls
    PROVE  Cardinality(Working(d)') <= MaxParallel
<1>1. \A k \in Tested(d) : d # c \/ k # i => job'[d][k] = job[d][k]
    BY MovesOne, TestedPositions DEF Advances, Works
<1>2. Cardinality(Working(d)) <= MaxParallel
    BY DEF ValidationTypeOK
<1>3. IsFiniteSet(Working(d)) /\ Cardinality(Working(d)) \in Nat
    BY WorkingFinite
<1>4. CASE Working(d)' \subseteq Working(d)
  <2>1. Cardinality(Working(d)') <= Cardinality(Working(d)) /\ Cardinality(Working(d)') \in Nat
      BY <1>3, <1>4, FS_Subset, FS_CardinalityType
  <2> QED
      BY <1>2, <1>3, <2>1, ValidationBoundAssumption
<1>5. CASE ~(Working(d)' \subseteq Working(d))
  <2>1. d = c
      BY <1>1, <1>5 DEF Working
  <2>2. i \notin Working(c) /\ i \in Working(c)'
      BY <1>1, <1>5, <2>1 DEF Working
  <2>3. job[c][i].pc = "queued" /\ j.pc # "done"
      BY <2>2, MovesOne DEF Working, Advances, Works
  <2>4. Cardinality(Working(c)) < MaxParallel
      BY <2>3 DEF Advances, Free
  <2>5. Working(c)' \subseteq Working(c) \cup {i}
      BY <1>1, <2>1 DEF Working
  <2>6. IsFiniteSet(Working(c) \cup {i}) /\ Cardinality(Working(c) \cup {i}) = Cardinality(Working(c)) + 1
      BY <1>3, <2>1, <2>2, FS_AddElement
  <2>7. /\ Cardinality(Working(c)') <= Cardinality(Working(c) \cup {i})
        /\ Cardinality(Working(c)') \in Nat
      BY <2>5, <2>6, FS_Subset, FS_CardinalityType
  <2> QED
      BY <1>3, <2>1, <2>4, <2>6, <2>7, ValidationBoundAssumption
<1> QED
    BY <1>4, <1>5

\* The step of a thread keeps the invariant.
LEMMA AdvanceKeepsInv ==
    ASSUME ValInv, NEW c \in Calls, NEW i \in Tested(c), NEW j \in Job, Advances(c, i, j)
    PROVE  ValInv'
<1>1. ValidationTypeOK /\ CallsInv
    BY DEF ValInv
<1>2. UNCHANGED <<stage, slots, outcome, host, exists>> /\ Moves(c, i, j)
    BY DEF Advances, Works, call, world
<1>3. /\ DOMAIN job' = Calls
      /\ \A d \in Calls : job'[d] \in [Positions(d) -> Job]
      /\ job'[c][i] = j
      /\ \A d \in Calls : \A k \in Tested(d) : d # c \/ k # i => job'[d][k] = job[d][k]
    BY <1>1, <1>2, MovesOne, TestedPositions
<1>4. streak' \in Nat /\ refused' \in Nat /\ disturbed' \in Nat /\ refused \in Nat
      /\ refused' >= refused /\ refused' + streak' >= Streak
    BY <1>1 DEF Advances, ValidationTypeOK
<1>5. ValidationTypeOK'
    BY <1>1, <1>2, <1>3, <1>4, AdvanceWithinPool DEF ValidationTypeOK
<1>6. job[c][i].pc \in {"queued", "target", "streak", "spend", "source"}
      /\ j.pc \notin {"none", "queued"}
      /\ (j.answer # "none" => j.pc = "done")
    BY DEF Advances
<1>7. ASSUME NEW d \in Calls PROVE Staged(d)'
    BY <1>1, <1>2, <1>3, <1>6 DEF CallsInv, Staged, Finished
<1>8. ASSUME NEW d \in Calls, NEW k \in Tested(d) PROVE Truthful(d, k)'
    BY <1>1, <1>2, <1>3, <1>6 DEF CallsInv, Truthful
<1>9. ASSUME NEW d \in Calls, NEW k \in Tested(d) PROVE Owed(d, k)'
  <2>1. CASE d = c /\ k = i
      BY <1>3, <2>1 DEF Advances, Owed
  <2>2. CASE d # c \/ k # i
    <3>1. Owed(d, k) /\ job'[d][k] = job[d][k]
        BY <1>1, <1>3, <2>2 DEF CallsInv
    <3>2. job[d][k].seen \in Nat
        BY <1>1, TestedPositions DEF ValidationTypeOK, Job
    <3> QED
        BY <1>4, <3>1, <3>2, ValidationBoundAssumption DEF Owed
  <2> QED
      BY <2>1, <2>2
<1> QED
    BY <1>4, <1>5, <1>7, <1>8, <1>9 DEF ValInv, CallsInv

-----------------------------------------------------------------------------
(* The steps of the calls *)

LEMMA TypeOfStage ==
    ASSUME ValidationTypeOK, NEW c \in Calls,
           NEW s \in {"idle", "begun", "collect", "broken", "ended"},
           stage' = [stage EXCEPT ![c] = s]
    PROVE  /\ stage' \in [Calls -> {"idle", "begun", "collect", "broken", "ended"}]
           /\ stage'[c] = s /\ \A d \in Calls : d # c => stage'[d] = stage[d]
BY DEF ValidationTypeOK

LEMMA BeginKeepsInv == ASSUME ValInv, NEW c \in Calls, Begin(c) PROVE ValInv'
<1>1. ValidationTypeOK /\ CallsInv /\ refused + streak >= Streak
    BY DEF ValInv
<1>2. /\ stage[c] = "idle" /\ stage' = [stage EXCEPT ![c] = "begun"]
      /\ UNCHANGED <<slots, outcome, job, host, exists, streak, refused, disturbed>>
    BY DEF Begin, Stays, world, mock
<1>3. /\ stage' \in [Calls -> {"idle", "begun", "collect", "broken", "ended"}]
      /\ stage'[c] = "begun" /\ \A d \in Calls : d # c => stage'[d] = stage[d]
    BY <1>1, <1>2, TypeOfStage
<1>4. ValidationTypeOK'
    BY <1>1, <1>2, <1>3 DEF ValidationTypeOK, Working
<1>5. CallsInv'
    BY <1>1, <1>2, <1>3 DEF CallsInv, Staged, Finished, Truthful, Owed
<1> QED
    BY <1>1, <1>2, <1>4, <1>5 DEF ValInv

\* An end, with threads left to no job, and PASSED only when all the tested have passed.
LEMMA EndsKeepsInv ==
    ASSUME ValInv, NEW c \in Calls, NEW result \in {"PASSED", "FAILED", "raised"},
           stage[c] # "ended", Finished(c), Ends(c, result), Stays, UNCHANGED slots,
           result = "PASSED" => \A i \in Tested(c) : slots[c][i] = "PASSED"
    PROVE  ValInv'
<1>1. ValidationTypeOK /\ CallsInv /\ refused + streak >= Streak
    BY DEF ValInv
<1>2. /\ stage' = [stage EXCEPT ![c] = "ended"]
      /\ outcome' = [outcome EXCEPT ![c] = result]
      /\ UNCHANGED <<slots, job, host, exists, streak, refused, disturbed>>
    BY DEF Ends, Stays, world, mock
<1>3. /\ stage' \in [Calls -> {"idle", "begun", "collect", "broken", "ended"}]
      /\ stage'[c] = "ended" /\ \A d \in Calls : d # c => stage'[d] = stage[d]
    BY <1>1, <1>2, TypeOfStage
<1>4. /\ outcome' \in [Calls -> {"none", "PASSED", "FAILED", "raised"}]
      /\ outcome'[c] = result /\ \A d \in Calls : d # c => outcome'[d] = outcome[d]
    BY <1>1, <1>2 DEF ValidationTypeOK
<1>5. ValidationTypeOK'
  <2>1. \A d \in Calls : Working(d)' = Working(d)
      BY <1>2 DEF Working
  <2> QED
      BY <1>1, <1>2, <1>3, <1>4, <2>1 DEF ValidationTypeOK
<1>6. ASSUME NEW d \in Calls PROVE Staged(d)'
    BY <1>1, <1>2, <1>3, <1>4 DEF CallsInv, Staged, Finished
<1>7. ASSUME NEW d \in Calls, NEW i \in Tested(d) PROVE Truthful(d, i)'
    BY <1>1, <1>2, <1>4 DEF CallsInv, Truthful
<1>8. ASSUME NEW d \in Calls, NEW i \in Tested(d) PROVE Owed(d, i)'
    BY <1>1, <1>2 DEF CallsInv, Owed
<1> QED
    BY <1>1, <1>2, <1>5, <1>6, <1>7, <1>8 DEF ValInv, CallsInv

LEMMA PropagateKeepsInv == ASSUME ValInv, NEW c \in Calls, Propagate(c) PROVE ValInv'
BY EndsKeepsInv DEF Propagate

\* A call that reports PASSED has no other verdict on what it has tested.
LEMMA OverallIsVerdict ==
    ASSUME ValInv, NEW c \in Calls, Unfilled(c) = {}
    PROVE  /\ Overall(c) \in {"PASSED", "FAILED"}
           /\ Overall(c) = "PASSED" => \A i \in Tested(c) : slots[c][i] = "PASSED"
<1>1. ASSUME NEW i \in Tested(c) PROVE slots[c][i] \in {"PASSED", "FAILED"}
  <2>1. slots[c][i] \in Verdicts /\ slots[c][i] # "SKIPPED"
      BY TestedPositions DEF ValInv, ValidationTypeOK, CallsInv, Truthful
  <2> QED
      BY <2>1 DEF Unfilled, Verdicts
<1> QED
    BY <1>1, TestedPositions DEF Overall, Failures

LEMMA FinishKeepsInv == ASSUME ValInv, NEW c \in Calls, Finish(c) PROVE ValInv'
BY EndsKeepsInv, OverallIsVerdict DEF Finish

LEMMA SubmitKeepsInv == ASSUME ValInv, NEW c \in Calls, Submit(c) PROVE ValInv'
<1>1. ValidationTypeOK /\ CallsInv /\ refused + streak >= Streak
    BY DEF ValInv
<1>2. stage[c] = "begun" /\ UNCHANGED <<slots, host, exists, streak, refused, disturbed>>
    BY DEF Submit, world, mock
<1>3. \A i \in Tested(c) : job[c][i].pc = "none" /\ job[c][i].answer = "none"
    BY <1>1, <1>2 DEF CallsInv, Staged, Truthful
<1>4. CASE Ends(c, "raised") /\ UNCHANGED job
    BY <1>2, <1>3, <1>4, EndsKeepsInv DEF Finished, Stays, world, mock
<1>5. CASE /\ stage' = [stage EXCEPT ![c] = "collect"]
           /\ job' = [job EXCEPT ![c] = [i \in Positions(c) |->
                         IF i \in Tested(c) THEN At("queued", 0) ELSE NoJob]]
           /\ UNCHANGED outcome
  <2>1. /\ stage' \in [Calls -> {"idle", "begun", "collect", "broken", "ended"}]
        /\ stage'[c] = "collect" /\ \A d \in Calls : d # c => stage'[d] = stage[d]
      BY <1>1, <1>5, TypeOfStage
  <2>2. /\ DOMAIN job' = Calls
        /\ \A d \in Calls : d # c => job'[d] = job[d]
        /\ \A i \in Tested(c) : job'[c][i] = At("queued", 0)
        /\ job'[c] \in [Positions(c) -> Job]
      BY <1>1, <1>5, TestedPositions, Jobs DEF ValidationTypeOK
  <2>3. At("queued", 0).pc = "queued" /\ At("queued", 0).answer = "none"
      BY DEF At
  <2>4. Working(c)' = {} /\ \A d \in Calls : d # c => Working(d)' = Working(d)
      BY <2>2, <2>3 DEF Working
  <2>5. Cardinality({}) <= MaxParallel
      BY FS_EmptySet, ValidationBoundAssumption
  <2>6. ValidationTypeOK'
      BY <1>1, <1>2, <1>5, <2>1, <2>2, <2>4, <2>5 DEF ValidationTypeOK
  <2>7. ASSUME NEW d \in Calls PROVE Staged(d)'
      BY <1>1, <1>2, <1>5, <2>1, <2>2 DEF CallsInv, Staged, Finished
  <2>8. ASSUME NEW d \in Calls, NEW i \in Tested(d) PROVE Truthful(d, i)'
      BY <1>1, <1>2, <1>3, <1>5, <2>2, <2>3 DEF CallsInv, Truthful
  <2>9. ASSUME NEW d \in Calls, NEW i \in Tested(d) PROVE Owed(d, i)'
      BY <1>1, <1>2, <2>2, <2>3 DEF CallsInv, Owed
  <2> QED
      BY <1>1, <1>2, <2>6, <2>7, <2>8, <2>9 DEF ValInv, CallsInv
<1> QED
    BY <1>4, <1>5 DEF Submit

\* A slot of a call under way is filled with FAILED or with what the job has answered.
LEMMA FillKeepsInv ==
    ASSUME ValInv, NEW c \in Calls, NEW i \in Tested(c), NEW verdict \in {"PASSED", "FAILED"},
           stage[c] = "collect", Fill(c, i, verdict),
           verdict = "PASSED" => job[c][i].answer = "PASSED"
    PROVE  ValInv'
<1>1. ValidationTypeOK /\ CallsInv /\ refused + streak >= Streak
    BY DEF ValInv
<1>2. /\ slots' = [slots EXCEPT ![c][i] = verdict]
      /\ UNCHANGED <<stage, outcome, job, host, exists, streak, refused, disturbed>>
    BY DEF Fill, Stays, world, mock
<1>3. /\ DOMAIN slots' = Calls
      /\ \A d \in Calls : slots'[d] \in [Positions(d) -> Verdicts]
      /\ slots'[c][i] = verdict
      /\ \A d \in Calls : \A k \in Positions(d) : d # c \/ k # i => slots'[d][k] = slots[d][k]
    BY <1>1, <1>2, TestedPositions DEF ValidationTypeOK, Verdicts
<1>4. ValidationTypeOK'
  <2>1. \A d \in Calls : Working(d)' = Working(d)
      BY <1>2 DEF Working
  <2> QED
      BY <1>1, <1>2, <1>3, <2>1 DEF ValidationTypeOK
<1>5. ASSUME NEW d \in Calls PROVE Staged(d)'
    BY <1>1, <1>2, <1>3 DEF CallsInv, Staged, Finished
<1>6. outcome[c] = "none"
    BY <1>1 DEF CallsInv, Staged
<1>7. ASSUME NEW d \in Calls, NEW k \in Tested(d) PROVE Truthful(d, k)'
    BY <1>1, <1>2, <1>3, <1>6, TestedPositions DEF CallsInv, Truthful
<1>8. ASSUME NEW d \in Calls, NEW k \in Tested(d) PROVE Owed(d, k)'
    BY <1>1, <1>2 DEF CallsInv, Owed
<1> QED
    BY <1>1, <1>2, <1>4, <1>5, <1>7, <1>8 DEF ValInv, CallsInv

LEMMA CollectKeepsInv ==
    ASSUME ValInv, NEW c \in Calls, NEW i \in Tested(c), Collect(c, i) \/ TimeOut(c, i)
    PROVE  ValInv'
BY FillKeepsInv DEF Collect, TimeOut, WaitsFor

LEMMA BreakKeepsInv ==
    ASSUME ValInv, NEW c \in Calls, NEW i \in Tested(c), Break(c, i) PROVE ValInv'
<1>1. ValidationTypeOK /\ CallsInv /\ refused + streak >= Streak
    BY DEF ValInv
<1>2. /\ stage[c] = "collect" /\ stage' = [stage EXCEPT ![c] = "broken"]
      /\ UNCHANGED <<slots, outcome, job, host, exists, streak, refused>>
    BY DEF Break, WaitsFor, world, mock
<1>3. /\ stage' \in [Calls -> {"idle", "begun", "collect", "broken", "ended"}]
      /\ stage'[c] = "broken" /\ \A d \in Calls : d # c => stage'[d] = stage[d]
    BY <1>1, <1>2, TypeOfStage
<1>4. disturbed' \in Nat
    BY <1>1, DisturbType DEF Break, ValidationTypeOK
<1>5. ValidationTypeOK'
    BY <1>1, <1>2, <1>3, <1>4 DEF ValidationTypeOK, Working
<1>6. CallsInv'
    BY <1>1, <1>2, <1>3 DEF CallsInv, Staged, Finished, Truthful, Owed
<1> QED
    BY <1>1, <1>2, <1>5, <1>6 DEF ValInv

-----------------------------------------------------------------------------
(* Other requests, and stuttering *)

LEMMA OthersKeepInv ==
    ASSUME ValInv, UNCHANGED <<call, job, mock>>,
           disturbed' \in Nat,
           host' \in [Hosts -> {"absent", "stopped", "running"}], exists' \in [Calls -> BOOLEAN]
    PROVE  ValInv'
<1>1. UNCHANGED <<stage, slots, outcome, job, streak, refused>>
    BY DEF call, mock
<1>2. ValidationTypeOK'
    BY <1>1 DEF ValInv, ValidationTypeOK, Working
<1>3. CallsInv'
    BY <1>1 DEF ValInv, CallsInv, Staged, Finished, Truthful, Owed
<1> QED
    BY <1>1, <1>2, <1>3 DEF ValInv

LEMMA SetHostKeepsInv ==
    ASSUME ValInv, NEW h \in Hosts, NEW state \in {"absent", "stopped", "running"},
           SetHost(h, state)
    PROVE  ValInv'
<1>1. host' \in [Hosts -> {"absent", "stopped", "running"}] /\ UNCHANGED <<call, job, mock>>
    BY DEF SetHost, ValInv, ValidationTypeOK
<1>2. disturbed' \in Nat /\ exists' \in [Calls -> BOOLEAN]
    BY DisturbType DEF SetHost, ValInv, ValidationTypeOK
<1> QED
    BY <1>1, <1>2, OthersKeepInv

LEMMA DeleteTopologyKeepsInv == ASSUME ValInv, NEW c \in Calls, DeleteTopology(c) PROVE ValInv'
<1>1. exists' \in [Calls -> BOOLEAN] /\ UNCHANGED <<call, job, mock>>
    BY DEF DeleteTopology, ValInv, ValidationTypeOK
<1>2. disturbed' \in Nat /\ host' \in [Hosts -> {"absent", "stopped", "running"}]
    BY DisturbType DEF DeleteTopology, ValInv, ValidationTypeOK
<1> QED
    BY <1>1, <1>2, OthersKeepInv

LEMMA StutterKeepsInv == ASSUME ValInv, UNCHANGED vars PROVE ValInv'
BY OthersKeepInv DEF vars, call, mock, ValInv, ValidationTypeOK

-----------------------------------------------------------------------------
(* Results *)

LEMMA InitValInv == ASSUME Init PROVE ValInv
<1>1. /\ DOMAIN slots = Calls /\ DOMAIN job = Calls
      /\ \A c \in Calls : /\ slots[c] \in [Positions(c) -> Verdicts]
                          /\ job[c] \in [Positions(c) -> Job]
    BY Jobs DEF Init, Verdicts
<1>2. ASSUME NEW c \in Calls, NEW i \in Tested(c)
      PROVE  job[c][i].pc = "none" /\ job[c][i].answer = "none" /\ slots[c][i] = "none"
    BY TestedPositions DEF Init, NoJob
<1>3. ASSUME NEW c \in Calls PROVE Cardinality(Working(c)) <= MaxParallel
  <2>1. Working(c) = {}
      BY <1>2 DEF Working
  <2> QED
      BY <2>1, FS_EmptySet, ValidationBoundAssumption
<1>4. ValidationTypeOK
    BY <1>1, <1>3, ValidationBoundAssumption DEF Init, ValidationTypeOK
<1>5. \A c \in Calls : \A i \in Positions(c) \ Tested(c) : slots[c][i] = "SKIPPED"
    BY DEF Init
<1>6. CallsInv
    BY <1>2, <1>5 DEF Init, CallsInv, Staged, Truthful, Owed
<1> QED
    BY <1>4, <1>6, ValidationBoundAssumption DEF Init, ValInv

LEMMA NextKeepsInv == ASSUME ValInv, [Next]_vars PROVE ValInv'
<1>1. CASE UNCHANGED vars
    BY <1>1, StutterKeepsInv
<1>2. ASSUME NEW c \in Calls, Begin(c) \/ CallStep(c) PROVE ValInv'
    BY <1>2, BeginKeepsInv, SubmitKeepsInv, FinishKeepsInv, PropagateKeepsInv,
       CollectKeepsInv, BreakKeepsInv DEF CallStep
<1>3. ASSUME NEW c \in Calls, NEW i \in Tested(c), WorkerStep(c, i) \/ Answer(c, i) PROVE ValInv'
    BY <1>3, ThreadAdvances, AdvanceKeepsInv
<1>4. ASSUME NEW h \in Hosts, NEW state \in {"absent", "stopped", "running"}, SetHost(h, state)
      PROVE  ValInv'
    BY <1>4, SetHostKeepsInv
<1>5. ASSUME NEW c \in Calls, DeleteTopology(c) PROVE ValInv'
    BY <1>5, DeleteTopologyKeepsInv
<1> QED
    BY <1>1, <1>2, <1>3, <1>4, <1>5 DEF Next

\* The strengthened invariant of validation: jobs, threads, verdicts and the streak agree
\* in every reachable state of validate_topology_links.
THEOREM ValInvariance == Spec => []ValInv
BY InitValInv, NextKeepsInv, PTL DEF Spec

\* The variables keep their types, and no pool ever runs more than
\* MAX_PARALLEL_VALIDATIONS of its jobs (ThreadPoolExecutor's max_workers).
THEOREM ValidationTypeCorrect == Spec => []ValidationTypeOK
<1>1. ValInv => ValidationTypeOK
    BY DEF ValInv
<1> QED
    BY <1>1, ValInvariance, PTL

\* A verdict PASSED, and the overall PASSED of a call, is what the ping job of that very
\* position has answered, whatever times out and whatever other requests do meanwhile.
THEOREM PassedVerdicts == Spec => []PassedIsAnswered
<1>1. ValInv => PassedIsAnswered
    BY DEF ValInv, CallsInv, Truthful, PassedIsAnswered
<1> QED
    BY <1>1, ValInvariance, PTL

\* The `with` block of the pool: a call that has returned or raised has left no thread.
THEOREM ThreadsEnd == Spec => []NoThreadOutlivesItsCall
<1>1. ValInv => NoThreadOutlivesItsCall
    BY DEF ValInv, CallsInv, Staged, NoThreadOutlivesItsCall
<1> QED
    BY <1>1, ValInvariance, PTL

\* The counter of MockProvider._before_op is read and written by all threads without a
\* lock; still no ping passes before as many as the streak asks for have been refused.
THEOREM StreakServed == Spec => []StreakIsServed
<1>1. ValInv => StreakIsServed
    BY DEF ValInv, CallsInv, Owed, StreakIsServed
<1> QED
    BY <1>1, ValInvariance, PTL

-----------------------------------------------------------------------------
(* The list of verdicts *)

LEMMA InitVerdictList == ASSUME Init, NEW c \in Calls PROVE List(c)!Init
BY TestedPositions DEF Init, List!Init

\* Step of the list of call d.
ListStep(d) == [List(d)!Next]_<<slots[d], outcome[d]>>

\* Nothing of any list has changed.
LEMMA ListsStay == ASSUME UNCHANGED <<slots, outcome>>, NEW d \in Calls PROVE ListStep(d)
BY DEF ListStep

\* The list lacks what is tested and not filled in.
LEMMA UnfilledIsTested == ASSUME ValInv, NEW c \in Calls PROVE List(c)!Unfilled = Unfilled(c)
<1>1. \A i \in Positions(c) \ Tested(c) : slots[c][i] = "SKIPPED"
    BY DEF ValInv, CallsInv, Staged
<1> QED
    BY <1>1, TestedPositions DEF List!Unfilled, Unfilled

LEMMA FillIsListFill ==
    ASSUME ValInv, NEW c \in Calls, NEW i \in Tested(c), NEW verdict \in {"PASSED", "FAILED"},
           WaitsFor(c, i), Fill(c, i, verdict), NEW d \in Calls
    PROVE  ListStep(d)
<1>1. DOMAIN slots = Calls /\ slots' = [slots EXCEPT ![c][i] = verdict] /\ UNCHANGED outcome
    BY DEF ValInv, ValidationTypeOK, Fill
<1>2. CASE d = c
  <2>1. outcome[c] = "none"
      BY DEF ValInv, CallsInv, Staged, WaitsFor
  <2>2. i \in List(c)!Unfilled /\ \A j \in List(c)!Unfilled : i <= j
      BY UnfilledIsTested DEF WaitsFor
  <2>3. List(c)!Fill(i, verdict)
      BY <1>1, <2>1, <2>2 DEF List!Fill
  <2> QED
      BY <1>2, <2>3, TestedPositions DEF ListStep, List!Next
<1>3. CASE d # c
    BY <1>1, <1>3 DEF ListStep
<1> QED
    BY <1>2, <1>3

LEMMA RaiseIsListRaise ==
    ASSUME ValInv, NEW c \in Calls, stage[c] # "ended", Ends(c, "raised"), UNCHANGED slots,
           NEW d \in Calls
    PROVE  ListStep(d)
<1>1. outcome' = [outcome EXCEPT ![c] = "raised"] /\ outcome \in [Calls -> {"none", "PASSED", "FAILED", "raised"}]
    BY DEF Ends, ValInv, ValidationTypeOK
<1>2. outcome[c] = "none"
    BY DEF ValInv, ValidationTypeOK, CallsInv, Staged
<1>3. CASE d = c
  <2>1. List(c)!Raise
      BY <1>1, <1>2 DEF List!Raise
  <2> QED
      BY <1>3, <2>1 DEF ListStep, List!Next
<1>4. CASE d # c
    BY <1>1, <1>4 DEF ListStep
<1> QED
    BY <1>3, <1>4

\* The status of a call sums up its list.
LEMMA OverallSumsUp ==
    ASSUME ValInv, NEW c \in Calls, Unfilled(c) = {}
    PROVE  /\ Overall(c) = "PASSED" => \A i \in Positions(c) : slots[c][i] # "FAILED"
           /\ Overall(c) = "FAILED" =>
                  Positions(c) = {} \/ \E i \in Positions(c) : slots[c][i] = "FAILED"
<1>1. CASE Plain(c)
  <2>1. Tested(c) = Positions(c)
      BY <1>1 DEF Plain, Tested
  <2>2. \A i \in Positions(c) : slots[c][i] \in {"PASSED", "FAILED"}
      BY <2>1 DEF ValInv, ValidationTypeOK, CallsInv, Truthful, Verdicts, Unfilled
  <2> QED
      BY <1>1, <2>2 DEF Overall
<1>2. CASE ~Plain(c)
    BY <1>2 DEF Overall, Failures
<1> QED
    BY <1>1, <1>2

LEMMA FinishIsListReturn ==
    ASSUME ValInv, NEW c \in Calls, Finish(c), NEW d \in Calls
    PROVE  ListStep(d)
<1>1. stage[c] = "collect" /\ Unfilled(c) = {} /\ UNCHANGED slots
    BY DEF Finish
<1>2. CASE ~exists[c]
    BY <1>1, <1>2, RaiseIsListRaise DEF Finish
<1>3. CASE exists[c]
  <2>1. /\ outcome' = [outcome EXCEPT ![c] = Overall(c)]
        /\ outcome \in [Calls -> {"none", "PASSED", "FAILED", "raised"}]
      BY <1>3 DEF Finish, Ends, ValInv, ValidationTypeOK
  <2>2. outcome[c] = "none"
      BY <1>1 DEF ValInv, CallsInv, Staged
  <2>3. CASE d = c
    <3>1. List(c)!Unfilled = {}
        BY <1>1, UnfilledIsTested
    <3>2. List(c)!Return
        BY <1>1, <2>1, <2>2, <3>1, OverallIsVerdict, OverallSumsUp DEF List!Return
    <3> QED
        BY <2>3, <3>2 DEF ListStep, List!Next
  <2>4. CASE d # c
      BY <1>1, <2>1, <2>4 DEF ListStep
  <2> QED
      BY <2>3, <2>4
<1> QED
    BY <1>2, <1>3

LEMMA NextIsListStep == ASSUME ValInv, [Next]_vars, NEW d \in Calls PROVE ListStep(d)
<1>1. CASE UNCHANGED vars
    BY <1>1, ListsStay DEF vars
<1>2. ASSUME NEW c \in Calls, Begin(c) PROVE ListStep(d)
    BY <1>2, ListsStay DEF Begin
<1>3. ASSUME NEW c \in Calls, Submit(c) PROVE ListStep(d)
  <2>1. CASE UNCHANGED outcome
      BY <1>3, <2>1, ListsStay DEF Submit
  <2>2. CASE Ends(c, "raised")
      BY <1>3, <2>2, RaiseIsListRaise DEF Submit
  <2> QED
      BY <1>3, <2>1, <2>2 DEF Submit
<1>4. ASSUME NEW c \in Calls, Propagate(c) PROVE ListStep(d)
    BY <1>4, RaiseIsListRaise DEF Propagate
<1>5. ASSUME NEW c \in Calls, Finish(c) PROVE ListStep(d)
    BY <1>5, FinishIsListReturn
<1>6. ASSUME NEW c \in Calls, NEW i \in Tested(c), Collect(c, i) \/ TimeOut(c, i)
      PROVE  ListStep(d)
    BY <1>6, FillIsListFill DEF Collect, TimeOut
<1>7. ASSUME NEW c \in Calls, NEW i \in Tested(c), Break(c, i) PROVE ListStep(d)
    BY <1>7, ListsStay DEF Break
<1>8. ASSUME NEW c \in Calls, NEW i \in Tested(c), WorkerStep(c, i) \/ Answer(c, i)
      PROVE  ListStep(d)
  <2>1. UNCHANGED <<slots, outcome>>
      BY <1>8, ThreadAdvances DEF Advances, Works, call
  <2> QED
      BY <2>1, ListsStay
<1>9. ASSUME NEW h \in Hosts, NEW state \in {"absent", "stopped", "running"}, SetHost(h, state)
      PROVE  ListStep(d)
    BY <1>9, ListsStay DEF SetHost, call
<1>10. ASSUME NEW c \in Calls, DeleteTopology(c) PROVE ListStep(d)
    BY <1>10, ListsStay DEF DeleteTopology, call
<1> QED
    BY <1>1, <1>2, <1>3, <1>4, <1>5, <1>6, <1>7, <1>8, <1>9, <1>10 DEF Next, CallStep

\* A caller of validate_topology_links gets a list filled in order, never corrected and
\* summed up in its status, however many pings run at once, are late or never answer.
THEOREM ValidationImplementsVerdictList == Spec => ImplementsVerdictList
<1>1. Init => \A c \in Calls : List(c)!Init
    BY InitVerdictList
<1>2. ValInv /\ [Next]_vars =>
          [\A c \in Calls : [List(c)!Next]_<<slots[c], outcome[c]>>]_<<slots, outcome>>
    BY NextIsListStep DEF ListStep
<1> QED
    BY <1>1, <1>2, ValInvariance, PTL DEF Spec, ImplementsVerdictList

=============================================================================
