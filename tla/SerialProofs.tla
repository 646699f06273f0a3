--------------------------- MODULE SerialProofs ---------------------------
(***************************************************************************)
(* Proofs about Deployment when the handlers of one topology take turns:   *)
(* what each knows of its topology stays true.  Then, when the janitor     *)
(* also runs alone, updates of state.json do not overlap and calls fail by *)
(* being refused, what the three stores say of each other about topologies *)
(* that nobody works on.                                                   *)
(***************************************************************************)
EXTENDS DeploymentProofs

\* The server runs requests one after the other.
OneThread == \E r : Requests = {r}

\* Provider calls are refused at worst; files are written and nothing crashes.
Reliable == FaultKinds \subseteq {"refuse"}

\* What state.json lists can only be lost to a deletion of the topology, or to a cleanup of
\* the topology that has been given its id.
Separate == "scenario" \notin Operations \/ "delete" \notin Operations

Distinct(S) == \A x, y \in S : x.step = y.step \/ x.id = y.id => x = y
MadeFor(t, S) == \A x \in S : x.topo = t

\* A row has an id of its own, is the only one for its step of the plan, and belongs to the
\* topology its resource was made for, which exists.
RowsApart ==
    /\ \A v, w \in rows : v.id = w.id => v = w
    /\ \A v, w \in rows :
         v.topo = w.topo /\ (v.res.step = w.res.step \/ v.res.id = w.res.id) => v = w
    /\ \A w \in rows : w.res.topo = w.topo /\ Exists(w.topo)

EntriesApart ==
    \A t \in Topologies : Distinct(snapshot[t].resources) /\ MadeFor(t, snapshot[t].resources)

\* What a handler has loaded to save again is as good as what it was loaded from.
FilesApart ==
    \A r \in Requests : \A f \in req[r].file : \A t \in Topologies :
        Distinct(f[t].resources) /\ MadeFor(t, f[t].resources)

WithoutRows == {"hydrate", "insert", "reset", "forget", "sweep", "strike", "mark"}
WithListed == {"finish", "snapshot", "recordFailed", "teardown", "drop", "delete"}
Unbegun == {"next", "wrapup", "list", "hydrate", "insert", "relist"}

\* What a handler knows of its topology is true as long as no other handler works on it.
Informed(h) ==
    /\ h.pc \notin JanitorPCs \cup {"idle"} =>
          Exists(h.topo) /\ h.seen \in {"EXPIRED", status[h.topo]}
    /\ h.pc \in Unbegun => h.step = 1
    /\ h.pc \in WithoutRows => RowsOf(h.topo) = {}
    /\ h.pc \in WithListed => h.listed = RowsOf(h.topo)
    /\ h.pc \in {"create", "record"} => \A w \in RowsOf(h.topo) : w.res.step < h.step
    /\ \A x \in h.held :
          x.step = h.step /\ x.topo = h.topo /\ \A w \in RowsOf(h.topo) : w.res.id # x.id
    /\ \A x, y \in h.held : x = y
    /\ h.pc = "insert" => Distinct(h.todo)
    /\ h.pc \in {"insert", "sweep"} => MadeFor(h.topo, h.todo)
    /\ \A t \in Topologies : MadeFor(t, h.entries[t])

TurnInv ==
    /\ RowsApart
    /\ EntriesApart
    /\ FilesApart
    /\ \A r \in Requests : Informed(req[r])

\* What a step of the handler on r establishes by itself.
InTurn(r) == RowsApart /\ EntriesApart /\ Informed(req[r])

-----------------------------------------------------------------------------
Recs(t) == ResourcesOf(RowsOf(t))

\* Every network in S has everything that is attached to it in S as well.
Closed(S) == \A x \in S, y \in cloud : KindOf(x) = "network" /\ y.net = x.id => y \in S

Whole(S) == S \subseteq cloud /\ \A s \in Steps : \E x \in S : x.step = s

\* No id is issued twice, or used before it is issued.
CloudInv ==
    \A x \in cloud :
        /\ x.id < nextId /\ x.net < nextId
        /\ \A y \in cloud : x.id = y.id => x = y

\* Nothing is under way for t: it is ACTIVE with all of its plan or has no rows, and its entry
\* in state.json, if ACTIVE, lists all of a plan, which is what its rows list if there are any.
Settled(t) ==
    /\ status[t] = "ACTIVE" <=> RowsOf(t) # {}
    /\ RowsOf(t) # {} => ActiveResources(t) = Recs(t)
    /\ ActiveResources(t) # {} => Whole(ActiveResources(t))
    /\ Closed(ActiveResources(t))

\* The steps the create loop has passed have their rows.
Passed(h) ==
    \A s \in 1..(h.step - 1) : \E w \in RowsOf(h.topo) : w.res.step = s /\ w.res.id = h.made[s]

\* Where a handler is at work on a new deploy, with or without a status, and on a cleanup: the
\* stores of its topology disagree.  Elsewhere they agree.
Building == {"create", "record", "fail", "listFailed", "recordFailed", "activate", "collect"}
Removing == {"teardown", "drop", "reset", "forget", "sweep", "strike"}
Between == Building \cup Removing \cup {"snapshot", "cleanup"}
Busy(h) == h.pc \in Between

\* How far the deploy or cleanup of its topology has come, by where its handler is.
Progress(h) ==
    LET t == h.topo IN
    /\ AtWork(h) /\ h.pc \notin Between => Settled(t)
    /\ h.pc = "insert" => h.todo = ActiveResources(t) /\ h.todo # {}
    /\ h.pc = "relist" /\ RowsOf(t) = {} => ActiveResources(t) = {}
    /\ h.pc = "finish" => RowsOf(t) # {}
    /\ h.pc \in Building => ActiveResources(t) = {}
    /\ h.pc \in Building \cup {"snapshot", "cleanup"} =>
          Recs(t) \subseteq cloud /\ h.held \subseteq cloud /\ Closed(Recs(t) \cup h.held)
    /\ h.pc \in {"create", "record", "activate"} => Passed(h)
    /\ h.pc = "activate" => h.step = Len(Plan) + 1
    /\ h.pc \in {"collect", "snapshot"} =>
          Whole(Recs(t)) /\ status[t] = "ACTIVE" /\ h.seen = "ACTIVE"
    /\ h.pc \in {"listFailed", "recordFailed"} => status[t] = "FAILED"
    /\ h.pc \in {"teardown", "sweep"} => h.todo \subseteq cloud /\ Closed(h.todo) /\ h.todo # {}
    /\ h.pc \in {"teardown", "drop"} => ~h.failed /\ \A x \in Recs(t) : x \in h.todo \/ x \notin cloud
    /\ h.pc = "teardown" => h.todo \subseteq Recs(t)
    /\ h.pc \in {"sweep", "strike"} => status[t] # "ACTIVE" /\ h.entries[t] = {}
    /\ h.pc = "sweep" => h.todo \subseteq ActiveResources(t)
    /\ h.pc = "strike" => h.todo = {}
    /\ h.pc \in {"sweep", "strike"} => \A x \in ActiveResources(t) : x \in h.todo \/ x \notin cloud
    /\ h.pc = "forget" => status[t] = "CREATED"
    /\ h.pc \in JanitorPCs =>
          \A u \in Topologies : h.entries[u] # {} => h.entries[u] = ActiveResources(u)

\* What a handler has loaded to save again is what is there: nobody has saved since.
FilesCurrent == \A r \in Requests : \A f \in req[r].file : f = snapshot

AgreeInv ==
    /\ CloudInv
    /\ FilesCurrent
    /\ \A r \in Requests : Progress(req[r])
    /\ \A t \in Topologies : (\A r \in Requests : Busy(req[r]) => req[r].topo # t) => Settled(t)

-----------------------------------------------------------------------------
\* What a snapshot or a cleanup may overwrite: nothing that no row lists and is at the provider.
Forgettable(h) ==
    LET listed == ActiveResources(h.topo) IN
    /\ h.pc \in {"snapshot", "cleanup", "teardown", "drop"} => listed \subseteq Recs(h.topo)
    /\ h.pc \in {"reset", "forget"} => listed \cap cloud = {}

\* A handler runs what was asked for.
Requested(h) ==
    /\ h.pc # "idle" => h.op \in Operations \/ (h.op = "final" /\ "scenario" \in Operations)
    /\ h.pc \in {"next", "wrapup"} => h.op = "scenario"
    /\ h.pc = "delete" => h.op = "delete"

Kept(x) == Recorded(x) \/ InFlight(x) \/ \E t \in Topologies : x \in ActiveResources(t)

\* An ACTIVE entry of a topology without rows is only seen inside a cleanup.
BackedInv ==
    \A t \in Topologies : RowsOf(t) = {} /\ ActiveResources(t) # {} =>
        \E r \in Requests : req[r].topo = t /\ req[r].pc \in {"reset", "forget"}

KeptInv ==
    /\ \A r \in Requests : Requested(req[r]) /\ Forgettable(req[r])
    /\ \A x \in cloud : Kept(x)
    /\ "delete" \notin Operations => BackedInv
-----------------------------------------------------------------------------
(* Taking turns: steps that leave SQLite and state.json alone *)

LEMMA QuietStep ==
  ASSUME TurnInv, NEW r \in Requests,
         UNCHANGED <<status, rows, snapshot>>, Informed(req[r])'
  PROVE  InTurn(r)'
<1>1. RowsApart' /\ EntriesApart'
  BY DEF TurnInv, RowsApart, EntriesApart, Distinct, MadeFor, Exists
<1>2. QED
  BY <1>1 DEF InTurn

\* The topology of a deploy, a cleanup, a scenario or a deletion is there.
LEMMA Present ==
  ASSUME IInv, TurnInv, NEW r \in Requests
  PROVE  /\ Informed(req[r]) /\ r \in Requests
         /\ req[r].pc \notin JanitorPCs \cup {"idle"} =>
              /\ Exists(req[r].topo) /\ ~Vanished(r)
              /\ Loaded(r) = status[req[r].topo]
<1>1. Informed(req[r]) /\ r \in Requests
  BY DEF TurnInv
<1>2. QED
  BY <1>1 DEF Informed, Vanished, Loaded

\* A step loads the file as it is, or leaves what was loaded alone, or lets go of it.
FileLocal(r) ==
    /\ \E h : Becomes(r, h)
    /\ \A f \in req'[r].file : f \in req[r].file \/ f = snapshot

LEMMA MovesFile ==
  ASSUME IInv, NEW r \in Requests, NEW h, Becomes(r, h), h.file = {} \/ h.file = req[r].file
  PROVE  FileLocal(r)
  BY Acting DEF FileLocal, Becomes, IInv

LEMMA EndsFile ==
  ASSUME IInv, NEW r \in Requests, NEW result,
         Raise(r) \/ Becomes(r, Ended(r, result)) \/ CleanupEnds(r, result)
  PROVE  FileLocal(r) /\ req'[r].file = {}
<1>1. \A k : Ended(r, k).file = {}
  <2> SUFFICES ASSUME NEW k PROVE Ended(r, k).file = {}
    OBVIOUS
  <2>1. [Idle EXCEPT !.op = "scenario", !.topo = req[r].topo,
                      !.pc = IF k = "ok" THEN "next" ELSE "wrapup",
                      !.seen = Loaded(r)].file = {}
    BY IdleFields, IdleIsHandler DEF Handler
  <2>2. QED
    BY <2>1, IdleFields DEF Ended
<1>2. PICK k : Becomes(r, Ended(r, k))
  BY DEF Raise, CleanupEnds
<1>3. req'[r] = Ended(r, k)
  BY <1>2 DEF Becomes, IInv
<1>4. QED
  BY <1>1, <1>2, <1>3 DEF FileLocal

LEMMA StepFile ==
  ASSUME IInv, NEW r \in Requests, Step(r)
  PROVE  FileLocal(r)
<1>1. CASE DeployStep(r)
  <2>1. CASE \E k : Raise(r) \/ Becomes(r, Ended(r, k))
    BY <2>1, EndsFile
  <2>2. CASE ~(\E k : Raise(r) \/ Becomes(r, Ended(r, k)))
    <3>1. req[r] \in Handler
      BY Acting
    <3>2. CASE ListRows(r) \/ ReadSnapshot(r) \/ InsertRows(r) \/ Relist(r) \/ FinishIdempotent(r)
      BY <2>2, <3>1, <3>2, MovesFile
      DEF ListRows, ReadSnapshot, InsertRows, Relist, FinishIdempotent, Handler
    <3>3. CASE WriteSnapshot(r) \/ Create(r) \/ CreateRefused(r) \/ CreateUnanswered(r) \/ RecordRow(r)
      BY <2>2, <3>1, <3>3, MovesFile
      DEF WriteSnapshot, Create, CreateRefused, CreateUnanswered, RetryOrFail, RecordRow, Handler
    <3>4. CASE Activate(r) \/ CollectRows(r) \/ MarkFailed(r) \/ ListFailed(r) \/ RecordFailed(r)
      BY <2>2, <3>1, <3>4, MovesFile
      DEF Activate, CollectRows, MarkFailed, ListFailed, RecordFailed, Handler
    <3>5. QED
      BY <1>1, <3>2, <3>3, <3>4 DEF DeployStep
  <2>3. QED
    BY <2>1, <2>2
<1>2. CASE CleanupStep(r)
  <2>1. CASE \E k : CleanupEnds(r, k)
    BY <2>1, EndsFile
  <2>2. CASE ~(\E k : CleanupEnds(r, k))
    <3>1. req[r] \in Handler
      BY Acting
    <3>2. QED
      BY <1>2, <2>2, <3>1, MovesFile
      DEF CleanupStep, CleanupList, DeleteOne, DeleteFails, DropRows, ResetStatus, ForgetEntry, Handler
  <2>3. QED
    BY <2>1, <2>2
<1>3. CASE JanitorStep(r)
  BY <1>3, Acting, MovesFile, IdleFields
  DEF JanitorStep, JanitorScan, JanitorStrike, JanitorMark, EndJanitor, Handler
<1>4. CASE ScenarioStep(r)
  BY <1>4, Acting, MovesFile, IdleFields DEF ScenarioStep, Handler
<1>5. CASE DeleteTopology(r)
  BY <1>5, MovesFile, IdleFields DEF DeleteTopology
<1>6. CASE LoadState(r)
  <2>1. Becomes(r, [req[r] EXCEPT !.file = {snapshot}, !.seen = Loaded(r)])
    BY <1>6 DEF LoadState
  <2>2. req'[r].file = {snapshot}
    BY <2>1, Acting DEF Becomes, IInv, Handler
  <2>3. QED
    BY <2>1, <2>2 DEF FileLocal
<1>7. QED
  BY <1>1, <1>2, <1>3, <1>4, <1>5, <1>6 DEF Step

LEMMA ArriveFile ==
  ASSUME IInv, NEW r \in Requests, Arrive(r)
  PROVE  FileLocal(r)
  BY IdleFields, IdleIsHandler, MovesFile
  DEF Arrive, BeginDeploy, BeginScenario, BeginDelete, BeginJanitor, Handler

\* What is loaded after a step was loaded before it or is the file as it was before it.
LEMMA FilesStep ==
  ASSUME IInv, [Next]_vars, NEW r \in Requests, NEW f \in req'[r].file
  PROVE  f \in req[r].file \/ f = snapshot
<1>1. ASSUME NEW q \in Requests, Arrive(q) \/ Step(q)
      PROVE  f \in req[r].file \/ f = snapshot
  <2>1. FileLocal(q)
    BY <1>1, ArriveFile, StepFile
  <2>2. QED
    BY <2>1 DEF FileLocal, Becomes, IInv
<1>2. CASE Crash
  BY <1>2, IdleFields DEF Crash
<1>3. CASE UNCHANGED req
  BY <1>3
<1>4. QED
  BY <1>1, <1>2, <1>3 DEF Next, CreateTopology, Rest, vars

LEMMA FilesInTurn ==
  ASSUME IInv, TurnInv, [Next]_vars
  PROVE  FilesApart'
<1> SUFFICES ASSUME NEW r \in Requests, NEW f \in req'[r].file, NEW t \in Topologies
             PROVE  Distinct(f[t].resources) /\ MadeFor(t, f[t].resources)
  BY DEF FilesApart
<1>1. f \in req[r].file \/ f = snapshot
  BY FilesStep
<1>2. QED
  BY <1>1 DEF TurnInv, FilesApart, EntriesApart

LEMMA LoadStateInTurn ==
  ASSUME IInv, TurnInv, NEW r \in Requests, LoadState(r)
  PROVE  InTurn(r)'
<1>1. /\ req[r].pc \in Saving /\ UNCHANGED <<status, rows, snapshot>>
      /\ Becomes(r, [req[r] EXCEPT !.file = {snapshot}, !.seen = Loaded(r)])
  BY DEF LoadState
<1>2. LET h == req'[r] IN
      /\ h.topo = req[r].topo /\ h.pc = req[r].pc /\ h.step = req[r].step /\ h.listed = req[r].listed
      /\ h.held = req[r].held /\ h.entries = req[r].entries /\ h.seen = Loaded(r)
  BY <1>1, Acting DEF Becomes, IInv, Handler
<1>3. Informed(req[r])'
  BY <1>1, <1>2, Present DEF Saving, Informed, Exists, RowsOf, MadeFor,
    JanitorPCs, WithoutRows, WithListed, Unbegun
<1>4. QED
  BY <1>1, <1>3, QuietStep

LEMMA ListRowsInTurn ==
  ASSUME IInv, TurnInv, NEW r \in Requests, ListRows(r)
  PROVE  InTurn(r)'
<1>1. /\ Becomes(r, [req[r] EXCEPT !.pc = IF HasRows(req[r].topo) THEN "finish" ELSE "hydrate",
                                  !.seen = Loaded(r),
                                  !.gen = gen[req[r].topo],
                                  !.listed = RowsOf(req[r].topo)])
      /\ req[r].pc = "list"
      /\ UNCHANGED <<status, rows, snapshot>>
  BY Present DEF ListRows, JanitorPCs
<1>2. LET h == req'[r] IN
      /\ h.topo = req[r].topo /\ h.step = req[r].step /\ h.held = req[r].held
      /\ h.entries = req[r].entries /\ h.seen = Loaded(r) /\ h.listed = RowsOf(req[r].topo)
      /\ h.pc = IF RowsOf(req[r].topo) # {} THEN "finish" ELSE "hydrate"
  BY <1>1, Acting, Present DEF Becomes, IInv, Handler, HasRows
<1>3. Informed(req[r])'
  BY <1>1, <1>2, Present DEF Informed, Exists, RowsOf, MadeFor,
    JanitorPCs, WithoutRows, WithListed, Unbegun
<1>4. QED
  BY <1>1, <1>3, QuietStep

LEMMA ReadSnapshotInTurn ==
  ASSUME IInv, TurnInv, NEW r \in Requests, ReadSnapshot(r)
  PROVE  InTurn(r)'
<1>1. req[r].topo \in Topologies /\ req[r].pc = "hydrate"
  BY Acting, Present DEF ReadSnapshot
<1>2. /\ MadeFor(req[r].topo, ActiveResources(req[r].topo))
      /\ Distinct(ActiveResources(req[r].topo))
  BY <1>1 DEF TurnInv, EntriesApart, ActiveResources, MadeFor, Distinct
<1>3. LET h == req'[r] IN
      /\ h.topo = req[r].topo /\ h.step = req[r].step /\ h.held = req[r].held
      /\ h.entries = req[r].entries /\ h.seen = req[r].seen /\ h.listed = req[r].listed
      /\ h.todo = ActiveResources(req[r].topo) /\ h.pc \in {"relist", "insert"}
  BY Acting DEF ReadSnapshot, Becomes, IInv, Handler
<1>4. UNCHANGED <<status, rows, snapshot>>
  BY DEF ReadSnapshot
<1>5. Informed(req[r])'
  <2>1. Distinct(req'[r].todo) /\ MadeFor(req'[r].topo, req'[r].todo)
    BY <1>2, <1>3
  <2>2. QED
    BY <1>1, <1>3, <1>4, <2>1, Present DEF Informed, Exists, RowsOf, MadeFor, Distinct,
      JanitorPCs, WithoutRows, WithListed, Unbegun
<1>6. QED
  BY <1>4, <1>5, QuietStep

LEMMA RelistInTurn ==
  ASSUME IInv, TurnInv, NEW r \in Requests, Relist(r)
  PROVE  InTurn(r)'
<1>1. Informed(req[r])'
  BY Acting, Present DEF Relist, Informed, Becomes, Exists, RowsOf, HasRows, MadeFor, Distinct,
    IInv, Handler, JanitorPCs, WithoutRows, WithListed, Unbegun
<1>2. QED
  BY <1>1, QuietStep DEF Relist

LEMMA CreateInTurn ==
  ASSUME IInv, TurnInv, NEW r \in Requests, Create(r)
  PROVE  InTurn(r)'
<1>1. NewResource(r).step = req[r].step /\ NewResource(r).topo = req[r].topo /\ NewResource(r).id = nextId
  BY DEF NewResource
<1>2. LET h == req'[r] IN
      /\ h.topo = req[r].topo /\ h.seen = req[r].seen /\ h.step = req[r].step
      /\ h.entries = req[r].entries /\ h.held = {NewResource(r)} /\ h.pc = "record"
  BY Acting, Present DEF Create, Becomes, IInv, Handler
<1>3. req[r].pc = "create" /\ UNCHANGED <<status, rows, snapshot>>
  BY DEF Create
<1>4. \A w \in RowsOf(req[r].topo) : w.res.id # nextId
  <2>1. \A w \in rows : w.res.id < nextId /\ w.res.id \in Nat
    BY DEF IInv, StoresInv, Row, Resource
  <2>2. QED
    BY <2>1 DEF RowsOf, IInv, StoresInv
<1>5. Informed(req[r])'
  BY <1>1, <1>2, <1>3, <1>4, Present DEF Informed, Exists, RowsOf, MadeFor,
    JanitorPCs, WithoutRows, WithListed, Unbegun
<1>6. QED
  BY <1>3, <1>5, QuietStep

LEMMA RetryInTurn ==
  ASSUME IInv, TurnInv, NEW r \in Requests, req[r].pc = "create", 
         RetryOrFail(r) \/ Becomes(r, [req[r] EXCEPT !.pc = "fail"]),
         UNCHANGED <<status, rows, snapshot>>
  PROVE  InTurn(r)'
<1>1. LET h == req'[r] IN
      /\ h.topo = req[r].topo /\ h.seen = req[r].seen /\ h.step = req[r].step
      /\ h.held = req[r].held /\ h.entries = req[r].entries /\ h.pc \in {"create", "fail"}
  BY Acting DEF RetryOrFail, Becomes, IInv, Handler
<1>2. Informed(req[r])'
  BY <1>1, Present DEF Informed, Exists, RowsOf, MadeFor,
     JanitorPCs, WithoutRows, WithListed, Unbegun
<1>3. QED
  BY <1>2, QuietStep

LEMMA CreateRefusedInTurn ==
  ASSUME IInv, TurnInv, NEW r \in Requests, CreateRefused(r) \/ CreateUnanswered(r)
  PROVE  InTurn(r)'
  BY RetryInTurn DEF CreateRefused, CreateUnanswered

LEMMA CollectRowsInTurn ==
  ASSUME IInv, TurnInv, NEW r \in Requests, CollectRows(r)
  PROVE  InTurn(r)'
<1>1. Informed(req[r])'
  BY Acting, Present DEF CollectRows, Informed, Becomes, Exists, RowsOf, MadeFor, Distinct,
    IInv, Handler, JanitorPCs, WithoutRows, WithListed, Unbegun
<1>2. QED
  BY <1>1, QuietStep DEF CollectRows

LEMMA CleanupListInTurn ==
  ASSUME IInv, TurnInv, NEW r \in Requests, CleanupList(r)
  PROVE  InTurn(r)'
<1>1. /\ Becomes(r, [req[r] EXCEPT !.pc = IF RowsOf(req[r].topo) = {} THEN "reset" ELSE "teardown",
                                  !.listed = RowsOf(req[r].topo),
                                  !.todo = ResourcesOf(RowsOf(req[r].topo)),
                                  !.failed = FALSE,
                                  !.seen = Loaded(r)])
      /\ req[r].pc = "cleanup"
      /\ UNCHANGED <<status, rows, snapshot>>
  BY Present DEF CleanupList, JanitorPCs
<1>2. LET h == req'[r] IN
      /\ h.topo = req[r].topo /\ h.step = req[r].step /\ h.held = req[r].held
      /\ h.entries = req[r].entries /\ h.seen = Loaded(r) /\ h.listed = RowsOf(req[r].topo)
      /\ h.pc = IF RowsOf(req[r].topo) = {} THEN "reset" ELSE "teardown"
  BY <1>1, Acting, Present DEF Becomes, IInv, Handler
<1>3. Informed(req[r])'
  BY <1>1, <1>2, Present DEF Informed, Exists, RowsOf, MadeFor,
    JanitorPCs, WithoutRows, WithListed, Unbegun
<1>4. QED
  BY <1>1, <1>3, QuietStep

LEMMA DeleteOneInTurn ==
  ASSUME IInv, TurnInv, NEW r \in Requests, DeleteOne(r) \/ DeleteFails(r)
  PROVE  InTurn(r)'
<1>1. req[r].pc \in {"teardown", "sweep"} /\ UNCHANGED <<status, rows, snapshot>>
  BY DEF DeleteOne, DeleteFails
<1>2. LET h == req'[r] IN
      /\ h.topo = req[r].topo /\ h.seen = req[r].seen /\ h.step = req[r].step
      /\ h.listed = req[r].listed /\ h.held = req[r].held /\ h.entries = req[r].entries
      /\ h.todo \subseteq req[r].todo
      /\ req[r].pc = "teardown" => h.pc \in {"teardown", "drop"}
      /\ req[r].pc = "sweep" => h.pc \in {"sweep", "strike", "scan"}
  <2>1. CASE DeleteOne(r)
    <3>1. PICK x \in req[r].todo :
            Becomes(r, [req[r] EXCEPT !.todo = @ \ {x},
                                      !.pc = IF req[r].todo # {x} THEN @
                                             ELSE IF @ = "teardown" THEN "drop" ELSE "strike"])
      BY <2>1 DEF DeleteOne
    <3>2. QED
      BY <3>1, <1>1, Acting, Present DEF Becomes, IInv, Handler
  <2>2. CASE DeleteFails(r)
    BY <2>2, <1>1, Acting, Present DEF DeleteFails, Becomes, IInv, Handler
  <2>3. QED
    BY <2>1, <2>2
<1>3. Informed(req[r])'
  BY <1>1, <1>2, Present DEF Informed, Exists, RowsOf, MadeFor, Distinct,
    JanitorPCs, WithoutRows, WithListed, Unbegun
<1>4. QED
  BY <1>1, <1>3, QuietStep

LEMMA JanitorScanInTurn ==
  ASSUME IInv, TurnInv, NEW r \in Requests, JanitorScan(r)
  PROVE  InTurn(r)'
<1>1. PICK t \in Topologies :
        Becomes(r, [req[r] EXCEPT !.entries = Scanned(r, t),
                                  !.topo = t,
                                  !.seen = status[t],
                                  !.pc = IF Backed(t) THEN "scan" ELSE "sweep",
                                  !.todo = IF Backed(t) THEN {} ELSE req[r].entries[t]])
  BY DEF JanitorScan
<1>2. /\ \A u \in Topologies : MadeFor(u, Scanned(r, t)[u])
      /\ MadeFor(t, req[r].entries[t])
  BY Acting, Present DEF Informed, Scanned, Handler, MadeFor
<1>3. /\ req'[r].pc = IF Backed(t) THEN "scan" ELSE "sweep"
      /\ req'[r].topo = t /\ req'[r].todo = IF Backed(t) THEN {} ELSE req[r].entries[t]
      /\ req'[r].entries = Scanned(r, t) /\ req'[r].held = req[r].held
  BY <1>1, Acting, Present DEF Becomes, IInv, Handler
<1>4. req[r].held = {} /\ UNCHANGED <<status, rows, snapshot>>
  BY Acting DEF HandlerInv, JanitorScan
<1>5. Informed(req[r])'
  BY <1>2, <1>3, <1>4 DEF Backed, Informed, RowsOf, MadeFor, Distinct,
    JanitorPCs, WithoutRows, WithListed, Unbegun
<1>6. QED
  BY <1>4, <1>5, QuietStep

LEMMA IdleInTurn == ASSUME NEW r, req'[r] = Idle PROVE Informed(req[r])'
  BY DEF Idle, Informed, MadeFor, JanitorPCs, WithoutRows, WithListed, Unbegun

LEMMA BeginInTurn ==
  ASSUME IInv, TurnInv, NEW r \in Requests, Arrive(r)
  PROVE  InTurn(r)'
<1>1. UNCHANGED <<status, rows, snapshot>> /\ req \in [Requests -> Handler]
  BY DEF Arrive, BeginDeploy, BeginScenario, BeginDelete, BeginJanitor, Begin, IInv
<1>2. ASSUME NEW t \in Topologies, BeginDeploy(r, t) \/ BeginScenario(r, t) \/ BeginDelete(r, t)
      PROVE  Informed(req[r])'
  <2>1. LET h == req'[r] IN
        /\ h.topo = t /\ h.step = 1 /\ h.held = {} /\ h.entries = Idle.entries
        /\ h.pc \in {"list", "next", "delete"} /\ h.seen \in {"EXPIRED", status[t]}
        /\ h.pc = "delete" => h.listed = RowsOf(t)
    <3>1. CASE BeginDeploy(r, t)
      BY <1>1, <3>1, Present DEF BeginDeploy, Becomes, Idle
    <3>2. CASE BeginScenario(r, t)
      BY <1>1, <3>2, Present DEF BeginScenario, Becomes, Idle
    <3>3. CASE BeginDelete(r, t)
      BY <1>1, <3>3, Present DEF BeginDelete, Becomes, Idle
    <3>4. QED
      BY <1>2, <3>1, <3>2, <3>3
  <2>2. Exists(t)
    BY <1>2 DEF BeginDeploy, BeginScenario, BeginDelete
  <2>3. QED
    BY <1>1, <2>1, <2>2, IdleFields DEF Informed, Exists, RowsOf, MadeFor, JanitorPCs, WithoutRows, WithListed, Unbegun
<1>3. ASSUME BeginJanitor(r)
      PROVE  Informed(req[r])'
  <2>1. \A t \in Topologies : MadeFor(t, ActiveResources(t))
    BY DEF TurnInv, EntriesApart, ActiveResources, MadeFor
  <2>2. QED
    BY <1>1, <1>3, <2>1, IdleIsHandler, Present DEF BeginJanitor, Becomes, Idle, Handler,
       Informed, MadeFor, JanitorPCs, WithoutRows, WithListed, Unbegun
<1>4. QED
  BY <1>1, <1>2, <1>3, QuietStep DEF Arrive

LEMMA ScenarioStepInTurn ==
  ASSUME IInv, TurnInv, NEW r \in Requests, ScenarioStep(r)
  PROVE  InTurn(r)'
<1>1. /\ req[r].pc \in {"next", "wrapup"} /\ UNCHANGED <<status, rows, snapshot>>
      /\ \/ \E pc \in {"list", "cleanup"} : Becomes(r, [req[r] EXCEPT !.pc = pc])
         \/ Becomes(r, [req[r] EXCEPT !.pc = "cleanup", !.op = "final", !.seen = "EXPIRED"])
         \/ Becomes(r, Idle)
  BY DEF ScenarioStep
<1>2. CASE Becomes(r, Idle)
  BY <1>1, <1>2, IdleInTurn, QuietStep, Present DEF Becomes, IInv
<1>3. CASE ~Becomes(r, Idle)
  <2>1. LET h == req'[r] IN
        /\ h.topo = req[r].topo /\ h.step = req[r].step /\ h.held = req[r].held /\ h.entries = req[r].entries
        /\ h.pc \in {"list", "cleanup"} /\ h.seen \in {"EXPIRED", req[r].seen}
    <3>1. CASE \E pc \in {"list", "cleanup"} : Becomes(r, [req[r] EXCEPT !.pc = pc])
      BY <3>1, Acting, Present DEF Becomes, IInv, Handler
    <3>2. CASE Becomes(r, [req[r] EXCEPT !.pc = "cleanup", !.op = "final", !.seen = "EXPIRED"])
      BY <3>2, Acting, Present DEF Becomes, IInv, Handler
    <3>3. QED
      BY <1>1, <1>3, <3>1, <3>2
  <2>2. Informed(req[r])'
    BY <1>1, <2>1, Present DEF Informed, Exists, RowsOf, MadeFor,
       JanitorPCs, WithoutRows, WithListed, Unbegun
  <2>3. QED
    BY <1>1, <2>2, QuietStep
<1>4. QED
  BY <1>2, <1>3

LEMMA EndJanitorInTurn ==
  ASSUME IInv, TurnInv, NEW r \in Requests, EndJanitor(r)
  PROVE  InTurn(r)'
  BY IdleInTurn, QuietStep, Present DEF EndJanitor, Becomes, IInv

\* A handler that has ended an operation, with the status as it was.
LEMMA EndedInTurn ==
  ASSUME IInv, TurnInv, NEW r \in Requests, NEW result, Becomes(r, Ended(r, result)),
         UNCHANGED status, req[r].pc \notin JanitorPCs \cup {"idle"}
  PROVE  Informed(req[r])'
<1>1. req'[r] = Ended(r, result)
  BY Present DEF Becomes, IInv
<1>2. CASE req'[r] = Idle
  BY <1>2, IdleInTurn
<1>3. CASE req'[r] = [Idle EXCEPT !.op = "scenario", !.topo = req[r].topo,
                        !.pc = IF result = "ok" THEN "next" ELSE "wrapup",
                        !.seen = Loaded(r)]
  BY <1>3, Present DEF Idle, Informed, Exists, MadeFor, JanitorPCs, WithoutRows, WithListed, Unbegun
<1>4. QED
  BY <1>1, <1>2, <1>3 DEF Ended

-----------------------------------------------------------------------------
(* Taking turns: state.json is written *)

LEMMA WriteInTurn ==
  ASSUME IInv, TurnInv, NEW r \in Requests, NEW entry, WriteEntry(r, entry),
         Distinct(entry.resources), MadeFor(req[r].topo, entry.resources)
  PROVE  EntriesApart'
<1> DEFINE t == req[r].topo
<1>1. CASE UNCHANGED snapshot
  BY <1>1 DEF TurnInv, EntriesApart, Distinct, MadeFor
<1>2. ASSUME NEW f \in req[r].file, snapshot' = [f EXCEPT ![t] = entry]
      PROVE  EntriesApart'
  <2>1. f \in [Topologies -> Entry] /\ t \in Topologies
    BY Acting DEF Handler
  <2>2. \A u \in Topologies : snapshot'[u] = IF u = t THEN entry ELSE f[u]
    BY <1>2, <2>1
  <2>3. \A u \in Topologies : Distinct(f[u].resources) /\ MadeFor(u, f[u].resources)
    BY DEF TurnInv, FilesApart
  <2>4. \A u \in Topologies :
          Distinct(snapshot'[u].resources) /\ MadeFor(u, snapshot'[u].resources)
    BY <2>2, <2>3
  <2>5. QED
    BY <2>4 DEF EntriesApart, Distinct, MadeFor
<1>3. QED
  BY <1>1, <1>2 DEF WriteEntry, Saved

\* The resources of a topology's rows make an entry.
LEMMA RowsMakeEntry ==
  ASSUME TurnInv, NEW t
  PROVE  Distinct(ResourcesOf(RowsOf(t))) /\ MadeFor(t, ResourcesOf(RowsOf(t)))
  BY DEF TurnInv, RowsApart, RowsOf, ResourcesOf, Distinct, MadeFor

LEMMA NothingMakesEntry == Distinct(NoEntry.resources) /\ \A t : MadeFor(t, NoEntry.resources)
  BY DEF NoEntry, Distinct, MadeFor

LEMMA SameRowsApart ==
  ASSUME TurnInv, UNCHANGED <<status, rows>>
  PROVE  RowsApart'
  BY DEF TurnInv, RowsApart, Exists

LEMMA WriteSnapshotInTurn ==
  ASSUME IInv, TurnInv, NEW r \in Requests, WriteSnapshot(r)
  PROVE  InTurn(r)'
<1>1. req[r].pc = "snapshot" /\ req[r].listed = RowsOf(req[r].topo) /\ req[r].topo \in Topologies
  BY Present, Acting DEF WriteSnapshot, Informed, WithListed
<1>2. EntriesApart'
  BY <1>1, RowsMakeEntry, WriteInTurn DEF WriteSnapshot
<1>3. Informed(req[r])'
  BY <1>1, EndedInTurn DEF WriteSnapshot, JanitorPCs
<1>4. RowsApart'
  BY SameRowsApart DEF WriteSnapshot
<1>5. QED
  BY <1>2, <1>3, <1>4 DEF InTurn

LEMMA ListFailedInTurn ==
  ASSUME IInv, TurnInv, NEW r \in Requests, ListFailed(r)
  PROVE  InTurn(r)'
<1>1. /\ Becomes(r, [req[r] EXCEPT !.pc = "recordFailed", !.listed = RowsOf(req[r].topo),
                                  !.seen = Loaded(r)])
      /\ req[r].pc = "listFailed"
      /\ UNCHANGED <<status, rows, snapshot>>
  BY Present DEF ListFailed, JanitorPCs
<1>2. LET h == req'[r] IN
      /\ h.topo = req[r].topo /\ h.step = req[r].step /\ h.held = req[r].held
      /\ h.entries = req[r].entries /\ h.seen = Loaded(r) /\ h.listed = RowsOf(req[r].topo)
      /\ h.pc = "recordFailed"
  BY <1>1, Acting, Present DEF Becomes, IInv, Handler
<1>3. Informed(req[r])'
  BY <1>1, <1>2, Present DEF Informed, Exists, RowsOf, MadeFor,
    JanitorPCs, WithoutRows, WithListed, Unbegun
<1>4. QED
  BY <1>1, <1>3, QuietStep

LEMMA RecordFailedInTurn ==
  ASSUME IInv, TurnInv, NEW r \in Requests, RecordFailed(r)
  PROVE  InTurn(r)'
<1> DEFINE t == req[r].topo
<1>1. /\ req[r].pc = "recordFailed" /\ t \in Topologies /\ UNCHANGED <<status, rows>>
      /\ WriteEntry(r, [status |-> "FAILED", resources |-> ResourcesOf(RowsOf(t))])
      /\ \/ Becomes(r, Ended(r, "failed"))
         \/ Becomes(r, [req[r] EXCEPT !.pc = "cleanup", !.nested = TRUE, !.file = {}])
  BY Present, Acting DEF RecordFailed, Informed, WithListed
<1>2. EntriesApart'
  BY <1>1, RowsMakeEntry, WriteInTurn
<1>3. Informed(req[r])'
  <2>1. CASE Becomes(r, Ended(r, "failed"))
    BY <2>1, <1>1, EndedInTurn DEF JanitorPCs
  <2>2. CASE Becomes(r, [req[r] EXCEPT !.pc = "cleanup", !.nested = TRUE, !.file = {}])
    BY <2>2, <1>1, Acting, Present, SMTT(30) DEF Becomes, IInv, Handler, HandlerInv, Informed, Exists, MadeFor,
       JanitorPCs, WithoutRows, WithListed, Unbegun
  <2>3. QED
    BY <1>1, <2>1, <2>2
<1>4. QED
  BY <1>1, <1>2, <1>3, SameRowsApart DEF InTurn

LEMMA ForgetEntryInTurn ==
  ASSUME IInv, TurnInv, NEW r \in Requests, ForgetEntry(r)
  PROVE  InTurn(r)'
<1>1. /\ req[r].pc = "forget" /\ req[r].topo \in Topologies /\ UNCHANGED <<status, rows>>
      /\ WriteEntry(r, NoEntry) /\ \E result : Becomes(r, Ended(r, result))
  BY Present, Acting DEF ForgetEntry, CleanupEnds, JanitorPCs
<1>2. EntriesApart'
  BY <1>1, NothingMakesEntry, WriteInTurn
<1>3. QED
  BY <1>1, <1>2, EndedInTurn, SameRowsApart DEF InTurn, JanitorPCs

LEMMA JanitorStrikeInTurn ==
  ASSUME IInv, TurnInv, NEW r \in Requests, JanitorStrike(r)
  PROVE  InTurn(r)'
<1>1. /\ req[r].pc = "strike" /\ req[r].topo \in Topologies /\ UNCHANGED <<status, rows>>
      /\ WriteEntry(r, NoEntry)
      /\ \E pc \in {"scan", "mark"} : Becomes(r, [req[r] EXCEPT !.pc = pc, !.file = {}])
  BY Present, Acting DEF JanitorStrike, WriteEntry
<1>2. EntriesApart'
  BY <1>1, NothingMakesEntry, WriteInTurn
<1>3. Informed(req[r])'
  BY <1>1, Acting, Present DEF Becomes, IInv, Handler, Informed, RowsOf, MadeFor,
     JanitorPCs, WithoutRows, WithListed, Unbegun
<1>4. QED
  BY <1>1, <1>2, <1>3, SameRowsApart DEF InTurn

-----------------------------------------------------------------------------
(* Taking turns: SQLite is written *)

LEMMA CommittedInTurn ==
  ASSUME IInv, TurnInv, NEW r \in Requests, req[r].pc \notin JanitorPCs \cup {"idle"}, NEW s \in Statuses
  PROVE  /\ Committed(r, s) = [status EXCEPT ![req[r].topo] = s]
         /\ Committed(r, s)[req[r].topo] = s
         /\ \A u \in Topologies \ {req[r].topo} : Committed(r, s)[u] = status[u]
<1>1. status \in [Topologies -> Statuses \cup {"ABSENT"}] /\ req[r].topo \in Topologies
      /\ req[r].seen \in {"EXPIRED", status[req[r].topo]} /\ s # "EXPIRED"
  BY Acting, Present DEF IInv, StoresInv, Informed, Statuses
<1>2. QED
  BY <1>1 DEF Committed

\* The status of a topology that exists is written.
LEMMA StatusInTurn ==
  ASSUME IInv, TurnInv, NEW t \in Topologies, NEW s \in Statuses,
         status' = status \/ status' = [status EXCEPT ![t] = s],
         UNCHANGED <<rows, snapshot>>
  PROVE  RowsApart' /\ EntriesApart' /\ \A u \in Topologies : Exists(u) => Exists(u)'
<1>1. \A u \in Topologies : status'[u] = status[u] \/ status'[u] = s
  BY DEF IInv, StoresInv
<1>2. \A u \in Topologies : Exists(u) => Exists(u)'
  BY <1>1 DEF Exists, Statuses
<1>3. \A w \in rows : w.topo \in Topologies
  BY DEF IInv, StoresInv, Row
<1>4. RowsApart'
  BY <1>2, <1>3 DEF TurnInv, RowsApart, Exists
<1>5. EntriesApart'
  BY DEF TurnInv, EntriesApart, Distinct, MadeFor
<1>6. QED
  BY <1>2, <1>4, <1>5

LEMMA CommitInTurn ==
  ASSUME IInv, TurnInv, NEW r \in Requests, req[r].pc \notin JanitorPCs \cup {"idle"},
         NEW s \in Statuses, status' = Committed(r, s), UNCHANGED <<rows, snapshot>>
  PROVE  RowsApart' /\ EntriesApart' /\ status'[req[r].topo] # "ABSENT"
<1>1. status' = [status EXCEPT ![req[r].topo] = s] /\ status'[req[r].topo] = s
  BY CommittedInTurn
<1>2. req[r].topo \in Topologies
  BY Acting, Present
<1>3. QED
  BY <1>1, <1>2, StatusInTurn DEF Statuses

LEMMA FinishIdempotentInTurn ==
  ASSUME IInv, TurnInv, NEW r \in Requests, FinishIdempotent(r)
  PROVE  InTurn(r)'
<1> DEFINE t == req[r].topo
           again == {w \in rows : w.id \in IdsOf(req[r].listed)}
<1>1. /\ req[r].pc = "finish" /\ t \in Topologies /\ req[r].listed = RowsOf(t)
      /\ status' = Committed(r, "ACTIVE") /\ "ACTIVE" \in Statuses
      /\ UNCHANGED <<rows, snapshot>>
      /\ \/ Becomes(r, [req[r] EXCEPT !.pc = "snapshot", !.listed = again, !.seen = status'[t]])
         \/ Raise(r)
  BY Acting, Present DEF FinishIdempotent, Informed, WithListed, Statuses, JanitorPCs
<1>2. again = RowsOf(t)
  BY <1>1 DEF TurnInv, RowsApart, RowsOf, IdsOf
<1>3. RowsApart' /\ EntriesApart' /\ status'[t] # "ABSENT"
  BY <1>1, CommitInTurn DEF JanitorPCs
<1>4. CASE Raise(r)
  <2>1. req'[r] = Idle
    BY <1>4, Present DEF Raise, Ended, Becomes, IInv
  <2>2. QED
    BY <1>3, <2>1, IdleInTurn DEF InTurn
<1>5. CASE Becomes(r, [req[r] EXCEPT !.pc = "snapshot", !.listed = again, !.seen = status'[t]])
  <2>1. LET h == req'[r] IN
        /\ h.topo = t /\ h.seen = status'[t] /\ h.entries = req[r].entries
        /\ h.held = {} /\ h.pc = "snapshot" /\ h.listed = RowsOf(t)
    BY <1>1, <1>2, <1>5, Acting, Present DEF Becomes, IInv, Handler, HandlerInv
  <2>2. Informed(req[r])'
    BY <1>1, <1>3, <2>1, Present DEF Informed, Exists, RowsOf, MadeFor,
       JanitorPCs, WithoutRows, WithListed, Unbegun
  <2>3. QED
    BY <1>3, <2>2 DEF InTurn
<1>6. QED
  BY <1>1, <1>4, <1>5

LEMMA ActivateInTurn ==
  ASSUME IInv, TurnInv, NEW r \in Requests, Activate(r) \/ MarkFailed(r)
  PROVE  InTurn(r)'
<1> DEFINE t == req[r].topo
<1>1. /\ req[r].pc \in {"activate", "fail"} /\ t \in Topologies /\ UNCHANGED <<rows, snapshot>>
      /\ \E s \in Statuses : status' = Committed(r, s)
      /\ \E pc \in {"collect", "listFailed"}, seen \in {"EXPIRED", status'[t]} :
           Becomes(r, [req[r] EXCEPT !.pc = pc, !.seen = seen])
  BY Acting, Present DEF Activate, MarkFailed, Statuses, JanitorPCs
<1>2. RowsApart' /\ EntriesApart' /\ status'[t] # "ABSENT"
  BY <1>1, CommitInTurn DEF JanitorPCs
<1>3. LET h == req'[r] IN
      /\ h.topo = t /\ h.seen \in {"EXPIRED", status'[t]} /\ h.entries = req[r].entries
      /\ h.held = {} /\ h.pc \in {"collect", "listFailed"}
  BY <1>1, Acting, Present DEF Becomes, IInv, Handler, HandlerInv
<1>4. Informed(req[r])'
  BY <1>1, <1>2, <1>3, Present DEF Informed, Exists, RowsOf, MadeFor,
     JanitorPCs, WithoutRows, WithListed, Unbegun
<1>5. QED
  BY <1>2, <1>4 DEF InTurn

LEMMA ResetStatusInTurn ==
  ASSUME IInv, TurnInv, NEW r \in Requests, ResetStatus(r)
  PROVE  InTurn(r)'
<1> DEFINE t == req[r].topo
<1>1. /\ req[r].pc = "reset" /\ t \in Topologies /\ UNCHANGED <<rows, snapshot>>
      /\ "CREATED" \in Statuses /\ status' = Committed(r, "CREATED")
      /\ Becomes(r, [req[r] EXCEPT !.pc = "forget",
                       !.seen = IF req[r].listed = {} THEN "EXPIRED" ELSE status'[t]])
  BY Acting, Present DEF ResetStatus, Statuses, JanitorPCs
<1>2. RowsApart' /\ EntriesApart' /\ status'[t] # "ABSENT"
  BY <1>1, CommitInTurn DEF JanitorPCs
<1>3. LET h == req'[r] IN
      /\ h.topo = t /\ h.seen \in {"EXPIRED", status'[t]} /\ h.entries = req[r].entries
      /\ h.held = {} /\ h.pc = "forget"
  <2>1. req[r].held = {}
    BY <1>1, Acting DEF HandlerInv
  <2>2. QED
    BY <1>1, <2>1, Acting, Present DEF Becomes, IInv, Handler
<1>4. Informed(req[r])'
  BY <1>1, <1>2, <1>3, Present DEF Informed, Exists, RowsOf, MadeFor,
     JanitorPCs, WithoutRows, WithListed, Unbegun
<1>5. QED
  BY <1>2, <1>4 DEF InTurn

LEMMA JanitorMarkInTurn ==
  ASSUME IInv, TurnInv, NEW r \in Requests, JanitorMark(r)
  PROVE  InTurn(r)'
<1>1. /\ req[r].pc = "mark" /\ req[r].topo \in Topologies /\ UNCHANGED <<rows, snapshot>>
      /\ "CREATED" \in Statuses
      /\ status' = status \/ status' = [status EXCEPT ![req[r].topo] = "CREATED"]
      /\ Becomes(r, [req[r] EXCEPT !.pc = "scan"]) \/ Becomes(r, Idle)
  BY Acting, Present DEF JanitorMark, Committed, Statuses
<1>2. RowsApart' /\ EntriesApart'
  BY <1>1, StatusInTurn
<1>3. CASE Becomes(r, [req[r] EXCEPT !.pc = "scan"])
  <2>1. LET h == req'[r] IN h.entries = req[r].entries /\ h.held = {} /\ h.pc = "scan"
    BY <1>1, <1>3, Acting, Present DEF Becomes, IInv, Handler, HandlerInv
  <2>2. Informed(req[r])'
    BY <2>1, Present DEF Informed, MadeFor, JanitorPCs, WithoutRows, WithListed, Unbegun
  <2>3. QED
    BY <1>2, <2>2 DEF InTurn
<1>4. CASE Becomes(r, Idle)
  BY <1>2, <1>4, IdleInTurn, Present DEF Becomes, IInv, InTurn
<1>5. QED
  BY <1>1, <1>3, <1>4

\* The rows inserted in one commit have ids of their own, above those of the table.
LEMMA InsertedApart ==
  ASSUME IInv, NEW S \in SUBSET Resource, IsFiniteSet(S), Distinct(S),
         NEW t, NEW top \in Tops, IsTop(top)
  PROVE  LET new == Inserted(S, t, top) IN
         /\ \A w \in new : w.res \in S /\ w.topo = t
         /\ \A v \in rows, w \in new : v.id # w.id
         /\ \A v, w \in new : v.id = w.id => v = w
         /\ \A x \in S : \E w \in new : w.res = x
         /\ \A v, w \in new : v.res = w.res => v = w
<1> DEFINE below(x) == {y \in S : y.id <= x.id}
           f(x) == [id |-> top + Cardinality(below(x)), topo |-> t, res |-> x]
<1>1. top \in Nat /\ \A v \in rows : v.id \in Nat /\ v.id <= top
  BY DEF Tops, IdsOf, IInv, StoresInv, Row, IsTop
<1>0. \A x \in S : x.id \in Nat
  BY DEF Resource
<1>2. ASSUME NEW x \in S
      PROVE  IsFiniteSet(below(x)) /\ Cardinality(below(x)) \in Nat /\ Cardinality(below(x)) # 0
  <2>1. IsFiniteSet(below(x)) /\ Cardinality(below(x)) \in Nat
    BY FS_Subset, FS_CardinalityType
  <2>2. x \in below(x)
    BY <1>0
  <2>3. QED
    BY <2>1, <2>2, FS_EmptySet
<1>3. ASSUME NEW x \in S, NEW y \in S, Cardinality(below(x)) = Cardinality(below(y))
      PROVE  x = y
  <2>1. ASSUME NEW u \in S, NEW v \in S, u.id <= v.id, Cardinality(below(u)) = Cardinality(below(v))
        PROVE  u = v
    <3>1. below(u) \subseteq below(v)
      BY <1>0, <2>1
    <3>2. IsFiniteSet(below(v))
      BY <1>2
    <3>3. below(u) = below(v)
      BY <2>1, <3>1, <3>2, FS_Subset
    <3>4. v \in below(u)
      BY <1>0, <3>3
    <3>5. u.id = v.id
      BY <1>0, <2>1, <3>4
    <3>6. QED
      BY <3>5 DEF Distinct
  <2>2. x.id <= y.id \/ y.id <= x.id
    BY <1>0
  <2>3. QED
    BY <1>3, <2>1, <2>2
<1>4. Inserted(S, t, top) = {f(x) : x \in S}
  BY DEF Inserted
<1>5. \A x \in S : f(x).res = x /\ f(x).topo = t /\ f(x).id = top + Cardinality(below(x))
  OBVIOUS
<1> HIDE DEF below, f
<1>6. ASSUME NEW v \in rows, NEW x \in S
      PROVE  v.id # f(x).id
  BY <1>1, <1>2, <1>5
<1>7. ASSUME NEW x \in S, NEW y \in S, f(x).id = f(y).id
      PROVE  x = y
  BY <1>1, <1>2, <1>3, <1>5, <1>7
<1>8. QED
  BY <1>4, <1>5, <1>6, <1>7

\* Rows that are apart, of a topology that has had none for the same steps and ids.
LEMMA AddRows ==
  ASSUME IInv, TurnInv, NEW t, NEW new, rows' = rows \cup new,
         \A w \in new : w.topo = t /\ w.res.topo = t,
         \A v \in rows, w \in new : v.id # w.id,
         \A v, w \in new : v.id = w.id => v = w,
         \A v, w \in new : v.res.step = w.res.step \/ v.res.id = w.res.id => v = w,
         \A v \in RowsOf(t), w \in new : v.res.step # w.res.step /\ v.res.id # w.res.id,
         status'[t] # "ABSENT", \A u \in Topologies : Exists(u) => Exists(u)'
  PROVE  RowsApart'
<1>1. \A w \in rows : w.topo \in Topologies
  BY DEF IInv, StoresInv, Row
<1>2. \A v, w \in rows' : v.id = w.id => v = w
  BY DEF TurnInv, RowsApart
<1>3. \A v, w \in rows' :
         v.topo = w.topo /\ (v.res.step = w.res.step \/ v.res.id = w.res.id) => v = w
  BY DEF TurnInv, RowsApart, RowsOf
<1>4. \A w \in rows' : w.res.topo = w.topo /\ Exists(w.topo)'
  BY <1>1 DEF TurnInv, RowsApart, Exists
<1>5. QED
  BY <1>2, <1>3, <1>4 DEF RowsApart

LEMMA InsertRowsInTurn ==
  ASSUME IInv, TurnInv, NEW r \in Requests, InsertRows(r)
  PROVE  InTurn(r)'
<1> DEFINE t == req[r].topo
           S == req[r].todo
<1>1. /\ req[r].pc = "insert" /\ t \in Topologies /\ UNCHANGED snapshot
      /\ "ACTIVE" \in Statuses /\ status' = Committed(r, "ACTIVE")
      /\ Becomes(r, [req[r] EXCEPT !.pc = "relist", !.todo = {}, !.seen = status'[t]])
      /\ \E top \in Tops : IsTop(top) /\ rows' = rows \cup Inserted(S, t, top)
  BY Acting, Present DEF InsertRows, Statuses, JanitorPCs
<1>2. PICK top \in Tops : IsTop(top) /\ rows' = rows \cup Inserted(S, t, top)
  BY <1>1
<1>3. S \in SUBSET Resource /\ IsFiniteSet(S) /\ Distinct(S) /\ MadeFor(t, S) /\ RowsOf(t) = {}
  BY <1>1, Acting, Present DEF HandlerOK, Handler, Informed, WithoutRows
<1>4. status' = [status EXCEPT ![t] = "ACTIVE"] /\ status'[t] = "ACTIVE"
  BY <1>1, CommittedInTurn DEF JanitorPCs
<1>5. \A u \in Topologies : Exists(u) => Exists(u)'
  BY <1>1, <1>4 DEF IInv, StoresInv, Exists
<1>6. RowsApart'
  <2> DEFINE new == Inserted(S, t, top)
  <2>1. /\ \A w \in new : w.res \in S /\ w.topo = t
        /\ \A v \in rows, w \in new : v.id # w.id
        /\ \A v, w \in new : v.id = w.id => v = w
        /\ \A v, w \in new : v.res = w.res => v = w
    BY <1>2, <1>3, InsertedApart
  <2> HIDE DEF new
  <2>2. /\ \A w \in new : w.res.topo = t
        /\ \A v, w \in new : v.res.step = w.res.step \/ v.res.id = w.res.id => v = w
    BY <1>3, <2>1 DEF MadeFor, Distinct
  <2>3. rows' = rows \cup new /\ status'[t] # "ABSENT"
    BY <1>2, <1>4 DEF new
  <2>4. QED
    BY <1>3, <1>5, <2>1, <2>2, <2>3, AddRows
<1>7. EntriesApart'
  BY <1>1 DEF TurnInv, EntriesApart, Distinct, MadeFor
<1>8. LET h == req'[r] IN
      /\ h.topo = t /\ h.seen = status'[t] /\ h.entries = req[r].entries /\ h.step = req[r].step
      /\ h.held = {} /\ h.pc = "relist"
  <2>1. req[r].held = {}
    BY <1>1, Acting DEF HandlerInv
  <2>2. QED
    BY <1>1, <2>1, Acting, Present DEF Becomes, IInv, Handler
<1>9. Informed(req[r])'
  BY <1>1, <1>4, <1>8, Present DEF Informed, Exists, MadeFor, JanitorPCs, WithoutRows, WithListed, Unbegun
<1>10. QED
  BY <1>6, <1>7, <1>9 DEF InTurn

LEMMA RecordRowInTurn ==
  ASSUME IInv, TurnInv, NEW r \in Requests, RecordRow(r)
  PROVE  InTurn(r)'
<1> DEFINE q == req[r]
           t == req[r].topo
<1>1. /\ q.pc = "record" /\ t \in Topologies /\ UNCHANGED <<status, snapshot>>
      /\ \E top \in Tops :
           IsTop(top) /\ rows' = rows \cup {[id |-> top + 1, topo |-> t, res |-> x] : x \in q.held}
      /\ \E x \in q.held :
           Becomes(r, [q EXCEPT !.pc = IF q.step = Len(Plan) THEN "activate" ELSE "create",
                                !.step = q.step + 1,
                                !.made = [@ EXCEPT ![q.step] = x.id],
                                !.held = {},
                                !.seen = "EXPIRED"])
  BY Acting, Present DEF RecordRow, JanitorPCs
<1>2. PICK top \in Tops :
        IsTop(top) /\ rows' = rows \cup {[id |-> top + 1, topo |-> t, res |-> x] : x \in q.held}
  BY <1>1
<1>3. PICK y \in q.held :
        Becomes(r, [q EXCEPT !.pc = IF q.step = Len(Plan) THEN "activate" ELSE "create",
                             !.step = q.step + 1,
                             !.made = [@ EXCEPT ![q.step] = y.id],
                             !.held = {},
                             !.seen = "EXPIRED"])
  BY <1>1
<1>4. /\ \A x \in q.held : x.step = q.step /\ x.topo = t /\ \A w \in RowsOf(t) : w.res.id # x.id
      /\ \A w \in RowsOf(t) : w.res.step < q.step
      /\ Exists(t) /\ q.step \in Nat
  BY <1>1, Acting, Present DEF Informed, JanitorPCs, Handler
<1>5. \A v \in rows : v.id \in Nat /\ v.id <= top /\ v.res.step \in Nat
  BY <1>2 DEF IInv, StoresInv, Row, Resource, Steps, IsTop
<1>6. top \in Nat
  BY <1>2 DEF Tops, IdsOf, IInv, StoresInv, Row
<1>7. RowsApart'
  <2> DEFINE new == {[id |-> top + 1, topo |-> t, res |-> x] : x \in q.held}
  <2>1. \A w \in new : w.topo = t /\ w.res \in q.held /\ w.id = top + 1
    OBVIOUS
  <2>2. \A v, w \in new : v.res = w.res => v = w
    OBVIOUS
  <2>3. rows' = rows \cup new
    BY <1>2
  <2> HIDE DEF new
  <2>4. \A x, z \in q.held : x = z
    BY Present DEF Informed
  <2>5. \A v \in RowsOf(t), w \in new : v.res.step # w.res.step /\ v.res.id # w.res.id
    BY <1>4, <1>5, <2>1 DEF RowsOf
  <2>6. \A v \in rows, w \in new : v.id # w.id
    BY <1>5, <1>6, <2>1
  <2>7. status'[t] # "ABSENT" /\ \A u \in Topologies : Exists(u) => Exists(u)'
    BY <1>1, <1>4 DEF Exists
  <2>8. \A v, w \in new : v = w
    BY <2>1, <2>2, <2>4
  <2>9. \A w \in new : w.topo = t /\ w.res.topo = t
    BY <1>4, <2>1
  <2>10. QED
    BY <2>3, <2>5, <2>6, <2>7, <2>8, <2>9, AddRows, ZenonT(60)
<1>8. EntriesApart'
  BY <1>1 DEF TurnInv, EntriesApart, Distinct, MadeFor
<1>9. LET h == req'[r] IN
      /\ h.topo = t /\ h.seen = "EXPIRED" /\ h.entries = req[r].entries /\ h.step = q.step + 1
      /\ h.held = {} /\ h.pc \in {"activate", "create"}
  BY <1>3, Acting, Present DEF Becomes, IInv, Handler
<1>10. Informed(req[r])'
  <2>1. \A w \in rows' : w.topo = t => w.res.step < q.step + 1
    BY <1>2, <1>4, <1>5 DEF RowsOf
  <2>2. QED
    BY <1>1, <1>9, <2>1, Present DEF Informed, Exists, RowsOf, MadeFor, JanitorPCs, WithoutRows, WithListed, Unbegun
<1>11. QED
  BY <1>7, <1>8, <1>10 DEF InTurn

\* A cleanup or deletion that has listed a topology's rows deletes them and no others.
LEMMA DroppedRows ==
  ASSUME TurnInv, NEW r, req[r].listed = RowsOf(req[r].topo)
  PROVE  Dropped(r) = RowsOf(req[r].topo)
  BY DEF Dropped, IdsOf, RowsOf, TurnInv, RowsApart

LEMMA DropRowsInTurn ==
  ASSUME IInv, TurnInv, NEW r \in Requests, DropRows(r)
  PROVE  InTurn(r)'
<1> DEFINE t == req[r].topo
<1>1. /\ req[r].pc = "drop" /\ UNCHANGED <<status, snapshot>> /\ rows' = rows \ RowsOf(t)
      /\ Becomes(r, [req[r] EXCEPT !.pc = "reset", !.seen = "EXPIRED"])
  BY DroppedRows, Present DEF DropRows, Informed, WithListed
<1>2. RowsApart'
  BY <1>1 DEF TurnInv, RowsApart, Exists
<1>3. EntriesApart'
  BY <1>1 DEF TurnInv, EntriesApart, Distinct, MadeFor
<1>4. LET h == req'[r] IN
      /\ h.topo = t /\ h.seen = "EXPIRED" /\ h.entries = req[r].entries
      /\ h.held = {} /\ h.pc = "reset"
  <2>1. req[r].held = {}
    BY <1>1, Acting, Present DEF HandlerInv
  <2>2. QED
    BY <1>1, <2>1, Acting, Present DEF Becomes, IInv, Handler
<1>5. Informed(req[r])'
  BY <1>1, <1>4, Present DEF Informed, Exists, RowsOf, MadeFor, JanitorPCs, WithoutRows, WithListed, Unbegun
<1>6. QED
  BY <1>2, <1>3, <1>5 DEF InTurn

LEMMA DeleteTopologyInTurn ==
  ASSUME IInv, TurnInv, NEW r \in Requests, DeleteTopology(r)
  PROVE  InTurn(r)'
<1> DEFINE t == req[r].topo
<1>1. /\ req[r].pc = "delete" /\ t \in Topologies /\ UNCHANGED snapshot /\ rows' = rows \ RowsOf(t)
      /\ status' = [status EXCEPT ![t] = "ABSENT"] /\ req'[r] = Idle
  BY DroppedRows, Acting, Present DEF DeleteTopology, Informed, WithListed, Becomes, IInv
<1>2. RowsApart'
  <2>1. \A w \in rows' : w \in rows /\ w.topo # t /\ w.topo \in Topologies
    BY <1>1 DEF RowsOf, IInv, StoresInv, Row
  <2>2. \A w \in rows' : status'[w.topo] = status[w.topo]
    BY <1>1, <2>1 DEF IInv, StoresInv
  <2>3. QED
    BY <2>1, <2>2 DEF TurnInv, RowsApart, Exists
<1>3. EntriesApart'
  BY <1>1 DEF TurnInv, EntriesApart, Distinct, MadeFor
<1>4. QED
  BY <1>1, <1>2, <1>3, IdleInTurn DEF InTurn

LEMMA CreateTopologyInTurn ==
  ASSUME IInv, TurnInv, NEW t \in Topologies, CreateTopology(t)
  PROVE  TurnInv'
<1>1. ~Exists(t)
  BY DEF CreateTopology, Topologies
<1>2. UNCHANGED <<rows, snapshot, req>> /\ \A u \in Topologies \ {t} : status'[u] = status[u]
  BY DEF CreateTopology, IInv, StoresInv
<1>3. \A u \in Topologies : Exists(u) => Exists(u)' /\ status'[u] = status[u]
  BY <1>1, <1>2 DEF Exists
<1>4. RowsApart'
  BY <1>2, <1>3 DEF TurnInv, RowsApart, IInv, StoresInv, Row
<1>5. EntriesApart'
  BY <1>2 DEF TurnInv, EntriesApart, Distinct, MadeFor
<1>6. ASSUME NEW r \in Requests
      PROVE  Informed(req[r])'
  <2>1. Informed(req[r]) /\ req[r].topo \in Topologies
    BY Acting DEF TurnInv
  <2>2. QED
    BY <1>2, <1>3, <2>1 DEF Informed, RowsOf, MadeFor, Distinct
<1>7. FilesApart'
  BY <1>2 DEF TurnInv, FilesApart, Distinct, MadeFor
<1>8. QED
  BY <1>4, <1>5, <1>6, <1>7 DEF TurnInv

-----------------------------------------------------------------------------
(* Taking turns: the other handlers *)

\* Nothing but the rows and the status of t changes in SQLite.
OnlyAbout(t) ==
    \A u \in Topologies : u # t => status'[u] = status[u] /\ RowsOf(u)' = RowsOf(u)

LEMMA InsertedFor ==
  ASSUME NEW S, NEW t, NEW top, NEW w \in Inserted(S, t, top)
  PROVE  w.topo = t
<1> DEFINE n(x) == top + Cardinality({y \in S : y.id <= x.id})
<1>1. w \in {[id |-> n(x), topo |-> t, res |-> x] : x \in S}
  BY DEF Inserted
<1> HIDE DEF n
<1>2. QED
  BY <1>1

\* A handler writes about its own topology, and the janitor nothing between two entries.
LEMMA StepIsLocal ==
  ASSUME IInv, TurnInv, NEW r \in Requests, Step(r)
  PROVE  /\ \E h : Becomes(r, h)
         /\ OnlyAbout(req[r].topo)
         /\ ~AtWork(req[r]) => UNCHANGED <<status, rows>>
<1> DEFINE t == req[r].topo
<1>1. CASE UNCHANGED <<status, rows>> /\ \E h : Becomes(r, h)
  BY <1>1 DEF OnlyAbout, RowsOf
<1>2. ASSUME InsertRows(r) \/ RecordRow(r)
      PROVE  /\ \E h : Becomes(r, h)
             /\ OnlyAbout(t) /\ AtWork(req[r])
  <2>1. /\ \E h : Becomes(r, h)
        /\ req[r].pc \in {"insert", "record"}
        /\ status' = status \/ status' = Committed(r, "ACTIVE")
        /\ \A w \in rows : w \in rows'
        /\ \A w \in rows' : w \in rows \/ w.topo = t
    <3>1. CASE InsertRows(r)
      <4>1. /\ req[r].pc = "insert" /\ \E h : Becomes(r, h)
            /\ status' = status \/ status' = Committed(r, "ACTIVE")
            /\ rows' = rows \/ \E top : rows' = rows \cup Inserted(req[r].todo, t, top)
        BY <3>1 DEF InsertRows, Raise
      <4>2. \A top : \A w \in Inserted(req[r].todo, t, top) : w.topo = t
        BY InsertedFor
      <4>3. QED
        BY <4>1, <4>2
    <3>2. CASE RecordRow(r)
      <4>1. /\ req[r].pc = "record" /\ status' = status
            /\ rows' = rows \/ \E top : rows' = rows \cup {[id |-> top + 1, topo |-> t, res |-> x] :
                                                        x \in req[r].held}
        BY <3>2 DEF RecordRow
      <4>2. \E h : Becomes(r, h)
        BY <3>2 DEF RecordRow, Raise
      <4>3. QED
        BY <4>1, <4>2
    <3>3. QED
      BY <1>2, <3>1, <3>2
  <2>2. \A u \in Topologies : u # t => status'[u] = status[u]
    BY <2>1 DEF Committed, IInv, StoresInv
  <2>3. QED
    BY <2>1, <2>2 DEF OnlyAbout, RowsOf, AtWork
<1>3. ASSUME FinishIdempotent(r) \/ Activate(r) \/ MarkFailed(r) \/ ResetStatus(r) \/ JanitorMark(r)
      PROVE  /\ \E h : Becomes(r, h)
             /\ OnlyAbout(t) /\ AtWork(req[r])
  <2>1. /\ \E h : Becomes(r, h)
        /\ req[r].pc \in {"finish", "activate", "fail", "reset", "mark"}
        /\ status' = status \/ \E s \in Statuses : status' = Committed(r, s)
        /\ UNCHANGED rows
    BY <1>3 DEF FinishIdempotent, Activate, MarkFailed, ResetStatus, JanitorMark, Raise, CleanupEnds, Statuses
  <2>2. \A u \in Topologies : u # t => status'[u] = status[u]
    BY <2>1 DEF Committed, IInv, StoresInv
  <2>3. QED
    BY <2>1, <2>2 DEF OnlyAbout, RowsOf, AtWork
<1>4. ASSUME DropRows(r) \/ DeleteTopology(r)
      PROVE  /\ \E h : Becomes(r, h)
             /\ OnlyAbout(t) /\ AtWork(req[r])
  <2>1. /\ \E h : Becomes(r, h)
        /\ req[r].pc \in {"drop", "delete"}
        /\ status' = status \/ status' = [status EXCEPT ![t] = "ABSENT"]
        /\ rows' = rows \ Dropped(r)
    BY <1>4 DEF DropRows, DeleteTopology
  <2>2. Dropped(r) = RowsOf(t)
    BY <2>1, Present, DroppedRows DEF Informed, WithListed
  <2>3. \A u \in Topologies : u # t => status'[u] = status[u]
    BY <2>1 DEF IInv, StoresInv
  <2>4. QED
    BY <2>1, <2>2, <2>3 DEF OnlyAbout, RowsOf, AtWork
<1>5. CASE ScenarioStep(r)
  BY <1>1, <1>5 DEF ScenarioStep
<1>6. CASE DeployStep(r)
  BY <1>1, <1>2, <1>3, <1>6 DEF DeployStep, ListRows, ReadSnapshot, Relist, WriteSnapshot, Create,
     CreateRefused, CreateUnanswered, RetryOrFail, CollectRows, ListFailed, RecordFailed, Raise
<1>7. CASE CleanupStep(r)
  BY <1>1, <1>3, <1>4, <1>7 DEF CleanupStep, CleanupList, DeleteOne, DeleteFails, ForgetEntry, CleanupEnds
<1>8. CASE JanitorStep(r)
  BY <1>1, <1>3, <1>8 DEF JanitorStep, JanitorScan, JanitorStrike, EndJanitor
<1>9. CASE LoadState(r)
  BY <1>1, <1>9 DEF LoadState
<1>10. QED
  BY <1>4, <1>5, <1>6, <1>7, <1>8, <1>9 DEF Step

\* A handler whose topology is left alone knows what it has known.
LEMMA StaysInformed ==
  ASSUME IInv, TurnInv, NEW q \in Requests, req'[q] = req[q],
         AtWork(req[q]) => /\ status'[req[q].topo] = status[req[q].topo]
                           /\ RowsOf(req[q].topo)' = RowsOf(req[q].topo)
  PROVE  Informed(req[q])'
<1>1. Informed(req[q])
  BY DEF TurnInv
<1>2. CASE AtWork(req[q])
  BY <1>1, <1>2, SMTT(60) DEF Informed, Exists, RowsOf, MadeFor, Distinct
<1>3. CASE ~AtWork(req[q])
  <2>1. req[q].held = {} /\ req[q].pc \in {"idle", "scan"}
    BY <1>3, Acting DEF AtWork, HandlerInv
  <2>2. QED
    BY <1>1, <2>1 DEF Informed, MadeFor, JanitorPCs, WithoutRows, WithListed, Unbegun
<1>4. QED
  BY <1>2, <1>3

LEMMA OthersInformed ==
  ASSUME IInv, TurnInv, TakeTurns, NEW r \in Requests, Arrive(r) \/ Step(r),
         NEW q \in Requests, q # r
  PROVE  Informed(req[q])'
<1>1. CASE Step(r)
  <2>1. req'[q] = req[q]
    BY <1>1, StepIsLocal DEF Becomes, IInv
  <2>2. AtWork(req[q]) => /\ status'[req[q].topo] = status[req[q].topo]
                          /\ RowsOf(req[q].topo)' = RowsOf(req[q].topo)
    <3>1. CASE AtWork(req[r])
      BY <1>1, <2>1, <3>1, StepIsLocal, Acting DEF TakeTurns, OnlyAbout
    <3>2. CASE ~AtWork(req[r])
      BY <1>1, <2>1, <3>2, StepIsLocal DEF RowsOf
    <3>3. QED
      BY <3>1, <3>2
  <2>3. QED
    BY <2>1, <2>2, StaysInformed
<1>2. CASE Arrive(r)
  <2>1. UNCHANGED <<status, rows>> /\ \E h : Becomes(r, h)
    BY <1>2 DEF Arrive, BeginDeploy, BeginScenario, BeginDelete, BeginJanitor, Begin
  <2>2. req'[q] = req[q]
    BY <2>1 DEF Becomes, IInv
  <2>3. QED
    BY <2>1, <2>2, StaysInformed DEF RowsOf
<1>3. QED
  BY <1>1, <1>2

LEMMA TurnNext ==
  ASSUME IInv, TurnInv, TakeTurns, [Next]_vars
  PROVE  TurnInv'
<1>1. ASSUME NEW t \in Topologies, CreateTopology(t)
      PROVE  TurnInv'
  BY <1>1, CreateTopologyInTurn
<1>2. ASSUME NEW r \in Requests, Step(r)
      PROVE  InTurn(r)'
  <2>1. CASE DeployStep(r)
    BY <2>1, ListRowsInTurn, ReadSnapshotInTurn, InsertRowsInTurn, RelistInTurn, FinishIdempotentInTurn,
       WriteSnapshotInTurn, CreateInTurn, CreateRefusedInTurn, RecordRowInTurn,
       ActivateInTurn, CollectRowsInTurn, ListFailedInTurn, RecordFailedInTurn DEF DeployStep
  <2>2. CASE CleanupStep(r)
    BY <2>2, CleanupListInTurn, DeleteOneInTurn, DropRowsInTurn, ResetStatusInTurn, ForgetEntryInTurn
    DEF CleanupStep
  <2>3. CASE JanitorStep(r)
    BY <2>3, JanitorScanInTurn, JanitorStrikeInTurn, JanitorMarkInTurn, EndJanitorInTurn DEF JanitorStep
  <2>4. QED
    BY <1>2, <2>1, <2>2, <2>3, ScenarioStepInTurn, DeleteTopologyInTurn, LoadStateInTurn DEF Step
<1>3. ASSUME NEW r \in Requests, Arrive(r) \/ Step(r)
      PROVE  TurnInv'
  <2>1. InTurn(r)'
    BY <1>2, <1>3, BeginInTurn
  <2>2. \A q \in Requests : q # r => Informed(req[q])'
    BY <1>3, OthersInformed
  <2>3. FilesApart'
    BY <1>3, FilesInTurn DEF Next
  <2>4. QED
    BY <2>1, <2>2, <2>3 DEF TurnInv, InTurn
<1>4. ASSUME Crash
      PROVE  TurnInv'
  <2>1. (\A r \in Requests : req'[r] = Idle) /\ UNCHANGED <<status, rows, snapshot>>
    BY <1>4 DEF Crash
  <2>2. \A r \in Requests : Informed(req[r])'
    BY <2>1, IdleInTurn
  <2>3. RowsApart' /\ EntriesApart'
    BY <2>1 DEF TurnInv, RowsApart, EntriesApart, Distinct, MadeFor, Exists
  <2>4. FilesApart'
    BY <1>4, FilesInTurn DEF Next
  <2>5. QED
    BY <2>2, <2>3, <2>4 DEF TurnInv
<1>5. ASSUME UNCHANGED vars
      PROVE  TurnInv'
  <2>1. RowsApart' /\ EntriesApart'
    BY <1>5 DEF vars, TurnInv, RowsApart, EntriesApart, Distinct, MadeFor, Exists
  <2>2. \A r \in Requests : Informed(req[r])'
    BY <1>5, StaysInformed DEF vars, RowsOf
  <2>3. FilesApart'
    BY <1>5, FilesInTurn
  <2>4. QED
    BY <1>5, <2>1, <2>2, <2>3 DEF vars, TurnInv
<1>6. QED
  BY <1>1, <1>3, <1>4, <1>5 DEF Next, Rest

LEMMA TurnInit == Init => TurnInv
<1> SUFFICES ASSUME Init PROVE TurnInv
  OBVIOUS
<1>1. NoEntry.resources = {}
  BY DEF NoEntry
<1>2. RowsApart /\ EntriesApart /\ FilesApart
  BY <1>1, IdleFields DEF Init, RowsApart, EntriesApart, FilesApart, Distinct, MadeFor
<1>3. ASSUME NEW r \in Requests
      PROVE  Informed(req[r])
  BY DEF Init, Idle, Informed, MadeFor, JanitorPCs, WithoutRows, WithListed, Unbegun
<1>4. QED
  BY <1>2, <1>3 DEF TurnInv

LEMMA TurnInvariance == Spec /\ []TakeTurns => []TurnInv
<1>1. IInv /\ TurnInv /\ TakeTurns /\ [Next]_vars => TurnInv'
  BY TurnNext
<1>2. QED
  BY <1>1, TurnInit, Invariance, PTL DEF Spec

\* As long as the handlers of one topology take turns, no fault, crash or deletion of a
\* topology makes deploy_topology record two resources for one step of a plan, whatever it
\* hydrates from and whatever is under way for other topologies.
THEOREM NoSecondResource == Spec /\ []TakeTurns => []NoDuplicates
<1>1. TurnInv => NoDuplicates
  BY DEF TurnInv, RowsApart, NoDuplicates
<1>2. QED
  BY <1>1, TurnInvariance, PTL

\* As long as the handlers of one topology take turns, what run_cleanup_janitor deletes is in
\* no deploymentresource row, however old the entries are that it has read.
THEOREM JanitorInTurn == Spec /\ []TakeTurns => JanitorSparesRecorded
<1>1. ASSUME TurnInv, NEW r \in Requests, NEW x \in req[r].todo, req[r].pc = "sweep"
      PROVE  ~Recorded(x)
  BY <1>1 DEF TurnInv, Informed, RowsApart, Recorded, RowsOf, WithoutRows, MadeFor
<1>2. TurnInv /\ [Next]_vars =>
        [\A r \in Requests, x \in cloud :
           req[r].pc = "sweep" /\ x \in req[r].todo /\ x \notin cloud' => ~Recorded(x)]_vars
  BY <1>1
<1>3. QED
  BY <1>2, TurnInvariance, PTL DEF Spec, JanitorSparesRecorded

\* As long as the handlers of one topology take turns, cleanup_topology_deployment and
\* delete_topology delete rows of their own topology only, although SQLite gives the ids of
\* deleted rows again, to other topologies too.
THEOREM CleanupInTurn == Spec /\ []TakeTurns => CleanupKeepsOthers
<1>1. ASSUME IInv, TurnInv, Next, NEW r \in Requests, NEW w \in rows,
             req[r].pc \in {"drop", "delete"}, req'[r] # req[r], w \notin rows'
      PROVE  w.topo = req[r].topo
  <2>1. Step(r)
    <3>1. rows' # rows
      BY <1>1
    <3>2. PICK q \in Requests : Step(q)
      BY <1>1, <3>1 DEF Next, Rest, vars, Arrive, BeginDeploy, BeginScenario, BeginDelete,
         BeginJanitor, Begin, CreateTopology, Crash
    <3>3. q = r
      BY <1>1, <3>2, StepIsLocal DEF Becomes, IInv
    <3>4. QED
      BY <3>2, <3>3
  <2>2. OnlyAbout(req[r].topo)
    BY <1>1, <2>1, StepIsLocal
  <2>3. w.topo \in Topologies
    BY <1>1 DEF IInv, StoresInv, Row
  <2>4. QED
    BY <1>1, <2>2, <2>3 DEF OnlyAbout, RowsOf
<1>2. IInv /\ TurnInv /\ [Next]_vars =>
        [\A r \in Requests, w \in rows :
           req[r].pc \in {"drop", "delete"} /\ req'[r] # req[r] /\ w \notin rows'
              => w.topo = req[r].topo]_vars
  BY <1>1
<1>3. QED
  BY <1>2, TurnInvariance, Invariance, PTL DEF Spec, CleanupKeepsOthers

\* A server that serves one request at a time meets the three hypotheses by itself.
LEMMA OneThreadTakesTurns == OneThread => TakeTurns /\ JanitorAlone /\ UpdatesApart
  BY DEF OneThread, TakeTurns, JanitorAlone, UpdatesApart

-----------------------------------------------------------------------------
(* Updates of state.json that do not overlap *)

\* Whoever saves state.json has loaded it, and lets go of what it has loaded.
LEMMA SaveLetsGo ==
  ASSUME IInv, [Next]_vars, snapshot' # snapshot
  PROVE  \E r \in Requests : (\E h : Becomes(r, h)) /\ req[r].file # {} /\ req'[r].file = {}
<1>1. PICK r \in Requests : WriteSnapshot(r) \/ RecordFailed(r) \/ ForgetEntry(r) \/ JanitorStrike(r)
  <2>1. PICK r \in Requests : Step(r)
    BY DEF Next, Rest, vars, Arrive, BeginDeploy, BeginScenario, BeginDelete, BeginJanitor, Begin,
       CreateTopology, Crash
  <2>2. ~(ScenarioStep(r) \/ DeleteTopology(r) \/ LoadState(r))
    BY DEF ScenarioStep, DeleteTopology, LoadState
  <2>3. DeployStep(r) => WriteSnapshot(r) \/ RecordFailed(r)
    BY DEF DeployStep, ListRows, ReadSnapshot, InsertRows, Relist, FinishIdempotent, Create,
       CreateRefused, CreateUnanswered, RecordRow, Activate, CollectRows, MarkFailed, ListFailed
  <2>4. CleanupStep(r) => ForgetEntry(r)
    BY DEF CleanupStep, CleanupList, DeleteOne, DeleteFails, DropRows, ResetStatus
  <2>5. JanitorStep(r) => JanitorStrike(r)
    BY DEF JanitorStep, JanitorScan, JanitorMark, EndJanitor
  <2>6. QED
    BY <2>1, <2>2, <2>3, <2>4, <2>5 DEF Step
<1>2. req[r].file # {}
  BY <1>1 DEF WriteSnapshot, RecordFailed, ForgetEntry, JanitorStrike, WriteEntry
<1>3. (\E h : Becomes(r, h)) /\ req'[r].file = {}
  <2>1. CASE \E k : Becomes(r, Ended(r, k)) \/ CleanupEnds(r, k)
    BY <2>1, EndsFile DEF FileLocal
  <2>2. CASE ~(\E k : Becomes(r, Ended(r, k)) \/ CleanupEnds(r, k))
    <3>1. \E h : Becomes(r, [h EXCEPT !.file = {}]) /\ h \in Handler
      <4>1. req[r] \in Handler
        BY Acting
      <4>2. CASE JanitorStrike(r)
        <5>1. \E pc \in PCs : Becomes(r, [req[r] EXCEPT !.pc = pc, !.file = {}])
          BY <4>2 DEF JanitorStrike, PCs
        <5>2. PICK pc \in PCs : Becomes(r, [req[r] EXCEPT !.pc = pc, !.file = {}])
          BY <5>1
        <5>3. [req[r] EXCEPT !.pc = pc] \in Handler
          BY <4>1 DEF Handler
        <5>4. [req[r] EXCEPT !.pc = pc, !.file = {}] = [[req[r] EXCEPT !.pc = pc] EXCEPT !.file = {}]
          BY <4>1 DEF Handler
        <5>5. QED
          BY <5>2, <5>3, <5>4
      <4>3. CASE RecordFailed(r)
        <5>1. Becomes(r, [req[r] EXCEPT !.pc = "cleanup", !.nested = TRUE, !.file = {}])
          BY <2>2, <4>3 DEF RecordFailed
        <5>2. [req[r] EXCEPT !.pc = "cleanup", !.nested = TRUE] \in Handler
          BY <4>1 DEF Handler, PCs
        <5>3. [req[r] EXCEPT !.pc = "cleanup", !.nested = TRUE, !.file = {}]
                = [[req[r] EXCEPT !.pc = "cleanup", !.nested = TRUE] EXCEPT !.file = {}]
          BY <4>1 DEF Handler
        <5>4. QED
          BY <5>1, <5>2, <5>3
      <4>4. QED
        BY <1>1, <2>2, <4>2, <4>3 DEF WriteSnapshot, ForgetEntry
    <3>2. PICK h \in Handler : Becomes(r, [h EXCEPT !.file = {}])
      BY <3>1
    <3>3. req'[r] = [h EXCEPT !.file = {}]
      BY <3>2 DEF Becomes, IInv
    <3>4. QED
      BY <3>2, <3>3 DEF Handler
  <2>3. QED
    BY <2>1, <2>2
<1>4. QED
  BY <1>2, <1>3

LEMMA FilesStayCurrent ==
  ASSUME IInv, FilesCurrent, UpdatesApart, [Next]_vars
  PROVE  FilesCurrent'
<1> SUFFICES ASSUME NEW q \in Requests, NEW f \in req'[q].file
             PROVE  f = snapshot'
  BY DEF FilesCurrent
<1>1. f = snapshot
  BY FilesStep DEF FilesCurrent
<1>2. CASE snapshot' # snapshot
  <2>1. PICK r \in Requests :
          (\E h : Becomes(r, h)) /\ req[r].file # {} /\ req'[r].file = {}
    BY <1>2, SaveLetsGo
  <2>2. q # r
    BY <2>1
  <2>3. req'[q].file = req[q].file
    BY <2>1, <2>2 DEF Becomes, IInv
  <2>4. QED
    BY <2>1, <2>2, <2>3 DEF UpdatesApart
<1>3. QED
  BY <1>1, <1>2

-----------------------------------------------------------------------------
(* Agreement: steps that leave the stores alone *)

LEMMA SameStores ==
  ASSUME UNCHANGED <<status, rows, snapshot, cloud>>
  PROVE  /\ \A u : /\ Settled(u)' <=> Settled(u)
                   /\ RowsOf(u)' = RowsOf(u) /\ Recs(u)' = Recs(u)
                   /\ ActiveResources(u)' = ActiveResources(u)
         /\ \A S : (Closed(S)' <=> Closed(S)) /\ (Whole(S)' <=> Whole(S))
<1>1. /\ \A u : /\ RowsOf(u)' = RowsOf(u) /\ Recs(u)' = Recs(u)
                /\ ActiveResources(u)' = ActiveResources(u)
      /\ \A S : (Closed(S)' <=> Closed(S)) /\ (Whole(S)' <=> Whole(S))
  BY DEF RowsOf, Recs, ActiveResources, Closed, Whole
<1>2. \A u : Settled(u)' <=> Settled(u)
  BY <1>1 DEF Settled
<1>3. QED
  BY <1>1, <1>2


\* What the invariant says of a handler.
LEMMA Agreeing ==
  ASSUME IInv, TurnInv, AgreeInv, NEW r \in Requests
  PROVE  /\ CloudInv /\ Progress(req[r])
         /\ AtWork(req[r]) /\ ~Busy(req[r]) => Settled(req[r].topo)
         /\ req[r].pc # "record" => req[r].held = {}
<1>1. Progress(req[r])
  BY DEF AgreeInv
<1>2. AtWork(req[r]) /\ ~Busy(req[r]) => Settled(req[r].topo)
  BY <1>1 DEF Progress, Busy
<1>3. QED
  BY <1>1, <1>2 DEF AgreeInv, IInv, HandlerInv

\* u is settled, or r is to blame.
Calm(r, u) == Settled(u) \/ (Busy(req[r]) /\ req[r].topo = u)

\* What a step of the handler on r keeps by itself.
Agreed(r) ==
    /\ CloudInv'
    /\ Progress(req[r])'
    /\ \A u \in Topologies : Calm(r, u) => Calm(r, u)'

SparesOthers(t) == \A u \in Topologies : u # t /\ Settled(u) => Settled(u)'

LEMMA QuietAgree ==
  ASSUME IInv, TurnInv, AgreeInv, NEW r \in Requests,
         UNCHANGED <<status, rows, snapshot, cloud, nextId>>,
         Progress(req[r])',
         Busy(req[r]) => Busy(req[r])' /\ req'[r].topo = req[r].topo
  PROVE  Agreed(r)
<1>1. CloudInv'
  BY DEF AgreeInv, CloudInv
<1>2. \A u \in Topologies : Settled(u)' <=> Settled(u)
  BY SameStores
<1>3. QED
  BY <1>1, <1>2 DEF Agreed, Calm

LEMMA ListRowsAgree ==
  ASSUME IInv, TurnInv, AgreeInv, NEW r \in Requests, ListRows(r)
  PROVE  Agreed(r)
<1>1. LET h == req'[r] IN
      /\ h.topo = req[r].topo /\ h.listed = RowsOf(req[r].topo)
      /\ h.pc = IF RowsOf(req[r].topo) # {} THEN "finish" ELSE "hydrate"
  <2>1. Becomes(r, [req[r] EXCEPT !.pc = IF HasRows(req[r].topo) THEN "finish" ELSE "hydrate",
                                  !.seen = Loaded(r),
                                  !.gen = gen[req[r].topo],
                                  !.listed = RowsOf(req[r].topo)])
    BY Present DEF ListRows, JanitorPCs
  <2>2. QED
    BY <2>1, Acting, Present DEF Becomes, HasRows, IInv, Handler
<1>2. req[r].pc = "list" /\ UNCHANGED <<status, rows, snapshot, cloud, nextId>>
  BY DEF ListRows, env
<1>3. Settled(req[r].topo) /\ ~Busy(req[r])
  BY <1>2, Agreeing DEF AtWork, Busy, Between, Building, Removing
<1>4. Progress(req[r])'
  BY <1>1, <1>2, <1>3, SameStores DEF Progress, Between, Building, Removing, JanitorPCs
<1>5. QED
  BY <1>2, <1>3, <1>4, QuietAgree

LEMMA ReadSnapshotAgree ==
  ASSUME IInv, TurnInv, AgreeInv, NEW r \in Requests, ReadSnapshot(r)
  PROVE  Agreed(r)
<1> DEFINE t == req[r].topo
<1>1. LET h == req'[r] IN
      /\ h.topo = t /\ h.todo = ActiveResources(t)
      /\ h.pc = IF ActiveResources(t) = {} THEN "relist" ELSE "insert"
  BY Acting, Present DEF ReadSnapshot, Becomes, IInv, Handler
<1>2. req[r].pc = "hydrate" /\ UNCHANGED <<status, rows, snapshot, cloud, nextId>>
  BY DEF ReadSnapshot, env
<1>3. Settled(req[r].topo) /\ ~Busy(req[r])
  BY <1>2, Agreeing DEF AtWork, Busy, Between, Building, Removing
<1>4. Progress(req[r])'
  BY <1>1, <1>2, <1>3, SameStores DEF Progress, Between, Building, Removing, JanitorPCs
<1>5. QED
  BY <1>2, <1>3, <1>4, QuietAgree

LEMMA ClosedNothing == Closed({})
  BY DEF Closed

LEMMA NoMore == ASSUME NEW S PROVE S \cup {} = S
  OBVIOUS

LEMMA RelistAgree ==
  ASSUME IInv, TurnInv, AgreeInv, NEW r \in Requests, Relist(r)
  PROVE  Agreed(r)
<1> DEFINE t == req[r].topo
<1>1. LET h == req'[r] IN
      /\ h.topo = t /\ h.held = {} /\ h.step = 1
      /\ h.pc = IF RowsOf(t) # {} THEN "finish" ELSE "create"
  <2>1. req[r].held = {} /\ req[r].step = 1
    BY Agreeing, Present DEF Relist, Informed, Unbegun
  <2>2. QED
    BY <2>1, Acting, Present DEF Relist, Becomes, HasRows, IInv, Handler
<1>2. req[r].pc = "relist" /\ UNCHANGED <<status, rows, snapshot, cloud, nextId>>
  BY DEF Relist, env
<1>3. Settled(req[r].topo) /\ ~Busy(req[r])
  BY <1>2, Agreeing DEF AtWork, Busy, Between, Building, Removing
<1>4. RowsOf(t) = {} => ActiveResources(t) = {} /\ Recs(t) = {}
  <2>1. RowsOf(t) = {} => ActiveResources(t) = {}
    <3>1. Progress(req[r])
      BY Agreeing
    <3>2. QED
      BY <1>2, <3>1 DEF Progress
  <2>2. RowsOf(t) = {} => Recs(t) = {}
    BY DEF Recs, ResourcesOf
  <2>3. QED
    BY <2>1, <2>2
<1>5. Progress(req[r])'
  BY <1>1, <1>2, <1>3, <1>4, ClosedNothing, SameStores
  DEF Progress, Passed, Between, Building, Removing, JanitorPCs
<1>6. QED
  BY <1>2, <1>3, <1>5, QuietAgree

LEMMA CreateRefusedAgree ==
  ASSUME IInv, TurnInv, AgreeInv, NEW r \in Requests, CreateRefused(r)
  PROVE  Agreed(r)
<1>1. LET h == req'[r] IN
      /\ h.topo = req[r].topo /\ h.held = {} /\ h.step = req[r].step /\ h.made = req[r].made
      /\ h.pc \in {"create", "fail"}
  <2>1. req[r].held = {}
    BY Agreeing DEF CreateRefused
  <2>2. \/ Becomes(r, [req[r] EXCEPT !.tries = @ + 1])
        \/ Becomes(r, [req[r] EXCEPT !.pc = "fail"])
    BY DEF CreateRefused, RetryOrFail
  <2>3. req[r].pc = "create" /\ req[r] \in Handler
    BY Acting DEF CreateRefused
  <2>4. req'[r] = [req[r] EXCEPT !.tries = @ + 1] \/ req'[r] = [req[r] EXCEPT !.pc = "fail"]
    BY <2>2, Present DEF Becomes, IInv
  <2>5. QED
    BY <2>1, <2>3, <2>4 DEF Handler
<1>2. req[r].pc = "create" /\ UNCHANGED <<status, rows, snapshot, cloud, nextId>>
  BY DEF CreateRefused, Fault, env
<1>3. LET t == req[r].topo IN
      /\ ActiveResources(t) = {} /\ Recs(t) \subseteq cloud /\ Closed(Recs(t)) /\ Passed(req[r])
  <2>1. Progress(req[r]) /\ req[r].held = {}
    BY <1>2, Agreeing
  <2>2. QED
    BY <1>2, <2>1, NoMore DEF Progress, Building
<1>4. Passed(req[r])'
  BY <1>1, <1>2, <1>3 DEF Passed, RowsOf
<1>5. Progress(req[r])'
  BY <1>1, <1>2, <1>3, <1>4, NoMore, SameStores
  DEF Progress, Between, Building, Removing, JanitorPCs
<1>6. QED
  BY <1>1, <1>2, <1>3, <1>5, QuietAgree DEF Busy, Between, Building

LEMMA CollectRowsAgree ==
  ASSUME IInv, TurnInv, AgreeInv, NEW r \in Requests, CollectRows(r)
  PROVE  Agreed(r)
<1>1. LET h == req'[r] IN
      /\ h.topo = req[r].topo /\ h.held = req[r].held /\ h.pc = "snapshot" /\ h.seen = req[r].seen
  BY Acting, Present DEF CollectRows, Becomes, IInv, Handler
<1>2. req[r].pc = "collect" /\ UNCHANGED <<status, rows, snapshot, cloud, nextId>>
  BY DEF CollectRows, env
<1>3. LET t == req[r].topo IN
      /\ Recs(t) \subseteq cloud /\ Closed(Recs(t)) /\ req[r].held = {}
      /\ Whole(Recs(t)) /\ status[t] = "ACTIVE" /\ req[r].seen = "ACTIVE"
  <2>1. Progress(req[r]) /\ req[r].held = {}
    BY <1>2, Agreeing
  <2>2. QED
    BY <1>2, <2>1, NoMore DEF Progress, Building
<1>4. Progress(req[r])'
  BY <1>1, <1>2, <1>3, NoMore, SameStores DEF Progress, Between, Building, Removing, JanitorPCs
<1>5. QED
  BY <1>1, <1>2, <1>3, <1>4, QuietAgree DEF Busy, Between

LEMMA ListFailedAgree ==
  ASSUME IInv, TurnInv, AgreeInv, NEW r \in Requests, ListFailed(r)
  PROVE  Agreed(r)
<1>1. /\ req[r].pc = "listFailed" /\ UNCHANGED <<status, rows, snapshot, cloud, nextId>>
      /\ Becomes(r, [req[r] EXCEPT !.pc = "recordFailed", !.listed = RowsOf(req[r].topo),
                                   !.seen = Loaded(r)])
  BY Present DEF ListFailed, JanitorPCs, env
<1>2. LET h == req'[r] IN
      h.topo = req[r].topo /\ h.held = req[r].held /\ h.pc = "recordFailed"
  BY <1>1, Acting, Present DEF Becomes, IInv, Handler
<1>3. LET t == req[r].topo IN
      /\ ActiveResources(t) = {} /\ Recs(t) \subseteq cloud /\ Closed(Recs(t))
      /\ req[r].held = {} /\ status[t] = "FAILED"
  <2>1. Progress(req[r]) /\ req[r].held = {}
    BY <1>1, Agreeing
  <2>2. QED
    BY <1>1, <2>1, NoMore DEF Progress, Building
<1>4. Progress(req[r])'
  BY <1>1, <1>2, <1>3, NoMore, SameStores DEF Progress, Between, Building, Removing, JanitorPCs
<1>5. QED
  BY <1>1, <1>2, <1>4, QuietAgree DEF Busy, Between, Building

LEMMA LoadStateAgree ==
  ASSUME IInv, TurnInv, AgreeInv, NEW r \in Requests, LoadState(r)
  PROVE  Agreed(r)
<1> DEFINE t == req[r].topo
<1>1. /\ req[r].pc \in Saving /\ UNCHANGED <<status, rows, snapshot, cloud, nextId>>
      /\ Becomes(r, [req[r] EXCEPT !.file = {snapshot}, !.seen = Loaded(r)])
  BY DEF LoadState, env
<1>2. LET h == req'[r] IN
      /\ h.topo = t /\ h.held = req[r].held /\ h.pc = req[r].pc /\ h.todo = req[r].todo
      /\ h.failed = req[r].failed /\ h.entries = req[r].entries /\ h.seen = Loaded(r)
  BY <1>1, Acting, Present DEF Becomes, IInv, Handler
<1>3. Progress(req[r]) /\ req[r].held = {}
  BY <1>1, Agreeing DEF Saving
<1>4. /\ \A u : RowsOf(u)' = RowsOf(u) /\ Recs(u)' = Recs(u) /\ ActiveResources(u)' = ActiveResources(u)
      /\ \A S : (Closed(S)' <=> Closed(S)) /\ (Whole(S)' <=> Whole(S))
  BY <1>1, SameStores
<1>5. CASE req[r].pc \in {"snapshot", "recordFailed"}
  <2>1. /\ Recs(t) \subseteq cloud /\ Closed(Recs(t))
        /\ req[r].pc = "snapshot" => Whole(Recs(t)) /\ status[t] = "ACTIVE"
        /\ req[r].pc = "recordFailed" => ActiveResources(t) = {} /\ status[t] = "FAILED"
    BY <1>3, <1>5, NoMore DEF Progress, Building
  <2>2. Loaded(r) = status[t]
    BY <1>5, Present DEF JanitorPCs
  <2>3. QED
    <3>1. Progress(req[r])'
      BY <1>1, <1>2, <1>3, <1>4, <1>5, <2>1, <2>2, NoMore
      DEF Progress, Between, Building, Removing, JanitorPCs
    <3>2. QED
      BY <1>1, <1>2, <1>5, <3>1, QuietAgree DEF Busy
<1>6. CASE req[r].pc \in {"forget", "strike"}
  <2>1. Progress(req[r])'
    BY <1>1, <1>2, <1>3, <1>4, <1>6 DEF Progress, Between, Building, Removing, JanitorPCs
  <2>2. QED
    BY <1>1, <1>2, <2>1, QuietAgree DEF Busy
<1>7. QED
  BY <1>1, <1>5, <1>6 DEF Saving

LEMMA CleanupListAgree ==
  ASSUME IInv, TurnInv, AgreeInv, NEW r \in Requests, CleanupList(r)
  PROVE  Agreed(r)
<1> DEFINE t == req[r].topo
<1>1. LET h == req'[r] IN
      /\ h.topo = t /\ h.todo = Recs(t) /\ ~h.failed
      /\ h.pc = IF RowsOf(t) = {} THEN "reset" ELSE "teardown"
  <2>1. Becomes(r, [req[r] EXCEPT !.pc = IF RowsOf(t) = {} THEN "reset" ELSE "teardown",
                                  !.listed = RowsOf(t),
                                  !.todo = ResourcesOf(RowsOf(t)),
                                  !.failed = FALSE,
                                  !.seen = Loaded(r)])
    BY Present DEF CleanupList, JanitorPCs
  <2>2. QED
    BY <2>1, Acting, Present DEF Recs, Becomes, IInv, Handler
<1>2. req[r].pc = "cleanup" /\ UNCHANGED <<status, rows, snapshot, cloud, nextId>>
  BY DEF CleanupList, env
<1>3. req[r].held = {} /\ Recs(t) \subseteq cloud /\ Closed(Recs(t))
  <2>1. Progress(req[r]) /\ req[r].held = {}
    BY <1>2, Agreeing
  <2>2. QED
    BY <1>2, <2>1, NoMore DEF Progress, Building
<1>4. RowsOf(t) # {} => Recs(t) # {}
  BY DEF Recs, ResourcesOf
<1>5. Progress(req[r])'
  BY <1>1, <1>2, <1>3, <1>4, SameStores DEF Progress, Between, Building, Removing, JanitorPCs
<1>6. QED
  BY <1>1, <1>2, <1>5, Agreeing, QuietAgree DEF Busy, Between, Removing

LEMMA AllSettled ==
  ASSUME IInv, TurnInv, AgreeInv, NEW r \in Requests, ~Busy(req[r]),
         \A q \in Requests : q # r => req[q].pc = "idle"
  PROVE  \A u \in Topologies : Settled(u)
<1>1. \A q \in Requests : ~Busy(req[q])
  BY DEF Busy, Between, Building, Removing
<1>2. QED
  BY <1>1 DEF AgreeInv

LEMMA JanitorScanAgree ==
  ASSUME IInv, TurnInv, AgreeInv, JanitorAlone, NEW r \in Requests, JanitorScan(r)
  PROVE  Agreed(r)
<1>1. PICK t \in Topologies :
        /\ req[r].entries[t] # {}
        /\ Becomes(r, [req[r] EXCEPT !.entries = Scanned(r, t),
                                     !.topo = t,
                                     !.seen = status[t],
                                     !.pc = IF Backed(t) THEN "scan" ELSE "sweep",
                                     !.todo = IF Backed(t) THEN {} ELSE req[r].entries[t]])
  BY DEF JanitorScan
<1>2. /\ req'[r].pc = IF RowsOf(t) # {} THEN "scan" ELSE "sweep"
      /\ req'[r].topo = t /\ req'[r].todo = IF RowsOf(t) # {} THEN {} ELSE req[r].entries[t]
      /\ req'[r].entries = Scanned(r, t)
  BY <1>1, Acting, Present DEF Becomes, IInv, Handler, Backed
<1>3. req[r].pc = "scan" /\ UNCHANGED <<status, rows, snapshot, cloud, nextId>>
  BY DEF JanitorScan, env
<1>4. \A u \in Topologies : Settled(u)
  BY <1>3, AllSettled DEF JanitorAlone, JanitorPCs, Busy, Between, Building, Removing
<1>5. /\ \A u \in Topologies : Scanned(r, t)[u] # {} => Scanned(r, t)[u] = ActiveResources(u)
      /\ Scanned(r, t)[t] = {} /\ req[r].entries[t] = ActiveResources(t)
  <2>1. Progress(req[r])
    BY Agreeing
  <2>2. \A u \in Topologies : req[r].entries[u] # {} => req[r].entries[u] = ActiveResources(u)
    BY <1>3, <2>1 DEF Progress, JanitorPCs
  <2>3. req[r].entries \in [Topologies -> SUBSET Resource]
    BY Acting, Present DEF Handler
  <2>4. /\ Scanned(r, t)[t] = {}
        /\ \A u \in Topologies : u # t => Scanned(r, t)[u] = req[r].entries[u]
    BY <2>3 DEF Scanned
  <2>5. QED
    BY <1>1, <2>2, <2>4
<1>6. RowsOf(t) = {} => /\ status[t] # "ACTIVE" /\ ActiveResources(t) \subseteq cloud
                        /\ Closed(ActiveResources(t)) /\ ActiveResources(t) # {}
  BY <1>1, <1>4, <1>5 DEF Settled, Whole
<1>7. Progress(req[r])'
  BY <1>1, <1>2, <1>3, <1>4, <1>5, <1>6, SameStores DEF Progress, Between, Building, Removing, JanitorPCs
<1>8. QED
  BY <1>3, <1>7, QuietAgree DEF Busy, Between, Building, Removing

\* A handler that is Idle, or a scenario that goes on, claims nothing of a topology in progress.
LEMMA RestingAgree ==
  ASSUME NEW r, req'[r].pc \in {"idle", "next", "wrapup", "list", "delete"},
         req'[r].pc = "idle" \/ Settled(req[r].topo)'
  PROVE  Progress(req[r])'
  BY DEF Progress, AtWork, Between, Building, Removing, JanitorPCs

\* Whether t is settled does not depend on who is at work on it.
LEMMA MovedSettled ==
  ASSUME NEW r, NEW t, req'[r].topo = t, Settled(t)'
  PROVE  Settled(req[r].topo)'
  BY DEF Settled, RowsOf, ActiveResources, Recs, ResourcesOf, Whole, Closed

LEMMA BeginAgree ==
  ASSUME IInv, TurnInv, AgreeInv, TakeTurns', JanitorAlone', NEW r \in Requests, Arrive(r)
  PROVE  Agreed(r)
<1>1. UNCHANGED <<status, rows, snapshot, cloud, nextId>> /\ req[r].pc = "idle"
  BY DEF Arrive, BeginDeploy, BeginScenario, BeginDelete, BeginJanitor, Begin
<1>2. \A q \in Requests : q # r => req'[q] = req[q]
  <2>1. \E h : Becomes(r, h)
    BY DEF Arrive, BeginDeploy, BeginScenario, BeginDelete, BeginJanitor, Begin
  <2>2. QED
    BY <2>1 DEF Becomes, IInv
<1>3. Idle.topo \in Topologies
  BY IdleIsHandler DEF Handler
<1>4. ASSUME NEW t \in Topologies, BeginDeploy(r, t) \/ BeginScenario(r, t) \/ BeginDelete(r, t)
      PROVE  Progress(req[r])'
  <2>1. req'[r].topo = t /\ req'[r].pc \in {"list", "next", "delete"}
    <3>1. CASE BeginDeploy(r, t)
      BY <3>1, Present DEF BeginDeploy, Becomes, Idle, IInv
    <3>2. CASE BeginScenario(r, t)
      BY <3>2, Present DEF BeginScenario, Becomes, Idle, IInv
    <3>3. CASE BeginDelete(r, t)
      BY <3>3, Present DEF BeginDelete, Becomes, Idle, IInv
    <3>4. QED
      BY <1>4, <3>1, <3>2, <3>3
  <2>2. Settled(t)
    <3>1. ASSUME NEW q \in Requests, Busy(req[q]), req[q].topo = t
          PROVE  FALSE
      <4>1. q # r
        BY <1>1, <3>1 DEF Busy, Between, Building, Removing
      <4>2. AtWork(req'[q]) /\ AtWork(req'[r]) /\ req'[q].topo = req'[r].topo
        BY <1>2, <2>1, <3>1, <4>1 DEF AtWork, Busy, Between, Building, Removing
      <4>3. QED
        BY <4>1, <4>2 DEF TakeTurns
    <3>2. QED
      BY <3>1 DEF AgreeInv
  <2>3. Settled(req[r].topo)'
    <3>1. Settled(t)'
      BY <1>1, <2>2, SameStores
    <3>2. QED
      BY <2>1, <3>1, MovedSettled
  <2>4. QED
    BY <2>1, <2>3, RestingAgree
<1>5. ASSUME BeginJanitor(r)
      PROVE  Progress(req[r])'
  <2>1. req'[r].topo \in Topologies /\ req'[r].pc = "scan"
        /\ req'[r].entries = [t \in Topologies |-> ActiveResources(t)]
    BY <1>3, <1>5, Present DEF BeginJanitor, Becomes, Idle, IInv
  <2>2. QED
    BY <1>1, <2>1, SameStores DEF Progress, AtWork, Between, Building, Removing, JanitorPCs
<1>6. QED
  BY <1>1, <1>4, <1>5, QuietAgree DEF Arrive, Busy, Between, Building, Removing

LEMMA ScenarioStepAgree ==
  ASSUME IInv, TurnInv, AgreeInv, NEW r \in Requests, ScenarioStep(r)
  PROVE  Agreed(r)
<1> DEFINE t == req[r].topo
<1>1. /\ req[r].pc \in {"next", "wrapup"} /\ UNCHANGED <<status, rows, snapshot, cloud, nextId>>
      /\ \/ \E pc \in {"list", "cleanup"} : Becomes(r, [req[r] EXCEPT !.pc = pc])
         \/ Becomes(r, [req[r] EXCEPT !.pc = "cleanup", !.op = "final", !.seen = "EXPIRED"])
         \/ Becomes(r, Idle)
  BY DEF ScenarioStep
<1>2. Settled(t) /\ ~Busy(req[r]) /\ \A u : Settled(u)' <=> Settled(u)
  BY <1>1, Agreeing, SameStores DEF AtWork, Busy, Between, Building, Removing
<1>3. \/ req'[r].pc \in {"list", "cleanup"} /\ req'[r].topo = t /\ req'[r].held = {}
      \/ req'[r] = Idle
  <2>1. req[r].held = {}
    BY <1>1, Agreeing
  <2>2. CASE \E pc \in {"list", "cleanup"} : Becomes(r, [req[r] EXCEPT !.pc = pc])
    BY <2>1, <2>2, Acting, Present DEF Becomes, IInv, Handler
  <2>3. CASE Becomes(r, [req[r] EXCEPT !.pc = "cleanup", !.op = "final", !.seen = "EXPIRED"])
    BY <2>1, <2>3, Acting, Present DEF Becomes, IInv, Handler
  <2>4. CASE Becomes(r, Idle)
    BY <2>4, Present DEF Becomes, IInv
  <2>5. QED
    BY <1>1, <2>2, <2>3, <2>4
<1>4. Recs(t) \subseteq cloud /\ Closed(Recs(t)) /\ t \in Topologies
  <2>1. Settled(t) /\ t \in Topologies
    BY <1>2, Acting, Present
  <2>2. CASE RowsOf(t) = {}
    BY <2>1, <2>2, ClosedNothing DEF Recs, ResourcesOf
  <2>3. CASE RowsOf(t) # {}
    <3>1. Recs(t) # {} /\ Recs(t) = ActiveResources(t)
      BY <2>1, <2>3 DEF Settled, Recs, ResourcesOf
    <3>2. QED
      BY <2>1, <3>1 DEF Settled, Whole
  <2>4. QED
    BY <2>1, <2>2, <2>3
<1>5. Progress(req[r])'
  <2>1. CASE req'[r] = Idle
    BY <2>1, IdleFields, RestingAgree
  <2>2. CASE req'[r].pc = "list" /\ req'[r].topo = t
    <3>1. Settled(req[r].topo)'
      BY <1>2, <2>2, MovedSettled
    <3>2. QED
      BY <2>2, <3>1, RestingAgree
  <2>3. CASE req'[r].pc = "cleanup" /\ req'[r].topo = t /\ req'[r].held = {}
    BY <1>1, <1>4, <2>3, SameStores DEF Progress, Between, Building, Removing, JanitorPCs
  <2>4. QED
    BY <1>3, <2>1, <2>2, <2>3
<1>6. QED
  BY <1>1, <1>2, <1>5, QuietAgree

LEMMA EndJanitorAgree ==
  ASSUME IInv, TurnInv, AgreeInv, NEW r \in Requests, EndJanitor(r)
  PROVE  Agreed(r)
<1>1. UNCHANGED <<status, rows, snapshot, cloud, nextId>> /\ req[r].pc = "scan" /\ req'[r] = Idle
  BY Present DEF EndJanitor, Becomes, IInv, env
<1>2. Progress(req[r])'
  BY <1>1, IdleFields, RestingAgree
<1>3. QED
  BY <1>1, <1>2, QuietAgree DEF Busy, Between, Building, Removing

-----------------------------------------------------------------------------
(* Agreement: steps that change a store *)

\* The next state agrees when r spares the topologies it is not at work on, and is as far as
\* it says with its own, or leaves it settled.
LEMMA AgreeStep ==
  ASSUME NEW r \in Requests, CloudInv', Progress(req[r])', SparesOthers(req[r].topo),
         \A u \in Topologies :
           u = req[r].topo => Settled(u)' \/ (req'[r].topo = u /\ AtWork(req'[r]))
  PROVE  Agreed(r)
<1>1. ASSUME NEW u \in Topologies, Calm(r, u)
      PROVE  Calm(r, u)'
  <2>1. CASE u # req[r].topo
    BY <1>1, <2>1 DEF Calm, SparesOthers
  <2>2. CASE u = req[r].topo /\ ~Settled(u)'
    <3>1. req'[r].topo = u /\ AtWork(req'[r])
      BY <2>2
    <3>2. Settled(req[r].topo)' => Settled(u)'
      BY <3>1 DEF Settled, RowsOf, ActiveResources, Recs, ResourcesOf, Whole, Closed
    <3>3. req'[r].pc \in Between
      BY <2>2, <3>1, <3>2 DEF Progress, AtWork
    <3>4. QED
      BY <3>1, <3>3 DEF Calm, Busy
  <2>3. QED
    BY <2>1, <2>2 DEF Calm
<1>2. QED
  BY <1>1 DEF Agreed

\* What happens to the stores of one topology leaves another settled: nothing of it goes,
\* and nothing new is attached to it.
LEMMA StaysSettled ==
  ASSUME TurnInv, NEW u \in Topologies, Settled(u),
         status'[u] = status[u], RowsOf(u)' = RowsOf(u), snapshot'[u] = snapshot[u],
         \A x \in cloud \ cloud' : x.topo # u,
         \A x \in ActiveResources(u), y \in cloud' \ cloud : y.net # x.id
  PROVE  Settled(u)'
<1>1. ActiveResources(u)' = ActiveResources(u) /\ Recs(u)' = Recs(u)
  BY DEF ActiveResources, Recs
<1>2. \A x \in ActiveResources(u) : x.topo = u
  BY DEF TurnInv, EntriesApart, MadeFor, ActiveResources
<1>3. ActiveResources(u) \subseteq cloud => ActiveResources(u) \subseteq cloud'
  BY <1>2
<1>4. Closed(ActiveResources(u)) => Closed(ActiveResources(u))'
  BY <1>1 DEF Closed
<1>5. Whole(ActiveResources(u)) => Whole(ActiveResources(u))'
  BY <1>1, <1>3 DEF Whole
<1>6. QED
  BY <1>1, <1>4, <1>5 DEF Settled

LEMMA OthersSettled ==
  ASSUME IInv, TurnInv, AgreeInv, NEW r \in Requests, NEW t, t = req[r].topo,
         \A u \in Topologies \ {t} :
           status'[u] = status[u] /\ RowsOf(u)' = RowsOf(u) /\ snapshot'[u] = snapshot[u],
         cloud' \subseteq cloud,
         \A x \in cloud \ cloud' : x.topo = t
  PROVE  SparesOthers(t)
  BY StaysSettled DEF SparesOthers

\* The status of the handler's topology is written, or its rows, or its entry in state.json.
LEMMA OwnStores ==
  ASSUME IInv, TurnInv, AgreeInv, NEW r \in Requests, NEW t, t = req[r].topo,
         UNCHANGED <<cloud, nextId>>,
         \A u \in Topologies \ {t} :
           status'[u] = status[u] /\ RowsOf(u)' = RowsOf(u) /\ snapshot'[u] = snapshot[u]
  PROVE  /\ CloudInv'
         /\ SparesOthers(t)
         /\ \A S : (Closed(S)' <=> Closed(S)) /\ (Whole(S)' <=> Whole(S))
<1>1. CloudInv'
  BY DEF AgreeInv, CloudInv
<1>2. \A S : (Closed(S)' <=> Closed(S)) /\ (Whole(S)' <=> Whole(S))
  BY DEF Closed, Whole
<1>3. QED
  BY <1>1, <1>2, OthersSettled

\* Status s is committed, and nothing else.
LEMMA CommitAgree ==
  ASSUME IInv, TurnInv, AgreeInv, NEW r \in Requests, req[r].pc \notin JanitorPCs \cup {"idle"},
         NEW s \in Statuses, status' = Committed(r, s), UNCHANGED <<rows, snapshot, cloud, nextId>>
  PROVE  LET t == req[r].topo IN
         /\ status'[t] = s
         /\ CloudInv' /\ SparesOthers(t)
         /\ \A u : RowsOf(u)' = RowsOf(u) /\ Recs(u)' = Recs(u) /\ ActiveResources(u)' = ActiveResources(u)
         /\ \A S : (Closed(S)' <=> Closed(S)) /\ (Whole(S)' <=> Whole(S))
<1> DEFINE t == req[r].topo
<1>1. status'[t] = s /\ \A u \in Topologies \ {t} : status'[u] = status[u]
  BY CommittedInTurn
<1>2. \A u : RowsOf(u)' = RowsOf(u) /\ Recs(u)' = Recs(u) /\ ActiveResources(u)' = ActiveResources(u)
  BY DEF RowsOf, Recs, ActiveResources
<1>3. /\ CloudInv' /\ SparesOthers(t)
      /\ \A S : (Closed(S)' <=> Closed(S)) /\ (Whole(S)' <=> Whole(S))
  <2>1. \A u \in Topologies \ {t} :
          status'[u] = status[u] /\ RowsOf(u)' = RowsOf(u) /\ snapshot'[u] = snapshot[u]
    BY <1>1, <1>2
  <2> HIDE DEF t
  <2>2. t = req[r].topo
    BY DEF t
  <2>3. QED
    BY <2>1, <2>2, OwnStores
<1>4. QED
  BY <1>1, <1>2, <1>3

LEMMA ActivateAgree ==
  ASSUME IInv, TurnInv, AgreeInv, NEW r \in Requests, Activate(r)
  PROVE  Agreed(r)
<1> DEFINE t == req[r].topo
<1>1. /\ req[r].pc = "activate" /\ status' = Committed(r, "ACTIVE") /\ "ACTIVE" \in Statuses
      /\ Becomes(r, [req[r] EXCEPT !.pc = "collect", !.seen = status'[t]])
      /\ UNCHANGED <<rows, snapshot, cloud, nextId>>
  BY Present DEF Activate, JanitorPCs, Statuses, env
<1>2. LET h == req'[r] IN
      h.topo = t /\ h.held = {} /\ h.pc = "collect" /\ h.seen = status'[t]
  <2>1. req[r].held = {}
    BY <1>1, Agreeing
  <2>2. QED
    BY <1>1, <2>1, Acting, Present DEF Becomes, IInv, Handler
<1>3. /\ ActiveResources(t) = {} /\ Recs(t) \subseteq cloud /\ Closed(Recs(t))
      /\ Passed(req[r]) /\ req[r].step = Len(Plan) + 1
  <2>1. Progress(req[r]) /\ req[r].held = {}
    BY <1>1, Agreeing
  <2>2. QED
    BY <1>1, <2>1, NoMore DEF Progress, Building
<1>4. Whole(Recs(t))
  <2>1. Len(Plan) \in Nat
    BY PlanAssumption
  <2>2. \A s \in Steps : \E w \in RowsOf(t) : w.res.step = s
    BY <1>3, <2>1 DEF Passed, Steps
  <2>3. QED
    BY <1>3, <2>2 DEF Whole, Recs, ResourcesOf
<1>5. /\ status'[t] = "ACTIVE" /\ CloudInv' /\ SparesOthers(t)
      /\ \A u : RowsOf(u)' = RowsOf(u) /\ Recs(u)' = Recs(u) /\ ActiveResources(u)' = ActiveResources(u)
      /\ \A S : (Closed(S)' <=> Closed(S)) /\ (Whole(S)' <=> Whole(S))
  BY <1>1, CommitAgree DEF JanitorPCs
<1>6. Progress(req[r])'
  BY <1>1, <1>2, <1>3, <1>4, <1>5, NoMore DEF Progress, Between, Building, Removing, JanitorPCs
<1>7. QED
  BY <1>2, <1>5, <1>6, AgreeStep DEF AtWork

LEMMA MarkFailedAgree ==
  ASSUME IInv, TurnInv, AgreeInv, NEW r \in Requests, MarkFailed(r)
  PROVE  Agreed(r)
<1> DEFINE t == req[r].topo
<1>1. /\ req[r].pc = "fail" /\ status' = Committed(r, "FAILED") /\ "FAILED" \in Statuses
      /\ Becomes(r, [req[r] EXCEPT !.pc = "listFailed", !.seen = "EXPIRED"])
      /\ UNCHANGED <<rows, snapshot, cloud, nextId>>
  BY Present DEF MarkFailed, JanitorPCs, Statuses, env
<1>2. LET h == req'[r] IN h.topo = t /\ h.held = {} /\ h.pc = "listFailed"
  <2>1. req[r].held = {}
    BY <1>1, Agreeing
  <2>2. QED
    BY <1>1, <2>1, Acting, Present DEF Becomes, IInv, Handler
<1>3. ActiveResources(t) = {} /\ Recs(t) \subseteq cloud /\ Closed(Recs(t))
  <2>1. Progress(req[r]) /\ req[r].held = {}
    BY <1>1, Agreeing
  <2>2. QED
    BY <1>1, <2>1, NoMore DEF Progress, Building
<1>4. /\ status'[t] = "FAILED" /\ CloudInv' /\ SparesOthers(t)
      /\ \A u : RowsOf(u)' = RowsOf(u) /\ Recs(u)' = Recs(u) /\ ActiveResources(u)' = ActiveResources(u)
      /\ \A S : (Closed(S)' <=> Closed(S)) /\ (Whole(S)' <=> Whole(S))
  BY <1>1, CommitAgree DEF JanitorPCs
<1>5. Progress(req[r])'
  BY <1>1, <1>2, <1>3, <1>4, NoMore DEF Progress, Between, Building, Removing, JanitorPCs
<1>6. QED
  BY <1>2, <1>4, <1>5, AgreeStep DEF AtWork

LEMMA ResetStatusAgree ==
  ASSUME IInv, TurnInv, AgreeInv, NEW r \in Requests, ResetStatus(r)
  PROVE  Agreed(r)
<1> DEFINE t == req[r].topo
<1>1. /\ req[r].pc = "reset" /\ status' = Committed(r, "CREATED") /\ "CREATED" \in Statuses
      /\ \E s : Becomes(r, [req[r] EXCEPT !.pc = "forget", !.seen = s])
      /\ UNCHANGED <<rows, snapshot, cloud, nextId>>
  BY Present DEF ResetStatus, JanitorPCs, Statuses, env
<1>2. LET h == req'[r] IN h.topo = t /\ h.held = {} /\ h.pc = "forget"
  <2>1. req[r].held = {}
    BY <1>1, Agreeing
  <2>2. QED
    BY <1>1, <2>1, Acting, Present DEF Becomes, IInv, Handler
<1>3. status'[t] = "CREATED" /\ CloudInv' /\ SparesOthers(t)
  BY <1>1, CommitAgree DEF JanitorPCs
<1>4. Progress(req[r])'
  BY <1>1, <1>2, <1>3 DEF Progress, Between, Building, Removing, JanitorPCs
<1>5. QED
  BY <1>2, <1>3, <1>4, AgreeStep DEF AtWork

LEMMA FinishIdempotentAgree ==
  ASSUME IInv, TurnInv, AgreeInv, NEW r \in Requests, FinishIdempotent(r)
  PROVE  Agreed(r)
<1> DEFINE t == req[r].topo
           again == {w \in rows : w.id \in IdsOf(req[r].listed)}
<1>1. /\ req[r].pc = "finish" /\ t \in Topologies /\ req[r].listed = RowsOf(t)
      /\ status' = Committed(r, "ACTIVE") /\ "ACTIVE" \in Statuses
      /\ UNCHANGED <<rows, snapshot, cloud, nextId>>
      /\ \/ Becomes(r, [req[r] EXCEPT !.pc = "snapshot", !.listed = again, !.seen = status'[t]])
         \/ IdsOf(again) # IdsOf(req[r].listed)
  BY Acting, Present DEF FinishIdempotent, Informed, WithListed, Statuses, JanitorPCs, env
<1>2. again = RowsOf(t)
  BY <1>1 DEF TurnInv, RowsApart, RowsOf, IdsOf
<1>3. Becomes(r, [req[r] EXCEPT !.pc = "snapshot", !.listed = again, !.seen = status'[t]])
  BY <1>1, <1>2
<1>4. /\ status'[t] = "ACTIVE" /\ CloudInv' /\ SparesOthers(t)
      /\ \A u : RowsOf(u)' = RowsOf(u) /\ Recs(u)' = Recs(u) /\ ActiveResources(u)' = ActiveResources(u)
      /\ \A S : (Closed(S)' <=> Closed(S)) /\ (Whole(S)' <=> Whole(S))
  BY <1>1, CommitAgree DEF JanitorPCs
<1>5. LET h == req'[r] IN h.topo = t /\ h.held = {} /\ h.pc = "snapshot" /\ h.seen = "ACTIVE"
  <2>1. req[r].held = {}
    BY <1>1, Agreeing
  <2>2. QED
    BY <1>3, <1>4, <2>1, Acting, Present DEF Becomes, IInv, Handler
<1>6. Recs(t) \subseteq cloud /\ Closed(Recs(t)) /\ Whole(Recs(t))
  <2>1. Progress(req[r])
    BY Agreeing
  <2>2. RowsOf(t) # {} /\ Settled(t)
    BY <1>1, <2>1 DEF Progress, AtWork, Between, Building, Removing
  <2>3. Recs(t) # {} /\ Recs(t) = ActiveResources(t)
    BY <2>2 DEF Settled, Recs, ResourcesOf
  <2>4. QED
    BY <2>2, <2>3 DEF Settled, Whole
<1>7. /\ status'[t] = "ACTIVE" /\ req'[r].topo = t /\ req'[r].held = {} /\ req'[r].pc = "snapshot"
      /\ req'[r].seen = "ACTIVE" /\ Recs(t)' \subseteq cloud' /\ Closed(Recs(t))' /\ Whole(Recs(t))'
  BY <1>1, <1>4, <1>5, <1>6
<1>8. Progress(req[r])'
  BY <1>7, NoMore DEF Progress, Between, Building, Removing, JanitorPCs
<1>9. QED
  BY <1>4, <1>5, <1>8, AgreeStep DEF AtWork

\* An operation ends with every topology settled.
LEMMA EndedAgree ==
  ASSUME IInv, TurnInv, NEW r \in Requests, NEW result, Becomes(r, Ended(r, result)),
         CloudInv', SparesOthers(req[r].topo), \A u \in Topologies : u = req[r].topo => Settled(u)'
  PROVE  Agreed(r)
<1>1. req'[r] = Ended(r, result) /\ req[r].topo \in Topologies
  BY Acting, Present DEF Becomes, IInv
<1>2. req'[r].pc = "idle" \/ (req'[r].pc \in {"next", "wrapup"} /\ req'[r].topo = req[r].topo)
  <2>1. CASE req'[r] = Idle
    BY <2>1, IdleFields
  <2>2. CASE req'[r] = [Idle EXCEPT !.op = "scenario", !.topo = req[r].topo,
                          !.pc = IF result = "ok" THEN "next" ELSE "wrapup",
                          !.seen = Loaded(r)]
    BY <1>1, <2>2 DEF Idle
  <2>3. QED
    BY <1>1, <2>1, <2>2 DEF Ended
<1>3. Progress(req[r])'
  <2>1. req'[r].pc = "idle" \/ Settled(req[r].topo)'
    BY <1>1, <1>2, MovedSettled
  <2>2. QED
    BY <1>2, <2>1, RestingAgree
<1>4. QED
  BY <1>1, <1>3, AgreeStep

\* An entry of state.json is written, and nothing else.
LEMMA WriteAgree ==
  ASSUME IInv, TurnInv, AgreeInv, Reliable, NEW r \in Requests, NEW entry,
         WriteEntry(r, entry), UNCHANGED <<status, rows, cloud>>
  PROVE  /\ snapshot'[req[r].topo] = entry
         /\ CloudInv' /\ SparesOthers(req[r].topo)
         /\ \A u : RowsOf(u)' = RowsOf(u) /\ Recs(u)' = Recs(u)
         /\ \A u \in Topologies : u = req[r].topo \/ ActiveResources(u)' = ActiveResources(u)
         /\ \A S : (Closed(S)' <=> Closed(S)) /\ (Whole(S)' <=> Whole(S))
<1> DEFINE t == req[r].topo
<1>1. snapshot' = Saved(snapshot, t, entry) /\ UNCHANGED <<status, rows, cloud, nextId>>
  <2>1. PICK f \in req[r].file : snapshot' = Saved(f, t, entry) /\ UNCHANGED env
    BY DEF WriteEntry, Fault, Reliable
  <2>2. f = snapshot
    BY DEF AgreeInv, FilesCurrent
  <2>3. QED
    BY <2>1, <2>2 DEF env
<1>2. t \in Topologies /\ snapshot \in [Topologies -> Entry]
  BY Acting, Present DEF IInv, StoresInv
<1>3. snapshot'[t] = entry /\ \A u \in Topologies \ {t} : snapshot'[u] = snapshot[u]
  BY <1>1, <1>2 DEF Saved
<1>4. \A u : RowsOf(u)' = RowsOf(u) /\ Recs(u)' = Recs(u)
  BY <1>1 DEF RowsOf, Recs
<1>5. \A u \in Topologies : u = t \/ ActiveResources(u)' = ActiveResources(u)
  BY <1>3 DEF ActiveResources
<1>6. /\ CloudInv' /\ SparesOthers(t)
      /\ \A S : (Closed(S)' <=> Closed(S)) /\ (Whole(S)' <=> Whole(S))
  BY <1>1, <1>3, <1>4, OwnStores
<1>7. QED
  BY <1>3, <1>4, <1>5, <1>6

LEMMA WriteSnapshotAgree ==
  ASSUME IInv, TurnInv, AgreeInv, Reliable, NEW r \in Requests, WriteSnapshot(r)
  PROVE  Agreed(r)
<1> DEFINE t == req[r].topo
           entry == [status |-> req[r].seen, resources |-> ResourcesOf(req[r].listed)]
<1>1. /\ req[r].pc = "snapshot" /\ req[r].listed = RowsOf(t) /\ t \in Topologies
      /\ WriteEntry(r, entry) /\ UNCHANGED <<status, rows, cloud>>
      /\ Becomes(r, Ended(r, "ok"))
  BY Acting, Present DEF WriteSnapshot, Informed, WithListed
<1>2. /\ Recs(t) \subseteq cloud /\ Closed(Recs(t))
      /\ Whole(Recs(t)) /\ status[t] = "ACTIVE" /\ req[r].seen = "ACTIVE"
  <2>1. Progress(req[r]) /\ req[r].held = {}
    BY <1>1, Agreeing
  <2>2. QED
    BY <1>1, <2>1, NoMore DEF Progress, Building
<1>3. /\ snapshot'[t] = entry
      /\ CloudInv' /\ SparesOthers(t)
      /\ \A u : RowsOf(u)' = RowsOf(u) /\ Recs(u)' = Recs(u)
      /\ \A S : (Closed(S)' <=> Closed(S)) /\ (Whole(S)' <=> Whole(S))
  BY <1>1, WriteAgree, ZenonT(60)
<1>4. RowsOf(t) # {}
  <2>1. 1 \in Steps
    BY PlanAssumption DEF Steps
  <2>2. QED
    BY <1>2, <2>1 DEF Whole, Recs, ResourcesOf
<1>5. ASSUME NEW u \in Topologies, u = t
      PROVE  Settled(u)'
  <2>1. snapshot'[u].status = "ACTIVE" /\ snapshot'[u].resources = Recs(u)
    BY <1>1, <1>2, <1>3, <1>5 DEF Recs
  <2>2. ActiveResources(u)' = Recs(u)
    BY <2>1 DEF ActiveResources
  <2>3. status'[u] = "ACTIVE" /\ Closed(Recs(u)) /\ Whole(Recs(u)) /\ RowsOf(u) # {}
    BY <1>1, <1>2, <1>4, <1>5
  <2>4. QED
    BY <1>3, <2>2, <2>3 DEF Settled
<1>6. QED
  BY <1>1, <1>3, <1>5, EndedAgree

\* The entry of a topology without rows is removed, or not of a deployment that is ACTIVE.
LEMMA EmptySettled ==
  ASSUME NEW u, status'[u] # "ACTIVE", RowsOf(u)' = {}, snapshot'[u].status # "ACTIVE"
  PROVE  Settled(u)'
<1>1. ActiveResources(u)' = {}
  BY DEF ActiveResources
<1>2. Closed({})'
  BY DEF Closed
<1>3. QED
  BY <1>1, <1>2 DEF Settled

LEMMA RecordFailedAgree ==
  ASSUME IInv, TurnInv, AgreeInv, Reliable, NEW r \in Requests, RecordFailed(r)
  PROVE  Agreed(r)
<1> DEFINE t == req[r].topo
           entry == [status |-> "FAILED", resources |-> ResourcesOf(RowsOf(t))]
<1>1. /\ req[r].pc = "recordFailed" /\ t \in Topologies
      /\ WriteEntry(r, entry) /\ UNCHANGED <<status, rows, cloud>>
      /\ \/ RowsOf(t) = {} /\ Becomes(r, Ended(r, "failed"))
         \/ Becomes(r, [req[r] EXCEPT !.pc = "cleanup", !.nested = TRUE, !.file = {}])
  BY Acting, Present DEF RecordFailed, Informed, WithListed
<1>2. /\ Recs(t) \subseteq cloud /\ Closed(Recs(t)) /\ status[t] = "FAILED" /\ req[r].held = {}
  <2>1. Progress(req[r]) /\ req[r].held = {}
    BY <1>1, Agreeing
  <2>2. QED
    BY <1>1, <2>1, NoMore DEF Progress, Building
<1>3. /\ snapshot'[t] = entry
      /\ CloudInv' /\ SparesOthers(t)
      /\ \A u : RowsOf(u)' = RowsOf(u) /\ Recs(u)' = Recs(u)
      /\ \A S : (Closed(S)' <=> Closed(S)) /\ (Whole(S)' <=> Whole(S))
  <2>1. WriteEntry(r, entry) /\ UNCHANGED <<status, rows, cloud>>
    BY <1>1
  <2> HIDE DEF entry
  <2>2. QED
    BY <2>1, WriteAgree
<1>4. CASE RowsOf(t) = {} /\ Becomes(r, Ended(r, "failed"))
  <2>1. ASSUME NEW u \in Topologies, u = t
        PROVE  Settled(u)'
    BY <1>1, <1>2, <1>3, <1>4, <2>1, EmptySettled
  <2>2. QED
    BY <1>3, <1>4, <2>1, EndedAgree
<1>5. CASE Becomes(r, [req[r] EXCEPT !.pc = "cleanup", !.nested = TRUE, !.file = {}])
  <2>1. LET h == req'[r] IN h.topo = t /\ h.held = {} /\ h.pc = "cleanup"
    BY <1>2, <1>5, Acting, Present DEF Becomes, IInv, Handler
  <2>2. Progress(req[r])'
    BY <1>1, <1>2, <1>3, <2>1, NoMore DEF Progress, Between, Building, Removing, JanitorPCs
  <2>3. QED
    BY <1>3, <2>1, <2>2, AgreeStep DEF AtWork
<1>6. QED
  BY <1>1, <1>4, <1>5

LEMMA ForgetEntryAgree ==
  ASSUME IInv, TurnInv, AgreeInv, Reliable, NEW r \in Requests, ForgetEntry(r)
  PROVE  Agreed(r)
<1> DEFINE t == req[r].topo
<1>1. /\ req[r].pc = "forget" /\ t \in Topologies
      /\ WriteEntry(r, NoEntry) /\ UNCHANGED <<status, rows, cloud>>
      /\ \E result : Becomes(r, Ended(r, result))
  BY Acting, Present DEF ForgetEntry, CleanupEnds, JanitorPCs
<1>2. RowsOf(t) = {} /\ status[t] = "CREATED"
  <2>1. Progress(req[r])
    BY Agreeing
  <2>2. status[t] = "CREATED"
    BY <1>1, <2>1 DEF Progress
  <2>3. QED
    BY <1>1, <2>2, Present DEF Informed, WithoutRows
<1>3. /\ snapshot'[t] = NoEntry
      /\ CloudInv' /\ SparesOthers(t)
      /\ \A u : RowsOf(u)' = RowsOf(u)
  BY <1>1, WriteAgree
<1>4. ASSUME NEW u \in Topologies, u = t
      PROVE  Settled(u)'
  BY <1>1, <1>2, <1>3, <1>4, EmptySettled DEF NoEntry
<1>5. QED
  BY <1>1, <1>3, <1>4, EndedAgree

\* The janitor goes on.
LEMMA ScanningAgree ==
  ASSUME NEW r, req'[r].pc \in {"scan", "mark"}, Settled(req[r].topo)',
         \A u \in Topologies : req'[r].entries[u] # {} => req'[r].entries[u] = ActiveResources(u)'
  PROVE  Progress(req[r])'
  BY DEF Progress, Between, Building, Removing, JanitorPCs

LEMMA JanitorStrikeAgree ==
  ASSUME IInv, TurnInv, AgreeInv, Reliable, NEW r \in Requests, JanitorStrike(r)
  PROVE  Agreed(r)
<1> DEFINE t == req[r].topo
<1>1. /\ req[r].pc = "strike" /\ t \in Topologies
      /\ WriteEntry(r, NoEntry) /\ UNCHANGED <<status, rows, cloud>>
      /\ \E pc \in {"scan", "mark"} : Becomes(r, [req[r] EXCEPT !.pc = pc, !.file = {}])
  BY Acting, Present DEF JanitorStrike, WriteEntry
<1>2. /\ RowsOf(t) = {} /\ status[t] # "ACTIVE" /\ req[r].entries[t] = {}
      /\ \A u \in Topologies : req[r].entries[u] # {} => req[r].entries[u] = ActiveResources(u)
  <2>1. Progress(req[r])
    BY Agreeing
  <2>2. /\ status[t] # "ACTIVE" /\ req[r].entries[t] = {}
        /\ \A u \in Topologies : req[r].entries[u] # {} => req[r].entries[u] = ActiveResources(u)
    BY <1>1, <2>1 DEF Progress, JanitorPCs
  <2>3. QED
    BY <1>1, <2>2, Present DEF Informed, WithoutRows
<1>3. /\ snapshot'[t] = NoEntry
      /\ CloudInv' /\ SparesOthers(t)
      /\ \A u : RowsOf(u)' = RowsOf(u)
      /\ \A u \in Topologies : u = t \/ ActiveResources(u)' = ActiveResources(u)
  BY <1>1, WriteAgree
<1>4. req'[r].pc \in {"scan", "mark"} /\ req'[r].topo = t /\ req'[r].entries = req[r].entries
  BY <1>1, Acting, Present DEF Becomes, IInv, Handler
<1>5. ASSUME NEW u \in Topologies, u = t
      PROVE  Settled(u)'
  BY <1>1, <1>2, <1>3, <1>5, EmptySettled DEF NoEntry
<1>6. \A u \in Topologies : req'[r].entries[u] # {} => req'[r].entries[u] = ActiveResources(u)'
  BY <1>2, <1>3, <1>4
<1>7. Progress(req[r])'
  BY <1>1, <1>4, <1>5, <1>6, ScanningAgree
<1>8. QED
  BY <1>3, <1>5, <1>7, AgreeStep

LEMMA JanitorMarkAgree ==
  ASSUME IInv, TurnInv, AgreeInv, NEW r \in Requests, JanitorMark(r)
  PROVE  Agreed(r)
<1> DEFINE t == req[r].topo
<1>1. /\ req[r].pc = "mark" /\ t \in Topologies /\ UNCHANGED <<rows, snapshot, cloud, nextId>>
      /\ status' = status \/ status' = [status EXCEPT ![t] = "CREATED"]
      /\ Becomes(r, [req[r] EXCEPT !.pc = "scan"]) \/ Becomes(r, Idle)
  BY Acting, Present DEF JanitorMark, Committed, env
<1>2. /\ RowsOf(t) = {} /\ Settled(t)
      /\ \A u \in Topologies : req[r].entries[u] # {} => req[r].entries[u] = ActiveResources(u)
  <2>1. Progress(req[r])
    BY Agreeing
  <2>2. /\ Settled(t)
        /\ \A u \in Topologies : req[r].entries[u] # {} => req[r].entries[u] = ActiveResources(u)
    BY <1>1, <2>1 DEF Progress, AtWork, JanitorPCs, Between, Building, Removing
  <2>3. QED
    BY <1>1, <2>2, Present DEF Informed, WithoutRows
<1>3. /\ status'[t] \in {status[t], "CREATED"} /\ \A u \in Topologies \ {t} : status'[u] = status[u]
  BY <1>1 DEF IInv, StoresInv
<1>4. /\ \A u : RowsOf(u)' = RowsOf(u) /\ Recs(u)' = Recs(u) /\ ActiveResources(u)' = ActiveResources(u)
      /\ UNCHANGED snapshot
  BY <1>1 DEF RowsOf, Recs, ActiveResources
<1>5. /\ CloudInv' /\ SparesOthers(t)
      /\ \A S : (Closed(S)' <=> Closed(S)) /\ (Whole(S)' <=> Whole(S))
  BY <1>1, <1>3, <1>4, OwnStores
<1>6. ASSUME NEW u \in Topologies, u = t
      PROVE  Settled(u)'
  <2>1. status'[u] # "ACTIVE"
    BY <1>2, <1>3, <1>6 DEF Settled
  <2>2. RowsOf(u) = {} /\ Settled(u)
    BY <1>2, <1>6
  <2>3. QED
    BY <1>4, <1>5, <2>1, <2>2 DEF Settled
<1>7. Progress(req[r])'
  <2>1. CASE Becomes(r, [req[r] EXCEPT !.pc = "scan"])
    <3>1. req'[r].pc = "scan" /\ req'[r].topo = t /\ req'[r].entries = req[r].entries
      BY <2>1, Acting, Present DEF Becomes, IInv, Handler
    <3>2. \A u \in Topologies : req'[r].entries[u] # {} => req'[r].entries[u] = ActiveResources(u)'
      BY <1>2, <1>4, <3>1
    <3>3. QED
      BY <1>1, <1>6, <3>1, <3>2, ScanningAgree
  <2>2. CASE Becomes(r, Idle)
    <3>1. req'[r].pc = "idle"
      BY <2>2, IdleFields, Present DEF Becomes, IInv
    <3>2. QED
      BY <3>1, RestingAgree
  <2>3. QED
    BY <1>1, <2>1, <2>2
<1>8. QED
  BY <1>5, <1>6, <1>7, AgreeStep

-----------------------------------------------------------------------------
(* Agreement: the create loop *)

\* A step that is attached to a network is attached to one that an earlier step has made.
LEMMA AttachedTo ==
  ASSUME IInv, NEW r \in Requests, req[r].pc = "create", Passed(req[r])
  PROVE  \/ NewResource(r).net = 0
         \/ \E w \in RowsOf(req[r].topo) : NewResource(r).net = w.res.id
<1> DEFINE q == req[r]
           s == Plan[q.step].net
<1>1. q.step \in 1..Len(Plan) /\ Len(Plan) \in Nat
  BY Acting, PlanAssumption DEF HandlerInv, Steps
<1>2. s = 0 \/ s \in 1..(q.step - 1)
  BY <1>1, PlanAssumption DEF Steps
<1>3. NewResource(r).net = IF s = 0 THEN 0 ELSE q.made[s]
  BY DEF NewResource
<1>4. s \in 1..(q.step - 1) => \E w \in RowsOf(q.topo) : w.res.id = q.made[s]
  BY DEF Passed
<1> HIDE DEF q, s
<1>5. CASE s = 0
  BY <1>3, <1>5
<1>6. CASE s \in 1..(q.step - 1)
  BY <1>1, <1>3, <1>4, <1>6 DEF q
<1>7. QED
  BY <1>2, <1>5, <1>6

\* What is created is attached to nothing of another topology.
LEMMA AttachedToOwn ==
  ASSUME IInv, TurnInv, AgreeInv, NEW r \in Requests, req[r].pc = "create", NEW y \in cloud,
         y.topo # req[r].topo
  PROVE  NewResource(r).net # y.id
<1> DEFINE t == req[r].topo
<1>1. Progress(req[r]) /\ CloudInv
  BY Agreeing
<1>2. Recs(t) \subseteq cloud /\ Passed(req[r])
  BY <1>1 DEF Progress, Building
<1>3. \A z \in Recs(t) : z.topo = t
  BY DEF TurnInv, RowsApart, Recs, ResourcesOf, RowsOf
<1>4. NewResource(r).net = 0 \/ \E z \in Recs(t) : NewResource(r).net = z.id
  BY <1>2, AttachedTo DEF Recs, ResourcesOf
<1>5. y.id # 0
  BY DEF IInv, StoresInv, Resource
<1>6. \A z \in Recs(t) : z.id # y.id
  BY <1>1, <1>2, <1>3 DEF CloudInv
<1>7. QED
  BY <1>4, <1>5, <1>6

LEMMA CreateAgree ==
  ASSUME IInv, TurnInv, AgreeInv, NEW r \in Requests, Create(r)
  PROVE  Agreed(r)
<1> DEFINE t == req[r].topo
           x == NewResource(r)
<1>1. /\ req[r].pc = "create" /\ t \in Topologies /\ cloud' = cloud \cup {x} /\ nextId' = nextId + 1
      /\ UNCHANGED <<status, rows, snapshot>>
      /\ Becomes(r, [req[r] EXCEPT !.pc = "record", !.held = {x}, !.tries = 0])
  BY Acting, Present DEF Create
<1>2. LET h == req'[r] IN
      /\ h.topo = t /\ h.held = {x} /\ h.pc = "record" /\ h.step = req[r].step /\ h.made = req[r].made
  BY <1>1, Acting, Present DEF Becomes, IInv, Handler
<1>3. /\ ActiveResources(t) = {} /\ Recs(t) \subseteq cloud /\ Closed(Recs(t)) /\ Passed(req[r])
      /\ CloudInv
  <2>1. Progress(req[r]) /\ req[r].held = {} /\ CloudInv
    BY <1>1, Agreeing
  <2>2. QED
    BY <1>1, <2>1, NoMore DEF Progress, Building
<1>4. x \in Resource /\ x.id = nextId /\ nextId \in Nat \ {0} /\ cloud \subseteq Resource
  BY <1>1, NewResourceFacts, Present DEF IInv, StoresInv
<1>5. x.net = 0 \/ \E y \in Recs(t) : x.net = y.id
  BY <1>1, <1>3, AttachedTo, Present DEF Recs, ResourcesOf
<1>6. x.net < nextId
  BY <1>3, <1>4, <1>5 DEF CloudInv
<1> HIDE DEF x
<1>7. CloudInv'
  <2>1. \A y \in cloud : y.id < nextId /\ y.net < nextId /\ y.id \in Nat /\ y.net \in Nat
    BY <1>3, <1>4 DEF CloudInv, Resource
  <2>2. \A y \in cloud' : y.id < nextId' /\ y.net < nextId'
    BY <1>1, <1>4, <1>6, <2>1 DEF Resource
  <2>3. \A y, z \in cloud' : y.id = z.id => y = z
    BY <1>1, <1>3, <1>4, <2>1 DEF CloudInv
  <2>4. QED
    BY <2>2, <2>3 DEF CloudInv
<1>8. ASSUME NEW u \in Topologies, u # t, Settled(u)
      PROVE  Settled(u)'
  <2>1. Settled(u)
    BY <1>8
  <2>2. RowsOf(u)' = RowsOf(u)
    BY <1>1 DEF RowsOf
  <2>3. \A y \in ActiveResources(u) : y.topo = u /\ y \in cloud
    BY <2>1 DEF Settled, Whole, TurnInv, EntriesApart, MadeFor, ActiveResources
  <2>5. \A y \in ActiveResources(u) : x.net # y.id
    BY <1>1, <1>8, <2>3, AttachedToOwn DEF x
  <2>6. QED
    BY <1>1, <2>1, <2>2, <2>5, StaysSettled
<1>9. Closed(Recs(t) \cup req[r].held)'
  <2>1. ASSUME NEW y \in Recs(t) \cup {x}, NEW z \in cloud', KindOf(y) = "network", z.net = y.id
        PROVE  z \in Recs(t) \cup {x}
    <3>1. CASE z = x
      BY <3>1
    <3>2. CASE z \in cloud
      <4>1. y # x
        BY <1>3, <1>4, <2>1, <3>2 DEF CloudInv
      <4>2. QED
        BY <1>3, <2>1, <3>2, <4>1 DEF Closed
    <3>3. QED
      BY <1>1, <3>1, <3>2
  <2>2. Recs(t)' = Recs(t)
    BY <1>1, <1>2 DEF Recs, RowsOf
  <2>3. Recs(t)' \cup req'[r].held = Recs(t) \cup {x}
    BY <1>2, <2>2
  <2>4. QED
    BY <2>1, <2>3 DEF Closed, KindOf
<1>10. /\ Recs(t)' = Recs(t) /\ ActiveResources(t)' = ActiveResources(t)
       /\ Passed(req[r])'
  BY <1>1, <1>2, <1>3 DEF Recs, RowsOf, ActiveResources, Passed
<1>11. Recs(t)' \subseteq cloud' /\ req'[r].held \subseteq cloud' /\ ActiveResources(t)' = {}
  BY <1>1, <1>2, <1>3, <1>10
<1>12. Progress(req[r])'
  BY <1>1, <1>2, <1>9, <1>10, <1>11 DEF Progress, Between, Building, Removing, JanitorPCs
<1>13. QED
  BY <1>1, <1>2, <1>7, <1>8, <1>12, AgreeStep DEF SparesOthers, AtWork
LEMMA RecordRowAgree ==
  ASSUME IInv, TurnInv, AgreeInv, NEW r \in Requests, RecordRow(r)
  PROVE  Agreed(r)
<1> DEFINE q == req[r]
           t == req[r].topo
<1>1. /\ q.pc = "record" /\ t \in Topologies /\ UNCHANGED <<status, snapshot, cloud, nextId>>
      /\ \E top \in Tops :
           IsTop(top) /\ rows' = rows \cup {[id |-> top + 1, topo |-> t, res |-> x] : x \in q.held}
      /\ \E x \in q.held :
           Becomes(r, [q EXCEPT !.pc = IF q.step = Len(Plan) THEN "activate" ELSE "create",
                                !.step = q.step + 1,
                                !.made = [@ EXCEPT ![q.step] = x.id],
                                !.held = {},
                                !.seen = "EXPIRED"])
  BY Acting, Present DEF RecordRow, JanitorPCs, env
<1>2. PICK top \in Tops : rows' = rows \cup {[id |-> top + 1, topo |-> t, res |-> x] : x \in q.held}
  BY <1>1
<1>3. PICK y \in q.held :
        Becomes(r, [q EXCEPT !.pc = IF q.step = Len(Plan) THEN "activate" ELSE "create",
                             !.step = q.step + 1,
                             !.made = [@ EXCEPT ![q.step] = y.id],
                             !.held = {},
                             !.seen = "EXPIRED"])
  BY <1>1
<1>4. q.held = {y} /\ y.step = q.step /\ q.step \in Steps
  BY <1>1, Present, Acting DEF Informed, HandlerInv
<1>5. LET h == req'[r] IN
      /\ h.topo = t /\ h.held = {} /\ h.step = q.step + 1
      /\ h.made[q.step] = y.id /\ \A s \in Steps : s # q.step => h.made[s] = q.made[s]
      /\ h.pc = IF q.step = Len(Plan) THEN "activate" ELSE "create"
  BY <1>3, <1>4, Acting, Present DEF Becomes, IInv, Handler
<1>6. /\ ActiveResources(t) = {} /\ Recs(t) \cup {y} \subseteq cloud /\ Closed(Recs(t) \cup {y})
      /\ Passed(q) /\ CloudInv
  <2>1. Progress(req[r]) /\ CloudInv
    BY <1>1, Agreeing
  <2>2. QED
    BY <1>1, <1>4, <2>1 DEF Progress, Building
<1> DEFINE new == [id |-> top + 1, topo |-> t, res |-> y]
<1>7. new.topo = t /\ new.res = y /\ rows' = rows \cup {new}
  BY <1>2, <1>4
<1> HIDE DEF new
<1>8. /\ RowsOf(t)' = RowsOf(t) \cup {new}
      /\ \A u \in Topologies : u # t => RowsOf(u)' = RowsOf(u)
  BY <1>5, <1>7 DEF RowsOf
<1>9. Recs(t)' = Recs(t) \cup {y} /\ ActiveResources(t)' = {}
  BY <1>1, <1>5, <1>6, <1>7, <1>8 DEF Recs, ResourcesOf, ActiveResources
<1>10. /\ CloudInv' /\ SparesOthers(t)
       /\ \A S : (Closed(S)' <=> Closed(S))
  BY <1>1, <1>8, OwnStores
<1>11. Passed(req[r])'
  <2>1. q.step \in Nat /\ 1..q.step \subseteq Steps
    BY <1>4, PlanAssumption DEF Steps
  <2>2. ASSUME NEW s \in 1..q.step
        PROVE  \E w \in RowsOf(t)' : w.res.step = s /\ w.res.id = req'[r].made[s]
    <3>1. CASE s = q.step
      BY <1>4, <1>5, <1>7, <1>8, <3>1
    <3>2. CASE s # q.step
      <4>1. s \in 1..(q.step - 1) /\ req'[r].made[s] = q.made[s]
        BY <1>5, <2>1, <3>2
      <4>2. QED
        BY <1>6, <1>8, <4>1 DEF Passed
    <3>3. QED
      BY <3>1, <3>2
  <2>3. \A s \in 1..(req'[r].step - 1) : s \in 1..q.step
    BY <1>5, <2>1
  <2>4. QED
    BY <2>2, <2>3 DEF Passed
<1>12. q.step = Len(Plan) => req'[r].step = Len(Plan) + 1
  BY <1>5
<1>13. Closed(Recs(t) \cup req[r].held)' /\ Recs(t)' \subseteq cloud'
  BY <1>1, <1>5, <1>6, <1>9, <1>10, NoMore
<1>14. Progress(req[r])'
  BY <1>5, <1>9, <1>11, <1>12, <1>13 DEF Progress, Between, Building, Removing, JanitorPCs
<1>15. QED
  BY <1>5, <1>10, <1>14, AgreeStep DEF AtWork

LEMMA InsertRowsAgree ==
  ASSUME IInv, TurnInv, AgreeInv, NEW r \in Requests, InsertRows(r)
  PROVE  Agreed(r)
<1> DEFINE t == req[r].topo
           S == req[r].todo
<1>1. /\ req[r].pc = "insert" /\ t \in Topologies /\ UNCHANGED <<snapshot, cloud, nextId>>
      /\ "ACTIVE" \in Statuses /\ status' = Committed(r, "ACTIVE")
      /\ Becomes(r, [req[r] EXCEPT !.pc = "relist", !.todo = {}, !.seen = status'[t]])
      /\ \E top \in Tops : IsTop(top) /\ rows' = rows \cup Inserted(S, t, top)
  BY Acting, Present DEF InsertRows, Statuses, JanitorPCs, env
<1>2. PICK top \in Tops : IsTop(top) /\ rows' = rows \cup Inserted(S, t, top)
  BY <1>1
<1>3. S \in SUBSET Resource /\ IsFiniteSet(S) /\ Distinct(S) /\ RowsOf(t) = {} /\ req[r].held = {}
  BY <1>1, Acting, Present DEF HandlerOK, Handler, HandlerInv, Informed, WithoutRows
<1>4. status'[t] = "ACTIVE" /\ \A u \in Topologies \ {t} : status'[u] = status[u]
  BY <1>1, CommittedInTurn DEF JanitorPCs
<1>5. S = ActiveResources(t) /\ S # {} /\ Settled(t)
  <2>1. Progress(req[r])
    BY Agreeing
  <2>2. QED
    BY <1>1, <2>1 DEF Progress, AtWork, Between, Building, Removing
<1> DEFINE new == Inserted(S, t, top)
<1>6. (\A w \in new : w.res \in S /\ w.topo = t) /\ (\A x \in S : \E w \in new : w.res = x)
  BY <1>2, <1>3, InsertedApart
<1>7. rows' = rows \cup new
  BY <1>2
<1>8. req'[r].topo = t /\ req'[r].pc = "relist" /\ req'[r].held = {}
  BY <1>1, <1>3, Acting, Present DEF Becomes, IInv, Handler
<1> HIDE DEF new
<1>9. \A u \in Topologies : RowsOf(u)' = IF u = t THEN new ELSE RowsOf(u)
  BY <1>3, <1>6, <1>7 DEF RowsOf
<1>10. /\ CloudInv' /\ SparesOthers(t)
       /\ \A T : (Closed(T)' <=> Closed(T)) /\ (Whole(T)' <=> Whole(T))
  BY <1>1, <1>4, <1>9, OwnStores
<1>11. ResourcesOf(new) = S
  BY <1>6 DEF ResourcesOf
<1>12. ASSUME NEW u \in Topologies, u = t
       PROVE  Settled(u)' /\ RowsOf(u)' # {}
  <2>1. RowsOf(u)' = new /\ Recs(u)' = S /\ new # {}
    BY <1>5, <1>6, <1>9, <1>11, <1>12 DEF Recs
  <2>2. ActiveResources(u)' = S
    BY <1>1, <1>5, <1>12 DEF ActiveResources
  <2>3. status'[u] = "ACTIVE" /\ Whole(S) /\ Closed(S)
    BY <1>4, <1>5, <1>12 DEF Settled
  <2>4. QED
    BY <1>10, <2>1, <2>2, <2>3 DEF Settled
<1>13. Settled(req[r].topo)' /\ RowsOf(req[r].topo)' # {}
  BY <1>1, <1>8, <1>12
<1>14. Progress(req[r])'
  BY <1>8, <1>13 DEF Progress, Between, Building, Removing, JanitorPCs
<1>15. QED
  BY <1>8, <1>10, <1>14, AgreeStep DEF AtWork

LEMMA DropRowsAgree ==
  ASSUME IInv, TurnInv, AgreeInv, NEW r \in Requests, DropRows(r)
  PROVE  Agreed(r)
<1> DEFINE t == req[r].topo
<1>1. /\ req[r].pc = "drop" /\ UNCHANGED <<status, snapshot, cloud, nextId>> /\ rows' = rows \ RowsOf(t)
      /\ Becomes(r, [req[r] EXCEPT !.pc = "reset", !.seen = "EXPIRED"])
  BY DroppedRows, Present DEF DropRows, Informed, WithListed, env
<1>2. req'[r].topo = t /\ req'[r].pc = "reset" /\ req'[r].held = {}
  <2>1. req[r].held = {}
    BY <1>1, Agreeing
  <2>2. QED
    BY <1>1, <2>1, Acting, Present DEF Becomes, IInv, Handler
<1>3. \A u \in Topologies : u # t => RowsOf(u)' = RowsOf(u)
  BY <1>1 DEF RowsOf
<1>4. CloudInv' /\ SparesOthers(t)
  BY <1>1, <1>3, OwnStores
<1>5. Progress(req[r])'
  BY <1>2 DEF Progress, Between, Building, Removing, JanitorPCs
<1>6. QED
  BY <1>2, <1>4, <1>5, AgreeStep DEF AtWork

LEMMA DeleteTopologyAgree ==
  ASSUME IInv, TurnInv, AgreeInv, NEW r \in Requests, DeleteTopology(r)
  PROVE  Agreed(r)
<1> DEFINE t == req[r].topo
<1>1. /\ req[r].pc = "delete" /\ t \in Topologies /\ UNCHANGED <<snapshot, cloud, nextId>>
      /\ rows' = rows \ RowsOf(t)
      /\ status' = [status EXCEPT ![t] = "ABSENT"] /\ req'[r] = Idle
  BY DroppedRows, Acting, Present DEF DeleteTopology, Informed, WithListed, Becomes, IInv, env
<1>2. status'[t] = "ABSENT" /\ \A u \in Topologies \ {t} : status'[u] = status[u]
  BY <1>1 DEF IInv, StoresInv
<1>3. \A u \in Topologies : RowsOf(u)' = IF u = t THEN {} ELSE RowsOf(u)
  BY <1>1 DEF RowsOf
<1>4. /\ CloudInv' /\ SparesOthers(t)
      /\ \A S : (Closed(S)' <=> Closed(S)) /\ (Whole(S)' <=> Whole(S))
  BY <1>1, <1>2, <1>3, OwnStores
<1>5. Settled(t)
  BY <1>1, Agreeing DEF AtWork, Busy, Between, Building, Removing
<1>6. ASSUME NEW u \in Topologies, u = t
      PROVE  Settled(u)'
  <2>1. ActiveResources(u)' = ActiveResources(u) /\ status'[u] # "ACTIVE" /\ RowsOf(u)' = {} /\ Settled(u)
    BY <1>1, <1>2, <1>3, <1>5, <1>6 DEF ActiveResources
  <2>2. QED
    BY <1>4, <2>1 DEF Settled
<1>7. Progress(req[r])'
  BY <1>1, IdleFields, RestingAgree
<1>8. QED
  BY <1>4, <1>6, <1>7, AgreeStep

\* A handler that stays where it is claims no more and no less, when the stores of its topology
\* are as they are, nothing made for it comes or goes, and nothing new is attached to it.
LEMMA StaysProgress ==
  ASSUME IInv, TurnInv, NEW q \in Requests, req'[q] = req[q], req[q].pc \notin JanitorPCs,
         Progress(req[q]), NEW t, t = req[q].topo,
         status'[t] = status[t], RowsOf(t)' = RowsOf(t), snapshot'[t] = snapshot[t],
         \A x \in cloud \ cloud' : x.topo # t,
         \A y \in cloud' \ cloud : y.topo # t,
         \A y \in cloud' \ cloud, x \in cloud : x.topo = t => y.net # x.id
  PROVE  Progress(req[q])'
<1> DEFINE h == req[q]
<1>1. Informed(h) /\ t \in Topologies
  BY Acting, Present
<1>2. /\ Recs(t)' = Recs(t) /\ ActiveResources(t)' = ActiveResources(t)
      /\ RowsOf(req[q].topo)' = RowsOf(t)
      /\ Passed(req[q])' <=> Passed(req[q])
  <2>1. Recs(t)' = Recs(t) /\ ActiveResources(t)' = ActiveResources(t)
    BY DEF Recs, ActiveResources
  <2>2. RowsOf(req[q].topo)' = RowsOf(t)
    BY DEF RowsOf
  <2>3. Passed(req[q])' <=> Passed(req[q])
    BY <2>2 DEF Passed
  <2>4. QED
    BY <2>1, <2>2, <2>3
<1>3. /\ MadeFor(t, Recs(t)) /\ MadeFor(t, ActiveResources(t)) /\ MadeFor(t, h.held)
      /\ h.todo \subseteq Recs(t) \/ h.todo \subseteq ActiveResources(t) => MadeFor(t, h.todo)
  BY <1>1 DEF Informed, TurnInv, RowsApart, EntriesApart, MadeFor, Recs, ResourcesOf, RowsOf, ActiveResources
<1>4. ASSUME NEW S, MadeFor(t, S)
      PROVE  /\ S \subseteq cloud => S \subseteq cloud' /\ (Closed(S) => Closed(S)')
             /\ Whole(S) => Whole(S)'
             /\ \A x \in S : x \in cloud' <=> x \in cloud
  <2>1. \A x \in S : x.topo = t
    BY <1>4 DEF MadeFor
  <2>2. \A x \in S : x \in cloud' <=> x \in cloud
    BY <2>1
  <2>3. S \subseteq cloud => (Closed(S) => Closed(S)')
    BY <2>1 DEF Closed, KindOf
  <2>4. Whole(S) => Whole(S)'
    BY <2>2 DEF Whole
  <2>5. QED
    BY <2>2, <2>3, <2>4
<1>5. Settled(t) => Settled(t)'
  <2>1. ActiveResources(t) \subseteq cloud \/ ~Settled(t)
    BY DEF Settled, Whole
  <2>2. QED
    BY <1>2, <1>3, <1>4, <2>1 DEF Settled
<1>6. CASE ~Busy(h)
  <2>1. AtWork(h) => Settled(t)'
    BY <1>5, <1>6 DEF Progress, Busy
  <2>2. AtWork(h) => Settled(req[q].topo)'
    BY <2>1, MovedSettled
  <2>3. RowsOf(req[q].topo)' = RowsOf(t) /\ ActiveResources(req[q].topo)' = ActiveResources(t)
    BY <1>2 DEF RowsOf, ActiveResources
  <2>4. QED
    BY <1>6, <2>2, <2>3 DEF Progress, Busy, Between, Building, Removing, JanitorPCs
<1>7. CASE h.pc \in Building \cup {"snapshot", "cleanup"}
  <2>1. Recs(t) \subseteq cloud /\ h.held \subseteq cloud /\ Closed(Recs(t) \cup h.held)
    BY <1>7 DEF Progress
  <2>2. MadeFor(t, Recs(t) \cup h.held)
    BY <1>3 DEF MadeFor
  <2>3. Recs(t) \subseteq cloud' /\ h.held \subseteq cloud' /\ Closed(Recs(t) \cup h.held)'
    BY <1>2, <1>4, <2>1, <2>2
  <2>4. Whole(Recs(t)) => Whole(Recs(t))'
    BY <1>2, <1>3, <1>4
  <2>5. /\ Recs(req[q].topo)' = Recs(t) /\ ActiveResources(req[q].topo)' = ActiveResources(t)
        /\ Closed(Recs(req[q].topo) \cup req[q].held)' /\ (Whole(Recs(t)) => Whole(Recs(req[q].topo))')
    BY <1>2, <2>3, <2>4 DEF Recs, ActiveResources, RowsOf, Closed, Whole
  <2>6. QED
    BY <1>2, <1>7, <2>3, <2>5 DEF Progress, Between, Building, Removing, JanitorPCs
<1>8. CASE h.pc \in {"teardown", "drop", "reset", "forget"}
  <2>1. h.pc = "teardown" => h.todo \subseteq cloud /\ Closed(h.todo) /\ MadeFor(t, h.todo)
    BY <1>3 DEF Progress
  <2>2. h.pc = "teardown" => h.todo \subseteq cloud' /\ Closed(req[q].todo)'
    BY <1>4, <2>1 DEF Closed
  <2>3. \A x \in Recs(t) : x \in cloud' <=> x \in cloud
    BY <1>3, <1>4
  <2>4. Recs(req[q].topo)' = Recs(t)
    BY <1>2 DEF Recs, RowsOf
  <2>5. QED
    BY <1>8, <2>2, <2>3, <2>4 DEF Progress, Between, Building, Removing, JanitorPCs
<1>9. QED
  BY <1>6, <1>7, <1>8 DEF Busy, Between, Removing, JanitorPCs

LEMMA CreateTopologyAgree ==
  ASSUME IInv, TurnInv, AgreeInv, NEW t \in Topologies, CreateTopology(t)
  PROVE  AgreeInv'
<1>1. ~Exists(t)
  BY DEF CreateTopology, Topologies
<1>2. /\ UNCHANGED <<rows, snapshot, cloud, req, nextId>>
      /\ status'[t] = "CREATED" /\ \A u \in Topologies \ {t} : status'[u] = status[u]
  BY DEF CreateTopology, IInv, StoresInv
<1>3. \A u \in Topologies : /\ status'[u] = "ACTIVE" <=> status[u] = "ACTIVE"
                            /\ Exists(u) => status'[u] = status[u]
  BY <1>1, <1>2 DEF Exists
<1>4. /\ \A u : RowsOf(u)' = RowsOf(u) /\ Recs(u)' = Recs(u) /\ ActiveResources(u)' = ActiveResources(u)
      /\ \A S : (Closed(S)' <=> Closed(S)) /\ (Whole(S)' <=> Whole(S))
  BY <1>2 DEF RowsOf, Recs, ActiveResources, Closed, Whole
<1>5. \A u \in Topologies : Settled(u) => Settled(u)'
  BY <1>3, <1>4 DEF Settled
<1>6. CloudInv'
  BY <1>2 DEF AgreeInv, CloudInv
<1>7. ASSUME NEW r \in Requests
      PROVE  Progress(req[r])'
  <2>1. Progress(req[r]) /\ req[r].topo \in Topologies
    BY Acting, Agreeing
  <2>2. CASE req[r].pc \in JanitorPCs \cup {"idle"}
    <3>1. AtWork(req[r]) /\ req[r].pc \notin Between => Settled(req[r].topo)'
      BY <1>2, <1>5, <2>1 DEF Progress
    <3>2. QED
      BY <1>2, <1>3, <1>4, <2>1, <2>2, <3>1 DEF Progress, Between, Building, Removing, JanitorPCs
  <2>3. CASE req[r].pc \notin JanitorPCs \cup {"idle"}
    <3>1. status'[req[r].topo] = status[req[r].topo]
      BY <1>3, <2>1, <2>3, Present
    <3>2. QED
      BY <1>2, <1>4, <2>1, <2>3, <3>1, StaysProgress
  <2>4. QED
    BY <2>2, <2>3
<1>8. FilesCurrent'
  BY <1>2 DEF AgreeInv, FilesCurrent
<1>9. QED
  BY <1>2, <1>5, <1>6, <1>7, <1>8 DEF AgreeInv, Busy

-----------------------------------------------------------------------------
(* Agreement: a teardown *)

\* What a teardown still has to do, and what it has done.
LEMMA TearingDown ==
  ASSUME IInv, TurnInv, AgreeInv, NEW r \in Requests, req[r].pc \in {"teardown", "sweep"}
  PROVE  LET t == req[r].topo
             S == req[r].todo IN
         /\ S \subseteq cloud /\ Closed(S) /\ S # {} /\ \A x \in S : x.topo = t
         /\ req[r].pc = "teardown" =>
              ~req[r].failed /\ S \subseteq Recs(t) /\ \A x \in Recs(t) : x \in S \/ x \notin cloud
         /\ req[r].pc = "sweep" =>
              /\ status[t] # "ACTIVE" /\ req[r].entries[t] = {} /\ S \subseteq ActiveResources(t)
              /\ \A x \in ActiveResources(t) : x \in S \/ x \notin cloud
              /\ \A u \in Topologies : req[r].entries[u] # {} => req[r].entries[u] = ActiveResources(u)
<1> DEFINE t == req[r].topo
           S == req[r].todo
<1>1. Progress(req[r]) /\ Informed(req[r]) /\ t \in Topologies
  BY Agreeing, Acting, Present
<1>2. S \subseteq cloud /\ Closed(S) /\ S # {}
  BY <1>1 DEF Progress
<1>3. CASE req[r].pc = "teardown"
  <2>1. ~req[r].failed /\ S \subseteq Recs(t) /\ \A x \in Recs(t) : x \in S \/ x \notin cloud
    BY <1>1, <1>3 DEF Progress
  <2>2. \A x \in Recs(t) : x.topo = t
    BY DEF TurnInv, RowsApart, Recs, ResourcesOf, RowsOf
  <2>3. QED
    BY <1>2, <1>3, <2>1, <2>2
<1>4. CASE req[r].pc = "sweep"
  <2>1. /\ status[t] # "ACTIVE" /\ req[r].entries[t] = {} /\ S \subseteq ActiveResources(t)
        /\ \A x \in ActiveResources(t) : x \in S \/ x \notin cloud
        /\ \A u \in Topologies : req[r].entries[u] # {} => req[r].entries[u] = ActiveResources(u)
    BY <1>1, <1>4 DEF Progress, JanitorPCs
  <2>2. \A x \in S : x.topo = t
    BY <1>1, <1>4 DEF Informed, MadeFor
  <2>3. QED
    BY <1>2, <1>4, <2>1, <2>2
<1>5. QED
  BY <1>3, <1>4

LEMMA DeleteOneAgree ==
  ASSUME IInv, TurnInv, AgreeInv, NEW r \in Requests, DeleteOne(r)
  PROVE  Agreed(r)
<1> DEFINE t == req[r].topo
           S == req[r].todo
<1>1. PICK x \in S :
        /\ cloud' = cloud \ {x}
        /\ Becomes(r, [req[r] EXCEPT !.todo = @ \ {x},
                                     !.pc = IF S # {x} THEN @
                                            ELSE IF @ = "teardown" THEN "drop" ELSE "strike"])
  BY DEF DeleteOne
<1>2. req[r].pc \in {"teardown", "sweep"} /\ UNCHANGED <<status, rows, snapshot, nextId>>
  BY DEF DeleteOne, env
<1>3. LET h == req'[r] IN
      /\ h.topo = t /\ h.todo = S \ {x} /\ h.failed = req[r].failed /\ h.entries = req[r].entries
      /\ h.held = req[r].held
      /\ h.pc = IF S # {x} THEN req[r].pc ELSE IF req[r].pc = "teardown" THEN "drop" ELSE "strike"
  BY <1>1, Acting, Present DEF Becomes, IInv, Handler
<1>4. /\ S \subseteq cloud /\ Closed(S) /\ S # {} /\ \A y \in S : y.topo = t
      /\ req[r].pc = "teardown" =>
           ~req[r].failed /\ S \subseteq Recs(t) /\ \A y \in Recs(t) : y \in S \/ y \notin cloud
      /\ req[r].pc = "sweep" =>
           /\ status[t] # "ACTIVE" /\ req[r].entries[t] = {} /\ S \subseteq ActiveResources(t)
           /\ \A y \in ActiveResources(t) : y \in S \/ y \notin cloud
           /\ \A u \in Topologies : req[r].entries[u] # {} => req[r].entries[u] = ActiveResources(u)
  BY <1>2, TearingDown
<1>5. \A u : RowsOf(u)' = RowsOf(u) /\ Recs(u)' = Recs(u) /\ ActiveResources(u)' = ActiveResources(u)
  BY <1>2 DEF RowsOf, Recs, ActiveResources
<1>6. SparesOthers(t)
  <2>1. \A u \in Topologies \ {t} :
          status'[u] = status[u] /\ RowsOf(u)' = RowsOf(u) /\ snapshot'[u] = snapshot[u]
    BY <1>2, <1>5
  <2>2. cloud' \subseteq cloud /\ \A y \in cloud \ cloud' : y.topo = t
    BY <1>1, <1>4
  <2>3. QED
    BY <2>1, <2>2, OthersSettled
<1>7. CloudInv'
  BY <1>1, <1>2 DEF AgreeInv, CloudInv
<1>8. (req[r].todo \subseteq cloud)' /\ Closed(req[r].todo)'
  <2>1. \A y \in S \ {x}, z \in cloud' : KindOf(y) = "network" /\ z.net = y.id => z \in S \ {x}
    BY <1>1, <1>4 DEF Closed
  <2>2. QED
    BY <1>1, <1>3, <1>4, <2>1 DEF Closed, KindOf
<1>9. req'[r].pc \in {"teardown", "sweep"} => req'[r].todo # {}
  BY <1>1, <1>3
<1>10. req[r].pc = "teardown" =>
         ~req'[r].failed /\ req'[r].todo \subseteq Recs(t) /\ \A y \in Recs(t) : y \in req'[r].todo \/ y \notin cloud'
  BY <1>1, <1>3, <1>4
<1>11. req[r].pc = "sweep" =>
         /\ status'[t] # "ACTIVE" /\ req'[r].entries[t] = {} /\ req'[r].todo \subseteq ActiveResources(t)
         /\ \A y \in ActiveResources(t) : y \in req'[r].todo \/ y \notin cloud'
         /\ \A u \in Topologies : req'[r].entries[u] # {} => req'[r].entries[u] = ActiveResources(u)'
  BY <1>1, <1>2, <1>3, <1>4, <1>5
<1>12. req'[r].pc = "strike" => req'[r].todo = {}
  BY <1>1, <1>2, <1>3
<1>13. CASE req[r].pc = "teardown"
  <2>1. req'[r].pc \in {"teardown", "drop"} /\ req'[r].topo = t
    BY <1>3, <1>13
  <2>2. Progress(req[r])'
    BY <1>5, <1>8, <1>9, <1>10, <1>13, <2>1 DEF Progress, Between, Building, Removing, JanitorPCs
  <2>3. QED
    BY <1>6, <1>7, <2>1, <2>2, AgreeStep DEF AtWork
<1>14. CASE req[r].pc = "sweep"
  <2>1. req'[r].pc \in {"sweep", "strike"} /\ req'[r].topo = t
    BY <1>3, <1>14
  <2>2. Progress(req[r])'
    BY <1>5, <1>8, <1>9, <1>11, <1>12, <1>14, <2>1 DEF Progress, Between, Building, Removing, JanitorPCs
  <2>3. QED
    BY <1>6, <1>7, <2>1, <2>2, AgreeStep DEF AtWork
<1>15. QED
  BY <1>2, <1>13, <1>14

\* The provider refuses no delete of a list that is complete: what is attached to a network
\* is on the list and its turn comes first.
LEMMA DeleteFailsAgree ==
  ASSUME IInv, TurnInv, AgreeInv, Reliable, NEW r \in Requests, DeleteFails(r)
  PROVE  FALSE
<1>1. PICK x \in req[r].todo : IsNextDelete(r, x) /\ Blocked(x)
  BY DEF DeleteFails, Fault, Reliable
<1>2. PICK y \in cloud : KindOf(x) = "network" /\ y.net = x.id
  BY <1>1 DEF Blocked
<1>3. req[r].todo \subseteq cloud /\ Closed(req[r].todo)
  BY TearingDown DEF DeleteFails
<1>4. y \in req[r].todo
  BY <1>2, <1>3 DEF Closed
<1>5. KindOf(y) # "network"
  BY <1>2, <1>3 DEF IInv, StoresInv, Resource
<1>6. Tier(x) = 4 /\ Tier(y) \in {0, 1}
  <2>1. KindOf(y) \in Kinds
    BY PlanKinds DEF KindOf, IInv, StoresInv, Resource
  <2>2. QED
    BY <1>2, <1>5, <2>1 DEF Tier, Kinds
<1>7. QED
  BY <1>1, <1>4, <1>6 DEF IsNextDelete

-----------------------------------------------------------------------------
(* Agreement: every step *)

\* What the provider is asked to make and delete for one topology is of that topology, and is
\* attached to nothing of another; so is the entry of state.json that is written.
LEMMA StepIsOwn ==
  ASSUME IInv, TurnInv, AgreeInv, Reliable, NEW r \in Requests, Step(r)
  PROVE  LET t == req[r].topo IN
         /\ \A u \in Topologies : u # t => snapshot'[u] = snapshot[u]
         /\ \A x \in cloud \ cloud' : x.topo = t
         /\ \A y \in cloud' \ cloud : y.topo = t
         /\ \A y \in cloud' \ cloud, x \in cloud : x.topo # t => y.net # x.id
         /\ ~AtWork(req[r]) => UNCHANGED <<snapshot, cloud>>
<1> DEFINE t == req[r].topo
<1>1. CASE UNCHANGED <<snapshot, cloud>>
  BY <1>1
<1>2. ASSUME NEW entry, WriteEntry(r, entry), UNCHANGED cloud, AtWork(req[r])
      PROVE  /\ \A u \in Topologies : u # t => snapshot'[u] = snapshot[u]
             /\ UNCHANGED cloud /\ AtWork(req[r])
  <2>1. \/ UNCHANGED snapshot
        \/ \E f \in req[r].file : snapshot' = Saved(f, t, entry)
    BY <1>2 DEF WriteEntry
  <2>2. \A f \in req[r].file : f = snapshot
    BY DEF AgreeInv, FilesCurrent
  <2>3. UNCHANGED snapshot \/ snapshot' = [snapshot EXCEPT ![t] = entry]
    BY <2>1, <2>2 DEF Saved
  <2>4. QED
    BY <1>2, <2>3, Acting DEF IInv, StoresInv
<1>3. CASE Create(r)
  <2>1. /\ req[r].pc = "create" /\ cloud' = cloud \cup {NewResource(r)} /\ UNCHANGED snapshot
    BY <1>3 DEF Create
  <2>2. NewResource(r).topo = t
    BY DEF NewResource
  <2>3. \A x \in cloud : x.topo # t => NewResource(r).net # x.id
    BY <2>1, AttachedToOwn
  <2>4. QED
    BY <2>1, <2>2, <2>3 DEF AtWork
<1>4. CASE DeleteOne(r)
  <2>1. PICK x \in req[r].todo : cloud' = cloud \ {x}
    BY <1>4 DEF DeleteOne
  <2>2. req[r].pc \in {"teardown", "sweep"} /\ UNCHANGED snapshot
    BY <1>4 DEF DeleteOne
  <2>3. x.topo = t
    BY <2>1, <2>2, TearingDown
  <2>4. QED
    BY <2>1, <2>2, <2>3 DEF AtWork
<1>5. ASSUME WriteSnapshot(r) \/ RecordFailed(r) \/ ForgetEntry(r) \/ JanitorStrike(r)
      PROVE  \/ UNCHANGED <<snapshot, cloud>>
             \/ \E entry : WriteEntry(r, entry) /\ UNCHANGED cloud /\ AtWork(req[r])
  <2>1. CASE WriteSnapshot(r)
    BY <2>1 DEF WriteSnapshot, AtWork
  <2>2. CASE RecordFailed(r)
    BY <2>2 DEF RecordFailed, AtWork
  <2>3. CASE ForgetEntry(r)
    BY <2>3 DEF ForgetEntry, AtWork
  <2>4. CASE JanitorStrike(r)
    BY <2>4 DEF JanitorStrike, WriteEntry, AtWork
  <2>5. QED
    BY <1>5, <2>1, <2>2, <2>3, <2>4
<1>6. CASE DeployStep(r)
  <2>1. ~CreateUnanswered(r)
    BY DEF CreateUnanswered, Reliable
  <2>2. QED
    BY <1>1, <1>2, <1>3, <1>5, <1>6, <2>1 DEF DeployStep, ListRows, ReadSnapshot, InsertRows, Relist,
       FinishIdempotent, CreateRefused, RecordRow, Activate, CollectRows, MarkFailed, ListFailed, Raise
<1>7. CASE CleanupStep(r)
  BY <1>1, <1>2, <1>4, <1>5, <1>7, DeleteFailsAgree
  DEF CleanupStep, CleanupList, DropRows, ResetStatus, Raise
<1>8. CASE ScenarioStep(r) \/ DeleteTopology(r) \/ JanitorStep(r) \/ LoadState(r)
  BY <1>1, <1>2, <1>5, <1>8
  DEF ScenarioStep, DeleteTopology, JanitorStep, JanitorScan, JanitorMark, EndJanitor, LoadState, Raise
<1>9. QED
  BY <1>6, <1>7, <1>8 DEF Step

\* A request that arrives is not idle, and an idle thread takes no step of a handler.
LEMMA StepActs ==
  ASSUME NEW r, Step(r)
  PROVE  req[r].pc # "idle"
  BY DEF Step, ScenarioStep, DeployStep, CleanupStep, DeleteTopology, JanitorStep, ListRows,
     ReadSnapshot, InsertRows, Relist, FinishIdempotent, WriteSnapshot, Create, CreateRefused,
     CreateUnanswered, RecordRow, Activate, CollectRows, MarkFailed, ListFailed, RecordFailed,
     CleanupList, DeleteOne, DeleteFails, DropRows, ResetStatus, ForgetEntry, JanitorScan,
     JanitorStrike, JanitorMark, EndJanitor, LoadState, Saving

LEMMA ArrivalIsBusy ==
  ASSUME IInv, NEW r \in Requests, Arrive(r)
  PROVE  req'[r].pc # "idle"
  BY DEF Arrive, BeginDeploy, BeginScenario, BeginDelete, BeginJanitor, Becomes, Idle, IInv

\* Whoever is at work on another topology finds its stores as they were, and what is made or
\* deleted meanwhile is neither made for that topology nor attached to anything of it.
LEMMA LeavesOthers ==
  ASSUME IInv, TurnInv, AgreeInv, Reliable, TakeTurns, JanitorAlone,
         NEW r \in Requests, Arrive(r) \/ Step(r), NEW q \in Requests, q # r,
         req[q].pc \notin JanitorPCs \cup {"idle"}, NEW t, t = req[q].topo
  PROVE  /\ status'[t] = status[t] /\ RowsOf(t)' = RowsOf(t) /\ snapshot'[t] = snapshot[t]
         /\ \A x \in cloud \ cloud' : x.topo # t
         /\ \A y \in cloud' \ cloud : y.topo # t
         /\ \A y \in cloud' \ cloud, x \in cloud : x.topo = t => y.net # x.id
<1>1. t \in Topologies
  BY Acting
<1>2. CASE Arrive(r)
  <2>1. UNCHANGED <<status, rows, snapshot, cloud>>
    BY <1>2 DEF Arrive, BeginDeploy, BeginScenario, BeginDelete, BeginJanitor, Begin
  <2>2. QED
    BY <2>1 DEF RowsOf
<1>3. CASE Step(r) /\ req[r].topo # t
  BY <1>1, <1>3, StepIsLocal, StepIsOwn DEF OnlyAbout
<1>4. CASE Step(r) /\ req[r].topo = t
  <2>1. ~AtWork(req[r]) /\ req[r].pc = "scan"
    BY <1>4, StepActs DEF TakeTurns, AtWork, JanitorPCs
  <2>2. QED
    BY <2>1 DEF JanitorAlone, JanitorPCs
<1>5. QED
  BY <1>2, <1>3, <1>4

\* The handlers of other topologies are as far as they say whatever r does.
LEMMA OthersProgress ==
  ASSUME IInv, TurnInv, AgreeInv, Reliable, TakeTurns, JanitorAlone, JanitorAlone',
         NEW r \in Requests, Arrive(r) \/ Step(r), NEW q \in Requests, q # r
  PROVE  Progress(req[q])' /\ req'[q] = req[q]
<1>1. req'[q] = req[q]
  <2>1. \E h : Becomes(r, h)
    BY StepIsLocal DEF Arrive, BeginDeploy, BeginScenario, BeginDelete, BeginJanitor, Begin
  <2>2. QED
    BY <2>1 DEF Becomes, IInv
<1>2. Progress(req[q])
  BY Agreeing
<1>3. CASE req[q].pc = "idle"
  BY <1>1, <1>3, RestingAgree
<1>4. CASE req[q].pc \in JanitorPCs
  <2>1. req[r].pc = "idle" /\ req'[r].pc = "idle"
    BY <1>1, <1>4 DEF JanitorAlone
  <2>2. QED
    BY <2>1, StepActs, ArrivalIsBusy
<1>5. CASE req[q].pc \notin JanitorPCs \cup {"idle"}
  <2> SUFFICES ASSUME NEW t, t = req[q].topo
               PROVE  Progress(req[q])'
    BY <1>1
  <2>1. QED
    BY <1>1, <1>2, <1>5, LeavesOthers, StaysProgress
<1>6. QED
  BY <1>1, <1>3, <1>4, <1>5

LEMMA AgreeIdle ==
  ASSUME AgreeInv, UNCHANGED <<status, rows, snapshot, cloud, nextId, req>>
  PROVE  AgreeInv'
<1>1. CloudInv'
  BY DEF AgreeInv, CloudInv
<1>2. \A u \in Topologies : Settled(u) => Settled(u)'
  BY SameStores
<1>3. ASSUME NEW q \in Requests
      PROVE  Progress(req[q])'
  <2>1. Progress(req[q])
    BY DEF AgreeInv
  <2>2. /\ RowsOf(req[q].topo)' = RowsOf(req[q].topo) /\ Recs(req[q].topo)' = Recs(req[q].topo)
        /\ \A u : ActiveResources(u)' = ActiveResources(u)
        /\ ActiveResources(req[q].topo)' = ActiveResources(req[q].topo)
        /\ Passed(req[q])' <=> Passed(req[q])
    BY DEF RowsOf, Recs, ActiveResources, Passed
  <2>3. /\ Closed(Recs(req[q].topo) \cup req[q].held)' <=> Closed(Recs(req[q].topo) \cup req[q].held)
        /\ Closed(req[q].todo)' <=> Closed(req[q].todo)
        /\ Whole(Recs(req[q].topo))' <=> Whole(Recs(req[q].topo))
    BY <2>2 DEF Closed, Whole
  <2>4. Settled(req[q].topo)' <=> Settled(req[q].topo)
    BY <2>2 DEF Settled, Closed, Whole
  <2>5. QED
    BY <2>1, <2>2, <2>3, <2>4 DEF Progress
<1>4. FilesCurrent'
  BY DEF AgreeInv, FilesCurrent
<1>5. QED
  BY <1>1, <1>2, <1>3, <1>4 DEF AgreeInv, Busy

LEMMA AgreeInit ==
  ASSUME Init
  PROVE  AgreeInv
<1>1. CloudInv
  BY DEF Init, CloudInv
<1>2. ASSUME NEW t \in Topologies
      PROVE  Settled(t)
  <2>1. status[t] = "ABSENT" /\ RowsOf(t) = {} /\ ActiveResources(t) = {}
    BY DEF Init, RowsOf, ActiveResources, NoEntry
  <2>2. QED
    BY <2>1, ClosedNothing DEF Settled
<1>3. ASSUME NEW r \in Requests
      PROVE  Progress(req[r])
  <2>1. req[r].pc = "idle" /\ req[r].topo \in Topologies
    BY IdleFields, IdleIsHandler DEF Init, Handler
  <2>2. QED
    BY <1>2, <2>1 DEF Progress, Between, Building, Removing, JanitorPCs
<1>4. FilesCurrent
  BY IdleFields DEF Init, FilesCurrent
<1>5. QED
  BY <1>1, <1>2, <1>3, <1>4 DEF AgreeInv

LEMMA AgreeNext ==
  ASSUME IInv, TurnInv, AgreeInv, TakeTurns, TakeTurns', JanitorAlone, JanitorAlone', UpdatesApart,
         Reliable, [Next]_vars
  PROVE  AgreeInv'
<1>1. ASSUME NEW r \in Requests, Step(r)
      PROVE  Agreed(r)
  <2>1. CASE DeployStep(r)
    <3>1. ~CreateUnanswered(r)
      BY DEF CreateUnanswered, Reliable
    <3>2. QED
      BY <2>1, <3>1, ListRowsAgree, ReadSnapshotAgree, InsertRowsAgree, RelistAgree,
         FinishIdempotentAgree, WriteSnapshotAgree, CreateAgree, CreateRefusedAgree, RecordRowAgree,
         ActivateAgree, CollectRowsAgree, MarkFailedAgree, ListFailedAgree, RecordFailedAgree
      DEF DeployStep
  <2>2. CASE CleanupStep(r)
    BY <2>2, CleanupListAgree, DeleteOneAgree, DeleteFailsAgree, DropRowsAgree, ResetStatusAgree,
       ForgetEntryAgree DEF CleanupStep
  <2>3. CASE JanitorStep(r)
    BY <2>3, JanitorScanAgree, JanitorStrikeAgree, JanitorMarkAgree, EndJanitorAgree DEF JanitorStep
  <2>4. QED
    BY <1>1, <2>1, <2>2, <2>3, ScenarioStepAgree, DeleteTopologyAgree, LoadStateAgree DEF Step
<1>2. ASSUME NEW r \in Requests, Arrive(r) \/ Step(r)
      PROVE  AgreeInv'
  <2>1. Agreed(r)
    BY <1>1, <1>2, BeginAgree
  <2>2. \A q \in Requests : q # r => Progress(req[q])' /\ req'[q] = req[q]
    BY <1>2, OthersProgress
  <2>3. ASSUME NEW u \in Topologies, \A q \in Requests : Busy(req[q])' => req'[q].topo # u
        PROVE  Settled(u)'
    <3>1. Calm(r, u)
      BY <2>2, <2>3 DEF AgreeInv, Calm, Busy
    <3>2. Calm(r, u)'
      BY <2>1, <3>1 DEF Agreed
    <3>3. QED
      BY <2>3, <3>2 DEF Calm
  <2>4. FilesCurrent'
    BY FilesStayCurrent DEF AgreeInv
  <2>5. QED
    BY <2>1, <2>2, <2>3, <2>4 DEF AgreeInv, Agreed
<1>3. ~Crash
  BY DEF Crash, Fault, Reliable
<1>4. ASSUME UNCHANGED vars
      PROVE  AgreeInv'
  BY <1>4, AgreeIdle DEF vars
<1>5. QED
  BY <1>2, <1>3, <1>4, CreateTopologyAgree DEF Next, Rest

LEMMA AgreeInvariance ==
  Reliable => (Spec /\ []TakeTurns /\ []JanitorAlone /\ []UpdatesApart => []AgreeInv)
<1> SUFFICES ASSUME Reliable
             PROVE  Spec /\ []TakeTurns /\ []JanitorAlone /\ []UpdatesApart => []AgreeInv
  OBVIOUS
<1>1. IInv /\ TurnInv /\ AgreeInv /\ TakeTurns /\ TakeTurns' /\ JanitorAlone /\ JanitorAlone'
      /\ UpdatesApart /\ [Next]_vars => AgreeInv'
  BY AgreeNext
<1>2. Init => AgreeInv
  BY AgreeInit
<1>3. QED
  BY <1>1, <1>2, TurnInvariance, Invariance, PTL DEF Spec

\* A topology that no handler works on is settled.
LEMMA QuietSettled ==
  ASSUME AgreeInv, NEW t \in Topologies, Quiet(t)
  PROVE  Settled(t)
  BY DEF AgreeInv, Quiet, AtWork, Busy, Between, Building, Removing

\* As long as the handlers of one topology take turns, the janitor runs when nothing else does, no
\* handler loads state.json between another's load_state and save_state, and the provider refuses
\* calls at worst and loses none, a topology that nobody works on is ACTIVE with one live resource
\* per step of the plan, each in one row, or has no rows: whatever has been deployed, failed,
\* cleaned up, deleted, created again, hydrated and swept before.
THEOREM WholeOrNothing ==
  Reliable => (Spec /\ []TakeTurns /\ []JanitorAlone /\ []UpdatesApart => []AllOrNothing)
<1> SUFFICES ASSUME Reliable
             PROVE  Spec /\ []TakeTurns /\ []JanitorAlone /\ []UpdatesApart => []AllOrNothing
  OBVIOUS
<1>1. TurnInv /\ AgreeInv => AllOrNothing
  <2> SUFFICES ASSUME TurnInv, AgreeInv, NEW t \in Topologies, Quiet(t)
               PROVE  /\ status[t] = "ACTIVE" =>
                           /\ \A s \in Steps : \E w \in RowsOf(t) : w.res.step = s /\ w.res \in cloud
                           /\ \A v, w \in RowsOf(t) : v.res.step = w.res.step => v = w
                      /\ status[t] # "ACTIVE" => RowsOf(t) = {}
    BY DEF AllOrNothing
  <2>1. Settled(t)
    BY QuietSettled
  <2>2. RowsOf(t) # {} => Whole(Recs(t))
    BY <2>1 DEF Settled, Recs, ResourcesOf
  <2>3. \A v, w \in RowsOf(t) : v.res.step = w.res.step => v = w
    BY DEF TurnInv, RowsApart, RowsOf
  <2>4. QED
    BY <2>1, <2>2, <2>3 DEF Settled, Whole, Recs, ResourcesOf
<1>2. QED
  BY <1>1, AgreeInvariance, TurnInvariance, PTL

-----------------------------------------------------------------------------
(* Nothing at the provider is forgotten *)

\* What the handler on r alone does not lose sight of, and what it keeps so by a step.
Safe(r, x) == Recorded(x) \/ x \in req[r].held \/ \E t \in Topologies : x \in ActiveResources(t)

Backs(r, u) ==
    RowsOf(u) = {} /\ ActiveResources(u) # {} => req[r].topo = u /\ req[r].pc \in {"reset", "forget"}

StaysSafe(r) == \A x \in cloud' : (x \in cloud => Safe(r, x)) => Safe(r, x)'
StaysBacked(r) == "delete" \notin Operations => \A u \in Topologies : Backs(r, u) => Backs(r, u)'
KeptBy(r) == Requested(req[r])' /\ Forgettable(req[r])' /\ StaysSafe(r) /\ StaysBacked(r)

\* What the invariant says of the handler.
LEMMA Keeping ==
  ASSUME IInv, TurnInv, AgreeInv, KeptInv, NEW r \in Requests
  PROVE  /\ Requested(req[r]) /\ Forgettable(req[r]) /\ req[r].topo \in Topologies
         /\ req[r].pc # "record" =>
              \A x : Safe(r, x) => Recorded(x) \/ \E u \in Topologies : x \in ActiveResources(u)
<1>1. Requested(req[r]) /\ Forgettable(req[r]) /\ req[r].topo \in Topologies
  BY Acting, Present DEF KeptInv
<1>2. req[r].pc # "record" => req[r].held = {}
  BY Agreeing
<1>3. QED
  BY <1>1, <1>2 DEF Safe

\* Where a handler holds nothing that it has to remember.
Forgetting == {"snapshot", "cleanup", "teardown", "drop", "reset", "forget"}

\* A request that goes on is the one that was made.
LEMMA GoesOn ==
  ASSUME NEW r, Requested(req[r]), req[r].pc # "idle", req'[r].op = req[r].op,
         req'[r].pc \notin {"next", "wrapup", "delete"}
  PROVE  Requested(req[r])'
  BY DEF Requested

\* The files, the rows and the provider are left alone.
LEMMA QuietKept ==
  ASSUME IInv, TurnInv, AgreeInv, KeptInv, NEW r \in Requests,
         UNCHANGED <<rows, snapshot, cloud>>, req[r].pc # "record",
         req[r].pc \in {"reset", "forget"} =>
            req'[r].pc \in {"reset", "forget"} /\ req'[r].topo = req[r].topo,
         Requested(req[r])', Forgettable(req[r])'
  PROVE  KeptBy(r)
<1>1. \A u : RowsOf(u)' = RowsOf(u) /\ ActiveResources(u)' = ActiveResources(u)
  BY DEF RowsOf, ActiveResources
<1>2. StaysSafe(r)
  BY <1>1, Keeping DEF StaysSafe, Safe, Recorded
<1>3. StaysBacked(r)
  BY <1>1 DEF StaysBacked, Backs
<1>4. QED
  BY <1>2, <1>3 DEF KeptBy

\* The handler moves to a step before which nothing can be forgotten.
LEMMA MovesKept ==
  ASSUME IInv, TurnInv, AgreeInv, KeptInv, NEW r \in Requests,
         UNCHANGED <<rows, snapshot, cloud>>, req[r].pc \notin {"idle", "record", "reset", "forget"},
         req'[r].op = req[r].op, req'[r].pc \notin {"next", "wrapup", "delete"} \cup Forgetting
  PROVE  KeptBy(r)
<1>1. Requested(req[r])'
  BY GoesOn, Keeping
<1>2. Forgettable(req[r])'
  BY DEF Forgettable, Forgetting
<1>3. QED
  BY <1>1, <1>2, QuietKept

LEMMA ReadingKept ==
  ASSUME IInv, TurnInv, AgreeInv, KeptInv, NEW r \in Requests,
         ListRows(r) \/ ReadSnapshot(r) \/ Relist(r) \/ CreateRefused(r)
  PROVE  KeptBy(r)
<1>1. /\ req[r].pc \in {"list", "hydrate", "relist", "create"} /\ UNCHANGED <<rows, snapshot, cloud>>
      /\ req[r].pc = "list" => ~Vanished(r)
  BY Present DEF ListRows, ReadSnapshot, Relist, CreateRefused, JanitorPCs
<1>2. /\ req'[r].op = req[r].op
      /\ req'[r].pc \in {"finish", "hydrate", "insert", "relist", "create", "fail"}
  <2>1. CASE ListRows(r)
    <3>1. \E pc \in {"finish", "hydrate"} : \E s, g, w :
            Becomes(r, [req[r] EXCEPT !.pc = pc, !.seen = s, !.gen = g, !.listed = w])
      BY <1>1, <2>1 DEF ListRows
    <3>2. QED
      BY <3>1, Acting, Present DEF Becomes, IInv, Handler
  <2>2. CASE ReadSnapshot(r)
    BY <1>1, <2>2, Acting, Present DEF ReadSnapshot, Becomes, IInv, Handler
  <2>3. CASE Relist(r)
    BY <1>1, <2>3, Acting, Present DEF Relist, Becomes, IInv, Handler
  <2>4. CASE CreateRefused(r)
    BY <1>1, <2>4, Acting, Present DEF CreateRefused, RetryOrFail, Becomes, IInv, Handler
  <2>5. QED
    BY <2>1, <2>2, <2>3, <2>4
<1>3. QED
  BY <1>1, <1>2, MovesKept DEF Forgetting

LEMMA WorkingKept ==
  ASSUME IInv, TurnInv, AgreeInv, KeptInv, NEW r \in Requests,
         Activate(r) \/ MarkFailed(r) \/ ListFailed(r) \/ JanitorScan(r)
  PROVE  KeptBy(r)
<1>1. /\ req[r].pc \in {"activate", "fail", "listFailed", "scan"} /\ UNCHANGED <<rows, snapshot, cloud>>
      /\ req[r].pc # "scan" => Exists(req[r].topo) /\ ~Vanished(r)
  BY Present DEF Activate, MarkFailed, ListFailed, JanitorScan, JanitorPCs
<1>2. /\ req'[r].op = req[r].op
      /\ req'[r].pc \in {"collect", "listFailed", "recordFailed", "scan", "sweep"}
  <2>1. CASE Activate(r)
    <3>1. \E s : Becomes(r, [req[r] EXCEPT !.pc = "collect", !.seen = s])
      BY <1>1, <2>1 DEF Activate
    <3>2. QED
      BY <3>1, Acting, Present DEF Becomes, IInv, Handler
  <2>2. CASE MarkFailed(r)
    <3>1. Becomes(r, [req[r] EXCEPT !.pc = "listFailed", !.seen = "EXPIRED"])
      BY <1>1, <2>2 DEF MarkFailed
    <3>2. QED
      BY <3>1, Acting, Present DEF Becomes, IInv, Handler
  <2>3. CASE JanitorScan(r)
    <3>1. PICK t \in Topologies :
            Becomes(r, [req[r] EXCEPT !.entries = Scanned(r, t),
                                      !.topo = t,
                                      !.seen = status[t],
                                      !.pc = IF Backed(t) THEN "scan" ELSE "sweep",
                                      !.todo = IF Backed(t) THEN {} ELSE req[r].entries[t]])
      BY <2>3 DEF JanitorScan
    <3>2. req'[r].op = req[r].op /\ req'[r].pc = IF RowsOf(t) # {} THEN "scan" ELSE "sweep"
      BY <3>1, Acting, Present DEF Becomes, IInv, Handler, Backed
    <3>3. QED
      BY <3>2
  <2>4. CASE ListFailed(r)
    <3>1. \E w, s : Becomes(r, [req[r] EXCEPT !.pc = "recordFailed", !.listed = w, !.seen = s])
      BY <1>1, <2>4 DEF ListFailed
    <3>2. QED
      BY <3>1, Acting, Present DEF Becomes, IInv, Handler
  <2>5. QED
    BY <2>1, <2>2, <2>3, <2>4
<1>3. QED
  BY <1>1, <1>2, MovesKept DEF Forgetting

\* A handler that has nothing more to do, or has only begun, can forget nothing.
LEMMA IdleKept ==
  ASSUME NEW r, req'[r] = Idle
  PROVE  Requested(req[r])' /\ Forgettable(req[r])'
  BY IdleFields DEF Requested, Forgettable

LEMMA JanitorMarkKept ==
  ASSUME IInv, TurnInv, AgreeInv, KeptInv, NEW r \in Requests, JanitorMark(r)
  PROVE  KeptBy(r)
<1>1. /\ req[r].pc = "mark" /\ UNCHANGED <<rows, snapshot, cloud>>
      /\ Becomes(r, [req[r] EXCEPT !.pc = "scan"]) \/ Becomes(r, Idle)
  BY DEF JanitorMark
<1>2. CASE Becomes(r, [req[r] EXCEPT !.pc = "scan"])
  <2>1. req'[r].op = req[r].op /\ req'[r].pc = "scan"
    BY <1>2, Acting, Present DEF Becomes, IInv, Handler
  <2>2. QED
    BY <1>1, <2>1, MovesKept DEF Forgetting
<1>3. CASE Becomes(r, Idle)
  <2>1. req'[r] = Idle
    BY <1>3, Present DEF Becomes, IInv
  <2>2. QED
    BY <1>1, <2>1, IdleKept, QuietKept
<1>4. QED
  BY <1>1, <1>2, <1>3

\* A handler that loads state.json goes on where it was.
LEMMA LoadStateKept ==
  ASSUME IInv, TurnInv, AgreeInv, KeptInv, NEW r \in Requests, LoadState(r)
  PROVE  KeptBy(r)
<1>1. /\ req[r].pc \in Saving /\ UNCHANGED <<rows, snapshot, cloud>>
      /\ Becomes(r, [req[r] EXCEPT !.file = {snapshot}, !.seen = Loaded(r)])
  BY DEF LoadState
<1>2. req'[r].op = req[r].op /\ req'[r].topo = req[r].topo /\ req'[r].pc = req[r].pc
  BY <1>1, Acting, Present DEF Becomes, IInv, Handler
<1>3. Requested(req[r])'
  BY <1>1, <1>2, GoesOn, Keeping DEF Saving
<1>4. /\ ActiveResources(req[r].topo)' = ActiveResources(req[r].topo)
      /\ Recs(req[r].topo)' = Recs(req[r].topo)
  BY <1>1, <1>2 DEF ActiveResources, Recs, RowsOf
<1>5. Forgettable(req[r])'
  BY <1>1, <1>2, <1>4, Keeping DEF Forgettable
<1>6. QED
  BY <1>1, <1>2, <1>3, <1>5, QuietKept DEF Saving

LEMMA BeginKept ==
  ASSUME IInv, TurnInv, AgreeInv, KeptInv, NEW r \in Requests, Arrive(r) \/ EndJanitor(r)
  PROVE  KeptBy(r)
<1>1. UNCHANGED <<rows, snapshot, cloud>> /\ req[r].pc \in {"idle", "scan"}
  BY DEF Arrive, BeginDeploy, BeginScenario, BeginDelete, BeginJanitor, Begin, EndJanitor
<1>2. CASE EndJanitor(r)
  <2>1. req'[r] = Idle
    BY <1>2, Present DEF EndJanitor, Becomes, IInv
  <2>2. QED
    BY <1>1, <2>1, IdleKept, QuietKept
<1>3. ASSUME NEW t \in Topologies, BeginDeploy(r, t) \/ BeginScenario(r, t) \/ BeginDelete(r, t)
      PROVE  req'[r].op \in Operations /\ <<req'[r].op, req'[r].pc>> \in
               {<<"deploy", "list">>, <<"scenario", "next">>, <<"delete", "delete">>}
  <2>1. CASE BeginDeploy(r, t)
    BY <2>1, Present DEF BeginDeploy, Begin, Becomes, Idle, IInv
  <2>2. CASE BeginScenario(r, t)
    BY <2>2, Present DEF BeginScenario, Begin, Becomes, Idle, IInv
  <2>3. CASE BeginDelete(r, t)
    BY <2>3, Present DEF BeginDelete, Begin, Becomes, Idle, IInv
  <2>4. QED
    BY <1>3, <2>1, <2>2, <2>3
<1>4. ASSUME BeginJanitor(r)
      PROVE  req'[r].op \in Operations /\ req'[r].pc = "scan"
  BY <1>4, Present DEF BeginJanitor, Begin, Becomes, Idle, IInv
<1>5. CASE Arrive(r)
  <2>1. Requested(req[r])' /\ Forgettable(req[r])'
    BY <1>3, <1>4, <1>5 DEF Arrive, Requested, Forgettable
  <2>2. QED
    BY <1>1, <2>1, QuietKept
<1>6. QED
  BY <1>2, <1>5

\* A settled topology with rows has an entry that lists them, or none.
LEMMA SettledListed ==
  ASSUME NEW t, Settled(t), RowsOf(t) # {}
  PROVE  ActiveResources(t) = Recs(t)
  BY DEF Settled

LEMMA ScenarioStepKept ==
  ASSUME IInv, TurnInv, AgreeInv, KeptInv, TakeTurns, Separate, NEW r \in Requests, ScenarioStep(r)
  PROVE  KeptBy(r)
<1> DEFINE t == req[r].topo
<1>1. /\ req[r].pc \in {"next", "wrapup"} /\ UNCHANGED <<rows, snapshot, cloud>>
      /\ \/ \E pc \in {"list", "cleanup"} : Becomes(r, [req[r] EXCEPT !.pc = pc])
         \/ Becomes(r, [req[r] EXCEPT !.pc = "cleanup", !.op = "final", !.seen = "EXPIRED"])
         \/ Becomes(r, Idle)
  BY DEF ScenarioStep
<1>2. "scenario" \in Operations /\ req[r].op = "scenario" /\ "delete" \notin Operations
  BY <1>1, Keeping DEF Requested, Separate
<1>3. ActiveResources(t) \subseteq Recs(t)
  <2>1. Settled(t)
    BY <1>1, Agreeing DEF AtWork, Busy, Between, Building, Removing
  <2>2. RowsOf(t) = {} => ActiveResources(t) = {}
    <3>1. ASSUME NEW q \in Requests, req[q].topo = t, req[q].pc \in {"reset", "forget"}
          PROVE  FALSE
      BY <1>1, <3>1 DEF TakeTurns, AtWork
    <3>2. t \in Topologies
      BY Keeping
    <3>3. QED
      BY <1>2, <3>1, <3>2 DEF KeptInv, BackedInv
  <2>3. QED
    BY <2>1, <2>2, SettledListed
<1>4. \/ req'[r] = Idle
      \/ /\ req'[r].pc \in {"list", "cleanup"} /\ req'[r].topo = t
         /\ req'[r].op \in {"scenario", "final"}
  <2>1. CASE \E pc \in {"list", "cleanup"} : Becomes(r, [req[r] EXCEPT !.pc = pc])
    BY <1>2, <2>1, Acting, Present DEF Becomes, IInv, Handler
  <2>2. CASE Becomes(r, [req[r] EXCEPT !.pc = "cleanup", !.op = "final", !.seen = "EXPIRED"])
    BY <2>2, Acting, Present DEF Becomes, IInv, Handler
  <2>3. CASE Becomes(r, Idle)
    BY <2>3, Present DEF Becomes, IInv
  <2>4. QED
    BY <1>1, <2>1, <2>2, <2>3
<1>5. CASE req'[r] = Idle
  BY <1>1, <1>5, IdleKept, QuietKept
<1>6. CASE req'[r].pc \in {"list", "cleanup"} /\ req'[r].topo = t /\ req'[r].op \in {"scenario", "final"}
  <2>1. Requested(req[r])'
    BY <1>2, <1>6 DEF Requested
  <2>2. ActiveResources(req[r].topo)' \subseteq Recs(req[r].topo)'
    BY <1>1, <1>3, <1>6 DEF ActiveResources, Recs, RowsOf
  <2>3. Forgettable(req[r])'
    BY <1>6, <2>2 DEF Forgettable
  <2>4. QED
    BY <1>1, <2>1, <2>3, QuietKept
<1>7. QED
  BY <1>4, <1>5, <1>6

LEMMA CollectRowsKept ==
  ASSUME IInv, TurnInv, AgreeInv, KeptInv, NEW r \in Requests, CollectRows(r)
  PROVE  KeptBy(r)
<1>1. /\ req[r].pc = "collect" /\ UNCHANGED <<rows, snapshot, cloud>>
      /\ req'[r].op = req[r].op /\ req'[r].pc = "snapshot" /\ req'[r].topo = req[r].topo
  BY Acting, Present DEF CollectRows, Becomes, IInv, Handler
<1>2. ActiveResources(req[r].topo) = {}
  <2>1. Progress(req[r])
    BY Agreeing
  <2>2. QED
    BY <1>1, <2>1 DEF Progress, Building
<1>3. Requested(req[r])'
  BY <1>1, GoesOn, Keeping
<1>4. ActiveResources(req[r].topo)' = {}
  BY <1>1, <1>2 DEF ActiveResources
<1>5. Forgettable(req[r])'
  BY <1>1, <1>4 DEF Forgettable
<1>6. QED
  BY <1>1, <1>3, <1>5, QuietKept

LEMMA FinishIdempotentKept ==
  ASSUME IInv, TurnInv, AgreeInv, KeptInv, NEW r \in Requests, FinishIdempotent(r)
  PROVE  KeptBy(r)
<1> DEFINE t == req[r].topo
           again == {w \in rows : w.id \in IdsOf(req[r].listed)}
<1>1. /\ req[r].pc = "finish" /\ req[r].listed = RowsOf(t) /\ UNCHANGED <<rows, snapshot, cloud>>
      /\ \/ Becomes(r, [req[r] EXCEPT !.pc = "snapshot", !.listed = again, !.seen = status'[t]])
         \/ IdsOf(again) # IdsOf(req[r].listed)
  BY Present DEF FinishIdempotent, Informed, WithListed, JanitorPCs
<1>2. again = RowsOf(t)
  BY <1>1 DEF TurnInv, RowsApart, RowsOf, IdsOf
<1>3. req'[r].op = req[r].op /\ req'[r].pc = "snapshot" /\ req'[r].topo = t
  <2>1. \E s : Becomes(r, [req[r] EXCEPT !.pc = "snapshot", !.listed = again, !.seen = s])
    BY <1>1, <1>2
  <2>2. QED
    BY <2>1, Acting, Present DEF Becomes, IInv, Handler
<1>4. ActiveResources(t) = Recs(t)
  <2>1. Progress(req[r])
    BY Agreeing
  <2>2. RowsOf(t) # {} /\ Settled(t)
    BY <1>1, <2>1 DEF Progress, AtWork, Between, Building, Removing
  <2>3. QED
    BY <2>2, SettledListed
<1>5. Requested(req[r])'
  BY <1>1, <1>3, GoesOn, Keeping
<1>6. ActiveResources(req[r].topo)' \subseteq Recs(req[r].topo)'
  <2>1. req'[r].topo = t /\ UNCHANGED <<rows, snapshot>> /\ ActiveResources(t) \subseteq Recs(t)
    BY <1>1, <1>3, <1>4
  <2>2. QED
    BY <2>1 DEF ActiveResources, Recs, RowsOf
<1>7. Forgettable(req[r])'
  BY <1>3, <1>6 DEF Forgettable
<1>8. QED
  BY <1>1, <1>3, <1>5, <1>7, QuietKept

LEMMA CleanupListKept ==
  ASSUME IInv, TurnInv, AgreeInv, KeptInv, NEW r \in Requests, CleanupList(r)
  PROVE  KeptBy(r)
<1> DEFINE t == req[r].topo
<1>1. /\ req[r].pc = "cleanup" /\ UNCHANGED <<rows, snapshot, cloud>>
      /\ Becomes(r, [req[r] EXCEPT !.pc = IF RowsOf(t) = {} THEN "reset" ELSE "teardown",
                                   !.listed = RowsOf(t),
                                   !.todo = ResourcesOf(RowsOf(t)),
                                   !.failed = FALSE,
                                   !.seen = Loaded(r)])
  BY Present DEF CleanupList, JanitorPCs
<1>2. /\ req'[r].op = req[r].op /\ req'[r].topo = t
      /\ req'[r].pc = IF RowsOf(t) = {} THEN "reset" ELSE "teardown"
  BY <1>1, Acting, Present DEF Becomes, IInv, Handler
<1>3. ActiveResources(t) \subseteq Recs(t)
  BY <1>1, Keeping DEF Forgettable
<1>4. RowsOf(t) = {} => ActiveResources(t) = {}
  BY <1>3 DEF Recs, ResourcesOf
<1>5. Requested(req[r])'
  BY <1>1, <1>2, GoesOn, Keeping
<1>6. /\ ActiveResources(req[r].topo)' \subseteq Recs(req[r].topo)'
      /\ RowsOf(t) = {} => ActiveResources(req[r].topo)' = {}
  BY <1>1, <1>2, <1>3, <1>4 DEF ActiveResources, Recs, RowsOf
<1>7. Forgettable(req[r])'
  BY <1>2, <1>6 DEF Forgettable
<1>8. QED
  BY <1>1, <1>2, <1>5, <1>7, QuietKept

LEMMA ResetStatusKept ==
  ASSUME IInv, TurnInv, AgreeInv, KeptInv, NEW r \in Requests, ResetStatus(r)
  PROVE  KeptBy(r)
<1> DEFINE t == req[r].topo
<1>1. /\ req[r].pc = "reset" /\ UNCHANGED <<rows, snapshot, cloud>>
      /\ \E s : Becomes(r, [req[r] EXCEPT !.pc = "forget", !.seen = s])
  BY Present DEF ResetStatus, JanitorPCs
<1>2. req'[r].op = req[r].op /\ req'[r].topo = t /\ req'[r].pc = "forget"
  BY <1>1, Acting, Present DEF Becomes, IInv, Handler
<1>3. ActiveResources(t) \cap cloud = {}
  BY <1>1, Keeping DEF Forgettable
<1>4. Requested(req[r])'
  BY <1>1, <1>2, GoesOn, Keeping
<1>5. ActiveResources(req[r].topo)' \cap cloud' = {}
  BY <1>1, <1>2, <1>3 DEF ActiveResources
<1>6. Forgettable(req[r])'
  BY <1>2, <1>5 DEF Forgettable
<1>7. QED
  BY <1>1, <1>2, <1>4, <1>6, QuietKept

LEMMA InsertRowsKept ==
  ASSUME IInv, TurnInv, AgreeInv, KeptInv, NEW r \in Requests, InsertRows(r)
  PROVE  KeptBy(r)
<1>1. /\ req[r].pc = "insert" /\ UNCHANGED <<snapshot, cloud>> /\ rows \subseteq rows'
      /\ \E s : Becomes(r, [req[r] EXCEPT !.pc = "relist", !.todo = {}, !.seen = s])
  BY Present DEF InsertRows, JanitorPCs
<1>2. req'[r].op = req[r].op /\ req'[r].pc = "relist"
  BY <1>1, Acting, Present DEF Becomes, IInv, Handler
<1>3. Requested(req[r])' /\ Forgettable(req[r])'
  BY <1>1, <1>2, GoesOn, Keeping DEF Forgettable
<1>4. \A u : ActiveResources(u)' = ActiveResources(u) /\ (RowsOf(u)' = {} => RowsOf(u) = {})
  BY <1>1 DEF ActiveResources, RowsOf
<1>5. StaysSafe(r)
  BY <1>1, <1>4, Keeping DEF StaysSafe, Safe, Recorded
<1>6. StaysBacked(r)
  BY <1>1, <1>4 DEF StaysBacked, Backs
<1>7. QED
  BY <1>3, <1>5, <1>6 DEF KeptBy

\* An operation ends: what its handler was asked for does not change.
LEMMA EndedKept ==
  ASSUME IInv, TurnInv, AgreeInv, KeptInv, NEW r \in Requests, req[r].pc # "idle",
         NEW result, Becomes(r, Ended(r, result))
  PROVE  Requested(req[r])' /\ Forgettable(req[r])'
<1>1. req'[r] = Ended(r, result)
  BY Present DEF Becomes, IInv
<1>2. CASE req'[r] = Idle
  BY <1>2, IdleKept
<1>3. CASE /\ req[r].op = "scenario"
           /\ req'[r] = [Idle EXCEPT !.op = "scenario", !.topo = req[r].topo,
                           !.pc = IF result = "ok" THEN "next" ELSE "wrapup",
                           !.seen = Loaded(r)]
  <2>1. req'[r].op = "scenario" /\ req'[r].pc \in {"next", "wrapup"}
    BY <1>3 DEF Idle
  <2>2. "scenario" \in Operations
    BY <1>3, Keeping DEF Requested
  <2>3. QED
    BY <2>1, <2>2 DEF Requested, Forgettable
<1>4. QED
  BY <1>1, <1>2, <1>3 DEF Ended

\* The entry of the handler's topology is written.
LEMMA EntryKept ==
  ASSUME IInv, TurnInv, AgreeInv, KeptInv, Reliable, NEW r \in Requests, NEW entry,
         WriteEntry(r, entry), UNCHANGED <<status, rows, cloud>>, req[r].pc # "record",
         Requested(req[r])', Forgettable(req[r])',
         \A x \in ActiveResources(req[r].topo) : Recorded(x) \/ x \notin cloud,
         entry.status = "ACTIVE" /\ entry.resources # {} => RowsOf(req[r].topo) # {}
  PROVE  KeptBy(r)
<1> DEFINE t == req[r].topo
<1>1. /\ snapshot'[t] = entry /\ UNCHANGED <<rows, cloud>>
      /\ \A u : RowsOf(u)' = RowsOf(u)
      /\ \A u \in Topologies : u = t \/ ActiveResources(u)' = ActiveResources(u)
  BY WriteAgree
<1>2. StaysSafe(r)
  <2>1. ASSUME NEW x \in cloud, Safe(r, x)
        PROVE  Recorded(x) \/ \E u \in Topologies : u # t /\ x \in ActiveResources(u)
    BY <2>1, Keeping
  <2>2. QED
    BY <1>1, <2>1 DEF StaysSafe, Safe, Recorded
<1>3. StaysBacked(r)
  <2> SUFFICES ASSUME NEW u \in Topologies, Backs(r, u), RowsOf(u)' = {}, ActiveResources(u)' # {}
               PROVE  FALSE
    BY DEF StaysBacked, Backs
  <2>1. CASE u = t
    <3>1. snapshot'[u] = entry
      BY <1>1, <2>1
    <3>2. entry.status = "ACTIVE" /\ entry.resources # {}
      BY <3>1 DEF ActiveResources
    <3>3. QED
      BY <1>1, <2>1, <3>2
  <2>2. CASE u # t
    BY <1>1, <2>2 DEF Backs
  <2>3. QED
    BY <2>1, <2>2
<1>4. QED
  BY <1>2, <1>3 DEF KeptBy

\* What the rows of a topology list is recorded.
LEMMA RecsRecorded ==
  ASSUME NEW t, NEW x \in Recs(t)
  PROVE  Recorded(x)
  BY DEF Recs, ResourcesOf, RowsOf, Recorded

LEMMA WriteSnapshotKept ==
  ASSUME IInv, TurnInv, AgreeInv, KeptInv, Reliable, NEW r \in Requests, WriteSnapshot(r)
  PROVE  KeptBy(r)
<1> DEFINE t == req[r].topo
           entry == [status |-> req[r].seen, resources |-> ResourcesOf(req[r].listed)]
<1>1. /\ req[r].pc = "snapshot" /\ req[r].listed = RowsOf(t)
      /\ WriteEntry(r, entry) /\ UNCHANGED <<status, rows, cloud>>
      /\ Becomes(r, Ended(r, "ok"))
  BY Acting, Present DEF WriteSnapshot, Informed, WithListed
<1>2. Requested(req[r])' /\ Forgettable(req[r])'
  BY <1>1, EndedKept
<1>3. \A x \in ActiveResources(t) : Recorded(x)
  BY <1>1, Keeping, RecsRecorded DEF Forgettable
<1>4. entry.resources # {} => RowsOf(t) # {}
  BY <1>1 DEF ResourcesOf
<1>5. QED
  BY <1>1, <1>2, <1>3, <1>4, EntryKept

LEMMA RecordFailedKept ==
  ASSUME IInv, TurnInv, AgreeInv, KeptInv, Reliable, NEW r \in Requests, RecordFailed(r)
  PROVE  KeptBy(r)
<1> DEFINE t == req[r].topo
           entry == [status |-> "FAILED", resources |-> ResourcesOf(RowsOf(t))]
<1>1. /\ req[r].pc = "recordFailed" /\ t \in Topologies
      /\ WriteEntry(r, entry) /\ UNCHANGED <<status, rows, cloud>>
      /\ \/ Becomes(r, Ended(r, "failed"))
         \/ Becomes(r, [req[r] EXCEPT !.pc = "cleanup", !.nested = TRUE, !.file = {}])
  BY Acting, Present DEF RecordFailed, Informed, WithListed
<1>2. ActiveResources(t) = {}
  <2>1. Progress(req[r])
    BY Agreeing
  <2>2. QED
    BY <1>1, <2>1 DEF Progress, Building
<1>3. Requested(req[r])' /\ Forgettable(req[r])'
  <2>1. CASE Becomes(r, Ended(r, "failed"))
    BY <1>1, <2>1, EndedKept
  <2>2. CASE Becomes(r, [req[r] EXCEPT !.pc = "cleanup", !.nested = TRUE, !.file = {}])
    <3>1. req'[r].op = req[r].op /\ req'[r].topo = t /\ req'[r].pc = "cleanup"
      BY <2>2, Acting, Present DEF Becomes, IInv, Handler
    <3>2. snapshot'[req'[r].topo].status = "FAILED"
      <4>1. snapshot'[t] = entry /\ entry.status = "FAILED"
        BY <1>1, WriteAgree
      <4>2. QED
        BY <3>1, <4>1
    <3>3. ActiveResources(req[r].topo)' = {}
      BY <3>2 DEF ActiveResources
    <3>4. Requested(req[r])'
      BY <1>1, <3>1, GoesOn, Keeping
    <3>5. QED
      BY <3>1, <3>3, <3>4 DEF Forgettable
  <2>3. QED
    BY <1>1, <2>1, <2>2
<1>4. QED
  BY <1>1, <1>2, <1>3, EntryKept

LEMMA ForgetEntryKept ==
  ASSUME IInv, TurnInv, AgreeInv, KeptInv, Reliable, NEW r \in Requests, ForgetEntry(r)
  PROVE  KeptBy(r)
<1>1. /\ req[r].pc = "forget"
      /\ WriteEntry(r, NoEntry) /\ UNCHANGED <<status, rows, cloud>>
      /\ \E result : Becomes(r, Ended(r, result))
  BY Present DEF ForgetEntry, CleanupEnds, JanitorPCs
<1>2. ActiveResources(req[r].topo) \cap cloud = {}
  BY <1>1, Keeping DEF Forgettable
<1>3. Requested(req[r])' /\ Forgettable(req[r])'
  BY <1>1, EndedKept
<1>4. QED
  BY <1>1, <1>2, <1>3, EntryKept DEF NoEntry

LEMMA JanitorStrikeKept ==
  ASSUME IInv, TurnInv, AgreeInv, KeptInv, Reliable, NEW r \in Requests, JanitorStrike(r)
  PROVE  KeptBy(r)
<1>1. /\ req[r].pc = "strike"
      /\ WriteEntry(r, NoEntry) /\ UNCHANGED <<status, rows, cloud>>
      /\ \E pc \in {"scan", "mark"} : Becomes(r, [req[r] EXCEPT !.pc = pc, !.file = {}])
  BY DEF JanitorStrike, WriteEntry
<1>2. \A x \in ActiveResources(req[r].topo) : x \notin cloud
  <2>1. Progress(req[r])
    BY Agreeing
  <2>2. QED
    BY <1>1, <2>1 DEF Progress
<1>3. req'[r].op = req[r].op /\ req'[r].pc \in {"scan", "mark"}
  BY <1>1, Acting, Present DEF Becomes, IInv, Handler
<1>4. Requested(req[r])' /\ Forgettable(req[r])'
  BY <1>1, <1>3, GoesOn, Keeping DEF Forgettable
<1>5. QED
  BY <1>1, <1>2, <1>4, EntryKept DEF NoEntry
LEMMA CreateKept ==
  ASSUME IInv, TurnInv, AgreeInv, KeptInv, NEW r \in Requests, Create(r)
  PROVE  KeptBy(r)
<1> DEFINE x == NewResource(r)
<1>1. /\ req[r].pc = "create" /\ UNCHANGED <<rows, snapshot>> /\ cloud' = cloud \cup {x}
      /\ Becomes(r, [req[r] EXCEPT !.pc = "record", !.held = {x}, !.tries = 0])
  BY DEF Create
<1>2. req'[r].op = req[r].op /\ req'[r].pc = "record" /\ req'[r].held = {x}
  BY <1>1, Acting, Present DEF Becomes, IInv, Handler
<1>3. Requested(req[r])' /\ Forgettable(req[r])'
  BY <1>1, <1>2, GoesOn, Keeping DEF Forgettable
<1>4. \A u : ActiveResources(u)' = ActiveResources(u) /\ RowsOf(u)' = RowsOf(u)
  BY <1>1 DEF ActiveResources, RowsOf
<1>5. StaysSafe(r)
  <2>1. \A y \in cloud : Safe(r, y) => Recorded(y) \/ \E u \in Topologies : y \in ActiveResources(u)
    BY <1>1, Keeping
  <2>2. \A y \in cloud' : y \in cloud \/ y \in req'[r].held
    BY <1>1, <1>2
  <2>3. QED
    BY <1>1, <1>4, <2>1, <2>2 DEF StaysSafe, Safe, Recorded
<1>6. StaysBacked(r)
  BY <1>1, <1>4 DEF StaysBacked, Backs
<1>7. QED
  BY <1>3, <1>5, <1>6 DEF KeptBy

LEMMA RecordRowKept ==
  ASSUME IInv, TurnInv, AgreeInv, KeptInv, NEW r \in Requests, RecordRow(r)
  PROVE  KeptBy(r)
<1> DEFINE q == req[r]
<1>1. /\ q.pc = "record" /\ UNCHANGED <<snapshot, cloud>>
      /\ \E top \in Tops :
           rows' = rows \cup {[id |-> top + 1, topo |-> q.topo, res |-> x] : x \in q.held}
      /\ \E p \in {"activate", "create"} : \E n, m :
           Becomes(r, [q EXCEPT !.pc = p, !.step = n, !.made = m, !.held = {}, !.seen = "EXPIRED"])
  BY Present DEF RecordRow, JanitorPCs
<1>2. PICK top \in Tops :
        rows' = rows \cup {[id |-> top + 1, topo |-> q.topo, res |-> x] : x \in q.held}
  BY <1>1
<1>3. req'[r].op = q.op /\ req'[r].pc \in {"activate", "create"}
  BY <1>1, Acting, Present DEF Becomes, IInv, Handler
<1>4. Requested(req[r])' /\ Forgettable(req[r])'
  BY <1>1, <1>3, GoesOn, Keeping DEF Forgettable
<1>5. \A u : ActiveResources(u)' = ActiveResources(u) /\ (RowsOf(u)' = {} => RowsOf(u) = {})
  BY <1>1, <1>2 DEF ActiveResources, RowsOf
<1>6. StaysSafe(r)
  <2>1. \A x : Safe(r, x) => Recorded(x) \/ x \in q.held \/ \E u \in Topologies : x \in ActiveResources(u)
    BY DEF Safe
  <2>2. ASSUME NEW x \in q.held
        PROVE  \E w \in rows' : w.res = x
    <3>1. [id |-> top + 1, topo |-> q.topo, res |-> x] \in rows'
      BY <1>2
    <3>2. QED
      BY <3>1
  <2>3. \A w \in rows : w \in rows'
    BY <1>2
  <2>4. QED
    BY <1>1, <1>5, <2>1, <2>2, <2>3 DEF StaysSafe, Safe, Recorded
<1>7. StaysBacked(r)
  BY <1>1, <1>5 DEF StaysBacked, Backs
<1>8. QED
  BY <1>4, <1>6, <1>7 DEF KeptBy

LEMMA DeleteOneKept ==
  ASSUME IInv, TurnInv, AgreeInv, KeptInv, NEW r \in Requests, DeleteOne(r)
  PROVE  KeptBy(r)
<1> DEFINE t == req[r].topo
<1>1. PICK x \in req[r].todo :
        /\ cloud' = cloud \ {x}
        /\ Becomes(r, [req[r] EXCEPT !.todo = @ \ {x},
                                     !.pc = IF req[r].todo # {x} THEN @
                                            ELSE IF @ = "teardown" THEN "drop" ELSE "strike"])
  BY DEF DeleteOne
<1>2. req[r].pc \in {"teardown", "sweep"} /\ UNCHANGED <<status, rows, snapshot>>
  BY DEF DeleteOne
<1>3. /\ req'[r].op = req[r].op /\ req'[r].topo = t
      /\ req'[r].pc = IF req[r].todo # {x} THEN req[r].pc
                      ELSE IF req[r].pc = "teardown" THEN "drop" ELSE "strike"
  BY <1>1, Acting, Present DEF Becomes, IInv, Handler
<1>4. \A u : ActiveResources(u)' = ActiveResources(u) /\ RowsOf(u)' = RowsOf(u)
  BY <1>2 DEF ActiveResources, RowsOf
<1>5. Requested(req[r])'
  BY <1>2, <1>3, GoesOn, Keeping
<1>6. Forgettable(req[r])'
  <2>1. CASE req[r].pc = "teardown"
    <3>1. ActiveResources(t) \subseteq Recs(t)
      BY <2>1, Keeping DEF Forgettable
    <3>2. ActiveResources(req[r].topo)' \subseteq Recs(req[r].topo)'
      BY <1>2, <1>3, <3>1 DEF ActiveResources, Recs, RowsOf
    <3>3. req'[r].pc \in {"teardown", "drop"}
      BY <1>3, <2>1
    <3>4. QED
      BY <3>2, <3>3 DEF Forgettable
  <2>2. CASE req[r].pc = "sweep"
    BY <1>3, <2>2 DEF Forgettable
  <2>3. QED
    BY <1>2, <2>1, <2>2
<1>7. StaysSafe(r)
  BY <1>1, <1>2, <1>4, Keeping DEF StaysSafe, Safe, Recorded
<1>8. StaysBacked(r)
  BY <1>2, <1>4 DEF StaysBacked, Backs
<1>9. QED
  BY <1>5, <1>6, <1>7, <1>8 DEF KeptBy

LEMMA DropRowsKept ==
  ASSUME IInv, TurnInv, AgreeInv, KeptInv, NEW r \in Requests, DropRows(r)
  PROVE  KeptBy(r)
<1> DEFINE t == req[r].topo
<1>1. /\ req[r].pc = "drop" /\ UNCHANGED <<status, snapshot, cloud>> /\ rows' = rows \ RowsOf(t)
      /\ Becomes(r, [req[r] EXCEPT !.pc = "reset", !.seen = "EXPIRED"])
  BY DroppedRows, Present DEF DropRows, Informed, WithListed
<1>2. req'[r].op = req[r].op /\ req'[r].topo = t /\ req'[r].pc = "reset"
  BY <1>1, Acting, Present DEF Becomes, IInv, Handler
<1>3. ActiveResources(t) \subseteq Recs(t) /\ \A x \in Recs(t) : x \notin cloud
  <2>1. Progress(req[r]) /\ req[r].todo = {}
    BY <1>1, Agreeing, Acting, Present DEF HandlerInv
  <2>2. \A x \in Recs(t) : x \notin cloud
    BY <1>1, <2>1 DEF Progress
  <2>3. QED
    BY <1>1, <2>2, Keeping DEF Forgettable
<1>4. /\ \A u : ActiveResources(u)' = ActiveResources(u)
      /\ \A u \in Topologies : u = t \/ RowsOf(u)' = RowsOf(u)
  BY <1>1 DEF ActiveResources, RowsOf
<1>5. Requested(req[r])'
  BY <1>1, <1>2, GoesOn, Keeping
<1>6. ActiveResources(req[r].topo)' \cap cloud' = {}
  BY <1>1, <1>2, <1>3 DEF ActiveResources
<1>7. Forgettable(req[r])'
  BY <1>2, <1>6 DEF Forgettable
<1>8. StaysSafe(r)
  <2>1. ASSUME NEW x \in cloud, Recorded(x)
        PROVE  \E w \in rows' : w.res = x
    <3>1. PICK w \in rows : w.res = x
      BY <2>1 DEF Recorded
    <3>2. w \notin RowsOf(t)
      BY <1>3, <3>1 DEF Recs, ResourcesOf
    <3>3. QED
      BY <1>1, <3>1, <3>2
  <2>2. QED
    BY <1>1, <1>4, <2>1, Keeping DEF StaysSafe, Safe, Recorded
<1>9. StaysBacked(r)
  BY <1>1, <1>2, <1>4 DEF StaysBacked, Backs
<1>10. QED
  BY <1>5, <1>7, <1>8, <1>9 DEF KeptBy

\* What the deletion of a topology leaves without a row is in its entry of state.json.
LEMMA DeleteTopologyKept ==
  ASSUME IInv, TurnInv, AgreeInv, KeptInv, NEW r \in Requests, DeleteTopology(r)
  PROVE  KeptBy(r)
<1> DEFINE t == req[r].topo
<1>1. /\ req[r].pc = "delete" /\ t \in Topologies /\ UNCHANGED <<snapshot, cloud>>
      /\ rows' = rows \ RowsOf(t) /\ req'[r] = Idle
  BY DroppedRows, Acting, Present DEF DeleteTopology, Informed, WithListed, Becomes, IInv
<1>2. "delete" \in Operations
  BY <1>1, Keeping DEF Requested
<1>3. Settled(t)
  BY <1>1, Agreeing DEF AtWork, Busy, Between, Building, Removing
<1>4. \A u : ActiveResources(u)' = ActiveResources(u)
  BY <1>1 DEF ActiveResources
<1>5. ASSUME NEW x \in cloud, Safe(r, x)
      PROVE  (\E w \in rows' : w.res = x) \/ \E u \in Topologies : x \in ActiveResources(u)
  <2>1. CASE Recorded(x)
    <3>1. PICK w \in rows : w.res = x
      BY <2>1 DEF Recorded
    <3>2. CASE w \in RowsOf(t)
      BY <1>1, <1>3, <3>1, <3>2, SettledListed DEF Recs, ResourcesOf
    <3>3. CASE w \notin RowsOf(t)
      BY <1>1, <3>1, <3>3
    <3>4. QED
      BY <3>2, <3>3
  <2>2. CASE ~Recorded(x)
    BY <1>1, <1>5, <2>2, Keeping
  <2>3. QED
    BY <2>1, <2>2
<1>6. StaysSafe(r)
  BY <1>1, <1>4, <1>5 DEF StaysSafe, Safe, Recorded
<1>7. Requested(req[r])' /\ Forgettable(req[r])'
  BY <1>1, IdleKept
<1>8. StaysBacked(r)
  BY <1>2 DEF StaysBacked
<1>9. QED
  BY <1>6, <1>7, <1>8 DEF KeptBy

\* Nothing that the invariant speaks of changes.
LEMMA StaysKept ==
  ASSUME KeptInv, UNCHANGED <<rows, snapshot, cloud, req>>
  PROVE  KeptInv'
<1>1. \A r \in Requests : Requested(req[r])' /\ Forgettable(req[r])'
  BY DEF KeptInv, Requested, Forgettable, ActiveResources, Recs, RowsOf
<1>2. \A x \in cloud' : Kept(x)'
  BY DEF KeptInv, Kept, Recorded, InFlight, ActiveResources
<1>3. BackedInv => BackedInv'
  BY DEF BackedInv, RowsOf, ActiveResources
<1>4. QED
  BY <1>1, <1>2, <1>3 DEF KeptInv

LEMMA KeptInit == Init => KeptInv
<1> SUFFICES ASSUME Init PROVE KeptInv
  OBVIOUS
<1>1. \A r \in Requests : req[r].pc = "idle"
  BY IdleFields DEF Init
<1>2. \A r \in Requests : Requested(req[r]) /\ Forgettable(req[r])
  BY <1>1 DEF Requested, Forgettable
<1>3. BackedInv
  BY DEF Init, BackedInv, ActiveResources, NoEntry
<1>4. QED
  BY <1>2, <1>3 DEF Init, KeptInv

LEMMA OthersKept ==
  ASSUME IInv, TurnInv, AgreeInv, KeptInv, Reliable, TakeTurns, JanitorAlone, JanitorAlone',
         NEW r \in Requests, Arrive(r) \/ Step(r), NEW q \in Requests, q # r
  PROVE  Requested(req[q])' /\ Forgettable(req[q])'
<1>1. req'[q] = req[q] /\ Requested(req[q]) /\ Forgettable(req[q])
  BY OthersProgress, Keeping
<1>2. Requested(req[q])'
  BY <1>1 DEF Requested
<1>3. CASE req[q].pc \in JanitorPCs \cup {"idle"}
  BY <1>1, <1>2, <1>3 DEF Forgettable, JanitorPCs
<1>4. CASE req[q].pc \notin JanitorPCs \cup {"idle"}
  <2> SUFFICES ASSUME NEW t, t = req[q].topo
               PROVE  Forgettable(req[q])'
    BY <1>2
  <2>1. /\ RowsOf(t)' = RowsOf(t) /\ snapshot'[t] = snapshot[t]
        /\ \A y \in cloud' \ cloud : y.topo # t
    BY <1>4, LeavesOthers
  <2>2. ActiveResources(req[q].topo)' = ActiveResources(t) /\ Recs(req[q].topo)' = Recs(t)
    BY <1>1, <2>1 DEF ActiveResources, Recs, RowsOf
  <2>3. MadeFor(t, ActiveResources(t))
    BY Acting DEF TurnInv, EntriesApart, MadeFor, ActiveResources
  <2>4. ActiveResources(t) \cap cloud = {} => ActiveResources(t) \cap cloud' = {}
    BY <2>1, <2>3 DEF MadeFor
  <2>5. QED
    BY <1>1, <2>2, <2>4 DEF Forgettable
<1>5. QED
  BY <1>3, <1>4

LEMMA KeptNext ==
  ASSUME IInv, TurnInv, AgreeInv, KeptInv, TakeTurns, JanitorAlone, JanitorAlone', Reliable, Separate,
         [Next]_vars
  PROVE  KeptInv'
<1>1. ASSUME NEW r \in Requests, Step(r)
      PROVE  KeptBy(r)
  <2>1. CASE DeployStep(r)
    <3>1. ~CreateUnanswered(r)
      BY DEF CreateUnanswered, Reliable
    <3>2. QED
      BY <2>1, <3>1, ReadingKept, WorkingKept, InsertRowsKept, FinishIdempotentKept, WriteSnapshotKept,
         CreateKept, RecordRowKept, CollectRowsKept, RecordFailedKept DEF DeployStep
  <2>2. CASE CleanupStep(r)
    BY <2>2, CleanupListKept, DeleteOneKept, DeleteFailsAgree, DropRowsKept, ResetStatusKept,
       ForgetEntryKept DEF CleanupStep
  <2>3. CASE JanitorStep(r)
    BY <2>3, WorkingKept, JanitorStrikeKept, JanitorMarkKept, BeginKept DEF JanitorStep
  <2>4. QED
    BY <1>1, <2>1, <2>2, <2>3, ScenarioStepKept, DeleteTopologyKept, LoadStateKept DEF Step
<1>2. ASSUME NEW r \in Requests, Arrive(r) \/ Step(r)
      PROVE  KeptInv'
  <2>1. KeptBy(r)
    BY <1>1, <1>2, BeginKept
  <2>2. \A q \in Requests : q # r => /\ req'[q] = req[q]
                                    /\ Requested(req[q])' /\ Forgettable(req[q])'
    BY <1>2, OthersProgress, OthersKept
  <2>3. ASSUME NEW x \in cloud'
        PROVE  Kept(x)'
    <3>1. CASE x \in cloud => Safe(r, x)
      <4>1. Safe(r, x)'
        BY <2>1, <3>1 DEF KeptBy, StaysSafe
      <4>2. QED
        BY <4>1 DEF Safe, Kept, InFlight
    <3>2. CASE x \in cloud /\ ~Safe(r, x)
      <4>1. PICK q \in Requests : x \in req[q].held
        BY <3>2 DEF KeptInv, Kept, Safe, InFlight
      <4>2. q # r
        BY <3>2, <4>1 DEF Safe
      <4>3. QED
        BY <2>2, <4>1, <4>2 DEF Kept, InFlight
    <3>3. QED
      BY <3>1, <3>2
  <2>4. ASSUME "delete" \notin Operations, NEW u \in Topologies,
               RowsOf(u)' = {}, ActiveResources(u)' # {}
        PROVE  \E p \in Requests : req'[p].topo = u /\ req'[p].pc \in {"reset", "forget"}
    <3>1. CASE Backs(r, u)
      <4>1. Backs(r, u)'
        BY <2>1, <2>4, <3>1 DEF KeptBy, StaysBacked
      <4>2. QED
        BY <2>4, <4>1 DEF Backs
    <3>2. CASE ~Backs(r, u)
      <4>1. PICK q \in Requests : req[q].topo = u /\ req[q].pc \in {"reset", "forget"}
        BY <2>4, <3>2 DEF KeptInv, BackedInv, Backs
      <4>2. q # r
        BY <3>2, <4>1 DEF Backs
      <4>3. QED
        BY <2>2, <4>1, <4>2
    <3>3. QED
      BY <3>1, <3>2
  <2>5. "delete" \notin Operations => BackedInv'
    BY <2>4 DEF BackedInv
  <2>6. QED
    BY <2>1, <2>2, <2>3, <2>5 DEF KeptInv, KeptBy
<1>3. ~Crash
  BY DEF Crash, Fault, Reliable
<1>4. (\E t \in Topologies : CreateTopology(t)) \/ UNCHANGED vars => KeptInv'
  BY StaysKept DEF CreateTopology, vars
<1>5. QED
  BY <1>2, <1>3, <1>4 DEF Next, Rest

LEMMA KeptInvariance ==
  Reliable /\ Separate => (Spec /\ []TakeTurns /\ []JanitorAlone /\ []UpdatesApart => []KeptInv)
<1> SUFFICES ASSUME Reliable, Separate
             PROVE  Spec /\ []TakeTurns /\ []JanitorAlone /\ []UpdatesApart => []KeptInv
  OBVIOUS
<1>1. IInv /\ TurnInv /\ AgreeInv /\ KeptInv /\ TakeTurns /\ JanitorAlone /\ JanitorAlone' /\ [Next]_vars
        => KeptInv'
  BY KeptNext
<1>2. Reliable
  OBVIOUS
<1>3. QED
  BY <1>1, <1>2, KeptInit, AgreeInvariance, TurnInvariance, Invariance, PTL DEF Spec

\* Under the conditions of WholeOrNothing, and as long as scenarios and deletions of topologies
\* do not meet, CloudNet loses nothing: what is at the provider is in a row, for a cleanup, or in
\* an ACTIVE entry of state.json, for the janitor or the next deploy.
THEOREM AlwaysReclaimable ==
  Reliable /\ Separate => (Spec /\ []TakeTurns /\ []JanitorAlone /\ []UpdatesApart => []Reclaimable)
<1> SUFFICES ASSUME Reliable, Separate
             PROVE  Spec /\ []TakeTurns /\ []JanitorAlone /\ []UpdatesApart => []Reclaimable
  OBVIOUS
<1>1. KeptInv => Reclaimable
  BY DEF KeptInv, Kept, Reclaimable
<1>2. Reliable /\ Separate
  OBVIOUS
<1>3. QED
  BY <1>1, <1>2, KeptInvariance, PTL

\* Without deletions of topologies, state.json lists of a topology that no handler works on
\* what its rows list.
LEMMA ListedAgrees ==
  ASSUME AgreeInv, KeptInv, "delete" \notin Operations, NEW t \in Topologies, Quiet(t)
  PROVE  ActiveResources(t) = Recs(t)
<1>1. Settled(t)
  BY QuietSettled
<1>2. RowsOf(t) = {} => ActiveResources(t) = {} /\ Recs(t) = {}
  BY DEF KeptInv, BackedInv, Quiet, AtWork, Recs, ResourcesOf
<1>3. QED
  BY <1>1, <1>2, SettledListed

\* Under the conditions of WholeOrNothing, and if no topology is deleted, what is at the provider
\* for a topology that no handler works on is in a row: failed deploys, retries, scenarios and the
\* janitor leave no orphan behind.
THEOREM NoneOrphaned ==
  Reliable /\ "delete" \notin Operations =>
    (Spec /\ []TakeTurns /\ []JanitorAlone /\ []UpdatesApart => []NoOrphans)
<1> SUFFICES ASSUME Reliable, "delete" \notin Operations
             PROVE  Spec /\ []TakeTurns /\ []JanitorAlone /\ []UpdatesApart => []NoOrphans
  OBVIOUS
<1>1. Reliable /\ Separate
  BY DEF Separate
<1>2. ASSUME IInv, TurnInv, AgreeInv, KeptInv, NEW x \in cloud, Quiet(x.topo)
      PROVE  Recorded(x)
  <2>1. CASE \E t \in Topologies : x \in ActiveResources(t)
    <3>1. PICK t \in Topologies : x \in ActiveResources(t)
      BY <2>1
    <3>2. x.topo = t
      BY <1>2, <3>1 DEF TurnInv, EntriesApart, MadeFor, ActiveResources
    <3>3. QED
      BY <1>2, <3>1, <3>2, ListedAgrees, RecsRecorded
  <2>2. CASE InFlight(x)
    <3>1. PICK r \in Requests : x \in req[r].held
      BY <2>2 DEF InFlight
    <3>2. x.topo = req[r].topo /\ AtWork(req[r])
      BY <1>2, <3>1 DEF TurnInv, Informed, IInv, HandlerInv, AtWork
    <3>3. QED
      BY <1>2, <3>1, <3>2 DEF Quiet
  <2>3. QED
    BY <1>2, <2>1, <2>2 DEF KeptInv, Kept
<1>3. IInv /\ TurnInv /\ AgreeInv /\ KeptInv => NoOrphans
  BY <1>2 DEF NoOrphans
<1>4. QED
  BY <1>1, <1>3, KeptInvariance, AgreeInvariance, TurnInvariance, Invariance, PTL

\* Under the same conditions state.json and SQLite list the same resources for every topology
\* that no handler works on.
THEOREM SnapshotsAgree ==
  Reliable /\ "delete" \notin Operations =>
    (Spec /\ []TakeTurns /\ []JanitorAlone /\ []UpdatesApart => []SnapshotAgrees)
<1> SUFFICES ASSUME Reliable, "delete" \notin Operations
             PROVE  Spec /\ []TakeTurns /\ []JanitorAlone /\ []UpdatesApart => []SnapshotAgrees
  OBVIOUS
<1>1. Reliable /\ Separate
  BY DEF Separate
<1>2. AgreeInv /\ KeptInv => SnapshotAgrees
  BY ListedAgrees DEF SnapshotAgrees, Recs
<1>3. QED
  BY <1>1, <1>2, KeptInvariance, AgreeInvariance, PTL
=============================================================================
