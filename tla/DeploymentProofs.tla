------------------------- MODULE DeploymentProofs -------------------------
(***************************************************************************)
(* Proofs about Deployment: type correctness and Accounted hold for every  *)
(* plan, every number of threads and topologies and every bound.           *)
(***************************************************************************)
EXTENDS Deployment, FiniteSetTheorems, TLAPS

\* What is true of every handler h when the provider holds the resources c and issues
\* the id n next.  Everything h remembers was created before; only a handler about to
\* commit a row holds a resource; the step to create is one of the plan; the status that
\* goes to state.json is one a topology row had; and whatever a teardown that has not
\* failed no longer has on its list is gone, which is why DropRows may forget the rows.
HandlerInv(h, c, n) ==
    /\ HandlerOK(h)
    /\ \A w \in h.listed : w.res.id < n
    /\ \A x \in h.held \cup h.todo : x.id < n
    /\ \A t \in Topologies : \A x \in h.entries[t] : x.id < n
    /\ \A f \in h.file, t \in Topologies : \A x \in f[t].resources : x.id < n
    /\ IsFiniteSet(h.held) /\ (h.pc # "record" => h.held = {})
    /\ h.pc \notin {"activate", "collect", "snapshot"} => h.step \in Steps
    /\ h.pc \in {"collect", "snapshot"} => h.seen \in Statuses
    /\ h.pc \in {"teardown", "drop"} /\ ~h.failed =>
          \A w \in h.listed : w.res \in h.todo \/ w.res \notin c
    /\ h.pc = "drop" => h.todo = {}

\* The stores are well typed and finite, the ids in SQLite and in state.json have been
\* issued, and a network is attached to nothing.
StoresInv ==
    /\ status \in [Topologies -> Statuses \cup {"ABSENT"}]
    /\ rows \subseteq Row /\ IsFiniteSet(rows)
    /\ \A w \in rows : w.res.id < nextId
    /\ snapshot \in [Topologies -> Entry]
    /\ \A t \in Topologies :
         /\ IsFiniteSet(snapshot[t].resources)
         /\ \A x \in snapshot[t].resources : x.id < nextId
    /\ cloud \subseteq Resource
    /\ \A x \in cloud : KindOf(x) = "network" => x.net = 0
    /\ nextId \in Nat \ {0}
    /\ gen \in [Topologies -> Nat]
    /\ orphaned \subseteq Causes \X Resource
    /\ faults \in Nat
    /\ begun \in Nat

IInv ==
    /\ StoresInv
    /\ req \in [Requests -> Handler]
    /\ \A r \in Requests : HandlerInv(req[r], cloud, nextId)
    /\ Accounted

-----------------------------------------------------------------------------
(* Handlers *)

LEMMA IdleIsHandler == Idle \in Handler
  BY PlanAssumption, BoundAssumption
  DEF Idle, Handler, PCs, AllOperations, Topologies, Steps, Statuses

LEMMA IdleFields ==
  /\ Idle.op = "none" /\ Idle.pc = "idle" /\ Idle.failed = FALSE /\ Idle.step \in Steps
  /\ Idle.held = {} /\ Idle.listed = {} /\ Idle.todo = {} /\ Idle.file = {}
  /\ \A t \in Topologies : Idle.entries[t] = {}
  BY PlanAssumption DEF Idle, Steps

LEMMA IdleInv ==
  ASSUME NEW c, NEW n \in Nat
  PROVE  HandlerInv(Idle, c, n)
  BY IdleIsHandler, IdleFields, FS_EmptySet DEF HandlerInv, HandlerOK

\* A handler that has ended an operation remembers nothing.
LEMMA EndedInv ==
  ASSUME IInv, NEW r \in Requests, NEW result, NEW c, NEW n \in Nat
  PROVE  HandlerInv(Ended(r, result), c, n)
<1>1. CASE Ended(r, result) = Idle
  BY <1>1, IdleInv
<1>2. CASE Ended(r, result) # Idle
  <2> DEFINE t == req[r].topo
             h == [Idle EXCEPT !.op = "scenario", !.topo = t,
                               !.pc = IF result = "ok" THEN "next" ELSE "wrapup",
                               !.seen = Loaded(r)]
  <2>1. Ended(r, result) = h /\ Exists(t)
    BY <1>2 DEF Ended
  <2>2. t \in Topologies /\ Loaded(r) \in Statuses \cup {"ABSENT", "EXPIRED"}
    BY DEF IInv, StoresInv, Handler, Loaded
  <2>3. h \in Handler
    BY <2>2, IdleIsHandler DEF Handler, PCs, AllOperations
  <2>4. /\ h.held = {} /\ h.listed = {} /\ h.todo = {} /\ h.entries = Idle.entries
        /\ h.file = Idle.file
        /\ h.step = Idle.step
        /\ h.pc \in {"next", "wrapup"}
    BY IdleIsHandler, IdleFields DEF Handler
  <2> HIDE DEF h
  <2>5. QED
    BY <2>1, <2>3, <2>4, IdleFields, FS_EmptySet DEF HandlerInv, HandlerOK
<1>3. QED
  BY <1>1, <1>2

\* What other threads do leaves a handler's invariant alone: the provider only issues
\* new ids.
LEMMA HandlerFrame ==
  ASSUME NEW h, NEW c, NEW n \in Nat, NEW d, NEW m \in Nat,
         HandlerInv(h, c, n),
         n <= m,
         \A x \in d \ c : x.id >= n
  PROVE  HandlerInv(h, d, m)
<1>1. /\ \A w \in h.listed : w.res.id \in Nat
      /\ \A x \in h.held \cup h.todo : x.id \in Nat
      /\ \A t \in Topologies : \A x \in h.entries[t] : x.id \in Nat
      /\ \A f \in h.file, t \in Topologies : \A x \in f[t].resources : x.id \in Nat
  BY DEF HandlerInv, HandlerOK, Handler, Row, Resource, Entry
<1>2. QED
  BY <1>1 DEF HandlerInv

-----------------------------------------------------------------------------
(* What the steps have in common *)

LEMMA IInvImpliesTypeOK == IInv => TypeOK
  BY DEF IInv, StoresInv, TypeOK, HandlerInv

LEMMA InitInv == Init => IInv
<1> SUFFICES ASSUME Init PROVE IInv
  OBVIOUS
<1>1. NoEntry \in Entry /\ NoEntry.resources = {}
  BY DEF NoEntry, Entry
<1>2. /\ req \in [Requests -> Handler]
      /\ \A r \in Requests : HandlerInv(req[r], cloud, nextId)
  BY IdleIsHandler, IdleInv DEF Init
<1>3. snapshot \in [Topologies -> Entry] /\ \A t \in Topologies : snapshot[t] = NoEntry
  BY <1>1 DEF Init
<1>4. /\ status \in [Topologies -> Statuses \cup {"ABSENT"}]
      /\ gen \in [Topologies -> Nat]
  BY DEF Init
<1>5. StoresInv
  BY <1>1, <1>3, <1>4, FS_EmptySet DEF Init, StoresInv
<1>6. Accounted
  BY DEF Init, Accounted
<1>7. QED
  BY <1>2, <1>5, <1>6 DEF IInv

\* A handler moves on while the others keep what they remember.
LEMMA HandlersInv ==
  ASSUME IInv, NEW r \in Requests, NEW h,
         Becomes(r, h),
         HandlerInv(h, cloud', nextId'),
         nextId' \in Nat, nextId <= nextId', \A x \in cloud' \ cloud : x.id >= nextId
  PROVE  /\ req' \in [Requests -> Handler]
         /\ \A p \in Requests : HandlerInv(req'[p], cloud', nextId')
<1>1. req' \in [Requests -> Handler]
  BY DEF IInv, Becomes, HandlerInv, HandlerOK
<1>2. ASSUME NEW p \in Requests
      PROVE  HandlerInv(req'[p], cloud', nextId')
  <2>1. CASE p = r
    BY <2>1 DEF IInv, Becomes
  <2>2. CASE p # r
    <3>1. req'[p] = req[p] /\ HandlerInv(req[p], cloud, nextId)
      BY <2>2 DEF IInv, Becomes
    <3>2. HandlerInv(req[p], cloud', nextId')
      BY <3>1, HandlerFrame DEF IInv, StoresInv
    <3>3. QED
      BY <3>1, <3>2
  <2>3. QED
    BY <2>1, <2>2
<1>3. QED
  BY <1>1, <1>2

\* One handler moves on, holding nothing before; the provider only loses resources; and
\* what was recorded and is still there stays recorded or is orphaned.
LEMMA LocalStep ==
  ASSUME IInv, NEW r \in Requests, NEW h,
         Becomes(r, h),
         HandlerInv(h, cloud', nextId'),
         req[r].pc # "record",
         StoresInv', nextId' = nextId, cloud' \subseteq cloud, orphaned \subseteq orphaned',
         \A x \in cloud' : Recorded(x) => Recorded(x)' \/ Orphaned(x)'
  PROVE  IInv'
<1>1. /\ req' \in [Requests -> Handler]
      /\ \A p \in Requests : HandlerInv(req'[p], cloud', nextId')
  BY HandlersInv DEF IInv, StoresInv
<1>2. Accounted'
  <2> SUFFICES ASSUME NEW x \in cloud'
               PROVE  Recorded(x)' \/ InFlight(x)' \/ Orphaned(x)'
    BY DEF Accounted
  <2>1. CASE Recorded(x)
    BY <2>1
  <2>2. CASE InFlight(x)
    <3>1. PICK p \in Requests : x \in req[p].held
      BY <2>2 DEF InFlight
    <3>2. p # r
      BY <3>1 DEF IInv, HandlerInv
    <3>3. req'[p] = req[p]
      BY <3>2 DEF IInv, Becomes
    <3>4. QED
      BY <3>1, <3>3 DEF InFlight
  <2>3. CASE Orphaned(x)
    BY <2>3 DEF Orphaned
  <2>4. QED
    BY <2>1, <2>2, <2>3 DEF IInv, Accounted
<1>3. QED
  BY <1>1, <1>2 DEF IInv

\* The stores are untouched.
LEMMA ReadStep ==
  ASSUME IInv, NEW r \in Requests, NEW h,
         Becomes(r, h),
         HandlerInv(h, cloud, nextId),
         req[r].pc # "record",
         UNCHANGED <<status, rows, snapshot, cloud, orphaned, env>>
  PROVE  IInv'
<1>1. StoresInv'
  BY DEF IInv, StoresInv, env
<1>2. \A x \in cloud' : Recorded(x) => Recorded(x)' \/ Orphaned(x)'
  BY DEF Recorded
<1>3. QED
  BY <1>1, <1>2, LocalStep DEF env

LEMMA ResourcesFinite ==
  ASSUME NEW W, IsFiniteSet(W)
  PROVE  IsFiniteSet(ResourcesOf(W))
<1> DEFINE f == [w \in W |-> w.res]
<1>1. f \in Surjection(W, ResourcesOf(W))
  BY DEF Surjection, ResourcesOf
<1>2. QED
  BY <1>1, FS_Surjection

\* What a query of the rows of a topology returns.
LEMMA RowsOfFacts ==
  ASSUME IInv, NEW t \in Topologies
  PROVE  /\ RowsOf(t) \subseteq Row /\ IsFiniteSet(RowsOf(t))
         /\ \A w \in RowsOf(t) : w.res.id < nextId
         /\ ResourcesOf(RowsOf(t)) \subseteq Resource /\ IsFiniteSet(ResourcesOf(RowsOf(t)))
         /\ \A x \in ResourcesOf(RowsOf(t)) : x.id < nextId
<1>1. RowsOf(t) \subseteq rows
  BY DEF RowsOf
<1>2. RowsOf(t) \subseteq Row /\ IsFiniteSet(RowsOf(t))
  BY <1>1, FS_Subset DEF IInv, StoresInv
<1>3. IsFiniteSet(ResourcesOf(RowsOf(t)))
  BY <1>2, ResourcesFinite
<1>4. QED
  BY <1>1, <1>2, <1>3 DEF IInv, StoresInv, ResourcesOf, Row

-----------------------------------------------------------------------------
(* Requests begin; a scenario takes its next step *)

LEMMA BeginInv ==
  ASSUME IInv, NEW r \in Requests, NEW op, NEW h,
         Begin(r, op), Becomes(r, h), HandlerInv(h, cloud, nextId)
  PROVE  IInv'
<1>1. StoresInv'
  BY DEF IInv, StoresInv, Begin
<1>2. \A x \in cloud' : Recorded(x) => Recorded(x)' \/ Orphaned(x)'
  BY DEF Recorded, Begin
<1>3. QED
  BY <1>1, <1>2, LocalStep DEF Begin

LEMMA BeginDeployInv ==
  ASSUME IInv, NEW r \in Requests, NEW t \in Topologies, BeginDeploy(r, t)
  PROVE  IInv'
<1> DEFINE h == [Idle EXCEPT !.op = "deploy", !.topo = t, !.pc = "list"]
<1>1. h \in Handler
  BY IdleIsHandler DEF Handler, AllOperations, PCs
<1>2. /\ h.held = {} /\ h.listed = {} /\ h.todo = {} /\ h.entries = Idle.entries
      /\ h.file = Idle.file
      /\ h.step = Idle.step
      /\ h.pc = "list"
  BY IdleIsHandler, IdleFields DEF Handler
<1>3. Begin(r, "deploy") /\ Becomes(r, h)
  BY DEF BeginDeploy
<1> HIDE DEF h
<1>4. HandlerInv(h, cloud, nextId)
  BY <1>1, <1>2, IdleFields, FS_EmptySet DEF HandlerInv, HandlerOK
<1>5. QED
  BY <1>3, <1>4, BeginInv

LEMMA BeginScenarioInv ==
  ASSUME IInv, NEW r \in Requests, NEW t \in Topologies, BeginScenario(r, t)
  PROVE  IInv'
<1> DEFINE h == [Idle EXCEPT !.op = "scenario", !.topo = t, !.pc = "next", !.seen = status[t]]
<1>1. h \in Handler
  BY IdleIsHandler DEF Handler, AllOperations, PCs, IInv, StoresInv
<1>2. /\ h.held = {} /\ h.listed = {} /\ h.todo = {} /\ h.entries = Idle.entries
      /\ h.file = Idle.file
      /\ h.step = Idle.step
      /\ h.pc = "next"
  BY IdleIsHandler, IdleFields DEF Handler
<1>3. Begin(r, "scenario") /\ Becomes(r, h)
  BY DEF BeginScenario
<1> HIDE DEF h
<1>4. HandlerInv(h, cloud, nextId)
  BY <1>1, <1>2, IdleFields, FS_EmptySet DEF HandlerInv, HandlerOK
<1>5. QED
  BY <1>3, <1>4, BeginInv

LEMMA BeginDeleteInv ==
  ASSUME IInv, NEW r \in Requests, NEW t \in Topologies, BeginDelete(r, t)
  PROVE  IInv'
<1> DEFINE h == [Idle EXCEPT !.op = "delete", !.topo = t, !.pc = "delete", !.listed = RowsOf(t)]
<1>1. h \in Handler
  BY IdleIsHandler, RowsOfFacts DEF Handler, AllOperations, PCs
<1>2. /\ h.held = {} /\ h.listed = RowsOf(t) /\ h.todo = {} /\ h.entries = Idle.entries
      /\ h.file = Idle.file
      /\ h.step = Idle.step
      /\ h.pc = "delete"
  BY IdleIsHandler, IdleFields DEF Handler
<1>3. Begin(r, "delete") /\ Becomes(r, h)
  BY DEF BeginDelete
<1> HIDE DEF h
<1>4. HandlerInv(h, cloud, nextId)
  BY <1>1, <1>2, IdleFields, RowsOfFacts, FS_EmptySet DEF HandlerInv, HandlerOK
<1>5. QED
  BY <1>3, <1>4, BeginInv

LEMMA ActiveFacts ==
  ASSUME IInv, NEW t \in Topologies
  PROVE  /\ ActiveResources(t) \subseteq Resource /\ IsFiniteSet(ActiveResources(t))
         /\ \A x \in ActiveResources(t) : x.id < nextId
  BY FS_EmptySet DEF ActiveResources, IInv, StoresInv, Entry

LEMMA BeginJanitorInv ==
  ASSUME IInv, NEW r \in Requests, BeginJanitor(r)
  PROVE  IInv'
<1> DEFINE e == [t \in Topologies |-> ActiveResources(t)]
           h == [Idle EXCEPT !.op = "janitor", !.pc = "scan", !.entries = e]
<1>1. /\ e \in [Topologies -> SUBSET Resource]
      /\ \A t \in Topologies : IsFiniteSet(e[t]) /\ \A x \in e[t] : x.id < nextId
  BY ActiveFacts
<1>3. Begin(r, "janitor") /\ Becomes(r, h)
  BY DEF BeginJanitor
<1> HIDE DEF e
<1>2. h \in Handler
  BY <1>1, IdleIsHandler DEF Handler, AllOperations, PCs
<1>4. /\ h.held = {} /\ h.listed = {} /\ h.todo = {} /\ h.entries = e
      /\ h.file = Idle.file /\ h.step = Idle.step
      /\ h.pc = "scan"
  BY IdleIsHandler, IdleFields DEF Handler
<1> HIDE DEF h
<1>5. HandlerInv(h, cloud, nextId)
  BY <1>1, <1>2, <1>4, IdleFields, FS_EmptySet DEF HandlerInv, HandlerOK
<1>6. QED
  BY <1>3, <1>5, BeginInv

\* Changing only the program counter and the operation of a handler that is not in the
\* middle of a teardown.
LEMMA ScenarioStepInv ==
  ASSUME IInv, NEW r \in Requests, ScenarioStep(r)
  PROVE  IInv'
<1>1. req[r] \in Handler /\ HandlerInv(req[r], cloud, nextId) /\ req[r].pc # "record"
  BY DEF IInv, HandlerInv, HandlerOK, ScenarioStep
<1>2. PICK h : Becomes(r, h) /\ HandlerInv(h, cloud, nextId)
  <2>1. \/ Becomes(r, [req[r] EXCEPT !.pc = "list"])
        \/ Becomes(r, [req[r] EXCEPT !.pc = "cleanup"])
        \/ Becomes(r, [req[r] EXCEPT !.pc = "cleanup", !.op = "final", !.seen = "EXPIRED"])
        \/ Becomes(r, Idle)
    BY DEF ScenarioStep
  <2>2. ASSUME NEW op \in AllOperations \cup {"none", "final"}, NEW pc \in {"list", "cleanup"},
               NEW seen \in Statuses \cup {"ABSENT", "EXPIRED"}
        PROVE  HandlerInv([req[r] EXCEPT !.pc = pc, !.op = op, !.seen = seen], cloud, nextId)
    <3> DEFINE h == [req[r] EXCEPT !.pc = pc, !.op = op, !.seen = seen]
    <3>1. req[r].pc \in {"next", "wrapup"} /\ req[r].step \in Steps
      BY <1>1 DEF ScenarioStep, HandlerInv
    <3>2. h \in Handler
      BY <1>1 DEF Handler, PCs
    <3>3. /\ h.held = req[r].held /\ h.listed = req[r].listed /\ h.todo = req[r].todo
          /\ h.entries = req[r].entries /\ h.file = req[r].file /\ h.step = req[r].step
          /\ h.pc \in {"list", "cleanup"}
      BY <1>1 DEF Handler
    <3> HIDE DEF h
    <3>4. HandlerInv(h, cloud, nextId)
      BY <1>1, <3>1, <3>2, <3>3 DEF HandlerInv, HandlerOK
    <3>5. QED
      BY <3>4 DEF h
  <2>3. /\ [req[r] EXCEPT !.pc = "list"]
           = [req[r] EXCEPT !.pc = "list", !.op = req[r].op, !.seen = req[r].seen]
        /\ [req[r] EXCEPT !.pc = "cleanup"]
           = [req[r] EXCEPT !.pc = "cleanup", !.op = req[r].op, !.seen = req[r].seen]
        /\ req[r].op \in AllOperations \cup {"none", "final"}
        /\ req[r].seen \in Statuses \cup {"ABSENT", "EXPIRED"}
    BY <1>1 DEF Handler
  <2>4. HandlerInv(Idle, cloud, nextId)
    BY IdleInv DEF IInv, StoresInv
  <2>5. QED
    BY <2>1, <2>2, <2>3, <2>4
<1>3. StoresInv'
  BY DEF IInv, StoresInv, ScenarioStep
<1>4. \A x \in cloud' : Recorded(x) => Recorded(x)' \/ Orphaned(x)'
  BY DEF Recorded, ScenarioStep
<1>5. QED
  BY <1>1, <1>2, <1>3, <1>4, LocalStep DEF ScenarioStep

-----------------------------------------------------------------------------
(* deploy_topology: is there anything to do? *)

\* What holds of the handler that takes a step.
LEMMA Acting ==
  ASSUME IInv, NEW r \in Requests
  PROVE  /\ HandlerInv(req[r], cloud, nextId)
         /\ HandlerOK(req[r])
         /\ req[r] \in Handler
         /\ req[r].topo \in Topologies
         /\ status[req[r].topo] \in Statuses \cup {"ABSENT"}
         /\ Loaded(r) \in Statuses \cup {"ABSENT", "EXPIRED"}
         /\ nextId \in Nat \ {0}
  BY DEF IInv, StoresInv, HandlerInv, HandlerOK, Handler, Loaded

\* The status column after a commit is well typed.
LEMMA CommittedType ==
  ASSUME IInv, NEW r \in Requests, NEW s \in Statuses
  PROVE  /\ Committed(r, s) \in [Topologies -> Statuses \cup {"ABSENT"}]
         /\ Exists(req[r].topo) => Committed(r, s)[req[r].topo] \in Statuses
<1>1. status \in [Topologies -> Statuses \cup {"ABSENT"}] /\ req[r].topo \in Topologies
  BY Acting DEF IInv, StoresInv
<1>2. QED
  BY <1>1 DEF Committed, Exists

LEMMA RaiseInv ==
  ASSUME IInv, NEW r \in Requests, Raise(r)
  PROVE  \E h : Becomes(r, h) /\ HandlerInv(h, cloud, nextId)
  BY Acting, EndedInv DEF Raise

LEMMA ListRowsInv ==
  ASSUME IInv, NEW r \in Requests, ListRows(r)
  PROVE  IInv'
<1> DEFINE t == req[r].topo
           h == [req[r] EXCEPT !.pc = IF HasRows(t) THEN "finish" ELSE "hydrate",
                               !.seen = Loaded(r), !.gen = gen[t], !.listed = RowsOf(t)]
<1>1. PICK k : Becomes(r, k) /\ HandlerInv(k, cloud, nextId)
  <2>1. CASE Vanished(r) /\ Raise(r)
    BY <2>1, RaiseInv
  <2>2. CASE Becomes(r, h)
    <3>1. /\ gen[t] \in Nat /\ RowsOf(t) \in SUBSET Row /\ req[r] \in Handler
          /\ Loaded(r) \in Statuses \cup {"ABSENT", "EXPIRED"}
      BY Acting, RowsOfFacts DEF IInv, StoresInv
    <3>2. h \in Handler
      BY <3>1 DEF Handler, PCs
    <3>3. /\ h.held = req[r].held /\ h.todo = req[r].todo /\ h.entries = req[r].entries
          /\ h.file = req[r].file
          /\ h.step = req[r].step
          /\ h.listed = RowsOf(t) /\ h.pc \in {"hydrate", "finish"}
      BY Acting DEF Handler
    <3>4. req[r].pc = "list"
      BY DEF ListRows
    <3> HIDE DEF h
    <3>5. HandlerInv(h, cloud, nextId)
      BY <3>2, <3>3, <3>4, Acting, RowsOfFacts DEF HandlerInv, HandlerOK
    <3>6. QED
      BY <2>2, <3>5
  <2>3. QED
    BY <2>1, <2>2 DEF ListRows
<1>2. QED
  BY <1>1, ReadStep DEF ListRows

LEMMA ReadSnapshotInv ==
  ASSUME IInv, NEW r \in Requests, ReadSnapshot(r)
  PROVE  IInv'
<1> DEFINE found == ActiveResources(req[r].topo)
           h == [req[r] EXCEPT !.pc = IF found = {} THEN "relist" ELSE "insert",
                               !.todo = found]
<1>0. req[r] \in Handler /\ found \in SUBSET Resource
  BY Acting, ActiveFacts
<1>1. h \in Handler
  BY <1>0 DEF Handler, PCs
<1>2. /\ h.held = req[r].held /\ h.listed = req[r].listed /\ h.entries = req[r].entries
      /\ h.file = req[r].file
      /\ h.step = req[r].step
      /\ h.todo = found /\ h.pc \in {"relist", "insert"}
  BY Acting DEF Handler
<1>3. Becomes(r, h) /\ req[r].pc = "hydrate"
  BY DEF ReadSnapshot
<1> HIDE DEF h
<1>4. HandlerInv(h, cloud, nextId)
  BY <1>1, <1>2, <1>3, Acting, ActiveFacts DEF HandlerInv, HandlerOK
<1>5. QED
  BY <1>3, <1>4, ReadStep DEF ReadSnapshot

\* Rows inserted in one commit are well typed.
LEMMA InsertedFacts ==
  ASSUME IInv, NEW S \in SUBSET Resource, IsFiniteSet(S), \A x \in S : x.id < nextId,
         NEW t \in Topologies, NEW top \in Tops
  PROVE  /\ Inserted(S, t, top) \subseteq Row
         /\ IsFiniteSet(Inserted(S, t, top))
         /\ \A w \in Inserted(S, t, top) : w.res.id < nextId
<1> DEFINE f == [x \in S |-> [id |-> top + Cardinality({y \in S : y.id <= x.id}),
                              topo |-> t, res |-> x]]
<1>1. top \in Nat
  BY DEF Tops, IdsOf, IInv, StoresInv, Row
<1>2. ASSUME NEW x \in S
      PROVE  Cardinality({y \in S : y.id <= x.id}) \in Nat
  BY FS_Subset, FS_CardinalityType
<1>3. \A x \in S : f[x] \in Row /\ f[x].res = x
  BY <1>1, <1>2 DEF Row
<1>4. \A w \in Inserted(S, t, top) : \E x \in S : w = f[x]
  BY DEF Inserted
<1>5. f \in Surjection(S, Inserted(S, t, top))
  BY DEF Surjection, Inserted
<1>6. IsFiniteSet(Inserted(S, t, top))
  BY <1>5, FS_Surjection
<1> HIDE DEF f
<1>7. QED
  BY <1>3, <1>4, <1>6

LEMMA InsertRowsInv ==
  ASSUME IInv, NEW r \in Requests, InsertRows(r)
  PROVE  IInv'
<1> DEFINE t == req[r].topo
           h == [req[r] EXCEPT !.pc = "relist", !.todo = {}, !.seen = status'[t]]
<1>1. status' \in [Topologies -> Statuses \cup {"ABSENT"}]
  BY CommittedType DEF InsertRows, IInv, StoresInv, Statuses
<1>2. /\ rows \subseteq rows' /\ rows' \subseteq Row /\ IsFiniteSet(rows')
      /\ \A w \in rows' : w.res.id < nextId
  <2>1. CASE UNCHANGED rows
    BY <2>1 DEF IInv, StoresInv
  <2>2. CASE \E top \in Tops : IsTop(top) /\ rows' = rows \cup Inserted(req[r].todo, t, top)
    <3>1. PICK top \in Tops : rows' = rows \cup Inserted(req[r].todo, t, top)
      BY <2>2
    <3>2. /\ req[r].todo \in SUBSET Resource /\ IsFiniteSet(req[r].todo)
          /\ \A x \in req[r].todo : x.id < nextId
      BY Acting DEF HandlerInv, HandlerOK, Handler
    <3>3. QED
      BY <3>1, <3>2, Acting, InsertedFacts, FS_Union DEF IInv, StoresInv
  <2>3. QED
    BY <2>1, <2>2 DEF InsertRows
<1>3. PICK k : Becomes(r, k) /\ HandlerInv(k, cloud, nextId)
  <2>1. CASE Raise(r)
    BY <2>1, RaiseInv
  <2>2. CASE Becomes(r, h)
    <3>0. req[r] \in Handler /\ status'[t] \in Statuses \cup {"ABSENT"}
      BY <1>1, Acting
    <3>1. h \in Handler
      BY <3>0 DEF Handler, PCs
    <3>2. /\ h.held = req[r].held /\ h.listed = req[r].listed /\ h.entries = req[r].entries
          /\ h.file = req[r].file
          /\ h.step = req[r].step
          /\ h.todo = {} /\ h.pc = "relist"
      BY Acting DEF Handler
    <3>3. req[r].pc = "insert"
      BY DEF InsertRows
    <3> HIDE DEF h
    <3>4. HandlerInv(h, cloud, nextId)
      BY <3>1, <3>2, <3>3, Acting, FS_EmptySet DEF HandlerInv, HandlerOK
    <3>5. QED
      BY <2>2, <3>4
  <2>3. QED
    BY <2>1, <2>2 DEF InsertRows
<1>4. UNCHANGED <<snapshot, cloud, orphaned, env>> /\ req[r].pc = "insert"
  BY DEF InsertRows
<1>5. StoresInv'
  BY <1>1, <1>2, <1>4 DEF IInv, StoresInv, env
<1>6. \A x \in cloud' : Recorded(x) => Recorded(x)' \/ Orphaned(x)'
  BY <1>2 DEF Recorded
<1>7. QED
  BY <1>3, <1>4, <1>5, <1>6, LocalStep DEF env

LEMMA RelistInv ==
  ASSUME IInv, NEW r \in Requests, Relist(r)
  PROVE  IInv'
<1> DEFINE t == req[r].topo
           h == [req[r] EXCEPT !.pc = IF HasRows(t) THEN "finish" ELSE "create",
                               !.listed = RowsOf(t)]
<1>0. req[r] \in Handler /\ RowsOf(t) \in SUBSET Row
  BY Acting, RowsOfFacts
<1>1. h \in Handler
  BY <1>0 DEF Handler, PCs
<1>2. /\ h.held = req[r].held /\ h.todo = req[r].todo /\ h.entries = req[r].entries
      /\ h.file = req[r].file
      /\ h.step = req[r].step
      /\ h.listed = RowsOf(t) /\ h.pc \in {"create", "finish"}
  BY Acting DEF Handler
<1>3. Becomes(r, h) /\ req[r].pc = "relist"
  BY DEF Relist
<1> HIDE DEF h
<1>4. HandlerInv(h, cloud, nextId)
  BY <1>1, <1>2, <1>3, Acting, RowsOfFacts DEF HandlerInv, HandlerOK
<1>5. QED
  BY <1>3, <1>4, ReadStep DEF Relist

\* A commit that writes only the status column.
LEMMA StatusStep ==
  ASSUME IInv, NEW r \in Requests, NEW h,
         Becomes(r, h),
         HandlerInv(h, cloud, nextId),
         req[r].pc # "record",
         status' \in [Topologies -> Statuses \cup {"ABSENT"}],
         UNCHANGED <<rows, snapshot, cloud, orphaned, env>>
  PROVE  IInv'
<1>1. StoresInv'
  BY DEF IInv, StoresInv, env
<1>2. \A x \in cloud' : Recorded(x) => Recorded(x)' \/ Orphaned(x)'
  BY DEF Recorded
<1>3. QED
  BY <1>1, <1>2, LocalStep DEF env

LEMMA FaultFacts ==
  ASSUME IInv, NEW kind, Fault(kind)
  PROVE  faults' \in Nat /\ UNCHANGED <<nextId, gen, begun>>
  BY DEF Fault, IInv, StoresInv

\* What a write of state.json can leave there.
LEMMA WriteFacts ==
  ASSUME IInv, NEW r \in Requests, NEW entry \in Entry, WriteEntry(r, entry),
         IsFiniteSet(entry.resources), \A x \in entry.resources : x.id < nextId
  PROVE  /\ snapshot' \in [Topologies -> Entry]
         /\ \A u \in Topologies :
              /\ IsFiniteSet(snapshot'[u].resources)
              /\ \A x \in snapshot'[u].resources : x.id < nextId
         /\ faults' \in Nat /\ UNCHANGED <<nextId, gen, begun>>
<1> DEFINE t == req[r].topo
<1>1. CASE Fault("write") /\ UNCHANGED snapshot
  BY <1>1, FaultFacts DEF IInv, StoresInv
<1>2. ASSUME NEW f \in req[r].file, snapshot' = Saved(f, t, entry), UNCHANGED env
      PROVE  /\ snapshot' \in [Topologies -> Entry]
             /\ \A u \in Topologies :
                  /\ IsFiniteSet(snapshot'[u].resources)
                  /\ \A x \in snapshot'[u].resources : x.id < nextId
             /\ faults' \in Nat /\ UNCHANGED <<nextId, gen, begun>>
  <2>1. CASE UNCHANGED snapshot
    BY <1>2, <2>1 DEF IInv, StoresInv, env
  <2>2. CASE snapshot' = [f EXCEPT ![t] = entry]
    <3>1. /\ f \in [Topologies -> Entry]
          /\ \A u \in Topologies :
               IsFiniteSet(f[u].resources) /\ \A x \in f[u].resources : x.id < nextId
      BY Acting DEF HandlerInv, HandlerOK, Handler
    <3>2. /\ snapshot' \in [Topologies -> Entry]
          /\ \A u \in Topologies : snapshot'[u] = IF u = t THEN entry ELSE f[u]
      BY <2>2, <3>1
    <3>3. faults' \in Nat /\ UNCHANGED <<nextId, gen, begun>>
      BY <1>2 DEF IInv, StoresInv, env
    <3>4. QED
      BY <3>1, <3>2, <3>3
  <2>3. QED
    BY <1>2, <2>1, <2>2 DEF Saved
<1>3. QED
  BY <1>1, <1>2 DEF WriteEntry

\* A best-effort write of state.json and nothing else.
LEMMA WriteStep ==
  ASSUME IInv, NEW r \in Requests, NEW h, NEW entry \in Entry,
         Becomes(r, h),
         HandlerInv(h, cloud, nextId),
         req[r].pc # "record",
         WriteEntry(r, entry),
         IsFiniteSet(entry.resources), \A x \in entry.resources : x.id < nextId,
         UNCHANGED <<status, rows, cloud, orphaned>>
  PROVE  IInv'
<1>1. StoresInv'
  BY WriteFacts DEF IInv, StoresInv
<1>2. \A x \in cloud' : Recorded(x) => Recorded(x)' \/ Orphaned(x)'
  BY DEF Recorded
<1>3. QED
  BY <1>1, <1>2, WriteFacts, LocalStep

\* load_state.
LEMMA LoadStateInv ==
  ASSUME IInv, NEW r \in Requests, LoadState(r)
  PROVE  IInv'
<1> DEFINE h == [req[r] EXCEPT !.file = {snapshot}, !.seen = Loaded(r)]
<1>1. /\ req[r] \in Handler /\ req[r].pc \in Saving /\ Becomes(r, h)
      /\ Loaded(r) \in Statuses \cup {"ABSENT", "EXPIRED"}
      /\ req[r].pc = "snapshot" => Loaded(r) \in Statuses
  BY Acting DEF LoadState, HandlerInv, Loaded, Statuses
<1>2. /\ {snapshot} \in SUBSET [Topologies -> Entry]
      /\ \A t \in Topologies :
           IsFiniteSet(snapshot[t].resources) /\ \A x \in snapshot[t].resources : x.id < nextId
  BY DEF IInv, StoresInv
<1>3. h \in Handler
  BY <1>1, <1>2 DEF Handler
<1>4. /\ h.held = req[r].held /\ h.todo = req[r].todo /\ h.listed = req[r].listed
      /\ h.entries = req[r].entries /\ h.step = req[r].step
      /\ h.file = {snapshot} /\ h.seen = Loaded(r) /\ h.pc = req[r].pc
  BY <1>1 DEF Handler
<1> HIDE DEF h
<1>5. HandlerOK(h)
  BY <1>2, <1>3, <1>4, Acting DEF HandlerOK
<1>6. HandlerInv(h, cloud, nextId)
  BY <1>1, <1>2, <1>4, <1>5, Acting DEF HandlerInv, Saving
<1>7. QED
  BY <1>1, <1>6, ReadStep DEF LoadState, Saving

LEMMA FinishIdempotentInv ==
  ASSUME IInv, NEW r \in Requests, FinishIdempotent(r)
  PROVE  IInv'
<1> DEFINE t == req[r].topo
           again == {w \in rows : w.id \in IdsOf(req[r].listed)}
           h == [req[r] EXCEPT !.pc = "snapshot", !.listed = again, !.seen = status'[t]]
<1>1. status' \in [Topologies -> Statuses \cup {"ABSENT"}]
  BY CommittedType DEF FinishIdempotent, IInv, StoresInv, Statuses
<1>2. PICK k : Becomes(r, k) /\ HandlerInv(k, cloud, nextId)
  <2>1. CASE Raise(r)
    BY <2>1, RaiseInv
  <2>2. CASE Becomes(r, h) /\ status'[t] \in Statuses
    <3>1. again \in SUBSET Row /\ IsFiniteSet(again) /\ \A w \in again : w.res.id < nextId
      BY FS_Subset DEF IInv, StoresInv
    <3>2. req[r] \in Handler /\ status'[t] \in Statuses \cup {"ABSENT"}
      BY <1>1, Acting
    <3> HIDE DEF again
    <3>3. h \in Handler
      BY <3>1, <3>2 DEF Handler, PCs
    <3>4. /\ h.held = req[r].held /\ h.todo = req[r].todo /\ h.entries = req[r].entries
          /\ h.file = req[r].file
          /\ h.step = req[r].step
          /\ h.listed = again /\ h.pc = "snapshot" /\ h.seen = status'[t]
      BY <3>2 DEF Handler
    <3>5. req[r].pc = "finish"
      BY DEF FinishIdempotent
    <3> HIDE DEF h
    <3>6. HandlerInv(h, cloud, nextId)
      BY <2>2, <3>1, <3>3, <3>4, <3>5, Acting DEF HandlerInv, HandlerOK
    <3>7. QED
      BY <2>2, <3>6
  <2>3. QED
    BY <2>1, <2>2, CommittedType DEF FinishIdempotent, Statuses
<1>3. QED
  BY <1>1, <1>2, StatusStep DEF FinishIdempotent

LEMMA WriteSnapshotInv ==
  ASSUME IInv, NEW r \in Requests, WriteSnapshot(r)
  PROVE  IInv'
<1> DEFINE listed == req[r].listed
           entry == [status |-> req[r].seen, resources |-> ResourcesOf(listed)]
<1>1. listed \subseteq Row /\ IsFiniteSet(listed) /\ \A w \in listed : w.res.id < nextId
  BY Acting DEF HandlerInv, HandlerOK, Handler
<1>2. /\ ResourcesOf(listed) \subseteq Resource /\ IsFiniteSet(ResourcesOf(listed))
      /\ \A x \in ResourcesOf(listed) : x.id < nextId
  BY <1>1, ResourcesFinite DEF ResourcesOf, Row
<1>3. req[r].seen \in Statuses /\ req[r].pc = "snapshot"
  BY Acting DEF WriteSnapshot, HandlerInv
<1>4. entry \in Entry /\ entry.resources = ResourcesOf(listed)
  BY <1>2, <1>3 DEF Entry
<1>5. /\ WriteEntry(r, entry) /\ Becomes(r, Ended(r, "ok"))
      /\ UNCHANGED <<status, rows, cloud, orphaned>>
  BY DEF WriteSnapshot
<1> HIDE DEF entry
<1>6. HandlerInv(Ended(r, "ok"), cloud, nextId)
  BY Acting, EndedInv
<1>7. QED
  BY <1>2, <1>3, <1>4, <1>5, <1>6, Acting, WriteStep

-----------------------------------------------------------------------------
(* deploy_topology: the create loop *)

\* What the provider is asked for is a new resource.
LEMMA NewResourceFacts ==
  ASSUME IInv, NEW r \in Requests, req[r].pc = "create"
  PROVE  /\ NewResource(r) \in Resource /\ NewResource(r).id = nextId
         /\ KindOf(NewResource(r)) = "network" => NewResource(r).net = 0
<1> DEFINE q == req[r]
<1>1. /\ q.step \in Steps /\ q.topo \in Topologies /\ q.gen \in Nat
      /\ q.made \in [Steps -> Nat] /\ nextId \in Nat \ {0}
  BY Acting DEF HandlerInv, Handler
<1>2. Plan[q.step].net # 0 => Plan[q.step].net \in Steps
  <2>1. q.step \in 1..Len(Plan) /\ Len(Plan) \in Nat
    BY <1>1, PlanAssumption DEF Steps
  <2>2. Plan[q.step].net = 0 \/ Plan[q.step].net \in 1..(q.step - 1)
    BY <1>1, PlanAssumption
  <2>3. QED
    BY <2>1, <2>2 DEF Steps
<1>3. NewResource(r) \in Resource /\ NewResource(r).id = nextId
  BY <1>1, <1>2 DEF NewResource, Resource
<1>4. Plan[q.step].kind = "network" => Plan[q.step].net = 0
  BY <1>1, PlanAssumption
<1>5. NewResource(r).step = q.step /\ (Plan[q.step].net = 0 => NewResource(r).net = 0)
  BY DEF NewResource
<1>6. QED
  BY <1>3, <1>4, <1>5 DEF KindOf

LEMMA CreateInv ==
  ASSUME IInv, NEW r \in Requests, Create(r)
  PROVE  IInv'
<1> DEFINE x == NewResource(r)
           h == [req[r] EXCEPT !.pc = "record", !.held = {x}, !.tries = 0]
<1>1. /\ req[r].pc = "create" /\ cloud' = cloud \cup {x} /\ nextId' = nextId + 1
      /\ Becomes(r, h)
      /\ UNCHANGED <<status, rows, snapshot, gen, orphaned, faults, begun>>
  BY DEF Create
<1>2. /\ x \in Resource /\ x.id = nextId /\ nextId \in Nat \ {0} /\ req[r] \in Handler
      /\ KindOf(x) = "network" => x.net = 0
  BY <1>1, NewResourceFacts, Acting
<1> HIDE DEF x
<1>0. {x} \in SUBSET Resource /\ 0 \in 0..Retries
  BY <1>2, BoundAssumption
<1>3. h \in Handler
  BY <1>0, <1>2 DEF Handler, PCs
<1>4. /\ h.held = {x} /\ h.todo = req[r].todo /\ h.listed = req[r].listed
      /\ h.entries = req[r].entries /\ h.file = req[r].file
      /\ h.step = req[r].step /\ h.pc = "record"
  BY <1>2 DEF Handler
<1> HIDE DEF h
<1>5. HandlerInv(h, cloud', nextId')
  <2>1. HandlerInv(req[r], cloud', nextId')
    BY <1>1, <1>2, Acting, HandlerFrame
  <2>2. IsFiniteSet(h.held) /\ HandlerOK(h)
    <3>1. HandlerOK(h)
      BY <2>1, <1>3, <1>4 DEF HandlerInv, HandlerOK
    <3>2. IsFiniteSet(h.held)
      BY <1>4, FS_Singleton
    <3>3. QED
      BY <3>1, <3>2
  <2>3. \A y \in h.held \cup h.todo : y.id < nextId'
    BY <2>1, <1>1, <1>2, <1>4 DEF HandlerInv
  <2>4. QED
    BY <2>1, <2>2, <2>3, <1>1, <1>4 DEF HandlerInv
<1>6. /\ req' \in [Requests -> Handler]
      /\ \A p \in Requests : HandlerInv(req'[p], cloud', nextId')
  <2>1. \A y \in cloud' \ cloud : y.id >= nextId
    BY <1>1, <1>2
  <2>2. nextId' \in Nat /\ nextId <= nextId'
    BY <1>1, <1>2
  <2>3. QED
    BY <2>1, <2>2, <1>1, <1>5, HandlersInv
<1>7. StoresInv'
  <2>1. /\ \A w \in rows : w.res.id \in Nat
        /\ \A t \in Topologies : \A y \in snapshot[t].resources : y.id \in Nat
    BY DEF IInv, StoresInv, Row, Resource, Entry
  <2>2. \A y \in cloud' : KindOf(y) = "network" => y.net = 0
    BY <1>1, <1>2 DEF IInv, StoresInv
  <2>3. QED
    BY <2>1, <2>2, <1>1, <1>2 DEF IInv, StoresInv
<1>8. Accounted'
  <2> SUFFICES ASSUME NEW y \in cloud'
               PROVE  Recorded(y)' \/ InFlight(y)' \/ Orphaned(y)'
    BY DEF Accounted
  <2>1. CASE y = x
    <3>1. y \in req'[r].held
      BY <2>1, <1>1, <1>4 DEF Becomes, IInv
    <3>2. QED
      BY <3>1 DEF InFlight
  <2>2. CASE y \in cloud /\ InFlight(y)
    <3>1. PICK p \in Requests : y \in req[p].held
      BY <2>2 DEF InFlight
    <3>2. p # r
      BY <3>1, <1>1 DEF IInv, HandlerInv
    <3>3. req'[p] = req[p]
      BY <3>2, <1>1 DEF IInv, Becomes
    <3>4. QED
      BY <3>1, <3>3 DEF InFlight
  <2>3. CASE y \in cloud /\ ~InFlight(y)
    BY <2>3, <1>1 DEF IInv, Accounted, Recorded, Orphaned
  <2>4. QED
    BY <2>1, <2>2, <2>3, <1>1
<1>9. QED
  BY <1>6, <1>7, <1>8 DEF IInv

\* A call that raised is tried again, or the deploy fails.
LEMMA RetryInv ==
  ASSUME IInv, NEW r \in Requests, req[r].pc = "create",
         RetryOrFail(r) \/ Becomes(r, [req[r] EXCEPT !.pc = "fail"])
  PROVE  \E h : Becomes(r, h) /\ HandlerInv(h, cloud, nextId)
<1>1. req[r] \in Handler /\ HandlerInv(req[r], cloud, nextId)
  BY Acting
<1>2. CASE req[r].tries < Retries /\ Becomes(r, [req[r] EXCEPT !.tries = req[r].tries + 1])
  <2> DEFINE h == [req[r] EXCEPT !.tries = req[r].tries + 1]
  <2>1. h \in Handler
    BY <1>1, <1>2, BoundAssumption DEF Handler
  <2>2. /\ h.held = req[r].held /\ h.todo = req[r].todo /\ h.listed = req[r].listed
        /\ h.entries = req[r].entries /\ h.file = req[r].file
        /\ h.step = req[r].step /\ h.pc = "create"
    BY <1>1 DEF Handler
  <2>3. Becomes(r, h)
    BY <1>2
  <2> HIDE DEF h
  <2>4. HandlerInv(h, cloud, nextId)
    BY <1>1, <2>1, <2>2 DEF HandlerInv, HandlerOK
  <2>5. QED
    BY <2>3, <2>4
<1>3. CASE Becomes(r, [req[r] EXCEPT !.pc = "fail"])
  <2> DEFINE h == [req[r] EXCEPT !.pc = "fail"]
  <2>1. h \in Handler
    BY <1>1 DEF Handler, PCs
  <2>2. /\ h.held = req[r].held /\ h.todo = req[r].todo /\ h.listed = req[r].listed
        /\ h.entries = req[r].entries /\ h.file = req[r].file
        /\ h.step = req[r].step /\ h.pc = "fail"
    BY <1>1 DEF Handler
  <2>3. Becomes(r, h)
    BY <1>3
  <2> HIDE DEF h
  <2>4. HandlerInv(h, cloud, nextId)
    BY <1>1, <2>1, <2>2 DEF HandlerInv, HandlerOK
  <2>5. QED
    BY <2>3, <2>4
<1>4. QED
  BY <1>2, <1>3 DEF RetryOrFail

LEMMA CreateRefusedInv ==
  ASSUME IInv, NEW r \in Requests, CreateRefused(r)
  PROVE  IInv'
<1>1. PICK h : Becomes(r, h) /\ HandlerInv(h, cloud, nextId)
  BY RetryInv DEF CreateRefused
<1>2. /\ req[r].pc = "create" /\ UNCHANGED <<status, rows, snapshot, cloud, orphaned>>
      /\ faults' \in Nat /\ UNCHANGED <<nextId, gen, begun>>
  BY FaultFacts DEF CreateRefused, env, IInv, StoresInv
<1>3. StoresInv'
  BY <1>2 DEF IInv, StoresInv
<1>4. \A x \in cloud' : Recorded(x) => Recorded(x)' \/ Orphaned(x)'
  BY <1>2 DEF Recorded
<1>5. QED
  BY <1>1, <1>2, <1>3, <1>4, LocalStep

LEMMA CreateUnansweredInv ==
  ASSUME IInv, NEW r \in Requests, CreateUnanswered(r)
  PROVE  IInv'
<1> DEFINE x == NewResource(r)
<1>1. /\ req[r].pc = "create" /\ cloud' = cloud \cup {x} /\ nextId' = nextId + 1
      /\ orphaned' = orphaned \cup {<<"answer", x>>} /\ faults' = faults + 1
      /\ RetryOrFail(r)
      /\ UNCHANGED <<status, rows, snapshot, gen, begun>>
  BY DEF CreateUnanswered
<1>2. /\ x \in Resource /\ x.id = nextId /\ nextId \in Nat \ {0}
      /\ KindOf(x) = "network" => x.net = 0
  BY <1>1, NewResourceFacts, Acting
<1>3. PICK h : Becomes(r, h) /\ HandlerInv(h, cloud, nextId)
  BY <1>1, RetryInv
<1> HIDE DEF x
<1>4. /\ \A y \in cloud' \ cloud : y.id >= nextId
      /\ nextId' \in Nat /\ nextId <= nextId'
  BY <1>1, <1>2
<1>5. HandlerInv(h, cloud', nextId')
  BY <1>2, <1>3, <1>4, HandlerFrame
<1>6. /\ req' \in [Requests -> Handler]
      /\ \A p \in Requests : HandlerInv(req'[p], cloud', nextId')
  BY <1>3, <1>4, <1>5, HandlersInv
<1>7. StoresInv'
  <2>1. /\ \A w \in rows : w.res.id \in Nat
        /\ \A t \in Topologies : \A y \in snapshot[t].resources : y.id \in Nat
    BY DEF IInv, StoresInv, Row, Resource, Entry
  <2>2. <<"answer", x>> \in Causes \X Resource
    BY <1>2 DEF Causes
  <2>3. \A y \in cloud' : KindOf(y) = "network" => y.net = 0
    BY <1>1, <1>2 DEF IInv, StoresInv
  <2>4. QED
    BY <2>1, <2>2, <2>3, <1>1, <1>2 DEF IInv, StoresInv
<1>8. Accounted'
  <2> SUFFICES ASSUME NEW y \in cloud'
               PROVE  Recorded(y)' \/ InFlight(y)' \/ Orphaned(y)'
    BY DEF Accounted
  <2>1. CASE y = x
    BY <2>1, <1>1 DEF Orphaned, Causes
  <2>2. CASE y \in cloud /\ InFlight(y)
    <3>1. PICK p \in Requests : y \in req[p].held
      BY <2>2 DEF InFlight
    <3>2. p # r
      BY <3>1, <1>1 DEF IInv, HandlerInv
    <3>3. req'[p] = req[p]
      BY <3>2, <1>3 DEF IInv, Becomes
    <3>4. QED
      BY <3>1, <3>3 DEF InFlight
  <2>3. CASE y \in cloud /\ ~InFlight(y)
    BY <2>3, <1>1 DEF IInv, Accounted, Recorded, Orphaned
  <2>4. QED
    BY <2>1, <2>2, <2>3, <1>1
<1>9. QED
  BY <1>6, <1>7, <1>8 DEF IInv

LEMMA RecordRowInv ==
  ASSUME IInv, NEW r \in Requests, RecordRow(r)
  PROVE  IInv'
<1> DEFINE q == req[r]
           row(top, x) == [id |-> top + 1, topo |-> q.topo, res |-> x]
           h(x) == [req[r] EXCEPT
                      !.pc = IF q.step = Len(Plan) THEN "activate" ELSE "create",
                      !.step = q.step + 1, !.made = [q.made EXCEPT ![q.step] = x.id],
                      !.held = {}, !.seen = "EXPIRED"]
<1>1. /\ q \in Handler /\ q.pc = "record" /\ q.step \in Steps /\ q.topo \in Topologies
      /\ q.held \subseteq Resource /\ IsFiniteSet(q.held) /\ \A x \in q.held : x.id < nextId
      /\ UNCHANGED <<status, snapshot, cloud, env>>
  BY Acting DEF RecordRow, HandlerInv, Handler
<1>2. \/ /\ Raise(r) /\ UNCHANGED rows
         /\ orphaned' = orphaned \cup {<<"abort", x>> : x \in q.held}
      \/ /\ UNCHANGED orphaned
         /\ \E top \in Tops : rows' = rows \cup {row(top, x) : x \in q.held}
         /\ \E x \in q.held : Becomes(r, h(x))
  BY DEF RecordRow
<1>3. PICK k : Becomes(r, k) /\ HandlerInv(k, cloud, nextId)
  <2>1. CASE Raise(r)
    BY <2>1, RaiseInv
  <2>2. ASSUME NEW x \in q.held, Becomes(r, h(x))
        PROVE  HandlerInv(h(x), cloud, nextId)
    <3>1. /\ [q.made EXCEPT ![q.step] = x.id] \in [Steps -> Nat]
          /\ q.step + 1 \in Nat
          /\ q.step = Len(Plan) \/ q.step + 1 \in Steps
      <4>1. q.made \in [Steps -> Nat] /\ x.id \in Nat
        BY <1>1, <2>2 DEF Handler, Resource
      <4>2. Len(Plan) \in Nat
        BY PlanAssumption
      <4>3. QED
        BY <1>1, <4>1, <4>2 DEF Steps
    <3>2. h(x) \in Handler
      BY <1>1, <3>1 DEF Handler, PCs
    <3>3. /\ h(x).held = {} /\ h(x).todo = q.todo /\ h(x).listed = q.listed
          /\ h(x).entries = q.entries /\ h(x).file = q.file /\ h(x).step = q.step + 1
          /\ h(x).pc = IF q.step = Len(Plan) THEN "activate" ELSE "create"
      BY <1>1 DEF Handler
    <3> HIDE DEF h
    <3>4. HandlerInv(q, cloud, nextId)
      BY Acting
    <3>5. HandlerOK(h(x)) /\ IsFiniteSet(h(x).held)
      BY <3>2, <3>3, <3>4, FS_EmptySet DEF HandlerInv, HandlerOK
    <3>6. QED
      BY <3>1, <3>3, <3>4, <3>5 DEF HandlerInv
  <2>3. QED
    BY <1>2, <2>1, <2>2
<1>4. /\ rows \subseteq rows' /\ rows' \subseteq Row /\ IsFiniteSet(rows')
      /\ \A w \in rows' : w.res.id < nextId
  <2>1. CASE UNCHANGED rows
    BY <2>1 DEF IInv, StoresInv
  <2>2. ASSUME NEW top \in Tops, rows' = rows \cup {row(top, x) : x \in q.held}
        PROVE  /\ rows \subseteq rows' /\ rows' \subseteq Row /\ IsFiniteSet(rows')
               /\ \A w \in rows' : w.res.id < nextId
    <3> DEFINE f == [x \in q.held |-> row(top, x)]
    <3>1. top \in Nat
      BY DEF Tops, IdsOf, IInv, StoresInv, Row
    <3>2. {row(top, x) : x \in q.held} \subseteq Row
      BY <3>1, <1>1 DEF Row
    <3>3. f \in Surjection(q.held, {row(top, x) : x \in q.held})
      BY DEF Surjection
    <3>4. IsFiniteSet({row(top, x) : x \in q.held})
      BY <3>3, <1>1, FS_Surjection
    <3>5. \A w \in {row(top, x) : x \in q.held} : w.res.id < nextId
      BY <1>1
    <3> HIDE DEF f, row
    <3>6. QED
      BY <2>2, <3>2, <3>4, <3>5, FS_Union DEF IInv, StoresInv
  <2>3. QED
    BY <2>1, <2>2, <1>2
<1>5. orphaned \subseteq orphaned' /\ orphaned' \subseteq Causes \X Resource
  <2>1. orphaned \subseteq Causes \X Resource
    BY DEF IInv, StoresInv
  <2>2. {<<"abort", x>> : x \in q.held} \subseteq Causes \X Resource
    BY <1>1 DEF Causes
  <2>3. orphaned' = orphaned \/ orphaned' = orphaned \cup {<<"abort", x>> : x \in q.held}
    BY <1>2
  <2>4. QED
    BY <2>1, <2>2, <2>3
<1>6. StoresInv'
  BY <1>1, <1>4, <1>5 DEF IInv, StoresInv, env
<1>7. \A p \in Requests : p # r => req'[p] = req[p]
  BY <1>3 DEF IInv, Becomes
<1>8. /\ req' \in [Requests -> Handler]
      /\ \A p \in Requests : HandlerInv(req'[p], cloud', nextId')
  BY <1>1, <1>3, HandlersInv DEF env, IInv, StoresInv
<1>9. Accounted'
  <2> SUFFICES ASSUME NEW y \in cloud
               PROVE  Recorded(y)' \/ InFlight(y)' \/ Orphaned(y)'
    BY <1>1 DEF Accounted
  <2>1. CASE y \in q.held
    <3>1. CASE orphaned' = orphaned \cup {<<"abort", x>> : x \in q.held}
      BY <2>1, <3>1 DEF Orphaned, Causes
    <3>2. CASE \E top \in Tops : rows' = rows \cup {row(top, x) : x \in q.held}
      <4>1. PICK top \in Tops : rows' = rows \cup {row(top, x) : x \in q.held}
        BY <3>2
      <4>2. row(top, y) \in rows' /\ row(top, y).res = y
        BY <2>1, <4>1
      <4>3. QED
        BY <4>2 DEF Recorded
    <3>3. QED
      BY <1>2, <3>1, <3>2
  <2>2. CASE y \notin q.held /\ InFlight(y)
    BY <2>2, <1>7 DEF InFlight
  <2>3. CASE ~InFlight(y)
    BY <2>3, <1>4, <1>5 DEF IInv, Accounted, Recorded, Orphaned
  <2>4. QED
    BY <2>1, <2>2, <2>3
<1>10. QED
  BY <1>6, <1>8, <1>9 DEF IInv

\* A handler that only moves its program counter and what it has loaded or failed.
LEMMA KeepsInv ==
  ASSUME IInv, NEW r \in Requests, NEW h \in Handler,
         req[r].pc # "record",
         h.held = req[r].held, h.listed = req[r].listed, h.todo = req[r].todo,
         h.entries = req[r].entries, h.file = {} \/ h.file = req[r].file, h.step = req[r].step,
         h.pc \notin {"record", "teardown", "drop"},
         h.pc \in {"collect", "snapshot"} => h.seen \in Statuses,
         \/ h.pc \in {"activate", "collect", "snapshot"}
         \/ req[r].pc \notin {"activate", "collect", "snapshot"}
  PROVE  HandlerInv(h, cloud, nextId)
  BY Acting DEF HandlerInv, HandlerOK

LEMMA ActivateInv ==
  ASSUME IInv, NEW r \in Requests, Activate(r)
  PROVE  IInv'
<1> DEFINE t == req[r].topo
           h == [req[r] EXCEPT !.pc = "collect", !.seen = status'[t]]
<1>1. status' \in [Topologies -> Statuses \cup {"ABSENT"}]
  BY CommittedType DEF Activate, IInv, StoresInv, Statuses
<1>2. PICK k : Becomes(r, k) /\ HandlerInv(k, cloud, nextId)
  <2>1. CASE Raise(r)
    BY <2>1, RaiseInv
  <2>2. CASE Becomes(r, h) /\ status'[t] \in Statuses
    <3>1. req[r] \in Handler /\ req[r].pc = "activate"
      BY Acting DEF Activate
    <3>2. h \in Handler
      BY <2>2, <3>1 DEF Handler, PCs
    <3>3. /\ h.held = req[r].held /\ h.todo = req[r].todo /\ h.listed = req[r].listed
          /\ h.entries = req[r].entries /\ h.file = req[r].file /\ h.step = req[r].step
          /\ h.pc = "collect" /\ h.seen = status'[t]
      BY <3>1 DEF Handler
    <3> HIDE DEF h
    <3>4. HandlerInv(h, cloud, nextId)
      BY <2>2, <3>1, <3>2, <3>3, KeepsInv
    <3>5. QED
      BY <2>2, <3>4
  <2>3. QED
    BY <2>1, <2>2, CommittedType DEF Activate, Statuses
<1>3. QED
  BY <1>1, <1>2, StatusStep DEF Activate

LEMMA CollectRowsInv ==
  ASSUME IInv, NEW r \in Requests, CollectRows(r)
  PROVE  IInv'
<1> DEFINE t == req[r].topo
           h == [req[r] EXCEPT !.pc = "snapshot", !.listed = RowsOf(t)]
<1>1. req[r] \in Handler /\ RowsOf(t) \in SUBSET Row
  BY Acting, RowsOfFacts
<1>2. h \in Handler
  BY <1>1 DEF Handler, PCs
<1>3. /\ h.held = req[r].held /\ h.todo = req[r].todo /\ h.entries = req[r].entries
      /\ h.file = req[r].file
      /\ h.step = req[r].step
      /\ h.listed = RowsOf(t) /\ h.pc = "snapshot" /\ h.seen = req[r].seen
  BY <1>1 DEF Handler
<1>4. Becomes(r, h) /\ req[r].pc = "collect"
  BY DEF CollectRows
<1> HIDE DEF h
<1>5. HandlerInv(h, cloud, nextId)
  BY <1>2, <1>3, <1>4, Acting, RowsOfFacts DEF HandlerInv, HandlerOK
<1>6. QED
  BY <1>4, <1>5, ReadStep DEF CollectRows

-----------------------------------------------------------------------------
(* deploy_topology: the except branch *)

LEMMA MarkFailedInv ==
  ASSUME IInv, NEW r \in Requests, MarkFailed(r)
  PROVE  IInv'
<1> DEFINE h == [req[r] EXCEPT !.pc = "listFailed", !.seen = "EXPIRED"]
<1>1. status' \in [Topologies -> Statuses \cup {"ABSENT"}]
  BY CommittedType DEF MarkFailed, IInv, StoresInv, Statuses
<1>2. PICK k : Becomes(r, k) /\ HandlerInv(k, cloud, nextId)
  <2>1. CASE Raise(r)
    BY <2>1, RaiseInv
  <2>2. CASE Becomes(r, h)
    <3>1. req[r] \in Handler /\ req[r].pc = "fail"
      BY Acting DEF MarkFailed
    <3>2. h \in Handler
      BY <3>1 DEF Handler, PCs
    <3>3. /\ h.held = req[r].held /\ h.todo = req[r].todo /\ h.listed = req[r].listed
          /\ h.entries = req[r].entries /\ h.file = req[r].file
          /\ h.step = req[r].step /\ h.pc = "listFailed"
      BY <3>1 DEF Handler
    <3> HIDE DEF h
    <3>4. HandlerInv(h, cloud, nextId)
      BY <3>1, <3>2, <3>3, KeepsInv
    <3>5. QED
      BY <2>2, <3>4
  <2>3. QED
    BY <2>1, <2>2 DEF MarkFailed
<1>3. QED
  BY <1>1, <1>2, StatusStep DEF MarkFailed

LEMMA ListFailedInv ==
  ASSUME IInv, NEW r \in Requests, ListFailed(r)
  PROVE  IInv'
<1> DEFINE listed == RowsOf(req[r].topo)
           h == [req[r] EXCEPT !.pc = "recordFailed", !.listed = listed, !.seen = Loaded(r)]
<1>1. /\ req[r] \in Handler /\ req[r].pc = "listFailed"
      /\ listed \in SUBSET Row /\ Loaded(r) \in Statuses \cup {"ABSENT", "EXPIRED"}
  BY Acting, RowsOfFacts DEF ListFailed
<1>2. PICK k : Becomes(r, k) /\ HandlerInv(k, cloud, nextId)
  <2>1. CASE Raise(r)
    BY <2>1, RaiseInv
  <2>2. CASE Becomes(r, h)
    <3>1. h \in Handler
      BY <1>1 DEF Handler, PCs
    <3>2. /\ h.held = req[r].held /\ h.todo = req[r].todo /\ h.entries = req[r].entries
          /\ h.file = req[r].file /\ h.step = req[r].step
          /\ h.listed = listed /\ h.pc = "recordFailed"
      BY <1>1 DEF Handler
    <3> HIDE DEF h
    <3>3. HandlerInv(h, cloud, nextId)
      BY <1>1, <3>1, <3>2, Acting, RowsOfFacts DEF HandlerInv, HandlerOK
    <3>4. QED
      BY <2>2, <3>3
  <2>3. QED
    BY <2>1, <2>2 DEF ListFailed
<1>3. QED
  BY <1>1, <1>2, ReadStep DEF ListFailed

LEMMA RecordFailedInv ==
  ASSUME IInv, NEW r \in Requests, RecordFailed(r)
  PROVE  IInv'
<1> DEFINE listed == req[r].listed
           entry == [status |-> "FAILED", resources |-> ResourcesOf(listed)]
           h == [req[r] EXCEPT !.pc = "cleanup", !.nested = TRUE, !.file = {}]
<1>1. /\ req[r] \in Handler /\ req[r].pc = "recordFailed" /\ WriteEntry(r, entry)
      /\ UNCHANGED <<status, rows, cloud, orphaned>>
  BY Acting DEF RecordFailed
<1>2. listed \subseteq Row /\ IsFiniteSet(listed) /\ \A w \in listed : w.res.id < nextId
  BY Acting DEF HandlerInv, HandlerOK, Handler
<1>3. PICK k : Becomes(r, k) /\ HandlerInv(k, cloud, nextId)
  <2>1. CASE Becomes(r, Ended(r, "failed"))
    BY <2>1, Acting, EndedInv
  <2>2. CASE Becomes(r, h)
    <3>1. h \in Handler
      BY <1>1 DEF Handler, PCs
    <3>2. /\ h.held = req[r].held /\ h.todo = req[r].todo /\ h.listed = req[r].listed
          /\ h.entries = req[r].entries /\ h.file = {}
          /\ h.step = req[r].step /\ h.pc = "cleanup"
      BY <1>1 DEF Handler
    <3> HIDE DEF h
    <3>3. HandlerInv(h, cloud, nextId)
      BY <1>1, <3>1, <3>2, KeepsInv
    <3>4. QED
      BY <2>2, <3>3
  <2>3. QED
    BY <2>1, <2>2 DEF RecordFailed
<1>4. /\ ResourcesOf(listed) \subseteq Resource /\ IsFiniteSet(ResourcesOf(listed))
      /\ \A x \in ResourcesOf(listed) : x.id < nextId
  BY <1>2, ResourcesFinite DEF ResourcesOf, Row
<1>5. /\ entry \in Entry /\ IsFiniteSet(entry.resources)
      /\ \A x \in entry.resources : x.id < nextId
  BY <1>4 DEF Entry, Statuses
<1> HIDE DEF entry
<1>6. QED
  BY <1>1, <1>3, <1>5, WriteStep

-----------------------------------------------------------------------------
(* cleanup_topology_deployment *)

LEMMA CleanupListInv ==
  ASSUME IInv, NEW r \in Requests, CleanupList(r)
  PROVE  IInv'
<1> DEFINE t == req[r].topo
           listed == RowsOf(t)
           todo == ResourcesOf(listed)
           h == [req[r] EXCEPT !.pc = IF listed = {} THEN "reset" ELSE "teardown",
                               !.listed = listed, !.todo = todo, !.failed = FALSE,
                               !.seen = Loaded(r)]
<1>1. PICK k : Becomes(r, k) /\ HandlerInv(k, cloud, nextId)
  <2>1. CASE CleanupEnds(r, "raised")
    BY <2>1, Acting, EndedInv DEF CleanupEnds
  <2>2. CASE Becomes(r, h)
    <3>1. /\ req[r] \in Handler /\ req[r].pc = "cleanup"
          /\ Loaded(r) \in Statuses \cup {"ABSENT", "EXPIRED"}
      BY Acting DEF CleanupList
    <3>2. /\ listed \in SUBSET Row /\ IsFiniteSet(listed)
          /\ todo \in SUBSET Resource /\ IsFiniteSet(todo)
          /\ \A w \in listed : w.res.id < nextId
          /\ \A x \in todo : x.id < nextId
          /\ \A w \in listed : w.res \in todo
      BY Acting, RowsOfFacts DEF ResourcesOf
    <3> HIDE DEF todo, listed
    <3>3. h \in Handler
      <4>1. "reset" \in PCs /\ "teardown" \in PCs
        BY DEF PCs
      <4>2. QED
        BY <3>1, <3>2, <4>1 DEF Handler
    <3>4. /\ h.held = req[r].held /\ h.todo = todo /\ h.entries = req[r].entries
          /\ h.file = req[r].file
          /\ h.step = req[r].step /\ h.listed = listed /\ h.pc \in {"reset", "teardown"}
      BY <3>1 DEF Handler
    <3> HIDE DEF h
    <3>5. HandlerInv(h, cloud, nextId)
      BY <3>1, <3>2, <3>3, <3>4, Acting DEF HandlerInv, HandlerOK
    <3>6. QED
      BY <2>2, <3>5
  <2>3. QED
    BY <2>1, <2>2 DEF CleanupList
<1>2. QED
  BY <1>1, ReadStep DEF CleanupList

LEMMA DeleteOneInv ==
  ASSUME IInv, NEW r \in Requests, DeleteOne(r)
  PROVE  IInv'
<1> DEFINE q == req[r]
           h(x) == [q EXCEPT !.todo = q.todo \ {x},
                             !.pc = IF q.todo # {x} THEN q.pc
                                    ELSE IF q.pc = "teardown" THEN "drop" ELSE "strike"]
<1>1. q \in Handler /\ q.pc \in {"teardown", "sweep"} /\ HandlerInv(q, cloud, nextId)
  BY Acting DEF DeleteOne
<1>2. PICK x \in q.todo : cloud' = cloud \ {x} /\ Becomes(r, h(x))
  BY DEF DeleteOne
<1>3. UNCHANGED <<status, rows, snapshot, orphaned, env>>
  BY DEF DeleteOne
<1>4. h(x) \in Handler
  <2>1. q.todo \ {x} \in SUBSET Resource
    BY <1>1 DEF Handler
  <2>2. QED
    BY <1>1, <2>1 DEF Handler, PCs
<1>5. /\ h(x).held = q.held /\ h(x).listed = q.listed /\ h(x).entries = q.entries
      /\ h(x).file = q.file
      /\ h(x).step = q.step /\ h(x).todo = q.todo \ {x} /\ h(x).failed = q.failed
      /\ h(x).pc = IF q.todo # {x} THEN q.pc
                   ELSE IF q.pc = "teardown" THEN "drop" ELSE "strike"
  BY <1>1 DEF Handler
<1> HIDE DEF h
<1>6. IsFiniteSet(q.todo \ {x})
  BY <1>1, FS_Subset DEF HandlerInv, HandlerOK
<1>7. HandlerInv(h(x), cloud', nextId')
  <2>1. HandlerOK(h(x)) /\ IsFiniteSet(h(x).held) /\ h(x).held = {}
    BY <1>1, <1>4, <1>5, <1>6 DEF HandlerInv, HandlerOK
  <2>2. h(x).pc \in {"teardown", "drop"} => q.pc = "teardown"
    BY <1>1, <1>5
  <2>3. nextId' = nextId
    BY <1>3 DEF env
  <2>4. h(x).step \in Steps /\ h(x).pc \notin {"collect", "snapshot"}
    BY <1>1, <1>5 DEF HandlerInv
  <2>5. h(x).pc \in {"teardown", "drop"} /\ ~h(x).failed =>
          \A w \in h(x).listed : w.res \in h(x).todo \/ w.res \notin cloud'
    BY <1>1, <1>2, <1>5, <2>2 DEF HandlerInv
  <2>6. h(x).pc = "drop" => h(x).todo = {}
    BY <1>1, <1>5
  <2>7. QED
    BY <1>1, <1>5, <2>1, <2>3, <2>4, <2>5, <2>6 DEF HandlerInv
<1>8. StoresInv' /\ cloud' \subseteq cloud /\ nextId' = nextId /\ orphaned' = orphaned
  BY <1>2, <1>3 DEF IInv, StoresInv, env
<1>9. \A y \in cloud' : Recorded(y) => Recorded(y)' \/ Orphaned(y)'
  BY <1>3 DEF Recorded
<1>10. QED
  BY <1>1, <1>2, <1>7, <1>8, <1>9, LocalStep

LEMMA DeleteFailsInv ==
  ASSUME IInv, NEW r \in Requests, DeleteFails(r)
  PROVE  IInv'
<1> DEFINE q == req[r]
           h == [q EXCEPT !.pc = IF q.pc = "teardown" THEN "drop" ELSE "scan",
                          !.failed = TRUE, !.todo = {}]
<1>1. q \in Handler /\ q.pc \in {"teardown", "sweep"} /\ HandlerInv(q, cloud, nextId)
  BY Acting DEF DeleteFails
<1>2. /\ Becomes(r, h) /\ UNCHANGED <<status, rows, snapshot, cloud, orphaned>>
      /\ faults' \in Nat /\ UNCHANGED <<nextId, gen, begun>>
  BY FaultFacts DEF DeleteFails, env, IInv, StoresInv
<1>3. h \in Handler
  BY <1>1 DEF Handler, PCs
<1>4. /\ h.held = q.held /\ h.listed = q.listed /\ h.entries = q.entries /\ h.file = q.file
      /\ h.step = q.step /\ h.todo = {} /\ h.failed = TRUE /\ h.pc \in {"drop", "scan"}
  BY <1>1 DEF Handler
<1> HIDE DEF h
<1>5. HandlerInv(h, cloud, nextId)
  BY <1>1, <1>3, <1>4, FS_EmptySet DEF HandlerInv, HandlerOK
<1>6. StoresInv'
  BY <1>2 DEF IInv, StoresInv
<1>7. \A y \in cloud' : Recorded(y) => Recorded(y)' \/ Orphaned(y)'
  BY <1>2 DEF Recorded
<1>8. QED
  BY <1>1, <1>2, <1>5, <1>6, <1>7, LocalStep

\* Deleting the listed rows by id leaves the rest of the table as it is.
LEMMA LostFacts ==
  ASSUME IInv, NEW r \in Requests, NEW cause \in Causes
  PROVE  /\ Lost(r, cause) \subseteq Causes \X Resource
         /\ rows \ Dropped(r) \subseteq rows
         /\ IsFiniteSet(rows \ Dropped(r))
         /\ \A w \in Dropped(r) :
              \/ w \in req[r].listed /\ <<cause, w.res>> \in Lost(r, cause)
              \/ <<"rowid", w.res>> \in Lost(r, cause)
<1>1. \A w \in rows : w.res \in Resource
  BY DEF IInv, StoresInv, Row
<1>2. Lost(r, cause) \subseteq Causes \X Resource
  BY <1>1 DEF Lost, Causes
<1>3. IsFiniteSet(rows \ Dropped(r))
  BY FS_Subset DEF IInv, StoresInv
<1>4. QED
  BY <1>2, <1>3 DEF Lost, Dropped

LEMMA DropRowsInv ==
  ASSUME IInv, NEW r \in Requests, DropRows(r)
  PROVE  IInv'
<1> DEFINE q == req[r]
           h == [q EXCEPT !.pc = "reset", !.seen = "EXPIRED"]
<1>1. q \in Handler /\ q.pc = "drop" /\ HandlerInv(q, cloud, nextId)
  BY Acting DEF DropRows
<1>2. /\ Becomes(r, h) /\ UNCHANGED <<status, snapshot, cloud, env>>
      /\ rows' = rows \ Dropped(r)
      /\ orphaned' = orphaned \cup {o \in Lost(r, "teardown") :
                                       o[2] \in cloud /\ (o[1] = "teardown" => q.failed)}
  BY DEF DropRows
<1>3. h \in Handler
  BY <1>1 DEF Handler, PCs
<1>4. /\ h.held = q.held /\ h.listed = q.listed /\ h.entries = q.entries /\ h.file = q.file
      /\ h.step = q.step /\ h.todo = q.todo /\ h.pc = "reset"
  BY <1>1 DEF Handler
<1> HIDE DEF h
<1>5. HandlerInv(h, cloud, nextId)
  BY <1>1, <1>3, <1>4, KeepsInv
<1>6. StoresInv'
  BY <1>2, LostFacts DEF IInv, StoresInv, Causes, env
<1>7. ASSUME NEW y \in cloud, Recorded(y)
      PROVE  Recorded(y)' \/ Orphaned(y)'
  <2>1. PICK w \in rows : w.res = y
    BY <1>7 DEF Recorded
  <2>2. CASE w \in rows'
    BY <2>1, <2>2 DEF Recorded
  <2>3. CASE w \notin rows'
    <3>1. \/ w \in q.listed /\ <<"teardown", y>> \in Lost(r, "teardown")
          \/ <<"rowid", y>> \in Lost(r, "teardown")
      BY <1>2, <2>1, <2>3, LostFacts DEF Causes
    <3>2. CASE <<"rowid", y>> \in Lost(r, "teardown")
      BY <1>2, <3>2 DEF Orphaned, Causes
    <3>3. CASE w \in q.listed /\ <<"teardown", y>> \in Lost(r, "teardown")
      <4>1. q.failed
        BY <1>1, <2>1, <3>3 DEF HandlerInv
      <4>2. QED
        BY <1>2, <3>3, <4>1 DEF Orphaned, Causes
    <3>4. QED
      BY <3>1, <3>2, <3>3
  <2>4. QED
    BY <2>2, <2>3
<1>8. nextId' = nextId /\ cloud' = cloud /\ orphaned \subseteq orphaned'
  BY <1>2 DEF env
<1>9. QED
  BY <1>1, <1>2, <1>5, <1>6, <1>7, <1>8, LocalStep

LEMMA ResetStatusInv ==
  ASSUME IInv, NEW r \in Requests, ResetStatus(r)
  PROVE  IInv'
<1> DEFINE t == req[r].topo
           skipped == req[r].listed = {}
           h == [req[r] EXCEPT !.pc = "forget",
                               !.seen = IF skipped THEN "EXPIRED" ELSE status'[t]]
<1>1. status' \in [Topologies -> Statuses \cup {"ABSENT"}]
  BY CommittedType DEF ResetStatus, IInv, StoresInv, Statuses
<1>2. PICK k : Becomes(r, k) /\ HandlerInv(k, cloud, nextId)
  <2>1. CASE \E result : CleanupEnds(r, result)
    BY <2>1, Acting, EndedInv DEF CleanupEnds
  <2>2. CASE Becomes(r, h)
    <3>1. /\ req[r] \in Handler /\ req[r].pc = "reset"
          /\ status'[t] \in Statuses \cup {"ABSENT"}
      BY <1>1, Acting DEF ResetStatus
    <3>2. h \in Handler
      BY <3>1 DEF Handler, PCs
    <3>3. /\ h.held = req[r].held /\ h.todo = req[r].todo /\ h.listed = req[r].listed
          /\ h.entries = req[r].entries /\ h.file = req[r].file
          /\ h.step = req[r].step /\ h.pc = "forget"
      BY <3>1 DEF Handler
    <3> HIDE DEF h
    <3>4. HandlerInv(h, cloud, nextId)
      BY <3>1, <3>2, <3>3, KeepsInv
    <3>5. QED
      BY <2>2, <3>4
  <2>3. QED
    BY <2>1, <2>2 DEF ResetStatus
<1>3. QED
  BY <1>1, <1>2, StatusStep DEF ResetStatus

LEMMA NoEntryFacts == NoEntry \in Entry /\ NoEntry.resources = {}
  BY DEF NoEntry, Entry

\* A handler that strikes the entry of its topology.
LEMMA StrikeStep ==
  ASSUME IInv, NEW r \in Requests, NEW h,
         Becomes(r, h),
         HandlerInv(h, cloud, nextId),
         req[r].pc # "record",
         WriteEntry(r, NoEntry),
         UNCHANGED <<status, rows, cloud, orphaned>>
  PROVE  IInv'
<1>1. IsFiniteSet(NoEntry.resources) /\ \A x \in NoEntry.resources : x.id < nextId
  BY NoEntryFacts, FS_EmptySet
<1>2. QED
  BY <1>1, NoEntryFacts, WriteStep

LEMMA ForgetEntryInv ==
  ASSUME IInv, NEW r \in Requests, ForgetEntry(r)
  PROVE  IInv'
<1>1. PICK k : Becomes(r, k) /\ HandlerInv(k, cloud, nextId)
  BY Acting, EndedInv DEF ForgetEntry, CleanupEnds
<1>2. req[r].pc = "forget" /\ UNCHANGED <<status, rows, cloud, orphaned>>
  BY DEF ForgetEntry
<1>3. CASE UNCHANGED <<snapshot, env>>
  BY <1>1, <1>2, <1>3, ReadStep
<1>4. CASE WriteEntry(r, NoEntry)
  BY <1>1, <1>2, <1>4, StrikeStep
<1>5. QED
  BY <1>3, <1>4 DEF ForgetEntry

-----------------------------------------------------------------------------
(* Topologies are created and deleted *)

LEMMA CreateTopologyInv ==
  ASSUME IInv, NEW t \in Topologies, CreateTopology(t)
  PROVE  IInv'
<1>1. UNCHANGED <<rows, snapshot, cloud, req, nextId, orphaned, faults, begun>>
  BY DEF CreateTopology
<1>2. gen' \in [Topologies -> Nat] /\ status' \in [Topologies -> Statuses \cup {"ABSENT"}]
  BY DEF CreateTopology, IInv, StoresInv, Statuses
<1>3. StoresInv'
  BY <1>1, <1>2 DEF IInv, StoresInv
<1>4. Accounted'
  BY <1>1 DEF IInv, Accounted, Recorded, InFlight, Orphaned
<1>5. QED
  BY <1>1, <1>3, <1>4 DEF IInv

LEMMA DeleteTopologyInv ==
  ASSUME IInv, NEW r \in Requests, DeleteTopology(r)
  PROVE  IInv'
<1> DEFINE q == req[r]
<1>1. /\ q.pc = "delete" /\ Becomes(r, Idle) /\ UNCHANGED <<snapshot, cloud, env>>
      /\ rows' = rows \ Dropped(r)
      /\ status' = [status EXCEPT ![q.topo] = "ABSENT"]
      /\ orphaned' = orphaned \cup {o \in Lost(r, "delete") : o[2] \in cloud}
  BY DEF DeleteTopology
<1>2. HandlerInv(Idle, cloud, nextId)
  BY Acting, IdleInv
<1>3. status' \in [Topologies -> Statuses \cup {"ABSENT"}]
  BY <1>1 DEF IInv, StoresInv
<1>4. StoresInv'
  BY <1>1, <1>3, LostFacts DEF IInv, StoresInv, Causes, env
<1>5. ASSUME NEW y \in cloud, Recorded(y)
      PROVE  Recorded(y)' \/ Orphaned(y)'
  <2>1. PICK w \in rows : w.res = y
    BY <1>5 DEF Recorded
  <2>2. CASE w \in rows'
    BY <2>1, <2>2 DEF Recorded
  <2>3. CASE w \notin rows'
    <3>1. \E c \in {"delete", "rowid"} : <<c, y>> \in Lost(r, "delete")
      BY <1>1, <2>1, <2>3, LostFacts DEF Causes
    <3>2. QED
      BY <1>1, <3>1 DEF Orphaned, Causes
  <2>4. QED
    BY <2>2, <2>3
<1>6. nextId' = nextId /\ cloud' = cloud /\ orphaned \subseteq orphaned'
  BY <1>1 DEF env
<1>7. QED
  BY <1>1, <1>2, <1>4, <1>5, <1>6, LocalStep

-----------------------------------------------------------------------------
(* run_cleanup_janitor *)

LEMMA JanitorScanInv ==
  ASSUME IInv, NEW r \in Requests, JanitorScan(r)
  PROVE  IInv'
<1> DEFINE q == req[r]
           e(t) == Scanned(r, t)
           todo(t) == IF Backed(t) THEN {} ELSE q.entries[t]
           h(t) == [q EXCEPT !.entries = e(t), !.topo = t, !.seen = status[t],
                             !.pc = IF Backed(t) THEN "scan" ELSE "sweep",
                             !.todo = todo(t)]
<1>1. q \in Handler /\ q.pc = "scan" /\ HandlerInv(q, cloud, nextId)
  BY Acting DEF JanitorScan
<1>2. PICK t \in Topologies : Becomes(r, h(t))
  BY DEF JanitorScan
<1>3. status[t] \in Statuses \cup {"ABSENT"}
  BY DEF IInv, StoresInv
<1>4. /\ e(t) \in [Topologies -> SUBSET Resource]
      /\ \A u \in Topologies : IsFiniteSet(e(t)[u]) /\ \A x \in e(t)[u] : x.id < nextId
  <2>1. /\ q.entries \in [Topologies -> SUBSET Resource]
        /\ \A u \in Topologies : IsFiniteSet(q.entries[u]) /\ \A x \in q.entries[u] : x.id < nextId
    BY <1>1 DEF HandlerInv, HandlerOK, Handler
  <2>2. /\ e(t) = [q.entries EXCEPT ![t] = {}]
        /\ \A u \in Topologies : e(t)[u] = IF u = t THEN {} ELSE q.entries[u]
    BY <2>1 DEF Scanned
  <2>3. QED
    BY <2>1, <2>2, FS_EmptySet
<1>5. todo(t) \in SUBSET Resource /\ IsFiniteSet(todo(t)) /\ \A x \in todo(t) : x.id < nextId
  BY <1>1, FS_EmptySet DEF HandlerInv, HandlerOK, Handler
<1> HIDE DEF e, todo
<1>6. h(t) \in Handler
  BY <1>1, <1>3, <1>4, <1>5 DEF Handler, PCs
<1>7. /\ h(t).held = q.held /\ h(t).listed = q.listed /\ h(t).entries = e(t)
      /\ h(t).file = q.file
      /\ h(t).step = q.step /\ h(t).todo = todo(t) /\ h(t).pc \in {"sweep", "scan"}
  BY <1>1 DEF Handler
<1> HIDE DEF h
<1>8. HandlerInv(h(t), cloud, nextId)
  BY <1>1, <1>4, <1>5, <1>6, <1>7 DEF HandlerInv, HandlerOK
<1>9. QED
  BY <1>1, <1>2, <1>8, ReadStep DEF JanitorScan

\* The janitor's handler moves on to pc "scan" or "mark", and lets go of the file it loaded.
LEMMA JanitorMoves ==
  ASSUME IInv, NEW r \in Requests, req[r].pc \in {"strike", "mark"},
         NEW pc \in {"scan", "mark"}, NEW file, file = {} \/ file = req[r].file
  PROVE  HandlerInv([req[r] EXCEPT !.pc = pc, !.file = file], cloud, nextId)
<1> DEFINE h == [req[r] EXCEPT !.pc = pc, !.file = file]
<1>1. req[r] \in Handler
  BY Acting
<1>2. h \in Handler
  BY <1>1 DEF Handler, PCs
<1>3. /\ h.held = req[r].held /\ h.todo = req[r].todo /\ h.listed = req[r].listed
      /\ h.entries = req[r].entries /\ (h.file = {} \/ h.file = req[r].file)
      /\ h.step = req[r].step /\ h.pc = pc
  BY <1>1 DEF Handler
<1> HIDE DEF h
<1>4. HandlerInv(h, cloud, nextId)
  BY <1>2, <1>3, KeepsInv
<1>5. QED
  BY <1>4 DEF h

LEMMA JanitorStrikeInv ==
  ASSUME IInv, NEW r \in Requests, JanitorStrike(r)
  PROVE  IInv'
<1>1. /\ req[r].pc = "strike" /\ UNCHANGED <<status, rows, cloud, orphaned>>
      /\ WriteEntry(r, NoEntry)
  BY DEF JanitorStrike
<1>2. PICK pc \in {"scan", "mark"} : Becomes(r, [req[r] EXCEPT !.pc = pc, !.file = {}])
  BY DEF JanitorStrike
<1>3. HandlerInv([req[r] EXCEPT !.pc = pc, !.file = {}], cloud, nextId)
  BY <1>1, JanitorMoves
<1>4. QED
  BY <1>1, <1>2, <1>3, StrikeStep

LEMMA JanitorMarkInv ==
  ASSUME IInv, NEW r \in Requests, JanitorMark(r)
  PROVE  IInv'
<1> DEFINE h == [req[r] EXCEPT !.pc = "scan", !.file = req[r].file]
<1>1. req[r].pc = "mark" /\ UNCHANGED <<rows, snapshot, cloud, orphaned, env>>
  BY DEF JanitorMark
<1>2. status' \in [Topologies -> Statuses \cup {"ABSENT"}]
  BY CommittedType DEF JanitorMark, IInv, StoresInv, Statuses
<1>3. PICK k : Becomes(r, k) /\ HandlerInv(k, cloud, nextId)
  <2>1. h = [req[r] EXCEPT !.pc = "scan"] /\ HandlerInv(h, cloud, nextId)
    BY <1>1, Acting, JanitorMoves DEF Handler
  <2>2. HandlerInv(Idle, cloud, nextId)
    BY Acting, IdleInv
  <2>3. QED
    BY <2>1, <2>2 DEF JanitorMark
<1>4. QED
  BY <1>1, <1>2, <1>3, StatusStep

LEMMA EndJanitorInv ==
  ASSUME IInv, NEW r \in Requests, EndJanitor(r)
  PROVE  IInv'
<1>1. HandlerInv(Idle, cloud, nextId)
  BY Acting, IdleInv
<1>2. QED
  BY <1>1, ReadStep DEF EndJanitor

-----------------------------------------------------------------------------
(* The process crashes *)

LEMMA CrashInv ==
  ASSUME IInv, Crash
  PROVE  IInv'
<1> DEFINE left == UNION {req[r].held : r \in Requests}
<1>1. /\ orphaned' = orphaned \cup {<<"crash", x>> : x \in left}
      /\ req' = [r \in Requests |-> Idle]
      /\ UNCHANGED <<status, rows, snapshot, cloud>>
      /\ faults' \in Nat /\ UNCHANGED <<nextId, gen, begun>>
  BY FaultFacts DEF Crash
<1>2. left \subseteq Resource
  BY DEF IInv, Handler
<1>3. StoresInv'
  <2>1. {<<"crash", x>> : x \in left} \subseteq Causes \X Resource
    BY <1>2 DEF Causes
  <2> HIDE DEF left
  <2>2. QED
    BY <1>1, <2>1 DEF IInv, StoresInv
<1>4. req' \in [Requests -> Handler]
  BY <1>1, IdleIsHandler
<1>5. \A r \in Requests : HandlerInv(req'[r], cloud', nextId')
  BY <1>1, IdleInv DEF IInv, StoresInv
<1>6. Accounted'
  <2> SUFFICES ASSUME NEW y \in cloud
               PROVE  Recorded(y)' \/ Orphaned(y)'
    BY <1>1 DEF Accounted
  <2>1. CASE InFlight(y)
    <3>1. y \in left
      BY <2>1 DEF InFlight
    <3> HIDE DEF left
    <3>2. QED
      BY <1>1, <3>1 DEF Orphaned, Causes
  <2>2. CASE ~InFlight(y)
    BY <2>2, <1>1 DEF IInv, Accounted, Recorded, Orphaned
  <2>3. QED
    BY <2>1, <2>2
<1>7. QED
  BY <1>3, <1>4, <1>5, <1>6 DEF IInv

-----------------------------------------------------------------------------
(* The theorems *)

LEMMA StutterInv ==
  ASSUME IInv, UNCHANGED vars
  PROVE  IInv'
  BY DEF vars, IInv, StoresInv, Accounted, Recorded, InFlight, Orphaned

LEMMA NextInv ==
  ASSUME IInv, [Next]_vars
  PROVE  IInv'
<1>1. ASSUME NEW t \in Topologies, CreateTopology(t)
      PROVE  IInv'
  BY <1>1, CreateTopologyInv
<1>2. ASSUME NEW r \in Requests, Arrive(r)
      PROVE  IInv'
  BY <1>2, BeginDeployInv, BeginScenarioInv, BeginDeleteInv, BeginJanitorInv DEF Arrive
<1>3. ASSUME NEW r \in Requests, Step(r)
      PROVE  IInv'
  <2>1. CASE DeployStep(r)
    BY <2>1, ListRowsInv, ReadSnapshotInv, InsertRowsInv, RelistInv, FinishIdempotentInv,
       WriteSnapshotInv, CreateInv, CreateRefusedInv, CreateUnansweredInv, RecordRowInv,
       ActivateInv, CollectRowsInv, MarkFailedInv, ListFailedInv, RecordFailedInv
    DEF DeployStep
  <2>2. CASE CleanupStep(r)
    BY <2>2, CleanupListInv, DeleteOneInv, DeleteFailsInv, DropRowsInv, ResetStatusInv,
       ForgetEntryInv DEF CleanupStep
  <2>3. CASE JanitorStep(r)
    BY <2>3, JanitorScanInv, JanitorStrikeInv, JanitorMarkInv, EndJanitorInv DEF JanitorStep
  <2>4. QED
    BY <1>3, <2>1, <2>2, <2>3, ScenarioStepInv, DeleteTopologyInv, LoadStateInv DEF Step
<1>4. CASE Crash
  BY <1>4, CrashInv
<1>5. CASE UNCHANGED vars
  BY <1>5, StutterInv
<1>6. QED
  BY <1>1, <1>2, <1>3, <1>4, <1>5 DEF Next, Rest

\* The inductive invariant holds in every reachable state.
THEOREM Invariance == Spec => []IInv
  BY InitInv, NextInv, PTL DEF Spec

\* Whatever the plan, the number of threads and topologies and the interleaving, every
\* store and handler of deployment_service.py and cleanup_janitor.py stays well typed and
\* finite; in particular, state.json is only given a status a topology can have.
THEOREM TypeCorrect == Spec => []TypeOK
  BY Invariance, IInvImpliesTypeOK, PTL

\* Whatever the plan, the number of threads and topologies and the interleaving, what
\* exists at the provider is recorded, about to be recorded, or lost to a named cause.
THEOREM NothingLost == Spec => []Accounted
<1>1. IInv => Accounted
  BY DEF IInv
<1>2. QED
  BY <1>1, Invariance, PTL

-----------------------------------------------------------------------------
(* A teardown does not block itself *)

Refused(r) ==
    /\ req[r].pc \in {"teardown", "sweep"} /\ req'[r].failed /\ ~req[r].failed
    /\ faults' = faults

Stranger(r) == \E y \in cloud : KindOf(y) # "network" /\ y \notin req[r].todo

\* A handler changes only by its own steps, which are the provider deletes while it tears
\* down.
LEMMA RefusedByDelete ==
  ASSUME IInv, Next, NEW r \in Requests, Refused(r)
  PROVE  DeleteFails(r)
<1>1. /\ req[r].pc \in {"teardown", "sweep"} /\ req'[r].failed /\ ~req[r].failed
      /\ req \in [Requests -> Handler]
  BY DEF Refused, IInv
<1>2. ~Idle.failed
  BY IdleFields
<1>3. ASSUME NEW p \in Requests, NEW h, Becomes(p, h)
      PROVE  p = r
  BY <1>1, <1>3 DEF Becomes
<1>4. CASE \E t \in Topologies : CreateTopology(t)
  BY <1>1, <1>4 DEF CreateTopology
<1>5. CASE Crash
  BY <1>1, <1>2, <1>5 DEF Crash
<1>6. CASE Rest
  BY <1>1, <1>6 DEF Rest, vars
<1>7. ASSUME NEW p \in Requests, Arrive(p)
      PROVE  FALSE
  <2>1. p = r
    BY <1>3, <1>7 DEF Arrive, BeginDeploy, BeginScenario, BeginDelete, BeginJanitor
  <2>2. req[p].pc = "idle"
    BY <1>7 DEF Arrive, BeginDeploy, BeginScenario, BeginDelete, BeginJanitor, Begin
  <2>3. QED
    BY <1>1, <2>1, <2>2
<1>8. ASSUME NEW p \in Requests, Step(p)
      PROVE  p = r
  BY <1>3, <1>8
  DEF Step, ScenarioStep, DeployStep, CleanupStep, JanitorStep, Raise, CleanupEnds, RetryOrFail,
      ListRows, ReadSnapshot, InsertRows, Relist, FinishIdempotent, WriteSnapshot, Create,
      CreateRefused, CreateUnanswered, RecordRow, Activate, CollectRows, MarkFailed,
      ListFailed, LoadState, RecordFailed, CleanupList, DeleteOne, DeleteFails, DropRows,
      ResetStatus, ForgetEntry,
      DeleteTopology, JanitorScan, JanitorStrike, JanitorMark, EndJanitor
<1>9. CASE \E p \in Requests : Arrive(p) \/ Step(p)
  <2>1. PICK p \in Requests : Arrive(p) \/ Step(p)
    BY <1>9
  <2>2. Step(p) /\ p = r
    BY <2>1, <1>7, <1>8
  <2>3. Step(r)
    BY <2>2
  <2>4. DeleteOne(r) \/ DeleteFails(r)
    BY <1>1, <2>3
    DEF Step, ScenarioStep, DeployStep, CleanupStep, JanitorStep,
        ListRows, ReadSnapshot, InsertRows, Relist, FinishIdempotent, WriteSnapshot, Create,
        CreateRefused, CreateUnanswered, RecordRow, Activate, CollectRows, MarkFailed,
        ListFailed, LoadState, Saving, RecordFailed, CleanupList, DropRows, ResetStatus,
        ForgetEntry,
        DeleteTopology, JanitorScan, JanitorStrike, JanitorMark, EndJanitor
  <2>5. CASE DeleteOne(r)
    <3>1. req[r] \in Handler
      BY Acting
    <3>2. req'[r].failed = req[r].failed
      BY <1>1, <2>5, <3>1 DEF DeleteOne, Becomes, Handler
    <3>3. QED
      BY <1>1, <3>2
  <2>6. QED
    BY <2>4, <2>5
<1>10. QED
  BY <1>4, <1>5, <1>6, <1>9 DEF Next

LEMMA PlanKinds == \A s \in Steps : Plan[s].kind \in Kinds
<1> SUFFICES ASSUME NEW s \in Steps PROVE Plan[s].kind \in Kinds
  OBVIOUS
<1> DEFINE T == [kind : Kinds, net : Nat]
<1>1. Plan \in Seq(T)
  BY PlanAssumption
<1> HIDE DEF T
<1>2. Plan[s] \in T
  BY <1>1 DEF Steps
<1>3. QED
  BY <1>2 DEF T

LEMMA RefusedStep ==
  ASSUME IInv, Next, NEW r \in Requests, Refused(r)
  PROVE  Stranger(r)
<1>1. PICK x \in req[r].todo : IsNextDelete(r, x) /\ (Fault("delete") \/ Blocked(x))
  BY RefusedByDelete DEF DeleteFails, IsNextDelete
<1>2. ~Fault("delete")
  BY DEF Refused, Fault, IInv, StoresInv
<1>3. PICK y \in cloud : KindOf(x) = "network" /\ y.net = x.id
  BY <1>1, <1>2 DEF Blocked
<1>4. x \in Resource
  BY DEF IInv, Handler
<1>5. KindOf(y) # "network"
  BY <1>3, <1>4 DEF IInv, StoresInv, Resource
<1>6. Tier(x) = 4 /\ (Tier(y) = 0 \/ Tier(y) = 1)
  <2>1. KindOf(y) \in Kinds
    <3>1. y.step \in Steps
      BY DEF IInv, StoresInv, Resource
    <3>2. QED
      BY <3>1, PlanKinds DEF KindOf
  <2>2. QED
    BY <1>3, <1>5, <2>1 DEF Tier, Kinds
<1>7. y \notin req[r].todo
  BY <1>1, <1>6 DEF IsNextDelete
<1>8. QED
  BY <1>5, <1>7 DEF Stranger

\* Whatever the plan and the interleaving, a teardown that the provider does not fail of
\* itself is stopped only by a resource it was not asked to delete: servers, subnets,
\* networks is an order in which everything listed can go.
THEOREM TeardownOrder == Spec => RefusedOnlyByStrangers
<1>1. IInv /\ [Next]_vars => [\A r \in Requests : Refused(r) => Stranger(r)]_vars
  BY RefusedStep
<1>2. [\A r \in Requests : Refused(r) => Stranger(r)]_vars
      => [\A r \in Requests :
            req[r].pc \in {"teardown", "sweep"} /\ req'[r].failed /\ ~req[r].failed
               /\ faults' = faults
            => \E y \in cloud : KindOf(y) # "network" /\ y \notin req[r].todo]_vars
  BY DEF Refused, Stranger
<1>3. QED
  BY <1>1, <1>2, Invariance, PTL DEF Spec, RefusedOnlyByStrangers

=============================================================================
