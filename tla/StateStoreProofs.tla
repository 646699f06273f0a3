------------------------- MODULE StateStoreProofs -------------------------
(***************************************************************************)
(* Proofs about StateStore for any number of writers, entries and faults.  *)
(*                                                                         *)
(* As long as no two writers have had the temporary file open at once, a   *)
(* writer in the middle of a save has open what has the temporary name,    *)
(* alone, and the file holds exactly what it has written: that is what     *)
(* makes the rename publish a whole state.  Until a writer begins while    *)
(* another is saving, the state a save is about to publish is moreover one *)
(* update away from the published one, so that the file implements the map *)
(* of entries.                                                             *)
(***************************************************************************)
EXTENDS StateStore, TLAPS

\* A save is between its open and its rename.
Saving(w) == writer[w].pc \in {"write", "replace"}

\* The temporary file belongs to one save.
Exclusive ==
    /\ \A w \in Writers : Saving(w) => writer[w].file = tmp
    /\ \A w, u \in Writers : Saving(w) /\ Saving(u) => w = u
    /\ \A w \in Writers : writer[w].pc = "write" => data[tmp] = Empty
    /\ \A w \in Writers : writer[w].pc = "replace" => data[tmp] = writer[w].copy

StoreInv == StoreTypeOK /\ (~shared => OnDisk \in States /\ Exclusive)

\* State new differs in one entry from state old, or is cleared of all.
UpdateOf(old, new) ==
    new = Blank \/ \E k \in Keys, r \in Records \cup {NoRecord} : new = [old EXCEPT ![k] = r]

\* Until updates overlap, one writer at a time is busy, with such a state.
Solo ==
    /\ ~shared
    /\ \A w, u \in Writers : writer[w].pc # "idle" /\ writer[u].pc # "idle" => w = u
    /\ \A w \in Writers : writer[w].pc # "idle" => UpdateOf(Loaded, writer[w].copy)

SoloInv == StoreInv /\ (~overlapped => Solo)

-----------------------------------------------------------------------------

LEMMA LoadedIsState == Loaded \in States
BY DEF Loaded, States, Blank

LEMMA RestingIsWriter == Resting \in Writer
BY DEF Resting, Writer, States, Blank

LEMMA InitStoreInv == Init => StoreInv
<1> SUFFICES ASSUME Init PROVE StoreInv
  OBVIOUS
<1>1. StoreTypeOK
  BY RestingIsWriter DEF Init, StoreTypeOK, Garbage, Resting
<1>2. OnDisk \in States
  BY DEF Init, OnDisk, States, Blank
<1>3. Exclusive
  BY DEF Init, Exclusive, Saving, Resting
<1> QED
  BY <1>1, <1>2, <1>3 DEF StoreInv

\* The steps of a writer that has not opened the file, and the deaths, change neither
\* files nor names.
LEMMA BeginKeeps ==
    ASSUME StoreInv, NEW w \in Writers, NEW c \in SUBSET Keys, NEW s \in States,
           writer[w].pc = "idle",
           writer' = [writer EXCEPT ![w] = Opening(c, s)],
           updates < MaxUpdates, updates' = updates + 1, overlapped' \in BOOLEAN,
           UNCHANGED <<data, path, tmp, shared, faults>>
    PROVE  StoreInv'
<1> DEFINE new == Opening(c, s)
<1>1. new \in Writer /\ new.pc = "open"
  BY DEF Opening, Writer
<1> HIDE DEF new
<1>2. \A u \in Writers : writer'[u] = IF u = w THEN new ELSE writer[u]
  BY DEF new, StoreInv, StoreTypeOK
<1>3. StoreTypeOK'
  <2>1. writer' \in [Writers -> Writer]
    BY <1>1, <1>2 DEF StoreInv, StoreTypeOK
  <2>2. \A u \in Writers : writer'[u].pc \in {"write", "replace"} => writer'[u].file \in Inodes
    BY <1>1, <1>2 DEF StoreInv, StoreTypeOK
  <2> QED
    BY <2>1, <2>2 DEF StoreInv, StoreTypeOK
<1>4. ~shared' => OnDisk' \in States
  BY DEF StoreInv, OnDisk
<1>5. ~shared' => Exclusive'
  BY <1>1, <1>2 DEF StoreInv, Exclusive, Saving
<1> QED
  BY <1>3, <1>4, <1>5 DEF StoreInv

\* A save that ends, by a rename or not, or any number that die.
LEMMA RestingKeeps ==
    ASSUME StoreTypeOK, NEW P \in SUBSET Writers,
           writer' = [w \in Writers |-> IF w \in P THEN Resting ELSE writer[w]]
    PROVE  /\ writer' \in [Writers -> Writer]
           /\ \A w \in Writers : writer'[w].pc \in {"write", "replace"} => writer'[w].file \in Inodes
           /\ \A w \in Writers : Saving(w)' => Saving(w) /\ writer'[w] = writer[w] /\ w \notin P
<1>1. Resting.pc = "idle"
  BY DEF Resting
<1> QED
  BY <1>1, RestingIsWriter DEF StoreTypeOK, Saving

LEMMA OpenKeeps ==
    ASSUME StoreInv, NEW w \in Writers, OpenTmp(w)
    PROVE  StoreInv'
<1>1. PICK i \in Inodes :
        /\ IF tmp = NoFile THEN ~InUse(i) ELSE i = tmp
        /\ tmp' = i
        /\ data' = [data EXCEPT ![i] = Empty]
        /\ writer' = [writer EXCEPT ![w].pc = "write", ![w].file = i]
        /\ shared' = (shared \/ \E u \in Writers : HasOpen(u, i))
  BY DEF OpenTmp
<1>2. writer[w].pc = "open" /\ path' = path /\ UNCHANGED <<overlapped, updates, faults>>
  BY DEF OpenTmp
<1>3. writer[w] \in Writer
  BY DEF StoreInv, StoreTypeOK
<1>4. /\ \A u \in Writers : u # w => writer'[u] = writer[u]
      /\ writer'[w] \in Writer /\ writer'[w].pc = "write" /\ writer'[w].file = i
  BY <1>1, <1>3 DEF StoreInv, StoreTypeOK, Writer
<1>5. i # path
  BY <1>1 DEF InUse, StoreInv, StoreTypeOK
<1>6. StoreTypeOK'
  <2>1. writer' \in [Writers -> Writer]
    BY <1>1, <1>4 DEF StoreInv, StoreTypeOK
  <2>2. data' \in [Inodes -> States \cup Garbage]
    BY <1>1 DEF StoreInv, StoreTypeOK, Garbage
  <2>3. \A u \in Writers : writer'[u].pc \in {"write", "replace"} => writer'[u].file \in Inodes
    BY <1>4 DEF StoreInv, StoreTypeOK
  <2>4. shared' \in BOOLEAN
    BY <1>1
  <2> QED
    BY <1>1, <1>2, <1>5, <2>1, <2>2, <2>3, <2>4 DEF StoreInv, StoreTypeOK
<1>7. ASSUME ~shared' PROVE OnDisk' \in States /\ Exclusive'
  <2>1. ~shared /\ \A u \in Writers : ~HasOpen(u, i)
    BY <1>1, <1>7
  <2>2. OnDisk' = OnDisk
    BY <1>1, <1>2, <1>5 DEF OnDisk, StoreInv, StoreTypeOK
  <2>3. \A u \in Writers : ~Saving(u)
    <3> SUFFICES ASSUME NEW u \in Writers, Saving(u) PROVE FALSE
      OBVIOUS
    <3>1. writer[u].file = tmp /\ writer[u].file \in Inodes
      BY <2>1 DEF StoreInv, StoreTypeOK, Exclusive, Saving
    <3>2. i = tmp
      BY <1>1, <3>1, FileAssumption
    <3> QED
      BY <2>1, <3>1, <3>2 DEF HasOpen, Saving
  <2>4. \A u \in Writers : Saving(u)' => u = w
    BY <1>4, <2>3 DEF Saving
  <2>5. data'[i] = Empty
    BY <1>1 DEF StoreInv, StoreTypeOK
  <2>6. Exclusive'
    BY <1>1, <1>4, <2>4, <2>5 DEF Exclusive, Saving
  <2> QED
    BY <2>1, <2>2, <2>6 DEF StoreInv
<1> QED
  BY <1>6, <1>7 DEF StoreInv

LEMMA WriteKeeps ==
    ASSUME StoreInv, NEW w \in Writers, WriteTmp(w)
    PROVE  StoreInv'
<1> DEFINE i == writer[w].file
<1>1. /\ writer[w].pc = "write" /\ i \in Inodes /\ writer[w] \in Writer
      /\ writer' = [writer EXCEPT ![w].pc = "replace"]
      /\ UNCHANGED <<path, tmp, shared, overlapped, updates, faults>>
  BY DEF WriteTmp, StoreInv, StoreTypeOK
<1>2. PICK content \in {writer[w].copy} \cup (IF data[i] = Empty THEN {} ELSE {Torn}) :
        data' = [data EXCEPT ![i] = content]
  BY DEF WriteTmp
<1>3. /\ \A u \in Writers : u # w => writer'[u] = writer[u]
      /\ writer'[w] \in Writer /\ writer'[w].pc = "replace"
      /\ writer'[w].file = i /\ writer'[w].copy = writer[w].copy
  BY <1>1 DEF StoreInv, StoreTypeOK, Writer
<1>4. StoreTypeOK'
  <2>1. content \in States \cup Garbage
    BY <1>1, <1>2 DEF Writer, Garbage
  <2>2. data' \in [Inodes -> States \cup Garbage]
    BY <1>2, <2>1 DEF StoreInv, StoreTypeOK
  <2>3. writer' \in [Writers -> Writer]
    BY <1>1, <1>3 DEF StoreInv, StoreTypeOK
  <2>4. \A u \in Writers : writer'[u].pc \in {"write", "replace"} => writer'[u].file \in Inodes
    BY <1>1, <1>3 DEF StoreInv, StoreTypeOK
  <2> QED
    BY <1>1, <2>2, <2>3, <2>4 DEF StoreInv, StoreTypeOK
<1>5. ASSUME ~shared' PROVE OnDisk' \in States /\ Exclusive'
  <2>1. ~shared /\ OnDisk \in States /\ Exclusive
    BY <1>1, <1>5 DEF StoreInv
  <2>2. i = tmp /\ data[i] = Empty
    BY <1>1, <2>1 DEF Exclusive, Saving
  <2>3. data'[i] = writer[w].copy
    BY <1>1, <1>2, <2>2 DEF StoreInv, StoreTypeOK
  <2>4. i # path
    BY <1>1, <2>2, FileAssumption DEF StoreInv, StoreTypeOK
  <2>5. OnDisk' = OnDisk
    BY <1>1, <1>2, <2>4 DEF OnDisk, StoreInv, StoreTypeOK
  <2>6. \A u \in Writers : Saving(u)' => u = w
    BY <1>1, <1>3, <2>1 DEF Exclusive, Saving
  <2>7. Exclusive'
    BY <1>1, <1>3, <2>2, <2>3, <2>6 DEF Exclusive, Saving
  <2> QED
    BY <2>1, <2>5, <2>7
<1> QED
  BY <1>4, <1>5 DEF StoreInv

LEMMA ReplaceKeeps ==
    ASSUME StoreInv, NEW w \in Writers, Replace(w)
    PROVE  StoreInv'
<1>1. /\ writer[w].pc = "replace" /\ tmp' = NoFile
      /\ path' = IF tmp = NoFile THEN path ELSE tmp
      /\ writer' = [writer EXCEPT ![w] = Resting]
      /\ UNCHANGED <<data, shared, overlapped, updates, faults>>
  BY DEF Replace
<1>2. writer' = [u \in Writers |-> IF u \in {w} THEN Resting ELSE writer[u]]
  BY <1>1 DEF StoreInv, StoreTypeOK
<1>3. /\ writer' \in [Writers -> Writer]
      /\ \A u \in Writers : writer'[u].pc \in {"write", "replace"} => writer'[u].file \in Inodes
      /\ \A u \in Writers : Saving(u)' => Saving(u) /\ u # w
  BY <1>2, RestingKeeps, {w} \in SUBSET Writers DEF StoreInv
<1>4. StoreTypeOK'
  BY <1>1, <1>3 DEF StoreInv, StoreTypeOK
<1>5. ASSUME ~shared' PROVE OnDisk' \in States /\ Exclusive'
  <2>1. ~shared /\ Exclusive
    BY <1>1, <1>5 DEF StoreInv
  <2>2. tmp \in Inodes /\ data[tmp] = writer[w].copy
    BY <1>1, <2>1 DEF StoreInv, StoreTypeOK, Exclusive, Saving
  <2>3. OnDisk' = writer[w].copy
    BY <1>1, <2>2, FileAssumption DEF OnDisk
  <2>4. writer[w].copy \in States
    BY DEF StoreInv, StoreTypeOK, Writer
  <2>5. \A u \in Writers : ~Saving(u)'
    BY <1>1, <1>3, <2>1 DEF Exclusive, Saving
  <2>6. Exclusive'
    BY <2>5 DEF Exclusive, Saving
  <2> QED
    BY <2>3, <2>4, <2>6
<1> QED
  BY <1>4, <1>5 DEF StoreInv

LEMMA FailKeeps ==
    ASSUME StoreInv, NEW w \in Writers, SaveFails(w)
    PROVE  StoreInv'
<1>1. /\ writer' = [writer EXCEPT ![w] = Resting]
      /\ UNCHANGED <<path, tmp, shared, overlapped, updates>> /\ faults' \in Nat
  BY DEF SaveFails, Fault, StoreInv, StoreTypeOK
<1>2. \/ data' = data
      \/ writer[w].pc = "write" /\ data' = [data EXCEPT ![writer[w].file] = Torn]
  BY DEF SaveFails
<1>3. writer' = [u \in Writers |-> IF u \in {w} THEN Resting ELSE writer[u]]
  BY <1>1 DEF StoreInv, StoreTypeOK
<1>4. /\ writer' \in [Writers -> Writer]
      /\ \A u \in Writers : writer'[u].pc \in {"write", "replace"} => writer'[u].file \in Inodes
      /\ \A u \in Writers : Saving(u)' => Saving(u) /\ writer'[u] = writer[u] /\ u # w
  BY <1>3, RestingKeeps, {w} \in SUBSET Writers DEF StoreInv
<1>5. data' \in [Inodes -> States \cup Garbage]
  BY <1>2 DEF StoreInv, StoreTypeOK, Garbage
<1>6. StoreTypeOK'
  BY <1>1, <1>4, <1>5 DEF StoreInv, StoreTypeOK
<1>7. ASSUME ~shared' PROVE OnDisk' \in States /\ Exclusive'
  <2>1. ~shared /\ OnDisk \in States /\ Exclusive
    BY <1>1, <1>7 DEF StoreInv
  <2>2. CASE data' = data
    BY <1>1, <1>4, <2>1, <2>2 DEF OnDisk, Exclusive, Saving
  <2>3. CASE writer[w].pc = "write" /\ data' = [data EXCEPT ![writer[w].file] = Torn]
    <3>1. writer[w].file = tmp /\ tmp \in Inodes
      BY <2>1, <2>3 DEF StoreInv, StoreTypeOK, Exclusive, Saving
    <3>2. tmp # path
      BY <3>1, FileAssumption DEF StoreInv, StoreTypeOK
    <3>3. OnDisk' = OnDisk
      BY <1>1, <2>3, <3>1, <3>2 DEF OnDisk, StoreInv, StoreTypeOK
    <3>4. \A u \in Writers : ~Saving(u)'
      BY <1>4, <2>1, <2>3 DEF Exclusive, Saving
    <3>5. Exclusive'
      BY <3>4 DEF Exclusive, Saving
    <3> QED
      BY <2>1, <3>3, <3>5
  <2> QED
    BY <1>2, <2>2, <2>3
<1> QED
  BY <1>6, <1>7 DEF StoreInv

LEMMA DieKeeps ==
    ASSUME StoreInv, NEW P \in SUBSET Writers, Die(P)
    PROVE  StoreInv'
<1>1. /\ writer' = [w \in Writers |-> IF w \in P THEN Resting ELSE writer[w]]
      /\ UNCHANGED <<data, path, tmp, shared, overlapped, updates>> /\ faults' \in Nat
  BY DEF Die, Fault, StoreInv, StoreTypeOK
<1>2. /\ writer' \in [Writers -> Writer]
      /\ \A u \in Writers : writer'[u].pc \in {"write", "replace"} => writer'[u].file \in Inodes
      /\ \A u \in Writers : Saving(u)' => Saving(u) /\ writer'[u] = writer[u] /\ u \notin P
  BY <1>1, RestingKeeps DEF StoreInv
<1>3. StoreTypeOK'
  BY <1>1, <1>2 DEF StoreInv, StoreTypeOK
<1>4. ~shared' => OnDisk' \in States /\ Exclusive'
  BY <1>1, <1>2 DEF StoreInv, OnDisk, Exclusive, Saving
<1> QED
  BY <1>3, <1>4 DEF StoreInv

LEMMA MergedIsState ==
    ASSUME NEW k \in Keys, NEW r \in Records \cup {NoRecord}
    PROVE  Merged(k, r) \in States
BY LoadedIsState DEF Merged, States

LEMMA StepStoreInv == StoreInv /\ [Next]_vars => StoreInv'
<1> SUFFICES ASSUME StoreInv, [Next]_vars PROVE StoreInv'
  OBVIOUS
<1> USE DEF Writers
<1>1. ASSUME NEW w \in Handlers, NEW k \in Keys, Remove(w, k) PROVE StoreInv'
  <2>1. Merged(k, NoRecord) \in States
    BY MergedIsState
  <2> QED
    BY <1>1, <2>1, BeginKeeps DEF Remove, Begin
<1>2. ASSUME NEW w \in Handlers, NEW k \in Keys, NEW r \in Records, Record(w, k, r)
      PROVE  StoreInv'
  <2>1. Merged(k, r) \in States
    BY MergedIsState
  <2> QED
    BY <1>2, <2>1, BeginKeeps DEF Record, Begin
<1>3. ASSUME NEW w \in Tools, Clear(w) PROVE StoreInv'
  <2>1. Blank \in States
    BY DEF Blank, States
  <2> QED
    BY <1>3, <2>1, BeginKeeps DEF Clear, Begin
<1>4. ASSUME NEW w \in Tools, Die({w}) PROVE StoreInv'
  BY <1>4, DieKeeps, {w} \in SUBSET Writers
<1>5. ASSUME NEW w \in Writers, OpenTmp(w) PROVE StoreInv'
  BY <1>5, OpenKeeps
<1>6. ASSUME NEW w \in Writers, WriteTmp(w) PROVE StoreInv'
  BY <1>6, WriteKeeps
<1>7. ASSUME NEW w \in Writers, Replace(w) PROVE StoreInv'
  BY <1>7, ReplaceKeeps
<1>8. ASSUME NEW w \in Writers, SaveFails(w) PROVE StoreInv'
  BY <1>8, FailKeeps
<1>9. CASE Die(Handlers)
  BY <1>9, DieKeeps, Handlers \in SUBSET Writers
<1>10. CASE UNCHANGED vars
  BY <1>10 DEF vars, StoreInv, StoreTypeOK, OnDisk, Exclusive, Saving
<1> QED
  BY <1>1, <1>2, <1>3, <1>4, <1>5, <1>6, <1>7, <1>8, <1>9, <1>10 DEF Next

\* The inductive invariant holds in every reachable state: the temporary file of a save
\* belongs to that save until two writers have it open at once.
THEOREM StoreInvariance == Spec => []StoreInv
<1>1. Init => StoreInv
  BY InitStoreInv
<1>2. StoreInv /\ [Next]_vars => StoreInv'
  BY StepStoreInv
<1> QED
  BY <1>1, <1>2, PTL DEF Spec

\* The files, the names and what each writer remembers keep their types, and the two
\* names are never of one file.
THEOREM StoreTypeCorrect == Spec => []StoreTypeOK
<1>1. StoreInv => StoreTypeOK
  BY DEF StoreInv
<1> QED
  BY <1>1, StoreInvariance, PTL

\* No failing operation and no death of a process makes state.json unreadable.
THEOREM Readable == Spec => []ReadableUnlessShared
<1>1. StoreInv => ReadableUnlessShared
  BY DEF StoreInv, ReadableUnlessShared
<1> QED
  BY <1>1, StoreInvariance, PTL

\* What a step of a writer other than Replace does to the names.
LEMMA OnlyReplaceRenames ==
    ASSUME StoreInv, Next, path' # path
    PROVE  \E w \in Writers : Replace(w)
BY DEF Next, Remove, Record, Clear, Begin, Die, OpenTmp, WriteTmp, SaveFails

\* A save publishes the state it was given, whatever a save that failed before it has
\* left under the temporary name.
THEOREM Published == Spec => PublishedUnlessShared
<1> DEFINE Whole ==
      \A w \in Writers :
         writer[w].pc = "replace" /\ path' # path /\ writer'[w] # writer[w] /\ ~shared
         => OnDisk' = writer[w].copy
<1>1. ASSUME StoreInv, [Next]_vars PROVE [Whole]_vars
  <2> SUFFICES ASSUME Next,
                      NEW w \in Writers,
                      writer[w].pc = "replace", path' # path, writer'[w] # writer[w], ~shared
               PROVE  OnDisk' = writer[w].copy
    BY <1>1
  <2>1. PICK u \in Writers : Replace(u)
    BY <1>1, OnlyReplaceRenames
  <2>2. u = w
    BY <1>1, <2>1 DEF Replace, StoreInv, StoreTypeOK
  <2>3. tmp \in Inodes /\ data[tmp] = writer[w].copy
    BY <1>1, <2>1 DEF Replace, StoreInv, StoreTypeOK, Exclusive, Saving
  <2> QED
    BY <2>1, <2>3, FileAssumption DEF Replace, OnDisk
<1> QED
  BY <1>1, StoreInvariance, PTL DEF Spec, PublishedUnlessShared

-----------------------------------------------------------------------------
(* Until updates overlap the file implements the map of entries *)

LEMMA OnlyReplacePublishes ==
    ASSUME StoreInv, [Next]_vars, ~shared, ~shared', \A w \in Writers : ~Replace(w)
    PROVE  OnDisk' = OnDisk
<1>0. Exclusive
  BY DEF StoreInv
<1>1. ASSUME UNCHANGED <<data, path>> PROVE OnDisk' = OnDisk
  BY <1>1 DEF OnDisk
<1>2. ASSUME NEW w \in Writers, OpenTmp(w) PROVE OnDisk' = OnDisk
  BY <1>2 DEF OpenTmp, InUse, OnDisk, StoreInv, StoreTypeOK
<1>3. ASSUME NEW w \in Writers, writer[w].pc = "write", path' = path,
             NEW content, data' = [data EXCEPT ![writer[w].file] = content]
      PROVE  OnDisk' = OnDisk
  <2>1. writer[w].file = tmp /\ tmp \in Inodes
    BY <1>0, <1>3 DEF StoreInv, StoreTypeOK, Exclusive, Saving
  <2>2. tmp # path
    BY <2>1, FileAssumption DEF StoreInv, StoreTypeOK
  <2> QED
    BY <1>3, <2>1, <2>2 DEF OnDisk, StoreInv, StoreTypeOK
<1>4. ASSUME NEW w \in Writers, WriteTmp(w) PROVE OnDisk' = OnDisk
  BY <1>3, <1>4 DEF WriteTmp
<1>5. ASSUME NEW w \in Writers, SaveFails(w) PROVE OnDisk' = OnDisk
  BY <1>1, <1>3, <1>5 DEF SaveFails
<1> QED
  BY <1>1, <1>2, <1>4, <1>5 DEF Next, vars, Remove, Record, Clear, Begin, Die

LEMMA InitSoloInv == Init => SoloInv
<1> SUFFICES ASSUME Init PROVE SoloInv
  OBVIOUS
<1> QED
  BY InitStoreInv DEF Init, SoloInv, Solo, Resting

\* A writer that begins alone is alone, with a state one update away.
LEMMA BeginKeepsSolo ==
    ASSUME SoloInv, NEW w \in Writers, NEW c, NEW s, UpdateOf(Loaded, s), Begin(w),
           writer' = [writer EXCEPT ![w] = Opening(c, s)], ~overlapped'
    PROVE  Solo'
<1>1. ~overlapped /\ \A u \in Writers : u # w => writer[u].pc = "idle"
  BY DEF Begin
<1>2. Loaded' = Loaded /\ shared' = shared
  BY DEF Begin, OnDisk, Loaded
<1>3. \A u \in Writers : writer'[u] = IF u = w THEN Opening(c, s) ELSE writer[u]
  BY DEF SoloInv, StoreInv, StoreTypeOK
<1>4. \A u \in Writers : writer'[u].pc # "idle" => u = w /\ writer'[u].copy = s
  BY <1>1, <1>3 DEF Opening
<1>5. \A u \in Writers : writer'[u].pc # "idle" => UpdateOf(Loaded', writer'[u].copy)
  BY <1>2, <1>4
<1>6. ~shared'
  BY <1>1, <1>2 DEF Solo, SoloInv
<1> QED
  BY <1>4, <1>5, <1>6 DEF Solo

\* A step of a busy writer that publishes nothing, and after which it is idle or has the
\* same state to publish.
LEMMA BusyKeepsSolo ==
    ASSUME SoloInv, ~overlapped, ~shared', OnDisk' = OnDisk,
           \A u \in Writers : writer'[u].pc # "idle" =>
               writer[u].pc # "idle" /\ writer'[u].copy = writer[u].copy
    PROVE  Solo'
<1>1. Solo
  BY DEF SoloInv
<1>2. Loaded' = Loaded
  BY DEF Loaded
<1>3. \A u \in Writers : writer'[u].pc # "idle" => UpdateOf(Loaded', writer'[u].copy)
  BY <1>1, <1>2 DEF Solo
<1>4. \A w, u \in Writers : writer'[w].pc # "idle" /\ writer'[u].pc # "idle" => w = u
  BY <1>1 DEF Solo
<1> QED
  BY <1>3, <1>4 DEF Solo

LEMMA OverlappedStays ==
    ASSUME [Next]_vars, overlapped
    PROVE  overlapped'
BY DEF Next, vars, Remove, Record, Clear, Begin, Die, OpenTmp, WriteTmp, Replace, SaveFails

LEMMA StepSolo ==
    ASSUME SoloInv, [Next]_vars, ~overlapped'
    PROVE  Solo'
<1>0. StoreInv /\ StoreInv' /\ StoreTypeOK
  BY StepStoreInv DEF SoloInv, StoreInv
<1>1. ~overlapped /\ Solo
  <2>1. ~overlapped
    BY OverlappedStays
  <2> QED
    BY <2>1 DEF SoloInv
<1>2. ASSUME NEW w \in Handlers, NEW k \in Keys, Remove(w, k) PROVE Solo'
  <2>1. UpdateOf(Loaded, Merged(k, NoRecord))
    BY DEF UpdateOf, Merged
  <2> QED
    BY <1>2, <2>1, BeginKeepsSolo DEF Remove, Writers
<1>3. ASSUME NEW w \in Handlers, NEW k \in Keys, NEW r \in Records, Record(w, k, r) PROVE Solo'
  <2>1. UpdateOf(Loaded, Merged(k, r))
    BY DEF UpdateOf, Merged
  <2> QED
    BY <1>3, <2>1, BeginKeepsSolo DEF Record, Writers
<1>4. ASSUME NEW w \in Tools, Clear(w) PROVE Solo'
  <2>1. UpdateOf(Loaded, Blank)
    BY DEF UpdateOf
  <2> QED
    BY <1>4, <2>1, BeginKeepsSolo DEF Clear, Writers
<1>5. ASSUME NEW w \in Writers, Replace(w) PROVE Solo'
  <2>1. \A u \in Writers : u # w => writer[u].pc = "idle"
    BY <1>1, <1>5 DEF Replace, Solo
  <2>2. \A u \in Writers : writer'[u].pc = "idle"
    BY <1>0, <1>5, <2>1 DEF Replace, StoreTypeOK, Resting
  <2>3. ~shared'
    BY <1>1, <1>5 DEF Replace, Solo
  <2> QED
    BY <2>2, <2>3 DEF Solo
<1>6. ASSUME \A w \in Writers : ~Replace(w), ~shared' PROVE OnDisk' = OnDisk
  BY <1>0, <1>1, <1>6, OnlyReplacePublishes DEF Solo
<1>7. ASSUME NEW w \in Writers, OpenTmp(w) PROVE Solo'
  <2>1. PICK i \in Inodes : /\ writer' = [writer EXCEPT ![w].pc = "write", ![w].file = i]
                            /\ shared' = (shared \/ \E u \in Writers : HasOpen(u, i))
    BY <1>7 DEF OpenTmp
  <2>2. writer[w].pc = "open" /\ writer[w] \in Writer
    BY <1>0, <1>7 DEF OpenTmp, StoreTypeOK
  <2>3. ~shared'
    BY <1>1, <2>1, <2>2 DEF HasOpen, Solo
  <2>4. OnDisk' = OnDisk
    BY <1>0, <1>7 DEF OpenTmp, InUse, OnDisk, StoreTypeOK
  <2>5. \A u \in Writers : writer'[u].pc # "idle" =>
          writer[u].pc # "idle" /\ writer'[u].copy = writer[u].copy
    BY <1>0, <2>1, <2>2 DEF StoreTypeOK, Writer
  <2> QED
    BY <1>1, <2>3, <2>4, <2>5, BusyKeepsSolo
<1>8. ASSUME NEW w \in Writers, WriteTmp(w) PROVE Solo'
  <2>1. /\ writer[w].pc = "write" /\ shared' = shared
        /\ writer' = [writer EXCEPT ![w].pc = "replace"]
    BY <1>8 DEF WriteTmp
  <2>2. \A u \in Writers : writer'[u].pc # "idle" =>
          writer[u].pc # "idle" /\ writer'[u].copy = writer[u].copy
    BY <1>0, <2>1 DEF StoreTypeOK, Writer
  <2>3. \A u \in Writers : ~Replace(u)
    BY <1>1, <2>1 DEF Replace, Solo
  <2> QED
    BY <1>1, <1>6, <2>1, <2>2, <2>3, BusyKeepsSolo DEF Solo
<1>9. ASSUME NEW P \in SUBSET Writers, UNCHANGED <<path, tmp, shared>>,
             writer' = [u \in Writers |-> IF u \in P THEN Resting ELSE writer[u]],
             OnDisk' = OnDisk
      PROVE  Solo'
  <2>1. \A u \in Writers : writer'[u].pc # "idle" =>
          writer[u].pc # "idle" /\ writer'[u].copy = writer[u].copy
    BY <1>9 DEF Resting
  <2> QED
    BY <1>1, <1>9, <2>1, BusyKeepsSolo DEF Solo
<1>10. ASSUME NEW P \in SUBSET Writers, Die(P) PROVE Solo'
  BY <1>9, <1>10 DEF Die, OnDisk
<1>11. ASSUME NEW w \in Writers, SaveFails(w) PROVE Solo'
  <2>1. writer' = [writer EXCEPT ![w] = Resting] /\ UNCHANGED <<path, tmp, shared>>
    BY <1>11 DEF SaveFails
  <2>2. writer' = [u \in Writers |-> IF u \in {w} THEN Resting ELSE writer[u]]
    BY <1>0, <2>1 DEF StoreTypeOK
  <2>3. CASE data' = data
    BY <1>9, <2>1, <2>2, <2>3, {w} \in SUBSET Writers DEF OnDisk
  <2>4. CASE writer[w].pc = "write"
    <3>1. \A u \in Writers : ~Replace(u)
      BY <1>1, <2>4 DEF Replace, Solo
    <3>2. ~shared'
      BY <1>1, <2>1 DEF Solo
    <3> QED
      BY <1>6, <1>9, <2>1, <2>2, <3>1, <3>2, {w} \in SUBSET Writers
  <2> QED
    BY <1>11, <2>3, <2>4 DEF SaveFails
<1>12. CASE UNCHANGED vars
  BY <1>1, <1>12, BusyKeepsSolo DEF vars, OnDisk, Solo
<1> QED
  BY <1>2, <1>3, <1>4, <1>5, <1>7, <1>8, <1>10, <1>11, <1>12,
     Handlers \in SUBSET Writers, \A w \in Tools : {w} \in SUBSET Writers DEF Next, Writers

LEMMA StepSoloInv == SoloInv /\ [Next]_vars => SoloInv'
BY StepStoreInv, StepSolo DEF SoloInv

LEMMA InitImplements == Init => Abstract!Init
BY DEF Init, OnDisk, Abstract!Init, Abstract!Blank, Blank

LEMMA StepImplements ==
    ASSUME SoloInv, [Next]_vars
    PROVE  [Abstract!Next]_<<OnDisk, overlapped>>
<1>1. CASE overlapped'
  BY <1>1 DEF Abstract!Next
<1> SUFFICES ASSUME ~overlapped' PROVE [Abstract!Next]_<<OnDisk, overlapped>>
  BY <1>1
<1>2. ~overlapped /\ Solo /\ Solo'
  BY StepSolo, OverlappedStays DEF SoloInv
<1>3. CASE \A w \in Writers : ~Replace(w)
  <2>1. OnDisk' = OnDisk
    BY <1>2, <1>3, OnlyReplacePublishes DEF SoloInv, Solo
  <2>2. overlapped \in BOOLEAN /\ overlapped' \in BOOLEAN
    BY StepStoreInv DEF SoloInv, StoreInv, StoreTypeOK
  <2> QED
    BY <1>2, <2>1, <2>2
<1>4. ASSUME NEW w \in Writers, Replace(w) PROVE Abstract!Next
  <2>1. tmp \in Inodes /\ data[tmp] = writer[w].copy
    BY <1>2, <1>4 DEF Replace, SoloInv, Solo, StoreInv, StoreTypeOK, Exclusive, Saving
  <2>2. OnDisk' = writer[w].copy
    BY <1>4, <2>1, FileAssumption DEF Replace, OnDisk
  <2>3. Loaded = OnDisk
    BY <1>2 DEF SoloInv, StoreInv, Solo, Loaded
  <2>4. UpdateOf(OnDisk, OnDisk')
    BY <1>2, <1>4, <2>2, <2>3 DEF Replace, Solo
  <2>5. OnDisk' = Blank \/ \E k \in Keys : Abstract!Update(k)
    BY <2>4 DEF UpdateOf, Abstract!Update
  <2> QED
    BY <1>2, <2>5 DEF Abstract!Next, Abstract!Clear, Abstract!Blank, Blank
<1> QED
  BY <1>3, <1>4

\* As long as no handler or tool begins an update while another is saving, what the
\* callers see is the map of entries of StateMap: each update is there at once or not at
\* all, whatever fails or dies, for any number of writers.
THEOREM StoreImplementsMap == Spec => ImplementsMap
<1>1. Init => SoloInv /\ Abstract!Init
  BY InitSoloInv, InitImplements
<1>2. SoloInv /\ [Next]_vars => SoloInv' /\ [Abstract!Next]_<<OnDisk, overlapped>>
  BY StepSoloInv, StepImplements
<1> QED
  BY <1>1, <1>2, PTL DEF Spec, ImplementsMap, Abstract!Spec

=============================================================================
