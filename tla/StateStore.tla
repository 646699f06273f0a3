---------------------------- MODULE StateStore ----------------------------
(***************************************************************************)
(* state.json at the grain of its file operations                          *)
(* (backend/app/services/local_state_store.py): load_state, a change to    *)
(* one entry, and save_state, which writes state.json.tmp and renames it.  *)
(*                                                                         *)
(* Writers are the handler threads of the server and `cloudnet state       *)
(* clear`, a process of its own.  They take no lock and share the name of  *)
(* the temporary file, so files are modelled as the file system has them:  *)
(* a name is a pointer to an inode, and a writer goes on writing to the    *)
(* inode it has opened whatever has become of its name.                    *)
(***************************************************************************)
EXTENDS Naturals

CONSTANTS
    Handlers,    \* threads of the server that record or remove deployments
    Tools,       \* processes of the command line client that clear the file
    Keys,        \* topology ids
    Records,     \* what can be recorded of a deployment
    NoRecord,    \* there is no entry
    Inodes,      \* files of the directory, named or only held open
    NoFile,      \* a name that no file has
    Empty, Torn, \* the content of a file that is no JSON: nothing yet, or a mixture
    MaxUpdates,  \* bound: updates begun in a behaviour
    MaxFaults    \* bound: failing file operations and deaths of a process

ASSUME RecordAssumption == NoRecord \notin Records
ASSUME FileAssumption == NoFile \notin Inodes
ASSUME StoreBoundAssumption == MaxUpdates \in Nat /\ MaxFaults \in Nat

Writers == Handlers \cup Tools

States == [Keys -> Records \cup {NoRecord}]
Blank == [k \in Keys |-> NoRecord]

Garbage == {Empty, Torn}
ASSUME GarbageAssumption == Empty # Torn /\ Garbage \cap States = {}

VARIABLES
    data,    \* the content of each inode
    path,    \* the inode named state.json
    tmp,     \* the inode named state.json.tmp
    writer,  \* what each writer is doing
    shared,  \* two writers have had the temporary file open at once (observer)
    overlapped, \* a writer has begun while another was saving (observer)
    updates, \* updates begun so far
    faults   \* faults so far

vars == <<data, path, tmp, writer, shared, overlapped, updates, faults>>

\* changes: the entries the writer means to change; copy: the state it will write;
\* file: the inode it has open.
Writer == [pc : {"idle", "open", "write", "replace"},
           changes : SUBSET Keys,
           copy : States,
           file : Inodes \cup {NoFile}]

Resting == [pc |-> "idle", changes |-> {}, copy |-> Blank, file |-> NoFile]

\* A writer that is about to save state s, in order to change the entries c.
Opening(c, s) == [pc |-> "open", changes |-> c, copy |-> s, file |-> NoFile]

Init ==
    /\ data = [i \in Inodes |-> Empty]
    /\ path = NoFile
    /\ tmp = NoFile
    /\ writer = [w \in Writers |-> Resting]
    /\ shared = FALSE
    /\ overlapped = FALSE
    /\ updates = 0
    /\ faults = 0

-----------------------------------------------------------------------------
(* load_state *)

\* The content of state.json; of a file that does not exist, the empty skeleton.
OnDisk == IF path = NoFile THEN Blank ELSE data[path]

\* What load_state makes of it: the skeleton again when it is no JSON.
Loaded == IF OnDisk \in States THEN OnDisk ELSE Blank

\* The merge of one entry into a loaded state.
Merged(k, r) == [Loaded EXCEPT ![k] = r]

Begin(w) ==
    /\ writer[w].pc = "idle"
    /\ updates < MaxUpdates
    /\ updates' = updates + 1
    /\ overlapped' = (overlapped \/ \E u \in Writers \ {w} : writer[u].pc # "idle")
    /\ UNCHANGED <<data, path, tmp, shared, faults>>

\* record_deploy_snapshot and record_deploy_failed up to save_state.
Record(w, k, r) ==
    /\ Begin(w)
    /\ writer' = [writer EXCEPT ![w] = Opening({k}, Merged(k, r))]

\* remove_local_deployment: nothing is saved when there is no such entry.
Remove(w, k) ==
    /\ Begin(w)
    /\ Loaded[k] # NoRecord
    /\ writer' = [writer EXCEPT ![w] = Opening({k}, Merged(k, NoRecord))]

\* clear_all_local_state.
Clear(w) ==
    /\ Begin(w)
    /\ writer' = [writer EXCEPT ![w] = Opening(Keys, Blank)]

-----------------------------------------------------------------------------
(* save_state *)

HasOpen(w, i) == writer[w].pc \in {"write", "replace"} /\ writer[w].file = i
InUse(i) == i = path \/ i = tmp \/ \E w \in Writers : HasOpen(w, i)

\* Mutants: the file itself is opened; the temporary file is opened without truncation.
OpenInPlace(w) ==
    /\ writer[w].pc = "open"
    /\ \E i \in Inodes :
         /\ IF path = NoFile THEN ~InUse(i) ELSE i = path
         /\ path' = i
         /\ data' = [data EXCEPT ![i] = Empty]
         /\ writer' = [writer EXCEPT ![w].pc = "write", ![w].file = i]
    /\ UNCHANGED <<tmp, shared, overlapped, updates, faults>>

OpenAsItIs(w) ==
    /\ writer[w].pc = "open"
    /\ \E i \in Inodes :
         /\ IF tmp = NoFile THEN ~InUse(i) ELSE i = tmp
         /\ tmp' = i
         /\ writer' = [writer EXCEPT ![w].pc = "write", ![w].file = i]
         /\ shared' = (shared \/ \E u \in Writers : HasOpen(u, i))
    /\ UNCHANGED <<data, path, overlapped, updates, faults>>

\* open(state.json.tmp, "w"): a new file, or the one of that name truncated.
OpenTmp(w) ==
    /\ writer[w].pc = "open"
    /\ \E i \in Inodes :
         /\ IF tmp = NoFile THEN ~InUse(i) ELSE i = tmp
         /\ tmp' = i
         /\ data' = [data EXCEPT ![i] = Empty]
         /\ writer' = [writer EXCEPT ![w].pc = "write", ![w].file = i]
         /\ shared' = (shared \/ \E u \in Writers : HasOpen(u, i))
    /\ UNCHANGED <<path, overlapped, updates, faults>>

\* The payload, from offset 0.  Over longer content that another writer has put there
\* since the truncation, the tail of that content stays and the file is no JSON.
WriteTmp(w) ==
    LET i == writer[w].file IN
    /\ writer[w].pc = "write"
    /\ \E content \in {writer[w].copy} \cup (IF data[i] = Empty THEN {} ELSE {Torn}) :
         data' = [data EXCEPT ![i] = content]
    /\ writer' = [writer EXCEPT ![w].pc = "replace"]
    /\ UNCHANGED <<path, tmp, shared, overlapped, updates, faults>>

\* Mutant: the temporary name is kept, as a link would.
LinkTmp(w) ==
    /\ writer[w].pc = "replace"
    /\ path' = IF tmp = NoFile THEN path ELSE tmp
    /\ writer' = [writer EXCEPT ![w] = Resting]
    /\ UNCHANGED <<data, tmp, shared, overlapped, updates, faults>>

\* tmp.replace(path) renames whatever has the temporary name now; it raises when another
\* writer has renamed that already.
Replace(w) ==
    /\ writer[w].pc = "replace"
    /\ path' = IF tmp = NoFile THEN path ELSE tmp
    /\ tmp' = NoFile
    /\ writer' = [writer EXCEPT ![w] = Resting]
    /\ UNCHANGED <<data, shared, overlapped, updates, faults>>

-----------------------------------------------------------------------------
(* Faults *)

Fault == faults < MaxFaults /\ faults' = faults + 1

\* A file operation raises, and the callers drop the exception.  A write that finds the
\* disk full leaves what it has written.
SaveFails(w) ==
    /\ Fault
    /\ writer[w].pc # "idle"
    /\ \/ UNCHANGED data
       \/ /\ writer[w].pc = "write"
          /\ data' = [data EXCEPT ![writer[w].file] = Torn]
    /\ writer' = [writer EXCEPT ![w] = Resting]
    /\ UNCHANGED <<path, tmp, shared, overlapped, updates>>

\* The process dies, of the server with all its threads, between two of its steps.
Die(P) ==
    /\ Fault
    /\ \E w \in P : writer[w].pc # "idle"
    /\ writer' = [w \in Writers |-> IF w \in P THEN Resting ELSE writer[w]]
    /\ UNCHANGED <<data, path, tmp, shared, overlapped, updates>>

Next ==
    \/ \E w \in Handlers, k \in Keys : Remove(w, k) \/ \E r \in Records : Record(w, k, r)
    \/ \E w \in Tools : Clear(w) \/ Die({w})
    \/ \E w \in Writers : OpenTmp(w) \/ WriteTmp(w) \/ Replace(w) \/ SaveFails(w)
    \/ Die(Handlers)

Spec == Init /\ [][Next]_vars

-----------------------------------------------------------------------------
(* Properties *)

\* Every variable holds a value of its type, a writer in the middle of a save has a file
\* open, and the two names are never of one file, which a save could then truncate under
\* its readers.
StoreTypeOK ==
    /\ data \in [Inodes -> States \cup Garbage]
    /\ path \in Inodes \cup {NoFile}
    /\ tmp \in Inodes \cup {NoFile}
    /\ path = tmp => path = NoFile
    /\ writer \in [Writers -> Writer]
    /\ \A w \in Writers : writer[w].pc \in {"write", "replace"} => writer[w].file \in Inodes
    /\ shared \in BOOLEAN
    /\ overlapped \in BOOLEAN
    /\ updates \in Nat /\ faults \in Nat

\* Whatever dies or fails in the middle of a save, state.json can be read; it takes two
\* writers with the temporary file open at once to make it what load_state takes for an
\* empty one.
ReadableUnlessShared == ~shared => OnDisk \in States

\* A save that has renamed the file has published the state it was given, whatever an
\* earlier save that failed has left under the temporary name, unless two writers had it
\* open at once.
PublishedUnlessShared ==
    [][\A w \in Writers :
         writer[w].pc = "replace" /\ path' # path /\ writer'[w] # writer[w] /\ ~shared
         => OnDisk' = writer[w].copy]_vars

\* A save changes the entries it was called for and keeps all others.
MergeKeepsOthers ==
    [][\A w \in Writers :
         writer[w].pc = "replace" /\ path' # path /\ writer'[w] # writer[w]
         => \A k \in Keys \ writer[w].changes : Loaded'[k] = Loaded[k]]_vars

\* Until a writer begins while another is saving, the file is the map of entries that its
\* callers see, whoever writes, through failing writes and deaths of a process.
Abstract == INSTANCE StateMap WITH entries <- OnDisk
ImplementsMap == Abstract!Spec

=============================================================================
