--------------------------- MODULE SnapshotManager ---------------------------
(***************************************************************************)
(* Taking and pruning state-sync snapshots: snapshots.Manager, of which    *)
(* every snapshot height gets a goroutine of its own, and snapshots.Store, *)
(* which keeps the chunks in files and the metadata in a database.  The    *)
(* goroutines exclude each other by Manager.operation.  An export may fail *)
(* at any chunk, a disk operation may fail, and the process may be killed  *)
(* between any two writes.                                                 *)
(*                                                                         *)
(* Heights are the snapshot heights, counted.                              *)
(***************************************************************************)
EXTENDS Integers, FiniteSets

CONSTANTS
    MaxHeight,     \* bound on the snapshot heights
    Chunks,        \* the chunks of a complete export
    KeepRecent,    \* state-sync.snapshot-keep-recent; 0 keeps all
    MaxCrashes,    \* bound on the crashes
    Absent         \* no metadata

VARIABLES
    height,        \* the last snapshot height that was committed
    job,           \* height to the state of its goroutine
    operation,     \* Manager.operation
    written,       \* height to the number of chunks its goroutine has saved
    pruning,       \* the heights that the running Prune has still to delete
    db,            \* height to Absent or the number of chunks of its metadata
    files,         \* height to the chunks whose file is complete
    crashes

ASSUME SnapshotAssumption ==
    /\ MaxHeight \in Nat /\ Chunks \in Nat \ {0} /\ KeepRecent \in Nat
    /\ MaxCrashes \in Nat /\ Absent \notin Nat

disk == <<db, files>>
vars == <<height, job, operation, written, pruning, disk, crashes>>

Heights == 1 .. MaxHeight
Snapshotting == {"check", "save", "saved"}
Pruning == {"prune", "remove"}
States == {"none", "create", "created", "done"} \cup Snapshotting \cup Pruning

Saved == {h \in Heights : db[h] # Absent}

Init ==
    /\ height = 0
    /\ job = [h \in Heights |-> "none"]
    /\ operation = "none"
    /\ written = [h \in Heights |-> 0]
    /\ pruning = {}
    /\ db = [h \in Heights |-> Absent] /\ files = [h \in Heights |-> {}]
    /\ crashes = 0

----------------------------------------------------------------------------
\* BaseApp.Commit: go SnapshotIfApplicable, without waiting for the last one.
Commit ==
    /\ height < MaxHeight
    /\ height' = height + 1
    /\ job' = [job EXCEPT ![height + 1] = "create"]
    /\ UNCHANGED <<operation, written, pruning, disk, crashes>>

\* Mutant: an operation in progress is not looked for.
BeginRegardless(h, op, at, otherwise) ==
    operation' = op /\ job' = [job EXCEPT ![h] = at]

\* begin: the goroutine goes on at one place, or at another when an operation is
\* in progress.
Begin(h, op, at, otherwise) ==
    IF operation = "none"
    THEN operation' = op /\ job' = [job EXCEPT ![h] = at]
    ELSE UNCHANGED operation /\ job' = [job EXCEPT ![h] = otherwise]

\* Mutant: end is not called.
EndOnlyJob(h, at) == UNCHANGED operation /\ job' = [job EXCEPT ![h] = at]

End(h, at) == operation' = "none" /\ job' = [job EXCEPT ![h] = at]

BeginCreate(h) ==
    /\ job[h] = "create"
    /\ Begin(h, "snapshot", "check", "done")
    /\ UNCHANGED <<height, written, pruning, disk, crashes>>

\* GetLatest: no snapshot is taken at or below the latest one.
IsLatest(h) == \A g \in Saved : g < h

CheckLatest(h) ==
    /\ job[h] = "check"
    /\ IF IsLatest(h)
         THEN job' = [job EXCEPT ![h] = "save"] /\ UNCHANGED operation
         ELSE End(h, "done")
    /\ written' = [written EXCEPT ![h] = 0]
    /\ UNCHANGED <<height, pruning, disk, crashes>>

\* saveChunk.
SaveChunk(h) ==
    /\ job[h] = "save" /\ written[h] < Chunks
    /\ written' = [written EXCEPT ![h] = @ + 1]
    /\ files' = [files EXCEPT ![h] = @ \cup {written[h] + 1}]
    /\ UNCHANGED <<height, job, operation, pruning, db, crashes>>

\* saveChunk or the export fails: the files that are there stay.
SaveFails(h) ==
    /\ job[h] = "save"
    /\ End(h, "done")
    /\ UNCHANGED <<height, written, pruning, disk, crashes>>

\* Save's loop ends when the channel of the chunks is closed.  The writer closes
\* it at the end of the export, and when the export fails before the first
\* chunk is handed over: then there is no reader that could be given the error.
StreamEnds(h) == written[h] \in {0, Chunks}

\* saveSnapshot.
SaveSnapshot(h) ==
    /\ job[h] = "save" /\ StreamEnds(h)
    /\ db' = [db EXCEPT ![h] = written[h]]
    /\ job' = [job EXCEPT ![h] = "saved"]
    /\ UNCHANGED <<height, operation, written, pruning, files, crashes>>

EndCreate(h) ==
    /\ job[h] = "saved"
    /\ End(h, IF KeepRecent > 0 THEN "created" ELSE "done")
    /\ UNCHANGED <<height, written, pruning, disk, crashes>>

----------------------------------------------------------------------------
\* Mutant: one snapshot too many is pruned.
OldSnapshotsToo == {h \in Saved : Cardinality({g \in Saved : g > h}) + 1 >= KeepRecent}

\* Prune: all but the most recent ones.
OldSnapshots == {h \in Saved : Cardinality({g \in Saved : g > h}) >= KeepRecent}

BeginPrune(h) ==
    /\ job[h] = "created"
    /\ Begin(h, "prune", "prune", "done")
    /\ pruning' = IF operation = "none" THEN OldSnapshots ELSE pruning
    /\ UNCHANGED <<height, written, disk, crashes>>

Newest(g) == g \in pruning /\ \A k \in pruning : k <= g

\* Mutant: the chunks first.
DeleteMetadataLast(h, g) ==
    /\ job[h] = "prune" /\ Newest(g)
    /\ files' = [files EXCEPT ![g] = {}]
    /\ job' = [job EXCEPT ![h] = "remove"]
    /\ UNCHANGED <<height, operation, written, pruning, db, crashes>>

\* Delete: the metadata first, then the chunks.
DeleteMetadata(h, g) ==
    /\ job[h] = "prune" /\ Newest(g)
    /\ db' = [db EXCEPT ![g] = Absent]
    /\ job' = [job EXCEPT ![h] = "remove"]
    /\ UNCHANGED <<height, operation, written, pruning, files, crashes>>

RemoveChunks(h, g) ==
    /\ job[h] = "remove" /\ Newest(g)
    /\ files' = [files EXCEPT ![g] = {}]
    /\ pruning' = pruning \ {g}
    /\ job' = [job EXCEPT ![h] = "prune"]
    /\ UNCHANGED <<height, operation, written, db, crashes>>

\* RemoveAll fails after some of the files are gone.
RemoveFails(h, g) ==
    /\ job[h] = "remove" /\ Newest(g)
    /\ \E left \in SUBSET files[g] : files' = [files EXCEPT ![g] = left]
    /\ pruning' = {}
    /\ End(h, "done")
    /\ UNCHANGED <<height, written, db, crashes>>

EndPrune(h) ==
    /\ job[h] = "prune" /\ pruning = {}
    /\ End(h, "done")
    /\ UNCHANGED <<height, written, pruning, disk, crashes>>

\* Only the disk survives.
Crash ==
    /\ crashes < MaxCrashes
    /\ crashes' = crashes + 1
    /\ operation' = "none" /\ pruning' = {}
    /\ job' = [h \in Heights |-> IF h <= height THEN "done" ELSE "none"]
    /\ UNCHANGED <<height, written, disk>>

Create(h) ==
    BeginCreate(h) \/ CheckLatest(h) \/ SaveChunk(h) \/ SaveSnapshot(h) \/ EndCreate(h)
Prune(h) ==
    \/ BeginPrune(h) \/ EndPrune(h)
    \/ \E g \in Heights : DeleteMetadata(h, g) \/ RemoveChunks(h, g)
Fails(h) == SaveFails(h) \/ \E g \in Heights : RemoveFails(h, g)

Next ==
    \/ Commit \/ Crash
    \/ \E h \in Heights : Create(h) \/ Prune(h) \/ Fails(h)

Spec == Init /\ [][Next]_vars

\* Every goroutine runs.
FairSpec == Spec /\ \A h \in Heights : WF_vars(Create(h) \/ Prune(h))

----------------------------------------------------------------------------
(* Properties.                                                             *)

TypeOK ==
    /\ height \in 0 .. MaxHeight
    /\ job \in [Heights -> States]
    /\ operation \in {"none", "snapshot", "prune"}
    /\ written \in [Heights -> 0 .. Chunks]
    /\ pruning \subseteq Heights
    /\ db \in [Heights -> 0 .. Chunks \cup {Absent}]
    /\ files \in [Heights -> SUBSET (1 .. Chunks)]
    /\ crashes \in 0 .. MaxCrashes

\* An operation in progress belongs to exactly one goroutine, and a goroutine
\* that works on snapshots has begun its operation: none is left behind by an
\* error, and no two of them write to the store at once.
OperationOwned ==
    /\ \A h \in Heights :
         /\ job[h] \in Snapshotting => operation = "snapshot"
         /\ job[h] \in Pruning => operation = "prune"
    /\ operation # "none" =>
         \E h \in Heights : job[h] \in Snapshotting \cup Pruning
    /\ \A g, h \in Heights :
         {job[g], job[h]} \subseteq Snapshotting \cup Pruning => g = h

\* Whatever failed and whenever the process died, a snapshot that is listed to
\* other nodes has the file of each of its chunks.
ListedHasChunks == \A h \in Saved : 1 .. db[h] \subseteq files[h]

\* Prune deletes a snapshot only when it keeps KeepRecent later ones, although
\* it runs after its goroutine has let go of the operation that it was taken in.
PruneKeepsRecent ==
    [][\A h \in Heights : h \in Saved /\ db'[h] = Absent =>
          Cardinality({g \in Saved : g > h}) >= KeepRecent]_vars

\* A snapshot is never added below one that is there: pruning and state sync
\* take the highest for the latest.
SnapshotsGrow ==
    [][\A h \in Heights : h \notin Saved /\ db'[h] # Absent =>
          \A g \in Saved : g < h]_vars

\* An operation in progress ends, so that a later snapshot height gets its turn.
OperationEnds == operation # "none" ~> operation = "none"

\* The inductive invariant.
PruneInv ==
    /\ \A h \in Heights : job[h] = "prune" => pruning \subseteq Saved
    /\ \A h \in Heights : job[h] = "remove" =>
         \A g \in pruning : Newest(g) <=> g \notin Saved
ChunksInv ==
    \A h \in Heights :
        /\ job[h] = "save" => 1 .. written[h] \subseteq files[h] /\ IsLatest(h)
        /\ h > height => job[h] = "none"
\* While a goroutine prunes, the snapshots that it does not delete suffice.
RecentInv ==
    \A h \in Heights : job[h] \in Pruning =>
        \A g \in pruning : Cardinality({k \in Saved \ pruning : k > g}) >= KeepRecent
IInv ==
    TypeOK /\ OperationOwned /\ ListedHasChunks /\ PruneInv /\ ChunksInv /\ RecentInv
=============================================================================
