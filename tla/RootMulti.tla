----------------------------- MODULE RootMulti -----------------------------
(***************************************************************************)
(* The commit path of rootmulti.Store: one version saved in every IAVL     *)
(* store, the pruning manager's bookkeeping, the removal of old versions,  *)
(* the metadata that makes the version the latest one, and the snapshot    *)
(* goroutines that read a committed version while later ones are           *)
(* committed and pruned.  Every write to disk is a step of its own, so a   *)
(* crash (and the restart that follows) can fall between any two of them.  *)
(*                                                                         *)
(* pc is the control point of the goroutine that runs Commit:              *)
(*   idle      no Commit is running                                        *)
(*   stores    commitStores, the stores of todo are still to be saved      *)
(*   height    pruningManager.HandleHeight, its body                       *)
(*   flush     pruningManager.HandleHeight, its deferred part              *)
(*   prune     ShouldPruneAtHeight, GetFlushAndResetPruningHeights         *)
(*   delete    PruneStores, the stores of todo still hold batch            *)
(*   metadata  the deferred flushMetadata                                  *)
(*   spawn     BaseApp.Commit, before it starts SnapshotIfApplicable       *)
(*   down      the process does not run;  failed: loadVersion erred        *)
(***************************************************************************)
EXTENDS Integers, FiniteSets

CONSTANTS
    Stores,            \* the mounted IAVL stores
    KeepRecent,        \* PruningOptions.KeepRecent
    Interval,          \* PruningOptions.Interval
    SnapshotInterval,  \* the state-sync snapshot interval, 0 when disabled
    InitialVersion,    \* the version of the first commit
    MaxHeight,         \* bound: the last height that is committed
    MaxCrashes         \* bound: how often the process crashes

\* PruningOptions.Validate asks for KeepRecent >= 2 and Interval >= 10; the
\* results below need no more than this.
ASSUME OptionsAssumption ==
    /\ KeepRecent \in Nat \ {0}
    /\ Interval \in Nat \ {0}
    /\ SnapshotInterval \in Nat
    /\ InitialVersion \in Nat \ {0}
    /\ MaxHeight \in Nat
    /\ MaxCrashes \in Nat

ASSUME StoresAssumption == Stores # {} /\ IsFiniteSet(Stores)

VARIABLES
    \* on disk
    saved,                  \* the versions each IAVL store holds
    latest,                 \* latestVersionKey, written with the commit info
    dbPruneHeights,         \* pruneHeightsKey
    dbSnapshotHeights,      \* pruneSnapshotHeightsKey
    dbSnapshot,             \* the height of the latest stored snapshot
    \* in memory
    pc, todo, batch,
    lastCommit,             \* lastCommitInfo.Version
    tree,                   \* the version of each mutable tree
    pruneHeights, pruneSnapshotHeights,
    job,                    \* the snapshot goroutines: height to control point
    unread,                 \* the stores the running snapshot has yet to export
    \* bookkeeping of the bound
    crashes

disk == <<saved, latest, dbPruneHeights, dbSnapshotHeights, dbSnapshot>>
memory == <<pc, todo, batch, lastCommit, tree, pruneHeights,
            pruneSnapshotHeights, job, unread>>
vars == <<disk, memory, crashes>>

PCs == {"idle", "stores", "height", "flush", "prune", "delete", "metadata",
        "spawn", "down", "failed"}
\* none: no goroutine; created: before begin(opSnapshot); running: the
\* operation is held; ended: released, PruneSnapshotHeight still to come.
Jobs == {"none", "created", "running", "ended"}
Heights == 1 .. MaxHeight

TypeOK ==
    /\ saved \in [Stores -> SUBSET Nat]
    /\ latest \in Nat /\ lastCommit \in Nat /\ dbSnapshot \in Nat
    /\ dbPruneHeights \in SUBSET Nat /\ dbSnapshotHeights \in SUBSET Nat
    /\ pc \in PCs
    /\ todo \in SUBSET Stores /\ unread \in SUBSET Stores
    /\ batch \in SUBSET Nat
    /\ tree \in [Stores -> Nat]
    /\ pruneHeights \in SUBSET Nat /\ pruneSnapshotHeights \in SUBSET Nat
    /\ job \in [Heights -> Jobs]
    /\ crashes \in Nat

NoJobs == [h \in Heights |-> "none"]
Up == pc \notin {"down", "failed"}
\* A height of which a snapshot is taken, shouldTakeSnapshot.
SnapshotHeight(h) == SnapshotInterval > 0 /\ h % SnapshotInterval = 0
\* A snapshot of h is being taken, or is about to be.
Active(h) == h \in Heights /\ job[h] \in {"created", "running"}

Init ==
    /\ saved = [s \in Stores |-> {}]
    /\ latest = 0 /\ dbSnapshot = 0
    /\ dbPruneHeights = {} /\ dbSnapshotHeights = {}
    /\ pc = "down"
    /\ todo = {} /\ batch = {} /\ lastCommit = 0
    /\ tree = [s \in Stores |-> 0]
    /\ pruneHeights = {} /\ pruneSnapshotHeights = {}
    /\ job = NoJobs /\ unread = {}
    /\ crashes = 0

----------------------------------------------------------------------------
(* Start-up.                                                               *)

Highest(S) == CHOOSE v \in S : \A w \in S : w <= v

\* iavl's LoadVersion: version 0 stands for the latest one that was saved.
LoadTree(s) == IF latest # 0 THEN latest ELSE Highest(saved[s] \cup {0})

\* Mutant: the heights to prune are not recovered.
LoadPruningHeightsNone == {}

LoadPruningHeights == dbPruneHeights

\* LoadLatestVersion: every store at the version the metadata names, then the
\* heights that were still to be pruned.
LoadVersion ==
    /\ pc = "down"
    /\ IF latest = 0 \/ \A s \in Stores : latest \in saved[s]
         THEN /\ pc' = "idle"
              /\ lastCommit' = latest
              /\ tree' = [s \in Stores |-> LoadTree(s)]
              /\ pruneHeights' = LoadPruningHeights
              /\ pruneSnapshotHeights' = dbSnapshotHeights
         ELSE /\ pc' = "failed"
              /\ UNCHANGED <<lastCommit, tree, pruneHeights, pruneSnapshotHeights>>
    /\ UNCHANGED <<disk, todo, batch, job, unread, crashes>>

\* The process dies: what is in memory is gone, goroutines included.
Crash ==
    /\ Up /\ crashes < MaxCrashes
    /\ crashes' = crashes + 1
    /\ pc' = "down"
    /\ todo' = {} /\ batch' = {} /\ lastCommit' = 0
    /\ tree' = [s \in Stores |-> 0]
    /\ pruneHeights' = {} /\ pruneSnapshotHeights' = {}
    /\ job' = NoJobs /\ unread' = {}
    /\ UNCHANGED disk

----------------------------------------------------------------------------
(* Commit.                                                                 *)

NextVersion == IF lastCommit = 0 THEN InitialVersion ELSE lastCommit + 1

\* Mutant: the metadata is flushed first, not deferred.
BeginCommitFlushing ==
    /\ pc = "idle" /\ NextVersion <= MaxHeight
    /\ pc' = "stores" /\ todo' = Stores
    /\ latest' = NextVersion
    /\ UNCHANGED <<saved, dbPruneHeights, dbSnapshotHeights, dbSnapshot, batch,
                   lastCommit, tree, pruneHeights, pruneSnapshotHeights, job,
                   unread, crashes>>

BeginCommit ==
    /\ pc = "idle" /\ NextVersion <= MaxHeight
    /\ pc' = "stores" /\ todo' = Stores
    /\ UNCHANGED <<disk, batch, lastCommit, tree, pruneHeights,
                   pruneSnapshotHeights, job, unread, crashes>>

\* One store of commitStores.  A tree that an interrupted commit already took
\* to this version is not committed again.
CommitStore(s) ==
    /\ pc = "stores" /\ s \in todo
    /\ todo' = todo \ {s}
    /\ IF tree[s] >= NextVersion
         THEN UNCHANGED <<tree, saved>>
         ELSE /\ tree' = [tree EXCEPT ![s] = NextVersion]
              /\ saved' = [saved EXCEPT ![s] = @ \cup {NextVersion}]
    /\ UNCHANGED <<latest, dbPruneHeights, dbSnapshotHeights, dbSnapshot, pc,
                   batch, lastCommit, pruneHeights, pruneSnapshotHeights,
                   job, unread, crashes>>

CommitInfo ==
    /\ pc = "stores" /\ todo = {}
    /\ pc' = "height" /\ lastCommit' = NextVersion
    /\ UNCHANGED <<disk, todo, batch, tree, pruneHeights,
                   pruneSnapshotHeights, job, unread, crashes>>

\* previousHeight is lastCommit - 1 throughout HandleHeight.
PreviousHeight == lastCommit - 1

\* The height that leaves the recent ones, unless it is a snapshot height.
HandledHeights ==
    {h \in {PreviousHeight - KeepRecent} : h > 0 /\ ~ SnapshotHeight(h)}

\* HandleHeight, its body.  There is nothing to do before the second height.
HandleHeight ==
    /\ pc = "height"
    /\ IF PreviousHeight <= 0
         THEN pc' = "prune" /\ UNCHANGED pruneHeights
         ELSE /\ pc' = "flush"
              /\ pruneHeights' = pruneHeights \cup HandledHeights
    /\ UNCHANGED <<disk, todo, batch, lastCommit, tree, pruneSnapshotHeights,
                   job, unread, crashes>>

\* Mutant: a snapshot height may be pruned as soon as its snapshot is done.
MovedHeightsAll == pruneSnapshotHeights

\* The snapshot heights that HandleHeight moves to pruneHeights.
MovedHeights ==
    {h \in pruneSnapshotHeights : h < PreviousHeight - KeepRecent}

\* HandleHeight, its deferred part.  Only pruneHeightsKey is written: the
\* heights that are moved stay under pruneSnapshotHeightsKey.
FlushHeights ==
    /\ pc = "flush"
    /\ pc' = "prune"
    /\ pruneHeights' = pruneHeights \cup MovedHeights
    /\ pruneSnapshotHeights' = pruneSnapshotHeights \ MovedHeights
    /\ dbPruneHeights' = pruneHeights'
    /\ UNCHANGED <<saved, latest, dbSnapshotHeights, dbSnapshot, todo, batch,
                   lastCommit, tree, job, unread, crashes>>

ShouldPruneAtHeight(h) == h % Interval = 0

\* handlePruning and GetFlushAndResetPruningHeights: the heights are flushed,
\* handed over and forgotten in memory, not on disk.
GetFlushAndResetPruningHeights ==
    /\ pc = "prune"
    /\ IF ShouldPruneAtHeight(lastCommit)
         THEN /\ dbPruneHeights' = pruneHeights
              /\ batch' = pruneHeights
              /\ pruneHeights' = {}
              /\ IF pruneHeights = {}
                   THEN pc' = "metadata" /\ todo' = {}
                   ELSE pc' = "delete" /\ todo' = Stores
         ELSE /\ pc' = "metadata"
              /\ UNCHANGED <<dbPruneHeights, batch, pruneHeights, todo>>
    /\ UNCHANGED <<saved, latest, dbSnapshotHeights, dbSnapshot, lastCommit,
                   tree, pruneSnapshotHeights, job, unread, crashes>>

\* iavl's DeleteVersions: one batch; versions that are not there are ignored,
\* and nothing is deleted when the tree's own version is among them.
DeleteVersions(s, hs) ==
    IF \E h \in hs : h >= tree[s] THEN saved[s] ELSE saved[s] \ hs

\* One store of PruneStores.  The error of a store is dropped.
PruneStore(s) ==
    /\ pc = "delete" /\ s \in todo
    /\ todo' = todo \ {s}
    /\ saved' = [saved EXCEPT ![s] = DeleteVersions(s, batch)]
    /\ UNCHANGED <<latest, dbPruneHeights, dbSnapshotHeights, dbSnapshot, pc,
                   batch, lastCommit, tree, pruneHeights,
                   pruneSnapshotHeights, job, unread, crashes>>

PrunedStores ==
    /\ pc = "delete" /\ todo = {}
    /\ pc' = "metadata" /\ batch' = {}
    /\ UNCHANGED <<disk, todo, lastCommit, tree, pruneHeights,
                   pruneSnapshotHeights, job, unread, crashes>>

\* The deferred flushMetadata: commit info and latest version in one batch.
FlushMetadata ==
    /\ pc = "metadata"
    /\ pc' = "spawn" /\ latest' = lastCommit
    /\ UNCHANGED <<saved, dbPruneHeights, dbSnapshotHeights, dbSnapshot, todo,
                   batch, lastCommit, tree, pruneHeights,
                   pruneSnapshotHeights, job, unread, crashes>>

----------------------------------------------------------------------------
(* Snapshots, each in a goroutine of its own.                              *)

\* The end of BaseApp.Commit, and shouldTakeSnapshot in the goroutine.
SnapshotIfApplicable ==
    /\ pc = "spawn"
    /\ pc' = "idle"
    /\ job' = IF SnapshotHeight(lastCommit)
              THEN [job EXCEPT ![lastCommit] = "created"] ELSE job
    /\ UNCHANGED <<disk, todo, batch, lastCommit, tree, pruneHeights,
                   pruneSnapshotHeights, unread, crashes>>

\* Mutant: PruneSnapshotHeight is deferred after begin, not before it.
BeginSnapshotDeferLate(h) ==
    /\ job[h] = "created"
    /\ IF (\E g \in Heights : job[g] = "running") \/ dbSnapshot >= h
         THEN job' = [job EXCEPT ![h] = "none"] /\ UNCHANGED unread
         ELSE job' = [job EXCEPT ![h] = "running"] /\ unread' = Stores
    /\ UNCHANGED <<disk, pc, todo, batch, lastCommit, tree, pruneHeights,
                   pruneSnapshotHeights, crashes>>

\* Manager.Create up to the export: it gives up when an operation is in
\* progress or a snapshot as recent is stored.
BeginSnapshot(h) ==
    /\ job[h] = "created"
    /\ IF (\E g \in Heights : job[g] = "running") \/ dbSnapshot >= h
         THEN job' = [job EXCEPT ![h] = "ended"] /\ UNCHANGED unread
         ELSE job' = [job EXCEPT ![h] = "running"] /\ unread' = Stores
    /\ UNCHANGED <<disk, pc, todo, batch, lastCommit, tree, pruneHeights,
                   pruneSnapshotHeights, crashes>>

\* Store.Snapshot exports one IAVL store; a version that is not there any
\* more ends the snapshot with an error.
ExportStore(h, s) ==
    /\ job[h] = "running" /\ s \in unread
    /\ IF h \in saved[s]
         THEN unread' = unread \ {s} /\ UNCHANGED job
         ELSE unread' = {} /\ job' = [job EXCEPT ![h] = "ended"]
    /\ UNCHANGED <<disk, pc, todo, batch, lastCommit, tree, pruneHeights,
                   pruneSnapshotHeights, crashes>>

\* Store.Save stores the metadata and the operation ends.
SaveSnapshot(h) ==
    /\ job[h] = "running" /\ unread = {}
    /\ job' = [job EXCEPT ![h] = "ended"]
    /\ dbSnapshot' = h
    /\ UNCHANGED <<saved, latest, dbPruneHeights, dbSnapshotHeights, pc, todo,
                   batch, lastCommit, tree, pruneHeights,
                   pruneSnapshotHeights, unread, crashes>>

\* The deferred PruneSnapshotHeight of Create: HandleHeightSnapshot.
HandleHeightSnapshot(h) ==
    /\ job[h] = "ended"
    /\ job' = [job EXCEPT ![h] = "none"]
    /\ pruneSnapshotHeights' = pruneSnapshotHeights \cup {h}
    /\ dbSnapshotHeights' = pruneSnapshotHeights'
    /\ UNCHANGED <<saved, latest, dbPruneHeights, dbSnapshot, pc, todo, batch,
                   lastCommit, tree, pruneHeights, unread, crashes>>

----------------------------------------------------------------------------
Commit ==
    \/ BeginCommit \/ CommitInfo \/ HandleHeight \/ FlushHeights
    \/ GetFlushAndResetPruningHeights \/ PrunedStores \/ FlushMetadata
    \/ SnapshotIfApplicable
    \/ \E s \in Stores : CommitStore(s) \/ PruneStore(s)

Snapshot(h) ==
    \/ BeginSnapshot(h) \/ SaveSnapshot(h) \/ HandleHeightSnapshot(h)
    \/ \E s \in Stores : ExportStore(h, s)

Next ==
    \/ LoadVersion \/ Crash \/ Commit
    \/ \E h \in Heights : Snapshot(h)

Spec == Init /\ [][Next]_vars

\* The scheduler runs every goroutine, a supervisor restarts the process, and
\* consensus goes on to the next block.
Fairness ==
    /\ WF_vars(LoadVersion) /\ WF_vars(Commit)
    /\ \A h \in Heights : WF_vars(Snapshot(h))

FairSpec == Spec /\ Fairness

----------------------------------------------------------------------------
(* Properties.                                                             *)

\* In every state a crash can leave behind, every store still holds the last
\* KeepRecent committed versions, the one the metadata names among them:
\* whatever commitStores, PruneStores and flushMetadata had done by then.
RetainsRecent ==
    \A s \in Stores : \A h \in InitialVersion .. latest :
        h + KeepRecent > latest => h \in saved[s]

\* A version of which a snapshot is being taken, or whose goroutine has been
\* started, stays in every store until Create is done with it.
SnapshotProtected ==
    \A h \in Heights : Active(h) => \A s \in Stores : h \in saved[s]

\* Crash or not, an old version that is not left to a snapshot is never
\* forgotten while a store holds it: it is under pruneHeightsKey, and a running
\* pruning manager has it in memory or in the batch that PruneStores removes.
PrunableTracked ==
    \A s \in Stores : \A h \in saved[s] :
        h + KeepRecent < latest /\ ~ SnapshotHeight(h) =>
            /\ h \in dbPruneHeights
            /\ Up => h \in pruneHeights \cup batch

\* loadVersion finds every store at the version the metadata names.
AlwaysLoads == pc # "failed"

\* A version leaves a store only when PruneStores runs for a later height, it
\* lies behind the KeepRecent versions before that height, its removal is on
\* record for a restart, and no snapshot is reading it.
PrunesOnlyRecorded ==
    [][\A s \in Stores : \A h \in saved[s] \ saved'[s] :
          /\ h + KeepRecent < lastCommit
          /\ h \in dbPruneHeights
          /\ ~ Active(h)]_vars

\* Create ends whatever the others do, and hands its height over to the pruning
\* manager on disk, unless the process dies first.
SnapshotHandedOver ==
    \A h \in Heights :
        job[h] # "none" ~> (h \in dbSnapshotHeights \/ pc = "down")

----------------------------------------------------------------------------
(* The inductive invariant.                                                *)

Committing == pc \in {"height", "flush", "prune", "delete", "metadata"}
\* The height before the one that is committed next, or is being committed.
Settled == IF latest = 0 THEN InitialVersion - 1 ELSE latest

\* lastCommitInfo runs ahead of the metadata from commitStores on.
VersionsInv ==
    /\ latest # 0 => latest >= InitialVersion
    /\ pc \in {"idle", "stores", "spawn"} => lastCommit = latest
    /\ Committing => lastCommit = Settled + 1
    /\ pc = "spawn" => latest # 0

\* A store holds at most one version beyond the metadata, and its tree is at
\* the version that commitStores has, or has not yet, taken it to.
TreesInv ==
    \A s \in Stores :
        /\ \A h \in saved[s] : InitialVersion <= h /\ h <= Settled + 1
        /\ pc \in {"idle", "spawn"} \/ (pc = "stores" /\ s \in todo) =>
             IF latest # 0 THEN tree[s] = latest
             ELSE tree[s] = 0 \/ (tree[s] = InitialVersion /\ InitialVersion \in saved[s])
        /\ Committing \/ (pc = "stores" /\ s \notin todo) =>
             tree[s] = Settled + 1 /\ Settled + 1 \in saved[s]

\* What is to be pruned lies behind the recent versions, on disk, in memory and
\* in the batch; a finished batch is gone from the stores.
HeightsInv ==
    /\ \A h \in pruneHeights \cup dbPruneHeights \cup batch :
         h + KeepRecent <= Settled
    /\ pc # "delete" => batch = {}
    /\ batch \subseteq dbPruneHeights
    /\ pc = "delete" => \A s \in Stores \ todo : saved[s] \cap batch = {}

\* A goroutine's height is committed, is a snapshot height, and is not with the
\* pruning manager before the goroutine hands it over.
JobsInv ==
    /\ \A h \in pruneSnapshotHeights \cup dbSnapshotHeights :
         h <= latest /\ (pc = "spawn" => h < latest)
    /\ \A h \in Heights : job[h] # "none" =>
         /\ Up
         /\ h <= latest /\ (pc = "spawn" => h < latest)
         /\ SnapshotHeight(h)
         /\ h \notin pruneSnapshotHeights \cup dbSnapshotHeights
         /\ h \notin pruneHeights \cup dbPruneHeights \cup batch

\* PrunableTracked, and the height that HandleHeight has just dealt with.
TrackedInv ==
    \A s \in Stores : \A h \in saved[s] :
        /\ pc = "flush" /\ h + KeepRecent < lastCommit /\ ~ SnapshotHeight(h) =>
             h \in pruneHeights
        /\ pc \in {"prune", "delete", "metadata"}
              /\ h + KeepRecent < lastCommit /\ ~ SnapshotHeight(h) =>
             h \in dbPruneHeights /\ h \in pruneHeights \cup batch

\* What rollbacks leave intact, too.
CommitInv ==
    /\ TypeOK /\ VersionsInv /\ TreesInv /\ HeightsInv
    /\ RetainsRecent /\ AlwaysLoads

IInv ==
    /\ CommitInv /\ JobsInv /\ TrackedInv
    /\ SnapshotProtected /\ PrunableTracked
=============================================================================
