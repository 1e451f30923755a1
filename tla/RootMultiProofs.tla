-------------------------- MODULE RootMultiProofs --------------------------
(***************************************************************************)
(* Proofs about RootMulti and Rollback, for any set of stores, any pruning *)
(* and snapshot options and any number of heights, crashes and rollbacks.  *)
(***************************************************************************)
EXTENDS Rollback, TLAPS

USE OptionsAssumption DEF PCs, Jobs, Heights, NoJobs, disk, memory, vars, Commit, Snapshot,
    LoadPruningHeights

\* TypeOK is inductive by itself: iavl's latest version, too, is a number.
LEMMA LoadTreeType ==
    ASSUME TypeOK, TreesInv, NEW s \in Stores
    PROVE  /\ LoadTree(s) \in Nat
           /\ latest = 0 => \/ LoadTree(s) = 0
                            \/ LoadTree(s) = InitialVersion /\ InitialVersion \in saved[s]
           /\ latest # 0 => LoadTree(s) = latest
<1>1. CASE latest # 0
  BY <1>1 DEF LoadTree, TypeOK
<1>2. CASE latest = 0
  <2>1. saved[s] \subseteq {InitialVersion}
    BY <1>2 DEF TypeOK, TreesInv, Settled
  <2>2. CASE saved[s] = {}
    <3>1. saved[s] \cup {0} = {0}
      BY <2>2
    <3>2. Highest({0}) = 0
      BY DEF Highest
    <3> QED
      BY <1>2, <3>1, <3>2 DEF LoadTree
  <2>3. CASE saved[s] = {InitialVersion}
    <3>1. saved[s] \cup {0} = {InitialVersion, 0}
      BY <2>3
    <3>2. Highest({InitialVersion, 0}) = InitialVersion
      BY SMTT(30) DEF Highest
    <3> QED
      BY <1>2, <2>3, <3>1, <3>2 DEF LoadTree
  <2> QED
    BY <2>1, <2>2, <2>3
<1> QED
  BY <1>1, <1>2

\* A step leaves every variable in its type.
LEMMA TypeStep == CommitInv /\ [Next]_vars => TypeOK'
<1> SUFFICES ASSUME CommitInv, [Next]_vars PROVE TypeOK'
  OBVIOUS
<1> USE DEF CommitInv, TypeOK
<1>1. CASE LoadVersion
  BY <1>1, LoadTreeType, ZenonT(30) DEF LoadVersion
<1>2. CASE Crash
  BY <1>2 DEF Crash
<1>3. CASE BeginCommit
  BY <1>3 DEF BeginCommit
<1>4. CASE CommitInfo
  BY <1>4 DEF CommitInfo, NextVersion
<1>5. CASE HandleHeight
  <2>1. HandledHeights \subseteq Nat
    BY DEF HandledHeights, PreviousHeight
  <2>2. pc' \in PCs
    BY <1>5 DEF HandleHeight
  <2> QED
    BY <1>5, <2>1, <2>2, ZenonT(30) DEF HandleHeight
<1>6. CASE FlushHeights
  BY <1>6, ZenonT(30) DEF FlushHeights, MovedHeights, PreviousHeight
<1>7. CASE GetFlushAndResetPruningHeights
  BY <1>7, ZenonT(30) DEF GetFlushAndResetPruningHeights
<1>8. CASE PrunedStores
  BY <1>8 DEF PrunedStores
<1>9. CASE FlushMetadata
  BY <1>9 DEF FlushMetadata
<1>10. CASE SnapshotIfApplicable
  BY <1>10, ZenonT(30) DEF SnapshotIfApplicable
<1>11. ASSUME NEW s \in Stores, CommitStore(s) PROVE TypeOK'
  <2>1. NextVersion \in Nat
    BY DEF NextVersion
  <2>2. /\ todo' = todo \ {s}
        /\ tree' = tree \/ tree' = [tree EXCEPT ![s] = NextVersion]
        /\ saved' = saved \/ saved' = [saved EXCEPT ![s] = saved[s] \cup {NextVersion}]
    BY ONLY <1>11, Zenon DEF CommitStore
  <2>3. tree \in [Stores -> Nat] /\ saved \in [Stores -> SUBSET Nat] /\ todo \in SUBSET Stores
    OBVIOUS
  <2>4. tree' \in [Stores -> Nat]
    BY ONLY <2>1, <2>2, <2>3
  <2>5. saved' \in [Stores -> SUBSET Nat]
    BY ONLY <2>1, <2>2, <2>3
  <2>6. todo' \in SUBSET Stores
    BY ONLY <2>2, <2>3
  <2> QED
    BY <1>11, <2>4, <2>5, <2>6, ZenonT(60) DEF CommitStore
<1>12. ASSUME NEW s \in Stores, PruneStore(s) PROVE TypeOK'
  <2>1. saved \in [Stores -> SUBSET Nat] /\ todo \in SUBSET Stores
    OBVIOUS
  <2>2. DeleteVersions(s, batch) \in SUBSET Nat
    BY ONLY <2>1, Zenon DEF DeleteVersions
  <2>3. todo' = todo \ {s} /\ saved' = [saved EXCEPT ![s] = DeleteVersions(s, batch)]
    BY ONLY <1>12, Zenon DEF PruneStore
  <2>4. saved' \in [Stores -> SUBSET Nat] /\ todo' \in SUBSET Stores
    BY ONLY <2>1, <2>2, <2>3
  <2> QED
    BY <1>12, <2>4, ZenonT(60) DEF PruneStore
<1>13. ASSUME NEW h \in Heights, BeginSnapshot(h) PROVE TypeOK'
  BY <1>13 DEF BeginSnapshot
<1>14. ASSUME NEW h \in Heights, SaveSnapshot(h) PROVE TypeOK'
  BY <1>14 DEF SaveSnapshot
<1>15. ASSUME NEW h \in Heights, HandleHeightSnapshot(h) PROVE TypeOK'
  BY <1>15 DEF HandleHeightSnapshot
<1>16. ASSUME NEW h \in Heights, NEW s \in Stores, ExportStore(h, s) PROVE TypeOK'
  BY <1>16, SMTT(30) DEF ExportStore
<1>17. CASE UNCHANGED vars
  BY <1>17 DEF vars
<1> HIDE DEF CommitInv, TypeOK, disk, memory, vars
<1> QED
  BY <1>1, <1>2, <1>3, <1>4, <1>5, <1>6, <1>7, <1>8, <1>9, <1>10, <1>11, <1>12, <1>13, <1>14,
     <1>15, <1>16, <1>17 DEF Next

\* lastCommitInfo and the metadata move in step.
LEMMA VersionsStep == CommitInv /\ [Next]_vars => VersionsInv'
<1> SUFFICES ASSUME CommitInv, [Next]_vars PROVE VersionsInv'
  OBVIOUS
<1> USE DEF CommitInv, TypeOK, VersionsInv, Committing, Settled
<1>1. CASE LoadVersion
  BY <1>1 DEF LoadVersion
<1>2. CASE Crash
  BY <1>2 DEF Crash
<1>3. CASE BeginCommit
  BY <1>3 DEF BeginCommit
<1>4. CASE CommitInfo
  BY <1>4 DEF CommitInfo, NextVersion
<1>5. CASE HandleHeight
  BY <1>5 DEF HandleHeight, HandledHeights, PreviousHeight
<1>6. CASE FlushHeights
  BY <1>6 DEF FlushHeights, MovedHeights, PreviousHeight
<1>7. CASE GetFlushAndResetPruningHeights
  BY <1>7 DEF GetFlushAndResetPruningHeights
<1>8. CASE PrunedStores
  BY <1>8 DEF PrunedStores
<1>9. CASE FlushMetadata
  BY <1>9 DEF FlushMetadata
<1>10. CASE SnapshotIfApplicable
  BY <1>10 DEF SnapshotIfApplicable
<1>11. ASSUME NEW s \in Stores, CommitStore(s) PROVE VersionsInv'
  BY <1>11 DEF CommitStore, NextVersion
<1>12. ASSUME NEW s \in Stores, PruneStore(s) PROVE VersionsInv'
  BY <1>12 DEF PruneStore, DeleteVersions
<1>13. ASSUME NEW h \in Heights, BeginSnapshot(h) PROVE VersionsInv'
  BY <1>13 DEF BeginSnapshot
<1>14. ASSUME NEW h \in Heights, SaveSnapshot(h) PROVE VersionsInv'
  BY <1>14 DEF SaveSnapshot
<1>15. ASSUME NEW h \in Heights, HandleHeightSnapshot(h) PROVE VersionsInv'
  BY <1>15 DEF HandleHeightSnapshot
<1>16. ASSUME NEW h \in Heights, NEW s \in Stores, ExportStore(h, s) PROVE VersionsInv'
  BY <1>16 DEF ExportStore
<1>17. CASE UNCHANGED vars
  BY <1>17 DEF vars
<1> HIDE DEF CommitInv, TypeOK, VersionsInv, Committing, Settled, disk, memory, vars
<1> QED
  BY <1>1, <1>2, <1>3, <1>4, <1>5, <1>6, <1>7, <1>8, <1>9, <1>10, <1>11, <1>12, <1>13, <1>14,
     <1>15, <1>16, <1>17 DEF Next

\* No step takes one of the recent versions from a store.
LEMMA RecentStep == CommitInv /\ [Next]_vars => RetainsRecent'
<1> SUFFICES ASSUME CommitInv, [Next]_vars PROVE RetainsRecent'
  OBVIOUS
<1> USE DEF CommitInv, TypeOK, VersionsInv, TreesInv, HeightsInv, RetainsRecent, Committing, Settled
<1>1. CASE LoadVersion
  BY <1>1 DEF LoadVersion
<1>2. CASE Crash
  BY <1>2 DEF Crash
<1>3. CASE BeginCommit
  BY <1>3 DEF BeginCommit
<1>4. CASE CommitInfo
  BY <1>4 DEF CommitInfo, NextVersion
<1>5. CASE HandleHeight
  BY <1>5 DEF HandleHeight, HandledHeights, PreviousHeight
<1>6. CASE FlushHeights
  BY <1>6 DEF FlushHeights, MovedHeights, PreviousHeight
<1>7. CASE GetFlushAndResetPruningHeights
  BY <1>7 DEF GetFlushAndResetPruningHeights
<1>8. CASE PrunedStores
  BY <1>8 DEF PrunedStores
<1>9. CASE FlushMetadata
  BY <1>9 DEF FlushMetadata
<1>10. CASE SnapshotIfApplicable
  BY <1>10 DEF SnapshotIfApplicable
<1>11. ASSUME NEW s \in Stores, CommitStore(s) PROVE RetainsRecent'
  BY <1>11, SMTT(30) DEF CommitStore, NextVersion
<1>12. ASSUME NEW s \in Stores, PruneStore(s) PROVE RetainsRecent'
  BY <1>12 DEF PruneStore, DeleteVersions
<1>13. ASSUME NEW h \in Heights, BeginSnapshot(h) PROVE RetainsRecent'
  BY <1>13 DEF BeginSnapshot
<1>14. ASSUME NEW h \in Heights, SaveSnapshot(h) PROVE RetainsRecent'
  BY <1>14 DEF SaveSnapshot
<1>15. ASSUME NEW h \in Heights, HandleHeightSnapshot(h) PROVE RetainsRecent'
  BY <1>15 DEF HandleHeightSnapshot
<1>16. ASSUME NEW h \in Heights, NEW s \in Stores, ExportStore(h, s) PROVE RetainsRecent'
  BY <1>16, ZenonT(30) DEF ExportStore
<1>17. CASE UNCHANGED vars
  BY <1>17, SMTT(30) DEF vars
<1> HIDE DEF CommitInv, TypeOK, VersionsInv, TreesInv, HeightsInv, RetainsRecent, Committing, Settled, disk, memory, vars
<1> QED
  BY <1>1, <1>2, <1>3, <1>4, <1>5, <1>6, <1>7, <1>8, <1>9, <1>10, <1>11, <1>12, <1>13, <1>14,
     <1>15, <1>16, <1>17 DEF Next
\* Each store saves the version being committed, and no other.
LEMMA TreesStep == CommitInv /\ [Next]_vars => TreesInv'
<1> SUFFICES ASSUME CommitInv, [Next]_vars PROVE TreesInv'
  OBVIOUS
<1> USE DEF CommitInv, TypeOK, VersionsInv, TreesInv, HeightsInv, RetainsRecent, Committing, Settled
<1>1. CASE LoadVersion
  BY <1>1, LoadTreeType, SMTT(30) DEF LoadVersion
<1>2. CASE Crash
  BY <1>2, ZenonT(30) DEF Crash
<1>3. CASE BeginCommit
  BY <1>3 DEF BeginCommit
<1>4. CASE CommitInfo
  BY <1>4, ZenonT(30) DEF CommitInfo, NextVersion
<1>5. CASE HandleHeight
  BY <1>5, ZenonT(30) DEF HandleHeight, HandledHeights, PreviousHeight
<1>6. CASE FlushHeights
  BY <1>6, ZenonT(30) DEF FlushHeights, MovedHeights, PreviousHeight
<1>7. CASE GetFlushAndResetPruningHeights
  BY <1>7, ZenonT(30) DEF GetFlushAndResetPruningHeights
<1>8. CASE PrunedStores
  BY <1>8, ZenonT(30) DEF PrunedStores
<1>9. CASE FlushMetadata
  BY <1>9 DEF FlushMetadata
<1>10. CASE SnapshotIfApplicable
  BY <1>10, ZenonT(30) DEF SnapshotIfApplicable
<1>11. ASSUME NEW s \in Stores, CommitStore(s) PROVE TreesInv'
  <2>1. NextVersion = Settled + 1 /\ pc = "stores" /\ pc' = pc /\ latest' = latest
    BY <1>11 DEF CommitStore, NextVersion
  <2>2. \A r \in Stores \ {s} :
          saved'[r] = saved[r] /\ tree'[r] = tree[r] /\ (r \in todo' <=> r \in todo)
    BY <1>11, ZenonT(30) DEF CommitStore
  <2>3. /\ s \in todo /\ s \notin todo'
        /\ tree[s] >= Settled + 1 => tree'[s] = tree[s] /\ saved'[s] = saved[s]
        /\ ~ tree[s] >= Settled + 1 =>
             tree'[s] = Settled + 1 /\ saved'[s] = saved[s] \cup {Settled + 1}
    BY <1>11, <2>1, ZenonT(30) DEF CommitStore
  <2> SUFFICES ASSUME NEW r \in Stores PROVE TreesInv!(r)'
    BY ZenonT(30) DEF TreesInv
  <2>4. CASE r # s
    BY <2>1, <2>2, <2>4, ZenonT(30)
  <2>5. CASE r = s
    BY <2>1, <2>3, <2>5, SMTT(30)
  <2> QED
    BY <2>4, <2>5, ZenonT(30)
<1>12. ASSUME NEW s \in Stores, PruneStore(s) PROVE TreesInv'
  BY <1>12 DEF PruneStore, DeleteVersions
<1>13. ASSUME NEW h \in Heights, BeginSnapshot(h) PROVE TreesInv'
  BY <1>13, ZenonT(30) DEF BeginSnapshot
<1>14. ASSUME NEW h \in Heights, SaveSnapshot(h) PROVE TreesInv'
  BY <1>14, ZenonT(30) DEF SaveSnapshot
<1>15. ASSUME NEW h \in Heights, HandleHeightSnapshot(h) PROVE TreesInv'
  BY <1>15, ZenonT(30) DEF HandleHeightSnapshot
<1>16. ASSUME NEW h \in Heights, NEW s \in Stores, ExportStore(h, s) PROVE TreesInv'
  BY <1>16, ZenonT(30) DEF ExportStore
<1>17. CASE UNCHANGED vars
  BY <1>17, ZenonT(30) DEF vars
<1> HIDE DEF CommitInv, TypeOK, VersionsInv, TreesInv, HeightsInv, RetainsRecent, Committing, Settled, disk, memory, vars
<1> QED
  BY <1>1, <1>2, <1>3, <1>4, <1>5, <1>6, <1>7, <1>8, <1>9, <1>10, <1>11, <1>12, <1>13, <1>14,
     <1>15, <1>16, <1>17 DEF Next

\* What is to be pruned stays behind the recent versions.
LEMMA HeightsStep == CommitInv /\ [Next]_vars => HeightsInv'
<1> SUFFICES ASSUME CommitInv, [Next]_vars PROVE HeightsInv'
  OBVIOUS
<1> USE DEF CommitInv, TypeOK, VersionsInv, TreesInv, HeightsInv, Committing, Settled
<1>1. CASE LoadVersion
  BY <1>1, ZenonT(30) DEF LoadVersion
<1>2. CASE Crash
  BY <1>2, ZenonT(30) DEF Crash
<1>3. CASE BeginCommit
  BY <1>3, ZenonT(30) DEF BeginCommit
<1>4. CASE CommitInfo
  BY <1>4, ZenonT(30) DEF CommitInfo, NextVersion
<1>5. CASE HandleHeight
  <2>1. \A h \in pruneHeights' : h \in pruneHeights \/ h + KeepRecent = Settled
    <3>1. PreviousHeight = Settled /\ Settled \in Int
      BY <1>5 DEF HandleHeight, HandledHeights, PreviousHeight
    <3>2. \A h \in HandledHeights : h + KeepRecent = Settled
      BY <3>1 DEF HandledHeights
    <3> QED
      BY <1>5, <3>2, ZenonT(30) DEF HandleHeight
  <2>2. /\ Settled' = Settled /\ pc = "height" /\ pc' \in {"flush", "prune"}
        /\ batch' = batch /\ dbPruneHeights' = dbPruneHeights
    BY <1>5, ZenonT(30) DEF HandleHeight
  <2>3. \A h \in (pruneHeights \cup dbPruneHeights \cup batch)' :
          h + KeepRecent <= Settled'
    <3>1. \A h \in pruneHeights \cup dbPruneHeights \cup batch : h + KeepRecent <= Settled
      BY DEF HeightsInv
    <3>2. Settled \in Int
      BY DEF Settled
    <3> HIDE DEF Settled, HeightsInv, TypeOK, CommitInv
    <3> QED
      BY <2>1, <2>2, <3>1, <3>2
  <2> QED
    BY <2>2, <2>3, ZenonT(30)
<1>6. CASE FlushHeights
  BY <1>6 DEF FlushHeights, MovedHeights, PreviousHeight
<1>7. CASE GetFlushAndResetPruningHeights
  BY <1>7, ZenonT(30) DEF GetFlushAndResetPruningHeights
<1>8. CASE PrunedStores
  BY <1>8, ZenonT(30) DEF PrunedStores
<1>9. CASE FlushMetadata
  BY <1>9 DEF FlushMetadata
<1>10. CASE SnapshotIfApplicable
  BY <1>10, ZenonT(30) DEF SnapshotIfApplicable
<1>11. ASSUME NEW s \in Stores, CommitStore(s) PROVE HeightsInv'
  BY <1>11, ZenonT(30) DEF CommitStore, NextVersion
<1>12. ASSUME NEW s \in Stores, PruneStore(s) PROVE HeightsInv'
  BY <1>12 DEF PruneStore, DeleteVersions
<1>13. ASSUME NEW h \in Heights, BeginSnapshot(h) PROVE HeightsInv'
  BY <1>13, ZenonT(30) DEF BeginSnapshot
<1>14. ASSUME NEW h \in Heights, SaveSnapshot(h) PROVE HeightsInv'
  BY <1>14, ZenonT(30) DEF SaveSnapshot
<1>15. ASSUME NEW h \in Heights, HandleHeightSnapshot(h) PROVE HeightsInv'
  BY <1>15, ZenonT(30) DEF HandleHeightSnapshot
<1>16. ASSUME NEW h \in Heights, NEW s \in Stores, ExportStore(h, s) PROVE HeightsInv'
  BY <1>16, ZenonT(30) DEF ExportStore
<1>17. CASE UNCHANGED vars
  BY <1>17, ZenonT(30) DEF vars
<1> HIDE DEF CommitInv, TypeOK, VersionsInv, TreesInv, HeightsInv, Committing, Settled, disk, memory, vars
<1> QED
  BY <1>1, <1>2, <1>3, <1>4, <1>5, <1>6, <1>7, <1>8, <1>9, <1>10, <1>11, <1>12, <1>13, <1>14,
     <1>15, <1>16, <1>17 DEF Next

\* The heights of the goroutines stay apart from the heights to prune.
LEMMA JobsStep == IInv /\ [Next]_vars => JobsInv'
<1> SUFFICES ASSUME IInv, [Next]_vars PROVE JobsInv'
  OBVIOUS
<1> USE DEF IInv, CommitInv, TypeOK, VersionsInv, HeightsInv, JobsInv, Committing, Settled, Up
<1>1. CASE LoadVersion
  BY <1>1, ZenonT(30) DEF LoadVersion
<1>2. CASE Crash
  BY <1>2, ZenonT(30) DEF Crash
<1>3. CASE BeginCommit
  BY <1>3, ZenonT(30) DEF BeginCommit
<1>4. CASE CommitInfo
  BY <1>4, ZenonT(30) DEF CommitInfo, NextVersion
<1>5. CASE HandleHeight
  BY <1>5, ZenonT(30) DEF HandleHeight, HandledHeights, PreviousHeight
<1>6. CASE FlushHeights
  BY <1>6, ZenonT(30) DEF FlushHeights, MovedHeights, PreviousHeight
<1>7. CASE GetFlushAndResetPruningHeights
  BY <1>7, ZenonT(30) DEF GetFlushAndResetPruningHeights
<1>8. CASE PrunedStores
  BY <1>8, ZenonT(30) DEF PrunedStores
<1>9. CASE FlushMetadata
  BY <1>9 DEF FlushMetadata
<1>10. CASE SnapshotIfApplicable
  BY <1>10 DEF SnapshotIfApplicable
<1>11. ASSUME NEW s \in Stores, CommitStore(s) PROVE JobsInv'
  BY <1>11, ZenonT(30) DEF CommitStore, NextVersion
<1>12. ASSUME NEW s \in Stores, PruneStore(s) PROVE JobsInv'
  BY <1>12, ZenonT(30) DEF PruneStore, DeleteVersions
<1>13. ASSUME NEW h \in Heights, BeginSnapshot(h) PROVE JobsInv'
  BY <1>13, ZenonT(30) DEF BeginSnapshot
<1>14. ASSUME NEW h \in Heights, SaveSnapshot(h) PROVE JobsInv'
  BY <1>14, ZenonT(30) DEF SaveSnapshot
<1>15. ASSUME NEW h \in Heights, HandleHeightSnapshot(h) PROVE JobsInv'
  BY <1>15, ZenonT(30) DEF HandleHeightSnapshot
<1>16. ASSUME NEW h \in Heights, NEW s \in Stores, ExportStore(h, s) PROVE JobsInv'
  BY <1>16, ZenonT(30) DEF ExportStore
<1>17. CASE UNCHANGED vars
  BY <1>17, ZenonT(30) DEF vars
<1> HIDE DEF IInv, CommitInv, TypeOK, VersionsInv, HeightsInv, JobsInv, Committing, Settled, Up, disk, memory, vars
<1> QED
  BY <1>1, <1>2, <1>3, <1>4, <1>5, <1>6, <1>7, <1>8, <1>9, <1>10, <1>11, <1>12, <1>13, <1>14,
     <1>15, <1>16, <1>17 DEF Next

\* HandleHeight records the version that stops being recent.
LEMMA TrackedStep == IInv /\ [Next]_vars => TrackedInv'
<1> SUFFICES ASSUME IInv, [Next]_vars PROVE TrackedInv'
  OBVIOUS
<1> USE DEF IInv, CommitInv, TypeOK, VersionsInv, TreesInv, HeightsInv, TrackedInv, PrunableTracked, Committing, Settled, Up
<1>1. CASE LoadVersion
  BY <1>1, ZenonT(30) DEF LoadVersion
<1>2. CASE Crash
  BY <1>2, ZenonT(30) DEF Crash
<1>3. CASE BeginCommit
  BY <1>3, ZenonT(30) DEF BeginCommit
<1>4. CASE CommitInfo
  BY <1>4, ZenonT(30) DEF CommitInfo, NextVersion
<1>5. CASE HandleHeight
  BY <1>5 DEF HandleHeight, HandledHeights, PreviousHeight
<1>6. CASE FlushHeights
  BY <1>6, ZenonT(30) DEF FlushHeights, MovedHeights, PreviousHeight
<1>7. CASE GetFlushAndResetPruningHeights
  BY <1>7, ZenonT(30) DEF GetFlushAndResetPruningHeights
<1>8. CASE PrunedStores
  BY <1>8, ZenonT(30) DEF PrunedStores
<1>9. CASE FlushMetadata
  BY <1>9, ZenonT(30) DEF FlushMetadata
<1>10. CASE SnapshotIfApplicable
  BY <1>10, ZenonT(30) DEF SnapshotIfApplicable
<1>11. ASSUME NEW s \in Stores, CommitStore(s) PROVE TrackedInv'
  BY <1>11, ZenonT(30) DEF CommitStore, NextVersion
<1>12. ASSUME NEW s \in Stores, PruneStore(s) PROVE TrackedInv'
  BY <1>12, ZenonT(30) DEF PruneStore, DeleteVersions
<1>13. ASSUME NEW h \in Heights, BeginSnapshot(h) PROVE TrackedInv'
  BY <1>13, ZenonT(30) DEF BeginSnapshot
<1>14. ASSUME NEW h \in Heights, SaveSnapshot(h) PROVE TrackedInv'
  BY <1>14, ZenonT(30) DEF SaveSnapshot
<1>15. ASSUME NEW h \in Heights, HandleHeightSnapshot(h) PROVE TrackedInv'
  BY <1>15, ZenonT(30) DEF HandleHeightSnapshot
<1>16. ASSUME NEW h \in Heights, NEW s \in Stores, ExportStore(h, s) PROVE TrackedInv'
  BY <1>16, ZenonT(30) DEF ExportStore
<1>17. CASE UNCHANGED vars
  BY <1>17, ZenonT(30) DEF vars
<1> HIDE DEF IInv, CommitInv, TypeOK, VersionsInv, TreesInv, HeightsInv, TrackedInv, PrunableTracked, Committing, Settled, Up, disk, memory, vars
<1> QED
  BY <1>1, <1>2, <1>3, <1>4, <1>5, <1>6, <1>7, <1>8, <1>9, <1>10, <1>11, <1>12, <1>13, <1>14,
     <1>15, <1>16, <1>17 DEF Next

\* A version on record stays on record until it is gone.
LEMMA PrunableStep == IInv /\ [Next]_vars => PrunableTracked'
<1> SUFFICES ASSUME IInv, [Next]_vars PROVE PrunableTracked'
  OBVIOUS
<1> USE DEF IInv, CommitInv, TypeOK, VersionsInv, TreesInv, HeightsInv, TrackedInv, PrunableTracked, Committing, Settled, Up
<1>1. CASE LoadVersion
  BY <1>1, ZenonT(30) DEF LoadVersion
<1>2. CASE Crash
  BY <1>2, ZenonT(30) DEF Crash
<1>3. CASE BeginCommit
  BY <1>3, ZenonT(30) DEF BeginCommit
<1>4. CASE CommitInfo
  BY <1>4, ZenonT(30) DEF CommitInfo, NextVersion
<1>5. CASE HandleHeight
  BY <1>5, ZenonT(30) DEF HandleHeight, HandledHeights, PreviousHeight
<1>6. CASE FlushHeights
  BY <1>6, ZenonT(30) DEF FlushHeights, MovedHeights, PreviousHeight
<1>7. CASE GetFlushAndResetPruningHeights
  BY <1>7, ZenonT(30) DEF GetFlushAndResetPruningHeights
<1>8. CASE PrunedStores
  BY <1>8, ZenonT(30) DEF PrunedStores
<1>9. CASE FlushMetadata
  BY <1>9, ZenonT(30) DEF FlushMetadata
<1>10. CASE SnapshotIfApplicable
  BY <1>10, ZenonT(30) DEF SnapshotIfApplicable
<1>11. ASSUME NEW s \in Stores, CommitStore(s) PROVE PrunableTracked'
  <2>1. NextVersion = Settled + 1 /\ Settled + 1 > latest
    BY <1>11 DEF CommitStore, NextVersion
  <2>2. \A r \in Stores : \A h \in saved'[r] : h \in saved[r] \/ h = Settled + 1
    BY <1>11, <2>1, SMTT(30) DEF CommitStore
  <2> QED
    BY <1>11, <2>1, <2>2, SMTT(30) DEF CommitStore
<1>12. ASSUME NEW s \in Stores, PruneStore(s) PROVE PrunableTracked'
  BY <1>12, ZenonT(30) DEF PruneStore, DeleteVersions
<1>13. ASSUME NEW h \in Heights, BeginSnapshot(h) PROVE PrunableTracked'
  BY <1>13, ZenonT(30) DEF BeginSnapshot
<1>14. ASSUME NEW h \in Heights, SaveSnapshot(h) PROVE PrunableTracked'
  BY <1>14, ZenonT(30) DEF SaveSnapshot
<1>15. ASSUME NEW h \in Heights, HandleHeightSnapshot(h) PROVE PrunableTracked'
  BY <1>15, ZenonT(30) DEF HandleHeightSnapshot
<1>16. ASSUME NEW h \in Heights, NEW s \in Stores, ExportStore(h, s) PROVE PrunableTracked'
  BY <1>16, ZenonT(30) DEF ExportStore
<1>17. CASE UNCHANGED vars
  BY <1>17, ZenonT(30) DEF vars
<1> HIDE DEF IInv, CommitInv, TypeOK, VersionsInv, TreesInv, HeightsInv, TrackedInv, PrunableTracked, Committing, Settled, Up, disk, memory, vars
<1> QED
  BY <1>1, <1>2, <1>3, <1>4, <1>5, <1>6, <1>7, <1>8, <1>9, <1>10, <1>11, <1>12, <1>13, <1>14,
     <1>15, <1>16, <1>17 DEF Next

\* No step takes a version from a snapshot that needs it.
LEMMA ProtectedStep == IInv /\ [Next]_vars => SnapshotProtected'
<1> SUFFICES ASSUME IInv, [Next]_vars PROVE SnapshotProtected'
  OBVIOUS
<1> USE DEF IInv, CommitInv, TypeOK, VersionsInv, TreesInv, HeightsInv, JobsInv, RetainsRecent, SnapshotProtected, Committing, Settled, Active
<1>1. CASE LoadVersion
  BY <1>1, ZenonT(30) DEF LoadVersion
<1>2. CASE Crash
  BY <1>2, ZenonT(30) DEF Crash
<1>3. CASE BeginCommit
  BY <1>3, ZenonT(30) DEF BeginCommit
<1>4. CASE CommitInfo
  BY <1>4, ZenonT(30) DEF CommitInfo, NextVersion
<1>5. CASE HandleHeight
  BY <1>5, ZenonT(30) DEF HandleHeight, HandledHeights, PreviousHeight
<1>6. CASE FlushHeights
  BY <1>6, ZenonT(30) DEF FlushHeights, MovedHeights, PreviousHeight
<1>7. CASE GetFlushAndResetPruningHeights
  BY <1>7, ZenonT(30) DEF GetFlushAndResetPruningHeights
<1>8. CASE PrunedStores
  BY <1>8, ZenonT(30) DEF PrunedStores
<1>9. CASE FlushMetadata
  BY <1>9, ZenonT(30) DEF FlushMetadata
<1>10. CASE SnapshotIfApplicable
  BY <1>10 DEF SnapshotIfApplicable
<1>11. ASSUME NEW s \in Stores, CommitStore(s) PROVE SnapshotProtected'
  BY <1>11 DEF CommitStore, NextVersion
<1>12. ASSUME NEW s \in Stores, PruneStore(s) PROVE SnapshotProtected'
  BY <1>12 DEF PruneStore, DeleteVersions
<1>13. ASSUME NEW h \in Heights, BeginSnapshot(h) PROVE SnapshotProtected'
  BY <1>13, ZenonT(30) DEF BeginSnapshot
<1>14. ASSUME NEW h \in Heights, SaveSnapshot(h) PROVE SnapshotProtected'
  BY <1>14, ZenonT(30) DEF SaveSnapshot
<1>15. ASSUME NEW h \in Heights, HandleHeightSnapshot(h) PROVE SnapshotProtected'
  BY <1>15, ZenonT(30) DEF HandleHeightSnapshot
<1>16. ASSUME NEW h \in Heights, NEW s \in Stores, ExportStore(h, s) PROVE SnapshotProtected'
  BY <1>16, ZenonT(30) DEF ExportStore
<1>17. CASE UNCHANGED vars
  BY <1>17, ZenonT(30) DEF vars
<1> HIDE DEF IInv, CommitInv, TypeOK, VersionsInv, TreesInv, HeightsInv, JobsInv, RetainsRecent, SnapshotProtected, Committing, Settled, Active, disk, memory, vars
<1> QED
  BY <1>1, <1>2, <1>3, <1>4, <1>5, <1>6, <1>7, <1>8, <1>9, <1>10, <1>11, <1>12, <1>13, <1>14,
     <1>15, <1>16, <1>17 DEF Next

\* Loading finds the version the metadata names in every store.
LEMMA LoadsStep == CommitInv /\ [Next]_vars => AlwaysLoads'
<1> SUFFICES ASSUME CommitInv, [Next]_vars PROVE AlwaysLoads'
  OBVIOUS
<1> USE DEF CommitInv, TypeOK, VersionsInv, RetainsRecent, AlwaysLoads
<1>1. CASE LoadVersion
  BY <1>1 DEF LoadVersion
<1>2. CASE Crash
  BY <1>2, ZenonT(30) DEF Crash
<1>3. CASE BeginCommit
  BY <1>3, ZenonT(30) DEF BeginCommit
<1>4. CASE CommitInfo
  BY <1>4, ZenonT(30) DEF CommitInfo, NextVersion
<1>5. CASE HandleHeight
  BY <1>5, ZenonT(30) DEF HandleHeight, HandledHeights, PreviousHeight
<1>6. CASE FlushHeights
  BY <1>6, ZenonT(30) DEF FlushHeights, MovedHeights, PreviousHeight
<1>7. CASE GetFlushAndResetPruningHeights
  BY <1>7, ZenonT(30) DEF GetFlushAndResetPruningHeights
<1>8. CASE PrunedStores
  BY <1>8, ZenonT(30) DEF PrunedStores
<1>9. CASE FlushMetadata
  BY <1>9, ZenonT(30) DEF FlushMetadata
<1>10. CASE SnapshotIfApplicable
  BY <1>10, ZenonT(30) DEF SnapshotIfApplicable
<1>11. ASSUME NEW s \in Stores, CommitStore(s) PROVE AlwaysLoads'
  BY <1>11, ZenonT(30) DEF CommitStore, NextVersion
<1>12. ASSUME NEW s \in Stores, PruneStore(s) PROVE AlwaysLoads'
  BY <1>12, ZenonT(30) DEF PruneStore, DeleteVersions
<1>13. ASSUME NEW h \in Heights, BeginSnapshot(h) PROVE AlwaysLoads'
  BY <1>13, ZenonT(30) DEF BeginSnapshot
<1>14. ASSUME NEW h \in Heights, SaveSnapshot(h) PROVE AlwaysLoads'
  BY <1>14, ZenonT(30) DEF SaveSnapshot
<1>15. ASSUME NEW h \in Heights, HandleHeightSnapshot(h) PROVE AlwaysLoads'
  BY <1>15, ZenonT(30) DEF HandleHeightSnapshot
<1>16. ASSUME NEW h \in Heights, NEW s \in Stores, ExportStore(h, s) PROVE AlwaysLoads'
  BY <1>16, ZenonT(30) DEF ExportStore
<1>17. CASE UNCHANGED vars
  BY <1>17, ZenonT(30) DEF vars
<1> HIDE DEF CommitInv, TypeOK, VersionsInv, RetainsRecent, AlwaysLoads, disk, memory, vars
<1> QED
  BY <1>1, <1>2, <1>3, <1>4, <1>5, <1>6, <1>7, <1>8, <1>9, <1>10, <1>11, <1>12, <1>13, <1>14,
     <1>15, <1>16, <1>17 DEF Next

----------------------------------------------------------------------------
(* The theorems.                                                           *)

\* Every reachable state satisfies the inductive invariant.
THEOREM Invariance == Spec => []IInv
<1>1. Init => IInv
  BY SMTT(30) DEF Init, IInv, CommitInv, TypeOK, VersionsInv, TreesInv, HeightsInv, JobsInv,
         TrackedInv, RetainsRecent, SnapshotProtected, PrunableTracked,
         AlwaysLoads, Committing, Settled, Up, Active
<1>2. IInv /\ [Next]_vars => IInv'
  BY TypeStep, VersionsStep, TreesStep, HeightsStep, JobsStep, TrackedStep,
     RecentStep, ProtectedStep, PrunableStep, LoadsStep, ZenonT(30) DEF IInv, CommitInv
<1> QED
  BY <1>1, <1>2, PTL DEF Spec

\* Every variable keeps its type, whatever is interleaved with Commit.
THEOREM TypeCorrect == Spec => []TypeOK
BY Invariance, PTL DEF IInv, CommitInv

\* Crashes included, every store always holds the last KeepRecent committed
\* versions, the one loadVersion asks for among them.
THEOREM RecentVersionsKept == Spec => []RetainsRecent
BY Invariance, PTL DEF IInv, CommitInv

\* A restart always finds the stores it needs: loadVersion never fails.
THEOREM RestartSucceeds == Spec => []AlwaysLoads
BY Invariance, PTL DEF IInv, CommitInv

\* PruneStores never removes a version that Create still has to export.
THEOREM SnapshotsKeepVersions == Spec => []SnapshotProtected
BY Invariance, PTL DEF IInv, CommitInv

\* The pruning manager forgets no version that it has to prune, crash or not.
THEOREM NoVersionForgotten == Spec => []PrunableTracked
BY Invariance, PTL DEF IInv, CommitInv

\* A version is removed only behind the recent ones, when that is on record,
\* and when no snapshot reads it.
THEOREM RemovalIsRecorded == Spec => PrunesOnlyRecorded
<1> DEFINE Removal ==
      \A s \in Stores : \A h \in saved[s] \ saved'[s] :
          /\ h + KeepRecent < lastCommit
          /\ h \in dbPruneHeights
          /\ ~ Active(h)
<1>1. IInv /\ [Next]_vars => [Removal]_vars
  <2> SUFFICES ASSUME IInv, Next, NEW s \in Stores, NEW h \in saved[s] \ saved'[s]
               PROVE /\ h + KeepRecent < lastCommit
                     /\ h \in dbPruneHeights
                     /\ ~ Active(h)
    BY ZenonT(30)
  <2>1. PICK r \in Stores : PruneStore(r)
    <3> USE DEF IInv, CommitInv, TypeOK
    <3>1. \A r \in Stores : CommitStore(r) => saved[s] \subseteq saved'[s]
      BY SMTT(30) DEF CommitStore
    <3>2. \A g \in Heights : Snapshot(g) => saved' = saved
      BY ZenonT(30) DEF BeginSnapshot, SaveSnapshot, HandleHeightSnapshot, ExportStore
    <3>3. LoadVersion \/ Crash => saved' = saved
      BY ZenonT(30) DEF LoadVersion, Crash
    <3> HIDE DEF Snapshot
    <3> QED
      BY <3>1, <3>2, <3>3, ZenonT(30) DEF Next, BeginCommit, CommitInfo, HandleHeight, FlushHeights,
             GetFlushAndResetPruningHeights, PrunedStores, FlushMetadata,
             SnapshotIfApplicable
  <2>2. h \in batch /\ pc = "delete" /\ h \in Nat
    BY <2>1, ZenonT(30) DEF PruneStore, DeleteVersions, IInv, CommitInv, TypeOK
  <2>3. h + KeepRecent < lastCommit
    <3>1. lastCommit = Settled + 1 /\ Settled \in Int
      BY <2>2 DEF IInv, CommitInv, VersionsInv, Committing, Settled, TypeOK
    <3>2. h + KeepRecent <= Settled
      BY <2>2, ZenonT(30) DEF IInv, CommitInv, HeightsInv
    <3> QED
      BY <2>2, <3>1, <3>2
  <2>4. h \in dbPruneHeights
    BY <2>2 DEF IInv, CommitInv, HeightsInv
  <2>5. ~ Active(h)
    BY <2>2, ZenonT(30) DEF IInv, CommitInv, JobsInv, Active, TypeOK
  <2> QED
    BY <2>3, <2>4, <2>5, SMTT(30)
<1> QED
  BY <1>1, Invariance, PTL DEF Spec, PrunesOnlyRecorded

----------------------------------------------------------------------------
(* Rollbacks.                                                              *)

LEMMA CommitStep == CommitInv /\ [Next]_vars => CommitInv'
BY TypeStep, VersionsStep, TreesStep, HeightsStep, RecentStep, LoadsStep, ZenonT(30) DEF CommitInv

LEMMA HighestOfTwo == \A m, n \in Nat : Highest({m, n}) = IF m < n THEN n ELSE m
<1> TAKE m, n \in Nat
<1> DEFINE top == IF m < n THEN n ELSE m
<1>1. top \in {m, n} /\ \A w \in {m, n} : w <= top
  OBVIOUS
<1>2. \A v \in {m, n} : (\A w \in {m, n} : w <= v) => v = top
  BY SMTT(30)
<1> QED
  BY <1>1, <1>2, ZenonT(30) DEF Highest

\* The node's steps keep CometBFT's heights next to the metadata.
LEMMA HandshakeStep ==
    ASSUME Whole, RollbackTypeOK, NodeStep
    PROVE  HandshakeInv'
<1> USE DEF CommitInv, TypeOK, RollbackTypeOK, VersionsInv, HeightsInv, HandshakeInv,
            HeightsToPrune, Committing, Settled
<1>0. CommitInv /\ HandshakeInv /\ state' = state
  BY ZenonT(30) DEF Whole, NodeStep
<1>1. NextVersion \in Nat /\ (pc \in {"idle", "stores"} => NextVersion = Settled + 1)
  BY <1>0, SMTT(30) DEF NextVersion
<1>2. block' = IF pc' = "stores" /\ block < NextVersion THEN NextVersion ELSE block
  BY <1>0, <1>1, HighestOfTwo, ZenonT(30) DEF NodeStep
<1>3. ASSUME latest' = latest, block' = block, saved' = saved,
             pc' = "stores" \/ Committing' => pc = "stores" \/ Committing,
             HeightsToPrune' \subseteq HeightsToPrune
      PROVE  HandshakeInv'
  BY <1>0, <1>3, ZenonT(30)
<1>4. ASSUME pc = "stores" \/ Committing, latest' = latest, block' = block PROVE HandshakeInv'
  BY <1>0, <1>4, ZenonT(30)
<1>5. CASE BeginCommit
  <2>1. /\ pc = "idle" /\ pc' = "stores" /\ latest' = latest
        /\ UNCHANGED <<pruneHeights, dbPruneHeights, batch>>
    BY <1>5, ZenonT(30) DEF BeginCommit
  <2>2. latest <= state
    BY <2>1, ZenonT(30) DEF NodeStep
  <2>3. state = latest
    BY <1>0, <2>2, SMTT(30)
  <2>4. block' = Settled + 1
    BY <1>0, <1>1, <1>2, <2>1
  <2> QED
    BY <1>0, <2>1, <2>3, <2>4
<1>6. ASSUME NEW s \in Stores, CommitStore(s) PROVE HandshakeInv'
  <2>1. pc = "stores" /\ latest' = latest /\ block' = block
    BY <1>0, <1>1, <1>2, <1>6, ZenonT(30) DEF CommitStore
  <2> QED
    BY <1>4, <2>1, ZenonT(30)
<1>7. CASE FlushMetadata
  <2>1. /\ pc = "metadata" /\ pc' = "spawn" /\ latest' = lastCommit /\ lastCommit = Settled + 1
        /\ block' = block /\ UNCHANGED <<pruneHeights, dbPruneHeights, batch>>
    BY <1>0, <1>2, <1>7, ZenonT(30) DEF FlushMetadata
  <2>2. block = Settled + 1 /\ state = latest /\ block' = latest' /\ latest' # 0
    BY <1>0, <2>1
  <2>3. \A h \in HeightsToPrune' : h + KeepRecent < latest'
    BY <1>0, <2>1, <2>2, SMTT(30)
  <2>4. state \in {latest', latest' - 1} \/ (state = 0 /\ latest' = InitialVersion)
    BY <1>0, <2>1, <2>2
  <2>5. \A s \in Stores : \A h \in InitialVersion .. latest' :
          h + KeepRecent >= latest' => h \in saved'[s]
    <3> SUFFICES ASSUME NEW s \in Stores, NEW h \in InitialVersion .. latest',
                        h + KeepRecent >= latest'
                 PROVE  h \in saved[s]
      BY <1>7, ZenonT(30) DEF FlushMetadata
    <3>1. CASE h = latest'
      BY <1>0, <2>1, <3>1, ZenonT(30) DEF TreesInv
    <3>2. CASE h # latest'
      <4>1. h \in InitialVersion .. latest /\ h + KeepRecent > latest
        BY <1>0, <2>1, <3>2
      <4> QED
        BY <1>0, <4>1, ZenonT(30) DEF RetainsRecent
    <3> QED
      BY <3>1, <3>2, ZenonT(30)
  <2> QED
    BY <1>0, <2>1, <2>2, <2>3, <2>4, <2>5, ZenonT(30)
<1>8. CASE CommitInfo \/ HandleHeight \/ FlushHeights \/ GetFlushAndResetPruningHeights
  <2>1. (pc = "stores" \/ Committing) /\ latest' = latest /\ pc' # "stores"
    BY <1>8, ZenonT(30) DEF CommitInfo, HandleHeight, FlushHeights, GetFlushAndResetPruningHeights
  <2> QED
    BY <1>2, <1>4, <2>1, ZenonT(30)
<1>9. CASE PrunedStores \/ \E s \in Stores : PruneStore(s)
  <2>1. pc = "delete" /\ pc' # "stores" /\ latest' = latest
    BY <1>9, ZenonT(30) DEF PrunedStores, PruneStore
  <2> QED
    BY <1>2, <1>4, <2>1, ZenonT(30)
<1>10. CASE LoadVersion \/ Crash \/ SnapshotIfApplicable
  <2>1. /\ latest' = latest /\ saved' = saved /\ pc' \in {"idle", "failed", "down"}
        /\ HeightsToPrune' \subseteq HeightsToPrune
    BY <1>10, ZenonT(30) DEF LoadVersion, Crash, SnapshotIfApplicable
  <2> QED
    BY <1>2, <1>3, <2>1, ZenonT(30)
<1>11. ASSUME NEW h \in Heights, Snapshot(h) PROVE HandshakeInv'
  <2>1. UNCHANGED <<latest, saved, pc, pruneHeights, dbPruneHeights, batch, lastCommit>>
    BY <1>11, ZenonT(30) DEF BeginSnapshot, SaveSnapshot, HandleHeightSnapshot, ExportStore
  <2>2. block' = block
    BY <1>0, <1>1, <1>2, <2>1, ZenonT(30)
  <2> QED
    BY <1>3, <2>1, <2>2, ZenonT(30)
<1> QED
  BY <1>5, <1>6, <1>7, <1>8, <1>9, <1>10, <1>11, ZenonT(30) DEF NodeStep, Next

LEMMA NodeWhole ==
    ASSUME Whole, RollbackTypeOK, NodeStep
    PROVE  Whole' /\ RollbackTypeOK'
<1>1. CommitInv'
  BY CommitStep, ZenonT(30) DEF Whole, NodeStep
<1>2. HandshakeInv'
  BY HandshakeStep
<1>3. NextVersion \in Nat
  BY DEF Whole, CommitInv, TypeOK, NextVersion
<1>4. RollbackTypeOK'
  BY <1>3, HighestOfTwo, ZenonT(30) DEF NodeStep, RollbackTypeOK
<1> QED
  BY <1>1, <1>2, <1>4, ZenonT(30) DEF Whole, NodeStep

\* The state CometBFT saves is the application's.
LEMMA SaveWhole ==
    ASSUME Whole, RollbackTypeOK, SaveState
    PROVE  Whole' /\ RollbackTypeOK'
<1>1. CommitInv' /\ UNCHANGED <<latest, saved, pc, block, target, pruneHeights, dbPruneHeights, batch>>
  BY ZenonT(30) DEF Whole, SaveState, CommitInv, TypeOK, VersionsInv, TreesInv, HeightsInv,
     RetainsRecent,
         AlwaysLoads, Committing, Settled
<1>2. state' = latest /\ block = latest
  BY SMTT(30) DEF Whole, SaveState, HandshakeInv, CommitInv, TypeOK, RollbackTypeOK
<1>3. HandshakeInv'
  BY <1>1, <1>2, ZenonT(30) DEF Whole, HandshakeInv, CommitInv, TypeOK, HeightsToPrune,
     Committing, Settled
<1> QED
  BY <1>1, <1>2, <1>3, ZenonT(30) DEF Whole, RollbackTypeOK, SaveState, CommitInv, TypeOK

\* CometBFT goes back to a version that every store holds and keeps.
LEMMA BeginRolling ==
    ASSUME ~ Hard, Whole, RollbackTypeOK, BeginRollback
    PROVE  Rolling' /\ RollbackTypeOK'
<1> USE DEF CommitInv, TypeOK, RollbackTypeOK, HeightsToPrune, Settled
<1>0. CommitInv /\ HandshakeInv
  BY ZenonT(30) DEF Whole
<1>1. /\ pc = "down" /\ latest > 0 /\ vars' = vars /\ behind' = Stores /\ block' = block
      /\ target' = state' /\ target' >= InitialVersion
      /\ target' = IF block = state + 1 THEN state ELSE state - 1
      /\ \A s \in Stores : latest \in saved[s]
  BY ZenonT(30) DEF BeginRollback
<1>2. /\ target' \in {latest, latest - 1} /\ block = target' + 1 /\ target' \in Nat
      /\ target' = latest - 1 => block = latest
  BY <1>0, <1>1, SMTT(30) DEF HandshakeInv
<1>3. batch = {} /\ \A h \in HeightsToPrune : h + KeepRecent <= target'
  BY <1>0, <1>1, <1>2 DEF HeightsInv, HandshakeInv
<1>4. \A s \in Stores : \A h \in InitialVersion .. target' :
        h + KeepRecent > target' => h \in saved[s]
  <2> SUFFICES ASSUME NEW s \in Stores, NEW h \in InitialVersion .. target',
                      h + KeepRecent > target'
               PROVE  h \in saved[s]
    BY ZenonT(30)
  <2>1. CASE target' = latest
    BY <1>0, <2>1, ZenonT(30) DEF RetainsRecent
  <2>2. CASE target' = latest - 1
    BY <1>0, <1>2, <2>2, SMTT(30) DEF HandshakeInv
  <2> QED
    BY <1>2, <2>1, <2>2, ZenonT(30)
<1>5. \A s \in Stores : \A h \in saved[s] : InitialVersion <= h /\ h <= latest + 1
  BY <1>0, <1>1, SMTT(30) DEF TreesInv
<1>6. RollbackTypeOK'
  BY <1>1, <1>2 DEF BeginRollback
<1>7. TypeOK' /\ UNCHANGED <<saved, latest, pc, batch, pruneHeights, dbPruneHeights>>
  BY <1>0, <1>1, ZenonT(30)
<1> QED
  BY <1>1, <1>2, <1>3, <1>4, <1>5, <1>6, <1>7, ZenonT(30) DEF Rolling

\* LoadVersionForOverwriting finds the target, and takes no version below it.
LEMMA RollOne ==
    ASSUME Rolling, RollbackTypeOK, NEW s \in Stores, RollbackStore(s)
    PROVE  Rolling' /\ RollbackTypeOK'
<1> USE DEF RollbackTypeOK, HeightsToPrune
<1>1. target \in saved[s] /\ TypeOK /\ target \in Nat
  BY DEF Rolling
<1>2. /\ saved' = [saved EXCEPT ![s] = {h \in saved[s] : h <= target}]
      /\ behind' = behind \ {s} /\ target' = target
      /\ UNCHANGED <<latest, pc, batch, pruneHeights, dbPruneHeights, block, state>>
  BY <1>1, ZenonT(30) DEF RollbackStore, Overwritten
<1>3. TypeOK' /\ RollbackTypeOK'
  BY <1>1, <1>2, ZenonT(30) DEF RollbackStore, TypeOK
<1>4. ASSUME NEW r \in Stores
      PROVE  saved'[r] = IF r = s THEN {h \in saved[r] : h <= target} ELSE saved[r]
  BY <1>1, <1>2, ZenonT(30) DEF TypeOK
<1>5. ASSUME NEW r \in Stores
      PROVE  /\ \A h \in InitialVersion .. target : h + KeepRecent > target => h \in saved'[r]
             /\ \A h \in saved'[r] : InitialVersion <= h /\ h <= latest + 1
             /\ r \in behind' => latest \in saved'[r]
             /\ r \notin behind' => \A h \in saved'[r] : h <= target
  <2>1. /\ \A h \in InitialVersion .. target : h + KeepRecent > target => h \in saved[r]
        /\ \A h \in saved[r] : InitialVersion <= h /\ h <= latest + 1
        /\ r \in behind => latest \in saved[r]
        /\ r \notin behind => \A h \in saved[r] : h <= target
    BY ZenonT(30) DEF Rolling
  <2>2. CASE r = s
    <3>1. saved'[r] = {h \in saved[r] : h <= target} /\ r \notin behind'
      BY <1>2, <1>4, <2>2, ZenonT(30)
    <3> QED
      BY <2>1, <3>1
  <2>3. CASE r # s
    <3>1. saved'[r] = saved[r] /\ (r \in behind' <=> r \in behind)
      BY <1>2, <1>4, <2>3, ZenonT(30)
    <3> QED
      BY <2>1, <3>1, ZenonT(30)
  <2> QED
    BY <2>2, <2>3, ZenonT(30)
<1> QED
  BY <1>2, <1>3, <1>5, ZenonT(30) DEF Rolling

\* The metadata follows the stores.
LEMMA RollDone ==
    ASSUME Rolling, RollbackTypeOK, FinishRollback
    PROVE  Whole' /\ RollbackTypeOK'
<1> USE DEF RollbackTypeOK, TypeOK, HeightsToPrune, Rolling
<1>1. /\ behind = {} /\ latest' = target /\ target' = 0
      /\ UNCHANGED <<saved, pc, batch, pruneHeights, dbPruneHeights, block, state>>
  BY ZenonT(30) DEF FinishRollback
<1>2. TypeOK' /\ RollbackTypeOK'
  BY ZenonT(30) DEF FinishRollback
<1>3. latest' # 0 /\ Settled' = target /\ pc' = "down" /\ block = target + 1 /\ state = target
  BY <1>1 DEF Settled
<1>4. VersionsInv' /\ AlwaysLoads' /\ RetainsRecent'
  BY <1>1, <1>3, ZenonT(30) DEF VersionsInv, AlwaysLoads, RetainsRecent, Committing
<1>5. TreesInv'
  BY <1>1, <1>3, SMTT(30) DEF TreesInv, Committing
<1>6. HeightsInv'
  BY <1>1, <1>3, ZenonT(30) DEF HeightsInv
<1>7. HandshakeInv'
  BY <1>1, <1>3, SMTT(30) DEF HandshakeInv, Committing
<1> QED
  BY <1>1, <1>2, <1>4, <1>5, <1>6, <1>7, ZenonT(30) DEF Whole, CommitInv

\* Killed before it has taken a store back, the command leaves the node as it was;
\* else the node does not load, and every store holds the version to go back to.
LEMMA RollKilled ==
    ASSUME Rolling, RollbackTypeOK, CrashRollback
    PROVE  (Whole' \/ Torn') /\ RollbackTypeOK'
<1> USE DEF RollbackTypeOK, TypeOK, HeightsToPrune
<1>1. /\ target' = 0 /\ killed' = TRUE /\ pc' = pc
      /\ UNCHANGED <<latest, saved, pc, batch, pruneHeights, dbPruneHeights, block, state>>
  BY ZenonT(30) DEF CrashRollback, Rolling
<1>2. TypeOK' /\ RollbackTypeOK'
  BY DEF CrashRollback, Rolling
<1>3. latest # 0 /\ Settled = latest /\ Settled' = latest /\ pc = "down" /\ latest \in Nat
  BY <1>1 DEF Settled, Rolling
<1>4. CASE \A s \in Stores : latest \in saved[s]
  <2>1. RetainsRecent'
    BY <1>1, <1>3, <1>4, SMTT(30) DEF Rolling, RetainsRecent
  <2>2. VersionsInv' /\ AlwaysLoads'
    BY <1>1, <1>3, SMTT(30) DEF Rolling, VersionsInv, AlwaysLoads, Committing
  <2>3. TreesInv'
    BY <1>1, <1>3, ZenonT(30) DEF Rolling, TreesInv, Committing
  <2>4. HeightsInv'
    BY <1>1, <1>3, SMTT(30) DEF Rolling, HeightsInv
  <2>5. CASE target = latest
    <3>1. block # latest /\ block = Settled' + 1 /\ state = latest
      BY <1>3, <2>5 DEF Rolling
    <3> QED
      BY <1>1, <1>2, <1>3, <2>1, <2>2, <2>3, <2>4, <3>1, ZenonT(30) DEF Whole, CommitInv,
         HandshakeInv, Committing
  <2>6. CASE target = latest - 1
    <3>1. block = latest /\ state = latest - 1
      BY <1>3, <2>6 DEF Rolling
    <3>2. \A h \in HeightsToPrune' : h + KeepRecent < latest
      BY <1>1, <1>3, <2>6 DEF Rolling
    <3>3. \A s \in Stores : \A h \in InitialVersion .. latest :
            h + KeepRecent >= latest => h \in saved[s]
      BY <1>3, <1>4, <2>6 DEF Rolling
    <3>4. HandshakeInv'
      BY <1>1, <1>3, <3>1, <3>2, <3>3, ZenonT(30) DEF HandshakeInv, Committing
    <3> QED
      BY <1>1, <1>2, <2>1, <2>2, <2>3, <2>4, <3>4, ZenonT(30) DEF Whole, CommitInv
  <2> QED
    BY <2>5, <2>6, ZenonT(30) DEF Rolling
<1>5. CASE \E s \in Stores : latest \notin saved[s]
  <2>1. \A s \in Stores : state \in saved[s]
    BY DEF Rolling
  <2> QED
    BY <1>1, <1>2, <1>3, <1>5, <2>1, ZenonT(30) DEF Torn
<1> QED
  BY <1>2, <1>4, <1>5, ZenonT(30)

\* A node that does not load stays down.
LEMMA TornStays ==
    ASSUME Torn, RollbackTypeOK, RollbackNext
    PROVE  Torn' /\ RollbackTypeOK'
<1> USE DEF RollbackTypeOK
<1>1. pc \in {"down", "failed"} /\ target = 0 /\ latest # 0 /\ ~ (\A s \in Stores : latest \in saved[s])
  BY ZenonT(30) DEF Torn
<1>2. NodeStep
  BY <1>1, ZenonT(30) DEF RollbackNext, SaveState, BeginRollback, FinishRollback,
     CrashRollback, RollbackStore
<1>3. LoadVersion \/ \E h \in Heights : Snapshot(h)
  BY <1>1, <1>2, ZenonT(30) DEF NodeStep, Next, Crash, Up, BeginCommit, CommitInfo,
     HandleHeight, FlushHeights,
       GetFlushAndResetPruningHeights, PrunedStores, FlushMetadata, SnapshotIfApplicable,
       CommitStore, PruneStore
<1>4. /\ UNCHANGED <<saved, latest>> /\ pc' \in {"down", "failed"} /\ TypeOK'
  <2>0. TypeOK
    BY ZenonT(30) DEF Torn
  <2>1. CASE LoadVersion
    BY <1>1, <2>1, ZenonT(30) DEF LoadVersion, Torn, TypeOK
  <2>2. ASSUME NEW h \in Heights, BeginSnapshot(h)
        PROVE  UNCHANGED <<saved, latest, pc>> /\ TypeOK'
    BY <2>2, ZenonT(30) DEF BeginSnapshot, Torn, TypeOK
  <2>3. ASSUME NEW h \in Heights, SaveSnapshot(h)
        PROVE  UNCHANGED <<saved, latest, pc>> /\ TypeOK'
    BY ONLY <2>0, <2>3, OptionsAssumption, SMTT(60) DEF SaveSnapshot, TypeOK, Heights, Jobs
  <2>4. ASSUME NEW h \in Heights, HandleHeightSnapshot(h)
        PROVE  UNCHANGED <<saved, latest, pc>> /\ TypeOK'
    BY ONLY <2>0, <2>4, OptionsAssumption, SMTT(60) DEF HandleHeightSnapshot, TypeOK, Heights, Jobs
  <2>5. ASSUME NEW h \in Heights, NEW s \in Stores, ExportStore(h, s)
        PROVE  UNCHANGED <<saved, latest, pc>> /\ TypeOK'
    BY <2>5, ZenonT(30) DEF ExportStore, Torn, TypeOK
  <2> QED
    BY <1>1, <1>3, <2>1, <2>2, <2>3, <2>4, <2>5, ZenonT(30)
<1>5. block' = block /\ UNCHANGED <<state, target, behind, rollbacks, killed>>
  BY <1>2, <1>4, ZenonT(30) DEF NodeStep
<1> QED
  BY <1>4, <1>5, ZenonT(30) DEF Torn

LEMMA RollbackStep ==
    ASSUME ~ Hard
    PROVE  RollbackInv /\ [RollbackNext]_allVars => RollbackInv'
<1> SUFFICES ASSUME RollbackInv, [RollbackNext]_allVars PROVE RollbackInv'
  BY ZenonT(30)
<1>0. RollbackTypeOK /\ (Whole \/ Rolling \/ Torn)
  BY ZenonT(30) DEF RollbackInv
<1>1. CASE UNCHANGED allVars
  <2>1. UNCHANGED <<saved, latest, dbPruneHeights, dbSnapshotHeights, dbSnapshot, pc, todo, batch,
                    lastCommit, tree, pruneHeights, pruneSnapshotHeights, job, unread, crashes>>
    BY ONLY <1>1, Zenon DEF allVars, vars, disk, memory
  <2>2. UNCHANGED <<block, state, target, behind, rollbacks, killed>>
    BY ONLY <1>1, Zenon DEF allVars, rollbackVars
  <2>3. TypeOK' = TypeOK
    BY ONLY <2>1, ZenonT(60) DEF TypeOK
  <2>4. CommitInv' = CommitInv
    BY ONLY <2>1, <2>3, ZenonT(60) DEF CommitInv, VersionsInv, TreesInv, HeightsInv, RetainsRecent,
         AlwaysLoads, Committing, Settled
  <2>5. HandshakeInv' = HandshakeInv
    BY ONLY <2>1, <2>2, ZenonT(60) DEF HandshakeInv, HeightsToPrune, Committing, Settled
  <2>6. RollbackTypeOK' = RollbackTypeOK
    BY ONLY <2>2, ZenonT(60) DEF RollbackTypeOK
  <2>7. Whole' = Whole /\ Rolling' = Rolling /\ Torn' = Torn
    BY ONLY <2>1, <2>2, <2>3, <2>4, <2>5, ZenonT(60) DEF Whole, Rolling, Torn, HeightsToPrune
  <2> QED
    BY ONLY <1>0, <2>6, <2>7, ZenonT(60) DEF RollbackInv
<1>2. CASE Torn /\ RollbackNext
  BY <1>0, <1>2, TornStays, ZenonT(30) DEF RollbackInv
<1>3. CASE Whole /\ RollbackNext
  <2>1. NodeStep \/ SaveState \/ BeginRollback
    BY <1>3, ZenonT(30) DEF Whole, RollbackNext, RollbackStore, FinishRollback, CrashRollback
  <2> QED
    BY <1>0, <1>3, <2>1, NodeWhole, SaveWhole, BeginRolling, ZenonT(30) DEF RollbackInv
<1>4. CASE Rolling /\ RollbackNext
  <2>1. target # 0 /\ pc = "down"
    <3>1. InitialVersion <= target /\ pc = "down"
      BY <1>4, Zenon DEF Rolling
    <3>2. target \in Nat
      BY <1>0, ZenonT(30) DEF RollbackTypeOK
    <3> QED BY ONLY <3>1, <3>2, OptionsAssumption
  <2>2. FinishRollback \/ CrashRollback \/ \E s \in Stores : RollbackStore(s)
    BY <1>4, <2>1, ZenonT(30) DEF RollbackNext, NodeStep, SaveState, BeginRollback
  <2> QED
    BY <1>0, <1>4, <2>2, RollOne, RollDone, RollKilled, ZenonT(30) DEF RollbackInv
<1> QED
  BY <1>0, <1>1, <1>2, <1>3, <1>4

LEMMA RollbackStart == RollbackInit => RollbackInv
<1> SUFFICES ASSUME RollbackInit PROVE RollbackInv
  BY SMTT(30)
<1>1. CommitInv
  BY DEF RollbackInit, CommitInv, Init, TypeOK, VersionsInv, TreesInv, HeightsInv, RetainsRecent,
         AlwaysLoads, Committing, Settled
<1>2. RollbackTypeOK
  BY ZenonT(30) DEF RollbackInit, RollbackTypeOK
<1>3. HandshakeInv
  <2>1. latest = 0 /\ block = 0 /\ state = 0 /\ pc = "down"
    BY ZenonT(30) DEF RollbackInit, Init
  <2> QED
    BY <2>1 DEF HandshakeInv, Committing, Settled
<1> QED
  BY <1>1, <1>2, <1>3, ZenonT(30) DEF RollbackInit, RollbackInv, Whole

\* Without --hard, rollback commands that complete, give up or are killed before
\* they write leave the node with the last KeepRecent versions in every store:
\* CometBFT goes back by one height at most, and neither what was pruned nor the
\* heights on record for pruning reach into the versions that are recent then.
THEOREM RecentKeptByRollbacks ==
    ASSUME ~ Hard
    PROVE  RollbackSpec => []RetainsRecentAfterRollback
<1>1. RollbackInv => RetainsRecentAfterRollback
  <2>1. ASSUME Rolling, RollbackTypeOK PROVE target # 0
    <3>1. InitialVersion <= target
      BY ONLY <2>1, Zenon DEF Rolling
    <3>2. target \in Nat
      BY ONLY <2>1, Zenon DEF RollbackTypeOK
    <3> QED BY ONLY <3>1, <3>2, OptionsAssumption
  <2>2. Whole => RetainsRecent
    BY ONLY Zenon DEF Whole, CommitInv
  <2>3. Torn => killed
    BY ONLY Zenon DEF Torn
  <2> QED
    BY ONLY <2>1, <2>2, <2>3, Zenon DEF RollbackInv, RetainsRecentAfterRollback
<1> QED
  BY <1>1, RollbackStart, RollbackStep, PTL DEF RollbackSpec

\* Only a command that was killed leaves a node that loadVersion cannot start, and
\* then every store has the version that CometBFT went back to.
THEOREM TornRollbacksRecover ==
    ASSUME ~ Hard
    PROVE  RollbackSpec => []TornRollbackRecoverable
<1>1. RollbackInv => TornRollbackRecoverable
  <2>1. Rolling => \A s \in Stores : state \in saved[s]
    BY DEF Rolling, TypeOK
  <2>2. ASSUME Whole PROVE TornRollbackRecoverable
    BY ONLY <2>2, Zenon DEF Whole, CommitInv, AlwaysLoads, TornRollbackRecoverable
  <2>3. ASSUME Rolling PROVE TornRollbackRecoverable
    <3>1. pc # "failed"
      BY <2>3, ZenonT(30) DEF Rolling
    <3> QED BY ONLY <2>1, <2>3, <3>1, Zenon DEF TornRollbackRecoverable
  <2>4. ASSUME Torn PROVE TornRollbackRecoverable
    BY ONLY <2>4, Zenon DEF Torn, TornRollbackRecoverable
  <2> QED
    BY ONLY <2>2, <2>3, <2>4, Zenon DEF RollbackInv
<1> QED
  BY <1>1, RollbackStart, RollbackStep, PTL DEF RollbackSpec
=============================================================================
