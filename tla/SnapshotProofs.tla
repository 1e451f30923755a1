--------------------------- MODULE SnapshotProofs ---------------------------
(***************************************************************************)
(* Snapshots taken and snapshots restored.  The first part proves the      *)
(* invariant of SnapshotManager, for any number of heights and chunks, one *)
(* lemma per conjunct: the exclusion of the goroutines is what keeps a     *)
(* snapshot from being added between the two halves of a deletion.  The    *)
(* second part proves that a restored snapshot is whole and that its       *)
(* chunks arrive in order, for any number of stores and chunks, any size   *)
(* of the two channels and any number of crashes and damaged chunks.       *)
(***************************************************************************)
EXTENDS SnapshotManager, SnapshotRestore, FiniteSetTheorems, TLAPS

LEMMA TypeStep == TypeOK /\ [Next]_vars => TypeOK'
<1> SUFFICES ASSUME TypeOK, [Next]_vars PROVE TypeOK'
  OBVIOUS
<1> USE SnapshotAssumption DEF TypeOK, Heights, States, Snapshotting, Pruning
<1>1. CASE UNCHANGED vars
  BY <1>1 DEF vars, disk
<1>2. CASE Commit
  BY <1>2 DEF Commit, disk
<1>3. CASE Crash
  BY <1>3 DEF Crash, disk
<1>4. ASSUME NEW h \in Heights, BeginCreate(h) PROVE TypeOK'
  BY <1>4, SMTT(30) DEF BeginCreate, Begin, disk
<1>5. ASSUME NEW h \in Heights, CheckLatest(h) PROVE TypeOK'
  <2>1. job' \in [Heights -> States] /\ operation' \in {"none", "snapshot", "prune"}
    BY <1>5, ZenonT(30) DEF CheckLatest, End
  <2>2. written' \in [Heights -> 0 .. Chunks]
    BY <1>5 DEF CheckLatest
  <2> QED
    BY <1>5, <2>1, <2>2 DEF CheckLatest, disk
<1>6. ASSUME NEW h \in Heights, SaveChunk(h) PROVE TypeOK'
  <2>1. written[h] + 1 \in 1 .. Chunks
    BY <1>6 DEF SaveChunk
  <2>2. written' \in [Heights -> 0 .. Chunks] /\ files' \in [Heights -> SUBSET (1 .. Chunks)]
    BY <1>6, <2>1, SMTT(30) DEF SaveChunk
  <2> QED
    BY <1>6, <2>2, SMTT(30) DEF SaveChunk
<1>7. ASSUME NEW h \in Heights, SaveSnapshot(h) PROVE TypeOK'
  BY <1>7 DEF SaveSnapshot
<1>8. ASSUME NEW h \in Heights, EndCreate(h) PROVE TypeOK'
  BY <1>8 DEF EndCreate, End, disk
<1>9. ASSUME NEW h \in Heights, BeginPrune(h) PROVE TypeOK'
  BY <1>9, ZenonT(30) DEF BeginPrune, Begin, OldSnapshots, Saved, disk
<1>10. ASSUME NEW h \in Heights, EndPrune(h) PROVE TypeOK'
  BY <1>10 DEF EndPrune, End, disk
<1>11. ASSUME NEW h \in Heights, NEW g \in Heights, DeleteMetadata(h, g) PROVE TypeOK'
  BY <1>11 DEF DeleteMetadata
<1>12. ASSUME NEW h \in Heights, NEW g \in Heights, RemoveChunks(h, g) PROVE TypeOK'
  BY <1>12, SMTT(30) DEF RemoveChunks
<1>13. ASSUME NEW h \in Heights, SaveFails(h) PROVE TypeOK'
  BY <1>13 DEF SaveFails, End, disk
<1>14. ASSUME NEW h \in Heights, NEW g \in Heights, RemoveFails(h, g) PROVE TypeOK'
  BY <1>14, SMTT(30) DEF RemoveFails, End
<1> QED
  BY <1>1, <1>2, <1>3, <1>4, <1>5, <1>6, <1>7, <1>8, <1>9, <1>10, <1>11, <1>12,
     <1>13, <1>14, ZenonT(30) DEF Next, Create, Prune, Fails

LEMMA OwnedStep == IInv /\ [Next]_vars => OperationOwned'
<1> SUFFICES ASSUME IInv, [Next]_vars PROVE OperationOwned'
  OBVIOUS
<1> USE DEF IInv, TypeOK, OperationOwned, Snapshotting, Pruning
<1>1. CASE UNCHANGED vars
  BY <1>1 DEF vars
<1>2. CASE Commit
  <2>1. height + 1 \in Heights /\ job[height + 1] = "none"
    BY <1>2, SnapshotAssumption DEF Commit, ChunksInv, Heights
  <2> QED
    BY <1>2, <2>1 DEF Commit
<1>3. CASE Crash
  BY <1>3 DEF Crash
<1>4. ASSUME NEW h \in Heights, BeginCreate(h) PROVE OperationOwned'
  BY <1>4 DEF BeginCreate, Begin
<1>5. ASSUME NEW h \in Heights, CheckLatest(h) PROVE OperationOwned'
  BY <1>5 DEF CheckLatest, End
<1>6. ASSUME NEW h \in Heights, SaveChunk(h) PROVE OperationOwned'
  BY <1>6 DEF SaveChunk
<1>7. ASSUME NEW h \in Heights, SaveSnapshot(h) PROVE OperationOwned'
  BY <1>7 DEF SaveSnapshot
<1>8. ASSUME NEW h \in Heights, EndCreate(h) PROVE OperationOwned'
  BY <1>8 DEF EndCreate, End
<1>9. ASSUME NEW h \in Heights, BeginPrune(h) PROVE OperationOwned'
  BY <1>9 DEF BeginPrune, Begin
<1>10. ASSUME NEW h \in Heights, EndPrune(h) PROVE OperationOwned'
  BY <1>10 DEF EndPrune, End
<1>11. ASSUME NEW h \in Heights, NEW g \in Heights, DeleteMetadata(h, g) PROVE OperationOwned'
  BY <1>11 DEF DeleteMetadata
<1>12. ASSUME NEW h \in Heights, NEW g \in Heights, RemoveChunks(h, g) PROVE OperationOwned'
  BY <1>12 DEF RemoveChunks
<1>13. ASSUME NEW h \in Heights, SaveFails(h) PROVE OperationOwned'
  BY <1>13 DEF SaveFails, End
<1>14. ASSUME NEW h \in Heights, NEW g \in Heights, RemoveFails(h, g) PROVE OperationOwned'
  BY <1>14, SMTT(30) DEF RemoveFails, End
<1> QED
  BY <1>1, <1>2, <1>3, <1>4, <1>5, <1>6, <1>7, <1>8, <1>9, <1>10, <1>11, <1>12,
     <1>13, <1>14, ZenonT(30) DEF Next, Create, Prune, Fails

LEMMA ListedStep == IInv /\ [Next]_vars => ListedHasChunks'
<1> SUFFICES ASSUME IInv, [Next]_vars PROVE ListedHasChunks'
  OBVIOUS
<1> USE DEF IInv, TypeOK, ListedHasChunks, Saved
<1>1. CASE UNCHANGED vars
  BY <1>1 DEF vars, disk
<1>2. CASE Commit
  BY <1>2 DEF Commit, disk
<1>3. CASE Crash
  BY <1>3 DEF Crash, disk
<1>4. ASSUME NEW h \in Heights, BeginCreate(h) PROVE ListedHasChunks'
  BY <1>4 DEF BeginCreate, Begin, disk
<1>5. ASSUME NEW h \in Heights, CheckLatest(h) PROVE ListedHasChunks'
  BY <1>5 DEF CheckLatest, End, disk
<1>6. ASSUME NEW h \in Heights, SaveChunk(h) PROVE ListedHasChunks'
  BY <1>6 DEF SaveChunk
<1>7. ASSUME NEW h \in Heights, SaveSnapshot(h) PROVE ListedHasChunks'
  <2>1. 1 .. written[h] \subseteq files[h]
    BY <1>7 DEF SaveSnapshot, ChunksInv
  <2> QED
    BY <1>7, <2>1 DEF SaveSnapshot
<1>8. ASSUME NEW h \in Heights, EndCreate(h) PROVE ListedHasChunks'
  BY <1>8 DEF EndCreate, End, disk
<1>9. ASSUME NEW h \in Heights, BeginPrune(h) PROVE ListedHasChunks'
  BY <1>9 DEF BeginPrune, Begin, disk
<1>10. ASSUME NEW h \in Heights, EndPrune(h) PROVE ListedHasChunks'
  BY <1>10 DEF EndPrune, End, disk
<1>11. ASSUME NEW h \in Heights, NEW g \in Heights, DeleteMetadata(h, g) PROVE ListedHasChunks'
  BY <1>11 DEF DeleteMetadata
<1>12. ASSUME NEW h \in Heights, NEW g \in Heights, RemoveChunks(h, g) PROVE ListedHasChunks'
  <2>1. g \notin Saved
    BY <1>12, ZenonT(30) DEF RemoveChunks, PruneInv, Newest
  <2> QED
    BY <1>12, <2>1 DEF RemoveChunks
<1>13. ASSUME NEW h \in Heights, SaveFails(h) PROVE ListedHasChunks'
  BY <1>13, ZenonT(30) DEF SaveFails, End, disk
<1>14. ASSUME NEW h \in Heights, NEW g \in Heights, RemoveFails(h, g) PROVE ListedHasChunks'
  <2>1. g \notin Saved
    BY <1>14, ZenonT(30) DEF RemoveFails, PruneInv, Newest
  <2> QED
    BY <1>14, <2>1 DEF RemoveFails
<1> QED
  BY <1>1, <1>2, <1>3, <1>4, <1>5, <1>6, <1>7, <1>8, <1>9, <1>10, <1>11, <1>12,
     <1>13, <1>14, ZenonT(30) DEF Next, Create, Prune, Fails

LEMMA PruneStep == IInv /\ [Next]_vars => PruneInv'
<1> SUFFICES ASSUME IInv, [Next]_vars PROVE PruneInv'
  OBVIOUS
<1> USE DEF IInv, TypeOK, PruneInv, Saved, Newest
<1>1. CASE UNCHANGED vars
  BY <1>1, ZenonT(30) DEF vars, disk
<1>2. CASE Commit
  BY <1>2, ZenonT(30) DEF Commit, disk
<1>3. CASE Crash
  BY <1>3, ZenonT(30) DEF Crash, disk
<1>4. ASSUME NEW h \in Heights, BeginCreate(h) PROVE PruneInv'
  BY <1>4, ZenonT(30) DEF BeginCreate, Begin, disk
<1>5. ASSUME NEW h \in Heights, CheckLatest(h) PROVE PruneInv'
  BY <1>5, ZenonT(30) DEF CheckLatest, End, disk
<1>6. ASSUME NEW h \in Heights, SaveChunk(h) PROVE PruneInv'
  BY <1>6, ZenonT(30) DEF SaveChunk
<1>7. ASSUME NEW h \in Heights, SaveSnapshot(h) PROVE PruneInv'
  BY <1>7, ZenonT(30) DEF SaveSnapshot, OperationOwned, Snapshotting, Pruning
<1>8. ASSUME NEW h \in Heights, EndCreate(h) PROVE PruneInv'
  BY <1>8, ZenonT(30) DEF EndCreate, End, disk
<1>9. ASSUME NEW h \in Heights, BeginPrune(h) PROVE PruneInv'
  <2>1. \A k \in Heights : job'[k] # "remove" \/ job[k] = "remove"
    BY <1>9, ZenonT(30) DEF BeginPrune, Begin
  <2>2. Saved' = Saved
    BY <1>9, ZenonT(30) DEF BeginPrune, disk
  <2>3. CASE operation = "none"
    <3>1. pruning' \subseteq Saved
      BY <1>9, <2>3, ZenonT(30) DEF BeginPrune, OldSnapshots
    <3>2. \A k \in Heights : job'[k] # "remove"
      BY <1>9, <2>1, <2>3, ZenonT(30) DEF OperationOwned, Pruning
    <3> QED
      BY <2>2, <3>1, <3>2, ZenonT(30)
  <2>4. CASE operation # "none"
    <3>1. pruning' = pruning /\ \A k \in Heights : job'[k] # "prune" \/ job[k] = "prune"
      BY <1>9, <2>4, ZenonT(30) DEF BeginPrune, Begin
    <3> QED
      BY <2>1, <2>2, <3>1, ZenonT(30)
  <2> QED
    BY <2>3, <2>4, ZenonT(30)
<1>10. ASSUME NEW h \in Heights, EndPrune(h) PROVE PruneInv'
  BY <1>10, ZenonT(30) DEF EndPrune, End, disk
<1>11. ASSUME NEW h \in Heights, NEW g \in Heights, DeleteMetadata(h, g) PROVE PruneInv'
  BY <1>11 DEF DeleteMetadata, OperationOwned, Snapshotting, Pruning, Heights
<1>12. ASSUME NEW h \in Heights, NEW g \in Heights, RemoveChunks(h, g) PROVE PruneInv'
  <2>1. \A k \in pruning : k \in Int
    BY DEF Heights
  <2>2. \A k \in pruning : k # g => ~ Newest(k)
    BY <1>12, <2>1 DEF RemoveChunks
  <2>3. pruning' \subseteq Saved /\ Saved' = Saved
    BY <1>12, <2>2, ZenonT(30) DEF RemoveChunks
  <2> QED
    BY <1>12, <2>3 DEF RemoveChunks, OperationOwned, Snapshotting, Pruning
<1>13. ASSUME NEW h \in Heights, SaveFails(h) PROVE PruneInv'
  BY <1>13, ZenonT(30) DEF SaveFails, End, disk
<1>14. ASSUME NEW h \in Heights, NEW g \in Heights, RemoveFails(h, g) PROVE PruneInv'
  BY <1>14, ZenonT(30) DEF RemoveFails, End, OperationOwned, Snapshotting, Pruning
<1> QED
  BY <1>1, <1>2, <1>3, <1>4, <1>5, <1>6, <1>7, <1>8, <1>9, <1>10, <1>11, <1>12,
     <1>13, <1>14, ZenonT(30) DEF Next, Create, Prune, Fails

LEMMA ChunksStep == IInv /\ [Next]_vars => ChunksInv'
<1> SUFFICES ASSUME IInv, [Next]_vars PROVE ChunksInv'
  OBVIOUS
<1> USE DEF IInv, TypeOK, ChunksInv, Saved, IsLatest
<1>1. CASE UNCHANGED vars
  BY <1>1, ZenonT(30) DEF vars, disk
<1>2. CASE Commit
  BY <1>2, SnapshotAssumption DEF Commit, disk, Heights
<1>3. CASE Crash
  BY <1>3 DEF Crash, disk, Heights
<1>4. ASSUME NEW h \in Heights, BeginCreate(h) PROVE ChunksInv'
  BY <1>4, ZenonT(30) DEF BeginCreate, Begin, disk
<1>5. ASSUME NEW h \in Heights, CheckLatest(h) PROVE ChunksInv'
  BY <1>5 DEF CheckLatest, End, disk
<1>6. ASSUME NEW h \in Heights, SaveChunk(h) PROVE ChunksInv'
  <2>1. 1 .. written[h] + 1 = 1 .. written[h] \cup {written[h] + 1}
    OBVIOUS
  <2> QED
    BY <1>6, <2>1, ZenonT(30) DEF SaveChunk
<1>7. ASSUME NEW h \in Heights, SaveSnapshot(h) PROVE ChunksInv'
  BY <1>7 DEF SaveSnapshot, OperationOwned, Snapshotting, Pruning
<1>8. ASSUME NEW h \in Heights, EndCreate(h) PROVE ChunksInv'
  BY <1>8, ZenonT(30) DEF EndCreate, End, disk
<1>9. ASSUME NEW h \in Heights, BeginPrune(h) PROVE ChunksInv'
  BY <1>9, ZenonT(30) DEF BeginPrune, Begin, disk
<1>10. ASSUME NEW h \in Heights, EndPrune(h) PROVE ChunksInv'
  BY <1>10, ZenonT(30) DEF EndPrune, End, disk
<1>11. ASSUME NEW h \in Heights, NEW g \in Heights, DeleteMetadata(h, g) PROVE ChunksInv'
  BY <1>11, ZenonT(30) DEF DeleteMetadata
<1>12. ASSUME NEW h \in Heights, NEW g \in Heights, RemoveChunks(h, g) PROVE ChunksInv'
  BY <1>12, ZenonT(30) DEF RemoveChunks, OperationOwned, Snapshotting, Pruning
<1>13. ASSUME NEW h \in Heights, SaveFails(h) PROVE ChunksInv'
  BY <1>13, ZenonT(30) DEF SaveFails, End, disk
<1>14. ASSUME NEW h \in Heights, NEW g \in Heights, RemoveFails(h, g) PROVE ChunksInv'
  BY <1>14, ZenonT(30) DEF RemoveFails, End, OperationOwned, Snapshotting, Pruning
<1> QED
  BY <1>1, <1>2, <1>3, <1>4, <1>5, <1>6, <1>7, <1>8, <1>9, <1>10, <1>11, <1>12,
     <1>13, <1>14, ZenonT(30) DEF Next, Create, Prune, Fails

\* A set of heights has a greatest one.
LEMMA GreatestHeight ==
    ASSUME NEW S \in SUBSET Heights, S # {}
    PROVE  \E m \in S : \A n \in S : n <= m
<1> DEFINE T == {MaxHeight - n : n \in S}
<1>1. T \in SUBSET Nat /\ T # {}
  <2>1. ASSUME NEW n \in S PROVE MaxHeight - n \in Nat
    BY SnapshotAssumption DEF Heights
  <2> QED
    BY <2>1, Zenon
<1>2. PICK t \in T : \A u \in T : ~(<<u, t>> \in OpToRel(<, Nat))
  <2> HIDE DEF T
  <2>1. IsWellFoundedOn(OpToRel(<, Nat), Nat)
    BY NatLessThanWellFounded, Zenon
  <2> QED
    BY <1>1, <2>1, WFMin, Zenon
<1>3. \A u \in T : ~(u < t)
  <2> HIDE DEF T
  <2>1. T \in SUBSET Nat
    BY <1>1
  <2> QED
    BY <1>2, <2>1, Zenon DEF OpToRel
<1>4. PICK m \in S : t = MaxHeight - m
  BY Zenon
<1>5. ASSUME NEW n \in S PROVE n <= m
  <2>1. ~(MaxHeight - n < MaxHeight - m)
    BY <1>3, <1>4, Zenon
  <2>2. n \in Int /\ m \in Int /\ MaxHeight \in Int
    BY SnapshotAssumption DEF Heights
  <2> QED
    BY ONLY <2>1, <2>2
<1> QED
  BY <1>5, Zenon

\* More snapshots are not fewer.
LEMMA MoreSaved ==
    ASSUME NEW S \in SUBSET Heights, NEW T \in SUBSET S, Cardinality(T) >= KeepRecent
    PROVE  Cardinality(S) >= KeepRecent
<1>1. IsFiniteSet(Heights)
  BY FS_Interval, SnapshotAssumption DEF Heights
<1>2. IsFiniteSet(S) /\ IsFiniteSet(T)
  BY <1>1, FS_Subset, Zenon
<1>3. Cardinality(T) <= Cardinality(S)
  BY <1>2, FS_Subset, Zenon
<1>4. Cardinality(S) \in Nat /\ Cardinality(T) \in Nat
  BY <1>2, FS_CardinalityType, Zenon
<1> QED
  BY <1>3, <1>4, SnapshotAssumption

\* The snapshots above the newest of the old ones are kept.
LEMMA OldKeepRecent ==
    ASSUME NEW g \in OldSnapshots
    PROVE  Cardinality({k \in Saved \ OldSnapshots : k > g}) >= KeepRecent
<1>1. OldSnapshots \in SUBSET Saved /\ Saved \in SUBSET Heights
  BY DEF OldSnapshots, Saved
<1>2. PICK m \in OldSnapshots : \A n \in OldSnapshots : n <= m
  BY <1>1, GreatestHeight, Zenon
<1>3. Cardinality({k \in Saved : k > m}) >= KeepRecent
  BY <1>2 DEF OldSnapshots
<1>4. \A k \in Saved : k \in Int
  BY <1>1 DEF Heights
<1>5. {k \in Saved : k > m} \in SUBSET {k \in Saved \ OldSnapshots : k > g}
  BY <1>1, <1>2, <1>4
<1>6. {k \in Saved \ OldSnapshots : k > g} \in SUBSET Heights
  BY <1>1
<1> QED
  BY <1>3, <1>5, <1>6, MoreSaved, Zenon

LEMMA RecentStep == IInv /\ [Next]_vars => RecentInv'
<1> SUFFICES ASSUME IInv, [Next]_vars PROVE RecentInv'
  OBVIOUS
<1> USE DEF IInv, TypeOK, RecentInv
<1>0. ASSUME Saved' = Saved, pruning' = pruning,
             \A k \in Heights : job'[k] \in Pruning => job[k] \in Pruning
      PROVE  RecentInv'
  BY <1>0, Zenon
<1>1. CASE UNCHANGED vars
  BY <1>0, <1>1, ZenonT(30) DEF vars, disk, Saved
<1>2. CASE Commit
  BY <1>0, <1>2, ZenonT(30) DEF Commit, disk, Saved, Pruning
<1>3. CASE Crash
  BY <1>3, ZenonT(30) DEF Crash
<1>4. ASSUME NEW h \in Heights, BeginCreate(h) PROVE RecentInv'
  BY <1>0, <1>4, ZenonT(30) DEF BeginCreate, Begin, disk, Saved, Pruning
<1>5. ASSUME NEW h \in Heights, CheckLatest(h) PROVE RecentInv'
  BY <1>0, <1>5, ZenonT(30) DEF CheckLatest, End, disk, Saved, Pruning
<1>6. ASSUME NEW h \in Heights, SaveChunk(h) PROVE RecentInv'
  BY <1>0, <1>6, ZenonT(30) DEF SaveChunk, Saved
<1>7. ASSUME NEW h \in Heights, SaveSnapshot(h) PROVE RecentInv'
  <2>1. \A k \in Heights : job'[k] \notin Pruning
    BY <1>7, ZenonT(30) DEF SaveSnapshot, OperationOwned, Snapshotting, Pruning
  <2> QED
    BY <2>1, Zenon
<1>8. ASSUME NEW h \in Heights, EndCreate(h) PROVE RecentInv'
  BY <1>0, <1>8, ZenonT(30) DEF EndCreate, End, disk, Saved, Pruning
<1>9. ASSUME NEW h \in Heights, BeginPrune(h) PROVE RecentInv'
  <2>1. Saved' = Saved
    BY <1>9, ZenonT(30) DEF BeginPrune, disk, Saved
  <2>2. CASE operation = "none"
    <3>1. pruning' = OldSnapshots
      BY <1>9, <2>2, ZenonT(30) DEF BeginPrune
    <3> QED
      BY <2>1, <3>1, OldKeepRecent, Zenon
  <2>3. CASE operation # "none"
    BY <1>0, <1>9, <2>1, <2>3, ZenonT(30) DEF BeginPrune, Begin, Pruning
  <2> QED
    BY <2>2, <2>3, ZenonT(30)
<1>10. ASSUME NEW h \in Heights, EndPrune(h) PROVE RecentInv'
  BY <1>10, ZenonT(30) DEF EndPrune
<1>11. ASSUME NEW h \in Heights, NEW g \in Heights, DeleteMetadata(h, g) PROVE RecentInv'
  <2>1. Saved' \ pruning' = Saved \ pruning /\ pruning' = pruning
    BY <1>11, ZenonT(30) DEF DeleteMetadata, Newest, Saved
  <2>2. job[h] \in Pruning
    BY <1>11, ZenonT(30) DEF DeleteMetadata, Pruning
  <2>3. \A k \in pruning : Cardinality({n \in Saved \ pruning : n > k}) >= KeepRecent
    BY <2>2, Zenon
  <2> QED
    BY <2>1, <2>3, Zenon
<1>12. ASSUME NEW h \in Heights, NEW g \in Heights, RemoveChunks(h, g) PROVE RecentInv'
  <2>1. g \notin Saved
    BY <1>12, ZenonT(30) DEF RemoveChunks, PruneInv, Newest
  <2>2. Saved' \ pruning' = Saved \ pruning /\ pruning' \subseteq pruning
    BY <1>12, <2>1, ZenonT(30) DEF RemoveChunks, Saved
  <2>3. job[h] \in Pruning
    BY <1>12, ZenonT(30) DEF RemoveChunks, Pruning
  <2>4. \A k \in pruning : Cardinality({n \in Saved \ pruning : n > k}) >= KeepRecent
    BY <2>3, Zenon
  <2> QED
    BY <2>2, <2>4, Zenon
<1>13. ASSUME NEW h \in Heights, SaveFails(h) PROVE RecentInv'
  BY <1>0, <1>13, ZenonT(30) DEF SaveFails, End, disk, Saved, Pruning
<1>14. ASSUME NEW h \in Heights, NEW g \in Heights, RemoveFails(h, g) PROVE RecentInv'
  BY <1>14, ZenonT(30) DEF RemoveFails
<1> HIDE DEF IInv, RecentInv
<1> QED
  BY <1>1, <1>2, <1>3, <1>4, <1>5, <1>6, <1>7, <1>8, <1>9, <1>10, <1>11, <1>12,
     <1>13, <1>14, Zenon DEF Next, Create, Prune, Fails

----------------------------------------------------------------------------
LEMMA InitInv == Init => IInv
BY SnapshotAssumption DEF Init, IInv, TypeOK, OperationOwned, ListedHasChunks, PruneInv,
   ChunksInv, RecentInv, Saved, Heights, States, Snapshotting, Pruning

LEMMA NextInv == IInv /\ [Next]_vars => IInv'
BY TypeStep, OwnedStep, ListedStep, PruneStep, ChunksStep, RecentStep DEF IInv

\* The invariant that the proofs below rest on.
THEOREM Invariance == Spec => []IInv
BY InitInv, NextInv, PTL DEF Spec

\* The goroutines of the snapshot heights exclude each other, and no error
\* leaves an operation behind.
THEOREM OperationsExclusive == Spec => []OperationOwned
BY Invariance, PTL DEF IInv

\* Whatever fails and whenever the process dies, a listed snapshot has the file
\* of each of its chunks.
THEOREM ListedCanBeServed == Spec => []ListedHasChunks
BY Invariance, PTL DEF IInv

\* A snapshot is only ever added above all that are there.
THEOREM SnapshotsOnlyGrow == Spec => SnapshotsGrow
<1> DEFINE Grow == \A h \in Heights : h \notin Saved /\ db'[h] # Absent =>
                      \A g \in Saved : g < h
<1>1. IInv /\ [Next]_vars => [Grow]_vars
  <2> SUFFICES ASSUME IInv, Next PROVE Grow
    OBVIOUS
  <2> USE DEF IInv, TypeOK, Saved
  <2>1. CASE db' = db
    BY <2>1, ZenonT(30)
  <2>2. ASSUME NEW h \in Heights, SaveSnapshot(h) PROVE Grow
    <3>1. \A g \in Heights : g # h => db'[g] = db[g]
      BY <2>2, ZenonT(30) DEF SaveSnapshot
    <3>2. IsLatest(h)
      BY <2>2, ZenonT(30) DEF SaveSnapshot, ChunksInv
    <3> QED
      BY <3>1, <3>2, ZenonT(30) DEF IsLatest
  <2>3. ASSUME NEW h \in Heights, NEW g \in Heights, DeleteMetadata(h, g) PROVE Grow
    BY <2>3, ZenonT(30) DEF DeleteMetadata
  <2> QED
    BY <2>1, <2>2, <2>3, ZenonT(30) DEF Next, Commit, Crash, Create, Prune, Fails, BeginCreate,
       CheckLatest, SaveChunk, EndCreate, BeginPrune, EndPrune, RemoveChunks,
       SaveFails, RemoveFails, disk
<1> QED
  BY <1>1, Invariance, PTL DEF Spec, SnapshotsGrow

\* Whatever is saved, fails or crashes between its steps, a Prune deletes a
\* snapshot only when KeepRecent later ones are there.
THEOREM PruneLeavesRecent == Spec => PruneKeepsRecent
<1> DEFINE Keeps == \A h \in Heights : h \in Saved /\ db'[h] = Absent =>
                       Cardinality({g \in Saved : g > h}) >= KeepRecent
<1>1. IInv /\ [Next]_vars => [Keeps]_vars
  <2> SUFFICES ASSUME IInv, Next PROVE Keeps
    OBVIOUS
  <2> USE DEF IInv, TypeOK
  <2>1. CASE db' = db
    BY <2>1, ZenonT(30) DEF Saved
  <2>2. ASSUME NEW h \in Heights, SaveSnapshot(h) PROVE Keeps
    <3>1. db' = [db EXCEPT ![h] = written[h]] /\ written[h] \in Nat /\ Absent \notin Nat
      BY <2>2, SnapshotAssumption DEF SaveSnapshot
    <3> QED
      BY <3>1, ZenonT(30) DEF Saved
  <2>3. ASSUME NEW h \in Heights, NEW g \in Heights, DeleteMetadata(h, g) PROVE Keeps
    <3>1. g \in pruning /\ job[h] \in Pruning
      BY <2>3, ZenonT(30) DEF DeleteMetadata, Newest, Pruning
    <3>2. \A k \in Heights : k \in Saved /\ db'[k] = Absent => k = g
      BY <2>3, ZenonT(30) DEF DeleteMetadata, Saved
    <3>3. Cardinality({k \in Saved \ pruning : k > g}) >= KeepRecent
      BY <3>1, Zenon DEF RecentInv
    <3>4. {k \in Saved \ pruning : k > g} \in SUBSET {k \in Saved : k > g}
      BY Zenon
    <3>5. {k \in Saved : k > g} \in SUBSET Heights
      BY Zenon DEF Saved
    <3>6. Cardinality({k \in Saved : k > g}) >= KeepRecent
      BY <3>3, <3>4, <3>5, MoreSaved, Zenon
    <3> QED
      BY <3>2, <3>6, Zenon
  <2> QED
    BY <2>1, <2>2, <2>3, ZenonT(30) DEF Next, Commit, Crash, Create, Prune, Fails, BeginCreate,
       CheckLatest, SaveChunk, EndCreate, BeginPrune, EndPrune, RemoveChunks,
       SaveFails, RemoveFails, disk
<1> QED
  BY <1>1, Invariance, PTL DEF Spec, PruneKeepsRecent

-----------------------------------------------------------------------------
(* Restoring.                                                              *)

Reading == reader \in {"open", "items", "flush", "extensions"}
Holding == IF held = 0 THEN 0 ELSE 1

Shape ==
    /\ RestoreTypeOK
    /\ reader \in {"none", "open", "items", "flush", "extensions", "close", "done"}
    /\ done \in {"empty", "ok", "error"} /\ failed \in BOOLEAN
    /\ commitInfo \in BOOLEAN /\ extended \in BOOLEAN /\ metadata \in BOOLEAN

\* The two channels and the goroutine between them hold the numbers that follow
\* what was read, up to the one that CometBFT is at.
Numbered ==
    Reading =>
        /\ \A i \in 1 .. Len(chunks) : chunks[i] = read + i
        /\ held # 0 => held = read + Len(chunks) + 1
        /\ \A i \in 1 .. Len(ids) : ids[i] = read + Len(chunks) + Holding + i
        /\ done = "empty"
        /\ comet = "applying" => restoreChunkIndex = read + Len(chunks) + Holding + Len(ids)

\* Where RestoreChunk is, and what it has saved.
Called ==
    /\ comet = "offering" => Idle
    /\ call # "none" => comet = "applying"
    /\ comet = "applying" => \A i \in 1 .. restoreChunkIndex : i \in chunkFiles
    /\ comet = "applying" /\ call = "none" /\ done = "empty" => restoreChunkIndex < NChunks
    /\ call = "send" => restoreChunkIndex < NChunks /\ restoreChunkIndex + 1 \in chunkFiles
    /\ call = "metadata" => restoreChunkIndex = NChunks
    /\ call = "wait" => metadata
    /\ metadata => \A i \in 1 .. NChunks : i \in chunkFiles

\* How far doRestoreSnapshot is.
Restored ==
    /\ reader = "open" => read = 0
    /\ reader = "items" => read <= NStores /\ \A i \in Stores : i < read => i \in imported
    /\ reader = "flush" \/ commitInfo => \A i \in Stores : i \in imported
    /\ reader = "extensions" => commitInfo
    /\ reader = "close" /\ ~ failed => commitInfo /\ extended
    /\ done # "empty" => reader = "done"
    /\ done = "ok" => commitInfo /\ extended
    /\ comet = "synced" => commitInfo /\ extended /\ metadata

RestoreInv == Shape /\ Numbered /\ Called /\ Restored

\* What the operations of a channel do to the numbers in it.
LEMMA Sent ==
    ASSUME NEW S, NEW s \in Seq(S), NEW e \in S
    PROVE  /\ Len(Append(s, e)) = Len(s) + 1
           /\ \A i \in 1 .. Len(s) + 1 : Append(s, e)[i] = IF i = Len(s) + 1 THEN e ELSE s[i]
OBVIOUS

\* Numbers that count up from base still do when the next one is sent.
LEMMA SentNext ==
    ASSUME NEW S, NEW s \in Seq(S), NEW base \in Nat, base + Len(s) + 1 \in S,
           \A i \in 1 .. Len(s) : s[i] = base + i
    PROVE  \A i \in 1 .. Len(Append(s, base + Len(s) + 1)) :
               Append(s, base + Len(s) + 1)[i] = base + i
<1> DEFINE e == base + Len(s) + 1
           t == Append(s, e)
<1>1. Len(s) \in Nat
    OBVIOUS
<1>2. Len(t) = Len(s) + 1 /\ \A i \in 1 .. Len(s) + 1 : t[i] = IF i = Len(s) + 1 THEN e ELSE s[i]
    BY Sent, ZenonT(30)
<1> HIDE DEF t
<1> SUFFICES ASSUME NEW i \in 1 .. Len(s) + 1 PROVE t[i] = base + i
    BY <1>2, ZenonT(30) DEF t
<1>3. CASE i = Len(s) + 1
    BY <1>1, <1>2, <1>3
<1>4. CASE i # Len(s) + 1
    <2>1. i \in 1 .. Len(s)
        BY <1>1, <1>4
    <2> QED BY <1>2, <1>4, <2>1, ZenonT(30)
<1> QED BY <1>3, <1>4, ZenonT(30)

LEMMA Received ==
    ASSUME NEW S, NEW s \in Seq(S), s # <<>>
    PROVE  /\ Len(s) \in Nat \ {0} /\ Len(Tail(s)) = Len(s) - 1 /\ Head(s) = s[1]
           /\ \A i \in 1 .. Len(s) - 1 : Tail(s)[i] = s[i + 1]
OBVIOUS

LEMMA Joined ==
    ASSUME NEW s \in Seq(Int), NEW t \in Seq(Int)
    PROVE  /\ s \o t \in Seq(Int) /\ Len(s \o t) = Len(s) + Len(t)
           /\ DOMAIN (s \o t) = 1 .. Len(s) + Len(t)
           /\ \A i \in 1 .. Len(s) + Len(t) :
                 (s \o t)[i] = IF i <= Len(s) THEN s[i] ELSE t[i - Len(s)]
OBVIOUS

LEMMA InitIInv == RestoreInit => RestoreInv
<1> SUFFICES ASSUME RestoreInit PROVE RestoreInv
    OBVIOUS
<1>1. Shape
    <2>1. RestoreTypeOK
        BY RestoreAssumption DEF RestoreInit, Idle, RestoreTypeOK
    <2> QED BY <2>1, ZenonT(30) DEF RestoreInit, Idle, Shape
<1>2. Numbered /\ Restored
    BY ZenonT(30) DEF RestoreInit, Idle, Numbered, Reading, Restored
<1>3. Called
    BY ZenonT(30) DEF RestoreInit, Idle, Called
<1> QED BY <1>1, <1>2, <1>3 DEF RestoreInv

-----------------------------------------------------------------------------
(* The calls of the manager.                                               *)

LEMMA RestoreBegins == RestoreInv /\ Restore => RestoreInv'
<1> SUFFICES ASSUME RestoreInv, Restore PROVE RestoreInv'
    OBVIOUS
<1>1. Shape'
    BY ZenonT(30) DEF RestoreInv, Shape, RestoreTypeOK, Restore, channels, persisted, state
<1>2. Numbered'
    BY DEF RestoreInv, Numbered, Reading, Holding, Called, Idle, Restore, channels
<1>3. Called'
    BY RestoreAssumption DEF RestoreInv, Called, Idle, Restore, channels, persisted
<1>4. Restored'
    BY ZenonT(30) DEF RestoreInv, Restored, Called, Idle, Restore, channels, persisted, state
<1> QED BY <1>1, <1>2, <1>3, <1>4 DEF RestoreInv

LEMMA RestoreFailsIInv == RestoreInv /\ RestoreFails => RestoreInv'
<1> SUFFICES ASSUME RestoreInv, RestoreFails PROVE RestoreInv'
    OBVIOUS
<1>1. Shape'
    BY DEF RestoreInv, Shape, RestoreTypeOK, RestoreFails, channels, goroutines, persisted, state
<1>2. Numbered'
    BY ZenonT(30) DEF RestoreInv, Numbered, Reading, Holding, RestoreFails, channels, goroutines
<1>3. Called'
    BY ZenonT(30) DEF RestoreInv, Called, RestoreFails, channels, goroutines, persisted
<1>4. Restored'
    BY ZenonT(30) DEF RestoreInv, Restored, RestoreFails, channels, goroutines, persisted, state
<1> QED BY <1>1, <1>2, <1>3, <1>4 DEF RestoreInv

LEMMA ChunkTooLateIInv == RestoreInv /\ ChunkTooLate => RestoreInv'
<1> SUFFICES ASSUME RestoreInv, ChunkTooLate PROVE RestoreInv'
    OBVIOUS
<1>1. Shape'
    BY RestoreAssumption DEF RestoreInv, Shape, RestoreTypeOK, ChunkTooLate, Applying, endLocked,
        goroutines, persisted, state
<1>2. Numbered'
    BY ZenonT(30) DEF RestoreInv, Numbered, Reading, Holding, ChunkTooLate, Applying,
       endLocked, goroutines
<1>3. Called'
    BY ZenonT(30) DEF RestoreInv, Called, ChunkTooLate, Applying, endLocked, goroutines, persisted
<1>4. Restored'
    BY ZenonT(30) DEF RestoreInv, Restored, ChunkTooLate, Applying, endLocked, goroutines,
       persisted, state
<1> QED BY <1>1, <1>2, <1>3, <1>4 DEF RestoreInv

LEMMA ChunkDamagedIInv == RestoreInv /\ ChunkDamaged => RestoreInv'
<1> SUFFICES ASSUME RestoreInv, ChunkDamaged PROVE RestoreInv'
    OBVIOUS
<1>1. Shape'
    BY DEF RestoreInv, Shape, RestoreTypeOK, ChunkDamaged, manager, channels, goroutines,
       persisted, state
<1>2. Numbered'
    BY ZenonT(30) DEF RestoreInv, Numbered, Reading, Holding, ChunkDamaged, manager, channels,
       goroutines
<1>3. Called'
    BY ZenonT(30) DEF RestoreInv, Called, Idle, channels, ChunkDamaged, manager, goroutines,
       persisted
<1>4. Restored'
    BY ZenonT(30) DEF RestoreInv, Restored, ChunkDamaged, channels, goroutines, persisted, state
<1> QED BY <1>1, <1>2, <1>3, <1>4 DEF RestoreInv

LEMMA SaveChunkContentIInv == RestoreInv /\ SaveChunkContent => RestoreInv'
<1> SUFFICES ASSUME RestoreInv, SaveChunkContent PROVE RestoreInv'
    OBVIOUS
<1>1. Shape'
    BY RestoreAssumption DEF RestoreInv, Shape, RestoreTypeOK, Called, SaveChunkContent,
       Applying, channels,
        goroutines, state
<1>2. Numbered'
    BY ZenonT(30) DEF RestoreInv, Numbered, Reading, Holding, SaveChunkContent, Applying, channels,
       goroutines
<1>3. Called'
    BY ZenonT(30) DEF RestoreInv, Called, SaveChunkContent, Applying, channels, goroutines
<1>4. Restored'
    BY ZenonT(30) DEF RestoreInv, Restored, SaveChunkContent, Applying, channels, goroutines, state
<1> QED BY <1>1, <1>2, <1>3, <1>4 DEF RestoreInv

LEMMA SendChunkIDIInv == RestoreInv /\ SendChunkID => RestoreInv'
<1> SUFFICES ASSUME RestoreInv, SendChunkID PROVE RestoreInv'
    OBVIOUS
<1>1. Shape'
    BY RestoreAssumption DEF RestoreInv, Shape, RestoreTypeOK, Called, SendChunkID, LastChunk,
       goroutines,
        persisted, state
<1>2. Numbered'
    <2> SUFFICES ASSUME Reading PROVE Numbered'
        BY ZenonT(30) DEF Numbered, Reading, SendChunkID, goroutines
    <2>1. /\ ids' = Append(ids, restoreChunkIndex + 1) /\ restoreChunkIndex' = restoreChunkIndex + 1
          /\ UNCHANGED <<comet, chunks, held, read, done>>
        BY ZenonT(30) DEF SendChunkID, goroutines
    <2>2. ids \in Seq(1 .. NChunks) /\ restoreChunkIndex + 1 \in 1 .. NChunks /\ comet = "applying"
        BY RestoreAssumption, ZenonT(30) DEF RestoreInv, Shape, RestoreTypeOK, Called, SendChunkID
    <2>3. restoreChunkIndex = read + Len(chunks) + Holding + Len(ids)
        BY <2>2, ZenonT(30) DEF RestoreInv, Numbered
    <2>4. Holding \in 0 .. 1 /\ Holding' = Holding /\ read \in Nat /\ Len(chunks) \in Nat
        BY <2>1, RestoreAssumption DEF Holding, RestoreInv, Shape, RestoreTypeOK
    <2>5. \A i \in 1 .. Len(ids') : ids'[i] = read + Len(chunks) + Holding + i
        <3> DEFINE base == read + Len(chunks) + Holding
        <3> HIDE DEF base
        <3>1. base \in Nat /\ restoreChunkIndex = base + Len(ids)
            BY <2>3, <2>4 DEF base
        <3>2. \A i \in 1 .. Len(ids) : ids[i] = base + i
            BY ZenonT(30) DEF RestoreInv, Numbered, base
        <3>3. restoreChunkIndex + 1 = base + Len(ids) + 1
            BY <3>1, ZenonT(30)
        <3>4. \A i \in 1 .. Len(ids') : ids'[i] = base + i
            BY <2>1, <2>2, <3>1, <3>2, <3>3, SentNext, ZenonT(30)
        <3> QED BY <3>4, ZenonT(30) DEF base
    <2>6. restoreChunkIndex' = read + Len(chunks) + Holding + Len(ids')
        BY <2>1, <2>2, <2>3, <2>4, Sent, SMTT(30)
    <2> QED BY <2>1, <2>4, <2>5, <2>6, ZenonT(30) DEF Numbered, RestoreInv, Reading
<1>3. Called'
    BY RestoreAssumption, SMTT(30) DEF RestoreInv, Called, Shape, RestoreTypeOK, SendChunkID,
       LastChunk,
       goroutines, persisted
<1>4. Restored'
    BY ZenonT(30) DEF RestoreInv, Restored, SendChunkID, LastChunk, goroutines, persisted, state
<1> QED BY <1>1, <1>2, <1>3, <1>4 DEF RestoreInv

LEMMA SaveSnapshotIInv == RestoreInv /\ SaveRestored => RestoreInv'
<1> SUFFICES ASSUME RestoreInv, SaveRestored PROVE RestoreInv'
    OBVIOUS
<1>1. Shape'
    BY SMTT(30) DEF RestoreInv, Shape, RestoreTypeOK, SaveRestored, channels, goroutines, state
<1>2. Numbered'
    BY ZenonT(30) DEF RestoreInv, Numbered, Reading, Holding, SaveRestored, channels, goroutines
<1>3. Called'
    BY ZenonT(30) DEF RestoreInv, Called, SaveRestored, channels, goroutines
<1>4. Restored'
    BY ZenonT(30) DEF RestoreInv, Restored, SaveRestored, channels, goroutines, state
<1> QED BY <1>1, <1>2, <1>3, <1>4 DEF RestoreInv

LEMMA AwaitDoneIInv == RestoreInv /\ AwaitDone => RestoreInv'
<1> SUFFICES ASSUME RestoreInv, AwaitDone PROVE RestoreInv'
    OBVIOUS
<1>1. Shape'
    BY RestoreAssumption DEF RestoreInv, Shape, RestoreTypeOK, AwaitDone, endLocked,
       goroutines, persisted, state
<1>2. Numbered'
    BY ZenonT(30) DEF RestoreInv, Numbered, Reading, Holding, AwaitDone, endLocked, goroutines
<1>3. Called'
    BY ZenonT(30) DEF RestoreInv, Called, AwaitDone, endLocked, goroutines, persisted
<1>4. Restored'
    BY ZenonT(30) DEF RestoreInv, Restored, Called, Shape, AwaitDone, endLocked, goroutines,
       persisted, state
<1> QED BY <1>1, <1>2, <1>3, <1>4 DEF RestoreInv

LEMMA SaveFailsIInv == RestoreInv /\ RestoreSaveFails => RestoreInv'
<1> SUFFICES ASSUME RestoreInv, RestoreSaveFails PROVE RestoreInv'
    OBVIOUS
<1>1. Shape'
    BY SMTT(30) DEF RestoreInv, Shape, RestoreTypeOK, RestoreSaveFails, Applying, channels,
       goroutines,
       persisted, state
<1>2. Numbered'
    BY ZenonT(30) DEF RestoreInv, Numbered, Reading, Holding, RestoreSaveFails, Applying, channels,
       goroutines
<1>3. Called'
    BY ZenonT(30) DEF RestoreInv, Called, RestoreSaveFails, Applying, channels, goroutines,
       persisted
<1>4. Restored'
    BY ZenonT(30) DEF RestoreInv, Restored, RestoreSaveFails, Applying, channels, goroutines,
       persisted,
       state
<1> QED BY <1>1, <1>2, <1>3, <1>4 DEF RestoreInv

-----------------------------------------------------------------------------
(* loadChunkStream.                                                        *)

LEMMA LoadChunkFileIInv == RestoreInv /\ LoadChunkFile => RestoreInv'
<1> SUFFICES ASSUME RestoreInv, LoadChunkFile PROVE RestoreInv'
    OBVIOUS
<1>1. Shape'
    BY RestoreAssumption DEF RestoreInv, Shape, RestoreTypeOK, LoadChunkFile, manager,
       persisted, state
<1>2. Numbered'
    <2> SUFFICES ASSUME Reading PROVE Numbered'
        BY ZenonT(30) DEF Numbered, Reading, LoadChunkFile
    <2>1. /\ ids # <<>> /\ held = 0 /\ held' = Head(ids) /\ ids' = Tail(ids)
          /\ UNCHANGED <<comet, restoreChunkIndex, chunks, read, done>>
        BY ZenonT(30) DEF LoadChunkFile, manager
    <2>2. ids \in Seq(1 .. NChunks) /\ read \in Nat /\ Len(chunks) \in Nat
        BY RestoreAssumption DEF RestoreInv, Shape, RestoreTypeOK
    <2>3. /\ Len(ids) \in Nat \ {0} /\ Len(ids') = Len(ids) - 1 /\ held' = ids[1]
          /\ \A i \in 1 .. Len(ids) - 1 : ids'[i] = ids[i + 1]
        BY <2>1, <2>2, Received, ZenonT(30)
    <2>4. \A i \in 1 .. Len(ids) : ids[i] = read + Len(chunks) + i
        <3>1. /\ Holding = 0
              /\ \A i \in 1 .. Len(ids) : ids[i] = read + Len(chunks) + Holding + i
            BY <2>1, ZenonT(30) DEF RestoreInv, Numbered, Holding
        <3> QED BY <2>2, <3>1
    <2>5. held' = read + Len(chunks) + 1 /\ Holding' = 1 /\ Holding = 0
        BY <2>1, <2>2, <2>3, <2>4 DEF Holding
    <2>6. \A i \in 1 .. Len(ids') : ids'[i] = read + Len(chunks) + 1 + i
        BY <2>2, <2>3, <2>4, SMTT(30)
    <2> QED BY <2>1, <2>2, <2>3, <2>5, <2>6 DEF Numbered, RestoreInv, Reading
<1>3. Called'
    BY ZenonT(30) DEF RestoreInv, Called, Idle, LoadChunkFile, manager, persisted
<1>4. Restored'
    BY ZenonT(30) DEF RestoreInv, Restored, LoadChunkFile, persisted, state
<1> QED BY <1>1, <1>2, <1>3, <1>4 DEF RestoreInv

LEMMA PassChunkIInv == RestoreInv /\ PassChunk => RestoreInv'
<1> SUFFICES ASSUME RestoreInv, PassChunk PROVE RestoreInv'
    OBVIOUS
<1>1. Shape'
    BY RestoreAssumption, SMTT(30) DEF RestoreInv, Shape, RestoreTypeOK, PassChunk, manager,
       persisted,
       state
<1>2. Numbered'
    <2> SUFFICES ASSUME Reading PROVE Numbered'
        BY ZenonT(30) DEF Numbered, Reading, PassChunk
    <2>1. /\ held # 0 /\ held' = 0 /\ chunks' = Append(chunks, held)
          /\ UNCHANGED <<comet, restoreChunkIndex, ids, read, done>>
        BY ZenonT(30) DEF PassChunk, manager
    <2>2. /\ chunks \in Seq(1 .. NChunks) /\ held \in 1 .. NChunks
          /\ read \in Nat /\ Len(ids) \in Nat /\ Len(chunks) \in Nat
        BY <2>1, RestoreAssumption DEF RestoreInv, Shape, RestoreTypeOK
    <2>3. /\ Len(chunks') = Len(chunks) + 1
          /\ \A i \in 1 .. Len(chunks) + 1 :
                chunks'[i] = IF i = Len(chunks) + 1 THEN held ELSE chunks[i]
        BY <2>1, <2>2, Sent
    <2>4. /\ held = read + Len(chunks) + 1 /\ Holding = 1 /\ Holding' = 0
          /\ \A i \in 1 .. Len(chunks) : chunks[i] = read + i
        BY <2>1, ZenonT(30) DEF RestoreInv, Numbered, Holding
    <2>5. \A i \in 1 .. Len(chunks') : chunks'[i] = read + i
        BY <2>2, <2>3, <2>4, SMTT(30)
    <2> QED BY <2>1, <2>2, <2>3, <2>4, <2>5, SMTT(30) DEF Numbered, RestoreInv, Reading
<1>3. Called'
    BY ZenonT(30) DEF RestoreInv, Called, Idle, PassChunk, manager, persisted
<1>4. Restored'
    BY ZenonT(30) DEF RestoreInv, Restored, PassChunk, persisted, state
<1> QED BY <1>1, <1>2, <1>3, <1>4 DEF RestoreInv

LEMMA LoadEndsIInv == RestoreInv /\ LoadEnds => RestoreInv'
<1> SUFFICES ASSUME RestoreInv, LoadEnds PROVE RestoreInv'
    OBVIOUS
<1>1. Shape'
    BY DEF RestoreInv, Shape, RestoreTypeOK, LoadEnds, LoaderEnds, manager, persisted, state
<1>2. Numbered'
    BY ZenonT(30) DEF RestoreInv, Numbered, Reading, Holding, LoadEnds, LoaderEnds, manager
<1>3. Called'
    BY ZenonT(30) DEF RestoreInv, Called, Idle, LoadEnds, LoaderEnds, manager, persisted
<1>4. Restored'
    BY ZenonT(30) DEF RestoreInv, Restored, LoadEnds, LoaderEnds, persisted, state
<1> QED BY <1>1, <1>2, <1>3, <1>4 DEF RestoreInv

LEMMA LoadFailsIInv == RestoreInv /\ LoadFails => RestoreInv'
<1> SUFFICES ASSUME RestoreInv, LoadFails PROVE RestoreInv'
    OBVIOUS
<1>1. Shape'
    BY DEF RestoreInv, Shape, RestoreTypeOK, LoadFails, LoaderEnds, manager, persisted, state
<1>2. Numbered'
    BY ZenonT(30) DEF RestoreInv, Numbered, Reading, Holding, LoadFails, LoaderEnds, manager
<1>3. Called'
    BY ZenonT(30) DEF RestoreInv, Called, Idle, LoadFails, LoaderEnds, manager, persisted
<1>4. Restored'
    BY ZenonT(30) DEF RestoreInv, Restored, LoadFails, LoaderEnds, persisted, state
<1> QED BY <1>1, <1>2, <1>3, <1>4 DEF RestoreInv

-----------------------------------------------------------------------------
(* doRestoreSnapshot, and a crash.                                         *)

LEMMA NewStreamReaderIInv == RestoreInv /\ NewStreamReader => RestoreInv'
<1> SUFFICES ASSUME RestoreInv, NewStreamReader PROVE RestoreInv'
    OBVIOUS
<1>1. Shape'
    BY ZenonT(30) DEF RestoreInv, Shape, RestoreTypeOK, NewStreamReader, ReaderGoes, manager, state
<1>2. Numbered'
    BY ZenonT(30) DEF RestoreInv, Numbered, Reading, Holding, NewStreamReader, ReaderGoes, manager
<1>3. Called'
    BY ZenonT(30) DEF RestoreInv, Called, Idle, NewStreamReader, ReaderGoes, manager
<1>4. Restored'
    BY RestoreAssumption, SMTT(30) DEF RestoreInv, Restored, Stores, NewStreamReader,
       ReaderGoes, state
<1> QED BY <1>1, <1>2, <1>3, <1>4 DEF RestoreInv

LEMMA ItemFailsIInv == RestoreInv /\ ItemFails => RestoreInv'
<1> SUFFICES ASSUME RestoreInv, ItemFails PROVE RestoreInv'
    OBVIOUS
<1>1. Shape'
    BY SMTT(30) DEF RestoreInv, Shape, RestoreTypeOK, ItemFails, Fail, ReaderGoes, manager, state
<1>2. Numbered'
    BY ZenonT(30) DEF RestoreInv, Numbered, Reading, Holding, ItemFails, Fail, ReaderGoes, manager
<1>3. Called'
    BY ZenonT(30) DEF RestoreInv, Called, Idle, ItemFails, Fail, ReaderGoes, manager
<1>4. Restored'
    BY ZenonT(30) DEF RestoreInv, Restored, ItemFails, Fail, ReaderGoes, state
<1> QED BY <1>1, <1>2, <1>3, <1>4 DEF RestoreInv

LEMMA ReadNumbered ==
    ASSUME RestoreInv, Reading, chunks # <<>>, chunks' = Tail(chunks), read' = read + 1,
           UNCHANGED <<comet, restoreChunkIndex, ids, held, done>>
    PROVE  Numbered'
<1>1. /\ chunks \in Seq(1 .. NChunks) /\ read \in Nat /\ Len(ids) \in Nat
      /\ Holding \in Nat /\ Holding' = Holding
    BY RestoreAssumption DEF RestoreInv, Shape, RestoreTypeOK, Holding
<1>2. /\ Len(chunks) \in Nat \ {0} /\ Len(chunks') = Len(chunks) - 1
      /\ \A i \in 1 .. Len(chunks) - 1 : chunks'[i] = chunks[i + 1]
    BY <1>1, Received, ZenonT(30)
<1>3. read' + Len(chunks') = read + Len(chunks)
    BY <1>1, <1>2, SMTT(30)
<1>4. \A i \in 1 .. Len(chunks') : chunks'[i] = read' + i
    BY <1>1, <1>2, SMTT(30) DEF RestoreInv, Numbered
<1> QED BY <1>1, <1>3, <1>4, ZenonT(30) DEF Numbered, RestoreInv

LEMMA ImportStoreIInv == RestoreInv /\ ImportStore => RestoreInv'
<1> SUFFICES ASSUME RestoreInv, ImportStore PROVE RestoreInv'
    OBVIOUS
<1>1. Shape'
    BY RestoreAssumption DEF RestoreInv, Shape, RestoreTypeOK, Stores, Available, Broken,
       ImportStore,
        ReaderGoes, NextItem, manager
<1>2. Numbered'
    <2>1. /\ chunks # <<>> /\ chunks' = Tail(chunks) /\ read' = read + 1 /\ Reading
          /\ UNCHANGED <<comet, restoreChunkIndex, ids, held, done>>
        BY RestoreAssumption, SMTT(30) DEF ImportStore, RestoreInv, Shape, RestoreTypeOK,
           Stores, NextItem,
            Available, Broken, ReaderGoes, manager, Reading
    <2> QED BY <2>1, ReadNumbered, ZenonT(30)
<1>3. Called'
    BY ZenonT(30) DEF RestoreInv, Called, Idle, ImportStore, ReaderGoes, NextItem, manager
<1>4. Restored'
    BY RestoreAssumption, SMTT(30) DEF RestoreInv, Restored, Shape, RestoreTypeOK, Stores,
       ImportStore,
       ReaderGoes,
        NextItem
<1> QED BY <1>1, <1>2, <1>3, <1>4 DEF RestoreInv

LEMMA ImportEndsIInv == RestoreInv /\ ImportEnds => RestoreInv'
<1> SUFFICES ASSUME RestoreInv, ImportEnds PROVE RestoreInv'
    OBVIOUS
<1>1. Shape'
    BY RestoreAssumption, SMTT(30) DEF RestoreInv, Shape, RestoreTypeOK, Stores, Restored,
       ImportEnds,
       ReaderGoes,
        NextItem, manager
<1>2. Numbered'
    BY ZenonT(30) DEF RestoreInv, Numbered, Reading, Holding, ImportEnds, ReaderGoes, NextItem,
       manager
<1>3. Called'
    BY ZenonT(30) DEF RestoreInv, Called, Idle, ImportEnds, ReaderGoes, NextItem, manager
<1>4. Restored'
    BY RestoreAssumption, SMTT(30) DEF RestoreInv, Restored, Shape, RestoreTypeOK, Stores,
       ImportEnds,
       ReaderGoes, NextItem
<1> QED BY <1>1, <1>2, <1>3, <1>4 DEF RestoreInv

LEMMA FlushMetadataIInv == RestoreInv /\ FlushMetadata => RestoreInv'
<1> SUFFICES ASSUME RestoreInv, FlushMetadata PROVE RestoreInv'
    OBVIOUS
<1>1. Shape'
    BY SMTT(30) DEF RestoreInv, Shape, RestoreTypeOK, FlushMetadata, ReaderGoes, manager
<1>2. Numbered'
    BY ZenonT(30) DEF RestoreInv, Numbered, Reading, Holding, FlushMetadata, ReaderGoes, manager
<1>3. Called'
    BY ZenonT(30) DEF RestoreInv, Called, Idle, FlushMetadata, ReaderGoes, manager
<1>4. Restored'
    BY ZenonT(30) DEF RestoreInv, Restored, FlushMetadata, ReaderGoes
<1> QED BY <1>1, <1>2, <1>3, <1>4 DEF RestoreInv

LEMMA RestoreExtensionIInv == RestoreInv /\ RestoreExtension => RestoreInv'
<1> SUFFICES ASSUME RestoreInv, RestoreExtension PROVE RestoreInv'
    OBVIOUS
<1>1. Shape'
    BY RestoreAssumption, SMTT(30) DEF RestoreInv, Shape, RestoreTypeOK, Available, Broken,
       RestoreExtension,
        ReaderGoes, NextItem, manager, state
<1>2. Numbered'
    <2>1. /\ chunks # <<>> /\ chunks' = Tail(chunks) /\ read' = read + 1 /\ Reading
          /\ UNCHANGED <<comet, restoreChunkIndex, ids, held, done>>
        BY RestoreAssumption, ZenonT(30) DEF RestoreExtension, RestoreInv, Shape,
           RestoreTypeOK, Stores,
           NextItem,
            Available, Broken, ReaderGoes, manager, Reading
    <2> QED BY <2>1, ReadNumbered
<1>3. Called'
    BY ZenonT(30) DEF RestoreInv, Called, Idle, RestoreExtension, ReaderGoes, NextItem, manager
<1>4. Restored'
    BY ZenonT(30) DEF RestoreInv, Restored, RestoreExtension, ReaderGoes, NextItem, state
<1> QED BY <1>1, <1>2, <1>3, <1>4 DEF RestoreInv

LEMMA StreamEndsIInv == RestoreInv /\ ExtensionsEnd => RestoreInv'
<1> SUFFICES ASSUME RestoreInv, ExtensionsEnd PROVE RestoreInv'
    OBVIOUS
<1>1. Shape'
    BY DEF RestoreInv, Shape, RestoreTypeOK, ExtensionsEnd, ReaderGoes, manager
<1>2. Numbered'
    BY ZenonT(30) DEF RestoreInv, Numbered, Reading, Holding, ExtensionsEnd, ReaderGoes, manager
<1>3. Called'
    BY ZenonT(30) DEF RestoreInv, Called, Idle, ExtensionsEnd, ReaderGoes, manager
<1>4. Restored'
    BY ZenonT(30) DEF RestoreInv, Restored, ExtensionsEnd, ReaderGoes
<1> QED BY <1>1, <1>2, <1>3, <1>4 DEF RestoreInv

LEMMA DrainIInv == RestoreInv /\ Drain => RestoreInv'
<1> SUFFICES ASSUME RestoreInv, Drain PROVE RestoreInv'
    OBVIOUS
<1>1. Shape'
    BY RestoreAssumption, SMTT(30) DEF RestoreInv, Shape, RestoreTypeOK, Drain, ReaderGoes,
       manager, state
<1>2. Numbered'
    BY ZenonT(30) DEF RestoreInv, Numbered, Reading, Holding, Drain, ReaderGoes, manager
<1>3. Called'
    BY ZenonT(30) DEF RestoreInv, Called, Idle, Drain, ReaderGoes, manager
<1>4. Restored'
    BY ZenonT(30) DEF RestoreInv, Restored, Drain, ReaderGoes, state
<1> QED BY <1>1, <1>2, <1>3, <1>4 DEF RestoreInv

LEMMA ClosedIInv == RestoreInv /\ Closed => RestoreInv'
<1> SUFFICES ASSUME RestoreInv, Closed PROVE RestoreInv'
    OBVIOUS
<1>1. Shape'
    BY ZenonT(30) DEF RestoreInv, Shape, RestoreTypeOK, Closed, ReaderGoes, manager, state
<1>2. Numbered'
    BY ZenonT(30) DEF RestoreInv, Numbered, Reading, Holding, Closed, ReaderGoes, manager
<1>3. Called'
    BY ZenonT(30) DEF RestoreInv, Called, Idle, Closed, ReaderGoes, manager
<1>4. Restored'
    BY ZenonT(30) DEF RestoreInv, Restored, Closed, ReaderGoes, state
<1> QED BY <1>1, <1>2, <1>3, <1>4 DEF RestoreInv

LEMMA CrashIInv == RestoreInv /\ RestoreCrash => RestoreInv'
<1> SUFFICES ASSUME RestoreInv, RestoreCrash PROVE RestoreInv'
    OBVIOUS
<1>1. Shape'
    <2>1. RestoreTypeOK'
        BY RestoreAssumption DEF RestoreInv, Shape, RestoreTypeOK, RestoreCrash, persisted, state
    <2> QED BY <2>1, ZenonT(30) DEF RestoreInv, Shape, RestoreCrash, persisted, state
<1>2. Numbered'
    BY ZenonT(30) DEF RestoreInv, Numbered, Reading, Holding, RestoreCrash
<1>3. Called'
    BY ZenonT(30) DEF RestoreInv, Called, Idle, RestoreCrash, persisted
<1>4. Restored'
    BY ZenonT(30) DEF RestoreInv, Restored, RestoreCrash, persisted, state
<1> QED BY <1>1, <1>2, <1>3, <1>4 DEF RestoreInv

-----------------------------------------------------------------------------
LEMMA NextIInv == RestoreInv /\ [RestoreNext]_restoreVars => RestoreInv'
<1> SUFFICES ASSUME RestoreInv, [RestoreNext]_restoreVars PROVE RestoreInv'
    OBVIOUS
<1>1. CASE Restore \/ RestoreFails \/ Chunk \/ ChunkDamaged \/ RestoreChunk \/ RestoreSaveFails
    BY <1>1, RestoreBegins, RestoreFailsIInv, ChunkTooLateIInv, SaveChunkContentIInv,
        ChunkDamagedIInv, SendChunkIDIInv, SaveSnapshotIInv, AwaitDoneIInv, SaveFailsIInv, ZenonT(30) DEF Chunk, RestoreChunk
<1>2. CASE Load \/ LoadFails
    BY <1>2, LoadChunkFileIInv, PassChunkIInv, LoadEndsIInv, LoadFailsIInv, ZenonT(30) DEF Load
<1>3. CASE doRestoreSnapshot
    BY <1>3, NewStreamReaderIInv, ItemFailsIInv, ImportStoreIInv, ImportEndsIInv,
        FlushMetadataIInv, RestoreExtensionIInv, StreamEndsIInv, DrainIInv, ClosedIInv, ZenonT(30) DEF doRestoreSnapshot
<1>4. CASE RestoreCrash
    BY <1>4, CrashIInv, ZenonT(30)
<1>5. CASE UNCHANGED restoreVars
    <2>1. Shape'
        BY <1>5, SMTT(30) DEF RestoreInv, Shape, RestoreTypeOK, restoreVars, manager, channels,
           goroutines, persisted, state
    <2>2. Numbered'
        BY <1>5, ZenonT(30) DEF RestoreInv, Numbered, Reading, Holding, restoreVars, manager,
           channels,
           goroutines
    <2>3. Called'
        BY <1>5, ZenonT(30) DEF RestoreInv, Called, Idle, restoreVars, manager, channels,
           goroutines,
           persisted
    <2>4. Restored'
        BY <1>5, ZenonT(30) DEF RestoreInv, Restored, restoreVars, channels, goroutines,
           persisted, state
    <2> QED BY <2>1, <2>2, <2>3, <2>4, ZenonT(30) DEF RestoreInv
<1> QED BY <1>1, <1>2, <1>3, <1>4, <1>5, ZenonT(30) DEF RestoreNext

LEMMA RestoreInvariance == RestoreSpec => []RestoreInv
BY InitIInv, NextIInv, PTL DEF RestoreSpec

(***************************************************************************)
(* Whatever is damaged, fails or crashes, a restore that CometBFT is told  *)
(* is complete has every store, the metadata, the extensions and the       *)
(* chunks; a version that a restart loads has every store; and a listed    *)
(* snapshot has every chunk (RestoreChunk, doRestoreSnapshot).             *)
(***************************************************************************)
THEOREM AlwaysWhole == RestoreSpec => []RestoredIsWhole
<1>1. RestoreInv => RestoredIsWhole
    <2> SUFFICES ASSUME RestoreInv PROVE RestoredIsWhole
        OBVIOUS
    <2>1. metadata => chunkFiles = 1 .. NChunks
        BY ZenonT(30) DEF RestoreInv, Shape, RestoreTypeOK, Called
    <2>2. commitInfo => imported = Stores
        BY ZenonT(30) DEF RestoreInv, Shape, RestoreTypeOK, Restored
    <2> QED BY <2>1, <2>2, ZenonT(30) DEF RestoreInv, Restored, RestoredIsWhole
<1> QED BY <1>1, RestoreInvariance, PTL

(***************************************************************************)
(* The two channels and the goroutine of loadChunkStream between them lose *)
(* no chunk, double none and change no order, for any sizes of the         *)
(* channels, as long as the restoring goroutine reads.                     *)
(***************************************************************************)
THEOREM AlwaysInOrder == RestoreSpec => []ChunksInOrder
<1>1. RestoreInv => ChunksInOrder
    <2> SUFFICES ASSUME RestoreInv, Reading PROVE ChunksInOrder
        BY ZenonT(30) DEF ChunksInOrder, Reading
    <2> DEFINE middle == IF held = 0 THEN <<>> ELSE <<held>>
               ahead == chunks \o middle \o ids
    <2>1. /\ chunks \in Seq(Int) /\ ids \in Seq(Int) /\ middle \in Seq(Int)
          /\ Len(middle) = Holding /\ read \in Nat /\ Holding \in 0 .. 1
        BY RestoreAssumption DEF RestoreInv, Shape, RestoreTypeOK, Holding
    <2>2. /\ \A i \in 1 .. Len(chunks) : chunks[i] = read + i
          /\ \A i \in 1 .. Len(ids) : ids[i] = read + Len(chunks) + Len(middle) + i
        BY <2>1, ZenonT(30) DEF RestoreInv, Numbered
    <2>3. \A i \in 1 .. Len(middle) : middle[i] = read + Len(chunks) + i
        <3>1. CASE held = 0
            BY <3>1
        <3>2. CASE held # 0
            <4>1. held = read + Len(chunks) + 1 /\ middle = <<held>>
                BY <3>2, ZenonT(30) DEF RestoreInv, Numbered
            <4> QED BY <4>1
        <3> QED BY <3>1, <3>2, ZenonT(30)
    <2> HIDE DEF middle
    <2>4. ASSUME NEW i \in DOMAIN ahead PROVE ahead[i] = read + i
        <3> DEFINE first == chunks \o middle
        <3>1. /\ first \in Seq(Int) /\ Len(first) = Len(chunks) + Len(middle)
              /\ \A j \in 1 .. Len(first) :
                    first[j] = IF j <= Len(chunks) THEN chunks[j] ELSE middle[j - Len(chunks)]
            <4>1. /\ first \in Seq(Int) /\ Len(first) = Len(chunks) + Len(middle)
                  /\ \A j \in 1 .. Len(chunks) + Len(middle) :
                        first[j] = IF j <= Len(chunks) THEN chunks[j] ELSE middle[j - Len(chunks)]
                BY <2>1, Joined, ZenonT(30)
            <4> HIDE DEF first
            <4> QED BY <4>1, ZenonT(30)
        <3>2. /\ i \in 1 .. Len(first) + Len(ids)
              /\ ahead[i] = IF i <= Len(first) THEN first[i] ELSE ids[i - Len(first)]
            BY <2>1, <2>4, <3>1, Joined
        <3> HIDE DEF first, ahead
        <3>3. Len(chunks) \in Nat /\ Len(middle) \in Nat /\ Len(ids) \in Nat
            BY <2>1
        <3>4. ASSUME NEW j \in 1 .. Len(first) PROVE first[j] = read + j
            <4>1. CASE j <= Len(chunks)
                BY <2>2, <3>1, <3>3, <4>1, SMTT(30)
            <4>2. CASE ~ (j <= Len(chunks))
                <5>1. j - Len(chunks) \in 1 .. Len(middle)
                    BY <3>1, <3>3, <4>2
                <5> QED BY <2>1, <2>3, <3>1, <3>3, <4>2, <5>1
            <4> QED BY <4>1, <4>2, ZenonT(30)
        <3>5. CASE i <= Len(first)
            BY <3>1, <3>2, <3>3, <3>4, <3>5, SMTT(30)
        <3>6. CASE ~ (i <= Len(first))
            <4>1. i - Len(first) \in 1 .. Len(ids)
                BY <3>1, <3>2, <3>3, <3>6
            <4> QED BY <2>1, <2>2, <3>1, <3>2, <3>3, <3>6, <4>1, SMTT(30)
        <3> QED BY <3>5, <3>6, ZenonT(30)
    <2> QED BY <2>4, ZenonT(30) DEF ChunksInOrder, middle
<1> QED BY <1>1, RestoreInvariance, PTL
=============================================================================
