------------------------------ MODULE Rollback ------------------------------
(***************************************************************************)
(* The rollback command next to the commit path of RootMulti.  The command *)
(* is a process of its own, run while the node is down: it loads the       *)
(* latest version, has CometBFT (external) roll its state back, and has    *)
(* RollbackToVersion take every IAVL store and then the metadata to the    *)
(* height CometBFT names.  The pruning manager's heights on disk are not   *)
(* touched.                                                                *)
(***************************************************************************)
EXTENDS RootMulti

CONSTANTS
    Hard,               \* whether the command is given --hard
    MaxRollbacks        \* bound: how often the command is run

ASSUME RollbackAssumption ==
    /\ Hard \in BOOLEAN /\ MaxRollbacks \in Nat

VARIABLES
    block,        \* CometBFT: the height of its block store
    state,        \* CometBFT: the height of its state store
    target,       \* the version being rolled back to, 0 when no command runs
    behind,       \* the stores that are still to be taken there
    rollbacks,    \* how often the command was run
    killed        \* a command has been killed

rollbackVars == <<block, state, target, behind, rollbacks, killed>>
allVars == <<vars, rollbackVars>>

RollbackInit ==
    /\ Init
    /\ block = 0 /\ state = 0 /\ target = 0 /\ behind = {} /\ rollbacks = 0
    /\ killed = FALSE

\* A step of the node.  CometBFT stores a block before the application commits
\* it, and goes on to the next one when its state is stored, too.
NodeStep ==
    /\ target = 0 /\ Next
    /\ pc = "idle" /\ pc' = "stores" => latest <= state
    /\ block' = IF pc' = "stores" THEN Highest({block, NextVersion}) ELSE block
    /\ UNCHANGED <<state, target, behind, rollbacks, killed>>

\* CometBFT stores its state once Commit has returned.
SaveState ==
    /\ pc \in {"idle", "spawn"} /\ state < latest
    /\ state' = latest
    /\ UNCHANGED <<vars, block, target, behind, rollbacks, killed>>

\* CometBFT's RollbackState: a block that is ahead of the state is discarded
\* with --hard and the state is kept; else the state goes back one height, if
\* there is a block of that height.
BeginRollback ==
    /\ pc = "down" /\ target = 0 /\ rollbacks < MaxRollbacks
    /\ latest > 0 /\ \A s \in Stores : latest \in saved[s]
    /\ target' = IF block = state + 1 THEN state ELSE state - 1
    /\ target' >= InitialVersion
    /\ state' = target'
    /\ block' = IF Hard THEN block - 1 ELSE block
    /\ behind' = Stores
    /\ rollbacks' = rollbacks + 1
    /\ UNCHANGED <<vars, killed>>

\* Mutant: the version that is rolled back to is deleted with the others.
OverwrittenToo(s, v) == {h \in saved[s] : h < v}

\* iavl's LoadVersionForOverwriting: the versions above v are deleted.
Overwritten(s, v) == {h \in saved[s] : h <= v}

\* One store of RollbackToVersion; it gives up when a store has no such
\* version.
RollbackStore(s) ==
    /\ target # 0 /\ s \in behind
    /\ IF target \in saved[s]
         THEN /\ saved' = [saved EXCEPT ![s] = Overwritten(s, target)]
              /\ behind' = behind \ {s}
              /\ UNCHANGED target
         ELSE target' = 0 /\ behind' = {} /\ UNCHANGED saved
    /\ UNCHANGED <<latest, dbPruneHeights, dbSnapshotHeights, dbSnapshot,
                   memory, crashes, block, state, rollbacks, killed>>

\* Mutant: the metadata keeps naming the version that was rolled back.
FinishRollbackStale ==
    /\ target # 0 /\ behind = {}
    /\ target' = 0
    /\ UNCHANGED <<vars, block, state, behind, rollbacks, killed>>

\* The metadata of the target, rebuilt from the stores; the process ends.
FinishRollback ==
    /\ target # 0 /\ behind = {}
    /\ latest' = target /\ target' = 0
    /\ UNCHANGED <<saved, dbPruneHeights, dbSnapshotHeights, dbSnapshot,
                   memory, crashes, block, state, behind, rollbacks, killed>>

\* The command is killed between two of its writes.
CrashRollback ==
    /\ target # 0 /\ crashes < MaxCrashes
    /\ crashes' = crashes + 1 /\ killed' = TRUE
    /\ target' = 0 /\ behind' = {}
    /\ UNCHANGED <<disk, memory, block, state, rollbacks>>

RollbackNext ==
    \/ NodeStep \/ SaveState \/ BeginRollback \/ FinishRollback \/ CrashRollback
    \/ \E s \in Stores : RollbackStore(s)

RollbackSpec == RollbackInit /\ [][RollbackNext]_allVars

----------------------------------------------------------------------------
\* While no command is at work, and none was killed at work, the node finds the
\* last KeepRecent versions in every store, also after heights it had pruned for
\* were rolled back.  With --hard, commands in a row go back further than what was
\* pruned by then.
RetainsRecentAfterRollback == target = 0 /\ ~killed => RetainsRecent

\* Only a command that was killed between its writes leaves a node that
\* loadVersion cannot start: commits, crashes of the node and commands that
\* complete or give up always leave every store at the version the metadata
\* names.  And however a rollback ends, every store still holds the version
\* CometBFT went back to, so that a command cut short between two stores can be
\* completed by hand: no store has gone further back than another needs.
TornRollbackRecoverable ==
    /\ pc = "failed" => killed
    /\ target # 0 \/ pc = "failed" => \A s \in Stores : state \in saved[s]

----------------------------------------------------------------------------
(* The inductive invariant, without --hard.                                *)

RollbackTypeOK ==
    /\ block \in Nat /\ state \in Nat /\ target \in Nat /\ rollbacks \in Nat
    /\ behind \in SUBSET Stores /\ killed \in BOOLEAN

\* The heights that the pruning manager has on disk or in memory.
HeightsToPrune == pruneHeights \cup dbPruneHeights \cup batch

\* CometBFT has stored one block more than the application, or as many; then the
\* state may go back by one, and what is needed there is held and not to be pruned.
HandshakeInv ==
    /\ block \in {latest, Settled + 1}
    /\ pc = "stores" \/ Committing => block # latest
    /\ block # latest => state = latest
    /\ block = latest =>
         /\ state \in {latest, latest - 1} \/ (state = 0 /\ latest = InitialVersion)
         /\ latest # 0 => \A h \in HeightsToPrune : h + KeepRecent < latest
         /\ \A s \in Stores : \A h \in InitialVersion .. latest :
              h + KeepRecent >= latest => h \in saved[s]

\* No command is at work, and the last one has left nothing half done.
Whole == target = 0 /\ CommitInv /\ HandshakeInv

\* A command is at work: it has taken all stores but those of behind to target.
Rolling ==
    /\ TypeOK /\ pc = "down" /\ batch = {}
    /\ target = state /\ InitialVersion <= target /\ target \in {latest, latest - 1}
    /\ block = target + 1
    /\ \A h \in HeightsToPrune : h + KeepRecent <= target
    /\ \A s \in Stores :
         /\ \A h \in InitialVersion .. target : h + KeepRecent > target => h \in saved[s]
         /\ \A h \in saved[s] : InitialVersion <= h /\ h <= latest + 1
         /\ s \in behind => latest \in saved[s]
         /\ s \notin behind => \A h \in saved[s] : h <= target

\* A command was killed when it had taken a store below the version the metadata
\* names.
Torn ==
    /\ TypeOK /\ target = 0 /\ killed /\ pc \in {"down", "failed"} /\ latest # 0
    /\ \E s \in Stores : latest \notin saved[s]
    /\ \A s \in Stores : state \in saved[s]

RollbackInv == RollbackTypeOK /\ (Whole \/ Rolling \/ Torn)
=============================================================================
