--------------------------- MODULE SnapshotRestore ---------------------------
(***************************************************************************)
(* State sync: CometBFT offers a snapshot and hands over its chunks one by *)
(* one.  RestoreChunk saves each chunk to a file and passes its number to  *)
(* a goroutine that opens the files, which passes them on to the goroutine *)
(* that restores the multistore and the extensions.  Both channels are     *)
(* bounded.  Item i of the stream comes with chunk i: the stores first,    *)
(* then the extensions.                                                    *)
(***************************************************************************)
EXTENDS Integers, Sequences, FiniteSets

CONSTANTS
    NStores,       \* the stores of the multistore
    NChunks,       \* the chunks of the snapshot
    IDBuffer,      \* chunkIDBufferSize
    ChunkBuffer,   \* chunkBufferSize
    MaxRetries,    \* bound on the chunks that arrive damaged
    MaxRestarts    \* bound on the crashes

VARIABLES
    comet,         \* "offering", "applying", "aborted" or "synced"
    fault,         \* what the stream has wrong: nothing, its header or an item
    running,       \* Manager.operation
    restoreChunkIndex,
    call,          \* where the RestoreChunk in progress is
    ids, idsClosed,        \* chRestore
    loader, held,          \* the goroutine of loadChunkStream
    chunks, chunksClosed,
    reader, read, failed,  \* the goroutine of doRestoreSnapshot
    done,          \* chRestoreDone
    chunkFiles, metadata,  \* the snapshot store
    imported, commitInfo, extended,   \* the multistore and the extensions
    retries, restarts

ASSUME RestoreAssumption ==
    /\ NStores \in Nat \ {0} /\ NChunks \in Nat /\ NChunks >= NStores
    /\ IDBuffer \in Nat \ {0} /\ ChunkBuffer \in Nat \ {0}
    /\ MaxRetries \in Nat /\ MaxRestarts \in Nat

channels == <<ids, idsClosed, chunks, chunksClosed, done>>
goroutines == <<loader, held, reader, read, failed>>
state == <<imported, commitInfo, extended>>
persisted == <<chunkFiles, metadata, state>>
manager == <<running, restoreChunkIndex, call>>
bounds == <<retries, restarts>>
restoreVars == <<comet, fault, manager, channels, goroutines, persisted, bounds>>

Stores == 1 .. NStores
\* fault is the chunk that is broken, 0 for none.
BadHeader == NChunks + 1

Idle ==
    /\ running = "none" /\ restoreChunkIndex = 0 /\ call = "none"
    /\ ids = <<>> /\ idsClosed = FALSE /\ chunks = <<>> /\ chunksClosed = FALSE
    /\ done = "empty" /\ loader = "none" /\ held = 0
    /\ reader = "none" /\ read = 0 /\ failed = FALSE

RestoreInit ==
    /\ comet = "offering" /\ fault \in 0 .. BadHeader
    /\ Idle
    /\ chunkFiles = {} /\ metadata = FALSE
    /\ imported = {} /\ commitInfo = FALSE /\ extended = FALSE
    /\ retries = 0 /\ restarts = 0

----------------------------------------------------------------------------
(* The manager, called by CometBFT.                                        *)

\* OfferSnapshot and Restore.
Restore ==
    /\ comet = "offering" /\ running = "none"
    /\ comet' = "applying" /\ running' = "restore"
    /\ loader' = "run" /\ reader' = "open"
    /\ UNCHANGED <<fault, restoreChunkIndex, call, channels, held, read, failed, persisted, bounds>>

\* MkdirAll fails after beginLocked.
RestoreFails ==
    /\ comet = "offering" /\ running = "none"
    /\ comet' = "aborted" /\ running' = "restore"
    /\ UNCHANGED <<fault, restoreChunkIndex, call, channels, goroutines, persisted, bounds>>

endLocked ==
    /\ running' = "none" /\ restoreChunkIndex' = 0
    /\ idsClosed' = TRUE

Applying == comet = "applying" /\ call = "none"

\* RestoreChunk finds that the restore has ended already.
ChunkTooLate ==
    /\ Applying /\ done # "empty"
    /\ endLocked
    /\ comet' = "aborted" /\ done' = "empty"
    /\ UNCHANGED <<fault, call, ids, chunks, chunksClosed, goroutines, persisted, bounds>>

\* The chunk does not have the hash of the metadata: CometBFT fetches it again.
ChunkDamaged ==
    /\ Applying /\ done = "empty" /\ retries < MaxRetries
    /\ retries' = retries + 1
    /\ UNCHANGED <<comet, fault, manager, channels, goroutines, persisted, restarts>>

SaveChunkContent ==
    /\ Applying /\ done = "empty"
    /\ chunkFiles' = chunkFiles \cup {restoreChunkIndex + 1}
    /\ call' = "send"
    /\ UNCHANGED <<comet, fault, running, restoreChunkIndex, channels, goroutines,
                   metadata, state, bounds>>

LastChunk == restoreChunkIndex + 1 >= NChunks


SendChunkID ==
    /\ call = "send" /\ Len(ids) < IDBuffer
    /\ ids' = Append(ids, restoreChunkIndex + 1)
    /\ restoreChunkIndex' = restoreChunkIndex + 1
    /\ call' = IF LastChunk THEN "metadata" ELSE "none"
    /\ idsClosed' = LastChunk
    /\ UNCHANGED <<comet, fault, running, chunks, chunksClosed, done, goroutines,
                   persisted, bounds>>

\* saveSnapshot, before the restore is complete.
SaveRestored ==
    /\ call = "metadata"
    /\ metadata' = TRUE /\ call' = "wait"
    /\ UNCHANGED <<comet, fault, running, restoreChunkIndex, channels, goroutines,
                   chunkFiles, state, bounds>>

AwaitDone ==
    /\ call = "wait" /\ done # "empty"
    /\ endLocked
    /\ call' = "none" /\ done' = "empty"
    /\ comet' = IF done = "ok" THEN "synced" ELSE "aborted"
    /\ UNCHANGED <<fault, ids, chunks, chunksClosed, goroutines, persisted, bounds>>

\* saveChunkContent or saveSnapshot fails: the operation is not ended.
RestoreSaveFails ==
    /\ (Applying /\ done = "empty") \/ call = "metadata"
    /\ comet' = "aborted" /\ call' = "none"
    /\ UNCHANGED <<fault, running, restoreChunkIndex, channels, goroutines, persisted, bounds>>

RestoreChunk == SendChunkID \/ SaveRestored \/ AwaitDone
Chunk == ChunkTooLate \/ SaveChunkContent

----------------------------------------------------------------------------
(* loadChunkStream.                                                        *)

\* Mutant: the number stays in the channel.
LoadChunkFileAgain ==
    /\ loader = "run" /\ held = 0 /\ ids # <<>>
    /\ held' = Head(ids)
    /\ UNCHANGED <<comet, fault, manager, channels, loader, reader, read, failed, persisted,
                   bounds>>

LoadChunkFile ==
    /\ loader = "run" /\ held = 0 /\ ids # <<>>
    /\ held' = Head(ids) /\ ids' = Tail(ids)
    /\ UNCHANGED <<comet, fault, manager, idsClosed, chunks, chunksClosed, done,
                   loader, reader, read, failed, persisted, bounds>>

PassChunk ==
    /\ held # 0 /\ Len(chunks) < ChunkBuffer
    /\ chunks' = Append(chunks, held) /\ held' = 0
    /\ UNCHANGED <<comet, fault, manager, ids, idsClosed, chunksClosed, done,
                   loader, reader, read, failed, persisted, bounds>>

\* The numbers end, or a file cannot be opened.
LoaderEnds(ends) ==
    /\ loader = "run" /\ held = 0 /\ ends
    /\ loader' = "done" /\ chunksClosed' = TRUE
    /\ UNCHANGED <<comet, fault, manager, ids, idsClosed, chunks, done, held,
                   reader, read, failed, persisted, bounds>>

LoadEnds == LoaderEnds(ids = <<>> /\ idsClosed)
LoadFails == LoaderEnds(ids # <<>>)
Load == LoadChunkFile \/ PassChunk \/ LoadEnds

----------------------------------------------------------------------------
(* doRestoreSnapshot.                                                      *)

ReaderGoes(at) ==
    /\ reader' = at
    /\ UNCHANGED <<comet, fault, manager, ids, idsClosed, loader, held, chunkFiles, metadata,
                   bounds>>

\* NewStreamReader reads the header of the first chunk.  Its error is returned
\* before the reader is there that is to be closed.
NewStreamReader ==
    /\ reader = "open" /\ (chunks # <<>> \/ chunksClosed)
    /\ failed' = (fault = BadHeader \/ chunks = <<>>)
    /\ done' = IF failed' THEN "error" ELSE done
    /\ ReaderGoes(IF failed' THEN "done" ELSE "items")
    /\ UNCHANGED <<chunks, chunksClosed, read, state>>

\* What a read of the next item finds.
NextItem == read + 1
Available == chunks # <<>> \/ chunksClosed \/ read = NChunks
Broken == read < NChunks /\ (chunks = <<>> \/ fault = NextItem)

Fail ==
    /\ failed' = TRUE
    /\ ReaderGoes("close")
    /\ UNCHANGED <<chunks, chunksClosed, done, read, state>>

\* An item cannot be read or imported, or the tree is not empty.
ItemFails ==
    /\ reader \in {"items", "extensions"} /\ Available
    /\ Broken \/ (reader = "items" /\ NextItem \in imported)
    /\ Fail

\* A store's tree is committed when the next store begins.
ImportStore ==
    /\ reader = "items" /\ Available /\ ~ Broken
    /\ NextItem \in Stores \ imported
    /\ imported' = imported \cup ({read} \cap Stores)
    /\ read' = NextItem /\ chunks' = Tail(chunks)
    /\ ReaderGoes("items")
    /\ UNCHANGED <<chunksClosed, done, failed, commitInfo, extended>>

\* The last store is committed when the loop ends.
ImportEnds ==
    /\ reader = "items" /\ Available /\ ~ Broken
    /\ NextItem \notin Stores
    /\ imported' = imported \cup {read}
    /\ ReaderGoes("flush")
    /\ UNCHANGED <<chunks, chunksClosed, done, read, failed, commitInfo, extended>>

\* Mutant: the metadata of the version is written as soon as a store begins.
FlushMetadataEarly ==
    /\ reader \in {"items", "flush"}
    /\ commitInfo' = TRUE
    /\ ReaderGoes(IF reader = "flush" THEN "extensions" ELSE "items")
    /\ UNCHANGED <<chunks, chunksClosed, done, read, failed, imported, extended>>

\* flushMetadata and LoadLatestVersion.
FlushMetadata ==
    /\ reader = "flush"
    /\ commitInfo' = TRUE
    /\ ReaderGoes("extensions")
    /\ UNCHANGED <<chunks, chunksClosed, done, read, failed, imported, extended>>

RestoreExtension ==
    /\ reader = "extensions" /\ read < NChunks /\ Available /\ ~ Broken
    /\ read' = NextItem /\ chunks' = Tail(chunks)
    /\ ReaderGoes("extensions")
    /\ UNCHANGED <<chunksClosed, done, failed, state>>

ExtensionsEnd ==
    /\ reader = "extensions" /\ read = NChunks
    /\ extended' = TRUE
    /\ ReaderGoes("close")
    /\ UNCHANGED <<chunks, chunksClosed, done, read, failed, imported, commitInfo>>

\* The deferred streamReader.Close drains the channel until it is closed.
Drain ==
    /\ reader = "close" /\ chunks # <<>>
    /\ chunks' = Tail(chunks)
    /\ ReaderGoes("close")
    /\ UNCHANGED <<chunksClosed, done, read, failed, state>>

Closed ==
    /\ reader = "close" /\ chunks = <<>> /\ chunksClosed
    /\ done' = IF failed THEN "error" ELSE "ok"
    /\ ReaderGoes("done")
    /\ UNCHANGED <<chunks, chunksClosed, read, failed, state>>

doRestoreSnapshot ==
    \/ NewStreamReader \/ ItemFails \/ ImportStore \/ ImportEnds \/ FlushMetadata
    \/ RestoreExtension \/ ExtensionsEnd \/ Drain \/ Closed

\* CometBFT starts over; the disk survives.
RestoreCrash ==
    /\ restarts < MaxRestarts
    /\ restarts' = restarts + 1
    /\ comet' = IF comet = "synced" THEN comet ELSE "offering"
    /\ fault' \in 0 .. NChunks + 1
    /\ running' = "none" /\ restoreChunkIndex' = 0 /\ call' = "none"
    /\ ids' = <<>> /\ idsClosed' = FALSE /\ chunks' = <<>> /\ chunksClosed' = FALSE
    /\ done' = "empty" /\ loader' = "none" /\ held' = 0
    /\ reader' = "none" /\ read' = 0 /\ failed' = FALSE
    /\ UNCHANGED <<persisted, retries>>

RestoreNext ==
    \/ Restore \/ RestoreFails \/ Chunk \/ ChunkDamaged \/ RestoreChunk \/ RestoreSaveFails
    \/ Load \/ LoadFails \/ doRestoreSnapshot \/ RestoreCrash

RestoreSpec == RestoreInit /\ [][RestoreNext]_restoreVars

\* The goroutines run; CometBFT may be waiting for a chunk.
GoroutinesFair ==
    /\ WF_restoreVars(RestoreChunk) /\ WF_restoreVars(Load)
    /\ WF_restoreVars(doRestoreSnapshot)
RestoreGoSpec == RestoreSpec /\ GoroutinesFair
\* CometBFT gets every chunk in the end.
RestoreFairSpec == RestoreGoSpec /\ WF_restoreVars(Chunk)

----------------------------------------------------------------------------
(* Properties.                                                             *)

RestoreTypeOK ==
    /\ comet \in {"offering", "applying", "aborted", "synced"}
    /\ running \in {"none", "restore"} /\ restoreChunkIndex \in 0 .. NChunks
    /\ call \in {"none", "send", "metadata", "wait"}
    /\ ids \in Seq(1 .. NChunks) /\ Len(ids) <= IDBuffer
    /\ chunks \in Seq(1 .. NChunks) /\ Len(chunks) <= ChunkBuffer
    /\ held \in 0 .. NChunks /\ read \in 0 .. NChunks
    /\ chunkFiles \subseteq 1 .. NChunks /\ imported \subseteq Stores

\* What says that a restore is done is true: one reported complete has imported
\* every store, written the metadata of its version, restored the extensions and
\* kept its chunks; a version that a restart would load, whenever the process
\* dies, has every store; a snapshot that is listed to other nodes has every
\* chunk, whether its restore succeeds or not.
RestoredIsWhole ==
    /\ comet = "synced" => commitInfo /\ extended /\ chunkFiles = 1 .. NChunks
    /\ commitInfo => imported = Stores
    /\ metadata => chunkFiles = 1 .. NChunks

\* The chunks reach the restoring goroutine in order, each of them once.
ChunksInOrder ==
    reader \in {"open", "items", "flush", "extensions"} =>
        LET ahead == chunks \o (IF held = 0 THEN <<>> ELSE <<held>>) \o ids
        IN  \A i \in DOMAIN ahead : ahead[i] = read + i

=============================================================================
