---------------------------- MODULE IndexRefresh ----------------------------
(***************************************************************************)
(* One refresh of the main branch (index_rag.run_refresh_indexing), killed *)
(* and restarted at any moment, against the Qdrant collection, the saved   *)
(* manifest and the pending journal.  The threads of a run interleave: the *)
(* main thread, the parse-ahead thread, the upsert worker of the           *)
(* double-buffered flush (EMBED_PIPELINE_DEPTH = 0, the default) and the   *)
(* background manifest writer (MANIFEST_SAVE_INTERVAL_S > 0).              *)
(*                                                                         *)
(* A version is what the chunker makes of a file: its bytes (their hash)   *)
(* under a dialect.  Each file carries its own stage of the run, so the    *)
(* lists, the queue, the pool and the upsert in flight are sets of files.  *)
(***************************************************************************)
EXTENDS PendingJournal, Integers, FiniteSetsExt

CONSTANTS
  MaxChunks,         \* bound: chunks of the largest version
  Chunks,            \* chunks of each version (0: the file is empty)
  Blank,             \* chunks whose dense vector is all zeros
  DefaultDialect,    \* what a missing manifest dialect means
  DeleteChunkSize,   \* QDRANT_DELETE_CHUNK_SIZE
  ParseAhead,        \* files the parser may hold or have queued
  PoolMaxFiles,      \* EMBED_POOL_MAX_FILES
  PoolMaxChunks,     \* EMBED_POOL_SIZE
  BackgroundSaves,   \* MANIFEST_SAVE_INTERVAL_S > 0
  ReadsMayFail,      \* may a file that is there be unreadable for a moment?
  NoFile, NoPoint, NoSnapshot

Versions == [hash : Hashes, dialect : Dialects]
Indices == 1 .. MaxChunks

ASSUME RefreshConstants ==
  /\ MaxChunks \in Nat
  /\ Chunks \in [Versions -> 0 .. MaxChunks]
  /\ Blank \subseteq Versions \X Indices
  /\ DefaultDialect \in Dialects
  /\ {DeleteChunkSize, ParseAhead, PoolMaxFiles, PoolMaxChunks} \subseteq Nat \ {0}
  /\ {BackgroundSaves, ReadsMayFail} \subseteq BOOLEAN
  /\ NoFile \notin Hashes \cup Entries
  /\ NoPoint \notin Versions
  /\ NoSnapshot \notin Manifests

VARIABLES
  \* what outlives the process
  disk,      \* content hash of each source file
  dialect,   \* the sql_dialect in the config file
  points,    \* Qdrant: the version whose chunk sits at (file, index)
  saved,     \* index_manifest.json
  journal,   \* index_manifest.json.pending.jsonl
  \* the process
  pc,        \* where the main thread is
  mem,       \* the manifest in memory
  scan,      \* current_states: each file as the scan saw it
  stage,     \* how far the run is with each file
  loaded,    \* version whose chunks the parser loaded (NoFile: no nodes)
  info,      \* file_info after _verify_unchanged_since_scan
  unsent,    \* points of the upsert in flight not yet sent
  worker,    \* the upsert worker and its future
  snap,      \* snapshot the background writer has still to write
  errors     \* did a delete or an upsert of this run fail?

durable == <<disk, dialect, points, saved, journal>>
vars == <<disk, dialect, points, saved, journal, pc, mem, scan, stage,
          loaded, info, unsent, worker, snap, errors>>

Stages == {"idle", "delete", "deleting", "parse", "read", "parsed",
           "current", "pool", "flight", "done"}

In(st) == {f \in Files : stage[f] = st}
Moved(S, st) == [f \in Files |-> IF f \in S THEN st ELSE stage[f]]

NoPoints == [i \in Indices |-> NoPoint]
NumChunks(v) == IF v = NoFile THEN 0 ELSE Chunks[v]

\* _build_qdrant_points skips a chunk whose vector says nothing.
Stored(v, i) == i <= NumChunks(v) /\ <<v, i>> \notin Blank
Full(v) == [i \in Indices |-> IF Stored(v, i) THEN v ELSE NoPoint]

\* _delete_points_for_file_keys: filter deletes, by path and not by point id.
Cleared(S) == [f \in Files |-> IF f \in S THEN NoPoints ELSE points[f]]

\* A file as get_current_file_states describes it; h is "" when unreadable.
State(h) == [hash |-> h, dialect |-> dialect]

\* load_manifest rebuilds every entry from four fields; the dialect is not
\* one of them, and a missing dialect means the default.
LoadedEntry(e) ==
  IF e = NoEntry THEN NoEntry ELSE [e EXCEPT !.dialect = DefaultDialect]

-----------------------------------------------------------------------------
\* An empty collection and the manifest regenerate_manifest_qdrant saves then.
Init ==
  /\ disk \in [Files -> Hashes \cup {NoFile}]
  /\ dialect \in Dialects
  /\ points = [f \in Files |-> NoPoints]
  /\ saved = EmptyManifest
  /\ journal = EmptyJournal
  /\ pc = "off"
  /\ mem = EmptyManifest
  /\ scan = [f \in Files |-> NoFile]
  /\ stage = [f \in Files |-> "idle"]
  /\ loaded = [f \in Files |-> NoFile]
  /\ info = EmptyManifest
  /\ unsent = {}
  /\ worker = "idle"
  /\ snap = NoSnapshot
  /\ errors = FALSE

\* The process is gone: its memory is lost, files and the collection stay.
ProcessGone ==
  /\ pc' = "off"
  /\ mem' = EmptyManifest
  /\ scan' = [f \in Files |-> NoFile]
  /\ stage' = [f \in Files |-> "idle"]
  /\ loaded' = [f \in Files |-> NoFile]
  /\ info' = EmptyManifest
  /\ unsent' = {}
  /\ worker' = "idle"
  /\ snap' = NoSnapshot
  /\ errors' = FALSE

-----------------------------------------------------------------------------
(* The environment *)

\* A file is written, created or removed.  Assumed: an editor does not put
\* the scanned bytes back in the instant between the reader's read and the
\* re-hash that follows it.
EditFile(f, h) ==
  /\ h # disk[f]
  /\ stage[f] = "read" /\ scan[f] # NoFile => h # scan[f].hash
  /\ disk' = [disk EXCEPT ![f] = h]
  /\ UNCHANGED <<dialect, points, saved, journal, pc, mem, scan, stage,
                 loaded, info, unsent, worker, snap, errors>>

\* The config is read when a process starts, so a change waits for that.
ChangeDialect(d) ==
  /\ pc = "off"
  /\ d # dialect
  /\ dialect' = d
  /\ UNCHANGED <<disk, points, saved, journal, pc, mem, scan, stage,
                 loaded, info, unsent, worker, snap, errors>>

\* A kill, a reboot, the OOM killer.
Crash ==
  /\ pc # "off"
  /\ ProcessGone
  /\ UNCHANGED durable

-----------------------------------------------------------------------------
(* Start and recovery *)

Start ==
  /\ pc = "off"
  /\ pc' = "recover"
  /\ mem' = [f \in Files |-> LoadedEntry(saved[f])]
  /\ UNCHANGED <<disk, dialect, points, saved, journal, scan, stage,
                 loaded, info, unsent, worker, snap, errors>>

Stale == UnresolvedKeys(journal, mem)

RecoverNothing ==
  /\ pc = "recover"
  /\ Stale = {}
  /\ journal' = EmptyJournal
  /\ pc' = "scan"
  /\ UNCHANGED <<disk, dialect, points, saved, mem, scan, stage,
                 loaded, info, unsent, worker, snap, errors>>

\* Defect: recovery deletes the points and keeps the manifest entries.
RecoverPointsOnly ==
  /\ pc = "recover"
  /\ Stale # {}
  /\ points' = Cleared(Stale)
  /\ pc' = "recovered"
  /\ UNCHANGED <<disk, dialect, saved, journal, mem, scan, stage,
                 loaded, info, unsent, worker, snap, errors>>

RecoverDelete ==
  /\ pc = "recover"
  /\ Stale # {}
  /\ points' = Cleared(Stale)
  /\ mem' = [f \in Files |-> IF f \in Stale THEN NoEntry ELSE mem[f]]
  /\ pc' = "recovered"
  /\ UNCHANGED <<disk, dialect, saved, journal, scan, stage,
                 loaded, info, unsent, worker, snap, errors>>

\* PendingRecoveryError: some deletes may have worked, the run ends here.
RecoverFails ==
  /\ pc = "recover"
  /\ \E S \in SUBSET Stale : points' = Cleared(S)
  /\ Stale # {}
  /\ ProcessGone
  /\ UNCHANGED <<disk, dialect, saved, journal>>

RecoverSave ==
  /\ pc = "recovered"
  /\ saved' = mem
  /\ pc' = "unjournal"
  /\ UNCHANGED <<disk, dialect, points, journal, mem, scan, stage,
                 loaded, info, unsent, worker, snap, errors>>

RecoverUnlink ==
  /\ pc = "unjournal"
  /\ journal' = EmptyJournal
  /\ pc' = "scan"
  /\ UNCHANGED <<disk, dialect, points, saved, mem, scan, stage,
                 loaded, info, unsent, worker, snap, errors>>

-----------------------------------------------------------------------------
(* Scan and change detection (full hash comparison) *)

Action(old, now) ==
  IF now = NoFile
    THEN IF old = NoEntry THEN "idle" ELSE "delete"
    ELSE IF old = NoEntry \/ old.hash # now.hash \/ old.dialect # now.dialect
           THEN "parse" ELSE "idle"

\* get_current_file_states and determine_actions.  Files of "bad" exist but
\* could not be hashed.
Scan ==
  /\ pc = "scan"
  /\ \E bad \in SUBSET {f \in Files : ReadsMayFail /\ disk[f] # NoFile} :
       scan' = [f \in Files |-> IF disk[f] = NoFile THEN NoFile
                                ELSE IF f \in bad THEN State(EmptyHash)
                                ELSE State(disk[f])]
  /\ stage' = [f \in Files |-> Action(mem[f], scan'[f])]
  /\ pc' = IF \A f \in Files : stage'[f] = "idle" THEN "finalize" ELSE "connect"
  /\ UNCHANGED <<disk, dialect, points, saved, journal, mem,
                 loaded, info, unsent, worker, snap, errors>>

Connect ==
  /\ pc = "connect"
  /\ pc' = "delete"
  /\ UNCHANGED <<disk, dialect, points, saved, journal, mem, scan, stage,
                 loaded, info, unsent, worker, snap, errors>>

\* The probe fails: reached_end is False and the caller finalizes anyway.
Unreachable ==
  /\ pc = "connect"
  /\ pc' = "finalize"
  /\ errors' = TRUE
  /\ UNCHANGED <<disk, dialect, points, saved, journal, mem, scan, stage,
                 loaded, info, unsent, worker, snap>>

\* Qdrant answers, but the model does not load, the collection cannot be
\* created or carries another provenance: the exception ends the run.
SetupFails ==
  /\ pc = "connect"
  /\ pc' = "aborting"
  /\ UNCHANGED <<disk, dialect, points, saved, journal, mem, scan, stage,
                 loaded, info, unsent, worker, snap, errors>>

-----------------------------------------------------------------------------
(* Deleted files, in chunks *)

DeleteChunks ==
  {S \in SUBSET In("delete") : S # {} /\ Cardinality(S) <= DeleteChunkSize}

JournalDeletes ==
  /\ pc = "delete"
  /\ \E S \in DeleteChunks :
       /\ journal' = Recorded(journal, S, [f \in Files |-> Deleted])
       /\ stage' = Moved(S, "deleting")
  /\ pc' = "deleting"
  /\ UNCHANGED <<disk, dialect, points, saved, mem, scan,
                 loaded, info, unsent, worker, snap, errors>>

DeleteChunk ==
  /\ pc = "deleting"
  /\ points' = Cleared(In("deleting"))
  /\ mem' = [f \in Files |-> IF f \in In("deleting") THEN NoEntry ELSE mem[f]]
  /\ stage' = Moved(In("deleting"), "done")
  /\ pc' = "delete"
  /\ UNCHANGED <<disk, dialect, saved, journal, scan,
                 loaded, info, unsent, worker, snap, errors>>

\* Defect: the entries are dropped although the delete failed.
DeleteChunkForgets ==
  /\ pc = "deleting"
  /\ \E S \in SUBSET In("deleting") : points' = Cleared(S)
  /\ mem' = [f \in Files |-> IF f \in In("deleting") THEN NoEntry ELSE mem[f]]
  /\ stage' = Moved(In("deleting"), "done")
  /\ errors' = TRUE
  /\ pc' = "delete"
  /\ UNCHANGED <<disk, dialect, saved, journal, scan,
                 loaded, info, unsent, worker, snap>>

\* The request fails; Qdrant may have applied some of it.
DeleteChunkFails ==
  /\ pc = "deleting"
  /\ \E S \in SUBSET In("deleting") : points' = Cleared(S)
  /\ stage' = Moved(In("deleting"), "done")
  /\ errors' = TRUE
  /\ pc' = "delete"
  /\ UNCHANGED <<disk, dialect, saved, journal, mem, scan,
                 loaded, info, unsent, worker, snap>>

\* save_now, but only when there was something to delete.
DeletesDone ==
  /\ pc = "delete"
  /\ In("delete") = {}
  /\ saved' = IF In("done") = {} THEN saved ELSE mem
  /\ pc' = "loop"
  /\ UNCHANGED <<disk, dialect, points, journal, mem, scan, stage,
                 loaded, info, unsent, worker, snap, errors>>

-----------------------------------------------------------------------------
(* The parse-ahead thread: read, re-hash, put on the bounded queue *)

Parsing == pc \in {"loop", "delold", "place", "flush"}

\* A reader that cannot read the file logs a warning and returns no nodes.
ReadFile(f) ==
  /\ Parsing
  /\ stage[f] = "parse"
  /\ Cardinality(In("read") \cup In("parsed")) < ParseAhead
  /\ \/ /\ disk[f] # NoFile
        /\ loaded' = [loaded EXCEPT ![f] =
                        [hash |-> disk[f], dialect |-> scan[f].dialect]]
     \/ /\ disk[f] = NoFile \/ ReadsMayFail
        /\ loaded' = [loaded EXCEPT ![f] = NoFile]
  /\ stage' = Moved({f}, "read")
  /\ UNCHANGED <<disk, dialect, points, saved, journal, pc, mem, scan,
                 info, unsent, worker, snap, errors>>

\* Defect: the entry takes over the second hash, of whatever is there by then.
VerifyRehash(f) ==
  /\ Parsing
  /\ stage[f] = "read"
  /\ info' = [info EXCEPT ![f] = [scan[f] EXCEPT !.hash = disk[f]]]
  /\ stage' = Moved({f}, "parsed")
  /\ UNCHANGED <<disk, dialect, points, saved, journal, pc, mem, scan,
                 loaded, unsent, worker, snap, errors>>

\* Defect: the entry describes the scan, whatever the reader has read.
VerifyNothing(f) ==
  /\ Parsing
  /\ stage[f] = "read"
  /\ info' = [info EXCEPT ![f] = scan[f]]
  /\ stage' = Moved({f}, "parsed")
  /\ UNCHANGED <<disk, dialect, points, saved, journal, pc, mem, scan,
                 loaded, unsent, worker, snap, errors>>

\* _verify_unchanged_since_scan
VerifyFile(f) ==
  /\ Parsing
  /\ stage[f] = "read"
  /\ \/ /\ disk[f] = scan[f].hash
        /\ info' = [info EXCEPT ![f] = scan[f]]
     \/ /\ disk[f] # scan[f].hash \/ ReadsMayFail
        /\ info' = [info EXCEPT ![f] = [scan[f] EXCEPT !.hash = EmptyHash]]
  /\ stage' = Moved({f}, "parsed")
  /\ UNCHANGED <<disk, dialect, points, saved, journal, pc, mem, scan,
                 loaded, unsent, worker, snap, errors>>

-----------------------------------------------------------------------------
(* The main loop *)

\* Defect: the deletion of the old points is not announced.
TakeUnannounced(f) ==
  /\ pc = "loop"
  /\ stage[f] = "parsed"
  /\ stage' = Moved({f}, "current")
  /\ pc' = IF mem[f] = NoEntry THEN "place" ELSE "delold"
  /\ UNCHANGED <<disk, dialect, points, saved, journal, mem, scan,
                 loaded, info, unsent, worker, snap, errors>>

Take(f) ==
  /\ pc = "loop"
  /\ stage[f] = "parsed"
  /\ stage' = Moved({f}, "current")
  /\ IF mem[f] = NoEntry
       THEN pc' = "place" /\ UNCHANGED journal
       ELSE /\ pc' = "delold"
            /\ journal' = Recorded(journal, {f}, [g \in Files |-> Deleted])
  /\ UNCHANGED <<disk, dialect, points, saved, mem, scan,
                 loaded, info, unsent, worker, snap, errors>>

DeleteOld(f) ==
  /\ pc = "delold"
  /\ stage[f] = "current"
  /\ points' = Cleared({f})
  /\ pc' = "place"
  /\ UNCHANGED <<disk, dialect, saved, journal, mem, scan, stage,
                 loaded, info, unsent, worker, snap, errors>>

\* The file is skipped and keeps its old manifest entry.
DeleteOldFails(f) ==
  /\ pc = "delold"
  /\ stage[f] = "current"
  /\ \E S \in SUBSET {f} : points' = Cleared(S)
  /\ stage' = Moved({f}, "done")
  /\ errors' = TRUE
  /\ pc' = "loop"
  /\ UNCHANGED <<disk, dialect, saved, journal, mem, scan,
                 loaded, info, unsent, worker, snap>>

PlaceEmpty(f) ==
  /\ pc = "place"
  /\ stage[f] = "current"
  /\ NumChunks(loaded[f]) = 0
  /\ mem' = [mem EXCEPT ![f] = info[f]]
  /\ journal' = Recorded(journal, {f}, [g \in Files |-> info[f].hash])
  /\ stage' = Moved({f}, "done")
  /\ pc' = "loop"
  /\ UNCHANGED <<disk, dialect, points, saved, scan,
                 loaded, info, unsent, worker, snap, errors>>

\* ChunkPool.should_flush
ShouldFlush(pool) ==
  \/ MapThenSumSet(LAMBDA f : NumChunks(loaded[f]), pool) >= PoolMaxChunks
  \/ Cardinality(pool) >= PoolMaxFiles

PlaceInPool(f) ==
  /\ pc = "place"
  /\ stage[f] = "current"
  /\ NumChunks(loaded[f]) > 0
  /\ stage' = Moved({f}, "pool")
  /\ pc' = IF ShouldFlush(In("pool") \cup {f}) THEN "flush" ELSE "loop"
  /\ UNCHANGED <<disk, dialect, points, saved, journal, mem, scan,
                 loaded, info, unsent, worker, snap, errors>>

\* The sentinel: nothing is left to take; flush what the pool still holds.
LoopDone ==
  /\ pc = "loop"
  /\ In("parse") \cup In("read") \cup In("parsed") = {}
  /\ pc' = IF In("pool") = {} THEN "drain" ELSE "flush"
  /\ UNCHANGED <<disk, dialect, points, saved, journal, mem, scan, stage,
                 loaded, info, unsent, worker, snap, errors>>

\* _drain_pending_upsert: every save_batch_size-th file asks for a save.  The
\* counter is left out: a drain may or may not reach it.
Drain ==
  /\ pc \in {"flush", "drain"}
  /\ worker = "finished"
  /\ worker' = "idle"
  /\ \/ UNCHANGED <<saved, snap>>
     \/ ~BackgroundSaves /\ saved' = mem /\ UNCHANGED snap
     \/ BackgroundSaves /\ snap = NoSnapshot /\ snap' = mem /\ UNCHANGED saved
  /\ UNCHANGED <<disk, dialect, points, journal, pc, mem, scan, stage,
                 loaded, info, unsent, errors>>

\* Defect: the upserts are not announced.
FlushUnannounced ==
  /\ pc = "flush"
  /\ worker = "idle"
  /\ unsent' = {r \in In("pool") \X Indices : Stored(loaded[r[1]], r[2])}
  /\ stage' = Moved(In("pool"), "flight")
  /\ worker' = "busy"
  /\ pc' = "loop"
  /\ UNCHANGED <<disk, dialect, points, saved, journal, mem, scan,
                 loaded, info, snap, errors>>

\* _flush_pool: embed, journal the hashes, hand the work items to the worker.
Flush ==
  /\ pc = "flush"
  /\ worker = "idle"
  /\ journal' = Recorded(journal, In("pool"), [f \in Files |-> info[f].hash])
  /\ unsent' = {r \in In("pool") \X Indices : Stored(loaded[r[1]], r[2])}
  /\ stage' = Moved(In("pool"), "flight")
  /\ worker' = "busy"
  /\ pc' = "loop"
  /\ UNCHANGED <<disk, dialect, points, saved, mem, scan,
                 loaded, info, snap, errors>>

-----------------------------------------------------------------------------
(* The upsert worker *)

WithPoints(S) ==
  [f \in Files |-> [i \in Indices |->
     IF <<f, i>> \in S THEN loaded[f] ELSE points[f][i]]]

\* One point of a batch; a larger batch is several of these in a row.
Upsert(f, i) ==
  /\ worker = "busy"
  /\ <<f, i>> \in unsent
  /\ points' = WithPoints({<<f, i>>})
  /\ unsent' = unsent \ {<<f, i>>}
  /\ UNCHANGED <<disk, dialect, saved, journal, pc, mem, scan, stage,
                 loaded, info, worker, snap, errors>>

\* A request fails, in whole or in part: every file of the pool is errored.
UpsertFails ==
  /\ worker = "busy"
  /\ unsent # {}
  /\ \E S \in SUBSET unsent : points' = WithPoints(S)
  /\ unsent' = {}
  /\ stage' = Moved(In("flight"), "done")
  /\ worker' = "finished"
  /\ errors' = TRUE
  /\ UNCHANGED <<disk, dialect, saved, journal, pc, mem, scan,
                 loaded, info, snap>>

\* Manifest bookkeeping after all batches, file by file, on the worker.
RecordFile(f) ==
  /\ worker = "busy"
  /\ unsent = {}
  /\ stage[f] = "flight"
  /\ mem' = [mem EXCEPT ![f] = info[f]]
  /\ stage' = Moved({f}, "done")
  /\ worker' = IF In("flight") = {f} THEN "finished" ELSE "busy"
  /\ UNCHANGED <<disk, dialect, points, saved, journal, pc, scan,
                 loaded, info, unsent, snap, errors>>

-----------------------------------------------------------------------------
(* The background manifest writer *)

WriteSnapshot ==
  /\ snap # NoSnapshot
  /\ saved' = snap
  /\ snap' = NoSnapshot
  /\ UNCHANGED <<disk, dialect, points, journal, pc, mem, scan, stage,
                 loaded, info, unsent, worker, errors>>

WriteFails ==
  /\ snap # NoSnapshot
  /\ snap' = NoSnapshot
  /\ UNCHANGED <<disk, dialect, points, saved, journal, pc, mem, scan, stage,
                 loaded, info, unsent, worker, errors>>

-----------------------------------------------------------------------------
(* The end of a run *)

\* Defect: save_now does not wait for the background writer.
SaveFinalUnwaited ==
  /\ pc = "drain"
  /\ worker = "idle"
  /\ saved' = mem
  /\ pc' = "finish"
  /\ UNCHANGED <<disk, dialect, points, journal, mem, scan, stage,
                 loaded, info, unsent, worker, snap, errors>>

\* save_now waits for the background writer.
SaveFinal ==
  /\ pc = "drain"
  /\ worker = "idle"
  /\ snap = NoSnapshot
  /\ saved' = mem
  /\ pc' = "finish"
  /\ UNCHANGED <<disk, dialect, points, journal, mem, scan, stage,
                 loaded, info, unsent, worker, snap, errors>>

FinishJournal ==
  /\ pc = "finish"
  /\ journal' = Finished(journal, mem)
  /\ errors' = (errors \/ UnresolvedKeys(journal, mem) # {})
  /\ pc' = "finalize"
  /\ UNCHANGED <<disk, dialect, points, saved, mem, scan, stage,
                 loaded, info, unsent, worker, snap>>

\* _finalize_manifest_bookkeeping, then save_manifest and the process exits.
Finalize ==
  /\ pc = "finalize"
  /\ saved' = mem
  /\ ProcessGone
  /\ UNCHANGED <<disk, dialect, points, journal>>

\* The main thread raises: the parser failed, an embedding call failed.
Abort ==
  /\ pc \in {"loop", "flush"}
  /\ pc' = "aborting"
  /\ UNCHANGED <<disk, dialect, points, saved, journal, mem, scan, stage,
                 loaded, info, unsent, worker, snap, errors>>

\* In interval mode a failed run tries to save its progress.
AbortSave ==
  /\ pc = "aborting"
  /\ snap = NoSnapshot
  /\ saved' \in IF BackgroundSaves THEN {mem, saved} ELSE {saved}
  /\ pc' = "exiting"
  /\ UNCHANGED <<disk, dialect, points, journal, mem, scan, stage,
                 loaded, info, unsent, worker, snap, errors>>

\* The interpreter joins the upsert worker before the process ends.
Exit ==
  /\ pc = "exiting"
  /\ worker # "busy"
  /\ ProcessGone
  /\ UNCHANGED durable

\* A kill while the lines of several files are being appended: the lines
\* before the cut are there, the change they announce has not started.
TornRecord ==
  /\ \/ /\ pc = "delete"
        /\ \E S \in DeleteChunks : \E T \in SUBSET S :
             journal' = Recorded(journal, T, [f \in Files |-> Deleted])
     \/ /\ pc = "flush"
        /\ worker = "idle"
        /\ \E T \in SUBSET In("pool") :
             journal' = Recorded(journal, T, [f \in Files |-> info[f].hash])
  /\ ProcessGone
  /\ UNCHANGED <<disk, dialect, points, saved>>

-----------------------------------------------------------------------------
Recovery == RecoverNothing \/ RecoverDelete \/ RecoverSave \/ RecoverUnlink
Deletes == JournalDeletes \/ DeleteChunk \/ DeletesDone
Parser == \E f \in Files : ReadFile(f) \/ VerifyFile(f)
MainLoop ==
  \/ \E f \in Files : Take(f) \/ DeleteOld(f) \/ PlaceEmpty(f) \/ PlaceInPool(f)
  \/ LoopDone \/ Drain \/ Flush
Worker ==
  \/ \E f \in Files, i \in Indices : Upsert(f, i)
  \/ \E f \in Files : RecordFile(f)
Ending == SaveFinal \/ FinishJournal \/ Finalize \/ AbortSave \/ Exit

\* What the indexer does when nothing goes wrong around it.
Step ==
  \/ Start \/ Recovery \/ Scan \/ Connect \/ Deletes \/ Parser
  \/ MainLoop \/ Worker \/ WriteSnapshot \/ Ending

\* What may go wrong, or change, around it.
Fault ==
  \/ \E f \in Files, h \in Hashes \cup {NoFile} : EditFile(f, h)
  \/ \E d \in Dialects : ChangeDialect(d)
  \/ Crash \/ TornRecord \/ Abort \/ Unreachable \/ SetupFails
  \/ RecoverFails \/ DeleteChunkFails \/ UpsertFails \/ WriteFails
  \/ \E f \in Files : DeleteOldFails(f)

Next == Step \/ Fault

Spec == Init /\ [][Next]_vars
-----------------------------------------------------------------------------
TypeOK ==
  /\ disk \in [Files -> Hashes \cup {NoFile}]
  /\ dialect \in Dialects
  /\ points \in [Files -> [Indices -> Versions \cup {NoPoint}]]
  /\ saved \in Manifests
  /\ journal \in Journals
  /\ pc \in {"off", "recover", "recovered", "unjournal", "scan", "connect",
             "delete", "deleting", "loop", "delold", "place", "flush",
             "drain", "finish", "finalize", "aborting", "exiting"}
  /\ mem \in Manifests
  /\ scan \in [Files -> Entries \cup {NoFile}]
  /\ stage \in [Files -> Stages]
  /\ loaded \in [Files -> Versions \cup {NoFile}]
  /\ info \in Manifests
  /\ unsent \subseteq Files \X Indices
  /\ worker \in {"idle", "busy", "finished"}
  /\ snap \in Manifests \cup {NoSnapshot}
  /\ errors \in BOOLEAN
-----------------------------------------------------------------------------
(* What a refresh promises *)

\* The collection holds what a manifest entry says.  An entry with the empty
\* hash says nothing: the next scan modifies the file.
PointsAgree(f, entry) ==
  /\ entry = NoEntry => points[f] = NoPoints
  /\ entry # NoEntry /\ entry.hash # EmptyHash => points[f] = Full(entry)

\* At every instant, whatever is killed then: a file whose points are not
\* what index_manifest.json says has a journal line that contradicts its
\* entry, so the next run repairs it (recover_pending_points).  This is why
\* the journal exists: nothing else ever looks at the points again.
Covered ==
  \A f \in Files : ~Unresolved(journal[f], saved[f]) => PointsAgree(f, saved[f])

\* The next run will not trust entry x of f: the journal line contradicts it,
\* or its hash is empty.
Exposed(f, x) == Unresolved(journal[f], x) \/ (x # NoEntry /\ x.hash = EmptyHash)

\* Write-ahead rule: the points of a file change only while its journal line
\* contradicts the saved manifest ("before points of a file are deleted or
\* upserted, the change is appended to the pending journal").
AnnouncedFirst ==
  \A f \in Files : points'[f] # points[f] => Exposed(f, saved[f])

WriteAhead == [][AnnouncedFirst]_vars

\* A run that ends without errors (perform_refresh_qdrant returns True, or
\* nothing had changed) leaves an empty journal and every file as the scan
\* saw it, except the files that changed under the reader.
CleanRun ==
  pc = "finalize" /\ ~errors =>
    \A f \in Files :
      /\ journal[f] = NoLine
      /\ PointsAgree(f, mem[f])
      /\ scan[f] = NoFile => mem[f] = NoEntry
      /\ scan[f] # NoFile => mem[f] # NoEntry /\ mem[f].hash \in {scan[f].hash, EmptyHash}

\* A resumed run redoes only what it must: a file whose saved entry, points
\* and bytes agree is not deleted and embedded again ("a resume redoes at
\* most N seconds of work").
FinishedStays ==
  \A f \in Files :
    /\ stage[f] = "idle"
    /\ disk[f] # NoFile
    /\ saved[f] = State(disk[f])
    /\ points[f] = Full(saved[f])
    /\ journal[f] \in {NoLine, saved[f].hash}
    => stage'[f] = "idle" /\ points'[f] = points[f]
KeepsFinishedWork == [][FinishedStays]_vars

\* No orphan vectors: a file that index_manifest.json does not list and whose
\* upsert the journal does not announce has no points, also when dialects
\* change and reads fail.  Nothing would ever delete such points.
NoOrphans ==
  \A f \in Files :
    saved[f] = NoEntry /\ journal[f] \in {NoLine, Deleted} => points[f] = NoPoints

\* Collection, manifest and sources agree.
Synced ==
  \A f \in Files :
    /\ points[f] = IF disk[f] = NoFile THEN NoPoints ELSE Full(State(disk[f]))
    /\ saved[f] = IF disk[f] = NoFile THEN NoEntry ELSE State(disk[f])

\* Claims of the documentation that the code does not keep (see README).

\* "A .sql file whose sql_dialect differs from the manifest is re-chunked on
\* every case": after a run without errors the collection holds no chunk cut
\* under another dialect than the configured one.
DialectApplied ==
  pc = "finalize" /\ ~errors =>
    \A f \in Files, i \in Indices :
      points[f][i] # NoPoint => points[f][i].dialect = dialect

\* "A run killed before the manifest save is repaired by recover_pending_points
\* on the next run": what recovery takes as settled is a complete set of chunks
\* of the entry's bytes, under whatever dialect.
NoPartialFile ==
  \A f \in Files :
    ~Unresolved(journal[f], saved[f]) /\ saved[f] # NoEntry /\ saved[f].hash # EmptyHash
      => \E d \in Dialects : points[f] = Full([hash |-> saved[f].hash, dialect |-> d])

\* "The entry must describe the content that was read, not the scan": a parsed
\* file either carries the empty hash or the chunks of the version it names.
DescribesRead ==
  \A f \in Files :
    stage[f] = "parsed" => info[f].hash = EmptyHash \/ loaded[f] = info[f]

\* The scheduler starts the indexer again and again, and a started run makes
\* its next step unless something stops it.
Fairness == WF_vars(Step)

\* Once files rest and nothing fails any more, the index converges, whatever
\* earlier runs left behind.
EventuallySynced == <>[]Synced

\* The specification under which EventuallySynced is claimed: from some
\* moment on every step is one of the indexer's own.  (Not "no step is a
\* Fault": a last Finalize that saves nothing new looks like a Crash.)
QuietSpec == Spec /\ Fairness /\ <>[][Step]_vars
-----------------------------------------------------------------------------
(* What a stage says about the data the run holds for a file.  TypeOK needs *)
(* it to be inductive; no assumption on dialects or reads is needed.        *)
StagedInv ==
  \A f \in Files :
    /\ stage[f] \in {"parse", "read", "parsed", "current", "pool", "flight"} =>
         scan[f] \in Entries
    /\ stage[f] \in {"parsed", "current", "pool", "flight"} => info[f] \in Entries
    /\ \A i \in Indices : <<f, i>> \in unsent =>
         stage[f] = "flight" /\ Stored(loaded[f], i)

(* The inductive invariant behind Covered and WriteAhead.  It is stated for *)
(* one dialect and for reads that do not fail: IndexRefreshProofs assumes   *)
(* both, and the README shows what happens without them.                    *)

\* Had x been the saved entry of f, f would be covered.
Safe(f, x) == ~Unresolved(journal[f], x) => PointsAgree(f, x)

Recovering == pc \in {"off", "recover", "recovered", "unjournal"}

\* Outside the scan-to-exit part of a run no thread of it holds anything.
QuietInv ==
  Recovering \/ pc = "scan" =>
    /\ stage = [f \in Files |-> "idle"]
    /\ unsent = {} /\ worker = "idle" /\ snap = NoSnapshot

RecoveryInv ==
  /\ pc = "recover" => mem = saved
  /\ pc \in {"recovered", "unjournal"} => \A f \in Files : PointsAgree(f, mem[f])
  /\ pc = "unjournal" => mem = saved

\* A file the run has not touched: nothing is journalled and all agree.  Until
\* a file is done, every manifest (saved, snapshot, memory) has its old entry.
EntryInv(f) ==
  /\ stage[f] \in {"idle", "delete", "parse", "read", "parsed"} =>
       journal[f] = NoLine /\ PointsAgree(f, mem[f])
  /\ stage[f] # "done" =>
       saved[f] = mem[f] /\ (snap # NoSnapshot => snap[f] = mem[f])
  /\ Safe(f, mem[f])
  /\ snap # NoSnapshot => Safe(f, snap[f])

DeleteInv(f) ==
  /\ stage[f] \in {"delete", "deleting"} => mem[f] # NoEntry
  /\ stage[f] = "deleting" => journal[f] = Deleted

\* What the parser found is described by info, or info has the empty hash.
ParseInv(f) ==
  /\ stage[f] \in {"parse", "read", "parsed", "current", "pool", "flight"} =>
       /\ scan[f].hash \in Hashes
       /\ mem[f] # NoEntry => mem[f].hash # scan[f].hash
  /\ stage[f] = "read" /\ disk[f] = scan[f].hash => loaded[f] = scan[f]
  /\ stage[f] \in {"parsed", "current", "pool", "flight"} =>
       /\ info[f].hash \in {scan[f].hash, EmptyHash}
       /\ info[f].hash # EmptyHash => loaded[f] = info[f]

\* The old points of a modified file are gone before new ones are announced.
PlaceInv(f) ==
  /\ stage[f] = "current" =>
       /\ pc \in {"delold", "place"}
       /\ \A g \in Files : stage[g] = "current" => g = f
  /\ stage[f] = "current" /\ pc = "delold" =>
       mem[f] # NoEntry /\ journal[f] = Deleted
  /\ stage[f] = "pool" \/ (stage[f] = "current" /\ pc = "place") =>
       /\ points[f] = NoPoints
       /\ journal[f] = IF mem[f] = NoEntry THEN NoLine ELSE Deleted

FlightInv(f) ==
  stage[f] = "flight" =>
    /\ worker = "busy"
    /\ journal[f] = info[f].hash
    /\ \A i \in Indices :
         points[f][i] = IF Stored(loaded[f], i) /\ <<f, i>> \notin unsent
                          THEN loaded[f] ELSE NoPoint

EndInv ==
  pc \in {"connect", "finish", "finalize"} =>
    saved = mem /\ snap = NoSnapshot /\ worker = "idle"

FileInv(f) ==
  EntryInv(f) /\ DeleteInv(f) /\ ParseInv(f) /\ PlaceInv(f) /\ FlightInv(f)

IInv ==
  /\ TypeOK
  /\ StagedInv
  /\ Covered
  /\ QuietInv
  /\ RecoveryInv
  /\ ~Recovering => \A f \in Files : FileInv(f)
  /\ EndInv

-----------------------------------------------------------------------------
(* The inductive invariant behind NoOrphans, with any dialects and reads.   *)

\* Were x the saved entry of f, f would have no orphan vectors.
Bare(f, x) ==
  x = NoEntry /\ journal[f] \in {NoLine, Deleted} => points[f] = NoPoints

\* Every manifest a step may save keeps the promise; no line is left from an
\* earlier run, and the line of an upsert in flight is its hash.
BareInv(f) ==
  /\ Bare(f, saved[f])
  /\ pc # "off" => Bare(f, mem[f])
  /\ snap # NoSnapshot => Bare(f, snap[f])
  /\ pc = "recover" => (mem[f] = NoEntry <=> saved[f] = NoEntry)
  /\ pc \in {"recovered", "unjournal"} /\ mem[f] = NoEntry => points[f] = NoPoints
  /\ pc = "unjournal" => saved[f] = mem[f]
  /\ ~Recovering /\ stage[f] \in {"idle", "delete", "parse", "read", "parsed"} =>
       journal[f] = NoLine
  /\ stage[f] = "flight" => worker = "busy" /\ journal[f] \in EntryHashes

OrphanInv ==
  /\ \A f \in Files : BareInv(f)
  /\ pc = "finish" => saved = mem /\ snap = NoSnapshot /\ worker = "idle"

(* What CleanRun adds to IInv: how far a run is with its lists.             *)

\* The entry of f is what the scan saw, or names no content.
AsScanned(f) ==
  /\ scan[f] = NoFile => mem[f] = NoEntry
  /\ scan[f] # NoFile => mem[f] # NoEntry /\ mem[f].hash \in {scan[f].hash, EmptyHash}

\* A stage is behind the run once its list is worked off, and a file is left
\* alone or done, without an error, with the entry the scan asks for.
Progress(f) ==
  /\ pc \in {"loop", "delold", "place", "flush", "drain", "finish"} =>
       stage[f] # "delete"
  /\ pc # "deleting" => stage[f] # "deleting"
  /\ pc \in {"drain", "finish"} => stage[f] \notin {"parse", "read", "parsed", "pool"}
  /\ ~Recovering /\ pc # "scan" =>
       /\ stage[f] \in {"delete", "deleting"} => scan[f] = NoFile
       /\ stage[f] = "idle" \/ (stage[f] = "done" /\ ~errors) => AsScanned(f)

CleanInv == CleanRun /\ \A f \in Files : Progress(f)

-----------------------------------------------------------------------------
(* The abstract index: the claim about a file is its entry in the saved     *)
(* manifest, unless the journal line contradicts it or its hash is empty;   *)
(* the plan is what the scan of this run saw.                               *)

CONSTANTS Unknown, NoPlan
ASSUME MirrorConstants ==
  /\ Unknown \notin Versions \cup {NoEntry}
  /\ NoPlan \notin Versions \cup {NoEntry, Unknown}

Claimed ==
  [f \in Files |-> IF Exposed(f, saved[f]) THEN Unknown ELSE saved[f]]

\* An absent entry claims that there are no points.
CompleteChunks ==
  [v \in Versions \cup {NoEntry} |-> IF v = NoEntry THEN NoPoints ELSE Full(v)]

\* What a scan makes of the file as it is now.
Sources ==
  [f \in Files |-> IF disk[f] = NoFile THEN NoEntry ELSE State(disk[f])]

Scanned(f) ==
  IF scan[f] = NoFile THEN NoEntry
  ELSE IF scan[f].hash = EmptyHash THEN Unknown ELSE scan[f]

Planned ==
  [f \in Files |-> IF Recovering \/ pc = "scan" THEN NoPlan ELSE Scanned(f)]

Mirror == INSTANCE SourceMirror WITH
  Complete <- CompleteChunks,
  Absent   <- NoEntry,
  source   <- Sources,
  plan     <- Planned,
  claim    <- Claimed,
  content  <- points

\* Whatever is killed, fails or is edited: a file is claimed only in the
\* content that one scan saw and with exactly its points, a claim the scan
\* confirms outlives the run, and recovery makes no claim but of absence.  No
\* snapshot, interval save or resume brings back a claim of earlier bytes.
ImplementsSourceMirror == Mirror!MirrorSpec

(* What the refinement adds to IInv and Progress.  The three manifests of a *)
(* run move one way only: saved follows the snapshot, and that the memory;  *)
(* where one of them is behind, the journal contradicts it.                 *)
MirrorInv(f) ==
  /\ pc \in {"recovered", "unjournal"} =>
       \/ mem[f] = saved[f] /\ ~Unresolved(journal[f], mem[f])
       \/ mem[f] = NoEntry /\ (saved[f] = NoEntry \/ Unresolved(journal[f], saved[f]))
  /\ ~Recovering /\ pc # "scan" =>
       /\ scan[f] # NoFile => scan[f].hash # EmptyHash
       /\ stage[f] = "idle" => mem[f] = Scanned(f)
       /\ stage[f] = "done" => Exposed(f, mem[f]) \/ mem[f] = Scanned(f)
       /\ saved[f] # mem[f] => Exposed(f, saved[f])
       /\ snap # NoSnapshot =>
            /\ snap[f] # mem[f] => Exposed(f, snap[f])
            /\ saved[f] # snap[f] => Exposed(f, saved[f])

\* A snapshot is only taken in the loop, and only in interval mode.
SnapInv ==
  snap # NoSnapshot => BackgroundSaves /\ pc \notin {"delete", "deleting"}

PlanInv == SnapInv /\ \A f \in Files : MirrorInv(f)
=============================================================================
