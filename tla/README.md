# TLA+ models of the RAG indexer

This directory specifies and verifies the parts of the repository whose mistakes
are silent: keeping a Qdrant collection, its manifests and the source files in
agreement while processes are killed, requests fail, files are edited and git
refs move; answering searches meanwhile; and starting the services both programs
share. Whether a search result is a good one is not its subject. Paths below are
relative to `src/` of the repository; line numbers are in `PROJECT.json`.

## The system

| Part | State it keeps | Operations | Hard about it |
|---|---|---|---|
| Refresh pipeline (`index_rag.py`, `chunk_pool.py`, `upsert_batching.py`) | points in Qdrant, manifest in memory, pool, queue, upsert in flight | delete, parse, pool, flush, upsert, record, finish | up to six kinds of threads, failed requests, kills |
| Pending journal (`pending_points.py`) | append-only file next to the manifest | `record`, `read_journal`, `unresolved_keys`, `finish`, removal | write-ahead order, torn lines, kills in recovery |
| Manifest saver (`manifest_saver.py`) | last save, one background write | `request`, `save_now`, `wait`, `close` | snapshots older than the collection |
| Change detection (`determine_actions`, `manifest.py`, `git_ops.py`) | entries with mtime and hash, recorded commit per repository | scan, fast path, verdicts, `_update_repo_commits` | stale mtimes, HEAD moving during the run |
| SQL dialects (`sql_dialect.py`) | dialect of each source entry and manifest entry | default, comparison | not part of the hash |
| Overlays (`run_branch_overlay_indexing`, `overlay.py`) | one manifest, journal and signature per branch or tag, tombstones | diff, apply, publish, cleanup | refs move between reads, partial cleanup |
| Branch deduplication (`branch_dedup.py`) | none | filter, tombstones, overlay copies | runs against an index in motion |
| Index state (`index_meta.py`) | a document and its tombstone parts as points; per server a cache and reads in flight | publish, read, retry | readers during a publish, parts dropped under a reader |
| Cron guards (`guard_common.py`, `refresh_guard.py`, `git_pull_guard.py`) | lock file, sightings, process table | decide, count, kill, start, stash and pull | check-then-act on processes, pid reuse |
| Search (`search.py`, `fusion.py`, `reranker.py`, `cross_encoder.py`) | none during a search | legs, lookup, fusion, ranking | several requests see several states of the collection |
| Readers (`shared/readers/`) | none | text to documents | what falls between two kinds of chunk |
| Embedding (`embedding.py`, `vram_cap.py`) and provenance (`index_meta.py`) | the record of what embedded a collection | choose device, cap, probe, compare, write | endpoints swapped, records unreadable |
| Containers (`docker_utils.py`) | Docker's containers and ports | find, start, wait | two programs start the same container |
| Programs (`index_rag.py` main, `rag_mcp.py`) | collection, manifest | refresh, `--clear`, `--regenerate-manifest`, serve | a reset cut short, a server that checked once |

`run_refresh_indexing` loads the manifest, lets `recover_pending_points` repair
what the journal names, scans the files, lets `determine_actions` compare them
with the manifest, hands the lists to `perform_refresh_qdrant`, and records HEAD
and the run. `run_branch_overlay_indexing` does the same for each overlay on the
difference of two refs and publishes tombstones through `index_meta`, which the
MCP server reads beside each search. Both programs start the same containers and
compare the same provenance record. Everything that outlives a process is in the
collection, the manifests, the journals, the guards' state files, Docker and
git; everything else is lost by a kill.

## Modules

| Module | Models | Checked by | Proved in |
|---|---|---|---|
| `PendingJournal` | journal lines, manifest entries, `unresolved_keys`, `finish` | `refresh`, `faulty`, `resume` | used by the proofs |
| `IndexRefresh` | one refresh of the main branch and its restarts, `EMBED_PIPELINE_DEPTH = 0` | `refresh`, `faulty`, `resume` | `IndexRefreshProofs` |
| `SourceMirror` | what an index owes to those who edit its sources and to those who read it; refined by `IndexRefresh` | `refresh` | `IndexRefreshProofs` |
| `ChangeDetect` | scan, git and mtime fast path, recorded commits | `detect`, `detect_live` | `ChangeDetectProofs` |
| `Guards` | both cron guards over a process table | `cron` | `GuardsProofs` |
| `Ranking` | sorting and filtering of lists, by any order | `search`, `overlay` | used by the proofs |
| `BranchDedup` | operators of `branch_dedup.py`; used by `OverlayIndex` and `Search` | `overlay`, `search` | `SearchProofs` |
| `OverlayIndex` | one branch or tag overlay against moving refs | `overlay` | `OverlayIndexProofs` |
| `StateServing` | publishing tombstones and searches that read them | `serving` | `StateServingProofs` |
| `EmbedPipeline` | the threads of a refresh with `EMBED_PIPELINE_DEPTH > 0` | `pipeline` | `EmbedPipelineProofs` |
| `Fusion`, `Rerank`, `Search` | one search: requests, fusion, symbol lookup, ranking | `search` | `SearchProofs` |
| `SourceTree`, `StructuredReaders`, `JavaStyleReaders`, `CppReader`, `FileReaders` | ten tree-sitter readers and the layout of their chunks | `readers` | |
| `EmbedDevice`, `Containers`, `Provenance`, `Deployment` | devices, cap, containers, provenance, and the two programs from start to end | `services` | `DeploymentProofs` |

`MC*` modules define the instances. `Deployment` extends `Containers` and
`Provenance`, which extend `EmbedDevice`: each layer is the vocabulary of the
next. `Search` extends `Fusion` and instantiates `Rerank` and `BranchDedup`, and
all three extend `Ranking`; `FileReaders` extends the three modules of readers, which
extend `SourceTree`.

### IndexRefresh

Each file carries its own stage: `idle`, `delete`/`deleting` (removed files),
`parse`, `read`, `parsed` (parser thread and its bounded queue), `current` (main
thread), `pool`, `flight` (upsert worker), `done`. The lists, queue, pool and the
upsert in flight of the code are the sets of files in a stage. `pc` is the
statement the main thread stands before. A version is what the chunker makes of
a file: its hash under a dialect; `points[f][i]` says of which version the chunk
at (file, index) is, which is what a deterministic point id identifies.

| Actions | Code |
|---|---|
| `Start`, `Recover*` | `load_manifest`, `recover_pending_points`, one action per durable effect |
| `Scan` | `get_current_file_states`, `determine_actions` (every hash compared) |
| `JournalDeletes`, `DeleteChunk`, `DeleteChunkFails`, `DeletesDone` | the delete loop and its `save_now` |
| `ReadFile`, `VerifyFile` | `_parse_one_file`: the reader, then `_verify_unchanged_since_scan` |
| `Take`, `DeleteOld`, `DeleteOldFails`, `PlaceEmpty`, `PlaceInPool`, `LoopDone` | the main loop |
| `Flush`, `Drain` | `_flush_pool`, `_drain_pending_upsert` |
| `Upsert`, `UpsertFails`, `RecordFile` | `_do_background_upsert` on its thread |
| `WriteSnapshot`, `WriteFails` | the background writer of `ManifestSaver` |
| `SaveFinal`, `FinishJournal`, `Finalize`, `Abort`, `AbortSave`, `Exit` | the three ways a run ends |
| `Crash`, `TornRecord` | a kill anywhere, and a kill while lines are appended |

Saves are single steps because `write_manifest_file` writes a temporary file and
renames it (in both of its modes, although its docstring, `index_rag.py:218-222`,
says so of one). The counter that makes a drain ask for a save (`save_batch_size`)
and the interval clock are abstracted to a choice: a drain may or may not save. A
batch of an upsert is a set of points that arrive in any order. One assumption is
on the editor (`EditFile`): it does not restore the scanned bytes in the instant
between the reader's read and the second hash, where no hash could tell.

`SourceMirror` knows neither manifest nor journal nor process. Of each file it
claims a content or nothing. A plan is what one look at the sources found, and it
stands while the sources go on changing; claims move by the plan only. One that
the plan confirms is kept, with its points; another is withdrawn before its points
move; a new one is made of what the plan names, once the points bear it out.
Without a plan (recovery) the only new claim is that a file has nothing. In
`IndexRefresh` the claim is what the saved manifest lists and no journal line
contradicts (`Claimed`), the plan is the scan of the run (`Planned`), and
`ImplementsSourceMirror` says that every step of the threads, the recovery and the
kills is a step of `SourceMirror`. So no late snapshot, resumed run or recovery
brings back a claim of earlier bytes or makes one of bytes no scan saw, which
`Covered` and `WriteAhead`, speaking of points and journal alone, do not say.

A chunk whose vector says nothing is not stored (`Blank`, `Stored`); the same chunk
gets the same vector in every run. `SetupFails` is an exception between the
connection to Qdrant and the first delete.

### ChangeDetect

Contents, mtimes in whole seconds, the branch HEAD and the recorded commit are
variables, and editors and git act at any moment, also between `stat` and hash of
one file and between scan and the recording of HEAD. A commit is the tree it
records. `Skip` is cases A and B of `determine_actions`; case C, or a failing git
command, skips nothing. Indexing is reduced to the entry it leaves, because
`IndexRefresh` models the rest. A write gives a file the current second as mtime:
tools that set an older mtime (`cp -p`, `tar`) are outside the claim.

### Guards

A pid runs a script and stands before a statement (`at`); each guard holds what it
listed from the process table, so that what it acts on may be gone. Processes end
at any moment and pids are used again. The state file of a script keeps one
counted process; its start time is kept as what a comparison with the pid's
present process will yield. Listing the processes, counting, the kill that may be
denied, the second listing after a kill and the start are one action each under
the lock, as are the reading of the state file and the listing that follows it (`LockStatements`), as `refresh_guard.py` makes them. A refresh guard
that waits for its indexer has released the lock and can no longer be told from
an ended one; the model ends it at once. `git_pull_guard.py` takes no lock.

### OverlayIndex

The refs that decide an overlay (head and merge base, or tag and main tip) are
one number and the differing files its tree. A run resolves the refs, compares
the signature, diffs, announces in the overlay's journal, deletes, upserts and
saves its manifest, one action each; the save of a manifest and the removal of
the journal are two (`RecoverSave` and `RecoverUnlink`, `IndexSave` and
`IndexFinish`, `Stamp` and `FinishJournal`). Refs move, the configuration changes, the
collection is dropped, requests fail and processes die in between. The
configuration (`conf`) has the overlay, has dropped it, has its name as the main
branch of a repository, whose points the clean-up must leave alone (`Removable`,
`Excess`), or has no git repository, where a run does nothing. `Served` runs
the real deduplication of `BranchDedup` on what a search would find. `lost` is
a history variable: the files whose points went, or stayed behind, without a line
in the journal, with a dropped collection or in a removal; the code has no
means to see them, and the safety properties speak of the other files.

### StateServing

The indexer writes parts, switches the document, drops old parts; the document is
kept in the collection's metadata, in a point, or both, depending on the server.
A search reads the document, then takes the cache, leads a read or waits for one,
and reads again when the parts have gone (`_retry_fresh`). A digest is the set it
is computed from. `Excuse` names the cases in which a search may be given an older
set: nothing was published, the document changed twice or back again while the
search ran, only the keys per point changed, or a request failed.

### EmbedPipeline

A chunk's vector is the chunk itself, so a vector under another chunk's id shows.
The parser thread, the bounded queue with its sentinel, the main thread with its
pools, the dense workers with mini-batches answered in any order, each request with
tries of its own, and
the post worker with its batches by points and bytes, halved on rejection, are
separate processes; an exception in any of them travels as in the code. Requests
that fail, and answers with fewer vectors than asked for, come from the budget
`faults` of a corpus; a worker whose request has failed for good still waits for
its other requests. Nothing limits how many requests of a job are open at a time:
fewer (`TEI_CONCURRENT_REQUESTS`) only rule out some orders. Answers longer than
asked for are not modelled.

A pool is the set of its entries (file, and the place its documents start at) and
the flat list of documents, as in `ChunkPool`; a job adds the flat list of vectors.
Which point a vector becomes is read off the entries (`PointAt`), so that a wrong
offset would show. A batch is a set of places in that list. Sorting by length and
putting the vectors back (`_embed_batched`) is an operator on the list.

### Search, Fusion, Rerank

The dense leg, the sparse leg and the symbol lookup run concurrently and each sees
the collection as it is at that moment; tombstones are read after them. Fusion
(RRF and DBSF, alpha by query shape) computes with integers instead of
floats: the unit is divisible by every rank, so that RRF is exact; DBSF computes mean,
deviation (by an integer root) and norm of each leg (`NormaliseLeg`) and rounds
down, which ties more scores than floats do. A sort is a list that follows a
relation (`Ranked`), the relation being the sort key of the code. What regular expressions say of a
query or a chunk is a constant (`Facts`, `Queries`).

### Readers

A file is a tree of node kinds with sizes: empty, tiny (below `MIN_CHUNK_SIZE`), short,
plain, long, and ragged (long with a last part that is tiny). `load_data` is
modelled as read, walk (one node per step, with the context the code hands down),
emit (grouping of trivial methods, splitting). `XxVerdict` is what each reader does
with one node. `Unkept` lists the places whose text the readers drop on purpose or
by oversight, one by one (see Findings); everything else must be in a document.

### Deployment and below

The indexer and the server choose an engine and a device, look for, start and wait
for their containers, load the model, probe the endpoint, compare the provenance
record and go on. A space stands for everything that decides how a text is
embedded. The cap solves its quadratic as the code does and aligns the root to 128
tokens (`SolveLength`, `Aligned`), in whole numbers: memory in KiB, the root in grains
of 8 tokens. What that loses is less than a grain and a KiB, where the code's floats
round too. The refresh itself is one step per
file here.

## Runs

| Run | Bounds | Shows |
|---|---|---|
| `refresh` | 2 files, contents of 1 and 2 chunks (the second without a vector), delete chunks of 1, queue 1, pool of 2 files or 3 chunks, synchronous saves, files symmetric | `Covered`, `CleanRun`, `WriteAhead`, `KeepsFinishedWork`, `ImplementsSourceMirror` |
| `faulty` | 2 files, 1 content, 2 dialects that cut it into 1 and 2 chunks, reads that fail, delete chunks of 2 | `NoOrphans` |
| `resume` | 2 files, 1 content of 2 chunks, pool of 1 file, background saves, `QuietSpec` | `IInv` of the proofs, `EventuallySynced` |
| `detect` | 2 files, 2 contents, 2 seconds, threshold 50 %, reads that fail | `SkippedIsCurrent`, `IInv` of the proofs |
| `detect_live` | 2 files, 1 content, `QuietSpec` | `EventuallyListed` |
| `cron` | 2 refresh guards, 1 pull guard and 2 indexers, or 2 pull guards and 1 indexer; 3 sightings; `QuietSpec` | `OneIndexer`, `KillsOnlySeen`, `NoStartUnderPull`, `HungReplaced` |
| `overlay` | 2 files, 2 contents, branch and tag; failed requests and kills with refs moving inside a run, or a dropped collection with refs moving back and forth, or failures and kills while the overlay's name becomes a main branch or the last repository goes; 2 moves, 2 faults | `VouchedIsStored`, `VouchedIsLean`, `StrayIsAnnounced`, `ManifestGoesLast`, `EventuallySettled` |
| `serving` | 2 tombstone sets, 1 or 2 keys per point, 2 threads; two searches with one event or one search with two | `DocIsReadable`, `SearchIsCurrent`, `SearchesReturn`, `EventuallyPublished` |
| `pipeline` | three corpora of 3 to 5 files, depth 1 and 2, 1 to 3 faults, queue 1, pool 2, mini-batch 2, upserts of 3 points or 4 bytes, 1 retry, TEI and local | `OwnVectors`, `EntriesAreStored`, `RunIsComplete`, `InFlightIsBounded`, `EventuallyEnds` |
| `search` | 4 chunks (main, overlay, no branch), the collection before and after the overlay, 10 queries over options, fusion and alpha | `OneVersionPerPath`, `DominantFirst`, `HitsNeedRules` |
| `readers` | every well-formed tree of up to 2 nodes, and every such growth of starts with up to 3 nodes, over grammars of ten languages and Kotlin scripts | `NothingLost`, `OwnPrefix`, `NothingTwice` |
| `services` | remote, flaky, old-collection, Docker and graphics-card worlds: 2 files, 2 versions, 2 models, 2 cards | `RecordTellsTruth`, `AnswersFit`, `ListedIsStored`, `OwnServer`, `LengthFits` |

Why the bounds are enough: a property of `IndexRefresh` and `ChangeDetect` speaks of
one file at a time, and files meet only in the pool, the delete chunks, the torn
journal write and the threshold; two files fill and overflow each of them. Two
chunks make a partial file. Two contents let a file change, and be changed back.
Nothing bounds the number of runs, kills or failures there, nor of ticks in
`cron`; two guards and two indexers are a pair for every race, and the proofs cover
all other values. Where no proof does: two faults and two moves let one fault hit
the repair of another and a ref move twice within a run; two searches are a
leader and a waiter; depth 2 with three pools lets pools finish out of order and
one wait for memory; trees grown from a nested start reach a member of an inner
type, where owners and prefixes can be mixed up.

Deadlock is checked except where the modelled process comes to an end: one refresh
(`pipeline`), one search (`search`), one file (`readers`), a bounded number of
events (`serving`).

### Counterexamples

These configurations are kept to replay what a comment or a document says and the
code does not do. `tlc -config X.cfg M` finds the violation of the first property;
where there are several, the others are in the file to be switched on, with the
constants they need.

| Configuration | Module | Properties |
|---|---|---|
| `refresh_claims` | `MCIndexRefresh` | `DialectApplied`, `NoPartialFile`, `DescribesRead` |
| `emptyhash` | `MCChangeDetect` | `EmptyHashReindexed` |
| `pull_race` | `MCGuards` | `TreeRests` |
| `overlay_claims` | `MCOverlay` | `VouchedIsServed`, `EventuallyReembedded`, `SkippedIsSame`, `VouchedIsWhole`, `EventuallyRemoved` |
| `stale_meta` | `MCServing` | `DocIsReadable`, with metadata updates that fail |
| `kotlin_docs` | `MCReaders` | `DocsStayWithMembers` |
| `regenerate` | `MCDeployment` | `RegeneratedIsStored` |

## Fairness

- `IndexRefresh`, `ChangeDetect`: `WF_vars(Step)`. Cron starts the indexer again and
  again, and a started run makes its next step unless something stops it.
  Liveness is claimed from the moment on when every step is the indexer's own and
  no request fails (`<>[][Step]_vars`, `<>[][Step \/ Tick]_vars`); before it anything
  may have happened.
- `Guards`: cron ticks and started guards go on, from the moment on when nothing
  fails (`<>[][QuietStep]_vars`). Indexers and pulls get no fairness: they may hang,
  which is what the guards are for.
- `OverlayIndex`: `WF_vars(RunStep)`, for the same reason; faults and moves are
  bounded, so the last of them is followed by undisturbed runs.
- `StateServing`: the publisher runs again after a failure, and each search that was
  called is run by its own event loop or thread.
- `EmbedPipeline`: each thread that can go on does. One condition covers all dense
  workers, as the pool gives no job a worker of its own.

## Proofs

| Theorem | States | Assumes |
|---|---|---|
| `TypeCorrect` | `Spec => []TypeOK` of the refresh | nothing beyond the constants |
| `OrphansNever` | `Spec => []NoOrphans` | nothing beyond the constants |
| `InvariantHolds` (`IndexRefreshProofs`) | `Spec => []IInv` | one dialect, reads do not fail (`Steady`) |
| `JournalCovers` | `Spec => []Covered` | the same |
| `CleanRunHolds` | `Spec => []CleanRun` | the same |
| `WritesAhead` | `Spec => WriteAhead` | the same |
| `FinishedWorkKept` | `Spec => KeepsFinishedWork` | the same |
| `RefreshImplementsSourceMirror` | `Spec => ImplementsSourceMirror` | the same |
| `InvariantHolds` (`ChangeDetectProofs`) | `Spec => []IInv` | a file is not written twice within a second |
| `FastPathSound` | `Spec => []SkippedIsCurrent` | the same |
| `InvariantHolds` (`GuardsProofs`) | `Spec => []IInv` | nothing beyond the constants |
| `OneIndexerHolds`, `KillsOnlySeenHolds`, `NoStartUnderPullHolds` | the three safety properties of `cron` | the same |
| `StoreInvariant` | `Spec => []StoreInv` of an overlay | nothing beyond the constants |
| `NoStrayPoints`, `RemovalIsLast` | `Spec => []StrayIsAnnounced`, `Spec => ManifestGoesLast` | the same |
| `SignatureVouches`, `SignatureIsLean` | `[]VouchedIsStored`, `[]VouchedIsLean` | refs move forward, not between the looks of one diff, and git shows its files (`Orderly`) |
| `PartsBeforeDocument`, `TombstonesAreCurrent` | `[]DocIsReadable`, `[]SearchIsCurrent` | metadata updates do not fail (`~MetaFaults`) |
| `OwnServerHolds` | `Spec => []OwnServer` | nothing beyond the constants |
| `RecordIsTrue`, `QueriesFit`, `ListedPointsExist` | `[]RecordTellsTruth`, `[]AnswersFit`, `[]ListedIsStored` | nothing beyond the constants |
| `CapFits` | `Spec => []LengthFits` | where the cap is a promise (`CapReadsTheCard`) |
| `InvariantHolds` (`EmbedPipelineProofs`) | `Spec => []IInv` | nothing beyond the constants |
| `OwnVectorsHolds`, `EntriesAreStoredHolds`, `RunIsCompleteHolds`, `InFlightIsBoundedHolds` | the four safety properties of `pipeline` | the same |
| `SearchOneVersion` | `Spec => []OneVersionPerPath` | no file has both chunks of the overlay and chunks without a branch (`NonGitApart`) |
| `SearchDominantFirst`, `SearchHitsNeedRules` | `[]DominantFirst`, `[]HitsNeedRules` | the same, being in one invariant |

The assumptions that are not about the shape of a constant name what really goes
wrong without them: `DialectApplied`, `NoPartialFile` and `DescribesRead` (Findings)
show it for `Steady`, `EmptyHashReindexed` for the second in which a file is written
twice, `SkippedIsSame` for `Orderly`, `stale_meta` for `~MetaFaults`.
`DeploymentAssumption` says that the two programs are processes, that a TEI
config names a TEI model, and that a collection an older release left holds the
sources and is in doubt, which is how `Init` starts with one. `CapReadsTheCard` holds
in every world of `services`; it excludes the configurations in which the code
computes a cap for something else than the card: memory given by hand
(`EMBED_VRAM_DEDICATED_MB`, `EMBED_VRAM_SHARED_MB`), the dtype "fp32" (Findings),
and a configured length below 128 tokens, the least cap.

**Refresh.** `TypeCorrect` needs `StagedInv`: that a file beyond the scan has a scan
record, and one beyond the parser has a file info. `Covered` alone is not inductive:
it must be known why the saved entry of a file is still safe while the run works on
it. `IInv` adds, per file: until a file is done every manifest (saved, snapshot, in
memory) has its old entry (`EntryInv`); a modified file's old points are gone
before its new ones are announced (`PlaceInv`); in flight, the points are exactly
those already sent (`FlightInv`); what `info` says is what was read, or it has the
empty hash (`ParseInv`); nothing runs outside a run (`QuietInv`); recovery leaves
memory in agreement with the collection (`RecoveryInv`). The proof has a lemma per
group of actions, and `Frame` for steps that leave a file alone. The refinement
maps the initial state and each step: points move unclaimed because of
`WriteAhead`, and a claim is made of the scan because the three manifests of a run
move one way only: the saved one follows the snapshot, that the memory, and where
one is behind, the journal contradicts it (`MirrorInv`, `SnapInv`, `PlanInv`).

`NoOrphans` holds with failing reads and changing dialects too, so it has an
invariant of its own: every manifest a step may still save (saved, snapshot, in
memory) is `Bare`, that is, names each file that has points unless the journal does;
the journal says nothing yet of a file the run has not touched, and of one in flight
it says its hash (`BareInv`, `OrphanInv`). `CleanRun` adds to `IInv` how far a run is
with its lists (`Progress`): a stage is empty once the loop over it is behind, and a
file that is left alone or done has, without an error, the entry the scan asks for.

**Change detection.** `FastPathSound` rests on `Fresh`: a hash recorded with mtime t
describes the file as long as its mtime is t. Writes make t old, scans and entries
take the mtime that was read before the hash, and a skipped file has the mtime of
its entry.

**Guards.** The invariant has three parts beside types. Whoever stands before a
statement of the decision holds the lock; of the pull guards that ran at the
decision (`older`) none is left once the guard turns to the indexers, and none of
the indexers once it stands before the start (`LockInv`). Before a count or a kill
there is a target (`TargetInv`). A stored count, wherever it is held, never exceeds
how often that very process was seen (`SightInv`, with `Earned`), however pids are
used again.

**Overlays.** `StoreInv` needs no order of the refs: the manifest in memory is the
saved one until recovery or work changes it (`MemInv`), and a file is worked on
because its entry differs, under a line that says what is done to it, so that its
points are there once the line is resolved (`WorkInv`). That a signature tells the
truth is a second layer: the number of a ref pair names its tree (`RefsInv`), an
undisturbed run brings the manifest to the states of its difference (`StatesInv`),
and a manifest stamped for the refs as they are lists what they have and is not
changed any more (`StampInv`).

**Serving.** The parts of the document, and of the one about to replace it, are there
(`PubInv`). A flight has one leader, who reads what it claimed (`FlightInv`), and
every set a search may be handed, by the cache, by a leader or by its own read, was
current after the search began, or the search is excused (`SeenInv`).

**Programs.** `DockerInv` says that Docker gives a port to one running container and
that what a process saw running still runs; so the container behind the URL is its
own. `RecordTellsTruth` is tied to `IndexerInv`: a process that compared a
fingerprint, or just wrote one, embeds in the recorded space until an endpoint
changes under it; a container once up is not replaced by another start, because
its port is taken (`SpaceStays`). Points without a full record leave doubt
(`CollInv`), so a record written at the end of a run cannot make old points look
verified. `ServerInv` says the same of the server, and `AnswersFit` follows.

`LengthFits` needs that the card the cap was computed for is the one the model is on:
until the memory of a card moves (`steady`), the device was chosen as it would be
chosen again (`LengthInv`), and `resolve_embed_max_seq_length` looks at that card
(`LoadedFits`). That the root solved for is within the budget is `SolutionFits`: the
memory a length takes is the quadratic (`UsageIsQuadratic`), and the integer root
does not round up (`RootOfSquare`, from the least-number principle).

**Pipeline.** The documents of every entry are where the entry says, and every document
belongs to an entry (`Laid`, `PoolInv`); a pool keeps that when it becomes a job, and
the vectors of a job are its documents wherever a request was answered (`Embeds`,
`JobsInv`), since sorting by length is a permutation that is undone
(`PlacesDiffer`). One job at a time is being stored, and each of its points is
stored, without a vector, or in a batch not yet sent: the batches that
`split_batches` cuts cover the job, and so do the halves of a rejected one
(`PostInv`). A manifest entry is made from such a job when no batch is left
(`StoredInv`). No file is lost because it is always somewhere: unparsed, in the
parser's hand, in the queue, in the pool, in a job in flight, or with an entry or an
error (`FlowInv`); the sentinel is the last the queue holds. The bound on the pools
in flight needs only that a flush waits for room (`InFlightInv`).

**Search.** Every sort of the code is a total order of places, ids or ranks, and a
total order of a finite set has a list: the place of a member is the number of
those before it (`OrderedRow`), which needs no induction over lists. So each step
after retrieval arranges, cuts or joins lists that hold a chunk once (`Listed`), and
the properties are about the ids they show. `SearchInv` says that of the legs, the
hits and the pool, and that the pool falls by score (`Falling`).

`OneVersionPerPath`: deduplication decides per path, so the winners of one list
agree on the version (`KeptSingle`); a node that is left and a hit that is left
were judged on the union of both (`NodeMeetsHit`). A chunk without a branch is
never dropped from the nodes for an overlay chunk among the hits: this is where
`NonGitApart` is needed, which is how the collection is filled, since
`backfill_branch_payload` (`index_rag.py:1467`) labels the chunks of every git file
before the first overlay is indexed. `DominantFirst`: what a leg adds to a score never
grows with the rank (`RrfShares`, `DbsfShares`), and where the scores tie the better
rank decides, then the first appearance (`Dominance`). `HitsNeedRules`: without a
rule the order by score is the order in which the candidates came, hits last
(`FirstStayAhead`), and deduplication leaves enough nodes to fill the answer
whenever the candidates the pool brought do (`OverlayFills`).

Model-checked only: all liveness properties (out of the proof system's reach, as is
`ENABLED`), and the properties of `readers`. Their operators recurse over trees;
what such an operator returns for every tree is an induction over data, which the
library's theorems offer only with an operator as a parameter. Lists could be
reached by counting (`OrderedRow`); for trees it is open (Plan).

The inductive invariants were checked with TLC before they were proved: as
invariants of the runs where a run lists `IInv`, and otherwise on the instances of
`faulty` and `refresh` (`OrphanInv`, `CleanInv`), `overlay` with `AllFaults`,
`serving`, `services` and `pipeline` (`IInv`; `LengthInv` on `services`), and `search`
(`SearchInv`, on an instance that extends `SearchProofs`), which the
same configurations repeat with another `INVARIANTS` line.

## Findings

With a counterexample configuration:

1. `DialectApplied`: `load_manifest` (`index_rag.py:203`) drops the `sql_dialect` of every
   entry, and a missing one means tsql. After "postgresql" is switched back, the
   other dialect's chunks stay; `docs/git-overlays.md:91` and `index_rag.py:921` say
   that a differing dialect is re-chunked.
2. `NoPartialFile`: the journal cannot tell a file chunked again under another dialect
   from a finished one (`pending_points.py:86`, hashes only), so a kill leaves a
   partial file, against `index_rag.py:2597`, if the dialect is switched back.
3. `DescribesRead`: a file that cannot be read for a moment gets its real hash and no
   chunks (`index_rag.py:3394`), against the comment one line above.
4. `EmptyHashReindexed`: an entry with the empty hash is skipped when its mtime matches
   (`index_rag.py:1009`), although `index_rag.py:1389` says it is indexed again.
5. `TreeRests`: `git_pull_guard` takes no lock (`git_pull_guard.py:303`), so an indexer
   can start between its look at the process table and its pull, against "so the
   working tree never changes under the indexer" (`docs/indexing.md:243`).
6. `VouchedIsServed`: when the hashes show no work and the new diff deletes nothing, the
   old tombstones stay (`index_rag.py:1973`), so a file the overlay deleted and
   restored stays hidden; `docs/git-overlays.md:59` calls them the paths the overlay
   deletes.
7. `EventuallyReembedded`: an overlay with tombstones is not indexed again after its collection
   was dropped (`index_rag.py:1924`), against the comment at 1926-1930.
8. `SkippedIsSame`: a run killed before its final stamp has saved new entries under the
   old signature (`index_rag.py:2063`); when the ref returns to its old commit they
   are trusted, against `overlay.py:264-266`.
9. `DocIsReadable` (`stale_meta`): a failed update of the collection's metadata is taken for a server
   without metadata (`index_meta.py:428`); readers prefer the metadata, whose parts
   are dropped next, against "Switch the document first" (`index_meta.py:425`).
10. `DocsStayWithMembers`: the comment above a grouped Kotlin member is lost
    (`kotlin_reader.py:840`), against `kotlin_reader.py:714-715`.
11. `RegeneratedIsStored`: `regenerate_manifest_qdrant` leaves its loop before it reads the
    last page (`index_rag.py:338-340`), against `docs/indexing.md:26`.
12. `VouchedIsWhole`: the removal of an overlay that is no longer configured fails or
    is killed after some of its points are gone (`index_rag.py:2150-2180`), and the
    overlay is configured again: its manifest and signature still match, one point
    is left, and `_overlay_unchanged_since_last_run` asks for no more than that
    (`index_rag.py:1660-1668`), so the missing files stay missing, against "A manifest
    that lists files while Qdrant holds no points for the label (collection cleared)
    is not trusted" (`index_rag.py:1646`) as far as its reason goes.
13. `EventuallyRemoved`: once the last git repository has left the config, a run does
    neither the overlays nor their clean-up (`index_rag.py:586-593`), so points and
    manifest of an overlay stay, against "Removing an overlay from config deletes its
    points and manifest on the next run" (`index_rag.py:1687`).

Met while modelling:

- Refresh: the HNSW threshold stays deferred after an exception
  (`index_rag.py:2868`).
- Overlays: refs can move between the resolve and the diff (`overlay.py:103-105`);
  a failed `git show` is covered by the new signature (`index_rag.py:1889`); a first
  run killed before its manifest is saved leaves points no one cleans up when the
  overlay is then removed from the config; a kill in a forced re-embed leaves a
  partial overlay that is taken as up to date.
- Serving: when only the keys per point change, the digest stays and `_retry_fresh`
  takes the dropped parts for a real failure; a document that changes and changes
  back can hand a waiting search the other set.
- Search: `docs/git-overlays.md:100` holds only for copies that were retrieved;
  `CHANGELOG.md:38-41` words it correctly.
- Guards: a failed pull leaves local changes in the stash.
- Services: `_resolve_tei_gpu_flag` is evaluated twice, against the comment at
  `docker_utils.py:655`; nvidia-smi wins without PyTorch being asked, against the
  docstring of `_resolve_pytorch_device`; the cap counts "fp32" as two bytes while
  the model loads with four, and uses the indexer's device also for the server;
  `--clear` killed after the collection is gone leaves a manifest of it, and one
  whose delete failed lets a regenerate stamp current hashes on old points; a
  provenance read that fails for a moment skips the check; a crash between
  creating a collection and writing the record leaves it without one; the server
  compares once; a health check asks a port, not a name; the loser of two
  concurrent `docker run --name` exits.
- Readers: an unreadable file yields no documents and a log line. A piece below
  `MIN_CHUNK_SIZE` without a prefix, and such a last part of a long one, is dropped
  (`_structured.py:200`, `230`); `NothingLost` excepts the first (`TooSmall`). Groups mix
  prefixes: Rust methods of adjacent impl blocks, PHP functions of adjacent
  namespaces, Java headers by simple name; later parts of long Java, Groovy and JS
  methods have no prefix; Groovy's `class_index` is always empty. In no chunk are:
  Javadoc inside summarised classes, Java static initialisers, empty types and
  bodies of enum constants; annotated Groovy fields; other statements, imports
  and comments in Python class bodies; PHP comments above `use` or script; what is
  beside the callback in a JS IIFE with `define()`; plain JS statements under `if`;
  C++ member templates, `using` and `friend` declarations, typedefs and macros in
  classes, top-level aliases, unnamed structs and short initialised data.

## Plan

1. `NothingTwice` of `FileReaders` for trees of any size: its recursive operators
   as functions, and the walk's stack as the measure of an induction over steps.
2. `EmbedPipeline` shown to implement `SourceMirror` too, which needs its journal in
   the detail `IndexRefresh` has.
3. The branch-payload backfill as part of `OverlayIndex`, and the two-pass mode.

## Not modelled

The one-time backfill of the branch payload (`index_rag.py:1467-1575`) and
`build_branch_resolver`; `git_pull_all.py`, which pulls several repositories without
a guard; the two-pass hybrid mode, which differs in which legs a work item
carries and fills what is missing with a zero vector (`index_rag.py:3740`); the
default fusion mode minmax (`fusion.py:53`), which is done by the vector store's
library (`fusion.py:353`); the readers that cut lines or listed formats (Pascal, SQL, forms,
reports, Hibernate mappings, text), whose risk is in their expressions; error recovery,
split signatures and header blanking of the C++ reader; the payloads of HTTP
APIs, configuration parsing, validation tools, logging, scripts, GPU statistics
and the Qdrant client's wrappers, which are input and output only. File keys are
opaque: excludes, gitignore and the migration of old manifest keys are left out.
A manifest that does not parse is left out too: saves replace the file atomically.
