---------------------------- MODULE EmbedPipeline ----------------------------
(***************************************************************************)
(* The threads of a refresh with EMBED_PIPELINE_DEPTH > 0, from the parsed *)
(* file to the stored points (index_rag._perform_refresh_qdrant_impl,      *)
(* shared/chunk_pool.py, shared/embedding.py, shared/upsert_batching.py):  *)
(* the parse-ahead thread and its bounded queue, the main thread, the      *)
(* dense workers with their concurrent requests and retries, and the post  *)
(* worker with its halved batches.  (IndexRefresh has the serial flush.)   *)
(*                                                                         *)
(* A chunk is <<file, index>>; the vector of a chunk is the chunk itself,  *)
(* so that a vector stored under another chunk's id is seen.               *)
(***************************************************************************)
EXTENDS Integers, Sequences, FiniteSetsExt

CONSTANTS
  Corpora,        \* [size: size of every chunk of every file, zero: chunks whose vector
                  \*  is zero, depth: EMBED_PIPELINE_DEPTH, faults: bound on failing steps]
  Backends,       \* subset of {"tei", "local"}
  QueueSize,      \* EMBED_PARSE_QUEUE_SIZE
  PoolMaxChunks,  \* EMBED_POOL_SIZE
  PoolMaxFiles,   \* EMBED_POOL_MAX_FILES
  MiniBatch,      \* _CONCURRENT_MINI_BATCH
  UpsertPoints,   \* QDRANT_UPSERT_BATCH_SIZE
  UpsertBytes,    \* QDRANT_UPSERT_MAX_BYTES
  Retries,        \* TEI_TRANSIENT_RETRIES
  NoVector

ASSUME PipelineConstants ==
  /\ Backends \subseteq {"tei", "local"}
  /\ {QueueSize, MiniBatch, UpsertPoints} \subseteq Nat \ {0}
  /\ {PoolMaxChunks, PoolMaxFiles, UpsertBytes, Retries} \subseteq Nat

\* A file without chunks is never put into the pool.
ASSUME CorporaShape ==
  \A c \in Corpora :
    /\ c.size \in Seq(Seq(Nat)) /\ \A f \in 1 .. Len(c.size) : c.size[f] # <<>>
    /\ c.depth \in Nat \ {0} /\ c.faults \in Nat

VARIABLES
  corpus, backend,
  unparsed,   \* files the parser has not read yet
  reader,     \* the parser thread: "read", "put", "end" (sentinel to put), "gone"
  hand,       \* the file it wants to put
  parserError,
  queue,      \* parsed files; "end" is the sentinel
  main,       \* the main thread: "loop", "flush", "reap", "final", "drain", "save", "ended", "raised"
  pool,       \* files in the ChunkPool
  jobs,       \* every pool that was submitted, in order
  inflight,   \* _inflight: the jobs whose result was not applied
  postQueue,  \* jobs whose dense stage is over, in order of completion
  unsent,     \* batches of the upsert under way
  stored,     \* Qdrant: points <<chunk, vector>>
  deferred,   \* the collection's HNSW indexing is deferred
  journal, manifest, errored,
  faults

parser == <<unparsed, reader, hand, parserError>>
results == <<journal, manifest, errored>>
vars == <<corpus, backend, parser, queue, main, pool, jobs, inflight,
          postQueue, unsent, stored, deferred, results, faults>>

Depth == corpus.depth
Files == 1 .. Len(corpus.size)
ChunksOf(f) == [i \in 1 .. Len(corpus.size[f]) |-> <<f, i>>]
SizeOf(c) == corpus.size[c[1]][c[2]]

\* FileEntry of the ChunkPool: the file and where its documents start.
Entry(f, start) == [file |-> f, start |-> start]
FilesOf(entries) == {e.file : e \in entries}

\* The pool, with its documents in the order collect puts them.
EmptyPool == [entries |-> {}, docs |-> <<>>]
Count(p) == Len(p.docs)
Add(p, f) ==
  [entries |-> p.entries \cup {Entry(f, Count(p))}, docs |-> p.docs \o ChunksOf(f)]

-----------------------------------------------------------------------------
(* _embed_batched: longest first, put back in order.  Its batches go to the *)
(* model one after the other in that order, so cutting them moves nothing.  *)

\* Place of the i-th document when the longest come first (a stable sort).
Place(docs, i) ==
  1 + Cardinality({j \in 1 .. Len(docs) :
        \/ SizeOf(docs[j]) > SizeOf(docs[i])
        \/ SizeOf(docs[j]) = SizeOf(docs[i]) /\ j < i})

Sorted(docs) ==
  [p \in 1 .. Len(docs) |-> docs[CHOOSE i \in 1 .. Len(docs) : Place(docs, i) = p]]

Embedded(docs) == [i \in 1 .. Len(docs) |-> Sorted(docs)[Place(docs, i)]]

\* embed_concurrent: the first index of every request.
Requests(docs) == {i \in 1 .. Len(docs) : (i - 1) % MiniBatch = 0}
Upto(docs, i) == IF i + MiniBatch - 1 < Len(docs) THEN i + MiniBatch - 1 ELSE Len(docs)

\* _post_process_pool takes the flat result apart by the entries: the point that
\* is made from place p of the result, and the places whose vector is not zero.
PointAt(job, p) ==
  LET e == CHOOSE e \in job.entries : e.start < p /\ p <= e.start + Len(corpus.size[e.file])
  IN  <<<<e.file, p - e.start>>, job.vectors[p]>>
Kept(job) == {p \in 1 .. Len(job.docs) : job.vectors[p] \notin corpus.zero}

\* split_batches: the place of the first point in the batch of the last point up
\* to p.  A batch is limited in number and in size (UpsertBytes = 0: not in size),
\* and one point may exceed the size.
Bytes(job, ps) == MapThenSumSet(LAMBDA p : SizeOf(PointAt(job, p)[1]), ps)

BatchStart(job) ==
  LET start[p \in 0 .. Len(job.docs)] ==
        IF p = 0 THEN 0
        ELSE LET first == start[p - 1]
                 batch == Kept(job) \cap (first .. p - 1)
             IN  IF /\ p \in Kept(job)
                    /\ \/ batch = {} \/ Cardinality(batch) >= UpsertPoints
                       \/ UpsertBytes > 0 /\ Bytes(job, batch \cup {p}) > UpsertBytes
                 THEN p ELSE first
  IN  start

\* A batch is the set of the places of its points.
UpsertBatches(job) ==
  {{q \in Kept(job) : BatchStart(job)[q] = BatchStart(job)[p]} : p \in Kept(job)}

-----------------------------------------------------------------------------
Init ==
  /\ corpus \in Corpora /\ backend \in Backends
  /\ unparsed = [f \in 1 .. Len(corpus.size) |-> f]
  /\ reader = "read" /\ hand = 0 /\ parserError = FALSE
  /\ queue = <<>> /\ main = "loop" /\ pool = EmptyPool
  /\ jobs = <<>> /\ inflight = {} /\ postQueue = <<>> /\ unsent = {}
  /\ stored = {} /\ deferred = TRUE
  /\ journal = {} /\ manifest = {} /\ errored = {}
  /\ faults = 0

Fault == faults < corpus.faults /\ faults' = faults + 1

(* The parser thread. *)

ParseFile ==
  /\ reader = "read" /\ unparsed # <<>>
  /\ hand' = Head(unparsed) /\ unparsed' = Tail(unparsed)
  /\ reader' = "put"
  /\ UNCHANGED <<corpus, backend, parserError, queue, main, pool, jobs, inflight,
                 postQueue, unsent, stored, deferred, results, faults>>

\* Defect: the sentinel is put only after the last file.
ParseFailsSilently ==
  /\ reader = "read" /\ unparsed # <<>> /\ Fault
  /\ parserError' = TRUE /\ reader' = "gone"
  /\ UNCHANGED <<corpus, backend, unparsed, hand, queue, main, pool, jobs, inflight,
                 postQueue, unsent, stored, deferred, results>>

\* Whatever a file raises ends the thread; the sentinel is put all the same.
ParseFails ==
  /\ reader = "read" /\ unparsed # <<>> /\ Fault
  /\ parserError' = TRUE /\ reader' = "end"
  /\ UNCHANGED <<corpus, backend, unparsed, hand, queue, main, pool, jobs, inflight,
                 postQueue, unsent, stored, deferred, results>>

ParsedAll ==
  /\ reader = "read" /\ unparsed = <<>>
  /\ reader' = "end"
  /\ UNCHANGED <<corpus, backend, unparsed, hand, parserError, queue, main, pool, jobs,
                 inflight, postQueue, unsent, stored, deferred, results, faults>>

\* Queue.put blocks while the queue is full.
Put ==
  /\ reader \in {"put", "end"} /\ Len(queue) < QueueSize
  /\ queue' = Append(queue, IF reader = "put" THEN hand ELSE 0)
  /\ reader' = IF reader = "put" THEN "read" ELSE "gone"
  /\ UNCHANGED <<corpus, backend, unparsed, hand, parserError, main, pool, jobs, inflight,
                 postQueue, unsent, stored, deferred, results, faults>>

(* The main thread. *)

ShouldFlush(p) ==
  \/ PoolMaxChunks = 0 \/ Count(p) >= PoolMaxChunks
  \/ Cardinality(p.entries) >= PoolMaxFiles

\* A file that was parsed goes into the pool.
TakeFile ==
  /\ main = "loop" /\ queue # <<>> /\ Head(queue) # 0
  /\ queue' = Tail(queue)
  /\ IF parserError
     THEN main' = "raised" /\ pool' = pool
     ELSE /\ pool' = Add(pool, Head(queue))
          /\ main' = IF ShouldFlush(Add(pool, Head(queue))) THEN "flush"
                     ELSE IF inflight # {} THEN "reap" ELSE "loop"
  /\ UNCHANGED <<corpus, backend, parser, jobs, inflight, postQueue, unsent, stored,
                 deferred, results, faults>>

\* Defect: the error of the parser is not looked at after the sentinel.
TakeEndUnchecked ==
  /\ main = "loop" /\ queue # <<>> /\ Head(queue) = 0
  /\ queue' = Tail(queue)
  /\ main' = "final"
  /\ UNCHANGED <<corpus, backend, parser, pool, jobs, inflight, postQueue, unsent, stored,
                 deferred, results, faults>>

TakeEnd ==
  /\ main = "loop" /\ queue # <<>> /\ Head(queue) = 0
  /\ queue' = Tail(queue)
  /\ main' = IF parserError THEN "raised" ELSE "final"
  /\ UNCHANGED <<corpus, backend, parser, pool, jobs, inflight, postQueue, unsent, stored,
                 deferred, results, faults>>

\* What _reap_pipeline waits for: nothing at the end, a free slot before that.
Most == IF main = "drain" THEN 0 ELSE Depth
DensePending == {j \in inflight : jobs[j].dense = "busy"}
Reaping == main \in {"flush", "reap", "final", "drain"}
\* Defect: only the dense stage is counted.
ReapOverDense == Cardinality(DensePending) <= Most

ReapOver == Cardinality(DensePending) <= Most /\ Cardinality(inflight) <= 2 * Most

\* _apply_pipeline_result, or the exception of the job.
Reap ==
  /\ Reaping /\ ~(main = "final" /\ Count(pool) = 0)
  /\ \E j \in inflight :
       /\ jobs[j].post \in {"stored", "failed", "raised"}
       /\ inflight' = inflight \ {j}
       /\ LET fs == FilesOf(jobs[j].entries)
          IN  /\ manifest' = IF jobs[j].post = "stored" THEN manifest \cup fs ELSE manifest
              /\ errored' = IF jobs[j].post = "failed" THEN errored \cup fs ELSE errored
              /\ main' = IF jobs[j].post = "raised" THEN "raised" ELSE main
  /\ UNCHANGED <<corpus, backend, parser, queue, pool, jobs, postQueue, unsent, stored,
                 deferred, journal, faults>>

Reaped ==
  /\ main = "reap" /\ ReapOver
  /\ main' = "loop"
  /\ UNCHANGED <<corpus, backend, parser, queue, pool, jobs, inflight, postQueue, unsent,
                 stored, deferred, results, faults>>

\* _flush_pool_pipelined: announce the files, hand the pool to the dense workers.
Flush ==
  /\ main \in {"flush", "final"} /\ Count(pool) # 0 /\ ReapOver
  /\ journal' = journal \cup FilesOf(pool.entries)
  /\ jobs' = Append(jobs, [entries |-> pool.entries, docs |-> pool.docs, dense |-> "busy", post |-> "none",
                           vectors |-> [i \in 1 .. Count(pool) |-> NoVector],
                           asked |-> {}, failed |-> {},
                           tries |-> [i \in 1 .. Count(pool) |-> 0]])
  /\ inflight' = inflight \cup {Len(jobs) + 1}
  /\ pool' = EmptyPool
  /\ main' = IF main = "flush" THEN "loop" ELSE "drain"
  /\ UNCHANGED <<corpus, backend, parser, queue, postQueue, unsent, stored, deferred,
                 manifest, errored, faults>>

NothingToFlush ==
  /\ main = "final" /\ Count(pool) = 0
  /\ main' = "drain"
  /\ UNCHANGED <<corpus, backend, parser, queue, pool, jobs, inflight, postQueue, unsent,
                 stored, deferred, results, faults>>

Drained ==
  /\ main = "drain" /\ inflight = {}
  /\ main' = "save"
  /\ UNCHANGED <<corpus, backend, parser, queue, pool, jobs, inflight, postQueue, unsent,
                 stored, deferred, results, faults>>

\* The HNSW threshold is restored at the end only; a failure is a warning.
Restore ==
  /\ main = "save"
  /\ \/ deferred' = FALSE /\ UNCHANGED faults
     \/ deferred' = TRUE /\ Fault
  /\ main' = "ended"
  /\ UNCHANGED <<corpus, backend, parser, queue, pool, jobs, inflight, postQueue, unsent,
                 stored, results>>

(* The dense workers: the oldest jobs that are not over have one each. *)

Workers == IF backend = "tei" THEN Depth ELSE 1
Served(j) ==
  /\ jobs[j].dense = "busy"
  /\ Cardinality({i \in 1 .. j - 1 : jobs[i].dense = "busy"}) < Workers

\* The job is over: its post-processing is queued, whatever came out of it.
DenseOver(j, job) ==
  /\ jobs' = [jobs EXCEPT ![j] = job]
  /\ postQueue' = Append(postQueue, j)

LocalDense(j) ==
  /\ backend = "local" /\ Served(j)
  /\ DenseOver(j, [jobs[j] EXCEPT !.dense = "over", !.vectors = Embedded(jobs[j].docs)])
  /\ UNCHANGED <<corpus, backend, parser, queue, main, pool, inflight, unsent, stored,
                 deferred, results, faults>>

LocalDenseFails(j) ==
  /\ backend = "local" /\ Served(j) /\ Fault
  /\ DenseOver(j, [jobs[j] EXCEPT !.dense = "raised"])
  /\ UNCHANGED <<corpus, backend, parser, queue, main, pool, inflight, unsent, stored,
                 deferred, results>>

\* The requests of embed_concurrent that are under way: any may be over next.
Unanswered(job) == Requests(job.docs) \ (job.asked \cup job.failed)

\* Defect: answers are collected in the order they come.
AskedAsTheyCome(job, i, last) ==
  LET from == Cardinality(job.asked) * MiniBatch
      answer == [k \in from + 1 .. from + last - i + 1 |-> job.docs[k - from + i - 1]]
  IN  [job EXCEPT !.asked = @ \cup {i},
         !.vectors = [k \in DOMAIN @ |-> IF k \in DOMAIN answer THEN answer[k] ELSE @[k]]]

\* The answer to request i, with vectors for the places up to last.
Asked(job, i, last) ==
  [job EXCEPT !.asked = @ \cup {i},
     !.vectors = [k \in DOMAIN @ |-> IF k \in i .. last THEN job.docs[k] ELSE @[k]]]

\* A request is over.  The executor waits for the others, also when one raised.
RequestOver(j, job) ==
  IF Unanswered(job) # {}
  THEN jobs' = [jobs EXCEPT ![j] = job] /\ postQueue' = postQueue
  ELSE DenseOver(j, [job EXCEPT !.dense = IF job.failed = {} THEN "over" ELSE "raised"])

Answer(j) ==
  /\ backend = "tei" /\ Served(j)
  /\ \E i \in Unanswered(jobs[j]) :
       RequestOver(j, Asked(jobs[j], i, Upto(jobs[j].docs, i)))
  /\ UNCHANGED <<corpus, backend, parser, queue, main, pool, inflight, unsent, stored,
                 deferred, results, faults>>

\* An answer with fewer vectors than texts is taken as it is.
AnswerIsShort(j) ==
  /\ backend = "tei" /\ Served(j) /\ Fault
  /\ \E i \in Unanswered(jobs[j]) : \E last \in i - 1 .. Upto(jobs[j].docs, i) - 1 :
       RequestOver(j, Asked(jobs[j], i, last))
  /\ UNCHANGED <<corpus, backend, parser, queue, main, pool, inflight, unsent, stored,
                 deferred, results>>

\* A dropped connection or a busy server: the same request again, a few times.
AskAgain(j) ==
  /\ backend = "tei" /\ Served(j) /\ Fault
  /\ \E i \in Unanswered(jobs[j]) :
       /\ jobs[j].tries[i] < Retries
       /\ jobs' = [jobs EXCEPT ![j].tries[i] = @ + 1]
  /\ UNCHANGED <<corpus, backend, parser, queue, main, pool, inflight, postQueue, unsent,
                 stored, deferred, results>>

\* Another error, or one after the last retry.
AnswerFails(j) ==
  /\ backend = "tei" /\ Served(j) /\ Fault
  /\ \E i \in Unanswered(jobs[j]) :
       RequestOver(j, [jobs[j] EXCEPT !.failed = @ \cup {i}])
  /\ UNCHANGED <<corpus, backend, parser, queue, main, pool, inflight, unsent, stored,
                 deferred, results>>

(* The post worker: one job at a time. *)

Working == \E j \in 1 .. Len(jobs) : jobs[j].post = "busy"

\* A place without a vector raises as well (sanitize_dense_vectors).
Broken(job) == job.dense = "raised" \/ \E p \in DOMAIN job.vectors : job.vectors[p] = NoVector

PostStart ==
  /\ postQueue # <<>> /\ ~Working
  /\ LET j == Head(postQueue)
     IN  IF Broken(jobs[j])
         THEN jobs' = [jobs EXCEPT ![j].post = "raised"] /\ unsent' = unsent
         ELSE jobs' = [jobs EXCEPT ![j].post = "busy"] /\ unsent' = UpsertBatches(jobs[j])
  /\ postQueue' = Tail(postQueue)
  /\ UNCHANGED <<corpus, backend, parser, queue, main, pool, inflight, stored, deferred,
                 results, faults>>

\* Sparse embedding or building the points raises.
PostRaises(j) ==
  /\ jobs[j].post = "busy" /\ Fault
  /\ jobs' = [jobs EXCEPT ![j].post = "raised"]
  /\ unsent' = {}
  /\ UNCHANGED <<corpus, backend, parser, queue, main, pool, inflight, postQueue, stored,
                 deferred, results>>

\* The batches go out in the order of their points.
IsNext(b) == b \in unsent /\ \A c \in unsent : \A q \in c : \E p \in b : p <= q
PointsOf(j, b) == {PointAt(jobs[j], p) : p \in b}

Send(j) ==
  /\ jobs[j].post = "busy"
  /\ \E b \in unsent :
       /\ IsNext(b)
       /\ stored' = stored \cup PointsOf(j, b)
       /\ unsent' = unsent \ {b}
  /\ UNCHANGED <<corpus, backend, parser, queue, main, pool, jobs, inflight, postQueue,
                 deferred, results, faults>>

\* Places of b with fewer than n before them.
FirstOf(b, n) == {p \in b : Cardinality({q \in b : q < p}) < n}

\* Defect: the middle point is in neither half.
SendHalvesShort(j) ==
  /\ jobs[j].post = "busy" /\ Fault
  /\ \E b \in unsent :
       /\ IsNext(b) /\ Cardinality(b) > 1
       /\ LET mid == Cardinality(b) \div 2
          IN  unsent' = (unsent \ {b}) \cup {FirstOf(b, mid), b \ FirstOf(b, mid + 1)}
  /\ UNCHANGED <<corpus, backend, parser, queue, main, pool, jobs, inflight, postQueue,
                 stored, deferred, results>>

\* Too large, or the connection was dropped (it may have been stored): two halves.
SendHalves(j) ==
  /\ jobs[j].post = "busy" /\ Fault
  /\ \E b \in unsent :
       /\ IsNext(b) /\ Cardinality(b) > 1
       /\ LET half == FirstOf(b, Cardinality(b) \div 2)
          IN  unsent' = (unsent \ {b}) \cup {half, b \ half}
       /\ stored' \in {stored, stored \cup PointsOf(j, b)}
  /\ UNCHANGED <<corpus, backend, parser, queue, main, pool, jobs, inflight, postQueue,
                 deferred, results>>

\* A batch that fails for good: no file of the pool gets an entry.
SendFails(j) ==
  /\ jobs[j].post = "busy" /\ unsent # {} /\ Fault
  /\ jobs' = [jobs EXCEPT ![j].post = "failed"]
  /\ unsent' = {}
  /\ UNCHANGED <<corpus, backend, parser, queue, main, pool, inflight, postQueue, stored,
                 deferred, results>>

Sent(j) ==
  /\ jobs[j].post = "busy" /\ unsent = {}
  /\ jobs' = [jobs EXCEPT ![j].post = "stored"]
  /\ UNCHANGED <<corpus, backend, parser, queue, main, pool, inflight, postQueue, unsent,
                 stored, deferred, results, faults>>

-----------------------------------------------------------------------------
Parser == ParseFile \/ ParseFails \/ ParsedAll \/ Put
Main ==
  \/ TakeFile \/ TakeEnd \/ Reap \/ Reaped \/ Flush \/ NothingToFlush
  \/ Drained \/ Restore
Dense(j) ==
  \/ LocalDense(j) \/ LocalDenseFails(j)
  \/ Answer(j) \/ AnswerIsShort(j) \/ AskAgain(j) \/ AnswerFails(j)
Post(j) == PostRaises(j) \/ Send(j) \/ SendHalves(j) \/ SendFails(j) \/ Sent(j)

Jobs == 1 .. Len(jobs)
Next ==
  \/ Parser \/ Main \/ PostStart
  \/ \E j \in Jobs : Dense(j) \/ Post(j)

Spec == Init /\ [][Next]_vars

\* Every thread that can go on does.
FairSpec ==
  /\ Spec /\ WF_vars(Parser) /\ WF_vars(Main)
  /\ WF_vars(\E j \in Jobs : Dense(j))
  /\ WF_vars(PostStart \/ \E j \in Jobs : Post(j))

-----------------------------------------------------------------------------
(* Properties. *)

\* A point carries the vector of its own chunk, although chunks of several
\* files are sorted, batched, answered out of order and taken apart again.
OwnVectors == \A p \in stored : p[1] = p[2]

\* A file has a manifest entry only when all its points with a vector are
\* stored, and points are stored only of files the journal has: pools finish in
\* any order, batches are halved, and workers go on after the main thread raised.
EntriesAreStored ==
  /\ \A f \in manifest : \A i \in 1 .. Len(corpus.size[f]) :
       <<f, i>> \in corpus.zero \/ \E p \in stored : p[1] = <<f, i>>
  /\ \A p \in stored : p[1][1] \in journal

\* A run that reaches its end has an entry or an error for every file.
RunIsComplete == main = "ended" => manifest \cup errored = Files

\* The pools that wait for memory are bounded, however slow a stage is.
InFlightIsBounded == Cardinality(inflight) <= 2 * Depth + 1

\* The run ends, although the queue is bounded and any step may raise.
EventuallyEnds == <>(main \in {"ended", "raised"})
=============================================================================
