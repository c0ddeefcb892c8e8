------------------------- MODULE EmbedPipelineProofs -------------------------
(***************************************************************************)
(* The safety of EmbedPipeline, for every corpus, queue, pool and batch    *)
(* size, any depth and any number of failing steps.                        *)
(*                                                                         *)
(* The invariant IInv says where everything is on its way:                 *)
(*   PoolInv    the documents of a pool are where its entries say;         *)
(*   JobsInv    so they are in a job, whose places have their own vectors  *)
(*              or none yet (Embeds), and whose files are in the journal;  *)
(*   PostInv    one job at a time is being stored, and a point of it that  *)
(*              is neither stored nor without a vector is in a batch;      *)
(*   StoredInv  the two properties of what is stored;                      *)
(*   FlowInv    until the main thread raises, every file is unparsed, in   *)
(*              the hand of the parser, in the queue, in the pool, in a    *)
(*              job in flight, or has its result (IsSomewhere).            *)
(***************************************************************************)
EXTENDS EmbedPipeline, FiniteSetTheorems, SequenceTheorems, TLAPS

Chunks == Nat \X Nat
EntrySets == SUBSET [file : Nat, start : Nat]
PoolType == [entries : EntrySets, docs : Seq(Chunks)]
JobType ==
  [entries : EntrySets, docs : Seq(Chunks),
   dense : {"busy", "over", "raised"},
   post : {"none", "busy", "stored", "failed", "raised"},
   vectors : Seq(Chunks \cup {NoVector}), asked : SUBSET Nat,
   failed : SUBSET Nat, tries : Seq(Nat)]

\* The entry e is the one the document at place p belongs to.
Covers(size, e, p) == e.start < p /\ p <= e.start + Len(size[e.file])

\* The documents of every entry are at the places the entry says, and every
\* document belongs to an entry.
Laid(size, entries, docs) ==
  /\ \A e \in entries :
       /\ e.file \in 1 .. Len(size)
       /\ \A i \in 1 .. Len(size[e.file]) :
            e.start + i \in 1 .. Len(docs) /\ docs[e.start + i] = <<e.file, i>>
  /\ \A p \in 1 .. Len(docs) : \E e \in entries : Covers(size, e, p)

\* A place has its own vector or none, and all have theirs in the post stage.
Embeds(job) ==
  /\ Len(job.vectors) = Len(job.docs) /\ Len(job.tries) = Len(job.docs)
  /\ \A k \in 1 .. Len(job.docs) : job.vectors[k] \in {job.docs[k], NoVector}
  /\ job.post \in {"busy", "stored"} => job.dense = "over" /\ job.vectors = job.docs

\* The chunk c needs no point, or has its point with its own vector.
IsStored(c, zero, points) == c \in zero \/ <<c, c>> \in points

\* The types, as far as the proofs need them.
Types ==
  /\ corpus \in Corpora
  /\ unparsed \in Seq(Files) /\ queue \in Seq(Files \cup {0})
  /\ reader \in {"read", "put", "end", "gone"}
  /\ reader = "put" => hand \in Files
  /\ main \in {"loop", "flush", "reap", "final", "drain", "save", "ended", "raised"}
  /\ pool \in PoolType
  /\ jobs \in Seq(JobType)
  /\ postQueue \in Seq(1 .. Len(jobs))
  /\ inflight \subseteq 1 .. Len(jobs)
  /\ manifest \subseteq Files /\ errored \subseteq Files

\* What holds of every pool that was submitted.
JobsInv ==
  \A j \in 1 .. Len(jobs) :
    /\ Laid(corpus.size, jobs[j].entries, jobs[j].docs) /\ Embeds(jobs[j])
    /\ FilesOf(jobs[j].entries) \subseteq journal

\* What is queued for, under way in and over in the post worker.
PostInv ==
  /\ \A i \in 1 .. Len(postQueue) : jobs[postQueue[i]].dense # "busy"
  /\ \A i, j \in 1 .. Len(jobs) : jobs[i].post = "busy" /\ jobs[j].post = "busy" => i = j
  /\ \A j \in 1 .. Len(jobs) :
       /\ jobs[j].post = "busy" =>
            /\ \A b \in unsent : b \subseteq 1 .. Len(jobs[j].docs)
            /\ \A p \in 1 .. Len(jobs[j].docs) :
                 IsStored(jobs[j].docs[p], corpus.zero, stored) \/ \E b \in unsent : p \in b
       /\ jobs[j].post = "stored" =>
            \A p \in 1 .. Len(jobs[j].docs) : IsStored(jobs[j].docs[p], corpus.zero, stored)

\* What Qdrant and the manifest have.
StoredInv == OwnVectors /\ EntriesAreStored

\* Where a file is while the main thread can still go on.
IsSomewhere(f) ==
  \/ \E i \in 1 .. Len(unparsed) : unparsed[i] = f
  \/ reader = "put" /\ hand = f
  \/ \E i \in 1 .. Len(queue) : queue[i] = f
  \/ f \in FilesOf(pool.entries)
  \/ \E j \in inflight : f \in FilesOf(jobs[j].entries)
  \/ f \in manifest \cup errored

\* No file is lost between the parser and the results; the sentinel comes last.
FlowInv ==
  /\ main # "raised" => \A f \in Files : IsSomewhere(f)
  /\ \A i \in 1 .. Len(queue) : queue[i] = 0 => i = Len(queue) /\ reader = "gone"
  /\ ~parserError /\ reader \in {"end", "gone"} => unparsed = <<>>
  /\ main \in {"final", "drain", "save", "ended"} =>
       unparsed = <<>> /\ reader = "gone" /\ queue = <<>>
  /\ main \in {"drain", "save", "ended"} => pool.entries = {}
  /\ main \in {"save", "ended"} => inflight = {}

\* The open pool is laid out.
PoolInv == Laid(corpus.size, pool.entries, pool.docs)

\* The inductive invariant.
IInv == Types /\ PoolInv /\ JobsInv /\ PostInv /\ StoredInv /\ FlowInv

-----------------------------------------------------------------------------
(* What the operators of the model compute. *)

\* Sorting puts different documents in different places: of two documents one
\* comes first, and whatever comes before the first comes before the second.
LEMMA PlacesDiffer ==
  ASSUME NEW docs \in Seq(Chunks),
         \A i \in 1 .. Len(docs) : SizeOf(docs[i]) \in Nat,
         NEW a \in 1 .. Len(docs), NEW b \in 1 .. Len(docs), Place(docs, a) = Place(docs, b)
  PROVE  a = b
<1> DEFINE Before(i) == {j \in 1 .. Len(docs) :
              \/ SizeOf(docs[j]) > SizeOf(docs[i])
              \/ SizeOf(docs[j]) = SizeOf(docs[i]) /\ j < i}
           N == Len(docs)
           size(i) == SizeOf(docs[i])
<1>0. 1 \in Int /\ N \in Nat /\ N \in Int
  OBVIOUS
<1>1. N \in Nat /\ \A i \in 1 .. N : IsFiniteSet(Before(i)) /\ Cardinality(Before(i)) \in Nat
  <2>1. IsFiniteSet(1 .. N)
    BY <1>0, FS_Interval
  <2>2. \A i \in 1 .. N : Before(i) \in SUBSET (1 .. N)
    OBVIOUS
  <2>3. \A i \in 1 .. N : IsFiniteSet(Before(i))
    BY <2>1, <2>2, FS_Subset
  <2> QED BY <1>0, <2>3, FS_CardinalityType
<1>2. \A i \in 1 .. N : Place(docs, i) = 1 + Cardinality(Before(i))
  BY DEF Place
<1>3. ASSUME NEW i \in 1 .. N, NEW k \in 1 .. N, i \in Before(k)
      PROVE  Cardinality(Before(i)) # Cardinality(Before(k))
  <2>1. size(i) \in Nat /\ size(k) \in Nat /\ \A j \in 1 .. N : size(j) \in Nat
    OBVIOUS
  <2>2. i \notin Before(i)
    BY <2>1, <1>0
  <2>3. Before(i) \in SUBSET Before(k)
    <3>1. size(i) > size(k) \/ (size(i) = size(k) /\ i < k)
      BY <1>3
    <3> QED BY <2>1, <3>1
  <2>4. Before(i) # Before(k) /\ IsFiniteSet(Before(k))
    BY <2>2, <1>1, <1>3
  <2> HIDE DEF Before
  <2> QED BY <2>3, <2>4, FS_Subset
<1>4. a \in Before(b) \/ b \in Before(a) \/ a = b
  BY <1>1
<1>5. Cardinality(Before(a)) = Cardinality(Before(b))
  <2> HIDE DEF Before
  <2> QED BY <1>1, <1>2
<1> QED BY <1>3, <1>4, <1>5

\* _embed_batched gives every document its own vector back.
LEMMA EmbeddedIsOwn ==
  ASSUME NEW docs \in Seq(Chunks), \A i \in 1 .. Len(docs) : SizeOf(docs[i]) \in Nat
  PROVE  Embedded(docs) = docs
<1>1. ASSUME NEW i \in 1 .. Len(docs)
      PROVE  (CHOOSE k \in 1 .. Len(docs) : Place(docs, k) = Place(docs, i)) = i
  BY PlacesDiffer
<1>2. ASSUME NEW i \in 1 .. Len(docs)
      PROVE  Place(docs, i) \in 1 .. Len(docs)
  <2> DEFINE Before == {j \in 1 .. Len(docs) :
                \/ SizeOf(docs[j]) > SizeOf(docs[i])
                \/ SizeOf(docs[j]) = SizeOf(docs[i]) /\ j < i}
  <2>0. 1 \in Int /\ Len(docs) \in Int /\ Len(docs) >= 1
    OBVIOUS
  <2>1. IsFiniteSet(1 .. Len(docs)) /\ Cardinality(1 .. Len(docs)) = Len(docs)
    <3>1. /\ IsFiniteSet(1 .. Len(docs))
          /\ Cardinality(1 .. Len(docs)) = IF 1 > Len(docs) THEN 0 ELSE Len(docs) - 1 + 1
      BY <2>0, FS_Interval
    <3> QED BY <2>0, <3>1
  <2>2. Before \subseteq (1 .. Len(docs)) \ {i}
    OBVIOUS
  <2>3. /\ IsFiniteSet((1 .. Len(docs)) \ {i})
        /\ Cardinality((1 .. Len(docs)) \ {i}) = Len(docs) - 1
    BY <2>1, FS_RemoveElement
  <2>4. Cardinality(Before) \in Nat /\ Cardinality(Before) <= Len(docs) - 1
    BY <2>2, <2>3, FS_Subset, FS_CardinalityType
  <2> QED BY <2>4 DEF Place
<1>3. ASSUME NEW i \in 1 .. Len(docs)
      PROVE  Embedded(docs)[i] = docs[i]
  BY <1>1, <1>2, <1>3 DEF Embedded, Sorted
<1> QED BY <1>3 DEF Embedded

\* What is laid out at a place is a chunk of the entry that covers the place.
LEMMA CoveredChunk ==
  ASSUME corpus \in Corpora, NEW entries \in EntrySets,
         NEW docs \in Seq(Chunks), Laid(corpus.size, entries, docs),
         NEW p \in 1 .. Len(docs), NEW e \in entries, Covers(corpus.size, e, p)
  PROVE  /\ e.file \in Files /\ p - e.start \in 1 .. Len(corpus.size[e.file])
         /\ docs[p] = <<e.file, p - e.start>>
<1> DEFINE n == Len(corpus.size[e.file])
<1>1. e.file \in Files /\ corpus.size \in Seq(Seq(Nat))
  BY CorporaShape DEF Laid, Files
<1>2. n \in Nat
  BY <1>1 DEF Files
<1>3. p - e.start \in 1 .. n /\ e.start + (p - e.start) = p
  <2>1. e.start \in Nat /\ p \in Nat
    BY DEF EntrySets
  <2> QED BY <2>1, <1>2 DEF Covers
<1>4. docs[e.start + (p - e.start)] = <<e.file, p - e.start>>
  BY <1>3 DEF Laid
<1> QED BY <1>1, <1>3, <1>4

\* The sizes of the chunks that are laid out are numbers.
LEMMA ChunkOfAFile ==
  ASSUME corpus \in Corpora, NEW entries \in EntrySets,
         NEW docs \in Seq(Chunks), Laid(corpus.size, entries, docs), NEW p \in 1 .. Len(docs)
  PROVE  SizeOf(docs[p]) \in Nat /\ docs[p][1] \in FilesOf(entries)
<1>1. PICK e \in entries : Covers(corpus.size, e, p)
  BY DEF Laid
<1>2. /\ e.file \in Files /\ p - e.start \in 1 .. Len(corpus.size[e.file])
      /\ docs[p] = <<e.file, p - e.start>>
  BY <1>1, CoveredChunk
<1>3. corpus.size \in Seq(Seq(Nat))
  BY CorporaShape
<1>4. corpus.size[e.file] \in Seq(Nat)
  BY <1>2, <1>3 DEF Files
<1>5. corpus.size[e.file][p - e.start] \in Nat
  BY <1>2, <1>4, ElementOfSeq
<1>6. docs[p][1] = e.file /\ docs[p][2] = p - e.start
  BY <1>2
<1>7. SizeOf(docs[p]) \in Nat
  BY <1>5, <1>6 DEF SizeOf
<1>8. docs[p][1] \in FilesOf(entries)
  BY <1>6 DEF FilesOf
<1> QED BY <1>7, <1>8

\* _post_process_pool gives a point its own chunk.
LEMMA PointIsOwn ==
  ASSUME corpus \in Corpora, NEW job \in JobType, Laid(corpus.size, job.entries, job.docs), Embeds(job),
         job.vectors = job.docs, NEW p \in 1 .. Len(job.docs)
  PROVE  PointAt(job, p) = <<job.docs[p], job.docs[p]>>
<1> DEFINE e == CHOOSE e \in job.entries : Covers(corpus.size, e, p)
<1>1. /\ job.entries \in EntrySets /\ job.docs \in Seq(Chunks)
      /\ e \in job.entries /\ Covers(corpus.size, e, p)
  <2>1. job.entries \in EntrySets /\ job.docs \in Seq(Chunks)
    BY DEF JobType
  <2>2. \E x \in job.entries : Covers(corpus.size, x, p)
    BY DEF Laid
  <2> QED BY <2>1, <2>2
<1>2. job.docs[p] = <<e.file, p - e.start>>
  <2> HIDE DEF e
  <2> QED BY <1>1, CoveredChunk
<1>3. job.vectors[p] = job.docs[p]
  OBVIOUS
<1>4. PointAt(job, p) = <<<<e.file, p - e.start>>, job.vectors[p]>>
  BY DEF PointAt, Covers
<1> QED BY <1>2, <1>3, <1>4

\* Adding a file keeps the pool laid out.
LEMMA AddKeepsLaid ==
  ASSUME corpus \in Corpora, NEW f \in Files,
         NEW q \in PoolType,
         Laid(corpus.size, q.entries, q.docs)
  PROVE  /\ Laid(corpus.size, Add(q, f).entries, Add(q, f).docs)
         /\ Add(q, f) \in PoolType
         /\ FilesOf(Add(q, f).entries) = FilesOf(q.entries) \cup {f}
<1> DEFINE new == Entry(f, Len(q.docs))
           all == q.docs \o ChunksOf(f)
           n == Len(corpus.size[f])
           m == Len(q.docs)
<1>1. corpus.size \in Seq(Seq(Nat)) /\ f \in Nat
  BY CorporaShape DEF Files
<1>2. n \in Nat
  BY <1>1 DEF Files
<1>3. ChunksOf(f) \in Seq(Chunks) /\ Len(ChunksOf(f)) = n
      /\ \A i \in 1 .. n : ChunksOf(f)[i] = <<f, i>>
  BY <1>1, <1>2 DEF ChunksOf, Chunks
<1>4. /\ all \in Seq(Chunks) /\ Len(all) = m + n /\ m \in Nat
      /\ \A i \in 1 .. m : all[i] = q.docs[i]
      /\ \A i \in 1 .. n : all[m + i] = <<f, i>>
  <2>1. /\ all \in Seq(Chunks) /\ Len(all) = Len(q.docs) + Len(ChunksOf(f))
        /\ \A i \in 1 .. Len(q.docs) + Len(ChunksOf(f)) :
             all[i] = IF i <= Len(q.docs) THEN q.docs[i] ELSE ChunksOf(f)[i - Len(q.docs)]
    <3> DEFINE s == q.docs
               t == ChunksOf(f)
    <3>1. s \in Seq(Chunks) /\ t \in Seq(Chunks)
      BY <1>3 DEF PoolType
    <3> HIDE DEF s, t
    <3>2. /\ s \o t \in Seq(Chunks) /\ Len(s \o t) = Len(s) + Len(t)
          /\ \A i \in 1 .. Len(s) + Len(t) :
               (s \o t)[i] = IF i <= Len(s) THEN s[i] ELSE t[i - Len(s)]
      BY <3>1, ConcatProperties
    <3> QED BY <3>2 DEF s, t
  <2>2. Len(q.docs) \in Nat
    BY DEF PoolType
  <2> QED BY <1>2, <1>3, <2>1, <2>2
<1>5. new.file = f /\ new.start = Len(q.docs) /\ new \in [file : Nat, start : Nat]
  BY <1>1, <1>4 DEF Entry
<1>6. Add(q, f) = [entries |-> q.entries \cup {new}, docs |-> all]
  BY DEF Add, Count
<1>7. Laid(corpus.size, q.entries \cup {new}, all)
  <2>0. /\ n = Len(corpus.size[f]) /\ m = Len(q.docs)
        /\ new.file = f /\ new.start = m
    BY <1>5
  <2> HIDE DEF new, all, n, m
  <2>1. ASSUME NEW e \in q.entries
        PROVE  /\ e.file \in Files
               /\ \A i \in 1 .. Len(corpus.size[e.file]) :
                    e.start + i \in 1 .. Len(all) /\ all[e.start + i] = <<e.file, i>>
    <3>1. /\ e.file \in Files
          /\ \A i \in 1 .. Len(corpus.size[e.file]) :
               e.start + i \in 1 .. Len(q.docs) /\ q.docs[e.start + i] = <<e.file, i>>
      BY DEF Laid, Files
    <3>2. ASSUME NEW i \in 1 .. Len(corpus.size[e.file])
          PROVE  e.start + i \in 1 .. Len(all) /\ all[e.start + i] = <<e.file, i>>
      <4>1. e.start + i \in 1 .. m /\ q.docs[e.start + i] = <<e.file, i>>
        BY <3>1, <2>0
      <4>2. all[e.start + i] = q.docs[e.start + i]
        BY <4>1, <1>4
      <4>3. \A k \in 1 .. m : k \in 1 .. m + n
        BY <1>2, <1>4
      <4> QED BY <4>1, <4>2, <4>3, <1>4
    <3> QED BY <3>1, <3>2
  <2>2. /\ new.file \in Files
        /\ \A i \in 1 .. Len(corpus.size[new.file]) :
             new.start + i \in 1 .. Len(all) /\ all[new.start + i] = <<new.file, i>>
    <3>1. \A i \in 1 .. n : m + i \in 1 .. m + n
      BY <1>2, <1>4
    <3> QED BY <3>1, <2>0, <1>4
  <2>3. ASSUME NEW p \in 1 .. Len(all)
        PROVE  \E e \in q.entries \cup {new} : Covers(corpus.size, e, p)
    <3>1. CASE p \in 1 .. m
      BY <3>1, <2>0 DEF Laid
    <3>2. CASE p \notin 1 .. m
      <4>0. p \in 1 .. m + n
        BY <1>4
      <4>1. m < p /\ p <= m + n
        BY <3>2, <4>0, <1>2, <1>4
      <4> QED BY <4>1, <2>0 DEF Covers
    <3> QED BY <3>1, <3>2
  <2> QED BY <2>1, <2>2, <2>3 DEF Laid, Files
<1>8. FilesOf(q.entries \cup {new}) = FilesOf(q.entries) \cup {f}
  BY <1>5 DEF FilesOf
<1> QED
  <2>1. q.entries \cup {new} \in EntrySets
    BY <1>5 DEF PoolType, EntrySets
  <2>2. all \in Seq(Chunks)
    BY <1>4
  <2> HIDE DEF new, all
  <2>3. Add(q, f).entries = q.entries \cup {new} /\ Add(q, f).docs = all
    BY <1>6
  <2>4. Add(q, f) \in PoolType
    BY <1>6, <2>1, <2>2 DEF PoolType
  <2> QED BY <1>7, <1>8, <2>3, <2>4

\* Every point is in a batch, and a batch has no other places.
LEMMA BatchesCover ==
  ASSUME NEW job
  PROVE  UNION UpsertBatches(job) = Kept(job)
BY DEF UpsertBatches

-----------------------------------------------------------------------------
(* Steps. *)

\* What a step of a worker keeps when it changes one job and not its documents.
LEMMA JobStep ==
  ASSUME IInv, NEW j \in 1 .. Len(jobs), NEW r \in JobType, jobs' = [jobs EXCEPT ![j] = r],
         r.entries = jobs[j].entries, r.docs = jobs[j].docs, Embeds(r),
         postQueue' \in Seq(1 .. Len(jobs)),
         UNCHANGED <<corpus, parser, queue, main, pool, inflight, results>>
  PROVE  /\ Len(jobs') = Len(jobs)
         /\ \A i \in 1 .. Len(jobs) : jobs'[i] = IF i = j THEN r ELSE jobs[i]
         /\ Types' /\ PoolInv' /\ JobsInv' /\ FlowInv'
<1>1. jobs \in Seq(JobType)
  BY DEF IInv, Types
<1>2. /\ jobs' \in Seq(JobType) /\ Len(jobs') = Len(jobs)
      /\ \A i \in 1 .. Len(jobs) : jobs'[i] = IF i = j THEN r ELSE jobs[i]
  BY <1>1, ExceptSeq
<1>3. /\ corpus' = corpus /\ unparsed' = unparsed /\ reader' = reader /\ hand' = hand
      /\ parserError' = parserError /\ queue' = queue /\ main' = main /\ pool' = pool
      /\ inflight' = inflight /\ journal' = journal /\ manifest' = manifest
      /\ errored' = errored
  BY DEF parser, results
<1>4. Types'
  BY <1>2, <1>3 DEF IInv, Types, Files
<1>5. PoolInv'
  BY <1>3 DEF IInv, PoolInv
<1>6. JobsInv'
  BY <1>2, <1>3 DEF IInv, JobsInv, FilesOf
<1>7. \A i \in 1 .. Len(jobs) : jobs'[i].entries = jobs[i].entries
  BY <1>2
<1>8. \A f \in Files : IsSomewhere(f) <=> IsSomewhere(f)'
  <2>1. inflight \subseteq 1 .. Len(jobs)
    BY DEF IInv, Types
  <2> QED BY <1>3, <1>7, <2>1 DEF IsSomewhere, FilesOf
<1>9. FlowInv'
  <2>1. Files' = Files
    BY <1>3 DEF Files
  <2>2. FlowInv
    BY DEF IInv
  <2>3. main' # "raised" => \A f \in Files' : IsSomewhere(f)'
    BY <1>3, <1>8, <2>1, <2>2 DEF FlowInv
  <2> QED BY <1>3, <2>2, <2>3 DEF FlowInv
<1> QED BY <1>2, <1>4, <1>5, <1>6, <1>9

\* A step of the dense stage of job j.
LEMMA DenseStep ==
  ASSUME IInv, NEW j \in 1 .. Len(jobs), NEW r \in JobType, jobs' = [jobs EXCEPT ![j] = r],
         jobs[j].dense = "busy",
         r.entries = jobs[j].entries, r.docs = jobs[j].docs, r.post = jobs[j].post, Embeds(r),
         \/ postQueue' = postQueue
         \/ r.dense # "busy" /\ postQueue' = Append(postQueue, j),
         UNCHANGED <<corpus, parser, queue, main, pool, inflight, unsent, stored, results>>
  PROVE  IInv'
<1>1. postQueue \in Seq(1 .. Len(jobs)) /\ Len(jobs) \in Nat
  BY DEF IInv, Types
<1>2. postQueue' \in Seq(1 .. Len(jobs))
  BY <1>1, AppendProperties
<1>3. /\ Len(jobs') = Len(jobs)
      /\ \A i \in 1 .. Len(jobs) : jobs'[i] = IF i = j THEN r ELSE jobs[i]
      /\ Types' /\ PoolInv' /\ JobsInv' /\ FlowInv'
  BY <1>2, JobStep
<1>4. ASSUME NEW i \in 1 .. Len(postQueue')
      PROVE  jobs'[postQueue'[i]].dense # "busy"
  <2>1. \A k \in 1 .. Len(postQueue) :
          postQueue[k] \in 1 .. Len(jobs) /\ jobs[postQueue[k]].dense # "busy"
    BY <1>1 DEF IInv, PostInv
  <2>2. \A k \in 1 .. Len(postQueue) : jobs'[postQueue[k]].dense # "busy"
    BY <1>3, <2>1
  <2>3. CASE postQueue' = postQueue
    BY <2>2, <2>3
  <2>4. CASE r.dense # "busy" /\ postQueue' = Append(postQueue, j)
    <3>1. /\ Len(postQueue') = Len(postQueue) + 1 /\ postQueue'[Len(postQueue) + 1] = j
          /\ \A k \in 1 .. Len(postQueue) : postQueue'[k] = postQueue[k]
      BY <1>1, <2>4, AppendProperties
    <3>2. jobs'[j].dense # "busy"
      BY <1>3, <2>4
    <3>3. i \in 1 .. Len(postQueue) \/ i = Len(postQueue) + 1
      BY <1>1, <3>1
    <3> QED BY <2>2, <3>1, <3>2, <3>3
  <2> QED BY <2>3, <2>4
<1>5. \A i \in 1 .. Len(jobs) : jobs'[i].post = jobs[i].post /\ jobs'[i].docs = jobs[i].docs
  BY <1>3
<1>6. corpus' = corpus /\ stored' = stored /\ unsent' = unsent /\ journal' = journal
      /\ manifest' = manifest
  BY DEF results
<1>7. PostInv'
  BY <1>3, <1>4, <1>5, <1>6 DEF IInv, PostInv
<1>8. StoredInv'
  BY <1>6 DEF IInv, StoredInv, OwnVectors, EntriesAreStored
<1> QED BY <1>3, <1>7, <1>8 DEF IInv

\* A job in a state with IInv.
LEMMA JobHasType ==
  ASSUME IInv, NEW j \in 1 .. Len(jobs)
  PROVE  /\ jobs[j] \in JobType /\ corpus \in Corpora
         /\ Laid(corpus.size, jobs[j].entries, jobs[j].docs) /\ Embeds(jobs[j])
         /\ \A i \in 1 .. Len(jobs[j].docs) : SizeOf(jobs[j].docs[i]) \in Nat
<1>1. jobs[j] \in JobType /\ corpus \in Corpora
  BY DEF IInv, Types
<1>2. Laid(corpus.size, jobs[j].entries, jobs[j].docs) /\ Embeds(jobs[j])
  BY DEF IInv, JobsInv
<1>3. jobs[j].entries \in EntrySets /\ jobs[j].docs \in Seq(Chunks)
  BY <1>1 DEF JobType
<1> QED BY <1>1, <1>2, <1>3, ChunkOfAFile

\* The local model embeds a whole job in one step.
LEMMA LocalDenseKeeps ==
  ASSUME IInv, NEW j \in 1 .. Len(jobs), LocalDense(j)
  PROVE  IInv'
<1> DEFINE r == [jobs[j] EXCEPT !.dense = "over", !.vectors = Embedded(jobs[j].docs)]
<1>1. /\ jobs[j] \in JobType /\ Embeds(jobs[j])
      /\ \A i \in 1 .. Len(jobs[j].docs) : SizeOf(jobs[j].docs[i]) \in Nat
  BY JobHasType
<1>2. jobs[j].docs \in Seq(Chunks)
  BY <1>1 DEF JobType
<1>3. Embedded(jobs[j].docs) = jobs[j].docs
  BY <1>1, <1>2, EmbeddedIsOwn
<1>4. /\ r \in JobType /\ r.entries = jobs[j].entries /\ r.docs = jobs[j].docs
      /\ r.post = jobs[j].post /\ r.tries = jobs[j].tries
      /\ r.vectors = jobs[j].docs /\ r.dense = "over"
  <2>1. r = [jobs[j] EXCEPT !.dense = "over", !.vectors = jobs[j].docs]
    BY <1>3
  <2>2. jobs[j].docs \in Seq(Chunks \cup {NoVector})
    BY <1>2, SeqMonotonic
  <2> HIDE DEF r
  <2> QED BY <1>1, <2>1, <2>2 DEF JobType
<1>6. Embeds(r)
  BY <1>1, <1>4 DEF Embeds
<1>7. /\ jobs' = [jobs EXCEPT ![j] = r] /\ postQueue' = Append(postQueue, j)
      /\ jobs[j].dense = "busy"
      /\ UNCHANGED <<corpus, parser, queue, main, pool, inflight, unsent, stored, results>>
  BY DEF LocalDense, DenseOver, Served
<1> HIDE DEF r
<1> QED BY <1>4, <1>6, <1>7, DenseStep

\* The local model raises.
LEMMA LocalDenseFailsKeeps ==
  ASSUME IInv, NEW j \in 1 .. Len(jobs), LocalDenseFails(j)
  PROVE  IInv'
<1> DEFINE r == [jobs[j] EXCEPT !.dense = "raised"]
<1>1. jobs[j] \in JobType /\ Embeds(jobs[j])
  BY JobHasType
<1>2. /\ jobs' = [jobs EXCEPT ![j] = r] /\ postQueue' = Append(postQueue, j)
      /\ jobs[j].dense = "busy"
      /\ UNCHANGED <<corpus, parser, queue, main, pool, inflight, unsent, stored, results>>
  BY DEF LocalDenseFails, DenseOver, Served
<1>3. /\ r \in JobType /\ r.entries = jobs[j].entries /\ r.docs = jobs[j].docs
      /\ r.post = jobs[j].post /\ r.tries = jobs[j].tries
      /\ r.vectors = jobs[j].vectors /\ r.dense = "raised"
  BY <1>1 DEF JobType
<1>4. Embeds(r)
  BY <1>1, <1>2, <1>3 DEF Embeds
<1> HIDE DEF r
<1> QED BY <1>2, <1>3, <1>4, DenseStep

\* A repeated request changes nothing but the number of tries.
LEMMA AskAgainKeeps ==
  ASSUME IInv, NEW j \in 1 .. Len(jobs), AskAgain(j)
  PROVE  IInv'
<1>1. /\ jobs[j] \in JobType /\ Embeds(jobs[j]) /\ jobs \in Seq(JobType)
      /\ jobs[j].tries \in Seq(Nat) /\ Len(jobs[j].tries) = Len(jobs[j].docs)
  BY JobHasType DEF IInv, Types, JobType, Embeds
<1>2. PICK i \in 1 .. Len(jobs[j].docs) : jobs' = [jobs EXCEPT ![j].tries[i] = @ + 1]
  BY DEF AskAgain, Unanswered, Requests
<1> DEFINE tries == [jobs[j].tries EXCEPT ![i] = @ + 1]
           r == [jobs[j] EXCEPT !.tries = tries]
<1>3. tries \in Seq(Nat) /\ Len(tries) = Len(jobs[j].docs)
  <2>1. jobs[j].tries[i] + 1 \in Nat
    BY <1>1
  <2> QED BY <1>1, <2>1, ExceptSeq
<1>4. /\ jobs' = [jobs EXCEPT ![j] = r] /\ postQueue' = postQueue
      /\ jobs[j].dense = "busy"
      /\ UNCHANGED <<corpus, parser, queue, main, pool, inflight, unsent, stored, results>>
  BY <1>1, <1>2 DEF AskAgain, Served
<1> HIDE DEF tries
<1>5. /\ r \in JobType /\ r.entries = jobs[j].entries /\ r.docs = jobs[j].docs
      /\ r.post = jobs[j].post /\ r.tries = tries
      /\ r.vectors = jobs[j].vectors /\ r.dense = jobs[j].dense
  BY <1>1, <1>3 DEF JobType
<1>6. Embeds(r)
  BY <1>1, <1>3, <1>5 DEF Embeds
<1> HIDE DEF r
<1> QED BY <1>4, <1>5, <1>6, DenseStep

\* What a request of job j leaves of it when it is over, before the job is.
Followed(j, job) ==
  /\ job \in JobType /\ Embeds(job) /\ job.dense = "busy" /\ job.post = jobs[j].post
  /\ job.entries = jobs[j].entries /\ job.docs = jobs[j].docs

LEMMA RequestOverKeeps ==
  ASSUME IInv, NEW j \in 1 .. Len(jobs), NEW job, Followed(j, job), RequestOver(j, job),
         jobs[j].dense = "busy",
         UNCHANGED <<corpus, parser, queue, main, pool, inflight, unsent, stored, results>>
  PROVE  IInv'
<1>1. CASE Unanswered(job) # {}
  <2>1. jobs' = [jobs EXCEPT ![j] = job] /\ postQueue' = postQueue
    BY <1>1 DEF RequestOver
  <2> QED BY <2>1, DenseStep DEF Followed
<1>2. CASE Unanswered(job) = {}
  <2> DEFINE x == IF job.failed = {} THEN "over" ELSE "raised"
             r == [job EXCEPT !.dense = x]
  <2>1. jobs' = [jobs EXCEPT ![j] = r] /\ postQueue' = Append(postQueue, j)
    BY <1>2 DEF RequestOver, DenseOver
  <2>2. x \in {"over", "raised"}
    OBVIOUS
  <2> HIDE DEF x
  <2>3. /\ r \in JobType /\ r.entries = job.entries /\ r.docs = job.docs
        /\ r.post = job.post /\ r.tries = job.tries /\ r.vectors = job.vectors /\ r.dense = x
    BY <2>2 DEF JobType, Followed
  <2> HIDE DEF r
  <2>4. Embeds(r)
    BY <2>3 DEF Followed, Embeds
  <2> QED BY <2>1, <2>2, <2>3, <2>4, DenseStep DEF Followed
<1> QED BY <1>1, <1>2

\* An answer puts vectors in the places of their own documents.
LEMMA AskedFollows ==
  ASSUME IInv, NEW j \in 1 .. Len(jobs), jobs[j].dense = "busy",
         NEW i \in Requests(jobs[j].docs), NEW last \in Int
  PROVE  Followed(j, Asked(jobs[j], i, last))
<1> DEFINE docs == jobs[j].docs
           old == jobs[j].vectors
           asked == jobs[j].asked \cup {i}
           r == Asked(jobs[j], i, last)
           new == [k \in DOMAIN old |-> IF k \in i .. last THEN docs[k] ELSE old[k]]
<1>1. /\ jobs[j] \in JobType /\ Embeds(jobs[j])
      /\ docs \in Seq(Chunks) /\ old \in Seq(Chunks \cup {NoVector}) /\ Len(old) = Len(docs)
      /\ i \in Nat /\ jobs[j].asked \subseteq Nat
  BY JobHasType DEF JobType, Embeds, Requests
<1>2. DOMAIN old = 1 .. Len(docs) /\ Len(docs) \in Nat
  BY <1>1
<1>3. \A k \in 1 .. Len(docs) :
        docs[k] \in Chunks /\ old[k] \in Chunks \cup {NoVector} /\ old[k] \in {docs[k], NoVector}
  BY <1>1 DEF Embeds
<1>4. r = [jobs[j] EXCEPT !.asked = asked, !.vectors = new]
  BY DEF Asked
<1>5. /\ new \in Seq(Chunks \cup {NoVector}) /\ Len(new) = Len(docs)
      /\ \A k \in 1 .. Len(docs) : new[k] \in {docs[k], NoVector}
  <2>1. new = [k \in 1 .. Len(docs) |-> IF k \in i .. last THEN docs[k] ELSE old[k]]
    BY <1>2
  <2> HIDE DEF docs, old
  <2> QED BY <1>2, <1>3, <2>1
<1>6. asked \subseteq Nat
  BY <1>1
<1> HIDE DEF new, asked, r
<1>7. /\ r \in JobType /\ r.entries = jobs[j].entries /\ r.docs = docs /\ r.post = jobs[j].post
      /\ r.tries = jobs[j].tries /\ r.vectors = new /\ r.dense = "busy"
  BY <1>1, <1>4, <1>5, <1>6 DEF JobType
<1>8. r.post \notin {"busy", "stored"}
  BY <1>1, <1>7 DEF Embeds
<1>9. Embeds(r)
  BY <1>1, <1>5, <1>7, <1>8 DEF Embeds
<1> QED BY <1>7, <1>9 DEF Followed, r

\* embed_concurrent: an answer in any order, whole or short.
LEMMA AnswerKeeps ==
  ASSUME IInv, NEW j \in 1 .. Len(jobs), Answer(j) \/ AnswerIsShort(j)
  PROVE  IInv'
<1>1. /\ jobs[j].dense = "busy"
      /\ UNCHANGED <<corpus, parser, queue, main, pool, inflight, unsent, stored, results>>
  BY DEF Answer, AnswerIsShort, Served
<1>2. \A i \in Requests(jobs[j].docs) : i \in Nat /\ Upto(jobs[j].docs, i) \in Int
  <2>1. MiniBatch \in Nat /\ Len(jobs[j].docs) \in Nat
    BY PipelineConstants, JobHasType DEF JobType
  <2> QED BY <2>1 DEF Requests, Upto
<1>3. PICK i \in Requests(jobs[j].docs), last \in Int : RequestOver(j, Asked(jobs[j], i, last))
  BY <1>2 DEF Answer, AnswerIsShort, Unanswered
<1>4. Followed(j, Asked(jobs[j], i, last))
  BY <1>1, AskedFollows
<1> QED BY <1>1, <1>3, <1>4, RequestOverKeeps

\* A request raises; the job waits for the others all the same.
LEMMA AnswerFailsKeeps ==
  ASSUME IInv, NEW j \in 1 .. Len(jobs), AnswerFails(j)
  PROVE  IInv'
<1>1. /\ jobs[j].dense = "busy"
      /\ UNCHANGED <<corpus, parser, queue, main, pool, inflight, unsent, stored, results>>
  BY DEF AnswerFails, Served
<1>2. PICK i \in Requests(jobs[j].docs) :
        RequestOver(j, [jobs[j] EXCEPT !.failed = @ \cup {i}])
  BY DEF AnswerFails, Unanswered
<1> DEFINE r == [jobs[j] EXCEPT !.failed = @ \cup {i}]
<1>3. jobs[j] \in JobType /\ Embeds(jobs[j])
  BY JobHasType
<1>4. /\ r \in JobType /\ r.entries = jobs[j].entries /\ r.docs = jobs[j].docs
      /\ r.post = jobs[j].post /\ r.tries = jobs[j].tries
      /\ r.vectors = jobs[j].vectors /\ r.dense = "busy"
  <2>1. jobs[j].failed \cup {i} \subseteq Nat
    BY <1>3 DEF JobType, Requests
  <2> QED BY <1>1, <1>3, <2>1 DEF JobType
<1> HIDE DEF r
<1>5. Embeds(r)
  BY <1>1, <1>3, <1>4 DEF Embeds
<1> QED BY <1>1, <1>2, <1>4, <1>5, RequestOverKeeps DEF Followed, r

\* The post worker takes a pool whose dense stage is over.
LEMMA PostStartKeeps ==
  ASSUME IInv, PostStart
  PROVE  IInv'
<1> DEFINE j == Head(postQueue)
           x == IF Broken(jobs[j]) THEN "raised" ELSE "busy"
           r == [jobs[j] EXCEPT !.post = x]
<1>1. postQueue \in Seq(1 .. Len(jobs)) /\ postQueue # <<>>
  BY DEF IInv, Types, PostStart
<1>2. /\ j \in 1 .. Len(jobs) /\ Tail(postQueue) \in Seq(1 .. Len(jobs))
      /\ Len(Tail(postQueue)) = Len(postQueue) - 1 /\ Len(postQueue) \in Nat
      /\ \A i \in 1 .. Len(Tail(postQueue)) : Tail(postQueue)[i] = postQueue[i + 1]
  BY <1>1, HeadTailProperties
<1>3. /\ jobs[j] \in JobType /\ corpus \in Corpora
      /\ Laid(corpus.size, jobs[j].entries, jobs[j].docs) /\ Embeds(jobs[j])
  BY <1>2, JobHasType
<1>4. jobs[j].dense # "busy"
  <2>1. j = postQueue[1] /\ 1 \in 1 .. Len(postQueue)
    BY <1>1
  <2> QED BY <2>1 DEF IInv, PostInv
<1>5. /\ jobs' = [jobs EXCEPT ![j] = r] /\ postQueue' = Tail(postQueue)
      /\ unsent' = IF x = "raised" THEN unsent ELSE UpsertBatches(jobs[j])
      /\ \A i \in 1 .. Len(jobs) : jobs[i].post # "busy"
      /\ corpus' = corpus /\ stored' = stored /\ journal' = journal /\ manifest' = manifest
      /\ UNCHANGED <<corpus, parser, queue, main, pool, inflight, results>>
  BY DEF PostStart, Working, results
<1>6. /\ r \in JobType /\ r.entries = jobs[j].entries /\ r.docs = jobs[j].docs
      /\ r.post = x /\ r.tries = jobs[j].tries
      /\ r.vectors = jobs[j].vectors /\ r.dense = jobs[j].dense
  BY <1>3 DEF JobType
<1>7. x = "busy" => jobs[j].dense = "over" /\ jobs[j].vectors = jobs[j].docs
  <2> SUFFICES ASSUME ~Broken(jobs[j])
               PROVE  jobs[j].dense = "over" /\ jobs[j].vectors = jobs[j].docs
    OBVIOUS
  <2>1. jobs[j].dense = "over"
    BY <1>3, <1>4 DEF JobType, Broken
  <2>2. /\ jobs[j].vectors \in Seq(Chunks \cup {NoVector})
        /\ jobs[j].docs \in Seq(Chunks \cup {NoVector})
    BY <1>3, SeqMonotonic DEF JobType
  <2>3. Len(jobs[j].vectors) = Len(jobs[j].docs)
    BY <1>3 DEF Embeds
  <2>4. \A k \in 1 .. Len(jobs[j].docs) : jobs[j].vectors[k] = jobs[j].docs[k]
    BY <1>3, <2>2, <2>3 DEF Embeds, Broken
  <2> HIDE DEF j
  <2> QED BY <2>1, <2>2, <2>3, <2>4, SeqEqual
<1>8. Embeds(r)
  BY <1>3, <1>6, <1>7 DEF Embeds
<1>9. x = "busy" => UNION unsent' = {p \in 1 .. Len(jobs[j].docs) : jobs[j].docs[p] \notin corpus.zero}
  <2>1. x = "busy" => jobs[j].vectors = jobs[j].docs
    BY <1>7
  <2>2. x = "busy" => UNION unsent' = Kept(jobs[j])
    BY <1>5, BatchesCover
  <2> QED BY <2>1, <2>2 DEF Kept
<1> HIDE DEF r, x, j
<1>10. /\ Len(jobs') = Len(jobs)
       /\ \A i \in 1 .. Len(jobs) : jobs'[i] = IF i = j THEN r ELSE jobs[i]
       /\ Types' /\ PoolInv' /\ JobsInv' /\ FlowInv'
  BY <1>2, <1>5, <1>6, <1>8, JobStep
<1>11. \A i \in 1 .. Len(jobs) : jobs'[i].dense = jobs[i].dense /\ jobs'[i].docs = jobs[i].docs
  BY <1>6, <1>10
<1>12. \A i \in 1 .. Len(postQueue') : jobs'[postQueue'[i]].dense # "busy"
  <2>1. \A i \in 1 .. Len(postQueue) :
          postQueue[i] \in 1 .. Len(jobs) /\ jobs[postQueue[i]].dense # "busy"
    BY <1>1 DEF IInv, PostInv
  <2>2. \A i \in 1 .. Len(postQueue') :
          i + 1 \in 1 .. Len(postQueue) /\ postQueue'[i] = postQueue[i + 1]
    BY <1>2, <1>5
  <2> QED BY <1>11, <2>1, <2>2, ZenonT(60)
<1>13. \A i \in 1 .. Len(jobs) :
         /\ jobs'[i].post = "busy" => i = j /\ x = "busy"
         /\ jobs'[i].post = "stored" => i # j /\ jobs[i].post = "stored"
  <2>1. x \in {"raised", "busy"}
    BY DEF x
  <2> QED BY <1>5, <1>6, <1>10, <2>1
<1>14. x = "busy" =>
         /\ \A b \in unsent' : b \subseteq 1 .. Len(jobs[j].docs)
         /\ \A p \in 1 .. Len(jobs[j].docs) :
              jobs[j].docs[p] \in corpus.zero \/ \E b \in unsent' : p \in b
  BY <1>9
<1>15. PostInv'
  <2>1. ASSUME NEW i \in 1 .. Len(jobs), jobs'[i].post = "busy"
        PROVE  /\ \A b \in unsent' : b \subseteq 1 .. Len(jobs'[i].docs)
               /\ \A p \in 1 .. Len(jobs'[i].docs) :
                    \/ IsStored(jobs'[i].docs[p], corpus'.zero, stored')
                    \/ \E b \in unsent' : p \in b
    BY <2>1, <1>5, <1>11, <1>13, <1>14 DEF IsStored
  <2>2. ASSUME NEW i \in 1 .. Len(jobs), jobs'[i].post = "stored"
        PROVE  \A p \in 1 .. Len(jobs'[i].docs) :
                 IsStored(jobs'[i].docs[p], corpus'.zero, stored')
    BY <2>2, <1>5, <1>11, <1>13 DEF IInv, PostInv
  <2> QED BY <1>10, <1>12, <1>13, <2>1, <2>2 DEF PostInv
<1>16. StoredInv'
  BY <1>5 DEF IInv, StoredInv, OwnVectors, EntriesAreStored
<1> QED BY <1>10, <1>15, <1>16 DEF IInv

\* The post worker is done with a pool: it raised, failed or sent every batch.
LEMMA PostOverKeeps ==
  ASSUME IInv, NEW j \in 1 .. Len(jobs), PostRaises(j) \/ SendFails(j) \/ Sent(j)
  PROVE  IInv'
<1>1. PICK x \in {"raised", "failed", "stored"} :
        /\ jobs' = [jobs EXCEPT ![j].post = x]
        /\ x = "stored" => unsent = {}
  BY DEF PostRaises, SendFails, Sent
<1> DEFINE r == [jobs[j] EXCEPT !.post = x]
<1>2. /\ jobs' = [jobs EXCEPT ![j] = r] /\ postQueue' = postQueue
      /\ jobs[j].post = "busy"
      /\ corpus' = corpus /\ stored' = stored /\ journal' = journal /\ manifest' = manifest
      /\ UNCHANGED <<corpus, parser, queue, main, pool, inflight, results>>
  BY <1>1 DEF PostRaises, SendFails, Sent, results
<1>3. jobs[j] \in JobType /\ Embeds(jobs[j])
  BY JobHasType
<1>4. /\ r \in JobType /\ r.entries = jobs[j].entries /\ r.docs = jobs[j].docs
      /\ r.post = x /\ r.tries = jobs[j].tries
      /\ r.vectors = jobs[j].vectors /\ r.dense = jobs[j].dense
  BY <1>1, <1>3 DEF JobType
<1>5. Embeds(r)
  BY <1>2, <1>3, <1>4 DEF Embeds
<1>6. postQueue' \in Seq(1 .. Len(jobs)) /\ postQueue \in Seq(1 .. Len(jobs))
  BY <1>2 DEF IInv, Types
<1> HIDE DEF r
<1>7. /\ Len(jobs') = Len(jobs)
      /\ \A i \in 1 .. Len(jobs) : jobs'[i] = IF i = j THEN r ELSE jobs[i]
      /\ Types' /\ PoolInv' /\ JobsInv' /\ FlowInv'
  BY <1>2, <1>4, <1>5, <1>6, JobStep
<1>8. \A i \in 1 .. Len(jobs) : jobs'[i].dense = jobs[i].dense /\ jobs'[i].docs = jobs[i].docs
  BY <1>4, <1>7
<1>9. \A i \in 1 .. Len(jobs) :
        /\ jobs'[i].post # "busy"
        /\ jobs'[i].post = "stored" => jobs[i].post = "stored" \/ (i = j /\ unsent = {})
  <2>1. \A i \in 1 .. Len(jobs) : jobs[i].post = "busy" => i = j
    BY <1>2 DEF IInv, PostInv
  <2> QED BY <1>1, <1>4, <1>7, <2>1
<1>10. PostInv'
  <2>1. \A i \in 1 .. Len(postQueue') : jobs'[postQueue'[i]].dense # "busy"
    <3>1. \A i \in 1 .. Len(postQueue) :
            postQueue[i] \in 1 .. Len(jobs) /\ jobs[postQueue[i]].dense # "busy"
      BY <1>6 DEF IInv, PostInv
    <3> QED BY <1>2, <1>8, <3>1
  <2>2. ASSUME NEW i \in 1 .. Len(jobs), jobs'[i].post = "stored"
        PROVE  \A p \in 1 .. Len(jobs'[i].docs) :
                 IsStored(jobs'[i].docs[p], corpus'.zero, stored')
    BY <2>2, <1>2, <1>8, <1>9 DEF IInv, PostInv
  <2> QED BY <1>7, <1>9, <2>1, <2>2 DEF PostInv
<1>11. StoredInv'
  BY <1>2 DEF IInv, StoredInv, OwnVectors, EntriesAreStored
<1> QED BY <1>7, <1>10, <1>11 DEF IInv

\* A request with the batch b: its points may be stored, and what is not stored
\* stays to be sent.
LEMMA RequestKeeps ==
  ASSUME IInv, NEW j \in 1 .. Len(jobs), jobs[j].post = "busy", NEW b \in unsent,
         stored' \in {stored, stored \cup PointsOf(j, b)},
         UNION unsent' \subseteq UNION unsent,
         \A p \in UNION unsent :
           p \in UNION unsent' \/ (p \in b /\ stored' = stored \cup PointsOf(j, b)),
         UNCHANGED <<corpus, parser, queue, main, pool, jobs, inflight, postQueue, results>>
  PROVE  IInv'
<1>1. /\ corpus' = corpus /\ unparsed' = unparsed /\ reader' = reader /\ hand' = hand
      /\ parserError' = parserError /\ queue' = queue /\ main' = main /\ pool' = pool
      /\ inflight' = inflight /\ journal' = journal /\ manifest' = manifest
      /\ errored' = errored /\ jobs' = jobs /\ postQueue' = postQueue
  BY DEF parser, results
<1>2. /\ jobs[j] \in JobType /\ corpus \in Corpora
      /\ Laid(corpus.size, jobs[j].entries, jobs[j].docs) /\ Embeds(jobs[j])
  BY JobHasType
<1>3. /\ UNION unsent \subseteq 1 .. Len(jobs[j].docs)
      /\ \A i \in 1 .. Len(jobs) : jobs[i].post = "busy" => i = j
      /\ \A p \in 1 .. Len(jobs[j].docs) :
           IsStored(jobs[j].docs[p], corpus.zero, stored) \/ p \in UNION unsent
  BY DEF IInv, PostInv
<1>4. jobs[j].vectors = jobs[j].docs /\ jobs[j].docs \in Seq(Chunks) /\ jobs[j].entries \in EntrySets
  BY <1>2 DEF Embeds, JobType
<1>5. b \subseteq 1 .. Len(jobs[j].docs)
  BY <1>3
<1>6. ASSUME NEW p \in b
      PROVE  /\ PointAt(jobs[j], p) = <<jobs[j].docs[p], jobs[j].docs[p]>>
             /\ jobs[j].docs[p][1] \in journal
  <2>1. PointAt(jobs[j], p) = <<jobs[j].docs[p], jobs[j].docs[p]>>
    BY <1>2, <1>4, <1>5, PointIsOwn
  <2>2. jobs[j].docs[p][1] \in FilesOf(jobs[j].entries)
    BY <1>2, <1>4, <1>5, ChunkOfAFile
  <2> QED BY <2>1, <2>2 DEF IInv, JobsInv
<1>7. PointsOf(j, b) = {<<jobs[j].docs[p], jobs[j].docs[p]>> : p \in b}
  BY <1>6 DEF PointsOf
<1>8. Types' /\ PoolInv' /\ JobsInv'
  BY <1>1 DEF IInv, Types, PoolInv, JobsInv, Files, FilesOf
<1>9. FlowInv'
  <2>1. \A f \in Files : IsSomewhere(f) <=> IsSomewhere(f)'
    BY <1>1 DEF IsSomewhere, FilesOf
  <2>2. FlowInv /\ Files' = Files
    BY <1>1 DEF IInv, Files
  <2> QED BY <1>1, <2>1, <2>2 DEF FlowInv
<1>10. stored \subseteq stored'
  OBVIOUS
<1>11. StoredInv'
  <2>1. OwnVectors'
    <3>1. \A s \in PointsOf(j, b) : s[1] = s[2]
      BY <1>7
    <3> QED BY <3>1 DEF IInv, StoredInv, OwnVectors
  <2>2. \A s \in stored' : s[1][1] \in journal
    <3>1. \A s \in PointsOf(j, b) : s[1][1] \in journal
      BY <1>6, <1>7
    <3> QED BY <3>1 DEF IInv, StoredInv, EntriesAreStored
  <2>3. \A f \in manifest : \A i \in 1 .. Len(corpus.size[f]) :
          <<f, i>> \in corpus.zero \/ \E p \in stored' : p[1] = <<f, i>>
    BY <1>10 DEF IInv, StoredInv, EntriesAreStored
  <2> QED BY <1>1, <2>1, <2>2, <2>3 DEF StoredInv, EntriesAreStored
<1>12. ASSUME NEW p \in 1 .. Len(jobs[j].docs)
       PROVE  IsStored(jobs[j].docs[p], corpus.zero, stored') \/ p \in UNION unsent'
  <2>1. CASE IsStored(jobs[j].docs[p], corpus.zero, stored)
    BY <2>1, <1>10 DEF IsStored
  <2>2. CASE p \in UNION unsent
    BY <2>2, <1>7 DEF IsStored
  <2> QED BY <1>3, <2>1, <2>2
<1>13. PostInv'
  <2>1. \A i \in 1 .. Len(jobs) : jobs[i].post = "stored" =>
          \A p \in 1 .. Len(jobs[i].docs) : IsStored(jobs[i].docs[p], corpus.zero, stored')
    BY <1>10 DEF IInv, PostInv, IsStored
  <2>2. /\ \A i \in 1 .. Len(postQueue) : jobs[postQueue[i]].dense # "busy"
        /\ \A i, k \in 1 .. Len(jobs) : jobs[i].post = "busy" /\ jobs[k].post = "busy" => i = k
    BY DEF IInv, PostInv
  <2>3. ASSUME NEW i \in 1 .. Len(jobs), jobs[i].post = "busy"
        PROVE  /\ \A c \in unsent' : c \subseteq 1 .. Len(jobs[i].docs)
               /\ \A p \in 1 .. Len(jobs[i].docs) :
                    \/ IsStored(jobs[i].docs[p], corpus.zero, stored')
                    \/ \E c \in unsent' : p \in c
    <3>1. i = j
      BY <1>3, <2>3
    <3> QED BY <3>1, <1>3, <1>12
  <2> QED BY <1>1, <2>1, <2>2, <2>3 DEF PostInv
<1> QED BY <1>8, <1>9, <1>11, <1>13 DEF IInv

\* A batch that is sent, or cut into halves.
LEMMA SendKeeps ==
  ASSUME IInv, NEW j \in 1 .. Len(jobs), Send(j) \/ SendHalves(j)
  PROVE  IInv'
<1>1. CASE Send(j)
  <2>1. PICK b \in unsent : stored' = stored \cup PointsOf(j, b) /\ unsent' = unsent \ {b}
    BY <1>1 DEF Send
  <2>2. /\ jobs[j].post = "busy"
        /\ UNCHANGED <<corpus, parser, queue, main, pool, jobs, inflight, postQueue, results>>
    BY <1>1 DEF Send
  <2>3. /\ UNION unsent' \subseteq UNION unsent
        /\ \A p \in UNION unsent : p \in UNION unsent' \/ p \in b
    BY <2>1
  <2> QED BY <2>1, <2>2, <2>3, RequestKeeps
<1>2. CASE SendHalves(j)
  <2>1. PICK b \in unsent :
          /\ \E half : half \subseteq b /\ unsent' = (unsent \ {b}) \cup {half, b \ half}
          /\ stored' \in {stored, stored \cup PointsOf(j, b)}
    BY <1>2 DEF SendHalves, FirstOf
  <2>2. /\ jobs[j].post = "busy"
        /\ UNCHANGED <<corpus, parser, queue, main, pool, jobs, inflight, postQueue, results>>
    BY <1>2 DEF SendHalves
  <2>3. UNION unsent' = UNION unsent
    <3>1. PICK half : half \subseteq b /\ unsent' = (unsent \ {b}) \cup {half, b \ half}
      BY <2>1
    <3>2. ASSUME NEW p \in UNION unsent
          PROVE  p \in UNION unsent'
      <4>1. CASE p \in b
        <5>1. half \in unsent' /\ (b \ half) \in unsent'
          BY <3>1
        <5>2. p \in half \/ p \in b \ half
          BY <4>1
        <5> QED BY <5>1, <5>2
      <4>2. CASE p \notin b
        BY <3>1, <4>2
      <4> QED BY <4>1, <4>2
    <3>3. UNION unsent' \subseteq UNION unsent
      BY <3>1
    <3> QED BY <3>2, <3>3
  <2> QED BY <2>1, <2>2, <2>3, RequestKeeps
<1> QED BY <1>1, <1>2

\* A step that leaves the pool, the jobs and what is stored alone.
LEMMA QuietKeeps ==
  ASSUME IInv, Types', FlowInv',
         UNCHANGED <<corpus, pool, jobs, postQueue, unsent, stored, journal, manifest>>
  PROVE  IInv'
<1>1. PoolInv' /\ JobsInv' /\ PostInv' /\ StoredInv'
  BY DEF IInv, PoolInv, JobsInv, PostInv, StoredInv, OwnVectors, EntriesAreStored, FilesOf
<1> QED BY <1>1 DEF IInv

\* The parser thread moves a file from unparsed by way of its hand to the queue.
LEMMA ParserKeeps ==
  ASSUME IInv, Parser
  PROVE  IInv'
<1>1. /\ unparsed \in Seq(Files) /\ queue \in Seq(Files \cup {0})
      /\ reader = "put" => hand \in Files
      /\ main \in {"final", "drain", "save", "ended"} => reader = "gone"
      /\ \A i \in 1 .. Len(queue) : queue[i] = 0 => i = Len(queue) /\ reader = "gone"
      /\ FlowInv
  BY DEF IInv, Types, FlowInv
<1>2. /\ corpus' = corpus /\ main' = main /\ pool' = pool /\ jobs' = jobs /\ journal' = journal
      /\ inflight' = inflight /\ postQueue' = postQueue /\ manifest' = manifest
      /\ errored' = errored /\ unsent' = unsent /\ stored' = stored
      /\ reader # "gone" /\ Files' = Files
  BY DEF Parser, ParseFile, ParseFails, ParsedAll, Put, results, Files
<1>3. main \notin {"final", "drain", "save", "ended"}
  BY <1>1, <1>2
<1>4. CASE ParseFile
  <2>1. /\ reader' = "put" /\ hand' = Head(unparsed) /\ unparsed' = Tail(unparsed)
        /\ queue' = queue /\ unparsed # <<>> /\ reader = "read"
    BY <1>4 DEF ParseFile
  <2>2. /\ Head(unparsed) \in Files /\ Tail(unparsed) \in Seq(Files)
        /\ Len(Tail(unparsed)) = Len(unparsed) - 1 /\ Len(unparsed) \in Nat
        /\ \A i \in 1 .. Len(Tail(unparsed)) : Tail(unparsed)[i] = unparsed[i + 1]
        /\ Head(unparsed) = unparsed[1]
    BY <1>1, <2>1, HeadTailProperties
  <2>3. ASSUME NEW f \in Files, NEW i \in 1 .. Len(unparsed), unparsed[i] = f
        PROVE  hand' = f \/ \E k \in 1 .. Len(unparsed') : unparsed'[k] = f
    <3>1. CASE i = 1
      BY <3>1, <2>1, <2>2, <2>3
    <3>2. CASE i # 1
      <4>1. i - 1 \in 1 .. Len(Tail(unparsed)) /\ Tail(unparsed)[i - 1] = unparsed[i]
        BY <3>2, <2>2
      <4> QED BY <4>1, <2>1, <2>3
    <3> QED BY <3>1, <3>2
  <2>4. \A f \in Files : IsSomewhere(f) => IsSomewhere(f)'
    BY <1>2, <2>1, <2>3 DEF IsSomewhere, FilesOf
  <2>5. FlowInv'
    BY <1>1, <1>2, <1>3, <2>1, <2>4 DEF FlowInv
  <2>6. Types'
    BY <1>2, <2>1, <2>2 DEF IInv, Types
  <2> QED BY <1>2, <2>5, <2>6, QuietKeeps
<1>5. CASE ParseFails \/ ParsedAll
  <2>1. /\ reader' = "end" /\ unparsed' = unparsed /\ queue' = queue /\ reader = "read"
        /\ ~parserError' => unparsed = <<>>
    BY <1>5 DEF ParseFails, ParsedAll
  <2>2. \A f \in Files : IsSomewhere(f) => IsSomewhere(f)'
    BY <1>2, <2>1 DEF IsSomewhere, FilesOf
  <2>3. FlowInv'
    BY <1>1, <1>2, <1>3, <2>1, <2>2 DEF FlowInv
  <2>4. Types'
    BY <1>2, <2>1 DEF IInv, Types
  <2> QED BY <1>2, <2>3, <2>4, QuietKeeps
<1>6. CASE Put
  <2> DEFINE x == IF reader = "put" THEN hand ELSE 0
  <2>1. /\ reader \in {"put", "end"} /\ queue' = Append(queue, x) /\ unparsed' = unparsed
        /\ reader' = IF reader = "put" THEN "read" ELSE "gone"
        /\ hand' = hand /\ parserError' = parserError
    BY <1>6 DEF Put
  <2>2. x \in Files \cup {0}
    BY <1>1
  <2>3. x = 0 => reader = "end"
    BY <1>1, <2>1 DEF Files
  <2>4. reader = "put" => x = hand
    OBVIOUS
  <2> HIDE DEF x
  <2>5. /\ queue' \in Seq(Files \cup {0}) /\ Len(queue') = Len(queue) + 1
        /\ Len(queue) \in Nat /\ queue'[Len(queue) + 1] = x
        /\ \A i \in 1 .. Len(queue) : queue'[i] = queue[i]
    BY <1>1, <2>1, <2>2, AppendProperties
  <2>6. \A i \in 1 .. Len(queue') : i \in 1 .. Len(queue) \/ i = Len(queue')
    BY <2>5
  <2>7. \A i \in 1 .. Len(queue') : queue'[i] = 0 => i = Len(queue') /\ reader' = "gone"
    BY <1>1, <1>2, <2>1, <2>3, <2>5, <2>6
  <2>8. \A i \in 1 .. Len(queue) : i \in 1 .. Len(queue')
    BY <2>5
  <2>9. Len(queue) + 1 \in 1 .. Len(queue')
    BY <2>5
  <2>10. \A f \in Files : IsSomewhere(f) => IsSomewhere(f)'
    BY <1>2, <2>1, <2>4, <2>5, <2>8, <2>9 DEF IsSomewhere, FilesOf
  <2>11. FlowInv'
    <3>1. ~parserError' /\ reader' \in {"end", "gone"} => unparsed' = <<>>
      BY <1>1, <2>1 DEF FlowInv
    <3>2. main' # "raised" => \A f \in Files' : IsSomewhere(f)'
      BY <1>1, <1>2, <2>10 DEF FlowInv
    <3> QED BY <1>2, <1>3, <2>7, <3>1, <3>2 DEF FlowInv
  <2>12. Types'
    <3>1. reader' \in {"read", "put", "end", "gone"} /\ (reader' = "put" => hand' \in Files)
      BY <1>1, <2>1
    <3> QED BY <1>2, <2>1, <2>5, <3>1 DEF IInv, Types
  <2> QED BY <1>2, <2>11, <2>12, QuietKeeps
<1> QED BY <1>4, <1>5, <1>6 DEF Parser

\* What TakeFile and TakeEnd have in common.
LEMMA QueueHead ==
  ASSUME IInv, queue # <<>>, queue' = Tail(queue)
  PROVE  /\ Head(queue) \in Files \cup {0} /\ Tail(queue) \in Seq(Files \cup {0})
         /\ Head(queue) = queue[1]
         /\ \A i \in 1 .. Len(queue') : queue'[i] = 0 => i = Len(queue') /\ reader = "gone"
         /\ \A i \in 1 .. Len(queue) :
              i = 1 \/ \E k \in 1 .. Len(queue') : queue'[k] = queue[i]
         /\ Head(queue) = 0 => queue' = <<>> /\ reader = "gone"
<1>1. /\ queue \in Seq(Files \cup {0})
      /\ \A i \in 1 .. Len(queue) : queue[i] = 0 => i = Len(queue) /\ reader = "gone"
  BY DEF IInv, Types, FlowInv
<1>2. /\ Head(queue) \in Files \cup {0} /\ Tail(queue) \in Seq(Files \cup {0})
      /\ Len(Tail(queue)) = Len(queue) - 1 /\ Len(queue) \in Nat \ {0}
      /\ \A i \in 1 .. Len(Tail(queue)) : Tail(queue)[i] = queue[i + 1]
      /\ Head(queue) = queue[1]
  BY <1>1, HeadTailProperties
<1>3. ASSUME NEW i \in 1 .. Len(queue'), queue'[i] = 0
      PROVE  i = Len(queue') /\ reader = "gone"
  <2>1. i + 1 \in 1 .. Len(queue) /\ queue[i + 1] = 0
    BY <1>2, <1>3
  <2>2. i + 1 = Len(queue) /\ reader = "gone"
    BY <1>1, <2>1
  <2>3. Len(queue') = Len(queue) - 1 /\ Len(queue) \in Nat /\ i \in Nat
    BY <1>2
  <2>4. i = Len(queue')
    BY <2>2, <2>3
  <2> QED BY <2>2, <2>4
<1>4. ASSUME NEW i \in 1 .. Len(queue), i # 1
      PROVE  \E k \in 1 .. Len(queue') : queue'[k] = queue[i]
  <2>1. i - 1 \in 1 .. Len(queue') /\ queue'[i - 1] = queue[i]
    BY <1>2, <1>4
  <2> QED BY <2>1
<1>5. Head(queue) = 0 => queue' = <<>> /\ reader = "gone"
  <2>1. 1 \in 1 .. Len(queue)
    BY <1>2
  <2>2. Head(queue) = 0 => Len(queue) = 1 /\ reader = "gone"
    BY <1>1, <1>2, <2>1
  <2>3. Len(queue') = 0 => queue' = <<>>
    BY <1>2, EmptySeq
  <2> QED BY <1>2, <2>2, <2>3
<1> QED BY <1>2, <1>3, <1>4, <1>5

\* The file at the head of the queue goes into the pool.
LEMMA TakeFileKeeps ==
  ASSUME IInv, TakeFile
  PROVE  IInv'
<1>1. /\ main = "loop" /\ queue # <<>> /\ Head(queue) # 0 /\ queue' = Tail(queue)
      /\ corpus' = corpus /\ unparsed' = unparsed /\ reader' = reader /\ hand' = hand
      /\ parserError' = parserError /\ jobs' = jobs /\ inflight' = inflight
      /\ postQueue' = postQueue /\ unsent' = unsent /\ stored' = stored
      /\ journal' = journal /\ manifest' = manifest /\ errored' = errored
      /\ IF parserError
         THEN main' = "raised" /\ pool' = pool
         ELSE pool' = Add(pool, Head(queue)) /\ main' \in {"flush", "reap", "loop"}
  BY DEF TakeFile, parser, results
<1>2. /\ Head(queue) \in Files /\ Tail(queue) \in Seq(Files \cup {0})
      /\ Head(queue) = queue[1]
      /\ \A i \in 1 .. Len(queue') : queue'[i] = 0 => i = Len(queue') /\ reader = "gone"
      /\ \A i \in 1 .. Len(queue) :
           i = 1 \/ \E k \in 1 .. Len(queue') : queue'[k] = queue[i]
  BY <1>1, QueueHead
<1>3. pool \in PoolType /\ Laid(corpus.size, pool.entries, pool.docs) /\ corpus \in Corpora
  BY DEF IInv, Types, PoolInv
<1>4. /\ Laid(corpus.size, pool'.entries, pool'.docs) /\ pool' \in PoolType
      /\ ~parserError => FilesOf(pool'.entries) = FilesOf(pool.entries) \cup {Head(queue)}
  BY <1>1, <1>2, <1>3, AddKeepsLaid
<1>5. PoolInv' /\ JobsInv' /\ PostInv' /\ StoredInv'
  <2>1. PoolInv'
    BY <1>1, <1>4 DEF PoolInv
  <2> QED BY <1>1, <2>1 DEF IInv, JobsInv, PostInv, StoredInv, OwnVectors, EntriesAreStored, FilesOf
<1>6. Types'
  BY <1>1, <1>2, <1>4 DEF IInv, Types, Files
<1>7. FlowInv'
  <2>1. FlowInv /\ Files' = Files
    BY <1>1 DEF IInv, Files
  <2>2. ~parserError => \A f \in Files : IsSomewhere(f) => IsSomewhere(f)'
    <3> SUFFICES ASSUME ~parserError, NEW f \in Files, IsSomewhere(f)
                 PROVE  IsSomewhere(f)'
      OBVIOUS
    <3>1. CASE \E i \in 1 .. Len(queue) : queue[i] = f
      <4>1. PICK i \in 1 .. Len(queue) : queue[i] = f
        BY <3>1
      <4>2. CASE i = 1
        BY <4>1, <4>2, <1>2, <1>4 DEF IsSomewhere
      <4>3. CASE i # 1
        BY <4>1, <4>3, <1>2 DEF IsSomewhere
      <4> QED BY <4>2, <4>3
    <3>2. CASE ~\E i \in 1 .. Len(queue) : queue[i] = f
      BY <3>2, <1>1, <1>4 DEF IsSomewhere, FilesOf
    <3> QED BY <3>1, <3>2
  <2> QED BY <1>1, <1>2, <2>1, <2>2 DEF FlowInv
<1> QED BY <1>5, <1>6, <1>7 DEF IInv

\* The end of the queue, and the waits of the main thread.
LEMMA MainKeeps ==
  ASSUME IInv, TakeEnd \/ Reaped \/ NothingToFlush \/ Drained \/ Restore
  PROVE  IInv'
<1>1. /\ corpus' = corpus /\ unparsed' = unparsed /\ reader' = reader /\ hand' = hand
      /\ parserError' = parserError /\ jobs' = jobs /\ inflight' = inflight /\ pool' = pool
      /\ postQueue' = postQueue /\ unsent' = unsent /\ stored' = stored
      /\ journal' = journal /\ manifest' = manifest /\ errored' = errored /\ Files' = Files
  BY DEF TakeEnd, Reaped, NothingToFlush, Drained, Restore, parser, results, Files
<1>2. FlowInv
  BY DEF IInv
<1>3. CASE TakeEnd
  <2>1. /\ main = "loop" /\ queue # <<>> /\ Head(queue) = 0 /\ queue' = Tail(queue)
        /\ main' = IF parserError THEN "raised" ELSE "final"
    BY <1>3 DEF TakeEnd
  <2>2. /\ Tail(queue) \in Seq(Files \cup {0}) /\ queue' = <<>> /\ reader = "gone"
        /\ queue[1] = 0
        /\ \A i \in 1 .. Len(queue) :
             i = 1 \/ \E k \in 1 .. Len(queue') : queue'[k] = queue[i]
    BY <2>1, QueueHead
  <2>3. \A f \in Files : IsSomewhere(f) => IsSomewhere(f)'
    <3>1. \A f \in Files : f # 0
      BY DEF Files
    <3> QED BY <3>1, <1>1, <2>2 DEF IsSomewhere, FilesOf
  <2>4. Types'
    BY <1>1, <2>1, <2>2 DEF IInv, Types
  <2>5. FlowInv'
    BY <1>1, <1>2, <2>1, <2>2, <2>3 DEF FlowInv
  <2> QED BY <1>1, <2>4, <2>5, QuietKeeps
<1>4. CASE ~TakeEnd
  <2>1. /\ queue' = queue
        /\ \/ main = "reap" /\ main' = "loop"
           \/ main = "final" /\ main' = "drain" /\ Count(pool) = 0
           \/ main = "drain" /\ main' = "save" /\ inflight = {}
           \/ main = "save" /\ main' = "ended"
    BY <1>4 DEF Reaped, NothingToFlush, Drained, Restore
  <2>2. Count(pool) = 0 => pool.entries = {}
    <3>1. ASSUME NEW e \in pool.entries
          PROVE  Count(pool) # 0
      <4>1. /\ e.file \in Files /\ corpus \in Corpora
            /\ \A i \in 1 .. Len(corpus.size[e.file]) : e.start + i \in 1 .. Len(pool.docs)
        BY DEF IInv, PoolInv, Laid, Types, Files
      <4>2. corpus.size \in Seq(Seq(Nat)) /\ corpus.size[e.file] # <<>>
        BY <4>1, CorporaShape DEF Files
      <4>3. corpus.size[e.file] \in Seq(Nat)
        BY <4>1, <4>2 DEF Files
      <4>4. 1 \in 1 .. Len(corpus.size[e.file])
        <5>1. Len(corpus.size[e.file]) \in Nat \ {0}
          BY <4>2, <4>3, EmptySeq
        <5> QED BY <5>1
      <4>5. e.start + 1 \in 1 .. Len(pool.docs)
        BY <4>1, <4>4
      <4> QED BY <4>5 DEF Count
    <3> QED BY <3>1
  <2>3. \A f \in Files : IsSomewhere(f) => IsSomewhere(f)'
    BY <1>1, <2>1 DEF IsSomewhere, FilesOf
  <2>4. Types'
    BY <1>1, <2>1 DEF IInv, Types
  <2>5. FlowInv'
    BY <1>1, <1>2, <2>1, <2>2, <2>3 DEF FlowInv
  <2> QED BY <1>1, <2>4, <2>5, QuietKeeps
<1> QED BY <1>3, <1>4

\* The files of a job are files of the run, and those of a stored job have all
\* their points.
LEMMA FilesOfJob ==
  ASSUME IInv, NEW j \in 1 .. Len(jobs), NEW f \in FilesOf(jobs[j].entries)
  PROVE  /\ f \in Files
         /\ jobs[j].post = "stored" =>
              \A i \in 1 .. Len(corpus.size[f]) :
                <<f, i>> \in corpus.zero \/ \E p \in stored : p[1] = <<f, i>>
<1>1. PICK e \in jobs[j].entries : e.file = f
  BY DEF FilesOf
<1>2. /\ e.file \in Files
      /\ \A i \in 1 .. Len(corpus.size[e.file]) :
           /\ e.start + i \in 1 .. Len(jobs[j].docs)
           /\ jobs[j].docs[e.start + i] = <<e.file, i>>
  BY JobHasType DEF Laid, Files
<1>3. ASSUME jobs[j].post = "stored", NEW i \in 1 .. Len(corpus.size[f])
      PROVE  <<f, i>> \in corpus.zero \/ \E p \in stored : p[1] = <<f, i>>
  <2>1. IsStored(jobs[j].docs[e.start + i], corpus.zero, stored)
    BY <1>1, <1>2, <1>3 DEF IInv, PostInv
  <2>2. jobs[j].docs[e.start + i] = <<f, i>>
    BY <1>1, <1>2
  <2>3. IsStored(<<f, i>>, corpus.zero, stored)
    BY <2>1, <2>2
  <2>4. <<<<f, i>>, <<f, i>>>>[1] = <<f, i>>
    OBVIOUS
  <2> QED BY <2>3, <2>4 DEF IsStored
<1> QED BY <1>1, <1>2, <1>3

\* The result of a job: its files have an entry or an error from now on.
LEMMA ReapKeeps ==
  ASSUME IInv, Reap
  PROVE  IInv'
<1>1. PICK j \in inflight :
        /\ jobs[j].post \in {"stored", "failed", "raised"}
        /\ inflight' = inflight \ {j}
        /\ manifest' = IF jobs[j].post = "stored"
                       THEN manifest \cup FilesOf(jobs[j].entries) ELSE manifest
        /\ errored' = IF jobs[j].post = "failed"
                      THEN errored \cup FilesOf(jobs[j].entries) ELSE errored
        /\ main' = IF jobs[j].post = "raised" THEN "raised" ELSE main
  BY DEF Reap
<1>2. /\ corpus' = corpus /\ unparsed' = unparsed /\ reader' = reader /\ hand' = hand
      /\ parserError' = parserError /\ queue' = queue /\ jobs' = jobs /\ pool' = pool
      /\ postQueue' = postQueue /\ unsent' = unsent /\ stored' = stored
      /\ journal' = journal /\ Files' = Files
      /\ main \in {"flush", "reap", "final", "drain"}
  BY DEF Reap, Reaping, parser, results, Files
<1>3. j \in 1 .. Len(jobs)
  BY DEF IInv, Types
<1>4. FilesOf(jobs[j].entries) \subseteq Files
  BY <1>3, FilesOfJob
<1>5. Types'
  BY <1>1, <1>2, <1>4 DEF IInv, Types
<1>6. PoolInv' /\ JobsInv' /\ PostInv'
  BY <1>2 DEF IInv, PoolInv, JobsInv, PostInv, FilesOf
<1>7. StoredInv'
  <2>1. \A f \in manifest' : \A i \in 1 .. Len(corpus.size[f]) :
          <<f, i>> \in corpus.zero \/ \E p \in stored : p[1] = <<f, i>>
    BY <1>1, <1>3, FilesOfJob DEF IInv, StoredInv, EntriesAreStored
  <2> QED BY <1>2, <2>1 DEF IInv, StoredInv, OwnVectors, EntriesAreStored
<1>8. FlowInv'
  <2>1. FlowInv
    BY DEF IInv
  <2>2. main' # "raised" => \A f \in Files : IsSomewhere(f) => IsSomewhere(f)'
    <3>1. main' # "raised" => FilesOf(jobs[j].entries) \subseteq manifest' \cup errored'
      BY <1>1, <1>2
    <3>2. manifest \subseteq manifest' /\ errored \subseteq errored'
      BY <1>1
    <3>3. ASSUME main' # "raised", NEW f \in Files, NEW k \in inflight,
                 f \in FilesOf(jobs[k].entries)
          PROVE  f \in manifest' \cup errored'
                   \/ \E i \in inflight' : f \in FilesOf(jobs'[i].entries)
      BY <3>1, <3>3, <1>1, <1>2
    <3> SUFFICES ASSUME main' # "raised", NEW f \in Files, IsSomewhere(f)
                 PROVE  IsSomewhere(f)'
      OBVIOUS
    <3>4. CASE \E k \in inflight : f \in FilesOf(jobs[k].entries)
      BY <3>3, <3>4 DEF IsSomewhere, FilesOf
    <3>5. CASE ~\E k \in inflight : f \in FilesOf(jobs[k].entries)
      BY <3>2, <3>5, <1>2 DEF IsSomewhere, FilesOf
    <3> QED BY <3>4, <3>5
  <2>3. main' \in {"raised", main} /\ main # "raised" /\ main \notin {"save", "ended"}
    BY <1>1, <1>2
  <2> QED BY <1>2, <2>1, <2>2, <2>3 DEF FlowInv
<1> QED BY <1>5, <1>6, <1>7, <1>8 DEF IInv

\* The pool becomes a job, and its files are announced.
LEMMA FlushKeeps ==
  ASSUME IInv, Flush
  PROVE  IInv'
<1> DEFINE none == [i \in 1 .. Count(pool) |-> NoVector]
           zeros == [i \in 1 .. Count(pool) |-> 0]
           r == [entries |-> pool.entries, docs |-> pool.docs, dense |-> "busy", post |-> "none",
                 vectors |-> none, asked |-> {}, failed |-> {}, tries |-> zeros]
           n == Len(jobs) + 1
<1>1. /\ jobs' = Append(jobs, r) /\ inflight' = inflight \cup {n} /\ pool' = EmptyPool
      /\ journal' = journal \cup FilesOf(pool.entries)
      /\ main \in {"flush", "final"} /\ main' = IF main = "flush" THEN "loop" ELSE "drain"
      /\ corpus' = corpus /\ unparsed' = unparsed /\ reader' = reader /\ hand' = hand
      /\ parserError' = parserError /\ queue' = queue
      /\ postQueue' = postQueue /\ unsent' = unsent /\ stored' = stored
      /\ manifest' = manifest /\ errored' = errored /\ Files' = Files
  BY DEF Flush, parser, results, Files
<1>2. /\ pool \in PoolType /\ Laid(corpus.size, pool.entries, pool.docs)
      /\ jobs \in Seq(JobType) /\ postQueue \in Seq(1 .. Len(jobs)) /\ Len(jobs) \in Nat
      /\ inflight \subseteq 1 .. Len(jobs)
  BY DEF IInv, Types, PoolInv
<1>3. /\ none \in Seq(Chunks \cup {NoVector}) /\ Len(none) = Len(pool.docs)
      /\ \A k \in 1 .. Len(pool.docs) : none[k] = NoVector
      /\ zeros \in Seq(Nat) /\ Len(zeros) = Len(pool.docs)
  <2>1. Len(pool.docs) \in Nat
    BY <1>2 DEF PoolType
  <2> QED BY <2>1 DEF Count
<1>4. r \in JobType /\ Embeds(r)
  <2> HIDE DEF none, zeros
  <2>1. r \in JobType
    BY <1>2, <1>3 DEF JobType, PoolType
  <2>2. Embeds(r)
    BY <1>3 DEF Embeds
  <2> QED BY <2>1, <2>2
<1>5. r.entries = pool.entries /\ r.docs = pool.docs /\ r.post = "none"
  OBVIOUS
<1> HIDE DEF r
<1>6. /\ jobs' \in Seq(JobType) /\ Len(jobs') = Len(jobs) + 1 /\ jobs'[n] = r
      /\ \A j \in 1 .. Len(jobs) : jobs'[j] = jobs[j]
  BY <1>1, <1>2, <1>4, AppendProperties
<1>7. /\ 1 .. Len(jobs') = (1 .. Len(jobs)) \cup {n} /\ n \notin 1 .. Len(jobs)
  BY <1>2, <1>6
<1> HIDE DEF n
<1>8. postQueue' \in Seq(1 .. Len(jobs')) /\ inflight' \subseteq 1 .. Len(jobs')
  <2>1. postQueue \in Seq(1 .. Len(jobs'))
    BY <1>2, <1>7, SeqMonotonic
  <2> QED BY <1>1, <1>2, <1>7, <2>1
<1>9. pool' \in PoolType /\ pool'.entries = {} /\ pool'.docs = <<>>
  BY <1>1 DEF EmptyPool, PoolType, EntrySets
<1>10. Types'
  BY <1>1, <1>6, <1>8, <1>9 DEF IInv, Types
<1>11. PoolInv'
  BY <1>9 DEF PoolInv, Laid
<1>12. JobsInv'
  <2>1. ASSUME NEW j \in 1 .. Len(jobs)
        PROVE  /\ Laid(corpus'.size, jobs'[j].entries, jobs'[j].docs) /\ Embeds(jobs'[j])
               /\ FilesOf(jobs'[j].entries) \subseteq journal'
    BY <1>1, <1>6 DEF IInv, JobsInv
  <2>2. /\ Laid(corpus'.size, jobs'[n].entries, jobs'[n].docs) /\ Embeds(jobs'[n])
        /\ FilesOf(jobs'[n].entries) \subseteq journal'
    BY <1>1, <1>2, <1>4, <1>5, <1>6
  <2> QED BY <1>7, <2>1, <2>2 DEF JobsInv, FilesOf
<1>13. PostInv'
  <2>1. \A j \in 1 .. Len(jobs') :
          jobs'[j].post \in {"busy", "stored"} => j \in 1 .. Len(jobs) /\ jobs'[j] = jobs[j]
    BY <1>5, <1>6, <1>7
  <2>2. \A i \in 1 .. Len(postQueue') : jobs'[postQueue'[i]].dense # "busy"
    <3>1. \A i \in 1 .. Len(postQueue) :
            postQueue[i] \in 1 .. Len(jobs) /\ jobs[postQueue[i]].dense # "busy"
      BY <1>2 DEF IInv, PostInv
    <3> QED BY <1>1, <1>6, <3>1
  <2>3. ASSUME NEW j \in 1 .. Len(jobs'), jobs'[j].post = "busy"
        PROVE  /\ \A b \in unsent' : b \subseteq 1 .. Len(jobs'[j].docs)
               /\ \A p \in 1 .. Len(jobs'[j].docs) :
                    \/ IsStored(jobs'[j].docs[p], corpus'.zero, stored')
                    \/ \E b \in unsent' : p \in b
    BY <1>1, <2>1, <2>3 DEF IInv, PostInv
  <2>4. ASSUME NEW j \in 1 .. Len(jobs'), jobs'[j].post = "stored"
        PROVE  \A p \in 1 .. Len(jobs'[j].docs) :
                 IsStored(jobs'[j].docs[p], corpus'.zero, stored')
    BY <1>1, <2>1, <2>4 DEF IInv, PostInv
  <2>5. \A i, j \in 1 .. Len(jobs') : jobs'[i].post = "busy" /\ jobs'[j].post = "busy" => i = j
    BY <2>1 DEF IInv, PostInv
  <2> QED BY <2>2, <2>3, <2>4, <2>5 DEF PostInv
<1>14. StoredInv'
  BY <1>1 DEF IInv, StoredInv, OwnVectors, EntriesAreStored
<1>15. FlowInv'
  <2>1. FlowInv
    BY DEF IInv
  <2>2. ASSUME NEW f \in Files, IsSomewhere(f)
        PROVE  IsSomewhere(f)'
    <3>1. CASE f \in FilesOf(pool.entries)
      <4>1. n \in inflight' /\ f \in FilesOf(jobs'[n].entries)
        BY <3>1, <1>1, <1>5, <1>6
      <4> QED BY <4>1 DEF IsSomewhere, FilesOf
    <3>2. CASE \E j \in inflight : f \in FilesOf(jobs[j].entries)
      <4>1. PICK j \in inflight : f \in FilesOf(jobs[j].entries)
        BY <3>2
      <4>2. j \in inflight' /\ f \in FilesOf(jobs'[j].entries)
        BY <4>1, <1>1, <1>2, <1>6
      <4> QED BY <4>2 DEF IsSomewhere, FilesOf
    <3>3. CASE f \notin FilesOf(pool.entries) /\ ~\E j \in inflight : f \in FilesOf(jobs[j].entries)
      BY <2>2, <3>3, <1>1 DEF IsSomewhere
    <3> QED BY <3>1, <3>2, <3>3
  <2>3. main' # "raised" => \A f \in Files' : IsSomewhere(f)'
    BY <1>1, <2>1, <2>2 DEF FlowInv
  <2> QED BY <1>1, <1>9, <2>1, <2>3 DEF FlowInv
<1> QED BY <1>10, <1>11, <1>12, <1>13, <1>14, <1>15 DEF IInv


-----------------------------------------------------------------------------
(* The invariant and what follows. *)

\* Every file is unparsed, and there is nothing else.
LEMMA InitHolds == Init => IInv
<1> SUFFICES ASSUME Init PROVE IInv
  OBVIOUS
<1>1. /\ corpus \in Corpora /\ unparsed = [f \in 1 .. Len(corpus.size) |-> f]
      /\ reader = "read" /\ parserError = FALSE /\ queue = <<>> /\ main = "loop"
      /\ pool = EmptyPool /\ jobs = <<>> /\ inflight = {} /\ postQueue = <<>>
      /\ stored = {} /\ manifest = {} /\ errored = {}
  BY DEF Init
<1>2. Len(corpus.size) \in Nat
  <2>1. corpus.size \in Seq(Seq(Nat))
    BY <1>1, CorporaShape
  <2> QED BY <2>1
<1>3. /\ unparsed \in Seq(Files) /\ Len(unparsed) = Len(corpus.size)
      /\ \A f \in Files : f \in 1 .. Len(unparsed) /\ unparsed[f] = f
  BY <1>1, <1>2 DEF Files
<1>4. pool \in PoolType /\ pool.entries = {} /\ pool.docs = <<>>
  BY <1>1 DEF EmptyPool, PoolType, EntrySets
<1>5. Len(jobs) = 0 /\ Len(queue) = 0 /\ Len(postQueue) = 0 /\ 1 .. 0 = {}
  BY <1>1
<1>6. Types
  <2>1. jobs \in Seq(JobType) /\ queue \in Seq(Files \cup {0}) /\ postQueue \in Seq(1 .. Len(jobs))
    BY <1>1
  <2> QED BY <1>1, <1>3, <1>4, <1>5, <2>1 DEF Types
<1>7. PoolInv /\ JobsInv /\ PostInv
  <2>1. PoolInv
    BY <1>4, <1>5 DEF PoolInv, Laid
  <2>2. JobsInv /\ PostInv
    BY <1>5 DEF JobsInv, PostInv
  <2> QED BY <2>1, <2>2
<1>8. StoredInv
  BY <1>1 DEF StoredInv, OwnVectors, EntriesAreStored
<1>9. FlowInv
  BY <1>1, <1>3, <1>5 DEF FlowInv, IsSomewhere
<1> QED BY <1>6, <1>7, <1>8, <1>9 DEF IInv

\* One case for each thread, and the stutter.
LEMMA StepKeeps == IInv /\ [Next]_vars => IInv'
<1> SUFFICES ASSUME IInv, [Next]_vars PROVE IInv'
  OBVIOUS
<1>1. CASE Parser
  BY <1>1, ParserKeeps
<1>2. CASE Main
  BY <1>2, TakeFileKeeps, MainKeeps, ReapKeeps, FlushKeeps DEF Main
<1>3. CASE PostStart
  BY <1>3, PostStartKeeps
<1>4. CASE \E j \in Jobs : Dense(j)
  BY <1>4, LocalDenseKeeps, LocalDenseFailsKeeps, AnswerKeeps, AskAgainKeeps, AnswerFailsKeeps
  DEF Dense, Jobs
<1>5. CASE \E j \in Jobs : Post(j)
  BY <1>5, PostOverKeeps, SendKeeps DEF Post, Jobs
<1>6. CASE UNCHANGED vars
  <2>1. UNCHANGED <<corpus, parser, queue, main, pool, jobs, inflight, postQueue, unsent,
                    stored, results>>
    BY <1>6 DEF vars
  <2>2. /\ corpus' = corpus /\ unparsed' = unparsed /\ reader' = reader /\ hand' = hand
        /\ parserError' = parserError /\ queue' = queue /\ main' = main /\ pool' = pool
        /\ jobs' = jobs /\ inflight' = inflight /\ postQueue' = postQueue
        /\ unsent' = unsent /\ stored' = stored /\ journal' = journal
        /\ manifest' = manifest /\ errored' = errored /\ Files' = Files
    BY <2>1 DEF parser, results, Files
  <2>3. Types'
    BY <2>2 DEF IInv, Types
  <2>4. FlowInv'
    <3>1. \A f \in Files : IsSomewhere(f) <=> IsSomewhere(f)'
      BY <2>2 DEF IsSomewhere, FilesOf
    <3> QED BY <2>2, <3>1 DEF IInv, FlowInv
  <2> QED BY <2>2, <2>3, <2>4, QuietKeeps
<1> QED BY <1>1, <1>2, <1>3, <1>4, <1>5, <1>6 DEF Next

\* IInv holds in every reachable state.
THEOREM InvariantHolds == Spec => []IInv
<1> QED BY InitHolds, StepKeeps, PTL DEF Spec

\* No point ever carries the vector of another chunk: not after the sort by
\* length of _embed_batched, not after the answers of embed_concurrent in any
\* order, not after a pool is taken apart by the entries of its files.
THEOREM OwnVectorsHolds == Spec => []OwnVectors
<1>1. IInv => OwnVectors
  BY DEF IInv, StoredInv
<1> QED BY <1>1, InvariantHolds, PTL

\* A manifest entry means stored points, and a stored point a file the journal
\* has, whatever fails, is halved or goes on after the main thread raised.
THEOREM EntriesAreStoredHolds == Spec => []EntriesAreStored
<1>1. IInv => EntriesAreStored
  BY DEF IInv, StoredInv
<1> QED BY <1>1, InvariantHolds, PTL

\* A run that ends without an exception has lost no file on the way through the
\* queue, the pool and the jobs.
THEOREM RunIsCompleteHolds == Spec => []RunIsComplete
<1>1. ASSUME IInv, main = "ended"
      PROVE  manifest \cup errored = Files
  <2>1. /\ FlowInv /\ manifest \subseteq Files /\ errored \subseteq Files
        /\ unparsed = <<>> /\ reader = "gone" /\ queue = <<>>
        /\ pool.entries = {} /\ inflight = {}
    BY <1>1 DEF IInv, FlowInv, Types
  <2>2. Len(unparsed) = 0 /\ Len(queue) = 0 /\ 1 .. 0 = {}
    BY <2>1
  <2>3. \A f \in Files : IsSomewhere(f)
    BY <1>1, <2>1 DEF FlowInv
  <2>4. \A f \in Files : f \in manifest \cup errored
    BY <2>1, <2>2, <2>3 DEF IsSomewhere, FilesOf
  <2> QED BY <2>1, <2>4
<1>2. IInv => RunIsComplete
  BY <1>1 DEF RunIsComplete
<1> QED BY <1>2, InvariantHolds, PTL

-----------------------------------------------------------------------------
(* The bound on the jobs in flight. *)

\* The bound, and what makes it a number.
InFlightInv ==
  /\ corpus.depth \in Nat /\ IsFiniteSet(inflight) /\ InFlightIsBounded

\* Only a flush adds a job, and it waits for ReapOver first.
LEMMA InFlightStep == InFlightInv /\ [Next]_vars => InFlightInv'
<1> SUFFICES ASSUME InFlightInv, [Next]_vars PROVE InFlightInv'
  OBVIOUS
<1>1. corpus' = corpus
  BY ZenonT(60) DEF Next, vars, Parser, Main, Dense, Post, ParseFile, ParseFails, ParsedAll, Put, TakeFile,
         TakeEnd, Reap, Reaped, Flush, NothingToFlush, Drained, Restore, LocalDense,
         LocalDenseFails, Answer, AnswerIsShort, AskAgain, AnswerFails, PostStart, PostRaises, Send,
         SendHalves, SendFails, Sent
<1>2. inflight' = inflight \/ Reap \/ Flush
  BY ZenonT(60) DEF Next, vars, Parser, Main, Dense, Post, ParseFile, ParseFails, ParsedAll, Put, TakeFile,
         TakeEnd, Reaped, NothingToFlush, Drained, Restore, LocalDense,
         LocalDenseFails, Answer, AnswerIsShort, AskAgain, AnswerFails, PostStart, PostRaises, Send,
         SendHalves, SendFails, Sent
<1>3. Depth \in Nat /\ IsFiniteSet(inflight) /\ Cardinality(inflight) <= 2 * Depth + 1
  BY DEF InFlightInv, InFlightIsBounded, Depth
<1>4. CASE inflight' = inflight
  BY <1>1, <1>4 DEF InFlightInv, InFlightIsBounded, Depth
<1>5. CASE Reap
  <2>1. PICK j \in inflight : inflight' = inflight \ {j}
    BY <1>5 DEF Reap
  <2>2. IsFiniteSet(inflight') /\ Cardinality(inflight') = Cardinality(inflight) - 1
    BY <1>3, <2>1, FS_RemoveElement
  <2>3. Cardinality(inflight) \in Nat
    BY <1>3, FS_CardinalityType
  <2>4. Cardinality(inflight') <= 2 * Depth + 1
    BY <1>3, <2>2, <2>3
  <2> QED BY <1>1, <1>3, <2>2, <2>4 DEF InFlightInv, InFlightIsBounded, Depth
<1>6. CASE Flush
  <2>1. inflight' = inflight \cup {Len(jobs) + 1} /\ Cardinality(inflight) <= 2 * Depth
    BY <1>6 DEF Flush, ReapOver, Most
  <2>2. /\ IsFiniteSet(inflight')
        /\ Cardinality(inflight') \in {Cardinality(inflight), Cardinality(inflight) + 1}
    BY <1>3, <2>1, FS_AddElement
  <2>3. Cardinality(inflight) \in Nat
    BY <1>3, FS_CardinalityType
  <2>4. Cardinality(inflight') <= 2 * Depth + 1
    BY <1>3, <2>1, <2>2, <2>3
  <2> QED BY <1>1, <1>3, <2>2, <2>4 DEF InFlightInv, InFlightIsBounded, Depth
<1> QED BY <1>2, <1>4, <1>5, <1>6

\* However slow a stage is, no more than 2 * EMBED_PIPELINE_DEPTH + 1 pools wait
\* for memory: a flush reaps before it submits.
THEOREM InFlightIsBoundedHolds == Spec => []InFlightIsBounded
<1>1. Init => InFlightInv
  <2> SUFFICES ASSUME Init PROVE InFlightInv
    OBVIOUS
  <2>1. corpus.depth \in Nat /\ inflight = {}
    BY CorporaShape DEF Init
  <2>2. IsFiniteSet(inflight) /\ Cardinality(inflight) = 0
    BY <2>1, FS_EmptySet
  <2> QED BY <2>1, <2>2 DEF InFlightInv, InFlightIsBounded, Depth
<1>2. InFlightInv => InFlightIsBounded
  BY DEF InFlightInv
<1> QED BY <1>1, <1>2, InFlightStep, PTL DEF Spec
=============================================================================
