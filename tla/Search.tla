------------------------------- MODULE Search -------------------------------
(***************************************************************************)
(* shared/search.py, asearch: one search on an overlay while an indexer    *)
(* may change the collection between its requests.  The two legs of the    *)
(* hybrid retrieval and the exact symbol lookup run concurrently; the      *)
(* tombstones are read after them; then come BranchDedup, the merge of the *)
(* symbol hits and the ranking.                                            *)
(***************************************************************************)
EXTENDS Fusion

CONSTANTS
  Chunks,        \* id -> [path, branch], every chunk any run stores
  Worlds,        \* states of the collection: [chunks, tombs], in the order they follow
  Facts,         \* see Rerank
  Queries,       \* searches: query, options, settings, fusion ("rrf" or "dbsf"), branch, ...
  Overfetch,     \* OVERFETCH_MULTIPLIER
  LookupK,       \* SYMBOL_LOOKUP_K
  Main, Overlay, NoBranch, NoPath, NoDomain,
  Unread         \* a request that has not been answered

\* What a collection, the readers' answers and the settings are like.
ASSUME SearchConstants ==
  /\ Main # Overlay /\ Overlay # NoBranch
  /\ IsFiniteSet(DOMAIN Chunks)
  /\ Len(Worlds) \in Nat \ {0}
  /\ \A w \in 1 .. Len(Worlds) : Worlds[w].chunks \subseteq DOMAIN Chunks
  /\ \A id \in DOMAIN Chunks : {Facts[id].match, Facts[id].penalty, Facts[id].intent} \subseteq Int
  /\ {Overfetch, LookupK} \subseteq Nat \ {0}
  /\ Cardinality(DOMAIN Chunks) <= MaxRank
  /\ \A q \in Queries :
       /\ {q.topK, q.prefetch} \subseteq Nat /\ q.branch \in BOOLEAN
       /\ q.settings.base \in 0 .. 10
       /\ \A shape \in DOMAIN q.settings.alphas : q.settings.alphas[shape] \in 0 .. 10
       /\ {q.options.mention, q.options.prototype, q.options.body, q.options.rare,
           q.options.fileCap} \subseteq Int
       /\ q.scores \subseteq [1 .. MaxRank -> 0 .. MaxScore]   \* of a leg, best first
       /\ q.sigmoids \subseteq [DOMAIN Chunks -> Int \cup {NoScore}]

\* backfill_branch_payload: only files outside the git repositories, which no
\* overlay holds, have chunks without a branch.
ASSUME NonGitApart ==
  \A id, x \in DOMAIN Chunks :
    Chunks[id].branch = NoBranch /\ Chunks[x].branch = Overlay /\ Chunks[id].path # NoPath =>
      Chunks[id].path # Chunks[x].path

VARIABLES
  world,      \* the collection's state, an index of Worlds
  ask,        \* the search, a member of Queries
  denseLeg, sparseLeg,   \* rows the legs returned, or Unread
  hits,       \* what the symbol lookup returned, or Unread
  pool,       \* the fused list
  tombs,
  step,       \* "legs", "tombs", "done"
  result

vars == <<world, ask, denseLeg, sparseLeg, hits, pool, tombs, step, result>>

Dedup == INSTANCE BranchDedup
Rank2 == INSTANCE Rerank

ChunkOf(id, score) == [id |-> id, path |-> Chunks[id].path, branch |-> Chunks[id].branch, score |-> score]
Found == {id \in Worlds[world].chunks : Dedup!BranchFilter(Chunks[id], ask.branch)}

FetchK ==
  LET base == Rank2!FetchK(ask.query, ask.topK, Overfetch, ask.encoder, ask.topK + 1)
  IN  IF ask.branch THEN 2 * base ELSE base

\* HYBRID_PREFETCH_K may make a leg longer than the fused list, never shorter.
LegK == IF ask.prefetch > FetchK THEN ask.prefetch ELSE FetchK
Shortest(k, n) == IF k < n THEN k ELSE n

Init ==
  /\ world = 1
  /\ ask \in Queries
  /\ denseLeg = Unread /\ sparseLeg = Unread /\ hits = Unread
  /\ pool = <<>> /\ tombs = {} /\ step = "legs" /\ result = <<>>

\* An overlay run replaced points and published its tombstones.
OverlayRun ==
  /\ world < Len(Worlds) /\ step # "done"
  /\ world' = world + 1
  /\ UNCHANGED <<ask, denseLeg, sparseLeg, hits, pool, tombs, step, result>>

\* A leg is the LegK best of what passes the filter, in any order.
Legs == {[r \in 1 .. Shortest(LegK, Cardinality(Found)) |-> [id |-> s[r], score |-> scores[r]]] :
           s \in SetToSeqs(Found), scores \in ask.scores}

DenseLeg ==
  /\ step = "legs" /\ denseLeg = Unread
  /\ denseLeg' \in Legs
  /\ UNCHANGED <<world, ask, sparseLeg, hits, pool, tombs, step, result>>

SparseLeg ==
  /\ step = "legs" /\ sparseLeg = Unread
  /\ sparseLeg' \in Legs
  /\ UNCHANGED <<world, ask, denseLeg, hits, pool, tombs, step, result>>

\* fetch_symbol_candidates: chunks that declare a name of the query; none when
\* the query names nothing or the request fails.
Declaring == {id \in Found : Facts[id].declares \cap ask.query.symbols # {}}

Lookup ==
  /\ step = "legs" /\ hits = Unread
  /\ \E s \in SetToSeqs(Declaring) \cup {<<>>} :
       hits' = [r \in 1 .. Shortest(LookupK, Len(s)) |-> ChunkOf(s[r], NoScore)]
  /\ UNCHANGED <<world, ask, denseLeg, sparseLeg, pool, tombs, step, result>>

\* The vector store fuses what the legs returned and keeps FetchK of it (all of
\* it for a FetchK of 0).
LegIds(leg) == IF ask.fusion = "rrf" THEN RankedIds(leg) ELSE PrepareLeg(leg)

Fused(scores) ==
  LET ids == Sorted(LegIds(denseLeg), LegIds(sparseLeg), scores)
      kept == IF FetchK > 0 THEN Shortest(FetchK, Len(ids)) ELSE Len(ids)
  IN  [r \in 1 .. kept |-> ChunkOf(ids[r], scores[ids[r]])]

Retrieved ==
  /\ step = "legs" /\ Unread \notin {denseLeg, sparseLeg, hits}
  /\ LET dense == LegIds(denseLeg)
         sparse == LegIds(sparseLeg)
         alpha == AlphaFor(ask.query, ask.settings)
     IN  pool' = Fused(IF ask.fusion = "rrf" THEN RrfScores(dense, sparse, alpha)
                       ELSE DbsfScores(dense, sparse, alpha, ScoresOf(dense, denseLeg),
                                       ScoresOf(sparse, sparseLeg)))
  /\ step' = "tombs"
  /\ UNCHANGED <<world, ask, denseLeg, sparseLeg, hits, tombs, result>>

\* Defect: the hits are put in front with the best score of the pool.
MergeTop(nodes, extra) ==
  LET have == {nodes[i].id : i \in DOMAIN nodes}
      bar  == IF nodes = <<>> THEN One ELSE nodes[1].score
      new  == Picked(extra, {i \in DOMAIN extra : extra[i].id \notin have})
  IN  [i \in DOMAIN new |-> [new[i] EXCEPT !.score = bar]] \o nodes

\* merge_symbol_candidates: hits that are new come last, with the score of the
\* topK-th candidate, or of the first with SYMBOL_LOOKUP_SCORE "top".  (The pool
\* is sorted by score, with or without dedup.)
Merge(nodes, extra) ==
  LET have == {nodes[i].id : i \in DOMAIN nodes}
      bar  == IF nodes = <<>> THEN One
              ELSE nodes[IF ask.top THEN 1
                         ELSE Shortest(Rank2!MaxOf(ask.topK, 1), Len(nodes))].score
      new  == Picked(extra, {i \in DOMAIN extra : extra[i].id \notin have})
  IN  nodes \o [i \in DOMAIN new |-> [new[i] EXCEPT !.score = bar]]

Candidates(tombstones) ==
  IF ask.branch
  THEN Merge(Dedup!Dedup(Dedup!FilteredNodes(pool, hits, tombstones), tombstones, FetchK \div 2),
             Dedup!SurvivingExtra(pool, hits, tombstones))
  ELSE Merge(pool, hits)

\* The cross-encoder's answers, when a model is set.
Sigmoids == IF ask.encoder THEN ask.sigmoids ELSE {[id \in DOMAIN Chunks |-> NoScore]}

Finish ==
  /\ step = "tombs"
  /\ tombs' = IF ask.branch THEN Worlds[world].tombs ELSE {}
  /\ \E sigmoid \in Sigmoids :
       LET merged == Candidates(tombs')
           ranked == IF ask.encoder THEN Rank2!Blend(merged, sigmoid, 50) ELSE merged
       IN  result' = Rank2!RerankResults(ranked, ask.query, ask.options, ask.topK)
  /\ step' = "done"
  /\ UNCHANGED <<world, ask, denseLeg, sparseLeg, hits, pool>>

Next == OverlayRun \/ DenseLeg \/ SparseLeg \/ Lookup \/ Retrieved \/ Finish

Spec == Init /\ [][Next]_vars

-----------------------------------------------------------------------------
(* Properties. *)

Shown == {result[i] : i \in DOMAIN result}

\* A search on an overlay never shows main's copy of a file beside the
\* overlay's, nor a file the overlay deletes, whichever leg or lookup found it
\* and whatever the indexer did in between; a search without one shows nothing
\* of the overlay, and no search shows a chunk twice.
OneVersionPerPath ==
  step = "done" =>
    /\ \A i, j \in DOMAIN result : result[i].id = result[j].id => i = j
    /\ \A c \in Shown : c.path # NoPath => c.path \notin tombs
    /\ \A c, d \in Shown : c.path = d.path /\ c.path # NoPath => (c.branch = Overlay) = (d.branch = Overlay)
    /\ ~ask.branch => \A c \in Shown : c.branch # Overlay

\* A chunk that is ahead of another one in both legs (a leg that misses a chunk
\* ranks it last) is ahead of it after fusion, whatever alpha and method are.
Ahead(ids, a, b) == Has(ids, a) /\ (Has(ids, b) => Rank(ids, a) < Rank(ids, b))
DominantFirst ==
  step = "tombs" =>
    LET dense == LegIds(denseLeg)  sparse == LegIds(sparseLeg)
    IN  \A i \in DOMAIN pool : \A j \in 1 .. i - 1 :
          ~(Ahead(dense, pool[i].id, pool[j].id) /\ Ahead(sparse, pool[i].id, pool[j].id))

\* A symbol hit that retrieval did not find shows up before the pool is used up
\* only where some rule of the reranker acts on a candidate (or the hits have the
\* first candidate's score, and an overview query sorts by score).
HitsNeedRules ==
  step = "done" /\ ~ask.encoder =>
    LET merged == Candidates(tombs)
        quiet  == \A i \in DOMAIN merged : Rank2!Adjustment(ask.query, ask.options, merged, merged[i]) = 0
        places == ask.options.fileCap > 0 /\ ask.query.places
        own    == {pool[i].id : i \in DOMAIN pool}
        kept   == {merged[i].id : i \in DOMAIN merged} \cap own
    IN  /\ quiet /\ ~places /\ ~(ask.top /\ ask.query.overview)
      /\ Cardinality(kept) >= ask.topK
      => \A c \in Shown : c.id \in own
=============================================================================
