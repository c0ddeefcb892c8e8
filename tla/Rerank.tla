------------------------------- MODULE Rerank -------------------------------
(***************************************************************************)
(* shared/reranker.py and shared/cross_encoder.py: how the candidates of a *)
(* search are scored and ordered.  The operators are pure; a chunk is a    *)
(* record with an id, a path and a score (One is 1.0).  What the readers   *)
(* and the query's regular expressions say of chunks is given:             *)
(*   Facts[id]  type, match (of its metadata with the query's targets, in  *)
(*     percent), class ("exact", "part", "other"), declares, owns, mentions*)
(*     (the identifiers of the query), test, binding, declaration, rare    *)
(*     (a deprioritised path), profile (of its path), summary, body,       *)
(*     intent (type_intent_rules)                                          *)
(*   query      overview, domain, targets, names (identifiers), symbols    *)
(*     (names the exact lookup asks for), tests, bindings, declarations,   *)
(*     structure (profiles whose structure patterns it matches), places    *)
(***************************************************************************)
EXTENDS Ranking

CONSTANTS Facts, One, NoScore, NoDomain

Percent(n) == n * (One \div 100)

OverviewTypes == {"primary", "overview", "artifact", "domain"}

MaxOf(a, b) == IF a > b THEN a ELSE b

-----------------------------------------------------------------------------
(* One chunk at a time. *)

\* _compute_rerank_score, the part that depends on the chunk's type.
TypeBonus(query, fact) ==
  CASE query.domain # NoDomain ->
         (CASE fact.type = "domain" -> 65
            [] fact.type = "primary" -> 10
            [] fact.type \in OverviewTypes -> 25
            [] OTHER -> 0)
    [] fact.type = "primary" -> 65
    [] fact.type = "artifact" -> IF query.class THEN -5 ELSE 10
    [] fact.type \in OverviewTypes -> 25
    [] OTHER -> 0

\* ... and the part that depends on the query's targets.
TargetBonus(query, fact) ==
  LET missed == 100 - fact.match
  IN  (IF query.targets THEN (15 * fact.match) \div 100 ELSE 0)
      - (IF fact.type \in OverviewTypes /\ query.targets THEN (40 * missed) \div 100 ELSE 0)
      - (IF fact.type = "comment" /\ query.targets /\ fact.match = 0 THEN 30 ELSE 0)
      - (IF fact.type = "import" THEN 25 ELSE 0)
      - (IF fact.type = "detail" THEN 5 ELSE 0)

\* _exact_class_adjustment.
ClassBonus(query, fact) ==
  CASE ~query.targets \/ fact.type \notin OverviewTypes \/ query.domain # NoDomain -> 0
    [] fact.class = "exact" -> 20
    [] fact.class = "part"  -> -10
    [] OTHER -> 0

OverviewBonus(query, fact) ==
  IF query.overview
  THEN TypeBonus(query, fact) + TargetBonus(query, fact) + ClassBonus(query, fact)
  ELSE 0

\* _intent_adjustment.
IntentBonus(query, fact) ==
  LET named == fact.declares \cap query.names
  IN  (IF fact.test /\ ~query.tests THEN -15 ELSE 0)
      + (IF fact.binding /\ ~query.bindings THEN -15 ELSE 0)
      + (IF query.overview \/ named = {} THEN 0
         ELSE IF named \cap fact.owns # {} THEN 35 ELSE 25)
      + (IF ~query.overview /\ fact.declaration /\ ~query.declarations THEN -10 ELSE 0)

-----------------------------------------------------------------------------
(* _pool_adjustments: rules that look at the other candidates too. *)

Named(query, fact) == fact.declares \cap query.names

MentionPenalty(query, options, pool, fact) ==
  LET declared == UNION {Named(query, f) : f \in pool}
  IN  IF Named(query, fact) = {} /\ fact.mentions \cap declared # {}
      THEN MaxOf(options.mention, IF options.profileMention THEN fact.penalty ELSE 0)
      ELSE 0

PrototypePenalty(query, options, pool, fact) ==
  LET withBody == UNION {Named(query, f) : f \in {g \in pool : ~g.declaration}}
  IN  IF fact.declaration /\ ~query.declarations /\ Named(query, fact) \cap withBody # {}
      THEN options.prototype ELSE 0

\* A type's summary yields to a function's body of the same profile.
SummaryPenalty(query, options, pool, fact) ==
  IF /\ fact.summary /\ ~query.overview /\ ~query.declarations
     /\ fact.profile \notin query.structure
     /\ \E f \in pool : f.profile = fact.profile /\ f.body
     /\ (fact.declares \cup fact.mentions) \cap query.names = {}
  THEN options.body ELSE 0

PoolBonus(query, options, pool, fact) ==
  (IF options.typeIntent THEN fact.intent ELSE 0)
  - (IF fact.rare THEN options.rare ELSE 0)
  - SummaryPenalty(query, options, pool, fact)
  - (IF query.names # {} /\ ~query.overview
     THEN MentionPenalty(query, options, pool, fact) + PrototypePenalty(query, options, pool, fact)
     ELSE 0)

-----------------------------------------------------------------------------
(* rerank_results *)

ScoreOf(chunk) == IF chunk.score = NoScore THEN 0 ELSE chunk.score

Adjustment(query, options, nodes, chunk) ==
  Percent(OverviewBonus(query, Facts[chunk.id]) + IntentBonus(query, Facts[chunk.id])
          + PoolBonus(query, options, {Facts[nodes[i].id] : i \in DOMAIN nodes}, Facts[chunk.id]))

\* Best adjusted score first, ties in the order they came.
ByScore(nodes, scores) ==
  LET places == DOMAIN nodes
  IN  Arranged(nodes, places,
        {ij \in places \X places :
           \/ scores[ij[1]] > scores[ij[2]]
           \/ scores[ij[1]] = scores[ij[2]] /\ ij[1] < ij[2]})

\* _apply_file_cap: the files' surplus follows all others.
FileCap(ranked, cap) ==
  LET over(i) == Cardinality({j \in 1 .. i : ranked[j].path = ranked[i].path}) > cap
      places == DOMAIN ranked
  IN  Arranged(ranked, places,
        {ij \in places \X places :
           \/ ~over(ij[1]) /\ over(ij[2])
           \/ over(ij[1]) = over(ij[2]) /\ ij[1] < ij[2]})

Cut(nodes, topK) == SubSeq(nodes, 1, IF topK < Len(nodes) THEN topK ELSE Len(nodes))

RerankResults(nodes, query, options, topK) ==
  LET adjustment == [i \in DOMAIN nodes |-> Adjustment(query, options, nodes, nodes[i])]
      changed == \E i \in DOMAIN nodes : adjustment[i] # 0
      places  == options.fileCap > 0 /\ query.places
      ranked  == ByScore(nodes, [i \in DOMAIN nodes |-> ScoreOf(nodes[i]) + adjustment[i]])
  IN  IF ~query.overview /\ ~changed /\ ~places THEN Cut(nodes, topK)
      ELSE Cut(IF places THEN FileCap(ranked, options.fileCap) ELSE ranked, topK)

-----------------------------------------------------------------------------
(* score_and_blend: sigmoid[id] is the squashed answer of the encoder, in    *)
(* 0 .. One, or NoScore where the answer is short or not a number.           *)

Blend(nodes, sigmoid, weight) ==
  LET blended(chunk) ==
        IF sigmoid[chunk.id] = NoScore THEN ScoreOf(chunk)
        ELSE (weight * sigmoid[chunk.id] + (100 - weight) * ScoreOf(chunk)) \div 100
      scored == [i \in DOMAIN nodes |-> [nodes[i] EXCEPT !.score = blended(nodes[i])]]
  IN  ByScore(scored, [i \in DOMAIN nodes |-> scored[i].score])

\* begin_query_rank and get_retrieval_top_k; OVERFETCH_MULTIPLIER is Overfetch.
FetchK(query, topK, overfetch, encoder, poolSize) ==
  LET base == IF query.overview THEN topK * overfetch ELSE topK
  IN  IF encoder THEN MaxOf(base, poolSize) ELSE base
=============================================================================
