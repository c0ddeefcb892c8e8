------------------------------- MODULE Fusion -------------------------------
(***************************************************************************)
(* shared/fusion.py and the alpha choice of shared/query_shape.py: how the *)
(* dense and the sparse leg of a hybrid search become one ranked list.  A  *)
(* leg is a sequence of [id, score]; every operator is pure.  Scores are   *)
(* integers: One stands for 1.0, so that RRF's fractions are exact.        *)
(***************************************************************************)
EXTENDS Ranking, Functions

CONSTANTS
  RrfK,      \* HYBRID_RRF_K
  MaxRank,   \* bound on the length of a leg
  MaxScore,  \* bound on the scores of a leg
  Unit,      \* a number every k + rank divides
  NoScore    \* a missing or non-finite score

ASSUME FusionConstants ==
  /\ {RrfK, MaxRank, MaxScore} \subseteq Nat /\ MaxScore > 0
  /\ Unit \in Nat /\ \A r \in 1 .. MaxRank : Unit % (RrfK + r) = 0
  /\ NoScore \notin Int

\* 1.0 in the unit of the scores: weights are tenths, adjustments hundredths.
One == 100 * Unit

Ids(leg) == {leg[i].id : i \in DOMAIN leg}
Usable(leg) == {leg[i].id : i \in {j \in DOMAIN leg : leg[j].score # NoScore}}

\* The order of rows: those without a score last, ties in the leg's order.
RowBefore(leg, i, j) ==
  LET a == leg[i].score  b == leg[j].score
  IN  \/ a # NoScore /\ b = NoScore
      \/ a # NoScore /\ b # NoScore /\ a > b
      \/ a = b /\ i < j

\* The best row of an id.
Best(leg, id) ==
  CHOOSE i \in DOMAIN leg :
    /\ leg[i].id = id
    /\ \A j \in DOMAIN leg \ {i} : leg[j].id = id => RowBefore(leg, i, j)

InLegOrder(leg, ids) ==
  Ranked(ids, {ab \in ids \X ids : RowBefore(leg, Best(leg, ab[1]), Best(leg, ab[2]))})

\* _prepare_leg, for DBSF: every id once, without the rows that have no score.
PrepareLeg(leg) == InLegOrder(leg, Usable(leg))

\* _ranked_ids, for RRF.
RankedIds(leg) == InLegOrder(leg, Ids(leg))

Rank(ids, id) == CHOOSE r \in DOMAIN ids : ids[r] = id
Has(ids, id) == \E r \in DOMAIN ids : ids[r] = id

BestRank(dense, sparse, id) ==
  IF ~Has(sparse, id) THEN Rank(dense, id)
  ELSE IF ~Has(dense, id) THEN Rank(sparse, id)
  ELSE IF Rank(dense, id) < Rank(sparse, id) THEN Rank(dense, id) ELSE Rank(sparse, id)

\* Order of first appearance: the dense leg, then what only the sparse leg has.
FirstSeen(dense, sparse, id) ==
  IF Has(dense, id) THEN Rank(dense, id)
  ELSE Len(dense) + Rank(sparse, id)

\* The sort of rrf_fuse and dbsf_fuse.
FusedBefore(dense, sparse, scores, a, b) ==
  \/ scores[a] > scores[b]
  \/ /\ scores[a] = scores[b]
     /\ \/ BestRank(dense, sparse, a) < BestRank(dense, sparse, b)
        \/ /\ BestRank(dense, sparse, a) = BestRank(dense, sparse, b)
           /\ FirstSeen(dense, sparse, a) < FirstSeen(dense, sparse, b)

Sorted(dense, sparse, scores) ==
  LET ids == DOMAIN scores
  IN  Ranked(ids, {ab \in ids \X ids : FusedBefore(dense, sparse, scores, ab[1], ab[2])})

Part(ids, id, weight, term(_)) == IF Has(ids, id) THEN weight * term(Rank(ids, id)) ELSE 0

\* Defect: a chunk that is missing from a leg counts as the leg's first.
RrfScoresMissing(dense, sparse, alpha) ==
  LET term(rank) == 10 * (RrfK + 1) * (Unit \div (RrfK + rank))
      part(ids, id, weight) == weight * term(IF Has(ids, id) THEN Rank(ids, id) ELSE 1)
  IN  [id \in Range(dense) \cup Range(sparse) |->
         part(dense, id, alpha) + part(sparse, id, 10 - alpha)]

\* rrf_fuse: (k + 1) * (alpha / (k + dense rank) + (1 - alpha) / (k + sparse rank)).
RrfScores(dense, sparse, alpha) ==
  LET term(rank) == 10 * (RrfK + 1) * (Unit \div (RrfK + rank))
  IN  [id \in Range(dense) \cup Range(sparse) |->
         Part(dense, id, alpha, term) + Part(sparse, id, 10 - alpha, term)]

\* _normalise_leg: (score - (mean - 3 sigma)) / (6 sigma), clipped to 0 .. 1, or
\* 1 throughout where all scores are one.  With sum = n * mean, variance =
\* n^2 * sigma^2 and spread = 10 n * sigma in whole numbers, rounded down like the
\* quotient (sigma is at most MaxScore); the result is in parts of 10 * Unit.
Total(numbers, top) == Cardinality({ik \in (DOMAIN numbers) \X (1 .. top) : ik[2] <= numbers[ik[1]]})
Root(x, top) == Cardinality({r \in 1 .. top : r * r <= x})
Clip01(x) == IF ~(x >= 0) THEN 0 ELSE IF x > 10 * Unit THEN 10 * Unit ELSE x

NormaliseLeg(scores) ==
  LET n == Len(scores)
      sum == Total(scores, MaxScore)
      squares == Total([r \in DOMAIN scores |-> scores[r] * scores[r]], MaxScore * MaxScore)
      variance == n * squares - sum * sum
      spread == Root(100 * variance, 10 * n * MaxScore)
      norm(score) == Clip01((10 * Unit * (10 * (n * score - sum) + 3 * spread)) \div (6 * spread))
  IN  [r \in 1 .. n |-> IF variance <= 0 THEN 10 * Unit ELSE norm(scores[r])]

\* dbsf_fuse: alpha * dense norm + (1 - alpha) * sparse norm, 0 for a missing leg.
ScoresOf(ids, leg) == [r \in 1 .. Len(ids) |-> leg[Best(leg, ids[r])].score]

DbsfScores(dense, sparse, alpha, denseScores, sparseScores) ==
  LET normDense == NormaliseLeg(denseScores)
      normSparse == NormaliseLeg(sparseScores)
  IN  [id \in Range(dense) \cup Range(sparse) |->
         Part(dense, id, alpha, LAMBDA r : normDense[r])
         + Part(sparse, id, 10 - alpha, LAMBDA r : normSparse[r])]

-----------------------------------------------------------------------------
(* The query's alpha, in tenths. *)

\* classify_query: code-like spans, plain words, plain words that are no stop words.
Shape(query) ==
  IF query.spans > 0 /\ query.content <= 3 THEN "identifier"
  ELSE IF query.spans = 0 /\ query.words >= 4 THEN "natural"
  ELSE "mixed"

\* alpha_for_query: settings.alphas holds the class alphas that are set
\* (HYBRID_ALPHA_IDENT always, with 0.3 as its default; HYBRID_ALPHA_MIXED and
\* HYBRID_ALPHA_NL where they are); the base alpha stands for the others.
AlphaFor(query, settings) ==
  IF settings.mode = "adaptive" /\ Shape(query) \in DOMAIN settings.alphas
  THEN settings.alphas[Shape(query)]
  ELSE settings.base
=============================================================================
