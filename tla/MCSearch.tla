------------------------------ MODULE MCSearch ------------------------------
(* A small collection and a few queries for Search. *)
EXTENDS Search

\* a.c on main and on the overlay, b.c deleted by the overlay, c.h of no branch.
SmallChunks ==
  [mainA |-> [path |-> "a.c", branch |-> Main], overA |-> [path |-> "a.c", branch |-> Overlay],
   mainB |-> [path |-> "b.c", branch |-> Main], plain |-> [path |-> "c.h", branch |-> NoBranch]]

TwoWorlds ==
  <<[chunks |-> {"mainA", "mainB", "plain"}, tombs |-> {}],
    [chunks |-> {"mainA", "mainB", "plain", "overA"}, tombs |-> {"b.c"}]>>

Fact(type, match, declares) ==
  [type |-> type, match |-> match, class |-> IF match = 100 THEN "exact" ELSE "part",
   declares |-> declares, owns |-> declares, mentions |-> {"f"}, penalty |-> 10,
   test |-> FALSE, binding |-> FALSE, declaration |-> FALSE, rare |-> FALSE, profile |-> "c",
   summary |-> type = "primary", body |-> type = "detail", intent |-> 0]

SmallFacts ==
  [mainA |-> Fact("detail", 100, {"f"}), overA |-> Fact("detail", 100, {"f"}),
   mainB |-> [Fact("primary", 50, {"g"}) EXCEPT !.test = TRUE],
   plain |-> [Fact("overview", 0, {"f"}) EXCEPT !.declaration = TRUE, !.owns = {}]]

Plain == [overview |-> FALSE, domain |-> NoDomain, class |-> FALSE, targets |-> FALSE, names |-> {},
          symbols |-> {},
          tests |-> TRUE, bindings |-> TRUE, declarations |-> TRUE, structure |-> {},
          places |-> FALSE, spans |-> 0, content |-> 5, words |-> 6]
Off == [mention |-> 0, profileMention |-> FALSE, prototype |-> 0, body |-> 0, typeIntent |-> FALSE,
        rare |-> 0, fileCap |-> 0]
On == [mention |-> 5, profileMention |-> TRUE, prototype |-> 10, body |-> 15, typeIntent |-> TRUE,
       rare |-> 10, fileCap |-> 1]
Fixed == [mode |-> "fixed", base |-> 5, alphas |-> [identifier |-> 3, natural |-> 8]]
Ask == [query |-> Plain, options |-> Off, settings |-> Fixed, fusion |-> "rrf",
        branch |-> TRUE, prefetch |-> 0, topK |-> 1, top |-> FALSE,
        scores |-> {<<9, 2, 2, 0>>}, encoder |-> FALSE, sigmoids |-> {}]

\* Natural and identifier queries with and without an overlay, an overview
\* query, and one with the cross-encoder.
SmallQueries ==
  LET adaptive == [Fixed EXCEPT !.mode = "adaptive"]
      asked(q, names) == [q EXCEPT !.names = names, !.symbols = {"f"}]
      named == [asked(Plain, {"f"}) EXCEPT !.spans = 1, !.content = 1]
      firm  == [named EXCEPT !.tests = FALSE, !.declarations = FALSE, !.places = TRUE]
      both  == {[Ask EXCEPT !.query = asked(Plain, {}), !.top = TRUE],
                [Ask EXCEPT !.query = firm, !.options = On, !.settings = adaptive],
                [Ask EXCEPT !.branch = FALSE, !.settings = [Fixed EXCEPT !.base = 10], !.prefetch = 3],
                [Ask EXCEPT !.query = [Plain EXCEPT !.overview = TRUE, !.targets = TRUE],
                   !.branch = FALSE, !.options = On]}
  IN  both \cup {[q EXCEPT !.fusion = "dbsf"] : q \in both} \cup
      {[Ask EXCEPT !.fusion = "dbsf", !.settings = adaptive, !.branch = FALSE, !.prefetch = 4,
          !.scores = {<<4, 3, 2, 1>>, <<9, 9, 1, 0>>}],
       [Ask EXCEPT !.topK = 0, !.prefetch = 2, !.branch = FALSE],
       [Ask EXCEPT !.query = named, !.settings = adaptive, !.topK = 2],
       [Ask EXCEPT !.query = asked(Plain, {"g"}), !.encoder = TRUE,
          !.sigmoids = {[id \in DOMAIN Chunks |-> IF id \in top THEN One ELSE One \div 2] :
                          top \in {{"mainA"}, {"overA", "plain"}}}]}
=============================================================================
