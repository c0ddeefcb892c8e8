--------------------------- MODULE MCIndexRefresh ---------------------------
(* Small instances of IndexRefresh for TLC. *)
EXTENDS IndexRefresh, TLC

CONSTANTS a, b, empty, tsql, pgsql

\* b needs more chunks than a; the empty file has none.
ChunksOf == [v \in Versions |->
  CASE v.hash = a -> 1 [] v.hash = b -> MaxChunks [] OTHER -> 0]

\* The second chunk of b has no vector worth storing.
BlankOf == {v \in Versions : v.hash = b} \X {2}

\* The dialects cut the same bytes into different chunks.
ChunksByDialect == [v \in Versions |-> IF v.dialect = pgsql THEN 2 ELSE 1]

FileSymmetry == Permutations(Files)
=============================================================================
