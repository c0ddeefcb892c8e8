----------------------------- MODULE MCPipeline -----------------------------
(* Small instances of EmbedPipeline for TLC. *)
EXTENDS EmbedPipeline

\* Two pools of several files with a long file behind a short one, a chunk whose
\* vector is zero in the middle of a file, and more pools than may be in flight.
SmallCorpora ==
  {[size |-> <<<<1>>, <<1, 3>>, <<2>>>>, zero |-> {}, depth |-> 2, faults |-> 3],
   [size |-> <<<<2>>, <<1, 2, 3>>, <<1>>>>, zero |-> {<<2, 2>>}, depth |-> 1, faults |-> 2],
   [size |-> <<<<1, 1>>, <<1, 1>>, <<1, 1>>, <<1, 1>>, <<1, 1>>>>, zero |-> {<<3, 1>>},
    depth |-> 1, faults |-> 1]}
=============================================================================
