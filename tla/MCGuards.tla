------------------------------- MODULE MCGuards -------------------------------
(* Small instances of Guards for TLC. *)
EXTENDS Guards

\* Two refresh guards, a pull guard and two indexers, or two pull guards and an
\* indexer; a pid is always used again by the same script.
ScriptPids ==
  {[refresh |-> {1, 2}, pull |-> {3}, indexer |-> {4, 5}],
   [refresh |-> {}, pull |-> {1, 2}, indexer |-> {3}]}
=============================================================================
