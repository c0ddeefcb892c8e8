--------------------------- MODULE MCChangeDetect ---------------------------
(* Small instances of ChangeDetect for TLC. *)
EXTENDS ChangeDetect, TLC

\* Neither one file nor one content differs from another.
FilesAndHashes == Permutations(Files) \cup Permutations(Hashes)
=============================================================================
