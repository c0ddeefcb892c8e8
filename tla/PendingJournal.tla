--------------------------- MODULE PendingJournal ---------------------------
(***************************************************************************)
(* The pending journal (shared/pending_points.py) and the manifest entries *)
(* it is compared with.  The journal is an append-only file of lines       *)
(* {"k": key, "h": hash or null}; every reader keeps the last line of a    *)
(* key and skips a line that was cut short, so its value is a function     *)
(* from file keys to last lines.                                           *)
(***************************************************************************)
CONSTANTS
  Files,       \* file keys
  Hashes,      \* content hashes compute_file_hash can return for a readable file
  Dialects,    \* values of sql_dialect
  EmptyHash,   \* the hash "": the file could not be read, or it changed under the reader
  NoEntry,     \* the manifest lists no such file
  Deleted,     \* a journal line with "h": null
  NoLine       \* the journal holds no line for the file

ASSUME JournalConstants ==
  /\ EmptyHash \notin Hashes
  /\ Deleted \notin Hashes \cup {EmptyHash, NoLine}
  /\ NoLine \notin Hashes \cup {EmptyHash}
  /\ NoEntry \notin [hash : Hashes \cup {EmptyHash}, dialect : Dialects]

EntryHashes == Hashes \cup {EmptyHash}

\* A manifest entry, reduced to the fields change detection reads.
Entries == [hash : EntryHashes, dialect : Dialects]

Manifests == [Files -> Entries \cup {NoEntry}]
EmptyManifest == [f \in Files |-> NoEntry]

Journals == [Files -> EntryHashes \cup {Deleted, NoLine}]
EmptyJournal == [f \in Files |-> NoLine]

\* PendingJournal.record: one line per key of S, appended and fsynced.
Recorded(journal, S, line) ==
  [f \in Files |-> IF f \in S THEN line[f] ELSE journal[f]]

\* unresolved_keys, for one key: the manifest entry contradicts the line.
Unresolved(line, entry) ==
  \/ line = Deleted /\ entry # NoEntry
  \/ line \in EntryHashes /\ entry = NoEntry
  \/ line \in EntryHashes /\ entry # NoEntry /\ entry.hash # line

\* Defect: every journalled key counts as unresolved.
AllLines(journal, manifest) == {f \in Files : journal[f] # NoLine}

UnresolvedKeys(journal, manifest) ==
  {f \in Files : Unresolved(journal[f], manifest[f])}

\* PendingJournal.finish: keep the unresolved lines only (no line: no file).
Finished(journal, manifest) ==
  [f \in Files |->
     IF f \in UnresolvedKeys(journal, manifest) THEN journal[f] ELSE NoLine]
=============================================================================
