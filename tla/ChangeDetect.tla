---------------------------- MODULE ChangeDetect ----------------------------
(***************************************************************************)
(* Change detection of a git-backed source (index_rag.determine_actions):  *)
(* which files a refresh leaves alone because their mtime, in whole        *)
(* seconds, is the one in the manifest and git reports no change between   *)
(* the recorded commit and HEAD.  Editors, git and the indexer interleave. *)
(*                                                                         *)
(* A commit is the tree it records: two commits with one tree differ in no *)
(* file, and determine_actions asks git for nothing else.  What Qdrant     *)
(* holds is left to IndexRefresh, and so are dialects.                     *)
(***************************************************************************)
EXTENDS Integers, FiniteSets

CONSTANTS
  Files,            \* files of one repo group
  Hashes,           \* content hashes
  EmptyHash,        \* the hash "" of an unreadable or changing file
  NoFile, NoEntry, NoCommit, Unscanned, Unhashed,
  Threshold,        \* DIFF_FULL_REINDEX_THRESHOLD, in percent
  MaxTime,          \* bound: last second of the clock
  EditsShareSeconds,\* may a file be written twice within one second?
  ReadsMayFail      \* may hashing a file that is there fail?

ASSUME DetectConstants ==
  /\ {Threshold, MaxTime} \subseteq Nat
  /\ {EditsShareSeconds, ReadsMayFail} \subseteq BOOLEAN
  /\ {EmptyHash, NoFile, Unhashed} \cap Hashes = {}
  /\ EmptyHash # NoFile /\ EmptyHash # Unhashed /\ Unhashed # NoFile

Times == 0 .. MaxTime
Contents == Hashes \cup {NoFile}
Trees == [Files -> Contents]
Entries == [hash : Hashes \cup {EmptyHash}, mtime : Times]
Scans == [hash : Hashes \cup {EmptyHash, Unhashed}, mtime : Times]

ASSUME DetectMarkers ==
  /\ NoEntry \notin Entries
  /\ {NoFile, Unscanned} \cap Scans = {} /\ Unscanned # NoFile
  /\ NoCommit \notin Trees

VARIABLES
  clock,    \* the current second
  disk,     \* content of each file of the working copy
  mtime,    \* st_mtime of each file, cut to seconds
  head,     \* tree of the branch HEAD
  entries,  \* manifest["files"]
  commit,   \* tree of manifest["repo_commits"]
  pc,
  scan,     \* current_states, as far as the scan got
  stage     \* what the run still has to do with each file

vars == <<clock, disk, mtime, head, entries, commit, pc, scan, stage>>
sources == <<clock, disk, mtime, head>>

Init ==
  /\ clock = 0
  /\ disk \in Trees
  /\ mtime = [f \in Files |-> 0]
  /\ head = disk
  /\ entries = [f \in Files |-> NoEntry]
  /\ commit = NoCommit
  /\ pc = "off"
  /\ scan = [f \in Files |-> Unscanned]
  /\ stage = [f \in Files |-> "idle"]

-----------------------------------------------------------------------------
(* The working copy *)

Tick ==
  /\ clock < MaxTime
  /\ clock' = clock + 1
  /\ UNCHANGED <<disk, mtime, head, entries, commit, pc, scan, stage>>

\* A file can be given a new mtime if a second has passed since its last one.
Writable(f) == EditsShareSeconds \/ mtime[f] < clock

\* An editor, or git pull or checkout, writes f; h = disk[f] is a touch.
Write(f, h) ==
  /\ Writable(f)
  /\ disk' = [disk EXCEPT ![f] = h]
  /\ mtime' = [mtime EXCEPT ![f] = clock]
  /\ UNCHANGED <<clock, head, entries, commit, pc, scan, stage>>

Remove(f) ==
  /\ disk[f] # NoFile
  /\ disk' = [disk EXCEPT ![f] = NoFile]
  /\ UNCHANGED <<clock, mtime, head, entries, commit, pc, scan, stage>>

\* The branch moves: git commit, the last step of git pull after it wrote the
\* files, or a fetch of a branch that is not checked out.  File by file.
MoveHead(f, h) ==
  /\ h # head[f]
  /\ head' = [head EXCEPT ![f] = h]
  /\ UNCHANGED <<clock, disk, mtime, entries, commit, pc, scan, stage>>

-----------------------------------------------------------------------------
(* The scan: for each file st_mtime first, the hash after it *)

Start ==
  /\ pc = "off"
  /\ pc' = "scan"
  /\ scan' = [f \in Files |-> Unscanned]
  /\ stage' = [f \in Files |-> "idle"]
  /\ UNCHANGED <<clock, disk, mtime, head, entries, commit>>

StatFile(f) ==
  /\ pc = "scan"
  /\ scan[f] = Unscanned
  /\ scan' = [scan EXCEPT ![f] = IF disk[f] = NoFile THEN NoFile
                                 ELSE [hash |-> Unhashed, mtime |-> mtime[f]]]
  /\ UNCHANGED <<clock, disk, mtime, head, entries, commit, pc, stage>>

\* compute_file_hash returns "" for a file that cannot be read.
ReadHash(f) ==
  IF disk[f] = NoFile THEN {EmptyHash}
  ELSE {disk[f]} \cup (IF ReadsMayFail THEN {EmptyHash} ELSE {})

HashFile(f) ==
  /\ pc = "scan"
  /\ scan[f] \in Scans
  /\ scan[f].hash = Unhashed
  /\ \E h \in ReadHash(f) : scan' = [scan EXCEPT ![f] = [hash |-> h, mtime |-> @.mtime]]
  /\ UNCHANGED <<clock, disk, mtime, head, entries, commit, pc, stage>>

Scanned(f) == scan[f] = NoFile \/ (scan[f] \in Scans /\ scan[f].hash # Unhashed)

-----------------------------------------------------------------------------
(* determine_actions *)

Listed == {f \in Files : entries[f] # NoEntry}
SameSecond == {f \in Listed : scan[f] # NoFile /\ scan[f].mtime = entries[f].mtime}
Changed == {f \in Files : commit[f] # head[f]}
TooManyChanged == 100 * Cardinality(Changed) > Threshold * Cardinality(Listed)

\* Defect: in case B only the diff counts.
SkipUndiffed ==
  IF commit = NoCommit THEN {}
  ELSE IF commit = head THEN SameSecond
  ELSE IF Listed # {} /\ TooManyChanged THEN {}
  ELSE {f \in Listed : scan[f] # NoFile} \ Changed

\* The files whose hashes are not compared: cases A and B (case C: none).
Skip ==
  IF commit = NoCommit THEN {}
  ELSE IF commit = head THEN SameSecond
  ELSE IF Listed # {} /\ TooManyChanged THEN {}
  ELSE SameSecond \ Changed

Verdict(f, skip) ==
  IF scan[f] = NoFile
    THEN IF f \in Listed THEN "delete" ELSE "idle"
    ELSE IF f \notin Listed THEN "index"
    ELSE IF f \in skip \/ entries[f].hash = scan[f].hash THEN "idle" ELSE "index"

\* HEAD or the diff may be unavailable (GitError): case C.
Decide ==
  /\ pc = "scan"
  /\ \A f \in Files : Scanned(f)
  /\ \E skip \in {Skip, {}} : stage' = [f \in Files |-> Verdict(f, skip)]
  /\ pc' = "index"
  /\ UNCHANGED <<clock, disk, mtime, head, entries, commit, scan>>

-----------------------------------------------------------------------------
(* Indexing, reduced to the manifest entries it leaves *)

DeleteFile(f) ==
  /\ pc = "index"
  /\ stage[f] = "delete"
  /\ entries' = [entries EXCEPT ![f] = NoEntry]
  /\ stage' = [stage EXCEPT ![f] = "done"]
  /\ UNCHANGED <<clock, disk, mtime, head, commit, pc, scan>>

\* Defect: the entry pairs the scanned hash with the mtime of the file by now.
IndexLateMtime(f) ==
  /\ pc = "index"
  /\ stage[f] = "index"
  /\ entries' = [entries EXCEPT ![f] = [hash |-> scan[f].hash, mtime |-> mtime[f]]]
  /\ stage' = [stage EXCEPT ![f] = "done"]
  /\ UNCHANGED <<clock, disk, mtime, head, commit, pc, scan>>

\* Defect: the entry stores the second hash, and "no file" for a missing one.
IndexRehashed(f) ==
  /\ pc = "index"
  /\ stage[f] = "index"
  /\ entries' = [entries EXCEPT ![f] = [hash |-> disk[f], mtime |-> scan[f].mtime]]
  /\ stage' = [stage EXCEPT ![f] = "done"]
  /\ UNCHANGED <<clock, disk, mtime, head, commit, pc, scan>>

\* _verify_unchanged_since_scan and _make_manifest_entry: the scanned mtime,
\* and the scanned hash if the second hash is the same, "" if it is not.
IndexFile(f) ==
  /\ pc = "index"
  /\ stage[f] = "index"
  /\ \E h \in ReadHash(f) :
       entries' = [entries EXCEPT ![f] =
         [hash |-> IF h = scan[f].hash THEN h ELSE EmptyHash, mtime |-> scan[f].mtime]]
  /\ stage' = [stage EXCEPT ![f] = "done"]
  /\ UNCHANGED <<clock, disk, mtime, head, commit, pc, scan>>

\* _update_repo_commits: HEAD as it is now, if git can tell it.
Finalize ==
  /\ pc = "index"
  /\ \A f \in Files : stage[f] \in {"idle", "done"}
  /\ commit' \in {head, commit}
  /\ pc' = "off"
  /\ UNCHANGED <<clock, disk, mtime, head, entries, scan, stage>>

\* A kill; the next run's recovery drops the entries whose save was lost.  (It
\* keeps an entry with hash "" whose successor had hash "" too: left out.)
Crash ==
  /\ pc # "off"
  /\ \E S \in SUBSET {f \in Files : stage[f] = "done"} :
       entries' = [f \in Files |-> IF f \in S THEN NoEntry ELSE entries[f]]
  /\ pc' = "off"
  /\ UNCHANGED <<clock, disk, mtime, head, commit, scan, stage>>

-----------------------------------------------------------------------------
Environment ==
  \/ \E f \in Files, h \in Hashes : Write(f, h)
  \/ \E f \in Files : Remove(f)
  \/ \E f \in Files, h \in Contents : MoveHead(f, h)
  \/ Crash

Step ==
  \/ Start \/ Decide \/ Finalize
  \/ \E f \in Files : StatFile(f) \/ HashFile(f) \/ DeleteFile(f) \/ IndexFile(f)

Next == Tick \/ Environment \/ Step

Spec == Init /\ [][Next]_vars

\* From some moment on the sources rest and the indexer is run again and again.
\* (Not "no step is of the Environment": a Finalize may look like a Crash.)
QuietSpec == Spec /\ WF_vars(Step) /\ <>[][Step \/ Tick]_vars
-----------------------------------------------------------------------------
TypeOK ==
  /\ clock \in Times
  /\ disk \in Trees
  /\ mtime \in [Files -> Times]
  /\ head \in Trees
  /\ entries \in [Files -> Entries \cup {NoEntry}]
  /\ commit \in Trees \cup {NoCommit}
  /\ pc \in {"off", "scan", "index"}
  /\ scan \in [Files -> Scans \cup {NoFile, Unscanned}]
  /\ stage \in [Files -> {"idle", "index", "delete", "done"}]

\* The fast path gives nothing away: a file that a run leaves alone, and that
\* nobody has written since the scan looked at its mtime, is what its manifest
\* entry says, although its hash was not compared -- or could not be read.
Describes(hash, f) == hash = disk[f] \/ (ReadsMayFail /\ hash = EmptyHash)

SkippedIsCurrent ==
  pc = "index" =>
    \A f \in Files :
      stage[f] = "idle" /\ disk[f] # NoFile /\ scan[f] # NoFile /\ scan[f].mtime = mtime[f]
        => entries[f] # NoEntry /\ Describes(entries[f].hash, f)

\* "An empty hash never matches a file on disk, so the next refresh re-indexes
\* the file."
EmptyHashReindexed ==
  pc = "index" =>
    \A f \in Files :
      scan[f] # NoFile /\ entries[f] # NoEntry /\ entries[f].hash = EmptyHash
        => stage[f] # "idle"

\* Once the sources rest, the manifest comes to list them as they are -- except
\* a file whose hash could not be read, whose entry may stay with an empty hash.
EventuallyListed ==
  <>[](\A f \in Files :
         IF disk[f] = NoFile THEN entries[f] = NoEntry
         ELSE entries[f] # NoEntry /\ Describes(entries[f].hash, f))
-----------------------------------------------------------------------------
(* The inductive invariant behind SkippedIsCurrent, for files that are not *)
(* written twice within one second.                                        *)

\* A file that still has mtime t has the content whose hash was taken at t.
Fresh(f, hash, t) ==
  /\ t <= mtime[f]
  /\ t = mtime[f] /\ disk[f] # NoFile => Describes(hash, f)

IInv ==
  /\ TypeOK
  /\ \A f \in Files :
       /\ mtime[f] <= clock
       /\ entries[f] # NoEntry => Fresh(f, entries[f].hash, entries[f].mtime)
       /\ scan[f] \in Scans =>
            /\ scan[f].mtime <= mtime[f]
            /\ scan[f].hash # Unhashed => Fresh(f, scan[f].hash, scan[f].mtime)
  /\ pc = "index" =>
       \A f \in Files : Scanned(f) /\ (stage[f] = "index" => scan[f] # NoFile)
  /\ SkippedIsCurrent
=============================================================================
