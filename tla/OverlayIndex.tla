----------------------------- MODULE OverlayIndex -----------------------------
(***************************************************************************)
(* One overlay of a git repository (index_rag.run_branch_overlay_indexing  *)
(* with shared/overlay.py): a branch or a tag whose difference to main is  *)
(* indexed under its own label.  Runs of the indexer read the difference,  *)
(* skip what a stored signature vouches for, repair what a killed run      *)
(* left, delete and upsert points, and save the overlay's manifest; the    *)
(* overlay of a removed configuration entry is deleted.  Commits, moves of *)
(* the ref back and forth, edits of the configuration, a dropped           *)
(* collection, failed requests and kills come at any moment.               *)
(*                                                                         *)
(* The pair of refs that decides an overlay (head and merge base, or tag   *)
(* and main tip) is one number; the files that differ at it are its tree.  *)
(* The refresh that uploads points is one step per file: IndexRefresh has  *)
(* its detail.                                                             *)
(***************************************************************************)
EXTENDS Integers, Sequences

CONSTANTS
  Files,      \* file keys of the configured sources
  Contents,   \* contents that differ from main's
  Same,       \* the file does not differ: main's content
  Gone,       \* the overlay's side deletes the file
  None,       \* nothing listed, stored or read
  Partial,    \* some points of a file
  NoSig,      \* no signature stored
  Kinds,      \* kinds of overlay: subset of {"branch", "tag"}
  Worlds,     \* bounds: which faults happen ("request", "crash", "blob", "clear"),
              \* where in a run refs may move, whether they may move back, and
              \* what the configuration may become
  MaxMoves,   \* bound on moves of the refs and edits of the configuration
  MaxFaults   \* bound on faults

ASSUME OverlayConstants ==
  /\ Kinds \subseteq {"branch", "tag"}
  /\ \A w \in Worlds : w.rollback \in BOOLEAN
                        /\ w.configs \subseteq {"overlay", "dropped", "main", "none"}
  /\ MaxMoves \in Nat /\ MaxFaults \in Nat
  /\ {Same, Gone, None, Partial} \cap Contents = {}
  /\ Same \notin {Gone, None, Partial} /\ Gone \notin {None, Partial} /\ None # Partial
  /\ NoSig \notin Nat /\ "nopath" \notin Files

VARIABLES
  bound,    \* the world of this behaviour
  kind,     \* the kind of this overlay
  refs,     \* [at, tree, other]: where the refs stand and what differs there
  before,   \* where they stood before the last move
  conf,     \* the configuration: has the overlay, dropped it, has its name as
            \* the main branch of a repository, or has no git repository
  points,   \* what is stored of each file under the overlay's label
  disk,     \* index_manifest_branch_<label>.json
  journal,  \* its pending journal: last line of each file
  pc, mem, diff, sig, states, todo, failed,   \* the run: locals of the function
  moves, faults,
  lost      \* history: files whose points went, or stayed behind, without a
            \* line in the journal

run == <<mem, diff, sig, states, todo, failed>>
world == <<bound, kind, refs, before, conf, moves>>
store == <<points, disk, journal>>
vars == <<world, store, pc, run, faults, lost>>

Nothing == [f \in Files |-> None]
NoManifest == [exists |-> FALSE, files |-> Nothing, tomb |-> {}, sig |-> NoSig]

Trees == [Files -> Contents \cup {Same, Gone}]
Ats == 0 .. MaxMoves
RefPairs == [at : Ats, tree : Trees, other : BOOLEAN]
Manifests == [exists : BOOLEAN, files : [Files -> Contents \cup {Same, None}],
              tomb : SUBSET Files, sig : Ats \cup {NoSig}]
Configs == {"overlay", "dropped", "main", "none"}
PCs == {"idle", "diff", "resolve", "skip", "recover", "recsave", "recunlink", "plan", "act",
        "delete", "deleting", "again", "index", "saved", "stamp", "finish",
        "cleanup", "unlink", "unjournal"}

wanted == conf = "overlay"

\* What the label's search hits are made of; main's points are another run's.
Search == INSTANCE BranchDedup WITH
  Main <- "main", Overlay <- "overlay", NoBranch <- "none", NoPath <- "nopath"

Listed(manifest) == {f \in Files : manifest.files[f] # None}
Stored == {f \in Files : points[f] # None}

\* diff.changes, split and mapped to file keys.
Keys == {f \in Files : diff.tree[f] \in Contents}
Tombs == {f \in Files : diff.tree[f] = Gone}

\* unresolved_keys: lines the manifest contradicts ("Gone": a null hash).
Stale(lines, manifest) ==
  {f \in Files : \/ lines[f] = Gone /\ manifest.files[f] # None
                 \/ lines[f] \notin {None, Gone} /\ manifest.files[f] # lines[f]}

\* finish: resolved lines are dropped.
Resolved(lines, manifest) == {f \in Files : lines[f] # None /\ f \notin Stale(lines, manifest)}
Finished(lines, manifest) ==
  [f \in Files |-> IF f \in Resolved(lines, manifest) THEN None ELSE lines[f]]

With(fn, S, v) == [f \in Files |-> IF f \in S THEN v ELSE fn[f]]

InitRun == [mem |-> NoManifest, diff |-> [at |-> 0, tree |-> [f \in Files |-> Same], other |-> FALSE],
            sig |-> NoSig, states |-> Nothing, todo |-> {}, failed |-> FALSE]

Init ==
  /\ bound \in Worlds
  /\ kind \in Kinds
  /\ refs \in [at : {0}, tree : {[f \in Files |-> Same]}, other : {FALSE}]
  /\ before = refs
  /\ conf = "overlay"
  /\ points = Nothing /\ disk = NoManifest /\ journal = Nothing
  /\ pc = "idle"
  /\ mem = InitRun.mem /\ diff = InitRun.diff /\ sig = InitRun.sig
  /\ states = InitRun.states /\ todo = InitRun.todo /\ failed = InitRun.failed
  /\ moves = 0 /\ faults = 0 /\ lost = {}

Goto(l) == pc' = l

\* The function is left: continue with the next overlay, or the process ends.
Leave(l) ==
  /\ Goto(l)
  /\ mem' = InitRun.mem /\ diff' = InitRun.diff /\ sig' = InitRun.sig
  /\ states' = InitRun.states /\ todo' = InitRun.todo /\ failed' = InitRun.failed

Fault(f) == f \in bound.faults /\ faults < MaxFaults /\ faults' = faults + 1
NoFault == UNCHANGED faults

----------------------------------------------------------------------------
(* The world. *)

\* A commit on the branch or on main, or a tag set anew.
MoveRefs ==
  /\ pc \in bound.moveAt /\ moves < MaxMoves
  /\ moves' = moves + 1
  /\ \E tree \in Trees, other \in BOOLEAN :
       refs' = [at |-> moves + 1, tree |-> tree, other |-> other]
  /\ before' = IF bound.rollback THEN refs ELSE before
  /\ UNCHANGED <<bound, kind, conf, store, pc, run, faults, lost>>

\* The tag or the branch is set back to where it was.
MoveBack ==
  /\ bound.rollback /\ pc \in bound.moveAt /\ moves < MaxMoves /\ before # refs
  /\ moves' = moves + 1 /\ refs' = before
  /\ UNCHANGED <<bound, kind, before, conf, store, pc, run, faults, lost>>

Configure ==
  /\ pc = "idle" /\ moves < MaxMoves
  /\ moves' = moves + 1 /\ conf' \in bound.configs \ {conf}
  /\ UNCHANGED <<bound, kind, refs, before, store, pc, run, faults, lost>>

\* The collection is dropped and created anew; files on disk stay.
ClearCollection ==
  /\ pc = "idle" /\ Stored # {} /\ Fault("clear")
  /\ points' = Nothing /\ lost' = lost \cup Stored
  /\ UNCHANGED <<world, disk, journal, pc, run>>

Crash ==
  /\ pc # "idle" /\ Fault("crash")
  /\ Leave("idle")
  /\ UNCHANGED <<world, lost, store>>

----------------------------------------------------------------------------
(* One run of the indexer, as far as this overlay is concerned. *)

\* Without any git repository nothing looks at overlays, not even to clean up.
Start ==
  /\ pc = "idle"
  /\ \/ conf = "overlay" /\ Goto("diff")
     \/ conf \in {"dropped", "main"} /\ Goto("cleanup")
     \/ conf = "none" /\ Goto("idle")
  /\ UNCHANGED <<world, lost, store, run, faults>>

\* diff_overlay: the list of changes comes from one look at the refs ...
Diff ==
  /\ pc = "diff"
  /\ diff' = refs
  /\ Goto("resolve") /\ NoFault
  /\ UNCHANGED <<world, lost, store, mem, sig, states, todo, failed>>

\* ... or git fails, or the name is no branch or tag: the overlay is left out.
DiffFails ==
  /\ pc = "diff" /\ Fault("request")
  /\ Leave("cleanup")
  /\ UNCHANGED <<world, lost, store>>

\* ... the commits of the signature from another.
Resolve ==
  /\ pc = "resolve"
  /\ \/ NoFault /\ sig' = refs.at
     \/ Fault("request") /\ kind = "tag" /\ sig' = NoSig
  /\ Goto("skip")
  /\ UNCHANGED <<world, lost, store, mem, diff, states, todo, failed>>

\* _overlay_unchanged_since_last_run
Unchanged ==
  /\ sig # NoSig /\ disk.sig = sig
  /\ journal = Nothing
  /\ Listed(disk) = {} \/ Stored # {}

SkipUnchanged ==
  /\ pc = "skip" /\ Unchanged
  /\ Leave("cleanup") /\ NoFault
  /\ UNCHANGED <<world, lost, store>>

DiffEmpty == (\A f \in Files : diff.tree[f] = Same) /\ ~diff.other

MustRun == pc = "skip" /\ IF Unchanged THEN Fault("request") ELSE NoFault

\* An empty three-dot diff leaves everything stored as it is.
SkipEmpty ==
  /\ MustRun
  /\ DiffEmpty /\ kind = "branch"
  /\ Leave("cleanup")
  /\ UNCHANGED <<world, lost, store>>

LoadManifest ==
  /\ MustRun
  /\ ~(DiffEmpty /\ kind = "branch")
  /\ mem' = disk
  /\ Goto(IF Stale(journal, disk) = {} THEN "plan" ELSE "recover")
  /\ journal' = IF Stale(journal, disk) = {} THEN Nothing ELSE journal
  /\ UNCHANGED <<world, lost, points, disk, diff, sig, states, todo, failed>>

RecoverDelete ==
  /\ pc = "recover" /\ NoFault
  /\ points' = With(points, Stale(journal, mem), None)
  /\ mem' = [mem EXCEPT !.files = With(@, Stale(journal, mem), None)]
  /\ Goto("recsave")
  /\ UNCHANGED <<world, lost, disk, journal, diff, sig, states, todo, failed>>

\* PendingRecoveryError stops the process.
RecoverFails ==
  /\ pc = "recover" /\ Fault("request")
  /\ \E S \in SUBSET Stale(journal, mem) : points' = With(points, S, None)
  /\ Leave("idle")
  /\ UNCHANGED <<world, lost, disk, journal>>

RecoverSave ==
  /\ pc = "recsave" /\ NoFault
  /\ disk' = [mem EXCEPT !.exists = TRUE]
  /\ Goto("recunlink")
  /\ UNCHANGED <<world, lost, points, journal, run>>

RecoverUnlink ==
  /\ pc = "recunlink" /\ NoFault
  /\ journal' = Nothing
  /\ Goto("plan")
  /\ UNCHANGED <<world, lost, points, disk, run>>

\* No configured file differs: stamp the manifest, leave the points.
NothingIndexable ==
  /\ pc = "plan" /\ NoFault
  /\ Keys = {} /\ Tombs = {}
  /\ kind = "branch" \/ Listed(mem) = {}
  /\ disk' = [mem EXCEPT !.exists = TRUE, !.sig = sig,
                         !.tomb = IF kind = "tag" THEN {} ELSE @]
  /\ Leave("cleanup")
  /\ UNCHANGED <<world, lost, points, journal>>

\* Defect: a file deleted meanwhile is not noticed.
BlobUnchecked(f) == IF kind = "tag" THEN diff.tree[f] ELSE refs.tree[f]

\* read_files_to_temp_dir reads a branch by name, a tag at its commit.
Blob(f) ==
  IF kind = "tag" THEN diff.tree[f]
  ELSE IF refs.tree[f] = Gone THEN None ELSE refs.tree[f]

\* A file git cannot show is dropped with a warning.
ReadBlobs ==
  /\ pc = "plan"
  /\ Keys # {} \/ Tombs # {} \/ (kind = "tag" /\ Listed(mem) # {})
  /\ \E unread \in SUBSET Keys :
       /\ IF unread = {} THEN NoFault ELSE Fault("blob")
       /\ states' = [f \in Files |-> IF f \in Keys \ unread THEN Blob(f) ELSE None]
  /\ Goto("act")
  /\ UNCHANGED <<world, lost, store, mem, diff, sig, todo, failed>>

\* Defect: a file that left the difference keeps its entry and its points.
DeletesFromDiff == {f \in Listed(mem) : states[f] = None /\ diff.tree[f] = Gone}

\* reconcile_overlay_actions
Deletes == {f \in Listed(mem) : states[f] = None}
Upserts == {f \in Files : states[f] # None /\ states[f] # mem.files[f]}
NoWork == Deletes = {} /\ Upserts = {} /\ Tombs = {}

UpToDate ==
  /\ pc = "act" /\ NoWork
  /\ IF Listed(mem) # {} /\ Stored = {} THEN Fault("request") ELSE NoFault
  /\ disk' = [mem EXCEPT !.exists = TRUE, !.sig = sig]
  /\ Leave("cleanup")
  /\ UNCHANGED <<world, lost, points, journal>>

\* Files listed but no point stored: everything is indexed again.
Reembed ==
  /\ pc = "act" /\ NoWork /\ NoFault
  /\ Listed(mem) # {} /\ Stored = {}
  /\ todo' = Listed(mem)
  /\ mem' = [mem EXCEPT !.files = Nothing]
  /\ Goto("index")
  /\ UNCHANGED <<world, lost, store, diff, sig, states, failed>>

Act ==
  /\ pc = "act" /\ ~NoWork /\ NoFault
  /\ todo' = Upserts
  /\ Goto(IF Deletes # {} THEN "delete" ELSE IF Upserts # {} THEN "index" ELSE "stamp")
  /\ UNCHANGED <<world, lost, store, mem, diff, sig, states, failed>>

JournalDeletes ==
  /\ pc = "delete" /\ NoFault
  /\ journal' = With(journal, Deletes, Gone)
  /\ Goto("deleting")
  /\ UNCHANGED <<world, lost, points, disk, run>>

\* The overlay's own delete, and the one the refresh does again.
AfterDelete == IF pc = "deleting" /\ todo # {} THEN "again"
               ELSE IF todo # {} THEN "index" ELSE "stamp"

DeletePoints ==
  /\ pc \in {"deleting", "again"} /\ NoFault
  /\ points' = With(points, Deletes, None)
  /\ mem' = [mem EXCEPT !.files = With(@, Deletes, None)]
  /\ Goto(AfterDelete)
  /\ UNCHANGED <<world, lost, disk, journal, diff, sig, states, todo, failed>>

\* Defect: a failed delete is not remembered.
DeleteForgiven ==
  /\ pc \in {"deleting", "again"} /\ Fault("request")
  /\ \E S \in SUBSET Deletes : points' = With(points, S, None)
  /\ mem' = [mem EXCEPT !.files = With(@, Deletes, None)]
  /\ Goto(AfterDelete)
  /\ UNCHANGED <<world, lost, disk, journal, diff, sig, states, todo, failed>>

DeleteFails ==
  /\ pc \in {"deleting", "again"} /\ Fault("request")
  /\ \E S \in SUBSET Deletes : points' = With(points, S, None)
  /\ failed' = TRUE
  /\ Goto(AfterDelete)
  /\ UNCHANGED <<world, lost, disk, journal, mem, diff, sig, states, todo>>

\* perform_refresh_qdrant, one file: announced, deleted, uploaded, entered.
IndexFile ==
  /\ pc = "index" /\ NoFault
  /\ \E f \in todo :
       /\ journal' = With(journal, {f}, states[f])
       /\ points' = With(points, {f}, states[f])
       /\ mem' = [mem EXCEPT !.files[f] = states[f]]
       /\ todo' = todo \ {f}
  /\ UNCHANGED <<world, lost, disk, pc, diff, sig, states, failed>>

IndexFileFails ==
  /\ pc = "index" /\ Fault("request")
  /\ \E f \in todo : \E left \in {None, Partial, points[f], states[f]} :
       /\ journal' = With(journal, {f}, states[f])
       /\ points' = With(points, {f}, left)
       /\ todo' = todo \ {f}
  /\ failed' = TRUE
  /\ UNCHANGED <<world, lost, disk, pc, mem, diff, sig, states>>

\* Its final save; signature and tombstones are still those of the last run.
IndexSave ==
  /\ pc = "index" /\ todo = {} /\ NoFault
  /\ disk' = [mem EXCEPT !.exists = TRUE]
  /\ lost' = lost \ Resolved(journal, mem)
  /\ Goto("saved")
  /\ UNCHANGED <<world, points, journal, run>>

IndexFinish ==
  /\ pc = "saved" /\ NoFault
  /\ journal' = Finished(journal, mem)
  /\ Goto("stamp")
  /\ UNCHANGED <<world, lost, points, disk, run>>

\* Defect: an incomplete run is stamped like a complete one.
StampAlways ==
  /\ pc = "stamp" /\ NoFault
  /\ mem' = [mem EXCEPT !.exists = TRUE, !.tomb = Tombs, !.sig = sig]
  /\ disk' = mem' /\ lost' = lost \ Resolved(journal, mem)
  /\ Goto("finish")
  /\ UNCHANGED <<world, points, journal, diff, sig, states, todo, failed>>

Stamp ==
  /\ pc = "stamp" /\ NoFault
  /\ mem' = [mem EXCEPT !.exists = TRUE, !.tomb = Tombs,
                        !.sig = IF failed THEN NoSig ELSE sig]
  /\ disk' = mem' /\ lost' = lost \ Resolved(journal, mem)
  /\ Goto("finish")
  /\ UNCHANGED <<world, points, journal, diff, sig, states, todo, failed>>

FinishJournal ==
  /\ pc = "finish" /\ NoFault
  /\ journal' = Finished(journal, mem)
  /\ Leave("cleanup")
  /\ UNCHANGED <<world, lost, points, disk>>

----------------------------------------------------------------------------
(* _cleanup_stale_branches *)

NothingToClean ==
  /\ pc = "cleanup" /\ (wanted \/ ~disk.exists) /\ NoFault
  /\ Goto("idle")
  /\ UNCHANGED <<world, lost, store, run>>

\* All points under the label; but when the label is that of a main branch,
\* only the ids the manifest lists.
Removable == IF conf = "main" THEN Stored \cap Listed(disk) ELSE Stored
Requests == conf # "main" \/ Listed(disk) # {}

\* Files with more points than the manifest lists ids.
Excess == {f \in Removable : conf = "main" /\ points[f] # disk.files[f]}

CleanPoints ==
  /\ pc = "cleanup" /\ ~wanted /\ disk.exists /\ NoFault
  /\ \E left \in SUBSET Excess :
       points' = With(With(points, Removable, None), left, Partial)
  /\ lost' = lost \cup Stored
  /\ Goto("unlink")
  /\ UNCHANGED <<world, disk, journal, run>>

\* Defect: the manifest is removed although the delete failed.
CleanPointsAnyway ==
  /\ pc = "cleanup" /\ ~wanted /\ disk.exists /\ Requests /\ Fault("request")
  /\ \E S \in SUBSET Removable : points' = With(points, S, None) /\ lost' = lost \cup S
  /\ Goto("unlink")
  /\ UNCHANGED <<world, disk, journal, run>>

CleanPointsFails ==
  /\ pc = "cleanup" /\ ~wanted /\ disk.exists /\ Requests /\ Fault("request")
  /\ \E S \in SUBSET Removable : points' = With(points, S, None) /\ lost' = lost \cup S
  /\ Goto("idle")
  /\ UNCHANGED <<world, disk, journal, run>>

Unlink ==
  /\ pc = "unlink" /\ NoFault
  /\ disk' = NoManifest /\ lost' = Stored
  /\ Goto("unjournal")
  /\ UNCHANGED <<world, points, journal, run>>

RemoveJournal ==
  /\ pc = "unjournal" /\ NoFault
  /\ journal' = Nothing
  /\ Goto("idle")
  /\ UNCHANGED <<world, lost, points, disk, run>>

----------------------------------------------------------------------------
RunStep ==
  \/ Start \/ Diff \/ DiffFails \/ Resolve
  \/ SkipUnchanged \/ SkipEmpty \/ LoadManifest
  \/ RecoverDelete \/ RecoverFails \/ RecoverSave \/ RecoverUnlink
  \/ NothingIndexable \/ ReadBlobs \/ UpToDate \/ Reembed \/ Act
  \/ JournalDeletes \/ DeletePoints \/ DeleteFails
  \/ IndexFile \/ IndexFileFails \/ IndexSave \/ IndexFinish \/ Stamp \/ FinishJournal
  \/ NothingToClean \/ CleanPoints \/ CleanPointsFails \/ Unlink \/ RemoveJournal

World == MoveRefs \/ MoveBack \/ Configure \/ ClearCollection \/ Crash

Next == World \/ RunStep

Spec == Init /\ [][Next]_vars

\* cron starts the indexer again and again; faults are bounded, so after the
\* last of them every run goes through.
FairSpec == Spec /\ WF_vars(RunStep)

----------------------------------------------------------------------------
(* Properties. *)

TypeOK ==
  /\ bound \in Worlds /\ kind \in Kinds /\ refs \in RefPairs /\ before \in RefPairs
  /\ conf \in Configs /\ failed \in BOOLEAN
  /\ points \in [Files -> Contents \cup {Same, None, Partial}]
  /\ disk \in Manifests /\ mem \in Manifests
  /\ journal \in [Files -> Contents \cup {Same, Gone, None}]
  /\ pc \in PCs /\ diff \in RefPairs /\ sig \in Ats \cup {NoSig}
  /\ states \in [Files -> Contents \cup {Same, None}]
  /\ todo \subseteq Files
  /\ moves \in Ats /\ faults \in 0 .. MaxFaults /\ lost \subseteq Files

\* What a search for the overlay returns of f: main's copy and the overlay's
\* points are retrieved, then branch_dedup drops what is hidden.
Served(f) ==
  LET main == [path |-> f, branch |-> "main", content |-> Same]
      own  == [path |-> f, branch |-> "overlay", content |-> points[f]]
      hits == {main} \cup (IF points[f] = None THEN {} ELSE {own})
  IN  {c.content : c \in Search!Kept(hits, disk.tomb)}

\* The stored signature vouches for the refs as they are now: a run would skip.
Vouched ==
  /\ wanted /\ disk.sig = refs.at
  /\ journal = Nothing /\ (Listed(disk) = {} \/ Stored # {})

\* While the signature vouches for the overlay, so that runs skip it, the points
\* of every file it changes are those of the refs as they are now, and no search
\* returns a file it deletes, whatever was killed, failed or committed on the way.
\* Files whose points went without a line in the journal are excepted: with the
\* collection (see EventuallyReembedded), or in a removal of the overlay that
\* was cut short (see VouchedIsWhole); and those whose points a removal left
\* under the label because it had become that of a main branch.
VouchedIsStored ==
  Vouched => \A f \in Files :
    /\ refs.tree[f] \in Contents /\ f \notin lost =>
         points[f] = refs.tree[f] /\ disk.files[f] = points[f]
    /\ refs.tree[f] = Gone => Served(f) = {}

\* A file the overlay no longer changes is not kept in its manifest or in the
\* collection.  A branch without any indexable change is left alone by the
\* code on purpose (index_rag.py:1833) and is not promised this.
Differs(tree) == kind = "tag" \/ \E f \in Files : tree[f] # Same
VouchedIsLean ==
  Vouched /\ Differs(refs.tree) =>
    \A f \in Files \ lost :
      refs.tree[f] \notin Contents => points[f] = None /\ disk.files[f] = None

\* Where the points differ from what the overlay's manifest lists, its journal
\* has a line the manifest contradicts: no kill makes points unknown, and no
\* entry outlives its points unnoticed.
StrayIsAnnounced ==
  \A f \in Files \ lost : points[f] # disk.files[f] => f \in Stale(journal, disk)

\* The manifest of a removed overlay goes only after its last point is gone,
\* so that a failed removal is tried again.  Under the label of a main branch
\* only the points the manifest lists are gone (index_rag.py:2113-2116).
ManifestGoesLast ==
  [][disk.exists /\ ~disk'.exists =>
       \A f \in Stored' : conf = "main" /\ points[f] # disk.files[f]]_vars

\* When refs and configuration rest and faults end, the overlay holds what the
\* refs have, or is gone if it is not configured.  With the last git repository
\* the clean-up goes too (see EventuallyRemoved).
EventuallySettled ==
  <>[] /\ wanted => \A f \in Files :
             /\ refs.tree[f] \in Contents /\ f \notin lost => points[f] = refs.tree[f]
             /\ refs.tree[f] = Gone => Served(f) = {}
       /\ conf \in {"dropped", "main"} => ~disk.exists

-----------------------------------------------------------------------------
(* What makes these properties inductive. *)

Acting == {"delete", "deleting", "again", "index", "saved", "stamp"}
Changing == Acting \ {"delete"}
Loaded == {"plan", "act", "delete"}

\* The manifest in memory is the saved one until recovery or work changes it;
\* signature and tombstones are those of the last run until the stamp.
MemInv ==
  /\ pc \in {"recover", "recunlink"} \cup Loaded => mem.files = disk.files
  /\ pc \in {"recover", "recsave", "recunlink"} \cup Loaded \cup Changing =>
       mem.sig = disk.sig /\ mem.tomb = disk.tomb
  /\ pc \in Loaded => journal = Nothing
  /\ pc = "recsave" => \A f \in Files :
       /\ mem.files[f] = IF f \in Stale(journal, disk) THEN None ELSE disk.files[f]
       /\ f \in Stale(journal, disk) => points[f] = None
  /\ pc \in {"saved", "finish"} => mem.files = disk.files
  /\ pc = "recunlink" => \A f \in Files \ lost : points[f] = disk.files[f]
  /\ pc \in {"unlink", "unjournal"} => Stored \subseteq lost
  /\ pc = "unlink" => \A f \in Stored : conf = "main" /\ points[f] # disk.files[f]
  /\ pc = "unjournal" => disk = NoManifest

\* A file is worked on because its entry differs from its state, its line says
\* what is done to it, and once the line is resolved its points are there.
WorkInv ==
  /\ pc \in Acting => \A f \in todo :
       states[f] \notin {None, mem.files[f]} /\ (f \in lost \/ states[f] # disk.files[f])
  /\ pc \in {"saved", "stamp"} => todo = {}
  /\ pc \in Changing => \A f \in Files :
       /\ \/ journal[f] \in {None, states[f]}
          \/ journal[f] = Gone /\ states[f] = None
       /\ f \in Deletes => journal[f] = Gone
       /\ f \in Resolved(journal, mem) \/ (f \notin lost /\ f \notin Stale(journal, mem)) =>
            points[f] = mem.files[f]

\* The number of a ref pair names its tree, as long as refs move forward only.
RefsInv ==
  /\ refs.at <= moves
  /\ disk.sig \in Ats => disk.sig <= refs.at
  /\ pc \in PCs \ {"idle", "diff", "finish", "cleanup", "unlink", "unjournal"} =>
       /\ diff.at <= refs.at
       /\ diff.at = refs.at => diff = refs
       /\ disk.sig \in Ats => disk.sig <= diff.at
       /\ IF pc = "resolve" THEN diff = refs ELSE sig \in {NoSig, diff.at}

\* The states of a run are those of its difference, and an undisturbed run
\* brings the manifest there.
StatesInv ==
  /\ pc \in {"act"} \cup Acting =>
       /\ Differs(diff.tree)
       /\ diff.at = refs.at => \A f \in Files :
            states[f] = IF diff.tree[f] \in Contents THEN diff.tree[f] ELSE None
  /\ pc \in Acting /\ ~failed => \A f \in Files :
       \/ mem.files[f] = states[f]
       \/ f \in todo
       \/ pc \in {"delete", "deleting"} /\ f \in Deletes

\* A manifest stamped for the refs as they are lists what they have, and no run
\* starts to change it.
Right(f) ==
  /\ refs.tree[f] \in Contents => disk.files[f] = refs.tree[f]
  /\ refs.tree[f] \notin Contents /\ Differs(refs.tree) => disk.files[f] = None
StampInv ==
  disk.sig = refs.at =>
    /\ \A f \in Files : refs.tree[f] = Gone => f \in disk.tomb
    /\ \A f \in Files \ lost : Right(f) /\ f \notin Stale(journal, disk)
    /\ pc \in Changing => \A f \in Files \ lost :
         mem.files[f] = disk.files[f] /\ (journal[f] = None \/ pc = "saved")

StoreInv == TypeOK /\ MemInv /\ WorkInv /\ StrayIsAnnounced
IInv == StoreInv /\ RefsInv /\ StatesInv /\ StampInv

-----------------------------------------------------------------------------
(* What the documentation promises and the code does not keep. *)

\* index_rag.py:1646 "A manifest that lists files while Qdrant holds no points
\* for the label (collection cleared) is not trusted": a manifest that is
\* trusted has all its points.
VouchedIsWhole ==
  Vouched => \A f \in Files : disk.files[f] = points[f]

\* docs/git-overlays.md:59: "tombstones" are the "Paths the overlay deletes": what
\* the overlay changes is served by its points, what it leaves alone by main's.
VouchedIsServed ==
  Vouched => \A f \in Files :
    Served(f) = IF refs.tree[f] = Gone THEN {} ELSE {refs.tree[f]}

\* index_rag.py:1925-1930: a cleared collection is noticed and everything the
\* manifest lists is indexed again.
EventuallyReembedded ==
  <>[](wanted => \A f \in Files : refs.tree[f] \in Contents => points[f] = refs.tree[f])

\* overlay.py:264-266: when the signature matches the stored one, "the diff,
\* the blobs read and the hashes would all be the same".
SkippedIsSame ==
  [][SkipUnchanged => \A f \in Files :
       refs.tree[f] \in Contents => disk.files[f] = refs.tree[f]]_vars

\* index_rag.py:1687 "Removing an overlay from config deletes its points and
\* manifest on the next run."
EventuallyRemoved == <>[](~wanted => ~disk.exists)
=============================================================================
