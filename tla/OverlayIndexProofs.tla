------------------------- MODULE OverlayIndexProofs -------------------------
(***************************************************************************)
(* Machine-checked proofs about OverlayIndex, for any files and contents,  *)
(* both kinds of overlay and any number of moves and faults.               *)
(***************************************************************************)
EXTENDS OverlayIndex, TLAPS

LEMMA EmptyManifest == 0 \in Ats /\ NoManifest \in Manifests
  BY OverlayConstants DEF Ats, NoManifest, Manifests, Nothing

LEMMA InitType == Init => TypeOK
  <1> SUFFICES ASSUME Init PROVE TypeOK
    OBVIOUS
  <1>1. refs \in RefPairs /\ InitRun.diff \in RefPairs
    BY EmptyManifest DEF Init, RefPairs, Trees, InitRun
  <1> QED
    BY <1>1, EmptyManifest, OverlayConstants DEF Init, TypeOK, InitRun, PCs, Configs, Nothing

\* What an action leaves behind that ends the function.
LEMMA LeaveType ==
  ASSUME NEW l \in PCs, Leave(l)
  PROVE  /\ pc' = l /\ mem' \in Manifests /\ diff' \in RefPairs /\ sig' \in Ats \cup {NoSig}
         /\ states' \in [Files -> Contents \cup {Same, None}]
         /\ todo' = {} /\ failed' = FALSE
  <1>1. InitRun.diff \in RefPairs
    BY EmptyManifest DEF RefPairs, Trees, InitRun
  <1> QED
    BY <1>1, EmptyManifest DEF Leave, Goto, InitRun, Nothing

LEMMA NextType == TypeOK /\ WorkInv /\ [Next]_vars => TypeOK'
  <1> SUFFICES ASSUME TypeOK, WorkInv, [Next]_vars PROVE TypeOK'
    OBVIOUS
  <1>0. "idle" \in PCs /\ "cleanup" \in PCs
        /\ \A k : Fault(k) => faults' \in 0 .. MaxFaults
    BY OverlayConstants DEF PCs, Fault, TypeOK
  <1> USE DEF world, store, run, NoFault, Goto
  <1>1. CASE MoveRefs
    <2>1. moves' \in Ats /\ refs' \in RefPairs
      BY <1>1, OverlayConstants DEF MoveRefs, TypeOK, Ats, RefPairs
    <2> QED
      BY <1>1, <2>1 DEF MoveRefs, TypeOK
  <1>2. CASE MoveBack \/ Configure
    <2>1. moves' \in Ats /\ conf' \in Configs
      BY <1>2, OverlayConstants DEF MoveBack, Configure, TypeOK, Ats, Configs
    <2> QED
      BY <1>2, <2>1 DEF MoveBack, Configure, TypeOK
  <1>3. CASE ClearCollection
    BY <1>3, <1>0 DEF ClearCollection, TypeOK, Nothing, Stored
  <1>4. CASE Crash \/ DiffFails
    BY <1>4, <1>0, LeaveType DEF Crash, DiffFails, TypeOK
  <1>5. CASE Start
    BY <1>5 DEF Start, TypeOK, PCs
  <1>6. CASE Diff \/ Resolve
    <2>1. faults' \in 0 .. MaxFaults
      BY <1>6, <1>0 DEF Diff, Resolve, TypeOK
    <2>2. refs.at \in Ats
      BY DEF TypeOK, RefPairs
    <2> QED
      BY <1>6, <2>1, <2>2 DEF Diff, Resolve, TypeOK, PCs
  <1>7. CASE SkipUnchanged \/ SkipEmpty
    BY <1>7, <1>0, LeaveType DEF SkipUnchanged, SkipEmpty, MustRun, TypeOK
  <1>8. CASE LoadManifest
    BY <1>8, <1>0 DEF LoadManifest, MustRun, TypeOK, PCs, Nothing
  <1>9. CASE RecoverDelete
    BY <1>9 DEF RecoverDelete, TypeOK, PCs, With, Manifests
  <1>10. CASE RecoverFails
    BY <1>10, <1>0, LeaveType DEF RecoverFails, TypeOK, With
  <1>11. CASE RecoverSave \/ RecoverUnlink
    BY <1>11 DEF RecoverSave, RecoverUnlink, TypeOK, PCs, Manifests, Nothing
  <1>12. CASE NothingIndexable \/ UpToDate
    <2>1. disk' \in Manifests /\ faults' \in 0 .. MaxFaults
      BY <1>12, <1>0 DEF NothingIndexable, UpToDate, TypeOK, Manifests
    <2> QED
      BY <1>12, <1>0, <2>1, LeaveType DEF NothingIndexable, UpToDate, TypeOK
  <1>13. CASE ReadBlobs
    <2>1. \A f \in Keys : Blob(f) \in Contents \cup {Same, None}
      BY DEF Keys, Blob, TypeOK, RefPairs, Trees
    <2> QED
      BY <1>13, <1>0, <2>1 DEF ReadBlobs, TypeOK, PCs
  <1>14. CASE Reembed
    BY <1>14 DEF Reembed, TypeOK, PCs, Listed, Manifests, Nothing
  <1>15. CASE Act \/ JournalDeletes
    BY <1>15 DEF Act, JournalDeletes, TypeOK, PCs, Upserts, With
  <1>16. CASE DeletePoints
    BY <1>16 DEF DeletePoints, AfterDelete, TypeOK, PCs, With, Manifests
  <1>17. CASE DeleteFails
    BY <1>17, <1>0 DEF DeleteFails, AfterDelete, TypeOK, PCs, With
  <1>18. CASE IndexFile
    <2>1. PICK f \in todo : /\ journal' = With(journal, {f}, states[f])
                            /\ points' = With(points, {f}, states[f])
                            /\ mem' = [mem EXCEPT !.files[f] = states[f]]
                            /\ todo' = todo \ {f}
      BY <1>18 DEF IndexFile
    <2> QED
      BY <1>18, <2>1 DEF IndexFile, TypeOK, With, Manifests
  <1>19. CASE IndexFileFails
    <2>1. PICK f \in todo : \E left \in {None, Partial, points[f], states[f]} :
             /\ journal' = With(journal, {f}, states[f])
             /\ points' = With(points, {f}, left)
             /\ todo' = todo \ {f}
      BY <1>19 DEF IndexFileFails
    <2> QED
      BY <1>19, <1>0, <2>1 DEF IndexFileFails, TypeOK, With
  <1>20. CASE IndexSave \/ IndexFinish
    BY <1>20 DEF IndexSave, IndexFinish, TypeOK, PCs, Finished, Manifests
  <1>21. CASE Stamp \/ FinishJournal
    <2>1. CASE Stamp
      <3>1. mem' \in Manifests
        BY <2>1 DEF Stamp, TypeOK, Manifests, Tombs
      <3> QED
        BY <2>1, <3>1 DEF Stamp, TypeOK, PCs
    <2>2. CASE FinishJournal
      BY <2>2, <1>0, LeaveType DEF FinishJournal, TypeOK, Finished
    <2> QED
      BY <1>21, <2>1, <2>2
  <1>22. CASE NothingToClean
    BY <1>22 DEF NothingToClean, TypeOK, PCs
  <1>23. CASE CleanPoints \/ CleanPointsFails
    BY <1>23, <1>0 DEF CleanPoints, CleanPointsFails, TypeOK, PCs, With, Removable, Stored
  <1>24. CASE Unlink \/ RemoveJournal
    BY <1>24, EmptyManifest DEF Unlink, RemoveJournal, TypeOK, PCs, Nothing, Stored
  <1>25. CASE UNCHANGED vars
    BY <1>25 DEF vars, TypeOK
  <1> QED
    BY <1>1, <1>2, <1>3, <1>4, <1>5, <1>6, <1>7, <1>8, <1>9, <1>10, <1>11, <1>12, <1>13,
       <1>14, <1>15, <1>16, <1>17, <1>18, <1>19, <1>20, <1>21, <1>22, <1>23, <1>24, <1>25
    DEF Next, World, RunStep

\* The stages of a run; what an action does not name it leaves alone.
LEMMA Stages ==
  /\ Acting = {"delete", "deleting", "again", "index", "saved", "stamp"}
  /\ Changing = {"deleting", "again", "index", "saved", "stamp"}
  /\ Loaded = {"plan", "act", "delete"}
  BY DEF Acting, Changing, Loaded

LEMMA NextMem == StoreInv /\ [Next]_vars => MemInv'
  <1> SUFFICES ASSUME TypeOK, MemInv, StrayIsAnnounced, [Next]_vars PROVE MemInv'
    BY DEF StoreInv
  <1> USE Stages DEF world, store, run, NoFault, Goto, MemInv
  <1>1. CASE MoveRefs \/ MoveBack \/ Configure \/ UNCHANGED vars
    BY <1>1 DEF MoveRefs, MoveBack, Configure, vars, Stale, Stored
  <1>2. CASE ClearCollection \/ Start
    BY <1>2 DEF ClearCollection, Start
  <1>3. CASE Crash \/ DiffFails \/ SkipUnchanged \/ SkipEmpty \/ RecoverFails
    BY <1>3 DEF Crash, DiffFails, SkipUnchanged, SkipEmpty, MustRun, RecoverFails, Leave
  <1>4. CASE Diff \/ Resolve
    BY <1>4 DEF Diff, Resolve
  <1>5. CASE LoadManifest
    BY <1>5 DEF LoadManifest, MustRun
  <1>6. CASE RecoverDelete
    <2>1. Stale(journal, mem) = Stale(journal, disk)
      BY <1>6 DEF RecoverDelete, Stale
    <2>2. /\ mem'.files = With(disk.files, Stale(journal, disk), None)
          /\ mem'.sig = disk'.sig /\ mem'.tomb = disk'.tomb
          /\ points' = With(points, Stale(journal, disk), None)
          /\ Stale(journal, disk)' = Stale(journal, disk)
      BY <1>6, <2>1 DEF RecoverDelete, TypeOK, Manifests, Stale
    <2> QED
      BY <1>6, <2>2 DEF RecoverDelete, With
  <1>7. CASE RecoverSave \/ RecoverUnlink
    <2>1. CASE RecoverSave
      <3>1. /\ disk'.files = mem.files /\ disk'.sig = mem.sig /\ disk'.tomb = mem.tomb
            /\ UNCHANGED <<points, lost, mem>> /\ pc = "recsave" /\ pc' = "recunlink"
        BY <2>1 DEF RecoverSave, TypeOK, Manifests
      <3>2. \A f \in Files \ lost : points[f] = mem.files[f]
        BY <3>1 DEF StrayIsAnnounced
      <3> QED
        BY <3>1, <3>2
    <2>2. CASE RecoverUnlink
      BY <2>2 DEF RecoverUnlink
    <2> QED
      BY <1>7, <2>1, <2>2
  <1>8. CASE NothingIndexable \/ UpToDate \/ Stamp \/ FinishJournal
    BY <1>8 DEF NothingIndexable, UpToDate, Stamp, FinishJournal, Leave
  <1>9. CASE ReadBlobs
    BY <1>9 DEF ReadBlobs
  <1>10. CASE Reembed \/ Act \/ JournalDeletes
    BY <1>10 DEF Reembed, Act, JournalDeletes, TypeOK, Manifests
  <1>11. CASE DeletePoints \/ DeleteFails
    BY <1>11 DEF DeletePoints, DeleteFails, AfterDelete, TypeOK, Manifests
  <1>12. CASE IndexFile \/ IndexFileFails \/ IndexSave \/ IndexFinish
    <2>1. CASE IndexFile \/ IndexFileFails
      BY <2>1 DEF IndexFile, IndexFileFails, TypeOK, Manifests
    <2>2. CASE IndexSave
      BY <2>2 DEF IndexSave, TypeOK, Manifests
    <2>3. CASE IndexFinish
      BY <2>3 DEF IndexFinish
    <2> QED
      BY <1>12, <2>1, <2>2, <2>3
  <1>13. CASE NothingToClean \/ CleanPoints \/ CleanPointsFails
    <2>1. CASE NothingToClean \/ CleanPointsFails
      BY <2>1 DEF NothingToClean, CleanPointsFails
    <2>2. CASE CleanPoints
      <3>1. PICK left \in SUBSET Excess :
              points' = With(With(points, Removable, None), left, Partial)
        BY <2>2 DEF CleanPoints
      <3>2. ASSUME NEW f \in Files, points'[f] # None
            PROVE  f \in Stored /\ conf = "main" /\ points'[f] # disk.files[f]
        <4>1. f \in left \/ (f \in Stored \ Removable /\ points'[f] = points[f])
          BY <3>1, <3>2 DEF With, Removable, Stored
        <4>2. disk.files[f] # Partial
          BY OverlayConstants DEF TypeOK, Manifests
        <4>3. CASE f \in left
          BY <3>1, <4>2, <4>3 DEF Excess, Removable, With
        <4>4. CASE f \in Stored \ Removable /\ points'[f] = points[f]
          BY <3>2, <4>4 DEF Removable, Listed
        <4> QED
          BY <4>1, <4>3, <4>4
      <3>3. UNCHANGED <<conf, disk>> /\ lost' = lost \cup Stored /\ pc' = "unlink"
        BY <2>2 DEF CleanPoints
      <3> QED
        BY <3>2, <3>3 DEF Stored
    <2> QED
      BY <1>13, <2>1, <2>2
  <1>14. CASE Unlink \/ RemoveJournal
    BY <1>14 DEF Unlink, RemoveJournal, Stored
  <1> QED
    BY <1>1, <1>2, <1>3, <1>4, <1>5, <1>6, <1>7, <1>8, <1>9, <1>10, <1>11, <1>12, <1>13, <1>14
    DEF Next, World, RunStep

LEMMA NextWork == StoreInv /\ [Next]_vars => WorkInv'
  <1> SUFFICES ASSUME TypeOK, MemInv, WorkInv, StrayIsAnnounced, [Next]_vars PROVE WorkInv'
    BY DEF StoreInv
  <1> USE Stages DEF world, store, run, NoFault, Goto
  <1> DEFINE Apart == \A f \in Files : states[f] \notin {Gone, Partial}
  <1>a. Apart
    BY OverlayConstants DEF TypeOK
  <1>1. CASE pc' \notin Acting
    BY <1>1 DEF WorkInv
  <1>2. CASE Act
    <2>1. /\ journal = Nothing /\ mem.files = disk.files
          /\ \A f \in Files : journal[f] = None
      BY <1>2 DEF Act, MemInv, Nothing
    <2>2. ASSUME NEW f \in todo'
          PROVE  f \in Files /\ states[f] \notin {None, mem.files[f]}
      BY <1>2, <2>2 DEF Act, Upserts
    <2>3. ASSUME pc' \in Changing PROVE Deletes = {}
      BY <1>2, <2>3 DEF Act
    <2>4. ASSUME NEW f \in Files, f \notin lost PROVE points[f] = mem.files[f]
      BY <2>1, <2>4, OverlayConstants DEF StrayIsAnnounced, Stale
    <2>5. Resolved(journal, mem) = {}
      BY <2>1 DEF Resolved
    <2>6. pc' \in {"saved", "stamp"} => todo' = {}
      BY <1>2 DEF Act
    <2>7. UNCHANGED <<points, disk, journal, mem, states, lost>> /\ Deletes' = Deletes
      BY <1>2 DEF Act, Deletes, Listed
    <2> QED
      BY <2>1, <2>2, <2>3, <2>4, <2>5, <2>6, <2>7 DEF WorkInv, Resolved, Stale
  <1>3. CASE Reembed
    <2>1. /\ journal = Nothing /\ mem.files = disk.files
          /\ \A f \in Files : journal[f] = None /\ points[f] = None
      BY <1>3 DEF Reembed, MemInv, Nothing, Stored
    <2>2. ASSUME NEW f \in todo'
          PROVE  f \in Files /\ states[f] = mem.files[f] /\ states[f] # None
      BY <1>3, <2>2 DEF Reembed, NoWork, Deletes, Upserts, Listed
    <2>3. ASSUME NEW f \in todo' PROVE f \in lost
      BY <2>1, <2>2, OverlayConstants DEF StrayIsAnnounced, Stale
    <2>4. \A f \in Files : mem'.files[f] = None
      BY <1>3 DEF Reembed, Nothing, TypeOK, Manifests
    <2>5. UNCHANGED <<points, disk, journal, states, lost>> /\ pc' = "index"
      BY <1>3 DEF Reembed
    <2> QED
      BY <2>1, <2>2, <2>3, <2>4, <2>5 DEF WorkInv, Deletes, Listed
  <1>4. CASE JournalDeletes
    <2>1. mem.files = disk.files /\ \A f \in Files : journal[f] = None
      BY <1>4 DEF JournalDeletes, MemInv, Nothing
    <2>2. ASSUME NEW f \in Files
          PROVE  journal'[f] = IF f \in Deletes THEN Gone ELSE None
      BY <1>4, <2>1 DEF JournalDeletes, With
    <2>3. ASSUME NEW f \in Files, f \notin lost PROVE points[f] = mem.files[f]
      BY <2>1, <2>3, OverlayConstants DEF StrayIsAnnounced, Stale
    <2>4. UNCHANGED <<points, disk, mem, states, todo, lost>> /\ pc = "delete" /\ pc' = "deleting"
          /\ Deletes' = Deletes
      BY <1>4 DEF JournalDeletes, Deletes, Listed
    <2>5. \A f \in Deletes : states[f] = None /\ mem.files[f] # None
      BY DEF Deletes, Listed
    <2> QED
      BY <2>2, <2>3, <2>4, <2>5, OverlayConstants DEF WorkInv, Resolved, Stale
  <1>5. CASE DeletePoints
    <2>1. ASSUME NEW f \in Files
          PROVE  /\ points'[f] = IF f \in Deletes THEN None ELSE points[f]
                 /\ mem'.files[f] = IF f \in Deletes THEN None ELSE mem.files[f]
      BY <1>5 DEF DeletePoints, With, TypeOK, Manifests
    <2>2. \A f \in Files : f \in Deletes <=> mem.files[f] # None /\ states[f] = None
      BY DEF Deletes, Listed
    <2>3. Deletes' = {}
      BY <1>5, <2>1, <2>2 DEF DeletePoints, Deletes, Listed
    <2>4. UNCHANGED <<disk, journal, states, todo, lost>> /\ pc \in Changing
          /\ (pc' \in {"saved", "stamp"} => todo' = {})
      BY <1>5 DEF DeletePoints, AfterDelete
    <2> QED
      BY <2>1, <2>2, <2>3, <2>4 DEF WorkInv, Resolved, Stale, TypeOK
  <1>6. CASE DeleteFails
    <2>1. PICK S \in SUBSET Deletes : points' = With(points, S, None)
      BY <1>6 DEF DeleteFails
    <2>2. ASSUME NEW f \in Files, f \notin Deletes PROVE points'[f] = points[f]
      BY <2>1, <2>2 DEF With
    <2>3. \A f \in Deletes : f \in Files /\ mem.files[f] # None
      BY DEF Deletes, Listed
    <2>4. UNCHANGED <<disk, journal, mem, states, todo, lost>> /\ pc \in Changing
          /\ (pc' \in {"saved", "stamp"} => todo' = {}) /\ Deletes' = Deletes
      BY <1>6 DEF DeleteFails, AfterDelete, Deletes, Listed
    <2> QED
      BY <2>2, <2>3, <2>4 DEF WorkInv, Resolved, Stale
  <1>7. CASE IndexFile
    <2>1. PICK g \in todo : /\ journal' = With(journal, {g}, states[g])
                            /\ points' = With(points, {g}, states[g])
                            /\ mem' = [mem EXCEPT !.files[g] = states[g]]
                            /\ todo' = todo \ {g}
      BY <1>7 DEF IndexFile
    <2>2. ASSUME NEW f \in Files
          PROVE  /\ journal'[f] = IF f = g THEN states[f] ELSE journal[f]
                 /\ points'[f] = IF f = g THEN states[f] ELSE points[f]
                 /\ mem'.files[f] = IF f = g THEN states[f] ELSE mem.files[f]
      BY <2>1 DEF With, TypeOK, Manifests
    <2>3. UNCHANGED <<disk, states, lost>> /\ pc = "index" /\ pc' = "index"
      BY <1>7 DEF IndexFile
    <2>4. ASSUME NEW f \in Files, f # g
          PROVE  /\ f \in Resolved(journal', mem') <=> f \in Resolved(journal, mem)
                 /\ f \in Stale(journal', mem') <=> f \in Stale(journal, mem)
                 /\ f \in Deletes' <=> f \in Deletes
      BY <2>2, <2>3, <2>4 DEF Resolved, Stale, Deletes, Listed
    <2>5. g \in Files /\ states[g] # None
      BY <2>3 DEF WorkInv, TypeOK
    <2>6. g \notin Deletes'
      BY <2>3, <2>5 DEF Deletes
    <2>7. ASSUME NEW f \in todo'
          PROVE  states[f] \notin {None, mem'.files[f]} /\ (f \in lost \/ states[f] # disk.files[f])
      BY <2>1, <2>2, <2>3, <2>7 DEF WorkInv, TypeOK
    <2>8. ASSUME NEW f \in Files
          PROVE  /\ \/ journal'[f] \in {None, states[f]}
                    \/ journal'[f] = Gone /\ states[f] = None
                 /\ f \in Deletes' => journal'[f] = Gone
                 /\ \/ f \in Resolved(journal', mem')
                    \/ f \notin lost /\ f \notin Stale(journal', mem')
                    => points'[f] = mem'.files[f]
      <3>1. CASE f = g
        BY <2>2, <2>6, <3>1
      <3>2. CASE f # g
        BY <2>2, <2>3, <2>4, <3>2 DEF WorkInv
      <3> QED
        BY <3>1, <3>2
    <2> QED
      BY <2>3, <2>7, <2>8 DEF WorkInv
  <1>8. CASE IndexFileFails
    <2>1. PICK g \in todo : \E left \in {None, Partial, points[g], states[g]} :
             /\ journal' = With(journal, {g}, states[g])
             /\ points' = With(points, {g}, left)
             /\ todo' = todo \ {g}
      BY <1>8 DEF IndexFileFails
    <2>2. ASSUME NEW f \in Files
          PROVE  /\ journal'[f] = IF f = g THEN states[f] ELSE journal[f]
                 /\ f # g => points'[f] = points[f]
      BY <2>1 DEF With
    <2>3. UNCHANGED <<disk, mem, states, lost>> /\ pc = "index" /\ pc' = "index"
          /\ Deletes' = Deletes
      BY <1>8 DEF IndexFileFails, Deletes, Listed
    <2>4. g \in Stale(journal', mem) /\ g \notin Resolved(journal', mem)
      BY <2>1, <2>2, <2>3, <1>a DEF WorkInv, Resolved, Stale, TypeOK
    <2>5. states[g] # None /\ g \notin Deletes /\ todo' \subseteq todo
      BY <2>1, <2>3 DEF WorkInv, Deletes, Acting, TypeOK
    <2>6. \A f \in todo' :
             states'[f] \notin {None, mem'.files[f]} /\ (f \in lost' \/ states'[f] # disk'.files[f])
      BY <2>3, <2>5 DEF WorkInv, Acting
    <2>7. ASSUME NEW f \in Files, f # g
          PROVE  /\ \/ journal'[f] \in {None, states'[f]}
                    \/ journal'[f] = Gone /\ states'[f] = None
                 /\ f \in Deletes' => journal'[f] = Gone
                 /\ f \in Resolved(journal', mem') \/ (f \notin lost' /\ f \notin Stale(journal', mem')) =>
                      points'[f] = mem'.files[f]
      BY <2>2, <2>3, <2>7 DEF WorkInv, Resolved, Stale, Changing
    <2>8. g \in Files /\ journal'[g] = states[g]
      BY <2>1, <2>2 DEF TypeOK
    <2> QED
      BY <2>3, <2>4, <2>5, <2>6, <2>7, <2>8 DEF WorkInv
  <1>9. CASE IndexSave
    <2>1. /\ UNCHANGED <<points, journal, mem, states, todo>> /\ pc = "index" /\ todo = {}
          /\ lost' = lost \ Resolved(journal, mem) /\ Deletes' = Deletes
      BY <1>9 DEF IndexSave, Deletes, Listed
    <2>2. Resolved(journal', mem') = Resolved(journal, mem) /\ Stale(journal', mem') = Stale(journal, mem)
      BY <2>1 DEF Resolved, Stale
    <2> QED
      BY <2>1, <2>2 DEF WorkInv
  <1>12. CASE IndexFinish
    <2>1. ASSUME NEW f \in Files
          PROVE  journal'[f] = IF f \in Resolved(journal, mem) THEN None ELSE journal[f]
      BY <1>12 DEF IndexFinish, Finished
    <2>2. /\ UNCHANGED <<points, disk, mem, states, todo, lost>> /\ pc = "saved"
          /\ Deletes' = Deletes
      BY <1>12 DEF IndexFinish, Deletes, Listed
    <2>3. Resolved(journal', mem) = {}
      BY <2>1 DEF Resolved, Stale
    <2>4. ASSUME NEW f \in Files, f \notin lost, f \notin Stale(journal', mem)
          PROVE  points[f] = mem.files[f]
      BY <2>1, <2>2, <2>4 DEF WorkInv, Resolved, Stale
    <2>5. \A f \in Deletes : f \in Files /\ mem.files[f] # None
      BY DEF Deletes, Listed
    <2>6. \A f \in Deletes : f \notin Resolved(journal, mem)
      BY <2>2, <2>5 DEF WorkInv, Resolved, Stale
    <2> QED
      BY <2>1, <2>2, <2>3, <2>4, <2>5, <2>6 DEF WorkInv
  <1>10. CASE UNCHANGED <<points, disk, journal, mem, states, todo, lost, pc>>
    BY <1>10 DEF WorkInv, Resolved, Stale, Deletes, Listed
  <1>11. ASSUME pc' \in Acting
         PROVE  \/ Act \/ Reembed \/ JournalDeletes \/ DeletePoints \/ DeleteFails
                \/ IndexFile \/ IndexFileFails \/ IndexSave \/ IndexFinish
                \/ UNCHANGED <<points, disk, journal, mem, states, todo, lost, pc>>
    <2>1. CASE World \/ UNCHANGED vars
      BY <1>11, <2>1 DEF World, MoveRefs, MoveBack, Configure, ClearCollection, Crash, Leave, vars
    <2>2. CASE RunStep
      BY <1>11, <2>2
      DEF RunStep, Start, Diff, DiffFails, Resolve, SkipUnchanged, SkipEmpty, LoadManifest,
          RecoverDelete, RecoverFails, RecoverSave, RecoverUnlink, NothingIndexable, ReadBlobs,
          UpToDate, Stamp, FinishJournal, NothingToClean, CleanPoints, CleanPointsFails, Unlink, RemoveJournal, Leave
    <2> QED
      BY <2>1, <2>2 DEF Next
  <1> QED
    BY <1>1, <1>2, <1>3, <1>4, <1>5, <1>6, <1>7, <1>8, <1>9, <1>10, <1>11, <1>12

LEMMA NextStray == StoreInv /\ [Next]_vars => StrayIsAnnounced'
  <1> SUFFICES ASSUME TypeOK, MemInv, WorkInv, StrayIsAnnounced, [Next]_vars,
                      NEW f \in Files, f \notin lost', points'[f] # disk'.files[f]
               PROVE  f \in Stale(journal', disk')
    BY DEF StoreInv, StrayIsAnnounced, Stale
  <1> USE Stages DEF world, store, run, NoFault, Goto
  <1>a. ASSUME UNCHANGED <<points, disk, lost>>, journal'[f] = journal[f]
        PROVE  f \in Stale(journal', disk')
    BY <1>a DEF StrayIsAnnounced, Stale
  <1>b. ASSUME journal = Nothing PROVE f \in lost \/ points[f] = disk.files[f]
    BY <1>b, OverlayConstants DEF StrayIsAnnounced, Stale, Nothing
  <1>1. CASE UNCHANGED <<store, lost>>
    BY <1>1, <1>a
  <1>2. CASE ClearCollection
    BY <1>2, <1>a DEF ClearCollection, StrayIsAnnounced, Stale, Stored, Nothing
  <1>3. CASE LoadManifest
    <2>1. CASE Stale(journal, disk) = {}
      BY <1>3, <2>1 DEF LoadManifest, StrayIsAnnounced
    <2> QED
      BY <1>3, <1>a, <2>1 DEF LoadManifest
  <1>4. CASE RecoverDelete \/ RecoverFails
    <2>1. Stale(journal, mem) = Stale(journal, disk)
      BY <1>4 DEF RecoverDelete, RecoverFails, MemInv, Stale
    <2>2. PICK S \in SUBSET Stale(journal, disk) : points' = With(points, S, None)
      BY <1>4, <2>1 DEF RecoverDelete, RecoverFails
    <2>3. UNCHANGED <<disk, journal, lost>>
      BY <1>4 DEF RecoverDelete, RecoverFails
    <2> QED
      BY <2>2, <2>3 DEF StrayIsAnnounced, Stale, With
  <1>5. CASE RecoverSave \/ RecoverUnlink
    BY <1>5 DEF RecoverSave, RecoverUnlink, MemInv, StrayIsAnnounced, TypeOK, Manifests
  <1>6. CASE NothingIndexable \/ UpToDate
    <2>1. disk'.files = disk.files /\ UNCHANGED <<points, journal, lost>>
      BY <1>6 DEF NothingIndexable, UpToDate, MemInv, TypeOK, Manifests
    <2> QED
      BY <2>1 DEF StrayIsAnnounced, Stale
  <1>7. CASE JournalDeletes
    <2>1. journal = Nothing /\ mem.files = disk.files
      BY <1>7 DEF JournalDeletes, MemInv
    <2>2. UNCHANGED <<points, disk, lost>> /\ journal' = With(journal, Deletes, Gone)
      BY <1>7 DEF JournalDeletes
    <2> QED
      BY <1>b, <2>1, <2>2
  <1>8. CASE DeletePoints \/ DeleteFails
    <2>1. PICK S \in SUBSET Deletes : points' = With(points, S, None)
      BY <1>8 DEF DeletePoints, DeleteFails
    <2>2. UNCHANGED <<disk, journal, lost>> /\ pc \in Changing
      BY <1>8 DEF DeletePoints, DeleteFails
    <2>3. CASE f \in S
      <3>1. points'[f] = None /\ journal[f] = Gone
        BY <2>1, <2>2, <2>3 DEF With, WorkInv
      <3> QED
        BY <2>2, <3>1 DEF Stale
    <2> QED
      BY <2>1, <2>2, <2>3, <1>a DEF With, StrayIsAnnounced, Stale
  <1>9. CASE IndexFile \/ IndexFileFails
    <2>1. PICK g \in todo : /\ journal' = With(journal, {g}, states[g])
                            /\ \E left : points' = With(points, {g}, left)
      BY <1>9 DEF IndexFile, IndexFileFails
    <2>2. UNCHANGED <<disk, lost>> /\ pc = "index"
      BY <1>9 DEF IndexFile, IndexFileFails
    <2>3. CASE f = g
      <3>1. journal'[f] = states[f]
        BY <2>1, <2>3 DEF With
      <3>2. states[f] \notin {None, Gone, disk.files[f]}
        BY <2>2, <2>3, OverlayConstants DEF WorkInv, TypeOK
      <3> QED
        BY <2>2, <3>1, <3>2 DEF Stale
    <2> QED
      BY <2>1, <2>2, <2>3 DEF With, StrayIsAnnounced, Stale
  <1>10. CASE IndexSave \/ Stamp
    <2>1. /\ disk'.files = mem.files /\ points' = points /\ pc \in Changing
          /\ journal' = journal /\ lost' = lost \ Resolved(journal, mem)
      BY <1>10 DEF IndexSave, Stamp, TypeOK, Manifests
    <2>2. f \in Stale(journal, mem)
      BY <2>1 DEF WorkInv
    <2> QED
      BY <2>1, <2>2 DEF Stale
  <1>14. CASE IndexFinish \/ FinishJournal
    <2>1. /\ UNCHANGED <<points, disk, lost>> /\ journal' = Finished(journal, mem)
          /\ pc \in {"saved", "finish"}
      BY <1>14 DEF IndexFinish, FinishJournal
    <2>2. f \in Stale(journal, disk) /\ Stale(journal, disk) = Stale(journal, mem)
      BY <2>1 DEF MemInv, StrayIsAnnounced, Stale
    <2> QED
      BY <2>1, <2>2 DEF Finished, Resolved, Stale
  <1>11. CASE CleanPoints
    <2>1. f \notin Stored /\ f \notin lost /\ UNCHANGED <<disk, journal>>
      BY <1>11 DEF CleanPoints
    <2>2. points'[f] = points[f]
      BY <1>11, <2>1 DEF CleanPoints, With, Removable, Excess
    <2> QED
      BY <2>1, <2>2 DEF StrayIsAnnounced, Stale
  <1>12. CASE CleanPointsFails
    BY <1>12 DEF CleanPointsFails, StrayIsAnnounced, Stale, With
  <1>13. CASE Unlink \/ RemoveJournal
    BY <1>13 DEF Unlink, RemoveJournal, MemInv, NoManifest, Nothing, Stored
  <1> QED
    BY <1>1, <1>2, <1>3, <1>4, <1>5, <1>6, <1>7, <1>8, <1>9, <1>10, <1>11, <1>12, <1>13, <1>14
    DEF Next, World, RunStep, MoveRefs, MoveBack, Configure, Crash, vars, Start, Diff,
        DiffFails, Resolve, SkipUnchanged, SkipEmpty, ReadBlobs, Reembed, Act, NothingToClean

LEMMA InitStore == Init => StoreInv
  <1>1. Init => MemInv /\ WorkInv /\ StrayIsAnnounced
    BY Stages DEF Init, MemInv, WorkInv, StrayIsAnnounced, NoManifest, Nothing
  <1> QED
    BY <1>1, InitType DEF StoreInv

LEMMA NextStore == StoreInv /\ [Next]_vars => StoreInv'
  BY NextType, NextMem, NextWork, NextStray DEF StoreInv

\* The manifest in memory, the journal and the points keep step through every
\* stage of a run, wherever it is cut short.
THEOREM StoreInvariant == Spec => []StoreInv
  BY InitStore, NextStore, PTL DEF Spec

\* Kills, failed requests and commits at any moment leave no points that
\* manifest and journal do not know of, and no entry without its points.
THEOREM NoStrayPoints == Spec => []StrayIsAnnounced
  <1>1. StoreInv => StrayIsAnnounced
    BY DEF StoreInv
  <1> QED
    BY <1>1, StoreInvariant, PTL

\* No step but the last of a cleanup takes the manifest away, and that one
\* finds no point left but those under a main branch's label that no manifest
\* entry names.
THEOREM RemovalIsLast == Spec => ManifestGoesLast
  <1>1. StoreInv /\ [Next]_vars =>
          [disk.exists /\ ~disk'.exists =>
             \A f \in Stored' : conf = "main" /\ points[f] # disk.files[f]]_vars
    <2> SUFFICES ASSUME StoreInv, Next, disk.exists, ~disk'.exists
                 PROVE  \A f \in Stored' : conf = "main" /\ points[f] # disk.files[f]
      OBVIOUS
    <2> USE DEF world, store
    <2>1. CASE Unlink
      BY <2>1 DEF Unlink, StoreInv, MemInv, Stored
    <2>2. ASSUME disk' = disk PROVE FALSE
      BY <2>2
    <2> QED
      BY <2>1, <2>2
      DEF Next, World, MoveRefs, MoveBack, Configure, ClearCollection, Crash, RunStep, Start,
          Diff, DiffFails, Resolve, SkipUnchanged, SkipEmpty, LoadManifest, RecoverDelete,
          RecoverFails, RecoverSave, RecoverUnlink, NothingIndexable, ReadBlobs, UpToDate, Reembed,
          Act, JournalDeletes, DeletePoints, DeleteFails, IndexFile, IndexFileFails, IndexSave,
          IndexFinish, Stamp, FinishJournal, NothingToClean, CleanPoints, CleanPointsFails, RemoveJournal, StoreInv, TypeOK, Manifests
  <1> QED
    BY <1>1, StoreInvariant, PTL DEF Spec, ManifestGoesLast

----------------------------------------------------------------------------
(* A stored signature tells the truth as long as refs move forward, not      *)
(* between the two looks of diff_overlay at them, and git shows what it has. *)

Orderly == \A w \in Worlds : ~w.rollback /\ "resolve" \notin w.moveAt /\ "blob" \notin w.faults

LEMMA NextRefs == Orderly /\ TypeOK /\ MemInv /\ RefsInv /\ [Next]_vars => RefsInv'
  <1> SUFFICES ASSUME Orderly, TypeOK, MemInv, RefsInv, [Next]_vars PROVE RefsInv'
    OBVIOUS
  <1> USE Stages DEF world, store, run, NoFault, Goto
  <1>a. /\ Ats \subseteq Nat /\ NoSig \notin Ats /\ moves \in Nat /\ refs.at \in Nat
        /\ diff.at \in Nat /\ disk.sig \in Ats \cup {NoSig} /\ (disk.sig \in Ats => disk.sig \in Nat)
    BY OverlayConstants DEF TypeOK, RefPairs, Manifests, Ats
  <1> DEFINE Left == {"idle", "diff", "finish", "cleanup", "unlink", "unjournal"}
  <1>1. CASE MoveRefs
    <2>1. pc # "resolve"
      BY <1>1 DEF MoveRefs, Orderly, TypeOK
    <2>2. refs'.at = moves + 1 /\ moves' = moves + 1 /\ UNCHANGED <<pc, disk, diff, sig>>
      BY <1>1 DEF MoveRefs
    <2>3. refs'.at \in Nat /\ refs.at < refs'.at /\ refs'.at <= moves' /\ (disk.sig \in Ats => disk.sig < refs'.at)
      BY <2>2, <1>a DEF RefsInv
    <2>4. ASSUME pc \in PCs \ Left
          PROVE  diff.at < refs'.at /\ sig \in {NoSig, diff.at} /\ (disk.sig \in Ats => disk.sig <= diff.at)
      BY <2>1, <2>3, <2>4, <1>a DEF RefsInv
    <2> QED
      BY <2>1, <2>2, <2>3, <2>4, <1>a DEF RefsInv
  <1>2. CASE MoveBack
    BY <1>2 DEF MoveBack, Orderly, TypeOK
  <1>3. CASE Configure \/ Start \/ UNCHANGED vars
    BY <1>3, <1>a DEF Configure, Start, RefsInv, vars
  <1>4. CASE Diff \/ Resolve
    BY <1>4, <1>a DEF Diff, Resolve, RefsInv, PCs
  <1>b. ASSUME UNCHANGED <<refs, moves>>, disk'.sig \in {disk.sig, NoSig},
               pc' \in Left \/ (UNCHANGED <<diff, sig>> /\ pc \notin Left \cup {"resolve"} /\ pc' # "resolve")
        PROVE  RefsInv'
    BY <1>b, <1>a DEF RefsInv, TypeOK
  <1>5. CASE ClearCollection \/ Crash \/ DiffFails \/ SkipUnchanged \/ SkipEmpty
    BY <1>5, <1>b DEF ClearCollection, Crash, DiffFails, SkipUnchanged, SkipEmpty, MustRun, Leave
  <1>6. CASE LoadManifest \/ RecoverDelete \/ RecoverFails
    BY <1>6, <1>b DEF LoadManifest, MustRun, RecoverDelete, RecoverFails, Leave
  <1>7. CASE RecoverSave \/ RecoverUnlink \/ IndexSave \/ IndexFinish
    <2>1. disk'.sig = disk.sig
      BY <1>7 DEF RecoverSave, RecoverUnlink, IndexSave, IndexFinish, MemInv, TypeOK, Manifests
    <2> QED
      BY <1>7, <1>b, <2>1 DEF RecoverSave, RecoverUnlink, IndexSave, IndexFinish
  <1>12. CASE FinishJournal
    BY <1>12, <1>b DEF FinishJournal, Leave
  <1>8. CASE NothingIndexable \/ UpToDate \/ Stamp
    <2>1. disk'.sig \in {sig, NoSig} /\ pc \notin Left \cup {"resolve"}
      BY <1>8 DEF NothingIndexable, UpToDate, Stamp, TypeOK, Manifests
    <2>2. disk'.sig \in {diff.at, NoSig} /\ diff.at <= refs.at
      BY <2>1 DEF RefsInv, TypeOK
    <2>3. UNCHANGED <<refs, moves>> /\ pc' \in {"cleanup", "finish"}
      BY <1>8 DEF NothingIndexable, UpToDate, Stamp, Leave
    <2> QED
      BY <2>2, <2>3, <1>a DEF RefsInv
  <1>9. CASE ReadBlobs \/ Reembed \/ Act \/ JournalDeletes \/ DeletePoints \/ DeleteFails
    BY <1>9, <1>b DEF ReadBlobs, Reembed, Act, JournalDeletes, DeletePoints, DeleteFails, AfterDelete
  <1>10. CASE IndexFile \/ IndexFileFails
    BY <1>10, <1>b DEF IndexFile, IndexFileFails
  <1>11. CASE NothingToClean \/ CleanPoints \/ CleanPointsFails \/ Unlink \/ RemoveJournal
    BY <1>11, <1>b DEF NothingToClean, CleanPoints, CleanPointsFails, Unlink, RemoveJournal, NoManifest
  <1> QED
    BY <1>1, <1>2, <1>3, <1>4, <1>5, <1>6, <1>7, <1>8, <1>9, <1>10, <1>11, <1>12 DEF Next, World, RunStep

LEMMA NextStates ==
  Orderly /\ StoreInv /\ RefsInv /\ StatesInv /\ [Next]_vars => StatesInv'
  <1> SUFFICES ASSUME Orderly, TypeOK, WorkInv, RefsInv, StatesInv, [Next]_vars PROVE StatesInv'
    BY DEF StoreInv
  <1> USE Stages DEF world, store, run, NoFault, Goto
  <1>1. CASE pc' \notin {"act"} \cup Acting
    BY <1>1 DEF StatesInv
  <1>2. CASE UNCHANGED <<refs, kind, mem, diff, states, todo, failed, pc>>
    BY <1>2 DEF StatesInv, Differs, Deletes, Listed
  <1>3. CASE MoveRefs
    <2>1. ASSUME pc \in {"act"} \cup Acting PROVE diff.at # refs'.at
      BY <1>3, <2>1, OverlayConstants
      DEF MoveRefs, RefsInv, TypeOK, RefPairs, Ats, PCs
    <2>2. UNCHANGED <<kind, mem, diff, states, todo, failed, pc>>
      BY <1>3 DEF MoveRefs
    <2> QED
      BY <2>1, <2>2 DEF StatesInv, Differs, Deletes, Listed
  <1>4. CASE MoveBack
    BY <1>4 DEF MoveBack, Orderly, TypeOK
  <1>5. CASE ReadBlobs
    <2>1. /\ pc = "plan" /\ pc' = "act" /\ UNCHANGED <<refs, kind, diff>>
          /\ states' = [f \in Files |-> IF f \in Keys THEN Blob(f) ELSE None]
      BY <1>5 DEF ReadBlobs, Fault, Orderly, TypeOK
    <2>2. Differs(diff.tree)
      BY <1>5, OverlayConstants DEF ReadBlobs, Differs, Keys, Tombs, TypeOK
    <2>3. ASSUME diff.at = refs.at, NEW f \in Files
          PROVE  states'[f] = IF diff.tree[f] \in Contents THEN diff.tree[f] ELSE None
      <3>1. diff = refs
        BY <2>1, <2>3 DEF RefsInv, PCs
      <3> QED
        BY <2>1, <3>1, OverlayConstants DEF Keys, Blob
    <2> QED
      BY <2>1, <2>2, <2>3 DEF StatesInv, Differs
  <1>6. CASE Act
    <2>1. /\ UNCHANGED <<refs, kind, diff, mem, states>> /\ pc = "act" /\ todo' = Upserts
          /\ (Deletes # {} => pc' = "delete") /\ Deletes' = Deletes
      BY <1>6 DEF Act, Deletes, Listed
    <2>2. \A f \in Files : mem.files[f] = states[f] \/ f \in Upserts \/ f \in Deletes
      BY DEF Upserts, Deletes, Listed
    <2> QED
      BY <2>1, <2>2 DEF StatesInv, Differs
  <1>7. CASE Reembed
    <2>1. /\ UNCHANGED <<refs, kind, diff, states>> /\ pc = "act" /\ todo' = Listed(mem)
          /\ \A f \in Files : mem'.files[f] = None
      BY <1>7 DEF Reembed, TypeOK, Manifests, Nothing
    <2>2. \A f \in Files : states[f] = None \/ f \in Listed(mem)
      BY <1>7 DEF Reembed, NoWork, Upserts, Listed
    <2> QED
      BY <2>1, <2>2 DEF StatesInv, Differs
  <1>8. CASE JournalDeletes
    BY <1>8 DEF JournalDeletes, StatesInv, Differs, Deletes, Listed
  <1>9. CASE DeletePoints
    <2>1. UNCHANGED <<refs, kind, diff, states, todo, failed>> /\ pc \in {"deleting", "again"}
      BY <1>9 DEF DeletePoints
    <2>2. ASSUME NEW f \in Files
          PROVE  mem'.files[f] = IF f \in Deletes THEN None ELSE mem.files[f]
      BY <1>9 DEF DeletePoints, With, TypeOK, Manifests
    <2>3. \A f \in Deletes : states[f] = None
      BY DEF Deletes
    <2> QED
      BY <2>1, <2>2, <2>3 DEF StatesInv, Differs
  <1>10. CASE DeleteFails \/ IndexFileFails
    BY <1>10 DEF DeleteFails, IndexFileFails, StatesInv, Differs
  <1>11. CASE IndexFile
    <2>1. PICK g \in todo : /\ mem' = [mem EXCEPT !.files[g] = states[g]]
                            /\ todo' = todo \ {g}
      BY <1>11 DEF IndexFile
    <2>2. ASSUME NEW f \in Files
          PROVE  mem'.files[f] = IF f = g THEN states[f] ELSE mem.files[f]
      BY <2>1 DEF TypeOK, Manifests
    <2>3. UNCHANGED <<refs, kind, diff, states, failed>> /\ pc = "index" /\ pc' = "index"
      BY <1>11 DEF IndexFile
    <2> QED
      BY <2>1, <2>2, <2>3 DEF StatesInv, Differs
  <1>12. CASE IndexSave \/ IndexFinish
    BY <1>12 DEF IndexSave, IndexFinish, StatesInv, Differs
  <1> QED
    BY <1>1, <1>2, <1>3, <1>4, <1>5, <1>6, <1>7, <1>8, <1>9, <1>10, <1>11, <1>12
    DEF Next, World, RunStep, Configure, ClearCollection, Crash, Leave, vars, Start, Diff,
        DiffFails, Resolve, SkipUnchanged, SkipEmpty, LoadManifest, RecoverDelete, RecoverFails,
        RecoverSave, RecoverUnlink, NothingIndexable, UpToDate, Stamp, FinishJournal,
        NothingToClean, CleanPoints, CleanPointsFails, Unlink, RemoveJournal

LEMMA NextStamp ==
  Orderly /\ IInv /\ RefsInv' /\ [Next]_vars => StampInv'
  <1> SUFFICES ASSUME Orderly, IInv, [Next]_vars, disk'.sig = refs'.at PROVE StampInv'
    BY DEF StampInv
  <1> USE Stages DEF world, store, run, NoFault, Goto
  <1>a. /\ TypeOK /\ MemInv /\ WorkInv /\ StrayIsAnnounced /\ RefsInv /\ StatesInv /\ StampInv
        /\ Ats \subseteq Nat /\ NoSig \notin Ats /\ moves \in Nat /\ refs.at \in Ats
        /\ disk.sig \in Ats \cup {NoSig} /\ diff.at \in Nat /\ refs.at \in Nat
        /\ (disk.sig \in Ats => disk.sig \in Nat)
    BY OverlayConstants DEF IInv, StoreInv, TypeOK, RefPairs, Manifests, Ats
  <1> DEFINE Working == {"act", "delete", "deleting", "again", "index", "saved", "stamp"}
  \* A run at work under the signature of the refs has their difference.
  <1>b. ASSUME pc \in Working, disk.sig = refs.at \/ sig = refs.at
        PROVE  /\ diff = refs
               /\ Differs(refs.tree)
               /\ \A f \in Files :
                    states[f] = IF refs.tree[f] \in Contents THEN refs.tree[f] ELSE None
    <2>1. /\ diff.at <= refs.at /\ (diff.at = refs.at => diff = refs)
          /\ disk.sig \in Ats => disk.sig <= diff.at
          /\ sig \in {NoSig, diff.at}
      BY <1>a, <1>b DEF RefsInv, PCs
    <2>2. diff = refs
      BY <1>a, <1>b, <2>1
    <2> QED
      BY <1>a, <1>b, <2>2 DEF StatesInv
  <1>c. ASSUME pc \in Working, disk.sig = refs.at, NEW f \in Files \ lost
        PROVE  disk.files[f] = states[f]
    BY <1>a, <1>b, <1>c DEF StampInv, Right
  \* Nothing that matters here changes, or only in that more is excepted.
  <1>d. ASSUME UNCHANGED <<refs, kind, disk>>, lost \subseteq lost',
               journal' \in {journal, Nothing},
               \/ pc' \notin Changing
               \/ UNCHANGED <<pc, mem, journal>>
        PROVE  StampInv'
    BY <1>a, <1>d, OverlayConstants DEF StampInv, Right, Differs, Stale, Nothing
  <1>1. CASE MoveRefs \/ MoveBack
    <2>1. MoveRefs /\ refs'.at = moves + 1 /\ disk' = disk
      BY <1>1, <1>a DEF MoveRefs, MoveBack, Orderly, TypeOK
    <2>2. disk.sig \in Ats /\ disk.sig <= moves
      BY <2>1, <1>a, OverlayConstants DEF RefsInv
    <2> QED
      BY <2>1, <2>2, <1>a
  <1>2. CASE Configure \/ ClearCollection \/ Crash \/ Start \/ Diff \/ DiffFails \/ Resolve
    BY <1>2, <1>d DEF Configure, ClearCollection, Crash, Start, Diff, DiffFails, Resolve, Leave
  <1>3. CASE \/ SkipUnchanged \/ SkipEmpty \/ LoadManifest
             \/ RecoverDelete \/ RecoverFails \/ RecoverUnlink \/ ReadBlobs
    BY <1>3, <1>d DEF SkipUnchanged, SkipEmpty, LoadManifest, MustRun, RecoverDelete, RecoverFails,
                      RecoverUnlink, ReadBlobs, Leave
  <1>4. CASE RecoverSave
    <2>1. /\ disk'.sig = disk.sig /\ disk'.tomb = disk.tomb /\ journal' = journal
          /\ \A f \in Files : f \notin Stale(journal, disk) => disk'.files[f] = disk.files[f]
          /\ UNCHANGED <<refs, kind, lost>> /\ pc' = "recunlink"
      BY <1>4, <1>a DEF RecoverSave, MemInv, TypeOK, Manifests
    <2> QED
      BY <2>1, <1>a, OverlayConstants DEF StampInv, Right, Differs, Stale, Nothing
  <1>5. CASE NothingIndexable
    <2>1. /\ disk'.sig = sig /\ disk'.files = mem.files /\ UNCHANGED <<refs, kind, lost, journal>>
          /\ pc = "plan" /\ pc' = "cleanup" /\ journal = Nothing
      BY <1>5, <1>a DEF NothingIndexable, MemInv, TypeOK, Manifests, Leave
    <2>2. diff = refs
      BY <2>1, <1>a DEF RefsInv, PCs
    <2>3. \A f \in Files : refs.tree[f] = Same
      BY <1>5, <2>2, <1>a DEF NothingIndexable, Keys, Tombs, TypeOK, RefPairs, Trees
    <2>4. Differs(refs.tree) => \A f \in Files : mem.files[f] = None
      BY <1>5, <2>3 DEF NothingIndexable, Differs, Listed
    <2> QED
      BY <2>1, <2>3, <2>4, OverlayConstants DEF StampInv, Right, Differs, Stale, Nothing
  <1>6. CASE UpToDate
    <2>1. /\ disk'.sig = sig /\ disk'.files = mem.files /\ UNCHANGED <<refs, kind, lost, journal>>
          /\ pc = "act" /\ pc' = "cleanup" /\ journal = Nothing
      BY <1>6, <1>a DEF UpToDate, MemInv, TypeOK, Manifests, Leave
    <2>2. /\ diff = refs
          /\ \A f \in Files :
               states[f] = IF refs.tree[f] \in Contents THEN refs.tree[f] ELSE None
      BY <2>1, <1>b
    <2>3. \A f \in Files : mem.files[f] = states[f] /\ refs.tree[f] # Gone
      BY <1>6, <2>2 DEF UpToDate, NoWork, Deletes, Upserts, Tombs, Listed
    <2> QED
      BY <2>1, <2>2, <2>3, OverlayConstants DEF StampInv, Right, Stale, Nothing
  <1>7. CASE Reembed
    <2>1. /\ UNCHANGED <<refs, kind, disk, lost, journal>> /\ pc = "act" /\ journal = Nothing
          /\ \A f \in Files : mem'.files[f] = None /\ points[f] = None
      BY <1>7, <1>a DEF Reembed, MemInv, TypeOK, Manifests, Nothing, Stored
    <2>2. \A f \in Files \ lost : disk.files[f] = None
      BY <2>1, <1>a DEF StampInv, StrayIsAnnounced
    <2> QED
      BY <2>1, <2>2, <1>a DEF StampInv, Right, Differs, Stale, Nothing
  <1>8. CASE Act
    <2>1. /\ UNCHANGED <<refs, kind, disk, lost, journal, mem>> /\ journal = Nothing
          /\ mem.files = disk.files
      BY <1>8, <1>a DEF Act, MemInv
    <2> QED
      BY <2>1, <1>a DEF StampInv, Right, Differs, Stale, Nothing
  <1>9. CASE JournalDeletes
    <2>1. /\ UNCHANGED <<refs, kind, disk, lost, mem>> /\ journal = Nothing /\ pc = "delete"
          /\ mem.files = disk.files /\ journal' = With(journal, Deletes, Gone)
      BY <1>9, <1>a DEF JournalDeletes, MemInv
    <2>2. \A f \in Files \ lost : f \notin Deletes
      BY <2>1, <1>c DEF Deletes, Listed
    <2>3. \A f \in Files \ lost : journal'[f] = None
      BY <2>1, <2>2 DEF With, Nothing
    <2> QED
      BY <2>1, <2>3, <1>a, OverlayConstants DEF StampInv, Right, Differs, Stale
  <1>10. CASE DeletePoints
    <2>1. /\ UNCHANGED <<refs, kind, disk, lost, journal>> /\ pc \in {"deleting", "again"}
          /\ \A f \in Files : f \notin Deletes => mem'.files[f] = mem.files[f]
      BY <1>10, <1>a DEF DeletePoints, With, TypeOK, Manifests
    <2>2. \A f \in Files \ lost : f \notin Deletes
      BY <2>1, <1>a, OverlayConstants DEF StampInv, WorkInv
    <2> QED
      BY <2>1, <2>2, <1>a DEF StampInv, Right, Differs, Stale
  <1>11. CASE DeleteFails
    BY <1>11, <1>a DEF DeleteFails, StampInv, Right, Differs, Stale
  <1>12. CASE IndexFile \/ IndexFileFails
    <2>1. PICK g \in todo : /\ journal' = With(journal, {g}, states[g])
                            /\ mem' = mem \/ mem' = [mem EXCEPT !.files[g] = states[g]]
      BY <1>12 DEF IndexFile, IndexFileFails
    <2>2. UNCHANGED <<refs, kind, disk, lost>> /\ pc = "index"
      BY <1>12 DEF IndexFile, IndexFileFails
    <2>3. g \in lost
      BY <2>2, <1>a, <1>c DEF WorkInv, TypeOK
    <2>4. \A f \in Files \ lost : journal'[f] = journal[f] /\ mem'.files[f] = mem.files[f]
      BY <2>1, <2>3, <1>a DEF With, TypeOK, Manifests
    <2> QED
      BY <2>2, <2>4, <1>a DEF StampInv, Right, Differs, Stale
  <1>13. CASE IndexSave
    <2>1. /\ disk'.files = mem.files /\ disk'.sig = disk.sig /\ disk'.tomb = disk.tomb
          /\ UNCHANGED <<refs, kind, mem, journal>> /\ pc = "index" /\ pc' = "saved"
          /\ lost' = lost \ Resolved(journal, mem)
      BY <1>13, <1>a DEF IndexSave, MemInv, TypeOK, Manifests
    <2>2. ASSUME NEW f \in Files \ lost' PROVE Right(f)' /\ f \notin Stale(journal, mem)
      <3>1. CASE f \in Resolved(journal, mem)
        <4>1. mem.files[f] = states[f]
          BY <2>1, <3>1, <1>a, OverlayConstants DEF Resolved, Stale, WorkInv, TypeOK
        <4> QED
          BY <2>1, <3>1, <4>1, <1>b DEF Right, Differs, Resolved
      <3>2. CASE f \notin lost
        BY <2>1, <3>2, <1>a DEF StampInv, Right, Differs, Stale
      <3> QED
        BY <2>1, <2>2, <3>1, <3>2
    <2> QED
      BY <2>1, <2>2, <1>a DEF StampInv, Stale
  <1>14. CASE Stamp
    <2>1. /\ disk'.files = mem.files /\ disk'.sig = (IF failed THEN NoSig ELSE sig)
          /\ disk'.tomb = Tombs /\ journal' = journal
          /\ UNCHANGED <<refs, kind>> /\ pc = "stamp" /\ pc' = "finish"
      BY <1>14, <1>a DEF Stamp, TypeOK, Manifests
    <2>2. ~failed /\ sig = refs.at
      BY <2>1, <1>a
    <2>3. \A f \in Files : mem.files[f] = states[f]
      BY <2>1, <2>2, <1>a DEF StatesInv, WorkInv
    <2>4. \A f \in Files : f \notin Stale(journal, mem)
      BY <2>1, <2>3, <1>a, OverlayConstants DEF WorkInv, Stale, TypeOK
    <2> QED
      BY <2>1, <2>2, <2>3, <2>4, <1>b DEF StampInv, Right, Differs, Tombs, Stale
  <1>18. CASE IndexFinish \/ FinishJournal
    <2>1. /\ UNCHANGED <<refs, kind, disk, lost>> /\ journal' = Finished(journal, mem)
          /\ pc \in {"saved", "finish"} /\ mem.files = disk.files
          /\ pc' \in Changing => mem' = mem
      BY <1>18, <1>a DEF IndexFinish, FinishJournal, MemInv, Leave
    <2>2. \A f \in Files \ lost : f \notin Stale(journal, disk)
      BY <2>1, <1>a DEF StampInv
    <2>3. \A f \in Files \ lost : journal'[f] = None
      BY <2>1, <2>2 DEF Finished, Resolved, Stale
    <2> QED
      BY <2>1, <2>3, <1>a, OverlayConstants DEF StampInv, Right, Differs, Stale
  <1>15. CASE NothingToClean \/ CleanPoints \/ CleanPointsFails
    BY <1>15, <1>d DEF NothingToClean, CleanPoints, CleanPointsFails
  <1>16. CASE Unlink \/ RemoveJournal
    BY <1>16, <1>a DEF Unlink, RemoveJournal, MemInv, NoManifest
  <1>17. CASE UNCHANGED vars
    BY <1>17, <1>d DEF vars
  <1> QED
    BY <1>1, <1>2, <1>3, <1>4, <1>5, <1>6, <1>7, <1>8, <1>9, <1>10, <1>11, <1>12, <1>13, <1>14,
       <1>15, <1>16, <1>17, <1>18 DEF Next, World, RunStep

\* A path under a tombstone is in no answer, whatever was retrieved of it.
LEMMA TombstoneHides ==
  ASSUME NEW f \in Files, f \in disk.tomb
  PROVE  Served(f) = {}
  <1> DEFINE main == [path |-> f, branch |-> "main", content |-> Same]
             own  == [path |-> f, branch |-> "overlay", content |-> points[f]]
             hits == {main} \cup (IF points[f] = None THEN {} ELSE {own})
  <1>1. \A c \in hits : c.path = f
    OBVIOUS
  <1>2. \A c \in hits : Search!Partition(hits, c.path, disk.tomb) = {}
    BY <1>1 DEF Search!Partition
  <1>3. Search!PreferOverlay({}) = {}
    BY DEF Search!PreferOverlay
  <1>4. Search!Preferred(hits, disk.tomb) = {}
    BY <1>2, <1>3 DEF Search!Preferred
  <1>5. Search!Pathless(hits) = {}
    BY <1>1, OverlayConstants DEF Search!Pathless
  <1>6. Search!Kept(hits, disk.tomb) = {}
    BY <1>4, <1>5 DEF Search!Kept
  <1> QED
    BY <1>6 DEF Served

LEMMA OverlayInvariant == Orderly /\ Spec => []IInv
  <1> SUFFICES ASSUME Orderly PROVE Spec => []IInv
    OBVIOUS
  <1>1. Init => IInv
    <2>1. Init => RefsInv /\ StatesInv /\ StampInv
      BY Stages, EmptyManifest, OverlayConstants
      DEF Init, RefsInv, StatesInv, StampInv, NoManifest, Ats
    <2> QED
      BY <2>1, InitStore DEF IInv
  <1>2. IInv /\ [Next]_vars => IInv'
    <2> SUFFICES ASSUME IInv, [Next]_vars PROVE IInv'
      OBVIOUS
    <2>1. StoreInv'
      BY NextStore DEF IInv
    <2>2. RefsInv' /\ StatesInv'
      BY NextRefs, NextStates DEF IInv, StoreInv
    <2> QED
      BY <2>1, <2>2, NextStamp DEF IInv
  <1> QED
    BY <1>1, <1>2, PTL DEF Spec

\* What the stored signature vouches for is there: the points of every file the
\* overlay changes are those of its refs, and a file it deletes is not found.
THEOREM SignatureVouches == Orderly /\ Spec => []VouchedIsStored
  <1>1. IInv => VouchedIsStored
    <2> SUFFICES ASSUME IInv, Vouched, NEW f \in Files
                 PROVE  /\ refs.tree[f] \in Contents /\ f \notin lost =>
                             points[f] = refs.tree[f] /\ disk.files[f] = points[f]
                        /\ refs.tree[f] = Gone => Served(f) = {}
      BY DEF VouchedIsStored
    <2>1. StampInv /\ StrayIsAnnounced /\ disk.sig = refs.at
      BY DEF IInv, StoreInv, Vouched
    <2>2. refs.tree[f] = Gone => Served(f) = {}
      BY <2>1, TombstoneHides DEF StampInv
    <2> QED
      BY <2>1, <2>2 DEF StampInv, StrayIsAnnounced, Right
  <1> QED
    BY <1>1, OverlayInvariant, PTL

\* And nothing else is there: a file the overlay no longer changes has neither
\* an entry nor a point.
THEOREM SignatureIsLean == Orderly /\ Spec => []VouchedIsLean
  <1>1. IInv => VouchedIsLean
    BY DEF IInv, StoreInv, VouchedIsLean, Vouched, StampInv, StrayIsAnnounced, Right
  <1> QED
    BY <1>1, OverlayInvariant, PTL
=============================================================================
