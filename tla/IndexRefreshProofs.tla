------------------------- MODULE IndexRefreshProofs -------------------------
(***************************************************************************)
(* Machine-checked proofs about IndexRefresh, for any set of files, any    *)
(* hashes and chunk counts and any pool, queue and chunk sizes: its types, *)
(* NoOrphans, and for one dialect and reads that work that the journal     *)
(* covers every change of the points, at every instant and whatever is     *)
(* killed.  IInv of IndexRefresh is inductive, and Covered and WriteAhead  *)
(* follow from it.  With how far a run is with its lists (Progress) CleanRun *)
(* does, and with the order of its manifests (PlanInv) SourceMirror.       *)
(***************************************************************************)
EXTENDS IndexRefresh, TLAPS

LEMMA InitType == Init => TypeOK
  <1> SUFFICES ASSUME Init PROVE TypeOK
    OBVIOUS
  <1>1. points \in [Files -> [Indices -> Versions \cup {NoPoint}]]
    BY DEF Init, NoPoints
  <1>2. /\ saved \in Manifests /\ mem \in Manifests /\ info \in Manifests
        /\ journal \in Journals
    BY DEF Init, Manifests, EmptyManifest, Journals, EmptyJournal
  <1> QED
    BY <1>1, <1>2 DEF Init, TypeOK, Stages

LEMMA GoneType ==
  ProcessGone => /\ pc' = "off"
                 /\ mem' \in Manifests
                 /\ scan' \in [Files -> Entries \cup {NoFile}]
                 /\ stage' \in [Files -> Stages]
                 /\ loaded' \in [Files -> Versions \cup {NoFile}]
                 /\ info' \in Manifests
                 /\ unsent' \subseteq Files \X Indices
                 /\ worker' \in {"idle", "busy", "finished"}
                 /\ snap' \in Manifests \cup {NoSnapshot}
                 /\ errors' \in BOOLEAN
  BY ZenonT(60) DEF ProcessGone, Manifests, EmptyManifest, Stages

LEMMA NextType == TypeOK /\ StagedInv /\ [Next]_vars => TypeOK'
  <1> SUFFICES ASSUME TypeOK, StagedInv, [Next]_vars PROVE TypeOK'
    OBVIOUS
  <1>1. CASE Start
    BY <1>1, RefreshConstants, ZenonT(60) DEF Start, TypeOK, LoadedEntry, Manifests, Entries
  <1>2. CASE RecoverNothing
    BY <1>2 DEF RecoverNothing, TypeOK, EmptyJournal, Journals
  <1>3. CASE RecoverDelete
    BY <1>3 DEF RecoverDelete, TypeOK, Cleared, NoPoints, Manifests
  <1>4. CASE RecoverFails
    BY <1>4, GoneType DEF RecoverFails, TypeOK, Cleared, NoPoints
  <1>5. CASE RecoverSave
    BY <1>5 DEF RecoverSave, TypeOK
  <1>6. CASE RecoverUnlink
    BY <1>6 DEF RecoverUnlink, TypeOK, EmptyJournal, Journals
  <1>7. CASE Scan
    BY <1>7 DEF Scan, TypeOK, Entries, EntryHashes, State, Action, Stages
  <1>8. CASE Connect \/ Unreachable
    BY <1>8 DEF Connect, Unreachable, TypeOK
  <1>9. CASE JournalDeletes
    BY <1>9 DEF JournalDeletes, TypeOK, Recorded, Journals, Moved, Stages
  <1>10. CASE DeleteChunk
    BY <1>10 DEF DeleteChunk, TypeOK, Cleared, NoPoints, Moved, Stages, Manifests
  <1>11. CASE DeleteChunkFails
    BY <1>11 DEF DeleteChunkFails, TypeOK, Cleared, NoPoints, Moved, Stages
  <1>12. CASE DeletesDone
    BY <1>12 DEF DeletesDone, TypeOK
  <1>13. ASSUME NEW f \in Files, ReadFile(f) PROVE TypeOK'
    <2>1. [hash |-> disk[f], dialect |-> scan[f].dialect] \in Versions
          \/ disk[f] = NoFile
      BY <1>13 DEF ReadFile, StagedInv, TypeOK, Versions, Entries
    <2> QED
      BY <1>13, <2>1 DEF ReadFile, TypeOK, Moved, Stages
  <1>14. ASSUME NEW f \in Files, VerifyFile(f) PROVE TypeOK'
    <2>1. scan[f] \in Entries /\ [scan[f] EXCEPT !.hash = EmptyHash] \in Entries
      BY <1>14 DEF VerifyFile, StagedInv, Entries, EntryHashes
    <2> QED
      BY <1>14, <2>1, ZenonT(60) DEF VerifyFile, TypeOK, Moved, Stages, Manifests
  <1>15. ASSUME NEW f \in Files, Take(f) PROVE TypeOK'
    BY <1>15 DEF Take, TypeOK, Moved, Stages, Recorded, Journals
  <1>16. ASSUME NEW f \in Files, DeleteOld(f) PROVE TypeOK'
    BY <1>16 DEF DeleteOld, TypeOK, Cleared, NoPoints
  <1>17. ASSUME NEW f \in Files, DeleteOldFails(f) PROVE TypeOK'
    BY <1>17 DEF DeleteOldFails, TypeOK, Cleared, NoPoints, Moved, Stages
  <1>18. ASSUME NEW f \in Files, PlaceEmpty(f) PROVE TypeOK'
    <2>1. info[f].hash \in EntryHashes
      BY <1>18 DEF PlaceEmpty, StagedInv, Entries
    <2> QED
      BY <1>18, <2>1
      DEF PlaceEmpty, TypeOK, Moved, Stages, Recorded, Journals, Manifests
  <1>19. ASSUME NEW f \in Files, PlaceInPool(f) PROVE TypeOK'
    BY <1>19 DEF PlaceInPool, TypeOK, Moved, Stages
  <1>20. CASE LoopDone
    BY <1>20 DEF LoopDone, TypeOK
  <1>21. CASE Drain
    BY <1>21 DEF Drain, TypeOK
  <1>22. CASE Flush
    <2>1. \A f \in In("pool") : info[f].hash \in EntryHashes
      BY DEF In, StagedInv, Entries
    <2>2. unsent' \subseteq Files \X Indices
      BY <1>22 DEF Flush, In
    <2> QED
      BY <1>22, <2>1, <2>2
      DEF Flush, TypeOK, Moved, Stages, Recorded, Journals
  <1> DEFINE Store == [Files -> [Indices -> Versions \cup {NoPoint}]]
  <1>a. ASSUME NEW S \in SUBSET unsent PROVE WithPoints(S) \in Store
    <2>1. ASSUME NEW f \in Files, NEW i \in Indices, <<f, i>> \in S
          PROVE  loaded[f] \in Versions
      <3>1. Stored(loaded[f], i)
        BY <2>1 DEF StagedInv
      <3>2. loaded[f] # NoFile
        BY <3>1 DEF Stored, NumChunks, Indices
      <3> QED
        BY <3>2 DEF TypeOK
    <2> QED
      BY <2>1 DEF WithPoints, TypeOK
  <1>23. ASSUME NEW f \in Files, NEW i \in Indices, Upsert(f, i) PROVE TypeOK'
    <2>1. points' \in Store
      BY <1>23, <1>a DEF Upsert
    <2> QED
      BY <1>23, <2>1 DEF Upsert, TypeOK
  <1>24. CASE UpsertFails
    <2>1. points' \in Store
      BY <1>24, <1>a DEF UpsertFails
    <2> QED
      BY <1>24, <2>1 DEF UpsertFails, TypeOK, Moved, Stages
  <1>25. ASSUME NEW f \in Files, RecordFile(f) PROVE TypeOK'
    BY <1>25 DEF RecordFile, TypeOK, Moved, Stages, Manifests
  <1>26. CASE WriteSnapshot \/ WriteFails
    BY <1>26 DEF WriteSnapshot, WriteFails, TypeOK
  <1>27. CASE SaveFinal
    BY <1>27 DEF SaveFinal, TypeOK
  <1>28. CASE FinishJournal
    BY <1>28 DEF FinishJournal, TypeOK, Finished, Journals
  <1>29. CASE Finalize \/ Exit \/ Crash
    BY <1>29, GoneType DEF Finalize, Exit, Crash, TypeOK, durable
  <1>30. CASE SetupFails \/ Abort \/ AbortSave
    BY <1>30 DEF SetupFails, Abort, AbortSave, TypeOK
  <1>31. CASE TornRecord
    <2>1. \A f \in In("pool") : info[f].hash \in EntryHashes
      BY DEF In, StagedInv, Entries
    <2>2. journal' \in Journals
      BY <1>31, <2>1 DEF TornRecord, TypeOK, Recorded, Journals
    <2> QED
      BY <1>31, <2>2, GoneType DEF TornRecord, TypeOK
  <1>32. ASSUME NEW f \in Files, NEW h \in Hashes \cup {NoFile}, EditFile(f, h)
         PROVE  TypeOK'
    BY <1>32 DEF EditFile, TypeOK
  <1>33. ASSUME NEW d \in Dialects, ChangeDialect(d) PROVE TypeOK'
    BY <1>33 DEF ChangeDialect, TypeOK
  <1>34. CASE UNCHANGED vars
    BY <1>34 DEF vars, TypeOK
  <1> QED
    BY <1>1, <1>2, <1>3, <1>4, <1>5, <1>6, <1>7, <1>8, <1>9, <1>10, <1>11,
       <1>12, <1>13, <1>14, <1>15, <1>16, <1>17, <1>18, <1>19, <1>20, <1>21,
       <1>22, <1>23, <1>24, <1>25, <1>26, <1>27, <1>28, <1>29, <1>30, <1>31,
       <1>32, <1>33, <1>34
    DEF Next, Step, Fault, Recovery, Deletes, Parser, MainLoop, Worker, Ending

\* Between runs, and until a run has scanned, no thread holds anything.
LEMMA NextQuiet == QuietInv /\ [Next]_vars => QuietInv'
  <1> SUFFICES ASSUME QuietInv, [Next]_vars PROVE QuietInv'
    OBVIOUS
  <1>1. CASE Crash \/ TornRecord \/ RecoverFails \/ Finalize \/ Exit
    BY <1>1 DEF Crash, TornRecord, RecoverFails, Finalize, Exit, ProcessGone, QuietInv
  <1>2. CASE Start \/ Recovery \/ UNCHANGED vars
    BY <1>2 DEF Start, Recovery, RecoverNothing, RecoverDelete, RecoverSave,
                RecoverUnlink, vars, QuietInv, Recovering
  <1>3. ASSUME NEW f \in Files, NEW h \in Hashes \cup {NoFile}, EditFile(f, h)
        PROVE  QuietInv'
    BY <1>3 DEF EditFile, QuietInv, Recovering
  <1>4. ASSUME NEW d \in Dialects, ChangeDialect(d) PROVE QuietInv'
    BY <1>4 DEF ChangeDialect, QuietInv, Recovering
  <1>5. CASE Scan \/ Connect \/ Unreachable
    BY <1>5 DEF Scan, Connect, Unreachable, QuietInv, Recovering
  <1>6. CASE Deletes \/ DeleteChunkFails
    BY <1>6 DEF Deletes, JournalDeletes, DeleteChunk, DeletesDone,
                DeleteChunkFails, QuietInv, Recovering
  <1>7. CASE Parser
    BY <1>7 DEF Parser, ReadFile, VerifyFile, Parsing, QuietInv, Recovering
  <1>8. CASE MainLoop \/ \E f \in Files : DeleteOldFails(f)
    BY <1>8 DEF MainLoop, Take, DeleteOld, DeleteOldFails, PlaceEmpty, PlaceInPool,
                LoopDone, Drain, Flush, QuietInv, Recovering
  <1>9. CASE Worker \/ UpsertFails
    BY <1>9 DEF Worker, Upsert, RecordFile, UpsertFails, QuietInv, Recovering
  <1>10. CASE WriteSnapshot \/ WriteFails
    BY <1>10 DEF WriteSnapshot, WriteFails, QuietInv, Recovering
  <1>11. CASE SaveFinal \/ FinishJournal \/ SetupFails \/ Abort \/ AbortSave
    BY <1>11 DEF SaveFinal, FinishJournal, SetupFails, Abort, AbortSave, QuietInv, Recovering
  <1> QED
    BY <1>1, <1>2, <1>3, <1>4, <1>5, <1>6, <1>7, <1>8, <1>9, <1>10, <1>11
    DEF Next, Step, Fault, Ending

LEMMA InitStaged == Init => StagedInv
  BY DEF Init, StagedInv

LEMMA GoneStaged == ProcessGone => StagedInv'
  BY DEF ProcessGone, StagedInv

LEMMA NextStaged ==
  TypeOK /\ QuietInv /\ StagedInv /\ [Next]_vars => StagedInv'
  <1> SUFFICES ASSUME TypeOK, QuietInv, StagedInv, [Next]_vars PROVE StagedInv'
    OBVIOUS
  <1>1. CASE Start \/ Recovery \/ Connect \/ Unreachable \/ LoopDone \/ Drain
    BY <1>1 DEF Start, Recovery, RecoverNothing, RecoverDelete, RecoverSave,
                RecoverUnlink, Connect, Unreachable, LoopDone, Drain, StagedInv
  <1>2. CASE Crash \/ TornRecord \/ RecoverFails \/ Finalize \/ Exit
    BY <1>2, GoneStaged DEF Crash, TornRecord, RecoverFails, Finalize, Exit
  <1>3. CASE Scan
    <2>1. \A f \in Files : stage'[f] \in {"idle", "delete", "parse"}
      BY <1>3 DEF Scan, Action
    <2>2. \A f \in Files : stage'[f] = "parse" => scan'[f] \in Entries
      BY <1>3 DEF Scan, Action, TypeOK, State, Entries, EntryHashes
    <2>3. unsent' = {}
      BY <1>3 DEF Scan, QuietInv
    <2> QED
      BY <2>1, <2>2, <2>3 DEF StagedInv
  <1>4. CASE Deletes \/ DeleteChunkFails
    BY <1>4 DEF Deletes, JournalDeletes, DeleteChunk, DeletesDone, DeleteChunks,
                DeleteChunkFails, In, Moved, StagedInv
  <1>5. ASSUME NEW f \in Files, ReadFile(f) PROVE StagedInv'
    BY <1>5 DEF ReadFile, Moved, StagedInv, TypeOK
  <1>6. ASSUME NEW f \in Files, VerifyFile(f) PROVE StagedInv'
    <2>1. info'[f] \in Entries
      BY <1>6 DEF VerifyFile, StagedInv, TypeOK, Manifests, Entries, EntryHashes
    <2> QED
      BY <1>6, <2>1 DEF VerifyFile, Moved, StagedInv, TypeOK, Manifests
  <1>7. ASSUME NEW f \in Files, Take(f) PROVE StagedInv'
    BY <1>7 DEF Take, Moved, StagedInv
  <1>8. ASSUME NEW f \in Files, DeleteOld(f) \/ DeleteOldFails(f) PROVE StagedInv'
    BY <1>8 DEF DeleteOld, DeleteOldFails, Moved, StagedInv
  <1>9. ASSUME NEW f \in Files, PlaceEmpty(f) \/ PlaceInPool(f) PROVE StagedInv'
    BY <1>9 DEF PlaceEmpty, PlaceInPool, Moved, StagedInv
  <1>10. CASE Flush
    BY <1>10 DEF Flush, In, Moved, StagedInv
  <1>11. ASSUME NEW f \in Files, NEW i \in Indices, Upsert(f, i) PROVE StagedInv'
    BY <1>11 DEF Upsert, StagedInv
  <1>12. CASE UpsertFails
    BY <1>12 DEF UpsertFails, In, Moved, StagedInv
  <1>13. ASSUME NEW f \in Files, RecordFile(f) PROVE StagedInv'
    BY <1>13 DEF RecordFile, Moved, StagedInv
  <1>14. CASE WriteSnapshot \/ WriteFails \/ SaveFinal \/ FinishJournal
    BY <1>14 DEF WriteSnapshot, WriteFails, SaveFinal, FinishJournal, StagedInv
  <1>15. CASE SetupFails \/ Abort \/ AbortSave \/ UNCHANGED vars
    BY <1>15 DEF SetupFails, Abort, AbortSave, vars, StagedInv
  <1>16. ASSUME NEW f \in Files, NEW h \in Hashes \cup {NoFile}, EditFile(f, h)
         PROVE  StagedInv'
    BY <1>16 DEF EditFile, StagedInv
  <1>17. ASSUME NEW d \in Dialects, ChangeDialect(d) PROVE StagedInv'
    BY <1>17 DEF ChangeDialect, StagedInv
  <1> QED
    BY <1>1, <1>2, <1>3, <1>4, <1>5, <1>6, <1>7, <1>8, <1>9, <1>10, <1>11,
       <1>12, <1>13, <1>14, <1>15, <1>16, <1>17
    DEF Next, Step, Fault, Parser, MainLoop, Worker, Ending

\* Every variable stays in its type: a manifest entry always names a hash that
\* was read or the empty one, a point always belongs to a chunked version, and
\* the upsert in flight only holds points of files that were parsed.
THEOREM TypeCorrect == Spec => []TypeOK
  <1> DEFINE TypeInv == TypeOK /\ QuietInv /\ StagedInv
  <1>1. Init => TypeInv
    <2>1. Init => QuietInv
      BY DEF Init, QuietInv
    <2> QED
      BY <2>1, InitType, InitStaged
  <1>2. TypeInv /\ [Next]_vars => TypeInv'
    BY NextType, NextQuiet, NextStaged
  <1> QED
    BY <1>1, <1>2, PTL DEF Spec

-----------------------------------------------------------------------------
(* No orphan vectors, with any dialects and with reads that fail.           *)

\* A file a step inside a run leaves alone keeps the promise.
LEMMA SameBare ==
  ASSUME NEW f \in Files, BareInv(f), ~Recovering, ~Recovering',
         points'[f] = points[f], saved'[f] = saved[f], journal'[f] = journal[f],
         mem'[f] = mem[f], stage'[f] = stage[f], snap' = snap,
         stage[f] = "flight" => worker' = worker
  PROVE  BareInv(f)'
  <1>1. NoPoints' = NoPoints
    BY DEF NoPoints
  <1> QED
    BY <1>1 DEF BareInv, Bare, Recovering, NoPoints

\* Points that go away leave no orphan.
LEMMA ClearedBare ==
  ASSUME TypeOK, NEW f \in Files, NEW x, Bare(f, x), journal'[f] = journal[f],
         points'[f] \in {points[f], NoPoints}
  PROVE  Bare(f, x)'
  <1>1. NoPoints' = NoPoints
    BY DEF NoPoints
  <1> QED
    BY <1>1 DEF Bare

\* A process that ends leaves the manifest, or saves the one in memory.
LEMMA GoneBare ==
  ASSUME TypeOK, StagedInv, OrphanInv,
         Crash \/ TornRecord \/ RecoverFails \/ Finalize \/ Exit
  PROVE  OrphanInv'
  <1>0. NoPoints' = NoPoints
    BY DEF NoPoints
  <1>1. ASSUME NEW f \in Files PROVE Bare(f, saved[f])'
    <2>0. BareInv(f)
      BY DEF OrphanInv
    <2>1. CASE Crash \/ Exit
      BY <1>0, <2>0, <2>1 DEF Crash, Exit, durable, BareInv, Bare
    <2>2. CASE Finalize
      BY <1>0, <2>0, <2>2 DEF Finalize, BareInv, Bare
    <2>3. CASE RecoverFails
      <3>1. points'[f] \in {points[f], NoPoints} /\ journal' = journal /\ saved' = saved
        BY <2>3 DEF RecoverFails, Cleared
      <3> QED
        BY <2>0, <3>1, ClearedBare DEF BareInv
    <2>4. CASE TornRecord
      <3>1. points' = points /\ saved' = saved
        BY <2>4 DEF TornRecord
      <3>2. CASE journal'[f] = journal[f]
        BY <1>0, <2>0, <3>1, <3>2 DEF BareInv, Bare
      <3>3. CASE stage[f] = "delete" /\ journal'[f] = Deleted
        BY <1>0, <2>0, <2>4, <3>1, <3>3 DEF TornRecord, BareInv, Bare, Recovering
      <3>4. CASE stage[f] = "pool" /\ journal'[f] = info[f].hash
        <4>1. info[f].hash \in EntryHashes
          BY <3>4 DEF StagedInv, Entries
        <4> QED
          BY <3>4, <4>1, JournalConstants DEF Bare, EntryHashes
      <3> QED
        BY <2>4, <3>2, <3>3, <3>4 DEF TornRecord, DeleteChunks, In, Recorded
    <2> QED
      BY <2>1, <2>2, <2>3, <2>4
  <1>2. /\ pc' = "off" /\ snap' = NoSnapshot
        /\ \A f \in Files : stage'[f] = "idle"
    BY DEF Crash, TornRecord, RecoverFails, Finalize, Exit, ProcessGone
  <1> QED
    BY <1>1, <1>2 DEF OrphanInv, BareInv, Recovering

\* Recovery clears what an upsert left before it forgets that it was announced.
LEMMA StartBare ==
  ASSUME TypeOK, QuietInv, OrphanInv, Start \/ Recovery \/ Scan
  PROVE  OrphanInv'
  <1>0. NoPoints' = NoPoints
    BY DEF NoPoints
  <1>1. snap = NoSnapshot /\ \A f \in Files : stage[f] = "idle"
    BY DEF Start, Recovery, RecoverNothing, RecoverDelete, RecoverSave, RecoverUnlink,
           Scan, QuietInv, Recovering
  <1>2. snap' = snap
    BY DEF Start, Recovery, RecoverNothing, RecoverDelete, RecoverSave, RecoverUnlink, Scan
  <1>3. pc' # "finish"
    BY DEF Start, Recovery, RecoverNothing, RecoverDelete, RecoverSave, RecoverUnlink, Scan
  <1>4. ASSUME NEW f \in Files PROVE BareInv(f)'
    <2>0. BareInv(f)
      BY DEF OrphanInv
    <2>1. CASE Start
      <3>1. mem'[f] = NoEntry <=> saved[f] = NoEntry
        <4>1. CASE saved[f] = NoEntry
          BY <2>1, <4>1 DEF Start, LoadedEntry
        <4>2. CASE saved[f] # NoEntry
          <5>1. saved[f] \in Entries
            BY <4>2 DEF TypeOK, Manifests
          <5>2. LoadedEntry(saved[f]) \in Entries
            BY <4>2, <5>1, RefreshConstants DEF LoadedEntry, Entries
          <5> QED
            BY <2>1, <4>2, <5>2, JournalConstants DEF Start, Entries, EntryHashes
        <4> QED
          BY <4>1, <4>2
      <3> QED
        BY <1>0, <1>1, <1>2, <2>0, <2>1, <3>1 DEF Start, BareInv, Bare, Recovering
    <2>2. CASE RecoverNothing
      <3>1. mem[f] = NoEntry => points[f] = NoPoints
        BY <2>0, <2>2 DEF RecoverNothing, Stale, UnresolvedKeys, Unresolved, BareInv, Bare,
                          TypeOK, Journals
      <3>2. mem[f] = NoEntry <=> saved[f] = NoEntry
        BY <2>0, <2>2 DEF RecoverNothing, BareInv
      <3> QED
        BY <1>0, <1>1, <1>2, <2>2, <3>1, <3>2
        DEF RecoverNothing, EmptyJournal, BareInv, Bare, Recovering
    <2>3. CASE RecoverDelete
      <3>1. points'[f] \in {points[f], NoPoints} /\ journal' = journal /\ saved' = saved
        BY <2>3 DEF RecoverDelete, Cleared
      <3>2. mem'[f] = NoEntry => points'[f] = NoPoints
        BY <2>0, <2>3 DEF RecoverDelete, Cleared, Stale, UnresolvedKeys, Unresolved,
                          BareInv, Bare, TypeOK, Journals
      <3>3. Bare(f, saved[f])'
        BY <2>0, <3>1, ClearedBare DEF BareInv
      <3> QED
        BY <1>0, <1>1, <1>2, <2>3, <3>2, <3>3 DEF RecoverDelete, BareInv, Bare, Recovering
    <2>4. CASE RecoverSave
      BY <1>0, <1>1, <1>2, <2>0, <2>4 DEF RecoverSave, BareInv, Bare, Recovering
    <2>5. CASE RecoverUnlink
      BY <1>0, <1>1, <1>2, <2>0, <2>5
      DEF RecoverUnlink, EmptyJournal, BareInv, Bare, Recovering
    <2>6. CASE Scan
      <3>1. stage'[f] \in {"idle", "delete", "parse"}
        BY <2>6 DEF Scan, Action
      <3> QED
        BY <1>0, <1>1, <1>2, <2>0, <2>6, <3>1 DEF Scan, BareInv, Bare, Recovering
    <2> QED
      BY <2>1, <2>2, <2>3, <2>4, <2>5, <2>6 DEF Recovery
  <1> QED
    BY <1>3, <1>4 DEF OrphanInv

LEMMA DeletesBare ==
  ASSUME TypeOK, OrphanInv, Deletes \/ DeleteChunkFails
  PROVE  OrphanInv'
  <1>1. ~Recovering /\ ~Recovering' /\ pc' # "finish" /\ snap' = snap /\ worker' = worker
    BY DEF Deletes, JournalDeletes, DeleteChunk, DeletesDone, DeleteChunkFails, Recovering
  <1>0. NoPoints' = NoPoints
    BY DEF NoPoints
  <1>2. ASSUME NEW f \in Files PROVE BareInv(f)'
    <2>0. BareInv(f)
      BY DEF OrphanInv
    <2>1. CASE JournalDeletes
      <3>1. PICK S \in DeleteChunks :
              /\ journal' = Recorded(journal, S, [g \in Files |-> Deleted])
              /\ stage' = Moved(S, "deleting")
        BY <2>1 DEF JournalDeletes
      <3>2. CASE f \in S
        <4>1. journal[f] = NoLine /\ journal'[f] = Deleted /\ stage'[f] = "deleting"
          BY <1>1, <2>0, <3>1, <3>2 DEF BareInv, DeleteChunks, In, Recorded, Moved
        <4> QED
          BY <1>0, <1>1, <2>0, <2>1, <4>1 DEF JournalDeletes, BareInv, Bare, Recovering
      <3>3. CASE f \notin S
        <4>1. journal'[f] = journal[f] /\ stage'[f] = stage[f]
          BY <3>1, <3>3 DEF Recorded, Moved
        <4> QED
          BY <1>1, <2>0, <2>1, <4>1, SameBare DEF JournalDeletes
      <3> QED
        BY <3>2, <3>3
    <2>2. CASE DeleteChunk \/ DeleteChunkFails
      <3>1. CASE stage[f] = "deleting"
        <4>1. stage'[f] = "done" /\ saved' = saved /\ journal' = journal
          BY <2>2, <3>1 DEF DeleteChunk, DeleteChunkFails, Moved, In
        <4>2. points'[f] \in {points[f], NoPoints}
          BY <2>2, <3>1 DEF DeleteChunk, DeleteChunkFails, Cleared
        <4>3. Bare(f, saved[f])' /\ (snap' # NoSnapshot => Bare(f, snap[f])')
          BY <1>1, <2>0, <4>1, <4>2, ClearedBare DEF BareInv
        <4>4. Bare(f, mem[f])'
          <5>1. CASE DeleteChunk
            BY <1>0, <3>1, <5>1 DEF DeleteChunk, Cleared, In, Bare
          <5>2. CASE DeleteChunkFails
            BY <1>1, <2>0, <4>1, <4>2, <5>2, ClearedBare
            DEF DeleteChunkFails, BareInv, Recovering
          <5> QED
            BY <2>2, <5>1, <5>2
        <4> QED
          BY <1>1, <4>1, <4>3, <4>4 DEF BareInv, Recovering
      <3>2. CASE stage[f] # "deleting"
        <4>1. /\ stage'[f] = stage[f] /\ mem'[f] = mem[f]
              /\ saved' = saved /\ journal' = journal
          BY <2>2, <3>2 DEF DeleteChunk, DeleteChunkFails, Moved, In, TypeOK
        <4>2. points'[f] = points[f]
          BY <2>2, <3>2 DEF DeleteChunk, DeleteChunkFails, Cleared, In, TypeOK
        <4> QED
          BY <1>1, <2>0, <4>1, <4>2, SameBare
      <3> QED
        BY <3>1, <3>2
    <2>3. CASE DeletesDone
      BY <1>0, <1>1, <2>0, <2>3 DEF DeletesDone, BareInv, Bare, Recovering
    <2> QED
      BY <2>1, <2>2, <2>3 DEF Deletes
  <1> QED
    BY <1>1, <1>2 DEF OrphanInv

\* The main loop: an entry that is missing had no points, and gets its line
\* before it gets any.
LEMMA LoopBare ==
  ASSUME TypeOK, StagedInv, OrphanInv, NEW g \in Files,
         \/ ReadFile(g) \/ VerifyFile(g)
         \/ Take(g) \/ DeleteOld(g) \/ DeleteOldFails(g)
         \/ PlaceEmpty(g) \/ PlaceInPool(g)
  PROVE  OrphanInv'
  <1> USE DEF ReadFile, VerifyFile, Take, DeleteOld, DeleteOldFails, PlaceEmpty, PlaceInPool
  <1>1. ~Recovering /\ ~Recovering' /\ pc' # "finish"
    BY DEF Parsing, Recovering
  <1>2. snap' = snap /\ worker' = worker /\ saved' = saved
    OBVIOUS
  <1>0. NoPoints' = NoPoints
    BY DEF NoPoints
  <1>3. ASSUME NEW f \in Files, f # g PROVE BareInv(f)'
    <2>1. BareInv(f)
      BY DEF OrphanInv
    <2>2. stage'[f] = stage[f]
      BY <1>3 DEF Moved
    <2>3. mem'[f] = mem[f] /\ journal'[f] = journal[f]
      BY <1>3 DEF Recorded, TypeOK, Manifests, Journals
    <2>4. points'[f] = points[f]
      BY <1>3 DEF Cleared, TypeOK
    <2> QED
      BY <1>1, <1>2, <2>1, <2>2, <2>3, <2>4, SameBare
  <1>4. BareInv(g)'
    <2>0. BareInv(g)
      BY DEF OrphanInv
    <2>1. CASE ReadFile(g) \/ VerifyFile(g)
      <3>1. stage[g] \in {"parse", "read"} /\ stage'[g] \in {"read", "parsed"}
        BY <2>1 DEF Moved, TypeOK
      <3>2. journal' = journal /\ mem' = mem /\ points' = points
        BY <2>1
      <3> HIDE DEF ReadFile, VerifyFile, Take, DeleteOld, DeleteOldFails, PlaceEmpty, PlaceInPool
      <3> QED
        BY <1>0, <1>1, <1>2, <2>0, <3>1, <3>2 DEF BareInv, Bare, Recovering
    <2>2. CASE Take(g)
      <3>1. stage'[g] = "current" /\ journal[g] = NoLine /\ mem' = mem /\ points' = points
        BY <1>1, <2>0, <2>2 DEF Moved, BareInv, TypeOK
      <3>2. journal'[g] \in {NoLine, Deleted}
        BY <2>2, <3>1 DEF Recorded
      <3> HIDE DEF ReadFile, VerifyFile, Take, DeleteOld, DeleteOldFails, PlaceEmpty, PlaceInPool
      <3> QED
        BY <1>0, <1>1, <1>2, <2>0, <3>1, <3>2 DEF BareInv, Bare, Recovering
    <2>3. CASE DeleteOld(g) \/ DeleteOldFails(g)
      <3>1. stage'[g] \in {"current", "done"} /\ journal' = journal /\ mem' = mem
        BY <2>3 DEF Moved, TypeOK
      <3>2. points'[g] \in {points[g], NoPoints}
        BY <2>3 DEF Cleared
      <3> HIDE DEF ReadFile, VerifyFile, Take, DeleteOld, DeleteOldFails, PlaceEmpty, PlaceInPool
      <3>3. /\ Bare(g, saved[g])' /\ Bare(g, mem[g])'
            /\ snap' # NoSnapshot => Bare(g, snap[g])'
        BY <1>1, <1>2, <2>0, <3>1, <3>2, ClearedBare DEF BareInv, Recovering
      <3> QED
        BY <1>1, <3>1, <3>3 DEF BareInv, Recovering
    <2>4. CASE PlaceEmpty(g)
      <3>1. info[g] \in Entries /\ info[g].hash \in EntryHashes /\ stage'[g] = "done"
        BY <2>4 DEF StagedInv, Entries, Moved
      <3>2. journal'[g] = info[g].hash
        BY <2>4 DEF Recorded
      <3> HIDE DEF ReadFile, VerifyFile, Take, DeleteOld, DeleteOldFails, PlaceEmpty, PlaceInPool
      <3> QED
        BY <1>1, <3>1, <3>2, JournalConstants DEF BareInv, Bare, Recovering, EntryHashes
    <2>5. CASE PlaceInPool(g)
      <3>1. stage'[g] = "pool" /\ journal' = journal /\ mem' = mem /\ points' = points
        BY <2>5 DEF Moved, TypeOK
      <3> HIDE DEF ReadFile, VerifyFile, Take, DeleteOld, DeleteOldFails, PlaceEmpty, PlaceInPool
      <3> QED
        BY <1>0, <1>1, <1>2, <2>0, <3>1 DEF BareInv, Bare, Recovering
    <2> QED
      BY <2>1, <2>2, <2>3, <2>4, <2>5
  <1> QED
    BY <1>1, <1>3, <1>4 DEF OrphanInv

\* The worker only touches files whose line is a hash.
LEMMA WorkerBare ==
  ASSUME TypeOK, StagedInv, QuietInv, OrphanInv, Flush \/ Worker \/ UpsertFails
  PROVE  OrphanInv'
  <1>1. ~Recovering /\ ~Recovering' /\ pc' # "finish"
    BY DEF Flush, Worker, Upsert, UpsertFails, RecordFile, Recovering, QuietInv, OrphanInv
  <1>2. snap' = snap /\ saved' = saved
    BY DEF Flush, Worker, Upsert, UpsertFails, RecordFile
  <1>0. NoPoints' = NoPoints
    BY DEF NoPoints
  <1>3. ASSUME NEW f \in Files PROVE BareInv(f)'
    <2>0. BareInv(f)
      BY DEF OrphanInv
    <2>1. CASE Flush
      <3>1. CASE stage[f] = "pool"
        <4>1. journal'[f] = info[f].hash /\ info[f].hash \in EntryHashes
          BY <2>1, <3>1 DEF Flush, In, Recorded, StagedInv, Entries
        <4>2. stage'[f] = "flight" /\ worker' = "busy"
          BY <2>1, <3>1 DEF Flush, In, Moved
        <4> QED
          BY <1>1, <4>1, <4>2, JournalConstants DEF BareInv, Bare, Recovering, EntryHashes
      <3>2. CASE stage[f] # "pool"
        <4>1. journal'[f] = journal[f] /\ stage'[f] = stage[f]
          BY <2>1, <3>2 DEF Flush, In, Recorded, Moved, TypeOK, Journals
        <4>2. stage[f] # "flight"
          BY <2>0, <2>1 DEF Flush, BareInv
        <4> QED
          BY <1>1, <2>0, <2>1, <4>1, <4>2, SameBare DEF Flush
      <3> QED
        BY <3>1, <3>2
    <2>2. CASE UpsertFails \/ \E g \in Files, i \in Indices : Upsert(g, i)
      <3>1. PICK S \in SUBSET unsent : points' = WithPoints(S)
        BY <2>2 DEF UpsertFails, Upsert
      <3>2. journal' = journal /\ mem' = mem
        BY <2>2 DEF UpsertFails, Upsert
      <3>3. CASE stage[f] = "flight"
        <4>1. journal'[f] \in EntryHashes
          BY <2>0, <3>2, <3>3 DEF BareInv
        <4>2. stage'[f] = "done" \/ (stage'[f] = "flight" /\ worker' = "busy")
          BY <2>2, <3>3 DEF UpsertFails, Upsert, Moved, In
        <4> QED
          BY <1>1, <4>1, <4>2, JournalConstants DEF BareInv, Bare, Recovering, EntryHashes
      <3>4. CASE stage[f] # "flight"
        <4>1. \A i \in Indices : <<f, i>> \notin S
          BY <3>4 DEF StagedInv
        <4>2. points'[f] = points[f]
          BY <3>1, <4>1 DEF WithPoints, TypeOK
        <4>3. stage'[f] = stage[f]
          BY <2>2, <3>4 DEF UpsertFails, Upsert, Moved, In, TypeOK
        <4> QED
          BY <1>1, <1>2, <2>0, <3>2, <3>4, <4>2, <4>3, SameBare
      <3> QED
        BY <3>3, <3>4
    <2>3. ASSUME NEW g \in Files, RecordFile(g) PROVE BareInv(f)'
      <3>1. journal' = journal /\ points' = points
        BY <2>3 DEF RecordFile
      <3>2. CASE f = g
        <4>1. stage'[f] = "done" /\ journal'[f] \in EntryHashes
          BY <2>0, <2>3, <3>1, <3>2 DEF RecordFile, BareInv, Moved
        <4> QED
          BY <1>1, <4>1, JournalConstants DEF BareInv, Bare, Recovering, EntryHashes
      <3>3. CASE f # g
        <4>1. stage'[f] = stage[f] /\ mem'[f] = mem[f]
          BY <2>3, <3>3 DEF RecordFile, Moved, TypeOK, Manifests
        <4>2. stage[f] = "flight" => worker' = worker
          BY <2>3, <3>3 DEF RecordFile, In
        <4> QED
          BY <1>1, <1>2, <2>0, <3>1, <4>1, <4>2, SameBare
      <3> QED
        BY <3>2, <3>3
    <2> QED
      BY <2>1, <2>2, <2>3 DEF Worker
  <1> QED
    BY <1>1, <1>3 DEF OrphanInv

\* What a step saves is the manifest in memory, or a snapshot of it.
LEMMA SavesBare ==
  ASSUME TypeOK, QuietInv, OrphanInv,
         \/ Drain \/ WriteSnapshot \/ WriteFails \/ SaveFinal \/ AbortSave
         \/ Connect \/ Unreachable \/ LoopDone \/ SetupFails \/ Abort
  PROVE  OrphanInv'
  <1> USE DEF Drain, WriteSnapshot, WriteFails, SaveFinal, AbortSave,
              Connect, Unreachable, LoopDone, SetupFails, Abort
  <1>1. ~Recovering /\ ~Recovering'
    BY DEF QuietInv, Recovering
  <1>2. points' = points /\ journal' = journal /\ mem' = mem /\ stage' = stage
    OBVIOUS
  <1>3. saved' \in {saved, mem, snap} /\ snap' \in {snap, mem, NoSnapshot}
    OBVIOUS
  <1>4. saved' = snap => saved' \in {saved, mem} \/ snap # NoSnapshot
    OBVIOUS
  <1>5. worker' = worker \/ worker = "finished"
    OBVIOUS
  <1>6. pc' = "finish" => saved' = mem' /\ snap' = NoSnapshot /\ worker' = "idle"
    BY DEF OrphanInv
  <1> HIDE DEF Drain, WriteSnapshot, WriteFails, SaveFinal, AbortSave,
               Connect, Unreachable, LoopDone, SetupFails, Abort
  <1>0. NoPoints' = NoPoints
    BY DEF NoPoints
  <1>7. ASSUME NEW f \in Files PROVE BareInv(f)'
    <2>0. BareInv(f)
      BY DEF OrphanInv
    <2>1. Bare(f, saved[f])' /\ Bare(f, mem[f])' /\ (snap' # NoSnapshot => Bare(f, snap[f])')
      BY <1>0, <1>1, <1>2, <1>3, <1>4, <2>0 DEF BareInv, Bare, Recovering
    <2> QED
      BY <1>1, <1>2, <1>5, <2>0, <2>1 DEF BareInv, Recovering
  <1> QED
    BY <1>6, <1>7 DEF OrphanInv

\* A line is dropped only where memory, already saved, agrees with it.
LEMMA FinishBare ==
  ASSUME TypeOK, OrphanInv, FinishJournal
  PROVE  OrphanInv'
  <1>1. ~Recovering /\ ~Recovering' /\ pc' # "finish"
    BY DEF FinishJournal, Recovering
  <1>2. saved = mem /\ snap = NoSnapshot /\ worker = "idle"
    BY DEF FinishJournal, OrphanInv
  <1>0. NoPoints' = NoPoints
    BY DEF NoPoints
  <1>3. ASSUME NEW f \in Files PROVE BareInv(f)'
    <2>0. BareInv(f)
      BY DEF OrphanInv
    <2>1. journal'[f] = IF Unresolved(journal[f], mem[f]) THEN journal[f] ELSE NoLine
      BY DEF FinishJournal, Finished, UnresolvedKeys
    <2>2. mem[f] = NoEntry /\ journal'[f] \in {NoLine, Deleted} => points[f] = NoPoints
      BY <1>1, <2>0, <2>1 DEF BareInv, Bare, Recovering, Unresolved, TypeOK, Journals
    <2>3. stage[f] # "flight"
      BY <1>2, <2>0 DEF BareInv
    <2>4. journal[f] = NoLine => journal'[f] = NoLine
      BY <2>1
    <2> QED
      BY <1>0, <1>1, <1>2, <2>0, <2>2, <2>3, <2>4 DEF FinishJournal, BareInv, Bare, Recovering
  <1> QED
    BY <1>1, <1>3 DEF OrphanInv

LEMMA AroundBare ==
  ASSUME OrphanInv,
         \/ UNCHANGED vars \/ \E d \in Dialects : ChangeDialect(d)
         \/ \E f \in Files, h \in Hashes \cup {NoFile} : EditFile(f, h)
  PROVE  OrphanInv'
  <1>1. UNCHANGED <<points, saved, journal, pc, mem, stage, worker, snap>>
    BY DEF vars, ChangeDialect, EditFile
  <1>2. NoPoints' = NoPoints
    BY DEF NoPoints
  <1> QED
    BY <1>1, <1>2 DEF OrphanInv, BareInv, Bare, Recovering

OrphanFree == TypeOK /\ QuietInv /\ StagedInv /\ OrphanInv

LEMMA NextOrphanFree == OrphanFree /\ [Next]_vars => OrphanFree'
  <1> SUFFICES ASSUME OrphanFree, [Next]_vars PROVE OrphanFree'
    OBVIOUS
  <1>0. TypeOK /\ QuietInv /\ StagedInv /\ OrphanInv
    BY DEF OrphanFree
  <1>1. TypeOK' /\ QuietInv' /\ StagedInv'
    BY <1>0, NextType, NextQuiet, NextStaged
  <1>2. CASE Crash \/ TornRecord \/ RecoverFails \/ Finalize \/ Exit
    BY <1>0, <1>1, <1>2, GoneBare DEF OrphanFree
  <1>3. CASE Start \/ Recovery \/ Scan
    BY <1>0, <1>1, <1>3, StartBare DEF OrphanFree
  <1>4. CASE Deletes \/ DeleteChunkFails
    BY <1>0, <1>1, <1>4, DeletesBare DEF OrphanFree
  <1>5. CASE Parser \/ \E f \in Files : DeleteOldFails(f)
    BY <1>0, <1>1, <1>5, LoopBare DEF OrphanFree, Parser
  <1>6. CASE MainLoop
    BY <1>0, <1>1, <1>6, LoopBare, WorkerBare, SavesBare DEF OrphanFree, MainLoop
  <1>7. CASE Worker \/ UpsertFails
    BY <1>0, <1>1, <1>7, WorkerBare DEF OrphanFree
  <1>8. CASE WriteSnapshot \/ WriteFails \/ SaveFinal \/ AbortSave
             \/ Connect \/ Unreachable \/ SetupFails \/ Abort
    BY <1>0, <1>1, <1>8, SavesBare DEF OrphanFree
  <1>9. CASE FinishJournal
    BY <1>0, <1>1, <1>9, FinishBare DEF OrphanFree
  <1>10. CASE \/ UNCHANGED vars \/ \E d \in Dialects : ChangeDialect(d)
              \/ \E f \in Files, h \in Hashes \cup {NoFile} : EditFile(f, h)
    BY <1>0, <1>1, <1>10, AroundBare DEF OrphanFree
  <1> QED
    BY <1>2, <1>3, <1>4, <1>5, <1>6, <1>7, <1>8, <1>9, <1>10
    DEF Next, Step, Fault, Ending

\* A file that index_manifest.json does not list, and whose upsert no journal
\* line announces, has no points: whatever is killed, fails, is edited or is
\* unreadable for a moment, and whatever the dialects, no vector is left that
\* nothing would ever delete.
THEOREM OrphansNever == Spec => []NoOrphans
  <1>1. Init => OrphanFree
    <2>1. Init => QuietInv
      BY DEF Init, QuietInv
    <2>2. Init => OrphanInv
      BY JournalConstants DEF Init, OrphanInv, BareInv, Bare, Recovering, EmptyManifest
    <2> QED
      BY <2>1, <2>2, InitType, InitStaged DEF OrphanFree
  <1>2. OrphanFree => NoOrphans
    BY DEF OrphanFree, OrphanInv, BareInv, Bare, NoOrphans
  <1> QED
    BY <1>1, <1>2, NextOrphanFree, PTL DEF Spec

-----------------------------------------------------------------------------
(* The journal covers every change. *)


\* One dialect, and files that are there can be read: with two dialects, or a
\* reader that fails for a moment, Covered does not hold (README, Findings).
Steady == ReadsMayFail = FALSE /\ \A d \in Dialects : d = DefaultDialect

\* A step of the run that leaves the data of g alone.
Untouched(g) ==
  /\ disk'[g] = disk[g] /\ points'[g] = points[g]
  /\ saved'[g] = saved[g] /\ journal'[g] = journal[g]
  /\ mem'[g] = mem[g] /\ scan'[g] = scan[g] /\ stage'[g] = stage[g]
  /\ loaded'[g] = loaded[g] /\ info'[g] = info[g] /\ snap' = snap
  /\ stage[g] = "current" =>
       pc' = pc /\ \A h \in Files : stage'[h] = "current" => stage[h] = "current"
  /\ stage[g] = "flight" =>
       worker' = worker /\ \A i \in Indices : <<g, i>> \in unsent' <=> <<g, i>> \in unsent

LEMMA Frame ==
  ASSUME NEW g \in Files, Untouched(g)
  PROVE  /\ Safe(g, saved[g]) => Safe(g, saved[g])'
         /\ FileInv(g) => FileInv(g)'
  <1> USE DEF Untouched
  <1>1. Safe(g, saved[g]) => Safe(g, saved[g])'
    BY DEF Safe, PointsAgree, NoPoints, Full, NumChunks, Stored, Unresolved
  <1>2. EntryInv(g) => EntryInv(g)'
    BY DEF EntryInv, Safe, PointsAgree, NoPoints, Full, NumChunks, Stored, Unresolved
  <1>3. DeleteInv(g) => DeleteInv(g)'
    BY DEF DeleteInv
  <1>4. ParseInv(g) => ParseInv(g)'
    BY DEF ParseInv
  <1>5. PlaceInv(g) => PlaceInv(g)'
    BY DEF PlaceInv, NoPoints
  <1>6. FlightInv(g) => FlightInv(g)'
    BY DEF FlightInv, NumChunks, Stored
  <1> QED
    BY <1>1, <1>2, <1>3, <1>4, <1>5, <1>6 DEF FileInv

LEMMA SafeSame ==
  ASSUME NEW f \in Files, NEW x, Safe(f, x),
         journal'[f] = journal[f], points'[f] = points[f]
  PROVE  Safe(f, x)'
  BY DEF Safe, PointsAgree, NoPoints, Full, NumChunks, Stored, Unresolved

LEMMA GoneSafe ==
  ASSUME IInv, Steady, Crash \/ TornRecord \/ RecoverFails \/ Finalize \/ Exit
  PROVE  Covered'
  <1>1. CASE Crash \/ Exit
    BY <1>1 DEF Crash, Exit, durable, IInv, Covered, PointsAgree, NoPoints, Full,
                NumChunks, Stored, Unresolved
  <1>2. CASE Finalize
    <2>1. \A f \in Files : Safe(f, mem[f])
      BY <1>2 DEF Finalize, IInv, Recovering, FileInv, EntryInv
    <2> QED
      BY <1>2, <2>1 DEF Finalize, Covered, Safe, PointsAgree, NoPoints, Full,
                        NumChunks, Stored, Unresolved
  <1>3. CASE RecoverFails
    <2>1. PICK S \in SUBSET Stale : points' = Cleared(S)
      BY <1>3 DEF RecoverFails
    <2>2. \A f \in S : Unresolved(journal[f], saved[f])
      BY <1>3 DEF RecoverFails, IInv, RecoveryInv, Stale, UnresolvedKeys
    <2>3. \A f \in Files : f \notin S => points'[f] = points[f]
      BY <2>1 DEF Cleared, IInv, TypeOK
    <2> QED
      BY <1>3, <2>2, <2>3 DEF RecoverFails, IInv, Covered, PointsAgree, NoPoints,
                        Full, NumChunks, Stored, Unresolved
  <1>4. CASE TornRecord
    <2> SUFFICES ASSUME NEW f \in Files PROVE Safe(f, saved[f])'
      BY DEF Covered, Safe
    <2>1. Safe(f, saved[f]) /\ FileInv(f)
      BY <1>4 DEF TornRecord, IInv, Covered, Safe, Recovering
    <2>2. CASE journal'[f] = journal[f]
      BY <1>4, <2>1, <2>2 DEF TornRecord, Safe, PointsAgree, NoPoints, Full,
                        NumChunks, Stored, Unresolved
    <2>3. CASE stage[f] = "delete" /\ journal'[f] = Deleted
      BY <1>4, <2>1, <2>3 DEF TornRecord, FileInv, EntryInv, DeleteInv, Safe, Unresolved
    <2>4. CASE stage[f] = "pool" /\ journal'[f] = info[f].hash
      <3>1. saved'[f] = mem[f] /\ (mem[f] # NoEntry => mem[f].hash # scan[f].hash)
        BY <1>4, <2>1, <2>4 DEF TornRecord, FileInv, EntryInv, ParseInv
      <3>2. info[f].hash \in {scan[f].hash, EmptyHash} /\ info[f].hash \in EntryHashes
        BY <2>1, <2>4 DEF FileInv, ParseInv, IInv, StagedInv, Entries
      <3> QED
        BY <2>4, <3>1, <3>2, JournalConstants DEF Safe, Unresolved, PointsAgree, EntryHashes
    <2> QED
      BY <1>4, <2>2, <2>3, <2>4 DEF TornRecord, DeleteChunks, In, Recorded
  <1> QED
    BY <1>1, <1>2, <1>3, <1>4

\* A step outside the scan-to-exit part of a run, or the scan itself.
LEMMA StartSafe ==
  ASSUME IInv, Steady, Start \/ Recovery \/ Scan
  PROVE  Covered' /\ RecoveryInv' /\ EndInv' /\ (~Recovering' => \A f \in Files : FileInv(f)')
  <1>t. TypeOK /\ StagedInv /\ Covered /\ QuietInv /\ RecoveryInv
    BY DEF IInv
  <1> DEFINE ScanInv == \A f \in Files : journal[f] = NoLine /\ saved[f] = mem[f]
  <1>1. CASE Start
    <2>1. mem' = saved
      <3>1. \A f \in Files : LoadedEntry(saved[f]) = saved[f]
        BY <1>t DEF Steady, LoadedEntry, TypeOK, Manifests, Entries
      <3> QED
        BY <1>1, <3>1, <1>t DEF Start, TypeOK, Manifests
    <2>2. Covered'
      BY <1>1, <1>t DEF Start, Covered, PointsAgree, NoPoints, Full, NumChunks, Stored, Unresolved
    <2> QED
      BY <1>1, <2>1, <2>2 DEF Start, RecoveryInv, EndInv, Recovering
  <1>n. ASSUME \A f \in Files : journal'[f] = NoLine /\ mem'[f] = saved'[f] /\ stage'[f] = "idle"
                                /\ PointsAgree(f, mem[f])',
               snap' = NoSnapshot
        PROVE  \A f \in Files : FileInv(f)'
    BY <1>n DEF FileInv, EntryInv, DeleteInv, ParseInv, PlaceInv, FlightInv, Safe
  <1>2. CASE RecoverNothing
    <2>1. mem' = saved' /\ \A f \in Files : PointsAgree(f, mem[f])'
      BY <1>2, <1>t DEF RecoverNothing, Covered, RecoveryInv, Stale, UnresolvedKeys,
                  PointsAgree, NoPoints, Full, NumChunks, Stored
    <2>2. \A f \in Files : journal'[f] = NoLine
      BY <1>2 DEF RecoverNothing, EmptyJournal
    <2>3. Covered'
      BY <2>1 DEF Covered, PointsAgree
    <2>4. \A f \in Files : FileInv(f)'
      <3>1. stage' = [f \in Files |-> "idle"] /\ snap' = NoSnapshot
        BY <1>2, <1>t DEF RecoverNothing, QuietInv, Recovering
      <3> QED
        BY <2>1, <2>2, <3>1, <1>n
    <2> QED
      BY <1>2, <2>3, <2>4 DEF RecoverNothing, RecoveryInv, EndInv
  <1>3. CASE RecoverDelete
    <2>1. mem = saved
      BY <1>3, <1>t DEF RecoverDelete, RecoveryInv
    <2>2. \A f \in Files : f \in Stale <=> Unresolved(journal[f], saved[f])
      BY <2>1 DEF Stale, UnresolvedKeys
    <2>3. \A f \in Files : /\ points'[f] = IF f \in Stale THEN NoPoints ELSE points[f]
                           /\ mem'[f] = IF f \in Stale THEN NoEntry ELSE saved[f]
      BY <1>3, <2>1 DEF RecoverDelete, Cleared
    <2>4. NoPoints' = NoPoints
      BY DEF NoPoints
    <2>5. Covered'
      BY <1>3, <1>t, <2>2, <2>3 DEF RecoverDelete, Covered, PointsAgree, NoPoints, Full, NumChunks, Stored, Unresolved
    <2>6. \A f \in Files : PointsAgree(f, mem[f])'
      BY <1>3, <1>t, <2>2, <2>3 DEF RecoverDelete, Covered, PointsAgree, NoPoints, Full, NumChunks, Stored, Unresolved
    <2> QED
      BY <1>3, <2>5, <2>6 DEF RecoverDelete, RecoveryInv, EndInv, Recovering
  <1>4. CASE RecoverSave
    <2>1. \A f \in Files : PointsAgree(f, mem[f])'
      BY <1>4, <1>t DEF RecoverSave, RecoveryInv, PointsAgree, NoPoints, Full, NumChunks, Stored
    <2>2. mem' = saved'
      BY <1>4 DEF RecoverSave
    <2> QED
      BY <1>4, <2>1, <2>2 DEF RecoverSave, RecoveryInv, EndInv, Recovering, Covered, PointsAgree
  <1>5. CASE RecoverUnlink
    <2>1. mem' = saved' /\ \A f \in Files : PointsAgree(f, mem[f])'
      BY <1>5, <1>t DEF RecoverUnlink, RecoveryInv, PointsAgree, NoPoints, Full, NumChunks, Stored
    <2>2. \A f \in Files : journal'[f] = NoLine
      BY <1>5 DEF RecoverUnlink, EmptyJournal
    <2>3. Covered'
      BY <2>1 DEF Covered, PointsAgree
    <2>4. \A f \in Files : FileInv(f)'
      <3>1. stage' = [f \in Files |-> "idle"] /\ snap' = NoSnapshot
        BY <1>5, <1>t DEF RecoverUnlink, QuietInv, Recovering
      <3> QED
        BY <2>1, <2>2, <3>1, <1>n
    <2> QED
      BY <1>5, <2>3, <2>4 DEF RecoverUnlink, RecoveryInv, EndInv
  <1>6. CASE Scan
    <2>1. ~Recovering /\ \A f \in Files : FileInv(f) /\ stage[f] = "idle"
      BY <1>6, <1>t DEF Scan, Recovering, IInv, QuietInv
    <2>2. snap = NoSnapshot /\ worker = "idle"
      BY <1>6, <1>t DEF Scan, QuietInv
    <2>3. \A f \in Files : /\ journal'[f] = NoLine /\ saved'[f] = mem'[f]
                           /\ PointsAgree(f, mem[f])'
      BY <1>6, <2>1 DEF Scan, FileInv, EntryInv, PointsAgree, NoPoints, Full, NumChunks, Stored
    <2>4. Covered'
      BY <2>3 DEF Covered, PointsAgree
    <2>5. \A f \in Files : /\ scan'[f] = IF disk[f] = NoFile THEN NoFile ELSE State(disk[f])
                           /\ stage'[f] = Action(mem[f], scan'[f])
      BY <1>6 DEF Scan, Steady
    <2>6. ASSUME NEW f \in Files PROVE FileInv(f)'
      <3>1. stage'[f] \in {"idle", "delete", "parse"}
        BY <2>5 DEF Action
      <3>2. stage'[f] = "delete" => mem'[f] # NoEntry
        BY <1>6, <2>5 DEF Scan, Action
      <3>3. stage'[f] = "parse" => /\ scan'[f].hash \in Hashes
                                   /\ mem'[f] # NoEntry => mem'[f].hash # scan'[f].hash
        BY <1>6, <1>t, <2>5 DEF Scan, Action, State, Steady, TypeOK, Manifests, Entries
      <3> QED
        BY <1>6, <2>2, <2>3, <3>1, <3>2, <3>3
        DEF Scan, FileInv, EntryInv, DeleteInv, ParseInv, PlaceInv, FlightInv, Safe
    <2>7. pc' \in {"finalize", "connect"}
      BY <1>6 DEF Scan
    <2>8. EndInv'
      BY <1>6, <1>t, <2>2, <2>3 DEF Scan, EndInv, TypeOK, Manifests
    <2> QED
      BY <2>4, <2>6, <2>7, <2>8 DEF RecoveryInv, Recovering
  <1> QED
    BY <1>1, <1>2, <1>3, <1>4, <1>5, <1>6 DEF Recovery

\* A change of points under an exposed entry leaves it covered.
LEMMA ExposedSafe ==
  ASSUME NEW f \in Files, NEW x, Exposed(f, x), journal'[f] = journal[f]
  PROVE  Exposed(f, x)' /\ Safe(f, x) /\ Safe(f, x)'
  BY JournalConstants DEF Exposed, Safe, Unresolved, PointsAgree

LEMMA AnnouncedExposed ==
  ASSUME IInv, ~Recovering, NEW f \in Files,
         stage[f] \in {"current", "pool", "flight"}
  PROVE  \A x \in Entries \cup {NoEntry} :
           x = mem[f] => Unresolved(info[f].hash, x) \/ (x # NoEntry /\ x.hash = EmptyHash)
  <1>1. mem[f] # NoEntry => mem[f].hash # scan[f].hash
    BY DEF IInv, FileInv, ParseInv
  <1>2. info[f].hash \in {scan[f].hash, EmptyHash} /\ info[f].hash \in EntryHashes
    BY DEF IInv, FileInv, ParseInv, StagedInv, Entries
  <1> QED
    BY <1>1, <1>2 DEF Unresolved

\* Where the code changes points: the old entry contradicts the journal line.
LEMMA ChangeExposed ==
  ASSUME IInv, ~Recovering, NEW f \in Files,
         stage[f] \in {"deleting", "flight"} \/ (stage[f] = "current" /\ pc = "delold")
  PROVE  /\ Exposed(f, mem[f]) /\ saved[f] = mem[f]
         /\ snap # NoSnapshot => snap[f] = mem[f]
  <1>0. FileInv(f)
    BY DEF IInv
  <1>1. saved[f] = mem[f] /\ (snap # NoSnapshot => snap[f] = mem[f])
    BY <1>0 DEF FileInv, EntryInv
  <1>2. CASE stage[f] \in {"deleting", "current"}
    <2>1. mem[f] # NoEntry /\ journal[f] = Deleted
      BY <1>0, <1>2 DEF FileInv, DeleteInv, PlaceInv
    <2> QED
      BY <1>1, <2>1 DEF Exposed, Unresolved
  <1>3. CASE stage[f] = "flight"
    <2>1. journal[f] = info[f].hash
      BY <1>0, <1>3 DEF FileInv, FlightInv
    <2>2. mem[f] \in Entries \cup {NoEntry}
      BY DEF IInv, TypeOK, Manifests
    <2> QED
      BY <1>1, <1>3, <2>1, <2>2, AnnouncedExposed DEF Exposed
  <1> QED
    BY <1>1, <1>2, <1>3

RunGoal == Covered' /\ RecoveryInv' /\ EndInv' /\ \A f \in Files : FileInv(f)'

LEMMA RunFacts ==
  ASSUME IInv, ~Recovering
  PROVE  \A f \in Files : Safe(f, saved[f]) /\ Safe(f, mem[f]) /\ FileInv(f)
  BY DEF IInv, Covered, Safe, FileInv, EntryInv

\* A step inside a run, seen from each file.
LEMMA RunFiles ==
  ASSUME ~Recovering', EndInv', \A f \in Files : Safe(f, saved[f])' /\ FileInv(f)'
  PROVE  RunGoal
  BY DEF RunGoal, Covered, Safe, RecoveryInv, Recovering

LEMMA PlainRun ==
  ASSUME IInv, Connect \/ Unreachable \/ LoopDone \/ SetupFails \/ Abort
  PROVE  RunGoal
  <1>1. ~Recovering /\ ~Recovering'
    BY DEF Connect, Unreachable, LoopDone, SetupFails, Abort, Recovering
  <1>2. EndInv'
    BY DEF Connect, Unreachable, LoopDone, SetupFails, Abort, IInv, EndInv
  <1>3. ASSUME NEW f \in Files PROVE Safe(f, saved[f])' /\ FileInv(f)'
    <2>1. stage[f] # "current"
      BY <1>1, RunFacts DEF Connect, Unreachable, LoopDone, SetupFails, Abort, FileInv, PlaceInv
    <2>2. Untouched(f)
      BY <2>1 DEF Connect, Unreachable, LoopDone, SetupFails, Abort, Untouched
    <2> QED
      BY <1>1, <2>2, RunFacts, Frame
  <1> QED
    BY <1>1, <1>2, <1>3, RunFiles

LEMMA DeletesRun ==
  ASSUME IInv, Deletes \/ DeleteChunkFails
  PROVE  RunGoal
  <1>1. ~Recovering /\ ~Recovering'
    BY DEF Deletes, JournalDeletes, DeleteChunk, DeletesDone, DeleteChunkFails, Recovering
  <1>2. EndInv'
    BY DEF Deletes, JournalDeletes, DeleteChunk, DeletesDone, DeleteChunkFails, EndInv
  <1>t. TypeOK
    BY DEF IInv
  <1>3. ASSUME NEW f \in Files PROVE Safe(f, saved[f])' /\ FileInv(f)'
    <2>1. Safe(f, saved[f]) /\ Safe(f, mem[f]) /\ FileInv(f)
      BY <1>1, RunFacts
    <2>2. stage[f] # "current"
      BY <2>1 DEF Deletes, JournalDeletes, DeleteChunk, DeletesDone, DeleteChunkFails,
                  FileInv, PlaceInv
    <2>3. CASE JournalDeletes
      <3>1. PICK S \in DeleteChunks :
              /\ journal' = Recorded(journal, S, [g \in Files |-> Deleted])
              /\ stage' = Moved(S, "deleting")
        BY <2>3 DEF JournalDeletes
      <3>2. CASE f \in S
        <4>1. stage[f] = "delete" /\ stage'[f] = "deleting" /\ journal'[f] = Deleted
          BY <3>1, <3>2 DEF DeleteChunks, In, Recorded, Moved
        <4>2. /\ mem[f] # NoEntry /\ saved[f] = mem[f]
              /\ snap # NoSnapshot => snap[f] = mem[f]
          BY <4>1, <2>1 DEF FileInv, EntryInv, DeleteInv
        <4> QED
          BY <2>3, <4>1, <4>2
          DEF JournalDeletes, FileInv, EntryInv, DeleteInv, ParseInv, PlaceInv,
              FlightInv, Safe, Unresolved
      <3>3. CASE f \notin S
        <4>1. Untouched(f)
          BY <2>3, <3>1, <3>3, <2>2 DEF JournalDeletes, Recorded, Moved, Untouched
        <4> QED
          BY <4>1, <2>1, Frame
      <3> QED
        BY <3>2, <3>3
    <2>4. CASE DeleteChunk \/ DeleteChunkFails
      <3>1. CASE stage[f] = "deleting"
        <4>1. /\ Exposed(f, mem[f]) /\ saved[f] = mem[f]
              /\ snap # NoSnapshot => snap[f] = mem[f]
          BY <1>1, <3>1, ChangeExposed
        <4>2. journal' = journal /\ saved' = saved /\ snap' = snap
          BY <2>4 DEF DeleteChunk, DeleteChunkFails
        <4>3. Safe(f, saved[f])' /\ (snap' # NoSnapshot => Safe(f, snap[f])')
          BY <4>1, <4>2, ExposedSafe
        <4>4. stage'[f] = "done"
          BY <2>4, <3>1 DEF DeleteChunk, DeleteChunkFails, Moved, In
        <4>5. Safe(f, mem[f])'
          <5>1. CASE DeleteChunk
            BY <5>1, <3>1 DEF DeleteChunk, Safe, PointsAgree, Cleared, In, NoPoints
          <5>2. CASE DeleteChunkFails
            BY <5>2, <4>1, <4>2, ExposedSafe DEF DeleteChunkFails
          <5> QED
            BY <2>4, <5>1, <5>2
        <4> QED
          BY <4>3, <4>4, <4>5 DEF FileInv, EntryInv, DeleteInv, ParseInv, PlaceInv, FlightInv
      <3>2. CASE stage[f] # "deleting"
        <4>1. Untouched(f)
          BY <2>4, <3>2, <2>2, <1>t
          DEF DeleteChunk, DeleteChunkFails, Moved, In, Cleared, Untouched, TypeOK
        <4> QED
          BY <4>1, <2>1, Frame
      <3> QED
        BY <3>1, <3>2
    <2>5. CASE DeletesDone
      <3>1. /\ saved'[f] \in {saved[f], mem[f]} /\ mem' = mem /\ journal' = journal
            /\ points' = points /\ snap' = snap /\ stage' = stage
        BY <2>5 DEF DeletesDone
      <3>2. Safe(f, saved[f])'
        BY <3>1, <2>1 DEF Safe, PointsAgree, NoPoints, Full, NumChunks, Stored, Unresolved
      <3>3. EntryInv(f)'
        BY <3>1, <2>1 DEF FileInv, EntryInv, Safe, PointsAgree, NoPoints, Full,
                          NumChunks, Stored, Unresolved
      <3> QED
        BY <2>5, <2>1, <2>2, <3>2, <3>3
        DEF DeletesDone, FileInv, DeleteInv, ParseInv, PlaceInv, FlightInv, NumChunks, Stored, NoPoints
    <2> QED
      BY <2>3, <2>4, <2>5 DEF Deletes
  <1> QED
    BY <1>1, <1>2, <1>3, RunFiles

LEMMA ReadRun ==
  ASSUME IInv, Steady, NEW f \in Files, ReadFile(f)
  PROVE  RunGoal
  <1>1. ~Recovering /\ ~Recovering' /\ EndInv'
    BY DEF ReadFile, Parsing, Recovering, EndInv
  <1>2. Safe(f, saved[f]) /\ FileInv(f)
    BY <1>1, RunFacts
  <1>3. Safe(f, saved[f])' /\ FileInv(f)'
    <2>1. stage[f] = "parse" /\ stage'[f] = "read"
      BY DEF ReadFile, Moved, IInv, TypeOK
    <2>2. disk'[f] = scan'[f].hash => loaded'[f] = scan'[f]
      <3>1. scan[f] \in Entries /\ scan[f].hash \in Hashes
        BY <1>2, <2>1 DEF FileInv, ParseInv, IInv, StagedInv
      <3>2. disk[f] = scan[f].hash =>
              loaded'[f] = [hash |-> disk[f], dialect |-> scan[f].dialect]
        BY <3>1, RefreshConstants DEF ReadFile, Steady, IInv, TypeOK
      <3> QED
        BY <3>1, <3>2 DEF ReadFile, Entries
    <2> QED
      BY <1>2, <2>1, <2>2
      DEF ReadFile, FileInv, EntryInv, DeleteInv, ParseInv, PlaceInv, FlightInv,
          Safe, PointsAgree, NoPoints, Full, NumChunks, Stored, Unresolved
  <1>4. ASSUME NEW g \in Files, g # f PROVE Safe(g, saved[g])' /\ FileInv(g)'
    <2>1. Untouched(g)
      BY <1>4 DEF ReadFile, Moved, Untouched, IInv, TypeOK
    <2> QED
      BY <1>1, <2>1, RunFacts, Frame
  <1> QED
    BY <1>1, <1>3, <1>4, RunFiles

LEMMA VerifyRun ==
  ASSUME IInv, NEW f \in Files, VerifyFile(f)
  PROVE  RunGoal
  <1>1. ~Recovering /\ ~Recovering' /\ EndInv'
    BY DEF VerifyFile, Parsing, Recovering, EndInv
  <1>2. Safe(f, saved[f]) /\ FileInv(f)
    BY <1>1, RunFacts
  <1>3. Safe(f, saved[f])' /\ FileInv(f)'
    <2>1. stage[f] = "read" /\ stage'[f] = "parsed"
      BY DEF VerifyFile, Moved, IInv, TypeOK
    <2>2. /\ info'[f].hash \in {scan'[f].hash, EmptyHash}
          /\ info'[f].hash # EmptyHash => loaded'[f] = info'[f]
      <3>1. scan[f] \in Entries
        BY <2>1 DEF IInv, StagedInv
      <3>2. \/ disk[f] = scan[f].hash /\ info'[f] = scan[f]
            \/ info'[f] = [scan[f] EXCEPT !.hash = EmptyHash]
        BY DEF VerifyFile, IInv, TypeOK, Manifests
      <3>3. disk[f] = scan[f].hash => loaded[f] = scan[f]
        BY <1>2, <2>1 DEF FileInv, ParseInv
      <3>4. [scan[f] EXCEPT !.hash = EmptyHash].hash = EmptyHash
        BY <3>1 DEF Entries
      <3> QED
        BY <3>2, <3>3, <3>4 DEF VerifyFile
    <2> QED
      BY <1>2, <2>1, <2>2
      DEF VerifyFile, FileInv, EntryInv, DeleteInv, ParseInv, PlaceInv, FlightInv,
          Safe, PointsAgree, NoPoints, Full, NumChunks, Stored, Unresolved
  <1>4. ASSUME NEW g \in Files, g # f PROVE Safe(g, saved[g])' /\ FileInv(g)'
    <2>1. Untouched(g)
      BY <1>4 DEF VerifyFile, Moved, Untouched, IInv, TypeOK, Manifests
    <2> QED
      BY <1>1, <2>1, RunFacts, Frame
  <1> QED
    BY <1>1, <1>3, <1>4, RunFiles

LEMMA TakeRun ==
  ASSUME IInv, NEW f \in Files, Take(f)
  PROVE  RunGoal
  <1>1. ~Recovering /\ ~Recovering' /\ EndInv'
    BY DEF Take, Recovering, EndInv
  <1>2. \A g \in Files : Safe(g, saved[g]) /\ FileInv(g) /\ stage[g] # "current"
    BY <1>1, RunFacts DEF Take, FileInv, PlaceInv
  <1>3. \A g \in Files : stage'[g] = IF g = f THEN "current" ELSE stage[g]
    BY DEF Take, Moved
  <1>4. Safe(f, saved[f])' /\ FileInv(f)'
    <2>1. /\ saved[f] = mem[f] /\ (snap # NoSnapshot => snap[f] = mem[f])
          /\ journal[f] = NoLine /\ PointsAgree(f, mem[f])
      BY <1>2 DEF Take, FileInv, EntryInv
    <2>2. /\ journal'[f] = IF mem[f] = NoEntry THEN NoLine ELSE Deleted
          /\ mem[f] # NoEntry => pc' = "delold"
          /\ mem[f] = NoEntry => pc' = "place" /\ points[f] = NoPoints
      BY <2>1 DEF Take, Recorded, PointsAgree
    <2>3. ParseInv(f)'
      BY <1>2, <1>3 DEF Take, FileInv, ParseInv
    <2>4. Safe(f, mem[f])'
      BY <2>1, <2>2, JournalConstants
      DEF Take, Safe, Unresolved, PointsAgree, NoPoints, Full, NumChunks, Stored
    <2>5. Safe(f, saved[f])' /\ (snap' # NoSnapshot => Safe(f, snap[f])')
      BY <2>1, <2>4 DEF Take, Safe, PointsAgree
    <2>6. PlaceInv(f)'
      BY <1>2, <1>3, <2>2 DEF Take, PlaceInv, NoPoints
    <2> QED
      BY <1>3, <2>1, <2>3, <2>4, <2>5, <2>6
      DEF Take, FileInv, EntryInv, DeleteInv, FlightInv
  <1>5. ASSUME NEW g \in Files, g # f PROVE Safe(g, saved[g])' /\ FileInv(g)'
    <2>1. Untouched(g)
      BY <1>2, <1>3, <1>5 DEF Take, Untouched, Recorded
    <2> QED
      BY <1>2, <2>1, Frame
  <1> QED
    BY <1>1, <1>4, <1>5, RunFiles

LEMMA DeleteOldRun ==
  ASSUME IInv, NEW f \in Files, DeleteOld(f) \/ DeleteOldFails(f)
  PROVE  RunGoal
  <1>1. ~Recovering /\ ~Recovering' /\ EndInv'
    BY DEF DeleteOld, DeleteOldFails, Recovering, EndInv
  <1>2. \A g \in Files : Safe(g, saved[g]) /\ FileInv(g)
    BY <1>1, RunFacts
  <1>3. \A g \in Files : g # f =>
          stage[g] # "current" /\ stage'[g] = stage[g] /\ points'[g] = points[g]
    BY <1>2 DEF DeleteOld, DeleteOldFails, FileInv, PlaceInv, Moved, Cleared, IInv, TypeOK
  <1>4. Safe(f, saved[f])' /\ FileInv(f)'
    <2>1. /\ Exposed(f, mem[f]) /\ saved[f] = mem[f]
          /\ snap # NoSnapshot => snap[f] = mem[f]
      BY <1>1, ChangeExposed DEF DeleteOld, DeleteOldFails
    <2>2. journal' = journal /\ saved' = saved /\ snap' = snap /\ mem' = mem
      BY DEF DeleteOld, DeleteOldFails
    <2>3. /\ Safe(f, saved[f])' /\ Safe(f, mem[f])'
          /\ snap' # NoSnapshot => Safe(f, snap[f])'
      BY <2>1, <2>2, ExposedSafe
    <2>4. CASE DeleteOld(f)
      <3>1. points'[f] = NoPoints /\ NoPoints' = NoPoints
        BY <2>4 DEF DeleteOld, Cleared, NoPoints
      <3>2. PlaceInv(f)'
        BY <1>2, <2>4, <3>1 DEF DeleteOld, PlaceInv, FileInv
      <3>3. ParseInv(f)'
        BY <1>2, <2>4 DEF DeleteOld, ParseInv, FileInv
      <3> QED
        BY <2>1, <2>2, <2>3, <2>4, <3>2, <3>3
        DEF DeleteOld, FileInv, EntryInv, DeleteInv, FlightInv
    <2>5. CASE DeleteOldFails(f)
      <3>1. stage'[f] = "done"
        BY <2>5 DEF DeleteOldFails, Moved
      <3> QED
        BY <2>3, <3>1 DEF FileInv, EntryInv, DeleteInv, ParseInv, PlaceInv, FlightInv
    <2> QED
      BY <2>4, <2>5
  <1>5. ASSUME NEW g \in Files, g # f PROVE Safe(g, saved[g])' /\ FileInv(g)'
    <2>1. Untouched(g)
      BY <1>3, <1>5 DEF DeleteOld, DeleteOldFails, Untouched
    <2> QED
      BY <1>2, <2>1, Frame
  <1> QED
    BY <1>1, <1>4, <1>5, RunFiles

LEMMA PlaceRun ==
  ASSUME IInv, NEW f \in Files, PlaceEmpty(f) \/ PlaceInPool(f)
  PROVE  RunGoal
  <1>1. ~Recovering /\ ~Recovering' /\ EndInv'
    BY DEF PlaceEmpty, PlaceInPool, Recovering, EndInv
  <1>2. \A g \in Files : Safe(g, saved[g]) /\ FileInv(g)
    BY <1>1, RunFacts
  <1>3. \A g \in Files : g # f => stage[g] # "current" /\ stage'[g] = stage[g]
    BY <1>2 DEF PlaceEmpty, PlaceInPool, FileInv, PlaceInv, Moved
  <1>4. stage[f] = "current" /\ pc = "place" /\ points[f] = NoPoints
    BY <1>2 DEF PlaceEmpty, PlaceInPool, FileInv, PlaceInv
  <1>5. Safe(f, saved[f])' /\ FileInv(f)'
    <2>1. saved[f] = mem[f] /\ (snap # NoSnapshot => snap[f] = mem[f])
      BY <1>2, <1>4 DEF FileInv, EntryInv
    <2>2. CASE PlaceEmpty(f)
      <3>1. stage'[f] = "done" /\ journal'[f] = info[f].hash /\ mem'[f] = info[f]
        BY <2>2 DEF PlaceEmpty, Moved, Recorded, IInv, TypeOK, Manifests
      <3>2. mem[f] \in Entries \cup {NoEntry} /\ info[f] \in Entries /\ info[f] # NoEntry
        BY <1>4, JournalConstants DEF IInv, TypeOK, StagedInv, Manifests, Entries, EntryHashes
      <3>3. Safe(f, mem[f])'
        <4>1. info[f].hash # EmptyHash => loaded[f] = info[f]
          BY <1>2, <1>4 DEF FileInv, ParseInv
        <4>2. info[f].hash # EmptyHash => Full(info[f]) = NoPoints
          BY <2>2, <4>1 DEF PlaceEmpty, Full, NoPoints, Indices, NumChunks, Stored
        <4>3. points'[f] = NoPoints /\ NoPoints' = NoPoints /\ Full(mem[f])' = Full(info[f])
          BY <2>2, <1>4, <3>1 DEF PlaceEmpty, Full, NumChunks, Stored, NoPoints
        <4> QED
          BY <3>1, <3>2, <4>2, <4>3 DEF Safe, PointsAgree
      <3>4. ASSUME NEW x, x = mem[f], journal'[f] = info[f].hash PROVE Safe(f, x)'
        BY <3>2, <3>4, <1>1, <1>4, AnnouncedExposed, JournalConstants
        DEF Safe, PointsAgree, Unresolved
      <3>5. Safe(f, saved[f])' /\ (snap' # NoSnapshot => Safe(f, snap[f])')
        BY <2>1, <2>2, <3>1, <3>4 DEF PlaceEmpty, Safe, PointsAgree
      <3> QED
        BY <3>1, <3>3, <3>5 DEF FileInv, EntryInv, DeleteInv, ParseInv, PlaceInv, FlightInv
    <2>3. CASE PlaceInPool(f)
      <3>1. stage'[f] = "pool"
        BY <2>3 DEF PlaceInPool, Moved
      <3>2. EntryInv(f)' /\ Safe(f, saved[f])'
        BY <1>2, <2>1, <2>3, <3>1
        DEF PlaceInPool, FileInv, EntryInv, Safe, PointsAgree, NoPoints, Full, NumChunks, Stored, Unresolved
      <3>3. ParseInv(f)'
        BY <1>2, <1>4, <2>3, <3>1 DEF PlaceInPool, FileInv, ParseInv
      <3>4. PlaceInv(f)'
        BY <1>2, <1>4, <2>3, <3>1 DEF PlaceInPool, FileInv, PlaceInv, NoPoints
      <3> QED
        BY <3>1, <3>2, <3>3, <3>4 DEF FileInv, DeleteInv, FlightInv
    <2> QED
      BY <2>2, <2>3
  <1>6. ASSUME NEW g \in Files, g # f PROVE Safe(g, saved[g])' /\ FileInv(g)'
    <2>1. Untouched(g)
      BY <1>3, <1>6 DEF PlaceEmpty, PlaceInPool, Untouched, Recorded,
                            IInv, TypeOK, Manifests
    <2> QED
      BY <1>2, <2>1, Frame
  <1> QED
    BY <1>1, <1>5, <1>6, RunFiles

LEMMA FlushRun ==
  ASSUME IInv, Flush
  PROVE  RunGoal
  <1>1. ~Recovering /\ ~Recovering' /\ EndInv'
    BY DEF Flush, Recovering, EndInv
  <1>2. \A g \in Files : Safe(g, saved[g]) /\ FileInv(g)
    BY <1>1, RunFacts
  <1>3. \A g \in Files : stage[g] \notin {"current", "flight"}
    BY <1>2 DEF Flush, FileInv, PlaceInv, FlightInv
  <1>4. ASSUME NEW f \in Files, stage[f] = "pool"
        PROVE  Safe(f, saved[f])' /\ FileInv(f)'
    <2>1. stage'[f] = "flight" /\ journal'[f] = info[f].hash
      BY <1>4 DEF Flush, Moved, In, Recorded
    <2>2. saved[f] = mem[f] /\ (snap # NoSnapshot => snap[f] = mem[f]) /\ points[f] = NoPoints
      BY <1>2, <1>4 DEF FileInv, EntryInv, PlaceInv
    <2>3. Safe(f, mem[f])'
      <3>1. mem[f] \in Entries \cup {NoEntry}
        BY DEF IInv, TypeOK, Manifests
      <3>2. mem' = mem
        BY DEF Flush
      <3> QED
        BY <1>1, <1>4, <2>1, <3>1, <3>2, AnnouncedExposed, JournalConstants
        DEF Safe, PointsAgree, Unresolved
    <2>4. Safe(f, saved[f])' /\ (snap' # NoSnapshot => Safe(f, snap[f])')
      BY <2>2, <2>3 DEF Flush, Safe, PointsAgree
    <2>5. FlightInv(f)'
      <3>1. \A i \in Indices : <<f, i>> \in unsent' <=> Stored(loaded[f], i)
        BY <1>4 DEF Flush, In
      <3>2. \A i \in Indices : points'[f][i] = NoPoint
        BY <2>2 DEF Flush, NoPoints
      <3> QED
        BY <2>1, <3>1, <3>2 DEF Flush, FlightInv, NumChunks, Stored
    <2>6. ParseInv(f)'
      BY <1>2, <1>4, <2>1 DEF Flush, FileInv, ParseInv
    <2> QED
      BY <2>1, <2>2, <2>3, <2>4, <2>5, <2>6
      DEF Flush, FileInv, EntryInv, DeleteInv, PlaceInv
  <1>5. ASSUME NEW g \in Files, stage[g] # "pool" PROVE Safe(g, saved[g])' /\ FileInv(g)'
    <2>1. Untouched(g)
      BY <1>3, <1>5 DEF Flush, Untouched, Recorded, Moved, In
    <2> QED
      BY <1>2, <2>1, Frame
  <1> QED
    BY <1>1, <1>4, <1>5, RunFiles

\* While the upsert worker is busy the run has left recovery and not ended.
LEMMA WorkerRuns == ASSUME IInv, worker = "busy"
                    PROVE  ~Recovering /\ pc \notin {"connect", "finish", "finalize"}
  BY DEF IInv, QuietInv, EndInv

LEMMA UpsertRun ==
  ASSUME IInv, UpsertFails \/ \E f \in Files, i \in Indices : Upsert(f, i)
  PROVE  RunGoal
  <1>0. worker = "busy" /\ pc' = pc
    BY DEF UpsertFails, Upsert
  <1>1. ~Recovering /\ ~Recovering' /\ EndInv'
    BY <1>0, WorkerRuns DEF Recovering, EndInv
  <1>2. \A g \in Files : Safe(g, saved[g]) /\ FileInv(g)
    BY <1>1, RunFacts
  <1>3. /\ journal' = journal /\ saved' = saved /\ mem' = mem /\ snap' = snap
        /\ scan' = scan /\ info' = info /\ loaded' = loaded /\ disk' = disk
    BY DEF UpsertFails, Upsert
  <1>4. PICK S \in SUBSET unsent : points' = WithPoints(S)
    BY DEF UpsertFails, Upsert
  <1>5. \A r \in S : r[1] \in Files /\ r \in unsent
    BY DEF IInv, TypeOK
  <1>6. ASSUME NEW f \in Files, stage[f] = "flight"
        PROVE  Safe(f, saved[f])' /\ FileInv(f)'
    <2>1. /\ Exposed(f, mem[f]) /\ saved[f] = mem[f]
          /\ snap # NoSnapshot => snap[f] = mem[f]
      BY <1>1, <1>6, ChangeExposed
    <2>2. /\ Safe(f, saved[f])' /\ Safe(f, mem[f])'
          /\ snap' # NoSnapshot => Safe(f, snap[f])'
      BY <1>3, <2>1, ExposedSafe
    <2>3. CASE UpsertFails
      <3>1. stage'[f] = "done"
        BY <1>6, <2>3 DEF UpsertFails, Moved, In
      <3> QED
        BY <2>2, <3>1 DEF FileInv, EntryInv, DeleteInv, ParseInv, PlaceInv, FlightInv
    <2>4. ASSUME NEW g \in Files, NEW j \in Indices, Upsert(g, j)
          PROVE  Safe(f, saved[f])' /\ FileInv(f)'
      <3>1. stage' = stage /\ worker' = worker
        BY <2>4 DEF Upsert
      <3>2. FlightInv(f)'
        <4>1. \A i \in Indices :
                /\ points'[f][i] = IF <<f, i>> = <<g, j>> THEN loaded[f] ELSE points[f][i]
                /\ <<f, i>> \in unsent' <=> <<f, i>> \in unsent /\ <<f, i>> # <<g, j>>
          BY <2>4 DEF Upsert, WithPoints
        <4>2. \A i \in Indices : <<f, i>> \in unsent => Stored(loaded[f], i)
          BY DEF IInv, StagedInv
        <4>3. <<g, j>> \in unsent
          BY <2>4 DEF Upsert
        <4> QED
          BY <1>2, <1>3, <1>6, <3>1, <4>1, <4>2, <4>3 DEF FileInv, FlightInv, NumChunks, Stored
      <3>3. ParseInv(f)'
        BY <1>2, <1>3, <3>1 DEF FileInv, ParseInv
      <3> QED
        BY <1>3, <1>6, <2>1, <2>2, <3>1, <3>2, <3>3
        DEF FileInv, EntryInv, DeleteInv, PlaceInv
    <2> QED
      BY <2>3, <2>4
  <1>7. ASSUME NEW g \in Files, stage[g] # "flight" PROVE Safe(g, saved[g])' /\ FileInv(g)'
    <2>1. \A i \in Indices : <<g, i>> \notin unsent
      BY <1>7 DEF IInv, StagedInv
    <2>2. points'[g] = points[g]
      BY <1>4, <2>1 DEF WithPoints, IInv, TypeOK
    <2>3. stage'[g] = stage[g] /\ \A h \in Files : stage'[h] = "current" => stage[h] = "current"
      BY <1>7 DEF UpsertFails, Upsert, Moved, In
    <2>4. Untouched(g)
      BY <1>0, <1>3, <1>7, <2>2, <2>3 DEF Untouched
    <2> QED
      BY <1>2, <2>4, Frame
  <1> QED
    BY <1>1, <1>6, <1>7, RunFiles

LEMMA RecordRun ==
  ASSUME IInv, NEW f \in Files, RecordFile(f)
  PROVE  RunGoal
  <1>1. ~Recovering /\ ~Recovering' /\ EndInv'
    BY WorkerRuns DEF RecordFile, Recovering, EndInv
  <1>2. \A g \in Files : Safe(g, saved[g]) /\ FileInv(g)
    BY <1>1, RunFacts
  <1>3. \A g \in Files : g # f => stage'[g] = stage[g] /\ mem'[g] = mem[g]
    BY DEF RecordFile, Moved, IInv, TypeOK, Manifests
  <1>4. Safe(f, saved[f])' /\ FileInv(f)'
    <2>1. stage[f] = "flight" /\ stage'[f] = "done" /\ mem'[f] = info[f]
      BY DEF RecordFile, Moved, IInv, TypeOK, Manifests
    <2>2. Safe(f, saved[f])' /\ (snap' # NoSnapshot => Safe(f, snap[f])')
      <3>1. /\ journal' = journal /\ points' = points /\ saved' = saved /\ snap' = snap
            /\ Safe(f, saved[f]) /\ (snap # NoSnapshot => Safe(f, snap[f]))
        BY <1>2 DEF RecordFile, FileInv, EntryInv
      <3> QED
        BY <3>1, SafeSame
    <2>3. Safe(f, mem[f])'
      <3>1. info[f] \in Entries /\ info[f] # NoEntry
        BY <2>1, JournalConstants DEF IInv, StagedInv, Entries, EntryHashes
      <3>2. info[f].hash # EmptyHash => loaded[f] = info[f]
        BY <1>2, <2>1 DEF FileInv, ParseInv
      <3>3. \A i \in Indices :
              points[f][i] = IF Stored(loaded[f], i) THEN loaded[f] ELSE NoPoint
        BY <1>2, <2>1 DEF RecordFile, FileInv, FlightInv
      <3>4. info[f].hash # EmptyHash => points[f] = Full(info[f])
        BY <3>2, <3>3 DEF Full, IInv, TypeOK
      <3>5. points' = points /\ Full(mem[f])' = Full(info[f])
        BY <2>1 DEF RecordFile, Full, NumChunks, Stored
      <3> QED
        BY <2>1, <3>1, <3>4, <3>5 DEF Safe, PointsAgree
    <2> QED
      BY <2>1, <2>2, <2>3 DEF FileInv, EntryInv, DeleteInv, ParseInv, PlaceInv, FlightInv
  <1>5. ASSUME NEW g \in Files, g # f PROVE Safe(g, saved[g])' /\ FileInv(g)'
    <2>1. stage[g] = "flight" => worker' = worker
      BY <1>5 DEF RecordFile, In
    <2>2. Untouched(g)
      BY <1>3, <1>5, <2>1 DEF RecordFile, Untouched, Moved
    <2> QED
      BY <1>2, <2>2, Frame
  <1> QED
    BY <1>1, <1>4, <1>5, RunFiles

LEMMA SavesRun ==
  ASSUME IInv, Drain \/ WriteSnapshot \/ WriteFails \/ SaveFinal \/ AbortSave
  PROVE  RunGoal
  <1>1. ~Recovering /\ ~Recovering'
    BY DEF Drain, WriteSnapshot, WriteFails, SaveFinal, AbortSave, IInv, QuietInv, Recovering
  <1>2. EndInv'
    BY DEF Drain, WriteSnapshot, WriteFails, SaveFinal, AbortSave, IInv, EndInv
  <1>3. \A g \in Files : Safe(g, saved[g]) /\ Safe(g, mem[g]) /\ FileInv(g)
    BY <1>1, RunFacts
  <1>4. /\ UNCHANGED <<disk, points, journal, mem, scan, stage, loaded, info, unsent>>
        /\ saved' = saved \/ saved' = mem \/ (snap # NoSnapshot /\ saved' = snap)
        /\ snap' \in {snap, NoSnapshot, mem}
    BY DEF Drain, WriteSnapshot, WriteFails, SaveFinal, AbortSave
  <1>5. ASSUME NEW f \in Files PROVE Safe(f, saved[f])' /\ FileInv(f)'
    <2>1. /\ stage[f] = "current" => pc' = pc
          /\ stage[f] = "flight" => worker' = worker
      BY <1>3 DEF Drain, WriteSnapshot, WriteFails, SaveFinal, AbortSave,
                  FileInv, PlaceInv, FlightInv
    <2>2. Safe(f, saved[f])'
      <3>1. saved'[f] \in {saved[f], mem[f]} \/ (snap # NoSnapshot /\ saved'[f] = snap[f])
        BY <1>4
      <3>2. Safe(f, saved'[f])
        BY <1>3, <3>1 DEF FileInv, EntryInv
      <3> QED
        BY <1>4, <3>2 DEF Safe, PointsAgree, NoPoints, Full, NumChunks, Stored, Unresolved
    <2>3. EntryInv(f)'
      <3>1. Safe(f, mem[f])' /\ (snap' # NoSnapshot => Safe(f, snap[f])')
        <4>1. Safe(f, mem[f]) /\ (snap # NoSnapshot => Safe(f, snap[f]))
          BY <1>3 DEF FileInv, EntryInv
        <4> QED
          BY <1>4, <4>1 DEF Safe, PointsAgree, NoPoints, Full, NumChunks, Stored, Unresolved
      <3>2. stage'[f] # "done" =>
              saved'[f] = mem'[f] /\ (snap' # NoSnapshot => snap'[f] = mem'[f])
        BY <1>3, <1>4 DEF FileInv, EntryInv
      <3>3. PointsAgree(f, mem[f])' <=> PointsAgree(f, mem[f])
        BY <1>4 DEF PointsAgree, NoPoints, Full, NumChunks, Stored
      <3> QED
        BY <1>3, <1>4, <3>1, <3>2, <3>3 DEF FileInv, EntryInv
    <2> QED
      BY <1>3, <1>4, <2>1, <2>2, <2>3
      DEF FileInv, DeleteInv, ParseInv, PlaceInv, FlightInv, NumChunks, Stored, NoPoints
  <1> QED
    BY <1>1, <1>2, <1>5, RunFiles

LEMMA FinishRun ==
  ASSUME IInv, FinishJournal
  PROVE  RunGoal
  <1>1. ~Recovering /\ ~Recovering' /\ EndInv'
    BY DEF FinishJournal, Recovering, IInv, EndInv
  <1>2. \A g \in Files : Safe(g, saved[g]) /\ Safe(g, mem[g]) /\ FileInv(g)
    BY <1>1, RunFacts
  <1>3. saved = mem /\ worker = "idle" /\ snap = NoSnapshot
    BY DEF FinishJournal, IInv, EndInv
  <1>4. ASSUME NEW f \in Files PROVE Safe(f, saved[f])' /\ FileInv(f)'
    <2>1. stage[f] \notin {"current", "flight"}
      BY <1>2, <1>3 DEF FinishJournal, FileInv, PlaceInv, FlightInv
    <2>2. journal'[f] = IF Unresolved(journal[f], mem[f]) THEN journal[f] ELSE NoLine
      BY DEF FinishJournal, Finished, UnresolvedKeys
    <2>3. Safe(f, mem[f])' /\ Safe(f, saved[f])'
      BY <1>2, <1>3, <2>2 DEF FinishJournal, Safe, PointsAgree, NoPoints, Full,
                              NumChunks, Stored, Unresolved
    <2>4. EntryInv(f)'
      BY <1>2, <1>3, <2>2, <2>3
      DEF FinishJournal, FileInv, EntryInv, PointsAgree, NoPoints, Full, NumChunks, Stored
    <2>5. DeleteInv(f)' /\ PlaceInv(f)'
      BY <1>2, <2>1, <2>2 DEF FinishJournal, FileInv, DeleteInv, PlaceInv, NoPoints, Unresolved
    <2> QED
      BY <1>2, <2>1, <2>3, <2>4, <2>5 DEF FinishJournal, FileInv, ParseInv, FlightInv
  <1> QED
    BY <1>1, <1>4, RunFiles

LEMMA EditSafe ==
  ASSUME IInv, NEW f \in Files, NEW h \in Hashes \cup {NoFile}, EditFile(f, h)
  PROVE  Covered' /\ RecoveryInv' /\ EndInv' /\ (~Recovering' => \A g \in Files : FileInv(g)')
  <1>1. Covered' /\ RecoveryInv' /\ EndInv'
    BY DEF EditFile, IInv, Covered, RecoveryInv, EndInv, PointsAgree, NoPoints, Full,
           NumChunks, Stored, Unresolved
  <1>2. ASSUME ~Recovering', NEW g \in Files PROVE FileInv(g)'
    <2>1. FileInv(g)
      BY <1>2 DEF EditFile, IInv, Recovering
    <2>2. CASE g = f
      <3>1. stage[f] = "read" => disk'[f] # scan'[f].hash
        BY RefreshConstants DEF EditFile, IInv, TypeOK, StagedInv
      <3>2. ParseInv(f)'
        BY <2>1, <2>2, <3>1 DEF EditFile, FileInv, ParseInv
      <3> QED
        BY <2>1, <2>2, <3>2
        DEF EditFile, FileInv, EntryInv, DeleteInv, PlaceInv, FlightInv, Safe,
            PointsAgree, NoPoints, Full, NumChunks, Stored, Unresolved
    <2>3. CASE g # f
      <3>1. Untouched(g)
        BY <2>3 DEF EditFile, Untouched, IInv, TypeOK
      <3> QED
        BY <2>1, <3>1, Frame
    <2> QED
      BY <2>2, <2>3
  <1> QED
    BY <1>1, <1>2

LEMMA IdleSafe ==
  ASSUME IInv, UNCHANGED vars \/ \E d \in Dialects : ChangeDialect(d)
  PROVE  Covered' /\ RecoveryInv' /\ EndInv' /\ (~Recovering' => \A g \in Files : FileInv(g)')
  <1>1. UNCHANGED <<disk, points, saved, journal, pc, mem, scan, stage,
                    loaded, info, unsent, worker, snap>>
    BY DEF vars, ChangeDialect
  <1>2. Covered' /\ RecoveryInv' /\ EndInv'
    BY <1>1 DEF IInv, Covered, RecoveryInv, EndInv, PointsAgree, NoPoints, Full,
           NumChunks, Stored, Unresolved
  <1>3. ASSUME ~Recovering', NEW g \in Files PROVE FileInv(g)'
    <2>1. FileInv(g)
      BY <1>1, <1>3 DEF IInv, Recovering
    <2>2. Untouched(g)
      BY <1>1 DEF Untouched
    <2> QED
      BY <2>1, <2>2, Frame
  <1> QED
    BY <1>2, <1>3

LEMMA InitIInv == Init => IInv
  <1> SUFFICES ASSUME Init PROVE IInv
    OBVIOUS
  <1>1. TypeOK /\ StagedInv /\ QuietInv
    BY InitType, InitStaged DEF Init, QuietInv
  <1>2. Covered
    BY DEF Init, Covered, PointsAgree, EmptyManifest
  <1> QED
    BY <1>1, <1>2 DEF Init, IInv, RecoveryInv, EndInv, Recovering

LEMMA NextIInv ==
  ASSUME Steady
  PROVE  IInv /\ [Next]_vars => IInv'
  <1> SUFFICES ASSUME IInv, [Next]_vars PROVE IInv'
    OBVIOUS
  <1>1. TypeOK' /\ StagedInv' /\ QuietInv'
    BY NextType, NextStaged, NextQuiet DEF IInv
  <1> DEFINE Goal == /\ Covered' /\ RecoveryInv' /\ EndInv'
                     /\ ~Recovering' => \A f \in Files : FileInv(f)'
  <1> SUFFICES Goal
    BY <1>1 DEF IInv
  <1>2. RunGoal => Goal
    BY DEF RunGoal
  <1>3. CASE Start \/ Recovery \/ Scan
    BY <1>3, StartSafe
  <1>4. CASE Crash \/ TornRecord \/ RecoverFails \/ Finalize \/ Exit
    <2>1. Covered'
      BY <1>4, GoneSafe
    <2>2. pc' = "off"
      BY <1>4 DEF Crash, TornRecord, RecoverFails, Finalize, Exit, ProcessGone
    <2> QED
      BY <2>1, <2>2 DEF RecoveryInv, EndInv, Recovering
  <1>5. CASE Connect \/ Unreachable \/ LoopDone \/ SetupFails \/ Abort
    BY <1>2, <1>5, PlainRun
  <1>6. CASE Deletes \/ DeleteChunkFails
    BY <1>2, <1>6, DeletesRun
  <1>7. CASE Parser
    BY <1>2, <1>7, ReadRun, VerifyRun DEF Parser
  <1>8. CASE MainLoop \/ \E f \in Files : DeleteOldFails(f)
    <2>1. ASSUME NEW f \in Files,
                 \/ Take(f) \/ DeleteOld(f) \/ DeleteOldFails(f)
                 \/ PlaceEmpty(f) \/ PlaceInPool(f)
          PROVE  Goal
      BY <1>2, <2>1, TakeRun, DeleteOldRun, PlaceRun
    <2>2. CASE LoopDone \/ Drain \/ Flush
      BY <1>2, <2>2, PlainRun, SavesRun, FlushRun
    <2> QED
      BY <1>8, <2>1, <2>2 DEF MainLoop
  <1>9. CASE Worker \/ UpsertFails
    BY <1>2, <1>9, UpsertRun, RecordRun DEF Worker
  <1>10. CASE WriteSnapshot \/ WriteFails \/ SaveFinal \/ AbortSave
    BY <1>2, <1>10, SavesRun
  <1>11. CASE FinishJournal
    BY <1>2, <1>11, FinishRun
  <1>12. ASSUME NEW f \in Files, NEW h \in Hashes \cup {NoFile}, EditFile(f, h)
         PROVE  Goal
    BY <1>12, EditSafe
  <1>13. CASE UNCHANGED vars \/ \E d \in Dialects : ChangeDialect(d)
    BY <1>13, IdleSafe
  <1> QED
    BY <1>3, <1>4, <1>5, <1>6, <1>7, <1>8, <1>9, <1>10, <1>11, <1>12, <1>13
    DEF Next, Step, Fault, Ending

\* A step that changes points finds the old entry exposed.
LEMMA NextAnnounced ==
  IInv /\ [Next]_vars => AnnouncedFirst
  <1> SUFFICES ASSUME IInv, [Next]_vars, NEW f \in Files, points'[f] # points[f]
               PROVE  Exposed(f, saved[f])
    BY DEF AnnouncedFirst
  <1>t. points \in [Files -> [Indices -> Versions \cup {NoPoint}]]
    BY DEF IInv, TypeOK
  <1>1. ASSUME NEW g \in Files, stage[g] \in {"deleting", "flight"}
                                 \/ (stage[g] = "current" /\ pc = "delold"),
               ~Recovering, g = f
        PROVE  Exposed(f, saved[f])
    BY <1>1, ChangeExposed
  <1>2. CASE RecoverDelete \/ RecoverFails
    <2>1. f \in Stale /\ mem = saved
      BY <1>2, <1>t DEF RecoverDelete, RecoverFails, Cleared, IInv, RecoveryInv
    <2> QED
      BY <2>1 DEF Stale, UnresolvedKeys, Exposed
  <1>3. CASE DeleteChunk \/ DeleteChunkFails
    <2>1. stage[f] = "deleting" /\ ~Recovering
      BY <1>3, <1>t DEF DeleteChunk, DeleteChunkFails, Cleared, In, Recovering
    <2> QED
      BY <1>1, <2>1
  <1>4. ASSUME NEW g \in Files, DeleteOld(g) \/ DeleteOldFails(g)
        PROVE  Exposed(f, saved[f])
    <2>1. g = f
      BY <1>4, <1>t DEF DeleteOld, DeleteOldFails, Cleared
    <2> QED
      BY <1>1, <1>4, <2>1 DEF DeleteOld, DeleteOldFails, Recovering
  <1>5. CASE UpsertFails \/ \E g \in Files, i \in Indices : Upsert(g, i)
    <2>1. PICK S \in SUBSET unsent : points' = WithPoints(S)
      BY <1>5 DEF UpsertFails, Upsert
    <2>2. \E i \in Indices : <<f, i>> \in S
      BY <1>t, <2>1 DEF WithPoints
    <2>3. stage[f] = "flight" /\ ~Recovering
      BY <1>5, <2>2, WorkerRuns DEF UpsertFails, Upsert, IInv, StagedInv
    <2> QED
      BY <1>1, <2>3
  <1>6. CASE points' = points
    BY <1>6
  <1>7. \/ RecoverDelete \/ RecoverFails \/ DeleteChunk \/ DeleteChunkFails
        \/ \E g \in Files : DeleteOld(g) \/ DeleteOldFails(g)
        \/ UpsertFails \/ \E g \in Files, i \in Indices : Upsert(g, i)
        \/ points' = points
    BY DEF Next, Step, Fault, Recovery, Deletes, Parser, MainLoop, Worker, Ending, vars,
           durable, Start, RecoverNothing, RecoverSave, RecoverUnlink, Scan, Connect,
           JournalDeletes, DeletesDone, ReadFile, VerifyFile, Take, PlaceEmpty,
           PlaceInPool, LoopDone, Drain, Flush, RecordFile, WriteSnapshot, SaveFinal,
           FinishJournal, Finalize, AbortSave, Exit, EditFile, ChangeDialect, Crash,
           TornRecord, SetupFails, Abort, Unreachable, WriteFails
  <1> QED
    BY <1>2, <1>3, <1>4, <1>5, <1>6, <1>7

\* What a run holds in memory agrees with the disk, the points, the manifest
\* and the journal as IInv says, at every instant and after every kill.
THEOREM InvariantHolds ==
  ASSUME Steady
  PROVE  Spec => []IInv
  <1> QED
    BY InitIInv, NextIInv, PTL DEF Spec

\* At every instant of every run, whatever was killed before: a file whose
\* points are not what index_manifest.json says has a journal line from which
\* recover_pending_points repairs it.
THEOREM JournalCovers ==
  ASSUME Steady
  PROVE  Spec => []Covered
  <1>1. IInv => Covered
    BY DEF IInv
  <1> QED
    BY <1>1, InitIInv, NextIInv, PTL DEF Spec

\* No point is deleted or upserted before the journal on disk contradicts the
\* saved manifest about its file: write-ahead, in every interleaving of the
\* main thread, the parser, the upsert worker and the manifest writer.
THEOREM WritesAhead ==
  ASSUME Steady
  PROVE  Spec => WriteAhead
  <1> QED
    BY InitIInv, NextIInv, NextAnnounced, PTL DEF Spec, WriteAhead

\* Only a scan takes up a file that is idle, and it leaves one alone whose
\* entry has the hash and the dialect of the bytes on disk.
LEMMA IdleStays ==
  ASSUME Steady, IInv, [Next]_vars, NEW f \in Files, stage[f] = "idle",
         disk[f] # NoFile, saved[f] = State(disk[f])
  PROVE  stage'[f] = "idle"
  <1>1. CASE Scan
    <2>1. mem[f] = saved[f]
      BY <1>1 DEF Scan, IInv, Recovering, FileInv, EntryInv
    <2>2. scan'[f] = State(disk[f]) /\ stage'[f] = Action(mem[f], scan'[f])
      BY <1>1 DEF Scan, Steady
    <2>3. State(disk[f]) # NoFile /\ State(disk[f]) # NoEntry
      BY RefreshConstants, JournalConstants DEF IInv, TypeOK, State, Manifests, Entries, EntryHashes
    <2> QED
      BY <2>1, <2>2, <2>3 DEF Action
  <1>2. CASE ProcessGone
    BY <1>2 DEF ProcessGone
  <1>3. ASSUME NEW S \in SUBSET Files, NEW st, stage' = Moved(S, st),
               \A g \in S : stage[g] # "idle"
        PROVE  stage'[f] = "idle"
    BY <1>3 DEF Moved
  <1>4. CASE stage' = stage
    BY <1>4
  <1>5. CASE \E g \in Files, st \in Stages : stage' = Moved({g}, st) /\ stage[g] # "idle"
    BY <1>3, <1>5
  <1>6. CASE \E from \in Stages \ {"idle"}, st \in Stages :
               \E S \in SUBSET In(from) : stage' = Moved(S, st)
    BY <1>3, <1>6 DEF In
  <1>7. \/ Scan \/ ProcessGone \/ stage' = stage
        \/ \E g \in Files, st \in Stages : stage' = Moved({g}, st) /\ stage[g] # "idle"
        \/ \E from \in Stages \ {"idle"}, st \in Stages :
             \E S \in SUBSET In(from) : stage' = Moved(S, st)
    <2>1. CASE Step
      <3>1. CASE Recovery \/ Start \/ Scan \/ Connect
        BY <3>1 DEF Recovery, RecoverNothing, RecoverDelete, RecoverSave, RecoverUnlink, Start, Connect
      <3>2. CASE Deletes
        BY <3>2 DEF Deletes, JournalDeletes, DeleteChunk, DeletesDone, DeleteChunks, Stages
      <3>3. CASE Parser \/ MainLoop
        BY <3>3 DEF Parser, ReadFile, VerifyFile, MainLoop, Take, DeleteOld, PlaceEmpty,
                    PlaceInPool, LoopDone, Drain, Flush, Stages
      <3>4. CASE Worker \/ WriteSnapshot \/ Ending
        BY <3>4 DEF Worker, Upsert, RecordFile, WriteSnapshot, Ending, SaveFinal,
                    FinishJournal, Finalize, AbortSave, Exit, Stages
      <3> QED
        BY <2>1, <3>1, <3>2, <3>3, <3>4 DEF Step
    <2>2. CASE Fault
      BY <2>2 DEF Fault, EditFile, ChangeDialect, Crash, TornRecord, SetupFails, Abort, Unreachable, RecoverFails,
                  DeleteChunkFails, UpsertFails, WriteFails, DeleteOldFails, Stages
    <2>3. CASE UNCHANGED vars
      BY <2>3 DEF vars
    <2> QED
      BY <2>1, <2>2, <2>3 DEF Next
  <1> QED
    BY <1>1, <1>2, <1>4, <1>5, <1>6, <1>7

\* A file that is finished is not touched: no kill, failure or restart makes a
\* run delete it or embed it again while its bytes stay as they are.
THEOREM FinishedWorkKept ==
  ASSUME Steady
  PROVE  Spec => KeepsFinishedWork
  <1>1. ASSUME IInv, [Next]_vars, NEW f \in Files, stage[f] = "idle", disk[f] # NoFile,
               saved[f] = State(disk[f]), journal[f] \in {NoLine, saved[f].hash}
        PROVE  stage'[f] = "idle" /\ points'[f] = points[f]
    <2>1. disk[f] \in Hashes /\ saved[f].hash = disk[f] /\ saved[f] # NoEntry
      BY <1>1, JournalConstants DEF IInv, TypeOK, State, Manifests, Entries, EntryHashes
    <2>2. ~Exposed(f, saved[f])
      BY <1>1, <2>1, JournalConstants DEF Exposed, Unresolved, EntryHashes
    <2> QED
      BY <1>1, <2>2, IdleStays, NextAnnounced DEF AnnouncedFirst
  <1>2. IInv /\ [Next]_vars => FinishedStays
    BY <1>1 DEF FinishedStays
  <1> QED
    BY <1>2, InitIInv, NextIInv, PTL DEF Spec, KeepsFinishedWork

-----------------------------------------------------------------------------
(* A run without errors does all that its scan asks for.                    *)

\* A file a step inside a run leaves alone, on a statement no further on.
LEMMA SameProgress ==
  ASSUME NEW f \in Files, Progress(f), ~Recovering, pc # "scan",
         stage'[f] = stage[f], scan' = scan, mem'[f] = mem[f], errors => errors',
         pc' \in {"drain", "finish"} =>
           pc = "drain" \/ stage[f] \notin {"delete", "parse", "read", "parsed", "pool"},
         pc' \in {"loop", "delold", "place", "flush"} =>
           \/ pc \in {"loop", "delold", "place", "flush", "drain"}
           \/ stage[f] # "delete",
         pc = "deleting" => pc' = "deleting" \/ stage[f] # "deleting"
  PROVE  Progress(f)'
  BY DEF Progress, AsScanned, Recovering

\* A file that gets its new entry gets the one the scan asks for.
LEMMA EntryAsScanned ==
  ASSUME IInv, ~Recovering, NEW f \in Files, stage[f] \in {"current", "flight"},
         pc # "delold" \/ stage[f] = "flight",
         mem'[f] = info[f], scan' = scan
  PROVE  AsScanned(f)'
  <1>1. scan[f] \in Entries /\ info[f] \in Entries
    BY DEF IInv, StagedInv
  <1>2. scan[f] # NoFile /\ info[f] # NoEntry
    BY <1>1, RefreshConstants, JournalConstants DEF Entries, EntryHashes
  <1>3. info[f].hash \in {scan[f].hash, EmptyHash}
    BY DEF IInv, FileInv, ParseInv
  <1> QED
    BY <1>2, <1>3 DEF AsScanned

LEMMA StartProgress ==
  ASSUME IInv, ProcessGone \/ Start \/ Recovery \/ Scan, NEW f \in Files
  PROVE  Progress(f)'
  <1>1. CASE ProcessGone
    BY <1>1 DEF ProcessGone, Progress, Recovering
  <1>2. CASE Start \/ Recovery
    BY <1>2 DEF Start, Recovery, RecoverNothing, RecoverDelete, RecoverSave, RecoverUnlink,
                IInv, QuietInv, Recovering, Progress
  <1>3. CASE Scan
    <2>1. stage'[f] = Action(mem[f], scan'[f]) /\ mem' = mem /\ pc' \in {"finalize", "connect"}
      BY <1>3 DEF Scan
    <2>2. stage'[f] \in {"idle", "delete", "parse"}
      BY <2>1 DEF Action
    <2>3. stage'[f] = "delete" => scan'[f] = NoFile
      BY <2>1 DEF Action
    <2>4. stage'[f] = "idle" => AsScanned(f)'
      BY <2>1 DEF Action, AsScanned
    <2> QED
      BY <2>1, <2>2, <2>3, <2>4 DEF Progress
  <1> QED
    BY <1>1, <1>2, <1>3

LEMMA DeletesProgress ==
  ASSUME IInv, Deletes \/ DeleteChunkFails, NEW f \in Files, Progress(f)
  PROVE  Progress(f)'
  <1>1. ~Recovering /\ pc # "scan" /\ scan' = scan
    BY DEF Deletes, JournalDeletes, DeleteChunk, DeletesDone, DeleteChunkFails, Recovering
  <1>t. TypeOK
    BY DEF IInv
  <1>2. CASE JournalDeletes
    <2>1. PICK S \in DeleteChunks : stage' = Moved(S, "deleting")
      BY <1>2 DEF JournalDeletes
    <2>2. CASE f \in S
      BY <1>1, <1>2, <2>1, <2>2 DEF JournalDeletes, DeleteChunks, In, Moved, Progress
    <2>3. CASE f \notin S
      <3>1. stage'[f] = stage[f]
        BY <2>1, <2>3 DEF Moved
      <3> QED
        BY <1>1, <1>2, <3>1, SameProgress DEF JournalDeletes
    <2> QED
      BY <2>2, <2>3
  <1>3. CASE DeleteChunk \/ DeleteChunkFails
    <2>1. CASE stage[f] = "deleting"
      <3>1. stage'[f] = "done" /\ scan[f] = NoFile /\ pc' = "delete"
        BY <1>1, <1>3, <2>1 DEF DeleteChunk, DeleteChunkFails, Moved, In, Progress
      <3>2. mem'[f] = NoEntry \/ errors'
        BY <1>3, <2>1 DEF DeleteChunk, DeleteChunkFails, In
      <3> QED
        BY <1>1, <3>1, <3>2 DEF Progress, AsScanned
    <2>2. CASE stage[f] # "deleting"
      <3>1. stage'[f] = stage[f] /\ mem'[f] = mem[f] /\ pc' = "delete"
        BY <1>3, <1>t, <2>2 DEF DeleteChunk, DeleteChunkFails, Moved, In, TypeOK
      <3> QED
        BY <1>1, <1>3, <2>2, <3>1, SameProgress DEF DeleteChunk, DeleteChunkFails
    <2> QED
      BY <2>1, <2>2
  <1>4. CASE DeletesDone
    <2>1. stage[f] # "delete"
      BY <1>4 DEF DeletesDone, In
    <2> QED
      BY <1>1, <1>4, <2>1, SameProgress DEF DeletesDone
  <1> QED
    BY <1>2, <1>3, <1>4 DEF Deletes

LEMMA LoopProgress ==
  ASSUME IInv, NEW f \in Files, Progress(f), NEW g \in Files,
         \/ ReadFile(g) \/ VerifyFile(g)
         \/ Take(g) \/ DeleteOld(g) \/ DeleteOldFails(g)
         \/ PlaceEmpty(g) \/ PlaceInPool(g)
  PROVE  Progress(f)'
  <1> USE DEF ReadFile, VerifyFile, Take, DeleteOld, DeleteOldFails, PlaceEmpty, PlaceInPool
  <1>1. /\ ~Recovering /\ scan' = scan
        /\ pc \in {"loop", "delold", "place", "flush"}
        /\ pc' \in {"loop", "delold", "place", "flush"}
    BY DEF Parsing, Recovering
  <1>e. errors => errors'
    OBVIOUS
  <1>t. TypeOK
    BY DEF IInv
  <1>2. CASE f # g
    <2>1. stage'[f] = stage[f]
      BY <1>2, <1>t DEF Moved, TypeOK
    <2>2. mem'[f] = mem[f]
      BY <1>2, <1>t DEF TypeOK, Manifests
    <2> HIDE DEF ReadFile, VerifyFile, Take, DeleteOld, DeleteOldFails, PlaceEmpty, PlaceInPool
    <2> QED
      BY <1>1, <1>e, <2>1, <2>2, SameProgress
  <1>3. CASE f = g
    <2>1. CASE PlaceEmpty(g)
      <3>1. mem'[f] = info[f] /\ stage'[f] = "done" /\ stage[f] = "current" /\ pc # "delold"
        BY <1>3, <1>t, <2>1 DEF Moved, TypeOK, Manifests
      <3> HIDE DEF ReadFile, VerifyFile, Take, DeleteOld, DeleteOldFails, PlaceEmpty, PlaceInPool
      <3>2. AsScanned(f)'
        BY <1>1, <3>1, EntryAsScanned
      <3> QED
        BY <1>1, <3>1, <3>2 DEF Progress
    <2>2. CASE ~PlaceEmpty(g)
      <3>1. stage'[f] \in {"read", "parsed", "current", "pool"} \/ (stage'[f] = "done" /\ errors')
        BY <1>3, <1>t, <2>2 DEF Moved, TypeOK
      <3> HIDE DEF ReadFile, VerifyFile, Take, DeleteOld, DeleteOldFails, PlaceEmpty, PlaceInPool
      <3> QED
        BY <1>1, <3>1 DEF Progress
    <2> QED
      BY <2>1, <2>2
  <1> QED
    BY <1>2, <1>3

LEMMA WorkerProgress ==
  ASSUME IInv, Flush \/ Worker \/ UpsertFails, NEW f \in Files, Progress(f)
  PROVE  Progress(f)'
  <1>1. ~Recovering /\ pc # "scan"
    BY DEF Flush, Worker, Upsert, UpsertFails, RecordFile, Recovering, IInv, QuietInv
  <1>t. TypeOK
    BY DEF IInv
  <1>2. CASE Flush
    <2>1. CASE stage[f] = "pool"
      BY <1>2, <2>1 DEF Flush, In, Moved, Progress
    <2>2. CASE stage[f] # "pool"
      <3>1. stage'[f] = stage[f]
        BY <1>2, <1>t, <2>2 DEF Flush, In, Moved, TypeOK
      <3> QED
        BY <1>1, <1>2, <3>1, SameProgress DEF Flush
    <2> QED
      BY <2>1, <2>2
  <1>3. CASE \E g \in Files, i \in Indices : Upsert(g, i)
    BY <1>1, <1>3 DEF Upsert, Progress, AsScanned, Recovering
  <1>4. CASE UpsertFails
    <2>1. errors' /\ pc' = pc /\ scan' = scan /\ mem' = mem
      BY <1>4 DEF UpsertFails
    <2>2. stage'[f] = stage[f] \/ stage'[f] = "done"
      BY <1>4, <1>t DEF UpsertFails, Moved, In, TypeOK
    <2> QED
      BY <1>1, <2>1, <2>2 DEF Progress, AsScanned, Recovering
  <1>5. ASSUME NEW g \in Files, RecordFile(g) PROVE Progress(f)'
    <2>1. pc' = pc /\ scan' = scan /\ errors' = errors
      BY <1>5 DEF RecordFile
    <2>2. CASE f = g
      <3>1. mem'[f] = info[f] /\ stage'[f] = "done" /\ stage[f] = "flight"
        BY <1>5, <1>t, <2>2 DEF RecordFile, Moved, TypeOK, Manifests
      <3>2. AsScanned(f)'
        BY <1>1, <2>1, <3>1, EntryAsScanned
      <3> QED
        BY <3>1, <3>2 DEF Progress
    <2>3. CASE f # g
      <3>1. stage'[f] = stage[f] /\ mem'[f] = mem[f]
        BY <1>5, <1>t, <2>3 DEF RecordFile, Moved, TypeOK, Manifests
      <3> QED
        BY <1>1, <2>1, <3>1 DEF Progress, AsScanned, Recovering
    <2> QED
      BY <2>2, <2>3
  <1> QED
    BY <1>2, <1>3, <1>4, <1>5 DEF Worker

LEMMA PlainProgress ==
  ASSUME IInv, NEW f \in Files, Progress(f),
         \/ Connect \/ Unreachable \/ LoopDone \/ Drain \/ WriteSnapshot \/ WriteFails
         \/ SaveFinal \/ FinishJournal \/ SetupFails \/ Abort \/ AbortSave
  PROVE  Progress(f)'
  <1> USE DEF Connect, Unreachable, LoopDone, Drain, WriteSnapshot, WriteFails, SaveFinal,
              FinishJournal, SetupFails, Abort, AbortSave
  <1>1. ~Recovering /\ pc # "scan"
    BY DEF Recovering, IInv, QuietInv
  <1>2. stage' = stage /\ scan' = scan /\ mem' = mem
    OBVIOUS
  <1>3. errors => errors'
    OBVIOUS
  <1>4. CASE LoopDone
    <2>1. stage[f] \notin {"delete", "parse", "read", "parsed"}
      BY <1>4 DEF In, Progress
    <2>2. pc' = "flush" \/ (pc' = "drain" /\ stage[f] # "pool")
      BY <1>4 DEF In
    <2> QED
      BY <1>1, <1>2, <1>3, <1>4, <2>1, <2>2, SameProgress
  <1>5. CASE ~LoopDone
    <2>1. pc' = pc \/ pc' \in {"delete", "finalize", "aborting", "exiting"}
                   \/ (pc = "drain" /\ pc' = "finish")
      BY <1>5
    <2>2. pc # "deleting" \/ pc' = pc
      BY <1>5
    <2> HIDE DEF Connect, Unreachable, LoopDone, Drain, WriteSnapshot, WriteFails, SaveFinal,
              FinishJournal, SetupFails, Abort, AbortSave
    <2> QED
      BY <1>1, <1>2, <1>3, <2>1, <2>2 DEF Progress, AsScanned, Recovering
  <1> QED
    BY <1>4, <1>5

LEMMA AroundProgress ==
  ASSUME NEW f \in Files, Progress(f),
         \/ UNCHANGED vars \/ \E d \in Dialects : ChangeDialect(d)
         \/ \E g \in Files, h \in Hashes \cup {NoFile} : EditFile(g, h)
  PROVE  Progress(f)'
  <1>1. UNCHANGED <<pc, mem, scan, stage, errors>>
    BY DEF vars, ChangeDialect, EditFile
  <1> QED
    BY <1>1 DEF Progress, AsScanned, Recovering

LEMMA NextProgress ==
  ASSUME IInv, [Next]_vars, NEW f \in Files, Progress(f)
  PROVE  Progress(f)'
  <1>1. CASE Crash \/ TornRecord \/ RecoverFails \/ Finalize \/ Exit
    BY <1>1, StartProgress DEF Crash, TornRecord, RecoverFails, Finalize, Exit
  <1>2. CASE Start \/ Recovery \/ Scan
    BY <1>2, StartProgress
  <1>3. CASE Deletes \/ DeleteChunkFails
    BY <1>3, DeletesProgress
  <1>4. CASE Parser \/ \E g \in Files : DeleteOldFails(g)
    BY <1>4, LoopProgress DEF Parser
  <1>5. CASE MainLoop
    BY <1>5, LoopProgress, WorkerProgress, PlainProgress DEF MainLoop
  <1>6. CASE Worker \/ UpsertFails
    BY <1>6, WorkerProgress
  <1>7. CASE \/ Connect \/ Unreachable \/ WriteSnapshot \/ WriteFails
             \/ SaveFinal \/ FinishJournal \/ SetupFails \/ Abort \/ AbortSave
    BY <1>7, PlainProgress
  <1>8. CASE \/ UNCHANGED vars \/ \E d \in Dialects : ChangeDialect(d)
             \/ \E g \in Files, h \in Hashes \cup {NoFile} : EditFile(g, h)
    BY <1>8, AroundProgress
  <1> QED
    BY <1>1, <1>2, <1>3, <1>4, <1>5, <1>6, <1>7, <1>8 DEF Next, Step, Fault, Ending

\* At the end of a run nothing is under way: a file is left alone or done.
LEMMA EndOfRun ==
  ASSUME IInv, pc = "finish", NEW f \in Files, Progress(f)
  PROVE  stage[f] \in {"idle", "done"}
  <1>1. FileInv(f) /\ worker = "idle"
    BY DEF IInv, EndInv, Recovering
  <1>2. stage[f] \notin {"current", "flight"}
    BY <1>1 DEF FileInv, PlaceInv, FlightInv
  <1> QED
    BY <1>2 DEF Progress, IInv, TypeOK, Stages

LEMMA NextClean ==
  ASSUME IInv, IInv', CleanInv, [Next]_vars
  PROVE  CleanInv'
  <1>1. \A f \in Files : Progress(f) /\ Progress(f)'
    BY NextProgress DEF CleanInv
  <1>2. ASSUME NEW f \in Files, pc' = "finalize", ~errors'
        PROVE  journal'[f] = NoLine /\ PointsAgree(f, mem[f])' /\ AsScanned(f)'
    <2>0. FileInv(f)'
      BY <1>2 DEF IInv, Recovering
    <2>1. CASE Scan
      <3>1. stage'[f] = "idle"
        BY <1>2, <2>1 DEF Scan
      <3> QED
        BY <1>1, <1>2, <2>0, <3>1 DEF FileInv, EntryInv, Progress, Recovering
    <2>2. CASE FinishJournal
      <3>1. ~Unresolved(journal[f], mem[f]) /\ ~errors
        BY <1>2, <2>2 DEF FinishJournal, UnresolvedKeys
      <3>2. journal'[f] = NoLine
        BY <2>2, <3>1 DEF FinishJournal, Finished, UnresolvedKeys
      <3>3. Safe(f, mem[f])'
        BY <2>0 DEF FileInv, EntryInv
      <3>4. ~Unresolved(journal[f], mem[f])'
        BY <3>2, JournalConstants DEF Unresolved, EntryHashes
      <3>5. stage'[f] \in {"idle", "done"}
        BY <1>1, <2>2, EndOfRun DEF FinishJournal
      <3> QED
        BY <1>1, <1>2, <3>2, <3>3, <3>4, <3>5 DEF Safe, Progress, Recovering
    <2>3. CASE ~Scan /\ ~FinishJournal
      <3>1. pc = "finalize" /\ UNCHANGED <<points, journal, mem, scan, errors>>
        <4>1. ~Unreachable
          BY <1>2 DEF Unreachable
        <4>2. pc = "finalize"
          BY <1>2, <2>3, <4>1
          DEF Next, Step, Fault, Recovery, Deletes, Parser, MainLoop, Worker, Ending, vars,
              durable, Start, RecoverNothing, RecoverDelete, RecoverSave, RecoverUnlink,
              Connect, JournalDeletes, DeleteChunk, DeleteChunkFails, DeletesDone, ReadFile,
              VerifyFile, Take, DeleteOld, DeleteOldFails, PlaceEmpty, PlaceInPool, LoopDone,
              Drain, Flush, Upsert, UpsertFails, RecordFile, WriteSnapshot, SaveFinal,
              Finalize, AbortSave, Exit, EditFile, ChangeDialect, Crash, TornRecord,
              RecoverFails, SetupFails, Abort, WriteFails, ProcessGone
        <4>3. worker = "idle" /\ snap = NoSnapshot
          BY <4>2 DEF IInv, EndInv
        <4> QED
          BY <1>2, <2>3, <4>1, <4>2, <4>3
          DEF Next, Step, Fault, Recovery, Deletes, Parser, Parsing, MainLoop, Worker, Ending,
              vars, durable, Start, RecoverNothing, RecoverDelete, RecoverSave, RecoverUnlink,
              Connect, JournalDeletes, DeleteChunk, DeleteChunkFails, DeletesDone, ReadFile,
              VerifyFile, Take, DeleteOld, DeleteOldFails, PlaceEmpty, PlaceInPool, LoopDone,
              Drain, Flush, Upsert, UpsertFails, RecordFile, WriteSnapshot, SaveFinal,
              Finalize, AbortSave, Exit, EditFile, ChangeDialect, Crash, TornRecord,
              RecoverFails, SetupFails, Abort, WriteFails, ProcessGone
      <3>2. journal[f] = NoLine /\ PointsAgree(f, mem[f]) /\ AsScanned(f)
        BY <1>2, <3>1 DEF CleanInv, CleanRun, AsScanned
      <3> QED
        BY <3>1, <3>2 DEF PointsAgree, NoPoints, Full, NumChunks, Stored, AsScanned
    <2> QED
      BY <2>1, <2>2, <2>3
  <1> QED
    BY <1>1, <1>2 DEF CleanInv, CleanRun, AsScanned

\* A refresh that ends without errors has done all its scan asked for: no line
\* is left in the journal, every entry has the scanned hash and the points of
\* that content, and a removed file has neither; a file that changed under the
\* reader has the empty hash, so that the next run takes it up again.
THEOREM CleanRunHolds ==
  ASSUME Steady
  PROVE  Spec => []CleanRun
  <1>1. Init => CleanInv
    BY DEF Init, CleanInv, CleanRun, Progress, Recovering
  <1>2. IInv /\ IInv' /\ CleanInv /\ [Next]_vars => CleanInv'
    BY NextClean
  <1>3. CleanInv => CleanRun
    BY DEF CleanInv
  <1> QED
    BY <1>1, <1>2, <1>3, InitIInv, NextIInv, PTL DEF Spec

-----------------------------------------------------------------------------
(* Claims follow the scan and nothing else.                                 *)

\* What an old entry owes to the line that contradicts it does not change
\* while the line stays.
LEMMA ExposedSame ==
  ASSUME NEW f \in Files, NEW x, journal'[f] = journal[f]
  PROVE  Exposed(f, x)' <=> Exposed(f, x)
  BY DEF Exposed, Unresolved

\* A file a step inside a run leaves alone.
LEMMA SameMirror ==
  ASSUME NEW f \in Files, MirrorInv(f), ~Recovering, pc # "scan", ~Recovering',
         saved'[f] = saved[f], journal'[f] = journal[f], mem'[f] = mem[f],
         scan'[f] = scan[f], snap' = snap, stage'[f] = stage[f]
  PROVE  MirrorInv(f)'
  <1>1. Scanned(f)' = Scanned(f)
    BY DEF Scanned
  <1> QED
    BY <1>1, ExposedSame DEF MirrorInv, Recovering

\* A file under way: no manifest has anything but its old entry.
LEMMA FreshMirror ==
  ASSUME IInv', NEW f \in Files, MirrorInv(f), ~Recovering, pc # "scan", ~Recovering',
         scan'[f] = scan[f], stage'[f] \notin {"idle", "done"}
  PROVE  MirrorInv(f)'
  <1>1. FileInv(f)'
    BY DEF IInv
  <1> QED
    BY <1>1 DEF FileInv, EntryInv, MirrorInv, Recovering

\* A file is done: its old entry is contradicted, and it has kept it or has
\* got the one the scan asks for.
LEMMA DoneMirror ==
  ASSUME NEW f \in Files, MirrorInv(f), ~Recovering, pc # "scan", ~Recovering',
         scan'[f] = scan[f], stage'[f] = "done", saved'[f] = saved[f], snap' = snap,
         saved[f] = mem[f], snap # NoSnapshot => snap[f] = mem[f],
         NEW x, x = mem[f], Exposed(f, x)',
         mem'[f] = x \/ mem'[f] = Scanned(f) \/ Exposed(f, mem[f])'
  PROVE  MirrorInv(f)'
  <1>1. Scanned(f)' = Scanned(f)
    BY DEF Scanned
  <1>2. Exposed(f, saved[f])' /\ (snap' # NoSnapshot => Exposed(f, snap[f])')
    BY DEF Exposed
  <1>3. mem'[f] = x => Exposed(f, mem[f])'
    BY DEF Exposed
  <1> QED
    BY <1>1, <1>2, <1>3 DEF MirrorInv, Recovering

LEMMA OldEntry ==
  ASSUME IInv, ~Recovering, NEW f \in Files, stage[f] # "done"
  PROVE  saved[f] = mem[f] /\ (snap # NoSnapshot => snap[f] = mem[f])
  BY DEF IInv, FileInv, EntryInv

\* The entry a parsed file gets is what the scan saw, or names no content.
LEMMA InfoScanned ==
  ASSUME IInv, Steady, ~Recovering, NEW f \in Files,
         stage[f] \in {"parsed", "current", "pool", "flight"}
  PROVE  /\ info[f] # NoEntry /\ Scanned(f) = scan[f] /\ scan[f] # NoEntry
         /\ info[f].hash = EmptyHash \/ info[f] = Scanned(f)
  <1>1. scan[f] \in Entries /\ info[f] \in Entries
    BY DEF IInv, StagedInv
  <1>2. scan[f].hash \in Hashes /\ info[f].hash \in {scan[f].hash, EmptyHash}
    BY DEF IInv, FileInv, ParseInv
  <1>3. scan[f] # NoFile /\ info[f] # NoEntry /\ scan[f] # NoEntry
    BY <1>1, RefreshConstants, JournalConstants DEF Entries, EntryHashes
  <1>4. scan[f].dialect = info[f].dialect
    BY <1>1 DEF Steady, Entries
  <1>5. Scanned(f) = scan[f]
    BY <1>2, <1>3, JournalConstants DEF Scanned
  <1>6. info[f].hash = scan[f].hash => info[f] = scan[f]
    BY <1>1, <1>4 DEF Entries
  <1> QED
    BY <1>2, <1>3, <1>5, <1>6

LEMMA InfoExposed ==
  ASSUME NEW f \in Files, info[f] # NoEntry, info[f].hash = EmptyHash, mem'[f] = info[f]
  PROVE  Exposed(f, mem[f])'
  BY DEF Exposed

LEMMA StartMirror ==
  ASSUME IInv, Steady, PlanInv, ProcessGone \/ Start \/ Recovery \/ Scan, NEW f \in Files
  PROVE  MirrorInv(f)'
  <1>1. CASE ProcessGone
    BY <1>1 DEF ProcessGone, MirrorInv, Recovering
  <1>2. CASE Start \/ RecoverNothing \/ RecoverUnlink
    BY <1>2 DEF Start, RecoverNothing, RecoverUnlink, MirrorInv, Recovering
  <1>3. CASE RecoverDelete
    <2>1. mem = saved
      BY <1>3 DEF RecoverDelete, IInv, RecoveryInv
    <2>2. mem'[f] = IF Unresolved(journal[f], saved[f]) THEN NoEntry ELSE mem[f]
      BY <1>3, <2>1 DEF RecoverDelete, Stale, UnresolvedKeys
    <2> QED
      BY <1>3, <2>1, <2>2 DEF RecoverDelete, MirrorInv, Recovering, Unresolved
  <1>4. CASE RecoverSave
    BY <1>4 DEF RecoverSave, PlanInv, MirrorInv, Recovering, Unresolved
  <1>5. CASE Scan
    <2>1. FileInv(f) /\ snap = NoSnapshot /\ stage[f] = "idle"
      BY <1>5 DEF Scan, IInv, Recovering, QuietInv
    <2>2. saved[f] = mem[f] /\ mem[f] \in Entries \cup {NoEntry}
      BY <2>1 DEF FileInv, EntryInv, IInv, TypeOK, Manifests
    <2>3. /\ stage'[f] = Action(mem[f], scan'[f])
          /\ scan'[f] = IF disk[f] = NoFile THEN NoFile ELSE State(disk[f])
          /\ mem' = mem /\ saved' = saved /\ snap' = snap
          /\ pc' \in {"connect", "finalize"}
      BY <1>5 DEF Scan, Steady
    <2>4. disk[f] # NoFile => /\ scan'[f] \in Entries /\ scan'[f] # NoFile
                              /\ scan'[f].hash # EmptyHash
      BY <2>3, RefreshConstants, JournalConstants DEF IInv, TypeOK, State, Entries, EntryHashes
    <2>5. stage'[f] = "idle" => mem'[f] = Scanned(f)'
      <3>1. CASE disk[f] = NoFile
        BY <2>3, <3>1 DEF Action, Scanned
      <3>2. CASE disk[f] # NoFile
        <4>1. Scanned(f)' = scan'[f]
          BY <2>4, <3>2 DEF Scanned
        <4>2. stage'[f] = "idle" =>
                mem[f] \in Entries /\ mem[f].hash = scan'[f].hash /\ mem[f].dialect = scan'[f].dialect
          BY <2>2, <2>3, <2>4, <3>2 DEF Action
        <4> QED
          BY <2>3, <2>4, <3>2, <4>1, <4>2 DEF Entries
      <3> QED
        BY <3>1, <3>2
    <2>6. stage'[f] # "done"
      BY <2>3 DEF Action
    <2>7. scan'[f] # NoFile => scan'[f].hash # EmptyHash
      BY <2>3, <2>4
    <2> QED
      BY <2>1, <2>2, <2>3, <2>5, <2>6, <2>7 DEF MirrorInv, Recovering
  <1> QED
    BY <1>1, <1>2, <1>3, <1>4, <1>5 DEF Recovery

LEMMA DeletesMirror ==
  ASSUME IInv, IInv', PlanInv, Deletes \/ DeleteChunkFails,
         NEW f \in Files, Progress(f)
  PROVE  MirrorInv(f)'
  <1>1. ~Recovering /\ pc # "scan" /\ ~Recovering' /\ pc' # "scan" /\ scan' = scan /\ snap' = snap
    BY DEF Deletes, JournalDeletes, DeleteChunk, DeletesDone, DeleteChunkFails, Recovering
  <1>t. TypeOK
    BY DEF IInv
  <1>m. MirrorInv(f)
    BY DEF PlanInv
  <1>2. CASE JournalDeletes
    <2>1. PICK S \in DeleteChunks :
            /\ journal' = Recorded(journal, S, [g \in Files |-> Deleted])
            /\ stage' = Moved(S, "deleting")
      BY <1>2 DEF JournalDeletes
    <2>2. CASE f \in S
      <3>1. stage'[f] = "deleting"
        BY <2>1, <2>2 DEF Moved
      <3> QED
        BY <1>1, <1>m, <3>1, FreshMirror
    <2>3. CASE f \notin S
      <3>1. stage'[f] = stage[f] /\ journal'[f] = journal[f] /\ mem' = mem /\ saved' = saved
        BY <1>2, <2>1, <2>3 DEF JournalDeletes, Moved, Recorded
      <3> QED
        BY <1>1, <1>m, <3>1, SameMirror
    <2> QED
      BY <2>2, <2>3
  <1>3. CASE DeleteChunk \/ DeleteChunkFails
    <2>0. saved' = saved /\ journal' = journal
      BY <1>3 DEF DeleteChunk, DeleteChunkFails
    <2>1. CASE stage[f] = "deleting"
      <3>0. PICK x : x = mem[f]
        OBVIOUS
      <3>1. stage'[f] = "done" /\ scan[f] = NoFile
        BY <1>1, <1>3, <2>1 DEF DeleteChunk, DeleteChunkFails, Moved, In, Progress
      <3>2. mem'[f] = x \/ mem'[f] = Scanned(f)
        BY <1>3, <2>1, <3>0, <3>1 DEF DeleteChunk, DeleteChunkFails, In, Scanned
      <3>3. Exposed(f, x) /\ saved[f] = mem[f] /\ (snap # NoSnapshot => snap[f] = mem[f])
        BY <1>1, <2>1, <3>0, ChangeExposed
      <3>4. Exposed(f, x)'
        BY <2>0, <3>3, ExposedSame
      <3> QED
        BY <1>1, <1>m, <2>0, <3>0, <3>1, <3>2, <3>3, <3>4, DoneMirror
    <2>2. CASE stage[f] # "deleting"
      <3>1. stage'[f] = stage[f] /\ mem'[f] = mem[f]
        BY <1>3, <1>t, <2>2 DEF DeleteChunk, DeleteChunkFails, Moved, In, TypeOK
      <3> QED
        BY <1>1, <1>m, <2>0, <3>1, SameMirror
    <2> QED
      BY <2>1, <2>2
  <1>4. CASE DeletesDone
    <2>1. /\ saved'[f] \in {saved[f], mem[f]} /\ mem' = mem /\ journal' = journal
          /\ stage' = stage /\ snap = NoSnapshot
      BY <1>4 DEF DeletesDone, PlanInv, SnapInv
    <2>2. Scanned(f)' = Scanned(f)
      BY <1>1 DEF Scanned
    <2>3. Exposed(f, saved[f])' <=> Exposed(f, saved'[f])
      BY <2>1 DEF Exposed, Unresolved
    <2>4. Exposed(f, mem[f])' <=> Exposed(f, mem[f])
      BY <2>1 DEF Exposed, Unresolved
    <2> QED
      BY <1>1, <1>m, <2>1, <2>2, <2>3, <2>4 DEF MirrorInv, Recovering
  <1> QED
    BY <1>2, <1>3, <1>4 DEF Deletes

LEMMA LoopMirror ==
  ASSUME IInv, IInv', Steady, PlanInv, NEW f \in Files, NEW g \in Files,
         \/ ReadFile(g) \/ VerifyFile(g)
         \/ Take(g) \/ DeleteOld(g) \/ DeleteOldFails(g)
         \/ PlaceEmpty(g) \/ PlaceInPool(g)
  PROVE  MirrorInv(f)'
  <1> USE DEF ReadFile, VerifyFile, Take, DeleteOld, DeleteOldFails, PlaceEmpty, PlaceInPool
  <1>1. /\ ~Recovering /\ ~Recovering' /\ pc # "scan"
        /\ scan' = scan /\ snap' = snap /\ saved' = saved
    BY DEF Parsing, Recovering
  <1>t. TypeOK
    BY DEF IInv
  <1>m. MirrorInv(f)
    BY DEF PlanInv
  <1>2. CASE f # g
    <2>1. stage'[f] = stage[f] /\ journal'[f] = journal[f]
      BY <1>2, <1>t DEF Moved, TypeOK, Recorded
    <2>2. mem'[f] = mem[f]
      BY <1>2, <1>t DEF TypeOK, Manifests
    <2> HIDE DEF ReadFile, VerifyFile, Take, DeleteOld, DeleteOldFails, PlaceEmpty, PlaceInPool
    <2> QED
      BY <1>1, <1>m, <2>1, <2>2, SameMirror
  <1>3. CASE f = g /\ (ReadFile(g) \/ VerifyFile(g) \/ Take(g) \/ DeleteOld(g) \/ PlaceInPool(g))
    <2>1. stage'[f] \in {"read", "parsed", "current", "pool"}
      BY <1>3, <1>t DEF Moved, TypeOK
    <2> HIDE DEF ReadFile, VerifyFile, Take, DeleteOld, DeleteOldFails, PlaceEmpty, PlaceInPool
    <2> QED
      BY <1>1, <1>m, <2>1, FreshMirror
  <1>4. CASE f = g /\ (DeleteOldFails(g) \/ PlaceEmpty(g))
    <2>0. PICK x : x = mem[f]
      OBVIOUS
    <2>1. stage[f] = "current" /\ stage'[f] = "done" /\ pc \in {"delold", "place"}
      BY <1>4, <1>t DEF Moved, TypeOK
    <2>2. saved[f] = mem[f] /\ (snap # NoSnapshot => snap[f] = mem[f])
      BY <1>1, <2>1, OldEntry
    <2>3. CASE DeleteOldFails(g)
      <3>1. pc = "delold" /\ journal' = journal /\ mem' = mem
        BY <2>3
      <3> HIDE DEF ReadFile, VerifyFile, Take, DeleteOld, DeleteOldFails, PlaceEmpty, PlaceInPool
      <3>2. Exposed(f, x)
        BY <1>1, <2>0, <2>1, <3>1, ChangeExposed
      <3>3. Exposed(f, x)'
        BY <3>1, <3>2, ExposedSame
      <3> QED
        BY <1>1, <1>m, <2>0, <2>1, <2>2, <3>1, <3>3, DoneMirror
    <2>4. CASE PlaceEmpty(g)
      <3>1. journal'[f] = info[f].hash /\ mem'[f] = info[f]
        BY <1>4, <1>t, <2>4 DEF Recorded, TypeOK, Manifests
      <3> HIDE DEF ReadFile, VerifyFile, Take, DeleteOld, DeleteOldFails, PlaceEmpty, PlaceInPool
      <3>2. x \in Entries \cup {NoEntry}
        BY <1>t, <2>0 DEF TypeOK, Manifests
      <3>3. Exposed(f, x)'
        BY <1>1, <2>0, <2>1, <3>1, <3>2, AnnouncedExposed DEF Exposed, Unresolved
      <3>4. mem'[f] = Scanned(f) \/ Exposed(f, mem[f])'
        BY <1>1, <2>1, <3>1, InfoScanned, InfoExposed
      <3> QED
        BY <1>1, <1>m, <2>0, <2>1, <2>2, <3>3, <3>4, DoneMirror
    <2> QED
      BY <1>4, <2>3, <2>4
  <1> QED
    BY <1>2, <1>3, <1>4

LEMMA WorkerMirror ==
  ASSUME IInv, IInv', Steady, PlanInv, Flush \/ Worker \/ UpsertFails, NEW f \in Files
  PROVE  MirrorInv(f)'
  <1>1. ~Recovering /\ ~Recovering' /\ pc # "scan"
    BY DEF Flush, Worker, Upsert, UpsertFails, RecordFile, Recovering, IInv, QuietInv
  <1>2. scan' = scan /\ snap' = snap /\ saved' = saved
    BY DEF Flush, Worker, Upsert, UpsertFails, RecordFile
  <1>t. TypeOK
    BY DEF IInv
  <1>m. MirrorInv(f)
    BY DEF PlanInv
  <1>3. CASE Flush
    <2>1. CASE stage[f] = "pool"
      <3>1. stage'[f] = "flight"
        BY <1>3, <2>1 DEF Flush, In, Moved
      <3> QED
        BY <1>1, <1>2, <1>m, <3>1, FreshMirror
    <2>2. CASE stage[f] # "pool"
      <3>1. stage'[f] = stage[f] /\ journal'[f] = journal[f] /\ mem' = mem
        BY <1>3, <1>t, <2>2 DEF Flush, In, Moved, Recorded, TypeOK
      <3> QED
        BY <1>1, <1>2, <1>m, <3>1, SameMirror
    <2> QED
      BY <2>1, <2>2
  <1>4. CASE \E g \in Files, i \in Indices : Upsert(g, i)
    <2>1. stage' = stage /\ journal' = journal /\ mem' = mem
      BY <1>4 DEF Upsert
    <2> QED
      BY <1>1, <1>2, <1>m, <2>1, SameMirror
  <1>5. CASE UpsertFails \/ \E g \in Files : RecordFile(g)
    <2>0. journal' = journal
      BY <1>5 DEF UpsertFails, RecordFile
    <2>1. CASE stage'[f] = stage[f] /\ mem'[f] = mem[f]
      BY <1>1, <1>2, <1>m, <2>0, <2>1, SameMirror
    <2>2. CASE /\ stage[f] = "flight" /\ stage'[f] = "done"
               /\ mem'[f] = mem[f] \/ mem'[f] = info[f]
      <3>0. PICK x : x = mem[f]
        OBVIOUS
      <3>1. Exposed(f, x) /\ saved[f] = mem[f] /\ (snap # NoSnapshot => snap[f] = mem[f])
        BY <1>1, <2>2, <3>0, ChangeExposed
      <3>2. Exposed(f, x)'
        BY <2>0, <3>1, ExposedSame
      <3>3. mem'[f] = x \/ mem'[f] = Scanned(f) \/ Exposed(f, mem[f])'
        BY <1>1, <2>2, <3>0, InfoScanned, InfoExposed
      <3> QED
        BY <1>1, <1>2, <1>m, <2>2, <3>0, <3>1, <3>2, <3>3, DoneMirror
    <2>3. CASE UpsertFails
      <3>1. mem' = mem /\ (stage'[f] = stage[f] \/ (stage[f] = "flight" /\ stage'[f] = "done"))
        BY <1>t, <2>3 DEF UpsertFails, Moved, In, TypeOK
      <3> QED
        BY <2>1, <2>2, <3>1
    <2>4. ASSUME NEW g \in Files, RecordFile(g) PROVE MirrorInv(f)'
      <3>1. CASE f = g
        <4>1. mem'[f] = info[f] /\ stage'[f] = "done" /\ stage[f] = "flight"
          BY <1>t, <2>4, <3>1 DEF RecordFile, Moved, TypeOK, Manifests
        <4> QED
          BY <2>2, <4>1
      <3>2. CASE f # g
        <4>1. stage'[f] = stage[f] /\ mem'[f] = mem[f]
          BY <1>t, <2>4, <3>2 DEF RecordFile, Moved, TypeOK, Manifests
        <4> QED
          BY <2>1, <4>1
      <3> QED
        BY <3>1, <3>2
    <2> QED
      BY <1>5, <2>3, <2>4
  <1> QED
    BY <1>3, <1>4, <1>5 DEF Worker

LEMMA SavesMirror ==
  ASSUME IInv, PlanInv, NEW f \in Files,
         \/ Connect \/ Unreachable \/ LoopDone \/ Drain \/ WriteSnapshot \/ WriteFails
         \/ SaveFinal \/ SetupFails \/ Abort \/ AbortSave
  PROVE  MirrorInv(f)'
  <1> USE DEF Connect, Unreachable, LoopDone, Drain, WriteSnapshot, WriteFails, SaveFinal,
              SetupFails, Abort, AbortSave
  <1>1. ~Recovering /\ ~Recovering' /\ pc # "scan"
    BY DEF Recovering, IInv, QuietInv
  <1>2. stage' = stage /\ scan' = scan /\ mem' = mem /\ journal' = journal
    OBVIOUS
  <1>3. \/ saved' = saved /\ snap' = snap
        \/ saved' = saved /\ snap' \in {NoSnapshot, mem}
        \/ saved' = mem /\ snap' = NoSnapshot
        \/ snap # NoSnapshot /\ saved' = snap /\ snap' = NoSnapshot
    BY DEF PlanInv, SnapInv
  <1> HIDE DEF Connect, Unreachable, LoopDone, Drain, WriteSnapshot, WriteFails, SaveFinal,
               SetupFails, Abort, AbortSave
  <1>m. MirrorInv(f)
    BY DEF PlanInv
  <1>4. Scanned(f)' = Scanned(f)
    BY <1>2 DEF Scanned
  <1>5. \A x : Exposed(f, x)' <=> Exposed(f, x)
    BY <1>2, ExposedSame
  <1>6. /\ Exposed(f, saved[f])' <=> Exposed(f, saved'[f])
        /\ Exposed(f, snap[f])' <=> Exposed(f, snap'[f])
        /\ Exposed(f, mem[f])' <=> Exposed(f, mem[f])
    BY <1>2 DEF Exposed, Unresolved
  <1> QED
    BY <1>1, <1>2, <1>3, <1>4, <1>6, <1>m DEF MirrorInv, Recovering

LEMMA FinishMirror ==
  ASSUME IInv, PlanInv, FinishJournal, NEW f \in Files
  PROVE  MirrorInv(f)'
  <1>1. ~Recovering /\ ~Recovering' /\ pc # "scan"
    BY DEF FinishJournal, Recovering
  <1>2. saved = mem /\ snap = NoSnapshot
    BY DEF FinishJournal, IInv, EndInv
  <1>3. stage' = stage /\ scan' = scan /\ mem' = mem /\ saved' = saved /\ snap' = snap
    BY DEF FinishJournal
  <1>4. Scanned(f)' = Scanned(f)
    BY <1>3 DEF Scanned
  <1>5. Exposed(f, mem[f]) => Exposed(f, mem[f])'
    BY <1>3 DEF FinishJournal, Finished, UnresolvedKeys, Exposed, Unresolved
  <1> QED
    BY <1>1, <1>2, <1>3, <1>4, <1>5 DEF PlanInv, MirrorInv, Recovering

LEMMA NextSnap ==
  ASSUME IInv, SnapInv, [Next]_vars
  PROVE  SnapInv'
  <1>1. \/ snap' \in {NoSnapshot, snap} /\ (pc' \in {"delete", "deleting"} => pc \in {"delete", "deleting", "connect"})
        \/ BackgroundSaves /\ pc' \in {"flush", "drain"}
    <2>1. CASE Step
      <3>1. CASE Start \/ Recovery \/ Scan \/ Connect \/ Deletes \/ Parser
        BY <3>1 DEF Start, Recovery, RecoverNothing, RecoverDelete, RecoverSave,
                    RecoverUnlink, Scan, Connect, Deletes, JournalDeletes, DeleteChunk,
                    DeletesDone, Parser, ReadFile, VerifyFile
      <3>2. CASE MainLoop
        BY <3>2 DEF MainLoop, Take, DeleteOld, PlaceEmpty, PlaceInPool, LoopDone, Drain, Flush
      <3>3. CASE Worker \/ WriteSnapshot \/ Ending
        BY <3>3 DEF Worker, Upsert, RecordFile, WriteSnapshot, Ending, SaveFinal,
                    FinishJournal, Finalize, AbortSave, Exit, ProcessGone
      <3> QED
        BY <2>1, <3>1, <3>2, <3>3 DEF Step
    <2>2. CASE Fault
      BY <2>2 DEF Fault, EditFile, ChangeDialect, Crash, TornRecord, Abort, Unreachable,
                  SetupFails, RecoverFails, DeleteChunkFails, UpsertFails, WriteFails,
                  DeleteOldFails, ProcessGone
    <2>3. CASE UNCHANGED vars
      BY <2>3 DEF vars
    <2> QED
      BY <2>1, <2>2, <2>3 DEF Next
  <1>2. pc = "connect" => snap = NoSnapshot
    BY DEF IInv, EndInv
  <1> QED
    BY <1>1, <1>2 DEF SnapInv

LEMMA AroundMirror ==
  ASSUME NEW f \in Files, MirrorInv(f),
         \/ UNCHANGED vars \/ \E d \in Dialects : ChangeDialect(d)
         \/ \E g \in Files, h \in Hashes \cup {NoFile} : EditFile(g, h)
  PROVE  MirrorInv(f)'
  <1>1. UNCHANGED <<pc, mem, scan, stage, saved, journal, snap>>
    BY DEF vars, ChangeDialect, EditFile
  <1> QED
    BY <1>1 DEF MirrorInv, Recovering, Exposed, Unresolved, Scanned

LEMMA NextPlan ==
  ASSUME Steady, IInv, IInv', \A f \in Files : Progress(f), PlanInv, [Next]_vars
  PROVE  PlanInv'
  <1>1. SnapInv'
    BY NextSnap DEF PlanInv
  <1>2. ASSUME NEW f \in Files PROVE MirrorInv(f)'
    <2>1. CASE Crash \/ TornRecord \/ RecoverFails \/ Finalize \/ Exit
      BY <2>1, StartMirror DEF Crash, TornRecord, RecoverFails, Finalize, Exit
    <2>2. CASE Start \/ Recovery \/ Scan
      BY <2>2, StartMirror
    <2>3. CASE Deletes \/ DeleteChunkFails
      BY <2>3, DeletesMirror
    <2>4. CASE Parser \/ \E g \in Files : DeleteOldFails(g)
      BY <2>4, LoopMirror DEF Parser
    <2>5. CASE MainLoop
      BY <2>5, LoopMirror, WorkerMirror, SavesMirror DEF MainLoop
    <2>6. CASE Worker \/ UpsertFails
      BY <2>6, WorkerMirror
    <2>7. CASE Connect \/ Unreachable \/ SetupFails \/ WriteSnapshot \/ WriteFails
               \/ SaveFinal \/ Abort \/ AbortSave
      BY <2>7, SavesMirror
    <2>8. CASE FinishJournal
      BY <2>8, FinishMirror
    <2>9. CASE UNCHANGED vars \/ (\E d \in Dialects : ChangeDialect(d))
               \/ \E g \in Files, h \in Hashes \cup {NoFile} : EditFile(g, h)
      BY <2>9, AroundMirror DEF PlanInv
    <2> QED
      BY <2>1, <2>2, <2>3, <2>4, <2>5, <2>6, <2>7, <2>8, <2>9
      DEF Next, Step, Fault, Ending
  <1> QED
    BY <1>1, <1>2 DEF PlanInv

\* The plan is taken by a scan, kept to the end of the run, and dropped then.
LEMMA PlanSteps ==
  ASSUME IInv, Steady, [Next]_vars
  PROVE  Planned' = Planned \/ Mirror!Survey \/ Mirror!GiveUp
  <1>1. CASE Scan
    <2>1. Planned = Mirror!Unplanned
      BY <1>1 DEF Scan, Planned, Mirror!Unplanned
    <2>2. ASSUME NEW f \in Files PROVE Planned'[f] \in {Sources[f], Unknown}
      <3>1. pc' \in {"finalize", "connect"}
        BY <1>1 DEF Scan
      <3>2. scan'[f] = IF disk[f] = NoFile THEN NoFile ELSE State(disk[f])
        BY <1>1 DEF Scan, Steady
      <3>3. Planned'[f] = Scanned(f)'
        BY <3>1 DEF Planned, Recovering
      <3>4. Sources[f] = IF disk[f] = NoFile THEN NoEntry ELSE State(disk[f])
        BY DEF Sources
      <3>5. Scanned(f)' \in {Unknown, IF scan'[f] = NoFile THEN NoEntry ELSE scan'[f]}
        BY DEF Scanned
      <3>6. disk[f] # NoFile => State(disk[f]) # NoFile
        BY RefreshConstants DEF IInv, TypeOK, State, Entries, EntryHashes
      <3> QED
        BY <3>2, <3>3, <3>4, <3>5, <3>6
    <2> QED
      BY <2>1, <2>2 DEF Mirror!Survey
  <1>2. CASE ProcessGone
    BY <1>2 DEF ProcessGone, Planned, Recovering, Mirror!GiveUp, Mirror!Unplanned
  <1>3. CASE Start \/ Recovery
    BY <1>3 DEF Start, Recovery, RecoverNothing, RecoverDelete, RecoverSave, RecoverUnlink,
                Planned, Recovering
  <1>4. CASE scan' = scan /\ pc' = pc
    BY <1>4 DEF Planned, Recovering, Scanned
  <1>5. CASE scan' = scan /\ ~Recovering /\ pc # "scan" /\ ~Recovering' /\ pc' # "scan"
    BY <1>5 DEF Planned, Scanned
  <1>6. \/ Scan \/ ProcessGone \/ Start \/ Recovery
        \/ scan' = scan /\ pc' = pc
        \/ scan' = scan /\ ~Recovering /\ pc # "scan" /\ ~Recovering' /\ pc' # "scan"
    <2>1. CASE Step
      <3>1. CASE Connect \/ Deletes \/ Parser
        BY <3>1 DEF Connect, Deletes, JournalDeletes, DeleteChunk, DeletesDone, Parser,
                    ReadFile, VerifyFile, Recovering
      <3>2. CASE MainLoop
        BY <3>2 DEF MainLoop, Take, DeleteOld, PlaceEmpty, PlaceInPool, LoopDone, Drain,
                    Flush, Recovering
      <3>3. CASE Worker \/ WriteSnapshot \/ Ending
        BY <3>3 DEF Worker, Upsert, RecordFile, WriteSnapshot, Ending, SaveFinal,
                    FinishJournal, Finalize, AbortSave, Exit, Recovering
      <3> QED
        BY <2>1, <3>1, <3>2, <3>3 DEF Step
    <2>2. CASE Fault
      BY <2>2 DEF Fault, EditFile, ChangeDialect, Crash, TornRecord, Abort, Unreachable,
                  SetupFails, RecoverFails, DeleteChunkFails, UpsertFails, WriteFails,
                  DeleteOldFails, Recovering
    <2>3. CASE UNCHANGED vars
      BY <2>3 DEF vars
    <2> QED
      BY <2>1, <2>2, <2>3 DEF Next
  <1> QED
    BY <1>1, <1>2, <1>3, <1>4, <1>5, <1>6

\* A claim is true, and is one that can be stored.
LEMMA ClaimsTrue ==
  ASSUME IInv, NEW f \in Files, Claimed[f] # Unknown
  PROVE  points[f] = CompleteChunks[Claimed[f]]
  <1>1. Claimed[f] = saved[f] /\ ~Exposed(f, saved[f])
    BY DEF Claimed
  <1>2. saved[f] \in Versions \cup {NoEntry}
    <2>1. saved[f] \in Entries \cup {NoEntry}
      BY DEF IInv, TypeOK, Manifests
    <2> QED
      BY <1>1, <2>1 DEF Exposed, Entries, EntryHashes, Versions
  <1>3. PointsAgree(f, saved[f])
    BY <1>1 DEF IInv, Covered, Exposed
  <1> QED
    BY <1>1, <1>2, <1>3 DEF PointsAgree, CompleteChunks, Exposed

LEMMA SameClaim ==
  ASSUME NEW f \in Files, saved'[f] = saved[f], journal'[f] = journal[f]
  PROVE  Claimed'[f] = Claimed[f]
  BY DEF Claimed, Exposed, Unresolved

\* A file about which nothing new is said.
LEMMA KeepStep ==
  ASSUME IInv, [Next]_vars, NEW f \in Files, Claimed'[f] = Claimed[f],
         points'[f] \in {points[f], NoPoints} \/ (~Recovering /\ pc # "scan")
  PROVE  Mirror!Keep(f) \/ Mirror!Rework(f)
  <1>1. CASE points'[f] = points[f]
    BY <1>1 DEF Mirror!Keep
  <1>2. CASE points'[f] # points[f]
    <2>1. Claimed[f] = Unknown
      BY <1>2, NextAnnounced DEF AnnouncedFirst, Claimed
    <2>2. Planned[f] = NoPlan => points'[f] = NoPoints
      <3>1. CASE Recovering \/ pc = "scan"
        BY <1>2, <3>1
      <3>2. CASE ~Recovering /\ pc # "scan"
        <4>1. Planned[f] = Scanned(f)
          BY <3>2 DEF Planned
        <4>2. Scanned(f) \in Versions \cup {NoEntry, Unknown}
          BY DEF Scanned, IInv, TypeOK, Entries, EntryHashes, Versions
        <4> QED
          BY <4>1, <4>2, MirrorConstants
      <3> QED
        BY <3>1, <3>2
    <2>3. CompleteChunks[NoEntry] = NoPoints
      BY DEF CompleteChunks
    <2> QED
      BY <2>1, <2>2, <2>3 DEF Mirror!Rework
  <1> QED
    BY <1>1, <1>2

\* A line is journalled that contradicts the entry of f.
LEMMA WithdrawStep ==
  ASSUME IInv, ~Recovering, pc # "scan", NEW f \in Files, points'[f] = points[f],
         saved'[f] = saved[f], Exposed(f, saved[f])', Scanned(f) # saved[f]
  PROVE  Mirror!Keep(f) \/ Mirror!Withdraw(f)
  <1>1. Claimed'[f] = Unknown /\ Claimed[f] \in {Unknown, saved[f]}
    BY DEF Claimed
  <1>2. Planned[f] = Scanned(f)
    BY DEF Planned
  <1>3. Scanned(f) \in Versions \cup {NoEntry, Unknown}
    BY DEF Scanned, IInv, TypeOK, Entries, EntryHashes, Versions
  <1>4. CASE Claimed[f] = Unknown
    BY <1>1, <1>4 DEF Mirror!Keep
  <1>5. CASE Claimed[f] = saved[f]
    BY <1>1, <1>2, <1>3, <1>5, MirrorConstants DEF Mirror!Withdraw
  <1> QED
    BY <1>1, <1>4, <1>5

\* A manifest is saved: the memory, or the snapshot.
LEMMA SaveStep ==
  ASSUME IInv, ~Recovering, pc # "scan", NEW f \in Files, MirrorInv(f),
         points'[f] = points[f], journal'[f] = journal[f],
         saved'[f] \in {saved[f], mem[f]} \/ (snap # NoSnapshot /\ saved'[f] = snap[f])
  PROVE  Mirror!Keep(f) \/ Mirror!Settle(f)
  <1>1. CASE saved'[f] = saved[f]
    BY <1>1, SameClaim DEF Mirror!Keep
  <1>2. CASE saved'[f] # saved[f]
    <2>0. PICK x : x = saved'[f]
      OBVIOUS
    <2>1. Exposed(f, saved[f])
      BY <1>2 DEF MirrorInv
    <2>2. Claimed[f] = Unknown
      BY <2>1 DEF Claimed
    <2>3. Claimed'[f] = IF Exposed(f, x) THEN Unknown ELSE x
      BY <2>0 DEF Claimed, Exposed, Unresolved
    <2>4. CASE Exposed(f, x)
      BY <2>2, <2>3, <2>4 DEF Mirror!Keep
    <2>5. CASE ~Exposed(f, x)
      <3>1. x = mem[f]
        BY <1>2, <2>0, <2>5 DEF MirrorInv
      <3>2. stage[f] = "done"
        BY <1>2, <2>0, <3>1, OldEntry
      <3>3. x = Scanned(f)
        BY <2>5, <3>1, <3>2 DEF MirrorInv
      <3>4. x \in Versions \cup {NoEntry}
        <4>1. x \in Entries \cup {NoEntry}
          BY <3>1 DEF IInv, TypeOK, Manifests
        <4> QED
          BY <2>5, <4>1 DEF Exposed, Entries, EntryHashes, Versions
      <3>5. points[f] = CompleteChunks[x]
        <4>1. Safe(f, x)
          BY <3>1 DEF IInv, FileInv, EntryInv
        <4> QED
          BY <2>5, <3>4, <4>1 DEF Safe, Exposed, PointsAgree, CompleteChunks
      <3>6. Planned[f] = x /\ x # NoPlan
        BY <3>3, <3>4, MirrorConstants DEF Planned
      <3> QED
        BY <2>2, <2>3, <2>5, <3>5, <3>6 DEF Mirror!Settle
    <2> QED
      BY <2>4, <2>5
  <1> QED
    BY <1>1, <1>2

\* Steps that say nothing new of any file.
LEMMA SilentMirror ==
  ASSUME IInv, [Next]_vars, saved' = saved, journal' = journal, NEW f \in Files
  PROVE  Mirror!Keep(f) \/ Mirror!Rework(f)
  <1>1. Claimed'[f] = Claimed[f]
    BY SameClaim
  <1>2. points'[f] \in {points[f], NoPoints} \/ (~Recovering /\ pc # "scan")
    <2> SUFFICES ASSUME Recovering \/ pc = "scan"
                 PROVE  points'[f] \in {points[f], NoPoints}
      OBVIOUS
    <2>1. CASE RecoverDelete \/ RecoverFails
      BY <2>1 DEF RecoverDelete, RecoverFails, Cleared
    <2>2. CASE points' = points
      BY <2>2
    <2>3. worker = "idle"
      BY DEF IInv, QuietInv
    <2>4. RecoverDelete \/ RecoverFails \/ points' = points
      BY <2>3 DEF Recovering, Parsing,
           Next, Step, Fault, Recovery, Deletes, Parser, MainLoop, Worker, Ending, vars,
           durable, Start, RecoverNothing, RecoverSave, RecoverUnlink, Scan, Connect,
           JournalDeletes, DeleteChunk, DeleteChunkFails, DeletesDone, ReadFile, VerifyFile,
           Take, DeleteOld, DeleteOldFails, PlaceEmpty, PlaceInPool, LoopDone, Drain, Flush,
           Upsert, UpsertFails, RecordFile, WriteSnapshot, SaveFinal, FinishJournal,
           Finalize, AbortSave, Exit, EditFile, ChangeDialect, Crash, TornRecord,
           SetupFails, Abort, Unreachable, WriteFails
    <2> QED
      BY <2>1, <2>2, <2>4
  <1> QED
    BY <1>1, <1>2, KeepStep

LEMMA RecoveryMirror ==
  ASSUME IInv, PlanInv, RecoverNothing \/ RecoverSave \/ RecoverUnlink, NEW f \in Files
  PROVE  Mirror!Keep(f) \/ Mirror!Settle(f)
  <1>0. points' = points
    BY DEF RecoverNothing, RecoverSave, RecoverUnlink
  <1>1. Planned[f] = NoPlan
    BY DEF RecoverNothing, RecoverSave, RecoverUnlink, Planned, Recovering
  <1>2. CompleteChunks[NoEntry] = NoPoints
    BY DEF CompleteChunks
  <1>m. MirrorInv(f)
    BY DEF PlanInv
  <1>3. CASE RecoverNothing
    <2>1. ~Unresolved(journal[f], saved[f])
      BY <1>3 DEF RecoverNothing, Stale, UnresolvedKeys, IInv, RecoveryInv
    <2>2. saved'[f] = saved[f] /\ journal'[f] = NoLine
      BY <1>3 DEF RecoverNothing, EmptyJournal
    <2>3. Claimed'[f] = Claimed[f]
      BY <2>1, <2>2, JournalConstants DEF Claimed, Exposed, Unresolved, EntryHashes
    <2> QED
      BY <1>0, <2>3 DEF Mirror!Keep
  <1>4. CASE RecoverSave
    <2>1. saved'[f] = mem[f] /\ journal' = journal /\ PointsAgree(f, mem[f])
      BY <1>4 DEF RecoverSave, IInv, RecoveryInv
    <2>2. CASE mem[f] = saved[f]
      BY <1>0, <2>1, <2>2, SameClaim DEF Mirror!Keep
    <2>3. CASE mem[f] = NoEntry /\ mem[f] # saved[f]
      <3>1. Claimed[f] = Unknown
        BY <1>4, <1>m, <2>3 DEF RecoverSave, MirrorInv, Claimed, Exposed
      <3>2. Claimed'[f] \in {Unknown, NoEntry}
        BY <2>1, <2>3 DEF Claimed
      <3>3. points[f] = NoPoints
        BY <2>1, <2>3 DEF PointsAgree
      <3> QED
        BY <1>0, <1>1, <1>2, <3>1, <3>2, <3>3 DEF Mirror!Keep, Mirror!Settle
    <2> QED
      BY <1>4, <1>m, <2>2, <2>3 DEF RecoverSave, MirrorInv
  <1>5. CASE RecoverUnlink
    <2>1. saved'[f] = saved[f] /\ saved[f] = mem[f] /\ PointsAgree(f, mem[f])
          /\ journal'[f] = NoLine
      BY <1>5 DEF RecoverUnlink, EmptyJournal, IInv, RecoveryInv
    <2>2. CASE ~Unresolved(journal[f], saved[f])
      <3>1. Claimed'[f] = Claimed[f]
        BY <2>1, <2>2, JournalConstants DEF Claimed, Exposed, Unresolved, EntryHashes
      <3> QED
        BY <1>0, <3>1 DEF Mirror!Keep
    <2>3. CASE Unresolved(journal[f], saved[f])
      <3>1. saved[f] = NoEntry
        BY <1>5, <1>m, <2>1, <2>3 DEF RecoverUnlink, MirrorInv
      <3>2. Claimed[f] = Unknown /\ Claimed'[f] = NoEntry
        BY <2>1, <2>3, <3>1, JournalConstants DEF Claimed, Exposed, Unresolved, EntryHashes
      <3>3. points[f] = NoPoints
        BY <2>1, <3>1 DEF PointsAgree
      <3> QED
        BY <1>0, <1>1, <1>2, <3>2, <3>3 DEF Mirror!Settle
    <2> QED
      BY <2>2, <2>3
  <1> QED
    BY <1>3, <1>4, <1>5

\* The steps that append to the journal.
LEMMA JournalMirror ==
  ASSUME IInv, Steady, NEW f \in Files, Progress(f),
         JournalDeletes \/ Flush \/ TornRecord \/ \E g \in Files : Take(g) \/ PlaceEmpty(g)
  PROVE  Mirror!Keep(f) \/ Mirror!Withdraw(f)
  <1>1. ~Recovering /\ pc # "scan" /\ points' = points /\ saved' = saved
    BY DEF JournalDeletes, Flush, TornRecord, Take, PlaceEmpty, Recovering
  <1>t. TypeOK
    BY DEF IInv
  <1>f. FileInv(f) /\ (stage[f] # "done" => saved[f] = mem[f])
    BY <1>1, OldEntry DEF IInv
  <1>2. CASE journal'[f] = journal[f]
    BY <1>1, <1>2, SameClaim DEF Mirror!Keep
  <1>3. CASE stage[f] = "delete" /\ journal'[f] = Deleted
    <2>1. saved[f] # NoEntry /\ scan[f] = NoFile
      BY <1>1, <1>f, <1>3 DEF FileInv, DeleteInv, Progress
    <2>2. Exposed(f, saved[f])' /\ Scanned(f) = NoEntry
      BY <1>1, <1>3, <2>1 DEF Exposed, Unresolved, Scanned
    <2> QED
      BY <1>1, <2>1, <2>2, WithdrawStep
  <1>4. ASSUME stage[f] \in {"parsed", "current", "pool"}, Exposed(f, saved[f])'
        PROVE  Mirror!Keep(f) \/ Mirror!Withdraw(f)
    <2>1. Scanned(f) = scan[f] /\ scan[f] # NoEntry
      BY <1>1, <1>4, InfoScanned
    <2>2. saved[f] # NoEntry => saved[f].hash # scan[f].hash
      BY <1>f, <1>4 DEF FileInv, ParseInv
    <2>3. saved[f] # Scanned(f)
      BY <2>1, <2>2
    <2> QED
      BY <1>1, <1>4, <2>3, WithdrawStep
  <1>5. CASE stage[f] = "parsed" /\ mem[f] # NoEntry /\ journal'[f] = Deleted
    BY <1>1, <1>f, <1>4, <1>5 DEF Exposed, Unresolved
  <1>6. CASE stage[f] \in {"current", "pool"} /\ journal'[f] = info[f].hash
    <2>1. saved[f] \in Entries \cup {NoEntry}
      BY <1>t DEF TypeOK, Manifests
    <2>2. Unresolved(info[f].hash, saved[f]) \/ (saved[f] # NoEntry /\ saved[f].hash = EmptyHash)
      BY <1>1, <1>f, <1>6, <2>1, AnnouncedExposed
    <2> QED
      BY <1>1, <1>4, <1>6, <2>2 DEF Exposed, Unresolved
  <1>7. \/ journal'[f] = journal[f]
        \/ stage[f] = "delete" /\ journal'[f] = Deleted
        \/ stage[f] = "parsed" /\ mem[f] # NoEntry /\ journal'[f] = Deleted
        \/ stage[f] \in {"current", "pool"} /\ journal'[f] = info[f].hash
    <2>1. CASE JournalDeletes \/ TornRecord
      BY <2>1 DEF JournalDeletes, TornRecord, DeleteChunks, In, Recorded
    <2>2. CASE Flush
      BY <2>2 DEF Flush, In, Recorded
    <2>3. CASE \E g \in Files : Take(g)
      BY <2>3 DEF Take, Recorded
    <2>4. CASE \E g \in Files : PlaceEmpty(g)
      BY <2>4 DEF PlaceEmpty, Recorded
    <2> QED
      BY <2>1, <2>2, <2>3, <2>4
  <1> QED
    BY <1>2, <1>3, <1>5, <1>6, <1>7

LEMMA FinishClaim ==
  ASSUME IInv, FinishJournal, NEW f \in Files
  PROVE  Mirror!Keep(f)
  <1>1. points' = points /\ saved' = saved /\ saved = mem
    BY DEF FinishJournal, IInv, EndInv
  <1>2. journal'[f] = IF Unresolved(journal[f], saved[f]) THEN journal[f] ELSE NoLine
    BY <1>1 DEF FinishJournal, Finished, UnresolvedKeys
  <1>3. Claimed'[f] = Claimed[f]
    BY <1>1, <1>2, JournalConstants DEF Claimed, Exposed, Unresolved, EntryHashes
  <1> QED
    BY <1>1, <1>3 DEF Mirror!Keep

LEMMA ClaimSteps ==
  ASSUME IInv, Steady, PlanInv, [Next]_vars, NEW f \in Files, Progress(f)
  PROVE  Mirror!Keep(f) \/ Mirror!Withdraw(f) \/ Mirror!Rework(f) \/ Mirror!Settle(f)
  <1>1. CASE saved' = saved /\ journal' = journal
    BY <1>1, SilentMirror
  <1>2. CASE RecoverNothing \/ RecoverSave \/ RecoverUnlink
    BY <1>2, RecoveryMirror
  <1>3. CASE JournalDeletes \/ Flush \/ TornRecord \/ \E g \in Files : Take(g) \/ PlaceEmpty(g)
    BY <1>3, JournalMirror
  <1>4. CASE DeletesDone \/ Drain \/ WriteSnapshot \/ SaveFinal \/ Finalize \/ AbortSave
    <2>1. ~Recovering /\ pc # "scan"
      BY <1>4 DEF DeletesDone, Drain, WriteSnapshot, SaveFinal, Finalize, AbortSave,
                  Recovering, IInv, QuietInv
    <2>2. /\ points' = points /\ journal' = journal
          /\ saved' \in {saved, mem} \/ (snap # NoSnapshot /\ saved' = snap)
      BY <1>4 DEF DeletesDone, Drain, WriteSnapshot, SaveFinal, Finalize, AbortSave
    <2> QED
      BY <2>1, <2>2, SaveStep DEF PlanInv
  <1>5. CASE FinishJournal
    BY <1>5, FinishClaim
  <1>6. \/ saved' = saved /\ journal' = journal
        \/ RecoverNothing \/ RecoverSave \/ RecoverUnlink
        \/ JournalDeletes \/ Flush \/ TornRecord \/ \E g \in Files : Take(g) \/ PlaceEmpty(g)
        \/ DeletesDone \/ Drain \/ WriteSnapshot \/ SaveFinal \/ Finalize \/ AbortSave
        \/ FinishJournal
    BY DEF Next, Step, Fault, Recovery, Deletes, Parser, MainLoop, Worker, Ending, vars,
           durable, Start, RecoverDelete, RecoverFails, Scan, Connect, DeleteChunk,
           DeleteChunkFails, ReadFile, VerifyFile, DeleteOld, DeleteOldFails, PlaceInPool,
           LoopDone, Upsert, UpsertFails, RecordFile, Exit, EditFile, ChangeDialect, Crash,
           SetupFails, Abort, Unreachable, WriteFails
  <1> QED
    BY <1>1, <1>2, <1>3, <1>4, <1>5, <1>6

\* The refresh, with its threads, kills, failed requests and edits under it,
\* implements SourceMirror: what manifest and journal claim of a file is taken
\* back before its points move, and is made again of what the scan of that run
\* saw once the points bear it out; what the scan confirms stays claimed.
THEOREM RefreshImplementsSourceMirror ==
  ASSUME Steady
  PROVE  Spec => ImplementsSourceMirror
  <1> DEFINE Inv == IInv /\ PlanInv /\ \A f \in Files : Progress(f)
  <1>1. Init => Inv
    BY InitIInv DEF Init, Progress, PlanInv, SnapInv, MirrorInv, Recovering
  <1>2. Inv /\ [Next]_vars => Inv'
    BY NextIInv, NextProgress, NextPlan
  <1>3. Init => Mirror!MirrorInit
    <2> SUFFICES ASSUME Init PROVE Mirror!MirrorInit
      OBVIOUS
    <2>1. Planned = Mirror!Unplanned
      BY DEF Init, Planned, Recovering, Mirror!Unplanned
    <2> QED
      BY <2>1, InitIInv, ClaimsTrue DEF Mirror!MirrorInit, Mirror!Vouched
  <1>4. Inv /\ [Next]_vars => [Mirror!MirrorNext]_(Mirror!mirror)
    BY PlanSteps, ClaimSteps DEF Mirror!MirrorNext
  <1> QED
    BY <1>1, <1>2, <1>3, <1>4, PTL DEF Spec, ImplementsSourceMirror, Mirror!MirrorSpec
=============================================================================
