------------------------- MODULE ChangeDetectProofs -------------------------
(***************************************************************************)
(* The mtime fast path is sound when no file is written twice within one   *)
(* second: IInv is inductive, so its conjuncts TypeOK and SkippedIsCurrent *)
(* hold of every instance.                                                 *)
(***************************************************************************)
EXTENDS ChangeDetect, TLAPS

USE DetectConstants, DetectMarkers

\* What IInv says of one file.
FileInv(f) ==
  /\ mtime[f] <= clock
  /\ entries[f] # NoEntry => Fresh(f, entries[f].hash, entries[f].mtime)
  /\ scan[f] \in Scans =>
       /\ scan[f].mtime <= mtime[f]
       /\ scan[f].hash # Unhashed => Fresh(f, scan[f].hash, scan[f].mtime)

\* What it says of one file while the run indexes.
Chosen(f) ==
  /\ Scanned(f)
  /\ stage[f] = "index" => scan[f] # NoFile
  /\ stage[f] = "idle" /\ disk[f] # NoFile /\ scan[f] # NoFile /\ scan[f].mtime = mtime[f]
       => entries[f] # NoEntry /\ Describes(entries[f].hash, f)

LEMMA IInvByFile ==
  IInv <=> TypeOK /\ (\A f \in Files : FileInv(f)) /\ (pc = "index" => \A f \in Files : Chosen(f))
BY DEF IInv, FileInv, Chosen, SkippedIsCurrent

LEMMA NextByFile ==
  ASSUME TypeOK', \A f \in Files : FileInv(f)', pc' = "index" => \A f \in Files : Chosen(f)'
  PROVE  IInv'
BY DEF IInv, FileInv, Chosen, SkippedIsCurrent

LEMMA Types ==
  ASSUME TypeOK, NEW f \in Files
  PROVE  /\ clock \in Nat /\ mtime[f] \in Nat /\ disk[f] \in Contents
         /\ entries[f] # NoEntry => entries[f] \in Entries /\ entries[f].mtime \in Nat
         /\ scan[f] \in Scans => scan[f].mtime \in Times /\ scan[f].mtime \in Nat
BY DEF TypeOK, Trees, Times, Entries, Scans

LEMMA NextTimes ==
  ASSUME TypeOK', NEW f \in Files
  PROVE  clock' \in Nat /\ mtime'[f] \in Nat
BY DEF TypeOK, Times

\* Reading the hash of a file gives one that describes it.
LEMMA ReadDescribes ==
  ASSUME TypeOK, NEW f \in Files, NEW h \in ReadHash(f)
  PROVE  h \in Hashes \cup {EmptyHash} /\ (disk[f] # NoFile => Describes(h, f))
BY DEF ReadHash, Describes, TypeOK, Trees, Contents

\* A new mtime, or no file, makes every earlier hash of f irrelevant.
LEMMA Rewritten ==
  ASSUME IInv, NEW f \in Files, UNCHANGED <<clock, entries, pc, scan, stage>>, TypeOK',
         \A g \in Files \ {f} : disk'[g] = disk[g] /\ mtime'[g] = mtime[g],
         \/ disk'[f] = NoFile /\ mtime'[f] = mtime[f]
         \/ mtime[f] < mtime'[f] /\ mtime'[f] <= clock
  PROVE  IInv'
<1>1. ASSUME NEW g \in Files PROVE FileInv(g)'
  <2>1. FileInv(g)
    BY IInvByFile
  <2>2. CASE g = f
    BY <2>1, <2>2, Types, NextTimes DEF FileInv, Fresh, IInv
  <2>3. CASE g # f
    BY <2>1, <2>3 DEF FileInv, Fresh, Describes
  <2> QED BY <2>2, <2>3
<1>2. ASSUME pc' = "index", NEW g \in Files PROVE Chosen(g)'
  <2>1. Chosen(g) /\ FileInv(g)
    BY <1>2, IInvByFile
  <2>2. CASE g = f
    BY <2>1, <2>2, Types, NextTimes DEF FileInv, Chosen, Scanned, IInv
  <2>3. CASE g # f
    BY <2>1, <2>3 DEF Chosen, Scanned, Describes
  <2> QED BY <2>2, <2>3
<1> QED BY <1>1, <1>2, NextByFile
-----------------------------------------------------------------------------
LEMMA InitIInv == Init => IInv
<1> SUFFICES ASSUME Init PROVE IInv
  OBVIOUS
<1>1. TypeOK
  BY DEF Init, TypeOK, Times
<1>2. ASSUME NEW f \in Files PROVE FileInv(f)
  BY DEF Init, FileInv
<1> QED BY <1>1, <1>2, IInvByFile DEF Init

\* A step of the scan changes the scan of one file only, while pc = "scan".
LEMMA ScanSafe ==
  ASSUME IInv, NEW f \in Files, StatFile(f) \/ HashFile(f)
  PROVE  IInv'
<1>0. TypeOK /\ FileInv(f) /\ (\A g \in Files : FileInv(g))
  BY IInvByFile DEF IInv
<1>1. CASE StatFile(f)
  <2>1. TypeOK'
    BY <1>0, <1>1 DEF StatFile, TypeOK, Scans
  <2>2. ASSUME NEW g \in Files PROVE FileInv(g)'
    BY <1>0, <1>1, <2>2, Types DEF StatFile, FileInv, Fresh, Describes, TypeOK, Scans
  <2> QED BY <1>1, <2>1, <2>2, NextByFile DEF StatFile
<1>2. CASE HashFile(f)
  <2> PICK h \in ReadHash(f) : scan' = [scan EXCEPT ![f] = [hash |-> h, mtime |-> @.mtime]]
    BY <1>2 DEF HashFile
  <2> DEFINE new == [hash |-> h, mtime |-> scan[f].mtime]
  <2>1. new \in Scans /\ (disk[f] # NoFile => Describes(h, f)) /\ scan[f] \in Scans
    BY <1>0, <1>2, ReadDescribes, Types DEF HashFile, Scans
  <2>2. scan' = [scan EXCEPT ![f] = new] /\ scan'[f] = new
    BY <1>0 DEF TypeOK
  <2> HIDE DEF new
  <2>3. TypeOK'
    BY <1>0, <1>2, <2>1, <2>2 DEF HashFile, TypeOK
  <2>4. FileInv(f)'
    BY <1>0, <1>2, <2>1, <2>2 DEF HashFile, FileInv, Fresh, Describes, new
  <2>5. ASSUME NEW g \in Files \ {f} PROVE FileInv(g)'
    BY <1>0, <1>2, <2>2, <2>5 DEF HashFile, FileInv, Fresh, Describes, TypeOK
  <2> QED BY <1>2, <2>3, <2>4, <2>5, NextByFile DEF HashFile
<1> QED BY <1>1, <1>2

\* A file is left alone only if its entry has its hash or its mtime.
LEMMA DecideSafe ==
  ASSUME IInv, Decide
  PROVE  IInv'
<1>0. TypeOK /\ \A g \in Files : FileInv(g)
  BY IInvByFile DEF IInv
<1> PICK skip \in {Skip, {}} : stage' = [f \in Files |-> Verdict(f, skip)]
  BY DEF Decide
<1>1. \A f \in Files : Verdict(f, skip) \in {"idle", "index", "delete"}
  BY DEF Verdict
<1>2. TypeOK'
  BY <1>0, <1>1 DEF Decide, TypeOK
<1>3. ASSUME NEW g \in Files PROVE FileInv(g)'
  BY <1>0, <1>3 DEF Decide, FileInv, Fresh, Describes
<1>4. skip \subseteq SameSecond
  BY DEF Skip
<1>5. ASSUME NEW f \in Files PROVE Chosen(f)'
  <2>1. Scanned(f) /\ stage'[f] = Verdict(f, skip) /\ FileInv(f)
    BY <1>0 DEF Decide
  <2>2. Verdict(f, skip) = "index" => scan[f] # NoFile
    BY DEF Verdict
  <2>3. ASSUME Verdict(f, skip) = "idle", disk[f] # NoFile, scan[f] # NoFile,
               scan[f].mtime = mtime[f]
        PROVE  entries[f] # NoEntry /\ Describes(entries[f].hash, f)
    <3>1. entries[f] # NoEntry /\ (f \in SameSecond \/ entries[f].hash = scan[f].hash)
      BY <1>4, <2>3 DEF Verdict, Listed
    <3>2. CASE f \in SameSecond
      BY <2>1, <2>3, <3>1, <3>2 DEF SameSecond, FileInv, Fresh
    <3>3. CASE entries[f].hash = scan[f].hash
      BY <2>1, <2>3, <3>1, <3>3 DEF Scanned, FileInv, Fresh
    <3> QED BY <3>1, <3>2, <3>3
  <2> QED BY <2>1, <2>2, <2>3 DEF Decide, Chosen, Scanned, Describes
<1> QED BY <1>2, <1>3, <1>5, NextByFile

\* Indexing stores the scanned mtime with a hash that holds for it.
LEMMA IndexSafe ==
  ASSUME IInv, NEW f \in Files, DeleteFile(f) \/ IndexFile(f)
  PROVE  IInv'
<1>0. TypeOK /\ (\A g \in Files : FileInv(g)) /\ (\A g \in Files : Chosen(g))
  BY IInvByFile DEF IInv, DeleteFile, IndexFile
<1>1. CASE DeleteFile(f)
  <2>1. TypeOK'
    BY <1>0, <1>1 DEF DeleteFile, TypeOK
  <2>2. ASSUME NEW g \in Files PROVE FileInv(g)'
    BY <1>0, <1>1, <2>2 DEF DeleteFile, FileInv, Fresh, Describes, TypeOK
  <2>3. ASSUME NEW g \in Files PROVE Chosen(g)'
    BY <1>0, <1>1, <2>3 DEF DeleteFile, Chosen, Scanned, Describes, TypeOK
  <2> QED BY <2>1, <2>2, <2>3, NextByFile
<1>2. CASE IndexFile(f)
  <2> PICK h \in ReadHash(f) :
        entries' = [entries EXCEPT ![f] =
          [hash |-> IF h = scan[f].hash THEN h ELSE EmptyHash, mtime |-> scan[f].mtime]]
    BY <1>2 DEF IndexFile
  <2> DEFINE new == [hash |-> IF h = scan[f].hash THEN h ELSE EmptyHash,
                     mtime |-> scan[f].mtime]
  <2>1. scan[f] \in Scans /\ scan[f].hash # Unhashed
    BY <1>0, <1>2 DEF IndexFile, Chosen, Scanned
  <2>2. h \in Hashes \cup {EmptyHash} /\ (disk[f] # NoFile => Describes(h, f))
    BY <1>0, ReadDescribes
  <2>3. Fresh(f, new.hash, new.mtime)
    BY <1>0, <2>1, <2>2, Types DEF FileInv, Fresh, Describes
  <2>4. new \in Entries
    BY <1>0, <2>1, <2>2, Types DEF Entries
  <2>5. entries' = [entries EXCEPT ![f] = new] /\ entries'[f] = new
    BY <1>0 DEF TypeOK
  <2> HIDE DEF new
  <2>6. TypeOK'
    BY <1>0, <1>2, <2>4, <2>5 DEF IndexFile, TypeOK
  <2>7. ASSUME NEW g \in Files PROVE FileInv(g)'
    <3>1. entries'[g] = IF g = f THEN new ELSE entries[g]
      BY <1>0, <2>5 DEF TypeOK
    <3> QED BY <1>0, <1>2, <2>3, <3>1 DEF IndexFile, FileInv, Fresh, Describes
  <2>8. ASSUME NEW g \in Files PROVE Chosen(g)'
    <3>1. /\ entries'[g] = IF g = f THEN new ELSE entries[g]
          /\ stage'[g] = IF g = f THEN "done" ELSE stage[g]
      BY <1>0, <1>2, <2>5 DEF IndexFile, TypeOK
    <3> QED BY <1>0, <1>2, <3>1 DEF IndexFile, Chosen, Scanned, Describes
  <2> QED BY <2>6, <2>7, <2>8, NextByFile
<1> QED BY <1>1, <1>2

\* The steps that leave the files, their scans and the choice alone.
LEMMA IdleSafe ==
  ASSUME IInv,
         Tick \/ Start \/ Finalize \/ Crash \/ UNCHANGED vars
           \/ (\E f \in Files, h \in Contents : MoveHead(f, h))
  PROVE  IInv'
<1>0. TypeOK /\ (\A g \in Files : FileInv(g)) /\ (pc = "index" => \A g \in Files : Chosen(g))
  BY IInvByFile
<1> USE DEF FileInv, Fresh, Describes
<1>1. CASE Tick
  <2>1. TypeOK'
    BY <1>0, <1>1 DEF Tick, TypeOK, Times
  <2>2. ASSUME NEW g \in Files PROVE FileInv(g)'
    BY <1>0, <1>1, <2>2, Types DEF Tick
  <2>3. ASSUME pc' = "index", NEW g \in Files PROVE Chosen(g)'
    BY <1>0, <1>1, <2>3 DEF Tick, Chosen, Scanned
  <2> QED BY <2>1, <2>2, <2>3, NextByFile
<1>2. CASE Start
  <2>1. TypeOK'
    BY <1>0, <1>2 DEF Start, TypeOK
  <2>2. ASSUME NEW g \in Files PROVE FileInv(g)'
    BY <1>0, <1>2, <2>2 DEF Start
  <2> QED BY <1>2, <2>1, <2>2, NextByFile DEF Start
<1>3. CASE Finalize
  <2>1. TypeOK'
    BY <1>0, <1>3 DEF Finalize, TypeOK
  <2>2. ASSUME NEW g \in Files PROVE FileInv(g)'
    BY <1>0, <1>3, <2>2 DEF Finalize
  <2> QED BY <1>3, <2>1, <2>2, NextByFile DEF Finalize
<1>4. CASE Crash
  <2>1. TypeOK'
    BY <1>0, <1>4 DEF Crash, TypeOK
  <2>2. ASSUME NEW g \in Files PROVE FileInv(g)'
    BY <1>0, <1>4, <2>2 DEF Crash
  <2> QED BY <1>4, <2>1, <2>2, NextByFile DEF Crash
<1>5. ASSUME NEW f \in Files, NEW h \in Contents, MoveHead(f, h) PROVE IInv'
  <2>1. TypeOK'
    BY <1>0, <1>5 DEF MoveHead, TypeOK, Trees
  <2>2. ASSUME NEW g \in Files PROVE FileInv(g)'
    BY <1>0, <1>5, <2>2 DEF MoveHead
  <2>3. ASSUME pc' = "index", NEW g \in Files PROVE Chosen(g)'
    BY <1>0, <1>5, <2>3 DEF MoveHead, Chosen, Scanned
  <2> QED BY <2>1, <2>2, <2>3, NextByFile
<1>6. CASE UNCHANGED vars
  <2>1. TypeOK'
    BY <1>0, <1>6 DEF vars, TypeOK
  <2>2. ASSUME NEW g \in Files PROVE FileInv(g)'
    BY <1>0, <1>6, <2>2 DEF vars
  <2>3. ASSUME pc' = "index", NEW g \in Files PROVE Chosen(g)'
    BY <1>0, <1>6, <2>3 DEF vars, Chosen, Scanned
  <2> QED BY <2>1, <2>2, <2>3, NextByFile
<1> QED BY <1>1, <1>2, <1>3, <1>4, <1>5, <1>6

LEMMA WriteSafe ==
  ASSUME IInv, EditsShareSeconds = FALSE, NEW f \in Files,
         (\E h \in Hashes : Write(f, h)) \/ Remove(f)
  PROVE  IInv'
<1>0. TypeOK /\ clock \in Times
  BY DEF IInv, TypeOK
<1>1. ASSUME NEW h \in Hashes, Write(f, h) PROVE IInv'
  <2>1. TypeOK'
    BY <1>0, <1>1 DEF Write, TypeOK, Trees, Contents
  <2>2. mtime[f] < clock /\ mtime'[f] = clock /\ clock \in Nat
    BY <1>0, <1>1, Types DEF Write, Writable, TypeOK
  <2> QED BY <1>0, <1>1, <2>1, <2>2, Rewritten DEF Write, TypeOK, Trees
<1>2. CASE Remove(f)
  <2>1. TypeOK'
    BY <1>0, <1>2 DEF Remove, TypeOK, Trees, Contents
  <2> QED BY <1>0, <1>2, <2>1, Rewritten DEF Remove, TypeOK, Trees
<1> QED BY <1>1, <1>2

LEMMA NextIInv == ASSUME EditsShareSeconds = FALSE PROVE IInv /\ [Next]_vars => IInv'
BY IdleSafe, WriteSafe, ScanSafe, DecideSafe, IndexSafe DEF Next, Environment, Step

\* What the fast path relies on holds in every reachable state: entries and
\* scans are no older than the mtimes they carry.
THEOREM InvariantHolds == ASSUME EditsShareSeconds = FALSE PROVE Spec => []IInv
BY InitIInv, NextIInv, PTL DEF Spec

\* The fast path of determine_actions never hides a change: on every instance,
\* a file that is left alone and was not written since is what its entry says,
\* if a file's writes have mtimes of different seconds.
THEOREM FastPathSound == ASSUME EditsShareSeconds = FALSE PROVE Spec => []SkippedIsCurrent
<1>1. IInv => SkippedIsCurrent
  BY DEF IInv
<1> QED BY <1>1, InitIInv, NextIInv, PTL DEF Spec
=============================================================================
