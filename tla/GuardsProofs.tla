---------------------------- MODULE GuardsProofs ----------------------------
(***************************************************************************)
(* The lock of the refresh guards and the counts of both guards do what    *)
(* they are for, whatever ticks overlap and whatever dies: IInv of Guards  *)
(* is inductive, for any pids and any MaxSkips.                            *)
(***************************************************************************)
EXTENDS Guards, WellFoundedInduction, TLAPS

USE GuardConstants

(* Facts about pids and the least of them *)

LEMMA PidsAreNats == Pids \subseteq Nat /\ NoPid \notin Pids
BY DEF Pids, NoPid

LEMMA MinOfNats ==
  ASSUME NEW S, S \subseteq Nat, S # {}
  PROVE  Min(S) \in S
<1> DEFINE less == {ss \in Nat \X Nat : ss[1] < ss[2]}
<1>1. IsWellFoundedOn(less, Nat)
  BY NatLessThanWellFounded DEF OpToRel
<1> HIDE DEF less
<1>2. PICK x \in S : \A y \in S : <<y, x>> \notin less
  BY <1>1, WFMin
<1>3. \A y \in S : x =< y
  <2>1. SUFFICES ASSUME NEW y \in S, ~ (x =< y) PROVE FALSE
    OBVIOUS
  <2>2. y < x
    BY <2>1
  <2>3. <<y, x>> \in less
    BY <2>1, <2>2 DEF less
  <2> QED BY <1>2, <2>3
<1> QED BY <1>3 DEF Min

LEMMA FoundPid ==
  ASSUME NEW r, NEW p
  PROVE  /\ Found(r, p) \in Pids \cup {NoPid}
         /\ Found(r, p) = NoPid => Running(r) \subseteq {p}
<1> DEFINE others == Running(r) \ {p}
<1>1. others \subseteq Pids /\ others \subseteq Nat
  BY PidsAreNats DEF Running
<1>2. CASE others = {}
  BY <1>2 DEF Found
<1>3. CASE others # {}
  <2>1. Min(others) \in others
    BY <1>1, <1>3, MinOfNats
  <2> QED BY <1>1, <1>3, <2>1, PidsAreNats DEF Found
<1> QED BY <1>2, <1>3

\* The capped count.
LEMMA OneMore ==
  ASSUME NEW n \in 0 .. MaxSkips
  PROVE  /\ Min({n + 1, MaxSkips}) = IF n < MaxSkips THEN n + 1 ELSE MaxSkips
         /\ Min({n + 1, MaxSkips}) \in 1 .. MaxSkips
         /\ n <= Min({n + 1, MaxSkips})
<1>1. Min({n + 1, MaxSkips}) \in {n + 1, MaxSkips}
  BY MinOfNats
<1>2. \E x \in {n + 1, MaxSkips} : \A y \in {n + 1, MaxSkips} : x =< y
  OBVIOUS
<1>3. \A y \in {n + 1, MaxSkips} : Min({n + 1, MaxSkips}) =< y
  BY <1>2 DEF Min
<1> QED BY <1>1, <1>3

-----------------------------------------------------------------------------
(* The lock *)

\* What p may claim when it comes to the statement next.
MayReach(p, next) ==
  /\ next \in LockStatements => lock = p
  /\ next \in LateStatements => older = {}
  /\ next = "start" => Running("indexer") = {}

ControlOK ==
  /\ role \in [Pids -> Roles]
  /\ at \in [Pids -> Statements]
  /\ lock \in Running("refresh") \cup {NoPid}
  /\ older \subseteq Pids
  /\ \A p \in Pids : (role[p] = "none") = (at[p] = "off")

LEMMA GotoLock ==
  ASSUME IInv, NEW p \in Pids, NEW next \in Statements \ {"off"}, role[p] # "none",
         Goto(p, next), UNCHANGED <<lock, older>>, MayReach(p, next)
  PROVE  LockInv' /\ ControlOK'
<1> USE DEF IInv, TypeOK, LockInv, Goto, MayReach, Running, OneIndexer
<1>1. ControlOK'
  BY DEF ControlOK
<1>2. \A q \in Pids : at'[q] = IF q = p THEN next ELSE at[q]
  OBVIOUS
<1>3. LockInv'
  BY <1>2 DEF LockStatements, LateStatements
<1> QED BY <1>1, <1>3

LEMMA EndedLock ==
  ASSUME IInv, NEW p \in Pids, NEW S, NEW next \in Statements, EndedThen(S, p, next),
         next = "off" => p \in S, role[p] # "none", MayReach(p, next)
  PROVE  LockInv' /\ ControlOK'
<1> USE DEF IInv, TypeOK, LockInv, EndedThen, MayReach, Running, OneIndexer
<1>1. \A q \in Pids : at'[q] = IF q \in S THEN "off" ELSE IF q = p THEN next ELSE at[q]
  OBVIOUS
<1>2. \A q \in Pids : role'[q] = IF q \in S THEN "none" ELSE role[q]
  OBVIOUS
<1>3. ControlOK'
  <2>1. role' \in [Pids -> Roles]
    BY DEF Roles
  <2>2. at' \in [Pids -> Statements]
    BY DEF Statements
  <2> QED BY <1>1, <1>2, <2>1, <2>2, PidsAreNats DEF ControlOK
<1>4. \A q \in Pids : at'[q] \in LockStatements => lock' = q
  BY <1>1 DEF LockStatements, LateStatements
<1>5. older' \subseteq older /\ older' \subseteq {q \in Pids : role'[q] = "pull"}
  BY <1>2
<1>6. \A q \in Pids : at'[q] \in LateStatements => older' = {}
  BY <1>1, <1>5 DEF LateStatements
<1>7. \A q \in Pids : at'[q] = "start" => {r \in Pids : role'[r] = "indexer"} = {}
  BY <1>1, <1>2
<1>8. LockInv'
  BY <1>2, <1>4, <1>5, <1>6, <1>7
<1> QED BY <1>3, <1>8
-----------------------------------------------------------------------------
(* The counts *)

CountsOK ==
  /\ target \in [Pids -> Pids \cup {NoPid}]
  /\ read \in [Pids -> Sightings]
  /\ {draft, rstate} \subseteq RefreshStates
  /\ pstate \in Sightings
  /\ seen \in [Pids -> [Counters -> 0 .. MaxSkips]]
  /\ stashed \subseteq Pids

LEMMA TypeByParts == TypeOK <=> ControlOK /\ CountsOK /\ older \cup stashed \subseteq Pids
BY DEF TypeOK, ControlOK, CountsOK

\* What Earned says of the sighting s in the next state.
EarnedNext(s, who) ==
  s.n > 0 /\ s.born = "current" =>
    s.pid \in Pids /\ role'[s.pid] # "none" /\ s.n <= seen'[s.pid][who]

SightsNext ==
  /\ \A s \in {draft'.indexer, draft'.pull, rstate'.indexer, rstate'.pull} :
       EarnedNext(s, "refresh")
  /\ EarnedNext(pstate', "pull")
  /\ \A p \in Pids : EarnedNext(read'[p], "pull")

\* No process was seen less often than before.
SeenGrows ==
  \A p \in Pids, who \in Counters :
    seen'[p][who] \in 0 .. MaxSkips /\ seen[p][who] <= seen'[p][who]

LEMMA SightParts ==
  ASSUME IInv, NEW s \in Sightings
  PROVE  /\ s.n \in 0 .. MaxSkips /\ s.pid \in Pids \cup {NoPid}
         /\ s.born \in {"current", "past", "none"}
BY DEF Sightings

LEMMA StateParts ==
  ASSUME IInv
  PROVE  /\ {draft.indexer, draft.pull, rstate.indexer, rstate.pull, pstate} \subseteq Sightings
         /\ \A p \in Pids : read[p] \in Sightings
         /\ NoSighting \in Sightings /\ NoSightings \in RefreshStates
         /\ NoSighting.n = 0 /\ NoSightings.indexer.n = 0 /\ NoSightings.pull.n = 0
BY DEF IInv, TypeOK, RefreshStates, NoSighting, NoSightings, Sightings

LEMMA EarnedKept ==
  ASSUME IInv, NEW s \in Sightings, NEW who \in Counters, Earned(s, who),
         role' = role, SeenGrows
  PROVE  EarnedNext(s, who)
<1> SUFFICES ASSUME s.n > 0, s.born = "current"
             PROVE  s.pid \in Pids /\ role'[s.pid] # "none" /\ s.n <= seen'[s.pid][who]
  BY DEF EarnedNext
<1>1. s.pid \in Pids /\ role[s.pid] # "none" /\ s.n <= seen[s.pid][who]
  BY DEF Earned
<1>2. s.n \in Nat /\ seen[s.pid][who] \in Nat /\ seen'[s.pid][who] \in Nat
  BY <1>1, SightParts DEF SeenGrows, IInv, TypeOK
<1> QED BY <1>1, <1>2 DEF SeenGrows

LEMMA NotedGrows ==
  ASSUME IInv, NEW q \in Pids, NEW who \in Counters, Noted(q, who)
  PROVE  /\ SeenGrows
         /\ seen' \in [Pids -> [Counters -> 0 .. MaxSkips]]
         /\ role[q] # "none" => seen'[q][who] = Min({seen[q][who] + 1, MaxSkips})
<1>1. seen \in [Pids -> [Counters -> 0 .. MaxSkips]]
  BY DEF IInv, TypeOK
<1>2. CASE role[q] = "none"
  BY <1>1, <1>2 DEF Noted, SeenGrows
<1>3. CASE role[q] # "none"
  <2> DEFINE n == Min({seen[q][who] + 1, MaxSkips})
  <2>1. n \in 1 .. MaxSkips /\ seen[q][who] <= n
    BY <1>1, OneMore
  <2>2. seen' = [seen EXCEPT ![q][who] = n]
    BY <1>3 DEF Noted
  <2>3. n \in 0 .. MaxSkips
    BY <2>1
  <2>4. seen' \in [Pids -> [Counters -> 0 .. MaxSkips]] /\ seen'[q][who] = n
    <3> HIDE DEF n
    <3> QED BY <1>1, <2>2, <2>3
  <2>5. \A p \in Pids, w \in Counters :
          seen'[p][w] = IF p = q /\ w = who THEN n ELSE seen[p][w]
    <3> HIDE DEF n
    <3> QED BY <1>1, <2>2
  <2>6. SeenGrows
    <3> HIDE DEF n
    <3> QED BY <1>1, <2>1, <2>4, <2>5 DEF SeenGrows
  <2> QED BY <2>4, <2>6
<1> QED BY <1>2, <1>3

LEMMA SightedEarned ==
  ASSUME IInv, NEW s \in Sightings, NEW q \in Pids, NEW who \in Counters,
         Earned(s, who), Noted(q, who), role' = role
  PROVE  /\ Sighted(s, q) \in Sightings /\ Sighted(s, q).pid = q
         /\ EarnedNext(Sighted(s, q), who)
         /\ Sighted(s, q).n >= MaxSkips /\ role[q] # "none" => seen'[q][who] = MaxSkips
<1> DEFINE again == s.pid = q /\ s.born = StartTime(q) /\ s.n > 0
           n == IF again THEN Min({s.n + 1, MaxSkips}) ELSE 1
<1>1. s.n \in 0 .. MaxSkips
  BY SightParts
<1>2. n \in 1 .. MaxSkips
  BY <1>1, OneMore
<1>3. Sighted(s, q) = [n |-> n, pid |-> q, born |-> StartTime(q)]
  BY DEF Sighted
<1>4. Sighted(s, q) \in Sightings
  BY <1>2, <1>3 DEF Sightings, StartTime
<1>5. seen[q][who] \in 0 .. MaxSkips
  BY DEF IInv, TypeOK
<1>6. ASSUME role[q] # "none" PROVE n <= seen'[q][who] /\ seen'[q][who] \in 0 .. MaxSkips
  <2>1. seen'[q][who] = Min({seen[q][who] + 1, MaxSkips})
    BY <1>6, NotedGrows
  <2>2. StartTime(q) = "current"
    BY <1>6 DEF StartTime
  <2>3. again => s.n <= seen[q][who]
    BY <2>2 DEF Earned
  <2> QED BY <1>1, <1>5, <2>1, <2>3, OneMore
<1>7. StartTime(q) = "current" => role[q] # "none"
  BY DEF StartTime
<1> HIDE DEF n
<1> QED BY <1>2, <1>3, <1>4, <1>6, <1>7 DEF EarnedNext

\* The targets of the kills in the next state.
KillsNext ==
  \A p \in Pids :
    target'[p] # NoPid /\ role'[target'[p]] # "none" =>
      /\ at'[p] \in {"killpull", "killindexer"} => seen'[target'[p]]["refresh"] = MaxSkips
      /\ at'[p] = "kill" => seen'[target'[p]]["pull"] = MaxSkips

LEMMA SightsFromParts ==
  ASSUME SightsNext, KillsNext
  PROVE  SightInv'
BY DEF SightInv, SightsNext, KillsNext, EarnedNext, Earned, KillsOnlySeen

-----------------------------------------------------------------------------
(* The three kinds of steps: a guard goes on, processes end, one starts *)

KillStatements == {"killpull", "killindexer", "kill"}
CountStatements == {"countpull", "countindexer", "count"}

\* p was seen often enough to kill its target at the statement next.
MayKill(p, next) ==
  role[target'[p]] # "none" =>
    /\ next \in {"killpull", "killindexer"} => seen'[target'[p]]["refresh"] = MaxSkips
    /\ next = "kill" => seen'[target'[p]]["pull"] = MaxSkips

LEMMA GotoStep ==
  ASSUME IInv, NEW p \in Pids, NEW next \in Statements \ {"off"}, role[p] # "none",
         Goto(p, next), UNCHANGED <<lock, older>>, MayReach(p, next),
         CountsOK', SightsNext, SeenGrows,
         \A q \in Pids \ {p} : target'[q] = target[q],
         next \in KillStatements \cup CountStatements => target'[p] \in Pids,
         MayKill(p, next)
  PROVE  IInv'
<1>1. LockInv' /\ ControlOK'
  BY GotoLock
<1>2. TypeOK'
  BY <1>1 DEF TypeOK, ControlOK, CountsOK
<1>3. role' = role /\ \A q \in Pids : at'[q] = IF q = p THEN next ELSE at[q]
  BY DEF Goto, IInv, TypeOK
<1>4. TargetInv'
  BY <1>3 DEF IInv, TargetInv, KillStatements, CountStatements
<1>5. KillsNext
  <2> SUFFICES ASSUME NEW q \in Pids, target'[q] # NoPid, role'[target'[q]] # "none"
               PROVE  /\ at'[q] \in {"killpull", "killindexer"} =>
                           seen'[target'[q]]["refresh"] = MaxSkips
                      /\ at'[q] = "kill" => seen'[target'[q]]["pull"] = MaxSkips
    BY DEF KillsNext
  <2>1. CASE q = p
    BY <1>3, <2>1 DEF MayKill
  <2>2. CASE q # p
    <3>1. target[q] \in Pids /\ target'[q] = target[q] /\ at'[q] = at[q]
      BY <1>3, <2>2 DEF IInv, TypeOK
    <3>2. \A who \in Counters : seen[target[q]][who] = MaxSkips => seen'[target[q]][who] = MaxSkips
      BY <3>1 DEF SeenGrows
    <3> QED BY <1>3, <3>1, <3>2 DEF IInv, SightInv, KillsOnlySeen, Counters
  <2> QED BY <2>1, <2>2
<1>6. SightInv'
  BY <1>5, SightsFromParts
<1> QED BY <1>1, <1>2, <1>4, <1>6 DEF IInv

\* Nothing is counted: what was earned still is.
LEMMA NothingCounted ==
  ASSUME IInv, role' = role, seen' = seen
  PROVE  /\ SeenGrows
         /\ \A s \in Sightings, who \in Counters : Earned(s, who) => EarnedNext(s, who)
<1>1. SeenGrows
  BY DEF SeenGrows, IInv, TypeOK, Counters
<1> QED BY <1>1, EarnedKept

LEMMA AgedEarned ==
  ASSUME IInv, NEW s \in Sightings, NEW S, NEW who \in Counters, Earned(s, who),
         \A q \in Pids \ S : role'[q] = role[q] /\ seen'[q] = seen[q]
  PROVE  Aged(s, S) \in Sightings /\ EarnedNext(Aged(s, S), who)
<1>1. CASE s.pid \in S /\ s.born = "current"
  <2>1. Aged(s, S) = [n |-> s.n, pid |-> s.pid, born |-> "past"]
    BY <1>1 DEF Aged, Sightings
  <2> QED BY <2>1, SightParts DEF Sightings, EarnedNext
<1>2. CASE ~ (s.pid \in S /\ s.born = "current")
  <2>1. Aged(s, S) = s
    BY <1>2 DEF Aged
  <2> QED BY <1>2, <2>1 DEF Earned, EarnedNext
<1> QED BY <1>1, <1>2

LEMMA AgedBothEarned ==
  ASSUME IInv, NEW d \in {draft, rstate}, NEW S,
         \A q \in Pids \ S : role'[q] = role[q] /\ seen'[q] = seen[q]
  PROVE  /\ AgedBoth(d, S) \in RefreshStates
         /\ EarnedNext(AgedBoth(d, S).indexer, "refresh")
         /\ EarnedNext(AgedBoth(d, S).pull, "refresh")
<1>1. /\ d.indexer \in Sightings /\ Earned(d.indexer, "refresh")
      /\ d.pull \in Sightings /\ Earned(d.pull, "refresh")
  BY StateParts DEF IInv, SightInv
<1>2. "refresh" \in Counters
  BY DEF Counters
<1> QED BY <1>1, <1>2, AgedEarned DEF AgedBoth, RefreshStates

LEMMA EndedStep ==
  ASSUME IInv, NEW p \in Pids, NEW S,
         NEW next \in {"off", "repulls", "reindexers", "killed"}, EndedThen(S, p, next),
         next = "off" => p \in S, role[p] # "none", MayReach(p, next)
  PROVE  IInv'
<1>0. next \in Statements
  BY DEF Statements, LockStatements, LateStatements, PullStatements
<1>1. LockInv' /\ ControlOK'
  BY <1>0, EndedLock
<1>2. \A q \in Pids :
        /\ q \notin S => role'[q] = role[q] /\ seen'[q] = seen[q]
        /\ q \in S => role'[q] = "none" /\ seen'[q] = Unseen
        /\ at'[q] = IF q \in S THEN "off" ELSE IF q = p THEN next ELSE at[q]
        /\ target'[q] = IF q \in S \cup {p} THEN NoPid ELSE target[q]
        /\ read'[q] = IF q \in S \cup {p} THEN NoSighting ELSE Aged(read[q], S)
  BY DEF EndedThen, IInv, TypeOK
<1>3. EarnedNext(NoSighting, "refresh") /\ EarnedNext(NoSighting, "pull")
  BY StateParts DEF EarnedNext
<1>4. draft' \in {AgedBoth(draft, S), NoSightings} /\ rstate' = AgedBoth(rstate, S)
      /\ pstate' = Aged(pstate, S)
  BY DEF EndedThen
<1>5. /\ draft' \in RefreshStates /\ rstate' \in RefreshStates
      /\ EarnedNext(draft'.indexer, "refresh") /\ EarnedNext(draft'.pull, "refresh")
      /\ EarnedNext(rstate'.indexer, "refresh") /\ EarnedNext(rstate'.pull, "refresh")
  <2>1. NoSightings.indexer = NoSighting /\ NoSightings.pull = NoSighting
    BY DEF NoSightings
  <2> QED BY <1>2, <1>3, <1>4, <2>1, AgedBothEarned, StateParts
<1>6. pstate' \in Sightings /\ EarnedNext(pstate', "pull")
  BY <1>2, <1>4, StateParts, AgedEarned DEF IInv, SightInv, Counters
<1>7. ASSUME NEW q \in Pids PROVE read'[q] \in Sightings /\ EarnedNext(read'[q], "pull")
  <2>1. Earned(read[q], "pull") /\ read[q] \in Sightings /\ "pull" \in Counters
    BY StateParts DEF IInv, SightInv, Counters
  <2>2. Aged(read[q], S) \in Sightings /\ EarnedNext(Aged(read[q], S), "pull")
    BY <1>2, <2>1, AgedEarned
  <2> QED BY <1>2, <1>3, <2>2, StateParts
<1>8. SightsNext
  BY <1>5, <1>6, <1>7 DEF SightsNext
<1>9. CountsOK'
  <2>1. target' \in [Pids -> Pids \cup {NoPid}]
    BY DEF EndedThen, IInv, TypeOK
  <2>2. read' \in [Pids -> Sightings]
    BY <1>7 DEF EndedThen
  <2>3. seen' \in [Pids -> [Counters -> 0 .. MaxSkips]]
    BY DEF EndedThen, IInv, TypeOK, Unseen
  <2>4. stashed' \subseteq Pids
    BY DEF EndedThen, IInv, TypeOK
  <2> QED BY <1>5, <1>6, <2>1, <2>2, <2>3, <2>4 DEF CountsOK
<1>10. TypeOK'
  BY <1>1, <1>9 DEF TypeOK, ControlOK, CountsOK
<1>11. TargetInv'
  BY <1>2 DEF IInv, TargetInv
<1>12. KillsNext
  <2> SUFFICES ASSUME NEW q \in Pids, target'[q] # NoPid, role'[target'[q]] # "none"
               PROVE  /\ at'[q] \in {"killpull", "killindexer"} =>
                           seen'[target'[q]]["refresh"] = MaxSkips
                      /\ at'[q] = "kill" => seen'[target'[q]]["pull"] = MaxSkips
    BY DEF KillsNext
  <2>1. q \notin S \cup {p} /\ target'[q] = target[q] /\ at'[q] = at[q] /\ target[q] \in Pids
    BY <1>2 DEF IInv, TypeOK
  <2>2. target[q] \notin S
    BY <1>2, <2>1
  <2> QED BY <1>2, <2>1, <2>2 DEF IInv, SightInv, KillsOnlySeen
<1>13. SightInv'
  BY <1>8, <1>12, SightsFromParts
<1> QED BY <1>1, <1>10, <1>11, <1>13 DEF IInv

LEMMA SpawnedSights ==
  ASSUME IInv, NEW q \in Pids, NEW script \in Roles, Spawned(q, script),
         \A r \in Pids : at'[r] \in KillStatements \cup CountStatements => at'[r] = at[r]
  PROVE  TargetInv' /\ SightInv' /\ CountsOK'
<1>1. /\ role[q] = "none" /\ seen' = seen /\ target' = target /\ read' = read
      /\ draft' = draft /\ rstate' = rstate /\ pstate' = pstate /\ stashed' = stashed
      /\ \A r \in Pids \ {q} : role'[r] = role[r]
      /\ \A r \in Pids : target[r] # q
  BY DEF Spawned, files, IInv, TypeOK
<1>2. ASSUME NEW s \in Sightings, NEW who \in Counters, Earned(s, who)
      PROVE  EarnedNext(s, who)
  BY <1>1, <1>2 DEF Earned, EarnedNext
<1>3. SightsNext
  BY <1>1, <1>2, StateParts DEF SightsNext, IInv, SightInv, Counters
<1>4. KillsNext
  <2> SUFFICES ASSUME NEW r \in Pids, target'[r] # NoPid, role'[target'[r]] # "none"
               PROVE  /\ at'[r] \in {"killpull", "killindexer"} =>
                           seen'[target'[r]]["refresh"] = MaxSkips
                      /\ at'[r] = "kill" => seen'[target'[r]]["pull"] = MaxSkips
    BY DEF KillsNext
  <2>1. target[r] \in Pids \ {q} /\ role[target[r]] # "none"
    BY <1>1 DEF IInv, TypeOK
  <2> QED BY <1>1, <2>1 DEF IInv, SightInv, KillsOnlySeen, KillStatements
<1>5. CountsOK'
  BY <1>1 DEF CountsOK, IInv, TypeOK
<1>6. TargetInv'
  BY <1>1 DEF IInv, TargetInv, KillStatements, CountStatements
<1> QED BY <1>3, <1>4, <1>5, <1>6, SightsFromParts

\* A guard starts.
LEMMA TickStep ==
  ASSUME IInv, NEW p \in Pids, TickRefresh(p) \/ TickPull(p)
  PROVE  IInv'
<1>1. PICK script \in {"refresh", "pull"}, next \in {"lock", "state"} :
        Spawned(p, script) /\ at' = [at EXCEPT ![p] = next]
  BY DEF TickRefresh, TickPull
<1>2. /\ role[p] = "none" /\ lock' = lock /\ older' = older
      /\ \A q \in Pids : role'[q] = IF q = p THEN script ELSE role[q]
      /\ \A q \in Pids : at'[q] = IF q = p THEN next ELSE at[q]
  BY <1>1 DEF Spawned, IInv, TypeOK
<1>3. TargetInv' /\ SightInv' /\ CountsOK'
  BY <1>1, <1>2, SpawnedSights DEF Roles, KillStatements, CountStatements
<1>4. ControlOK'
  <2>1. role' \in [Pids -> Roles] /\ at' \in [Pids -> Statements]
    BY <1>1 DEF Spawned, IInv, TypeOK, Roles, Statements, PullStatements
  <2> QED BY <1>2, <2>1 DEF ControlOK, IInv, TypeOK, Running
<1>5. LockInv'
  BY <1>2 DEF IInv, LockInv, OneIndexer, Running, LockStatements, LateStatements
<1>6. TypeOK'
  BY <1>2, <1>3, <1>4 DEF TypeOK, ControlOK, CountsOK
<1> QED BY <1>3, <1>5, <1>6 DEF IInv

\* The only place where an indexer starts: no other guard stands there, and
\* no indexer runs.
LEMMA StartStep ==
  ASSUME IInv, NEW p \in Pids, NEW q \in Pids, StartIndexer(p, q)
  PROVE  IInv'
<1>1. /\ role[p] = "refresh" /\ at[p] = "start" /\ role[q] = "none" /\ p # q
      /\ lock' = lock /\ older' = older
      /\ \A r \in Pids : role'[r] = IF r = q THEN "indexer" ELSE role[r]
      /\ \A r \in Pids : at'[r] = IF r = q THEN "run" ELSE IF r = p THEN "exit" ELSE at[r]
  BY DEF StartIndexer, Spawned, At, IInv, TypeOK
<1>2. Running("indexer") = {}
  BY <1>1 DEF IInv, LockInv
<1>3. \A r \in Pids : at[r] = "start" => r = p
  BY <1>1 DEF IInv, LockInv, LockStatements, LateStatements
<1>4. TargetInv' /\ SightInv' /\ CountsOK'
  <2>1. Spawned(q, "indexer") /\ "indexer" \in Roles
    BY DEF StartIndexer, Roles
  <2> QED BY <1>1, <2>1, SpawnedSights DEF KillStatements, CountStatements
<1>5. ControlOK'
  <2>1. role' \in [Pids -> Roles]
    BY DEF StartIndexer, Spawned, IInv, TypeOK, Roles
  <2>2. at' \in [Pids -> Statements]
    BY DEF StartIndexer, IInv, TypeOK, Statements
  <2>3. \A r \in Pids : (role'[r] = "none") = (at'[r] = "off")
    BY <1>1 DEF IInv, TypeOK
  <2>4. lock' \in Running("refresh")' \cup {NoPid}
    BY <1>1 DEF IInv, TypeOK, Running
  <2> QED BY <1>1, <2>1, <2>2, <2>3, <2>4 DEF ControlOK, IInv, TypeOK
<1>6. LockInv'
  BY <1>1, <1>2, <1>3 DEF IInv, LockInv, OneIndexer, Running, LockStatements, LateStatements
<1>7. TypeOK'
  BY <1>1, <1>4, <1>5 DEF TypeOK, ControlOK, CountsOK
<1> QED BY <1>4, <1>6, <1>7 DEF IInv

-----------------------------------------------------------------------------
(* The steps of the refresh guard *)

\* Where the guard p stands says that it holds the lock.
LEMMA Deciding ==
  ASSUME IInv, NEW p \in Pids, at[p] \in LockStatements
  PROVE  lock = p /\ role[p] = "refresh"
BY PidsAreNats DEF IInv, LockInv, TypeOK, Running

LEMMA AcquireStep ==
  ASSUME IInv, NEW p \in Pids, Acquire(p)
  PROVE  IInv'
<1>1. /\ role[p] = "refresh" /\ lock = NoPid /\ lock' = p /\ older' = Running("pull")
      /\ role' = role /\ seen' = seen /\ target' = target /\ read' = read /\ draft' = rstate
      /\ rstate' = rstate /\ pstate' = pstate /\ stashed' = stashed
      /\ \A q \in Pids : at'[q] = IF q = p THEN "pulls" ELSE at[q]
  BY DEF Acquire, At, Goto, files, IInv, TypeOK
<1>2. \A q \in Pids : at[q] \notin LockStatements
  BY <1>1, PidsAreNats DEF IInv, LockInv
<1>3. LockInv'
  BY <1>1, <1>2 DEF IInv, LockInv, OneIndexer, Running, LockStatements, LateStatements
<1>4. ControlOK'
  <2>1. at' \in [Pids -> Statements]
    BY DEF Acquire, Goto, IInv, TypeOK, Statements, LockStatements
  <2> QED BY <1>1, <2>1 DEF ControlOK, IInv, TypeOK, Running
<1>5. SightsNext
  <2>1. \A s \in Sightings, who \in Counters : Earned(s, who) => EarnedNext(s, who)
    BY <1>1, NothingCounted
  <2> QED BY <1>1, <2>1, StateParts DEF SightsNext, IInv, SightInv, Counters
<1>6. KillsNext /\ TargetInv'
  BY <1>1 DEF KillsNext, IInv, SightInv, KillsOnlySeen, TargetInv
<1>7. CountsOK'
  BY <1>1 DEF CountsOK, IInv, TypeOK
<1>8. TypeOK'
  BY <1>1, <1>4, <1>7 DEF TypeOK, ControlOK, CountsOK, Running
<1> QED BY <1>3, <1>5, <1>6, <1>8, SightsFromParts DEF IInv

\* A step that counts nothing and kills nothing: counters are copied or reset.
RefreshSights == {draft.indexer, draft.pull, rstate.indexer, rstate.pull, NoSighting}

LEMMA PlainStep ==
  ASSUME IInv, NEW p \in Pids, NEW next \in Statements \ {"off"}, next \notin KillStatements,
         role[p] # "none", Goto(p, next), UNCHANGED <<lock, older, seen>>, MayReach(p, next),
         target' \in [Pids -> Pids \cup {NoPid}],
         \A q \in Pids \ {p} : target'[q] = target[q],
         next \in CountStatements => target'[p] \in Pids,
         draft' \in RefreshStates, rstate' \in RefreshStates,
         {draft'.indexer, draft'.pull, rstate'.indexer, rstate'.pull} \subseteq RefreshSights,
         pstate' \in {pstate, NoSighting}, read' \in [Pids -> Sightings],
         \A q \in Pids : read'[q] \in {read[q], pstate, NoSighting},
         stashed' \subseteq Pids
  PROVE  IInv'
<1>1. role' = role /\ seen' = seen
  BY DEF Goto
<1>2. SeenGrows /\ \A s \in Sightings, who \in Counters : Earned(s, who) => EarnedNext(s, who)
  BY <1>1, NothingCounted
<1>3. EarnedNext(NoSighting, "refresh") /\ EarnedNext(NoSighting, "pull")
  BY StateParts DEF EarnedNext
<1>4. \A s \in RefreshSights : EarnedNext(s, "refresh")
  BY <1>2, <1>3, StateParts DEF RefreshSights, IInv, SightInv, Counters
<1>5. EarnedNext(pstate, "pull") /\ \A q \in Pids : EarnedNext(read[q], "pull")
  BY <1>2, StateParts DEF IInv, SightInv, Counters
<1>6. SightsNext
  <2>1. \A s \in {draft'.indexer, draft'.pull, rstate'.indexer, rstate'.pull} : s \in RefreshSights
    OBVIOUS
  <2> QED BY <1>3, <1>4, <1>5, <2>1 DEF SightsNext
<1>7. CountsOK'
  BY <1>1, StateParts DEF CountsOK, IInv, TypeOK
<1>8. MayKill(p, next)
  BY DEF MayKill, KillStatements
<1> QED BY <1>2, <1>6, <1>7, <1>8, GotoStep DEF KillStatements

LEMMA DraftParts ==
  ASSUME IInv
  PROVE  /\ draft \in RefreshStates /\ rstate \in RefreshStates
         /\ {draft.indexer, draft.pull, rstate.indexer, rstate.pull} \subseteq RefreshSights
         /\ \A d \in {[draft EXCEPT !.pull = NoSighting], [draft EXCEPT !.indexer = NoSighting]} :
              d \in RefreshStates /\ {d.indexer, d.pull} \subseteq RefreshSights
BY StateParts DEF IInv, TypeOK, RefreshStates, RefreshSights

LEMMA ScanPullsStep ==
  ASSUME IInv, NEW p \in Pids, ScanPulls(p)
  PROVE  IInv'
<1>1. /\ role[p] = "refresh" /\ at[p] = "pulls" /\ target' = [target EXCEPT ![p] = Found("pull", p)]
      /\ UNCHANGED <<read, lock, files, stashed, seen, older>>
      /\ draft' \in {draft, [draft EXCEPT !.pull = NoSighting]}
  BY DEF ScanPulls, At, Scanned
<1>2. Found("pull", p) \in Pids \cup {NoPid}
  BY FoundPid
<1>3. target'[p] = Found("pull", p)
  BY <1>1 DEF IInv, TypeOK
<1>4. lock = p
  BY <1>1, Deciding DEF LockStatements
<1>5. target'[p] = NoPid => older = {}
  <2>1. target'[p] = NoPid => Running("pull") \subseteq {p}
    BY <1>3, FoundPid
  <2> QED BY <1>1, <2>1 DEF IInv, LockInv, Running
<1>6. PICK next \in {"indexers", "countpull"} :
        Goto(p, next) /\ (next = "indexers") = (target'[p] = NoPid)
  BY DEF ScanPulls, Scanned
<1>7. MayReach(p, next)
  BY <1>4, <1>5, <1>6 DEF MayReach, LateStatements
<1> QED BY <1>1, <1>2, <1>3, <1>6, <1>7, PlainStep, DraftParts, ZenonT(60)
        DEF files, IInv, TypeOK, Statements, LockStatements, LateStatements, KillStatements, CountStatements

LEMMA RescanPullsStep ==
  ASSUME IInv, NEW p \in Pids, RescanPulls(p)
  PROVE  IInv'
<1>1. /\ role[p] = "refresh" /\ at[p] = "repulls"
      /\ UNCHANGED <<target, read, lock, pstate, stashed, seen, older>>
      /\ draft' = [draft EXCEPT !.pull = NoSighting] /\ rstate' \in {rstate, draft'}
  BY DEF RescanPulls, At
<1>2. lock = p
  BY <1>1, Deciding DEF LockStatements
<1>3. Found("pull", p) = NoPid => older = {}
  <2>1. Found("pull", p) = NoPid => Running("pull") \subseteq {p}
    BY FoundPid
  <2> QED BY <1>1, <2>1 DEF IInv, LockInv, Running
<1>4. PICK next \in {"indexers", "exit"} :
        Goto(p, next) /\ (next = "indexers" => Found("pull", p) = NoPid)
  BY DEF RescanPulls
<1>5. MayReach(p, next)
  BY <1>2, <1>3, <1>4 DEF MayReach, LockStatements, LateStatements
<1> QED BY <1>1, <1>4, <1>5, PlainStep, DraftParts, ZenonT(60)
        DEF files, IInv, TypeOK, Statements, LockStatements, LateStatements, KillStatements, CountStatements

LEMMA ScanIndexersStep ==
  ASSUME IInv, NEW p \in Pids, ScanIndexers(p)
  PROVE  IInv'
<1>1. /\ role[p] = "refresh" /\ at[p] = "indexers"
      /\ target' = [target EXCEPT ![p] = Found("indexer", p)]
      /\ UNCHANGED <<read, lock, pstate, stashed, seen, older>>
      /\ draft' \in {draft, [draft EXCEPT !.indexer = NoSighting]} /\ rstate' \in {rstate, draft'}
  BY DEF ScanIndexers, At, Scanned
<1>2. Found("indexer", p) \in Pids \cup {NoPid}
  BY FoundPid
<1>3. target'[p] = Found("indexer", p)
  BY <1>1 DEF IInv, TypeOK
<1>4. lock = p
  BY <1>1, Deciding DEF LockStatements, LateStatements
<1>5. target'[p] = NoPid => Running("indexer") = {}
  <2>1. target'[p] = NoPid => Running("indexer") \subseteq {p}
    BY <1>3, FoundPid
  <2> QED BY <1>1, <2>1 DEF Running
<1>6. PICK next \in {"start", "countindexer"} :
        Goto(p, next) /\ (next = "start") = (target'[p] = NoPid)
  BY DEF ScanIndexers, Scanned
<1>7. MayReach(p, next)
  BY <1>1, <1>4, <1>5, <1>6 DEF MayReach, LateStatements, IInv, LockInv
<1>8. /\ draft' \in RefreshStates /\ rstate' \in RefreshStates
      /\ {draft'.indexer, draft'.pull, rstate'.indexer, rstate'.pull} \subseteq RefreshSights
  BY <1>1, DraftParts
<1>9. /\ next \in Statements \ {"off"} /\ next \notin KillStatements
      /\ next \in CountStatements => target'[p] \in Pids
  BY <1>2, <1>3, <1>6 DEF Statements, LockStatements, LateStatements, KillStatements, CountStatements
<1>10. /\ target' \in [Pids -> Pids \cup {NoPid}] /\ \A q \in Pids \ {p} : target'[q] = target[q]
       /\ read' \in [Pids -> Sightings] /\ stashed' \subseteq Pids
  BY <1>1, <1>2 DEF IInv, TypeOK
<1> QED BY <1>1, <1>6, <1>7, <1>8, <1>9, <1>10, PlainStep

LEMMA RescanIndexersStep ==
  ASSUME IInv, NEW p \in Pids, RescanIndexers(p)
  PROVE  IInv'
<1>1. /\ role[p] = "refresh" /\ at[p] = "reindexers"
      /\ UNCHANGED <<target, read, lock, pstate, stashed, seen, older>>
      /\ draft' = [draft EXCEPT !.indexer = NoSighting] /\ rstate' = draft'
  BY DEF RescanIndexers, At
<1>2. lock = p
  BY <1>1, Deciding DEF LockStatements, LateStatements
<1>3. Found("indexer", p) = NoPid => Running("indexer") = {}
  <2>1. Found("indexer", p) = NoPid => Running("indexer") \subseteq {p}
    BY FoundPid
  <2> QED BY <1>1, <2>1 DEF Running
<1>4. PICK next \in {"start", "exit"} :
        Goto(p, next) /\ (next = "start" => Found("indexer", p) = NoPid)
  BY DEF RescanIndexers
<1>5. MayReach(p, next)
  BY <1>1, <1>2, <1>3, <1>4 DEF MayReach, LockStatements, LateStatements, IInv, LockInv
<1> QED BY <1>1, <1>4, <1>5, PlainStep, DraftParts
        DEF files, IInv, TypeOK, Statements, LockStatements, LateStatements, KillStatements, CountStatements

\* The draft has been updated with the sighting t of the target.
LEMMA CountedDraft ==
  ASSUME IInv, NEW p \in Pids, role' = role, SeenGrows,
         seen' \in [Pids -> [Counters -> 0 .. MaxSkips]],
         UNCHANGED <<target, read, pstate, stashed>>,
         NEW t \in Sightings, EarnedNext(t, "refresh"),
         draft' \in {[draft EXCEPT !.pull = t], [draft EXCEPT !.indexer = t]},
         rstate' \in {rstate, draft'}
  PROVE  SightsNext /\ CountsOK'
<1>1. \A s \in Sightings, who \in Counters : Earned(s, who) => EarnedNext(s, who)
  BY EarnedKept
<1>2. /\ draft' \in RefreshStates
      /\ {draft'.indexer, draft'.pull} \subseteq {draft.indexer, draft.pull, t}
  BY StateParts DEF IInv, TypeOK, RefreshStates
<1>3. \A s \in {draft.indexer, draft.pull, rstate.indexer, rstate.pull, t} : EarnedNext(s, "refresh")
  BY <1>1, StateParts DEF IInv, SightInv, Counters
<1>4. EarnedNext(pstate, "pull") /\ \A q \in Pids : EarnedNext(read[q], "pull")
  BY <1>1, StateParts DEF IInv, SightInv, Counters
<1>5. SightsNext
  BY <1>2, <1>3, <1>4 DEF SightsNext
<1>6. CountsOK'
  BY <1>2 DEF CountsOK, IInv, TypeOK
<1> QED BY <1>5, <1>6

LEMMA CountPullStep ==
  ASSUME IInv, NEW p \in Pids, CountPull(p)
  PROVE  IInv'
<1> DEFINE t == Sighted(draft.pull, target[p])
<1>1. /\ role[p] = "refresh" /\ at[p] = "countpull" /\ Noted(target[p], "refresh") /\ role' = role
      /\ UNCHANGED <<target, read, lock, pstate, stashed, older>>
      /\ draft' = [draft EXCEPT !.pull = t] /\ rstate' \in {rstate, draft'}
  BY DEF CountPull, At, Goto
<1>2. lock = p /\ target[p] \in Pids
  BY <1>1, Deciding DEF LockStatements, IInv, TargetInv
<1>3. /\ t \in Sightings /\ EarnedNext(t, "refresh")
      /\ t.n >= MaxSkips /\ role[target[p]] # "none" => seen'[target[p]]["refresh"] = MaxSkips
  BY <1>1, <1>2, StateParts, SightedEarned DEF IInv, SightInv, Counters
<1>4. draft'.pull = t
  BY <1>1, DraftParts DEF RefreshStates
<1>5. PICK next \in {"exit", "killpull"} : Goto(p, next) /\ (next = "killpull" => t.n >= MaxSkips)
  BY <1>3, <1>4, SightParts DEF CountPull
<1> HIDE DEF t
<1>6. SeenGrows /\ seen' \in [Pids -> [Counters -> 0 .. MaxSkips]]
  BY <1>1, <1>2, NotedGrows DEF Counters
<1>7. SightsNext /\ CountsOK'
  BY <1>1, <1>3, <1>6, CountedDraft
<1>8. MayReach(p, next) /\ MayKill(p, next) /\ target'[p] \in Pids
  BY <1>1, <1>2, <1>3, <1>5 DEF MayReach, MayKill, LockStatements, LateStatements
<1>9. next \in Statements \ {"off"}
  BY DEF Statements, LockStatements
<1> QED BY <1>1, <1>5, <1>6, <1>7, <1>8, <1>9, GotoStep

LEMMA CountIndexerStep ==
  ASSUME IInv, NEW p \in Pids, CountIndexer(p)
  PROVE  IInv'
<1> DEFINE t == Sighted(draft.indexer, target[p])
<1>1. /\ role[p] = "refresh" /\ at[p] = "countindexer" /\ Noted(target[p], "refresh") /\ role' = role
      /\ UNCHANGED <<target, read, lock, pstate, stashed, older>>
      /\ draft' = [draft EXCEPT !.indexer = t] /\ rstate' = draft'
  BY DEF CountIndexer, At, Goto
<1>2. lock = p /\ target[p] \in Pids
  BY <1>1, Deciding DEF LockStatements, LateStatements, IInv, TargetInv
<1>3. /\ t \in Sightings /\ EarnedNext(t, "refresh")
      /\ t.n >= MaxSkips /\ role[target[p]] # "none" => seen'[target[p]]["refresh"] = MaxSkips
  BY <1>1, <1>2, StateParts, SightedEarned DEF IInv, SightInv, Counters
<1>4. draft'.indexer = t
  BY <1>1, DraftParts DEF RefreshStates
<1>5. PICK next \in {"exit", "killindexer"} :
        Goto(p, next) /\ (next = "killindexer" => t.n >= MaxSkips)
  BY <1>3, <1>4, SightParts DEF CountIndexer
<1> HIDE DEF t
<1>6. SeenGrows /\ seen' \in [Pids -> [Counters -> 0 .. MaxSkips]]
  BY <1>1, <1>2, NotedGrows DEF Counters
<1>7. SightsNext /\ CountsOK'
  BY <1>1, <1>3, <1>6, CountedDraft
<1>8. MayReach(p, next) /\ MayKill(p, next) /\ target'[p] \in Pids
  BY <1>1, <1>2, <1>3, <1>5 DEF MayReach, MayKill, LockStatements, LateStatements, IInv, LockInv
<1>9. next \in Statements \ {"off"}
  BY DEF Statements, LockStatements, LateStatements
<1> QED BY <1>1, <1>5, <1>6, <1>7, <1>8, <1>9, GotoStep

LEMMA KillStep ==
  ASSUME IInv, NEW p \in Pids,
         \/ KillPull(p) \/ KillPullDenied(p) \/ KillIndexer(p) \/ KillIndexerDenied(p)
         \/ KillGuard(p) \/ KillGuardDenied(p)
  PROVE  IInv'
<1>1. PICK S \in {{target[p]}, {}}, next \in {"repulls", "reindexers", "killed"} :
        /\ EndedThen(S, p, next)
        /\ role[p] # "none"
        /\ next = "repulls" => at[p] = "killpull"
        /\ next = "reindexers" => at[p] = "killindexer"
  BY DEF KillPull, KillPullDenied, KillIndexer, KillIndexerDenied, KillGuard, KillGuardDenied,
         Killed, Denied, At
<1>2. MayReach(p, next)
  BY <1>1, Deciding DEF MayReach, LockStatements, LateStatements, IInv, LockInv
<1> QED BY <1>1, <1>2, EndedStep

LEMMA EndStep ==
  ASSUME IInv, NEW p \in Pids, role[p] # "none", Ended(p)
  PROVE  IInv'
<1>1. MayReach(p, "off")
  BY DEF MayReach, LockStatements, LateStatements
<1> QED BY <1>1, EndedStep DEF Ended

-----------------------------------------------------------------------------
(* The steps of the pull guard *)

\* No statement of a pull guard asks for the lock.
LEMMA PullReaches ==
  ASSUME NEW p \in Pids, NEW next \in PullStatements \cup {"exit"}
  PROVE  MayReach(p, next) /\ next \in Statements \ {"off"}
BY DEF MayReach, PullStatements, LockStatements, LateStatements, Statements

LEMMA ReadStateStep ==
  ASSUME IInv, NEW p \in Pids, ReadState(p)
  PROVE  IInv'
<1>1. /\ role[p] = "pull" /\ read' = [read EXCEPT ![p] = pstate] /\ Goto(p, "scan")
      /\ UNCHANGED <<target, lock, draft, rstate, pstate, stashed, seen, older>>
  BY DEF ReadState, At, files
<1>2. MayReach(p, "scan") /\ "scan" \in Statements \ {"off"}
  BY PullReaches DEF PullStatements
<1>3. /\ read' \in [Pids -> Sightings] /\ \A q \in Pids : read'[q] \in {read[q], pstate, NoSighting}
  BY <1>1 DEF IInv, TypeOK
<1> QED BY <1>1, <1>2, <1>3, PlainStep, DraftParts
        DEF IInv, TypeOK, KillStatements, CountStatements

LEMMA ScanGuardsStep ==
  ASSUME IInv, NEW p \in Pids, ScanGuards(p)
  PROVE  IInv'
<1>1. /\ role[p] = "pull" /\ target' = [target EXCEPT ![p] = Found("pull", p)]
      /\ UNCHANGED <<lock, draft, rstate, stashed, seen, older>>
      /\ pstate' \in {pstate, NoSighting} /\ read' \in {read, [read EXCEPT ![p] = NoSighting]}
  BY DEF ScanGuards, At, Scanned
<1>2. Found("pull", p) \in Pids \cup {NoPid} /\ target'[p] = Found("pull", p)
  BY <1>1, FoundPid DEF IInv, TypeOK
<1>3. PICK next \in {"check", "count"} :
        Goto(p, next) /\ (next = "count" => target'[p] # NoPid)
  BY DEF ScanGuards, Scanned
<1>4. MayReach(p, next) /\ next \in Statements \ {"off"}
  BY PullReaches DEF PullStatements
<1>5. /\ read' \in [Pids -> Sightings] /\ \A q \in Pids : read'[q] \in {read[q], pstate, NoSighting}
      /\ target' \in [Pids -> Pids \cup {NoPid}] /\ \A q \in Pids \ {p} : target'[q] = target[q]
  <2>1. NoSighting \in Sightings
    BY StateParts
  <2>2. read \in [Pids -> Sightings] /\ target \in [Pids -> Pids \cup {NoPid}]
    BY DEF IInv, TypeOK
  <2> QED BY <1>1, <1>2, <2>1, <2>2
<1> QED BY <1>1, <1>2, <1>3, <1>4, <1>5, PlainStep, DraftParts
        DEF IInv, TypeOK, KillStatements, CountStatements

LEMMA CountGuardStep ==
  ASSUME IInv, NEW p \in Pids, CountGuard(p)
  PROVE  IInv'
<1> DEFINE t == Sighted(read[p], target[p])
<1>1. /\ role[p] = "pull" /\ at[p] = "count" /\ Noted(target[p], "pull") /\ role' = role
      /\ UNCHANGED <<target, lock, draft, rstate, stashed, older>>
      /\ pstate' = t /\ read' = [read EXCEPT ![p] = NoSighting]
  BY DEF CountGuard, At, Goto
<1>2. target[p] \in Pids
  BY <1>1 DEF IInv, TargetInv
<1>3. /\ t \in Sightings /\ EarnedNext(t, "pull")
      /\ t.n >= MaxSkips /\ role[target[p]] # "none" => seen'[target[p]]["pull"] = MaxSkips
  BY <1>1, <1>2, StateParts, SightedEarned DEF IInv, SightInv, Counters
<1>4. PICK next \in {"exit", "kill"} : Goto(p, next) /\ (next = "kill" => t.n >= MaxSkips)
  BY <1>1, <1>3, SightParts DEF CountGuard
<1> HIDE DEF t
<1>5. SeenGrows /\ seen' \in [Pids -> [Counters -> 0 .. MaxSkips]]
  BY <1>1, <1>2, NotedGrows DEF Counters
<1>6. \A s \in Sightings, who \in Counters : Earned(s, who) => EarnedNext(s, who)
  BY <1>1, <1>5, EarnedKept
<1>7. \A q \in Pids : read'[q] \in {read[q], NoSighting}
  BY <1>1 DEF IInv, TypeOK
<1>8. SightsNext
  <2>1. EarnedNext(NoSighting, "pull")
    BY StateParts DEF EarnedNext
  <2> QED BY <1>1, <1>3, <1>6, <1>7, <2>1, StateParts DEF SightsNext, IInv, SightInv, Counters
<1>9. CountsOK'
  BY <1>1, <1>3, <1>5, StateParts DEF CountsOK, IInv, TypeOK
<1>10. MayReach(p, next) /\ next \in Statements \ {"off"}
  BY PullReaches DEF PullStatements
<1>11. MayKill(p, next) /\ target'[p] \in Pids
  BY <1>1, <1>2, <1>3, <1>4 DEF MayKill
<1> QED BY <1>1, <1>4, <1>5, <1>8, <1>9, <1>10, <1>11, GotoStep

\* The rest of a pull guard touches neither the lock nor a count.
LEMMA PullStepKeeps ==
  ASSUME IInv, NEW p \in Pids,
         \/ CheckIndexer(p) \/ Fetch(p) \/ Stash(p) \/ Pull(p) \/ PullFails(p) \/ PopFails(p)
  PROVE  IInv'
<1>1. role[p] = "pull"
  BY DEF CheckIndexer, Fetch, Stash, Pull, PullFails, PopFails, At
<1>2. CASE Ended(p)
  BY <1>1, <1>2, EndStep
<1>3. CASE ~ Ended(p)
  <2>1. PICK next \in {"fetch", "exit", "stash", "pull", "pulled"} :
          /\ Goto(p, next)
          /\ UNCHANGED <<target, read, lock, draft, rstate, seen, older>>
          /\ pstate' \in {pstate, NoSighting} /\ stashed' \in {stashed, stashed \cup {p}}
    BY <1>3 DEF CheckIndexer, Fetch, Stash, Pull, PullFails, PopFails, files
  <2>2. MayReach(p, next) /\ next \in Statements \ {"off"}
    BY PullReaches DEF PullStatements
  <2>3. next \notin KillStatements \cup CountStatements
    BY DEF KillStatements, CountStatements
  <2> QED BY <1>1, <2>1, <2>2, <2>3, PlainStep, DraftParts DEF IInv, TypeOK
<1> QED BY <1>2, <1>3

-----------------------------------------------------------------------------
LEMMA InitIInv == Init => IInv
<1> SUFFICES ASSUME Init PROVE IInv
  OBVIOUS
<1>1. PICK S \in {{}} \cup {{p} : p \in pidsOf["indexer"]} :
        /\ role = [p \in Pids |-> IF p \in S THEN "indexer" ELSE "none"]
        /\ at = [p \in Pids |-> IF p \in S THEN "run" ELSE "off"]
  BY DEF Init
<1>2. NoSighting \in Sightings /\ NoSightings \in RefreshStates
  BY DEF NoSighting, NoSightings, Sightings, RefreshStates
<1>3. TypeOK
  BY <1>1, <1>2 DEF Init, TypeOK, Roles, Statements, Running, Unseen
<1>4. LockInv
  BY <1>1 DEF Init, LockInv, OneIndexer, Running, LockStatements, LateStatements
<1>5. TargetInv
  BY <1>1 DEF TargetInv
<1>6. SightInv
  BY <1>1 DEF Init, SightInv, Earned, NoSighting, NoSightings, KillsOnlySeen
<1> QED BY <1>3, <1>4, <1>5, <1>6 DEF IInv

LEMMA NextIInv == IInv /\ [Next]_vars => IInv'
<1> SUFFICES ASSUME IInv, [Next]_vars PROVE IInv'
  OBVIOUS
<1>1. CASE UNCHANGED vars
  <2> USE <1>1 DEF vars, procs, files
  <2>1. TypeOK' /\ LockInv' /\ TargetInv'
    BY DEF IInv, TypeOK, LockInv, OneIndexer, TargetInv, Running
  <2>2. SightInv'
    BY DEF IInv, SightInv, Earned, KillsOnlySeen
  <2> QED BY <2>1, <2>2 DEF IInv
<1>2. CASE Next
  <2>1. PICK p \in Pids :
          TickRefresh(p) \/ TickPull(p) \/ RefreshStep(p) \/ PullStep(p) \/ Fault(p)
    BY <1>2 DEF Next
  <2>2. CASE TickRefresh(p) \/ TickPull(p)
    BY <2>2, TickStep
  <2>3. CASE RefreshStep(p)
    <3>1. CASE \E q \in Pids : StartIndexer(p, q)
      BY <3>1, StartStep
    <3>2. CASE role[p] = "refresh" /\ Exit(p)
      BY <3>2, EndStep DEF Exit
    <3> QED BY <2>3, <3>1, <3>2, AcquireStep, ScanPullsStep, CountPullStep, KillStep, RescanPullsStep,
               ScanIndexersStep, CountIndexerStep, RescanIndexersStep DEF RefreshStep
  <2>4. CASE PullStep(p)
    <3>1. CASE Pop(p) \/ (role[p] = "pull" /\ Exit(p))
      BY <3>1, EndStep DEF Pop, Exit, At
    <3> QED BY <2>4, <3>1, ReadStateStep, ScanGuardsStep, CountGuardStep, KillStep, PullStepKeeps DEF PullStep
  <2>5. CASE Fault(p)
    <3>1. CASE End(p) \/ GiveUp(p)
      BY <3>1, EndStep DEF End, GiveUp, At
    <3> QED BY <2>5, <3>1, KillStep, PullStepKeeps DEF Fault
  <2> QED BY <2>1, <2>2, <2>3, <2>4, <2>5
<1> QED BY <1>1, <1>2

\* The strengthened invariant holds of every instance.
THEOREM InvariantHolds == Spec => []IInv
<1> QED BY InitIInv, NextIInv, PTL DEF Spec

\* Refresh guards that overlap, crash, are killed or find the lock taken never
\* run two indexers of one config (refresh_guard.py, _decide under FileLock).
THEOREM OneIndexerHolds == Spec => []OneIndexer
<1>1. IInv => OneIndexer
  BY DEF IInv, LockInv
<1> QED BY <1>1, InvariantHolds, PTL

\* No guard kills a process that MaxSkips guards of its script have not seen,
\* whatever pids are used again (guard_common.py, register_sighting).
THEOREM KillsOnlySeenHolds == Spec => []KillsOnlySeen
<1>1. IInv => KillsOnlySeen
  BY DEF IInv, SightInv
<1> QED BY <1>1, InvariantHolds, PTL

\* An indexer is only started when every pull guard that ran at the decision
\* has ended (refresh_guard.py, the second look after the kill).
THEOREM NoStartUnderPullHolds == Spec => []NoStartUnderPull
<1>1. IInv => NoStartUnderPull
  BY DEF IInv, LockInv, NoStartUnderPull, LateStatements
<1> QED BY <1>1, InvariantHolds, PTL
=============================================================================
