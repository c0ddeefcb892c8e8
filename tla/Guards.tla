-------------------------------- MODULE Guards --------------------------------
(***************************************************************************)
(* The cron wrappers of one config: refresh_guard.py, which decides under  *)
(* a file lock whether to start index_rag.py, and git_pull_guard.py, which *)
(* decides without a lock whether to stash and pull the working copy.      *)
(* Both look at the process table, count in a state file how often in a    *)
(* row they saw the same process, and kill it on the third sighting.       *)
(*                                                                         *)
(* A process ends at any moment; its pid is used again.  A stored start    *)
(* time is only ever compared with that of the process that has the pid    *)
(* now, so it is kept as what this comparison will yield: it is the        *)
(* "current" process, a "past" one, or was unknown ("none") because the    *)
(* process had ended when its start time was asked for.                    *)
(***************************************************************************)
EXTENDS Integers, FiniteSetsExt

CONSTANTS
  PidBounds,  \* bounds: the pids that processes of each script can get
  MaxSkips    \* MAX_SKIPS_BEFORE_KILL

ASSUME GuardConstants ==
  /\ PidBounds \subseteq [{"refresh", "pull", "indexer"} -> SUBSET (Nat \ {0})]
  /\ MaxSkips \in Nat \ {0}

Pids == UNION {UNION {b[r] : r \in DOMAIN b} : b \in PidBounds}
NoPid == 0

VARIABLES
  role,     \* which script a pid runs
  at,       \* the statement it stands before
  target,   \* the process its last scan found
  read,     \* the state a pull guard read from its file
  lock,     \* holder of refresh_guard_state.json.lock
  draft,    \* the lock holder's copy of refresh_guard_state.json
  rstate,   \* refresh_guard_state.json
  pstate,   \* git_pull_guard_state.json
  stashed,  \* pull guards whose stash entry is not popped
  seen,     \* history: sightings of each process, by the guard that counted
  older,    \* history: pull guards as old as the lock holder's decision
  pidsOf    \* the bound of this behaviour

files == <<rstate, pstate>>
procs == <<role, at, target, read, lock, older>>
vars == <<role, at, target, read, lock, draft, files, stashed, seen, older, pidsOf>>

\* The scripts that count sightings.
Counters == {"refresh", "pull"}
Roles == {"none", "refresh", "pull", "indexer"}
Running(r) == {p \in Pids : role[p] = r}

NoSighting == [n |-> 0, pid |-> NoPid, born |-> "none"]
\* Counts from MaxSkips on all mean "kill", so they are capped.
Sightings == [n : 0 .. MaxSkips, pid : Pids \cup {NoPid}, born : {"current", "past", "none"}]
RefreshStates == [indexer : Sightings, pull : Sightings]

NoSightings == [indexer |-> NoSighting, pull |-> NoSighting]
Unseen == [who \in Counters |-> 0]

\* find_process: the lowest matching pid but the caller's own.
Found(r, self) ==
  LET others == Running(r) \ {self} IN IF others = {} THEN NoPid ELSE Min(others)

\* process_start_time.
StartTime(p) == IF role[p] = "none" THEN "none" ELSE "current"

\* The sighting s, once the processes of S have ended.
Aged(s, S) ==
  IF s.pid \in S /\ s.born = "current" THEN [s EXCEPT !.born = "past"] ELSE s
AgedBoth(s, S) == [indexer |-> Aged(s.indexer, S), pull |-> Aged(s.pull, S)]

\* Defect: a pid counts on although another process has it now.
SightedByPid(s, p) ==
  [n    |-> IF s.pid = p /\ s.n > 0 THEN Min({s.n + 1, MaxSkips}) ELSE 1,
   pid  |-> p,
   born |-> StartTime(p)]

\* register_sighting: the count grows only while pid and start time match.
Sighted(s, p) ==
  [n    |-> IF s.pid = p /\ s.born = StartTime(p) /\ s.n > 0
              THEN Min({s.n + 1, MaxSkips}) ELSE 1,
   pid  |-> p,
   born |-> StartTime(p)]

Noted(p, who) ==
  seen' = IF role[p] = "none" THEN seen
          ELSE [seen EXCEPT ![p][who] = Min({@ + 1, MaxSkips})]

-----------------------------------------------------------------------------
(* Processes *)

\* An indexer may be running already.
Init ==
  /\ pidsOf \in PidBounds
  /\ \E S \in {{}} \cup {{p} : p \in pidsOf["indexer"]} :
       /\ role = [p \in Pids |-> IF p \in S THEN "indexer" ELSE "none"]
       /\ at = [p \in Pids |-> IF p \in S THEN "run" ELSE "off"]
  /\ target = [p \in Pids |-> NoPid]
  /\ read = [p \in Pids |-> NoSighting]
  /\ lock = NoPid
  /\ draft = NoSightings
  /\ rstate = NoSightings
  /\ pstate = NoSighting
  /\ stashed = {}
  /\ seen = [p \in Pids |-> Unseen]
  /\ older = {}

\* Defect: the lock outlives the process that held it.
EndedThenLocked(S, p, next) ==
  /\ role' = [q \in Pids |-> IF q \in S THEN "none" ELSE role[q]]
  /\ at' = [q \in Pids |-> IF q \in S THEN "off" ELSE IF q = p THEN next ELSE at[q]]
  /\ target' = [q \in Pids |-> IF q \in S \cup {p} THEN NoPid ELSE target[q]]
  /\ read' = [q \in Pids |-> IF q \in S \cup {p} THEN NoSighting ELSE Aged(read[q], S)]
  /\ rstate' = AgedBoth(rstate, S)
  /\ pstate' = Aged(pstate, S)
  /\ seen' = [q \in Pids |-> IF q \in S THEN Unseen ELSE seen[q]]
  /\ older' = older \ S
  /\ stashed' = stashed \ S
  /\ UNCHANGED <<lock, draft, pidsOf>>

\* Processes of S end, by themselves, killed or crashed, and guard p goes on at
\* next.  The operating system drops the lock of a process that ends.
EndedThen(S, p, next) ==
  /\ role' = [q \in Pids |-> IF q \in S THEN "none" ELSE role[q]]
  /\ at' = [q \in Pids |-> IF q \in S THEN "off" ELSE IF q = p THEN next ELSE at[q]]
  /\ target' = [q \in Pids |-> IF q \in S \cup {p} THEN NoPid ELSE target[q]]
  /\ read' = [q \in Pids |-> IF q \in S \cup {p} THEN NoSighting ELSE Aged(read[q], S)]
  /\ lock' = IF lock \in S THEN NoPid ELSE lock
  /\ draft' = IF lock \in S THEN NoSightings ELSE AgedBoth(draft, S)
  /\ rstate' = AgedBoth(rstate, S)
  /\ pstate' = Aged(pstate, S)
  /\ seen' = [q \in Pids |-> IF q \in S THEN Unseen ELSE seen[q]]
  /\ older' = older \ S
  /\ stashed' = stashed \ S
  /\ UNCHANGED pidsOf

Ended(p) == EndedThen({p}, p, "off")

\* kill_process_tree of the target, or access to it was denied.
Killed(p, next) == EndedThen({target[p]}, p, next)
Denied(p, next) == EndedThen({}, p, next)

\* A process of a script starts.  Assumed: a pid is not used again within the
\* instant between a guard's look at its start time and the guard's kill.
Spawned(p, script) ==
  /\ p \in pidsOf[script]
  /\ role[p] = "none"
  /\ p \notin {target[q] : q \in Pids}
  /\ role' = [role EXCEPT ![p] = script]
  /\ UNCHANGED <<target, read, lock, draft, files, stashed, seen, older, pidsOf>>

TickRefresh(p) == Spawned(p, "refresh") /\ at' = [at EXCEPT ![p] = "lock"]

TickPull(p) == Spawned(p, "pull") /\ at' = [at EXCEPT ![p] = "state"]

\* An indexer that is done, or a crash of any process.
End(p) ==
  /\ role[p] # "none"
  /\ Ended(p)

-----------------------------------------------------------------------------
(* refresh_guard.py: _decide, under the lock *)

At(p, script, pc) == role[p] = script /\ at[p] = pc

\* p goes on at next and nothing ends or starts.
Goto(p, next) ==
  at' = [at EXCEPT ![p] = next] /\ UNCHANGED <<role, pidsOf>>

\* find_process: go to none or, with the target, to some.
Scanned(p, script, none, some) ==
  /\ target' = [target EXCEPT ![p] = Found(script, p)]
  /\ Goto(p, IF target'[p] = NoPid THEN none ELSE some)

\* The guard exits, having skipped or started the indexer.
Exit(p) ==
  /\ at[p] = "exit"
  /\ Ended(p)

\* Defect: a guard that finds the lock taken goes on without it.
AcquireAnyway(p) ==
  /\ At(p, "refresh", "lock")
  /\ lock' = IF lock = NoPid THEN p ELSE lock
  /\ draft' = rstate
  /\ older' = Running("pull")
  /\ Goto(p, "pulls")
  /\ UNCHANGED <<target, read, files, stashed, seen>>

Acquire(p) ==
  /\ At(p, "refresh", "lock")
  /\ lock = NoPid
  /\ lock' = p
  /\ draft' = rstate
  /\ older' = Running("pull")
  /\ Goto(p, "pulls")
  /\ UNCHANGED <<target, read, files, stashed, seen>>

\* Another guard holds the lock for longer than LOCK_TIMEOUT_S.
GiveUp(p) ==
  /\ At(p, "refresh", "lock")
  /\ lock # NoPid
  /\ Ended(p)

ScanPulls(p) ==
  /\ At(p, "refresh", "pulls")
  /\ Scanned(p, "pull", "indexers", "countpull")
  /\ draft' = IF target'[p] = NoPid THEN [draft EXCEPT !.pull = NoSighting] ELSE draft
  /\ UNCHANGED <<read, lock, files, stashed, seen, older>>

CountPull(p) ==
  /\ At(p, "refresh", "countpull")
  /\ draft' = [draft EXCEPT !.pull = Sighted(draft.pull, target[p])]
  /\ Noted(target[p], "refresh")
  /\ IF draft'.pull.n < MaxSkips
       THEN rstate' = draft' /\ Goto(p, "exit")
       ELSE UNCHANGED rstate /\ Goto(p, "killpull")
  /\ UNCHANGED <<target, read, lock, pstate, stashed, older>>

KillPull(p) ==
  /\ At(p, "refresh", "killpull")
  /\ Killed(p, "repulls")

KillPullDenied(p) ==
  /\ At(p, "refresh", "killpull")
  /\ Denied(p, "repulls")

\* Defect: the guard does not look again after the kill.
RescanPullsNot(p) ==
  /\ At(p, "refresh", "repulls")
  /\ draft' = [draft EXCEPT !.pull = NoSighting]
  /\ Goto(p, "indexers")
  /\ UNCHANGED <<target, read, lock, files, stashed, seen, older>>

\* The counter is cleared, and the guard exits if a pull guard still runs.
RescanPulls(p) ==
  /\ At(p, "refresh", "repulls")
  /\ draft' = [draft EXCEPT !.pull = NoSighting]
  /\ IF Found("pull", p) = NoPid
       THEN UNCHANGED rstate /\ Goto(p, "indexers")
       ELSE rstate' = draft' /\ Goto(p, "exit")
  /\ UNCHANGED <<target, read, lock, pstate, stashed, seen, older>>

ScanIndexers(p) ==
  /\ At(p, "refresh", "indexers")
  /\ Scanned(p, "indexer", "start", "countindexer")
  /\ IF target'[p] = NoPid
       THEN draft' = [draft EXCEPT !.indexer = NoSighting] /\ rstate' = draft'
       ELSE UNCHANGED <<draft, rstate>>
  /\ UNCHANGED <<read, lock, pstate, stashed, seen, older>>

\* Defect: a guard that skips does not save its count.
CountIndexerUnsaved(p) ==
  /\ At(p, "refresh", "countindexer")
  /\ draft' = [draft EXCEPT !.indexer = Sighted(draft.indexer, target[p])]
  /\ Noted(target[p], "refresh")
  /\ Goto(p, IF draft'.indexer.n < MaxSkips THEN "exit" ELSE "killindexer")
  /\ UNCHANGED <<target, read, lock, files, stashed, older>>

CountIndexer(p) ==
  /\ At(p, "refresh", "countindexer")
  /\ draft' = [draft EXCEPT !.indexer = Sighted(draft.indexer, target[p])]
  /\ rstate' = draft'
  /\ Noted(target[p], "refresh")
  /\ Goto(p, IF draft'.indexer.n < MaxSkips THEN "exit" ELSE "killindexer")
  /\ UNCHANGED <<target, read, lock, pstate, stashed, older>>

KillIndexer(p) ==
  /\ At(p, "refresh", "killindexer")
  /\ Killed(p, "reindexers")

KillIndexerDenied(p) ==
  /\ At(p, "refresh", "killindexer")
  /\ Denied(p, "reindexers")

\* The counter is reset and saved; a run that survived the kill is left alone.
RescanIndexers(p) ==
  /\ At(p, "refresh", "reindexers")
  /\ draft' = [draft EXCEPT !.indexer = NoSighting]
  /\ rstate' = draft'
  /\ Goto(p, IF Found("indexer", p) = NoPid THEN "start" ELSE "exit")
  /\ UNCHANGED <<target, read, lock, pstate, stashed, seen, older>>

\* _start_indexer; the guard then releases the lock and only waits.
StartIndexer(p, q) ==
  /\ At(p, "refresh", "start")
  /\ Spawned(q, "indexer")
  /\ at' = [at EXCEPT ![p] = "exit", ![q] = "run"]

-----------------------------------------------------------------------------
(* git_pull_guard.py: the same rule without a lock, then one repository *)

ReadState(p) ==
  /\ At(p, "pull", "state")
  /\ read' = [read EXCEPT ![p] = pstate]
  /\ Goto(p, "scan")
  /\ UNCHANGED <<target, lock, draft, files, stashed, seen, older>>

\* Another pull guard may have counted since this one read the file.
ScanGuards(p) ==
  /\ At(p, "pull", "scan")
  /\ Scanned(p, "pull", "check", "count")
  /\ IF target'[p] = NoPid
       THEN pstate' = NoSighting /\ read' = [read EXCEPT ![p] = NoSighting]
       ELSE UNCHANGED <<pstate, read>>
  /\ UNCHANGED <<lock, draft, rstate, stashed, seen, older>>

CountGuard(p) ==
  /\ At(p, "pull", "count")
  /\ pstate' = Sighted(read[p], target[p])
  /\ Noted(target[p], "pull")
  /\ Goto(p, IF pstate'.n < MaxSkips THEN "exit" ELSE "kill")
  /\ read' = [read EXCEPT ![p] = NoSighting]
  /\ UNCHANGED <<target, lock, draft, rstate, stashed, older>>

KillGuard(p) ==
  /\ At(p, "pull", "kill")
  /\ Killed(p, "killed")

KillGuardDenied(p) ==
  /\ At(p, "pull", "kill")
  /\ Denied(p, "killed")

\* No fetch and no pull under a running indexer; after a kill the counter is
\* reset first.
CheckIndexer(p) ==
  /\ At(p, "pull", "check") \/ At(p, "pull", "killed")
  /\ pstate' = IF at[p] = "killed" THEN NoSighting ELSE pstate
  /\ Goto(p, IF Found("indexer", p) = NoPid THEN "fetch" ELSE "exit")
  /\ UNCHANGED <<target, read, lock, draft, rstate, stashed, seen, older>>

\* fetch --all and the fast-forwards of branches that are not checked out;
\* then no pull on a detached HEAD or another branch, nor under an indexer.
Fetch(p) ==
  /\ At(p, "pull", "fetch")
  /\ \/ /\ Found("indexer", p) = NoPid
        /\ Goto(p, "stash")
        /\ UNCHANGED <<target, read, lock, draft, files, stashed, seen, older>>
     \/ Ended(p)

\* git status, and git stash when there are uncommitted changes.
Stash(p) ==
  /\ At(p, "pull", "stash")
  /\ stashed' \in {stashed, stashed \cup {p}}
  /\ Goto(p, "pull")
  /\ UNCHANGED <<target, read, lock, draft, files, seen, older>>

\* git pull: the working copy is another commit now.
Pull(p) ==
  /\ At(p, "pull", "pull")
  /\ Goto(p, "pulled")
  /\ UNCHANGED <<target, read, lock, draft, files, stashed, seen, older>>

\* A failed pull returns at once: what was stashed stays in the stash.
PullFails(p) ==
  /\ At(p, "pull", "pull")
  /\ Goto(p, "exit")
  /\ UNCHANGED <<target, read, lock, draft, files, stashed, seen, older>>

Pop(p) ==
  /\ At(p, "pull", "pulled")
  /\ Ended(p)

\* The changes conflict with what was pulled.
PopFails(p) ==
  /\ At(p, "pull", "pulled")
  /\ p \in stashed
  /\ Goto(p, "exit")
  /\ UNCHANGED <<target, read, lock, draft, files, stashed, seen, older>>

-----------------------------------------------------------------------------
RefreshStep(p) ==
  \/ Acquire(p) \/ ScanPulls(p) \/ CountPull(p) \/ KillPull(p) \/ RescanPulls(p)
  \/ ScanIndexers(p) \/ CountIndexer(p) \/ KillIndexer(p) \/ RescanIndexers(p)
  \/ (\E q \in Pids : StartIndexer(p, q)) \/ (role[p] = "refresh" /\ Exit(p))

PullStep(p) ==
  \/ ReadState(p) \/ ScanGuards(p) \/ CountGuard(p) \/ KillGuard(p) \/ CheckIndexer(p)
  \/ Fetch(p) \/ Stash(p) \/ Pull(p) \/ Pop(p)
  \/ (role[p] = "pull" /\ Exit(p))

Fault(p) ==
  \/ End(p) \/ GiveUp(p) \/ KillPullDenied(p) \/ KillIndexerDenied(p)
  \/ KillGuardDenied(p) \/ PullFails(p) \/ PopFails(p)

Next ==
  \E p \in Pids :
    TickRefresh(p) \/ TickPull(p) \/ RefreshStep(p) \/ PullStep(p) \/ Fault(p)

Spec == Init /\ [][Next]_vars

-----------------------------------------------------------------------------
\* The statements of a refresh guard under the lock; LateStatements come after
\* its look at the pull guards.
LateStatements == {"indexers", "countindexer", "killindexer", "reindexers", "start"}
LockStatements == {"pulls", "countpull", "killpull", "repulls"} \cup LateStatements
PullStatements ==
  {"state", "scan", "count", "kill", "killed", "check", "fetch", "stash", "pull", "pulled"}
Statements == {"off", "lock", "run", "exit"} \cup LockStatements \cup PullStatements

TypeOK ==
  /\ role \in [Pids -> Roles]
  /\ at \in [Pids -> Statements]
  /\ target \in [Pids -> Pids \cup {NoPid}]
  /\ read \in [Pids -> Sightings]
  /\ lock \in Running("refresh") \cup {NoPid}
  /\ {draft, rstate} \subseteq RefreshStates
  /\ pstate \in Sightings
  /\ seen \in [Pids -> [Counters -> 0 .. MaxSkips]]
  /\ older \cup stashed \subseteq Pids
  /\ \A p \in Pids : (role[p] = "none") = (at[p] = "off")

\* However ticks overlap and whatever dies, the guards never run two indexers
\* of one config: the lock covers everything from the scan to the start.
OneIndexer == \A p, q \in Running("indexer") : p = q

\* A guard kills a process only after that very process, not another one with
\* its pid, was seen by MaxSkips guards of the same script.
KillsOnlySeen ==
  \A p \in Pids :
    target[p] # NoPid /\ role[target[p]] # "none" =>
      /\ at[p] \in {"killpull", "killindexer"} => seen[target[p]]["refresh"] = MaxSkips
      /\ at[p] = "kill" => seen[target[p]]["pull"] = MaxSkips

\* Strengthenings.  Whoever decides holds the lock, so nobody else decides.
LockInv ==
  /\ \A p \in Pids : at[p] \in LockStatements => lock = p
  /\ older \subseteq Running("pull")
  /\ \A p \in Pids : at[p] \in LateStatements => older = {}
  /\ \A p \in Pids : at[p] = "start" => Running("indexer") = {}
  /\ OneIndexer

\* A process is counted or killed only after a scan found it.
TargetInv ==
  \A p \in Pids :
    at[p] \in {"countpull", "killpull", "countindexer", "killindexer", "count", "kill"} =>
      target[p] \in Pids

\* A stored count never exceeds how often the process it is about was seen.
Earned(s, who) ==
  s.n > 0 /\ s.born = "current" =>
    s.pid \in Pids /\ role[s.pid] # "none" /\ s.n <= seen[s.pid][who]

SightInv ==
  /\ \A s \in {draft.indexer, draft.pull, rstate.indexer, rstate.pull} : Earned(s, "refresh")
  /\ Earned(pstate, "pull")
  /\ \A p \in Pids : Earned(read[p], "pull")
  /\ KillsOnlySeen

IInv == TypeOK /\ LockInv /\ TargetInv /\ SightInv

\* "so the working tree never changes under the indexer": no stash and no pull
\* while an indexer runs.
TreeRests ==
  [][\A p \in Pids :
       stashed' \notin SUBSET stashed \/ (at[p] = "pull" /\ at'[p] = "pulled")
         => Running("indexer") = {}]_vars

\* A refresh guard never starts the indexer under a pull guard that ran before
\* it decided, also when the kill of that pull guard failed.
NoStartUnderPull == \A p \in Pids : at[p] = "start" => older = {}

\* Ticks go on, a guard makes its next step, and from some moment on nothing
\* else happens: no pull guard starts, nothing crashes, kills work.
Fairness ==
  /\ WF_vars(\E p \in Pids : TickRefresh(p))
  /\ WF_vars(\E p \in Pids : RefreshStep(p) \/ PullStep(p))
QuietStep == \E p \in Pids : TickRefresh(p) \/ RefreshStep(p) \/ PullStep(p)
QuietSpec == Spec /\ Fairness /\ <>[][QuietStep]_vars

\* A hung indexer is replaced: it does not run for ever, although only its
\* third sighting in a row kills it and sightings are lost with their guards.
HungReplaced ==
  \A p \in Pids :
    role[p] = "indexer" /\ pidsOf["refresh"] # {} ~> role[p] # "indexer"
=============================================================================
