----------------------------- MODULE SourceMirror -----------------------------
(***************************************************************************)
(* What an index owes to whoever edits its sources and to whoever reads    *)
(* it, without manifest, journal, threads or process.  Of each file it     *)
(* claims a content, or nothing.  A plan is what one look at the sources   *)
(* found; it is followed until it is done or given up, while the sources   *)
(* go on changing.  Claims follow the plan and nothing else: a claim the   *)
(* plan confirms stays, another one is withdrawn before the file's points  *)
(* move, and a new one is made of what the plan names, once the points     *)
(* bear it out.  With no plan the mirror can only empty what it does not   *)
(* vouch for.                                                              *)
(***************************************************************************)
CONSTANTS
  Files,
  Complete,   \* what is stored of each content that can be claimed, a function
  Absent,     \* the claim that there is nothing of the file
  Unknown,    \* no claim; or a file the look at the sources could not read
  NoPlan

VARIABLES source, plan, claim, content
mirror == <<source, plan, claim, content>>

Unplanned == [f \in Files |-> NoPlan]
Vouched(f) == claim[f] # Unknown

MirrorInit ==
  /\ plan = Unplanned
  /\ \A f \in Files : Vouched(f) => content[f] = Complete[claim[f]]

\* One look at all the sources.
Survey ==
  /\ plan = Unplanned
  /\ \A f \in Files : plan'[f] \in {source[f], Unknown}

GiveUp == plan' = Unplanned

Keep(f) == claim'[f] = claim[f] /\ content'[f] = content[f]

Withdraw(f) ==
  /\ plan[f] \notin {NoPlan, claim[f]}
  /\ claim'[f] = Unknown
  /\ content'[f] = content[f]

\* Points of f are deleted and upserted.
Rework(f) ==
  /\ claim[f] = Unknown
  /\ claim'[f] = Unknown
  /\ plan[f] = NoPlan => content'[f] = Complete[Absent]

Settle(f) ==
  /\ claim[f] = Unknown
  /\ claim'[f] = IF plan[f] = NoPlan THEN Absent ELSE plan[f]
  /\ content[f] = Complete[claim'[f]]
  /\ content'[f] = content[f]

MirrorNext ==
  /\ plan' = plan \/ Survey \/ GiveUp
  /\ \A f \in Files : Keep(f) \/ Withdraw(f) \/ Rework(f) \/ Settle(f)

MirrorSpec == MirrorInit /\ [][MirrorNext]_mirror
=============================================================================
