----------------------------- MODULE StateServing -----------------------------
(***************************************************************************)
(* Overlay tombstones on their way from the indexer to a search            *)
(* (shared/index_meta.py).  The indexer publishes a state document and the *)
(* tombstones in parts, each under an id made of digest, keys per point    *)
(* and part number; searches of one MCP server read the document, then the *)
(* parts it names, and share reads and a cache.                            *)
(*                                                                         *)
(* One overlay; a digest is the set it is computed from.  A document is    *)
(* reduced to the overlay's entry: the set and the keys per point, or that *)
(* it does not list the overlay.                                           *)
(***************************************************************************)
EXTENDS Integers, FiniteSets

CONSTANTS
  Sets,         \* sets of file keys an overlay can delete
  Pers,         \* values of INDEX_STATE_TOMBSTONES_PER_POINT
  DefaultPer,   \* the one it starts with
  Threads,      \* searches that run at the same time
  Nobody,       \* no thread leads a read
  MetaFaults,   \* bound: an update of the metadata may fail on a server that has them
  Bounds        \* bounds of a behaviour: changes of the overlay, of the setting and
                \* of the server; failed requests and kills; both together; searches

ASSUME ServingConstants ==
  /\ \A s \in Sets : IsFiniteSet(s)
  /\ Pers \subseteq Nat \ {0} /\ DefaultPer \in Pers
  /\ Nobody \notin Threads /\ MetaFaults \in BOOLEAN
  /\ Bounds \subseteq [changes : Nat, faults : Nat, events : Nat, calls : Nat]

Listed == [listed : {TRUE}, tomb : Sets, per : Pers]
Unlisted == [listed |-> FALSE]
NoDoc == [none |-> TRUE]
Docs == Listed \cup {Unlisted, NoDoc}

\* chunk_tombstones and _part_ids: the parts of a series.
NumParts(set, per) == (Cardinality(set) + per - 1) \div per
Series(doc) ==
  IF doc \in Listed
  THEN [tomb : {doc.tomb}, per : {doc.per}, part : 1 .. NumParts(doc.tomb, doc.per)]
  ELSE {}
AllParts == UNION {Series(d) : d \in Listed}

VARIABLES
  local,     \* the overlay's manifest: its tombstones, if there is one
  per,       \* the setting
  metaData,  \* the server stores collection metadata
  meta,      \* the document in the metadata
  point,     \* the document in the reserved state point
  parts,     \* tombstone points in the collection
  pub,       \* the publisher: [at, new, old, todo]
  cache,     \* [loaded, doc, keys]: _state and _tombstones of the server
  flight,    \* the thread that leads the read of a digest
  at, doc, clean,        \* of a search: where it is, its document, epoch unchanged
  current, excused,      \* history of a search: documents that were current, see Excuse
  outdated,              \* history: a search was given a set it should not have been
  left                   \* what is left of the behaviour's bounds

server == <<metaData, meta, point, parts>>
searches == <<at, doc, clean, current, excused, outdated>>
serving == <<cache, flight, searches>>
vars == <<local, per, pub, server, serving, left>>

NoKeys == [listed |-> FALSE]
CachedKeys == [digest : Sets, keys : Sets]

\* read_index_state: the metadata win over the reserved point.
DocNow == IF meta # NoDoc THEN meta ELSE point
DocNext == IF meta' # NoDoc THEN meta' ELSE point'

Resting == [at |-> "idle", new |-> NoDoc, old |-> NoDoc, todo |-> {}]

Init ==
  /\ local \in [listed : {TRUE}, tomb : Sets] /\ per = DefaultPer
  /\ metaData \in BOOLEAN /\ meta = NoDoc /\ point = NoDoc /\ parts = {}
  /\ pub = Resting
  /\ cache = [loaded |-> FALSE, doc |-> NoDoc, keys |-> NoKeys]
  /\ flight = [s \in Sets |-> Nobody]
  /\ at = [t \in Threads |-> "idle"] /\ doc = [t \in Threads |-> NoDoc]
  /\ clean = [t \in Threads |-> FALSE] /\ outdated = FALSE
  /\ current = [t \in Threads |-> {}] /\ excused = [t \in Threads |-> FALSE]
  /\ left \in Bounds

Change ==
  /\ left.changes > 0 /\ left.events > 0
  /\ left' = [left EXCEPT !.changes = @ - 1, !.events = @ - 1]
Fault ==
  /\ left.faults > 0 /\ left.events > 0
  /\ left' = [left EXCEPT !.faults = @ - 1, !.events = @ - 1]

SetOf(d) == IF d \in Listed THEN d.tomb ELSE {}

\* A search may be given an older set when nothing was published, the document
\* changed more than once, or only the keys per point changed (_retry_fresh
\* then sees a digest it knows); and, see Witness, LoadFails and ReadFails,
\* when the document changed back or a request failed.
Excuse(seen) ==
  \/ NoDoc \in seen \/ Cardinality(seen) > 2
  \/ \E d, e \in seen : d # e /\ SetOf(d) = SetOf(e)

\* Every search under way sees which documents were current meanwhile.
Witness ==
  LET seen(t) == current[t] \cup {DocNext}
      again(t) == DocNext # DocNow /\ DocNext \in current[t]
      bad(t) == excused[t] \/ (at[t] # "idle" /\ (Excuse(seen(t)) \/ again(t)))
  IN  /\ excused' = [t \in Threads |-> bad(t)]
      /\ current' = [t \in Threads |-> IF at[t] = "idle" \/ bad(t) THEN {} ELSE seen(t)]

Forgive(t) ==
  excused' = [excused EXCEPT ![t] = TRUE] /\ current' = [current EXCEPT ![t] = {}]

----------------------------------------------------------------------------
(* The world between two publishes. *)

\* An overlay run saves its manifest, or the overlay is removed.
OverlayRun ==
  /\ pub.at = "idle" /\ Change
  /\ local' \in [listed : {TRUE}, tomb : Sets] \cup {Unlisted}
  /\ local' # local
  /\ UNCHANGED <<per, pub, server, serving>>

SetPer ==
  /\ pub.at = "idle" /\ Change
  /\ per' \in Pers \ {per}
  /\ UNCHANGED <<local, pub, server, serving>>

UpgradeServer ==
  /\ ~metaData /\ Change
  /\ metaData' = TRUE
  /\ UNCHANGED <<local, per, pub, meta, point, parts, serving>>

----------------------------------------------------------------------------
(* publish_index_state *)

NewDoc == IF local.listed THEN [listed |-> TRUE, tomb |-> local.tomb, per |-> per] ELSE Unlisted

\* The parts to write: none of a series that is unchanged and complete.
Unwritten(new, old) ==
  IF new = old /\ Series(new) \subseteq parts THEN {} ELSE Series(new)

Publish ==
  /\ pub.at = "idle" /\ NewDoc # DocNow
  /\ pub' = [at |-> "write", new |-> NewDoc, old |-> DocNow, todo |-> Unwritten(NewDoc, DocNow)]
  /\ UNCHANGED <<local, per, server, serving, left>>

\* Every run publishes, also when nothing changed.
Republish ==
  /\ pub.at = "idle" /\ NewDoc = DocNow /\ ~(Series(NewDoc) = parts)
  /\ pub' = [at |-> "write", new |-> NewDoc, old |-> DocNow, todo |-> Unwritten(NewDoc, DocNow)]
  /\ UNCHANGED <<local, per, server, serving, left>>

\* Defect: the old parts go before the document is switched.
WriteOver ==
  /\ pub.at = "write"
  /\ \E p \in pub.todo :
       /\ \A q \in pub.todo : p.part <= q.part
       /\ parts' = (parts \cup {p}) \ (Series(pub.old) \ Series(pub.new))
       /\ pub' = [pub EXCEPT !.todo = @ \ {p}]
  /\ UNCHANGED <<local, per, metaData, meta, point, serving, left>>

WritePart ==
  /\ pub.at = "write"
  /\ \E p \in pub.todo :
       /\ \A q \in pub.todo : p.part <= q.part
       /\ parts' = parts \cup {p}
       /\ pub' = [pub EXCEPT !.todo = @ \ {p}]
  /\ UNCHANGED <<local, per, metaData, meta, point, serving, left>>

\* write_collection_metadata says the document was stored, ...
SwitchMeta ==
  /\ pub.at = "write" /\ pub.todo = {} /\ metaData
  /\ meta' = pub.new /\ point' = point
  /\ Witness
  /\ pub' = [pub EXCEPT !.at = "drop"]
  /\ UNCHANGED <<local, per, metaData, parts, cache, flight, at, doc, clean, outdated,
                 left>>

\* ... or not: the server has none, or the update or the look after it failed.
SwitchPoint ==
  /\ pub.at = "write" /\ pub.todo = {}
  /\ \/ ~metaData /\ meta' = meta /\ UNCHANGED left
     \/ metaData /\ MetaFaults /\ meta' \in {meta, pub.new} /\ Fault
  /\ point' = pub.new
  /\ Witness
  /\ pub' = [pub EXCEPT !.at = "drop"]
  /\ UNCHANGED <<local, per, metaData, parts, cache, flight, at, doc, clean, outdated>>

DropOld ==
  /\ pub.at = "drop"
  /\ parts' = parts \ (Series(pub.old) \ Series(pub.new))
  /\ pub' = [pub EXCEPT !.at = "sweep"]
  /\ UNCHANGED <<local, per, metaData, meta, point, serving, left>>

\* Defect: only the parts of the document before are dropped.
SweepNothing ==
  /\ pub.at = "sweep"
  /\ pub' = Resting
  /\ UNCHANGED <<local, per, server, serving, left>>

\* Parts no document names: left by a publish that stopped.
Sweep ==
  /\ pub.at = "sweep"
  /\ parts' = parts \cap Series(pub.new)
  /\ pub' = Resting
  /\ UNCHANGED <<local, per, metaData, meta, point, serving, left>>

\* A request raises, or the process is killed.
StopPublish ==
  /\ pub.at # "idle" /\ Fault
  /\ pub' = Resting
  /\ UNCHANGED <<local, per, server, serving>>

----------------------------------------------------------------------------
(* IndexStateCache *)

\* The cached document is replaced; reads begun before are out of date.
Installed(d) ==
  /\ cache' = [cache EXCEPT !.loaded = TRUE, !.doc = d]
  /\ clean' = [t \in Threads |-> FALSE]

\* state(): its reader holds the lock, so nobody sees the read unfinished.
ReadState ==
  /\ DocNow # cache.doc \/ ~cache.loaded
  /\ Installed(DocNow)
  /\ UNCHANGED <<local, per, pub, server, flight, at, doc, current, excused, outdated, left>>

\* tombstones(label): note the epoch, read the document without the lock.
Call(t) ==
  /\ at[t] = "idle" /\ left.calls > 0
  /\ left' = [left EXCEPT !.calls = @ - 1]
  /\ at' = [at EXCEPT ![t] = "load"]
  /\ clean' = [clean EXCEPT ![t] = TRUE]
  /\ excused' = [excused EXCEPT ![t] = Excuse({DocNow})]
  /\ current' = [current EXCEPT ![t] = IF Excuse({DocNow}) THEN {} ELSE {DocNow}]
  /\ UNCHANGED <<local, per, pub, server, cache, flight, doc, outdated>>

Load(t) ==
  /\ at[t] \in {"load", "reload"}
  /\ doc' = [doc EXCEPT ![t] = DocNow]
  /\ at' = [at EXCEPT ![t] = IF at[t] = "load" THEN "install" ELSE "reinstall"]
  /\ UNCHANGED <<local, per, pub, server, cache, flight, clean, current, excused, outdated, left>>

\* The read fails: the caller goes on with the cached document.
LoadFails(t) ==
  /\ at[t] \in {"load", "reload"} /\ Fault
  /\ doc' = [doc EXCEPT ![t] = cache.doc]
  /\ at' = [at EXCEPT ![t] = IF at[t] = "load" THEN "claim" ELSE "reclaim"]
  /\ Forgive(t)
  /\ IF cache.loaded
     THEN cache' = cache /\ clean' = [clean EXCEPT ![t] = FALSE]
     ELSE Installed(NoDoc)
  /\ UNCHANGED <<local, per, pub, server, flight, outdated>>

\* Installed only if no other read was installed since.
Install(t) ==
  /\ at[t] \in {"install", "reinstall"}
  /\ IF clean[t] THEN Installed(doc[t]) ELSE UNCHANGED <<cache, clean>>
  /\ at' = [at EXCEPT ![t] = IF at[t] = "install" THEN "claim" ELSE "reclaim"]
  /\ UNCHANGED <<local, per, pub, server, flight, doc, current, excused, outdated, left>>

Return(S, set, bad) ==
  LET reset(fn, v) == [t \in Threads |-> IF t \in S THEN v ELSE fn[t]]
  IN  /\ at' = reset(at, "idle") /\ doc' = reset(doc, NoDoc)
      /\ clean' = reset(clean, FALSE)
      /\ current' = reset(current, {}) /\ excused' = reset(excused, FALSE)
      /\ outdated' = (outdated \/ \E t \in S : ~bad /\ ~excused[t] /\ set \notin {SetOf(d) : d \in current[t]})

\* serving_tombstones: no published state, so the local manifest is asked.
Fallback == IF local.listed THEN local.tomb ELSE {}

ClaimNothing(t) ==
  /\ at[t] = "claim" /\ doc[t] \notin Listed
  /\ Return({t}, IF doc[t] = NoDoc THEN Fallback ELSE {}, FALSE)
  /\ UNCHANGED <<local, per, pub, server, cache, flight, left>>

CachedDigest == IF cache.doc \in Listed THEN {cache.doc.tomb} ELSE {}

Hit(t) ==
  /\ cache.keys \in CachedKeys
  /\ cache.keys.digest = doc[t].tomb
  /\ cache.keys.digest \in CachedDigest

ClaimHit(t) ==
  /\ at[t] = "claim" /\ doc[t] \in Listed /\ Hit(t)
  /\ Return({t}, cache.keys.keys, FALSE)
  /\ UNCHANGED <<local, per, pub, server, cache, flight, left>>

ClaimWait(t) ==
  /\ at[t] = "claim" /\ doc[t] \in Listed /\ ~Hit(t)
  /\ flight[doc[t].tomb] # Nobody
  /\ at' = [at EXCEPT ![t] = "wait"]
  /\ UNCHANGED <<local, per, pub, server, cache, flight, doc, clean, current, excused, outdated, left>>

ClaimLead(t) ==
  /\ at[t] = "claim" /\ doc[t] \in Listed /\ ~Hit(t)
  /\ flight[doc[t].tomb] = Nobody
  /\ flight' = [flight EXCEPT ![doc[t].tomb] = t]
  /\ at' = [at EXCEPT ![t] = "read"]
  /\ UNCHANGED <<local, per, pub, server, cache, doc, clean, current, excused, outdated, left>>

\* The digest whose flight t leads; doc[t] may be newer than that.
Led(t) == {s \in Sets : flight[s] = t}

\* Defect: only the leader gets the result.
LandAlone(t, set, bad) ==
  /\ flight' = [s \in Sets |-> IF flight[s] = t THEN Nobody ELSE flight[s]]
  /\ Return({t}, set, bad)

\* _publish and _publish_failure: the flight ends, its waiters get the result.
Land(t, set, bad) ==
  /\ flight' = [s \in Sets |-> IF flight[s] = t THEN Nobody ELSE flight[s]]
  /\ Return({t} \cup {w \in Threads : at[w] = "wait" /\ doc[w].tomb \in Led(t)}, set, bad)

LastKnown == IF cache.keys \in CachedKeys THEN cache.keys.keys ELSE Fallback

Readable(d) == Series(d) \subseteq parts

Store(d) == [cache EXCEPT !.keys = [digest |-> d.tomb, keys |-> d.tomb]]

\* Defect: a missing part is read as an empty one.
ReadEmpty(t) ==
  /\ at[t] \in {"read", "reread"}
  /\ LET keys == IF Readable(doc[t]) THEN doc[t].tomb ELSE {}
     IN  /\ cache' = IF doc[t].tomb \in CachedDigest
                     THEN [cache EXCEPT !.keys = [digest |-> doc[t].tomb, keys |-> keys]]
                     ELSE cache
         /\ Land(t, keys, excused[t])
  /\ UNCHANGED <<local, per, pub, server, left>>

\* The parts are there; they are cached if their digest is still the cached one.
ReadParts(t) ==
  /\ at[t] \in {"read", "reread"} /\ Readable(doc[t])
  /\ cache' = IF doc[t].tomb \in CachedDigest THEN Store(doc[t]) ELSE cache
  /\ Land(t, doc[t].tomb, excused[t])
  /\ UNCHANGED <<local, per, pub, server, left>>

\* Defect: the document is not read again.
PartMissingKept(t) ==
  /\ at[t] = "read" /\ ~Readable(doc[t])
  /\ Land(t, LastKnown, excused[t])
  /\ UNCHANGED <<local, per, pub, server, cache, left>>

\* A part is missing: the document is read once more.
PartMissing(t) ==
  /\ at[t] = "read" /\ ~Readable(doc[t])
  /\ at' = [at EXCEPT ![t] = "reload"]
  /\ clean' = [clean EXCEPT ![t] = TRUE]
  /\ UNCHANGED <<local, per, pub, server, cache, flight, doc, current, excused, outdated, left>>

\* The retry reads parts itself: it leads a flight and must not wait for one.
Retry(t) ==
  /\ at[t] = "reclaim" /\ doc[t] \in Listed /\ doc[t].tomb \notin Led(t)
  /\ at' = [at EXCEPT ![t] = "reread"]
  /\ UNCHANGED <<local, per, pub, server, cache, flight, doc, clean, current, excused, outdated, left>>

OverlayRemoved(t) ==
  /\ at[t] = "reclaim" /\ doc[t] = Unlisted
  /\ Land(t, {}, excused[t])
  /\ UNCHANGED <<local, per, pub, server, cache, left>>

\* Nothing new to read, or the second read failed too: the last complete set,
\* or the manifest when there is none.
GiveUp(t) ==
  /\ \/ at[t] = "reclaim" /\ (doc[t] = NoDoc \/ (doc[t] \in Listed /\ doc[t].tomb \in Led(t)))
     \/ at[t] = "reread" /\ ~Readable(doc[t])
  /\ Land(t, LastKnown, excused[t])
  /\ UNCHANGED <<local, per, pub, server, cache, left>>

\* The request itself fails.
ReadFails(t) ==
  /\ at[t] = "read" /\ Fault
  /\ at' = [at EXCEPT ![t] = "reload"]
  /\ clean' = [clean EXCEPT ![t] = TRUE]
  /\ Forgive(t)
  /\ UNCHANGED <<local, per, pub, server, cache, flight, doc, outdated>>

RereadFails(t) ==
  /\ at[t] = "reread" /\ Fault
  /\ Land(t, LastKnown, TRUE)
  /\ UNCHANGED <<local, per, pub, server, cache>>

----------------------------------------------------------------------------
World == OverlayRun \/ SetPer \/ UpgradeServer

Publisher ==
  \/ Publish \/ Republish \/ WritePart
  \/ SwitchMeta \/ SwitchPoint \/ DropOld \/ Sweep \/ StopPublish

Working(t) ==
  \/ Load(t) \/ LoadFails(t) \/ Install(t)
  \/ ClaimNothing(t) \/ ClaimHit(t) \/ ClaimWait(t) \/ ClaimLead(t)
  \/ ReadParts(t) \/ PartMissing(t) \/ Retry(t) \/ OverlayRemoved(t)
  \/ GiveUp(t) \/ ReadFails(t) \/ RereadFails(t)

Searching(t) == Call(t) \/ Working(t)

Next == World \/ Publisher \/ ReadState \/ \E t \in Threads : Searching(t)

Spec == Init /\ [][Next]_vars

\* The indexer runs again after a failure, and a search that was called is run.
FairSpec ==
  /\ Spec
  /\ WF_vars(Publisher)
  /\ \A t \in Threads : WF_vars(Working(t))

----------------------------------------------------------------------------
(* Properties. *)

PublishType ==
  /\ local \in [listed : {TRUE}, tomb : Sets] \cup {Unlisted} /\ per \in Pers
  /\ metaData \in BOOLEAN /\ {meta, point} \subseteq Docs /\ parts \subseteq AllParts
  /\ pub \in [at : {"idle", "write", "drop", "sweep"}, new : Docs, old : Docs, todo : SUBSET AllParts]

SearchType ==
  /\ cache \in [loaded : BOOLEAN, doc : Docs, keys : CachedKeys \cup {NoKeys}]
  /\ flight \in [Sets -> Threads \cup {Nobody}]
  /\ at \in [Threads -> {"idle", "load", "install", "claim", "wait", "read",
                         "reload", "reinstall", "reclaim", "reread"}]
  /\ doc \in [Threads -> Docs] /\ clean \in [Threads -> BOOLEAN]
  /\ current \in [Threads -> SUBSET Docs] /\ excused \in [Threads -> BOOLEAN]
  /\ outdated \in BOOLEAN

TypeOK ==
  /\ PublishType /\ SearchType
  /\ left \in [changes : Nat, faults : Nat, events : Nat, calls : Nat]

\* The document a reader finds names only tombstone points that are stored, also
\* while a publish is under way, after a kill of one, after a change of the keys
\* per point and after an upgrade of the server (index_meta.py:425 "Switch the
\* document first, then drop the parts it no longer references").
DocIsReadable == Readable(DocNow)

\* A search hides the files some document deletes that was current while it ran,
\* also when parts were dropped under it, when another search read for it and
\* when the overlay was removed meanwhile; Excuse says when it may be given an
\* older set.
SearchIsCurrent == ~outdated

\* No search waits forever, whoever leads the read it waits for.
SearchesReturn == \A t \in Threads : at[t] # "idle" ~> at[t] = "idle"

\* When overlays rest, the published tombstones are those of the manifest and
\* no part of an earlier series is left.
EventuallyPublished ==
  <>[](DocNow = NewDoc /\ parts = Series(NewDoc))

----------------------------------------------------------------------------
(* What makes these properties inductive. *)

\* A publish writes every part of a document before it switches to it.
PubInv ==
  /\ ~metaData => meta = NoDoc
  /\ pub.at # "idle" => pub.new # NoDoc
  /\ pub.at = "write" => Series(pub.new) \subseteq parts \cup pub.todo
  /\ pub.at \in {"drop", "sweep"} => DocNow = pub.new

\* What is cached is the set its digest is computed from; a thread leads one
\* flight, from its claim to its landing.
Retrying == {"reload", "reinstall", "reclaim", "reread"}
FlightInv ==
  /\ cache.keys \in CachedKeys => cache.keys.keys = cache.keys.digest
  /\ \A t \in Threads :
       /\ Led(t) # {} => at[t] \in {"read"} \cup Retrying
       /\ \A r, s \in Led(t) : r = s
       /\ at[t] = "read" => Led(t) = {doc[t].tomb}
       /\ at[t] \in {"wait", "read", "reread"} => doc[t] \in Listed

\* A search that nothing excuses has seen one document or two, and goes on from
\* one of them; once a part was missing it is the newer one.
Seen(t) ==
  /\ DocNow \in current[t] /\ IsFiniteSet(current[t]) /\ ~Excuse(current[t])
  /\ at[t] # "load" => doc[t] \in current[t]
  /\ at[t] \in Retrying =>
       /\ SetOf(DocNow) \notin Led(t)
       /\ \E d \in current[t] : SetOf(d) \in Led(t)
       /\ at[t] # "reload" => doc[t] = DocNow
SeenInv == \A t \in Threads : at[t] # "idle" /\ ~excused[t] => Seen(t)

ReadInv == TypeOK /\ PubInv /\ DocIsReadable
IInv == ReadInv /\ FlightInv /\ SeenInv /\ SearchIsCurrent
=============================================================================
