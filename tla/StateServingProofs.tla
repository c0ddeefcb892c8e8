-------------------------- MODULE StateServingProofs --------------------------
(***************************************************************************)
(* Machine-checked proofs about StateServing, for any finite sets of       *)
(* tombstones, any keys per point and any number of searches and events.   *)
(***************************************************************************)
EXTENDS StateServing, FiniteSetTheorems, TLAPS

\* A document lists the overlay, does not list it, or is missing.
LEMMA DocKinds ==
  /\ NoDoc \notin Listed /\ Unlisted \notin Listed /\ NoDoc # Unlisted
  /\ \A d \in Listed : d.listed = TRUE /\ d.tomb \in Sets /\ SetOf(d) = d.tomb
  /\ SetOf(Unlisted) = {} /\ Series(Unlisted) = {} /\ Series(NoDoc) = {}
  <1>1. NoDoc \notin Listed
    <2> SUFFICES ASSUME NoDoc \in Listed PROVE FALSE
      OBVIOUS
    <2>1. DOMAIN NoDoc = {"none"}
      BY DEF NoDoc
    <2>2. \A d \in Listed : DOMAIN d = {"listed", "tomb", "per"}
      BY DEF Listed
    <2> QED
      BY <2>1, <2>2
  <1>2. NoDoc # Unlisted
    <2>1. DOMAIN NoDoc = {"none"} /\ DOMAIN Unlisted = {"listed"}
      BY DEF NoDoc, Unlisted
    <2> QED
      BY <2>1
  <1>3. Unlisted \notin Listed
    BY DEF Unlisted, Listed
  <1>4. \A d \in Listed : d.listed = TRUE /\ d.tomb \in Sets /\ SetOf(d) = d.tomb
    BY DEF Listed, SetOf
  <1> QED
    BY <1>1, <1>2, <1>3, <1>4 DEF SetOf, Series

LEMMA SeriesType == \A d : Series(d) \subseteq AllParts
  BY DEF Series, AllParts

LEMMA NewDocType == PublishType => NewDoc \in Docs /\ NewDoc # NoDoc
  <1> SUFFICES ASSUME PublishType PROVE NewDoc \in Docs /\ NewDoc # NoDoc
    OBVIOUS
  <1>1. CASE local = Unlisted
    BY <1>1, DocKinds DEF NewDoc, Docs, Unlisted
  <1>2. CASE local \in [listed : {TRUE}, tomb : Sets]
    <2>1. NewDoc \in Listed
      BY <1>2 DEF NewDoc, Listed, PublishType
    <2> QED
      BY <2>1, DocKinds DEF Docs
  <1> QED
    BY <1>1, <1>2 DEF PublishType

LEMMA DocNowType == PublishType => DocNow \in Docs
  BY DEF PublishType, DocNow

LEMMA InitType == Init => TypeOK
  <1> SUFFICES ASSUME Init PROVE TypeOK
    OBVIOUS
  <1>1. NoDoc \in Docs
    BY DEF Docs
  <1>2. PublishType
    BY <1>1, ServingConstants DEF Init, PublishType, Resting
  <1>3. SearchType
    BY <1>1 DEF Init, SearchType
  <1> QED
    BY <1>2, <1>3, ServingConstants DEF Init, TypeOK

\* A thread's stages.
Ats == {"idle", "load", "install", "claim", "wait", "read",
        "reload", "reinstall", "reclaim", "reread"}
Lefts == [changes : Nat, faults : Nat, events : Nat, calls : Nat]

LEMMA LeftType == left \in Lefts /\ (Fault \/ Change) => left' \in Lefts
  <1> SUFFICES ASSUME left \in Lefts, Fault \/ Change PROVE left' \in Lefts
    OBVIOUS
  <1>1. CASE Fault
    <2>1. left' = [changes |-> left.changes, faults |-> left.faults - 1,
                   events |-> left.events - 1, calls |-> left.calls]
      BY <1>1 DEF Fault, Lefts
    <2> QED
      BY <1>1, <2>1 DEF Fault, Lefts
  <1>2. CASE Change
    <2>1. left' = [changes |-> left.changes - 1, faults |-> left.faults,
                   events |-> left.events - 1, calls |-> left.calls]
      BY <1>2 DEF Change, Lefts
    <2> QED
      BY <1>2, <2>1 DEF Change, Lefts
  <1> QED
    BY <1>1, <1>2

LEMMA PublisherType ==
  TypeOK /\ (World \/ Publisher) => PublishType' /\ left' \in Lefts
  <1> SUFFICES ASSUME PublishType, left \in Lefts, World \/ Publisher
               PROVE  PublishType' /\ left' \in Lefts
    BY DEF TypeOK, Lefts
  <1> USE DEF server
  <1>1. CASE World
    BY <1>1, LeftType DEF World, OverlayRun, SetPer, UpgradeServer, PublishType
  <1>2. CASE Publish \/ Republish
    <2>1. pub' = [at |-> "write", new |-> NewDoc, old |-> DocNow, todo |-> Unwritten(NewDoc, DocNow)]
      BY <1>2 DEF Publish, Republish
    <2>2. Unwritten(NewDoc, DocNow) \subseteq AllParts
      BY SeriesType DEF Unwritten
    <2> QED
      BY <1>2, <2>1, <2>2, NewDocType, DocNowType DEF Publish, Republish, PublishType
  <1>3. CASE WritePart
    BY <1>3 DEF WritePart, PublishType
  <1>4. CASE SwitchMeta
    BY <1>4 DEF SwitchMeta, PublishType
  <1>5. CASE SwitchPoint
    BY <1>5, LeftType DEF SwitchPoint, PublishType
  <1>6. CASE DropOld \/ Sweep \/ StopPublish
    <2>1. Resting \in [at : {"idle", "write", "drop", "sweep"}, new : Docs, old : Docs, todo : SUBSET AllParts]
      BY DEF Resting, Docs
    <2> QED
      BY <1>6, <2>1, LeftType DEF DropOld, Sweep, StopPublish, PublishType
  <1> QED
    BY <1>1, <1>2, <1>3, <1>4, <1>5, <1>6 DEF Publisher

LEMMA WitnessType ==
  SearchType /\ PublishType' /\ Witness =>
    current' \in [Threads -> SUBSET Docs] /\ excused' \in [Threads -> BOOLEAN]
  <1> SUFFICES ASSUME SearchType, PublishType', Witness
               PROVE  current' \in [Threads -> SUBSET Docs] /\ excused' \in [Threads -> BOOLEAN]
    OBVIOUS
  <1>1. DocNext \in Docs
    BY DEF DocNext, PublishType
  <1> QED
    BY <1>1 DEF SearchType, Witness, Excuse

LEMMA ReturnType ==
  ASSUME SearchType, NEW S, NEW set, NEW bad \in BOOLEAN, Return(S, set, bad),
         cache' \in [loaded : BOOLEAN, doc : Docs, keys : CachedKeys \cup {NoKeys}],
         flight' \in [Sets -> Threads \cup {Nobody}]
  PROVE  SearchType'
  BY DEF SearchType, Return, Docs

LEMMA LandType ==
  ASSUME SearchType, NEW t \in Threads, NEW set, NEW bad \in BOOLEAN, Land(t, set, bad),
         cache' = cache \/ (doc[t] \in Listed /\ cache' = Store(doc[t]))
  PROVE  SearchType'
  <1>1. flight' \in [Sets -> Threads \cup {Nobody}]
    BY DEF Land, SearchType
  <1>2. cache' \in [loaded : BOOLEAN, doc : Docs, keys : CachedKeys \cup {NoKeys}]
    BY DocKinds DEF SearchType, Store, CachedKeys
  <1> QED
    BY <1>1, <1>2, ReturnType DEF Land

LEMMA SearchingType ==
  ASSUME TypeOK, FlightInv, NEW t \in Threads, Searching(t)
  PROVE  SearchType' /\ left' \in Lefts
  <1> USE DEF server
  <1>a. PublishType /\ SearchType /\ left \in Lefts /\ DocNow \in Docs /\ excused[t] \in BOOLEAN
    BY DocNowType DEF TypeOK, Lefts, SearchType
  <1>1. CASE Call(t)
    <2>1. left' \in Lefts
      BY <1>1, <1>a DEF Call, Lefts
    <2> QED
      BY <1>1, <1>a, <2>1 DEF Call, SearchType, Excuse
  <1>2. CASE Load(t)
    <2>1. at' \in [Threads -> Ats] /\ doc' \in [Threads -> Docs]
      BY <1>2, <1>a DEF Load, SearchType, Ats
    <2> QED
      BY <1>2, <1>a, <2>1 DEF Load, SearchType, Ats
  <1>b. ASSUME NEW d \in Docs, Installed(d)
        PROVE  /\ cache' \in [loaded : BOOLEAN, doc : Docs, keys : CachedKeys \cup {NoKeys}]
               /\ clean' \in [Threads -> BOOLEAN]
    BY <1>a, <1>b DEF Installed, SearchType
  <1>3. CASE LoadFails(t)
    <2>1. at' \in [Threads -> Ats] /\ doc' \in [Threads -> Docs]
      BY <1>3, <1>a DEF LoadFails, SearchType, Ats
    <2>2. /\ cache' \in [loaded : BOOLEAN, doc : Docs, keys : CachedKeys \cup {NoKeys}]
          /\ clean' \in [Threads -> BOOLEAN]
      BY <1>3, <1>a, <1>b DEF LoadFails, SearchType, Docs
    <2>3. current' \in [Threads -> SUBSET Docs] /\ excused' \in [Threads -> BOOLEAN]
      BY <1>3, <1>a DEF LoadFails, Forgive, SearchType
    <2> QED
      BY <1>3, <1>a, <2>1, <2>2, <2>3, LeftType DEF LoadFails, SearchType, Ats
  <1>10. CASE Install(t)
    <2>1. /\ cache' \in [loaded : BOOLEAN, doc : Docs, keys : CachedKeys \cup {NoKeys}]
          /\ clean' \in [Threads -> BOOLEAN]
      BY <1>10, <1>a, <1>b DEF Install, SearchType
    <2>2. at' \in [Threads -> Ats]
      BY <1>10, <1>a DEF Install, SearchType, Ats
    <2> QED
      BY <1>10, <1>a, <2>1, <2>2 DEF Install, SearchType, Ats
  <1>4. CASE ClaimNothing(t) \/ ClaimHit(t)
    BY <1>4, <1>a, ReturnType, ZenonT(60) DEF ClaimNothing, ClaimHit, SearchType
  <1>5. CASE ClaimWait(t) \/ ClaimLead(t) \/ Retry(t) \/ PartMissing(t)
    <2>1. \E l \in {"wait", "read", "reread", "reload"} : at' = [at EXCEPT ![t] = l]
      BY <1>5 DEF ClaimWait, ClaimLead, Retry, PartMissing
    <2>2. at' \in [Threads -> Ats]
      BY <1>a, <2>1 DEF SearchType, Ats
    <2>3. flight' \in [Sets -> Threads \cup {Nobody}] /\ clean' \in [Threads -> BOOLEAN]
      BY <1>5, <1>a, ZenonT(60) DEF ClaimWait, ClaimLead, Retry, PartMissing, SearchType
    <2> QED
      BY <1>5, <1>a, <2>2, <2>3 DEF ClaimWait, ClaimLead, Retry, PartMissing, SearchType, Ats
  <1>6. CASE ReadParts(t)
    <2>1. doc[t] \in Listed
      BY <1>6 DEF ReadParts, FlightInv
    <2> QED
      BY <1>6, <1>a, <2>1, LandType DEF ReadParts
  <1>7. CASE OverlayRemoved(t) \/ GiveUp(t)
    BY <1>7, <1>a, LandType DEF OverlayRemoved, GiveUp
  <1>8. CASE RereadFails(t)
    BY <1>8, <1>a, LeftType, LandType DEF RereadFails
  <1>9. CASE ReadFails(t)
    BY <1>9, <1>a, LeftType DEF ReadFails, Forgive, SearchType
  <1> QED
    BY <1>1, <1>2, <1>3, <1>4, <1>5, <1>6, <1>7, <1>8, <1>9, <1>10
    DEF Searching, Working

LEMMA NextType == TypeOK /\ FlightInv /\ [Next]_vars => TypeOK'
  <1> SUFFICES ASSUME TypeOK, FlightInv, [Next]_vars PROVE TypeOK'
    OBVIOUS
  <1> USE DEF server, serving, searches
  <1>1. CASE World \/ Publisher
    <2>1. SearchType'
      <3>1. CASE SwitchMeta \/ SwitchPoint
        BY <1>1, <3>1, WitnessType, PublisherType DEF SwitchMeta, SwitchPoint, SearchType, TypeOK
      <3>2. CASE UNCHANGED serving
        BY <3>2 DEF SearchType, TypeOK
      <3> QED
        BY <1>1, <3>1, <3>2
        DEF World, OverlayRun, SetPer, UpgradeServer, Publisher, Publish, Republish, WritePart,
            DropOld, Sweep, StopPublish
    <2> QED
      BY <1>1, <2>1, PublisherType DEF TypeOK, Lefts
  <1>2. CASE ReadState
    <2>1. PublishType' /\ SearchType' /\ left' = left
      BY <1>2, DocNowType DEF ReadState, Installed, TypeOK, PublishType, SearchType
    <2> QED
      BY <2>1 DEF TypeOK
  <1>3. ASSUME NEW t \in Threads, Searching(t) PROVE TypeOK'
    <2>1. UNCHANGED <<local, per, pub, server>>
      BY <1>3 DEF Searching, Call, Working, Load, LoadFails, Install, ClaimNothing, ClaimHit,
                  ClaimWait, ClaimLead, ReadParts, PartMissing, Retry, OverlayRemoved, GiveUp,
                  ReadFails, RereadFails
    <2>2. PublishType'
      BY <2>1 DEF TypeOK, PublishType
    <2> QED
      BY <1>3, <2>2, SearchingType DEF TypeOK, Lefts
  <1>4. CASE UNCHANGED vars
    BY <1>4 DEF vars, TypeOK, PublishType, SearchType
  <1> QED
    BY <1>1, <1>2, <1>3, <1>4 DEF Next

----------------------------------------------------------------------------
(* The publisher; a metadata update that fails on a server that has them is  *)
(* left out (MetaFaults).                                                    *)

\* Searches leave the published documents and parts alone.
LEMMA SearchingReads ==
  ASSUME NEW t \in Threads, Searching(t)
  PROVE  UNCHANGED <<local, per, pub, server>>
  BY DEF Searching, Call, Working, Load, LoadFails, Install, ClaimNothing, ClaimHit, ClaimWait,
         ClaimLead, ReadParts, PartMissing, Retry, OverlayRemoved, GiveUp, ReadFails, RereadFails

LEMMA NextPub ==
  ASSUME ~MetaFaults, TypeOK, PubInv, DocIsReadable, [Next]_vars
  PROVE  PubInv' /\ DocIsReadable'
  <1> USE DEF server, serving, searches
  <1>a. PublishType /\ pub.at \in {"idle", "write", "drop", "sweep"}
    BY DEF TypeOK, PublishType
  <1>1. CASE UNCHANGED <<pub, meta, point, parts>> /\ (~metaData' => ~metaData)
    BY <1>1 DEF PubInv, DocIsReadable, Readable, DocNow
  <1>2. CASE Publish \/ Republish
    <2>1. /\ pub' = [at |-> "write", new |-> NewDoc, old |-> DocNow, todo |-> Unwritten(NewDoc, DocNow)]
          /\ UNCHANGED server
      BY <1>2 DEF Publish, Republish
    <2>2. Series(NewDoc) \subseteq parts \cup Unwritten(NewDoc, DocNow)
      BY DEF Unwritten
    <2> QED
      BY <1>a, <2>1, <2>2, NewDocType DEF PubInv, DocIsReadable, Readable, DocNow
  <1>3. CASE WritePart
    <2>1. PICK p \in pub.todo : parts' = parts \cup {p} /\ pub' = [pub EXCEPT !.todo = @ \ {p}]
      BY <1>3 DEF WritePart
    <2>2. pub'.new = pub.new /\ pub'.at = "write" /\ pub'.todo = pub.todo \ {p}
      BY <1>3, <1>a, <2>1 DEF WritePart, PublishType
    <2>3. UNCHANGED <<metaData, meta, point>> /\ pub.at = "write"
      BY <1>3 DEF WritePart
    <2> QED
      BY <2>1, <2>2, <2>3 DEF PubInv, DocIsReadable, Readable, DocNow
  <1>4. CASE SwitchMeta \/ SwitchPoint
    <2>1. /\ pub.at = "write" /\ pub.todo = {} /\ UNCHANGED <<metaData, parts>>
          /\ pub'.new = pub.new /\ pub'.at = "drop"
      BY <1>4, <1>a DEF SwitchMeta, SwitchPoint, PublishType
    <2>2. DocNow' = pub.new /\ (~metaData => meta' = NoDoc)
      BY <1>4, <2>1 DEF SwitchMeta, SwitchPoint, PubInv, DocNow
    <2> QED
      BY <2>1, <2>2 DEF PubInv, DocIsReadable, Readable
  <1>5. CASE DropOld
    <2>1. /\ parts' = parts \ (Series(pub.old) \ Series(pub.new)) /\ pub.at = "drop"
          /\ pub'.new = pub.new /\ pub'.at = "sweep" /\ UNCHANGED <<metaData, meta, point>>
      BY <1>5, <1>a DEF DropOld, PublishType
    <2> QED
      BY <2>1 DEF PubInv, DocIsReadable, Readable, DocNow
  <1>6. CASE Sweep
    <2>1. /\ parts' = parts \cap Series(pub.new) /\ pub.at = "sweep" /\ pub'.at = "idle"
          /\ UNCHANGED <<metaData, meta, point>>
      BY <1>6 DEF Sweep, Resting
    <2> QED
      BY <2>1 DEF PubInv, DocIsReadable, Readable, DocNow
  <1>7. CASE StopPublish
    <2>1. pub'.at = "idle" /\ UNCHANGED <<metaData, meta, point, parts>>
      BY <1>7 DEF StopPublish, Resting
    <2> QED
      BY <2>1 DEF PubInv, DocIsReadable, Readable, DocNow
  <1>8. ASSUME NEW t \in Threads, Searching(t) PROVE UNCHANGED <<pub, metaData, meta, point, parts>>
    BY <1>8, SearchingReads
  <1>9. CASE World \/ ReadState \/ UNCHANGED vars
    <2>1. CASE UpgradeServer
      BY <1>1, <2>1 DEF UpgradeServer
    <2>2. CASE OverlayRun \/ SetPer \/ ReadState \/ UNCHANGED vars
      <3>1. UNCHANGED <<pub, metaData, meta, point, parts>>
        BY <2>2 DEF OverlayRun, SetPer, ReadState, vars
      <3> QED
        BY <1>1, <3>1
    <2> QED
      BY <1>9, <2>1, <2>2 DEF World
  <1> QED
    BY <1>1, <1>2, <1>3, <1>4, <1>5, <1>6, <1>7, <1>8, <1>9 DEF Next, Publisher

----------------------------------------------------------------------------
(* Searches and their flights. *)

\* What a landing changes of other threads.
LEMMA LandEffect ==
  ASSUME SearchType, NEW t \in Threads, NEW set, NEW bad, Land(t, set, bad), NEW u \in Threads
  PROVE  /\ u = t => Led(u)' = {} /\ at'[u] = "idle"
         /\ u # t => Led(u)' = Led(u)
         /\ at'[u] # "idle" =>
              at'[u] = at[u] /\ doc'[u] = doc[u] /\ current'[u] = current[u] /\ excused'[u] = excused[u]
  BY ServingConstants DEF Land, Led, Return, SearchType

LEMMA NextFlight == TypeOK /\ FlightInv /\ [Next]_vars => FlightInv'
  <1> SUFFICES ASSUME SearchType, FlightInv, [Next]_vars PROVE FlightInv'
    BY DEF TypeOK
  <1> USE DEF serving, searches
  <1> DEFINE Fine(u) ==
        /\ Led(u) # {} => at[u] \in {"read"} \cup Retrying
        /\ \A r, s \in Led(u) : r = s
        /\ at[u] = "read" => Led(u) = {doc[u].tomb}
        /\ at[u] \in {"wait", "read", "reread"} => doc[u] \in Listed
  <1>a. \A u \in Threads : Fine(u)
    BY DEF FlightInv
  <1>b. ASSUME cache'.keys = cache.keys, \A u \in Threads : Fine(u)' PROVE FlightInv'
    BY <1>b DEF FlightInv
  <1>c. ASSUME NEW u \in Threads, flight' = flight, at'[u] = at[u], doc'[u] = doc[u] PROVE Fine(u)'
    BY <1>a, <1>c DEF Led
  <1>1. CASE World \/ Publisher \/ ReadState \/ UNCHANGED vars
    <2>1. UNCHANGED <<flight, at, doc>>
      BY <1>1 DEF World, OverlayRun, SetPer, UpgradeServer, Publisher, Publish, Republish, WritePart,
                  SwitchMeta, SwitchPoint, DropOld, Sweep, StopPublish, ReadState, vars
    <2>2. cache' = cache \/ Installed(DocNow)
      BY <1>1 DEF World, OverlayRun, SetPer, UpgradeServer, Publisher, Publish, Republish, WritePart,
                  SwitchMeta, SwitchPoint, DropOld, Sweep, StopPublish, ReadState, vars
    <2>3. cache'.keys = cache.keys
      BY <2>2 DEF Installed, SearchType
    <2> QED
      BY <1>b, <1>c, <2>1, <2>3
  <1> SUFFICES ASSUME NEW t \in Threads, Searching(t) PROVE FlightInv'
    BY <1>1 DEF Next
  <1>2. CASE Call(t) \/ Load(t) \/ LoadFails(t) \/ Install(t) \/ PartMissing(t) \/ Retry(t)
             \/ ReadFails(t) \/ ClaimWait(t)
    <2>1. flight' = flight /\ cache'.keys = cache.keys
      BY <1>2 DEF Call, Load, LoadFails, Install, Installed, PartMissing, Retry, ReadFails, ClaimWait,
                  SearchType
    <2>2. ASSUME NEW u \in Threads, u # t PROVE at'[u] = at[u] /\ doc'[u] = doc[u]
      BY <1>2, <2>2 DEF Call, Load, LoadFails, Install, PartMissing, Retry, ReadFails, ClaimWait,
                        SearchType
    <2>3. CASE Call(t) \/ Load(t) \/ LoadFails(t) \/ Install(t)
      <3>1. /\ at[t] \in {"read"} \cup Retrying => at'[t] \in Retrying
            /\ at'[t] \notin {"wait", "read", "reread"}
        BY <2>3 DEF Call, Load, LoadFails, Install, SearchType, Retrying
      <3>2. Fine(t)'
        BY <1>a, <2>1, <3>1 DEF Led
      <3> QED
        BY <1>b, <1>c, <2>1, <2>2, <3>2
    <2>4. CASE PartMissing(t) \/ Retry(t) \/ ReadFails(t)
      <3>1. /\ at[t] \in {"read"} \cup Retrying /\ at'[t] \in Retrying
            /\ at'[t] = "reread" => doc'[t] \in Listed
        BY <2>4 DEF PartMissing, Retry, ReadFails, SearchType, Retrying
      <3>2. Fine(t)'
        BY <1>a, <2>1, <3>1 DEF Led, Retrying
      <3> QED
        BY <1>b, <1>c, <2>1, <2>2, <3>2
    <2>5. CASE ClaimWait(t)
      <3>1. at[t] = "claim" /\ at'[t] = "wait" /\ doc'[t] \in Listed
        BY <2>5 DEF ClaimWait, SearchType
      <3>2. Fine(t)'
        BY <1>a, <2>1, <3>1 DEF Led, Retrying
      <3> QED
        BY <1>b, <1>c, <2>1, <2>2, <3>2
    <2> QED
      BY <1>2, <2>3, <2>4, <2>5
  <1>3. CASE ClaimNothing(t) \/ ClaimHit(t)
    <2>1. /\ at[t] = "claim" /\ at'[t] = "idle" /\ UNCHANGED <<flight, cache>>
          /\ \A u \in Threads : u # t => at'[u] = at[u] /\ doc'[u] = doc[u]
      BY <1>3, ZenonT(60) DEF ClaimNothing, ClaimHit, Return, SearchType
    <2>2. Fine(t)'
      BY <1>a, <2>1 DEF Led, Retrying
    <2> QED
      BY <1>b, <1>c, <2>1, <2>2
  <1>4. CASE ClaimLead(t)
    <2>1. /\ at[t] = "claim" /\ doc[t] \in Listed /\ flight[doc[t].tomb] = Nobody
          /\ flight' = [flight EXCEPT ![doc[t].tomb] = t] /\ at' = [at EXCEPT ![t] = "read"]
          /\ UNCHANGED <<doc, cache>> /\ doc[t].tomb \in Sets
      BY <1>4, DocKinds DEF ClaimLead
    <2>2. Led(t) = {}
      BY <1>a, <2>1 DEF Retrying
    <2>3. Led(t)' = {doc[t].tomb}
      BY <2>1, <2>2 DEF Led, SearchType
    <2>4. ASSUME NEW u \in Threads, u # t PROVE Led(u)' = Led(u)
      BY <2>1, <2>4, ServingConstants DEF Led, SearchType
    <2>5. Fine(t)'
      BY <2>1, <2>3 DEF SearchType
    <2>6. ASSUME NEW u \in Threads, u # t PROVE Fine(u)'
      BY <1>a, <2>1, <2>4, <2>6 DEF SearchType
    <2> QED
      BY <1>b, <2>1, <2>5, <2>6
  <1>5. ASSUME NEW set, NEW bad, Land(t, set, bad),
               cache' = cache \/ cache' = Store(doc[t])
        PROVE  FlightInv'
    <2>1. ASSUME NEW u \in Threads PROVE Fine(u)'
      <3>1. CASE u = t
        BY <1>5, <3>1, LandEffect DEF Retrying
      <3>2. CASE u # t /\ at'[u] # "idle"
        BY <1>a, <1>5, <3>2, LandEffect
      <3>3. CASE u # t /\ at'[u] = "idle"
        <4>1. Led(u)' = Led(u) /\ (at[u] = "idle" \/ at[u] = "wait")
          BY <1>5, <3>3, LandEffect, ZenonT(60) DEF Land, Return, SearchType
        <4> QED
          BY <1>a, <3>3, <4>1 DEF Retrying
      <3> QED
        BY <3>1, <3>2, <3>3
    <2>2. cache'.keys \in CachedKeys => cache'.keys.keys = cache'.keys.digest
      BY <1>5 DEF Store, FlightInv, SearchType
    <2> QED
      BY <2>1, <2>2 DEF FlightInv
  <1> QED
    BY <1>2, <1>3, <1>4, <1>5
    DEF Searching, Working, ReadParts, OverlayRemoved, GiveUp, RereadFails

LEMMA ThreeDocuments ==
  ASSUME NEW S, IsFiniteSet(S), NEW a \in S, NEW b \in S, NEW c \in S, a # b, b # c, a # c
  PROVE  Cardinality(S) > 2
  <1> DEFINE T == {a} \cup {b} \cup {c}
  <1>1. IsFiniteSet({a}) /\ Cardinality({a}) = 1
    BY FS_Singleton
  <1>2. IsFiniteSet({a} \cup {b}) /\ Cardinality({a} \cup {b}) = 2
    <2>1. /\ IsFiniteSet({a} \cup {b})
          /\ Cardinality({a} \cup {b}) = IF b \in {a} THEN Cardinality({a}) ELSE Cardinality({a}) + 1
      BY <1>1, FS_AddElement
    <2> QED
      BY <1>1, <2>1
  <1>3. Cardinality(T) = 3
    BY <1>2, FS_AddElement
  <1>4. T \subseteq S
    OBVIOUS
  <1>5. Cardinality(T) <= Cardinality(S) /\ Cardinality(S) \in Nat
    BY <1>4, FS_Subset, FS_CardinalityType
  <1> HIDE DEF T
  <1> QED
    BY <1>3, <1>5

\* A search that saw a part missing has seen two documents; a third excuses it.
LEMMA WitnessSeen ==
  ASSUME SearchType, SeenInv, Witness, UNCHANGED <<flight, at, doc>>
  PROVE  SeenInv'
  <1> SUFFICES ASSUME NEW t \in Threads, at[t] # "idle", ~excused'[t] PROVE Seen(t)'
    BY DEF SeenInv
  <1> DEFINE seen == current[t] \cup {DocNext}
  <1>0. DocNow' = DocNext
    BY DEF DocNow, DocNext
  <1>1. /\ ~excused[t] /\ ~Excuse(seen) /\ current'[t] = seen
        /\ ~(DocNext # DocNow /\ DocNext \in current[t])
    BY DEF Witness, SearchType
  <1>2. Seen(t)
    BY <1>1 DEF SeenInv
  <1>3. IsFiniteSet(seen)
    BY <1>2, FS_AddElement DEF Seen
  <1>4. ASSUME at[t] \in Retrying PROVE DocNext = DocNow
    <2> SUFFICES ASSUME DocNext # DocNow PROVE FALSE
      OBVIOUS
    <2>1. PICK d \in current[t] : SetOf(d) \in Led(t)
      BY <1>2, <1>4 DEF Seen
    <2>2. d # DocNow /\ d # DocNext
      BY <1>1, <1>2, <1>4, <2>1 DEF Seen
    <2>3. d \in seen /\ DocNow \in seen /\ DocNext \in seen
      BY <1>2, <2>1 DEF Seen
    <2>4. Cardinality(seen) > 2
      BY <1>3, <2>2, <2>3, ThreeDocuments
    <2> QED
      BY <1>1, <2>4 DEF Excuse
  <1>5. Led(t)' = Led(t)
    BY DEF Led
  <1>6. at[t] \in Retrying => SetOf(DocNow)' \notin Led(t)
    BY <1>0, <1>2, <1>4 DEF Seen, SetOf
  <1>7. ~Excuse(current'[t])
    BY <1>1
  <1> QED
    BY <1>0, <1>1, <1>2, <1>3, <1>4, <1>5, <1>6 DEF Seen, Excuse, SetOf

\* A search that others leave alone has seen what it had seen.
LEMMA SeenKept ==
  ASSUME SeenInv, NEW u \in Threads, DocNow' = DocNow,
         at'[u] # "idle" =>
           /\ at'[u] = at[u] /\ doc'[u] = doc[u] /\ current'[u] = current[u] /\ excused'[u] = excused[u]
           /\ Led(u)' = Led(u)
  PROVE  at'[u] # "idle" /\ ~excused'[u] => Seen(u)'
  BY DEF SeenInv, Seen, Excuse, SetOf

LEMMA NextSeen ==
  TypeOK /\ DocIsReadable /\ FlightInv /\ SeenInv /\ [Next]_vars => SeenInv'
  <1> SUFFICES ASSUME TypeOK, SearchType, DocIsReadable, FlightInv, SeenInv, [Next]_vars PROVE SeenInv'
    BY DEF TypeOK
  <1> USE DEF serving, searches, server
  <1>1. CASE SwitchMeta \/ SwitchPoint
    BY <1>1, WitnessSeen DEF SwitchMeta, SwitchPoint
  <1>a. ASSUME UNCHANGED <<flight, at, doc, current, excused, meta, point>> PROVE SeenInv'
    BY <1>a DEF SeenInv, Seen, Excuse, SetOf, DocNow, Led
  <1>2. CASE World \/ ReadState \/ UNCHANGED vars
    BY <1>2, <1>a DEF World, OverlayRun, SetPer, UpgradeServer, ReadState, vars
  <1>3. CASE Publish \/ Republish \/ WritePart \/ DropOld \/ Sweep \/ StopPublish
    BY <1>3, <1>a DEF Publish, Republish, WritePart, DropOld, Sweep, StopPublish
  <1> SUFFICES ASSUME NEW t \in Threads, Searching(t) PROVE SeenInv'
    BY <1>1, <1>2, <1>3 DEF Next, Publisher
  <1>b. DocNow' = DocNow /\ DocNow \in Docs
    BY SearchingReads, DocNowType DEF DocNow, TypeOK
  <1>c. ASSUME NEW set, NEW bad, Land(t, set, bad) PROVE SeenInv'
    <2>1. ASSUME NEW u \in Threads, at'[u] # "idle" PROVE u # t /\ Led(u)' = Led(u)
      BY <1>c, <2>1, LandEffect
    <2> QED
      BY <1>b, <1>c, <2>1, LandEffect, SeenKept DEF SeenInv
  <1>4. CASE Call(t)
    <2>1. ASSUME NEW u \in Threads, u # t PROVE at'[u] # "idle" /\ ~excused'[u] => Seen(u)'
      BY <1>4, <1>b, <2>1, SeenKept DEF Call, SearchType, Led
    <2>2. /\ at'[t] = "load" /\ excused'[t] = Excuse({DocNow})
          /\ ~excused'[t] => current'[t] = {DocNow}
      BY <1>4 DEF Call, SearchType
    <2>3. ~excused'[t] => Seen(t)'
      BY <1>b, <2>2, FS_Singleton DEF Seen, Excuse, SetOf, Retrying
    <2> QED
      BY <2>1, <2>3 DEF SeenInv
  <1>d. ASSUME UNCHANGED flight,
               \A u \in Threads \ {t} : /\ at'[u] = at[u] /\ doc'[u] = doc[u]
                                        /\ current'[u] = current[u] /\ excused'[u] = excused[u],
               at'[t] # "idle" /\ ~excused'[t] => Seen(t)'
        PROVE  SeenInv'
    BY <1>b, <1>d, SeenKept DEF SeenInv, Led
  <1>5. CASE Load(t)
    <2>1. /\ at[t] = "load" => at'[t] = "install"
          /\ at[t] # "load" => at[t] = "reload" /\ at'[t] = "reinstall"
          /\ doc'[t] = DocNow /\ UNCHANGED <<flight, current, excused>>
          /\ \A u \in Threads \ {t} : at'[u] = at[u] /\ doc'[u] = doc[u]
      BY <1>5 DEF Load, SearchType
    <2>2. ~excused[t] => Seen(t)'
      BY <1>b, <2>1 DEF SeenInv, Seen, Excuse, SetOf, Retrying, Led
    <2> QED
      BY <1>d, <2>1, <2>2
  <1>6. CASE LoadFails(t) \/ ReadFails(t)
    <2>1. excused'[t] = TRUE
      BY <1>6 DEF LoadFails, ReadFails, Forgive, SearchType
    <2> QED
      BY <1>d, <1>6, <2>1 DEF LoadFails, ReadFails, Forgive, SearchType
  <1>7. CASE Install(t) \/ Retry(t) \/ ClaimWait(t)
    <2>1. /\ at[t] \notin {"idle", "load", "reload"} /\ at'[t] \notin {"load", "reload"}
          /\ at'[t] \in Retrying => at[t] \in Retrying
          /\ UNCHANGED <<doc, flight, current, excused>>
          /\ \A u \in Threads \ {t} : at'[u] = at[u]
      BY <1>7 DEF Install, Retry, ClaimWait, SearchType, Retrying
    <2>2. ~excused[t] => Seen(t)'
      BY <1>b, <2>1 DEF SeenInv, Seen, Excuse, SetOf, Led
    <2> QED
      BY <1>d, <2>1, <2>2
  <1>8. CASE ClaimNothing(t) \/ ClaimHit(t)
    <2>1. /\ at'[t] = "idle" /\ flight' = flight
          /\ \A u \in Threads \ {t} : /\ at'[u] = at[u] /\ doc'[u] = doc[u]
                                      /\ current'[u] = current[u] /\ excused'[u] = excused[u]
      BY <1>8, ZenonT(60) DEF ClaimNothing, ClaimHit, Return, SearchType
    <2> QED
      BY <1>d, <2>1
  <1>9. CASE ClaimLead(t)
    <2>1. /\ at[t] = "claim" /\ flight[doc[t].tomb] = Nobody
          /\ flight' = [flight EXCEPT ![doc[t].tomb] = t] /\ at' = [at EXCEPT ![t] = "read"]
          /\ UNCHANGED <<doc, current, excused>>
      BY <1>9 DEF ClaimLead
    <2>2. ASSUME NEW u \in Threads, u # t PROVE at'[u] # "idle" /\ ~excused'[u] => Seen(u)'
      <3>1. Led(u)' = Led(u)
        BY <2>1, <2>2, ServingConstants DEF Led, SearchType
      <3> QED
        BY <1>b, <2>1, <2>2, <3>1, SeenKept DEF SearchType
    <2>3. ~excused[t] => Seen(t)'
      BY <1>b, <2>1 DEF SeenInv, Seen, Excuse, SetOf, Retrying, SearchType
    <2> QED
      BY <2>1, <2>2, <2>3 DEF SeenInv
  <1>10. CASE PartMissing(t)
    <2>1. /\ at[t] = "read" /\ at'[t] = "reload" /\ UNCHANGED <<doc, flight, current, excused>>
          /\ \A u \in Threads \ {t} : at'[u] = at[u]
      BY <1>10 DEF PartMissing, SearchType
    <2>2. /\ doc[t] # DocNow /\ Led(t) = {doc[t].tomb} /\ SetOf(doc[t]) = doc[t].tomb
      BY <1>10, <2>1, DocKinds DEF PartMissing, DocIsReadable, FlightInv
    <2>3. ~excused[t] => SetOf(DocNow) # SetOf(doc[t])
      BY <2>1, <2>2 DEF SeenInv, Seen, Excuse
    <2>4. ~excused[t] => Seen(t)'
      BY <1>b, <2>1, <2>2, <2>3 DEF SeenInv, Seen, Excuse, SetOf, Retrying, Led
    <2> QED
      BY <1>d, <2>1, <2>4
  <1>11. CASE ReadParts(t) \/ OverlayRemoved(t) \/ GiveUp(t) \/ RereadFails(t)
    BY <1>11, <1>c DEF ReadParts, OverlayRemoved, GiveUp, RereadFails
  <1> QED
    BY <1>4, <1>5, <1>6, <1>7, <1>8, <1>9, <1>10, <1>11 DEF Searching, Working

\* Who returns with what: the set is one some document names that the search saw.
LEMMA NextCurrent ==
  TypeOK /\ DocIsReadable /\ FlightInv /\ SeenInv /\ SearchIsCurrent /\ [Next]_vars => SearchIsCurrent'
  <1> SUFFICES ASSUME TypeOK, SearchType, DocIsReadable, FlightInv, SeenInv, ~outdated, [Next]_vars
               PROVE  ~outdated'
    BY DEF TypeOK, SearchIsCurrent
  <1> USE DEF serving, searches, server
  <1> DEFINE Saw(t, set) == set \in {SetOf(d) : d \in current[t]}
  <1>a. ASSUME NEW S, NEW set, NEW bad, Return(S, set, bad), S \subseteq Threads,
               ~bad => \A t \in S : ~excused[t] => Saw(t, set)
        PROVE  ~outdated'
    BY <1>a DEF Return
  <1>1. CASE World \/ Publisher \/ ReadState \/ UNCHANGED vars
    BY <1>1 DEF World, OverlayRun, SetPer, UpgradeServer, Publisher, Publish, Republish, WritePart,
                SwitchMeta, SwitchPoint, DropOld, Sweep, StopPublish, ReadState, vars
  <1> SUFFICES ASSUME NEW t \in Threads, Searching(t) PROVE ~outdated'
    BY <1>1 DEF Next
  <1>2. CASE ClaimNothing(t)
    <2>1. at[t] = "claim" /\ doc[t] \in Docs \ Listed
      BY <1>2 DEF ClaimNothing, SearchType
    <2>2. ~excused[t] => doc[t] \in current[t] /\ NoDoc \notin current[t]
      BY <2>1 DEF SeenInv, Seen, Excuse
    <2>3. ~excused[t] => doc[t] = Unlisted /\ Saw(t, {})
      BY <2>1, <2>2, DocKinds DEF Docs
    <2> QED
      BY <1>2, <1>a, <2>2, <2>3, ZenonT(60) DEF ClaimNothing
  <1>3. CASE ClaimHit(t)
    <2>1. at[t] = "claim" /\ doc[t] \in Listed /\ cache.keys.keys = doc[t].tomb
      BY <1>3 DEF ClaimHit, Hit, FlightInv
    <2>2. ~excused[t] => Saw(t, cache.keys.keys)
      BY <2>1, DocKinds DEF SeenInv, Seen
    <2>3. Return({t}, cache.keys.keys, FALSE)
      BY <1>3 DEF ClaimHit
    <2>4. {t} \subseteq Threads /\ \A u \in {t} : ~excused[u] => Saw(u, cache.keys.keys)
      BY <2>2
    <2> QED
      BY <1>a, <2>3, <2>4
  \* A leader lands: its waiters ask for the set of the flight it leads.
  <1>b. ASSUME NEW set, NEW bad, Land(t, set, bad),
               ~bad => /\ ~excused[t]
                       /\ Saw(t, set)
                       /\ \/ Led(t) = {set}
                          \/ set = SetOf(DocNow)
        PROVE  ~outdated'
    <2> DEFINE waiters == {w \in Threads : at[w] = "wait" /\ doc[w].tomb \in Led(t)}
    <2>1. ASSUME ~bad, NEW w \in waiters, ~excused[w] PROVE Saw(w, set)
      <3>1. doc[w] \in current[w] /\ SetOf(doc[w]) \in Led(t) /\ DocNow \in current[w]
        BY <2>1, DocKinds DEF SeenInv, Seen, FlightInv
      <3> QED
        BY <1>b, <2>1, <3>1
    <2>2. Return({t} \cup waiters, set, bad)
      BY <1>b DEF Land
    <2>3. {t} \cup waiters \subseteq Threads
      OBVIOUS
    <2>4. ~bad => \A u \in {t} \cup waiters : ~excused[u] => Saw(u, set)
      BY <1>b, <2>1
    <2> HIDE DEF waiters
    <2> QED
      BY <1>a, <2>2, <2>3, <2>4
  <1>4. CASE ReadParts(t)
    <2>1. at[t] \in {"read", "reread"} /\ doc[t] \in Listed /\ SetOf(doc[t]) = doc[t].tomb
      BY <1>4, DocKinds DEF ReadParts, FlightInv
    <2>2. ~excused[t] => Saw(t, doc[t].tomb)
      BY <2>1 DEF SeenInv, Seen
    <2>3. ~excused[t] => Led(t) = {doc[t].tomb} \/ doc[t].tomb = SetOf(DocNow)
      BY <2>1 DEF SeenInv, Seen, FlightInv, Retrying
    <2>4. excused[t] \in BOOLEAN /\ Land(t, doc[t].tomb, excused[t])
      BY <1>4 DEF ReadParts, SearchType
    <2> QED
      BY <1>b, <2>2, <2>3, <2>4
  <1>5. CASE OverlayRemoved(t)
    <2>1. at[t] = "reclaim" /\ doc[t] = Unlisted /\ SetOf(Unlisted) = {}
      BY <1>5, DocKinds DEF OverlayRemoved
    <2>2. ~excused[t] => doc[t] = DocNow /\ doc[t] \in current[t]
      BY <2>1 DEF SeenInv, Seen, Retrying
    <2>3. ~excused[t] => Saw(t, {}) /\ SetOf(DocNow) = {}
      BY <2>1, <2>2
    <2> QED
      BY <1>5, <1>b, <2>3 DEF OverlayRemoved
  <1>6. CASE GiveUp(t)
    <2>1. excused[t]
      <3> SUFFICES ASSUME ~excused[t] PROVE FALSE
        OBVIOUS
      <3>1. at[t] \in {"reclaim", "reread"}
        BY <1>6 DEF GiveUp
      <3>2. /\ doc[t] = DocNow /\ doc[t] \in current[t] /\ NoDoc \notin current[t]
            /\ SetOf(doc[t]) \notin Led(t)
        BY <3>1 DEF SeenInv, Seen, Retrying, Excuse
      <3>3. doc[t] \in Listed => SetOf(doc[t]) = doc[t].tomb
        BY DocKinds
      <3> QED
        BY <1>6, <3>2, <3>3 DEF GiveUp, DocIsReadable
    <2> QED
      BY <1>6, <1>b, <2>1 DEF GiveUp
  <1>7. CASE RereadFails(t)
    BY <1>7, <1>b DEF RereadFails
  <1>8. CASE Call(t) \/ Load(t) \/ LoadFails(t) \/ Install(t) \/ ClaimWait(t) \/ ClaimLead(t)
             \/ PartMissing(t) \/ Retry(t) \/ ReadFails(t)
    BY <1>8 DEF Call, Load, LoadFails, Install, ClaimWait, ClaimLead, PartMissing, Retry, ReadFails
  <1> QED
    BY <1>2, <1>3, <1>4, <1>5, <1>6, <1>7, <1>8 DEF Searching, Working

LEMMA ServingInvariant == ~MetaFaults /\ Spec => []IInv
  <1> SUFFICES ASSUME ~MetaFaults PROVE Spec => []IInv
    OBVIOUS
  <1>1. Init => IInv
    <2>1. Init => PubInv /\ DocIsReadable
      BY DocKinds DEF Init, PubInv, Resting, DocIsReadable, Readable, DocNow
    <2>2. Init => FlightInv /\ SeenInv /\ SearchIsCurrent
      BY ServingConstants
      DEF Init, FlightInv, SeenInv, SearchIsCurrent, Led, NoKeys, CachedKeys
    <2> QED
      BY <2>1, <2>2, InitType DEF IInv, ReadInv
  <1>2. IInv /\ [Next]_vars => IInv'
    BY NextType, NextPub, NextFlight, NextSeen, NextCurrent DEF IInv, ReadInv
  <1> QED
    BY <1>1, <1>2, PTL DEF Spec

\* A search that reads the document and then the parts it names finds them,
\* whatever publishes were killed, as long as a server that has metadata takes
\* their updates.
THEOREM PartsBeforeDocument == ~MetaFaults /\ Spec => []DocIsReadable
  <1>1. IInv => DocIsReadable
    BY DEF IInv, ReadInv
  <1> QED
    BY <1>1, ServingInvariant, PTL

\* And it hides what some document deletes that it could have read, whoever
\* read for it and whatever was dropped meanwhile.
THEOREM TombstonesAreCurrent == ~MetaFaults /\ Spec => []SearchIsCurrent
  <1>1. IInv => SearchIsCurrent
    BY DEF IInv
  <1> QED
    BY <1>1, ServingInvariant, PTL
=============================================================================
