----------------------------- MODULE Deployment -----------------------------
(***************************************************************************)
(* A collection and the two programs that share it, from start to end: the *)
(* indexer (index_rag.py as a command, with --clear and                    *)
(* --regenerate-manifest) and the MCP server (rag_mcp.py).                 *)
(*                                                                         *)
(* Both start the containers they need, load an embedding model, and       *)
(* compare it with what the collection says embedded its points.  The      *)
(* pipeline that stores the points of a file is one step here: IndexRefresh*)
(* details it and shows that a kill in it is repaired by the journal.      *)
(***************************************************************************)
EXTENDS Containers, Provenance

CONSTANTS
  Files,      \* source files
  Versions,   \* contents of a file
  Worlds,     \* hosts, configs and faults to start from
  NoEntry,    \* a file the manifest does not list
  NoManifest, \* index_manifest.json does not exist
  NoColl,     \* the collection does not exist
  NoConfig    \* of a process that does not run

Indexer == "indexer"
Server == "server"

\* All that some world has: settings, spaces, records and collections.
Configs == UNION {w.configs : w \in Worlds}
Spaces == TeiModels \cup {c.model : c \in Configs} \cup UNION {w.endpoints : w \in Worlds}

Records ==
  {NoRecord} \cup [kind : {"family"}, family : {"openai", "tei", "pytorch"}]
  \cup [kind : {"full"}, model : {c.model : c \in Configs}, quant : {c.quant : c \in Configs},
        dim : {Dim(s) : s \in Spaces}, space : Spaces, summary : BOOLEAN]

Colls ==
  [record : Records, dim : {Dim(s) : s \in Spaces},
   points : [Files -> SUBSET (Versions \X Spaces)], doubt : BOOLEAN]

Manifests == [Files -> Versions \cup {NoEntry}]
FirstTree == [f \in Files |-> CHOOSE v \in Versions : TRUE]

\* A TEI container is of the model of its config.  A collection of an older
\* release holds the sources, and no record tells how they were embedded.
ASSUME DeploymentAssumption ==
  /\ {Indexer, Server} \subseteq Procs
  /\ Versions # {}
  /\ NoColl \notin Colls
  /\ NoManifest \notin Manifests
  /\ \A w \in Worlds :
       /\ w.metadata \in BOOLEAN
       /\ \A c \in w.configs : Backend(c) = "tei" => c.model \in TeiModels
       /\ w.old # NoColl =>
            /\ w.old \in Colls /\ w.old.doubt
            /\ \A f \in Files : {p[1] : p \in w.old.points[f]} = {FirstTree[f]}

VARIABLES
  world,      \* what may happen in this behaviour
  endpoint,   \* the space the remote embedding URL answers in
  tree,       \* the sources
  coll,       \* the collection: record, vector length and the points by file
  manifest,   \* index_manifest.json
  ix,         \* the indexer
  sv,         \* the MCP server
  swapped,    \* processes whose endpoint changed since they compared it
  holes       \* was a reset cut short, or the manifest made from the points?

deployVars == <<world, endpoint, tree, coll, manifest, ix, sv, swapped, holes>>
vars == <<dockerVars, deployVars>>

\* sure: a full record with a fingerprint was verified, or was just written.
IdleIndexer == [pc |-> "off", cfg |-> NoConfig, mode |-> "run", todo |-> {},
                device |-> Cpu, max_len |-> Unset, steady |-> TRUE, sure |-> FALSE]
IdleServer == [pc |-> "off", cfg |-> NoConfig, checked |-> FALSE, same |-> FALSE]

NoPoints == [f \in Files |-> {}]
NewColl(dim) == [record |-> NoRecord, dim |-> dim, points |-> NoPoints, doubt |-> FALSE]

\* The pcs of a run that has its manifest.
Refreshing == {"scan", "device", "model", "open", "record", "embed", "publish"}

TypeIndexer ==
  /\ DOMAIN ix = DOMAIN IdleIndexer
  /\ ix.pc \in {"off", "boot", "clear", "clear files", "load"} \cup Refreshing
  /\ ix.pc # "off" => ix.cfg \in world.configs
  /\ ix.todo \subseteq Files
  /\ ix.sure \in BOOLEAN

TypeServer ==
  /\ DOMAIN sv = DOMAIN IdleServer
  /\ sv.pc \in {"off", "boot", "unbuilt", "serving"}
  /\ sv.pc # "off" => sv.cfg \in world.configs
  /\ sv.checked \in BOOLEAN /\ sv.same \in BOOLEAN

TypeOK ==
  /\ world \in Worlds
  /\ TypeBoxes
  /\ endpoint \in world.endpoints
  /\ tree \in [Files -> Versions]
  /\ coll \in Colls \cup {NoColl}
  /\ manifest \in Manifests \cup {NoManifest}
  /\ TypeIndexer
  /\ TypeServer
  /\ swapped \subseteq Procs
  /\ holes \in BOOLEAN

Init ==
  /\ world \in Worlds
  /\ DockerInit(world.host)
  /\ endpoint \in world.endpoints
  /\ tree = FirstTree
  /\ coll = world.old
  /\ manifest = IF world.old = NoColl THEN NoManifest ELSE tree
  /\ ix = IdleIndexer
  /\ sv = IdleServer
  /\ swapped = {}
  /\ holes = FALSE
-----------------------------------------------------------------------------
\* What embeds a text now, for a config; NoSpace when nothing answers.
SpaceNow(cfg) ==
  CASE Backend(cfg) \in {"remote", "openai"} -> endpoint
    [] Backend(cfg) = "tei" ->
         LET up == Behind(cfg.model) \cap answers
         IN  IF up = {} THEN NoSpace ELSE CHOOSE b \in up : TRUE
    [] OTHER -> cfg.model

\* A request to Qdrant may fail where the world is flaky.
Readable == IF world.flaky THEN BOOLEAN ELSE {TRUE}

Reads(record) == {ReadProvenance(record, p, i) : p \in Readable, i \in Readable}

\* _write_new_collection_provenance: the family alone when no vectors come.
NewRecord(cfg) ==
  IF SpaceNow(cfg) = NoSpace THEN FamilyRecord(cfg)
  ELSE FullRecord(cfg, SpaceNow(cfg), world.metadata)

\* Which containers a process still has to see to; the ports of a server
\* elsewhere (QDRANT_MODE = "remote") are not its business.
NextBox(p, cfg) ==
  CASE boot[p].step = "idle" /\ world.docker -> {<<Qdrant, Cpu>>}
    [] boot[p].step = "idle" /\ ~world.docker /\ UsesTeiContainer(cfg) ->
         {<<cfg.model, cfg.tei_gpu>>}
    [] boot[p].step = "ready" /\ boot[p].box = Qdrant /\ UsesTeiContainer(cfg) ->
         {<<cfg.model, cfg.tei_gpu>>}
    [] OTHER -> {}

Booted(p, cfg) == boot[p].step \in {"idle", "ready"} /\ NextBox(p, cfg) = {}

BootStep(p, cfg) ==
  /\ \/ \E need \in NextBox(p, cfg) : Ensure(p, need[1], need[2])
     \/ Boot(p)
  /\ UNCHANGED deployVars

\* A process that is gone; its containers run on.
Forget(p) == boot' = [boot EXCEPT ![p] = NotBooting]

IndexerEnds == ix' = IdleIndexer /\ Forget(Indexer) /\ UNCHANGED <<boxes, answers, gpus>>
-----------------------------------------------------------------------------
(* The indexer *)

StartIndexer(cfg, mode) ==
  /\ ix.pc = "off"
  /\ cfg \in world.configs
  /\ mode \in world.modes
  /\ ix' = [IdleIndexer EXCEPT !.pc = "boot", !.cfg = cfg, !.mode = mode]
  /\ UNCHANGED <<dockerVars, world, endpoint, tree, coll, manifest, sv, swapped, holes>>

IndexerBoots ==
  /\ ix.pc = "boot"
  /\ BootStep(Indexer, ix.cfg)

IndexerBooted ==
  /\ ix.pc = "boot"
  /\ Booted(Indexer, ix.cfg)
  /\ ix' = [ix EXCEPT !.pc = IF ix.mode = "clear" THEN "clear" ELSE "load"]
  /\ UNCHANGED <<dockerVars, world, endpoint, tree, coll, manifest, sv, swapped, holes>>

\* --clear: the collection goes first.  A failed delete is only logged.
ClearCollection ==
  /\ ix.pc = "clear"
  /\ \/ coll' = NoColl /\ sv' = [sv EXCEPT !.same = FALSE] /\ holes' = holes
     \/ world.flaky /\ coll # NoColl /\ UNCHANGED <<coll, sv>> /\ holes' = TRUE
  /\ ix' = [ix EXCEPT !.pc = "clear files"]
  /\ UNCHANGED <<dockerVars, world, endpoint, tree, manifest, swapped>>

\* The main manifest stays.
ClearOverlaysOnly ==
  /\ ix.pc = "clear files"
  /\ holes' = (coll # NoColl)
  /\ ix' = [ix EXCEPT !.pc = "load"]
  /\ UNCHANGED <<dockerVars, world, endpoint, tree, coll, manifest, sv, swapped>>

\* Then the manifest (and the manifests of the overlays and the journals).
ClearFiles ==
  /\ ix.pc = "clear files"
  /\ manifest' = NoManifest
  /\ holes' = (coll # NoColl)
  /\ ix' = [ix EXCEPT !.pc = "load"]
  /\ UNCHANGED <<dockerVars, world, endpoint, tree, coll, sv, swapped>>

\* regenerate_manifest_qdrant: every file with points gets an entry with its
\* hash of today.  The loop ends at the last page before it looks at its points,
\* so that the files whose points are all there are missing, be it all of them.
Regenerated ==
  IF coll = NoColl THEN {[f \in Files |-> NoEntry]}
  ELSE LET stored == {f \in Files : coll.points[f] # {}}
       IN  {[f \in Files |-> IF f \in stored \ lastPage THEN tree[f] ELSE NoEntry] :
              lastPage \in SUBSET stored}

LoadManifest ==
  /\ ix.pc = "load"
  /\ IF ix.mode = "regenerate" \/ manifest = NoManifest
     THEN /\ manifest' \in Regenerated
          /\ holes' = (holes \/ coll # NoColl)
     ELSE UNCHANGED <<manifest, holes>>
  /\ IF ix.mode = "regenerate"
     THEN IndexerEnds
     ELSE ix' = [ix EXCEPT !.pc = "scan"] /\ UNCHANGED dockerVars
  /\ UNCHANGED <<world, endpoint, tree, coll, sv, swapped>>

\* run_indexing refuses a device that is not there.
RefuseDevice ==
  /\ ix.pc = "scan"
  /\ DeviceErrors(ix.cfg, world.cuda, world.openvinos)
  /\ IndexerEnds
  /\ UNCHANGED <<world, endpoint, tree, coll, manifest, sv, swapped, holes>>

\* Without changes the run goes on to publish and opens nothing.
Scan ==
  /\ ix.pc = "scan"
  /\ ~DeviceErrors(ix.cfg, world.cuda, world.openvinos)
  /\ LET todo == {f \in Files : manifest[f] # tree[f]}
     IN  ix' = [ix EXCEPT !.todo = todo, !.pc = IF todo = {} THEN "publish" ELSE "device"]
  /\ UNCHANGED <<dockerVars, world, endpoint, tree, coll, manifest, sv, swapped, holes>>

PickDevice ==
  /\ ix.pc = "device"
  /\ ix' = [ix EXCEPT !.pc = "model", !.steady = TRUE,
                      !.device = IF Backend(ix.cfg) # "pytorch" THEN Cpu
                                 ELSE ResolvePytorchDevice(ix.cfg.device, gpus, world.cuda)]
  /\ UNCHANGED <<dockerVars, world, endpoint, tree, coll, manifest, sv, swapped, holes>>

LoadModel ==
  /\ ix.pc = "model"
  /\ ix' = [ix EXCEPT !.pc = "open", !.max_len = MaxLength(ix.cfg, ix.device, gpus)]
  /\ UNCHANGED <<dockerVars, world, endpoint, tree, coll, manifest, sv, swapped, holes>>

\* perform_refresh_qdrant with a collection: compare, and stop at a mismatch.
CheckProvenance ==
  /\ ix.pc = "open"
  /\ coll # NoColl
  /\ \E stored \in Reads(coll.record) :
       IF MayIndex(stored, ix.cfg, SpaceNow(ix.cfg), coll.dim)
       THEN /\ ix' = [ix EXCEPT !.pc = "embed",
                                !.sure = stored.kind = "full" /\ stored.space # NoSpace]
            /\ swapped' = swapped \ {Indexer}
            /\ UNCHANGED dockerVars
       ELSE IndexerEnds /\ UNCHANGED swapped
  /\ UNCHANGED <<world, endpoint, tree, coll, manifest, sv, holes>>

\* ... and without one: make it, as long as the vectors of a probe,
CreateCollection ==
  /\ ix.pc = "open"
  /\ coll = NoColl
  /\ SpaceNow(ix.cfg) # NoSpace
  /\ coll' = NewColl(Dim(SpaceNow(ix.cfg)))
  /\ ix' = [ix EXCEPT !.pc = "record"]
  /\ UNCHANGED <<dockerVars, world, endpoint, tree, manifest, sv, swapped, holes>>

\* then record what embeds.
WriteProvenance ==
  /\ ix.pc = "record"
  /\ coll' = [coll EXCEPT !.record = NewRecord(ix.cfg)]
  /\ ix' = [ix EXCEPT !.pc = "embed", !.sure = NewRecord(ix.cfg).kind = "full"]
  /\ swapped' = swapped \ {Indexer}
  /\ UNCHANGED <<dockerVars, world, endpoint, tree, manifest, sv, holes>>

\* The endpoint is gone: a run that needs it ends.
NoEndpoint ==
  /\ ix.pc = "open"
  /\ coll = NoColl
  /\ SpaceNow(ix.cfg) = NoSpace
  /\ IndexerEnds
  /\ UNCHANGED <<world, endpoint, tree, coll, manifest, sv, swapped, holes>>

\* One file: its old points go, and the new ones are stored unless the endpoint
\* is gone or its vectors do not fit.
EmbedFile(f) ==
  LET space == SpaceNow(ix.cfg)
      fits == space # NoSpace /\ Dim(space) = coll.dim
  IN  /\ ix.pc = "embed"
      /\ f \in ix.todo
      /\ coll' = [coll EXCEPT
           !.points[f] = IF fits THEN {<<tree[f], space>>} ELSE {},
           !.doubt = @ \/ (fits /\ (~ix.sure \/ Indexer \in swapped))]
      /\ manifest' = [manifest EXCEPT ![f] = IF fits THEN tree[f] ELSE NoEntry]
      /\ ix' = [ix EXCEPT !.todo = @ \ {f},
                          !.pc = IF ix.todo = {f} THEN "publish" ELSE "embed"]
      /\ UNCHANGED <<dockerVars, world, endpoint, tree, sv, swapped, holes>>

\* _publish_index_state at the end of the run: _ensure_full_provenance records
\* the model of this run for a collection that has no full record.
Publish ==
  /\ ix.pc = "publish"
  /\ IF coll = NoColl
     THEN UNCHANGED coll
     ELSE \E stored \in Reads(coll.record) :
            LET live == SpaceNow(ix.cfg)
            IN  IF stored.kind # "full" /\ live # NoSpace /\ Dim(live) = coll.dim
                THEN coll' = [coll EXCEPT !.record = FullRecord(ix.cfg, live, world.metadata),
                                          !.doubt = @ \/ coll.record.kind = "full"]
                ELSE UNCHANGED coll
  /\ IndexerEnds
  /\ UNCHANGED <<world, endpoint, tree, manifest, sv, swapped, holes>>

\* The process is killed; between the two halves of a reset that leaves a
\* manifest of points that are no more.
KillIndexer ==
  /\ ix.pc # "off"
  /\ holes' = (holes \/ (ix.pc = "clear files" /\ manifest # NoManifest))
  /\ IndexerEnds
  /\ UNCHANGED <<world, endpoint, tree, coll, manifest, sv, swapped>>
-----------------------------------------------------------------------------
(* The MCP server *)

StartServer(cfg) ==
  /\ sv.pc = "off"
  /\ cfg \in world.configs
  /\ world.serves
  /\ sv' = [IdleServer EXCEPT !.pc = "boot", !.cfg = cfg]
  /\ UNCHANGED <<dockerVars, world, endpoint, tree, coll, manifest, ix, swapped, holes>>

ServerBoots ==
  /\ sv.pc = "boot"
  /\ BootStep(Server, sv.cfg)

ServerBooted ==
  /\ sv.pc = "boot"
  /\ Booted(Server, sv.cfg)
  /\ sv' = [sv EXCEPT !.pc = "unbuilt"]
  /\ UNCHANGED <<dockerVars, world, endpoint, tree, coll, manifest, ix, swapped, holes>>

\* _build_index, at once or with --lazy-init at the first request: the one
\* time the server compares itself with the collection.
BuildIndex ==
  /\ sv.pc = "unbuilt"
  /\ \E stored \in IF coll = NoColl THEN {NoRecord} ELSE Reads(coll.record) :
       IF coll = NoColl \/ MayServe(stored, sv.cfg, SpaceNow(sv.cfg), coll.dim)
       THEN /\ sv' = [sv EXCEPT !.pc = "serving", !.same = coll # NoColl,
                                !.checked = stored.kind = "full" /\ stored.space # NoSpace]
            /\ UNCHANGED dockerVars
       ELSE sv' = IdleServer /\ Forget(Server) /\ UNCHANGED <<boxes, answers, gpus>>
  /\ swapped' = swapped \ {Server}
  /\ UNCHANGED <<world, endpoint, tree, coll, manifest, ix, holes>>

StopServer ==
  /\ sv.pc # "off"
  /\ sv' = IdleServer
  /\ Forget(Server)
  /\ UNCHANGED <<boxes, answers, gpus, world, endpoint, tree, coll, manifest, ix, swapped, holes>>

\* A start that could not get its containers.
GiveUp ==
  \/ /\ ix.pc = "boot" /\ boot[Indexer].step = "failed"
     /\ IndexerEnds
     /\ UNCHANGED <<world, endpoint, tree, coll, manifest, sv, swapped, holes>>
  \/ /\ sv.pc = "boot" /\ boot[Server].step = "failed"
     /\ sv' = IdleServer
     /\ Forget(Server)
     /\ UNCHANGED <<boxes, answers, gpus, world, endpoint, tree, coll, manifest, ix, swapped, holes>>
-----------------------------------------------------------------------------
(* Around them *)

Edit(f, v) ==
  /\ world.edits
  /\ v # tree[f]
  /\ tree' = [tree EXCEPT ![f] = v]
  /\ UNCHANGED <<dockerVars, world, endpoint, coll, manifest, ix, sv, swapped, holes>>

\* Another model is loaded behind the embedding URL.
SwapEndpoint(s) ==
  /\ s \in world.endpoints \ {endpoint}
  /\ endpoint' = s
  /\ swapped' = Procs
  /\ UNCHANGED <<dockerVars, world, tree, coll, manifest, ix, sv, holes>>

DockerWorld ==
  \/ \E b \in Boxes : BecomesHealthy(b) /\ UNCHANGED deployVars
  \/ \E b \in TeiModels :
       /\ world.stops
       /\ StopContainer(b)
       /\ swapped' = Procs
       /\ UNCHANGED <<world, endpoint, tree, coll, manifest, ix, sv, holes>>
  \/ \E g \in DOMAIN gpus : \E free \in world.frees :
       /\ MemoryMoves(g, free)
       /\ ix' = [ix EXCEPT !.steady = FALSE]
       /\ UNCHANGED <<world, endpoint, tree, coll, manifest, sv, swapped, holes>>

IndexerStep ==
  \/ IndexerBoots \/ IndexerBooted \/ ClearCollection \/ ClearFiles \/ LoadManifest
  \/ RefuseDevice \/ Scan \/ PickDevice \/ LoadModel \/ CheckProvenance
  \/ CreateCollection \/ WriteProvenance \/ NoEndpoint
  \/ \E f \in Files : EmbedFile(f)
  \/ Publish

Next ==
  \/ \E cfg \in world.configs : StartServer(cfg) \/ \E mode \in world.modes : StartIndexer(cfg, mode)
  \/ IndexerStep \/ KillIndexer
  \/ ServerBoots \/ ServerBooted \/ BuildIndex \/ StopServer \/ GiveUp
  \/ \E f \in Files, v \in Versions : Edit(f, v)
  \/ \E s \in world.endpoints : SwapEndpoint(s)
  \/ DockerWorld

Spec == Init /\ [][Next]_vars
-----------------------------------------------------------------------------
\* A full record tells the truth about every point, over all runs with all
\* configs: "Writing would mix vectors from different embedding spaces" is
\* prevented, unless the endpoint changed under a run, or points were written
\* while no record or fingerprint could be read.
RecordTellsTruth ==
  coll # NoColl =>
    (coll.record.kind = "full" /\ ~coll.doubt =>
       \A f \in Files : \A p \in coll.points[f] : p[2] = coll.record.space)

\* Queries are embedded like the points they are compared with, as long as the
\* collection is the one the server checked and its endpoint is still the same.
AnswersFit ==
  /\ sv.pc = "serving" /\ sv.checked /\ sv.same /\ Server \notin swapped
  /\ coll # NoColl
  => (~coll.doubt /\ SpaceNow(sv.cfg) # NoSpace =>
        \A f \in Files : \A p \in coll.points[f] : p[2] = SpaceNow(sv.cfg))

\* What the manifest lists is stored in the collection it belongs to, also
\* after --clear, when no reset was cut short and no manifest made from points.
ListedIsStored ==
  ~holes /\ manifest # NoManifest /\ ix.pc # "clear files" =>
    \A f \in Files :
      manifest[f] # NoEntry =>
        coll # NoColl /\ {p[1] : p \in coll.points[f]} = {manifest[f]}

\* The cap on texts lets a batch fit the memory of the very card the model is
\* loaded on, unless the configured length is the cap or the free memory of the
\* cards moved between the choice of the card and the computation.
LengthFits ==
  ix.pc \in {"open", "record", "embed"} /\ ix.device # Cpu /\ ix.cfg.dynamic /\ ix.steady =>
    LET cfg == ix.cfg
        arch == Architecture(cfg.model)
        bytes == LoadedBytes(cfg.dtype)
    IN  \/ ix.max_len <= (IF cfg.max_len = Unset THEN arch.native_max ELSE cfg.max_len)
        \/ /\ ix.max_len <= arch.native_max
           /\ Usage(arch, bytes, cfg.batch, ix.max_len \div Unit)
                <= Remaining(arch, bytes, cfg.margin, gpus[ix.device].total, gpus[ix.device].shared)

\* "Rebuild manifest by scanning existing vector store."
RegeneratedIsStored ==
  ix.pc = "scan" /\ holes /\ coll # NoColl =>
    \A f \in Files : coll.points[f] # {} => manifest[f] # NoEntry
-----------------------------------------------------------------------------
(* The inductive invariant behind RecordTellsTruth, AnswersFit and          *)
(* ListedIsStored; that behind OwnServer is DockerInv.                      *)

Full(c) == c # NoColl /\ c.record.kind = "full"

\* Points without a full record leave doubt; a run has its manifest, and the
\* collection it opened; the server's collection is there.
CollInv ==
  /\ coll # NoColl /\ ~Full(coll) /\ ~coll.doubt => coll.points = NoPoints
  /\ ix.pc \in Refreshing => manifest # NoManifest
  /\ ix.pc \in {"record", "embed"} => coll # NoColl
  /\ ix.pc = "record" => coll.record = NoRecord /\ coll.points = NoPoints
  /\ sv.same => coll # NoColl

\* A process that compared a fingerprint still embeds in the recorded space.
IndexerInv ==
  ix.pc = "embed" /\ ix.sure /\ Indexer \notin swapped =>
    Full(coll) /\ coll.record.space = SpaceNow(ix.cfg) /\ SpaceNow(ix.cfg) # NoSpace

ServerInv ==
  sv.pc = "serving" /\ sv.checked /\ sv.same /\ Server \notin swapped /\ ~coll.doubt =>
    Full(coll) /\ coll.record.space = SpaceNow(sv.cfg) /\ SpaceNow(sv.cfg) # NoSpace

IInv ==
  /\ TypeOK
  /\ DockerInv
  /\ CollInv
  /\ IndexerInv
  /\ ServerInv
  /\ RecordTellsTruth
  /\ ListedIsStored
=============================================================================
