-------------------------- MODULE DeploymentProofs --------------------------
(***************************************************************************)
(* Machine-checked proofs about Deployment and Containers, for any worlds: *)
(* any hosts, configs, files, models, endpoints and faults.                *)
(* IInv is inductive.  DockerInv is the part about the containers: Docker  *)
(* gives a port to one running container, and what a process saw running   *)
(* still runs.  CollInv, IndexerInv and ServerInv tie a collection's record*)
(* to the processes that compared themselves with it.  LengthInv is about  *)
(* the card a model is on; that the length it solves for fits the card    *)
(* is arithmetic over a root, which exists by the least-number principle.  *)
(***************************************************************************)
EXTENDS Deployment, WellFoundedInduction, TLAPS

(* Docker: a process that is told its container is ready talks to its own.  *)

BootRecord(x) ==
  x = [step |-> x.step, box |-> x.box, image |-> x.image, setting |-> x.setting, seen |-> x.seen]

LEMMA StepAndSeen ==
  ASSUME NEW x, BootRecord(x), NEW s, NEW v
  PROVE  [x EXCEPT !.step = s, !.seen = v] =
           [step |-> s, box |-> x.box, image |-> x.image, setting |-> x.setting, seen |-> v]
  <1> DEFINE y == [x EXCEPT !.step = s]
             z == [x EXCEPT !.step = s, !.seen = v]
  <1>1. y = [step |-> s, box |-> x.box, image |-> x.image, setting |-> x.setting, seen |-> x.seen]
    BY DEF BootRecord
  <1>2. z = [y EXCEPT !.seen = v]
    OBVIOUS
  <1> HIDE DEF y, z
  <1>3. z = [step |-> s, box |-> x.box, image |-> x.image, setting |-> x.setting, seen |-> v]
    BY <1>1, <1>2
  <1> QED
    BY <1>3 DEF z

LEMMA StepAndImage ==
  ASSUME NEW x, BootRecord(x), NEW s, NEW v
  PROVE  [x EXCEPT !.step = s, !.image = v] =
           [step |-> s, box |-> x.box, image |-> v, setting |-> x.setting, seen |-> x.seen]
  <1> DEFINE y == [x EXCEPT !.step = s]
             w == [x EXCEPT !.step = s, !.image = v]
  <1>1. y = [step |-> s, box |-> x.box, image |-> x.image, setting |-> x.setting, seen |-> x.seen]
    BY DEF BootRecord
  <1>2. w = [y EXCEPT !.image = v]
    OBVIOUS
  <1> HIDE DEF y, w
  <1>3. w = [step |-> s, box |-> x.box, image |-> v, setting |-> x.setting, seen |-> x.seen]
    BY <1>1, <1>2
  <1> QED
    BY <1>3 DEF w

\* A process is set back, or a step of its start changes nothing in Docker.
LEMMA BootOnly ==
  ASSUME DockerInv, NEW p \in Procs, NEW r,
         boot' = [boot EXCEPT ![p] = r], UNCHANGED <<boxes, answers>>,
         r = [step |-> r.step, box |-> r.box, image |-> r.image,
              setting |-> r.setting, seen |-> r.seen],
         r.step \in Steps, r.box \in Boxes, r.seen \in BOOLEAN,
         r.seen => boxes[r.box].state = "running"
  PROVE  DockerInv'
  <1>1. /\ DOMAIN boot' = Procs
        /\ \A q \in Procs : boot'[q] = IF q = p THEN r ELSE boot[q]
    BY DEF DockerInv, TypeBoxes
  <1>2. TypeBoxes'
    BY <1>1 DEF DockerInv, TypeBoxes
  <1>3. OnePerPort' /\ SeenRuns'
    BY <1>1 DEF DockerInv, OnePerPort, SeenRuns
  <1> QED
    BY <1>2, <1>3 DEF DockerInv

LEMMA GoToOnly ==
  ASSUME DockerInv, NEW p \in Procs, NEW step \in Steps, GoTo(p, step),
         UNCHANGED <<boxes, answers>>
  PROVE  DockerInv'
  <1> DEFINE r == [boot[p] EXCEPT !.step = step]
  <1>1. boot' = [boot EXCEPT ![p] = r]
    BY DEF GoTo
  <1>2. boot[p] = [step |-> boot[p].step, box |-> boot[p].box, image |-> boot[p].image,
                   setting |-> boot[p].setting, seen |-> boot[p].seen]
    BY DEF DockerInv, TypeBoxes
  <1>3. /\ r = [step |-> r.step, box |-> r.box, image |-> r.image,
                setting |-> r.setting, seen |-> r.seen]
        /\ r.step = step /\ r.box = boot[p].box /\ r.seen = boot[p].seen
    BY <1>2
  <1>4. r.box \in Boxes /\ r.seen \in BOOLEAN /\ (r.seen => boxes[r.box].state = "running")
    BY <1>3 DEF DockerInv, TypeBoxes, SeenRuns
  <1> QED
    BY <1>1, <1>3, <1>4, BootOnly

\* A container comes to run, for a process that may take note of it: its port
\* was free.
LEMMA BoxRuns ==
  ASSUME DockerInv, NEW p \in Procs, NEW b \in Boxes, NEW c, NEW r,
         boxes' = [boxes EXCEPT ![b] = c], boot' = [boot EXCEPT ![p] = r],
         answers' = answers,
         c = [state |-> c.state, image |-> c.image, gpu |-> c.gpu],
         c.state \in {"stopped", "running"}, c.state = "running" => ~PortTaken(b),
         boxes[b].state = "running" => c.state = "running",
         r = [step |-> r.step, box |-> r.box, image |-> r.image,
              setting |-> r.setting, seen |-> r.seen],
         r.step \in Steps, r.box = b, r.seen \in BOOLEAN,
         r.seen => c.state = "running"
  PROVE  DockerInv'
  <1>1. /\ DOMAIN boot' = Procs
        /\ \A q \in Procs : boot'[q] = IF q = p THEN r ELSE boot[q]
    BY DEF DockerInv, TypeBoxes
  <1>2. /\ DOMAIN boxes' = Boxes
        /\ \A d \in Boxes : boxes'[d] = IF d = b THEN c ELSE boxes[d]
    BY DEF DockerInv, TypeBoxes
  <1>3. TypeBoxes'
    BY <1>1, <1>2 DEF DockerInv, TypeBoxes
  <1>4. OnePerPort'
    <2>1. \A d, e \in Boxes : SamePort(d, e) => SamePort(e, d)
      BY DEF SamePort
    <2> QED
      BY <1>2, <2>1 DEF DockerInv, OnePerPort, PortTaken, SamePort
  <1>5. SeenRuns'
    BY <1>1, <1>2 DEF DockerInv, TypeBoxes, SeenRuns
  <1> QED
    BY <1>3, <1>4, <1>5 DEF DockerInv

LEMMA BootDocker ==
  ASSUME DockerInv, NEW p \in Procs, Boot(p)
  PROVE  DockerInv'
  <1>0. /\ boot[p] = [step |-> boot[p].step, box |-> boot[p].box, image |-> boot[p].image,
                      setting |-> boot[p].setting, seen |-> boot[p].seen]
        /\ boot[p].box \in Boxes /\ boot[p].seen \in BOOLEAN
    BY DEF DockerInv, TypeBoxes
  <1>b. BootRecord(boot[p])
    BY <1>0 DEF BootRecord
  <1>1. CASE LookForStopped(p) \/ WaitHealthy(p) \/ DockerFails(p)
    BY <1>1, GoToOnly DEF LookForStopped, WaitHealthy, DockerFails, Steps
  <1>2. CASE PickImage(p)
    <2> DEFINE image == IF boot[p].box = Qdrant THEN CpuImage
                        ELSE TeiImage(boot[p].setting, gpus)
    <2> DEFINE r == [boot[p] EXCEPT !.step = "run", !.image = image]
    <2>1. boot' = [boot EXCEPT ![p] = r] /\ UNCHANGED <<boxes, answers>>
      BY <1>2, <1>0 DEF PickImage, DockerInv, TypeBoxes
    <2> HIDE DEF image
    <2>2. r = [step |-> "run", box |-> boot[p].box, image |-> image,
               setting |-> boot[p].setting, seen |-> boot[p].seen]
      BY <1>b, StepAndImage
    <2> HIDE DEF r
    <2>3. boot[p].seen => boxes[boot[p].box].state = "running"
      BY DEF DockerInv, SeenRuns
    <2>4. /\ r.step = "run" /\ r.box = boot[p].box /\ r.seen = boot[p].seen
          /\ r.image = image /\ r.setting = boot[p].setting
      BY <2>2
    <2>5. r.step \in Steps
      BY <2>4 DEF Steps
    <2>6. r.seen => boxes[r.box].state = "running"
      BY <2>3, <2>4
    <2> QED
      BY <1>0, <2>1, <2>2, <2>4, <2>5, <2>6, BootOnly, ZenonT(60)
  <1>3. CASE StartContainer(p)
    <2> DEFINE b == boot[p].box
    <2>1. CASE PortTaken(b)
      <3>1. GoTo(p, "failed") /\ UNCHANGED <<boxes, answers>>
        BY <1>3, <2>1 DEF StartContainer
      <3> QED
        BY <3>1, GoToOnly DEF Steps
    <2> DEFINE yes == TRUE
               c == [boxes[b] EXCEPT !.state = "running"]
               r == [boot[p] EXCEPT !.step = "wait", !.seen = yes]
    <2>2. CASE ~PortTaken(b)
      <3>1. boxes' = [boxes EXCEPT ![b] = c] /\ answers' = answers
        BY <1>3, <2>2 DEF StartContainer
      <3>2. boot' = [boot EXCEPT ![p] = r]
        BY <1>0, <1>3, <2>2 DEF StartContainer, DockerInv, TypeBoxes
      <3>3. c = [state |-> "running", image |-> boxes[b].image, gpu |-> boxes[b].gpu]
        BY <1>0 DEF DockerInv, TypeBoxes
      <3>y. yes \in BOOLEAN
        OBVIOUS
      <3> HIDE DEF yes
      <3>4. r = [step |-> "wait", box |-> b, image |-> boot[p].image,
                 setting |-> boot[p].setting, seen |-> yes]
        BY <1>b, StepAndSeen
      <3> HIDE DEF c, r
      <3>5. /\ r.step = "wait" /\ r.box = b /\ r.seen = yes
            /\ r.image = boot[p].image /\ r.setting = boot[p].setting
        BY <3>4
      <3>6. c.state = "running" /\ c.image = boxes[b].image /\ c.gpu = boxes[b].gpu
        BY <3>3
      <3> QED
        BY <1>0, <2>2, <3>1, <3>2, <3>3, <3>4, <3>5, <3>6, <3>y, BoxRuns, ZenonT(60) DEF Steps
    <2> QED
      BY <2>1, <2>2
  <1>4. CASE RunContainer(p)
    <2> DEFINE b == boot[p].box
               gpu == IF b = Qdrant THEN NoGpu ELSE TeiGpu(boot[p].setting, gpus)
               c == [state |-> IF PortTaken(b) THEN "stopped" ELSE "running",
                     image |-> boot[p].image, gpu |-> gpu]
               step == IF PortTaken(b) THEN "failed" ELSE "wait"
               free == ~PortTaken(b)
               r == [boot[p] EXCEPT !.step = step, !.seen = free]
    <2>1. CASE boxes[b].state # "absent"
      <3>1. GoTo(p, "failed") /\ UNCHANGED <<boxes, answers>>
        BY <1>4, <2>1 DEF RunContainer
      <3> QED
        BY <3>1, GoToOnly DEF Steps
    <2>2. CASE boxes[b].state = "absent"
      <3>1. boxes' = [boxes EXCEPT ![b] = c] /\ answers' = answers
        BY <1>4, <2>2 DEF RunContainer
      <3>2. boot' = [boot EXCEPT ![p] = r]
        BY <1>0, <1>4, <2>2 DEF RunContainer, DockerInv, TypeBoxes
      <3>3. /\ c = [state |-> c.state, image |-> c.image, gpu |-> c.gpu]
            /\ c.state = IF PortTaken(b) THEN "stopped" ELSE "running"
        OBVIOUS
      <3>4. free \in BOOLEAN /\ (free <=> ~PortTaken(b)) /\ step \in Steps
        BY DEF PortTaken, Steps
      <3> HIDE DEF gpu, c, step, free
      <3>5. r = [step |-> step, box |-> b, image |-> boot[p].image,
                 setting |-> boot[p].setting, seen |-> free]
        BY <1>b, StepAndSeen
      <3> HIDE DEF r
      <3>6. /\ r.step = step /\ r.box = b /\ r.seen = free
            /\ r.image = boot[p].image /\ r.setting = boot[p].setting
        BY <3>5
      <3>7. r.seen => c.state = "running"
        BY <3>3, <3>4, <3>6
      <3>8. c.state \in {"stopped", "running"} /\ (c.state = "running" => ~PortTaken(b))
        BY <3>3
      <3> QED
        BY <1>0, <2>2, <3>1, <3>2, <3>3, <3>4, <3>5, <3>6, <3>7, <3>8, BoxRuns, ZenonT(60)
    <2> QED
      BY <2>1, <2>2
  <1> QED
    BY <1>1, <1>2, <1>3, <1>4 DEF Boot

LEMMA EnsureDocker ==
  ASSUME DockerInv, NEW p \in Procs, NEW b \in Boxes, NEW setting, Ensure(p, b, setting)
  PROVE  DockerInv'
  <1> DEFINE r == [step |-> IF boxes[b].state = "running" THEN "wait" ELSE "exists",
                   box |-> b, image |-> NoImage, setting |-> setting,
                   seen |-> boxes[b].state = "running"]
  <1>1. boot' = [boot EXCEPT ![p] = r] /\ UNCHANGED <<boxes, answers>>
    BY DEF Ensure
  <1>2. r.seen \in BOOLEAN /\ (r.seen => boxes[r.box].state = "running")
    OBVIOUS
  <1>3. /\ r = [step |-> r.step, box |-> r.box, image |-> r.image,
                setting |-> r.setting, seen |-> r.seen]
        /\ r.step \in Steps /\ r.box \in Boxes
    BY DEF Steps
  <1> HIDE DEF r
  <1> QED
    BY <1>1, <1>2, <1>3, BootOnly

LEMMA ForgetDocker ==
  ASSUME DockerInv, NEW p \in Procs, Forget(p), UNCHANGED <<boxes, answers>>
  PROVE  DockerInv'
  BY BootOnly DEF Forget, NotBooting, Steps, Boxes

LEMMA StopDocker ==
  ASSUME DockerInv, NEW b \in Boxes, StopContainer(b)
  PROVE  DockerInv'
  <1> DEFINE c == [boxes[b] EXCEPT !.state = "stopped"]
  <1>0. c = [state |-> "stopped", image |-> boxes[b].image, gpu |-> boxes[b].gpu]
    BY DEF DockerInv, TypeBoxes
  <1>1. /\ DOMAIN boxes' = Boxes
        /\ \A d \in Boxes : boxes'[d] = IF d = b THEN c ELSE boxes[d]
    BY DEF StopContainer, DockerInv, TypeBoxes
  <1>2. ASSUME NEW p \in Procs
        PROVE  boot'[p] = [step |-> boot[p].step, box |-> boot[p].box, image |-> boot[p].image,
                           setting |-> boot[p].setting,
                           seen |-> boot[p].seen /\ boot[p].box # b]
    <2>1. /\ boot[p] = [step |-> boot[p].step, box |-> boot[p].box, image |-> boot[p].image,
                        setting |-> boot[p].setting, seen |-> boot[p].seen]
          /\ boot[p].seen \in BOOLEAN
      BY DEF DockerInv, TypeBoxes
    <2>2. boot'[p] = IF boot[p].box = b THEN [boot[p] EXCEPT !.seen = FALSE] ELSE boot[p]
      BY DEF StopContainer
    <2>3. CASE boot[p].box = b
      <3>1. (boot[p].seen /\ boot[p].box # b) = FALSE
        BY <2>3
      <3> QED
        BY <2>1, <2>2, <2>3, <3>1
    <2>4. CASE boot[p].box # b
      <3>1. (boot[p].seen /\ boot[p].box # b) = boot[p].seen
        BY <2>1, <2>4
      <3> QED
        BY <2>1, <2>2, <2>4, <3>1
    <2> QED
      BY <2>3, <2>4
  <1>3. DOMAIN boot' = Procs /\ answers' = answers \ {b}
    BY DEF StopContainer
  <1>7. ASSUME NEW p \in Procs
        PROVE  /\ boot'[p] = [step |-> boot'[p].step, box |-> boot'[p].box,
                              image |-> boot'[p].image, setting |-> boot'[p].setting,
                              seen |-> boot'[p].seen]
               /\ boot'[p].step \in Steps /\ boot'[p].box = boot[p].box
               /\ boot'[p].seen <=> boot[p].seen /\ boot[p].box # b
               /\ boot'[p].seen \in BOOLEAN
    <2>1. boot[p].step \in Steps /\ boot[p].seen \in BOOLEAN
      BY DEF DockerInv, TypeBoxes
    <2> DEFINE v == boot[p].seen /\ boot[p].box # b
    <2>2. v \in BOOLEAN /\ (v <=> boot[p].seen /\ boot[p].box # b)
      OBVIOUS
    <2>3. boot'[p] = [step |-> boot[p].step, box |-> boot[p].box, image |-> boot[p].image,
                      setting |-> boot[p].setting, seen |-> v]
      BY <1>2
    <2> HIDE DEF v
    <2>4. boot'[p].seen = v /\ boot'[p].step = boot[p].step /\ boot'[p].box = boot[p].box
          /\ boot'[p].image = boot[p].image /\ boot'[p].setting = boot[p].setting
      BY <2>3
    <2> QED
      BY <2>1, <2>2, <2>3, <2>4
  <1> HIDE DEF c
  <1>4. TypeBoxes'
    BY <1>0, <1>1, <1>3, <1>7 DEF DockerInv, TypeBoxes
  <1>5. OnePerPort'
    BY <1>0, <1>1 DEF DockerInv, OnePerPort, SamePort
  <1>6. SeenRuns'
    <2> SUFFICES ASSUME NEW p \in Procs, boot'[p].seen
                 PROVE  boxes'[boot'[p].box].state = "running"
      BY DEF SeenRuns
    <2>1. boot[p].seen /\ boot[p].box # b /\ boot'[p].box = boot[p].box
      BY <1>7
    <2>2. boot[p].box \in Boxes /\ boxes[boot[p].box].state = "running"
      BY <2>1 DEF DockerInv, TypeBoxes, SeenRuns
    <2> QED
      BY <1>1, <2>1, <2>2
  <1> QED
    BY <1>4, <1>5, <1>6 DEF DockerInv

LEMMA IndexerIsNotServer == Indexer # Server
  BY DEF Indexer, Server

\* What a process still has to see to is a container there is.
LEMMA NeedsBoxes ==
  ASSUME world \in Worlds, NEW p, NEW cfg \in world.configs, NEW need \in NextBox(p, cfg)
  PROVE  need[1] \in Boxes
  <1>1. UsesTeiContainer(cfg) => cfg.model \in TeiModels
    BY DeploymentAssumption DEF UsesTeiContainer, Family, Backend
  <1> QED
    BY <1>1 DEF NextBox, Boxes

LEMMA BootStepDocker ==
  ASSUME DockerInv, world \in Worlds, NEW p \in Procs, NEW cfg \in world.configs, BootStep(p, cfg)
  PROVE  DockerInv'
  <1>1. CASE Boot(p)
    BY <1>1, BootDocker
  <1>2. CASE \E need \in NextBox(p, cfg) : Ensure(p, need[1], need[2])
    BY <1>2, EnsureDocker, NeedsBoxes
  <1> QED
    BY <1>1, <1>2 DEF BootStep

\* A process ends, or its state alone moves on.
LEMMA EndsOrStays ==
  ASSUME DockerInv, IndexerEnds \/ (Forget(Server) /\ UNCHANGED <<boxes, answers, gpus>>)
                    \/ UNCHANGED dockerVars
  PROVE  DockerInv'
  <1>1. CASE UNCHANGED dockerVars
    BY <1>1 DEF dockerVars, DockerInv, TypeBoxes, OnePerPort, SeenRuns, SamePort
  <1>2. CASE ~UNCHANGED dockerVars
    BY <1>2, ForgetDocker, DeploymentAssumption DEF IndexerEnds
  <1> QED
    BY <1>1, <1>2

LEMMA NextDocker == TypeOK /\ DockerInv /\ [Next]_vars => DockerInv'
  <1> SUFFICES ASSUME TypeOK, DockerInv, [Next]_vars PROVE DockerInv'
    OBVIOUS
  <1>1. CASE IndexerBoots \/ ServerBoots
    BY <1>1, BootStepDocker, DeploymentAssumption DEF IndexerBoots, ServerBoots, TypeOK,
         TypeIndexer, TypeServer
  <1>2. CASE DockerWorld
    <2>1. ASSUME NEW b \in Boxes, BecomesHealthy(b) PROVE DockerInv'
      BY <2>1 DEF BecomesHealthy, DockerInv, TypeBoxes, OnePerPort, SeenRuns, SamePort
    <2>2. ASSUME NEW b \in TeiModels, StopContainer(b) PROVE DockerInv'
      BY <2>2, StopDocker DEF Boxes
    <2>3. ASSUME NEW g, NEW free, MemoryMoves(g, free) PROVE DockerInv'
      BY <2>3 DEF MemoryMoves, DockerInv, TypeBoxes, OnePerPort, SeenRuns, SamePort
    <2> QED
      BY <1>2, <2>1, <2>2, <2>3 DEF DockerWorld
  <1>3. CASE \/ \E cfg \in world.configs :
                 StartServer(cfg) \/ \E mode \in world.modes : StartIndexer(cfg, mode)
             \/ IndexerBooted \/ ClearCollection \/ ClearFiles \/ LoadManifest
             \/ RefuseDevice \/ Scan \/ PickDevice \/ LoadModel \/ CheckProvenance
    BY <1>3, EndsOrStays DEF StartServer, StartIndexer, IndexerBooted, ClearCollection, ClearFiles,
         LoadManifest, RefuseDevice, Scan, PickDevice, LoadModel, CheckProvenance, IndexerEnds
  <1>4. CASE \/ CreateCollection \/ WriteProvenance \/ NoEndpoint
             \/ (\E f \in Files : EmbedFile(f)) \/ Publish \/ KillIndexer
             \/ ServerBooted \/ BuildIndex \/ StopServer \/ GiveUp
    BY <1>4, EndsOrStays DEF CreateCollection, WriteProvenance, NoEndpoint, EmbedFile, Publish,
         KillIndexer, ServerBooted, BuildIndex, StopServer, GiveUp, IndexerEnds
  <1>5. CASE \/ \E f \in Files, v \in Versions : Edit(f, v)
             \/ \E s \in world.endpoints : SwapEndpoint(s)
             \/ UNCHANGED vars
    BY <1>5, EndsOrStays DEF Edit, SwapEndpoint, vars
  <1> QED
    BY <1>1, <1>2, <1>3, <1>4, <1>5 DEF Next, IndexerStep

----------------------------------------------------------------------------
(* Types: collections and manifests stay collections and manifests. *)

\* What embeds is a space some world has.
LEMMA SpaceIsKnown ==
  ASSUME world \in Worlds, endpoint \in world.endpoints, NEW cfg \in world.configs
  PROVE  SpaceNow(cfg) \in Spaces \cup {NoSpace}
  <1>1. CASE Backend(cfg) \in {"remote", "openai"}
    BY <1>1 DEF SpaceNow, Spaces
  <1>2. CASE Backend(cfg) = "tei"
    <2>1. cfg.model \in TeiModels
      BY <1>2, DeploymentAssumption
    <2>2. Behind(cfg.model) \subseteq TeiModels
      BY <2>1 DEF Behind, SamePort
    <2> QED
      BY <1>2, <2>2 DEF SpaceNow, Spaces
  <1>3. CASE Backend(cfg) \notin {"remote", "openai", "tei"}
    <2>1. cfg \in Configs
      BY DEF Configs
    <2> QED
      BY <1>3, <2>1 DEF SpaceNow, Spaces
  <1> QED
    BY <1>1, <1>2, <1>3

LEMMA FullIsRecord ==
  ASSUME world \in Worlds, NEW cfg \in world.configs, NEW space \in Spaces
  PROVE  FullRecord(cfg, space, world.metadata) \in Records
  <1>1. cfg \in Configs /\ world.metadata \in BOOLEAN
    BY DeploymentAssumption DEF Configs
  <1> QED
    BY <1>1 DEF FullRecord, Records

LEMMA NewIsRecord ==
  ASSUME world \in Worlds, endpoint \in world.endpoints, NEW cfg \in world.configs
  PROVE  NewRecord(cfg) \in Records
  BY SpaceIsKnown, FullIsRecord DEF NewRecord, FamilyRecord, Family, Records

LEMMA NewCollType ==
  ASSUME NEW space \in Spaces
  PROVE  NewColl(Dim(space)) \in Colls
  BY DEF NewColl, NoPoints, Colls, Records

LEMMA WriteCollType ==
  ASSUME NEW c \in Colls, NEW record \in Records, NEW doubt \in BOOLEAN
  PROVE  /\ [c EXCEPT !.record = record] \in Colls
         /\ [c EXCEPT !.record = record, !.doubt = doubt] \in Colls
  BY DEF Colls

LEMMA EmbedCollType ==
  ASSUME NEW c \in Colls, NEW f \in Files, NEW points \in SUBSET (Versions \X Spaces),
         NEW doubt \in BOOLEAN
  PROVE  [c EXCEPT !.points[f] = points, !.doubt = doubt] \in Colls
  BY DEF Colls

LEMMA NextTypeIndexer == TypeOK /\ [Next]_vars => TypeIndexer'
  <1> SUFFICES ASSUME TypeOK, [Next]_vars PROVE TypeIndexer'
    OBVIOUS
  <1> USE DEF TypeIndexer, IdleIndexer, Refreshing
  <1>w. TypeIndexer /\ world' = world
    BY DEF TypeOK, Next, IndexerStep, StartServer, StartIndexer, IndexerBoots, ServerBoots, BootStep,
       deployVars, IndexerBooted, ClearCollection, ClearFiles, LoadManifest, RefuseDevice, Scan,
       PickDevice, LoadModel, CheckProvenance, CreateCollection, WriteProvenance, NoEndpoint, EmbedFile,
       Publish, KillIndexer, ServerBooted, BuildIndex, StopServer, GiveUp, Edit, SwapEndpoint,
       DockerWorld, vars
  <1>1. CASE ix' = IdleIndexer
    BY <1>1, <1>w
  <1>2. CASE \/ \E cfg \in world.configs : \E mode \in world.modes : StartIndexer(cfg, mode)
             \/ IndexerBooted \/ ClearCollection \/ ClearFiles
    BY <1>2, <1>w, ZenonT(60) DEF StartIndexer, IndexerBooted, ClearCollection, ClearFiles
  <1>3. CASE LoadManifest
    BY <1>1, <1>3, <1>w DEF LoadManifest, IndexerEnds
  <1>4. CASE Scan
    BY <1>4, <1>w DEF Scan
  <1>10. CASE PickDevice
    BY <1>10, <1>w DEF PickDevice
  <1>11. CASE LoadModel
    BY <1>11, <1>w DEF LoadModel
  <1>5. CASE CheckProvenance
    BY <1>1, <1>5, <1>w, ZenonT(60) DEF CheckProvenance, IndexerEnds
  <1>6. CASE CreateCollection \/ WriteProvenance
    BY <1>6, <1>w DEF CreateCollection, WriteProvenance
  <1>7. CASE \E f \in Files : EmbedFile(f)
    BY <1>7, <1>w DEF EmbedFile
  <1>8. CASE DockerWorld
    BY <1>8, <1>w DEF DockerWorld, deployVars
  <1>9. CASE UNCHANGED ix
    BY <1>9, <1>w
  <1> QED
    BY <1>1, <1>2, <1>3, <1>4, <1>5, <1>6, <1>7, <1>8, <1>9, <1>10, <1>11
       DEF Next, IndexerStep, StartServer, IndexerBoots, ServerBoots, BootStep, deployVars, RefuseDevice,
           NoEndpoint, Publish, KillIndexer, IndexerEnds, ServerBooted, BuildIndex, StopServer, GiveUp,
           Edit, SwapEndpoint, vars

LEMMA NextTypeServer == TypeOK /\ [Next]_vars => TypeServer'
  <1> SUFFICES ASSUME TypeOK, [Next]_vars PROVE TypeServer'
    OBVIOUS
  <1> USE DEF TypeServer, IdleServer
  <1>w. TypeServer /\ world' = world
    BY DEF TypeOK, Next, IndexerStep, StartServer, StartIndexer, IndexerBoots, ServerBoots, BootStep,
       deployVars, IndexerBooted, ClearCollection, ClearFiles, LoadManifest, RefuseDevice, Scan,
       PickDevice, LoadModel, CheckProvenance, CreateCollection, WriteProvenance, NoEndpoint, EmbedFile,
       Publish, KillIndexer, ServerBooted, BuildIndex, StopServer, GiveUp, Edit, SwapEndpoint,
       DockerWorld, vars
  <1>1. CASE sv' = sv
    BY <1>1, <1>w
  <1>5. CASE sv' = IdleServer
    BY <1>5, <1>w
  <1>2. CASE \E cfg \in world.configs : StartServer(cfg)
    BY <1>2, <1>w DEF StartServer
  <1>3. CASE ServerBooted \/ ClearCollection
    BY <1>3, <1>w DEF ServerBooted, ClearCollection
  <1>4. CASE BuildIndex
    BY <1>4, <1>5, <1>w, ZenonT(60) DEF BuildIndex
  <1> QED
    BY <1>1, <1>2, <1>3, <1>4, <1>5
       DEF Next, IndexerStep, StartIndexer, IndexerBoots, ServerBoots, BootStep, deployVars,
           IndexerBooted, ClearFiles, LoadManifest, RefuseDevice, Scan, PickDevice, LoadModel,
           CheckProvenance, CreateCollection, WriteProvenance, NoEndpoint, EmbedFile, Publish,
           KillIndexer, StopServer, GiveUp, Edit, SwapEndpoint, DockerWorld, vars

\* What the three writes of a run make of the collection.
LEMMA WriteEffect ==
  ASSUME TypeOK, CollInv, WriteProvenance
  PROVE  /\ coll \in Colls /\ coll' \in Colls
         /\ coll'.record = NewRecord(ix.cfg)
         /\ coll'.points = coll.points /\ coll'.doubt = coll.doubt /\ coll'.dim = coll.dim
  <1> DEFINE record == NewRecord(ix.cfg)
  <1>1. record \in Records /\ coll \in Colls
    BY NewIsRecord DEF WriteProvenance, TypeOK, TypeIndexer, CollInv
  <1>2. coll' = [coll EXCEPT !.record = record]
    BY DEF WriteProvenance
  <1> HIDE DEF record
  <1>3. coll' \in Colls
    BY <1>1, <1>2, WriteCollType
  <1>4. coll'.record = record
    BY <1>1, <1>2 DEF Colls
  <1> QED
    BY <1>1, <1>2, <1>3, <1>4 DEF Colls, record

LEMMA EmbedEffect ==
  ASSUME TypeOK, CollInv, NEW f \in Files, EmbedFile(f)
  PROVE  LET space == SpaceNow(ix.cfg)
             fits == space # NoSpace /\ Dim(space) = coll.dim
         IN  /\ coll \in Colls /\ coll' \in Colls
             /\ manifest \in Manifests /\ manifest' \in Manifests
             /\ coll'.record = coll.record /\ coll'.dim = coll.dim
             /\ coll'.doubt <=> coll.doubt \/ (fits /\ (~ix.sure \/ Indexer \in swapped))
             /\ coll'.doubt \in BOOLEAN /\ coll.doubt \in BOOLEAN
             /\ coll'.points = [coll.points EXCEPT ![f] = IF fits THEN {<<tree[f], space>>} ELSE {}]
             /\ manifest' = [manifest EXCEPT ![f] = IF fits THEN tree[f] ELSE NoEntry]
  <1> DEFINE space == SpaceNow(ix.cfg)
             fits == space # NoSpace /\ Dim(space) = coll.dim
             points == IF fits THEN {<<tree[f], space>>} ELSE {}
             doubt == coll.doubt \/ (fits /\ (~ix.sure \/ Indexer \in swapped))
  <1>1. coll \in Colls /\ manifest \in Manifests
    BY DEF EmbedFile, TypeOK, CollInv, Refreshing
  <1>2. points \in SUBSET (Versions \X Spaces)
    BY SpaceIsKnown DEF EmbedFile, TypeOK, TypeIndexer
  <1>3. doubt \in BOOLEAN /\ coll.doubt \in BOOLEAN
    BY <1>1 DEF Colls
  <1>4. coll' = [coll EXCEPT !.points[f] = points, !.doubt = doubt]
    BY <1>1 DEF EmbedFile, Colls
  <1>5. manifest' \in Manifests /\ manifest' = [manifest EXCEPT ![f] = IF fits THEN tree[f] ELSE NoEntry]
    BY <1>1 DEF EmbedFile, TypeOK, Manifests
  <1>d. doubt <=> coll.doubt \/ (fits /\ (~ix.sure \/ Indexer \in swapped))
    OBVIOUS
  <1> HIDE DEF points, doubt
  <1>6. coll' \in Colls
    BY <1>1, <1>2, <1>3, <1>4, EmbedCollType
  <1>7. /\ coll'.record = coll.record /\ coll'.dim = coll.dim /\ coll'.doubt = doubt
        /\ coll'.points = [coll.points EXCEPT ![f] = points]
    BY <1>1, <1>4 DEF Colls
  <1> QED
    BY <1>1, <1>3, <1>5, <1>6, <1>7, <1>d DEF points

LEMMA PublishEffect ==
  ASSUME TypeOK, Publish, coll # NoColl, ~UNCHANGED coll
  PROVE  /\ coll \in Colls /\ coll' \in Colls
         /\ SpaceNow(ix.cfg) # NoSpace
         /\ coll'.record.kind = "full" /\ coll'.record.space = SpaceNow(ix.cfg)
         /\ coll'.doubt <=> coll.doubt \/ coll.record.kind = "full"
         /\ coll'.points = coll.points
  <1> DEFINE live == SpaceNow(ix.cfg)
             record == FullRecord(ix.cfg, live, world.metadata)
             doubt == coll.doubt \/ coll.record.kind = "full"
  <1>1. coll \in Colls /\ live \in Spaces \cup {NoSpace} /\ ix.cfg \in world.configs
    BY SpaceIsKnown DEF Publish, TypeOK, TypeIndexer
  <1>2. doubt \in BOOLEAN /\ (doubt <=> coll.doubt \/ coll.record.kind = "full")
    BY <1>1 DEF Colls
  <1>3. live # NoSpace /\ coll' = [coll EXCEPT !.record = record, !.doubt = doubt]
    BY DEF Publish
  <1>4. record \in Records /\ record.kind = "full" /\ record.space = live
    <2>1. record.kind = "full" /\ record.space = live
      BY DEF FullRecord
    <2> QED
      BY <1>1, <1>3, <2>1, FullIsRecord DEF TypeOK
  <1> HIDE DEF record, doubt
  <1>5. coll' \in Colls
    BY <1>1, <1>2, <1>3, <1>4, WriteCollType
  <1>6. coll'.record = record /\ coll'.doubt = doubt /\ coll'.points = coll.points
    BY <1>1, <1>3 DEF Colls
  <1> QED
    BY <1>1, <1>2, <1>3, <1>4, <1>5, <1>6

LEMMA NextType == TypeOK /\ DockerInv /\ CollInv /\ [Next]_vars => TypeOK'
  <1> SUFFICES ASSUME TypeOK, CollInv, [Next]_vars, TypeBoxes', TypeIndexer', TypeServer'
               PROVE  TypeOK'
    BY NextDocker, NextTypeIndexer, NextTypeServer DEF DockerInv
  <1>p. Indexer \in Procs /\ Server \in Procs
    BY DeploymentAssumption
  <1>1. CASE \/ \E cfg \in world.configs :
                 StartServer(cfg) \/ \E mode \in world.modes : StartIndexer(cfg, mode)
             \/ IndexerBoots \/ IndexerBooted \/ RefuseDevice \/ Scan \/ PickDevice \/ LoadModel
             \/ NoEndpoint \/ ServerBoots \/ ServerBooted \/ StopServer \/ GiveUp \/ UNCHANGED vars
    BY <1>1 DEF TypeOK, StartServer, StartIndexer, IndexerBoots, BootStep, deployVars, IndexerBooted,
         RefuseDevice, Scan, PickDevice, LoadModel, NoEndpoint, ServerBoots, ServerBooted, StopServer,
         GiveUp, vars
  <1>2. CASE ClearCollection \/ ClearFiles \/ KillIndexer
    BY <1>2 DEF TypeOK, ClearCollection, ClearFiles, KillIndexer
  <1>4. CASE LoadManifest
    <2>1. Regenerated \subseteq Manifests
      BY DEF Regenerated, Manifests, TypeOK
    <2> QED
      BY <1>4, <2>1 DEF LoadManifest, TypeOK
  <1>5. CASE CheckProvenance
    BY <1>5 DEF TypeOK, CheckProvenance
  <1>6. CASE CreateCollection
    <2>1. NewColl(Dim(SpaceNow(ix.cfg))) \in Colls
      BY <1>6, SpaceIsKnown, NewCollType DEF CreateCollection, TypeOK, TypeIndexer
    <2> QED
      BY <1>6, <2>1 DEF TypeOK, CreateCollection
  <1>7. CASE WriteProvenance
    BY <1>7, <1>p, WriteEffect DEF TypeOK, WriteProvenance
  <1>8. ASSUME NEW f \in Files, EmbedFile(f) PROVE TypeOK'
    BY <1>8, EmbedEffect DEF TypeOK, EmbedFile
  <1>9. CASE Publish
    BY <1>9, PublishEffect DEF TypeOK, Publish
  <1>10. CASE BuildIndex
    BY <1>10 DEF TypeOK, BuildIndex
  <1>11. CASE \/ \E f \in Files, v \in Versions : Edit(f, v)
              \/ \E s \in world.endpoints : SwapEndpoint(s)
              \/ DockerWorld
    BY <1>11 DEF TypeOK, Edit, SwapEndpoint, DockerWorld, deployVars
  <1> QED
    BY <1>1, <1>2, <1>4, <1>5, <1>6, <1>7, <1>8, <1>9, <1>10, <1>11 DEF Next, IndexerStep

----------------------------------------------------------------------------
(* Points without a full record leave doubt. *)

LEMMA NextColl == TypeOK /\ CollInv /\ IndexerInv /\ [Next]_vars => CollInv'
  <1> SUFFICES ASSUME TypeOK, CollInv, IndexerInv, [Next]_vars PROVE CollInv'
    OBVIOUS
  <1> USE DEF TypeIndexer, TypeServer, IdleIndexer, IdleServer, Refreshing
  <1>t. TypeIndexer /\ TypeServer
    BY DEF TypeOK
  <1>c. NoColl \notin Colls /\ NoManifest \notin Manifests
    BY DeploymentAssumption
  <1>1. ASSUME UNCHANGED <<coll, manifest, sv>>, ix'.pc = ix.pc \/ ix'.pc \in {"off", "boot"}
        PROVE  CollInv'
    BY <1>1 DEF CollInv, Full
  <1>2. ASSUME UNCHANGED <<coll, manifest, ix>>, ~sv'.same \/ sv'.same = sv.same \/ coll # NoColl
        PROVE  CollInv'
    BY <1>2 DEF CollInv, Full
  <1>3. CASE \/ \E cfg \in world.configs : \E mode \in world.modes : StartIndexer(cfg, mode)
             \/ IndexerBoots \/ RefuseDevice \/ NoEndpoint \/ KillIndexer
             \/ (GiveUp /\ UNCHANGED sv)
    <2>1. UNCHANGED <<coll, manifest, sv>>
      BY <1>3 DEF StartIndexer, IndexerBoots, BootStep, deployVars, RefuseDevice, NoEndpoint,
         KillIndexer, GiveUp
    <2>2. CASE \E cfg \in world.configs : \E mode \in world.modes : StartIndexer(cfg, mode)
      BY <1>1, <2>1, <2>2, <1>t DEF StartIndexer
    <2>3. CASE ix' = ix \/ ix' = IdleIndexer
      BY <1>1, <2>1, <2>3
    <2> QED
      BY <1>3, <2>2, <2>3 DEF IndexerBoots, BootStep, deployVars, RefuseDevice, NoEndpoint,
         KillIndexer, GiveUp, IndexerEnds
  <1>4. CASE DockerWorld \/ (\E f \in Files, v \in Versions : Edit(f, v))
             \/ (\E s \in world.endpoints : SwapEndpoint(s)) \/ UNCHANGED vars
    BY <1>1, <1>4, <1>t DEF DockerWorld, deployVars, Edit, SwapEndpoint, vars
  <1>5. CASE \/ \E cfg \in world.configs : StartServer(cfg)
             \/ ServerBoots \/ ServerBooted \/ StopServer \/ (GiveUp /\ UNCHANGED ix)
    <2>1. UNCHANGED <<coll, manifest, ix>>
      BY <1>5 DEF StartServer, ServerBoots, BootStep, deployVars, ServerBooted, StopServer, GiveUp
    <2>2. CASE \/ \E cfg \in world.configs : StartServer(cfg)
               \/ ServerBooted
      BY <1>2, <2>1, <2>2, <1>t DEF StartServer, ServerBooted
    <2>3. CASE sv' = sv \/ sv' = IdleServer
      BY <1>2, <2>1, <2>3
    <2> QED
      BY <1>5, <2>2, <2>3 DEF ServerBoots, BootStep, deployVars, StopServer, GiveUp
  <1>6. CASE BuildIndex
    <2>1. ~sv'.same \/ coll # NoColl
      BY <1>6, <1>t DEF BuildIndex
    <2> QED
      BY <1>2, <1>6, <2>1 DEF BuildIndex
  <1>7. CASE IndexerBooted \/ ClearFiles
    BY <1>7, <1>t DEF CollInv, Full, IndexerBooted, ClearFiles
  <1>8. CASE ClearCollection
    <2>1. ix'.pc = "clear files" /\ (coll' = NoColl => ~sv'.same)
      BY <1>8, <1>t DEF ClearCollection, CollInv
    <2>2. coll' = NoColl \/ UNCHANGED <<coll, sv>>
      BY <1>8 DEF ClearCollection
    <2> QED
      BY <2>1, <2>2 DEF CollInv, Full
  <1>9. CASE LoadManifest
    <2>1. Regenerated \subseteq Manifests
      BY ZenonT(60) DEF TypeOK, Regenerated, Manifests
    <2>2. ix'.pc = "off" \/ (ix'.pc = "scan" /\ manifest' # NoManifest)
      BY <1>9, <1>c, <1>t, <2>1 DEF LoadManifest, IndexerEnds
    <2> QED
      BY <1>9, <2>2 DEF LoadManifest, CollInv, Full
  <1>10. CASE Scan \/ PickDevice \/ LoadModel
    <2>1. ix.pc \in Refreshing /\ ix'.pc \in {"publish", "device", "model", "open"}
      <3>1. CASE Scan
        BY <1>t, <3>1 DEF Scan
      <3>2. CASE PickDevice
        BY <1>t, <3>2 DEF PickDevice
      <3>3. CASE LoadModel
        BY <1>t, <3>3 DEF LoadModel
      <3> QED
        BY <1>10, <3>1, <3>2, <3>3
    <2> QED
      BY <1>10, <2>1 DEF Scan, PickDevice, LoadModel, CollInv, Full
  <1>11. CASE CheckProvenance
    <2>1. ix.pc = "open" /\ coll # NoColl /\ ix'.pc \in {"embed", "off"}
      <3>1. CASE ix' = IdleIndexer
        BY <1>11, <3>1 DEF CheckProvenance
      <3>2. CASE ix' # IdleIndexer
        <4>1. PICK stored \in Reads(coll.record) :
                ix' = [ix EXCEPT !.pc = "embed",
                                 !.sure = stored.kind = "full" /\ stored.space # NoSpace]
          BY <1>11, <3>2 DEF CheckProvenance, IndexerEnds
        <4> QED
          BY <1>11, <1>t, <4>1 DEF CheckProvenance
      <3> QED
        BY <3>1, <3>2
    <2> QED
      BY <1>11, <2>1 DEF CheckProvenance, CollInv, Full
  <1>12. CASE CreateCollection
    <2>1. NewColl(Dim(SpaceNow(ix.cfg))) \in Colls
      BY <1>12, SpaceIsKnown, NewCollType DEF CreateCollection, TypeOK
    <2>2. coll' # NoColl /\ coll'.record = NoRecord /\ coll'.points = NoPoints /\ ix.pc = "open"
          /\ ix'.pc = "record"
      BY <1>12, <1>c, <1>t, <2>1 DEF CreateCollection, NewColl
    <2> QED
      BY <1>12, <2>2 DEF CreateCollection, CollInv
  <1>13. CASE WriteProvenance
    <2>1. coll' # NoColl /\ coll'.points = NoPoints /\ ix.pc = "record" /\ ix'.pc = "embed"
      BY <1>13, <1>c, <1>t, WriteEffect DEF WriteProvenance, CollInv
    <2> QED
      BY <1>13, <2>1 DEF WriteProvenance, CollInv
  <1>14. ASSUME NEW f \in Files, EmbedFile(f) PROVE CollInv'
    <2>1. /\ coll # NoColl /\ coll' # NoColl /\ manifest' # NoManifest
          /\ coll'.record = coll.record
      BY <1>14, <1>c, EmbedEffect
    <2>2. ix.pc = "embed" /\ ix'.pc \in {"publish", "embed"} /\ UNCHANGED sv
      BY <1>14, <1>t DEF EmbedFile
    <2>3. ASSUME ~Full(coll)', ~coll'.doubt PROVE coll'.points = NoPoints
      <3>1. ~Full(coll)
        BY <2>1, <2>3 DEF Full
      <3> DEFINE space == SpaceNow(ix.cfg)
                 fits == space # NoSpace /\ Dim(space) = coll.dim
      <3>2. ~coll.doubt /\ ~(fits /\ (~ix.sure \/ Indexer \in swapped))
        BY <1>14, <2>3, EmbedEffect
      <3>3. ~fits
        BY <2>2, <3>1, <3>2 DEF IndexerInv
      <3>4. coll'.points = [coll.points EXCEPT ![f] = {}]
        BY <1>14, <3>3, EmbedEffect
      <3>5. coll.points = NoPoints
        BY <2>1, <3>1, <3>2 DEF CollInv
      <3> QED
        BY <3>4, <3>5 DEF NoPoints
    <2> QED
      BY <2>1, <2>2, <2>3 DEF CollInv
  <1>15. CASE Publish
    <2>1. ix'.pc = "off" /\ UNCHANGED <<manifest, sv>>
      BY <1>15 DEF Publish, IndexerEnds
    <2>2. CASE UNCHANGED coll
      BY <1>1, <2>1, <2>2
    <2>3. CASE ~UNCHANGED coll
      <3>1. coll # NoColl
        BY <1>15, <2>3 DEF Publish
      <3>2. coll' # NoColl /\ coll'.record.kind = "full"
        BY <1>15, <1>c, <2>3, <3>1, PublishEffect
      <3> QED
        BY <2>1, <3>1, <3>2 DEF CollInv, Full
    <2> QED
      BY <2>2, <2>3
  <1> QED
    BY <1>3, <1>4, <1>5, <1>6, <1>7, <1>8, <1>9, <1>10, <1>11, <1>12, <1>13, <1>14, <1>15
       DEF Next, IndexerStep, GiveUp

----------------------------------------------------------------------------
(* A process that compared itself with a fingerprint still embeds in the     *)
(* recorded space, unless an endpoint changed under it.                      *)

\* A start never stops a container.
LEMMA BootGrows ==
  ASSUME DockerInv, NEW p \in Procs, NEW cfg, BootStep(p, cfg)
  PROVE  /\ answers' = answers
         /\ \A b \in Boxes : boxes[b].state = "running" => boxes'[b].state = "running"
  <1> USE DEF DockerInv, TypeBoxes
  <1>1. CASE UNCHANGED <<boxes, answers>>
    BY <1>1
  <1>2. CASE StartContainer(p)
    BY <1>2 DEF StartContainer
  <1>3. CASE RunContainer(p)
    BY <1>3 DEF RunContainer
  <1> QED
    BY <1>1, <1>2, <1>3 DEF BootStep, Boot, Ensure, LookForStopped, PickImage, WaitHealthy, DockerFails

\* A step after which some process is not marked as swapped stops no container
\* and leaves the remote endpoint as it is.
LEMMA NothingStops ==
  ASSUME TypeOK, DockerInv, [Next]_vars, NEW p \in Procs, p \notin swapped'
  PROVE  /\ UNCHANGED <<world, endpoint>> /\ answers \subseteq answers'
         /\ \A b \in Boxes : boxes[b].state = "running" => boxes'[b].state = "running"
  <1>1. CASE IndexerBoots \/ ServerBoots
    BY <1>1, BootGrows, DeploymentAssumption DEF IndexerBoots, ServerBoots, BootStep, deployVars
  <1>2. CASE DockerWorld
    BY <1>2 DEF DockerWorld, BecomesHealthy, MemoryMoves, deployVars
  <1>3. CASE \E s \in world.endpoints : SwapEndpoint(s)
    BY <1>3 DEF SwapEndpoint
  <1>4. CASE UNCHANGED <<world, endpoint, boxes, answers>>
    BY <1>4
  <1>5. CASE \/ \E cfg \in world.configs :
                 StartServer(cfg) \/ \E mode \in world.modes : StartIndexer(cfg, mode)
             \/ IndexerBooted \/ ClearCollection \/ ClearFiles \/ LoadManifest
             \/ RefuseDevice \/ Scan \/ PickDevice \/ LoadModel \/ CheckProvenance
             \/ CreateCollection \/ WriteProvenance
    BY <1>4, <1>5 DEF StartServer, StartIndexer, IndexerBooted, ClearCollection, ClearFiles,
         LoadManifest, RefuseDevice, Scan, PickDevice, LoadModel, CheckProvenance, CreateCollection,
         WriteProvenance, IndexerEnds, dockerVars
  <1>6. CASE \/ NoEndpoint \/ (\E f \in Files : EmbedFile(f)) \/ Publish \/ KillIndexer
             \/ ServerBooted \/ BuildIndex \/ StopServer \/ GiveUp
             \/ (\E f \in Files, v \in Versions : Edit(f, v)) \/ UNCHANGED vars
    BY <1>4, <1>6 DEF NoEndpoint, EmbedFile, Publish, KillIndexer, ServerBooted, BuildIndex,
         StopServer, GiveUp, Edit, IndexerEnds, dockerVars, vars, deployVars
  <1> QED
    BY <1>1, <1>2, <1>3, <1>5, <1>6 DEF Next, IndexerStep

LEMMA SpaceStays ==
  ASSUME TypeOK, DockerInv, DockerInv', NEW cfg \in world.configs,
         UNCHANGED <<world, endpoint>>, answers \subseteq answers',
         \A b \in Boxes : boxes[b].state = "running" => boxes'[b].state = "running",
         SpaceNow(cfg) # NoSpace
  PROVE  SpaceNow(cfg)' = SpaceNow(cfg)
  <1>1. CASE Backend(cfg) # "tei"
    BY <1>1 DEF SpaceNow
  <1>2. CASE Backend(cfg) = "tei"
    <2>1. cfg.model \in TeiModels /\ TeiModels \subseteq Boxes
      BY <1>2, DeploymentAssumption DEF TypeOK, Boxes
    <2> DEFINE up == Behind(cfg.model) \cap answers
    <2>2. PICK b \in up : TRUE
      BY <1>2 DEF SpaceNow
    <2>3. \A c, d \in Boxes : SamePort(cfg.model, c) /\ SamePort(cfg.model, d) => SamePort(c, d)
      BY <2>1 DEF SamePort
    <2>4. \A c, d \in Behind(cfg.model)' : c = d
      BY <2>3 DEF Behind, DockerInv, OnePerPort
    <2>5. b \in Behind(cfg.model)' /\ b \in answers'
      BY <2>2 DEF Behind, SamePort
    <2>6. Behind(cfg.model) \subseteq Behind(cfg.model)'
      BY DEF Behind, SamePort
    <2>7. up = {b} /\ up' = {b}
      BY <2>2, <2>4, <2>5, <2>6
    <2> QED
      BY <1>2, <2>7 DEF SpaceNow
  <1> QED
    BY <1>1, <1>2

\* What a process compared when it read a full record with a fingerprint.
LEMMA ComparedFingerprint ==
  ASSUME NEW record, NEW stored \in Reads(record), NEW cfg, NEW live, NEW dim,
         Verifies(stored, cfg, live, dim), stored.kind = "full", stored.space # NoSpace
  PROVE  record.kind = "full" /\ record.space = live /\ live # NoSpace
  <1>1. stored = record \/ stored = [record EXCEPT !.space = NoSpace] \/ stored = NoRecord
    BY DEF Reads, ReadProvenance
  <1>2. stored # NoRecord
    BY DEF NoRecord
  <1>3. stored = record
    <2>1. CASE stored = [record EXCEPT !.space = NoSpace]
      BY <2>1
    <2> QED
      BY <1>1, <1>2, <2>1
  <1> QED
    BY <1>3 DEF Verifies

LEMMA NextIndexerInv ==
  TypeOK /\ DockerInv /\ CollInv /\ IndexerInv /\ [Next]_vars => IndexerInv'
  <1> SUFFICES ASSUME TypeOK, DockerInv, DockerInv', CollInv, IndexerInv, [Next]_vars,
                      ix'.pc = "embed", ix'.sure, Indexer \notin swapped'
               PROVE  (Full(coll) /\ coll.record.space = SpaceNow(ix.cfg) /\ SpaceNow(ix.cfg) # NoSpace)'
    BY NextDocker DEF IndexerInv
  <1> USE DEF TypeIndexer, IdleIndexer
  <1>t. TypeIndexer /\ world \in Worlds
    BY DEF TypeOK
  <1>c. NoColl \notin Colls /\ Indexer \in Procs /\ Indexer # Server
    BY DeploymentAssumption, IndexerIsNotServer
  <1>s. /\ UNCHANGED <<world, endpoint>> /\ answers \subseteq answers'
        /\ \A b \in Boxes : boxes[b].state = "running" => boxes'[b].state = "running"
    BY <1>c, NothingStops
  <1>1. ASSUME coll' = coll \/ (coll # NoColl /\ coll' # NoColl /\ coll'.record = coll.record),
               ix.pc = "embed", ix'.sure = ix.sure, ix'.cfg = ix.cfg, swapped \subseteq swapped' \cup {Server}
        PROVE  (Full(coll) /\ coll.record.space = SpaceNow(ix.cfg) /\ SpaceNow(ix.cfg) # NoSpace)'
    <2>1. Full(coll) /\ coll.record.space = SpaceNow(ix.cfg) /\ SpaceNow(ix.cfg) # NoSpace
      BY <1>1, <1>c DEF IndexerInv
    <2> DEFINE c == ix.cfg
    <2>2. c \in world.configs
      BY <1>1, <1>t
    <2>3. SpaceNow(ix.cfg)' = SpaceNow(ix.cfg)
      BY <1>1, <1>s, <2>1, <2>2, SpaceStays
    <2> QED
      BY <1>1, <2>1, <2>3 DEF Full
  <1>2. CASE CheckProvenance
    <2>1. ix' # IdleIndexer
      OBVIOUS
    <2>2. PICK stored \in Reads(coll.record) :
            /\ MayIndex(stored, ix.cfg, SpaceNow(ix.cfg), coll.dim)
            /\ ix' = [ix EXCEPT !.pc = "embed",
                                !.sure = stored.kind = "full" /\ stored.space # NoSpace]
            /\ UNCHANGED dockerVars
      BY <1>2, <2>1 DEF CheckProvenance, IndexerEnds
    <2>3. stored.kind = "full" /\ stored.space # NoSpace /\ ix'.cfg = ix.cfg
      BY <1>t, <2>2
    <2>4. Verifies(stored, ix.cfg, SpaceNow(ix.cfg), coll.dim)
      BY <2>2, <2>3 DEF MayIndex
    <2>5. coll.record.kind = "full" /\ coll.record.space = SpaceNow(ix.cfg) /\ SpaceNow(ix.cfg) # NoSpace
      BY <2>3, <2>4, ComparedFingerprint
    <2>6. SpaceNow(ix.cfg)' = SpaceNow(ix.cfg)
      BY <1>s, <2>2, <2>3 DEF SpaceNow, Behind, dockerVars
    <2> QED
      BY <1>2, <2>5, <2>6 DEF CheckProvenance, Full
  <1>3. CASE WriteProvenance
    <2>1. NewRecord(ix.cfg).kind = "full" /\ ix'.cfg = ix.cfg
      BY <1>3, <1>t DEF WriteProvenance
    <2>2. SpaceNow(ix.cfg) # NoSpace /\ NewRecord(ix.cfg).space = SpaceNow(ix.cfg)
      BY <2>1 DEF NewRecord, FamilyRecord, FullRecord
    <2>3. SpaceNow(ix.cfg)' = SpaceNow(ix.cfg)
      BY <1>3, <1>s, <2>1 DEF WriteProvenance, SpaceNow, Behind, dockerVars
    <2>4. coll' # NoColl /\ coll'.record = NewRecord(ix.cfg)
      BY <1>3, <1>c, WriteEffect
    <2> QED
      BY <2>1, <2>2, <2>3, <2>4 DEF Full
  <1>4. ASSUME NEW f \in Files, EmbedFile(f)
        PROVE  (Full(coll) /\ coll.record.space = SpaceNow(ix.cfg) /\ SpaceNow(ix.cfg) # NoSpace)'
    <2>1. coll # NoColl /\ coll' # NoColl /\ coll'.record = coll.record
      BY <1>4, <1>c, EmbedEffect
    <2>2. ix.pc = "embed" /\ ix'.sure = ix.sure /\ ix'.cfg = ix.cfg /\ swapped' = swapped
      BY <1>4, <1>t DEF EmbedFile
    <2> QED
      BY <1>1, <2>1, <2>2
  <1>5. CASE UNCHANGED <<ix, coll>> /\ swapped \subseteq swapped' \cup {Server}
    BY <1>1, <1>5
  <1>6. CASE DockerWorld
    <2>1. coll' = coll /\ ix'.pc = ix.pc /\ ix'.sure = ix.sure /\ ix'.cfg = ix.cfg
      BY <1>6, <1>t DEF DockerWorld, deployVars
    <2>2. swapped' = swapped \/ swapped' = Procs
      BY <1>6 DEF DockerWorld, deployVars
    <2> QED
      BY <1>1, <1>c, <2>1, <2>2
  <1>7. CASE (\E s \in world.endpoints : SwapEndpoint(s))
    BY <1>7, <1>c DEF SwapEndpoint
  <1>8. CASE \/ \E cfg \in world.configs : StartServer(cfg)
             \/ IndexerBoots \/ ServerBoots \/ ServerBooted \/ BuildIndex \/ StopServer
             \/ (GiveUp /\ UNCHANGED ix)
             \/ (\E f \in Files, v \in Versions : Edit(f, v)) \/ UNCHANGED vars
    BY <1>5, <1>8 DEF StartServer, IndexerBoots, ServerBoots, BootStep, deployVars, ServerBooted,
         BuildIndex, StopServer, GiveUp, Edit, vars
  <1>9. CASE ix' = IdleIndexer
    BY <1>9
  <1>10. CASE \/ \E cfg \in world.configs : \E mode \in world.modes : StartIndexer(cfg, mode)
              \/ IndexerBooted \/ ClearCollection \/ ClearFiles \/ Scan
    BY <1>10, <1>t, ZenonT(60) DEF StartIndexer, IndexerBooted, ClearCollection, ClearFiles, Scan
  <1>11. CASE PickDevice \/ LoadModel \/ CreateCollection \/ LoadManifest
    <2>1. CASE PickDevice
      BY <1>t, <2>1 DEF PickDevice
    <2>2. CASE LoadModel
      BY <1>t, <2>2 DEF LoadModel
    <2>3. CASE CreateCollection
      BY <1>t, <2>3 DEF CreateCollection
    <2>4. CASE LoadManifest
      BY <1>t, <1>9, <2>4 DEF LoadManifest, IndexerEnds
    <2> QED
      BY <1>11, <2>1, <2>2, <2>3, <2>4
  <1> QED
    BY <1>2, <1>3, <1>4, <1>6, <1>7, <1>8, <1>9, <1>10, <1>11
       DEF Next, IndexerStep, RefuseDevice, NoEndpoint, Publish, KillIndexer, GiveUp, IndexerEnds

LEMMA NextServerInv ==
  TypeOK /\ DockerInv /\ CollInv /\ ServerInv /\ [Next]_vars => ServerInv'
  <1> SUFFICES ASSUME TypeOK, DockerInv, DockerInv', CollInv, ServerInv, [Next]_vars,
                      sv'.pc = "serving", sv'.checked, sv'.same, Server \notin swapped', ~coll'.doubt
               PROVE  (Full(coll) /\ coll.record.space = SpaceNow(sv.cfg) /\ SpaceNow(sv.cfg) # NoSpace)'
    BY NextDocker DEF ServerInv
  <1> USE DEF TypeServer, IdleServer
  <1>t. TypeServer /\ world \in Worlds
    BY DEF TypeOK
  <1>c. NoColl \notin Colls /\ Server \in Procs /\ Indexer # Server
    BY DeploymentAssumption, IndexerIsNotServer
  <1>s. /\ UNCHANGED <<world, endpoint>> /\ answers \subseteq answers'
        /\ \A b \in Boxes : boxes[b].state = "running" => boxes'[b].state = "running"
    BY <1>c, NothingStops
  <1>1. ASSUME sv' = sv, swapped \subseteq swapped' \cup {Indexer},
               \/ coll' = coll
               \/ /\ coll # NoColl /\ coll' # NoColl /\ ~coll.doubt
                  /\ coll.record.kind = "full" => coll'.record = coll.record
        PROVE  (Full(coll) /\ coll.record.space = SpaceNow(sv.cfg) /\ SpaceNow(sv.cfg) # NoSpace)'
    <2>1. Full(coll) /\ coll.record.space = SpaceNow(sv.cfg) /\ SpaceNow(sv.cfg) # NoSpace
      BY <1>1, <1>c DEF ServerInv
    <2>2. sv.cfg \in world.configs
      BY <1>1, <1>t
    <2>3. SpaceNow(sv.cfg)' = SpaceNow(sv.cfg)
      BY <1>1, <1>s, <2>1, <2>2, SpaceStays
    <2> QED
      BY <1>1, <2>1, <2>3 DEF Full
  <1>2. CASE BuildIndex
    <2>1. sv' # IdleServer
      OBVIOUS
    <2>2. PICK stored \in (IF coll = NoColl THEN {NoRecord} ELSE Reads(coll.record)) :
            /\ coll = NoColl \/ MayServe(stored, sv.cfg, SpaceNow(sv.cfg), coll.dim)
            /\ sv' = [sv EXCEPT !.pc = "serving", !.same = coll # NoColl,
                                !.checked = stored.kind = "full" /\ stored.space # NoSpace]
            /\ UNCHANGED dockerVars
      BY <1>2, <2>1 DEF BuildIndex
    <2>3. stored.kind = "full" /\ stored.space # NoSpace /\ coll # NoColl /\ sv'.cfg = sv.cfg
      BY <1>t, <2>2
    <2>4. Verifies(stored, sv.cfg, SpaceNow(sv.cfg), coll.dim) /\ stored \in Reads(coll.record)
      BY <2>2, <2>3 DEF MayServe
    <2>5. coll.record.kind = "full" /\ coll.record.space = SpaceNow(sv.cfg) /\ SpaceNow(sv.cfg) # NoSpace
      BY <2>3, <2>4, ComparedFingerprint
    <2>6. SpaceNow(sv.cfg)' = SpaceNow(sv.cfg)
      BY <1>s, <2>2, <2>3 DEF SpaceNow, Behind, dockerVars
    <2> QED
      BY <1>2, <2>3, <2>5, <2>6 DEF BuildIndex, Full
  <1>3. CASE CreateCollection
    BY <1>3, <1>c DEF CreateCollection, CollInv
  <1>4. CASE ClearCollection
    <2>1. UNCHANGED <<coll, sv, swapped>>
      BY <1>4, <1>t DEF ClearCollection
    <2> QED
      BY <1>1, <2>1
  <1>5. CASE WriteProvenance
    <2>1. coll # NoColl /\ coll' # NoColl /\ ~coll.doubt
      BY <1>5, <1>c, WriteEffect
    <2>2. coll.record = NoRecord
      BY <1>5 DEF WriteProvenance, CollInv
    <2> QED
      BY <1>1, <1>5, <2>1, <2>2 DEF WriteProvenance, NoRecord
  <1>6. ASSUME NEW f \in Files, EmbedFile(f)
        PROVE  (Full(coll) /\ coll.record.space = SpaceNow(sv.cfg) /\ SpaceNow(sv.cfg) # NoSpace)'
    <2>1. coll # NoColl /\ coll' # NoColl /\ coll'.record = coll.record /\ ~coll.doubt
      BY <1>6, <1>c, EmbedEffect
    <2> QED
      BY <1>1, <1>6, <2>1 DEF EmbedFile
  <1>7. CASE Publish
    <2>1. CASE UNCHANGED coll
      BY <1>1, <1>7, <2>1 DEF Publish
    <2>2. CASE ~UNCHANGED coll
      <3>1. coll # NoColl
        BY <1>7, <2>2 DEF Publish
      <3>2. coll' # NoColl /\ ~coll.doubt /\ coll.record.kind # "full"
        BY <1>7, <1>c, <2>2, <3>1, PublishEffect
      <3> QED
        BY <1>1, <1>7, <3>1, <3>2 DEF Publish
    <2> QED
      BY <2>1, <2>2
  <1>8. CASE UNCHANGED <<sv, coll>> /\ swapped \subseteq swapped' \cup {Indexer}
    BY <1>1, <1>8
  <1>9. CASE \/ \E cfg \in world.configs : \E mode \in world.modes : StartIndexer(cfg, mode)
             \/ IndexerBoots \/ IndexerBooted \/ ClearFiles \/ LoadManifest
             \/ RefuseDevice \/ Scan \/ PickDevice \/ LoadModel \/ CheckProvenance
             \/ NoEndpoint \/ KillIndexer
    BY <1>8, <1>9 DEF StartIndexer, IndexerBoots, BootStep, deployVars, IndexerBooted, ClearFiles,
         LoadManifest, RefuseDevice, Scan, PickDevice, LoadModel, CheckProvenance, NoEndpoint,
         KillIndexer, IndexerEnds
  <1>10. CASE \/ ServerBoots \/ (GiveUp /\ UNCHANGED sv)
              \/ (\E f \in Files, v \in Versions : Edit(f, v)) \/ UNCHANGED vars
    BY <1>8, <1>10 DEF ServerBoots, BootStep, deployVars, GiveUp, Edit, vars
  <1>11. CASE DockerWorld
    <2>1. UNCHANGED <<sv, coll>> /\ (swapped' = swapped \/ swapped' = Procs)
      BY <1>11 DEF DockerWorld, deployVars
    <2> QED
      BY <1>8, <1>c, <2>1
  <1>12. CASE \E s \in world.endpoints : SwapEndpoint(s)
    BY <1>12, <1>c DEF SwapEndpoint
  <1>13. CASE (\E cfg \in world.configs : StartServer(cfg)) \/ ServerBooted
    BY <1>13, <1>t DEF StartServer, ServerBooted
  <1>14. CASE sv' = IdleServer
    BY <1>14
  <1> QED
    BY <1>2, <1>3, <1>4, <1>5, <1>6, <1>7, <1>9, <1>10, <1>11, <1>12, <1>13, <1>14
       DEF Next, IndexerStep, StopServer, GiveUp

LEMMA NextRecord ==
  TypeOK /\ CollInv /\ IndexerInv /\ RecordTellsTruth /\ [Next]_vars => RecordTellsTruth'
  <1> SUFFICES ASSUME TypeOK, CollInv, IndexerInv, RecordTellsTruth, [Next]_vars,
                      coll' # NoColl, coll'.record.kind = "full", ~coll'.doubt,
                      NEW g \in Files, NEW p \in coll'.points[g]
               PROVE  p[2] = coll'.record.space
    BY DEF RecordTellsTruth
  <1>1. CASE UNCHANGED coll
    BY <1>1 DEF RecordTellsTruth
  <1>2. CASE ClearCollection
    BY <1>1, <1>2 DEF ClearCollection
  <1>3. CASE CreateCollection
    BY <1>3 DEF CreateCollection, NewColl, NoRecord
  <1>4. CASE WriteProvenance
    BY <1>4, WriteEffect DEF WriteProvenance, CollInv, NoPoints
  <1>5. ASSUME NEW f \in Files, EmbedFile(f) PROVE p[2] = coll'.record.space
    <2> DEFINE space == SpaceNow(ix.cfg)
               fits == space # NoSpace /\ Dim(space) = coll.dim
    <2>1. /\ coll \in Colls /\ coll'.record = coll.record /\ ~coll.doubt
          /\ ~(fits /\ (~ix.sure \/ Indexer \in swapped))
          /\ coll'.points = [coll.points EXCEPT ![f] = IF fits THEN {<<tree[f], space>>} ELSE {}]
      BY <1>5, EmbedEffect
    <2>2. CASE g # f
      <3>1. p \in coll.points[g]
        BY <2>1, <2>2
      <3>2. coll # NoColl
        BY <2>1, DeploymentAssumption
      <3> QED
        BY <2>1, <3>1, <3>2 DEF RecordTellsTruth
    <2>3. CASE g = f
      <3>1. coll.points \in [Files -> SUBSET (Versions \X Spaces)]
        BY <2>1 DEF Colls
      <3>2. p \in (IF fits THEN {<<tree[f], space>>} ELSE {})
        BY <2>1, <2>3, <3>1
      <3>3. fits /\ p[2] = space
        BY <3>2
      <3>4. coll.record.space = space
        BY <1>5, <2>1, <3>3 DEF IndexerInv, EmbedFile
      <3> QED
        BY <2>1, <3>3, <3>4
    <2> QED
      BY <2>2, <2>3
  <1>6. CASE Publish
    <2>1. CASE ~UNCHANGED coll
      <3>1. coll # NoColl
        BY <1>6, <2>1 DEF Publish
      <3>2. ~coll.doubt /\ coll.record.kind # "full" /\ coll'.points = coll.points
        BY <1>6, <2>1, <3>1, PublishEffect
      <3> QED
        BY <3>1, <3>2 DEF CollInv, Full, NoPoints
    <2> QED
      BY <1>1, <2>1
  <1>7. CASE \/ \E cfg \in world.configs :
                 StartServer(cfg) \/ \E mode \in world.modes : StartIndexer(cfg, mode)
             \/ IndexerBoots \/ IndexerBooted \/ ClearFiles \/ LoadManifest
             \/ RefuseDevice \/ Scan \/ PickDevice \/ LoadModel \/ CheckProvenance
             \/ NoEndpoint \/ KillIndexer
    BY <1>1, <1>7 DEF StartServer, StartIndexer, IndexerBoots, BootStep, deployVars, IndexerBooted,
         ClearFiles, LoadManifest, RefuseDevice, Scan, PickDevice, LoadModel, CheckProvenance,
         NoEndpoint, KillIndexer
  <1>8. CASE \/ ServerBoots \/ ServerBooted \/ BuildIndex \/ StopServer \/ GiveUp \/ DockerWorld
             \/ (\E f \in Files, v \in Versions : Edit(f, v))
             \/ (\E s \in world.endpoints : SwapEndpoint(s)) \/ UNCHANGED vars
    BY <1>1, <1>8 DEF ServerBoots, BootStep, deployVars, ServerBooted, BuildIndex, StopServer, GiveUp,
         DockerWorld, Edit, SwapEndpoint, vars
  <1> QED
    BY <1>2, <1>3, <1>4, <1>5, <1>6, <1>7, <1>8 DEF Next, IndexerStep

----------------------------------------------------------------------------
(* What the manifest lists is stored. *)

LEMMA OneVersion ==
  ASSUME NEW v, NEW space
  PROVE  {p[1] : p \in {<<v, space>>}} = {v}
  <1> DEFINE pair == <<v, space>>
  <1>1. pair[1] = v
    OBVIOUS
  <1> HIDE DEF pair
  <1>2. {p[1] : p \in {pair}} = {v}
    BY <1>1
  <1> QED
    BY <1>2 DEF pair

LEMMA NextListed == TypeOK /\ CollInv /\ ListedIsStored /\ [Next]_vars => ListedIsStored'
  <1> SUFFICES ASSUME TypeOK, CollInv, ListedIsStored, [Next]_vars,
                      ~holes', manifest' # NoManifest, ix'.pc # "clear files",
                      NEW g \in Files, manifest'[g] # NoEntry
               PROVE  coll' # NoColl /\ {p[1] : p \in coll'.points[g]} = {manifest'[g]}
    BY DEF ListedIsStored
  <1> USE DEF TypeIndexer, IdleIndexer
  <1>t. TypeIndexer /\ holes \in BOOLEAN
    BY DEF TypeOK
  <1>c. NoColl \notin Colls /\ NoManifest \notin Manifests
    BY DeploymentAssumption
  <1>1. CASE UNCHANGED <<coll, manifest, holes>> /\ ix.pc # "clear files"
    BY <1>1 DEF ListedIsStored
  <1>2. CASE ClearCollection \/ ClearFiles
    BY <1>2, <1>t DEF ClearCollection, ClearFiles
  <1>3. CASE LoadManifest
    <2>1. CASE UNCHANGED manifest /\ UNCHANGED holes
      BY <1>1, <1>3, <2>1 DEF LoadManifest
    <2>2. CASE ~(UNCHANGED manifest /\ UNCHANGED holes)
      <3>1. manifest' \in Regenerated /\ coll = NoColl
        BY <1>3, <2>2 DEF LoadManifest
      <3> QED
        BY <3>1 DEF Regenerated
    <2> QED
      BY <2>1, <2>2
  <1>4. CASE CreateCollection
    <2>1. /\ coll = NoColl /\ UNCHANGED <<manifest, holes>> /\ ix.pc # "clear files"
      BY <1>4 DEF CreateCollection
    <2> QED
      BY <2>1 DEF ListedIsStored
  <1>5. CASE WriteProvenance
    <2>1. /\ coll # NoColl /\ coll' # NoColl /\ coll'.points = coll.points
          /\ UNCHANGED <<manifest, holes>> /\ ix.pc # "clear files"
      BY <1>5, <1>c, WriteEffect DEF WriteProvenance
    <2> QED
      BY <2>1 DEF ListedIsStored
  <1>6. ASSUME NEW f \in Files, EmbedFile(f)
        PROVE  coll' # NoColl /\ {p[1] : p \in coll'.points[g]} = {manifest'[g]}
    <2> DEFINE space == SpaceNow(ix.cfg)
               fits == space # NoSpace /\ Dim(space) = coll.dim
    <2>1. /\ coll \in Colls /\ coll' \in Colls /\ manifest \in Manifests
          /\ coll'.points = [coll.points EXCEPT ![f] = IF fits THEN {<<tree[f], space>>} ELSE {}]
          /\ manifest' = [manifest EXCEPT ![f] = IF fits THEN tree[f] ELSE NoEntry]
      BY <1>6, EmbedEffect
    <2>2. /\ DOMAIN coll.points = Files /\ DOMAIN manifest = Files
      BY <2>1 DEF Colls, Manifests
    <2>3. CASE g # f
      <3>1. manifest'[g] = manifest[g] /\ coll'.points[g] = coll.points[g]
        BY <2>1, <2>2, <2>3
      <3>2. ~holes /\ manifest # NoManifest /\ ix.pc # "clear files"
        BY <1>6, <1>c, <2>1 DEF EmbedFile
      <3> QED
        BY <1>c, <2>1, <3>1, <3>2 DEF ListedIsStored
    <2>4. CASE g = f
      <3>1. fits /\ manifest'[g] = tree[f] /\ coll'.points[g] = {<<tree[f], space>>}
        BY <2>1, <2>2, <2>4
      <3>2. {p[1] : p \in {<<tree[f], space>>}} = {tree[f]}
        BY OneVersion
      <3> QED
        BY <1>c, <2>1, <3>1, <3>2
    <2> QED
      BY <2>3, <2>4
  <1>7. CASE Publish
    <2>1. UNCHANGED <<manifest, holes>> /\ ix.pc # "clear files"
      BY <1>7 DEF Publish
    <2>2. CASE ~UNCHANGED coll
      <3>1. coll # NoColl
        BY <1>7, <2>2 DEF Publish
      <3>2. coll' # NoColl /\ coll'.points = coll.points
        BY <1>7, <1>c, <2>2, <3>1, PublishEffect
      <3> QED
        BY <2>1, <3>2 DEF ListedIsStored
    <2> QED
      BY <1>1, <2>1, <2>2
  <1>8. CASE KillIndexer
    <2>1. UNCHANGED <<coll, manifest>> /\ ~holes /\ (ix.pc = "clear files" => manifest = NoManifest)
      BY <1>8, <1>t DEF KillIndexer
    <2> QED
      BY <2>1 DEF ListedIsStored
  <1>9. CASE \/ \E cfg \in world.configs : \E mode \in world.modes : StartIndexer(cfg, mode)
             \/ IndexerBoots \/ IndexerBooted
             \/ RefuseDevice \/ Scan \/ PickDevice \/ LoadModel \/ CheckProvenance
             \/ NoEndpoint \/ (GiveUp /\ ~UNCHANGED ix)
    BY <1>1, <1>9 DEF StartIndexer, IndexerBoots, BootStep, deployVars, IndexerBooted,
         RefuseDevice, Scan, PickDevice, LoadModel, CheckProvenance, NoEndpoint, GiveUp
  <1>10. CASE \/ \E cfg \in world.configs : StartServer(cfg)
              \/ ServerBoots \/ ServerBooted \/ BuildIndex \/ StopServer \/ (GiveUp /\ UNCHANGED ix)
              \/ (\E f \in Files, v \in Versions : Edit(f, v))
              \/ (\E s \in world.endpoints : SwapEndpoint(s)) \/ UNCHANGED vars
    BY <1>1, <1>10 DEF StartServer, ServerBoots, BootStep, deployVars, ServerBooted, BuildIndex,
         StopServer, GiveUp, Edit, SwapEndpoint, vars
  <1>11. CASE DockerWorld
    <2>1. UNCHANGED <<coll, manifest, holes>> /\ ix'.pc = ix.pc
      BY <1>11, <1>t DEF DockerWorld, deployVars
    <2> QED
      BY <1>1, <2>1
  <1> QED
    BY <1>2, <1>3, <1>4, <1>5, <1>6, <1>7, <1>8, <1>9, <1>10, <1>11 DEF Next, IndexerStep

-----------------------------------------------------------------------------
(* The cap on the length of texts. *)

\* OpToRel(<, Nat), spelled out for the provers.
Below == {ss \in Nat \X Nat : ss[1] < ss[2]}

\* There is no endless descent in the numbers, and so a set of them has a least.
LEMMA LessIsWellFounded == IsWellFoundedOn(Below, Nat)
<1>1. IsWellFoundedOn({ss \in Nat \X Nat : ss[1] < ss[2]}, Nat)
  BY NatLessThanWellFounded, Zenon DEF OpToRel
<1> QED BY <1>1 DEF Below

LEMMA Smallest ==
  ASSUME NEW T, T \subseteq Nat, T # {}
  PROVE  \E x \in T : \A y \in T : x <= y
<1>1. PICK x \in T : \A y \in T : ~ (<<y, x>> \in Below)
  BY LessIsWellFounded, WFMin
<1>2. \A y \in T : ~(y < x)
  BY <1>1 DEF Below
<1> QED BY <1>2

\* The root of a whole number.
LEMMA RootOfSquare ==
  ASSUME NEW x \in Nat, NEW top \in Nat
  PROVE  Root(x, top) \in 0 .. top /\ Root(x, top) * Root(x, top) <= x
<1> DEFINE Tight(r) == r * r <= x /\ (r = top \/ x < (r + 1) * (r + 1))
           T == {s \in 1 .. top + 1 : s = top + 1 \/ x < s * s}
<1>1. T \subseteq Nat /\ top + 1 \in T
  OBVIOUS
<1>2. PICK s \in T : \A y \in T : s <= y
  <2> HIDE DEF T
  <2> QED BY <1>1, Smallest
<1>3. s - 1 \in 0 .. top /\ s \in Nat
  BY <1>2
<1>4. (s - 1) * (s - 1) <= x
  <2>1. CASE s = 1
    BY <2>1
  <2>2. CASE s # 1
    <3>1. s - 1 \in 1 .. top /\ s - 1 \notin T
      BY <1>2, <1>3, <2>2
    <3> QED BY <3>1
  <2> QED BY <2>1, <2>2
<1>5. s - 1 = top \/ x < ((s - 1) + 1) * ((s - 1) + 1)
  <2>1. (s - 1) + 1 = s
    BY <1>3
  <2> QED BY <1>2, <1>3, <2>1
<1>6. \E r \in 0 .. top : Tight(r)
  BY <1>3, <1>4, <1>5
<1>7. Root(x, top) = CHOOSE r \in 0 .. top : Tight(r)
  BY DEF Root
<1> HIDE DEF Tight
<1>8. Root(x, top) \in 0 .. top /\ Tight(Root(x, top))
  BY <1>6, <1>7
<1> QED BY <1>8 DEF Tight

\* The models that VRAM figures are known of.
Archs == {ModelRegistry.jina, ModelRegistry.bge}

LEMMA ArchIsKnown ==
  ASSUME NEW model
  PROVE  /\ Architecture(model) \in Archs /\ Architecture(model).native_max = 8192
         /\ \A n \in {"num_heads", "hidden_dim", "num_layers", "params"} : Architecture(model)[n] \in Nat
  <1>1. DOMAIN ModelRegistry = {"jina", "bge"}
    BY DEF ModelRegistry
  <1>2. Architecture(model) \in Archs
    BY <1>1 DEF Architecture, Archs
  <1>3. \A a \in Archs :
          /\ a.native_max = 8192 /\ a.num_heads \in Nat /\ a.hidden_dim \in Nat
          /\ a.num_layers \in Nat /\ a.params \in Nat
    BY DEF Archs, ModelRegistry
  <1> QED
    BY <1>2, <1>3

\* b/2a in grains.
HalfB(arch, bytes, batch) == QuadraticB(arch, bytes, batch) \div (2 * QuadraticA(arch, bytes) * Grain)

\* The usage of k units, or 16 * k grains, by the coefficients of the quadratic.
Quadratic(arch, bytes, batch, k) ==
  16 * Usage(arch, bytes, batch, k) =
    QuadraticA(arch, bytes) * ((16 * k) * (16 * k) + 2 * (16 * k) * HalfB(arch, bytes, batch))

LEMMA UsageIsQuadratic ==
  ASSUME NEW arch \in Archs, NEW bytes \in {2, 4}, NEW batch \in Nat, NEW k \in Nat
  PROVE  /\ QuadraticA(arch, bytes) \in Nat \ {0} /\ HalfB(arch, bytes, batch) \in Nat
         /\ Quadratic(arch, bytes, batch, k)
  <1> DEFINE a == QuadraticA(arch, bytes)
             half == HalfB(arch, bytes, batch)
             s == k * k
             t == k * batch
  <1>1. s \in Nat /\ t \in Nat
    OBVIOUS
  <1>2. \A h \in Nat : (16 * k) * (16 * k) + 2 * (16 * k) * (h * batch) = 256 * s + 32 * h * t
    OBVIOUS
  <1>3. CASE arch = ModelRegistry.jina
    <2>1. /\ arch.num_heads = 12 /\ arch.hidden_dim = 768 /\ arch.num_layers = 12
      BY <1>3 DEF ModelRegistry
    <2>2. a = 12 * bytes /\ half = 96 * batch
      BY <2>1 DEF QuadraticA, QuadraticB, HalfB, Grain
    <2>3. AlibiBias(arch, bytes, k) = 192 * bytes * s
      BY <2>1 DEF AlibiBias
    <2>4. Activations(arch, bytes, batch, k) = 2304 * bytes * t
      <3>1. (batch * 768) \div 4 = 192 * batch
        OBVIOUS
      <3> QED
        BY <2>1, <3>1 DEF Activations
    <2> HIDE DEF s, t, a, half
    <2>5. 16 * Usage(arch, bytes, batch, k) = a * (256 * s + 32 * 96 * t)
      BY <1>1, <2>2, <2>3, <2>4 DEF Usage
    <2>6. (16 * k) * (16 * k) + 2 * (16 * k) * half = 256 * s + 32 * 96 * t
      BY <1>2, <2>2
    <2>7. a \in Nat \ {0} /\ half \in Nat
      BY <2>2
    <2> QED
      BY <2>5, <2>6, <2>7 DEF Quadratic, a, half
  <1>4. CASE arch = ModelRegistry.bge
    <2>1. /\ arch.num_heads = 16 /\ arch.hidden_dim = 1024 /\ arch.num_layers = 24
      BY <1>4 DEF ModelRegistry
    <2>2. a = 16 * bytes /\ half = 192 * batch
      BY <2>1 DEF QuadraticA, QuadraticB, HalfB, Grain
    <2>3. AlibiBias(arch, bytes, k) = 256 * bytes * s
      BY <2>1 DEF AlibiBias
    <2>4. Activations(arch, bytes, batch, k) = 6144 * bytes * t
      <3>1. (batch * 1024) \div 4 = 256 * batch
        OBVIOUS
      <3> QED
        BY <2>1, <3>1 DEF Activations
    <2> HIDE DEF s, t, a, half
    <2>5. 16 * Usage(arch, bytes, batch, k) = a * (256 * s + 32 * 192 * t)
      BY <1>1, <2>2, <2>3, <2>4 DEF Usage
    <2>6. (16 * k) * (16 * k) + 2 * (16 * k) * half = 256 * s + 32 * 192 * t
      BY <1>2, <2>2
    <2>7. a \in Nat \ {0} /\ half \in Nat
      BY <2>2
    <2> QED
      BY <2>5, <2>6, <2>7 DEF Quadratic, a, half
  <1> QED
    BY <1>3, <1>4 DEF Archs

\* What the solver returns, rounded down to units, fits the budget.
LEMMA SolutionFits ==
  ASSUME NEW arch \in Archs, NEW bytes \in {2, 4}, NEW batch \in Nat, NEW budget \in Int, budget > 0
  PROVE  LET n == SolveLength(arch, bytes, batch, budget)
         IN  /\ n \in Int /\ n <= 1024
             /\ \A k \in Nat : 16 * k <= n => Usage(arch, bytes, batch, k) <= budget
  <1> DEFINE a == QuadraticA(arch, bytes)
             half == HalfB(arch, bytes, batch)
             q == (budget * 16) \div a
             square == half * half + q
             r == Root(square, half + 1024)
             n == SolveLength(arch, bytes, batch, budget)
  <1>1. a \in Nat \ {0} /\ half \in Nat
    BY UsageIsQuadratic
  <1>u. ASSUME NEW k \in Nat
        PROVE  16 * Usage(arch, bytes, batch, k) = a * ((16 * k) * (16 * k) + 2 * (16 * k) * half)
    <2>1. Quadratic(arch, bytes, batch, k)
      BY UsageIsQuadratic
    <2> QED
      BY <2>1 DEF Quadratic
  <1>2. q \in Nat /\ a * q <= 16 * budget /\ square \in Nat
    <2> HIDE DEF a, half
    <2> QED
      BY <1>1
  <1>3. n = r - half
    <2>1. arch.native_max \div Grain = 1024
      BY DEF Archs, ModelRegistry, Grain
    <2>2. 1024 \div (Grain * Grain) = 16
      BY DEF Grain
    <2>3. n = Root(half * half + (budget * (1024 \div (Grain * Grain))) \div a,
                   half + arch.native_max \div Grain) - half
      BY DEF SolveLength, HalfB
    <2> HIDE DEF n, half, a
    <2> QED
      BY <2>1, <2>2, <2>3
  <1>4. r \in 0 .. half + 1024 /\ r * r <= square
    <2>1. half + 1024 \in Nat
      BY <1>1
    <2>2. square \in Nat
      BY <1>2
    <2> HIDE DEF square, half, a, q
    <2>3. r \in 0 .. half + 1024 /\ r * r <= square
      <3> DEFINE top == half + 1024
      <3>1. top \in Nat /\ r = Root(square, top)
        BY <2>1
      <3> HIDE DEF top, r
      <3>2. r \in 0 .. top /\ r * r <= square
        BY <2>2, <3>1, RootOfSquare
      <3> QED
        BY <3>2 DEF top
    <2> QED
      BY <2>3
  <1>5. ASSUME NEW k \in Nat, 16 * k <= n
        PROVE  Usage(arch, bytes, batch, k) <= budget
    <2> DEFINE g == 16 * k
               u == Usage(arch, bytes, batch, k)
    <2>1. 16 * u = a * (g * g + 2 * g * half)
      <3> HIDE DEF a, half, n
      <3> QED
        BY <1>u
    <2>2. u \in Int
      <3>1. arch.num_heads \in Nat /\ arch.hidden_dim \in Nat /\ arch.num_layers \in Nat
        BY DEF Archs, ModelRegistry
      <3>2. (batch * arch.hidden_dim) \div 4 \in Nat
        BY <3>1
      <3>3. AlibiBias(arch, bytes, k) \in Nat
        BY <3>1 DEF AlibiBias
      <3>4. Activations(arch, bytes, batch, k) \in Nat
        BY <3>1, <3>2 DEF Activations
      <3> QED
        BY <3>3, <3>4 DEF Usage
    <2> HIDE DEF u, a, q, n, r
    <2>3. g \in Nat /\ g + half <= r /\ r \in Nat
      BY <1>1, <1>3, <1>4, <1>5
    <2> HIDE DEF g, half
    <2>4. (g + half) * (g + half) <= r * r
      <3>1. \A i, j \in Nat : i <= j => i * i <= j * j
        OBVIOUS
      <3> QED
        BY <1>1, <2>3, <3>1
    <2>5. g * g + 2 * g * half + half * half <= square
      <3>1. (g + half) * (g + half) = g * g + 2 * g * half + half * half
        BY <1>1, <2>3
      <3>2. r * r \in Nat /\ square \in Nat
        BY <1>2, <2>3
      <3> HIDE DEF square
      <3> QED
        BY <1>1, <1>4, <2>3, <2>4, <3>1, <3>2
    <2>6. g * g + 2 * g * half <= q
      <3>1. half * half \in Nat /\ g * g + 2 * g * half \in Nat
        BY <1>1, <2>3
      <3> QED
        BY <1>2, <2>5, <3>1
    <2>7. a * (g * g + 2 * g * half) <= a * q
      <3>1. \A i, j, m \in Nat : i <= j => m * i <= m * j
        OBVIOUS
      <3>2. g * g + 2 * g * half \in Nat
        BY <1>1, <2>3
      <3> QED
        BY <1>1, <1>2, <2>6, <3>1, <3>2
    <2>8. a * q \in Nat
      BY <1>1, <1>2
    <2> QED
      BY <1>2, <2>1, <2>2, <2>7, <2>8 DEF u
  <1> HIDE DEF n, r, half
  <1>6. n \in Int /\ n <= 1024
    BY <1>1, <1>3, <1>4
  <1> QED
    BY <1>5, <1>6 DEF n

\* compute_max_seq_length: the configured length, or one that fits.
LEMMA CapOrBase ==
  ASSUME NEW arch \in Archs, NEW bytes \in {2, 4}, NEW batch \in Nat, NEW margin,
         NEW dedicated, NEW shared, NEW base \in Nat, base >= Unit,
         Remaining(arch, bytes, margin, dedicated, shared) \in Int
  PROVE  LET n == ComputeMaxSeqLength(arch, bytes, batch, margin, dedicated, shared, base)
         IN  \/ n <= base
             \/ /\ n <= arch.native_max
                /\ Usage(arch, bytes, batch, n \div Unit)
                     <= Remaining(arch, bytes, margin, dedicated, shared)
  <1> DEFINE budget == Remaining(arch, bytes, margin, dedicated, shared)
             root == SolveLength(arch, bytes, batch, budget)
             k == (root * 8) \div 128
             n == ComputeMaxSeqLength(arch, bytes, batch, margin, dedicated, shared, base)
  <1>1. CASE budget <= 0
    <2>1. n = base
      BY <1>1 DEF ComputeMaxSeqLength
    <2> QED
      BY <2>1
  <1>2. CASE budget > 0
    <2>1. /\ root \in Int /\ root <= 1024
          /\ \A j \in Nat : 16 * j <= root => Usage(arch, bytes, batch, j) <= budget
      <3>1. budget \in Int
        OBVIOUS
      <3> HIDE DEF budget
      <3> QED
        BY <3>1, <1>2, SolutionFits
    <2>2. arch.native_max = 8192
      BY DEF Archs, ModelRegistry
    <2>3. n = AtLeast(base, AtMost(AtLeast(k, 1) * 128, 8192))
      <3>1. ~(budget <= 0)
        BY <1>2
      <3>2. Aligned(root) = AtLeast(k, 1) * 128
        BY DEF Aligned, Grain, Unit
      <3> QED
        BY <3>1, <3>2, <2>2 DEF ComputeMaxSeqLength
    <2> HIDE DEF n, root, budget
    <2>4. k \in Int /\ k <= 64 /\ 16 * k <= root
      BY <2>1
    <2> HIDE DEF k
    <2>5. n = base \/ (k >= 1 /\ n = k * 128)
      BY <2>3, <2>4 DEF AtLeast, AtMost, Unit
    <2>6. CASE k >= 1 /\ n = k * 128
      <3>1. n <= arch.native_max /\ n \div Unit = k
        BY <2>2, <2>4, <2>6 DEF Unit
      <3>2. Usage(arch, bytes, batch, k) <= budget
        BY <2>1, <2>4, <2>6
      <3> QED
        BY <3>1, <3>2 DEF n, budget
    <2>7. CASE n = base
      BY <2>7 DEF n
    <2> QED
      BY <2>5, <2>6, <2>7
  <1> QED
    BY <1>1, <1>2

\* The cards nvidia-smi may show, and the configs for which the cap is a promise
\* about them: it reads the memory of the card (EMBED_VRAM_DEDICATED_MB and
\* EMBED_VRAM_SHARED_MB are unset), counts the bytes of a number as the loader
\* does, and has no configured length below its own least, one unit.
CardsInv ==
  \A g \in DOMAIN gpus :
    /\ gpus[g] = [free |-> gpus[g].free, total |-> gpus[g].total, shared |-> gpus[g].shared,
                  cc |-> gpus[g].cc]
    /\ gpus[g].total \in Nat /\ gpus[g].shared \in Nat

CapReadsTheCard ==
  \A w \in Worlds :
    /\ \A g \in DOMAIN w.host :
         /\ w.host[g] = [free |-> w.host[g].free, total |-> w.host[g].total,
                         shared |-> w.host[g].shared, cc |-> w.host[g].cc]
         /\ w.host[g].total \in Nat /\ w.host[g].shared \in Nat
    /\ \A c \in w.configs :
         c.dynamic =>
           /\ c.device \in {Cpu, AutoDevice} \cup Nat
           /\ c.batch \in Nat /\ c.margin \in Nat
           /\ c.dedicated = Unset /\ c.shared = Unset
           /\ c.dtype # "fp32"
           /\ c.max_len = Unset \/ (c.max_len \in Nat /\ c.max_len >= Unit)

\* While nothing moved since the device was chosen, it is the one the same choice
\* would make again.
LengthInv ==
  /\ CardsInv
  /\ ix.pc = "model" /\ ix.steady =>
       ix.device = IF Backend(ix.cfg) # "pytorch" THEN Cpu
                   ELSE ResolvePytorchDevice(ix.cfg.device, gpus, world.cuda)
  /\ LengthFits

\* LoadModel: the card that resolve_embed_max_seq_length looks at is the device.
LEMMA LoadedFits ==
  ASSUME CapReadsTheCard, CardsInv, world \in Worlds, NEW cfg \in world.configs, cfg.dynamic,
         NEW device, device # Cpu,
         device = IF Backend(cfg) # "pytorch" THEN Cpu
                  ELSE ResolvePytorchDevice(cfg.device, gpus, world.cuda)
  PROVE  LET arch == Architecture(cfg.model)
             bytes == LoadedBytes(cfg.dtype)
             n == MaxLength(cfg, device, gpus)
         IN  \/ n <= (IF cfg.max_len = Unset THEN arch.native_max ELSE cfg.max_len)
             \/ /\ n <= arch.native_max
                /\ Usage(arch, bytes, cfg.batch, n \div Unit)
                     <= Remaining(arch, bytes, cfg.margin, gpus[device].total, gpus[device].shared)
  <1> DEFINE arch == Architecture(cfg.model)
             bytes == LoadedBytes(cfg.dtype)
             n == MaxLength(cfg, device, gpus)
             base == IF cfg.max_len = Unset THEN arch.native_max ELSE cfg.max_len
             gpu == CapGpu(cfg.device, gpus)
  <1>1. /\ cfg.device \in {Cpu, AutoDevice} \cup Nat /\ cfg.batch \in Nat /\ cfg.margin \in Nat
        /\ cfg.dedicated = Unset /\ cfg.shared = Unset /\ cfg.dtype # "fp32"
        /\ cfg.max_len = Unset \/ (cfg.max_len \in Nat /\ cfg.max_len >= Unit)
    BY DEF CapReadsTheCard
  <1>2. arch \in Archs /\ arch.native_max = 8192 /\ base \in Nat /\ base >= Unit
    BY <1>1, ArchIsKnown DEF Unit
  <1>3. bytes = BytesPerElement(cfg.dtype) /\ bytes \in {2, 4}
    BY <1>1 DEF LoadedBytes, BytesPerElement
  <1>4. Backend(cfg) = "pytorch" /\ device = ResolvePytorchDevice(cfg.device, gpus, world.cuda)
    OBVIOUS
  <1>5. n = ResolveEmbedMaxSeqLength(cfg, gpus)
    BY <1>4 DEF MaxLength
  <1>6. CASE gpu \in DOMAIN gpus
    <2>1. gpu = device
      BY <1>1, <1>4, <1>6 DEF CapGpu, ResolvePytorchDevice, Cpu, NoGpu, AutoDevice
    <2>2. n = ComputeMaxSeqLength(arch, bytes, cfg.batch, cfg.margin,
                                  gpus[device].total, gpus[device].shared, base)
      BY <1>1, <1>3, <1>5, <1>6, <2>1 DEF ResolveEmbedMaxSeqLength
    <2>3. Remaining(arch, bytes, cfg.margin, gpus[device].total, gpus[device].shared) \in Int
      <3>1. gpus[device].total \in Nat /\ gpus[device].shared \in Nat
        BY <1>6, <2>1 DEF CardsInv
      <3>2. arch.params \in Nat
        BY <1>2 DEF Archs, ModelRegistry
      <3>3. MiB(gpus[device].total + gpus[device].shared) \div 100 \in Int
        BY <3>1 DEF MiB
      <3>4. (MiB(gpus[device].total + gpus[device].shared) \div 100) * (100 - cfg.margin) \in Int
        BY <1>1, <3>3
      <3>5. Weights(arch, bytes) \in Int
        BY <1>3, <3>2 DEF Weights
      <3>6. MiB(FixedOverhead) \in Int
        BY DEF MiB, FixedOverhead
      <3> QED
        BY <3>4, <3>5, <3>6 DEF Remaining
    <2> HIDE DEF arch, bytes, base, n
    <2>4. \/ n <= base
          \/ /\ n <= arch.native_max
             /\ Usage(arch, bytes, cfg.batch, n \div Unit)
                  <= Remaining(arch, bytes, cfg.margin, gpus[device].total, gpus[device].shared)
      BY <1>1, <1>2, <1>3, <2>2, <2>3, CapOrBase
    <2> QED
      BY <2>4 DEF arch, bytes, base, n
  <1>7. CASE gpu \notin DOMAIN gpus
    <2>1. n = base
      BY <1>1, <1>5, <1>7 DEF ResolveEmbedMaxSeqLength
    <2> HIDE DEF n
    <2>2. n <= base
      BY <1>2, <2>1
    <2> QED
      BY <2>2 DEF n
  <1> QED
    BY <1>6, <1>7

\* Nothing that is not about the length, or ends the run, or is a later step of it.
LEMMA LengthStays ==
  ASSUME LengthInv, UNCHANGED <<gpus, world>>,
         \/ UNCHANGED ix
         \/ ix'.pc \notin {"model", "open", "record", "embed"}
         \/ /\ ix.pc \in {"open", "record", "embed"} /\ ix'.pc # "model"
            /\ ix'.cfg = ix.cfg /\ ix'.device = ix.device
            /\ ix'.max_len = ix.max_len /\ ix'.steady = ix.steady
  PROVE  LengthInv'
  <1>1. CardsInv'
    BY DEF LengthInv, CardsInv
  <1>2. CASE UNCHANGED ix
    BY <1>1, <1>2 DEF LengthInv, LengthFits
  <1>3. CASE ix'.pc \notin {"model", "open", "record", "embed"}
    BY <1>1, <1>3 DEF LengthInv, LengthFits
  <1>4. CASE /\ ix.pc \in {"open", "record", "embed"} /\ ix'.pc # "model"
             /\ ix'.cfg = ix.cfg /\ ix'.device = ix.device
             /\ ix'.max_len = ix.max_len /\ ix'.steady = ix.steady
    <2>1. LengthFits'
      BY <1>4 DEF LengthInv, LengthFits
    <2> QED
      BY <1>1, <1>4, <2>1 DEF LengthInv
  <1> QED
    BY <1>2, <1>3, <1>4

\* Steps of a start, and of Docker, leave the cards alone.
LEMMA BootKeepsCards ==
  ASSUME NEW p, NEW cfg, BootStep(p, cfg)
  PROVE  UNCHANGED <<gpus, world, ix>>
  BY DEF BootStep, Boot, Ensure, LookForStopped, StartContainer, PickImage, RunContainer,
         WaitHealthy, DockerFails, GoTo, deployVars

LEMMA NextLength ==
  ASSUME CapReadsTheCard, TypeOK, LengthInv, [Next]_vars
  PROVE  LengthInv'
  <1>t. TypeIndexer /\ world \in Worlds
    BY DEF TypeOK
  <1>d. DOMAIN ix = {"pc", "cfg", "mode", "todo", "device", "max_len", "steady", "sure"}
    BY <1>t DEF TypeIndexer, IdleIndexer
  <1>1. CASE PickDevice
    <2>1. /\ ix'.pc = "model" /\ ix'.cfg = ix.cfg
          /\ ix'.device = IF Backend(ix.cfg) # "pytorch" THEN Cpu
                          ELSE ResolvePytorchDevice(ix.cfg.device, gpus, world.cuda)
      BY <1>1, <1>d DEF PickDevice
    <2>2. UNCHANGED <<gpus, world>>
      BY <1>1 DEF PickDevice, dockerVars
    <2>3. CardsInv'
      BY <2>2 DEF LengthInv, CardsInv
    <2>4. LengthFits'
      BY <2>1 DEF LengthFits
    <2> QED
      BY <2>1, <2>2, <2>3, <2>4 DEF LengthInv
  <1>2. CASE LoadModel
    <2>1. /\ ix.pc = "model" /\ ix'.pc = "open" /\ ix'.cfg = ix.cfg /\ ix'.device = ix.device
          /\ ix'.steady = ix.steady /\ ix'.max_len = MaxLength(ix.cfg, ix.device, gpus)
      BY <1>2, <1>d DEF LoadModel
    <2>2. UNCHANGED <<gpus, world>>
      BY <1>2 DEF LoadModel, dockerVars
    <2>3. CardsInv'
      BY <2>2 DEF LengthInv, CardsInv
    <2>4. ix.cfg \in world.configs
      BY <1>t, <2>1 DEF TypeIndexer
    <2>5. LengthFits'
      <3> SUFFICES ASSUME ix'.device # Cpu, ix'.cfg.dynamic, ix'.steady
                   PROVE  LengthFits'
        BY DEF LengthFits
      <3>1. ix.device # Cpu /\ ix.cfg.dynamic /\ ix.steady
        BY <2>1
      <3>2. ix.device = IF Backend(ix.cfg) # "pytorch" THEN Cpu
                        ELSE ResolvePytorchDevice(ix.cfg.device, gpus, world.cuda)
        BY <2>1, <3>1 DEF LengthInv
      <3>3. LET arch == Architecture(ix.cfg.model)
                bytes == LoadedBytes(ix.cfg.dtype)
                n == MaxLength(ix.cfg, ix.device, gpus)
            IN  \/ n <= (IF ix.cfg.max_len = Unset THEN arch.native_max ELSE ix.cfg.max_len)
                \/ /\ n <= arch.native_max
                   /\ Usage(arch, bytes, ix.cfg.batch, n \div Unit)
                        <= Remaining(arch, bytes, ix.cfg.margin,
                                     gpus[ix.device].total, gpus[ix.device].shared)
        BY <1>t, <2>4, <3>1, <3>2, LoadedFits DEF LengthInv
      <3> QED
        BY <2>1, <2>2, <3>3 DEF LengthFits
    <2> QED
      BY <2>1, <2>3, <2>5 DEF LengthInv
  <1>3. CASE \/ CheckProvenance \/ CreateCollection \/ WriteProvenance
             \/ (\E f \in Files : EmbedFile(f))
    <2>1. UNCHANGED <<gpus, world>>
      BY <1>3 DEF CheckProvenance, CreateCollection, WriteProvenance, EmbedFile, IndexerEnds, dockerVars
    <2>2. \/ ix'.pc = "off"
          \/ /\ ix.pc \in {"open", "record", "embed"} /\ ix'.pc # "model"
             /\ ix'.cfg = ix.cfg /\ ix'.device = ix.device
             /\ ix'.max_len = ix.max_len /\ ix'.steady = ix.steady
      <3>1. CASE CheckProvenance
        <4>1. ix.pc = "open"
          BY <3>1 DEF CheckProvenance
        <4>2. CASE IndexerEnds
          BY <4>2 DEF IndexerEnds, IdleIndexer
        <4>3. CASE \E b : ix' = [ix EXCEPT !.pc = "embed", !.sure = b]
          BY <4>1, <4>3, <1>d
        <4> QED
          BY <3>1, <4>2, <4>3 DEF CheckProvenance
      <3>2. CASE CreateCollection
        BY <3>2, <1>d DEF CreateCollection
      <3>3. CASE WriteProvenance
        BY <3>3, <1>d DEF WriteProvenance
      <3>4. CASE \E f \in Files : EmbedFile(f)
        BY <3>4, <1>d DEF EmbedFile
      <3> QED
        BY <1>3, <3>1, <3>2, <3>3, <3>4
    <2> QED
      BY <2>1, <2>2, LengthStays
  <1>4. CASE \/ \E cfg \in world.configs : \E mode \in world.modes : StartIndexer(cfg, mode)
             \/ IndexerBooted \/ ClearCollection \/ ClearFiles \/ LoadManifest
             \/ RefuseDevice \/ Scan \/ NoEndpoint \/ Publish \/ KillIndexer
    <2>1. UNCHANGED <<gpus, world>>
      BY <1>4 DEF StartIndexer, IndexerBooted, ClearCollection, ClearFiles, LoadManifest,
           RefuseDevice, Scan, NoEndpoint, Publish, KillIndexer, IndexerEnds, dockerVars
    <2>2. ix'.pc \notin {"model", "open", "record", "embed"}
      <3>1. CASE RefuseDevice \/ NoEndpoint \/ Publish \/ KillIndexer
        <4>1. ix' = IdleIndexer
          BY <3>1 DEF RefuseDevice, NoEndpoint, Publish, KillIndexer, IndexerEnds
        <4> QED
          BY <4>1 DEF IdleIndexer
      <3>2. CASE \E cfg \in world.configs : \E mode \in world.modes : StartIndexer(cfg, mode)
        BY <3>2 DEF StartIndexer, IdleIndexer
      <3>3. CASE ClearCollection \/ ClearFiles
        BY <3>3, <1>d DEF ClearCollection, ClearFiles
      <3>4. CASE LoadManifest
        BY <3>4, <1>d DEF LoadManifest, IndexerEnds, IdleIndexer
      <3>5. CASE IndexerBooted \/ Scan
        BY <3>5, <1>d DEF IndexerBooted, Scan
      <3> QED
        BY <1>4, <3>1, <3>2, <3>3, <3>4, <3>5
    <2> QED
      BY <2>1, <2>2, LengthStays
  <1>5. CASE \/ \E cfg \in world.configs : StartServer(cfg)
             \/ ServerBooted \/ BuildIndex \/ StopServer
             \/ (\E f \in Files, v \in Versions : Edit(f, v))
             \/ (\E s \in world.endpoints : SwapEndpoint(s)) \/ UNCHANGED vars
    <2>1. UNCHANGED <<gpus, world, ix>>
      BY <1>5 DEF StartServer, ServerBooted, BuildIndex, StopServer, Edit, SwapEndpoint,
           dockerVars, vars, deployVars
    <2> QED
      BY <2>1, LengthStays
  <1>6. CASE IndexerBoots \/ ServerBoots
    BY <1>6, BootKeepsCards, LengthStays DEF IndexerBoots, ServerBoots
  <1>7. CASE GiveUp
    <2>1. UNCHANGED <<gpus, world>> /\ (UNCHANGED ix \/ ix'.pc = "off")
      BY <1>7 DEF GiveUp, IndexerEnds, IdleIndexer
    <2> QED
      BY <2>1, LengthStays
  <1>8. CASE DockerWorld
    <2>1. CASE \E b \in Boxes : BecomesHealthy(b) /\ UNCHANGED deployVars
      <3>1. UNCHANGED <<gpus, world, ix>>
        BY <2>1 DEF BecomesHealthy, deployVars
      <3> QED
        BY <3>1, LengthStays
    <2>2. CASE \E b \in TeiModels : /\ StopContainer(b)
                                    /\ UNCHANGED <<world, endpoint, tree, coll, manifest, ix, sv, holes>>
      <3>1. UNCHANGED <<gpus, world, ix>>
        BY <2>2 DEF StopContainer
      <3> QED
        BY <3>1, LengthStays
    <2>3. ASSUME NEW g \in DOMAIN gpus, NEW free, MemoryMoves(g, free),
                 ix' = [ix EXCEPT !.steady = FALSE], UNCHANGED world
          PROVE  LengthInv'
      <3>1. /\ DOMAIN gpus' = DOMAIN gpus
            /\ \A h \in DOMAIN gpus :
                 gpus'[h] = IF h = g THEN [gpus[g] EXCEPT !.free = free] ELSE gpus[h]
        BY <2>3 DEF MemoryMoves
      <3>2. [gpus[g] EXCEPT !.free = free] =
              [free |-> free, total |-> gpus[g].total, shared |-> gpus[g].shared, cc |-> gpus[g].cc]
        BY DEF LengthInv, CardsInv
      <3>3. CardsInv'
        BY <3>1, <3>2 DEF LengthInv, CardsInv
      <3>4. ix'.steady = FALSE
        BY <2>3, <1>d
      <3> QED
        BY <3>3, <3>4 DEF LengthInv, LengthFits
    <2> QED
      BY <1>8, <2>1, <2>2, <2>3 DEF DockerWorld
  <1> QED
    BY <1>1, <1>2, <1>3, <1>4, <1>5, <1>6, <1>7, <1>8 DEF Next, IndexerStep

LEMMA InitLength == CapReadsTheCard /\ Init => LengthInv
  <1> SUFFICES ASSUME CapReadsTheCard, Init PROVE LengthInv
    OBVIOUS
  <1>1. gpus = world.host /\ world \in Worlds /\ ix.pc = "off"
    BY DEF Init, DockerInit, IdleIndexer
  <1>2. CardsInv
    BY <1>1 DEF CapReadsTheCard, CardsInv
  <1> QED
    BY <1>1, <1>2 DEF LengthInv, LengthFits

----------------------------------------------------------------------------
(* The theorems. *)

LEMMA InitInv == Init => IInv
  <1> SUFFICES ASSUME Init PROVE IInv
    OBVIOUS
  <1> USE DEF Init
  <1>w. world \in Worlds /\ Indexer \in Procs /\ Server \in Procs
    BY DeploymentAssumption
  <1>1. TypeBoxes /\ OnePerPort /\ SeenRuns
    BY DEF DockerInit, TypeBoxes, OnePerPort, SeenRuns, Absent, NotBooting, Boxes, Steps
  <1>2. FirstTree \in [Files -> Versions]
    BY DeploymentAssumption DEF FirstTree
  <1>3. TypeOK
    BY <1>1, <1>2, <1>w, DeploymentAssumption
       DEF TypeOK, TypeIndexer, TypeServer, IdleIndexer, IdleServer, Manifests
  <1>4. CollInv
    BY <1>w, DeploymentAssumption DEF CollInv, Full, IdleIndexer, IdleServer, Refreshing
  <1>5. IndexerInv /\ ServerInv
    BY DEF IndexerInv, ServerInv, IdleIndexer, IdleServer
  <1>6. RecordTellsTruth
    BY <1>w, DeploymentAssumption DEF RecordTellsTruth
  <1>7. ListedIsStored
    BY <1>w, DeploymentAssumption DEF ListedIsStored
  <1> QED
    BY <1>1, <1>3, <1>4, <1>5, <1>6, <1>7 DEF IInv, DockerInv

LEMMA Invariance == Spec => []IInv
  <1>1. IInv /\ [Next]_vars => IInv'
    BY NextDocker, NextType, NextColl, NextIndexerInv, NextServerInv, NextRecord, NextListed DEF IInv
  <1> QED
    BY InitInv, <1>1, PTL DEF Spec

\* A process that was told TEI is ready, and whose container nobody stopped
\* since, finds its own container behind the URL, with any number of projects
\* on the port (ensure_tei_running, _create_tei_container).
THEOREM OwnServerHolds == Spec => []OwnServer
  <1>1. DockerInv => OwnServer
    <2> SUFFICES ASSUME DockerInv, NEW p \in Procs, boot[p].seen
                 PROVE  Behind(boot[p].box) = {boot[p].box}
      BY DEF OwnServer
    <2>1. boot[p].box \in Boxes /\ boxes[boot[p].box].state = "running"
      BY DEF DockerInv, TypeBoxes, SeenRuns
    <2>2. SamePort(boot[p].box, boot[p].box)
      BY DEF SamePort
    <2> QED
      BY <2>1, <2>2 DEF Behind, DockerInv, OnePerPort
  <1> QED
    BY Invariance, <1>1, PTL DEF IInv

\* A full record names the space of every point, over all runs with all configs
\* (check_provenance_for_indexing, _ensure_full_provenance).
THEOREM RecordIsTrue == Spec => []RecordTellsTruth
  BY Invariance, PTL DEF IInv

\* What the manifest lists is stored in the collection, also after --clear.
THEOREM ListedPointsExist == Spec => []ListedIsStored
  BY Invariance, PTL DEF IInv

\* A server that compared itself with the collection embeds queries like its
\* points are embedded (check_serving_provenance).
THEOREM QueriesFit == Spec => []AnswersFit
  <1>1. ServerInv /\ RecordTellsTruth => AnswersFit
    BY DEF ServerInv, RecordTellsTruth, AnswersFit, Full
  <1> QED
    BY Invariance, <1>1, PTL DEF IInv

\* Where the cap is a promise about the card, a batch fits the memory of the very
\* card the model is loaded on, whatever the cards, models and settings
\* (resolve_embed_max_seq_length, compute_max_seq_length, resolve_pytorch_device).
THEOREM CapFits == CapReadsTheCard /\ Spec => []LengthFits
  <1> SUFFICES ASSUME CapReadsTheCard PROVE Spec => []LengthFits
    OBVIOUS
  <1>1. TypeOK /\ LengthInv /\ [Next]_vars => LengthInv'
    BY NextLength
  <1>2. Init => LengthInv
    BY InitLength
  <1>3. LengthInv => LengthFits
    BY DEF LengthInv
  <1>4. IInv => TypeOK
    BY DEF IInv
  <1> QED
    BY Invariance, <1>1, <1>2, <1>3, <1>4, PTL DEF Spec
=============================================================================
