----------------------------- MODULE Containers -----------------------------
(***************************************************************************)
(* The Docker containers of Qdrant and TEI (shared/docker_utils.py), which *)
(* the indexer and the MCP server each look for and start on their own,    *)
(* and Docker itself, as far as the code relies on it: a name belongs to   *)
(* one container, a port to one running container, and a container whose   *)
(* port is taken stays behind, stopped, when "docker run" fails.           *)
(*                                                                         *)
(* There is one Qdrant container of the collection and one TEI container   *)
(* per model; all TEI containers are published on the same port unless a   *)
(* config says otherwise, as TEI_DOCKER_PORT has one default.              *)
(***************************************************************************)
EXTENDS EmbedDevice

CONSTANTS
  Procs,      \* processes that start up: the indexer and the server
  TeiModels,  \* models with a TEI container
  Qdrant,     \* the name of the Qdrant container
  NoImage     \* the image of a container that does not exist

Boxes == {Qdrant} \cup TeiModels

ASSUME BoxesAssumption == Qdrant \notin TeiModels

VARIABLES
  boxes,      \* the container of each name: its state, its image and its card
  answers,    \* containers whose health URL answers with 200
  gpus,       \* what nvidia-smi shows of the cards
  boot        \* how far each process is with the container it wants

dockerVars == <<boxes, answers, gpus, boot>>

Absent == [state |-> "absent", image |-> NoImage, gpu |-> NoGpu]
NotBooting == [step |-> "idle", box |-> Qdrant, image |-> NoImage, setting |-> AutoDevice,
               seen |-> FALSE]

\* get_container_name and get_tei_container_name, and the ports they publish.
SamePort(b, c) == b = c \/ {b, c} \subseteq TeiModels

PortTaken(b) == \E c \in Boxes \ {b} : SamePort(b, c) /\ boxes[c].state = "running"

\* The container behind the URL that b's users call.
Behind(b) == {c \in Boxes : SamePort(b, c) /\ boxes[c].state = "running"}

Steps == {"idle", "exists", "start", "create", "run", "wait", "ready", "failed"}

TypeBoxes ==
  /\ DOMAIN boxes = Boxes
  /\ \A b \in Boxes :
       /\ boxes[b] = [state |-> boxes[b].state, image |-> boxes[b].image, gpu |-> boxes[b].gpu]
       /\ boxes[b].state \in {"absent", "stopped", "running"}
  /\ answers \subseteq {b \in Boxes : boxes[b].state = "running"}
  /\ DOMAIN boot = Procs
  /\ \A p \in Procs :
       /\ boot[p] = [step |-> boot[p].step, box |-> boot[p].box, image |-> boot[p].image,
                     setting |-> boot[p].setting, seen |-> boot[p].seen]
       /\ boot[p].step \in Steps /\ boot[p].box \in Boxes /\ boot[p].seen \in BOOLEAN

DockerInit(host) ==
  /\ boxes = [b \in Boxes |-> Absent]
  /\ answers = {}
  /\ gpus = host
  /\ boot = [p \in Procs |-> NotBooting]
-----------------------------------------------------------------------------
GoTo(p, step) == boot' = [boot EXCEPT ![p].step = step]

\* Only the health URL is asked, whoever answers it.
EnsureByHealthOnly(p, b, setting) ==
  /\ boot' = [boot EXCEPT ![p] = [step |-> IF Behind(b) # {} THEN "wait" ELSE "exists",
                                  box |-> b, image |-> NoImage, setting |-> setting,
                                  seen |-> Behind(b) # {}]]
  /\ UNCHANGED <<boxes, answers, gpus>>

\* ensure_qdrant_running and ensure_tei_running: look for a running container.
Ensure(p, b, setting) ==
  /\ boot' = [boot EXCEPT ![p] = [step |-> IF boxes[b].state = "running" THEN "wait" ELSE "exists",
                                  box |-> b, image |-> NoImage, setting |-> setting,
                                  seen |-> boxes[b].state = "running"]]
  /\ UNCHANGED <<boxes, answers, gpus>>

LookForStopped(p) ==
  /\ boot[p].step = "exists"
  /\ GoTo(p, IF boxes[boot[p].box].state = "absent" THEN "create" ELSE "start")
  /\ UNCHANGED <<boxes, answers, gpus>>

\* "docker start" of a container that runs already does nothing.
StartContainer(p) ==
  LET b == boot[p].box
  IN  /\ boot[p].step = "start"
      /\ IF PortTaken(b)
         THEN GoTo(p, "failed") /\ UNCHANGED boxes
         ELSE /\ boxes' = [boxes EXCEPT ![b].state = "running"]
              /\ boot' = [boot EXCEPT ![p].step = "wait", ![p].seen = TRUE]
      /\ UNCHANGED <<answers, gpus>>

\* _create_tei_container picks the image from one look at the cards ...
PickImage(p) ==
  LET b == boot[p].box
  IN  /\ boot[p].step = "create"
      /\ boot' = [boot EXCEPT ![p].step = "run",
                              ![p].image = IF b = Qdrant THEN CpuImage
                                           ELSE TeiImage(boot[p].setting, gpus)]
      /\ UNCHANGED <<boxes, answers, gpus>>

\* ... and the card itself from another.
RunContainer(p) ==
  LET b == boot[p].box
      made == [state |-> IF PortTaken(b) THEN "stopped" ELSE "running",
               image |-> boot[p].image,
               gpu |-> IF b = Qdrant THEN NoGpu ELSE TeiGpu(boot[p].setting, gpus)]
  IN  /\ boot[p].step = "run"
      /\ IF boxes[b].state # "absent"
         THEN GoTo(p, "failed") /\ UNCHANGED boxes
         ELSE /\ boxes' = [boxes EXCEPT ![b] = made]
              /\ boot' = [boot EXCEPT ![p].step = IF PortTaken(b) THEN "failed" ELSE "wait",
                                      ![p].seen = ~PortTaken(b)]
      /\ UNCHANGED <<answers, gpus>>

\* _wait_for_health_endpoint: the URL answers, or the attempts run out.
WaitHealthy(p) ==
  /\ boot[p].step = "wait"
  /\ IF Behind(boot[p].box) \cap answers # {} THEN GoTo(p, "ready") ELSE GoTo(p, "failed")
  /\ UNCHANGED <<boxes, answers, gpus>>

\* A Docker command fails or times out, or Docker is not installed.
DockerFails(p) ==
  /\ boot[p].step \in {"exists", "start", "create", "run"}
  /\ GoTo(p, "failed")
  /\ UNCHANGED <<boxes, answers, gpus>>

Boot(p) ==
  \/ LookForStopped(p) \/ StartContainer(p) \/ PickImage(p) \/ RunContainer(p)
  \/ WaitHealthy(p) \/ DockerFails(p)
-----------------------------------------------------------------------------
\* A started container answers after a while.
BecomesHealthy(b) ==
  /\ boxes[b].state = "running"
  /\ b \notin answers
  /\ answers' = answers \cup {b}
  /\ UNCHANGED <<boxes, gpus, boot>>

\* Someone stops a container; users of it have to look again.
StopContainer(b) ==
  /\ boxes[b].state = "running"
  /\ boxes' = [boxes EXCEPT ![b].state = "stopped"]
  /\ answers' = answers \ {b}
  /\ boot' = [p \in Procs |-> IF boot[p].box = b THEN [boot[p] EXCEPT !.seen = FALSE] ELSE boot[p]]
  /\ UNCHANGED gpus

\* Other programs take and free memory of a card.
MemoryMoves(g, free) ==
  /\ free # gpus[g].free
  /\ gpus' = [gpus EXCEPT ![g].free = free]
  /\ UNCHANGED <<boxes, answers, boot>>
-----------------------------------------------------------------------------
\* A process that was told TEI is ready talks to the server of its own model,
\* whatever containers of other projects exist on the port, as long as nobody
\* stopped that container after the process saw it.
OwnServer ==
  \A p \in Procs :
    boot[p].step = "ready" /\ boot[p].seen => Behind(boot[p].box) = {boot[p].box}
-----------------------------------------------------------------------------
(* The inductive invariant behind OwnServer. *)

\* Docker publishes a port for one running container.
OnePerPort ==
  \A b, c \in Boxes :
    SamePort(b, c) /\ boxes[b].state = "running" /\ boxes[c].state = "running" => b = c

\* What a process saw running still runs.
SeenRuns == \A p \in Procs : boot[p].seen => boxes[boot[p].box].state = "running"

DockerInv == TypeBoxes /\ OnePerPort /\ SeenRuns
=============================================================================
