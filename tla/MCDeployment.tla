---------------------------- MODULE MCDeployment ----------------------------
(* Small instances of Deployment for TLC: one behaviour per kind of host.   *)
EXTENDS Deployment, TLC

\* Vectors of the spaces "jina", "s" and "t" are as long as one another.
DimOf(space) == IF space \in {"bge", "u"} THEN 2 ELSE 1

Plain ==
  [remote |-> FALSE, openai |-> FALSE, use_tei |-> FALSE, openvino |-> FALSE,
   openvino_device |-> "GPU", device |-> Cpu, tei_gpu |-> AutoDevice, model |-> "jina",
   quant |-> NoQuant, dtype |-> "float16", batch |-> 32, margin |-> 15,
   dynamic |-> FALSE, max_len |-> Unset, dedicated |-> Unset, shared |-> Unset]

Remote == [Plain EXCEPT !.remote = TRUE]
Tei == [Plain EXCEPT !.use_tei = TRUE]

Quiet ==
  [configs |-> {}, host |-> <<>>, cuda |-> 0, openvinos |-> {}, endpoints |-> {"s"},
   modes |-> {"run"}, docker |-> FALSE, metadata |-> TRUE, flaky |-> FALSE, edits |-> FALSE,
   stops |-> FALSE, frees |-> {}, serves |-> TRUE, old |-> NoColl]

Card(free, total, cc) == [free |-> free, total |-> total, shared |-> 0, cc |-> cc]
TwoCards == 0 :> Card(1, 4096, "75") @@ 1 :> Card(2, 8188, "89")

\* Remote endpoints: one model name, or two, or a quantization named or not.
RemoteWorlds ==
  {[Quiet EXCEPT !.configs = cs, !.endpoints = {"s", "t"}, !.modes = {"run", "clear", "regenerate"}] :
     cs \in {{Remote, [Remote EXCEPT !.quant = "q8"]},
             {[Remote EXCEPT !.quant = "q4"], [Remote EXCEPT !.quant = "q8", !.model = "bge"]}}}

\* An endpoint whose vectors have another length, on a Qdrant that fails at times.
FlakyWorlds ==
  {[Quiet EXCEPT !.configs = {Remote}, !.endpoints = {"s", "u"}, !.flaky = TRUE,
                 !.modes = {"run", "clear"}, !.serves = ~e, !.edits = e] : e \in BOOLEAN}

\* A collection of an older release, with the family of its engine at most.
OldCollection(record) ==
  [record |-> record, dim |-> 1, doubt |-> TRUE,
   points |-> [f \in Files |-> {<<CHOOSE v \in Versions : TRUE, "jina">>}]]

OldWorlds ==
  {[Quiet EXCEPT !.configs = {Plain, Tei, [Plain EXCEPT !.openvino = TRUE]}, !.edits = TRUE,
                 !.openvinos = {"CPU", "GPU"}, !.metadata = FALSE, !.old = OldCollection(r)] :
     r \in {NoRecord, FamilyRecord(Plain)}}

\* Two projects with a TEI container each, on one host.
DockerWorlds ==
  {[Quiet EXCEPT !.configs = {Tei, [Tei EXCEPT !.model = "bge"]}, !.docker = TRUE,
                 !.stops = TRUE, !.host = TwoCards]}

\* Models on a card, with the cap on the length of a text.
CardConfigs ==
  {[Plain EXCEPT !.dynamic = TRUE, !.max_len = 512, !.device = d, !.dtype = t, !.batch = b, !.model = m] :
     d \in {AutoDevice, 0, 1, Cpu}, t \in {"float16", "float32"}, b \in {8, 32}, m \in {"jina", "bge"}}

CardWorlds ==
  {[Quiet EXCEPT !.configs = {c}, !.host = h, !.cuda = 2, !.frees = {1, 3}, !.serves = FALSE] :
     c \in CardConfigs, h \in {TwoCards, <<>>}}
  \cup {[Quiet EXCEPT !.configs = CardConfigs, !.host = TwoCards, !.serves = FALSE]}

AllWorlds == RemoteWorlds \cup FlakyWorlds \cup OldWorlds \cup DockerWorlds \cup CardWorlds
=============================================================================
