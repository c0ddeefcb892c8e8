---------------------------- MODULE EmbedDevice ----------------------------
(***************************************************************************)
(* How long a text may be on the memory of a GPU (shared/vram_cap.py), and *)
(* which engine embeds on which device (shared/embedding.py and the choice *)
(* of a graphics card in shared/docker_utils.py).                          *)
(*                                                                         *)
(* The code of the cap solves a quadratic in bytes and rounds the root     *)
(* down to a multiple of 128 tokens.  So does the model, in whole numbers: *)
(* memory is counted in KiB, and the root in grains of 8 tokens.  What is  *)
(* lost is below a grain and a KiB, where the code's floats round as well. *)
(*                                                                         *)
(* nvidia-smi and PyTorch each have a view of the host.  gpus is the       *)
(* first: a function from the indices of the cards to their free, total    *)
(* and shared memory in MiB and their compute capability, <<>> when there  *)
(* are none.  cuda is the second: how many cards PyTorch can use.          *)
(***************************************************************************)
EXTENDS Integers, FiniteSets

Unset == -1           \* a config value that is None
NoGpu == -1           \* no graphics card
AutoDevice == -2            \* the device settings "auto" and "cuda"
Unit == 128           \* tokens; the code aligns lengths to it
Grain == 8            \* tokens; the unit of the root before it is aligned
FixedOverhead == 700  \* MiB, for the CUDA context and the framework

\* Two entries of MODEL_REGISTRY and the defaults for an unknown model.
ModelRegistry ==
  [jina |-> [native_max |-> 8192, num_heads |-> 12, hidden_dim |-> 768,
             num_layers |-> 12, params |-> 161],
   bge  |-> [native_max |-> 8192, num_heads |-> 16, hidden_dim |-> 1024,
             num_layers |-> 24, params |-> 568]]

Architecture(model) ==
  IF model \in DOMAIN ModelRegistry THEN ModelRegistry[model] ELSE ModelRegistry.jina

\* The bytes of a number for the budget, by the name of the data type.
BytesPerElement(dtype) ==
  IF dtype \in {"float32", "float"} THEN 4 ELSE 2

MiB(n) == n * 1024

Weights(arch, bytes) == (arch.params * bytes * 15625) \div 16

AlibiBias(arch, bytes, k) == arch.num_heads * bytes * 16 * k * k

Activations(arch, bytes, batch, k) ==
  ((batch * arch.hidden_dim) \div 4) * arch.num_layers * bytes * k

Usage(arch, bytes, batch, k) ==
  AlibiBias(arch, bytes, k) + Activations(arch, bytes, batch, k)

\* What the texts may take: all memory less the margin and the fixed costs.
Remaining(arch, bytes, margin, dedicated, shared) ==
  (MiB(dedicated + shared) \div 100) * (100 - margin)
    - MiB(FixedOverhead) - Weights(arch, bytes)

AtLeast(a, b) == IF a < b THEN b ELSE a
AtMost(a, b) == IF a < b THEN a ELSE b

\* math.sqrt as a whole number, of which no more than top matters.
Root(x, top) ==
  CHOOSE r \in 0 .. top : r * r <= x /\ (r = top \/ x < (r + 1) * (r + 1))

\* The coefficients of the usage of n tokens, a * n^2 + b * n bytes.
QuadraticA(arch, bytes) == arch.num_heads * bytes
QuadraticB(arch, bytes, batch) == batch * arch.hidden_dim * arch.num_layers * 2 * bytes

\* The n of a * n^2 + b * n = c in grains, sqrt((b/2a)^2 + c/a) - b/2a; beyond
\* native_max the length is cut anyway.
SolveLength(arch, bytes, batch, budget) ==
  LET a == QuadraticA(arch, bytes)
      half == QuadraticB(arch, bytes, batch) \div (2 * a * Grain)
      square == half * half + (budget * (1024 \div (Grain * Grain))) \div a
  IN  Root(square, half + arch.native_max \div Grain) - half

\* n grains as a number of tokens to align tensors to, rounded up.
AlignedUp(n) == AtLeast((n * Grain + Unit - 1) \div Unit, 1) * Unit

Aligned(n) == AtLeast((n * Grain) \div Unit, 1) * Unit

\* compute_max_seq_length with the dynamic cap enabled.
ComputeMaxSeqLength(arch, bytes, batch, margin, dedicated, shared, base) ==
  LET budget == Remaining(arch, bytes, margin, dedicated, shared)
  IN  IF budget <= 0 THEN base
      ELSE AtLeast(base, AtMost(Aligned(SolveLength(arch, bytes, batch, budget)), arch.native_max))

\* The card with the most free memory, the first of them in a tie.
PickBestGpu(gpus) ==
  CHOOSE g \in DOMAIN gpus :
    \A h \in DOMAIN gpus :
      gpus[h].free < gpus[g].free \/ (gpus[h].free = gpus[g].free /\ g <= h)

\* The card whose memory the cap is computed for: that of INDEX_EMBED_DEVICE,
\* chosen anew when the setting leaves it open.
CapGpu(setting, gpus) ==
  CASE setting = AutoDevice /\ gpus # <<>> -> PickBestGpu(gpus)
    [] setting >= 0 -> setting
    [] OTHER -> 0

\* resolve_embed_max_seq_length: the cap of a config on a host.
ResolveEmbedMaxSeqLength(cfg, gpus) ==
  LET arch == Architecture(cfg.model)
      base == IF cfg.max_len = Unset THEN arch.native_max ELSE cfg.max_len
      gpu == CapGpu(cfg.device, gpus)
      Cap(dedicated, shared) ==
        ComputeMaxSeqLength(arch, BytesPerElement(cfg.dtype), cfg.batch, cfg.margin,
                            dedicated, shared, base)
      SharedOr(default) == IF cfg.shared = Unset THEN default ELSE cfg.shared
  IN  CASE ~cfg.dynamic -> base
        [] cfg.dynamic /\ cfg.dedicated # Unset -> Cap(cfg.dedicated, SharedOr(16384))
        [] cfg.dynamic /\ cfg.dedicated = Unset /\ gpu \in DOMAIN gpus ->
             Cap(gpus[gpu].total, SharedOr(gpus[gpu].shared))
        [] OTHER -> base

-----------------------------------------------------------------------------
(* Engines and devices. *)

Cpu == NoGpu
CpuImage == "cpu"

\* resolve_embedding_mode and the branches of get_embed_model: the first
\* setting that is on decides, and remote mode ignores all others.
Backend(cfg) ==
  CASE cfg.remote -> "remote"
    [] ~cfg.remote /\ cfg.openai -> "openai"
    [] ~cfg.remote /\ ~cfg.openai /\ cfg.use_tei -> "tei"
    [] ~cfg.remote /\ ~cfg.openai /\ ~cfg.use_tei /\ cfg.openvino -> "openvino"
    [] OTHER -> "pytorch"

\* get_embed_backend_family.
Family(cfg) ==
  CASE Backend(cfg) \in {"remote", "openai"} -> "openai"
    [] Backend(cfg) = "tei" -> "tei"
    [] OTHER -> "pytorch"

UsesTeiContainer(cfg) == ~cfg.remote /\ Family(cfg) = "tei"

\* _resolve_tei_gpu_flag: an index that is not there falls back to the best.
TeiGpu(setting, gpus) ==
  CASE setting = Cpu \/ gpus = <<>> -> NoGpu
    [] setting \in DOMAIN gpus -> setting
    [] OTHER -> PickBestGpu(gpus)

\* _detect_tei_image: the image is built for one compute capability.
TeiImage(setting, gpus) ==
  LET gpu == TeiGpu(setting, gpus)
  IN  IF gpu = NoGpu THEN CpuImage ELSE gpus[gpu].cc

\* _resolve_pytorch_device.
ResolvePytorchDevice(setting, gpus, cuda) ==
  CASE setting = AutoDevice /\ gpus # <<>> -> PickBestGpu(gpus)
    [] setting = AutoDevice /\ gpus = <<>> /\ cuda > 0 -> 0
    [] setting = AutoDevice /\ gpus = <<>> /\ cuda = 0 -> Cpu
    [] OTHER -> setting

\* validate_device_config: does the indexer refuse to run with this config?
DeviceErrors(cfg, cuda, openvinos) ==
  CASE Backend(cfg) = "openvino" ->
         openvinos = {} \/ (cfg.openvino_device = "GPU" /\ "GPU" \notin openvinos)
    [] Backend(cfg) = "pytorch" ->
         \/ cfg.device # Cpu /\ cuda = 0
         \/ cfg.device >= cuda
    [] OTHER -> FALSE

\* The cap on the length of a text a loaded model gets (Unset: its own): with
\* weights on a card and the dynamic cap on, what fits the card.
MaxLength(cfg, device, gpus) ==
  IF Backend(cfg) = "pytorch" /\ device # Cpu /\ cfg.dynamic
  THEN ResolveEmbedMaxSeqLength(cfg, gpus) ELSE cfg.max_len

\* The bytes of a number as the model is loaded (requested_torch_dtype).
LoadedBytes(dtype) == IF dtype \in {"float32", "float", "fp32"} THEN 4 ELSE 2
=============================================================================
