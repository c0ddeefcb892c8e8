----------------------------- MODULE Provenance -----------------------------
(***************************************************************************)
(* Embedding provenance (shared/index_meta.py, shared/embedding.py): what  *)
(* a collection records about the model that embedded its points, how the  *)
(* record is read back, and how it is compared with a config and with what *)
(* the embedding endpoint answers now.                                     *)
(*                                                                         *)
(* A space stands for all that decides how a text is embedded: weights,    *)
(* quantization, prefixes, engine.  The fingerprint vectors of two spaces  *)
(* differ by more than the allowed cosine exactly when the spaces differ.  *)
(* model stands for all the settings that are compared by name: MODEL_NAME,*)
(* the prefixes, EMBED_TRUNCATE_DIM and the sparse model.                  *)
(***************************************************************************)
EXTENDS EmbedDevice

CONSTANTS
  NoSpace,    \* no answer, or a record without fingerprint vectors
  NoQuant,    \* EMBEDDING_QUANT is not set
  Dim(_)      \* the length of the vectors of a space

NoRecord == [kind |-> "none"]

\* set_collection_provenance: only the family of the engine.
FamilyRecord(cfg) == [kind |-> "family", family |-> Family(cfg)]

\* build_provenance and write_provenance: the sentinel point gets the vectors,
\* the metadata of the collection a summary without them, if the server keeps it.
FullRecord(cfg, space, summary) ==
  [kind |-> "full", model |-> cfg.model, quant |-> cfg.quant,
   dim |-> Dim(space), space |-> space, summary |-> summary]

\* read_provenance: an unreadable point is no error; the summary then speaks
\* for it, and without one the collection looks like one of an older release.
ReadProvenance(record, pointReadable, infoReadable) ==
  CASE pointReadable -> record
    [] ~pointReadable /\ infoReadable /\ record.kind = "full" /\ record.summary ->
         [record EXCEPT !.space = NoSpace]
    [] OTHER -> NoRecord

\* families_compatible: two HTTP servers may serve the same model.
FamiliesCompatible(stored, current) ==
  stored = current \/ {stored, current} \subseteq {"tei", "openai"}

NamesAgree(stored, cfg) ==
  /\ stored.model = cfg.model
  /\ NoQuant \in {stored.quant, cfg.quant} \/ stored.quant = cfg.quant

\* The fingerprint is not compared.
VerifiesByName(stored, cfg, live, dim) ==
  /\ NamesAgree(stored, cfg)
  /\ live # NoSpace
  /\ Dim(live) = stored.dim /\ Dim(live) = dim

\* verify_provenance finds no error: names, the answer of the endpoint, its
\* length, and the fingerprint if there is one.
Verifies(stored, cfg, live, dim) ==
  /\ NamesAgree(stored, cfg)
  /\ live # NoSpace
  /\ Dim(live) = stored.dim /\ Dim(live) = dim
  /\ stored.space \in {NoSpace, live}

\* check_provenance_for_indexing lets the run go on.
MayIndex(stored, cfg, live, dim) ==
  CASE stored.kind = "full" -> Verifies(stored, cfg, live, dim)
    [] stored.kind = "family" -> FamiliesCompatible(stored.family, Family(cfg))
    [] OTHER -> TRUE

\* check_serving_provenance lets the server go on: without a full record only
\* the length is checked.
MayServe(stored, cfg, live, dim) ==
  IF stored.kind = "full" THEN Verifies(stored, cfg, live, dim)
  ELSE live # NoSpace /\ Dim(live) = dim
=============================================================================
