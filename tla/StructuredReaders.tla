-------------------------- MODULE StructuredReaders --------------------------
(***************************************************************************)
(* The walks of the readers built on readers/_structured.py: Python, C#,   *)
(* PHP, Go and Rust.  XxVerdict(f, n, c, seen) is what the reader does     *)
(* with node n in context c; seen are the names of the types summarised so *)
(* far.  XxListed are the members a class_summary names, XxOverview those  *)
(* of the class_overview.                                                  *)
(***************************************************************************)
EXTENDS SourceTree

Methods == {"method_declaration", "constructor_declaration"}

FreeComment(f, n, c, owner) ==
  IF f.size[n] = "free"
  THEN Member(Chunk("block_comment", {n}, {}, owner, HeadOf(c), c.ns, "plain"))
  ELSE Drop

\* ------------------------------------------------------------- _structured.py

\* Defect: only the neighbours' types and lengths are compared.
StJoinsAnyOwner(f, a, b) == Trivial(a, Methods) /\ Trivial(b, Methods)

\* emit: b continues the run of trivial methods a started.
StJoins(f, a, b) == Trivial(a, Methods) /\ Trivial(b, Methods) /\ b.owner = a.owner

\* _group: under the first member's prefix.
StGroup(f, members, max) ==
  Groups("method_group", members, max, members[1].head, members[1].ns)

\* make_documents: every part begins with the chunk's prefix; what is below
\* MIN_CHUNK_SIZE becomes no document.
StDocuments(ch) == Parts(ch, TRUE)

\* Rust's own emit, one scope at a time, also joins short calls of one macro.
MacroNames(f, ch) == {f.name[n] : n \in {m \in ch.items : f.kind[m] = "macro_invocation"}}

RsJoins(f, a, b) ==
  /\ a.ns = b.ns /\ b.owner = a.owner
  /\ \/ Trivial(a, Methods) /\ Trivial(b, Methods)
     \/ /\ Trivial(a, {"macro_invocation"}) /\ Trivial(b, {"macro_invocation"})
        /\ MacroNames(f, a) = MacroNames(f, b)

RsMacroGroup(f, members, max) ==
  Groups("macro_group", members, max, members[1].head, members[1].ns)

RsGroup(f, members, max) ==
  IF members[1].type \in Methods THEN StGroup(f, members, max) ELSE RsMacroGroup(f, members, max)

\* ---------------------------------------------------------------- Python

PyListed(f, n) == KidsOf(f, n, {"function_definition", "class_definition", "assignment"})

PyOverview(f, n) == KidsOf(f, n, {"function_definition", "class_definition", "assignment"})

\* docstring: a string that only comments precede in its block.
PyDocstring(f, n) ==
  {m \in KidsOf(f, n, {"string"}) :
     \A o \in 1..(m - 1) : f.up[o] = n => f.kind[o] = "comment"}

PyClass(f, n, c) ==
  Type(Summary(f, n, c, {}, PyListed(f, n) \cup PyDocstring(f, n), PyOverview(f, n)),
       At(Kids(f, n), Inside(c, n)) \o BlockEnd(Inside(c, n)))

PyFunction(f, n, c) ==
  Leaf(f, IF Owner(f, c) # "" /\ f.name[n] = "__init__"
          THEN "constructor_declaration" ELSE "method_declaration", n, {n}, c)

PyVerdict(f, n, c, seen) ==
  CASE f.kind[n] = "assignment" -> Run
    [] f.kind[n] = "comment" -> Skip
    [] f.kind[n] = "import_statement" -> IF c.top THEN Import ELSE Drop
    [] f.kind[n] = "class_definition" -> PyClass(f, n, c)
    [] f.kind[n] = "function_definition" -> Member(PyFunction(f, n, c))
    [] f.kind[n] = "string" ->
         IF n \in PyDocstring(f, 0)
         THEN Member(Chunk("block_comment", {n}, {}, "", 0, 0, "plain")) ELSE Drop
    [] OTHER -> IF c.top THEN Script ELSE Drop

\* flush_assignments: the run becomes one chunk of the block it stood in.
PyFlush(f, run, c) ==
  IF run = <<>> THEN <<>>
  ELSE <<Chunk("field_declaration", Range(run), {}, Owner(f, c), HeadOf(c), c.ns,
               SizeOf(f, run[1], Range(run)))>>

\* -------------------------------------------------------------------- C#

CsLeaf == [method_declaration |-> "method_declaration",
           local_function_statement |-> "method_declaration",
           constructor_declaration |-> "constructor_declaration",
           field_declaration |-> "field_declaration",
           property_declaration |-> "field_declaration",
           delegate_declaration |-> "type_alias_declaration"]

CsListed(f, n) ==
  LET own == KidsOf(f, n, (DOMAIN CsLeaf \ {"local_function_statement"})
                          \cup {"class_declaration", "enum_member_declaration"})
  IN  own \cup UNION {KidsOf(f, m, {"method_declaration", "constructor_declaration",
                                    "field_declaration", "property_declaration"})
                      : m \in KidsOf(f, n, {"preproc_if"})}

CsOverview(f, n) ==
  KidsOf(f, n, {"enum_member_declaration", "field_declaration", "property_declaration",
                "constructor_declaration", "method_declaration", "class_declaration"})

CsType(f, n, c) ==
  Type(Summary(f, n, c, IF CsListed(f, n) = {} THEN WithDoc(f, n) ELSE LeadingDoc(f, n),
               CsListed(f, n), CsOverview(f, n)),
       At(Kids(f, n), Inside(c, n)))

CsVerdict(f, n, c, seen) ==
  CASE f.kind[n] \in {"namespace_declaration", "file_scoped_namespace_declaration"} ->
         Verdict("scope", <<>>, At(Kids(f, n), [c EXCEPT !.ns = n]))
    [] f.kind[n] = "using_directive" -> Import
    [] f.kind[n] = "global_statement" -> Script
    [] f.kind[n] = "class_declaration" -> CsType(f, n, c)
    [] f.kind[n] \in DOMAIN CsLeaf ->
         Member(Leaf(f, CsLeaf[f.kind[n]], n, WithDoc(f, n), c))
    [] f.kind[n] = "comment" ->
         IF Owner(f, c) \in seen THEN Drop ELSE FreeComment(f, n, c, Owner(f, c))
    [] OTHER -> Through(At(Kids(f, n), c))

\* ------------------------------------------------------------------- PHP

PhpListed(f, n) ==
  KidsOf(f, n, {"method_declaration", "property_declaration", "const_declaration",
                "use_declaration", "enum_case"})

PhpOverview(f, n) == PhpListed(f, n)

PhpType(f, n, c) ==
  Type(Summary(f, n, c, IF PhpListed(f, n) = {} THEN WithDoc(f, n) ELSE LeadingDoc(f, n),
               PhpListed(f, n), PhpOverview(f, n)),
       At(Kids(f, n), Inside(c, n)))

PhpLeaf(f, n) ==
  CASE f.kind[n] = "method_declaration" ->
         IF f.name[n] = "__construct" THEN "constructor_declaration" ELSE "method_declaration"
    [] f.kind[n] = "function_definition" -> "method_declaration"
    [] f.kind[n] = "property_declaration" -> "field_declaration"
    [] f.kind[n] = "const_declaration" -> "constant_declaration"
    [] OTHER -> "none"

\* A namespace without a body sets state["ns"] for what follows it in the file.
PhpVerdict(f, n, c, seen) ==
  CASE f.kind[n] = "namespace_definition" ->
         Verdict("scope", <<>>, At(Kids(f, n), [c EXCEPT !.ns = n]))
    [] f.kind[n] = "namespace_statement" -> Verdict("scope", <<>>, <<>>)
    [] f.kind[n] = "namespace_use_declaration" -> Import
    [] f.kind[n] = "class_declaration" -> PhpType(f, n, c)
    [] PhpLeaf(f, n) # "none" -> Member(Leaf(f, PhpLeaf(f, n), n, WithDoc(f, n), c))
    [] f.kind[n] = "comment" -> IF c.top THEN FreeComment(f, n, c, "") ELSE Drop
    [] f.kind[n] \in {"text_interpolation", "use_declaration", "enum_case"} -> Drop
    [] OTHER -> IF c.top THEN Script ELSE Through(At(Kids(f, n), c))

\* A file that declares nothing and is mostly inline HTML goes to the text reader.
IsTemplate(f, raw) ==
  /\ \E n \in Nodes(f) : f.kind[n] = "text_interpolation" /\ f.size[n] = "long"
  /\ \A i \in DOMAIN raw : raw[i].type \notin Methods \cup {"class_summary"}

\* -------------------------------------------------------------------- Go

GoSpec(f, name) ==
  {n \in Nodes(f) : f.kind[n] \in {"struct_type", "named_type"} /\ f.name[n] = name}

GoHead(f, name) == IF GoSpec(f, name) = {} THEN 0 ELSE CHOOSE n \in GoSpec(f, name) : TRUE

\* methods_by_type and constructors: the file's methods and New functions of a type.
GoMethodsOf(f, name) ==
  {m \in Nodes(f) : /\ f.kind[m] \in {"function_declaration", "method_declaration"}
                    /\ f.name[m] = name}

GoConstructs(f, n) ==
  \E s \in GoSpec(f, f.name[n]) : f.kind[s] = "struct_type"

GoFunction(f, n) ==
  LET isCtor == f.kind[n] = "function_declaration" /\ GoConstructs(f, n)
      owner  == IF f.kind[n] = "method_declaration" \/ isCtor THEN f.name[n] ELSE ""
  IN  Chunk(IF isCtor THEN "constructor_declaration" ELSE "method_declaration",
            WithDoc(f, n), {}, owner, IF owner = "" THEN 0 ELSE GoHead(f, owner), 0, f.size[n])

GoType(f, n, c) ==
  IF f.kind[n] = "struct_type"
  THEN Type(Summary(f, n, c, WithDoc(f, n), GoMethodsOf(f, f.name[n]),
                    GoMethodsOf(f, f.name[n])), <<>>)
  ELSE Member(Chunk("type_alias_declaration", WithDoc(f, n), {}, f.name[n], 0, 0, "plain"))

GoVerdict(f, n, c, seen) ==
  CASE f.kind[n] = "import_declaration" -> Import
    [] f.kind[n] \in {"struct_type", "named_type"} -> GoType(f, n, c)
    [] f.kind[n] \in {"function_declaration", "method_declaration"} -> Member(GoFunction(f, n))
    [] f.kind[n] \in {"const_declaration", "var_declaration"} ->
         Member(Chunk("field_declaration", WithDoc(f, n), {}, "", 0, 0, f.size[n]))
    [] f.kind[n] = "comment" -> FreeComment(f, n, c, "")
    [] OTHER -> Drop

\* ------------------------------------------------------------------ Rust

RsSignatures == {"function_item", "function_signature_item", "const_item", "type_item"}

\* self.types: the first declaration of each name; self.impls: by type name.
RsTypes(f) ==
  {n \in Nodes(f) : /\ f.kind[n] \in {"struct_item", "trait_item"}
                    /\ \A m \in 1..(n - 1) :
                         f.kind[m] \in {"struct_item", "trait_item"} => f.name[m] # f.name[n]}

RsImpls(f, n) ==
  IF n \in RsTypes(f)
  THEN {m \in Nodes(f) : f.kind[m] = "impl_item" /\ f.name[m] = f.name[n]} ELSE {}

RsImplLines(f, impls) == UNION {KidsOf(f, m, RsSignatures) : m \in impls}

RsOverview(f, n) == UNION {KidsOf(f, m, {"function_item"}) : m \in RsImpls(f, n)}

RsStruct(f, n, c) ==
  Type(Summary(f, n, c, WithDoc(f, n), RsImplLines(f, RsImpls(f, n)), RsOverview(f, n)), <<>>)

RsTrait(f, n, c) ==
  LET signatures == KidsOf(f, n, RsSignatures)
  IN  Type(Summary(f, n, c, LeadingDoc(f, n), signatures \cup RsImplLines(f, RsImpls(f, n)),
                   signatures),
           At(Kids(f, n), Inside(c, n)))

\* impl_item: a summary of its own only for a type the file does not declare.
RsImpl(f, n, c) ==
  LET foreign == \A t \in RsTypes(f) : f.name[t] # f.name[n]
  IN  Type(IF foreign
           THEN <<Chunk("class_summary", LeadingDoc(f, n), {n} \cup KidsOf(f, n, RsSignatures),
                        f.name[n], n, c.ns, "plain")>>
           ELSE <<>>,
           At(Kids(f, n), Inside(c, n)))

RsModule(f, n, c) ==
  LET listed == {m \in Nodes(f) : /\ f.up[m] = n
                                  /\ f.kind[m] \notin {"comment", "macro_invocation"}}
  IN  Verdict("scope",
              IF listed = {} THEN <<>>
              ELSE <<Chunk("module_summary", LeadingDoc(f, n), {n} \cup listed, "", 0, c.ns, "plain")>>,
              At(Kids(f, n), [TopCtx EXCEPT !.ns = n]))

\* simple: an item that is a chunk of its own under the header it stands in.
RsSimple(f, n, c, type) == Member(Leaf(f, type, n, WithDoc(f, n), c))

RsLeaf == [function_signature_item |-> "method_declaration",
           type_item |-> "type_alias_declaration",
           const_item |-> "constant_declaration",
           static_item |-> "field_declaration",
           macro_definition |-> "macro_definition"]

RsFunction(f, n, c) ==
  RsSimple(f, n, c, IF ~c.top /\ f.name[n] = "new" /\ f.kind[HeadOf(c)] = "impl_item"
                    THEN "constructor_declaration" ELSE "method_declaration")

RsExternBlock(f, n, c) == Member(Leaf(f, "extern_block", n, WithDoc(f, n), c))

RsMacroCall(f, n, c) == Member(Leaf(f, "macro_invocation", n, WithDoc(f, n), c))

RsComment(f, n, c) == FreeComment(f, n, c, "")

\* What the loops of impl_item and trait_item over their members emit.
RsMembers(f, n) ==
  IF f.kind[n] = "impl_item"
  THEN {"function_item", "const_item", "type_item", "macro_invocation"}
  ELSE {"function_item"}

RsVerdict(f, n, c, seen) ==
  CASE ~c.top /\ f.kind[n] \notin RsMembers(f, HeadOf(c)) -> Drop
    [] f.kind[n] \in {"use_declaration", "mod_declaration"} -> Import
    [] f.kind[n] = "comment" -> RsComment(f, n, c)
    [] f.kind[n] = "struct_item" -> RsStruct(f, n, c)
    [] f.kind[n] = "trait_item" -> RsTrait(f, n, c)
    [] f.kind[n] = "impl_item" -> RsImpl(f, n, c)
    [] f.kind[n] = "function_item" -> RsFunction(f, n, c)
    [] f.kind[n] \in DOMAIN RsLeaf -> RsSimple(f, n, c, RsLeaf[f.kind[n]])
    [] f.kind[n] = "foreign_mod_item" -> RsExternBlock(f, n, c)
    [] f.kind[n] = "macro_invocation" -> RsMacroCall(f, n, c)
    [] f.kind[n] = "mod_item" -> RsModule(f, n, c)
    [] OTHER -> Drop
=============================================================================
