-------------------------- MODULE JavaStyleReaders --------------------------
(***************************************************************************)
(* The walks of the readers that carry their own copy of the chunk layout: *)
(* Java, Groovy, Kotlin and JavaScript / TypeScript.  The operators have   *)
(* the form of StructuredReaders'.                                         *)
(***************************************************************************)
EXTENDS SourceTree

\* ------------------------------------------------------------------ Java

JvContainers == {"class_declaration", "interface_declaration", "enum_declaration"}
JvMembers == {"method_declaration", "constructor_declaration", "field_declaration"}

JvMethods == {"method_declaration", "constructor_declaration"}

JvListed(f, n) == KidsOf(f, n, JvMembers \cup JvContainers \cup {"enum_constant"})

JvOverview(f, n) == JvListed(f, n)

\* class_index: one header per simple name, the last declaration's.
JvHead(f, name) ==
  LET declared == {m \in Nodes(f) : f.kind[m] \in JvContainers /\ f.name[m] = name}
  IN  IF declared = {} THEN 0
      ELSE CHOOSE m \in declared : \A o \in declared : o <= m

JvLeaf(f, type, n, c) ==
  Chunk(type, {n}, {}, Owner(f, c), JvHead(f, Owner(f, c)), 0, f.size[n])

\* _build_class_summary returns None for a body with no members it knows.
JvContainer(f, n, c) ==
  Type(IF JvListed(f, n) = {} THEN <<>>
       ELSE Summary(f, n, c, {}, JvListed(f, n), JvOverview(f, n)),
       At(Kids(f, n), Inside(c, n)))

JvVerdict(f, n, c, seen) ==
  CASE f.kind[n] = "import_declaration" /\ f.up[n] = 0 -> Import
    [] f.kind[n] \in JvContainers -> JvContainer(f, n, c)
    [] f.kind[n] \in JvMembers -> Member(JvLeaf(f, f.kind[n], n, c))
    [] f.kind[n] = "comment" ->
         IF Owner(f, c) \in seen THEN Drop ELSE Member(JvLeaf(f, "block_comment", n, c))
    [] f.kind[n] = "enum_constant" ->
         IF Owner(f, c) \in seen THEN Drop ELSE Member(JvLeaf(f, "enum_constant", n, c))
    [] OTHER -> Through(At(Kids(f, n), c))

\* Pass 2, _group_trivial_methods and _make_documents: only the parts of a
\* summary repeat the prefix.
JvJoins(f, a, b) == Trivial(a, JvMethods) /\ Trivial(b, JvMethods) /\ b.owner = a.owner

JvGroup(f, members, max) == Groups("method_group", members, max, members[1].head, 0)

JvDocuments(ch) == Parts(ch, ch.type = "class_summary")

\* ---------------------------------------------------------------- Groovy

\* _get_command_kind: a command with annotations and no block is no declaration.
GvKind(f, n) == IF f.kind[n] = "annotated_field" THEN "none" ELSE f.kind[n]

GvMembers == {"method", "constructor", "field", "enum_constant"}

GvListed(f, n) ==
  {m \in Nodes(f) : f.up[m] = n /\ GvKind(f, m) \in GvMembers \cup {"class"}}

GvOverview(f, n) == GvListed(f, n)

GvType == [method |-> "method_declaration", constructor |-> "constructor_declaration",
           field |-> "field_declaration", enum_constant |-> "enum_constant"]

GvContainer(f, n, c) ==
  Type(IF GvListed(f, n) = {} THEN <<>>
       ELSE Summary(f, n, c, {}, GvListed(f, n), GvOverview(f, n)),
       At(Kids(f, n), Inside(c, n)))

GvVerdict(f, n, c, seen) ==
  CASE GvKind(f, n) = "import" -> IF f.up[n] = 0 THEN Import ELSE Drop
    [] GvKind(f, n) = "class" -> GvContainer(f, n, c)
    [] GvKind(f, n) = "enum_constant" /\ c.top -> Drop
    [] GvKind(f, n) \in GvMembers -> Member(Leaf(f, GvType[GvKind(f, n)], n, {n}, c))
    [] f.kind[n] = "comment" -> Member(Leaf(f, "block_comment", n, {n}, c))
    [] OTHER -> Through(At(Kids(f, n), c))

\* The group's prefix is the file's and the class's name, with no header.
GvJoins(f, a, b) == Trivial(a, JvMethods) /\ Trivial(b, JvMethods) /\ b.owner = a.owner

GvGroup(f, members, max) == Groups("method_group", members, max, 0, 0)

GvDocuments(ch) == Parts(ch, ch.type = "class_summary")

\* ---------------------------------------------------------------- Kotlin

KtLeaf == [function_declaration |-> "method_declaration",
           secondary_constructor |-> "constructor_declaration",
           property_declaration |-> "field_declaration",
           anonymous_initializer |-> "initializer_block",
           type_alias |-> "type_alias_declaration"]

\* _member_line keeps the comments above an enum entry with the entry.
KtListed(f, n) ==
  {m \in KidsOf(f, n, DOMAIN KtLeaf \cup {"enum_entry", "class_declaration"}) : f.size[m] # "empty"}
  \cup UNION {LeadingDoc(f, m) : m \in KidsOf(f, n, {"enum_entry"})}

KtOverview(f, n) ==
  KidsOf(f, n, {"function_declaration", "secondary_constructor", "property_declaration",
                "enum_entry", "class_declaration"})

\* Doc comments stay with a member or an inner type; where no named type is
\* around they are chunks.
KtWithDoc(f, n, c) == IF Owner(f, c) = "" THEN {n} ELSE WithDoc(f, n)

\* A type without a header has no summary.
KtContainer(f, n, c) ==
  Type(IF f.size[n] = "empty" THEN <<>>
       ELSE Summary(f, n, c, IF KtListed(f, n) = {} THEN KtWithDoc(f, n, c)
                             ELSE KtWithDoc(f, n, c) \ {n},
                    KtListed(f, n), KtOverview(f, n)),
       At(Kids(f, n), Inside(c, n)))

KtKnown == DOMAIN KtLeaf \cup {"enum_entry", "class_declaration", "comment", "ERROR"}

\* script: the file is a .kts.
KtVerdict(f, n, c, seen, script) ==
  CASE f.kind[n] = "import_header" -> Import
    [] script /\ f.up[n] = 0 /\ f.kind[n] \notin KtKnown -> Script
    [] f.kind[n] = "class_declaration" -> KtContainer(f, n, c)
    [] f.kind[n] \in DOMAIN KtLeaf ->
         Member(Leaf(f, KtLeaf[f.kind[n]], n, KtWithDoc(f, n, c), c))
    [] f.kind[n] = "comment" ->
         IF Owner(f, c) \in seen THEN Drop ELSE Member(Leaf(f, "block_comment", n, {n}, c))
    [] f.kind[n] = "enum_entry" ->
         IF Owner(f, c) \in seen /\ Kids(f, n) = <<>> THEN Drop
         ELSE Member(Leaf(f, "enum_constant", n, {n}, c))
    [] OTHER -> Through(At(Kids(f, n), c))

KtJoins(f, a, b) == Trivial(a, JvMethods) /\ Trivial(b, JvMethods) /\ b.owner = a.owner

\* _group_trivial_methods reads the members' nodes again: their doc comments go.
KtGroup(f, members, max) ==
  Groups("method_group",
         [i \in DOMAIN members |->
            [members[i] EXCEPT !.items = {n \in @ : f.kind[n] # "comment"}]],
         max, members[1].head, 0)

KtDocuments(ch) == Parts(ch, TRUE)

\* ----------------------------------------------- JavaScript / TypeScript

JsFunctions == {"function_declaration", "generator_function_declaration"}
JsTypes == {"interface_declaration", "type_alias_declaration", "enum_declaration"}
JsValues == {"lexical_declaration", "require_declaration", "expression_statement",
             "prototype_assignment"}
JsFields == {"method_definition", "field_definition"}

\* _DOC_TARGET_TYPES: what carries the comment above it.
JsDocTargets == JsFunctions \cup JsTypes \cup JsValues \cup JsFields \cup {"class_declaration"}

JsIsDocOfNext(f, n) ==
  /\ f.size[n] = "doc"
  /\ \E m \in Nodes(f) : n \in LeadingDoc(f, m) /\ f.kind[m] \in JsDocTargets

JsListed(f, n) == KidsOf(f, n, JsFields \cup {"class_declaration"})

JsOverview(f, n) == KidsOf(f, n, JsFields)

JsClass(f, n, c) ==
  Type(IF JsListed(f, n) = {} THEN <<>>
       ELSE Summary(f, n, c, LeadingDoc(f, n), JsListed(f, n), JsOverview(f, n)),
       At(Kids(f, n), Inside(c, n)))

\* A prototype assignment is a member of the constructor it names.
JsStatement(f, n, c) ==
  IF f.kind[n] = "prototype_assignment"
  THEN Chunk("prototype_assignment", WithDoc(f, n), {}, f.name[n], HeadOf(c), 0, f.size[n])
  ELSE IF f.kind[n] = "expression_statement"
  THEN Chunk("expression_statement", WithDoc(f, n), {}, "", HeadOf(c), 0, f.size[n])
  ELSE Leaf(f, f.kind[n], n, WithDoc(f, n), c)

\* Files are processed from the top: an IIFE is replaced by its body, or by the
\* callback of the first define() in it; a top-level define() by its callback.
JsDrilled(f, n) ==
  LET defines == KidsOf(f, n, {"amd_define"})
  IN  IF f.kind[n] = "iife" /\ defines # {}
      THEN Kids(f, CHOOSE m \in defines : \A o \in defines : m <= o)
      ELSE Kids(f, n)

JsVerdict(f, n, c, seen) ==
  CASE f.up[n] = 0 /\ f.kind[n] \in {"import_statement", "require_declaration"} -> Import
    [] f.up[n] = 0 /\ f.kind[n] \in {"iife", "amd_define"} -> Through(At(JsDrilled(f, n), TopCtx))
    [] f.kind[n] = "class_declaration" -> JsClass(f, n, c)
    [] f.kind[n] \in JsFunctions \cup JsTypes \cup JsValues \cup JsFields ->
         Member(JsStatement(f, n, c))
    [] f.kind[n] \in {"iife", "amd_define"} ->
         Member(Chunk("expression_statement", WithDoc(f, n), {}, "", HeadOf(c), 0, f.size[n]))
    [] f.kind[n] = "comment" ->
         IF JsIsDocOfNext(f, n) \/ Owner(f, c) \in seen THEN Drop
         ELSE Member(Leaf(f, "comment", n, {n}, c))
    [] OTHER -> Through(At(Kids(f, n), c))

\* Pass 2: functions join whatever their context, prototype methods of one
\* constructor whatever their length, and methods of one class name.
JsJoins(f, a, b) ==
  \/ Trivial(a, JsFunctions) /\ Trivial(b, JsFunctions)
  \/ a.type = "prototype_assignment" /\ b.type = a.type /\ b.owner = a.owner
  \/ Trivial(a, {"method_definition"}) /\ Trivial(b, {"method_definition"}) /\ b.owner = a.owner

\* The groups' prefixes are made of names: no class header.
JsGroup(f, members, max) == Groups("function_group", members, max, 0, 0)

JsDocuments(ch) == Parts(ch, ch.type = "class_summary")
=============================================================================
