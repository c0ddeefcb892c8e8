----------------------------- MODULE FileReaders -----------------------------
(***************************************************************************)
(* One file through its tree-sitter reader: load_data reads and parses it, *)
(* walks the tree collecting raw chunks, imports and script statements,    *)
(* then turns them into documents, grouping runs of trivial methods and    *)
(* splitting what is too long.  The file is chosen at the start; every     *)
(* step of the walk handles one node.                                      *)
(***************************************************************************)
EXTENDS StructuredReaders, JavaStyleReaders, CppReader

CONSTANTS
  Files,        \* the files a run may read
  MinGroupRun,  \* MIN_GROUP_RUN: trivial methods needed to form a group
  MaxGroup      \* how many trivial methods fit in MAX_GROUP_CHARS

ASSUME ReadersAssumption ==
  MinGroupRun \in Nat \ {0} /\ MaxGroup \in Nat \ {0}

VARIABLES
  file,     \* the file
  pc,       \* "read", "walk", "emit" or "done"
  todo,     \* nodes still to walk, with their contexts
  run,      \* Python: the pending run of assignments
  raw,      \* raw chunks, in the order collected; from "emit" on, those left
  imports,  \* import statements, with the scope they stand in
  script,   \* top-level statements that declare nothing
  fileNs,   \* state["ns"]: the file-scoped namespace (C#, PHP)
  docs      \* the documents made so far

vars == <<file, pc, todo, run, raw, imports, script, fileNs, docs>>

Init ==
  /\ file \in Files
  /\ pc = "read"
  /\ todo = <<>> /\ run = <<>> /\ raw = <<>> /\ imports = <<>> /\ script = <<>>
  /\ fileNs = 0
  /\ docs = <<>>

\* ----------------------------------------------------------------- reading

FullFile == [type |-> "full_file", items |-> Nodes(file), lists |-> {},
             head |-> 0, ns |-> 0, part |-> 1]

Parse ==
  /\ pc = "read"
  /\ pc' = "walk"
  /\ todo' = At(Kids(file, 0), TopCtx) \o (IF file.lang = "python" THEN BlockEnd(TopCtx) ELSE <<>>)
  /\ UNCHANGED <<file, run, raw, imports, script, fileNs, docs>>

\* An exception while reading gives no document, one while parsing the whole file.
ReadFails ==
  /\ pc = "read"
  /\ pc' = "done"
  /\ docs' \in {<<>>, <<FullFile>>}
  /\ UNCHANGED <<file, todo, run, raw, imports, script, fileNs>>

\* ----------------------------------------------------------------- walking

Seen == {raw[i].owner : i \in {j \in DOMAIN raw : raw[j].type = "class_summary"}}

VerdictOn(n, c) ==
  CASE file.lang = "python" -> PyVerdict(file, n, c, Seen)
    [] file.lang = "csharp" -> CsVerdict(file, n, c, Seen)
    [] file.lang = "php"    -> PhpVerdict(file, n, c, Seen)
    [] file.lang = "go"     -> GoVerdict(file, n, c, Seen)
    [] file.lang = "rust"   -> RsVerdict(file, n, c, Seen)
    [] file.lang = "java"   -> JvVerdict(file, n, c, Seen)
    [] file.lang = "groovy" -> GvVerdict(file, n, c, Seen)
    [] file.lang = "kotlin" -> KtVerdict(file, n, c, Seen, FALSE)
    [] file.lang = "kts"    -> KtVerdict(file, n, c, Seen, TRUE)
    [] file.lang = "js"     -> JsVerdict(file, n, c, Seen)
    [] file.lang = "cpp"    -> CppVerdict(file, n, c)

\* A node at the top of the file is in the file-scoped namespace.
Here == IF file.up[Head(todo).node] = 0 THEN [Head(todo).ctx EXCEPT !.ns = fileNs]
        ELSE Head(todo).ctx

\* Anything but an assignment or a comment ends the pending run.
Walk(role) ==
  /\ pc = "walk" /\ todo # <<>> /\ Head(todo).node # 0
  /\ LET v == VerdictOn(Head(todo).node, Here)
         flushed == IF role \in {"run", "skip"} THEN <<>> ELSE PyFlush(file, run, Here)
     IN  /\ v.role = role
         /\ todo' = v.next \o Tail(todo)
         /\ raw' = raw \o flushed \o v.out
         /\ run' = CASE role = "run" -> Append(run, Head(todo).node)
                     [] role = "skip" -> run
                     [] OTHER -> <<>>
  /\ UNCHANGED <<file, pc, docs>>

WalkType == Walk("type") /\ UNCHANGED <<imports, script, fileNs>>
WalkMember == Walk("member") /\ UNCHANGED <<imports, script, fileNs>>
WalkThrough == Walk("through") /\ UNCHANGED <<imports, script, fileNs>>
WalkAssignment == Walk("run") /\ UNCHANGED <<imports, script, fileNs>>
WalkComment == Walk("skip") /\ UNCHANGED <<imports, script, fileNs>>
WalkDropped == Walk("drop") /\ UNCHANGED <<imports, script, fileNs>>

WalkImport ==
  /\ Walk("import")
  /\ imports' = Append(imports, [node |-> Head(todo).node, ns |-> Here.ns])
  /\ UNCHANGED <<script, fileNs>>

WalkScript ==
  /\ Walk("script")
  /\ script' = Append(script, Head(todo).node)
  /\ UNCHANGED <<imports, fileNs>>

\* A namespace with a body is a context, one without it holds to the end of the file.
WalkScope ==
  /\ Walk("scope")
  /\ fileNs' = IF file.kind[Head(todo).node] \in
                    {"file_scoped_namespace_declaration", "namespace_statement"}
               THEN Head(todo).node ELSE fileNs
  /\ UNCHANGED <<imports, script>>

\* Defect: the assignments a block ends with are never flushed.
EndBlockUnflushed ==
  /\ pc = "walk" /\ todo # <<>> /\ Head(todo).node = 0
  /\ run' = <<>>
  /\ todo' = Tail(todo)
  /\ UNCHANGED <<file, pc, raw, imports, script, fileNs, docs>>

EndBlock ==
  /\ pc = "walk" /\ todo # <<>> /\ Head(todo).node = 0
  /\ raw' = raw \o PyFlush(file, run, Head(todo).ctx)
  /\ run' = <<>>
  /\ todo' = Tail(todo)
  /\ UNCHANGED <<file, pc, imports, script, fileNs, docs>>

\* ---------------------------------------------------------------- emitting

Namespaces == {"namespace_declaration", "file_scoped_namespace_declaration",
               "namespace_definition", "namespace_statement"}

\* first_ns: what imports and script statements are filed under; C++ has none.
FirstNs ==
  LET scopes == {n \in Nodes(file) : file.kind[n] \in Namespaces}
  IN  IF file.lang = "cpp" \/ scopes = {} THEN 0 ELSE Min(scopes)

ImportChunk(in, ns) ==
  IF in = <<>> THEN <<>>
  ELSE <<Chunk("import_group", {in[i].node : i \in DOMAIN in}, {}, "", 0, ns, "plain")>>

ScriptChunk ==
  IF script = <<>> THEN <<>>
  ELSE <<Chunk("script_body", Range(script), {}, "", 0, FirstNs,
               SizeOf(file, script[1], Range(script)))>>

\* Rust emits scope by scope: the file, then its inline modules in source order.
RustScopes ==
  LET scopes == SelectSeq([i \in 1..(Len(file.kind) + 1) |-> i - 1],
                          LAMBDA s : s = 0 \/ file.kind[s] = "mod_item")
      ofScope(s) == ImportChunk(SelectSeq(imports, LAMBDA i : i.ns = s), s)
                    \o SelectSeq(raw, LAMBDA ch : ch.ns = s)
  IN  FlattenSeq([i \in DOMAIN scopes |-> ofScope(scopes[i])])

\* PHP's fallback for a template is the text reader's business.
StartEmit ==
  /\ pc = "walk" /\ todo = <<>>
  /\ IF file.lang = "php" /\ IsTemplate(file, raw)
     THEN pc' = "done" /\ docs' = <<FullFile>> /\ raw' = <<>>
     ELSE /\ pc' = "emit" /\ UNCHANGED docs
          /\ raw' = IF file.lang = "rust" THEN RustScopes
                    ELSE ImportChunk(imports, FirstNs) \o raw \o ScriptChunk
  /\ UNCHANGED <<file, todo, run, imports, script, fileNs>>

Joins(a, b) ==
  CASE file.lang = "rust"   -> RsJoins(file, a, b)
    [] file.lang = "java"   -> JvJoins(file, a, b)
    [] file.lang = "groovy" -> GvJoins(file, a, b)
    [] file.lang \in {"kotlin", "kts"} -> KtJoins(file, a, b)
    [] file.lang = "js"     -> JsJoins(file, a, b)
    [] file.lang = "cpp"    -> CppJoins(file, a, b)
    [] OTHER -> StJoins(file, a, b)

Grouped(members) ==
  CASE file.lang = "rust"   -> RsGroup(file, members, MaxGroup)
    [] file.lang = "java"   -> JvGroup(file, members, MaxGroup)
    [] file.lang = "groovy" -> GvGroup(file, members, MaxGroup)
    [] file.lang \in {"kotlin", "kts"} -> KtGroup(file, members, MaxGroup)
    [] file.lang = "js"     -> JsGroup(file, members, MaxGroup)
    [] file.lang = "cpp"    -> CppGroup(members, MaxGroup)
    [] OTHER -> StGroup(file, members, MaxGroup)

Documents(ch) ==
  CASE file.lang = "java"   -> JvDocuments(ch)
    [] file.lang = "groovy" -> GvDocuments(ch)
    [] file.lang \in {"kotlin", "kts"} -> KtDocuments(ch)
    [] file.lang = "js"     -> JsDocuments(ch)
    [] file.lang = "cpp"    -> CppDocuments(ch)
    [] OTHER -> StDocuments(ch)

\* A chunk that starts no run counts as a run of one.
RunLength == IF Joins(raw[1], raw[1]) THEN RunOf(raw, Joins) ELSE 1

\* Defect: the loop goes on at the last member of the run it has grouped.
EmitGroupStaysBehind ==
  /\ pc = "emit" /\ raw # <<>> /\ RunLength >= MinGroupRun
  /\ docs' = docs \o Grouped(SubSeq(raw, 1, RunLength))
  /\ raw' = SubSeq(raw, RunLength, Len(raw))
  /\ UNCHANGED <<file, pc, todo, run, imports, script, fileNs>>

EmitGroup ==
  /\ pc = "emit" /\ raw # <<>> /\ RunLength >= MinGroupRun
  /\ docs' = docs \o Grouped(SubSeq(raw, 1, RunLength))
  /\ raw' = SubSeq(raw, RunLength + 1, Len(raw))
  /\ UNCHANGED <<file, pc, todo, run, imports, script, fileNs>>

EmitSingle ==
  /\ pc = "emit" /\ raw # <<>> /\ RunLength < MinGroupRun
  /\ docs' = docs \o Documents(Head(raw))
  /\ raw' = Tail(raw)
  /\ UNCHANGED <<file, pc, todo, run, imports, script, fileNs>>

\* No document at all: the file is one full_file document.
Finish ==
  /\ pc = "emit" /\ raw = <<>>
  /\ pc' = "done"
  /\ docs' = IF docs = <<>> THEN <<FullFile>> ELSE docs
  /\ UNCHANGED <<file, todo, run, raw, imports, script, fileNs>>

Next ==
  \/ Parse \/ ReadFails
  \/ WalkType \/ WalkMember \/ WalkThrough \/ WalkAssignment \/ WalkComment \/ WalkDropped
  \/ WalkImport \/ WalkScript \/ WalkScope \/ EndBlock
  \/ StartEmit \/ EmitGroup \/ EmitSingle \/ Finish

Spec == Init /\ [][Next]_vars

\* -------------------------------------------------------------- properties

\* Alone in its chunk, what is too small for MIN_CHUNK_SIZE is discarded.
TooSmall(n) == file.size[n] \in {"tiny", "empty"}

\* What the readers leave out by choice or by their limits, as the place of a
\* leaf: the kind of what it stands in ("" at the top), and its own ("doc" and
\* "free" for a comment directly above a node, or not).  README, "Readers".
Unkept(lang) ==
  CASE lang = "python" ->
         {<<"", "doc">>, <<"", "free">>, <<"class_definition", "doc">>,
          <<"class_definition", "free">>, <<"", "string">>, <<"class_definition", "string">>,
          <<"class_definition", "import_statement">>, <<"class_definition", "if_statement">>,
          <<"if_statement", "function_definition">>}
    [] lang = "csharp" ->
         {<<"", "doc">>, <<"class_declaration", "doc">>, <<"class_declaration", "free">>,
          <<"class_declaration", "preproc_if">>}
    [] lang = "php" -> {<<"", "doc">>, <<"", "text_interpolation">>}
    [] lang = "go" -> {<<"", "doc">>}
    [] lang = "rust" -> {<<"", "impl_item">>}
    [] lang = "java" ->
         {<<"", "class_declaration">>, <<"", "enum_declaration">>, <<"class_declaration", "doc">>,
          <<"class_declaration", "free">>, <<"class_declaration", "static_initializer">>}
    [] lang = "groovy" -> {<<"", "class">>, <<"", "enum_constant">>, <<"class", "annotated_field">>}
    [] lang \in {"kotlin", "kts"} -> {<<"class_declaration", "free">>}
    [] lang = "js" ->
         {<<"", "class_declaration">>, <<"", "doc">>, <<"", "if_statement">>,
          <<"class_declaration", "free">>, <<"if_statement", "break_statement">>}
    [] lang = "cpp" ->
         {<<"", "doc">>, <<"", "free">>, <<"", "include_guard">>, <<"", "alias_declaration">>,
          <<"", "initialized_data">>, <<"", "preproc_if">>, <<"class_specifier", "preproc_if">>,
          <<"class_specifier", "ERROR">>, <<"class_specifier", "template_declaration">>,
          <<"class_specifier", "preproc_def">>}

Place(n) ==
  <<IF file.up[n] = 0 THEN "" ELSE file.kind[file.up[n]],
    IF file.kind[n] = "comment" THEN file.size[n] ELSE file.kind[n]>>

\* Scopes say nothing of their own.
Scopes == Namespaces \cup {"mod_item", "iife", "amd_define"}

Holds(d, n) == Upwards(file, n) \cap d.items # {}

\* The comment above a Kotlin member whose group was built from its bare node.
GroupedAway(n) ==
  \E i \in DOMAIN docs : /\ docs[i].type = "method_group" /\ file.lang \in {"kotlin", "kts"}
                        /\ \E m \in docs[i].items : n \in LeadingDoc(file, m)

\* Nothing the file says is lost on the way: every leaf of the tree is in the
\* text of some document or named by a summary, except the places Unkept lists.
\* The pending run, the group loops and the union of what a summary lists and
\* what the walk emits must not leave a gap between them.
NothingLost ==
  (pc = "done" /\ docs # <<>>) =>
    \A n \in Nodes(file) :
      (Kids(file, n) = <<>> /\ file.kind[n] \notin Scopes) =>
        \/ Place(n) \in Unkept(file.lang)
        \/ GroupedAway(n) \/ TooSmall(n)
        \/ \E i \in DOMAIN docs : Holds(docs[i], n) \/ n \in docs[i].lists

\* "Doc comments inside a summarised class are not emitted standalone; keep them
\* with the member they document" (kotlin_reader.py:714): the comment above a
\* member of a Kotlin class is in some document's text.
DocsStayWithMembers ==
  pc = "done" /\ docs # <<>> =>
    \A n \in Nodes(file) :
      Place(n) = <<"class_declaration", "doc">> => \E i \in DOMAIN docs : Holds(docs[i], n)

\* The declaration and the namespace a node really stands in.
TypeKinds == {"class_definition", "class_declaration", "enum_declaration", "class",
              "impl_item", "trait_item", "class_specifier"}

Innermost(n, kinds) ==
  LET around == {m \in Upwards(file, n) \ {n} : file.kind[m] \in kinds}
  IN  IF around = {} THEN 0 ELSE Max(around)

OwnType(n) ==
  IF file.lang = "go"
  THEN IF file.kind[n] = "method_declaration" THEN GoHead(file, file.name[n]) ELSE 0
  ELSE Innermost(n, TypeKinds)

\* A C++ method defined outside its class: any class of that name in its namespace.
OwnTypes(n) ==
  IF file.kind[n] # "scoped_function" THEN {OwnType(n)}
  ELSE {m \in Nodes(file) : /\ file.kind[m] = "class_specifier"
                            /\ file.name[m] = file.name[n]
                            /\ CppNamespace(file, m) = CppNamespace(file, n)}

OwnNs(n) ==
  IF file.lang = "cpp" THEN CppNamespace(file, n) ELSE
  LET bare == {m \in 1..n : file.kind[m] \in {"file_scoped_namespace_declaration",
                                               "namespace_statement"}}
      braced == Innermost(n, Namespaces \cup {"mod_item"})
  IN  IF braced # 0 \/ bare = {} THEN braced ELSE Max(bare)

Grouping == {"method_group", "macro_group", "function_group"}
MemberTypes ==
  Methods \cup Grouping \cup {"field_declaration", "method_definition", "cpp_function"}

\* A document's prefix is true of node n: its Class line shows the declaration n
\* stands in, or none, and its Namespace or Module line n's own.
TruePrefix(d, n) ==
  /\ d.head \in OwnTypes(n) \cup {0}
  /\ d.ns \in {OwnNs(n), 0}

\* Where the readers mix prefixes up: a Java header is looked up by the simple
\* name two types share, and a group joins what only agrees in its owner's name.
Homonyms(n) ==
  file.lang = "java" /\ \E m \in Nodes(file) :
    /\ file.kind[m] \in TypeKinds /\ m # OwnType(n)
    /\ OwnType(n) # 0 /\ file.name[m] = file.name[OwnType(n)]

Merged(d) == file.lang \in {"php", "rust"} /\ d.type = "method_group"

\* Every member a document holds stands where the document's prefix says: a group,
\* a run of assignments or a part of a long chunk must not attribute a member to
\* another class or namespace.
OwnPrefix ==
  pc = "done" =>
    \A i \in DOMAIN docs : docs[i].type \in MemberTypes =>
      \A n \in docs[i].items :
        \/ file.kind[n] = "comment" \/ Homonyms(n) \/ Merged(docs[i])
        \/ TruePrefix(docs[i], n)

\* A member's text is in one document only (in its parts when it is long): a group
\* takes its members out of the single chunks, and a walk does not enter a leaf.
NothingTwice ==
  pc = "done" =>
    \A i, j \in DOMAIN docs : \A n \in Nodes(file) :
      (i # j /\ Holds(docs[i], n) /\ Holds(docs[j], n)) =>
        docs[i].items = docs[j].items /\ docs[i].part # docs[j].part
=============================================================================
