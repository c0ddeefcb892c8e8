----------------------------- MODULE MCReaders -----------------------------
(***************************************************************************)
(* The files of a run: every well-formed tree of a few nodes over a small  *)
(* grammar of each language.                                               *)
(***************************************************************************)
EXTENDS FileReaders

CONSTANTS Languages, MaxNodes

\* The kinds of children each kind of node may have; "root" is the file.
Grammar(lang) ==
  CASE lang = "python" ->
         [root |-> {"import_statement", "assignment", "class_definition", "function_definition",
                    "string", "comment", "if_statement"},
          class_definition |-> {"assignment", "class_definition", "function_definition",
                                "string", "comment", "if_statement", "import_statement"},
          if_statement |-> {"function_definition"}]
    [] lang = "csharp" ->
         [root |-> {"using_directive", "namespace_declaration", "class_declaration",
                    "file_scoped_namespace_declaration", "global_statement", "comment"},
          namespace_declaration |-> {"class_declaration", "delegate_declaration"},
          class_declaration |-> {"method_declaration", "class_declaration", "comment",
                                 "enum_member_declaration", "preproc_if"},
          preproc_if |-> {"method_declaration"}]
    [] lang = "php" ->
         [root |-> {"namespace_definition", "namespace_statement", "namespace_use_declaration",
                    "class_declaration", "function_definition", "comment", "text_interpolation",
                    "if_statement"},
          namespace_definition |-> {"class_declaration", "function_definition"},
          class_declaration |-> {"method_declaration", "enum_case", "comment"},
          if_statement |-> {"function_definition"}]
    [] lang = "go" ->
         [root |-> {"import_declaration", "struct_type", "named_type", "function_declaration",
                    "method_declaration", "const_declaration", "comment"}]
    [] lang = "rust" ->
         [root |-> {"use_declaration", "struct_item", "impl_item", "function_item", "mod_item",
                    "macro_invocation", "trait_item"},
          impl_item |-> {"function_item", "type_item"},
          trait_item |-> {"function_item", "function_signature_item"},
          mod_item |-> {"use_declaration", "function_item", "struct_item"}]
    [] lang = "java" ->
         [root |-> {"import_declaration", "class_declaration", "enum_declaration", "comment"},
          class_declaration |-> {"method_declaration", "field_declaration", "class_declaration",
                                 "comment", "static_initializer"},
          enum_declaration |-> {"enum_constant", "method_declaration"},
          enum_constant |-> {"method_declaration"}]
    [] lang = "groovy" ->
         [root |-> {"import", "class", "method", "field", "comment", "enum_constant"},
          class |-> {"method", "field", "class", "enum_constant", "annotated_field", "comment"}]
    [] lang \in {"kotlin", "kts"} ->
         [root |-> {"import_header", "class_declaration", "function_declaration", "comment"}
                   \cup (IF lang = "kts" THEN {"call_expression"} ELSE {}),
          class_declaration |-> {"function_declaration", "class_declaration", "enum_entry",
                                 "anonymous_initializer", "comment"},
          enum_entry |-> {"function_declaration"}]
    [] lang = "js" ->
         [root |-> {"import_statement", "require_declaration", "class_declaration",
                    "function_declaration", "prototype_assignment", "iife", "comment",
                    "if_statement"},
          class_declaration |-> {"method_definition", "field_definition", "comment"},
          iife |-> {"amd_define", "function_declaration", "expression_statement"},
          amd_define |-> {"function_declaration"},
          if_statement |-> {"function_declaration", "break_statement"}]
    [] lang = "cpp" ->
         [root |-> {"preproc_include", "preproc_def", "include_guard", "class_specifier",
                    "enum_specifier", "function_definition", "scoped_function",
                    "macro_function", "namespace_definition", "declaration",
                    "initialized_data", "alias_declaration", "comment", "preproc_if"},
          namespace_definition |-> {"class_specifier", "function_definition",
                                    "scoped_function", "declaration"},
          class_specifier |-> {"function_definition", "field_declaration", "access_specifier",
                               "comment", "template_declaration", "preproc_def", "preproc_if",
                               "ERROR"},
          field_declaration |-> {"class_specifier"},
          preproc_if |-> {"function_definition"},
          ERROR |-> {"class_specifier", "function_definition"}]

\* Sizes and names that matter, by kind.
Sized == {"method_declaration", "function_definition", "function_item", "method",
            "function_declaration", "method_definition", "scoped_function"}

Types == {"class_definition", "class_declaration", "enum_declaration", "class", "struct_item",
          "impl_item", "trait_item", "struct_type", "class_specifier", "scoped_function"}

Sizes(lang, kind) ==
  CASE kind = "comment" -> {"free", "doc"}
    [] kind \in Sized -> {"short", "plain"}
    [] kind = "macro_invocation" -> {"short", "tiny"}
    [] kind \in {"assignment", "global_statement", "call_expression", "expression_statement"} ->
         {"plain", "tiny"}
    [] kind = "class_declaration" /\ lang = "kotlin" -> {"plain", "empty"}
    [] kind = "text_interpolation" -> {"long"}
    [] kind = "initialized_data" -> {"short", "plain"}
    [] kind \in {"class_definition", "class_specifier"} \/ (kind = "class_declaration" /\ lang = "java") ->
         {"plain", "long", "ragged"}
    [] kind = "field_declaration" -> {"long"}
    [] OTHER -> {"plain"}

Names(lang, kind) ==
  IF kind \in Types \/ (lang = "go" /\ kind = "method_declaration")
     \/ kind \in {"prototype_assignment", "macro_invocation"}
  THEN {"A", "B"} \cup (IF lang = "kotlin" THEN {""} ELSE {})
  ELSE IF kind = "namespace_definition" /\ lang = "cpp" THEN {"N"} ELSE {""}

Empty(lang) == [lang |-> lang, kind |-> <<>>, up |-> <<>>, name |-> <<>>, size |-> <<>>]

KindAt(f, n) == IF n = 0 THEN "root" ELSE f.kind[n]

Grow(f) ==
  LET last == Len(f.kind)
      open == {p \in Upwards(f, last) \cup {0} : KindAt(f, p) \in DOMAIN Grammar(f.lang)}
  IN  UNION {{[f EXCEPT !.kind = Append(@, k), !.up = Append(@, p),
                        !.name = Append(@, nm), !.size = Append(@, sz)] :
              nm \in Names(f.lang, k), sz \in Sizes(f.lang, k)} :
             <<p, k>> \in UNION {{p} \X Grammar(f.lang)[KindAt(f, p)] : p \in open}}

\* A doc comment has a declaration under it; a type is not nested in its
\* namesake; a declaration without text has no name.
WellFormed(f) ==
  /\ \A n \in Nodes(f) :
       f.lang = "kotlin" /\ f.kind[n] = "class_declaration" => (f.name[n] = "") = (f.size[n] = "empty")
  /\ \A n \in Nodes(f) :
       (f.kind[n] = "comment" /\ f.size[n] = "doc") =>
         \E m \in Nodes(f) : n \in LeadingDoc(f, m) /\ f.kind[m] # "comment" /\ f.size[m] # "empty"
  /\ \A n \in Nodes(f) : \A m \in Upwards(f, n) \ {n} :
       f.kind[n] = "namespace_definition" \/ f.name[n] = "" \/ f.name[n] # f.name[m]

\* Where trees grow from: an empty file, and a start that two more nodes complete.
Node(kind, up, name, size) == [kind |-> kind, up |-> up, name |-> name, size |-> size]

Start(lang) ==
  CASE lang = "python" -> <<Node("class_definition", 0, "A", "plain"),
                            Node("class_definition", 1, "B", "plain"),
                            Node("function_definition", 2, "", "short")>>
    [] lang = "csharp" -> <<Node("class_declaration", 0, "A", "plain"),
                            Node("class_declaration", 1, "B", "plain"),
                            Node("method_declaration", 2, "", "short")>>
    [] lang = "java" -> <<Node("class_declaration", 0, "A", "plain"),
                          Node("class_declaration", 1, "B", "plain"),
                          Node("method_declaration", 2, "", "short")>>
    [] lang \in {"kotlin", "kts"} -> <<Node("class_declaration", 0, "A", "plain"),
                                       Node("class_declaration", 1, "B", "plain"),
                                       Node("function_declaration", 2, "", "short")>>
    [] lang = "groovy" -> <<Node("class", 0, "A", "plain"), Node("class", 1, "B", "plain"),
                            Node("method", 2, "", "short")>>
    [] lang = "php" -> <<Node("namespace_definition", 0, "", "plain"),
                         Node("function_definition", 1, "", "short")>>
    [] lang = "go" -> <<Node("struct_type", 0, "A", "plain"),
                        Node("method_declaration", 0, "A", "short")>>
    [] lang = "rust" -> <<Node("struct_item", 0, "A", "plain"), Node("impl_item", 0, "A", "plain"),
                          Node("function_item", 2, "", "short")>>
    [] lang = "js" -> <<Node("class_declaration", 0, "A", "plain"),
                        Node("method_definition", 1, "", "short")>>

\* C++ has three: a type in a region that does not parse, one in a field, and
\* a namespace.
Starts(lang) ==
  IF lang = "cpp"
  THEN {<<Node("class_specifier", 0, "A", "plain"), Node(around, 1, "", "plain"),
          Node("class_specifier", 2, "B", "plain")>> : around \in {"ERROR", "field_declaration"}}
       \cup {<<Node("namespace_definition", 0, "N", "plain"),
               Node("function_definition", 1, "", "short")>>}
  ELSE {Start(lang)}

StartFile(lang, nodes) ==
      [lang |-> lang, kind |-> [i \in DOMAIN nodes |-> nodes[i].kind],
       up |-> [i \in DOMAIN nodes |-> nodes[i].up], name |-> [i \in DOMAIN nodes |-> nodes[i].name],
       size |-> [i \in DOMAIN nodes |-> nodes[i].size]]

Trees(lang) ==
  LET grown[k \in 0..MaxNodes] ==
        IF k = 0 THEN {Empty(lang)} \cup {StartFile(lang, nodes) : nodes \in Starts(lang)}
        ELSE UNION {Grow(f) : f \in grown[k - 1]}
  IN  {f \in UNION {grown[k] : k \in 0..MaxNodes} : f.kind # <<>> /\ WellFormed(f)}

MCFiles == UNION {Trees(lang) : lang \in Languages}
=============================================================================
