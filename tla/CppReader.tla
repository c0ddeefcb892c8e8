------------------------------ MODULE CppReader ------------------------------
(***************************************************************************)
(* The C and C++ reader (cpp_reader.py): _ChunkCollector walks the file,   *)
(* records events in source order and groups them afterwards.  The         *)
(* operators have the form of StructuredReaders'.  Kinds that are not the  *)
(* grammar's own: "scoped_function" is a function_definition of            *)
(* Class::method (its name: the class), "macro_function" a call statement  *)
(* with a block below it, "initialized_data" a declaration with an         *)
(* initializer list ("short": below MIN_DATA_LINES), "include_guard" a     *)
(* preproc_def without a value.  A comment stands for adjacent comments.   *)
(* What the reader does about text the grammar cannot parse (blanked       *)
(* annotations, recovered regions, split signatures) is not modelled.      *)
(***************************************************************************)
EXTENDS SourceTree, FiniteSets, FiniteSetsExt

CppFunctions == {"function_definition", "scoped_function", "macro_function"}

\* Namespaces are compared by name: the first block of n's qualified name.
CppPath(f, n) ==
  LET around == {m \in Upwards(f, n) : f.kind[m] = "namespace_definition"}
  IN  [i \in 1..Cardinality(around) |-> f.name[SetToSortSeq(around, <)[i]]]

CppNamespace(f, n) ==
  LET scopes == {m \in Nodes(f) : /\ f.kind[m] = "namespace_definition"
                                 /\ CppPath(f, m) = CppPath(f, n)}
  IN  IF CppPath(f, n) = <<>> \/ scopes = {} THEN 0 ELSE Min(scopes)

\* ---------------------------------------------------------------- classes

\* _one_member: conditionals and parse errors belong to the class around them.
CppSplices == {"preproc_if", "ERROR"}

CppMembers(f, n) ==
  {m \in Nodes(f) : /\ m # n /\ n \in Upwards(f, m)
                    /\ \A o \in Upwards(f, m) \ (Upwards(f, n) \cup {m}) :
                         f.kind[o] \in CppSplices}

\* Without a body the text of a member is its line, with one it ends there.
CppLine(f, m) ==
  {k \in Nodes(f) : /\ m \in Upwards(f, k)
                    /\ \A o \in m..(k - 1) : f.kind[o] # "function_definition"}

\* _members: a nested type counts here when it stands bare, as in an ERROR; in
\* a field_declaration it is the text of that field.
CppListed(f, n) ==
  UNION {CppLine(f, m) : m \in {k \in CppMembers(f, n) :
           f.kind[k] \in {"function_definition", "field_declaration"}}}
  \cup {m \in CppMembers(f, n) : f.kind[m] \in {"comment", "access_specifier", "class_specifier"}}

CppHasBody(f, m) ==
  /\ f.kind[m] \in {"function_definition", "field_declaration"}
  /\ \E k \in Nodes(f) : m \in Upwards(f, k) /\ f.kind[k] = "function_definition"

CppSorted(nodes) == SetToSortSeq(nodes, <)

\* _emit_type: the types inside come first, then the summary (which is at its
\* second visit, inside itself), then its functions.
CppOpened(f, n, c) ==
  At(CppSorted({m \in CppMembers(f, n) : f.kind[m] = "class_specifier"}), c)
  \o At(<<n>> \o CppSorted({m \in CppMembers(f, n) : CppHasBody(f, m)}), Inside(c, n))

\* _overview's listing, cut at 2000 characters, goes before the summary.
CppSummary(f, n, c) == Reverse(Summary(f, n, c, LeadingDoc(f, n), CppListed(f, n), {}))

CppClass(f, n, c) ==
  IF HeadOf(c) = n THEN Type(CppSummary(f, n, c), <<>>) ELSE Through(CppOpened(f, n, c))

\* ----------------------------------------------------------------- events

\* _attach_comment: the comment on the lines above goes with the node.
CppCommented(f, n) == WithDoc(f, n)

\* _function_event: Class::method names its class, a member has its header too.
CppFunction(f, n, c) ==
  Chunk("cpp_function", CppCommented(f, n), {},
        IF f.kind[n] = "scoped_function" THEN f.name[n] ELSE Owner(f, c),
        HeadOf(c), c.ns, f.size[n])

CppText(f, type, n, items, c) == Chunk(type, items, {}, "", 0, c.ns, f.size[n])

CppPrototype(f, n, c) == CppText(f, "declaration_group", n, {n}, c)

CppEnum(f, n, c) == CppText(f, "enum_declaration", n, CppCommented(f, n), c)

CppMacro(f, n, c) == CppText(f, "macro_group", n, CppCommented(f, n), c)

CppData(f, n, c) ==
  IF f.size[n] = "short" THEN Drop
  ELSE Member(CppText(f, "variable_definition", n, CppCommented(f, n), c))

CppVerdict(f, n, c) ==
  CASE f.kind[n] = "class_specifier" -> CppClass(f, n, c)
    [] f.kind[n] \in CppFunctions \cup {"field_declaration"} -> Member(CppFunction(f, n, c))
    [] f.kind[n] = "enum_specifier" -> Member(CppEnum(f, n, c))
    [] f.kind[n] = "declaration" -> Member(CppPrototype(f, n, c))
    [] f.kind[n] = "initialized_data" -> CppData(f, n, c)
    [] f.kind[n] = "preproc_def" -> Member(CppMacro(f, n, c))
    [] f.kind[n] = "preproc_include" -> Import
    [] f.kind[n] = "namespace_definition" ->
         Through(At(Kids(f, n), [c EXCEPT !.ns = CppNamespace(f, n)]))
    [] f.kind[n] \in {"comment", "include_guard", "alias_declaration"} -> Drop
    [] OTHER -> Through(At(Kids(f, n), c))

\* --------------------------------------------------------------- grouping

\* _group_events: trivial functions of one class name and namespace; prototypes
\* and macros of one namespace whatever their number and length.
CppJoins(f, a, b) ==
  /\ b.ns = a.ns
  /\ \/ Trivial(a, {"cpp_function"}) /\ Trivial(b, {"cpp_function"}) /\ b.owner = a.owner
     \/ a.type \in {"declaration_group", "macro_group"} /\ b.type = a.type

CppParts(ch) == Parts(ch, TRUE)

\* The prefix of a single function has the name of its class, not its header.
CppDocuments(ch) ==
  CppParts(IF ch.type = "cpp_function" THEN [ch EXCEPT !.head = 0] ELSE ch)

CppTextGroup(members) ==
  Groups(members[1].type, members, Len(members), 0, members[1].ns)

\* Above MAX_GROUP_CHARS the functions of a run are documents of their own.
CppFunctionGroup(members, max) ==
  IF Len(members) > max
  THEN FlattenSeq([i \in DOMAIN members |-> CppDocuments(members[i])])
  ELSE Groups("method_group", members, max, members[1].head, members[1].ns)

CppGroup(members, max) ==
  IF members[1].type = "cpp_function" THEN CppFunctionGroup(members, max)
  ELSE CppTextGroup(members)
=============================================================================
