----------------------------- MODULE SourceTree -----------------------------
(***************************************************************************)
(* What the tree-sitter readers share: a parsed file, the context a walk   *)
(* hands down, the raw chunks it collects and the verdict on one node.     *)
(*                                                                         *)
(* A file is [lang, kind, up, name, size].  Its nodes are numbered in      *)
(* source order, up[n] is the parent (0: the root), kind[n] the grammar's  *)
(* node type, name[n] a declared name (a Go method's receiver, a Rust      *)
(* impl's type).  size[n] abstracts lengths: "short" is at most            *)
(* TRIVIAL_METHOD_LINES lines, "tiny" also below MIN_CHUNK_SIZE with the   *)
(* prefix of a chunk at the top of a file, "long" is above the split       *)
(* threshold ("ragged": with a last part below MIN_CHUNK_SIZE), "empty" is *)
(* a declaration the parser made up that has no text before its body; a    *)
(* comment is "doc" when it sits directly above the next node and "free"   *)
(* otherwise (all comments here reach MIN_COMMENT_CHARS).                  *)
(***************************************************************************)
EXTENDS Naturals, Sequences, SequencesExt

Nodes(f) == DOMAIN f.kind

Kids(f, n) == SelectSeq([i \in Nodes(f) |-> i], LAMBDA m : f.up[m] = n)

KidsOf(f, n, kinds) == {m \in Nodes(f) : f.up[m] = n /\ f.kind[m] \in kinds}

\* n and the nodes it is inside of.
Upwards(f, n) ==
  LET up[m \in Nodes(f) \cup {0}] == IF m = 0 THEN {} ELSE {m} \cup up[f.up[m]]
  IN  up[n]

\* The comment directly above n, if any: text_with_doc, _leading_doc, _leading.
LeadingDoc(f, n) ==
  {m \in Nodes(f) : /\ m < n
                    /\ f.up[m] = f.up[n]
                    /\ f.kind[m] = "comment" /\ f.size[m] = "doc"
                    /\ \A o \in (m + 1)..(n - 1) : f.up[o] # f.up[n]}

WithDoc(f, n) == LeadingDoc(f, n) \cup {n}

\* ------------------------------------------------------------- contexts

\* ns: the scope node above; nest: the types above, outermost first; top: not
\* inside any of them.
TopCtx == [ns |-> 0, nest |-> <<>>, top |-> TRUE]

Inside(c, n) == [c EXCEPT !.nest = Append(@, n), !.top = FALSE]

HeadOf(c) == IF c.nest = <<>> THEN 0 ELSE Last(c.nest)

Owner(f, c) == IF c.nest = <<>> THEN "" ELSE f.name[Last(c.nest)]

At(nodes, c) == [i \in DOMAIN nodes |-> [node |-> nodes[i], ctx |-> c]]

\* The end of a block, where Python's walk_block flushes its run of assignments.
BlockEnd(c) == <<[node |-> 0, ctx |-> c]>>

\* ----------------------------------------------------------- raw chunks

\* RawChunk: items are the nodes whose text the chunk holds, lists the nodes it
\* names without their text; head is the declaration its prefix shows (0: none).
Chunk(type, items, lists, owner, head, ns, size) ==
  [type |-> type, items |-> items, lists |-> lists, owner |-> owner,
   head |-> head, ns |-> ns, size |-> size]

\* A comment makes a tiny node's chunk long enough.
SizeOf(f, n, items) == IF f.size[n] = "tiny" /\ items # {n} THEN "short" ELSE f.size[n]

Leaf(f, type, n, items, c) ==
  Chunk(type, items, {}, Owner(f, c), HeadOf(c), c.ns, SizeOf(f, n, items))

\* A type's class_summary and, above MAX_SUMMARY_CHARS, its class_overview.
Summary(f, n, c, items, lists, overview) ==
  LET summary == Chunk("class_summary", items, lists \cup {n}, f.name[n], n, c.ns, f.size[n])
  IN  IF f.size[n] \in {"long", "ragged"}
      THEN <<summary, Chunk("class_overview", {}, overview \cup {n}, f.name[n], n, c.ns, "plain")>>
      ELSE <<summary>>

\* ------------------------------------------------------------ documents

\* One chunk as documents: none below MIN_CHUNK_SIZE, two parts above its
\* threshold, of which a last one below MIN_CHUNK_SIZE is left out.  A part
\* without the prefix (repeats: later parts have it) shows no head and no scope.
Parts(ch, repeats) ==
  LET part(i) == [type |-> ch.type, items |-> ch.items, lists |-> ch.lists, part |-> i,
                  head |-> IF i = 1 \/ repeats THEN ch.head ELSE 0,
                  ns |-> IF i = 1 \/ repeats THEN ch.ns ELSE 0]
  IN  CASE ch.size = "tiny" /\ ch.head = 0 /\ ch.ns = 0 -> <<>>
        [] ch.size = "long" -> <<part(1), part(2)>>
        [] OTHER -> <<part(1)>>

Trivial(ch, types) == ch.type \in types /\ ch.size \in {"short", "tiny"}

\* The first k chunks of raw that one group may take.
RunOf(raw, joins(_, _)) ==
  CHOOSE k \in 1..Len(raw) :
    /\ \A i \in 2..k : joins(raw[1], raw[i])
    /\ k = Len(raw) \/ ~joins(raw[1], raw[k + 1])

\* A run as groups of at most max members, under one prefix: head and ns.
Groups(type, members, max, head, ns) ==
  LET last(i) == IF i * max < Len(members) THEN i * max ELSE Len(members)
      group(i) == [type |-> type, part |-> 1, lists |-> {}, head |-> head, ns |-> ns,
                   items |-> UNION {members[k].items : k \in ((i - 1) * max + 1)..last(i)}]
  IN  [i \in 1..((Len(members) + max - 1) \div max) |-> group(i)]

\* ------------------------------------------------- the verdict on one node

\* role: what the walk does with the node; out: the chunks it appends;
\* next: the nodes it walks before the rest.
Verdict(role, out, next) == [role |-> role, out |-> out, next |-> next]
Skip == Verdict("skip", <<>>, <<>>)
Drop == Verdict("drop", <<>>, <<>>)
Import == Verdict("import", <<>>, <<>>)
Script == Verdict("script", <<>>, <<>>)
Run == Verdict("run", <<>>, <<>>)
Member(chunk) == Verdict("member", <<chunk>>, <<>>)
Type(out, next) == Verdict("type", out, next)
Through(next) == Verdict("through", <<>>, next)
=============================================================================
