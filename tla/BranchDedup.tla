----------------------------- MODULE BranchDedup -----------------------------
(***************************************************************************)
(* shared/branch_dedup.py: which chunks a branch search returns.  A chunk  *)
(* is a record with a path, the branch label it was indexed under, an id   *)
(* and a score; the operators are pure.                                    *)
(***************************************************************************)
EXTENDS Ranking

CONSTANTS
  Main,       \* label of main-branch chunks
  Overlay,    \* label of the overlay asked for
  NoBranch,   \* a chunk without branch payload
  NoPath      \* a chunk without file_path

\* Every list a search handles holds each chunk once.
InList(list) == {list[i] : i \in DOMAIN list}

\* build_branch_filter, with a feature branch and without.
BranchFilter(chunk, withOverlay) ==
  \/ chunk.branch \in {Main, NoBranch}
  \/ withOverlay /\ chunk.branch = Overlay

\* _partition_for_dedup: the chunks that compete for one path.
Partition(chunks, path, tombstones) ==
  {c \in chunks : c.path = path /\ path # NoPath /\ path \notin tombstones}

\* _prefer_overlay_entries: the overlay's chunks, else those of no branch, else main's.
PreferOverlay(entries) ==
  LET of(label) == {c \in entries : c.branch = label}
  IN  IF of(Overlay) # {} THEN of(Overlay)
      ELSE IF of(NoBranch) # {} THEN of(NoBranch)
      ELSE {c \in entries : c.branch \notin {Overlay, NoBranch}}

Preferred(chunks, tombstones) ==
  UNION {PreferOverlay(Partition(chunks, c.path, tombstones)) : c \in chunks}

Pathless(chunks) == {c \in chunks : c.path = NoPath}

\* The winners of every path, and what has no path.
Kept(chunks, tombstones) == Preferred(chunks, tombstones) \cup Pathless(chunks)

\* Defect: the lists are not joined, each decides for itself.
ShadowedInExtra(nodes, extra, tombstones) ==
  {c \in InList(nodes) :
     /\ c.branch \notin {Overlay, NoBranch}
     /\ \E e \in Preferred(InList(nodes), tombstones) : e.path = c.path /\ e.branch = Overlay}

\* filter_symbol_candidates: main's copies of a path of which either list
\* holds an overlay chunk that is not hidden by a tombstone.
Shadowed(nodes, extra, tombstones) ==
  LET union == InList(nodes) \cup InList(extra)
  IN  {c \in InList(nodes) :
         /\ c.branch \notin {Overlay, NoBranch}
         /\ \E e \in Partition(union, c.path, tombstones) : e.branch = Overlay}

FilteredNodes(nodes, extra, tombstones) ==
  IF extra = <<>> THEN nodes
  ELSE Picked(nodes, {i \in DOMAIN nodes : nodes[i] \notin Shadowed(nodes, extra, tombstones)})

SurvivingExtra(nodes, extra, tombstones) ==
  LET union == InList(nodes) \cup InList(extra)
  IN  Picked(extra, {i \in DOMAIN extra : extra[i] \in Kept(union, tombstones)})

\* Best score first; ties file by file, in the order the files came.
DedupBefore(nodes, i, j) ==
  LET first(k) == IF nodes[k].path = NoPath THEN Len(nodes) + 1
                  ELSE CHOOSE f \in DOMAIN nodes :
                         /\ nodes[f].path = nodes[k].path
                         /\ \A g \in 1 .. f - 1 : nodes[g].path # nodes[k].path
  IN  \/ nodes[i].score > nodes[j].score
      \/ /\ nodes[i].score = nodes[j].score
         /\ first(i) < first(j) \/ (first(i) = first(j) /\ i < j)

Best(nodes, winners, topK) ==
  LET places == {i \in DOMAIN nodes : nodes[i] \in winners}
      ranked == Arranged(nodes, places, {ij \in places \X places : DedupBefore(nodes, ij[1], ij[2])})
  IN  SubSeq(ranked, 1, IF topK < Len(ranked) THEN topK ELSE Len(ranked))

\* dedup_branch_results: the winners of every path, cut to topK.
Dedup(nodes, tombstones, topK) == Best(nodes, Kept(InList(nodes), tombstones), topK)
=============================================================================
