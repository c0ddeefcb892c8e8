---------------------------- MODULE SearchProofs ----------------------------
(***************************************************************************)
(* Machine-checked proofs about Search: its three properties hold for any  *)
(* collection and changes of it, any query and settings, and any answers   *)
(* of the legs, the lookup and the encoder.                                *)
(*                                                                         *)
(* Every sort of a search is by a total order, so that a list comes out    *)
(* that holds each entry once; all that follows only rearranges, cuts and  *)
(* joins such lists.  What is left to show is then about ids and ranks:    *)
(* which copies of a path deduplication keeps, that a share of a score     *)
(* falls with the rank, and that a full answer has no place for the rest.  *)
(***************************************************************************)
EXTENDS Search, FiniteSetTheorems, SequenceTheorems, TLAPS

(* Sorting: a list comes out, whatever the order. *)

\* A total order of the members of S.
Orders(before, S) ==
  /\ \A x \in S : <<x, x>> \notin before
  /\ \A x, y, z \in S : <<x, y>> \in before /\ <<y, z>> \in before => <<x, z>> \in before
  /\ \A x, y \in S : x # y => <<x, y>> \in before \/ <<y, x>> \in before

\* f lists the members of S.
Lists(f, S) ==
  /\ f \in [1 .. Cardinality(S) -> S]
  /\ \A p, q \in DOMAIN f : f[p] = f[q] => p = q
  /\ \A x \in S : \E p \in DOMAIN f : f[p] = x

\* An order puts a finite set in a row: the place of a member is the number of
\* those before it, and these numbers are all different.
LEMMA OrderedRow ==
  ASSUME NEW S, IsFiniteSet(S), NEW before, Orders(before, S)
  PROVE  \E f \in [1 .. Cardinality(S) -> S] :
           /\ \A p, q \in DOMAIN f : p < q => <<f[p], f[q]>> \in before
           /\ \A x \in S : \E p \in DOMAIN f : f[p] = x
<1> DEFINE n == Cardinality(S)
           Under(x) == {y \in S : <<y, x>> \in before}
           place == [x \in S |-> Cardinality(Under(x)) + 1]
<1>1. n \in Nat
  BY FS_CardinalityType
<1>2. \A x \in S : IsFiniteSet(Under(x)) /\ Cardinality(Under(x)) \in Nat
  <2> TAKE x \in S
  <2>1. Under(x) \in SUBSET S
    OBVIOUS
  <2>2. IsFiniteSet(Under(x))
    BY <2>1, FS_Subset
  <2> QED BY <2>2, FS_CardinalityType
<1>3. \A x, y \in S : <<x, y>> \in before => place[x] < place[y]
  <2> TAKE x \in S, y \in S
  <2> HAVE <<x, y>> \in before
  <2>1. Under(x) \in SUBSET Under(y)
    BY DEF Orders
  <2>2. x \in Under(y) /\ x \notin Under(x)
    BY DEF Orders
  <2>3. /\ Cardinality(Under(x)) <= Cardinality(Under(y))
        /\ Cardinality(Under(y)) = Cardinality(Under(x)) => Under(y) = Under(x)
    <3> HIDE DEF Under
    <3> QED BY <1>2, <2>1, FS_Subset
  <2>4. Cardinality(Under(x)) # Cardinality(Under(y))
    BY <2>2, <2>3
  <2> QED
    <3> HIDE DEF Under
    <3> QED BY <1>2, <2>3, <2>4
<1>4. \A x \in S : place[x] \in 1 .. n
  <2> TAKE x \in S
  <2>1. Under(x) \in SUBSET (S \ {x})
    BY DEF Orders
  <2>2. IsFiniteSet(S \ {x}) /\ Cardinality(S \ {x}) = n - 1
    BY FS_RemoveElement
  <2>3. Cardinality(Under(x)) <= n - 1
    <3> HIDE DEF Under, n
    <3> QED BY <2>1, <2>2, FS_Subset
  <2> QED
    <3> HIDE DEF Under, n
    <3> QED BY <1>1, <1>2, <2>3
<1>5. \A x, y \in S : place[x] = place[y] => x = y
  <2> TAKE x \in S, y \in S
  <2> HAVE place[x] = place[y]
  <2>1. place[x] \in Int /\ place[y] \in Int
    BY <1>1, <1>4
  <2>2. ~(<<x, y>> \in before) /\ ~(<<y, x>> \in before)
    <3> HIDE DEF place
    <3> QED BY <1>3, <2>1
  <2> QED BY <2>2 DEF Orders
<1>6. \A p \in 1 .. n : \E x \in S : place[x] = p
  <2>1. place \in Injection(S, 1 .. n)
    <3> HIDE DEF n
    <3> QED BY <1>4, <1>5 DEF Injection, IsInjective
  <2>2. IsFiniteSet(1 .. n) /\ Cardinality(1 .. n) = n
    BY <1>1, FS_Interval
  <2>3. place \in Surjection(S, 1 .. n)
    <3> HIDE DEF place
    <3> QED BY <2>1, <2>2, FS_Injection
  <2> HIDE DEF place
  <2> QED BY <2>3 DEF Surjection
<1> HIDE DEF place, n
<1> DEFINE f == [p \in 1 .. n |-> CHOOSE x \in S : place[x] = p]
<1>7. \A p \in 1 .. n : f[p] \in S /\ place[f[p]] = p
  BY <1>6
<1> HIDE DEF f
<1>8. f \in [1 .. n -> S]
  BY <1>7 DEF f
<1>9. \A p, q \in 1 .. n : p < q => <<f[p], f[q]>> \in before
  <2> TAKE p \in 1 .. n, q \in 1 .. n
  <2> HAVE p < q
  <2>1. f[p] # f[q]
    BY <1>1, <1>7
  <2>2. ~(<<f[q], f[p]>> \in before)
    BY <1>1, <1>3, <1>7
  <2> QED BY <1>7, <2>1, <2>2 DEF Orders
<1>10. \A x \in S : f[place[x]] = x
  BY <1>4, <1>5, <1>7
<1> QED BY <1>4, <1>8, <1>9, <1>10 DEF n

LEMMA RankedLists ==
  ASSUME NEW S, IsFiniteSet(S), NEW before, Orders(before, S)
  PROVE  /\ Lists(Ranked(S, before), S)
         /\ \A p, q \in DOMAIN Ranked(S, before) :
              p < q => <<Ranked(S, before)[p], Ranked(S, before)[q]>> \in before
<1>0. Cardinality(S) \in Nat
  BY FS_CardinalityType
<1>1. PICK f \in [1 .. Cardinality(S) -> S] :
           /\ \A p, q \in DOMAIN f : p < q => <<f[p], f[q]>> \in before
           /\ \A x \in S : \E p \in DOMAIN f : f[p] = x
  BY OrderedRow
<1>2. f \in SetToSeqs(S)
  <2>0. \A p, q \in 1 .. Cardinality(S) : p < q => f[p] # f[q]
    BY <1>1 DEF Orders
  <2>1. \A p, q \in 1 .. Cardinality(S) : p # q => f[p] # f[q]
    <3> SUFFICES ASSUME NEW p \in 1 .. Cardinality(S), NEW q \in 1 .. Cardinality(S), p # q
                 PROVE  f[p] # f[q]
      OBVIOUS
    <3>1. p < q \/ q < p
      BY <1>0
    <3> QED BY <2>0, <3>1
  <2> QED BY <2>1 DEF SetToSeqs
<1> DEFINE r == Ranked(S, before)
<1>3. /\ r \in SetToSeqs(S)
      /\ \A p, q \in DOMAIN r : p < q => <<r[p], r[q]>> \in before
  BY <1>1, <1>2 DEF Ranked
<1> HIDE DEF r
<1>4. /\ r \in [1 .. Cardinality(S) -> S]
      /\ \A p, q \in 1 .. Cardinality(S) : p # q => r[p] # r[q]
  BY <1>3 DEF SetToSeqs
<1>5. \A x \in S : \E p \in DOMAIN r : r[p] = x
  <2>1. r \in Injection(1 .. Cardinality(S), S)
    BY <1>4 DEF Injection, IsInjective
  <2>2. IsFiniteSet(1 .. Cardinality(S)) /\ Cardinality(1 .. Cardinality(S)) = Cardinality(S)
    BY <1>0, FS_Interval
  <2>3. r \in Surjection(1 .. Cardinality(S), S)
    BY <2>1, <2>2, FS_Injection
  <2> QED BY <2>3 DEF Surjection
<1> QED BY <1>3, <1>4, <1>5 DEF Lists, r

\* The places an arrangement takes its entries from.
LEMMA ArrangedPlaces ==
  ASSUME NEW list, IsFiniteSet(DOMAIN list), NEW places \in SUBSET DOMAIN list,
         NEW before, Orders(before, places)
  PROVE  /\ Cardinality(places) \in Nat
         /\ \E at \in [1 .. Cardinality(places) -> places] :
              /\ Arranged(list, places, before) = [k \in 1 .. Cardinality(places) |-> list[at[k]]]
              /\ \A p, q \in 1 .. Cardinality(places) : at[p] = at[q] => p = q
              /\ \A p, q \in 1 .. Cardinality(places) : p < q => <<at[p], at[q]>> \in before
              /\ \A i \in places : \E k \in 1 .. Cardinality(places) : at[k] = i
<1>1. IsFiniteSet(places)
  BY FS_Subset
<1>2. Cardinality(places) \in Nat
  BY <1>1, FS_CardinalityType
<1> DEFINE at == Ranked(places, before)
<1>3. /\ Lists(at, places)
      /\ \A p, q \in DOMAIN at : p < q => <<at[p], at[q]>> \in before
  BY <1>1, RankedLists
<1>4. Arranged(list, places, before) = [k \in DOMAIN at |-> list[at[k]]]
  BY DEF Arranged
<1> HIDE DEF at
<1>5. at \in [1 .. Cardinality(places) -> places] /\ DOMAIN at = 1 .. Cardinality(places)
  BY <1>3 DEF Lists
<1> QED BY <1>2, <1>3, <1>4, <1>5 DEF Lists

LEMMA UpwardsOrders ==
  ASSUME NEW places \in SUBSET Int
  PROVE  Orders(Upwards(places), places)
BY DEF Orders, Upwards

-----------------------------------------------------------------------------
(* Lists of chunks. *)

Scores == Int \cup {NoScore}
Open(withOverlay) == {id \in DOMAIN Chunks : Dedup!BranchFilter(Chunks[id], withOverlay)}
Rows(withOverlay) ==
  {c \in [id : Open(withOverlay), path : {Chunks[id].path : id \in DOMAIN Chunks},
          branch : {Chunks[id].branch : id \in DOMAIN Chunks}, score : Scores] :
     c.path = Chunks[c.id].path /\ c.branch = Chunks[c.id].branch}

\* A list of chunks a search may return, each of them once.
Listed(list, rows) ==
  /\ list \in Seq(rows)
  /\ \A i, j \in DOMAIN list : list[i].id = list[j].id => i = j
Shows(list) == {list[i].id : i \in DOMAIN list}

LEMMA ChunkIsRow ==
  ASSUME NEW b, NEW id \in Open(b), NEW s \in Scores
  PROVE  /\ ChunkOf(id, s) \in Rows(b)
         /\ ChunkOf(id, s).id = id /\ ChunkOf(id, s).score = s
BY DEF ChunkOf, Rows, Open

LEMMA RescoredIsRow ==
  ASSUME NEW b, NEW c \in Rows(b), NEW s \in Scores
  PROVE  /\ [c EXCEPT !.score = s] \in Rows(b)
         /\ [c EXCEPT !.score = s].id = c.id
         /\ [c EXCEPT !.score = s].score = s
BY DEF Rows

LEMMA ListDomain ==
  ASSUME NEW rows, NEW list, Listed(list, rows)
  PROVE  /\ DOMAIN list = 1 .. Len(list) /\ Len(list) \in Nat
         /\ DOMAIN list \subseteq Int /\ IsFiniteSet(DOMAIN list)
         /\ \A i \in DOMAIN list : list[i] \in rows
<1>1. DOMAIN list = 1 .. Len(list) /\ Len(list) \in Nat /\ list \in [1 .. Len(list) -> rows]
  BY LenProperties DEF Listed
<1>2. IsFiniteSet(1 .. Len(list))
  BY <1>1, FS_Interval
<1> QED BY <1>1, <1>2

\* Any arrangement of a list is one, and shows nothing else.
LEMMA ArrangedListed ==
  ASSUME NEW rows, NEW list, Listed(list, rows), NEW places \in SUBSET DOMAIN list,
         NEW before, Orders(before, places)
  PROVE  /\ Listed(Arranged(list, places, before), rows)
         /\ Dedup!InList(Arranged(list, places, before)) = {list[i] : i \in places}
         /\ Len(Arranged(list, places, before)) = Cardinality(places)
<1> DEFINE n == Cardinality(places)
           a == Arranged(list, places, before)
<1>1. IsFiniteSet(DOMAIN list) /\ \A i \in DOMAIN list : list[i] \in rows
  BY ListDomain
<1>2. n \in Nat
  BY <1>1, ArrangedPlaces
<1>3. PICK at \in [1 .. n -> places] :
              /\ a = [k \in 1 .. n |-> list[at[k]]]
              /\ \A p, q \in 1 .. n : at[p] = at[q] => p = q
              /\ \A i \in places : \E k \in 1 .. n : at[k] = i
  BY <1>1, ArrangedPlaces, SMTT(30)
<1> HIDE DEF n, a
<1>4. a \in Seq(rows) /\ Len(a) = n /\ DOMAIN a = 1 .. n
  BY <1>1, <1>2, <1>3
<1>5. ASSUME NEW p \in DOMAIN a, NEW q \in DOMAIN a, a[p].id = a[q].id
      PROVE  p = q
  <2>1. p \in 1 .. n /\ q \in 1 .. n /\ a[p] = list[at[p]] /\ a[q] = list[at[q]]
    BY <1>3, <1>4
  <2>2. at[p] \in DOMAIN list /\ at[q] \in DOMAIN list
    BY <1>3, <2>1
  <2>3. at[p] = at[q]
    BY <1>5, <2>1, <2>2 DEF Listed
  <2> QED BY <1>3, <2>1, <2>3
<1>6. Dedup!InList(a) = {list[i] : i \in places}
  BY <1>3, <1>4 DEF Dedup!InList
<1> QED BY <1>4, <1>5, <1>6 DEF Listed, a, n

LEMMA PickedListed ==
  ASSUME NEW rows, NEW list, Listed(list, rows), NEW places \in SUBSET DOMAIN list
  PROVE  /\ Listed(Picked(list, places), rows)
         /\ Dedup!InList(Picked(list, places)) = {list[i] : i \in places}
         /\ Len(Picked(list, places)) = Cardinality(places)
<1>1. Orders(Upwards(places), places)
  BY ListDomain, UpwardsOrders
<1> QED BY <1>1, ArrangedListed DEF Picked

LEMMA CutListed ==
  ASSUME NEW rows, NEW list, Listed(list, rows), NEW k \in Int
  PROVE  LET cut == SubSeq(list, 1, IF k < Len(list) THEN k ELSE Len(list))
         IN  /\ Listed(cut, rows) /\ Shows(cut) \subseteq Shows(list)
             /\ Len(cut) = IF k < 0 THEN 0 ELSE IF k < Len(list) THEN k ELSE Len(list)
             /\ \A i \in 1 .. Len(cut) : cut[i] = list[i] /\ i \in 1 .. Len(list)
<1> DEFINE n == IF k < Len(list) THEN k ELSE Len(list)
           cut == SubSeq(list, 1, n)
<1>1. /\ DOMAIN list = 1 .. Len(list) /\ Len(list) \in Nat
      /\ \A i \in DOMAIN list : list[i] \in rows
  BY ListDomain
<1>2. n \in Int /\ n <= Len(list)
  BY <1>1
<1>3. \A i \in 1 .. n : list[i] \in rows
  BY <1>1, <1>2
<1>n. n = IF k < Len(list) THEN k ELSE Len(list)
  OBVIOUS
<1> HIDE DEF n
<1>4. /\ cut \in Seq(rows) /\ Len(cut) = IF 1 <= n THEN n - 1 + 1 ELSE 0
      /\ \A i \in 1 .. n - 1 + 1 : cut[i] = list[1 + i - 1]
  BY <1>2, <1>3, SubSeqProperties, 1 \in Int
<1> HIDE DEF cut
<1>5. Len(cut) = IF 1 <= n THEN n ELSE 0
  BY <1>2, <1>4
<1>6. \A i \in 1 .. Len(cut) : cut[i] = list[i] /\ i \in 1 .. Len(list)
  BY <1>1, <1>2, <1>4, <1>5
<1>7. DOMAIN cut = 1 .. Len(cut)
  BY <1>4, LenProperties
<1>8. Listed(cut, rows) /\ Shows(cut) \subseteq Shows(list)
  BY <1>1, <1>4, <1>6, <1>7 DEF Listed, Shows
<1>9. Len(cut) = IF k < 0 THEN 0 ELSE IF k < Len(list) THEN k ELSE Len(list)
  <2>1. CASE k < 0
    <3>0. k < Len(list)
      BY <1>1, <2>1
    <3>1. n < 0
      BY <1>n, <2>1, <3>0
    <3>2. Len(cut) = 0
      BY <1>2, <1>5, <3>1
    <3> QED BY <2>1, <3>2
  <2>2. CASE k >= 0 /\ k < Len(list)
    <3>1. n = k
      BY <1>n, <2>2
    <3>2. Len(cut) = k
      BY <1>5, <2>2, <3>1
    <3> QED BY <2>2, <3>2
  <2>3. CASE k >= 0 /\ ~(k < Len(list))
    <3>1. n = Len(list)
      BY <1>n, <2>3
    <3>2. Len(cut) = Len(list)
      BY <1>1, <1>5, <3>1
    <3> QED BY <2>3, <3>2
  <2> QED BY <2>1, <2>2, <2>3
<1> QED BY <1>6, <1>8, <1>9 DEF cut, n

LEMMA ShownOfEntries ==
  ASSUME NEW list
  PROVE  Shows(list) = {c.id : c \in Dedup!InList(list)}
BY DEF Shows, Dedup!InList

\* A list in another order.
LEMMA ReorderedListed ==
  ASSUME NEW rows, NEW list, Listed(list, rows), NEW before, Orders(before, DOMAIN list)
  PROVE  /\ Listed(Arranged(list, DOMAIN list, before), rows)
         /\ Shows(Arranged(list, DOMAIN list, before)) = Shows(list)
<1> DEFINE a == Arranged(list, DOMAIN list, before)
<1>1. Listed(a, rows) /\ Dedup!InList(a) = {list[i] : i \in DOMAIN list}
  BY ArrangedListed
<1> HIDE DEF a
<1>2. Dedup!InList(a) = Dedup!InList(list)
  BY <1>1 DEF Dedup!InList
<1>3. Shows(a) = Shows(list)
  BY <1>2, ShownOfEntries
<1> QED BY <1>1, <1>3 DEF a

\* A list whose chunks get new scores.
LEMMA RescoredListed ==
  ASSUME NEW b, NEW list, Listed(list, Rows(b)), NEW new \in [DOMAIN list -> Rows(b)],
         \A i \in DOMAIN list : new[i].id = list[i].id
  PROVE  Listed(new, Rows(b)) /\ Shows(new) = Shows(list) /\ Len(new) = Len(list)
<1>1. DOMAIN list = 1 .. Len(list) /\ Len(list) \in Nat
  BY ListDomain
<1>2. new \in Seq(Rows(b)) /\ DOMAIN new = DOMAIN list /\ Len(new) = Len(list)
  BY <1>1
<1> QED BY <1>2 DEF Listed, Shows

LEMMA JoinedListed ==
  ASSUME NEW rows, NEW s, NEW t, Listed(s, rows), Listed(t, rows), Shows(s) \cap Shows(t) = {}
  PROVE  /\ Listed(s \o t, rows) /\ Shows(s \o t) = Shows(s) \cup Shows(t)
         /\ Len(s \o t) = Len(s) + Len(t)
         /\ \A i \in 1 .. Len(s) : (s \o t)[i] = s[i]
         /\ \A i \in 1 .. Len(t) : (s \o t)[Len(s) + i] = t[i]
<1> DEFINE st == s \o t
           m == Len(s)
           n == Len(t)
<1>1. /\ DOMAIN s = 1 .. m /\ m \in Nat /\ DOMAIN t = 1 .. n /\ n \in Nat
      /\ s \in Seq(rows) /\ t \in Seq(rows)
  BY ListDomain DEF Listed
<1>2. /\ st \in Seq(rows) /\ Len(st) = m + n
      /\ \A i \in 1 .. m + n : st[i] = IF i <= m THEN s[i] ELSE t[i - m]
  BY <1>1, ConcatProperties
<1>3. DOMAIN st = 1 .. m + n
  BY <1>2, LenProperties
<1> HIDE DEF st, m, n
<1>4. /\ \A i \in 1 .. m : st[i] = s[i]
      /\ \A i \in 1 .. n : st[m + i] = t[i]
  BY <1>1, <1>2
<1>5. \A i \in 1 .. m + n : i \in 1 .. m \/ \E k \in 1 .. n : i = m + k
  <2> SUFFICES ASSUME NEW i \in 1 .. m + n, i \notin 1 .. m PROVE \E k \in 1 .. n : i = m + k
    OBVIOUS
  <2>1. i - m \in 1 .. n /\ i = m + (i - m)
    BY <1>1
  <2> QED BY <2>1
<1>6. ASSUME NEW i \in 1 .. m + n, NEW j \in 1 .. m + n, st[i].id = st[j].id
      PROVE  i = j
  <2>1. \A k \in 1 .. m, l \in 1 .. n : s[k].id # t[l].id
    BY <1>1 DEF Shows
  <2>2. CASE i \in 1 .. m /\ j \in 1 .. m
    BY <1>1, <1>4, <1>6, <2>2 DEF Listed
  <2>3. CASE i \in 1 .. m /\ j \notin 1 .. m
    BY <1>4, <1>5, <1>6, <2>1, <2>3
  <2>4. CASE i \notin 1 .. m /\ j \in 1 .. m
    BY <1>4, <1>5, <1>6, <2>1, <2>4
  <2>5. CASE i \notin 1 .. m /\ j \notin 1 .. m
    <3>1. PICK k \in 1 .. n : i = m + k
      BY <1>5, <2>5
    <3>2. PICK l \in 1 .. n : j = m + l
      BY <1>5, <2>5
    <3>3. t[k].id = t[l].id
      BY <1>4, <1>6, <3>1, <3>2
    <3>4. k = l
      BY <1>1, <3>3 DEF Listed
    <3> QED BY <3>1, <3>2, <3>4
  <2> QED BY <2>2, <2>3, <2>4, <2>5
<1>7. Shows(st) = Shows(s) \cup Shows(t)
  <2>1. ASSUME NEW i \in 1 .. m + n PROVE st[i].id \in Shows(s) \cup Shows(t)
    <3>1. CASE i \in 1 .. m
      BY <1>1, <1>4, <3>1 DEF Shows
    <3>2. CASE i \notin 1 .. m
      <4>1. PICK k \in 1 .. n : i = m + k
        BY <1>5, <3>2
      <4> QED BY <1>1, <1>4, <4>1 DEF Shows
    <3> QED BY <3>1, <3>2
  <2>a. Shows(st) \subseteq Shows(s) \cup Shows(t)
    BY <1>3, <2>1 DEF Shows
  <2>2. \A i \in 1 .. m : i \in 1 .. m + n
    BY <1>1
  <2>3. \A i \in 1 .. n : m + i \in 1 .. m + n
    BY <1>1
  <2>4. Shows(s) \subseteq Shows(st)
    BY <1>1, <1>3, <1>4, <2>2 DEF Shows
  <2>5. Shows(t) \subseteq Shows(st)
    BY <1>1, <1>3, <1>4, <2>3 DEF Shows
  <2> QED BY <2>a, <2>4, <2>5
<1> QED BY <1>2, <1>3, <1>4, <1>6, <1>7 DEF Listed, st, m, n

-----------------------------------------------------------------------------
(* The modules a search uses rank as this one does. *)

LEMMA SameArranged ==
  ASSUME NEW list, NEW places, NEW before
  PROVE  /\ Dedup!Arranged(list, places, before) = Arranged(list, places, before)
         /\ Rank2!Arranged(list, places, before) = Arranged(list, places, before)
<1>1. \A S : Dedup!Cardinality(S) = Cardinality(S) /\ Rank2!Cardinality(S) = Cardinality(S)
  BY DEF Cardinality, Dedup!Cardinality, Rank2!Cardinality
<1>2. \A S : Dedup!SetToSeqs(S) = SetToSeqs(S) /\ Rank2!SetToSeqs(S) = SetToSeqs(S)
  BY <1>1 DEF SetToSeqs, Dedup!SetToSeqs, Rank2!SetToSeqs
<1>3. \A S : Dedup!Ranked(S, before) = Ranked(S, before) /\ Rank2!Ranked(S, before) = Ranked(S, before)
  BY <1>2 DEF Ranked, Dedup!Ranked, Rank2!Ranked
<1> QED BY <1>3 DEF Arranged, Dedup!Arranged, Rank2!Arranged

LEMMA SamePicked ==
  ASSUME NEW list, NEW places
  PROVE  Dedup!Picked(list, places) = Picked(list, places)
BY SameArranged DEF Picked, Dedup!Picked, Upwards, Dedup!Upwards
-----------------------------------------------------------------------------
(* The orders of the ranking are orders. *)

\* Places by what they weigh, heaviest first, ties in the order they came.
LEMMA WeightOrders ==
  ASSUME NEW places \in SUBSET Int, NEW weight, \A i \in places : weight[i] \in Int
  PROVE  Orders({ij \in places \X places :
                   \/ weight[ij[1]] > weight[ij[2]]
                   \/ weight[ij[1]] = weight[ij[2]] /\ ij[1] < ij[2]}, places)
BY DEF Orders

LEMMA ByScoreListed ==
  ASSUME NEW rows, NEW nodes, Listed(nodes, rows), NEW scores, \A i \in DOMAIN nodes : scores[i] \in Int
  PROVE  /\ Listed(Rank2!ByScore(nodes, scores), rows)
         /\ Shows(Rank2!ByScore(nodes, scores)) = Shows(nodes)
<1> DEFINE places == DOMAIN nodes
           before == {ij \in places \X places :
                        \/ scores[ij[1]] > scores[ij[2]]
                        \/ scores[ij[1]] = scores[ij[2]] /\ ij[1] < ij[2]}
<1>1. Orders(before, places)
  BY ListDomain, WeightOrders
<1>2. Rank2!ByScore(nodes, scores) = Arranged(nodes, places, before)
  BY SameArranged DEF Rank2!ByScore
<1> HIDE DEF before
<1> QED BY <1>1, <1>2, ReorderedListed

LEMMA FileCapListed ==
  ASSUME NEW rows, NEW ranked, Listed(ranked, rows), NEW cap
  PROVE  /\ Listed(Rank2!FileCap(ranked, cap), rows)
         /\ Shows(Rank2!FileCap(ranked, cap)) = Shows(ranked)
<1> DEFINE over(i) == Rank2!Cardinality({j \in 1 .. i : ranked[j].path = ranked[i].path}) > cap
           places == DOMAIN ranked
           before == {ij \in places \X places :
                        \/ ~over(ij[1]) /\ over(ij[2])
                        \/ over(ij[1]) = over(ij[2]) /\ ij[1] < ij[2]}
           weight == [i \in places |-> IF over(i) THEN 0 ELSE 1]
<1>1. Rank2!FileCap(ranked, cap) = Arranged(ranked, places, before)
  BY SameArranged DEF Rank2!FileCap
<1>2. \A i \in places : over(i) \in BOOLEAN
  OBVIOUS
<1> HIDE DEF over
<1>3. before = {ij \in places \X places :
                  \/ weight[ij[1]] > weight[ij[2]]
                  \/ weight[ij[1]] = weight[ij[2]] /\ ij[1] < ij[2]}
  BY <1>2
<1>4. places \in SUBSET Int /\ \A i \in places : weight[i] \in Int
  BY ListDomain
<1>5. Orders(before, places)
  <2> HIDE DEF weight, before, places
  <2> QED BY <1>3, <1>4, WeightOrders
<1> HIDE DEF before
<1> QED BY <1>1, <1>5, ReorderedListed

-----------------------------------------------------------------------------
(* The reranker scores, orders and cuts; it adds nothing. *)

LEMMA OneInt ==
  One \in Int /\ One \in Scores
BY FusionConstants DEF One, Scores

LEMMA AdjustmentInt ==
  ASSUME NEW q \in Queries, NEW nodes, NEW chunk, chunk.id \in DOMAIN Chunks
  PROVE  Rank2!Adjustment(q.query, q.options, nodes, chunk) \in Int
<1> DEFINE fact == Facts[chunk.id]
           facts == {Facts[nodes[i].id] : i \in DOMAIN nodes}
<1>1. fact.match \in Int /\ fact.penalty \in Int /\ fact.intent \in Int
  BY SearchConstants
<1>2. /\ q.options.mention \in Int /\ q.options.prototype \in Int
      /\ q.options.body \in Int /\ q.options.rare \in Int
  BY SearchConstants
<1> HIDE DEF fact, facts
<1>3. Rank2!TypeBonus(q.query, fact) \in Int
  BY DEF Rank2!TypeBonus
<1>4. Rank2!TargetBonus(q.query, fact) \in Int
  <2>1. (15 * fact.match) \div 100 \in Int /\ (40 * (100 - fact.match)) \div 100 \in Int
    BY <1>1
  <2> QED BY <2>1 DEF Rank2!TargetBonus
<1>5. Rank2!ClassBonus(q.query, fact) \in Int
  BY DEF Rank2!ClassBonus
<1>6. Rank2!OverviewBonus(q.query, fact) \in Int
  BY <1>3, <1>4, <1>5 DEF Rank2!OverviewBonus
<1>7. Rank2!IntentBonus(q.query, fact) \in Int
  BY DEF Rank2!IntentBonus
<1>8. Rank2!MentionPenalty(q.query, q.options, facts, fact) \in Int
  BY <1>1, <1>2 DEF Rank2!MentionPenalty, Rank2!MaxOf
<1>9. Rank2!PrototypePenalty(q.query, q.options, facts, fact) \in Int
  BY <1>2 DEF Rank2!PrototypePenalty
<1>10. Rank2!SummaryPenalty(q.query, q.options, facts, fact) \in Int
  BY <1>2 DEF Rank2!SummaryPenalty
<1>11. Rank2!PoolBonus(q.query, q.options, facts, fact) \in Int
  BY <1>1, <1>2, <1>8, <1>9, <1>10 DEF Rank2!PoolBonus
<1>12. One \div 100 \in Int
  BY OneInt
<1>13. \A a, b, c, d \in Int : (a + b + c) * d \in Int
  OBVIOUS
<1> QED BY <1>6, <1>7, <1>11, <1>12, <1>13 DEF Rank2!Adjustment, Rank2!Percent, fact, facts

LEMMA ScoreOfInt ==
  ASSUME NEW chunk, chunk.score \in Scores
  PROVE  Rank2!ScoreOf(chunk) \in Int
BY DEF Rank2!ScoreOf, Scores

LEMMA CutOfListed ==
  ASSUME NEW rows, NEW list, Listed(list, rows), NEW k \in Int
  PROVE  Listed(Rank2!Cut(list, k), rows) /\ Shows(Rank2!Cut(list, k)) \subseteq Shows(list)
BY CutListed DEF Rank2!Cut

LEMMA RowFields ==
  ASSUME NEW b, NEW c \in Rows(b)
  PROVE  /\ c.id \in Open(b) /\ c.id \in DOMAIN Chunks /\ c.score \in Scores
         /\ c.path = Chunks[c.id].path /\ c.branch = Chunks[c.id].branch
BY DEF Rows, Open

LEMMA RerankListed ==
  ASSUME NEW q \in Queries, NEW b, NEW nodes, Listed(nodes, Rows(b)), NEW topK \in Int
  PROVE  LET shown == Rank2!RerankResults(nodes, q.query, q.options, topK)
         IN  Listed(shown, Rows(b)) /\ Shows(shown) \subseteq Shows(nodes)
<1> DEFINE adjustment == [i \in DOMAIN nodes |-> Rank2!Adjustment(q.query, q.options, nodes, nodes[i])]
           scores == [i \in DOMAIN nodes |-> Rank2!ScoreOf(nodes[i]) + adjustment[i]]
           ranked == Rank2!ByScore(nodes, scores)
           capped == Rank2!FileCap(ranked, q.options.fileCap)
           shown == Rank2!RerankResults(nodes, q.query, q.options, topK)
<1>1. \A i \in DOMAIN nodes : nodes[i].id \in DOMAIN Chunks /\ nodes[i].score \in Scores
  BY ListDomain, RowFields
<1>2. \A i \in DOMAIN nodes : scores[i] \in Int
  <2> TAKE i \in DOMAIN nodes
  <2>1. Rank2!Adjustment(q.query, q.options, nodes, nodes[i]) \in Int
    BY <1>1, AdjustmentInt
  <2>2. Rank2!ScoreOf(nodes[i]) \in Int
    BY <1>1, ScoreOfInt
  <2> QED BY <2>1, <2>2
<1>3. \/ shown = Rank2!Cut(nodes, topK) \/ shown = Rank2!Cut(capped, topK) \/ shown = Rank2!Cut(ranked, topK)
  BY DEF Rank2!RerankResults
<1> HIDE DEF scores
<1>4. Listed(ranked, Rows(b)) /\ Shows(ranked) = Shows(nodes)
  BY <1>2, ByScoreListed
<1> HIDE DEF ranked
<1>5. Listed(capped, Rows(b)) /\ Shows(capped) = Shows(nodes)
  BY <1>4, FileCapListed
<1> HIDE DEF capped
<1>6. Listed(shown, Rows(b)) /\ Shows(shown) \subseteq Shows(nodes)
  <2>1. CASE shown = Rank2!Cut(nodes, topK)
    BY <2>1, CutOfListed
  <2>2. CASE shown = Rank2!Cut(capped, topK)
    BY <1>5, <2>2, CutOfListed
  <2>3. CASE shown = Rank2!Cut(ranked, topK)
    BY <1>4, <2>3, CutOfListed
  <2> QED BY <1>3, <2>1, <2>2, <2>3
<1> QED BY <1>6 DEF shown

LEMMA BlendListed ==
  ASSUME NEW b, NEW nodes, Listed(nodes, Rows(b)), NEW sigmoid,
         \A id \in DOMAIN Chunks : sigmoid[id] \in Scores, NEW weight \in Int
  PROVE  LET blend == Rank2!Blend(nodes, sigmoid, weight)
         IN  Listed(blend, Rows(b)) /\ Shows(blend) = Shows(nodes)
<1> DEFINE blended(chunk) ==
             IF sigmoid[chunk.id] = NoScore THEN Rank2!ScoreOf(chunk)
             ELSE (weight * sigmoid[chunk.id] + (100 - weight) * Rank2!ScoreOf(chunk)) \div 100
           scored == [i \in DOMAIN nodes |-> [nodes[i] EXCEPT !.score = blended(nodes[i])]]
           scores == [i \in DOMAIN nodes |-> scored[i].score]
<1>1. \A i \in DOMAIN nodes : nodes[i] \in Rows(b)
  BY ListDomain
<1>2. \A i \in DOMAIN nodes : blended(nodes[i]) \in Int
  <2> TAKE i \in DOMAIN nodes
  <2>1. Rank2!ScoreOf(nodes[i]) \in Int /\ sigmoid[nodes[i].id] \in Scores
    BY <1>1, RowFields, ScoreOfInt
  <2>2. \A x, y \in Int : (weight * x + (100 - weight) * y) \div 100 \in Int
    OBVIOUS
  <2> QED BY <2>1, <2>2 DEF Scores
<1> HIDE DEF blended
<1>3. \A i \in DOMAIN nodes :
        scored[i] \in Rows(b) /\ scored[i].id = nodes[i].id /\ scored[i].score \in Int
  <2> TAKE i \in DOMAIN nodes
  <2> DEFINE s == blended(nodes[i])
  <2>1. s \in Int /\ s \in Scores
    BY <1>2 DEF Scores
  <2>2. scored[i] = [nodes[i] EXCEPT !.score = s]
    OBVIOUS
  <2> HIDE DEF s
  <2>3. /\ [nodes[i] EXCEPT !.score = s] \in Rows(b)
        /\ [nodes[i] EXCEPT !.score = s].id = nodes[i].id
        /\ [nodes[i] EXCEPT !.score = s].score = s
    BY <1>1, <2>1, RescoredIsRow
  <2> QED BY <2>1, <2>2, <2>3
<1>4. scored \in [DOMAIN nodes -> Rows(b)] /\ DOMAIN scored = DOMAIN nodes
  BY <1>3
<1>5. Rank2!Blend(nodes, sigmoid, weight) = Rank2!ByScore(scored, scores)
  BY DEF Rank2!Blend, blended
<1> HIDE DEF scored
<1>6. Listed(scored, Rows(b)) /\ Shows(scored) = Shows(nodes)
  BY <1>3, <1>4, RescoredListed
<1>7. \A i \in DOMAIN scored : scores[i] \in Int
  BY <1>3, <1>4
<1> HIDE DEF scores
<1> QED BY <1>5, <1>6, <1>7, ByScoreListed

LEMMA MergeListed ==
  ASSUME NEW b, ask \in Queries, NEW nodes, Listed(nodes, Rows(b)), NEW extra, Listed(extra, Rows(b))
  PROVE  /\ Listed(Merge(nodes, extra), Rows(b))
         /\ Shows(Merge(nodes, extra)) \subseteq Shows(nodes) \cup Shows(extra)
         /\ Len(nodes) <= Len(Merge(nodes, extra))
         /\ \A i \in 1 .. Len(nodes) : Merge(nodes, extra)[i] = nodes[i]
         /\ nodes # <<>> /\ ~ask.top =>
              \A i \in Len(nodes) + 1 .. Len(Merge(nodes, extra)) :
                Merge(nodes, extra)[i].score = nodes[Shortest(Rank2!MaxOf(ask.topK, 1), Len(nodes))].score
<1> DEFINE have == {nodes[i].id : i \in DOMAIN nodes}
           at == IF ask.top THEN 1 ELSE Shortest(Rank2!MaxOf(ask.topK, 1), Len(nodes))
           bar == IF nodes = <<>> THEN One ELSE nodes[at].score
           places == {i \in DOMAIN extra : extra[i].id \notin have}
           new == Picked(extra, places)
           added == [i \in DOMAIN new |-> [new[i] EXCEPT !.score = bar]]
<1>1. /\ DOMAIN nodes = 1 .. Len(nodes) /\ Len(nodes) \in Nat
      /\ \A i \in DOMAIN nodes : nodes[i] \in Rows(b)
  BY ListDomain
<1>2. bar \in Scores
  <2>1. CASE nodes = <<>>
    BY <2>1, OneInt
  <2>2. CASE nodes # <<>>
    <3>1. Len(nodes) >= 1
      BY <1>1, <2>2, EmptySeq DEF Listed
    <3>2. at \in 1 .. Len(nodes)
      BY <1>1, <3>1, SearchConstants DEF Shortest, Rank2!MaxOf
    <3> HIDE DEF at
    <3>3. nodes[at].score \in Scores
      BY <1>1, <3>2, RowFields
    <3> QED BY <2>2, <3>3
  <2> QED BY <2>1, <2>2
<1>3. Merge(nodes, extra) = nodes \o added
  BY DEF Merge
<1>b. nodes # <<>> /\ ~ask.top => bar = nodes[Shortest(Rank2!MaxOf(ask.topK, 1), Len(nodes))].score
  OBVIOUS
<1> HIDE DEF bar
<1>4. Listed(new, Rows(b)) /\ Dedup!InList(new) = {extra[i] : i \in places}
  BY PickedListed
<1> HIDE DEF new
<1>5. \A i \in DOMAIN new : new[i] \in Rows(b)
  BY <1>4, ListDomain
<1>6. \A i \in DOMAIN new : /\ added[i] \in Rows(b) /\ added[i].id = new[i].id
                            /\ added[i].score = bar
  <2> TAKE i \in DOMAIN new
  <2>1. added[i] = [new[i] EXCEPT !.score = bar] /\ new[i] \in Rows(b)
    BY <1>5
  <2>2. /\ [new[i] EXCEPT !.score = bar] \in Rows(b)
        /\ [new[i] EXCEPT !.score = bar].id = new[i].id
        /\ [new[i] EXCEPT !.score = bar].score = bar
    BY <1>2, <2>1, RescoredIsRow
  <2> HIDE DEF added
  <2> QED BY <2>1, <2>2
<1>7. added \in [DOMAIN new -> Rows(b)]
  BY <1>6
<1> HIDE DEF added
<1>8. Listed(added, Rows(b)) /\ Shows(added) = Shows(new)
  BY <1>4, <1>6, <1>7, RescoredListed
<1>9. Shows(new) = {extra[i].id : i \in places}
  BY <1>4, ShownOfEntries
<1>10. Shows(added) \subseteq Shows(extra) /\ Shows(nodes) \cap Shows(added) = {}
  BY <1>8, <1>9 DEF Shows
<1>11. /\ Listed(nodes \o added, Rows(b)) /\ Shows(nodes \o added) = Shows(nodes) \cup Shows(added)
       /\ Len(nodes \o added) = Len(nodes) + Len(added)
       /\ \A i \in 1 .. Len(nodes) : (nodes \o added)[i] = nodes[i]
  BY <1>8, <1>10, JoinedListed
<1>t. \A i \in 1 .. Len(added) : (nodes \o added)[Len(nodes) + i] = added[i]
  BY <1>8, <1>10, JoinedListed
<1>12. Len(added) \in Nat /\ DOMAIN added = 1 .. Len(added) /\ DOMAIN added = DOMAIN new
  BY <1>7, <1>8, ListDomain
<1>13. ASSUME NEW i \in Len(nodes) + 1 .. Len(nodes \o added) PROVE (nodes \o added)[i].score = bar
  <2>1. i - Len(nodes) \in 1 .. Len(added) /\ i = Len(nodes) + (i - Len(nodes))
    BY <1>1, <1>11, <1>12
  <2>2. (nodes \o added)[i] = added[i - Len(nodes)]
    BY <1>t, <2>1
  <2> QED BY <1>6, <1>12, <2>1, <2>2
<1>14. /\ Listed(Merge(nodes, extra), Rows(b))
       /\ Shows(Merge(nodes, extra)) \subseteq Shows(nodes) \cup Shows(extra)
       /\ Len(nodes) <= Len(Merge(nodes, extra))
       /\ \A i \in 1 .. Len(nodes) : Merge(nodes, extra)[i] = nodes[i]
  BY <1>1, <1>3, <1>10, <1>11, <1>12
<1> QED BY <1>3, <1>b, <1>13, <1>14

-----------------------------------------------------------------------------
(* One version per path. *)

LEMMA Minimum ==
  ASSUME NEW S, IsFiniteSet(S), S # {}, S \subseteq Int
  PROVE  \E m \in S : \A x \in S : m <= x
<1>1. Orders(Upwards(S), S)
  BY UpwardsOrders
<1>2. PICK f \in [1 .. Cardinality(S) -> S] :
           /\ \A p, q \in DOMAIN f : p < q => <<f[p], f[q]>> \in Upwards(S)
           /\ \A x \in S : \E p \in DOMAIN f : f[p] = x
  BY <1>1, OrderedRow
<1>3. Cardinality(S) \in Nat
  BY FS_CardinalityType
<1>4. 1 \in 1 .. Cardinality(S)
  <2>1. PICK x : x \in S
    OBVIOUS
  <2>2. PICK p \in 1 .. Cardinality(S) : f[p] = x
    BY <1>2, <2>1
  <2> QED BY <1>3, <2>2
<1>5. ASSUME NEW x \in S PROVE f[1] <= x
  <2>1. PICK p \in 1 .. Cardinality(S) : f[p] = x
    BY <1>2
  <2>2. CASE p = 1
    BY <1>4, <2>1, <2>2
  <2>3. CASE p # 1
    <3>1. 1 < p
      BY <1>3, <2>3
    <3>2. <<f[1], f[p]>> \in Upwards(S)
      BY <1>2, <1>4, <3>1
    <3>3. f[1] < f[p]
      BY <3>2 DEF Upwards
    <3>4. f[1] \in Int /\ f[p] \in Int
      BY <1>4
    <3> QED BY <2>1, <3>3, <3>4
  <2> QED BY <2>2, <2>3
<1> QED BY <1>4, <1>5

Scored(list) == \A i \in DOMAIN list : list[i].score \in Int
Falling(list) == \A i, j \in DOMAIN list : i < j => list[i].score >= list[j].score

LEMMA DedupOrders ==
  ASSUME NEW rows, NEW nodes, Listed(nodes, rows), Scored(nodes), NEW places \in SUBSET DOMAIN nodes
  PROVE  Orders({ij \in places \X places : Dedup!DedupBefore(nodes, ij[1], ij[2])}, places)
<1> DEFINE first(k) == IF nodes[k].path = NoPath THEN Len(nodes) + 1
                       ELSE CHOOSE f \in DOMAIN nodes :
                              /\ nodes[f].path = nodes[k].path
                              /\ \A g \in 1 .. f - 1 : nodes[g].path # nodes[k].path
           before == {ij \in places \X places : Dedup!DedupBefore(nodes, ij[1], ij[2])}
<1>1. /\ DOMAIN nodes = 1 .. Len(nodes) /\ Len(nodes) \in Nat
      /\ IsFiniteSet(DOMAIN nodes)
  BY ListDomain
<1>2. ASSUME NEW k \in places PROVE first(k) \in Int
  <2> DEFINE same == {f \in DOMAIN nodes : nodes[f].path = nodes[k].path}
  <2>1. IsFiniteSet(same) /\ same # {} /\ same \subseteq Int
    BY <1>1, FS_Subset
  <2>2. PICK m \in same : \A x \in same : m <= x
    <3> HIDE DEF same
    <3> QED BY <2>1, Minimum
  <2>3. m \in DOMAIN nodes /\ nodes[m].path = nodes[k].path
    OBVIOUS
  <2>4. \A g \in 1 .. m - 1 : nodes[g].path # nodes[k].path
    BY <1>1, <2>2, <2>3
  <2>5. (CHOOSE f \in DOMAIN nodes :
           /\ nodes[f].path = nodes[k].path
           /\ \A g \in 1 .. f - 1 : nodes[g].path # nodes[k].path) \in DOMAIN nodes
    BY <2>3, <2>4
  <2> QED BY <1>1, <2>5
<1>3. \A i, j \in places :
        <<i, j>> \in before <=>
          \/ nodes[i].score > nodes[j].score
          \/ /\ nodes[i].score = nodes[j].score
             /\ first(i) < first(j) \/ (first(i) = first(j) /\ i < j)
  <2> TAKE i \in places, j \in places
  <2>1. <<i, j>> \in before <=> Dedup!DedupBefore(nodes, i, j)
    OBVIOUS
  <2> HIDE DEF before
  <2>2. Dedup!DedupBefore(nodes, i, j) <=>
          \/ nodes[i].score > nodes[j].score
          \/ /\ nodes[i].score = nodes[j].score
             /\ first(i) < first(j) \/ (first(i) = first(j) /\ i < j)
    BY DEF Dedup!DedupBefore
  <2> HIDE DEF first
  <2> QED BY <2>1, <2>2
<1>4. \A i \in places : i \in Int /\ nodes[i].score \in Int
  BY <1>1 DEF Scored
<1> HIDE DEF first, before
<1>5. Orders(before, places)
  <2>1. \A x \in places : <<x, x>> \notin before
    BY <1>2, <1>3, <1>4
  <2>2. \A x, y, z \in places : <<x, y>> \in before /\ <<y, z>> \in before => <<x, z>> \in before
    BY <1>2, <1>3, <1>4
  <2>3. \A x, y \in places : x # y => <<x, y>> \in before \/ <<y, x>> \in before
    BY <1>2, <1>3, <1>4
  <2> QED BY <2>1, <2>2, <2>3 DEF Orders
<1> QED BY <1>5 DEF before

LEMMA DedupBestFirst ==
  ASSUME NEW nodes, NEW i, NEW j, nodes[i].score \in Int, nodes[j].score \in Int, Dedup!DedupBefore(nodes, i, j)
  PROVE  nodes[i].score >= nodes[j].score
BY DEF Dedup!DedupBefore

LEMMA KeptInSet ==
  ASSUME NEW S, NEW t, NEW c \in Dedup!Kept(S, t)
  PROVE  c \in S
BY DEF Dedup!Kept, Dedup!Preferred, Dedup!PreferOverlay, Dedup!Partition, Dedup!Pathless

\* What a winner of a path tells of all its chunks.
LEMMA KeptSingle ==
  ASSUME NEW S, NEW t, NEW c \in Dedup!Kept(S, t), c.path # NoPath
  PROVE  /\ c.path \notin t
         /\ \A d \in S : d.path = c.path /\ d.branch = Overlay => c.branch = Overlay
<1>1. PICK x \in S : c \in Dedup!PreferOverlay(Dedup!Partition(S, x.path, t))
  BY DEF Dedup!Kept, Dedup!Preferred, Dedup!Pathless
<1> DEFINE entries == Dedup!Partition(S, x.path, t)
<1>2. c \in entries
  BY <1>1 DEF Dedup!PreferOverlay
<1>3. c.path = x.path /\ c.path \notin t
  BY <1>2 DEF Dedup!Partition
<1>4. ASSUME NEW d \in S, d.path = c.path, d.branch = Overlay PROVE c.branch = Overlay
  <2>1. d \in entries
    BY <1>3, <1>4 DEF Dedup!Partition
  <2>2. {e \in entries : e.branch = Overlay} # {}
    BY <1>4, <2>1
  <2>3. c \in {e \in entries : e.branch = Overlay}
    BY <1>1, <2>2 DEF Dedup!PreferOverlay
  <2> QED BY <2>3
<1> QED BY <1>3, <1>4

LEMMA DedupListed ==
  ASSUME NEW rows, NEW nodes, Listed(nodes, rows), Scored(nodes), NEW t, NEW k \in Int
  PROVE  /\ Listed(Dedup!Dedup(nodes, t, k), rows)
         /\ Scored(Dedup!Dedup(nodes, t, k)) /\ Falling(Dedup!Dedup(nodes, t, k))
         /\ Dedup!InList(Dedup!Dedup(nodes, t, k)) \subseteq Dedup!Kept(Dedup!InList(nodes), t)
         /\ \/ Dedup!InList(Dedup!Dedup(nodes, t, k)) = Dedup!Kept(Dedup!InList(nodes), t)
            \/ Len(Dedup!Dedup(nodes, t, k)) >= k
<1> DEFINE winners == Dedup!Dedup(nodes, t, k)
           kept == Dedup!Kept(Dedup!InList(nodes), t)
           places == {i \in DOMAIN nodes : nodes[i] \in kept}
           before == {ij \in places \X places : Dedup!DedupBefore(nodes, ij[1], ij[2])}
           ranked == Arranged(nodes, places, before)
<1>1. winners = SubSeq(ranked, 1, IF k < Len(ranked) THEN k ELSE Len(ranked))
  BY SameArranged DEF Dedup!Dedup, Dedup!Best
<1>2. Orders(before, places)
  BY DedupOrders
<1>3. {nodes[i] : i \in places} = kept
  <2>1. \A c \in kept : c \in Dedup!InList(nodes)
    BY KeptInSet
  <2> HIDE DEF kept
  <2> QED BY <2>1 DEF Dedup!InList
<1>4. IsFiniteSet(DOMAIN nodes) /\ DOMAIN nodes \subseteq Int
  BY ListDomain
<1>p. places \in SUBSET DOMAIN nodes
  OBVIOUS
<1> HIDE DEF kept, places
<1>5. /\ Listed(ranked, rows)
      /\ Dedup!InList(ranked) = kept
      /\ Len(ranked) = Cardinality(places)
  <2> HIDE DEF before
  <2> QED BY <1>2, <1>3, <1>p, ArrangedListed
<1>6. Scored(ranked) /\ Falling(ranked)
  <2>1. Cardinality(places) \in Nat
    BY <1>2, <1>4, <1>p, ArrangedPlaces
  <2> HIDE DEF before
  <2>2. PICK at \in [1 .. Cardinality(places) -> places] :
              /\ ranked = [n \in 1 .. Cardinality(places) |-> nodes[at[n]]]
              /\ \A p, q \in 1 .. Cardinality(places) : p < q => <<at[p], at[q]>> \in before
    BY <1>2, <1>4, <1>p, ArrangedPlaces
  <2> HIDE DEF ranked
  <2>3. DOMAIN ranked = 1 .. Cardinality(places)
    BY <2>2
  <2>4. \A p \in DOMAIN ranked : at[p] \in DOMAIN nodes /\ ranked[p] = nodes[at[p]] /\ ranked[p].score \in Int
    BY <1>p, <2>2, <2>3 DEF Scored
  <2>5. ASSUME NEW p \in DOMAIN ranked, NEW q \in DOMAIN ranked, p < q
        PROVE  ranked[p].score >= ranked[q].score
    <3>1. Dedup!DedupBefore(nodes, at[p], at[q])
      BY <2>2, <2>3, <2>5 DEF before
    <3> QED BY <2>4, <3>1, DedupBestFirst
  <2> QED BY <2>4, <2>5 DEF Scored, Falling
<1> HIDE DEF ranked
<1>c. LET cut == SubSeq(ranked, 1, IF k < Len(ranked) THEN k ELSE Len(ranked))
      IN  /\ Listed(cut, rows) /\ Shows(cut) \subseteq Shows(ranked)
          /\ Len(cut) = IF k < 0 THEN 0 ELSE IF k < Len(ranked) THEN k ELSE Len(ranked)
          /\ \A i \in 1 .. Len(cut) : cut[i] = ranked[i] /\ i \in 1 .. Len(ranked)
  BY <1>5, CutListed
<1>7. /\ Listed(winners, rows)
      /\ Len(winners) = IF k < 0 THEN 0 ELSE IF k < Len(ranked) THEN k ELSE Len(ranked)
      /\ \A i \in 1 .. Len(winners) : winners[i] = ranked[i] /\ i \in 1 .. Len(ranked)
  BY <1>1, <1>c
<1> HIDE DEF winners
<1>8. /\ DOMAIN winners = 1 .. Len(winners) /\ DOMAIN ranked = 1 .. Len(ranked)
      /\ Len(winners) \in Nat /\ Len(ranked) \in Nat
  BY <1>5, <1>7, ListDomain
<1>9. Scored(winners) /\ Falling(winners) /\ Dedup!InList(winners) \subseteq kept
  BY <1>5, <1>6, <1>7, <1>8 DEF Scored, Falling, Dedup!InList
<1>10. Dedup!InList(winners) = kept \/ Len(winners) >= k
  <2>1. CASE k < Len(ranked)
    BY <1>7, <1>8, <2>1
  <2>2. CASE k >= Len(ranked)
    <3>0. ~(k < 0) /\ ~(k < Len(ranked))
      BY <1>8, <2>2
    <3>1. Len(winners) = Len(ranked)
      BY <1>7, <3>0
    <3> QED BY <1>5, <1>7, <1>8, <3>1 DEF Dedup!InList
  <2> QED BY <1>8, <2>1, <2>2
<1> QED BY <1>7, <1>9, <1>10 DEF winners, kept

LEMMA FilteredListed ==
  ASSUME NEW rows, NEW nodes, Listed(nodes, rows), Scored(nodes), NEW extra, NEW t
  PROVE  LET f == Dedup!FilteredNodes(nodes, extra, t)
         IN  /\ Listed(f, rows) /\ Scored(f)
             /\ Dedup!InList(f) \subseteq Dedup!InList(nodes)
             /\ \A c \in Dedup!InList(nodes) \ Dedup!Shadowed(nodes, extra, t) : c \in Dedup!InList(f)
             /\ extra # <<>> => Dedup!InList(f) \cap Dedup!Shadowed(nodes, extra, t) = {}
<1> DEFINE f == Dedup!FilteredNodes(nodes, extra, t)
           shadowed == Dedup!Shadowed(nodes, extra, t)
           places == {i \in DOMAIN nodes : nodes[i] \notin shadowed}
<1>1. CASE extra = <<>>
  <2>1. f = nodes
    BY <1>1 DEF Dedup!FilteredNodes
  <2> QED BY <1>1, <2>1
<1>2. CASE extra # <<>>
  <2>1. f = Picked(nodes, places)
    BY <1>2, SamePicked DEF Dedup!FilteredNodes
  <2> HIDE DEF f, shadowed
  <2>2. Listed(f, rows) /\ Dedup!InList(f) = {nodes[i] : i \in places}
    BY <2>1, PickedListed
  <2>3. Scored(f)
    <3>1. \A c \in Dedup!InList(f) : c.score \in Int
      BY <2>2 DEF Scored
    <3> QED BY <3>1 DEF Scored, Dedup!InList
  <2>4. \A c \in Dedup!InList(nodes) \ shadowed : c \in Dedup!InList(f)
    BY <2>2 DEF Dedup!InList
  <2>5. Dedup!InList(f) \cap shadowed = {}
    BY <2>2
  <2>6. Dedup!InList(f) \subseteq Dedup!InList(nodes)
    BY <2>2 DEF Dedup!InList
  <2> QED BY <2>2, <2>3, <2>4, <2>5, <2>6 DEF f, shadowed
<1> QED BY <1>1, <1>2

LEMMA SurvivingListed ==
  ASSUME NEW rows, NEW nodes, NEW extra, Listed(extra, rows), NEW t
  PROVE  /\ Listed(Dedup!SurvivingExtra(nodes, extra, t), rows)
         /\ Dedup!InList(Dedup!SurvivingExtra(nodes, extra, t))
              = Dedup!InList(extra) \cap Dedup!Kept(Dedup!InList(nodes) \cup Dedup!InList(extra), t)
<1> DEFINE e == Dedup!SurvivingExtra(nodes, extra, t)
           kept == Dedup!Kept(Dedup!InList(nodes) \cup Dedup!InList(extra), t)
           places == {i \in DOMAIN extra : extra[i] \in kept}
<1>1. e = Picked(extra, places)
  BY SamePicked DEF Dedup!SurvivingExtra
<1> HIDE DEF e, kept
<1>2. Listed(e, rows) /\ Dedup!InList(e) = {extra[i] : i \in places}
  BY <1>1, PickedListed
<1>3. Dedup!InList(e) = Dedup!InList(extra) \cap kept
  BY <1>2 DEF Dedup!InList
<1> QED BY <1>2, <1>3 DEF e, kept

\* What a search on an overlay may show of the chunks ids.
Single(ids, t) ==
  /\ \A x \in ids : Chunks[x].path # NoPath => Chunks[x].path \notin t
  /\ \A x, y \in ids :
       Chunks[x].path = Chunks[y].path /\ Chunks[x].path # NoPath =>
         (Chunks[x].branch = Overlay <=> Chunks[y].branch = Overlay)

\* A node that is left and a hit that is left agree on whose version it is.
LEMMA NodeMeetsHit ==
  ASSUME NEW b, NEW nodes, Listed(nodes, Rows(b)), Scored(nodes), NEW extra, Listed(extra, Rows(b)), NEW t,
         NEW c \in Dedup!InList(Dedup!FilteredNodes(nodes, extra, t)),
         NEW d \in Dedup!InList(extra) \cap Dedup!Kept(Dedup!InList(nodes) \cup Dedup!InList(extra), t),
         c.path = d.path, c.path # NoPath
  PROVE  c.branch = Overlay <=> d.branch = Overlay
<1> DEFINE union == Dedup!InList(nodes) \cup Dedup!InList(extra)
<1>1. c \in Dedup!InList(nodes)
  BY FilteredListed
<1>2. c \in Rows(b) /\ d \in Rows(b)
  BY <1>1, ListDomain DEF Dedup!InList
<1>3. d.path \notin t /\ (c.branch = Overlay => d.branch = Overlay)
  BY <1>1, KeptSingle
<1>4. ASSUME d.branch = Overlay, c.branch # Overlay PROVE FALSE
  <2>1. extra # <<>>
    BY DEF Dedup!InList
  <2>2. c \notin Dedup!Shadowed(nodes, extra, t)
    BY <2>1, FilteredListed
  <2>3. d \in Dedup!Partition(union, c.path, t)
    BY <1>3 DEF Dedup!Partition
  <2>4. c.branch = NoBranch
    BY <1>1, <1>4, <2>2, <2>3 DEF Dedup!Shadowed
  <2>5. /\ c.id \in DOMAIN Chunks /\ d.id \in DOMAIN Chunks
        /\ c.path = Chunks[c.id].path /\ c.branch = Chunks[c.id].branch
        /\ d.path = Chunks[d.id].path /\ d.branch = Chunks[d.id].branch
    BY <1>2, RowFields
  <2> QED BY <1>4, <2>4, <2>5, NonGitApart
<1> QED BY <1>3, <1>4

LEMMA FetchKNat ==
  ASSUME ask \in Queries
  PROVE  FetchK \in Nat /\ FetchK \div 2 \in Nat /\ LegK \in Nat /\ ask.topK \in Nat
<1>1. ask.topK \in Nat /\ ask.prefetch \in Nat /\ Overfetch \in Nat
  BY SearchConstants
<1>2. ask.topK * Overfetch \in Nat
  BY <1>1
<1>3. Rank2!FetchK(ask.query, ask.topK, Overfetch, ask.encoder, ask.topK + 1) \in Nat
  BY <1>1, <1>2 DEF Rank2!FetchK, Rank2!MaxOf
<1>4. FetchK \in Nat
  BY <1>3 DEF FetchK
<1> QED BY <1>1, <1>4 DEF LegK

LEMMA HitsThatSurvive ==
  ASSUME NEW b, Listed(hits, Rows(b)), NEW t
  PROVE  Dedup!InList(Dedup!SurvivingExtra(pool, hits, t))
           = Dedup!InList(hits) \cap Dedup!Kept(Dedup!InList(pool) \cup Dedup!InList(hits), t)
BY SurvivingListed

LEMMA OverlayCandidates ==
  ASSUME ask \in Queries, ask.branch, NEW b, Listed(pool, Rows(b)), Scored(pool), Listed(hits, Rows(b)), NEW t
  PROVE  Listed(Candidates(t), Rows(b)) /\ Single(Shows(Candidates(t)), t)
<1> DEFINE f == Dedup!FilteredNodes(pool, hits, t)
           nodes == Dedup!Dedup(f, t, FetchK \div 2)
           extra == Dedup!SurvivingExtra(pool, hits, t)
           union == Dedup!InList(pool) \cup Dedup!InList(hits)
<1>1. Listed(f, Rows(b)) /\ Scored(f)
  BY FilteredListed
<1>2. /\ Listed(nodes, Rows(b))
      /\ Dedup!InList(nodes) \subseteq Dedup!Kept(Dedup!InList(f), t)
  <2>1. FetchK \div 2 \in Int
    BY FetchKNat
  <2> HIDE DEF f
  <2> QED BY <1>1, <2>1, DedupListed
<1>3. Listed(extra, Rows(b)) /\ Dedup!InList(extra) = Dedup!InList(hits) \cap Dedup!Kept(union, t)
  <2>1. Listed(extra, Rows(b))
    BY SurvivingListed
  <2> QED BY <2>1, HitsThatSurvive
<1>4. Candidates(t) = Merge(nodes, extra)
  BY DEF Candidates
<1>5. \A c \in Dedup!InList(nodes) \cup Dedup!InList(extra) : c \in Rows(b)
  <2> HIDE DEF nodes, extra
  <2>1. \A i \in DOMAIN nodes : nodes[i] \in Rows(b)
    BY <1>2, ListDomain
  <2>2. \A i \in DOMAIN extra : extra[i] \in Rows(b)
    BY <1>3, ListDomain
  <2> QED BY <2>1, <2>2 DEF Dedup!InList
<1>6. \A c \in Dedup!InList(nodes) : c \in Dedup!InList(f)
  BY <1>2, KeptInSet
<1> HIDE DEF nodes, extra
<1>7. ASSUME NEW c \in Dedup!InList(nodes) \cup Dedup!InList(extra), c.path # NoPath
      PROVE  c.path \notin t
  BY <1>2, <1>3, <1>7, KeptSingle
<1>8. ASSUME NEW c \in Dedup!InList(nodes) \cup Dedup!InList(extra),
             NEW d \in Dedup!InList(nodes) \cup Dedup!InList(extra), c.path = d.path, c.path # NoPath
      PROVE  c.branch = Overlay <=> d.branch = Overlay
  <2>1. CASE c \in Dedup!InList(nodes) /\ d \in Dedup!InList(nodes)
    <3>1. c \in Dedup!Kept(Dedup!InList(f), t) /\ d \in Dedup!Kept(Dedup!InList(f), t)
      BY <1>2, <2>1
    <3>2. c \in Dedup!InList(f) /\ d \in Dedup!InList(f)
      BY <1>6, <2>1
    <3> HIDE DEF f
    <3> QED BY <1>8, <3>1, <3>2, KeptSingle
  <2>2. CASE c \in Dedup!InList(extra) /\ d \in Dedup!InList(extra)
    <3>1. c \in Dedup!Kept(union, t) /\ d \in Dedup!Kept(union, t) /\ c \in union /\ d \in union
      BY <1>3, <2>2
    <3> HIDE DEF union
    <3> QED BY <1>8, <3>1, KeptSingle
  <2>3. CASE c \in Dedup!InList(nodes) /\ d \in Dedup!InList(extra)
    <3>1. c \in Dedup!InList(f) /\ d \in Dedup!InList(hits) \cap Dedup!Kept(union, t)
      BY <1>3, <1>6, <2>3
    <3> QED BY <1>8, <3>1, NodeMeetsHit
  <2>4. CASE c \in Dedup!InList(extra) /\ d \in Dedup!InList(nodes)
    <3>1. d \in Dedup!InList(f) /\ c \in Dedup!InList(hits) \cap Dedup!Kept(union, t)
      BY <1>3, <1>6, <2>4
    <3>2. d.path = c.path /\ d.path # NoPath
      BY <1>8
    <3> QED BY <3>1, <3>2, NodeMeetsHit
  <2> QED BY <2>1, <2>2, <2>3, <2>4
<1>9. /\ Listed(Merge(nodes, extra), Rows(b))
      /\ Shows(Merge(nodes, extra)) \subseteq Shows(nodes) \cup Shows(extra)
  BY <1>2, <1>3, MergeListed
<1>10. \A x \in Shows(nodes) \cup Shows(extra) :
         \E c \in Dedup!InList(nodes) \cup Dedup!InList(extra) :
           c.id = x /\ c.path = Chunks[x].path /\ c.branch = Chunks[x].branch
  <2> TAKE x \in Shows(nodes) \cup Shows(extra)
  <2>1. PICK c \in Dedup!InList(nodes) \cup Dedup!InList(extra) : c.id = x
    BY ShownOfEntries
  <2>2. c.path = Chunks[c.id].path /\ c.branch = Chunks[c.id].branch
    BY <1>5, RowFields
  <2> QED BY <2>1, <2>2
<1>11. Single(Shows(nodes) \cup Shows(extra), t)
  <2>1. ASSUME NEW x \in Shows(nodes) \cup Shows(extra), Chunks[x].path # NoPath
        PROVE  Chunks[x].path \notin t
    BY <1>7, <1>10, <2>1
  <2>2. ASSUME NEW x \in Shows(nodes) \cup Shows(extra), NEW y \in Shows(nodes) \cup Shows(extra),
               Chunks[x].path = Chunks[y].path, Chunks[x].path # NoPath
        PROVE  Chunks[x].branch = Overlay <=> Chunks[y].branch = Overlay
    <3>1. PICK c \in Dedup!InList(nodes) \cup Dedup!InList(extra) :
             c.path = Chunks[x].path /\ c.branch = Chunks[x].branch
      BY <1>10
    <3>2. PICK d \in Dedup!InList(nodes) \cup Dedup!InList(extra) :
             d.path = Chunks[y].path /\ d.branch = Chunks[y].branch
      BY <1>10
    <3>3. c.path = d.path /\ c.path # NoPath
      BY <2>2, <3>1, <3>2
    <3>4. c.branch = Overlay <=> d.branch = Overlay
      BY <1>8, <3>3
    <3> QED BY <3>1, <3>2, <3>4
  <2> QED BY <2>1, <2>2 DEF Single
<1>12. Single(Shows(Candidates(t)), t)
  <2>1. Shows(Candidates(t)) \subseteq Shows(nodes) \cup Shows(extra)
    BY <1>4, <1>9
  <2> QED BY <1>11, <2>1 DEF Single
<1> QED BY <1>4, <1>9, <1>12

-----------------------------------------------------------------------------
(* Fusion. *)

Legwise(withOverlay) == [id : Open(withOverlay), score : Int]

LEMMA FiniteIds ==
  ASSUME NEW ids \in SUBSET DOMAIN Chunks
  PROVE  IsFiniteSet(ids)
BY SearchConstants, FS_Subset

LEMMA LegRows ==
  ASSUME NEW b, NEW leg, Listed(leg, Legwise(b))
  PROVE  \A i \in DOMAIN leg : leg[i].id \in Open(b) /\ leg[i].score \in Int
<1>1. \A i \in DOMAIN leg : leg[i] \in Legwise(b)
  BY ListDomain
<1> QED BY <1>1 DEF Legwise

LEMMA LegBest ==
  ASSUME NEW b, NEW leg, Listed(leg, Legwise(b)), NEW id \in Ids(leg)
  PROVE  /\ Best(leg, id) \in DOMAIN leg /\ leg[Best(leg, id)].id = id
         /\ leg[Best(leg, id)].score \in Int /\ leg[Best(leg, id)].score # NoScore
<1>1. PICK i \in DOMAIN leg : leg[i].id = id
  BY DEF Ids
<1>2. \A j \in DOMAIN leg \ {i} : leg[j].id # id
  BY <1>1 DEF Listed
<1>3. Best(leg, id) \in DOMAIN leg /\ leg[Best(leg, id)].id = id
  BY <1>1, <1>2 DEF Best
<1>4. leg[Best(leg, id)].score \in Int
  BY <1>3, LegRows
<1> QED BY <1>3, <1>4, FusionConstants

LEMMA InLegOrderLists ==
  ASSUME NEW b, NEW leg, Listed(leg, Legwise(b))
  PROVE  /\ Ids(leg) \in SUBSET Open(b) /\ IsFiniteSet(Ids(leg))
         /\ LET list == InLegOrder(leg, Ids(leg))
                score(p) == leg[Best(leg, list[p])].score
            IN  /\ Lists(list, Ids(leg))
                /\ \A p \in DOMAIN list : score(p) \in Int
                /\ \A p, q \in DOMAIN list : p < q => score(q) <= score(p)
<1> DEFINE ids == Ids(leg)
           before == {ab \in ids \X ids : RowBefore(leg, Best(leg, ab[1]), Best(leg, ab[2]))}
<1>1. ids \in SUBSET Open(b)
  BY LegRows DEF Ids
<1>2. IsFiniteSet(ids)
  BY <1>1, FiniteIds DEF Open
<1>3. \A x \in ids : /\ Best(leg, x) \in DOMAIN leg /\ Best(leg, x) \in Int
                     /\ leg[Best(leg, x)].id = x
                     /\ leg[Best(leg, x)].score \in Int /\ leg[Best(leg, x)].score # NoScore
  BY LegBest, ListDomain
<1>4. \A x, y \in ids : <<x, y>> \in before <=> RowBefore(leg, Best(leg, x), Best(leg, y))
  OBVIOUS
<1> HIDE DEF ids, before
<1>5. \A x, y \in ids :
        <<x, y>> \in before <=>
          \/ leg[Best(leg, x)].score > leg[Best(leg, y)].score
          \/ leg[Best(leg, x)].score = leg[Best(leg, y)].score /\ Best(leg, x) < Best(leg, y)
  BY <1>3, <1>4 DEF RowBefore
<1>6. Orders(before, ids)
  <2>1. \A x \in ids : <<x, x>> \notin before
    BY <1>3, <1>5
  <2>2. \A x, y, z \in ids : <<x, y>> \in before /\ <<y, z>> \in before => <<x, z>> \in before
    BY <1>3, <1>5
  <2>3. \A x, y \in ids : x # y => Best(leg, x) # Best(leg, y)
    BY <1>3
  <2>4. \A x, y \in ids : x # y => <<x, y>> \in before \/ <<y, x>> \in before
    BY <1>3, <1>5, <2>3
  <2> QED BY <2>1, <2>2, <2>4 DEF Orders
<1> DEFINE list == Ranked(ids, before)
           score(p) == leg[Best(leg, list[p])].score
<1>7. Lists(list, ids) /\ \A p, q \in DOMAIN list : p < q => <<list[p], list[q]>> \in before
  BY <1>2, <1>6, RankedLists
<1>8. InLegOrder(leg, ids) = list
  BY DEF InLegOrder, before
<1> HIDE DEF list
<1>9. \A p \in DOMAIN list : list[p] \in ids
  BY <1>7 DEF Lists
<1>10. \A p \in DOMAIN list : score(p) \in Int
  BY <1>3, <1>9
<1>11. ASSUME NEW p \in DOMAIN list, NEW q \in DOMAIN list, p < q
       PROVE  score(q) <= score(p)
  <2>1. list[p] \in ids /\ list[q] \in ids /\ <<list[p], list[q]>> \in before
    BY <1>7, <1>9, <1>11
  <2>2. \/ leg[Best(leg, list[p])].score > leg[Best(leg, list[q])].score
        \/ leg[Best(leg, list[p])].score = leg[Best(leg, list[q])].score
    BY <1>5, <2>1
  <2> QED BY <1>10, <2>2
<1> QED BY <1>1, <1>2, <1>7, <1>8, <1>10, <1>11 DEF ids

\* Scores of a leg, best first.
Slopes(scores, n) ==
  /\ n \in Nat /\ scores \in [1 .. n -> Int]
  /\ \A r, q \in 1 .. n : r < q => scores[q] <= scores[r]

LEMMA LegIdsLists ==
  ASSUME NEW b, NEW leg, Listed(leg, Legwise(b))
  PROVE  /\ Lists(LegIds(leg), Ids(leg))
         /\ Slopes(ScoresOf(LegIds(leg), leg), Len(LegIds(leg)))
<1>1. Usable(leg) = Ids(leg)
  <2>1. \A j \in DOMAIN leg : leg[j].score # NoScore
    BY LegRows, FusionConstants
  <2> QED BY <2>1 DEF Usable, Ids
<1>2. LegIds(leg) = InLegOrder(leg, Ids(leg))
  BY <1>1 DEF LegIds, RankedIds, PrepareLeg
<1> DEFINE list == LegIds(leg)
<1>3. Lists(list, Ids(leg)) /\ IsFiniteSet(Ids(leg))
  BY <1>2, InLegOrderLists
<1>4. Cardinality(Ids(leg)) \in Nat
  BY <1>3, FS_CardinalityType
<1>5. /\ \A p \in DOMAIN list : leg[Best(leg, list[p])].score \in Int
      /\ \A p, q \in DOMAIN list : p < q => leg[Best(leg, list[q])].score <= leg[Best(leg, list[p])].score
  BY <1>2, InLegOrderLists
<1> HIDE DEF list
<1>6. Len(list) \in Nat /\ DOMAIN list = 1 .. Len(list)
  BY <1>3, <1>4 DEF Lists
<1>7. Slopes(ScoresOf(list, leg), Len(list))
  BY <1>5, <1>6 DEF Slopes, ScoresOf
<1> QED BY <1>3, <1>7 DEF list

\* The ranks of a list.
LEMMA Ranks ==
  ASSUME NEW l, NEW S, IsFiniteSet(S), Lists(l, S)
  PROVE  /\ l \in Seq(S) /\ Len(l) \in Nat /\ DOMAIN l = 1 .. Len(l) /\ Range(l) = S
         /\ \A x : Has(l, x) <=> x \in S
         /\ \A x \in S : Rank(l, x) \in 1 .. Len(l) /\ Rank(l, x) \in Nat /\ l[Rank(l, x)] = x
         /\ \A x, y \in S : Rank(l, x) = Rank(l, y) => x = y
<1>1. Cardinality(S) \in Nat
  BY FS_CardinalityType
<1>2. l \in [1 .. Cardinality(S) -> S]
  BY DEF Lists
<1>3. l \in Seq(S) /\ Len(l) = Cardinality(S) /\ DOMAIN l = 1 .. Len(l)
  BY <1>1, <1>2
<1>4. \A x \in S : \E p \in DOMAIN l : l[p] = x
  BY DEF Lists
<1>5. Range(l) = S
  BY <1>2, <1>4 DEF Range
<1>6. \A x : Has(l, x) <=> x \in S
  BY <1>2, <1>4 DEF Has
<1>7. \A x \in S : Rank(l, x) \in DOMAIN l /\ l[Rank(l, x)] = x
  BY <1>4 DEF Rank
<1>8. \A x \in S : Rank(l, x) \in 1 .. Len(l) /\ Rank(l, x) \in Nat
  BY <1>1, <1>3, <1>7
<1>9. \A x, y \in S : Rank(l, x) = Rank(l, y) => x = y
  BY <1>7
<1> QED BY <1>1, <1>3, <1>5, <1>6, <1>7, <1>8, <1>9

LEMMA SortedLists ==
  ASSUME NEW dense, NEW sparse, NEW D, NEW S, IsFiniteSet(D), IsFiniteSet(S),
         Lists(dense, D), Lists(sparse, S),
         NEW scores, DOMAIN scores = D \cup S, \A x \in D \cup S : scores[x] \in Int
  PROVE  /\ Lists(Sorted(dense, sparse, scores), D \cup S)
         /\ \A p, q \in DOMAIN Sorted(dense, sparse, scores) : p < q =>
              FusedBefore(dense, sparse, scores, Sorted(dense, sparse, scores)[p], Sorted(dense, sparse, scores)[q])
<1> DEFINE ids == D \cup S
           before == {ab \in ids \X ids : FusedBefore(dense, sparse, scores, ab[1], ab[2])}
           best(x) == BestRank(dense, sparse, x)
           seen(x) == FirstSeen(dense, sparse, x)
<1>1. /\ Len(dense) \in Nat
      /\ \A x \in D : Has(dense, x) /\ Rank(dense, x) \in 1 .. Len(dense) /\ dense[Rank(dense, x)] = x
      /\ \A x \in ids \ D : ~Has(dense, x)
  BY Ranks
<1>2. /\ Len(sparse) \in Nat
      /\ \A x \in S : Has(sparse, x) /\ Rank(sparse, x) \in 1 .. Len(sparse) /\ sparse[Rank(sparse, x)] = x
      /\ \A x \in ids \ S : ~Has(sparse, x)
  BY Ranks
<1>3. \A x \in ids : best(x) \in Int
  BY <1>1, <1>2 DEF BestRank
<1>4. \A x \in ids : seen(x) \in Int
  BY <1>1, <1>2 DEF FirstSeen
<1>5. \A x, y \in ids : seen(x) = seen(y) => x = y
  <2> SUFFICES ASSUME NEW x \in ids, NEW y \in ids, seen(x) = seen(y) PROVE x = y
    OBVIOUS
  <2>1. CASE x \in D /\ y \in D
    BY <1>1, <2>1 DEF FirstSeen
  <2>2. CASE x \in D /\ y \notin D
    BY <1>1, <1>2, <2>2 DEF FirstSeen
  <2>3. CASE x \notin D /\ y \in D
    BY <1>1, <1>2, <2>3 DEF FirstSeen
  <2>4. CASE x \notin D /\ y \notin D
    <3>1. Rank(sparse, x) = Rank(sparse, y)
      BY <1>1, <1>2, <2>4 DEF FirstSeen
    <3> QED BY <1>2, <2>4, <3>1
  <2> QED BY <2>1, <2>2, <2>3, <2>4
<1>6. \A x, y \in ids :
        <<x, y>> \in before <=>
          \/ scores[x] > scores[y]
          \/ /\ scores[x] = scores[y]
             /\ best(x) < best(y) \/ (best(x) = best(y) /\ seen(x) < seen(y))
  BY DEF FusedBefore
<1>7. IsFiniteSet(ids)
  BY FS_Union
<1>8. \A p : p \in before => FusedBefore(dense, sparse, scores, p[1], p[2])
  OBVIOUS
<1>9. Sorted(dense, sparse, scores) = Ranked(ids, before)
  BY DEF Sorted
<1>a. \A x \in ids : scores[x] \in Int
  OBVIOUS
<1> HIDE DEF ids, before, best, seen
<1>10. Orders(before, ids)
  <2>1. \A x \in ids : <<x, x>> \notin before
    BY <1>a, <1>3, <1>4, <1>6
  <2>2. \A x, y, z \in ids : <<x, y>> \in before /\ <<y, z>> \in before => <<x, z>> \in before
    BY <1>a, <1>3, <1>4, <1>6
  <2>3. \A x, y \in ids : x # y => <<x, y>> \in before \/ <<y, x>> \in before
    BY <1>a, <1>3, <1>4, <1>5, <1>6
  <2> QED BY <2>1, <2>2, <2>3 DEF Orders
<1>11. /\ Lists(Ranked(ids, before), ids)
       /\ \A p, q \in DOMAIN Ranked(ids, before) :
            p < q => <<Ranked(ids, before)[p], Ranked(ids, before)[q]>> \in before
  BY <1>7, <1>10, RankedLists
<1>12. \A x, y : <<x, y>> \in before => FusedBefore(dense, sparse, scores, x, y)
  BY <1>8
<1> QED BY <1>9, <1>11, <1>12 DEF ids

LEMMA FusedListed ==
  ASSUME ask \in Queries, NEW b, Listed(denseLeg, Legwise(b)), Listed(sparseLeg, Legwise(b)),
         NEW scores, DOMAIN scores = Ids(denseLeg) \cup Ids(sparseLeg),
         \A x \in DOMAIN scores : scores[x] \in Int
  PROVE  /\ Listed(Fused(scores), Rows(b)) /\ Scored(Fused(scores)) /\ Falling(Fused(scores))
         /\ \A i \in DOMAIN Fused(scores) : Fused(scores)[i].id \in DOMAIN scores
         /\ \A i, j \in DOMAIN Fused(scores) : i < j =>
              FusedBefore(LegIds(denseLeg), LegIds(sparseLeg), scores, Fused(scores)[i].id, Fused(scores)[j].id)
<1> DEFINE D == Ids(denseLeg)
           S == Ids(sparseLeg)
           dense == LegIds(denseLeg)
           sparse == LegIds(sparseLeg)
           ids == Sorted(dense, sparse, scores)
           n == IF FetchK > 0 THEN Shortest(FetchK, Len(ids)) ELSE Len(ids)
           fused == Fused(scores)
<1>1. D \subseteq Open(b) /\ S \subseteq Open(b) /\ IsFiniteSet(D) /\ IsFiniteSet(S)
  BY InLegOrderLists
<1>2. Lists(dense, D) /\ Lists(sparse, S)
  BY LegIdsLists
<1>3. /\ Lists(ids, D \cup S)
      /\ \A p, q \in DOMAIN ids : p < q => FusedBefore(dense, sparse, scores, ids[p], ids[q])
  <2> HIDE DEF dense, sparse, D, S
  <2>1. DOMAIN scores = D \cup S /\ \A x \in D \cup S : scores[x] \in Int
    BY DEF D, S
  <2> QED BY <1>1, <1>2, <2>1, SortedLists
<1>4. IsFiniteSet(D \cup S)
  BY <1>1, FS_Union
<1>5. fused = [r \in 1 .. n |-> ChunkOf(ids[r], scores[ids[r]])]
  BY DEF Fused
<1>d. DOMAIN scores = D \cup S
  OBVIOUS
<1> HIDE DEF ids, D, S, fused
<1>6. /\ Len(ids) \in Nat /\ DOMAIN ids = 1 .. Len(ids) /\ \A r \in 1 .. Len(ids) : ids[r] \in D \cup S
      /\ \A p, q \in DOMAIN ids : ids[p] = ids[q] => p = q
  <2>1. ids \in Seq(D \cup S) /\ Len(ids) \in Nat /\ DOMAIN ids = 1 .. Len(ids)
    BY <1>3, <1>4, Ranks
  <2>2. \A p, q \in DOMAIN ids : ids[p] = ids[q] => p = q
    BY <1>3 DEF Lists
  <2>3. \A r \in 1 .. Len(ids) : ids[r] \in D \cup S
    BY <2>1
  <2> QED BY <2>1, <2>2, <2>3
<1>7. n \in Nat /\ n <= Len(ids)
  BY <1>6, FetchKNat DEF Shortest
<1> HIDE DEF n
<1>8. ASSUME NEW r \in 1 .. n
      PROVE  /\ r \in DOMAIN ids /\ ids[r] \in DOMAIN scores
             /\ fused[r] \in Rows(b) /\ fused[r].id = ids[r]
             /\ fused[r].score = scores[ids[r]] /\ scores[ids[r]] \in Int
  <2>1. r \in 1 .. Len(ids)
    BY <1>6, <1>7
  <2>2. ids[r] \in D \cup S
    BY <1>6, <2>1
  <2>3. ids[r] \in Open(b) /\ scores[ids[r]] \in Int /\ scores[ids[r]] \in Scores
    BY <1>1, <1>d, <2>2 DEF Scores
  <2>4. fused[r] = ChunkOf(ids[r], scores[ids[r]])
    BY <1>5
  <2> QED BY <1>6, <1>d, <2>1, <2>2, <2>3, <2>4, ChunkIsRow
<1>9. fused \in Seq(Rows(b)) /\ DOMAIN fused = 1 .. n
  BY <1>5, <1>7, <1>8
<1>10. \A i, j \in DOMAIN fused : fused[i].id = fused[j].id => i = j
  BY <1>6, <1>8, <1>9
<1>11. \A i, j \in DOMAIN fused : i < j => FusedBefore(dense, sparse, scores, fused[i].id, fused[j].id)
  <2> HIDE DEF dense, sparse
  <2> QED BY <1>3, <1>8, <1>9
<1>12. Falling(fused)
  <2> SUFFICES ASSUME NEW i \in DOMAIN fused, NEW j \in DOMAIN fused, i < j
               PROVE  fused[i].score >= fused[j].score
    BY DEF Falling
  <2>1. FusedBefore(dense, sparse, scores, ids[i], ids[j])
    BY <1>8, <1>9, <1>11
  <2>2. scores[ids[i]] >= scores[ids[j]]
    <3> HIDE DEF dense, sparse
    <3> QED BY <1>8, <1>9, <2>1 DEF FusedBefore
  <2> QED BY <1>8, <1>9, <2>2
<1>13. Scored(fused) /\ \A i \in DOMAIN fused : fused[i].id \in DOMAIN scores
  BY <1>8, <1>9 DEF Scored
<1> QED BY <1>9, <1>10, <1>11, <1>12, <1>13 DEF Listed, fused

LEMMA AlphaWeight ==
  ASSUME ask \in Queries
  PROVE  AlphaFor(ask.query, ask.settings) \in 0 .. 10
BY SearchConstants DEF AlphaFor

LEMMA Products ==
  /\ \A x, y \in Nat : x * y \in Nat
  /\ \A x, y, z \in Nat : x <= y => z * x <= z * y
OBVIOUS

LEMMA Quotients ==
  ASSUME NEW u \in Nat, NEW d \in Nat \ {0}
  PROVE  /\ u \div d \in Nat
         /\ \A e \in Nat : d < e => u \div e <= u \div d
<1>1. u \div d \in Nat
  OBVIOUS
<1>2. ASSUME NEW e \in Nat, d < e PROVE u \div e <= u \div d
  <2> DEFINE q == u \div d
             p == u \div e
  <2>1. q \in Nat /\ p \in Nat
    BY <1>2
  <2>2. u < d * (q + 1)
    OBVIOUS
  <2>3. e * p <= u
    BY <1>2
  <2> HIDE DEF p, q
  <2>4. ASSUME q < p PROVE FALSE
    <3>1. d * (q + 1) <= d * p
      BY <2>1, <2>4, Products
    <3>2. d * p <= e * p
      BY <1>2, <2>1
    <3>3. d * (q + 1) \in Nat /\ d * p \in Nat /\ e * p \in Nat
      BY <2>1, Products
    <3> QED BY <2>2, <2>3, <3>1, <3>2, <3>3
  <2>5. p <= q
    BY <2>1, <2>4
  <2> QED BY <2>5 DEF p, q
<1> QED BY <1>1, <1>2

\* What ranks add to a score: never more for a later one.
Gains(gain, n) ==
  /\ \A r \in 1 .. n : gain[r] \in Nat
  /\ \A r, s \in 1 .. n : r < s => gain[s] <= gain[r]
Share(ids, x, weight, gain) == IF Has(ids, x) THEN weight * gain[Rank(ids, x)] ELSE 0

LEMMA ShareFalls ==
  ASSUME NEW l, NEW S, IsFiniteSet(S), Lists(l, S), NEW gain, Gains(gain, Len(l)), NEW weight \in Nat,
         NEW x
  PROVE  /\ Share(l, x, weight, gain) \in Nat
         /\ \A y : Ahead(l, x, y) => Share(l, y, weight, gain) <= Share(l, x, weight, gain)
<1>1. \A z : Has(l, z) => Rank(l, z) \in 1 .. Len(l)
  BY Ranks
<1>2. \A z : Has(l, z) => gain[Rank(l, z)] \in Nat /\ weight * gain[Rank(l, z)] \in Nat
  BY <1>1, Products DEF Gains
<1>3. ASSUME NEW y, Ahead(l, x, y) PROVE Share(l, y, weight, gain) <= Share(l, x, weight, gain)
  <2>1. Has(l, x)
    BY <1>3 DEF Ahead
  <2>2. CASE Has(l, y)
    <3>1. Rank(l, x) < Rank(l, y)
      BY <1>3, <2>2 DEF Ahead
    <3>2. gain[Rank(l, y)] <= gain[Rank(l, x)]
      BY <1>1, <2>1, <2>2, <3>1 DEF Gains
    <3>3. weight * gain[Rank(l, y)] <= weight * gain[Rank(l, x)]
      BY <1>2, <2>1, <2>2, <3>2, Products
    <3> QED BY <2>1, <2>2, <3>3 DEF Share
  <2>3. CASE ~Has(l, y)
    BY <1>2, <2>1, <2>3 DEF Share
  <2> QED BY <2>2, <2>3
<1> QED BY <1>2, <1>3 DEF Share

\* A chunk that is ahead in both legs is ahead in the sort.
LEMMA Dominance ==
  ASSUME NEW dense, NEW sparse, NEW D, NEW S, IsFiniteSet(D), IsFiniteSet(S),
         Lists(dense, D), Lists(sparse, S),
         NEW gd, NEW gs, Gains(gd, Len(dense)), Gains(gs, Len(sparse)),
         NEW wd \in Nat, NEW ws \in Nat, NEW scores,
         \A x \in D \cup S : scores[x] = Share(dense, x, wd, gd) + Share(sparse, x, ws, gs)
  PROVE  /\ \A x \in D \cup S : scores[x] \in Int
         /\ \A x, y \in D \cup S : Ahead(dense, x, y) /\ Ahead(sparse, x, y) =>
              ~FusedBefore(dense, sparse, scores, y, x)
<1>1. ASSUME NEW x \in D \cup S
      PROVE  Share(dense, x, wd, gd) \in Nat /\ Share(sparse, x, ws, gs) \in Nat
  BY ShareFalls
<1>2. ASSUME NEW x \in D \cup S, NEW y \in D \cup S, Ahead(dense, x, y), Ahead(sparse, x, y)
      PROVE  ~FusedBefore(dense, sparse, scores, y, x)
  <2>1. /\ Share(dense, y, wd, gd) <= Share(dense, x, wd, gd)
        /\ Share(sparse, y, ws, gs) <= Share(sparse, x, ws, gs)
    BY <1>2, ShareFalls
  <2>2. /\ scores[y] <= scores[x] /\ scores[x] \in Int /\ scores[y] \in Int
    BY <1>1, <2>1, SMTT(30)
  <2>3. /\ \A z \in D : Has(dense, z) /\ Rank(dense, z) \in Nat
        /\ \A z \in S : Has(sparse, z) /\ Rank(sparse, z) \in Nat
        /\ \A z : (Has(dense, z) => z \in D) /\ (Has(sparse, z) => z \in S)
    BY Ranks
  <2>4. Has(dense, x) /\ Has(sparse, x) /\ x \in D /\ x \in S
    BY <1>2, <2>3 DEF Ahead
  <2>5. /\ BestRank(dense, sparse, x) \in Nat
        /\ BestRank(dense, sparse, x) <= Rank(dense, x)
        /\ BestRank(dense, sparse, x) <= Rank(sparse, x)
    BY <2>3, <2>4 DEF BestRank
  <2>6. BestRank(dense, sparse, y) \in Nat /\ BestRank(dense, sparse, x) < BestRank(dense, sparse, y)
    <3>1. Has(dense, y) => Rank(dense, x) < Rank(dense, y) /\ Rank(dense, y) \in Nat
      BY <1>2, <2>3 DEF Ahead
    <3>2. Has(sparse, y) => Rank(sparse, x) < Rank(sparse, y) /\ Rank(sparse, y) \in Nat
      BY <1>2, <2>3 DEF Ahead
    <3>3. Has(dense, y) \/ Has(sparse, y)
      BY <2>3
    <3>4. Rank(dense, x) \in Nat /\ Rank(sparse, x) \in Nat
      BY <2>3, <2>4
    <3>5. \/ BestRank(dense, sparse, y) = Rank(dense, y) /\ Has(dense, y)
          \/ BestRank(dense, sparse, y) = Rank(sparse, y) /\ Has(sparse, y)
      BY <3>3 DEF BestRank
    <3> QED BY <2>5, <3>1, <3>2, <3>4, <3>5
  <2>7. ~(scores[y] > scores[x]) /\ ~(BestRank(dense, sparse, y) < BestRank(dense, sparse, x))
        /\ BestRank(dense, sparse, y) # BestRank(dense, sparse, x)
    BY <2>2, <2>5, <2>6
  <2> QED BY <2>7 DEF FusedBefore
<1> QED BY <1>1, <1>2

LEMMA RrfShares ==
  ASSUME NEW dense, NEW sparse, NEW D, NEW S, IsFiniteSet(D), IsFiniteSet(S),
         Lists(dense, D), Lists(sparse, S), NEW alpha \in 0 .. 10
  PROVE  LET scores == RrfScores(dense, sparse, alpha)
         IN  /\ DOMAIN scores = D \cup S
             /\ \A x \in D \cup S : scores[x] \in Int
             /\ \A x, y \in D \cup S : Ahead(dense, x, y) /\ Ahead(sparse, x, y) =>
                  ~FusedBefore(dense, sparse, scores, y, x)
<1> DEFINE term(rank) == 10 * (RrfK + 1) * (Unit \div (RrfK + rank))
           gd == [r \in 1 .. Len(dense) |-> term(r)]
           gs == [r \in 1 .. Len(sparse) |-> term(r)]
           scores == RrfScores(dense, sparse, alpha)
<1>1. RrfK \in Nat /\ Unit \in Nat
  BY FusionConstants
<1>2. ASSUME NEW n \in Nat PROVE Gains([r \in 1 .. n |-> term(r)], n)
  <2>1. ASSUME NEW r \in 1 .. n
        PROVE  /\ term(r) \in Nat
               /\ \A s \in 1 .. n : r < s => term(s) <= term(r)
    <3>1. /\ RrfK + r \in Nat \ {0} /\ Unit \div (RrfK + r) \in Nat
          /\ 10 * (RrfK + 1) \in Nat
      BY <1>1, Quotients
    <3>2. ASSUME NEW s \in 1 .. n, r < s PROVE term(s) <= term(r)
      <4>1. RrfK + s \in Nat \ {0} /\ RrfK + r < RrfK + s
        BY <1>1, <3>2
      <4>2. Unit \div (RrfK + s) <= Unit \div (RrfK + r) /\ Unit \div (RrfK + s) \in Nat
        BY <1>1, <3>1, <4>1, Quotients
      <4> QED BY <3>1, <4>2, Products
    <3>3. term(r) \in Nat
      BY <3>1, Products
    <3> QED BY <3>2, <3>3
  <2> HIDE DEF term
  <2> QED BY <2>1 DEF Gains
<1>3. /\ Len(dense) \in Nat /\ Range(dense) = D /\ Len(sparse) \in Nat /\ Range(sparse) = S
      /\ \A x : Has(dense, x) => Rank(dense, x) \in 1 .. Len(dense)
      /\ \A x : Has(sparse, x) => Rank(sparse, x) \in 1 .. Len(sparse)
  BY Ranks
<1>4. Gains(gd, Len(dense)) /\ Gains(gs, Len(sparse))
  BY <1>2, <1>3
<1>5. DOMAIN scores = D \cup S
  BY <1>3 DEF RrfScores
<1>6. ASSUME NEW x \in D \cup S
      PROVE  scores[x] = Share(dense, x, alpha, gd) + Share(sparse, x, 10 - alpha, gs)
  <2>1. scores[x] = (IF Has(dense, x) THEN alpha * term(Rank(dense, x)) ELSE 0)
                    + (IF Has(sparse, x) THEN (10 - alpha) * term(Rank(sparse, x)) ELSE 0)
    BY <1>3 DEF RrfScores, Part
  <2> HIDE DEF term
  <2>2. Has(dense, x) => gd[Rank(dense, x)] = term(Rank(dense, x))
    BY <1>3
  <2>3. Has(sparse, x) => gs[Rank(sparse, x)] = term(Rank(sparse, x))
    BY <1>3
  <2> HIDE DEF gd, gs, scores
  <2> QED BY <2>1, <2>2, <2>3 DEF Share
<1>7. alpha \in Nat /\ 10 - alpha \in Nat
  OBVIOUS
<1> HIDE DEF scores, gd, gs
<1>8. /\ \A x \in D \cup S : scores[x] \in Int
      /\ \A x, y \in D \cup S : Ahead(dense, x, y) /\ Ahead(sparse, x, y) =>
           ~FusedBefore(dense, sparse, scores, y, x)
  BY <1>4, <1>6, <1>7, Dominance
<1> QED BY <1>5, <1>8 DEF scores

\* The sums of _normalise_leg are numbers, whatever the scores are.
LEMMA TotalNat ==
  ASSUME NEW n \in Nat, NEW numbers, DOMAIN numbers = 1 .. n, NEW top \in Nat
  PROVE  Total(numbers, top) \in Nat
<1>1. IsFiniteSet(1 .. n) /\ IsFiniteSet(1 .. top)
  BY FS_Interval
<1>2. IsFiniteSet((1 .. n) \X (1 .. top))
  BY <1>1, FS_Product
<1>3. IsFiniteSet({ik \in (1 .. n) \X (1 .. top) : ik[2] <= numbers[ik[1]]})
  BY <1>2, FS_Subset
<1> QED BY <1>3, FS_CardinalityType DEF Total

LEMMA RootPositive ==
  ASSUME NEW x \in Int, x > 0, NEW top \in Nat, top > 0
  PROVE  Root(x, top) \in Nat \ {0}
<1> DEFINE below == {r \in 1 .. top : r * r <= x}
<1>1. IsFiniteSet(below)
  <2>1. IsFiniteSet(1 .. top) /\ below \in SUBSET (1 .. top)
    BY FS_Interval
  <2> QED BY <2>1, FS_Subset
<1>2. 1 \in below
  OBVIOUS
<1>3. Cardinality(below) \in Nat /\ Cardinality(below) # 0
  BY <1>1, <1>2, FS_CardinalityType, FS_EmptySet
<1> QED BY <1>3 DEF Root

LEMMA IntProducts ==
  ASSUME NEW z \in Nat, NEW x \in Int, NEW y \in Int, x <= y
  PROVE  z * x \in Int /\ z * y \in Int /\ z * x <= z * y
<1>1. y - x \in Nat /\ z * (y - x) \in Nat
  BY Products
<1>2. z * y = z * x + z * (y - x)
  OBVIOUS
<1> QED BY <1>1, <1>2

LEMMA Shares ==
  ASSUME NEW x \in Int, NEW y \in Int, x <= y, NEW d \in Nat \ {0}
  PROVE  x \div d \in Int /\ y \div d \in Int /\ x \div d <= y \div d
<1> DEFINE p == x \div d
           q == y \div d
<1>1. p \in Int /\ q \in Int /\ d * p <= x /\ y < d * (q + 1)
  OBVIOUS
<1> HIDE DEF p, q
<1>2. ASSUME q < p PROVE FALSE
  <2>1. d * (q + 1) \in Int /\ d * p \in Int /\ d * (q + 1) <= d * p
    BY <1>1, <1>2, IntProducts
  <2> QED BY <1>1, <2>1
<1>3. p <= q
  BY <1>1, <1>2
<1> QED BY <1>1, <1>3 DEF p, q

\* A better score of a leg never gets a smaller norm.
LEMMA NormaliseFalls ==
  ASSUME NEW n, NEW scores, Slopes(scores, n)
  PROVE  Gains(NormaliseLeg(scores), n)
<1>1. n \in Nat /\ scores \in [1 .. n -> Int] /\ Len(scores) = n
  BY DEF Slopes
<1> DEFINE sum == Total(scores, MaxScore)
           squares == Total([r \in DOMAIN scores |-> scores[r] * scores[r]], MaxScore * MaxScore)
           variance == n * squares - sum * sum
           spread == Root(100 * variance, 10 * n * MaxScore)
           part(score) == (10 * Unit * (10 * (n * score - sum) + 3 * spread)) \div (6 * spread)
           norms == [r \in 1 .. n |-> IF variance <= 0 THEN 10 * Unit ELSE Clip01(part(scores[r]))]
<1>2. Unit \in Nat /\ MaxScore \in Nat \ {0} /\ MaxScore * MaxScore \in Nat
  BY FusionConstants, Products
<1>3. sum \in Nat /\ squares \in Nat
  BY <1>1, <1>2, TotalNat
<1>4. NormaliseLeg(scores) = norms
  BY <1>1 DEF NormaliseLeg
<1>5. CASE variance <= 0
  <2>1. \A r \in 1 .. n : norms[r] = 10 * Unit
    BY <1>5
  <2> HIDE DEF norms
  <2> QED BY <1>2, <1>4, <2>1 DEF Gains
<1>6. CASE ~(variance <= 0)
  <2>1. variance \in Int
    <3> HIDE DEF sum, squares
    <3> QED BY <1>1, <1>3, Products
  <2> HIDE DEF variance
  <2>2. \A r \in 1 .. n : norms[r] = Clip01(part(scores[r]))
    BY <1>6
  <2> HIDE DEF norms
  <2>3. ASSUME NEW r \in 1 .. n
        PROVE  /\ Clip01(part(scores[r])) \in Nat
               /\ \A q \in 1 .. n : r < q => Clip01(part(scores[q])) <= Clip01(part(scores[r]))
    <3>1. n * MaxScore \in Nat /\ n * MaxScore > 0
      <4>1. n * 1 <= n * MaxScore /\ n * MaxScore \in Nat
        BY <1>1, <1>2, Products
      <4> QED BY <1>1, <4>1
    <3>2. 100 * variance \in Int /\ 100 * variance > 0
      BY <1>6, <2>1
    <3>3. 10 * n * MaxScore \in Nat /\ 10 * n * MaxScore > 0
      <4>1. 10 * n * MaxScore = 10 * (n * MaxScore)
        BY <1>1, <1>2
      <4> QED BY <3>1, <4>1
    <3>4. spread \in Nat \ {0}
      BY <3>2, <3>3, RootPositive
    <3> HIDE DEF spread, sum
    <3>5. ASSUME NEW x \in Int, NEW y \in Int, x <= y
          PROVE  part(x) \in Int /\ part(y) \in Int /\ part(x) <= part(y)
      <4> DEFINE px == 10 * (n * x - sum) + 3 * spread
                 py == 10 * (n * y - sum) + 3 * spread
      <4>1. n * x \in Int /\ n * y \in Int /\ n * x <= n * y
        BY <1>1, <3>5, IntProducts
      <4>2. px \in Int /\ py \in Int /\ px <= py
        BY <1>3, <3>4, <4>1
      <4> HIDE DEF px, py
      <4>3. 10 * Unit \in Nat
        BY <1>2
      <4>4. 10 * Unit * px \in Int /\ 10 * Unit * py \in Int /\ 10 * Unit * px <= 10 * Unit * py
        BY <4>2, <4>3, IntProducts
      <4>5. 6 * spread \in Nat \ {0}
        BY <3>4
      <4>6. /\ (10 * Unit * px) \div (6 * spread) \in Int /\ (10 * Unit * py) \div (6 * spread) \in Int
            /\ (10 * Unit * px) \div (6 * spread) <= (10 * Unit * py) \div (6 * spread)
        BY <4>4, <4>5, Shares
      <4> QED BY <4>6 DEF px, py
    <3> HIDE DEF part
    <3>6. \A x, y \in Int : x <= y => Clip01(x) \in Nat /\ Clip01(x) <= Clip01(y)
      BY <1>2 DEF Clip01
    <3>7. scores[r] \in Int /\ part(scores[r]) \in Int
      BY <1>1, <3>5
    <3>8. ASSUME NEW q \in 1 .. n, r < q
          PROVE  Clip01(part(scores[q])) <= Clip01(part(scores[r]))
      <4>1. scores[q] \in Int /\ scores[q] <= scores[r]
        BY <1>1, <3>8 DEF Slopes
      <4>2. part(scores[q]) \in Int /\ part(scores[q]) <= part(scores[r])
        BY <3>5, <3>7, <4>1
      <4> QED BY <3>6, <3>7, <4>2
    <3> QED BY <3>6, <3>7, <3>8
  <2> HIDE DEF part
  <2> QED BY <1>4, <2>2, <2>3 DEF Gains
<1> QED BY <1>5, <1>6

LEMMA DbsfShares ==
  ASSUME NEW dense, NEW sparse, NEW D, NEW S, IsFiniteSet(D), IsFiniteSet(S),
         Lists(dense, D), Lists(sparse, S), NEW alpha \in 0 .. 10, NEW ds, NEW ss,
         Slopes(ds, Len(dense)), Slopes(ss, Len(sparse))
  PROVE  LET scores == DbsfScores(dense, sparse, alpha, ds, ss)
         IN  /\ DOMAIN scores = D \cup S
             /\ \A x \in D \cup S : scores[x] \in Int
             /\ \A x, y \in D \cup S : Ahead(dense, x, y) /\ Ahead(sparse, x, y) =>
                  ~FusedBefore(dense, sparse, scores, y, x)
<1> DEFINE gd == NormaliseLeg(ds)
           gs == NormaliseLeg(ss)
           scores == DbsfScores(dense, sparse, alpha, ds, ss)
<1>1. Range(dense) = D /\ Range(sparse) = S
  BY Ranks
<1>2. Gains(gd, Len(dense)) /\ Gains(gs, Len(sparse))
  BY NormaliseFalls
<1>3. DOMAIN scores = D \cup S
  BY <1>1 DEF DbsfScores
<1>4. ASSUME NEW x \in D \cup S
      PROVE  scores[x] = Share(dense, x, alpha, gd) + Share(sparse, x, 10 - alpha, gs)
  BY <1>1 DEF DbsfScores, Part, Share
<1>5. alpha \in Nat /\ 10 - alpha \in Nat
  OBVIOUS
<1> HIDE DEF scores, gd, gs
<1>6. /\ \A x \in D \cup S : scores[x] \in Int
      /\ \A x, y \in D \cup S : Ahead(dense, x, y) /\ Ahead(sparse, x, y) =>
           ~FusedBefore(dense, sparse, scores, y, x)
  BY <1>2, <1>4, <1>5, Dominance
<1> QED BY <1>3, <1>6 DEF scores

-----------------------------------------------------------------------------
(* What a step leaves. *)

SearchInv ==
  /\ ask \in Queries /\ world \in 1 .. Len(Worlds) /\ step \in {"legs", "tombs", "done"}
  /\ denseLeg # Unread => Listed(denseLeg, Legwise(ask.branch))
  /\ sparseLeg # Unread => Listed(sparseLeg, Legwise(ask.branch))
  /\ hits # Unread => Listed(hits, Rows(ask.branch))
  /\ step # "legs" =>
       /\ Unread \notin {denseLeg, sparseLeg, hits}
       /\ Listed(pool, Rows(ask.branch)) /\ Scored(pool) /\ Falling(pool)

LEMMA FoundOpen ==
  ASSUME SearchInv
  PROVE  Found \in SUBSET Open(ask.branch) /\ IsFiniteSet(Found)
<1>1. Worlds[world].chunks \subseteq DOMAIN Chunks
  BY SearchConstants DEF SearchInv
<1>2. Found \in SUBSET Open(ask.branch)
  BY <1>1 DEF Found, Open
<1> QED BY <1>2, FiniteIds DEF Open

LEMMA LegsListed ==
  ASSUME SearchInv, NEW leg \in Legs
  PROVE  Listed(leg, Legwise(ask.branch))
<1> DEFINE n == Shortest(LegK, Cardinality(Found))
<1>1. Cardinality(Found) \in Nat
  BY FoundOpen, FS_CardinalityType
<1>2. PICK s \in SetToSeqs(Found), scores \in ask.scores :
        leg = [r \in 1 .. n |-> [id |-> s[r], score |-> scores[r]]]
  BY DEF Legs
<1>3. /\ s \in [1 .. Cardinality(Found) -> Found]
      /\ \A p, q \in 1 .. Cardinality(Found) : p # q => s[p] # s[q]
  BY DEF SetToSeqs
<1>4. n \in Nat /\ n <= Cardinality(Found)
  BY <1>1, FetchKNat DEF Shortest, SearchInv
<1> HIDE DEF n
<1>x. Found \in SUBSET DOMAIN Chunks /\ IsFiniteSet(DOMAIN Chunks)
  BY FoundOpen, SearchConstants DEF Open
<1>y. Cardinality(Found) <= Cardinality(DOMAIN Chunks) /\ Cardinality(DOMAIN Chunks) \in Nat
  BY <1>x, FS_Subset, FS_CardinalityType
<1>z. n <= MaxRank /\ MaxRank \in Nat /\ scores \in [1 .. MaxRank -> 0 .. MaxScore] /\ MaxScore \in Nat
  BY <1>1, <1>4, <1>y, SearchConstants, FusionConstants DEF SearchInv
<1>5. \A r \in 1 .. n : r \in 1 .. Cardinality(Found) /\ s[r] \in Open(ask.branch) /\ scores[r] \in Int
  BY <1>1, <1>3, <1>4, <1>z, FoundOpen
<1>6. leg \in Seq(Legwise(ask.branch)) /\ DOMAIN leg = 1 .. n
  BY <1>2, <1>4, <1>5 DEF Legwise
<1>7. \A p, q \in DOMAIN leg : leg[p].id = leg[q].id => p = q
  BY <1>2, <1>3, <1>5, <1>6
<1> QED BY <1>6, <1>7 DEF Listed

LEMMA LookupListed ==
  ASSUME SearchInv, NEW s \in SetToSeqs(Declaring) \cup {<<>>}
  PROVE  Listed([r \in 1 .. Shortest(LookupK, Len(s)) |-> ChunkOf(s[r], NoScore)], Rows(ask.branch))
<1> DEFINE n == Shortest(LookupK, Len(s))
           found == [r \in 1 .. n |-> ChunkOf(s[r], NoScore)]
<1>1. Declaring \in SUBSET Open(ask.branch) /\ IsFiniteSet(Declaring)
  BY FoundOpen, FS_Subset DEF Declaring
<1>2. Cardinality(Declaring) \in Nat
  BY <1>1, FS_CardinalityType
<1>3. /\ Len(s) \in Nat
      /\ \A r \in 1 .. Len(s) : s[r] \in Open(ask.branch)
      /\ \A p, q \in 1 .. Len(s) : s[p] = s[q] => p = q
  <2>1. CASE s = <<>>
    BY <2>1
  <2>2. CASE s \in SetToSeqs(Declaring)
    <3>1. /\ s \in [1 .. Cardinality(Declaring) -> Declaring]
          /\ \A p, q \in 1 .. Cardinality(Declaring) : p # q => s[p] # s[q]
      BY <2>2 DEF SetToSeqs
    <3>2. Len(s) = Cardinality(Declaring)
      BY <1>2, <3>1
    <3> QED BY <1>1, <1>2, <3>1, <3>2
  <2> QED BY <2>1, <2>2
<1>4. n \in Nat /\ n <= Len(s)
  BY <1>3, SearchConstants DEF Shortest
<1> HIDE DEF n
<1>5. \A r \in 1 .. n : r \in 1 .. Len(s)
  BY <1>3, <1>4
<1>6. \A r \in 1 .. n : found[r] \in Rows(ask.branch) /\ found[r].id = s[r]
  <2> TAKE r \in 1 .. n
  <2>1. s[r] \in Open(ask.branch) /\ NoScore \in Scores
    BY <1>3, <1>5 DEF Scores
  <2>2. found[r] = ChunkOf(s[r], NoScore)
    OBVIOUS
  <2> QED BY <2>1, <2>2, ChunkIsRow
<1>7. found \in Seq(Rows(ask.branch)) /\ DOMAIN found = 1 .. n
  BY <1>4, <1>6
<1> HIDE DEF found
<1>8. \A p, q \in DOMAIN found : found[p].id = found[q].id => p = q
  BY <1>3, <1>5, <1>6, <1>7
<1>9. Listed(found, Rows(ask.branch))
  BY <1>7, <1>8 DEF Listed
<1> QED BY <1>9 DEF found, n

\* A chunk that is ahead in both legs is ahead in the list of the scores.
Dominated(list) ==
  \A i \in DOMAIN list : \A j \in 1 .. i - 1 :
    ~(Ahead(LegIds(denseLeg), list[i].id, list[j].id) /\ Ahead(LegIds(sparseLeg), list[i].id, list[j].id))

LEMMA FusedDominated ==
  ASSUME ask \in Queries, NEW b, Listed(denseLeg, Legwise(b)), Listed(sparseLeg, Legwise(b)),
         NEW scores, DOMAIN scores = Ids(denseLeg) \cup Ids(sparseLeg),
         \A x \in DOMAIN scores : scores[x] \in Int,
         \A x, y \in DOMAIN scores :
           Ahead(LegIds(denseLeg), x, y) /\ Ahead(LegIds(sparseLeg), x, y) =>
             ~FusedBefore(LegIds(denseLeg), LegIds(sparseLeg), scores, y, x)
  PROVE  /\ Listed(Fused(scores), Rows(b)) /\ Scored(Fused(scores)) /\ Falling(Fused(scores))
         /\ Dominated(Fused(scores))
<1> DEFINE fused == Fused(scores)
<1>1. /\ Listed(fused, Rows(b)) /\ Scored(fused) /\ Falling(fused)
      /\ \A i \in DOMAIN fused : fused[i].id \in DOMAIN scores
      /\ \A i, j \in DOMAIN fused : i < j =>
           FusedBefore(LegIds(denseLeg), LegIds(sparseLeg), scores, fused[i].id, fused[j].id)
  BY FusedListed
<1> HIDE DEF fused
<1>2. DOMAIN fused = 1 .. Len(fused) /\ Len(fused) \in Nat
  BY <1>1, ListDomain
<1>3. ASSUME NEW i \in DOMAIN fused, NEW j \in 1 .. i - 1
      PROVE  ~(Ahead(LegIds(denseLeg), fused[i].id, fused[j].id) /\ Ahead(LegIds(sparseLeg), fused[i].id, fused[j].id))
  <2>1. j \in DOMAIN fused /\ j < i
    BY <1>2
  <2> QED BY <1>1, <2>1
<1>4. Dominated(fused)
  BY <1>3 DEF Dominated
<1> QED BY <1>1, <1>4 DEF fused

LEMMA RetrievedPool ==
  ASSUME SearchInv, Retrieved
  PROVE  /\ Unread \notin {denseLeg, sparseLeg, hits}
         /\ Listed(pool', Rows(ask.branch)) /\ Scored(pool') /\ Falling(pool') /\ Dominated(pool')
<1> DEFINE dense == LegIds(denseLeg)
           sparse == LegIds(sparseLeg)
           alpha == AlphaFor(ask.query, ask.settings)
           D == Ids(denseLeg)
           S == Ids(sparseLeg)
<1>1. Unread \notin {denseLeg, sparseLeg, hits}
  BY DEF Retrieved
<1>2. Listed(denseLeg, Legwise(ask.branch)) /\ Listed(sparseLeg, Legwise(ask.branch)) /\ ask \in Queries
  BY <1>1 DEF SearchInv
<1>3. IsFiniteSet(D) /\ IsFiniteSet(S)
  BY <1>2, InLegOrderLists
<1>4. /\ Lists(dense, D) /\ Lists(sparse, S)
      /\ Slopes(ScoresOf(dense, denseLeg), Len(dense)) /\ Slopes(ScoresOf(sparse, sparseLeg), Len(sparse))
  BY <1>2, LegIdsLists
<1>5. alpha \in 0 .. 10
  BY <1>2, AlphaWeight
<1>6. \/ pool' = Fused(RrfScores(dense, sparse, alpha))
      \/ pool' = Fused(DbsfScores(dense, sparse, alpha, ScoresOf(dense, denseLeg), ScoresOf(sparse, sparseLeg)))
  BY DEF Retrieved
<1>7. PICK scores : /\ pool' = Fused(scores) /\ DOMAIN scores = D \cup S
                    /\ \A x \in D \cup S : scores[x] \in Int
                    /\ \A x, y \in D \cup S : Ahead(dense, x, y) /\ Ahead(sparse, x, y) =>
                         ~FusedBefore(dense, sparse, scores, y, x)
  <2> HIDE DEF dense, sparse, alpha, D, S
  <2>1. CASE pool' = Fused(RrfScores(dense, sparse, alpha))
    <3> DEFINE fused == RrfScores(dense, sparse, alpha)
    <3>1. /\ DOMAIN fused = D \cup S
          /\ \A x \in D \cup S : fused[x] \in Int
          /\ \A x, y \in D \cup S : Ahead(dense, x, y) /\ Ahead(sparse, x, y) =>
               ~FusedBefore(dense, sparse, fused, y, x)
      BY <1>3, <1>4, <1>5, RrfShares
    <3> HIDE DEF fused
    <3>2. pool' = Fused(fused)
      BY <2>1 DEF fused
    <3> QED BY <3>1, <3>2
  <2>2. CASE pool' = Fused(DbsfScores(dense, sparse, alpha, ScoresOf(dense, denseLeg),
                                      ScoresOf(sparse, sparseLeg)))
    <3> DEFINE fused == DbsfScores(dense, sparse, alpha, ScoresOf(dense, denseLeg), ScoresOf(sparse, sparseLeg))
    <3>2. /\ DOMAIN fused = D \cup S
          /\ \A x \in D \cup S : fused[x] \in Int
          /\ \A x, y \in D \cup S : Ahead(dense, x, y) /\ Ahead(sparse, x, y) =>
               ~FusedBefore(dense, sparse, fused, y, x)
      BY <1>3, <1>4, <1>5, DbsfShares
    <3> HIDE DEF fused
    <3>3. pool' = Fused(fused)
      BY <2>2 DEF fused
    <3> QED BY <3>2, <3>3
  <2> QED BY <1>6, <2>1, <2>2
<1>8. /\ Listed(Fused(scores), Rows(ask.branch)) /\ Scored(Fused(scores)) /\ Falling(Fused(scores))
      /\ Dominated(Fused(scores))
  BY <1>2, <1>7, FusedDominated
<1> QED BY <1>1, <1>7, <1>8

-----------------------------------------------------------------------------
(* The last step. *)

LEMMA PlainCandidates ==
  ASSUME ask \in Queries, ~ask.branch, NEW b, Listed(pool, Rows(b)), Listed(hits, Rows(b)), NEW t
  PROVE  Listed(Candidates(t), Rows(b))
BY MergeListed DEF Candidates

\* A search without an overlay only ever sees main and what has no branch.
LEMMA PlainRows ==
  ASSUME ask \in Queries, ~ask.branch, NEW c \in Rows(ask.branch)
  PROVE  c.branch # Overlay
<1>1. c.id \in Open(ask.branch) /\ c.branch = Chunks[c.id].branch
  BY RowFields
<1>2. Chunks[c.id].branch \in {Main, NoBranch}
  BY <1>1 DEF Open, Dedup!BranchFilter
<1> QED BY <1>1, <1>2, SearchConstants

LEMMA FinishResult ==
  ASSUME SearchInv, Finish
  PROVE  /\ Listed(result', Rows(ask.branch)) /\ Shows(result') \subseteq Shows(Candidates(tombs'))
         /\ Listed(Candidates(tombs'), Rows(ask.branch))
         /\ ask.branch => Single(Shows(Candidates(tombs')), tombs')
         /\ ~ask.branch => tombs' = {}
<1>1. ask \in Queries /\ Listed(pool, Rows(ask.branch)) /\ Scored(pool) /\ Listed(hits, Rows(ask.branch))
  BY DEF SearchInv, Finish
<1>2. PICK t : t = tombs'
  OBVIOUS
<1>3. PICK b : b = ask.branch
  OBVIOUS
<1> DEFINE merged == Candidates(t)
<1>4. Listed(merged, Rows(b)) /\ (ask.branch => Single(Shows(merged), t))
  <2>1. CASE ask.branch
    BY <1>1, <1>3, <2>1, OverlayCandidates
  <2>2. CASE ~ask.branch
    BY <1>1, <1>3, <2>2, PlainCandidates
  <2> QED BY <2>1, <2>2
<1>5. PICK sigmoid \in Sigmoids :
         result' = Rank2!RerankResults(IF ask.encoder THEN Rank2!Blend(merged, sigmoid, 50) ELSE merged,
                                       ask.query, ask.options, ask.topK)
  BY <1>2 DEF Finish
<1>6. \A id \in DOMAIN Chunks : sigmoid[id] \in Scores
  <2>1. ask.sigmoids \subseteq [DOMAIN Chunks -> Scores]
    BY <1>1, SearchConstants DEF Scores
  <2>2. sigmoid \in [DOMAIN Chunks -> Scores]
    BY <2>1 DEF Sigmoids, Scores
  <2> QED BY <2>2
<1> HIDE DEF merged
<1> DEFINE ranked == IF ask.encoder THEN Rank2!Blend(merged, sigmoid, 50) ELSE merged
<1>7. Listed(ranked, Rows(b)) /\ Shows(ranked) = Shows(merged)
  BY <1>4, <1>6, BlendListed
<1> HIDE DEF ranked
<1>8. /\ Listed(Rank2!RerankResults(ranked, ask.query, ask.options, ask.topK), Rows(b))
      /\ Shows(Rank2!RerankResults(ranked, ask.query, ask.options, ask.topK)) \subseteq Shows(ranked)
  BY <1>1, <1>7, FetchKNat, RerankListed
<1>9. Listed(result', Rows(b)) /\ Shows(result') \subseteq Shows(merged)
  BY <1>5, <1>7, <1>8 DEF ranked
<1>10. ~ask.branch => tombs' = {}
  BY DEF Finish
<1> QED BY <1>2, <1>3, <1>4, <1>9, <1>10 DEF merged

\* What OneVersionPerPath says of a list.
OneVersion(list, withOverlay, t) ==
  /\ \A i, j \in DOMAIN list : list[i].id = list[j].id => i = j
  /\ \A c \in Dedup!InList(list) : c.path # NoPath => c.path \notin t
  /\ \A c, d \in Dedup!InList(list) : c.path = d.path /\ c.path # NoPath => (c.branch = Overlay) = (d.branch = Overlay)
  /\ ~withOverlay => \A c \in Dedup!InList(list) : c.branch # Overlay

LEMMA FinishOneVersion ==
  ASSUME SearchInv, Finish
  PROVE  OneVersion(result', ask.branch, tombs')
<1>1. PICK list : list = result'
  OBVIOUS
<1>2. PICK t : t = tombs'
  OBVIOUS
<1>3. PICK ids : ids = Shows(Candidates(tombs'))
  OBVIOUS
<1>4. /\ Listed(list, Rows(ask.branch)) /\ Shows(list) \subseteq ids
      /\ ask.branch => Single(ids, t)
      /\ ~ask.branch => t = {}
  BY <1>1, <1>2, <1>3, FinishResult
<1>5. ask \in Queries
  BY DEF SearchInv
<1>6. \A c \in Dedup!InList(list) :
        c \in Rows(ask.branch) /\ c.id \in ids /\ c.path = Chunks[c.id].path /\ c.branch = Chunks[c.id].branch
  <2> TAKE c \in Dedup!InList(list)
  <2>1. c \in Rows(ask.branch)
    BY <1>4, ListDomain DEF Dedup!InList
  <2>2. c.id \in ids
    BY <1>4 DEF Dedup!InList, Shows
  <2> QED BY <2>1, <2>2, RowFields
<1>7. \A i, j \in DOMAIN list : list[i].id = list[j].id => i = j
  BY <1>4 DEF Listed
<1>8. CASE ask.branch
  <2>1. \A c \in Dedup!InList(list) : c.path # NoPath => c.path \notin t
    BY <1>4, <1>6, <1>8 DEF Single
  <2>2. ASSUME NEW c \in Dedup!InList(list), NEW d \in Dedup!InList(list), c.path = d.path, c.path # NoPath
        PROVE  (c.branch = Overlay) = (d.branch = Overlay)
    <3>1. /\ c.id \in ids /\ c.path = Chunks[c.id].path /\ c.branch = Chunks[c.id].branch
          /\ d.id \in ids /\ d.path = Chunks[d.id].path /\ d.branch = Chunks[d.id].branch
      BY <1>6
    <3>2. Single(ids, t)
      BY <1>4, <1>8
    <3>3. Chunks[c.id].branch = Overlay <=> Chunks[d.id].branch = Overlay
      BY <2>2, <3>1, <3>2 DEF Single
    <3> QED BY <3>1, <3>3
  <2> QED BY <1>1, <1>2, <1>7, <1>8, <2>1, <2>2 DEF OneVersion
<1>9. CASE ~ask.branch
  <2>1. \A c \in Dedup!InList(list) : c.branch # Overlay
    BY <1>5, <1>6, <1>9, PlainRows
  <2>2. \A c, d \in Dedup!InList(list) : (c.branch = Overlay) = (d.branch = Overlay)
    BY <2>1
  <2> QED BY <1>1, <1>2, <1>4, <1>7, <1>9, <2>1, <2>2 DEF OneVersion
<1> QED BY <1>8, <1>9

-----------------------------------------------------------------------------
(* Hits need rules. *)

\* A chunk's other copy of the same version wins with it.
LEMMA KeptTwin ==
  ASSUME NEW S, NEW t, NEW e \in Dedup!Kept(S, t), NEW c \in S, c.path = e.path, c.branch = e.branch
  PROVE  c \in Dedup!Kept(S, t)
<1>1. CASE c.path = NoPath
  BY <1>1 DEF Dedup!Kept, Dedup!Pathless
<1>2. CASE c.path # NoPath
  <2>1. PICK x \in S : e \in Dedup!PreferOverlay(Dedup!Partition(S, x.path, t))
    BY <1>2 DEF Dedup!Kept, Dedup!Preferred, Dedup!Pathless
  <2> DEFINE entries == Dedup!Partition(S, x.path, t)
  <2>2. e \in entries
    BY <2>1 DEF Dedup!PreferOverlay
  <2>3. c \in entries
    BY <2>2 DEF Dedup!Partition
  <2> HIDE DEF entries
  <2>4. e \in Dedup!PreferOverlay(entries)
    BY <2>1 DEF entries
  <2>5. c \in Dedup!PreferOverlay(entries)
    BY <2>3, <2>4 DEF Dedup!PreferOverlay
  <2> QED BY <2>5 DEF entries, Dedup!Kept, Dedup!Preferred
<1> QED BY <1>1, <1>2

\* ... and wins among fewer.
LEMMA KeptAmongFewer ==
  ASSUME NEW S, NEW t, NEW c \in Dedup!Kept(S, t), NEW F \in SUBSET S, c \in F
  PROVE  c \in Dedup!Kept(F, t)
<1>1. CASE c.path = NoPath
  BY <1>1 DEF Dedup!Kept, Dedup!Pathless
<1>2. CASE c.path # NoPath
  <2>1. PICK x \in S : c \in Dedup!PreferOverlay(Dedup!Partition(S, x.path, t))
    BY <1>2 DEF Dedup!Kept, Dedup!Preferred, Dedup!Pathless
  <2> DEFINE all == Dedup!Partition(S, x.path, t)
             few == Dedup!Partition(F, c.path, t)
  <2>2. c \in all
    BY <2>1 DEF Dedup!PreferOverlay
  <2>3. c \in few /\ few \subseteq all
    BY <2>2 DEF Dedup!Partition
  <2> HIDE DEF all, few
  <2>4. c \in Dedup!PreferOverlay(all)
    BY <2>1 DEF all
  <2>5. c \in Dedup!PreferOverlay(few)
    BY <2>3, <2>4 DEF Dedup!PreferOverlay
  <2> QED BY <2>5 DEF few, Dedup!Kept, Dedup!Preferred
<1> QED BY <1>1, <1>2

\* A hit of which the pool has a copy is in what dedup leaves of the pool.
LEMMA HitInPool ==
  ASSUME NEW b, NEW nodes, Listed(nodes, Rows(b)), Scored(nodes), NEW extra, Listed(extra, Rows(b)), NEW t,
         NEW d \in Dedup!InList(extra) \cap Dedup!Kept(Dedup!InList(nodes) \cup Dedup!InList(extra), t),
         NEW c \in Dedup!InList(nodes), c.id = d.id
  PROVE  c \in Dedup!Kept(Dedup!InList(Dedup!FilteredNodes(nodes, extra, t)), t)
<1> DEFINE union == Dedup!InList(nodes) \cup Dedup!InList(extra)
           f == Dedup!FilteredNodes(nodes, extra, t)
<1>1. c \in Rows(b) /\ d \in Rows(b)
  BY ListDomain DEF Dedup!InList
<1>2. c.path = d.path /\ c.branch = d.branch
  BY <1>1, RowFields
<1>3. c \in Dedup!Kept(union, t)
  BY <1>2, KeptTwin
<1>4. c \notin Dedup!Shadowed(nodes, extra, t)
  <2> SUFFICES ASSUME c \in Dedup!Shadowed(nodes, extra, t) PROVE FALSE
    OBVIOUS
  <2>1. /\ c.branch \notin {Overlay, NoBranch}
        /\ \E e \in Dedup!Partition(union, c.path, t) : e.branch = Overlay
    BY DEF Dedup!Shadowed
  <2>2. PICK e \in union : e.branch = Overlay /\ e.path = c.path /\ c.path # NoPath
    BY <2>1 DEF Dedup!Partition
  <2> QED BY <1>3, <2>1, <2>2, KeptSingle
<1>5. c \in Dedup!InList(f) /\ Dedup!InList(f) \subseteq union
  BY <1>4, FilteredListed
<1> QED BY <1>3, <1>5, KeptAmongFewer

LEMMA ShownCount ==
  ASSUME NEW rows, NEW list, Listed(list, rows), NEW ids \in SUBSET Shows(list)
  PROVE  IsFiniteSet(ids) /\ Cardinality(ids) \in Nat /\ Cardinality(ids) <= Len(list)
<1> DEFINE at == [i \in DOMAIN list |-> list[i].id]
<1>1. DOMAIN list = 1 .. Len(list) /\ Len(list) \in Nat
  BY ListDomain
<1>2. IsFiniteSet(DOMAIN list) /\ Cardinality(DOMAIN list) = Len(list)
  <2>1. \A n \in Nat : IsFiniteSet(1 .. n) /\ Cardinality(1 .. n) = n
    BY FS_Interval
  <2> QED BY <1>1, <2>1
<1>3. at \in Surjection(DOMAIN list, Shows(list))
  BY DEF Surjection, Shows
<1>4. IsFiniteSet(Shows(list)) /\ Cardinality(Shows(list)) <= Len(list)
  BY <1>2, <1>3, FS_Surjection
<1>5. IsFiniteSet(ids) /\ Cardinality(ids) <= Cardinality(Shows(list))
  BY <1>4, FS_Subset
<1>6. Cardinality(ids) \in Nat /\ Cardinality(Shows(list)) \in Nat
  BY <1>4, <1>5, FS_CardinalityType
<1> QED BY <1>1, <1>4, <1>5, <1>6

\* Places 1 .. k before all that are behind m keep these out of the first k.
LEMMA FirstStayAhead ==
  ASSUME NEW n \in Nat, NEW k \in Nat, NEW m \in Nat, k <= m, m <= n,
         NEW before, Orders(before, 1 .. n),
         NEW at \in [1 .. n -> 1 .. n],
         \A p, q \in 1 .. n : p < q => <<at[p], at[q]>> \in before,
         \A i \in 1 .. n : \E p \in 1 .. n : at[p] = i,
         \A i \in 1 .. k : \A j \in m + 1 .. n : <<i, j>> \in before,
         NEW p \in 1 .. k
  PROVE  at[p] \in 1 .. m
<1> SUFFICES ASSUME at[p] \notin 1 .. m PROVE FALSE
  OBVIOUS
<1>1. p \in 1 .. n /\ at[p] \in m + 1 .. n
  <2>1. p \in 1 .. n
    OBVIOUS
  <2> QED BY <2>1
<1> DEFINE where == [i \in 1 .. k |-> CHOOSE q \in 1 .. n : at[q] = i]
<1>2. \A i \in 1 .. k : i \in 1 .. n
  OBVIOUS
<1>3. \A i \in 1 .. k : where[i] \in 1 .. n /\ at[where[i]] = i
  BY <1>2
<1> HIDE DEF where
<1>4. ASSUME NEW i \in 1 .. k PROVE where[i] \in 1 .. p - 1
  <2>1. <<i, at[p]>> \in before
    BY <1>1
  <2>2. where[i] # p
    <3>1. <<i, i>> \notin before
      BY <1>2 DEF Orders
    <3>2. where[i] = p => at[p] = i
      BY <1>3
    <3> QED BY <2>1, <3>1, <3>2
  <2>3. ~(p < where[i])
    <3> SUFFICES ASSUME p < where[i] PROVE FALSE
      OBVIOUS
    <3>1. <<at[p], i>> \in before
      BY <1>1, <1>3
    <3> QED BY <1>1, <1>2, <2>1, <3>1 DEF Orders
  <2>4. where[i] \in 1 .. n
    BY <1>3
  <2> QED BY <2>2, <2>3, <2>4
<1>5. where \in Injection(1 .. k, 1 .. p - 1)
  <2>1. where \in [1 .. k -> 1 .. p - 1]
    BY <1>4 DEF where
  <2>2. \A i, j \in 1 .. k : where[i] = where[j] => i = j
    BY <1>3
  <2> QED BY <2>1, <2>2 DEF Injection, IsInjective
<1>6. /\ IsFiniteSet(1 .. p - 1) /\ Cardinality(1 .. p - 1) = p - 1
      /\ Cardinality(1 .. k) = k
  <2>1. 1 \in Int /\ p - 1 \in Int /\ k \in Int /\ p >= 1 /\ k >= 1
    OBVIOUS
  <2>2. IsFiniteSet(1 .. p - 1) /\ Cardinality(1 .. p - 1) = IF 1 > p - 1 THEN 0 ELSE p - 1 - 1 + 1
    BY <2>1, FS_Interval
  <2>3. Cardinality(1 .. k) = IF 1 > k THEN 0 ELSE k - 1 + 1
    BY <2>1, FS_Interval
  <2> QED BY <2>1, <2>2, <2>3
<1>7. Cardinality(1 .. k) <= Cardinality(1 .. p - 1)
  BY <1>5, <1>6, FS_Injection
<1> QED BY <1>6, <1>7

\* Where no rule acts and the nodes fill the answer, no hit is shown.
LEMMA QuietRanking ==
  ASSUME ask \in Queries, NEW b, NEW nodes, Listed(nodes, Rows(b)), Scored(nodes), Falling(nodes),
         NEW extra, Listed(extra, Rows(b)), ask.topK <= Len(nodes), ~(ask.top /\ ask.query.overview),
         \A i \in DOMAIN Merge(nodes, extra) :
           Rank2!Adjustment(ask.query, ask.options, Merge(nodes, extra), Merge(nodes, extra)[i]) = 0,
         ~(ask.options.fileCap > 0 /\ ask.query.places)
  PROVE  Shows(Rank2!RerankResults(Merge(nodes, extra), ask.query, ask.options, ask.topK)) \subseteq Shows(nodes)
<1> DEFINE merged == Merge(nodes, extra)
           adjustment == [i \in DOMAIN merged |-> Rank2!Adjustment(ask.query, ask.options, merged, merged[i])]
           scores == [i \in DOMAIN merged |-> Rank2!ScoreOf(merged[i]) + adjustment[i]]
           ranked == Rank2!ByScore(merged, scores)
           shown == Rank2!RerankResults(merged, ask.query, ask.options, ask.topK)
           k == ask.topK
           m == Len(nodes)
           n == Len(merged)
<1>1. /\ Listed(merged, Rows(b)) /\ m <= n
      /\ \A i \in 1 .. m : merged[i] = nodes[i]
      /\ nodes # <<>> /\ ~ask.top =>
           \A i \in m + 1 .. n : merged[i].score = nodes[Shortest(Rank2!MaxOf(k, 1), m)].score
  BY MergeListed
<1>2. k \in Nat /\ m \in Nat /\ n \in Nat /\ k <= m /\ DOMAIN merged = 1 .. n /\ DOMAIN nodes = 1 .. m
  BY <1>1, FetchKNat, ListDomain
<1>3. \A i \in DOMAIN merged : adjustment[i] = 0
  OBVIOUS
<1>4. \/ shown = Rank2!Cut(merged, k)
      \/ ask.query.overview /\ shown = Rank2!Cut(ranked, k)
  <2>1. ~(\E i \in DOMAIN merged : adjustment[i] # 0)
    BY <1>3
  <2> HIDE DEF merged
  <2> QED BY <2>1 DEF Rank2!RerankResults
<1>5. \A i \in 1 .. m : nodes[i].id \in Shows(nodes)
  BY <1>2 DEF Shows
<1> HIDE DEF merged
<1>6. ASSUME NEW list, Listed(list, Rows(b)), \A i \in 1 .. k : i \in DOMAIN list => list[i].id \in Shows(nodes)
      PROVE  Shows(Rank2!Cut(list, k)) \subseteq Shows(nodes)
  <2> DEFINE cut == Rank2!Cut(list, k)
  <2>0. k \in Int
    BY <1>2
  <2> HIDE DEF k
  <2>1. LET c == SubSeq(list, 1, IF k < Len(list) THEN k ELSE Len(list))
        IN  /\ Listed(c, Rows(b)) /\ Shows(c) \subseteq Shows(list)
            /\ Len(c) = IF k < 0 THEN 0 ELSE IF k < Len(list) THEN k ELSE Len(list)
            /\ \A i \in 1 .. Len(c) : c[i] = list[i] /\ i \in 1 .. Len(list)
    BY <2>0, <1>6, CutListed
  <2>2. /\ Listed(cut, Rows(b))
        /\ Len(cut) = IF k < 0 THEN 0 ELSE IF k < Len(list) THEN k ELSE Len(list)
        /\ \A i \in 1 .. Len(cut) : cut[i] = list[i] /\ i \in 1 .. Len(list)
    BY <2>1 DEF Rank2!Cut
  <2> HIDE DEF cut, k
  <2>3. /\ DOMAIN cut = 1 .. Len(cut) /\ Len(cut) \in Nat
        /\ DOMAIN list = 1 .. Len(list) /\ Len(list) \in Nat
    BY <1>6, <2>2, ListDomain
  <2>4. Len(cut) <= k
    BY <1>2, <2>2, <2>3
  <2>5. \A i \in DOMAIN cut : cut[i].id \in Shows(nodes)
    <3> TAKE i \in DOMAIN cut
    <3>1. i \in 1 .. k /\ i \in DOMAIN list /\ cut[i] = list[i]
      BY <1>2, <2>2, <2>3, <2>4
    <3> QED BY <1>6, <3>1
  <2>6. Shows(cut) \subseteq Shows(nodes)
    BY <2>5 DEF Shows
  <2> QED BY <2>6 DEF cut
<1>7. CASE shown = Rank2!Cut(merged, k)
  <2>1. \A i \in 1 .. k : merged[i].id \in Shows(nodes)
    BY <1>1, <1>2, <1>5
  <2> QED BY <1>1, <1>6, <1>7, <2>1 DEF merged
<1>8. CASE ask.query.overview /\ shown = Rank2!Cut(ranked, k) /\ k >= 1
  <2>1. nodes # <<>> /\ ~ask.top
    BY <1>2, <1>8
  <2>2. Shortest(Rank2!MaxOf(k, 1), m) = k
    BY <1>2, <1>8 DEF Shortest, Rank2!MaxOf
  <2>3. \A i \in 1 .. m : nodes[i].score \in Int
    BY <1>2 DEF Scored
  <2>4. k \in 1 .. m
    BY <1>2, <1>8
  <2>5. \A i \in 1 .. k : i \in 1 .. m /\ nodes[i].score >= nodes[k].score
    <3> TAKE i \in 1 .. k
    <3>1. i \in 1 .. m
      BY <1>2
    <3>2. CASE i = k
      BY <2>3, <3>1, <3>2
    <3>3. CASE i # k
      <4>1. i < k
        BY <1>2, <3>3
      <4> QED BY <1>2, <2>4, <3>1, <4>1 DEF Falling
    <3> QED BY <3>1, <3>2, <3>3
  <2>6. \A i \in m + 1 .. n : merged[i].score = nodes[k].score
    BY <1>1, <2>1, <2>2
  <2>7. NoScore \notin Int
    BY FusionConstants
  <2>8. \A i \in 1 .. n : scores[i] = Rank2!ScoreOf(merged[i]) + 0
    BY <1>2, <1>3
  <2> HIDE DEF scores
  <2>9. \A i \in 1 .. m : scores[i] = nodes[i].score
    <3> TAKE i \in 1 .. m
    <3>1. i \in 1 .. n /\ merged[i] = nodes[i]
      BY <1>1, <1>2
    <3>2. Rank2!ScoreOf(merged[i]) = nodes[i].score
      BY <2>3, <2>7, <3>1 DEF Rank2!ScoreOf
    <3> QED BY <2>3, <2>8, <3>1, <3>2
  <2>10. \A i \in m + 1 .. n : scores[i] = nodes[k].score
    <3> TAKE i \in m + 1 .. n
    <3>1. i \in 1 .. n
      BY <1>2
    <3>2. Rank2!ScoreOf(merged[i]) = nodes[k].score
      BY <2>3, <2>4, <2>6, <2>7 DEF Rank2!ScoreOf
    <3> QED BY <2>3, <2>4, <2>8, <3>1, <3>2
  <2>11. \A i \in 1 .. n : scores[i] \in Int
    <3> TAKE i \in 1 .. n
    <3>1. i \in 1 .. m \/ i \in m + 1 .. n
      BY <1>2
    <3> QED BY <2>3, <2>4, <2>9, <2>10, <3>1
  <2> DEFINE before == {ij \in (1 .. n) \X (1 .. n) :
                          \/ scores[ij[1]] > scores[ij[2]]
                          \/ scores[ij[1]] = scores[ij[2]] /\ ij[1] < ij[2]}
  <2>12. Orders(before, 1 .. n)
    <3>1. 1 .. n \in SUBSET Int
      BY <1>2
    <3> QED BY <2>11, <3>1, WeightOrders
  <2>13. ranked = Arranged(merged, 1 .. n, before)
    BY <1>2, SameArranged DEF Rank2!ByScore
  <2>14. \A i \in 1 .. k : \A j \in m + 1 .. n : <<i, j>> \in before
    <3> TAKE i \in 1 .. k
    <3> TAKE j \in m + 1 .. n
    <3>1. i \in 1 .. n /\ j \in 1 .. n /\ i < j /\ i \in 1 .. m
      BY <1>2
    <3>2. scores[i] >= scores[j] /\ scores[i] \in Int /\ scores[j] \in Int
      BY <2>5, <2>9, <2>10, <2>11, <3>1
    <3> QED BY <3>1, <3>2
  <2> HIDE DEF before, ranked, k, m, n
  <2>15. IsFiniteSet(1 .. n) /\ Cardinality(1 .. n) = n
    <3>1. \A x \in Nat : IsFiniteSet(1 .. x) /\ Cardinality(1 .. x) = x
      BY FS_Interval
    <3> QED BY <1>2, <3>1
  <2>16. PICK at \in [1 .. n -> 1 .. n] :
              /\ ranked = [p \in 1 .. n |-> merged[at[p]]]
              /\ \A p, q \in 1 .. n : p < q => <<at[p], at[q]>> \in before
              /\ \A i \in 1 .. n : \E p \in 1 .. n : at[p] = i
    <3> DEFINE places == 1 .. n
    <3>1. /\ IsFiniteSet(DOMAIN merged) /\ places \in SUBSET DOMAIN merged
          /\ Orders(before, places) /\ Cardinality(places) = n /\ ranked = Arranged(merged, places, before)
      BY <1>2, <2>12, <2>13, <2>15
    <3> HIDE DEF places
    <3>2. PICK at \in [1 .. Cardinality(places) -> places] :
            /\ Arranged(merged, places, before) = [p \in 1 .. Cardinality(places) |-> merged[at[p]]]
            /\ \A p, q \in 1 .. Cardinality(places) : p < q => <<at[p], at[q]>> \in before
            /\ \A i \in places : \E p \in 1 .. Cardinality(places) : at[p] = i
      BY <3>1, ArrangedPlaces
    <3>3. /\ at \in [1 .. n -> places]
          /\ ranked = [p \in 1 .. n |-> merged[at[p]]]
          /\ \A p, q \in 1 .. n : p < q => <<at[p], at[q]>> \in before
          /\ \A i \in places : \E p \in 1 .. n : at[p] = i
      BY <3>1, <3>2
    <3> QED BY <3>3 DEF places
  <2>17. \A p \in 1 .. k : at[p] \in 1 .. m
    BY <1>1, <1>2, <2>12, <2>14, <2>16, FirstStayAhead DEF m, n
  <2>18. \A p \in 1 .. k : p \in DOMAIN ranked => ranked[p].id \in Shows(nodes)
    <3> TAKE p \in 1 .. k
    <3>1. p \in 1 .. n
      BY <1>1, <1>2 DEF m, n
    <3>2. ranked[p] = merged[at[p]] /\ merged[at[p]] = nodes[at[p]]
      BY <1>1, <2>16, <2>17, <3>1 DEF m
    <3> QED BY <1>5, <2>17, <3>2 DEF m
  <2>19. Listed(ranked, Rows(b))
    BY <1>1, <1>2, <2>11, ByScoreListed DEF ranked
  <2> QED BY <1>6, <1>8, <2>18, <2>19 DEF merged, k
<1>9. CASE ask.query.overview /\ shown = Rank2!Cut(ranked, k) /\ k = 0
  <2>1. \A i \in DOMAIN merged : scores[i] \in Int
    <3> TAKE i \in DOMAIN merged
    <3>1. merged[i].score \in Scores
      BY <1>1, ListDomain, RowFields
    <3> QED BY <1>3, <3>1, ScoreOfInt
  <2>2. Listed(ranked, Rows(b))
    BY <1>1, <2>1, ByScoreListed
  <2>3. 1 .. k = {}
    BY <1>9
  <2> HIDE DEF ranked, scores
  <2> QED BY <1>6, <1>9, <2>2, <2>3 DEF merged
<1> QED BY <1>2, <1>4, <1>7, <1>8, <1>9 DEF merged

\* If what was retrieved can fill the answer, the nodes in front of the hits do.
LEMMA OverlayFills ==
  ASSUME ask \in Queries, ask.branch, NEW b, Listed(pool, Rows(b)), Scored(pool), Listed(hits, Rows(b)), NEW t,
         Cardinality(Shows(Candidates(t)) \cap Shows(pool)) >= ask.topK
  PROVE  \E nodes, extra :
           /\ Candidates(t) = Merge(nodes, extra)
           /\ Listed(nodes, Rows(b)) /\ Scored(nodes) /\ Falling(nodes) /\ Listed(extra, Rows(b))
           /\ ask.topK <= Len(nodes) /\ Shows(nodes) \subseteq Shows(pool)
<1> DEFINE f == Dedup!FilteredNodes(pool, hits, t)
           nodes == Dedup!Dedup(f, t, FetchK \div 2)
           extra == Dedup!SurvivingExtra(pool, hits, t)
           union == Dedup!InList(pool) \cup Dedup!InList(hits)
           kept == Shows(Candidates(t)) \cap Shows(pool)
<1>1. Listed(f, Rows(b)) /\ Scored(f) /\ Dedup!InList(f) \subseteq Dedup!InList(pool)
  BY FilteredListed
<1>2. /\ Listed(nodes, Rows(b)) /\ Scored(nodes) /\ Falling(nodes)
      /\ Dedup!InList(nodes) \subseteq Dedup!Kept(Dedup!InList(f), t)
      /\ Dedup!InList(nodes) = Dedup!Kept(Dedup!InList(f), t) \/ Len(nodes) >= FetchK \div 2
  <2>1. FetchK \div 2 \in Int
    BY FetchKNat
  <2> HIDE DEF f
  <2> QED BY <1>1, <2>1, DedupListed
<1>3. Listed(extra, Rows(b)) /\ Dedup!InList(extra) = Dedup!InList(hits) \cap Dedup!Kept(union, t)
  <2>1. Listed(extra, Rows(b))
    BY SurvivingListed
  <2> QED BY <2>1, HitsThatSurvive
<1>4. Candidates(t) = Merge(nodes, extra)
  BY DEF Candidates
<1>5. Dedup!InList(nodes) \subseteq Dedup!InList(pool)
  <2>1. \A c \in Dedup!Kept(Dedup!InList(f), t) : c \in Dedup!InList(f)
    BY KeptInSet
  <2> HIDE DEF f, nodes
  <2> QED BY <1>1, <1>2, <2>1
<1>6. Shows(nodes) \subseteq Shows(pool)
  <2> HIDE DEF nodes
  <2> QED BY <1>5, ShownOfEntries
<1>7. Shows(Candidates(t)) \subseteq Shows(nodes) \cup Shows(extra)
  <2> HIDE DEF nodes, extra
  <2> QED BY <1>2, <1>3, <1>4, MergeListed
<1>8. ask.topK <= FetchK \div 2
  <2>1. ask.topK \in Nat /\ Overfetch \in Nat /\ Overfetch >= 1
    BY SearchConstants
  <2>2. ask.topK * 1 <= ask.topK * Overfetch /\ ask.topK * Overfetch \in Nat
    BY <2>1, Products
  <2>3. /\ ask.topK <= Rank2!FetchK(ask.query, ask.topK, Overfetch, ask.encoder, ask.topK + 1)
        /\ Rank2!FetchK(ask.query, ask.topK, Overfetch, ask.encoder, ask.topK + 1) \in Nat
    BY <2>1, <2>2 DEF Rank2!FetchK, Rank2!MaxOf
  <2>4. FetchK = 2 * Rank2!FetchK(ask.query, ask.topK, Overfetch, ask.encoder, ask.topK + 1)
    BY DEF FetchK
  <2> QED BY <2>1, <2>3, <2>4
<1>9. CASE Dedup!InList(nodes) = Dedup!Kept(Dedup!InList(f), t)
  <2>1. ASSUME NEW x \in kept PROVE x \in Shows(nodes)
    <3> SUFFICES ASSUME x \in Shows(extra) PROVE x \in Shows(nodes)
      BY <1>7
    <3>1. PICK d \in Dedup!InList(extra) : d.id = x
      <4> HIDE DEF extra
      <4> QED BY ShownOfEntries
    <3>2. PICK c \in Dedup!InList(pool) : c.id = x
      BY ShownOfEntries
    <3>3. d \in Dedup!InList(hits) \cap Dedup!Kept(union, t)
      BY <1>3
    <3>4. c \in Dedup!Kept(Dedup!InList(f), t)
      BY <3>1, <3>2, <3>3, HitInPool
    <3> HIDE DEF nodes
    <3>5. c \in Dedup!InList(nodes)
      BY <1>9, <3>4
    <3> QED BY <3>2, <3>5, ShownOfEntries
  <2>2. kept \in SUBSET Shows(nodes)
    BY <2>1
  <2>3. Cardinality(kept) \in Nat /\ Cardinality(kept) <= Len(nodes) /\ Len(nodes) \in Nat
    <3> HIDE DEF nodes, kept
    <3> QED BY <1>2, <2>2, ShownCount, ListDomain
  <2>4. ask.topK <= Len(nodes)
    <3>1. Cardinality(kept) >= ask.topK /\ ask.topK \in Nat
      BY FetchKNat
    <3> HIDE DEF nodes, kept
    <3> QED BY <2>3, <3>1
  <2> HIDE DEF nodes, extra
  <2> QED BY <1>2, <1>3, <1>4, <1>6, <2>4
<1>10. CASE Len(nodes) >= FetchK \div 2
  <2>1. Len(nodes) \in Nat /\ FetchK \div 2 \in Nat /\ ask.topK \in Nat
    <3> HIDE DEF nodes
    <3> QED BY <1>2, ListDomain, FetchKNat
  <2> HIDE DEF nodes, extra
  <2>2. ask.topK <= Len(nodes)
    BY <1>8, <1>10, <2>1
  <2> QED BY <1>2, <1>3, <1>4, <1>6, <2>2
<1> HIDE DEF nodes
<1> QED BY <1>2, <1>9, <1>10

LEMMA PlainFills ==
  ASSUME ask \in Queries, ~ask.branch, NEW b, Listed(pool, Rows(b)), NEW t,
         Cardinality(Shows(Candidates(t)) \cap Shows(pool)) >= ask.topK
  PROVE  Candidates(t) = Merge(pool, hits) /\ ask.topK <= Len(pool)
<1> DEFINE kept == Shows(Candidates(t)) \cap Shows(pool)
<1>1. kept \in SUBSET Shows(pool)
  OBVIOUS
<1>2. Cardinality(kept) >= ask.topK /\ ask.topK \in Nat
  BY FetchKNat
<1> HIDE DEF kept
<1>3. Cardinality(kept) \in Nat /\ Cardinality(kept) <= Len(pool) /\ Len(pool) \in Nat
  BY <1>1, ShownCount, ListDomain
<1> QED BY <1>2, <1>3 DEF Candidates

LEMMA FinishHits ==
  ASSUME SearchInv, Finish, ~ask.encoder,
         \A i \in DOMAIN Candidates(tombs') :
           Rank2!Adjustment(ask.query, ask.options, Candidates(tombs'), Candidates(tombs')[i]) = 0,
         ~(ask.options.fileCap > 0 /\ ask.query.places), ~(ask.top /\ ask.query.overview),
         Cardinality(Shows(Candidates(tombs')) \cap Shows(pool)) >= ask.topK
  PROVE  Shows(result') \subseteq Shows(pool)
<1>1. /\ ask \in Queries /\ Listed(pool, Rows(ask.branch)) /\ Scored(pool) /\ Falling(pool)
      /\ Listed(hits, Rows(ask.branch))
  BY DEF SearchInv, Finish
<1>2. PICK t : t = tombs'
  OBVIOUS
<1>3. PICK b : b = ask.branch
  OBVIOUS
<1>4. PICK nodes, extra :
        /\ Candidates(t) = Merge(nodes, extra)
        /\ Listed(nodes, Rows(b)) /\ Scored(nodes) /\ Falling(nodes) /\ Listed(extra, Rows(b))
        /\ ask.topK <= Len(nodes) /\ Shows(nodes) \subseteq Shows(pool)
  <2>1. CASE ask.branch
    BY <1>1, <1>2, <1>3, <2>1, OverlayFills
  <2>2. CASE ~ask.branch
    <3>1. Candidates(t) = Merge(pool, hits) /\ ask.topK <= Len(pool)
      BY <1>1, <1>2, <1>3, <2>2, PlainFills
    <3> QED BY <1>1, <1>3, <3>1
  <2> QED BY <2>1, <2>2
<1>5. result' = Rank2!RerankResults(Merge(nodes, extra), ask.query, ask.options, ask.topK)
  BY <1>2, <1>4 DEF Finish
<1>6. \A i \in DOMAIN Merge(nodes, extra) :
        Rank2!Adjustment(ask.query, ask.options, Merge(nodes, extra), Merge(nodes, extra)[i]) = 0
  BY <1>2, <1>4
<1>7. Shows(result') \subseteq Shows(nodes)
  BY <1>1, <1>4, <1>5, <1>6, QuietRanking
<1> QED BY <1>4, <1>7

-----------------------------------------------------------------------------
(* The invariant. *)

IInv == SearchInv /\ DominantFirst /\ OneVersionPerPath /\ HitsNeedRules

LEMMA InitInv ==
  Init => IInv
<1> SUFFICES ASSUME Init PROVE IInv
  OBVIOUS
<1>1. 1 \in 1 .. Len(Worlds)
  BY SearchConstants
<1>2. SearchInv
  BY <1>1 DEF Init, SearchInv
<1>3. step # "tombs" /\ step # "done"
  BY DEF Init
<1> QED BY <1>2, <1>3 DEF IInv, DominantFirst, OneVersionPerPath, HitsNeedRules

\* While the legs run nothing is claimed of the pool and the result.
LEMMA NothingShown ==
  ASSUME SearchInv', step' = "legs"
  PROVE  IInv'
BY DEF IInv, DominantFirst, OneVersionPerPath, HitsNeedRules

LEMMA OverlayRunInv ==
  ASSUME IInv, OverlayRun
  PROVE  IInv'
<1>1. SearchInv'
  BY SearchConstants DEF IInv, SearchInv, OverlayRun
<1>2. DominantFirst'
  BY DEF IInv, DominantFirst, OverlayRun, LegIds
<1>3. step' # "done"
  BY DEF OverlayRun
<1> QED BY <1>1, <1>2, <1>3 DEF IInv, OneVersionPerPath, HitsNeedRules

LEMMA RetrievedInv ==
  ASSUME IInv, Retrieved
  PROVE  IInv'
<1>1. /\ Unread \notin {denseLeg, sparseLeg, hits}
      /\ Listed(pool', Rows(ask.branch)) /\ Scored(pool') /\ Falling(pool') /\ Dominated(pool')
  BY RetrievedPool DEF IInv
<1>2. SearchInv'
  BY <1>1 DEF IInv, SearchInv, Retrieved
<1>3. LegIds(denseLeg)' = LegIds(denseLeg) /\ LegIds(sparseLeg)' = LegIds(sparseLeg)
  BY DEF LegIds, Retrieved
<1>4. DominantFirst'
  BY <1>1, <1>3 DEF DominantFirst, Dominated
<1>5. step' # "done"
  BY DEF Retrieved
<1> QED BY <1>2, <1>4, <1>5 DEF IInv, OneVersionPerPath, HitsNeedRules

LEMMA FinishInv ==
  ASSUME IInv, Finish
  PROVE  IInv'
<1>0. SearchInv
  BY DEF IInv
<1>1. SearchInv'
  BY <1>0 DEF SearchInv, Finish
<1>2. step' # "tombs" /\ ask' = ask /\ pool' = pool /\ hits' = hits
  BY DEF Finish
<1>3. OneVersionPerPath'
  <2>1. OneVersion(result', ask.branch, tombs')
    BY <1>0, FinishOneVersion
  <2>2. Shown' = Dedup!InList(result')
    BY DEF Shown, Dedup!InList
  <2> QED BY <1>2, <2>1, <2>2 DEF OneVersionPerPath, OneVersion
<1>4. Candidates(tombs)' = Candidates(tombs')
  BY <1>2 DEF Candidates, Merge, FetchK
<1>5. HitsNeedRules'
  <2> DEFINE merged == Candidates(tombs')
             kept == {merged[i].id : i \in DOMAIN merged} \cap {pool[i].id : i \in DOMAIN pool}
  <2> SUFFICES ASSUME ~ask.encoder,
                      \A i \in DOMAIN merged : Rank2!Adjustment(ask.query, ask.options, merged, merged[i]) = 0,
                      ~(ask.options.fileCap > 0 /\ ask.query.places), ~(ask.top /\ ask.query.overview),
                      Cardinality(kept) >= ask.topK
               PROVE  \A c \in Shown' : c.id \in {pool[i].id : i \in DOMAIN pool}
    BY <1>2, <1>4 DEF HitsNeedRules
  <2>1. kept = Shows(merged) \cap Shows(pool)
    BY DEF Shows
  <2> HIDE DEF kept
  <2>2. Shows(result') \subseteq Shows(pool)
    BY <1>0, <2>1, FinishHits
  <2> QED BY <2>2 DEF Shown, Shows
<1> QED BY <1>1, <1>2, <1>3, <1>5 DEF IInv, DominantFirst

LEMMA NextInv ==
  IInv /\ [Next]_vars => IInv'
<1> SUFFICES ASSUME IInv, [Next]_vars PROVE IInv'
  OBVIOUS
<1>1. CASE OverlayRun
  BY <1>1, OverlayRunInv
<1>2. CASE DenseLeg
  <2>1. Listed(denseLeg', Legwise(ask.branch))
    BY <1>2, LegsListed DEF IInv, DenseLeg
  <2>2. SearchInv'
    BY <1>2, <2>1 DEF IInv, SearchInv, DenseLeg
  <2> QED BY <1>2, <2>2, NothingShown DEF DenseLeg
<1>3. CASE SparseLeg
  <2>1. Listed(sparseLeg', Legwise(ask.branch))
    BY <1>3, LegsListed DEF IInv, SparseLeg
  <2>2. SearchInv'
    BY <1>3, <2>1 DEF IInv, SearchInv, SparseLeg
  <2> QED BY <1>3, <2>2, NothingShown DEF SparseLeg
<1>4. CASE Lookup
  <2>1. Listed(hits', Rows(ask.branch))
    BY <1>4, LookupListed DEF IInv, Lookup
  <2>2. SearchInv'
    BY <1>4, <2>1 DEF IInv, SearchInv, Lookup
  <2> QED BY <1>4, <2>2, NothingShown DEF Lookup
<1>5. CASE Retrieved
  BY <1>5, RetrievedInv
<1>6. CASE Finish
  BY <1>6, FinishInv
<1>7. CASE UNCHANGED vars
  <2>1. SearchInv'
    BY <1>7 DEF IInv, SearchInv, vars
  <2>2. DominantFirst'
    BY <1>7 DEF IInv, DominantFirst, LegIds, vars
  <2>3. OneVersionPerPath'
    BY <1>7 DEF IInv, OneVersionPerPath, Shown, vars
  <2>4. Candidates(tombs)' = Candidates(tombs)
    BY <1>7 DEF Candidates, Merge, FetchK, vars
  <2>5. HitsNeedRules'
    BY <1>7, <2>4 DEF IInv, HitsNeedRules, Shown, vars
  <2> QED BY <2>1, <2>2, <2>3, <2>5 DEF IInv
<1> QED BY <1>1, <1>2, <1>3, <1>4, <1>5, <1>6, <1>7 DEF Next

LEMMA SearchHolds ==
  Spec => []IInv
<1>1. Init => IInv
  BY InitInv
<1>2. IInv /\ [Next]_vars => IInv'
  BY NextInv
<1> QED BY <1>1, <1>2, PTL DEF Spec

\* For every collection, change of it and query, no search shows two versions of
\* a path, a file its overlay deletes, or a chunk twice.
THEOREM SearchOneVersion ==
  Spec => []OneVersionPerPath
<1>1. IInv => OneVersionPerPath
  BY DEF IInv
<1> QED BY <1>1, SearchHolds, PTL

\* Fusion never turns around what both legs agree on, for either method, every
\* weight, and every normalisation that keeps a leg's order.
THEOREM SearchDominantFirst ==
  Spec => []DominantFirst
<1>1. IInv => DominantFirst
  BY DEF IInv
<1> QED BY <1>1, SearchHolds, PTL

\* Where no rule of the reranker acts, the exact lookup displaces nothing that
\* was retrieved.
THEOREM SearchHitsNeedRules ==
  Spec => []HitsNeedRules
<1>1. IInv => HitsNeedRules
  BY DEF IInv
<1> QED BY <1>1, SearchHolds, PTL
=============================================================================
