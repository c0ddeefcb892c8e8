------------------------------ MODULE Ranking ------------------------------
(* Sorting and filtering of lists.  An order is a set of pairs, so that what *)
(* these operators return can be proved for any order (SearchProofs).        *)
EXTENDS Integers, SequencesExt

\* The list of the members of S in which each comes after those before it.
Ranked(S, before) ==
  CHOOSE list \in SetToSeqs(S) :
    \A p, q \in DOMAIN list : p < q => <<list[p], list[q]>> \in before

\* The entries of list at some places, in an order of the places.
Arranged(list, places, before) ==
  LET order == Ranked(places, before)
  IN  [k \in DOMAIN order |-> list[order[k]]]

Upwards(places) == {ij \in places \X places : ij[1] < ij[2]}
Picked(list, places) == Arranged(list, places, Upwards(places))
=============================================================================
