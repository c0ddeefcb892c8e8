------------------------------ MODULE MCServing ------------------------------
(* Small instances of StateServing for TLC. *)
EXTENDS StateServing

\* Two searches and one event, or one search and two events.
Short ==
  {[changes |-> 1, faults |-> 1, events |-> 1, calls |-> 2],
   [changes |-> 2, faults |-> 1, events |-> 2, calls |-> 1]}
OneFault == {[changes |-> 1, faults |-> 1, events |-> 2, calls |-> 0]}
=============================================================================
