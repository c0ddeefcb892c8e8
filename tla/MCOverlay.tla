------------------------------ MODULE MCOverlay ------------------------------
(* Small instances of OverlayIndex for TLC. *)
EXTENDS OverlayIndex

Usual == {"overlay", "dropped"}

\* Requests fail, processes are killed and refs move forward between runs and
\* inside one, but not between the two looks of diff_overlay at them; or the
\* collection is dropped and refs move back and forth between runs; or the
\* overlay's name becomes that of a main branch, or the last repository goes,
\* between runs that fail and are killed.
ThreeWorlds ==
  {[faults |-> {"request", "crash"}, moveAt |-> PCs \ {"resolve"}, rollback |-> FALSE,
    configs |-> Usual],
   [faults |-> {"clear"}, moveAt |-> {"idle"}, rollback |-> TRUE, configs |-> Usual],
   [faults |-> {"request", "crash"}, moveAt |-> {"idle"}, rollback |-> FALSE,
    configs |-> {"overlay", "main", "none"}]}

\* For the proofs' invariant: everything at once, while refs move forward.
AllFaults == {[faults |-> {"request", "crash", "clear"}, moveAt |-> PCs \ {"resolve"},
               rollback |-> FALSE, configs |-> Configs]}
Calm == {[faults |-> {}, moveAt |-> {"idle"}, rollback |-> FALSE, configs |-> Usual]}
KilledAndMovedBack == {[faults |-> {"crash"}, moveAt |-> {"idle"}, rollback |-> TRUE,
                        configs |-> Usual]}
Cleared == {[faults |-> {"clear"}, moveAt |-> {"idle"}, rollback |-> FALSE, configs |-> Usual]}
NoRepository == {[faults |-> {}, moveAt |-> {"idle"}, rollback |-> FALSE, configs |-> {"none"}]}
=============================================================================
