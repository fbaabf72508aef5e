----------------------------- MODULE MCBackups -----------------------------
(* Symmetry for the listing processes of Backups, and the bounds of its runs: *)
(* two processes are busy at a time, so that every pair of them interleaves, *)
(* and none after a restore has ended, whose outcome nothing reads. *)
EXTENDS Backups, TLC

Symmetry == Permutations(Listers)
Busy == {p \in Processes : pc[p] \notin {"idle", "ended"}}
TwoBusy == Cardinality(Busy) <= IF \E r \in Restorers : pc[r] = "ended" THEN 0 ELSE 2
=============================================================================
