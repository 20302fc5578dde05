------------------------------ MODULE MCReaper ------------------------------
(* Constants for TLC's runs of Reaper. *)
EXTENDS Reaper, MCConstants, TLC

Symmetry == Permutations(Worker) \cup Permutations(TimerId) \cup Permutations(Reaper)
=============================================================================
