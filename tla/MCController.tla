---------------------------- MODULE MCController ----------------------------
(* Constants for TLC's runs of Controller. *)
EXTENDS Controller, MCConstants, TLC

Symmetry == Permutations(Worker) \cup Permutations(TimerId) \cup Permutations(Reaper)
=============================================================================
