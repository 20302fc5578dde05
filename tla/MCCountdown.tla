---------------------------- MODULE MCCountdown -----------------------------
(* Constants for TLC's runs of Countdown. *)
EXTENDS Countdown, MCConstants, TLC

Symmetry == Permutations(Worker) \cup Permutations(TimerId) \cup Permutations(Reaper)
=============================================================================
