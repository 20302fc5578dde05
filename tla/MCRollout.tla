----------------------------- MODULE MCRollout ------------------------------
(* Constants for TLC's run of Rollout. *)
EXTENDS Rollout, MCConstants
=============================================================================
