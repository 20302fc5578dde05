----------------------------- MODULE MCStartup ------------------------------
(* Constants for TLC's run of Startup. *)
EXTENDS Startup

RunSpec == [kind |-> [stem |-> "workflowrun", ending |-> "plain", cased |-> TRUE],
            version |-> [form |-> "grouped", group |-> "workflows"], ns |-> Absent, sel |-> {}]
\* A TTLReaper for the workflow runs of all namespaces, and one whose API version does not parse.
GoodAndBad == {RunSpec, [RunSpec EXCEPT !.version = [form |-> "malformed", group |-> "argoproj"]]}
=============================================================================
