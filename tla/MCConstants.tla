---------------------------- MODULE MCConstants -----------------------------
(* Kinds, objects, statuses and TTLReaper specs for TLC's runs. *)
EXTENDS Lifetime

Kind(stem, ending) == [stem |-> stem, ending |-> ending, cased |-> TRUE]
RunKind     == Kind("workflowrun", "plain")
PolicyKind  == Kind("policy", "y")
Grouped(g)  == [form |-> "grouped", group |-> g]

Named(g, kind, n) == [group |-> g, kind |-> kind, ns |-> "demo", name |-> n]
OneRun      == {Named("workflows", RunKind, "a")}
OnePolicy   == {Named("policies", PolicyKind, "a")}
\* One kind, namespace and name in two API groups.
TwoGroups   == {Named("workflows", RunKind, "a"), Named("argoproj", RunKind, "a")}

Running     == [phase |-> "Running", conditions |-> {}, completion |-> Absent]
Succeeded   == [phase |-> "Succeeded", conditions |-> {}, completion |-> 0]
\* Its owner's clock is ahead of the reaper's.
Ahead       == [Succeeded EXCEPT !.completion = 1]
PhaseOnly   == [phase |-> "Succeeded", conditions |-> {}, completion |-> Absent]
Completing  == {Running, Succeeded}
Skewed      == {Running, Succeeded, Ahead}
PhaseAlone  == {Running, PhaseOnly}

SpecFor(kind, version, ns) == [kind |-> kind, version |-> version, ns |-> ns, sel |-> {"demo"}]
Everywhere  == SpecFor(RunKind, Grouped("workflows"), Absent)
ForRuns     == SpecFor(RunKind, Grouped("workflows"), "demo")
ForArgo     == SpecFor(RunKind, Grouped("argoproj"), "demo")
ForPolicies == SpecFor(PolicyKind, Grouped("policies"), "demo")
BadVersion  == SpecFor(RunKind, [form |-> "malformed", group |-> "workflows"], "demo")
BadSelector == [ForRuns EXCEPT !.sel = Malformed]

AllSpaces   == {Everywhere}
OneSpace    == {ForRuns}
EachGroup   == {ForRuns, ForArgo}
GoodOrBad   == {ForRuns, BadVersion, BadSelector}
Policies    == {ForPolicies}

OneSecond   == {1}
=============================================================================
