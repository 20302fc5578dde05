----------------------------- MODULE ReapPolicy -----------------------------
(***************************************************************************)
(* What the reaper promises, without workers, queue or timers.             *)
(*                                                                         *)
(* It holds warrants: copies of objects it has seen in the cluster,        *)
(* finished and with a TTL.  It may take one out whenever it looks, and    *)
(* may drop any at any time.  A warrant whose time has run out, by the     *)
(* copy, entitles it to delete what the copy's name holds by then.         *)
(*                                                                         *)
(* Module Reaper implements this with warrants the copies its workers and  *)
(* closures hold.                                                          *)
(***************************************************************************)
EXTENDS Cluster

VARIABLE warrants

policyVars == <<api, clock, lastReap, warrants>>

\* The warrants the cluster would grant now.
Grantable ==
  {[obj |-> o, rec |-> api[o]] : o \in {p \in Object : Present(p) /\ IsReapable(api[p])}}

PolicyInit ==
  /\ api = [o \in Object |-> Unborn]
  /\ clock = 0
  /\ lastReap = Absent
  /\ warrants = {}

Look ==
  /\ warrants' \subseteq warrants \cup Grantable
  /\ UNCHANGED <<api, clock, lastReap>>

Reap(warrant) ==
  /\ Expiration(warrant.rec) <= clock
  /\ Present(warrant.obj)
  /\ api' = [api EXCEPT ![warrant.obj] = Gone]
  /\ lastReap' = [obj |-> warrant.obj, was |-> api[warrant.obj],
                  by |-> warrant.rec, at |-> clock]
  /\ warrants' \subseteq warrants
  /\ UNCHANGED clock

\* The environment, with the failed calls the policy does not see.
Others ==
  /\ (\E o \in Object : UserStep(o)) \/ Tick
  /\ UNCHANGED warrants

PolicyNext ==
  \/ Look
  \/ \E warrant \in warrants : Reap(warrant)
  \/ Others

PolicySpec == PolicyInit /\ [][PolicyNext]_policyVars
=============================================================================
