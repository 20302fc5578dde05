----------------------------- MODULE TargetWatch ----------------------------
(***************************************************************************)
(* What feeds the reaper's work queue, from controller.go: the informer of *)
(* TTLReapers with its event handler, and the goroutine that starts an     *)
(* informer for every resource type a TTLReaper targets, whose handler     *)
(* enqueues the TTLReapers that target a changed object.                   *)
(*                                                                         *)
(* An informer keeps a cache in step with the API server and calls its     *)
(* handler for each change, later: lister is the cache of TTLReapers and   *)
(* reapers what the API server holds; events are the target objects whose  *)
(* last change a started informer has not delivered.  Only the fact that   *)
(* an object changed matters, since its handler looks at no more than its  *)
(* kind and API version, and an informer that does not exist delivers      *)
(* nothing.                                                                *)
(***************************************************************************)
EXTENDS Reaper

CONSTANT ResyncAfter   \* bound: no resync period elapses before so many calls have failed

ASSUME ResyncAssumption == ResyncAfter \in Nat

VARIABLES
  reapers,      \* the TTLReapers in the API server
  watched,      \* watchedGVRs: resource types with an informer
  events        \* changed objects an informer has yet to deliver

watchVars == <<reapers, watched, events>>
reconcilerVars == <<worker, timer, timers>>

Kept == {r \in Reaper : reapers[r] # Absent}

-----------------------------------------------------------------------------
WatchInit ==
  /\ reapers = [r \in Reaper |-> Absent]
  /\ watched = {}
  /\ events = {}

\* A user creates, changes or deletes a TTLReaper.
UserSetReaper(r) ==
  /\ \E spec \in ReaperSpec \cup {Absent} : reapers' = [reapers EXCEPT ![r] = spec]
  /\ UNCHANGED <<clusterVars, lister, dirty, reconcilerVars, watched, events>>

\* The informer of TTLReapers sees it, and HandleAll enqueues its key.
SyncReaper(r) ==
  /\ lister[r] # reapers[r]
  /\ lister' = [lister EXCEPT ![r] = reapers[r]]
  /\ dirty' = dirty \cup {r}
  /\ UNCHANGED <<clusterVars, reconcilerVars, watchVars>>

\* The informer's resync, of one TTLReaper.
ResyncSkipsUnchanged(r) ==   \* mutant: the handler drops updates that change nothing
  /\ fails >= ResyncAfter
  /\ lister[r] # Absent
  /\ UNCHANGED <<clusterVars, lister, dirty, reconcilerVars, watchVars>>

ResyncReaper(r) ==
  /\ fails >= ResyncAfter
  /\ lister[r] # Absent
  /\ dirty' = dirty \cup {r}
  /\ UNCHANGED <<clusterVars, lister, reconcilerVars, watchVars>>

-----------------------------------------------------------------------------
\* The resource types a look at the lister asks for; a version that does not
\* parse is logged and passed over.
TargetGVRs == {WatchGVR(lister[r]) : r \in {q \in Reaper : /\ lister[q] # Absent
                                                           /\ WatchParses(lister[q])}}

ServedBy(gvrs) == {o \in Object : Present(o) /\ ServedGVR(o) \in gvrs}

WatchTickQuiet ==   \* mutant of the tick: what exists already is not delivered
  /\ ~(TargetGVRs \subseteq watched)
  /\ watched' = watched \cup TargetGVRs
  /\ UNCHANGED <<clusterVars, lister, dirty, reconcilerVars, reapers, events>>

\* The ticker of watchTargetResources: an informer for every new type, which
\* begins by delivering what it lists.  A type is never given up again.  (A
\* tick that starts nothing changes nothing.)
WatchTick ==
  /\ ~(TargetGVRs \subseteq watched)
  /\ watched' = watched \cup TargetGVRs
  /\ events' = events \cup ServedBy(TargetGVRs \ watched)
  /\ UNCHANGED <<clusterVars, lister, dirty, reconcilerVars, reapers>>

\* Users create, change and delete objects; the informer of their type, if
\* there is one, notes all but the deletions.
UserActs(o) ==
  /\ UserStep(o)
  /\ events' = IF api'[o] # Gone /\ ServedGVR(o) \in watched THEN events \cup {o} ELSE events
  /\ UNCHANGED <<lister, dirty, reconcilerVars, reapers, watched>>

\* enqueueTargetingTTLReapers: kind and API version are compared as written.
Targets(spec, o) ==
  /\ spec # Absent
  /\ spec.kind = o.kind
  /\ spec.version = VersionOf(o.group, CoreGroup)

Targeting(o) == {r \in Reaper : Targets(lister[r], o)}

NotifyUnlessProcessing(o) ==   \* mutant: a key that is being reconciled is not added
  /\ o \in events
  /\ events' = events \ {o}
  /\ dirty' = dirty \cup (Targeting(o) \ Processing)
  /\ UNCHANGED <<clusterVars, lister, reconcilerVars, reapers, watched>>

Notify(o) ==
  /\ o \in events
  /\ events' = events \ {o}
  /\ dirty' = dirty \cup Targeting(o)
  /\ UNCHANGED <<clusterVars, lister, reconcilerVars, reapers, watched>>

\* The resync of an informer of target objects delivers what it holds.
ResyncTarget(o) ==
  /\ fails >= ResyncAfter
  /\ o \in ServedBy(watched)
  /\ dirty' = dirty \cup Targeting(o)
  /\ UNCHANGED <<clusterVars, lister, reconcilerVars, watchVars>>

-----------------------------------------------------------------------------
\* NewController in a new process: the informer of TTLReapers has synced and
\* has delivered every one of them, and nothing is watched yet.
Restart ==
  /\ Crash
  /\ lister' = reapers
  /\ dirty' = Kept
  /\ watched' = {}
  /\ events' = {}
  /\ UNCHANGED reapers
=============================================================================
