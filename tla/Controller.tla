----------------------------- MODULE Controller -----------------------------
(***************************************************************************)
(* The controller whole: the reconciler of module Reaper, fed by the       *)
(* informers of module TargetWatch, on the cluster of module Cluster.      *)
(***************************************************************************)
EXTENDS TargetWatch

CONSTANT MaxCrash   \* bound on the crashes of the controller

ASSUME CrashAssumption == MaxCrash \in Nat

VARIABLE crashes    \* how many there have been

controllerVars == <<vars, watchVars, crashes>>

ControllerInit ==
  /\ Init
  /\ WatchInit
  /\ crashes = 0

\* The steps the controller takes of itself.
Reconciling(w) == WorkerStep(w) /\ UNCHANGED <<watchVars, crashes>>
Timing(t)      == TimerStep(t) /\ UNCHANGED <<watchVars, crashes>>
Syncing(r)     == SyncReaper(r) /\ UNCHANGED crashes
Ticking        == WatchTick /\ UNCHANGED crashes
Notifying(o)   == Notify(o) /\ UNCHANGED crashes
Resyncing(r)   == ResyncReaper(r) /\ UNCHANGED crashes

Waiting        == TimePasses /\ UNCHANGED <<watchVars, crashes>>

Crashing ==
  /\ crashes < MaxCrash
  /\ crashes' = crashes + 1
  /\ Restart

ControllerNext ==
  \/ \E w \in Worker : Reconciling(w)
  \/ \E t \in TimerId : Timing(t)
  \/ \E r \in Reaper : Syncing(r) \/ Resyncing(r)
  \/ Ticking
  \/ \E o \in Object : Notifying(o)
  \/ \E o \in Object : ResyncTarget(o) /\ UNCHANGED crashes
  \/ \E o \in Object : UserActs(o) /\ UNCHANGED crashes
  \/ \E r \in Reaper : UserSetReaper(r) /\ UNCHANGED crashes
  \/ Waiting
  \/ Crashing

ControllerSpec == ControllerInit /\ [][ControllerNext]_controllerVars

(***************************************************************************)
(* Fairness.  Goroutines and timers that can run do, so each worker, each  *)
(* callback, the ticker and each informer is weakly fair; the queue is     *)
(* first in, first out, so no key waits forever while others are served    *)
(* again and again, which is strong fairness of its Dequeue.  Time passes. *)
(* Nothing is assumed of users, of failures or of crashes.                 *)
(***************************************************************************)
Working(w) ==
  /\ worker[w].pc # "idle"
  /\ Reconciling(w)

Serving(r) ==
  /\ \E w \in Worker : Dequeue(w, r)
  /\ UNCHANGED <<watchVars, crashes>>

Fairness ==
  /\ \A w \in Worker : WF_controllerVars(Working(w))
  /\ \A r \in Reaper : /\ SF_controllerVars(Serving(r))
                       /\ WF_controllerVars(Syncing(r))
                       /\ WF_controllerVars(Resyncing(r))
  /\ \A t \in TimerId : WF_controllerVars(Timing(t))
  /\ \A o \in Object : WF_controllerVars(Notifying(o))
  /\ WF_controllerVars(Ticking)
  /\ WF_controllerVars(Waiting)

FairSpec == ControllerSpec /\ Fairness

-----------------------------------------------------------------------------
(***************************************************************************)
(* Properties.                                                             *)
(***************************************************************************)

\* The TTLReaper's spec is one the reconciler acts on, and selects the object.
Covers(spec, o) ==
  /\ spec # Absent
  /\ ~Rejected(spec)
  /\ spec.ns \in {Absent, o.ns}
  /\ spec.sel # Malformed
  /\ o \in Listed(spec, o.ns)

\* Something the controller has still to do for r will make it list o.
Queued(r, o) ==
  \/ lister[r] # reapers[r]
  \/ r \in dirty
  \/ WatchParses(lister[r]) /\ WatchGVR(lister[r]) \notin watched
  \/ \E w \in Worker :
       /\ worker[w].reaper = r
       /\ \/ worker[w].pc = "get"
          \/ worker[w].spec = lister[r] /\ (worker[w].pc = "listns" \/ o.ns \in worker[w].nss)

\* An object the reaper has to delete, now or later.
Wanted(o) == Present(o) /\ IsReapable(api[o]) /\ (\E r \in Reaper : Covers(reapers[r], o))

\* The controller is going to look at o.
Noticed(o) ==
  \/ o \in events
  \/ \E r \in Reaper : Covers(reapers[r], o) /\ Queued(r, o)

\* No finished object with a TTL that a TTLReaper covers is ever forgotten: unless
\* a List that should have returned it or a Delete of it failed, there is a timer
\* or a worker that will delete it, or an undelivered event, a queued key or a
\* tick to come that will make a worker look at it; a reconcile that returns an
\* error loses nothing (controller.go:68-174 with ttlreaper.go:110-272).
NothingForgotten ==
  \A o \in Object \ missed :
    Wanted(o) => Noticed(o) \/ (\E item \in Held : item.obj = o)

\* Nor is it remembered only by a copy it has outgrown: an edit is noticed, and
\* the timer of the old copy replaced (ttlreaper.go:217-221).  This needs there
\* to be one TTLReaper or one worker; with two of each, a worker of the TTLReaper
\* that was deleted meanwhile may put its older copy in the place of the newer one.
NothingStale ==
  \A o \in Object \ missed : Wanted(o) => Noticed(o) \/ Copy(o) \in Held

\* The keys of workers whose reconcile may yet return an error, and of the others.
HeldAt(pcs) == {worker[w].reaper : w \in {v \in Worker : worker[v].pc \in pcs}}

Feed == INSTANCE ReaperFeed WITH
  up <- TRUE,
  reading <- HeldAt({"get", "listns"}),
  acting <- HeldAt({"loop", "lock", "delete"}),
  Accepted <- {spec \in ReaperSpec : ~Rejected(spec)}

\* What module Startup provides, module ReaperFeed, is what this module has of it
\* and keeps to from then on.  No change of the cache of TTLReapers goes by
\* without a key.  No key is lost that a worker has taken: a reconcile that
\* returns an error has its key queued again, in the same step, and one that
\* does not has acted on what the cache holds, or its key is queued
\* (controller.go:71-72; ttlreaper.go:65-119).
KeepsFeed == Feed!FeedSpec

\* The tick leaves no resource type unwatched that a reconcile of a TTLReaper
\* then in the lister would list (controller.go:80, "dynamically watches ALL
\* resource types that TTLReapers target").
TickWatchesTargets ==
  [][Ticking => \A r \in Reaper :
       lister[r] # Absent /\ ~Rejected(lister[r]) => ListGVR(lister[r]) \in watched']_controllerVars

\* An object whose time has run out and that a TTLReaper covers.
Due(o) ==
  /\ Present(o)
  /\ IsReapable(api[o])
  /\ Expiration(api[o]) <= clock
  /\ \E r \in Reaper : Covers(reapers[r], o)

\* README.md:13, "Automatically deletes expired resources": an object that is
\* due is deleted, unless users change it or the TTLReaper so that it is not.
DueIsReaped == \A o \in Object : Due(o) ~> ~Due(o)
=============================================================================
