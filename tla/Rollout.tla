------------------------------- MODULE Rollout ------------------------------
(***************************************************************************)
(* Two processes of the controller over one cluster, as in a rolling       *)
(* update of its Deployment: the new one starts at any time, the old one   *)
(* ends at any time, before or after, and in between both reconcile.       *)
(* Leadership moves from one to the other somewhere in between; since      *)
(* Promote and Demote do nothing and Reconcile asks for no leadership, it  *)
(* changes nothing, and no variable stands for it.                         *)
(*                                                                         *)
(* Each process is a Controller of its own, whose variables begin with o   *)
(* or n.  They share the API server and its clock, and what users do       *)
(* reaches the informers of both.                                          *)
(***************************************************************************)
EXTENDS Cluster

\* The constants of module Controller.  MaxCrash is none of them: processes end
\* by OldEnds alone.
CONSTANTS Reaper, ReaperSpec, Namespace, CoreGroup, Worker, TimerId, Overrun, ResyncAfter

ASSUME RolloutAssumption ==
  /\ Absent \notin Reaper /\ Absent \notin ReaperSpec /\ Absent \notin TimerId
  /\ Overrun \in BOOLEAN /\ ResyncAfter \in Nat
  /\ \A spec \in ReaperSpec : spec.ns \in Namespace \cup {Absent}

VARIABLES
  oUp, nUp,             \* whether the process runs
  reapers,              \* the TTLReapers in the API server
  oLister, nLister, oDirty, nDirty, oWorker, nWorker,
  oTimer, nTimer, oTimers, nTimers, oWatched, nWatched, oEvents, nEvents

oVars == <<oLister, oDirty, oWorker, oTimer, oTimers, oWatched, oEvents>>
nVars == <<nLister, nDirty, nWorker, nTimer, nTimers, nWatched, nEvents>>
rolloutVars == <<clusterVars, reapers, oUp, nUp, oVars, nVars>>

\* Instances of module Controller, with the theorems about it.
Old == INSTANCE TakingTurns_proofs WITH
  lister <- oLister, dirty <- oDirty, worker <- oWorker, timer <- oTimer, timers <- oTimers,
  watched <- oWatched, events <- oEvents, crashes <- 0, MaxCrash <- 0

New == INSTANCE TakingTurns_proofs WITH
  lister <- nLister, dirty <- nDirty, worker <- nWorker, timer <- nTimer, timers <- nTimers,
  watched <- nWatched, events <- nEvents, crashes <- 0, MaxCrash <- 0

-----------------------------------------------------------------------------
\* The old process has just started, in a cluster that has its TTLReapers.
RolloutInit ==
  /\ New!Init
  /\ nWatched = {} /\ nEvents = {}
  /\ reapers \in [Reaper -> ReaperSpec \cup {Absent}]
  /\ Old!ReaperInit
  /\ oLister = reapers
  /\ oWatched = {} /\ oEvents = {}
  /\ oUp = TRUE /\ nUp = FALSE

OldReconciles(w) ==
  /\ oUp
  /\ Old!Reconciling(w)
  /\ UNCHANGED <<oUp, nUp, nVars>>

\* Its timers, informers and ticker.
OldActs ==
  /\ oUp
  /\ \/ \E t \in TimerId : Old!Timing(t)
     \/ \E r \in Reaper : Old!Syncing(r)
     \/ Old!Ticking
     \/ \E o \in Object : Old!Notifying(o)
  /\ UNCHANGED <<oUp, nUp, nVars>>

NewReconcilesAsLeader(w) ==   \* mutant: a process that is not the leader drops its keys
  /\ nUp
  /\ \/ ~oUp /\ New!Reconciling(w)
     \/ /\ oUp
        /\ \E r \in nDirty : nDirty' = nDirty \ {r}
        /\ UNCHANGED <<clusterVars, reapers, nLister, nWorker, nTimer, nTimers, nWatched, nEvents>>
  /\ UNCHANGED <<oUp, nUp, oVars>>

NewReconciles(w) ==
  /\ nUp
  /\ New!Reconciling(w)
  /\ UNCHANGED <<oUp, nUp, oVars>>

NewActs ==
  /\ nUp
  /\ \/ \E t \in TimerId : New!Timing(t)
     \/ \E r \in Reaper : New!Syncing(r)
     \/ New!Ticking
     \/ \E o \in Object : New!Notifying(o)
  /\ UNCHANGED <<oUp, nUp, oVars>>

-----------------------------------------------------------------------------
\* The Deployment starts the new process.
NewStarts ==
  /\ ~nUp
  /\ nUp' = TRUE
  /\ New!Restart
  /\ UNCHANGED <<oUp, oVars>>

\* The old process ends: its timers are gone with it, waiting or fired.
OldEnds ==
  /\ oUp
  /\ oUp' = FALSE
  /\ Old!Crash
  /\ oLister' = [r \in Reaper |-> Absent]
  /\ oDirty' = {} /\ oWatched' = {} /\ oEvents' = {}
  /\ UNCHANGED <<reapers, nUp, nVars>>

UserWrites(o) ==
  /\ Old!UserActs(o)
  /\ New!UserActs(o)
  /\ UNCHANGED <<reapers, oUp, nUp>>

\* Bound: users create TTLReapers during the rollout, and leave those there are.
UserSets(r) ==
  /\ reapers[r] = Absent
  /\ Old!UserSetReaper(r)
  /\ New!UserSetReaper(r)
  /\ UNCHANGED <<oUp, nUp>>

TimeGoesOn ==
  /\ Old!TimePasses \/ New!TimePasses
  /\ UNCHANGED <<reapers, oUp, nUp, oVars, nVars>>

NewStep == NewStarts \/ NewActs \/ \E w \in Worker : NewReconciles(w)

RolloutNext ==
  \/ NewStep
  \/ OldActs \/ OldEnds \/ \E w \in Worker : OldReconciles(w)
  \/ \E o \in Object : UserWrites(o)
  \/ \E r \in Reaper : UserSets(r)
  \/ TimeGoesOn

RolloutSpec == RolloutInit /\ [][RolloutNext]_rolloutVars

\* Of the old process nothing is assumed: it may drain its queue, stand still or
\* end.  The new one is started, and does not rest while it has something to do;
\* in what order it does that is left open.
RolloutFairness == WF_rolloutVars(NewStep) /\ WF_rolloutVars(TimeGoesOn)

FairRolloutSpec == RolloutSpec /\ RolloutFairness

-----------------------------------------------------------------------------
(***************************************************************************)
(* Properties.                                                             *)
(***************************************************************************)

\* Neither process relies on the other: each, as long as it runs, has a timer, a
\* worker, an event, a queued key or a tick to come for every finished object a
\* TTLReaper covers, whatever the other deletes meanwhile (ttlreaper.go:321-332,
\* "we don't need to do anything special").
NeitherForgets ==
  /\ oUp => Old!NothingForgotten
  /\ nUp => New!NothingForgotten

\* Together they do no more than one may: module ReapPolicy, the warrants being
\* the copies either holds (ttlreaper.go:321-332).
Policy == INSTANCE ReapPolicy WITH warrants <- Old!Held \cup New!Held

TogetherImplementPolicy == Policy!PolicySpec

\* What is due is deleted, though its timer was in a process that has ended
\* (ttlreaper.go:48-50, the timers are in memory).
DueIsReapedByEither == \A o \in Object : New!Due(o) ~> ~New!Due(o)
=============================================================================
