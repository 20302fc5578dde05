--------------------------- MODULE Rollout_proofs ---------------------------
(***************************************************************************)
(* Theorems about module Rollout, from those about one reconciler: a step  *)
(* of either process, or of what they share, is a step of one reconciler   *)
(* that the other does not see.                                            *)
(***************************************************************************)
EXTENDS Rollout, TLAPS

oReconciler == <<oLister, oDirty, oWorker, oTimer, oTimers>>
nReconciler == <<nLister, nDirty, nWorker, nTimer, nTimers>>

\* What the theorems about each process assume of the constants.
LEMMA Assumptions ==
  /\ Old!DurationAssumption /\ Old!SentinelAssumption /\ Old!ClusterAssumption
  /\ Old!ReachAssumption /\ New!ReachAssumption
  /\ Old!ReaperAssumption /\ Old!ResyncAssumption /\ Old!CrashAssumption
  /\ New!DurationAssumption /\ New!SentinelAssumption /\ New!ClusterAssumption
  /\ New!ReaperAssumption /\ New!ResyncAssumption /\ New!CrashAssumption
BY DurationAssumption, SentinelAssumption, ClusterAssumption, ReachAssumption, RolloutAssumption
   DEF Old!DurationAssumption, Old!SentinelAssumption, Old!ClusterAssumption,
       Old!ReachAssumption, New!ReachAssumption, Old!Wrap, New!Wrap, Wrap,
       Old!ReaperAssumption, Old!ResyncAssumption, Old!CrashAssumption,
       New!DurationAssumption, New!SentinelAssumption, New!ClusterAssumption,
       New!ReaperAssumption, New!ResyncAssumption, New!CrashAssumption

ReapersOK == reapers \in [Reaper -> ReaperSpec \cup {Absent}]

OldMoves == [Old!Next]_(Old!vars) /\ UNCHANGED nReconciler
NewMoves == [New!Next]_(New!vars) /\ UNCHANGED oReconciler

-----------------------------------------------------------------------------
LEMMA OldProcess ==
  ASSUME ReapersOK,
         OldActs \/ OldEnds \/ (\E w \in Worker : OldReconciles(w))
  PROVE  OldMoves
<1> USE DEF OldMoves, nReconciler, nVars
<1>1. ASSUME NEW w \in Worker, OldReconciles(w) PROVE OldMoves
  BY <1>1 DEF OldReconciles, Old!Reconciling, Old!Next
<1>2. CASE OldEnds
  BY <1>2 DEF OldEnds, Old!Next, Old!EnvironmentStep
<1>3. CASE OldActs
  <2>1. ASSUME NEW t \in TimerId, Old!Timing(t) PROVE Old!Next
    BY <2>1 DEF Old!Timing, Old!Next
  <2>2. ASSUME NEW r \in Reaper, Old!Syncing(r) PROVE Old!Next
    BY <2>2 DEF ReapersOK, Old!Syncing, Old!SyncReaper, Old!ListerChanges, Old!reconcilerVars,
       Old!Next, Old!EnvironmentStep
  <2>3. Old!Ticking => UNCHANGED Old!vars
    BY DEF Old!Ticking, Old!WatchTick, Old!reconcilerVars, Old!clusterVars, Old!vars
  <2>4. ASSUME NEW o \in Object, Old!Notifying(o) PROVE Old!Next
    BY <2>4 DEF Old!Notifying, Old!Notify, Old!Targeting, Old!Enqueue, Old!reconcilerVars,
       Old!Next, Old!EnvironmentStep
  <2> QED BY <1>3, <2>1, <2>2, <2>3, <2>4 DEF OldActs
<1> QED BY <1>1, <1>2, <1>3

LEMMA NewProcess ==
  ASSUME ReapersOK, NewStep
  PROVE  NewMoves
<1> USE DEF NewMoves, oReconciler, oVars
<1>1. ASSUME NEW w \in Worker, NewReconciles(w) PROVE NewMoves
  BY <1>1 DEF NewReconciles, New!Reconciling, New!Next
<1>2. CASE NewStarts
  BY <1>2 DEF NewStarts, New!Restart, New!Next, New!EnvironmentStep
<1>3. CASE NewActs
  <2>1. ASSUME NEW t \in TimerId, New!Timing(t) PROVE New!Next
    BY <2>1 DEF New!Timing, New!Next
  <2>2. ASSUME NEW r \in Reaper, New!Syncing(r) PROVE New!Next
    BY <2>2 DEF ReapersOK, New!Syncing, New!SyncReaper, New!ListerChanges, New!reconcilerVars,
       New!Next, New!EnvironmentStep
  <2>3. New!Ticking => UNCHANGED New!vars
    BY DEF New!Ticking, New!WatchTick, New!reconcilerVars, New!clusterVars, New!vars
  <2>4. ASSUME NEW o \in Object, New!Notifying(o) PROVE New!Next
    BY <2>4 DEF New!Notifying, New!Notify, New!Targeting, New!Enqueue, New!reconcilerVars,
       New!Next, New!EnvironmentStep
  <2> QED BY <1>3, <2>1, <2>2, <2>3, <2>4 DEF NewActs
<1> QED BY <1>1, <1>2, <1>3 DEF NewStep

\* The environment's steps leave both reconcilers as they are.
LEMMA Environment ==
  ASSUME (\E o \in Object : UserWrites(o)) \/ (\E r \in Reaper : UserSets(r)) \/ TimeGoesOn
  PROVE  OldMoves \/ NewMoves
<1>1. ASSUME NEW o \in Object, UserWrites(o) PROVE OldMoves
  BY <1>1 DEF UserWrites, Old!UserActs, New!UserActs, Old!reconcilerVars, New!reconcilerVars,
     Old!Next, Old!EnvironmentStep, OldMoves, nReconciler
<1>2. ASSUME NEW r \in Reaper, UserSets(r) PROVE OldMoves
  BY <1>2 DEF UserSets, Old!UserSetReaper, New!UserSetReaper, Old!reconcilerVars,
     New!reconcilerVars, Old!clusterVars, Old!vars, OldMoves, nReconciler
<1>3. CASE TimeGoesOn /\ Old!TimePasses
  BY <1>3 DEF TimeGoesOn, nVars, Old!Next, Old!EnvironmentStep, OldMoves, nReconciler
<1>4. CASE TimeGoesOn /\ New!TimePasses
  BY <1>4 DEF TimeGoesOn, oVars, New!Next, New!EnvironmentStep, NewMoves, oReconciler
<1> QED BY <1>1, <1>2, <1>3, <1>4 DEF TimeGoesOn

LEMMA EveryStep == ReapersOK /\ [RolloutNext]_rolloutVars => OldMoves \/ NewMoves
<1>1. UNCHANGED rolloutVars => OldMoves
  BY DEF rolloutVars, clusterVars, oVars, nVars, OldMoves, nReconciler, Old!vars
<1> QED BY <1>1, OldProcess, NewProcess, Environment DEF RolloutNext, NewStep

LEMMA ReapersNext == ReapersOK /\ [RolloutNext]_rolloutVars => ReapersOK'
<1> SUFFICES ASSUME ReapersOK, [RolloutNext]_rolloutVars PROVE ReapersOK'
  OBVIOUS
<1>1. CASE UNCHANGED reapers
  BY <1>1 DEF ReapersOK
<1>2. ASSUME NEW r \in Reaper, UserSets(r) PROVE ReapersOK'
  BY <1>2 DEF UserSets, Old!UserSetReaper, ReapersOK
<1>3. ASSUME OldActs \/ NewActs PROVE UNCHANGED reapers
  BY <1>3 DEF OldActs, NewActs, Old!Timing, Old!Syncing, Old!SyncReaper, Old!Ticking,
     Old!WatchTick, Old!Notifying, Old!Notify, Old!watchVars, New!Timing, New!Syncing,
     New!SyncReaper, New!Ticking, New!WatchTick, New!Notifying, New!Notify, New!watchVars
<1> QED BY <1>1, <1>2, <1>3 DEF RolloutNext, NewStep, rolloutVars, NewStarts, New!Restart, OldEnds,
      OldReconciles, NewReconciles, Old!Reconciling, New!Reconciling, Old!watchVars, New!watchVars,
      UserWrites, TimeGoesOn

-----------------------------------------------------------------------------
(***************************************************************************)
(* What one reconciler keeps true, two keep true.                          *)
(***************************************************************************)
OldInv == Old!TypeInv /\ Old!WaitInv /\ Old!NoTimerLeak
NewInv == New!TypeInv /\ New!WaitInv /\ New!NoTimerLeak
RolloutInv == ReapersOK /\ OldInv /\ NewInv /\ Old!WarrantedReap

\* Both processes see one cluster.
LEMMA OneCluster ==
  /\ Old!ClusterTypeOK <=> New!ClusterTypeOK
  /\ Old!WithinReach <=> New!WithinReach
  /\ Old!WarrantedReap <=> New!WarrantedReap
BY DEF Old!ClusterTypeOK, New!ClusterTypeOK, Old!Rec, New!Rec, Old!WithinReach, New!WithinReach,
   Old!Present, New!Present, Old!InReach, New!InReach, Old!FinishTime, New!FinishTime, Old!WarrantedReap,
   New!WarrantedReap, Old!Expiration, New!Expiration, Old!Wrap, New!Wrap, Old!IsReapable,
   New!IsReapable, Old!IsResourceFinished, New!IsResourceFinished, Old!FinishedPhases,
   New!FinishedPhases, Old!FinishedConditions, New!FinishedConditions

LEMMA OneClusterNext ==
  /\ Old!ClusterTypeOK' <=> New!ClusterTypeOK'
  /\ Old!WithinReach' <=> New!WithinReach'
  /\ Old!WarrantedReap' <=> New!WarrantedReap'
BY OneCluster, PTL

\* Time does not go back.
LEMMA OldClock ==
  Old!TypeInv /\ Old!WaitInv /\ [Old!Next]_(Old!vars) => clock \in Nat /\ clock' \in Nat /\ clock <= clock'
BY Assumptions, Old!StepImplements, Old!TypeNext
   DEF Old!TypeInv, Old!TypeOK, Old!ClusterTypeOK, Old!Policy!PolicyNext, Old!Policy!policyVars,
       Old!Policy!Look, Old!Policy!Reap, Old!Policy!Others, Old!Policy!UserStep,
       Old!Policy!UserCreate, Old!Policy!UserUpdate, Old!Policy!UserDelete, Old!Policy!Tick

\* The new reconciler is not disturbed by a step of the old one.
LEMMA OldMovesKeep == RolloutInv /\ OldMoves => OldInv' /\ NewInv' /\ Old!WarrantedReap'
<1> SUFFICES ASSUME RolloutInv, OldMoves PROVE OldInv' /\ NewInv' /\ Old!WarrantedReap'
  OBVIOUS
<1>1. Old!TypeInv'
  BY Assumptions, Old!TypeNext DEF RolloutInv, OldInv, OldMoves
<1>2. Old!WaitInv' /\ Old!NoTimerLeak' /\ Old!WarrantedReap'
  BY Assumptions, Old!WaitNext, Old!LeakNext, Old!WarrantedNext DEF RolloutInv, OldInv, OldMoves
<1>3. clock' \in Nat /\ clock <= clock'
  BY OldClock DEF RolloutInv, OldInv, OldMoves
<1>4. New!TypeInv'
  <2>1. New!ClusterTypeOK'
    BY <1>1, OneClusterNext DEF Old!TypeInv, Old!TypeOK
  <2> QED BY <2>1 DEF RolloutInv, NewInv, OldMoves, nReconciler, New!TypeInv, New!TypeOK, New!ControlOK
<1>5. New!WaitInv'
  BY <1>2, <1>3, Assumptions, OneClusterNext, New!WorkerWaitsKept, New!TimerWaitsKept
     DEF RolloutInv, NewInv, OldMoves, nReconciler, New!WaitInv, Old!WaitInv
<1>6. New!NoTimerLeak'
  BY DEF RolloutInv, NewInv, OldMoves, nReconciler, New!NoTimerLeak
<1> QED BY <1>1, <1>2, <1>4, <1>5, <1>6 DEF OldInv, NewInv

LEMMA NewClock ==
  New!TypeInv /\ New!WaitInv /\ [New!Next]_(New!vars) => clock \in Nat /\ clock' \in Nat /\ clock <= clock'
BY Assumptions, New!StepImplements, New!TypeNext
   DEF New!TypeInv, New!TypeOK, New!ClusterTypeOK, New!Policy!PolicyNext, New!Policy!policyVars,
       New!Policy!Look, New!Policy!Reap, New!Policy!Others, New!Policy!UserStep,
       New!Policy!UserCreate, New!Policy!UserUpdate, New!Policy!UserDelete, New!Policy!Tick

\* Nor the old one by a step of the new.
LEMMA NewMovesKeep == RolloutInv /\ NewMoves => OldInv' /\ NewInv' /\ Old!WarrantedReap'
<1> SUFFICES ASSUME RolloutInv, NewMoves PROVE OldInv' /\ NewInv' /\ Old!WarrantedReap'
  OBVIOUS
<1>1. New!TypeInv'
  BY Assumptions, New!TypeNext DEF RolloutInv, NewInv, NewMoves
<1>2. New!WaitInv' /\ New!NoTimerLeak' /\ New!WarrantedReap'
  BY Assumptions, OneCluster, New!WaitNext, New!LeakNext, New!WarrantedNext
     DEF RolloutInv, NewInv, NewMoves
<1>3. clock' \in Nat /\ clock <= clock'
  BY NewClock DEF RolloutInv, NewInv, NewMoves
<1>4. Old!TypeInv'
  <2>1. Old!ClusterTypeOK'
    BY <1>1, OneClusterNext DEF New!TypeInv, New!TypeOK
  <2> QED BY <2>1 DEF RolloutInv, OldInv, NewMoves, oReconciler, Old!TypeInv, Old!TypeOK, Old!ControlOK
<1>5. Old!WaitInv'
  BY <1>2, <1>3, Assumptions, OneClusterNext, Old!WorkerWaitsKept, Old!TimerWaitsKept
     DEF RolloutInv, OldInv, NewMoves, oReconciler, New!WaitInv, Old!WaitInv
<1>6. Old!NoTimerLeak'
  BY DEF RolloutInv, OldInv, NewMoves, oReconciler, Old!NoTimerLeak
<1> QED BY <1>1, <1>2, <1>4, <1>5, <1>6, OneClusterNext DEF OldInv, NewInv

LEMMA RolloutInitially == RolloutInit => RolloutInv
<1> SUFFICES ASSUME RolloutInit PROVE RolloutInv
  OBVIOUS
<1>1. NewInv /\ New!WarrantedReap
  BY Assumptions, New!TypeInit, New!WaitInit, New!LeakInit DEF RolloutInit, NewInv
<1>2. Old!TypeInv
  <2>1. Old!ClusterTypeOK
    BY <1>1, OneCluster DEF NewInv, New!TypeInv, New!TypeOK
  <2> QED BY <2>1 DEF RolloutInit, Old!ReaperInit, Old!IdleWorker, Old!TypeInv, Old!TypeOK,
            Old!ControlOK, Old!WorkerState
<1>3. Old!WaitInv /\ Old!NoTimerLeak
  BY <1>1, OneCluster DEF NewInv, New!WaitInv, RolloutInit, Old!ReaperInit, Old!IdleWorker,
     Old!FreeTimer, Old!WaitInv, Old!WorkerWaits, Old!TimerWaits, Old!NoTimerLeak
<1> QED BY <1>1, <1>2, <1>3, OneCluster DEF RolloutInv, OldInv, RolloutInit, ReapersOK

LEMMA RolloutInductive == RolloutInv /\ [RolloutNext]_rolloutVars => RolloutInv'
BY EveryStep, ReapersNext, OldMovesKeep, NewMovesKeep DEF RolloutInv

LEMMA RolloutInvariant == RolloutSpec => []RolloutInv
BY RolloutInitially, RolloutInductive, PTL DEF RolloutSpec

\* Whatever two processes do at once, each keeps its timer map from leaking, and
\* what either deletes it deletes on a copy that was finished and has expired
\* (ttlreaper.go:145-272, :321-332).
THEOREM TwoProcessesSafe ==
  RolloutSpec => [](Old!NoTimerLeak /\ New!NoTimerLeak /\ Old!WarrantedReap)
<1>1. RolloutInv => Old!NoTimerLeak /\ New!NoTimerLeak /\ Old!WarrantedReap
  BY DEF RolloutInv, OldInv, NewInv
<1> QED BY <1>1, RolloutInvariant, PTL

-----------------------------------------------------------------------------
(***************************************************************************)
(* The policy.  A step the old process' policy allows is one the policy of *)
(* both allows, since the copies of the other stay what they are.          *)
(***************************************************************************)
Both == Old!Held \cup New!Held

LEMMA OldPolicyLifts ==
  ASSUME [Old!Policy!PolicyNext]_(Old!Policy!policyVars), UNCHANGED New!Held
  PROVE  [Policy!PolicyNext]_(Policy!policyVars)
<1> USE DEF Policy!policyVars, Old!Policy!policyVars
<1>1. CASE UNCHANGED Old!Policy!policyVars
  BY <1>1
<1>2. CASE Old!Policy!Look
  BY <1>2 DEF Old!Policy!Look, Policy!PolicyNext, Policy!Look, Old!Policy!Grantable, Policy!Grantable,
     Old!Policy!Present, Policy!Present, Old!Policy!IsReapable, Policy!IsReapable,
     Old!Policy!IsResourceFinished, Policy!IsResourceFinished, Old!Policy!FinishedPhases,
     Policy!FinishedPhases, Old!Policy!FinishedConditions, Policy!FinishedConditions
<1>3. ASSUME NEW warrant \in Old!Held, Old!Policy!Reap(warrant) PROVE Policy!PolicyNext
  <2>1. Policy!Reap(warrant)
    BY <1>3 DEF Old!Policy!Reap, Policy!Reap, Old!Policy!Present, Policy!Present,
       Old!Policy!Expiration, Policy!Expiration, Old!Policy!FinishTime, Policy!FinishTime,
       Old!Policy!Wrap, Policy!Wrap
  <2> QED BY <2>1 DEF Policy!PolicyNext
<1>4. CASE Old!Policy!Others
  BY <1>4 DEF Old!Policy!Others, Policy!Others, Policy!PolicyNext, Old!Policy!Tick, Policy!Tick,
     Old!Policy!UserStep, Policy!UserStep, Old!Policy!UserCreate, Policy!UserCreate,
     Old!Policy!UserUpdate, Policy!UserUpdate, Old!Policy!UserDelete, Policy!UserDelete,
     Old!Policy!Stamped, Policy!Stamped, Old!Policy!Present, Policy!Present,
     Old!Policy!IsResourceFinished, Policy!IsResourceFinished, Old!Policy!FinishedPhases,
     Policy!FinishedPhases, Old!Policy!FinishedConditions, Policy!FinishedConditions
<1> QED BY <1>1, <1>2, <1>3, <1>4 DEF Old!Policy!PolicyNext

LEMMA NewPolicyLifts ==
  ASSUME [New!Policy!PolicyNext]_(New!Policy!policyVars), UNCHANGED Old!Held
  PROVE  [Policy!PolicyNext]_(Policy!policyVars)
<1> USE DEF Policy!policyVars, New!Policy!policyVars
<1>1. CASE UNCHANGED New!Policy!policyVars
  BY <1>1
<1>2. CASE New!Policy!Look
  BY <1>2 DEF New!Policy!Look, Policy!PolicyNext, Policy!Look, New!Policy!Grantable, Policy!Grantable,
     New!Policy!Present, Policy!Present, New!Policy!IsReapable, Policy!IsReapable,
     New!Policy!IsResourceFinished, Policy!IsResourceFinished, New!Policy!FinishedPhases,
     Policy!FinishedPhases, New!Policy!FinishedConditions, Policy!FinishedConditions
<1>3. ASSUME NEW warrant \in New!Held, New!Policy!Reap(warrant) PROVE Policy!PolicyNext
  <2>1. Policy!Reap(warrant)
    BY <1>3 DEF New!Policy!Reap, Policy!Reap, New!Policy!Present, Policy!Present,
       New!Policy!Expiration, Policy!Expiration, New!Policy!FinishTime, Policy!FinishTime,
       New!Policy!Wrap, Policy!Wrap
  <2> QED BY <2>1 DEF Policy!PolicyNext
<1>4. CASE New!Policy!Others
  BY <1>4 DEF New!Policy!Others, Policy!Others, Policy!PolicyNext, New!Policy!Tick, Policy!Tick,
     New!Policy!UserStep, Policy!UserStep, New!Policy!UserCreate, Policy!UserCreate,
     New!Policy!UserUpdate, Policy!UserUpdate, New!Policy!UserDelete, Policy!UserDelete,
     New!Policy!Stamped, Policy!Stamped, New!Policy!Present, Policy!Present,
     New!Policy!IsResourceFinished, Policy!IsResourceFinished, New!Policy!FinishedPhases,
     Policy!FinishedPhases, New!Policy!FinishedConditions, Policy!FinishedConditions
<1> QED BY <1>1, <1>2, <1>3, <1>4 DEF New!Policy!PolicyNext

LEMMA StepImplementsPolicy ==
  RolloutInv /\ [RolloutNext]_rolloutVars => [Policy!PolicyNext]_(Policy!policyVars)
<1> SUFFICES ASSUME RolloutInv, [RolloutNext]_rolloutVars
             PROVE  [Policy!PolicyNext]_(Policy!policyVars)
  OBVIOUS
<1>1. CASE OldMoves
  <2>1. UNCHANGED New!Held
    BY <1>1 DEF OldMoves, nReconciler, New!Held
  <2>2. [Old!Policy!PolicyNext]_(Old!Policy!policyVars)
    BY <1>1, Assumptions, Old!StepImplements DEF OldMoves, RolloutInv, OldInv
  <2> QED BY <2>1, <2>2, OldPolicyLifts
<1>2. CASE NewMoves
  <2>1. UNCHANGED Old!Held
    BY <1>2 DEF NewMoves, oReconciler, Old!Held
  <2>2. [New!Policy!PolicyNext]_(New!Policy!policyVars)
    BY <1>2, Assumptions, New!StepImplements DEF NewMoves, RolloutInv, NewInv
  <2> QED BY <2>1, <2>2, NewPolicyLifts
<1> QED BY <1>1, <1>2, EveryStep DEF RolloutInv

LEMMA InitImplementsPolicy == RolloutInit => Policy!PolicyInit
BY Assumptions, Old!FreeHoldsNothing, New!FreeHoldsNothing
   DEF RolloutInit, New!Init, New!ClusterInit, New!ReaperInit, Old!ReaperInit, Old!Held, New!Held,
       Policy!PolicyInit

\* Two processes, without a leader between them, are one reaper to the cluster:
\* they implement ReapPolicy with the copies of both as warrants
\* (ttlreaper.go:321-332).
THEOREM TogetherOneReaper == RolloutSpec => TogetherImplementPolicy
BY InitImplementsPolicy, StepImplementsPolicy, RolloutInvariant, PTL
   DEF RolloutSpec, TogetherImplementPolicy, Policy!PolicySpec

-----------------------------------------------------------------------------
(***************************************************************************)
(* Where names are not reused and what has finished is left alone, a copy  *)
(* held by either process is the object itself, or of one that is gone: a  *)
(* copy outlives a deletion by the other process, and nothing else.        *)
(***************************************************************************)
Frozen == ~MayReuse /\ ~MayEdit

FreshCopies ==
  \A warrant \in Both :
    /\ warrant.obj \in Object
    /\ Policy!IsReapable(warrant.rec) /\ warrant.rec \notin {Unborn, Gone}
    /\ api[warrant.obj] \in {warrant.rec, Gone}

FreshReap ==
  lastReap # Absent => Policy!IsReapable(lastReap.was) /\ Policy!Expiration(lastReap.was) <= lastReap.at

LEMMA FreshStep ==
  ASSUME Frozen, FreshCopies, FreshReap, api \in [Object -> Old!Rec \cup {Unborn, Gone}],
         [Policy!PolicyNext]_(Policy!policyVars)
  PROVE  FreshCopies' /\ FreshReap'
<1>1. CASE UNCHANGED Policy!policyVars
  BY <1>1 DEF Policy!policyVars, Both, FreshCopies, FreshReap
<1>2. CASE Policy!Look
  BY <1>2 DEF Policy!Look, Policy!Grantable, Policy!Present, Both, FreshCopies, FreshReap
<1>3. ASSUME NEW warrant \in Both, Policy!Reap(warrant) PROVE FreshCopies' /\ FreshReap'
  BY <1>3 DEF Policy!Reap, Policy!Present, Both, FreshCopies, FreshReap
<1>4. ASSUME NEW o \in Object, Policy!UserStep(o), UNCHANGED Both PROVE FreshCopies' /\ FreshReap'
  <2>1. ASSUME NEW warrant \in Both, warrant.obj = o PROVE api'[o] \in {warrant.rec, Gone}
    <3>1. ~Policy!UserCreate(o)
      BY <2>1, ClusterAssumption DEF Policy!UserCreate, FreshCopies, Frozen
    <3>2. ~Policy!UserUpdate(o)
      BY <2>1 DEF Policy!UserUpdate, Policy!Present, Policy!IsReapable, FreshCopies, Frozen
    <3> QED BY <1>4, <3>1, <3>2 DEF Policy!UserStep, Policy!UserDelete
  <2>2. ASSUME NEW warrant \in Both, warrant.obj # o
        PROVE  api'[warrant.obj] = api[warrant.obj]
    BY <1>4, <2>2 DEF Policy!UserStep, Policy!UserCreate, Policy!UserUpdate, Policy!UserDelete,
       FreshCopies
  <2>3. UNCHANGED lastReap
    BY <1>4 DEF Policy!UserStep, Policy!UserCreate, Policy!UserUpdate, Policy!UserDelete
  <2> QED BY <1>4, <2>1, <2>2, <2>3 DEF FreshCopies, FreshReap
<1>5. CASE Policy!Tick /\ UNCHANGED Both
  BY <1>5 DEF Policy!Tick, Both, FreshCopies, FreshReap
<1> QED BY <1>1, <1>2, <1>3, <1>4, <1>5 DEF Policy!PolicyNext, Policy!Others, Both

\* Then what either process deletes is finished and expired when it is deleted,
\* though the other may have deleted it first (ttlreaper.go:233, :251).
THEOREM TogetherReapOnlyExpired == Frozen /\ RolloutSpec => []Old!ReapsOnlyExpired
<1>1. SUFFICES ASSUME Frozen PROVE RolloutSpec => []Old!ReapsOnlyExpired
  OBVIOUS
<1>2. RolloutInit => FreshCopies /\ FreshReap
  BY InitImplementsPolicy DEF Policy!PolicyInit, Both, FreshCopies, FreshReap
<1>3. RolloutInv /\ FreshCopies /\ FreshReap /\ [RolloutNext]_rolloutVars => FreshCopies' /\ FreshReap'
  <2>1. RolloutInv => api \in [Object -> Old!Rec \cup {Unborn, Gone}]
    BY DEF RolloutInv, OldInv, Old!TypeInv, Old!TypeOK, Old!ClusterTypeOK
  <2> QED BY <1>1, <2>1, FreshStep, StepImplementsPolicy
<1>4. FreshReap => Old!ReapsOnlyExpired
  BY DEF FreshReap, Old!ReapsOnlyExpired, Policy!IsReapable, Old!IsReapable,
     Policy!IsResourceFinished, Old!IsResourceFinished, Policy!FinishedPhases, Old!FinishedPhases,
     Policy!FinishedConditions, Old!FinishedConditions, Policy!Expiration, Old!Expiration,
     Policy!FinishTime, Old!FinishTime, Policy!Wrap, Old!Wrap
<1> QED BY <1>2, <1>3, <1>4, RolloutInvariant, PTL DEF RolloutSpec
-----------------------------------------------------------------------------
(***************************************************************************)
(* Each process remembers, by the invariants of NothingForgotten_proofs    *)
(* and TakingTurns_proofs.  To the one, the other is someone who deletes. *)
(***************************************************************************)
LEMMA OldSeesDeletes ==
  ASSUME New!TypeInv, UNCHANGED oVars,
         \/ \E w \in Worker : New!Reconciling(w)
         \/ \E t \in TimerId : New!Timing(t)
         \/ UNCHANGED <<api, missed>>
  PROVE  Old!Proceeds
<1>1. New!DeletesOnly
  BY Assumptions, New!WorkerCluster, New!TimerCluster
     DEF New!Reconciling, New!Timing, New!DeletesOnly
<1>2. Old!DeletesOnly
  BY <1>1 DEF New!DeletesOnly, Old!DeletesOnly
<1> QED BY <1>2, Assumptions, Old!ForeignKeeps DEF oVars, Old!Proceeds

\* The old process goes on, the other deletes, users write, and time passes.
LEMMA OldProceeds ==
  ASSUME Old!Orderly, Old!TypeInv, New!TypeInv, [RolloutNext]_rolloutVars
  PROVE  Old!Proceeds \/ OldEnds
<1>1. ASSUME NEW w \in Worker, OldReconciles(w) PROVE Old!Proceeds
  BY <1>1 DEF OldReconciles, Old!Reconciling, Old!Proceeds
<1>2. CASE OldActs
  <2>1. ASSUME NEW t \in TimerId, Old!Timing(t) PROVE Old!DeletesAlone
    BY <2>1, Assumptions, Old!TimerKeeps DEF Old!Timing
  <2>2. ASSUME NEW r \in Reaper, Old!Syncing(r) PROVE Old!Elsewhere
    BY <2>2, Assumptions, Old!FollowSync DEF Old!Syncing
  <2>3. Old!Ticking => Old!Elsewhere
    BY Assumptions, Old!FollowTick DEF Old!Ticking
  <2>4. ASSUME NEW o \in Object, Old!Notifying(o) PROVE Old!Elsewhere
    BY <2>4, Assumptions, Old!FollowEnqueues DEF Old!Notifying, Old!Notify, Old!reconcilerVars
  <2> QED BY <1>2, <2>1, <2>2, <2>3, <2>4 DEF OldActs, Old!Proceeds
<1>3. ASSUME NEW w \in Worker, NewReconciles(w) PROVE Old!Proceeds
  BY <1>3, OldSeesDeletes DEF NewReconciles
<1>4. CASE NewActs
  BY <1>4, OldSeesDeletes DEF NewActs, New!Syncing, New!SyncReaper, New!Ticking, New!WatchTick,
     New!Notifying, New!Notify, clusterVars, New!clusterVars
<1>5. CASE NewStarts
  BY <1>5, OldSeesDeletes DEF NewStarts, New!Restart, New!Crash, New!clusterVars
<1>6. ASSUME NEW o \in Object, UserWrites(o) PROVE Old!Elsewhere
  BY <1>6, Assumptions, Old!FollowUser DEF UserWrites
<1>7. ASSUME NEW r \in Reaper, UserSets(r) PROVE Old!Elsewhere
  BY <1>7, Assumptions, Old!FollowQuiet
     DEF UserSets, Old!UserSetReaper, Old!clusterVars, Old!reconcilerVars
<1>8. CASE TimeGoesOn
  BY <1>8, OldSeesDeletes
     DEF TimeGoesOn, Old!TimePasses, New!TimePasses, Old!Tick, New!Tick
<1>9. CASE UNCHANGED rolloutVars
  BY <1>9, OldSeesDeletes DEF rolloutVars, clusterVars
<1> QED BY <1>1, <1>2, <1>3, <1>4, <1>5, <1>6, <1>7, <1>8, <1>9
      DEF RolloutNext, NewStep, Old!Proceeds

\* An ended process has nothing cached that needs anything of it.
LEMMA OldEnded == OldEnds => Old!Remembered' /\ Old!Current'
BY DEF OldEnds, Old!Remembered, Old!Current, Old!Needs, Old!Covers

LEMMA NewSeesDeletes ==
  ASSUME Old!TypeInv, UNCHANGED nVars,
         \/ \E w \in Worker : Old!Reconciling(w)
         \/ \E t \in TimerId : Old!Timing(t)
         \/ UNCHANGED <<api, missed>>
  PROVE  New!Proceeds
<1>1. Old!DeletesOnly
  BY Assumptions, Old!WorkerCluster, Old!TimerCluster
     DEF Old!Reconciling, Old!Timing, Old!DeletesOnly
<1>2. New!DeletesOnly
  BY <1>1 DEF Old!DeletesOnly, New!DeletesOnly
<1> QED BY <1>2, Assumptions, New!ForeignKeeps DEF nVars, New!Proceeds

\* The new process goes on, the other deletes, users write, and time passes.
LEMMA NewProceeds ==
  ASSUME New!Orderly, New!TypeInv, Old!TypeInv, [RolloutNext]_rolloutVars
  PROVE  New!Proceeds \/ New!Restart
<1>1. ASSUME NEW w \in Worker, NewReconciles(w) PROVE New!Proceeds
  BY <1>1 DEF NewReconciles, New!Reconciling, New!Proceeds
<1>2. CASE NewActs
  <2>1. ASSUME NEW t \in TimerId, New!Timing(t) PROVE New!DeletesAlone
    BY <2>1, Assumptions, New!TimerKeeps DEF New!Timing
  <2>2. ASSUME NEW r \in Reaper, New!Syncing(r) PROVE New!Elsewhere
    BY <2>2, Assumptions, New!FollowSync DEF New!Syncing
  <2>3. New!Ticking => New!Elsewhere
    BY Assumptions, New!FollowTick DEF New!Ticking
  <2>4. ASSUME NEW o \in Object, New!Notifying(o) PROVE New!Elsewhere
    BY <2>4, Assumptions, New!FollowEnqueues DEF New!Notifying, New!Notify, New!reconcilerVars
  <2> QED BY <1>2, <2>1, <2>2, <2>3, <2>4 DEF NewActs, New!Proceeds
<1>3. CASE NewStarts
  BY <1>3 DEF NewStarts
<1>4. ASSUME NEW w \in Worker, OldReconciles(w) PROVE New!Proceeds
  BY <1>4, NewSeesDeletes DEF OldReconciles
<1>5. CASE OldActs \/ OldEnds
  BY <1>5, NewSeesDeletes DEF OldActs, OldEnds, Old!Crash, Old!Syncing, Old!SyncReaper,
     Old!Ticking, Old!WatchTick, Old!Notifying, Old!Notify, clusterVars, Old!clusterVars
<1>6. ASSUME NEW o \in Object, UserWrites(o) PROVE New!Elsewhere
  BY <1>6, Assumptions, New!FollowUser DEF UserWrites
<1>7. ASSUME NEW r \in Reaper, UserSets(r) PROVE New!Elsewhere
  BY <1>7, Assumptions, New!FollowQuiet
     DEF UserSets, New!UserSetReaper, New!clusterVars, New!reconcilerVars
<1>8. CASE TimeGoesOn
  BY <1>8, NewSeesDeletes
     DEF TimeGoesOn, Old!TimePasses, New!TimePasses, Old!Tick, New!Tick
<1>9. CASE UNCHANGED rolloutVars
  BY <1>9, NewSeesDeletes DEF rolloutVars, clusterVars
<1> QED BY <1>1, <1>2, <1>3, <1>4, <1>5, <1>6, <1>7, <1>8, <1>9
      DEF RolloutNext, NewStep, New!Proceeds

\* Both processes have the same constants.
LEMMA OneOrder == Old!Orderly => New!Orderly
BY DEF Old!Orderly, New!Orderly, Old!KeysApart, New!KeysApart, Old!KeyOf, New!KeyOf,
   Old!SeenAsListed, New!SeenAsListed, Old!Housed, New!Housed, Old!Rejected, New!Rejected,
   Old!ListParses, New!ListParses, Old!ListGVR, New!ListGVR, Old!ServedGVR, New!ServedGVR,
   Old!Targets, New!Targets, Old!VersionOf, New!VersionOf, Old!WatchParses, New!WatchParses,
   Old!WatchGVR, New!WatchGVR, Old!GetResourceName, New!GetResourceName, Old!ServedName,
   New!ServedName, Old!WatchResourceName, New!WatchResourceName

RolloutRemembers ==
  RolloutInv /\ Old!ItemsOK /\ Old!Remembered /\ New!ItemsOK /\ New!Remembered

LEMMA ItemsMoves ==
  RolloutInv /\ Old!ItemsOK /\ New!ItemsOK /\ (OldMoves \/ NewMoves) => Old!ItemsOK' /\ New!ItemsOK'
<1>1. RolloutInv /\ Old!ItemsOK /\ New!ItemsOK /\ OldMoves => Old!ItemsOK' /\ New!ItemsOK'
  BY Assumptions, Old!ItemsNext DEF RolloutInv, OldInv, OldMoves, nReconciler, New!ItemsOK
<1>2. RolloutInv /\ Old!ItemsOK /\ New!ItemsOK /\ NewMoves => Old!ItemsOK' /\ New!ItemsOK'
  BY Assumptions, New!ItemsNext DEF RolloutInv, NewInv, NewMoves, oReconciler, Old!ItemsOK
<1> QED BY <1>1, <1>2

\* Neither process relies on the other: each has a timer, a worker, an event, a
\* queued key or a tick to come for every finished object a TTLReaper covers,
\* whatever the other deletes meanwhile, and whenever it ends
\* (ttlreaper.go:321-332).
THEOREM NeitherRelies == Old!Orderly /\ RolloutSpec => []NeitherForgets
<1>1. SUFFICES ASSUME Old!Orderly, New!Orderly PROVE RolloutSpec => []NeitherForgets
  BY OneOrder
<1>2. RolloutInit => RolloutRemembers
  <2> SUFFICES ASSUME RolloutInit PROVE RolloutRemembers
    OBVIOUS
  <2>1. Old!ItemsOK /\ New!ItemsOK
    BY DEF RolloutInit, New!Init, New!ReaperInit, Old!ReaperInit, Old!ItemsOK, New!ItemsOK,
       Old!IdleWorker, New!IdleWorker
  <2>2. Old!Remembered /\ New!Remembered
    BY Assumptions, Old!RememberedInit, New!RememberedInit
       DEF RolloutInit, New!Init, New!ClusterInit
  <2> QED BY <2>1, <2>2, RolloutInitially DEF RolloutRemembers
<1>3. RolloutRemembers /\ [RolloutNext]_rolloutVars => RolloutRemembers'
  <2> SUFFICES ASSUME RolloutRemembers, [RolloutNext]_rolloutVars PROVE RolloutRemembers'
    OBVIOUS
  <2>1. RolloutInv' /\ Old!ItemsOK' /\ New!ItemsOK'
    BY RolloutInductive, EveryStep, ItemsMoves DEF RolloutRemembers, RolloutInv
  <2>2. Old!RememberInv /\ New!RememberInv /\ Old!TypeInv /\ New!TypeInv
    BY DEF RolloutRemembers, RolloutInv, OldInv, NewInv, Old!RememberInv, New!RememberInv,
       ReapersOK, Old!ReapersOK, New!ReapersOK
  <2>3. Old!Remembered'
    BY <1>1, <2>2, Assumptions, OldProceeds, OldEnded, Old!RememberNext
  <2>4. New!Remembered'
    BY <1>1, <2>2, Assumptions, NewProceeds, New!RememberNext
  <2> QED BY <2>1, <2>3, <2>4 DEF RolloutRemembers
<1>4. RolloutRemembers => NeitherForgets
  BY Assumptions, Old!RememberedSuffices, New!RememberedSuffices
     DEF RolloutRemembers, NeitherForgets
<1> QED BY <1>2, <1>3, <1>4, PTL DEF RolloutSpec

-----------------------------------------------------------------------------
\* Within each process workers take turns, whatever the other does.
TurnsInv ==
  RolloutInv /\ Old!ItemsOK /\ New!ItemsOK /\ Old!OneAtWork /\ New!OneAtWork

LEMMA TurnsMoves ==
  Old!TakingTurns /\ TurnsInv /\ [RolloutNext]_rolloutVars => TurnsInv'
<1> SUFFICES ASSUME Old!TakingTurns, TurnsInv, [RolloutNext]_rolloutVars PROVE TurnsInv'
  OBVIOUS
<1>1. RolloutInv' /\ Old!ItemsOK' /\ New!ItemsOK' /\ (OldMoves \/ NewMoves)
  BY RolloutInductive, EveryStep, ItemsMoves DEF TurnsInv, RolloutInv
<1>2. CASE OldMoves
  <2>1. Old!OneAtWork'
    BY <1>2, Assumptions, Old!TurnsNext DEF TurnsInv, RolloutInv, OldInv, OldMoves
  <2>2. New!OneAtWork'
    BY <1>2 DEF TurnsInv, OldMoves, nReconciler, New!OneAtWork
  <2> QED BY <1>1, <2>1, <2>2 DEF TurnsInv
<1>3. CASE NewMoves
  <2>1. New!OneAtWork'
    BY <1>3, Assumptions, New!TurnsNext
       DEF TurnsInv, RolloutInv, NewInv, NewMoves, Old!TakingTurns, New!TakingTurns
  <2>2. Old!OneAtWork'
    BY <1>3 DEF TurnsInv, NewMoves, oReconciler, Old!OneAtWork
  <2> QED BY <1>1, <2>1, <2>2 DEF TurnsInv
<1> QED BY <1>1, <1>2, <1>3

NeitherStale ==
  /\ oUp => Old!NothingStale
  /\ nUp => New!NothingStale

\* Nor does either process hold on to a copy that an edit has outgrown, where in
\* each workers take turns: the edit reaches both, and each replaces its own
\* timer (ttlreaper.go:217-221, :321-332).
THEOREM NeitherKeepsStale ==
  Old!Orderly /\ Old!TakingTurns /\ RolloutSpec => []NeitherStale
<1> DEFINE CurrentBoth == TurnsInv /\ Old!Current /\ New!Current
<1>1. SUFFICES ASSUME Old!Orderly, New!Orderly, Old!TakingTurns
               PROVE  RolloutSpec => []NeitherStale
  BY OneOrder
<1>2. RolloutInit => CurrentBoth
  <2> SUFFICES ASSUME RolloutInit PROVE CurrentBoth
    OBVIOUS
  <2>1. Old!ItemsOK /\ New!ItemsOK /\ Old!OneAtWork /\ New!OneAtWork
    BY DEF RolloutInit, New!Init, New!ReaperInit, Old!ReaperInit, Old!ItemsOK, New!ItemsOK,
       Old!OneAtWork, New!OneAtWork, Old!IdleWorker, New!IdleWorker
  <2>2. Old!Current /\ New!Current
    BY Assumptions, Old!CurrentInit, New!CurrentInit
       DEF RolloutInit, New!Init, New!ClusterInit
  <2> QED BY <2>1, <2>2, RolloutInitially DEF TurnsInv
<1>3. CurrentBoth /\ [RolloutNext]_rolloutVars => CurrentBoth'
  <2> SUFFICES ASSUME CurrentBoth, [RolloutNext]_rolloutVars PROVE CurrentBoth'
    OBVIOUS
  <2>1. TurnsInv'
    BY <1>1, TurnsMoves
  <2>2. Old!CurrentInv /\ New!CurrentInv /\ Old!TypeInv /\ New!TypeInv
    BY DEF TurnsInv, RolloutInv, OldInv, NewInv, Old!CurrentInv, New!CurrentInv,
       ReapersOK, Old!ReapersOK, New!ReapersOK
  <2>3. Old!OneAtWork' /\ Old!ItemsOK' /\ New!OneAtWork' /\ New!ItemsOK'
    BY <2>1 DEF TurnsInv
  <2>4. Old!Current'
    BY <1>1, <2>2, <2>3, Assumptions, OldProceeds, OldEnded, Old!CurrentNext
  <2>5. New!Current'
    BY <1>1, <2>2, <2>3, Assumptions, NewProceeds, New!CurrentNext
  <2> QED BY <2>1, <2>4, <2>5
<1>4. CurrentBoth => NeitherStale
  BY Assumptions, Old!CurrentSuffices, New!CurrentSuffices DEF NeitherStale
<1> HIDE DEF CurrentBoth
<1> QED BY <1>2, <1>3, <1>4, PTL DEF RolloutSpec

-----------------------------------------------------------------------------
\* A process finds finished objects as they are, unless the other deletes them.
LEMMA OldStays ==
  Frozen /\ RolloutInv /\ OldMoves => New!FinishedStay
BY Assumptions, Old!FinishedStays
   DEF Frozen, Old!Frozen, RolloutInv, OldInv, OldMoves, New!FinishedStay, New!Present, Old!Present,
       New!IsReapable, Old!IsReapable, New!IsResourceFinished, Old!IsResourceFinished,
       New!FinishedPhases, Old!FinishedPhases, New!FinishedConditions, Old!FinishedConditions

LEMMA NewStays ==
  Frozen /\ RolloutInv /\ NewMoves => Old!FinishedStay
BY Assumptions, New!FinishedStays
   DEF Frozen, New!Frozen, RolloutInv, NewInv, NewMoves, Old!FinishedStay, New!Present, Old!Present,
       New!IsReapable, Old!IsReapable, New!IsResourceFinished, Old!IsResourceFinished,
       New!FinishedPhases, Old!FinishedPhases, New!FinishedConditions, Old!FinishedConditions

\* Within each process an object has one timer that can still fire, under the
\* conditions for one process alone: what the other deletes leaves nobody a second
\* timer (ttlreaper.go:217-221, :321-332).
THEOREM OneTimerInEach ==
  Old!KeysApart /\ Frozen /\ Old!TakingTurns /\ RolloutSpec => [](Old!SingleTimer /\ New!SingleTimer)
<1> DEFINE LoneBoth == RolloutInv /\ Old!LoneInv /\ New!LoneInv
<1>1. SUFFICES ASSUME Old!KeysApart, Frozen, Old!TakingTurns
               PROVE  RolloutSpec => [](Old!SingleTimer /\ New!SingleTimer)
  OBVIOUS
<1>2. New!KeysApart /\ New!TakingTurns /\ Old!Frozen /\ New!Frozen
  BY <1>1 DEF Old!KeysApart, New!KeysApart, Old!KeyOf, New!KeyOf, Old!TakingTurns,
     New!TakingTurns, Frozen, Old!Frozen, New!Frozen
<1>3. RolloutInit => LoneBoth
  <2> SUFFICES ASSUME RolloutInit PROVE LoneBoth
    OBVIOUS
  <2>1. RolloutInv /\ New!LoneInv
    BY RolloutInitially, Assumptions, New!LoneInit DEF RolloutInit
  <2>2. Old!LoneInv
    BY <2>1, Assumptions, Old!LoneReady
       DEF RolloutInit, RolloutInv, OldInv
  <2> QED BY <2>1, <2>2
<1>4. LoneBoth /\ [RolloutNext]_rolloutVars => LoneBoth'
  <2> SUFFICES ASSUME LoneBoth, [RolloutNext]_rolloutVars PROVE LoneBoth'
    OBVIOUS
  <2>1. RolloutInv' /\ (OldMoves \/ NewMoves)
    BY RolloutInductive, EveryStep DEF RolloutInv
  <2>2. CASE OldMoves
    <3>1. Old!LoneInv'
      BY <1>1, <1>2, <2>2, Assumptions, Old!LoneNext DEF OldMoves
    <3>2. clock' \in Nat /\ clock <= clock'
      BY <2>2, OldClock DEF RolloutInv, OldInv, OldMoves
    <3>3. New!LoneInv'
      BY <1>1, <2>1, <2>2, <3>2, Assumptions, OldStays, New!LoneForeign
         DEF RolloutInv, NewInv, OldMoves, nReconciler
    <3> QED BY <2>1, <3>1, <3>3
  <2>3. CASE NewMoves
    <3>1. New!LoneInv'
      BY <1>1, <1>2, <2>3, Assumptions, New!LoneNext DEF NewMoves
    <3>2. clock' \in Nat /\ clock <= clock'
      BY <2>3, NewClock DEF RolloutInv, NewInv, NewMoves
    <3>3. Old!LoneInv'
      BY <1>1, <2>1, <2>3, <3>2, Assumptions, NewStays, Old!LoneForeign
         DEF RolloutInv, OldInv, NewMoves, oReconciler
    <3> QED BY <2>1, <3>1, <3>3
  <2> QED BY <2>1, <2>2, <2>3
<1>5. LoneBoth => Old!SingleTimer /\ New!SingleTimer
  BY <1>1, <1>2, Assumptions, Old!LoneSuffices, New!LoneSuffices
<1> HIDE DEF LoneBoth
<1> QED BY <1>3, <1>4, <1>5, PTL DEF RolloutSpec
=============================================================================
