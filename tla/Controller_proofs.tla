-------------------------- MODULE Controller_proofs -------------------------
(***************************************************************************)
(* The closed controller is an instance of the open reaper: whatever its   *)
(* informers, ticker and queue do, module Reaper allows for.  So all that  *)
(* is proved of Reaper holds of Controller.                                *)
(***************************************************************************)
EXTENDS Controller, Reaper_proofs

ReapersOK == reapers \in [Reaper -> ReaperSpec \cup {Absent}]

LEMMA ReapersInit == ControllerInit => ReapersOK
BY DEF ControllerInit, WatchInit, ReapersOK

LEMMA ReapersNext == ReapersOK /\ [ControllerNext]_controllerVars => ReapersOK'
<1> SUFFICES ASSUME ReapersOK, [ControllerNext]_controllerVars PROVE ReapersOK'
  OBVIOUS
<1>1. CASE UNCHANGED reapers
  BY <1>1 DEF ReapersOK
<1>2. ASSUME NEW r \in Reaper, UserSetReaper(r) PROVE ReapersOK'
  BY <1>2 DEF UserSetReaper, ReapersOK
<1>3. QED
  BY <1>1, <1>2 DEF ControllerNext, controllerVars, watchVars, Reconciling, Timing, Syncing,
     SyncReaper, Resyncing, ResyncReaper, Ticking, WatchTick, Notifying, Notify, ResyncTarget,
     UserActs, Waiting, Crashing, Restart

LEMMA ControllerStep == ReapersOK /\ [ControllerNext]_controllerVars => [Next]_vars
<1> SUFFICES ASSUME ReapersOK, [ControllerNext]_controllerVars PROVE [Next]_vars
  OBVIOUS
<1>1. ASSUME NEW w \in Worker, Reconciling(w) PROVE Next
  BY <1>1 DEF Reconciling, Next
<1>2. ASSUME NEW t \in TimerId, Timing(t) PROVE Next
  BY <1>2 DEF Timing, Next
<1>3. ASSUME NEW r \in Reaper, Syncing(r) PROVE Next
  <2>1. ListerChanges(r)
    BY <1>3 DEF Syncing, SyncReaper, ListerChanges, ReapersOK, reconcilerVars
  <2>2. QED
    BY <2>1 DEF Next, EnvironmentStep
<1>4. ASSUME NEW rs \in SUBSET Reaper, Enqueue(rs) PROVE Next
  BY <1>4 DEF Next, EnvironmentStep
<1>5. ASSUME NEW r \in Reaper, Resyncing(r) PROVE Next
  <2>1. Enqueue({r})
    BY <1>5 DEF Resyncing, ResyncReaper, Enqueue, reconcilerVars
  <2>2. QED
    BY <1>4, <2>1
<1>6. ASSUME NEW o \in Object, Notifying(o) \/ ResyncTarget(o) PROVE Next
  <2>1. Enqueue(Targeting(o))
    BY <1>6 DEF Notifying, Notify, ResyncTarget, Enqueue, reconcilerVars
  <2>2. QED
    BY <1>4, <2>1 DEF Targeting
<1>7. ASSUME NEW o \in Object, UserActs(o) PROVE Next
  BY <1>7 DEF UserActs, reconcilerVars, Next, EnvironmentStep
<1>8. CASE Crashing
  BY <1>8 DEF Crashing, Restart, Next, EnvironmentStep
<1>9. CASE Waiting
  BY <1>9 DEF Waiting, Next, EnvironmentStep
<1>10. CASE UNCHANGED vars
  BY <1>10
<1>11. CASE Ticking \/ \E r \in Reaper : UserSetReaper(r)
  BY <1>10, <1>11 DEF Ticking, WatchTick, UserSetReaper, reconcilerVars, clusterVars, vars
<1>12. QED
  BY <1>1, <1>2, <1>3, <1>5, <1>6, <1>7, <1>8, <1>9, <1>10, <1>11
     DEF ControllerNext, controllerVars

\* Every behaviour of the controller is one of the open reaper (controller.go:48-174).
THEOREM ControllerImplementsReaper == ControllerSpec => Spec
<1>1. ControllerInit => Init /\ ReapersOK
  BY ReapersInit DEF ControllerInit
<1>2. ReapersOK /\ [ControllerNext]_controllerVars => ReapersOK'
  BY ReapersNext
<1>3. ReapersOK /\ [ControllerNext]_controllerVars => [Next]_vars
  BY ControllerStep
<1>4. QED
  BY <1>1, <1>2, <1>3, PTL DEF ControllerSpec, Spec

\* So the controller's timer map does not leak, and what it deletes it deletes
\* on a warrant that has expired, whatever the informers deliver and whenever
\* (ttlreaper.go:145-272 under controller.go:48-174).
THEOREM ControllerSafe == ControllerSpec => [](NoTimerLeak /\ WarrantedReap)
BY ControllerImplementsReaper, MapNeverLeaks, DeletesOnWarrant, PTL

\* And, with names not used again and finished objects not changed, it deletes
\* only what is finished and expired at that moment (README.md:11-13).
THEOREM ControllerReapsOnlyExpired == Frozen /\ ControllerSpec => []ReapsOnlyExpired
BY ControllerImplementsReaper, FrozenReapsOnlyExpired, PTL

-----------------------------------------------------------------------------
\* The two plurals and the two parses agree on these specs (ttlreaper.go:307-319
\* and controller.go:176-195).
AlikeSpecs ==
  \A spec \in ReaperSpec :
    ~Rejected(spec) => spec.version.form = "grouped" /\ spec.kind.ending \in {"plain", "ch"}

LEMMA SameGVR ==
  ASSUME NEW spec, spec.version.form = "grouped", spec.kind.ending \in {"plain", "ch"}
  PROVE  WatchParses(spec) /\ ListGVR(spec) = WatchGVR(spec)
BY DEF WatchParses, ListGVR, WatchGVR, GetResourceName, WatchResourceName

\* When the rules for y, s, x and z do not apply to a kind, and every version is
\* group/version, the ticker watches whatever the reconciler lists
\* (controller.go:80-123).
THEOREM TargetsWatched == AlikeSpecs /\ ControllerSpec => TickWatchesTargets
<1>1. SUFFICES ASSUME AlikeSpecs PROVE ControllerSpec => TickWatchesTargets
  OBVIOUS
<1>2. ASSUME TypeInv, Ticking, NEW r \in Reaper, lister[r] # Absent, ~Rejected(lister[r])
      PROVE  ListGVR(lister[r]) \in watched'
  <2>1. lister[r] \in ReaperSpec
    BY <1>2 DEF TypeInv, TypeOK
  <2>2. WatchParses(lister[r]) /\ ListGVR(lister[r]) = WatchGVR(lister[r])
    BY <1>1, <1>2, <2>1, SameGVR DEF AlikeSpecs
  <2>3. WatchGVR(lister[r]) \in TargetGVRs
    BY <1>2, <2>2 DEF TargetGVRs
  <2>4. QED
    BY <1>2, <2>2, <2>3 DEF Ticking, WatchTick
<1>3. TypeInv => [Ticking => \A r \in Reaper :
                    lister[r] # Absent /\ ~Rejected(lister[r])
                      => ListGVR(lister[r]) \in watched']_controllerVars
  BY <1>2
<1>4. QED
  BY <1>3, ControllerImplementsReaper, Typing, PTL DEF TickWatchesTargets

-----------------------------------------------------------------------------
(***************************************************************************)
(* What the feed needs of the workers: no two of them have one key, and    *)
(* the spec a worker read before it lists the namespaces is the one in the *)
(* cache, unless the key has been queued since.                            *)
(***************************************************************************)
AloneOnKey ==
  \A w \in Worker :
    /\ worker[w].pc = "idle" => worker[w].reaper = Absent
    /\ \A v \in Worker : worker[v].reaper = worker[w].reaper => v = w \/ worker[w].reaper = Absent

ReadsLatest ==
  \A w \in Worker : worker[w].pc = "listns" =>
    /\ ~Rejected(worker[w].spec)
    /\ worker[w].spec = lister[worker[w].reaper] \/ worker[w].reaper \in dirty

FeedInv == TypeInv /\ ReapersOK /\ AloneOnKey /\ ReadsLatest

Early == {"get", "listns"}
Late  == {"loop", "lock", "delete"}

\* What becomes, in one step of worker w, of it and of the queue.
TakesOne(w, u) ==
  /\ worker[w].pc = "idle" /\ u.pc = "get"
  /\ u.reaper \in dirty \ Processing
  /\ dirty' = dirty \ {u.reaper}
FindsNone(w, u) ==
  /\ worker[w].pc = "get" /\ u = IdleWorker
  /\ lister[worker[w].reaper] = Absent /\ UNCHANGED dirty
Errs(w, u) ==
  /\ worker[w].pc \in Early /\ u = IdleWorker
  /\ dirty' = dirty \cup {worker[w].reaper}
ReadsOn(w, u) ==
  /\ worker[w].pc = "get" /\ u.pc = "listns" /\ u.reaper = worker[w].reaper
  /\ u.spec = lister[worker[w].reaper] /\ ~Rejected(u.spec) /\ UNCHANGED dirty
Begins(w, u) ==
  /\ worker[w].pc \in Early /\ u.pc = "loop" /\ u.reaper = worker[w].reaper
  /\ worker[w].pc = "get" => /\ lister[worker[w].reaper] # Absent
                             /\ ~Rejected(lister[worker[w].reaper])
  /\ UNCHANGED dirty
GoesOn(w, u) ==
  /\ worker[w].pc \in Late /\ u.pc \in Late /\ u.reaper = worker[w].reaper /\ UNCHANGED dirty
Ends(w, u) ==
  /\ worker[w].pc = "loop" /\ u = IdleWorker /\ UNCHANGED dirty

Turns(w, u) ==
  \/ TakesOne(w, u) \/ FindsNone(w, u) \/ Errs(w, u) \/ ReadsOn(w, u)
  \/ Begins(w, u) \/ GoesOn(w, u) \/ Ends(w, u)

LEMMA WorkerTurns ==
  ASSUME TypeInv, NEW w \in Worker, WorkerStep(w)
  PROVE  lister' = lister /\ \E u : worker' = [worker EXCEPT ![w] = u] /\ Turns(w, u)
<1>0. worker[w] \in WorkerState /\ worker \in [Worker -> WorkerState]
  BY DEF TypeInv, TypeOK
<1>1. ASSUME NEW r \in Reaper, Dequeue(w, r)
      PROVE  lister' = lister /\ \E u : worker' = [worker EXCEPT ![w] = u] /\ Turns(w, u)
  <2> DEFINE u == [worker[w] EXCEPT !.pc = "get", !.reaper = r]
  <2>1. worker' = [worker EXCEPT ![w] = u] /\ TakesOne(w, u)
    BY <1>0, <1>1 DEF Dequeue, TakesOne, WorkerState
  <2> QED BY <1>1, <2>1 DEF Dequeue, Turns
<1>2. ASSUME GetReaper(w)
      PROVE  lister' = lister /\ \E u : worker' = [worker EXCEPT ![w] = u] /\ Turns(w, u)
  <2> DEFINE spec == lister[worker[w].reaper]
             v == [worker[w] EXCEPT !.pc = "loop", !.spec = spec, !.nss = {spec.ns}]
             x == [worker[w] EXCEPT !.pc = "listns", !.spec = spec]
  <2>1. worker[w].pc = "get" /\ lister' = lister
    BY <1>2 DEF GetReaper
  <2>2. CASE spec = Absent /\ worker' = [worker EXCEPT ![w] = IdleWorker] /\ UNCHANGED dirty
    BY <2>1, <2>2 DEF FindsNone, Turns
  <2>3. CASE ReturnError(w)
    BY <2>1, <2>3 DEF ReturnError, Errs, Early, Turns
  <2>4. CASE /\ spec # Absent /\ ~Rejected(spec) /\ UNCHANGED dirty
             /\ worker' = [worker EXCEPT ![w].pc = "loop", ![w].spec = spec, ![w].nss = {spec.ns}]
    <3>1. worker' = [worker EXCEPT ![w] = v]
      BY <1>0, <2>4
    <3>2. Begins(w, v)
      BY <1>0, <2>1, <2>4 DEF Begins, Early, WorkerState
    <3> QED BY <2>1, <3>1, <3>2 DEF Turns
  <2>5. CASE /\ spec # Absent /\ ~Rejected(spec) /\ UNCHANGED dirty
             /\ worker' = [worker EXCEPT ![w].pc = "listns", ![w].spec = spec]
    <3>1. worker' = [worker EXCEPT ![w] = x]
      BY <1>0, <2>5
    <3>2. ReadsOn(w, x)
      BY <1>0, <2>1, <2>5 DEF ReadsOn, WorkerState
    <3> QED BY <2>1, <3>1, <3>2 DEF Turns
  <2> QED BY <1>2, <2>2, <2>3, <2>4, <2>5 DEF GetReaper
<1>3. ASSUME ListNamespaces(w)
      PROVE  lister' = lister /\ \E u : worker' = [worker EXCEPT ![w] = u] /\ Turns(w, u)
  <2> DEFINE v == [worker[w] EXCEPT !.pc = "loop", !.nss = Namespace]
  <2>1. worker[w].pc = "listns" /\ lister' = lister
    BY <1>3 DEF ListNamespaces
  <2>2. CASE ReturnError(w)
    BY <2>1, <2>2 DEF ReturnError, Errs, Early, Turns
  <2>3. CASE worker' = [worker EXCEPT ![w].pc = "loop", ![w].nss = Namespace] /\ UNCHANGED dirty
    <3>1. worker' = [worker EXCEPT ![w] = v]
      BY <1>0, <2>3
    <3>2. Begins(w, v)
      BY <1>0, <2>1, <2>3 DEF Begins, Early, WorkerState
    <3> QED BY <2>1, <3>1, <3>2 DEF Turns
  <2> QED BY <1>3, <2>2, <2>3 DEF ListNamespaces
<1>4. ASSUME Return(w)
      PROVE  lister' = lister /\ \E u : worker' = [worker EXCEPT ![w] = u] /\ Turns(w, u)
  BY <1>4 DEF Return, Ends, Turns
<1>5. ASSUME \/ \E ns \in worker[w].nss : ListItems(w, ns)
             \/ ComputeDelay(w) \/ Schedule(w) \/ DeleteExpired(w)
      PROVE  lister' = lister /\ \E u : worker' = [worker EXCEPT ![w] = u] /\ Turns(w, u)
  <2>1. worker[w].pc \in Late /\ UNCHANGED <<lister, dirty>>
    BY <1>5 DEF ListItems, ComputeDelay, Schedule, DeleteExpired, Late
  <2>2. /\ worker' = [worker EXCEPT ![w] = worker'[w]]
        /\ worker'[w].pc \in Late /\ worker'[w].reaper = worker[w].reaper
    <3> DEFINE Stays == /\ worker' = [worker EXCEPT ![w] = worker'[w]]
                        /\ worker'[w].pc \in Late /\ worker'[w].reaper = worker[w].reaper
    <3>1. ASSUME NEW ns \in worker[w].nss, ListItems(w, ns) PROVE Stays
      BY <1>0, <3>1 DEF ListItems, Late, WorkerState
    <3>2. ASSUME ComputeDelay(w) PROVE Stays
      BY <1>0, <3>2 DEF ComputeDelay, Late, WorkerState
    <3>3. ASSUME Schedule(w) PROVE Stays
      <4>1. \/ worker' = [worker EXCEPT ![w].pc = "delete", ![w].delay = 0]
            \/ worker' = [worker EXCEPT ![w].pc = "loop", ![w].item = Absent, ![w].delay = 0]
        BY <3>3 DEF Schedule, Expire, Arm
      <4> QED BY <1>0, <4>1 DEF Late, WorkerState
    <3>4. ASSUME DeleteExpired(w) PROVE Stays
      BY <1>0, <3>4 DEF DeleteExpired, Late, WorkerState
    <3> QED BY <1>5, <3>1, <3>2, <3>3, <3>4
  <2> QED BY <2>1, <2>2 DEF GoesOn, Turns
<1> QED BY <1>1, <1>2, <1>3, <1>4, <1>5 DEF WorkerStep

\* The keys of the workers other than w.
Others(w, pcs) == {worker[v].reaper : v \in {x \in Worker \ {w} : worker[x].pc \in pcs}}

LEMMA HeldSplit ==
  ASSUME NEW w \in Worker, NEW pcs
  PROVE  HeldAt(pcs) = Others(w, pcs) \cup (IF worker[w].pc \in pcs THEN {worker[w].reaper} ELSE {})
BY DEF HeldAt, Others

LEMMA HeldSplitNext ==
  ASSUME TypeInv, NEW w \in Worker, NEW u, worker' = [worker EXCEPT ![w] = u], NEW pcs
  PROVE  HeldAt(pcs)' = Others(w, pcs) \cup (IF u.pc \in pcs THEN {u.reaper} ELSE {})
<1>1. worker'[w] = u /\ \A v \in Worker \ {w} : worker'[v] = worker[v]
  BY DEF TypeInv, TypeOK
<1>2. HeldAt(pcs)' = {worker'[v].reaper : v \in {x \in Worker : worker'[x].pc \in pcs}}
  BY DEF HeldAt
<1> QED BY <1>1, <1>2 DEF Others

LEMMA OthersApart ==
  ASSUME AloneOnKey, NEW w \in Worker, worker[w].reaper # Absent, NEW pcs
  PROVE  worker[w].reaper \notin Others(w, pcs)
BY DEF AloneOnKey, Others

\* A worker that reads a key, and the others, who have theirs.
LEMMA WorkerFeeds ==
  ASSUME FeedInv, NEW w \in Worker, WorkerStep(w)
  PROVE  [Feed!FeedNext]_(Feed!feedVars)
<1>1. lister' = lister
  BY WorkerTurns DEF FeedInv
<1>2. PICK u : worker' = [worker EXCEPT ![w] = u] /\ Turns(w, u)
  BY WorkerTurns DEF FeedInv
<1> DEFINE R == Others(w, Early)
           A == Others(w, Late)
           k == worker[w].reaper
<1>3. /\ HeldAt(Early) = R \cup (IF worker[w].pc \in Early THEN {k} ELSE {})
      /\ HeldAt(Late) = A \cup (IF worker[w].pc \in Late THEN {k} ELSE {})
  BY HeldSplit
<1>4. /\ HeldAt(Early)' = R \cup (IF u.pc \in Early THEN {u.reaper} ELSE {})
      /\ HeldAt(Late)' = A \cup (IF u.pc \in Late THEN {u.reaper} ELSE {})
  BY <1>2, HeldSplitNext DEF FeedInv
<1>5. worker[w].pc # "idle" => k \in Reaper /\ k \notin R /\ k \notin A
  BY OthersApart, ReaperAssumption DEF FeedInv, TypeInv, ControlOK
<1> HIDE DEF R, A, k
<1>6. CASE TakesOne(w, u)
  <2>1. u.reaper \in Reaper /\ u.reaper # Absent
    BY <1>6, ReaperAssumption DEF TakesOne, FeedInv, TypeInv, TypeOK
  <2>2. u.reaper \notin HeldAt(Early) \cup HeldAt(Late)
    BY <1>6, <2>1 DEF TakesOne, HeldAt, Processing
  <2>3. HeldAt(Early)' = HeldAt(Early) \cup {u.reaper} /\ HeldAt(Late)' = HeldAt(Late)
    BY <1>3, <1>4, <1>6 DEF TakesOne, Early, Late
  <2>4. Feed!TakeKey(u.reaper)
    BY <1>1, <1>6, <2>2, <2>3 DEF TakesOne, Feed!TakeKey, Early, Late
  <2> QED BY <2>1, <2>4 DEF Feed!FeedNext
<1>7. CASE FindsNone(w, u)
  <2>1. HeldAt(Early)' = HeldAt(Early) \ {k} /\ HeldAt(Late)' = HeldAt(Late) /\ k \in HeldAt(Early)
    BY <1>3, <1>4, <1>5, <1>7 DEF FindsNone, IdleWorker, Early, Late
  <2>2. k \in Reaper /\ Feed!FindNone(k)
    BY <1>1, <1>5, <1>7, <2>1 DEF FindsNone, Feed!FindNone, Early, Late, k
  <2> QED BY <2>2 DEF Feed!FeedNext
<1>8. CASE Errs(w, u)
  <2>1. HeldAt(Early)' = HeldAt(Early) \ {k} /\ HeldAt(Late)' = HeldAt(Late) /\ k \in HeldAt(Early)
    BY <1>3, <1>4, <1>5, <1>8 DEF Errs, IdleWorker, Early, Late
  <2>2. k \in Reaper /\ Feed!Fail(k)
    BY <1>1, <1>5, <1>8, <2>1 DEF Errs, Feed!Fail, Early, Late, k
  <2> QED BY <2>2 DEF Feed!FeedNext
<1>9. CASE Begins(w, u)
  <2>1. /\ HeldAt(Early)' = HeldAt(Early) \ {k} /\ HeldAt(Late)' = HeldAt(Late) \cup {k}
        /\ k \in HeldAt(Early)
    BY <1>3, <1>4, <1>5, <1>9 DEF Begins, Early, Late, k
  <2>2. k \in Reaper /\ (lister[k] \in {spec \in ReaperSpec : ~Rejected(spec)} \/ k \in dirty)
    <3>1. k \in Reaper
      BY <1>5, <1>9 DEF Begins, Early
    <3>2. lister[k] \in ReaperSpec \cup {Absent}
      BY <3>1 DEF FeedInv, TypeInv, TypeOK
    <3>3. CASE worker[w].pc = "get"
      <4>1. lister[k] # Absent /\ ~Rejected(lister[k])
        BY <1>9, <3>3 DEF Begins, k
      <4> QED BY <3>1, <3>2, <4>1
    <3>4. CASE worker[w].pc = "listns"
      BY <3>4 DEF FeedInv, ReadsLatest, TypeInv, ControlOK, k
    <3> QED BY <1>9, <3>1, <3>3, <3>4 DEF Begins, Early
  <2>3. Feed!Accept(k)
    BY <1>1, <1>9, <2>1, <2>2 DEF Begins, Feed!Accept, Early, Late
  <2> QED BY <2>2, <2>3 DEF Feed!FeedNext
<1>10. CASE Ends(w, u)
  <2>1. HeldAt(Early)' = HeldAt(Early) /\ HeldAt(Late)' = HeldAt(Late) \ {k} /\ k \in HeldAt(Late)
    BY <1>3, <1>4, <1>5, <1>10 DEF Ends, IdleWorker, Early, Late
  <2>2. k \in Reaper /\ Feed!Finish(k)
    BY <1>1, <1>5, <1>10, <2>1 DEF Ends, Feed!Finish, Early, Late
  <2> QED BY <2>2 DEF Feed!FeedNext
<1>11. CASE ReadsOn(w, u) \/ GoesOn(w, u)
  <2>1. HeldAt(Early)' = HeldAt(Early) /\ HeldAt(Late)' = HeldAt(Late) /\ dirty' = dirty
    BY <1>3, <1>4, <1>11 DEF ReadsOn, GoesOn, Early, Late, k
  <2> QED BY <1>1, <2>1 DEF Feed!feedVars, Early, Late
<1> QED BY <1>2, <1>6, <1>7, <1>8, <1>9, <1>10, <1>11 DEF Turns

\* Idle workers hold nothing, and a worker takes only a key that no other has.
LEMMA AloneWorker ==
  ASSUME FeedInv, NEW w \in Worker, WorkerStep(w)
  PROVE  AloneOnKey'
<1>1. PICK u : worker' = [worker EXCEPT ![w] = u] /\ Turns(w, u)
  BY WorkerTurns DEF FeedInv
<1>2. worker'[w] = u /\ \A v \in Worker : v # w => worker'[v] = worker[v]
  BY <1>1 DEF FeedInv, TypeInv, TypeOK
<1>3. \/ u = IdleWorker
      \/ u.pc # "idle" /\ u.reaper = worker[w].reaper
      \/ u.pc # "idle" /\ u.reaper \notin Processing
  BY <1>1 DEF Turns, TakesOne, FindsNone, Errs, ReadsOn, Begins, GoesOn, Ends, Late
<1>4. CASE u = IdleWorker
  BY <1>2, <1>4 DEF IdleWorker, FeedInv, AloneOnKey
<1>5. CASE u.pc # "idle" /\ u.reaper = worker[w].reaper
  BY <1>2, <1>5 DEF FeedInv, AloneOnKey
<1>6. CASE u.pc # "idle" /\ u.reaper \notin Processing
  <2>1. \A v \in Worker : worker[v].reaper = u.reaper => u.reaper = Absent
    BY <1>6 DEF Processing
  <2> QED BY <1>2, <1>6, <2>1 DEF FeedInv, AloneOnKey
<1> QED BY <1>3, <1>4, <1>5, <1>6

\* What a worker has read is what is cached: no other has its key, so none takes
\* it from the queue.
LEMMA LatestWorker ==
  ASSUME FeedInv, NEW w \in Worker, WorkerStep(w)
  PROVE  ReadsLatest'
<1>1. PICK u : worker' = [worker EXCEPT ![w] = u] /\ Turns(w, u)
  BY WorkerTurns DEF FeedInv
<1>2. worker'[w] = u /\ lister' = lister /\ \A v \in Worker : v # w => worker'[v] = worker[v]
  BY <1>1, WorkerTurns DEF FeedInv, TypeInv, TypeOK
<1>3. ASSUME NEW v \in Worker, worker'[v].pc = "listns"
      PROVE  /\ ~Rejected(worker'[v].spec)
             /\ worker'[v].spec = lister'[worker'[v].reaper] \/ worker'[v].reaper \in dirty'
  <2>1. CASE v = w
    <3>1. ReadsOn(w, u)
      BY <1>1, <1>2, <1>3, <2>1
         DEF Turns, TakesOne, FindsNone, Errs, Begins, GoesOn, Ends, IdleWorker, Late
    <3> QED BY <1>2, <2>1, <3>1 DEF ReadsOn
  <2>2. CASE v # w
    <3>1. worker'[v] = worker[v] /\ worker[v].pc = "listns"
      BY <1>2, <1>3, <2>2
    <3>2. worker[v].reaper \in dirty => worker[v].reaper \in dirty'
      <4>1. worker[v].reaper \in Processing
        BY <3>1, ReaperAssumption DEF Processing, FeedInv, TypeInv, ControlOK
      <4> QED BY <1>1, <4>1 DEF Turns, TakesOne, FindsNone, Errs, ReadsOn, Begins, GoesOn, Ends
    <3> QED BY <1>2, <3>1, <3>2 DEF FeedInv, ReadsLatest
  <2> QED BY <2>1, <2>2
<1> QED BY <1>3 DEF ReadsLatest

LEMMA FeedInvInit == ControllerInit => FeedInv
<1> SUFFICES ASSUME ControllerInit PROVE FeedInv
  OBVIOUS
<1>1. TypeInv /\ ReapersOK
  BY TypeInit, ReapersInit DEF ControllerInit
<1> QED BY <1>1 DEF ControllerInit, Init, ReaperInit, IdleWorker, FeedInv, AloneOnKey, ReadsLatest

\* Nothing else moves a worker, or takes a key from the queue, but a crash.
LEMMA FeedInvNext == FeedInv /\ [ControllerNext]_controllerVars => FeedInv'
<1> SUFFICES ASSUME FeedInv, [ControllerNext]_controllerVars PROVE FeedInv'
  OBVIOUS
<1>1. TypeInv' /\ ReapersOK'
  BY ControllerStep, TypeNext, ReapersNext DEF FeedInv
<1>2. CASE UNCHANGED worker /\ (\A r \in Reaper : lister'[r] = lister[r] \/ r \in dirty')
           /\ dirty \subseteq dirty'
  <2>1. AloneOnKey'
    BY <1>2 DEF FeedInv, AloneOnKey
  <2>2. ReadsLatest'
    BY <1>2 DEF FeedInv, ReadsLatest, TypeInv, ControlOK
  <2> QED BY <1>1, <2>1, <2>2 DEF FeedInv
<1>3. ASSUME NEW w \in Worker, Reconciling(w) PROVE FeedInv'
  BY <1>1, <1>3, AloneWorker, LatestWorker DEF Reconciling, FeedInv
<1>4. CASE Crashing
  BY <1>1, <1>4 DEF Crashing, Restart, Crash, IdleWorker, FeedInv, AloneOnKey, ReadsLatest
<1>5. ASSUME NEW r \in Reaper, Syncing(r) \/ Resyncing(r) \/ UserSetReaper(r) PROVE FeedInv'
  <2>1. \A q \in Reaper : lister'[q] = lister[q] \/ q \in dirty'
    BY <1>5 DEF Syncing, SyncReaper, Resyncing, ResyncReaper, UserSetReaper, FeedInv, TypeInv, TypeOK
  <2> QED BY <1>2, <1>5, <2>1 DEF Syncing, SyncReaper, Resyncing, ResyncReaper, UserSetReaper,
            reconcilerVars
<1>6. ASSUME NEW t \in TimerId, Timing(t) PROVE FeedInv'
  BY <1>2, <1>6 DEF Timing, TimerStep, Fire, CallbackDelete, CallbackCleanup
<1>7. ASSUME NEW o \in Object, Notifying(o) \/ ResyncTarget(o) \/ UserActs(o) PROVE FeedInv'
  BY <1>2, <1>7 DEF Notifying, Notify, ResyncTarget, UserActs, reconcilerVars
<1>8. CASE Ticking \/ Waiting \/ UNCHANGED controllerVars
  BY <1>2, <1>8 DEF Ticking, WatchTick, Waiting, TimePasses, controllerVars, vars, reconcilerVars
<1> QED BY <1>3, <1>4, <1>5, <1>6, <1>7, <1>8 DEF ControllerNext

-----------------------------------------------------------------------------
LEMMA ControllerFeeds ==
  FeedInv /\ [ControllerNext]_controllerVars => [Feed!FeedNext]_(Feed!feedVars)
<1> SUFFICES ASSUME FeedInv, [ControllerNext]_controllerVars
             PROVE  [Feed!FeedNext]_(Feed!feedVars)
  OBVIOUS
<1> DEFINE Same == HeldAt({"get", "listns"})' = HeldAt({"get", "listns"})
                   /\ HeldAt({"loop", "lock", "delete"})' = HeldAt({"loop", "lock", "delete"})
<1>0. UNCHANGED worker => Same
  BY DEF HeldAt
<1>1. CASE UNCHANGED <<lister, dirty, worker>>
  BY <1>0, <1>1 DEF Feed!feedVars
<1>2. ASSUME NEW w \in Worker, Reconciling(w) PROVE [Feed!FeedNext]_(Feed!feedVars)
  BY <1>2, WorkerFeeds DEF Reconciling
<1>3. ASSUME NEW t \in TimerId, Timing(t) PROVE UNCHANGED <<lister, dirty, worker>>
  BY <1>3 DEF Timing, TimerStep, Fire, CallbackDelete, CallbackCleanup
<1>4. ASSUME NEW r \in Reaper, Syncing(r) PROVE Feed!FeedNext
  <2>1. Same
    BY <1>0, <1>4 DEF Syncing, SyncReaper, reconcilerVars
  <2> QED BY <1>4, <2>1 DEF Syncing, SyncReaper, FeedInv, ReapersOK, Feed!FeedNext, Feed!ChangeEntry
<1>5. ASSUME NEW rs \in SUBSET Reaper, dirty' = dirty \cup rs, UNCHANGED <<lister, worker>>
      PROVE  Feed!FeedNext
  <2>1. dirty' \in SUBSET Reaper /\ dirty \subseteq dirty'
    BY <1>5 DEF FeedInv, TypeInv, TypeOK
  <2> QED BY <1>0, <1>5, <2>1 DEF Feed!FeedNext, Feed!QueueKeys
<1>6. ASSUME NEW r \in Reaper, Resyncing(r) PROVE Feed!FeedNext
  BY <1>5, <1>6 DEF Resyncing, ResyncReaper, reconcilerVars
<1>7. ASSUME NEW o \in Object, Notifying(o) \/ ResyncTarget(o) PROVE Feed!FeedNext
  BY <1>5, <1>7 DEF Notifying, Notify, ResyncTarget, Targeting, reconcilerVars
<1>8. CASE Crashing
  <2>1. HeldAt({"get", "listns"})' = {} /\ HeldAt({"loop", "lock", "delete"})' = {}
    BY <1>8 DEF Crashing, Restart, Crash, HeldAt, IdleWorker
  <2> QED BY <1>8, <2>1 DEF Crashing, Restart, Kept, FeedInv, ReapersOK, Feed!FeedNext, Feed!FillCache
<1>9. ASSUME NEW o \in Object, UserActs(o) PROVE UNCHANGED <<lister, dirty, worker>>
  BY <1>9 DEF UserActs, reconcilerVars
<1>10. ASSUME NEW r \in Reaper, UserSetReaper(r) PROVE UNCHANGED <<lister, dirty, worker>>
  BY <1>10 DEF UserSetReaper, reconcilerVars
<1>11. CASE Ticking \/ Waiting \/ UNCHANGED controllerVars
  BY <1>1, <1>11 DEF Ticking, WatchTick, Waiting, TimePasses, controllerVars, vars, reconcilerVars
<1> QED BY <1>1, <1>2, <1>3, <1>4, <1>6, <1>7, <1>8, <1>9, <1>10, <1>11 DEF ControllerNext

\* The controller keeps to module ReaperFeed, which module Startup implements in
\* detail: no cached TTLReaper changes without its key being queued, and no key
\* is lost between a worker that took it and a reconcile that acted on it
\* (controller.go:48-78; ttlreaper.go:65-119).
THEOREM ControllerKeepsFeed == ControllerSpec => KeepsFeed
<1>1. ControllerInit => Feed!FeedInit
  BY DEF ControllerInit, Init, ReaperInit, IdleWorker, HeldAt, Feed!FeedInit
<1>2. FeedInv /\ [ControllerNext]_controllerVars => [Feed!FeedNext]_(Feed!feedVars)
  BY ControllerFeeds
<1> QED BY <1>1, <1>2, FeedInvInit, FeedInvNext, PTL DEF ControllerSpec, KeepsFeed, Feed!FeedSpec
=============================================================================
