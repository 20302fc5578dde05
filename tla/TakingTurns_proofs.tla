------------------------- MODULE TakingTurns_proofs -------------------------
(***************************************************************************)
(* What holds besides where workers take turns: where there is one         *)
(* TTLReaper, whose key goes to one worker at a time, or one worker.  No   *)
(* object is remembered only by a copy it has outgrown; and none has two   *)
(* timers waiting, where names are not reused and what has finished is     *)
(* left alone.                                                             *)
(***************************************************************************)
EXTENDS NothingForgotten_proofs

TakingTurns == (\A q, r \in Reaper : q = r) \/ (\A v, w \in Worker : v = w)

\* A key is handed to one worker at a time, so one worker at most is at work.
OneAtWork ==
  \A v, w \in Worker : worker[v].pc # "idle" /\ worker[w].pc # "idle" => v = w

\* A worker holds a copy of o that is not what is stored now.
Outdated(w, o) == \E item \in HeldBy(worker[w]) : item.obj = o /\ item # Copy(o)

\* NothingStale is not inductive: a fresh timer may give way to what a worker
\* holds, so no worker may hold less than what is stored, unless it will list
\* the object again.
Current ==
  \A o \in Object \ missed, r \in Reaper :
    Needs(r, o) =>
      \/ o \in events \/ ToList(r, o)
      \/ Copy(o) \in Held /\ \A w \in Worker : ~Outdated(w, o)

CurrentInv == TypeInv /\ NoTimerLeak /\ ItemsOK /\ ReapersOK /\ OneAtWork /\ Current

LEMMA CurrentSuffices == Current => NothingStale
<1> SUFFICES ASSUME Current, NEW o \in Object \ missed, Wanted(o)
             PROVE  Noticed(o) \/ Copy(o) \in Held
  BY DEF NothingStale
<1>1. PICK r \in Reaper : Covers(reapers[r], o)
  BY DEF Wanted
<1>2. CASE lister[r] # reapers[r]
  BY <1>1, <1>2 DEF Noticed, Queued
<1>3. CASE lister[r] = reapers[r]
  <2>1. o \in events \/ ToList(r, o) \/ Copy(o) \in Held
    BY <1>1, <1>3 DEF Current, Needs, Wanted
  <2>2. ToList(r, o) => Queued(r, o)
    BY DEF ToList, Unwatched, ListsFor, Queued
  <2> QED BY <1>1, <2>1, <2>2 DEF Noticed
<1> QED BY <1>2, <1>3

LEMMA CurrentInit ==
  ASSUME api = [o \in Object |-> Unborn] PROVE Current
BY DEF Current, Needs, Present

-----------------------------------------------------------------------------
\* A worker's step is no other's.
LEMMA OthersRest ==
  ASSUME TypeInv, NEW w \in Worker, WorkerStep(w)
  PROVE  \A v \in Worker \ {w} : worker'[v] = worker[v]
BY DEF TypeInv, TypeOK, WorkerStep, Dequeue, GetReaper, ReturnError, ListNamespaces, ListItems,
   Return, ComputeDelay, Schedule, Expire, Arm, DeleteExpired

LEMMA TurnsWorker ==
  ASSUME TypeInv, TakingTurns, OneAtWork, NEW w \in Worker, WorkerStep(w)
  PROVE  OneAtWork'
<1>1. CASE worker[w].pc # "idle"
  BY <1>1, OthersRest DEF OneAtWork
<1>2. CASE worker[w].pc = "idle"
  <2>1. PICK r \in Reaper : Dequeue(w, r)
    BY <1>2 DEF WorkerStep, GetReaper, ListNamespaces, ListItems, Return, ComputeDelay, Schedule,
       DeleteExpired
  <2>2. ASSUME NEW v \in Worker, worker[v].pc # "idle" PROVE v = w
    <3>1. worker[v].reaper \in Reaper
      BY <2>2 DEF TypeInv, ControlOK
    <3>2. worker[v].reaper # r
      BY <2>1, <3>1, ReaperAssumption DEF Dequeue, Processing
    <3> QED BY <3>1, <3>2 DEF TakingTurns
  <2> QED BY <2>2, OthersRest DEF OneAtWork
<1> QED BY <1>1, <1>2

LEMMA TurnsNext == TypeInv /\ TakingTurns /\ OneAtWork /\ [Next]_vars => OneAtWork'
<1>1. ASSUME OneAtWork, UNCHANGED worker \/ Crash PROVE OneAtWork'
  BY <1>1 DEF OneAtWork, Crash, IdleWorker
<1>2. [Next]_vars => UNCHANGED worker \/ Crash \/ \E w \in Worker : WorkerStep(w)
  BY DEF Next, vars, TimerStep, Fire, CallbackDelete, CallbackCleanup, EnvironmentStep, TimePasses,
     ListerChanges, Enqueue
<1> QED BY <1>1, <1>2, TurnsWorker

-----------------------------------------------------------------------------
\* A worker takes no copy but of what is stored.
LEMMA TakesFresh ==
  ASSUME TypeInv, ItemsOK, NEW w \in Worker, WorkerStep(w), NEW item \in HeldBy(worker'[w])
  PROVE  item \in HeldBy(worker[w]) \/ item = Copy(item.obj)
<1> worker \in [Worker -> WorkerState] /\ worker[w] \in WorkerState
  BY DEF TypeInv, TypeOK
<1>1. ASSUME NEW r \in Reaper, Dequeue(w, r) PROVE FALSE
  BY <1>1 DEF Dequeue, ItemsOK, HeldBy, WorkerState
<1>2. ~GetReaper(w) /\ ~ListNamespaces(w)
  BY DEF GetReaper, ListNamespaces, ReturnError, IdleWorker, ItemsOK, HeldBy, WorkerState
<1>3. ASSUME NEW ns, ListItems(w, ns) PROVE item = Copy(item.obj) \/ item \in HeldBy(worker[w])
  <2>1. worker'[w].pc = "loop" /\ item \in worker'[w].items
    BY <1>3 DEF ListItems, HeldBy, WorkerState
  <2>2. \/ worker'[w].items = {}
        \/ worker'[w].items = {Copy(o) : o \in {p \in Listed(worker[w].spec, ns) :
                                                  IsReapable(api[p])}}
    BY <1>3 DEF ListItems, WorkerState
  <2> QED BY <2>1, <2>2 DEF Copy
<1>4. ~Return(w)
  BY DEF Return, IdleWorker, HeldBy
<1>5. CASE ComputeDelay(w)
  BY <1>5 DEF ComputeDelay, HeldBy, WorkerState
<1>6. CASE Schedule(w)
  BY <1>6 DEF Schedule, Expire, Arm, HeldBy, WorkerState
<1>7. CASE DeleteExpired(w)
  BY <1>7 DEF DeleteExpired, HeldBy, WorkerState
<1> QED BY <1>1, <1>2, <1>3, <1>4, <1>5, <1>6, <1>7 DEF WorkerStep

\* Nothing is outdated by a worker's step, unless it was.
LEMMA StaysFresh ==
  ASSUME TypeInv, ItemsOK, NEW w \in Worker, WorkerStep(w), NEW o \in Object, api'[o] = api[o],
         \A v \in Worker : ~Outdated(v, o)
  PROVE  \A v \in Worker : ~Outdated(v, o)'
<1> SUFFICES ASSUME NEW v \in Worker, NEW item \in HeldBy(worker'[v]), item.obj = o
             PROVE  item = Copy(o)'
  BY DEF Outdated
<1>1. Copy(o)' = Copy(o)
  BY DEF Copy
<1>2. CASE v = w
  BY <1>1, <1>2, TakesFresh DEF Outdated
<1>3. CASE v # w
  BY <1>1, <1>3, OthersRest DEF Outdated
<1> QED BY <1>2, <1>3

\* Who has listed o just now is the only one to hold anything.
FreshAsListed ==
  \A w \in Worker, o \in Object :
    JustListed(w) /\ Copy(o) \in worker[w].items =>
      Copy(o) \in Held /\ \A v \in Worker : ~Outdated(v, o)

LEMMA FreshFromList == OneAtWork /\ ItemsOK => FreshAsListed
<1> SUFFICES ASSUME OneAtWork, ItemsOK, NEW w \in Worker, NEW o \in Object, JustListed(w),
                    Copy(o) \in worker[w].items
             PROVE  Copy(o) \in Held /\ \A v \in Worker : ~Outdated(v, o)
  BY DEF FreshAsListed
<1>1. Copy(o) \in Held
  BY DEF Held, HeldBy
<1>2. ~Outdated(w, o)
  BY DEF Outdated, HeldBy, JustListed
<1>3. ASSUME NEW v \in Worker, v # w PROVE HeldBy(worker[v]) = {}
  BY <1>3 DEF OneAtWork, JustListed, ItemsOK, HeldBy
<1> QED BY <1>1, <1>2, <1>3 DEF Outdated

LEMMA FreshFromListNext == OneAtWork' /\ ItemsOK' => FreshAsListed'
BY FreshFromList, PTL

\* A copy that none outdates stays held.
LEMMA FreshStaysHeld ==
  ASSUME TypeInv, NoTimerLeak, ItemsOK, KeysApart, NEW w \in Worker, WorkerStep(w),
         NEW o \in Object, Present(o), api'[o] = api[o], o \notin missed', ~Outdated(w, o)
  PROVE  \A item \in Held : item = Copy(o) => item \in Held'
<1> SUFFICES ASSUME NEW item, item = Copy(o),
                    \/ \E v \in Worker : item \in HeldBy(worker[v])
                    \/ \E t \in TimerId : item \in HeldIn(timer[t])
             PROVE  item \in Held'
  BY DEF Held
<1>0. item.obj = o
  BY DEF Copy
<1>1. ASSUME NEW v \in Worker, item \in HeldBy(worker[v]) PROVE item \in Held'
  <2>1. CASE v = w
    BY <1>0, <1>1, <2>1, HolderGoesOn
  <2>2. CASE v # w
    BY <1>1, <2>2, OthersRest DEF Held
  <2> QED BY <2>1, <2>2
<1>2. ASSUME NEW t \in TimerId, item \in HeldIn(timer[t]) PROVE item \in Held'
  <2>1. CASE Schedule(w)
    <3>1. item \in Held' \/ (worker[w].item.obj = item.obj /\ worker[w].item \in Held')
      BY <1>2, <2>1, StoppedForSame
    <3>2. worker[w].item \in HeldBy(worker[w])
      BY <2>1 DEF Schedule, HeldBy
    <3> QED BY <1>0, <3>1, <3>2 DEF Outdated
  <2>2. CASE ~Schedule(w)
    <3>1. timer' = timer
      BY <2>2 DEF WorkerStep, Dequeue, GetReaper, ListNamespaces, ListItems, Return,
         ComputeDelay, DeleteExpired
    <3> QED BY <1>2, <3>1 DEF Held
  <2> QED BY <2>1, <2>2
<1> QED BY <1>1, <1>2

-----------------------------------------------------------------------------
\* The invariant is kept, by the kinds of steps there are.
LEMMA CurrentWorker ==
  ASSUME CurrentInv, Orderly, OneAtWork', ItemsOK', NEW w \in Worker, WorkerStep(w),
         UNCHANGED watchVars
  PROVE  Current'
<1> USE DEF CurrentInv
<1>1. lister' = lister
  BY DEF WorkerStep, Dequeue, GetReaper, ListNamespaces, ListItems, Return, ComputeDelay, Schedule,
     DeleteExpired
<1> SUFFICES ASSUME NEW o \in Object, NEW r \in Reaper, o \notin missed', Needs(r, o)'
             PROVE  (\/ o \in events \/ ToList(r, o)
                     \/ Copy(o) \in Held /\ \A v \in Worker : ~Outdated(v, o))'
  BY DEF Current
<1>2. api'[o] = api[o] /\ Needs(r, o) /\ Present(o) /\ o \notin missed
  BY <1>1, WorkerCluster, NeededBefore DEF Needs, DeletesOnly
<1>3. CASE o \in events
  BY <1>3 DEF watchVars
<1>4. CASE r \in dirty /\ r \notin dirty'
  <2>1. Dequeue(w, r)
    BY <1>4 DEF WorkerStep, Dequeue, GetReaper, ReturnError, ListNamespaces, ListItems,
       Return, ComputeDelay, Schedule, DeleteExpired
  <2>2. worker'[w].pc = "get" /\ worker'[w].reaper = r
    BY <2>1 DEF Dequeue, TypeInv, TypeOK, WorkerState
  <2> QED BY <2>2 DEF ToList, ListsFor
<1>5. CASE r \in dirty'
  BY <1>5 DEF ToList
<1>6. CASE Unwatched(r)
  BY <1>1, <1>6 DEF Unwatched, ToList, watchVars
<1>7. CASE ListsFor(w, r, o)
  <2>1. \/ r \in dirty' \/ ListsFor(w, r, o)'
        \/ JustListed(w)' /\ Copy(o) \in worker'[w].items
    BY <1>2, <1>7, ListerGoesOn
  <2>2. Copy(o)' = Copy(o)
    BY <1>2 DEF Copy
  <2> QED BY <2>1, <2>2, FreshFromListNext DEF ToList, FreshAsListed
<1>8. ASSUME NEW v \in Worker, v # w, ListsFor(v, r, o) PROVE ToList(r, o)'
  BY <1>1, <1>8, OthersRest DEF ListsFor, ToList
<1>9. CASE Copy(o) \in Held /\ \A v \in Worker : ~Outdated(v, o)
  <2>1. Copy(o)' = Copy(o) /\ Copy(o).obj = o
    BY <1>2 DEF Copy
  <2>3. Copy(o) \in Held'
    BY <1>2, <1>9, <2>1, FreshStaysHeld DEF Orderly
  <2>2. \A v \in Worker : ~Outdated(v, o)'
    BY <1>2, <1>9, StaysFresh
  <2> QED BY <2>1, <2>2, <2>3
<1>10. \/ o \in events \/ ToList(r, o)
       \/ Copy(o) \in Held /\ \A v \in Worker : ~Outdated(v, o)
  BY <1>2 DEF Current
<1> QED BY <1>3, <1>4, <1>5, <1>6, <1>7, <1>8, <1>9, <1>10 DEF ToList

\* A deletion leaves what is stored of the other objects as it is.
LEMMA CurrentDeletes ==
  ASSUME CurrentInv, DeletesAlone
  PROVE  Current'
<1> USE DEF CurrentInv, DeletesAlone
<1> SUFFICES ASSUME NEW o \in Object, NEW r \in Reaper, o \notin missed', Needs(r, o)'
             PROVE  (\/ o \in events \/ ToList(r, o)
                     \/ Copy(o) \in Held /\ \A w \in Worker : ~Outdated(w, o))'
  BY DEF Current
<1>1. Needs(r, o) /\ Present(o)' /\ api'[o] = api[o] /\ Copy(o)' = Copy(o) /\ Copy(o).obj = o
  BY NeededBefore DEF Needs, DeletesOnly, Copy
<1>2. \/ o \in events \/ ToList(r, o)
      \/ Copy(o) \in Held /\ \A w \in Worker : ~Outdated(w, o)
  BY <1>1 DEF Current, DeletesOnly
<1>3. ToList(r, o) => ToList(r, o)'
  BY DEF ToList, Unwatched, ListsFor
<1>4. Copy(o) \in Held => Copy(o) \in Held'
  <2>1. ASSUME NEW t \in TimerId, Copy(o) \in HeldIn(timer[t])
        PROVE  Copy(o) \in HeldIn(timer'[t])
    BY <1>1, <2>1 DEF TimersKeep, Present
  <2> QED BY <2>1 DEF Held
<1>5. \A w \in Worker : Outdated(w, o)' => Outdated(w, o)
  BY <1>1 DEF Outdated
<1> QED BY <1>1, <1>2, <1>3, <1>4, <1>5

LEMMA CurrentElsewhere ==
  ASSUME Current, Elsewhere
  PROVE  Current'
<1> USE DEF Elsewhere
<1> SUFFICES ASSUME NEW o \in Object, NEW r \in Reaper, o \notin missed', Needs(r, o)',
                    r \notin dirty', ~Unwatched(r)', o \notin events'
             PROVE  (\/ ToList(r, o)
                     \/ Copy(o) \in Held /\ \A w \in Worker : ~Outdated(w, o))'
  BY DEF Current, ToList
<1>1. /\ Needs(r, o) /\ lister'[r] = lister[r] /\ api'[o] = api[o]
      /\ r \notin dirty /\ o \notin events /\ ~Unwatched(r)
  BY DEF Followed
<1>2. \/ \E w \in Worker : ListsFor(w, r, o)
      \/ Copy(o) \in Held /\ \A w \in Worker : ~Outdated(w, o)
  BY <1>1 DEF Current, ToList
<1>3. ASSUME NEW w \in Worker, ListsFor(w, r, o) PROVE ToList(r, o)'
  BY <1>1, <1>3 DEF ListsFor, ToList
<1>4. Copy(o)' = Copy(o) /\ Held' = Held
  BY <1>1 DEF Copy, Held
<1>5. \A w \in Worker : Outdated(w, o)' => Outdated(w, o)
  BY <1>4 DEF Outdated
<1> QED BY <1>2, <1>3, <1>4, <1>5

LEMMA CurrentRestart ==
  ASSUME Restart
  PROVE  Current'
BY DEF Restart, Kept, Current, Needs, Covers, ToList

LEMMA CurrentNext ==
  ASSUME CurrentInv, Orderly, OneAtWork', ItemsOK', Proceeds \/ Restart
  PROVE  Current'
BY CurrentWorker, CurrentDeletes, CurrentElsewhere, CurrentRestart DEF Proceeds, CurrentInv

-----------------------------------------------------------------------------
\* No finished object with a TTL that a TTLReaper covers is remembered only by a
\* copy it has outgrown: an edit is noticed, and the timer of the old copy gives
\* way to one for the new (ttlreaper.go:217-221), through edits, TTLReapers that
\* come and go, and crashes, where there is one TTLReaper or one worker.
THEOREM NeverStale == Orderly /\ TakingTurns /\ ControllerSpec => []NothingStale
<1>1. SUFFICES ASSUME Orderly, TakingTurns PROVE ControllerSpec => []NothingStale
  OBVIOUS
<1>2. ControllerInit => CurrentInv
  <2> SUFFICES ASSUME ControllerInit PROVE CurrentInv
    OBVIOUS
  <2>1. TypeInv /\ NoTimerLeak /\ ReapersOK
    BY TypeInit, LeakInit, ReapersInit DEF ControllerInit
  <2>2. ItemsOK /\ OneAtWork
    BY DEF ControllerInit, Init, ReaperInit, ItemsOK, OneAtWork, IdleWorker
  <2>3. Current
    BY CurrentInit DEF ControllerInit, Init, ClusterInit
  <2> QED BY <2>1, <2>2, <2>3 DEF CurrentInv
<1>3. CurrentInv /\ [ControllerNext]_controllerVars => CurrentInv'
  BY <1>1, ControllerStep, TypeNext, LeakNext, ItemsNext, ReapersNext, EachStep, TurnsNext,
     CurrentNext DEF CurrentInv
<1>4. CurrentInv => NothingStale
  BY CurrentSuffices DEF CurrentInv
<1> QED BY <1>2, <1>3, <1>4, PTL DEF ControllerSpec

-----------------------------------------------------------------------------
(***************************************************************************)
(* SingleTimer.  A callback may clear away the entry of a timer that was   *)
(* armed while it ran (the run orphan), and that timer cannot be stopped   *)
(* any more.  Then a second timer must not be armed for the object; and    *)
(* none is, since by then the object has expired, and no worker, having    *)
(* computed its delay before, waits for the lock.                          *)
(***************************************************************************)

\* The copies held, those of callbacks past their Delete included.
InHands == Held \cup {timer[t].item : t \in {u \in TimerId : timer[u].state = "clean"}}

HandsFresh ==
  \A item \in InHands : IsReapable(item.rec) /\ item.rec \notin {Unborn, Gone}
                        /\ api[item.obj] \in {item.rec, Gone}

HandsAgree == \A x, y \in InHands : x.obj = y.obj => x.rec = y.rec

LEMMA HandsItems == TypeInv => InHands \subseteq Item
BY HeldItems DEF InHands, TypeInv, TypeOK, Timer, FreeTimer

\* What a step brings into someone's hands is a copy of what is stored.
LEMMA HandsLook ==
  ASSUME TypeInv, WaitInv, [Next]_vars
  PROVE  InHands' \subseteq InHands \cup Policy!Grantable
<1> timer \in [TimerId -> Timer \cup {FreeTimer}]
  BY DEF TypeInv, TypeOK
<1>1. Held' \subseteq Held \cup Policy!Grantable
  <2>1. CASE UNCHANGED Policy!policyVars
    BY <2>1 DEF Policy!policyVars
  <2>2. CASE Policy!PolicyNext
    BY <2>2 DEF Policy!PolicyNext, Policy!Look, Policy!Reap, Policy!Others, Policy!UserStep,
       Policy!UserCreate, Policy!UserUpdate, Policy!UserDelete, Policy!Tick
  <2> QED BY <2>1, <2>2, StepImplements
<1>2. ASSUME NEW t \in TimerId, timer'[t].state = "clean" PROVE timer'[t].item \in InHands
  <2>1. CASE timer'[t] = timer[t]
    BY <1>2, <2>1 DEF InHands
  <2>2. CASE CallbackDelete(t)
    <3>1. timer[t].state = "fired" /\ timer'[t].item = timer[t].item
      BY <2>2 DEF CallbackDelete, TypeInv, TypeOK, Timer, FreeTimer
    <3> QED BY <3>1 DEF InHands, Held, HeldIn
  <2>3. CASE timer'[t].state \in {"free", "armed", "fired"}
    BY <1>2, <2>3
  <2>4. ASSUME NEW u \in TimerId, TimerStep(u), t # u PROVE timer'[t] = timer[t]
    BY <2>4 DEF TimerStep, Fire, CallbackDelete, CallbackCleanup
  <2>5. TimerStep(t) => CallbackDelete(t) \/ timer'[t].state \in {"free", "armed", "fired"}
    BY DEF TimerStep, Fire, CallbackCleanup, FreeTimer, TypeInv, TypeOK, Timer
  <2>6. ASSUME NEW w \in Worker, WorkerStep(w)
        PROVE  timer'[t] = timer[t] \/ timer'[t].state \in {"free", "armed", "fired"}
    <3>1. CASE Schedule(w)
      <4> DEFINE k == KeyOf(worker[w].item.obj)
      <4>1. StopExisting(k)[t] \in {timer[t], FreeTimer}
        BY DEF StopExisting
      <4>2. CASE Expire(w)
        BY <4>1, <4>2 DEF Expire, FreeTimer
      <4>3. CASE Arm(w)
        <5>1. PICK v \in TimerId :
                timer' = [StopExisting(k) EXCEPT ![v] =
                            [state |-> "armed", item |-> worker[w].item,
                             deadline |-> clock + worker[w].delay]]
          BY <4>3 DEF Arm
        <5>2. timer'[t] = StopExisting(k)[t] \/ timer'[t].state = "armed"
          BY <5>1 DEF StopExisting
        <5> QED BY <4>1, <5>2 DEF FreeTimer
      <4> QED BY <3>1, <4>2, <4>3 DEF Schedule
    <3> QED BY <2>6, <3>1 DEF WorkerStep, Dequeue, GetReaper, ListNamespaces, ListItems, Return,
          ComputeDelay, DeleteExpired
  <2>7. EnvironmentStep \/ UNCHANGED vars =>
          timer'[t] = timer[t] \/ timer'[t].state \in {"free", "armed", "fired"}
    BY DEF EnvironmentStep, TimePasses, ListerChanges, Enqueue, Crash, FreeTimer, vars
  <2> QED BY <2>1, <2>2, <2>3, <2>4, <2>5, <2>6, <2>7 DEF Next
<1> QED BY <1>1, <1>2 DEF InHands

\* Where names are not reused and what has finished is left alone, it stays as
\* it is until it is gone.
LEMMA FinishedStays ==
  ASSUME Frozen, TypeInv, WaitInv, [Next]_vars, NEW o \in Object,
         api[o] = Gone \/ (Present(o) /\ IsReapable(api[o]))
  PROVE  api'[o] \in {api[o], Gone}
<1>0. api \in [Object -> Rec \cup {Unborn, Gone}]
  BY DEF TypeInv, TypeOK, ClusterTypeOK
<1>1. CASE UNCHANGED Policy!policyVars \/ Policy!Look \/ Policy!Tick
  BY <1>1 DEF Policy!policyVars, Policy!Look, Policy!Tick
<1>2. ASSUME NEW item \in Held, Policy!Reap(item) PROVE api'[o] \in {api[o], Gone}
  BY <1>0, <1>2 DEF Policy!Reap
<1>3. ASSUME NEW p \in Object, Policy!UserStep(p), p # o PROVE api'[o] = api[o]
  BY <1>0, <1>3 DEF Policy!UserStep, Policy!UserCreate, Policy!UserUpdate, Policy!UserDelete
<1>4. CASE Policy!UserStep(o)
  <2>1. ~Policy!UserCreate(o)
    BY ClusterAssumption DEF Policy!UserCreate, Frozen, Present
  <2>2. ~Policy!UserUpdate(o)
    BY DEF Policy!UserUpdate, Policy!Present, Frozen, IsReapable, Policy!IsResourceFinished,
       IsResourceFinished, Policy!FinishedPhases, Policy!FinishedConditions,
       FinishedPhases, FinishedConditions
  <2> QED BY <1>0, <1>4, <2>1, <2>2 DEF Policy!UserStep, Policy!UserDelete
<1> QED BY <1>1, <1>2, <1>3, <1>4, StepImplements DEF Policy!PolicyNext, Policy!Others

LEMMA HandsNext ==
  ASSUME Frozen, TypeInv, WaitInv, HandsFresh, HandsAgree, [Next]_vars
  PROVE  HandsFresh' /\ HandsAgree'
<1>1. \A item \in Policy!Grantable :
         /\ item.obj \in Object /\ Present(item.obj)
         /\ item.rec = api[item.obj] /\ IsReapable(item.rec)
  BY DEF Policy!Grantable, Policy!Present, Present, Policy!IsReapable, IsReapable,
     Policy!IsResourceFinished, IsResourceFinished, Policy!FinishedPhases,
     Policy!FinishedConditions, FinishedPhases, FinishedConditions
<1>2. ASSUME NEW item \in InHands \cup Policy!Grantable
      PROVE  /\ item.obj \in Object
             /\ IsReapable(item.rec) /\ item.rec \notin {Unborn, Gone}
             /\ api[item.obj] \in {item.rec, Gone}
  BY <1>1, HandsItems DEF HandsFresh, Item, Present
<1>3. ASSUME NEW item \in InHands \cup Policy!Grantable
      PROVE  api'[item.obj] \in {item.rec, Gone}
  BY <1>2, FinishedStays DEF Present
<1>4. ASSUME NEW x \in InHands \cup Policy!Grantable, NEW y \in InHands \cup Policy!Grantable,
             x.obj = y.obj
      PROVE  x.rec = y.rec
  BY <1>1, <1>2, <1>4 DEF HandsAgree, Present
<1> QED BY <1>2, <1>3, <1>4, HandsLook DEF HandsFresh, HandsAgree

-----------------------------------------------------------------------------
\* The item has expired, and no worker is to arm a timer for its object.
Settled(item) ==
  /\ Expiration(item.rec) <= clock
  /\ \A w \in Worker :
       worker[w].pc = "lock" /\ worker[w].item.obj = item.obj => worker[w].delay <= 0

Spent == {item \in InHands : Settled(item)}

\* A timer that waits and that the map does not hold: nothing can stop it.
Astray(t) == timer[t].state = "armed" /\ timers[KeyOf(timer[t].item.obj)] # t

AstraySettled == \A t \in TimerId : Astray(t) => timer[t].item \in Spent

\* Two timers for one object.
Paired(t, u) ==
  /\ t # u
  /\ timer[t].state # "free" /\ timer[u].state # "free"
  /\ timer[t].item.obj = timer[u].item.obj

PairsSettled ==
  \A t, u \in TimerId : Paired(t, u) =>
    /\ timer[t].item \in Spent /\ timer[u].item \in Spent
    /\ timer[t].state # "armed" \/ timer[u].state # "armed"

LEMMA ClockGoesOn ==
  ASSUME TypeInv, WaitInv, [Next]_vars
  PROVE  clock \in Nat /\ clock' \in Nat /\ clock <= clock'
BY StepImplements DEF TypeInv, TypeOK, ClusterTypeOK, Policy!PolicyNext, Policy!policyVars,
   Policy!Look, Policy!Reap, Policy!Others, Policy!UserStep, Policy!UserCreate,
   Policy!UserUpdate, Policy!UserDelete, Policy!Tick

\* What has expired leaves no time.
LEMMA ExpiredDelay ==
  ASSUME NEW item \in Item, NEW now \in Nat, Expiration(item.rec) <= now
  PROVE  Delay(item.rec, now) <= 0
<1>1. Expiration(item.rec) \in Int
  BY DelayType
<1> QED BY <1>1, DurationAssumption DEF Delay, Saturate

\* What is spent stays so: a delay computed from now on leaves no time.
LEMMA SpentStays ==
  ASSUME TypeInv, WaitInv, HandsAgree, [Next]_vars, NEW item \in Spent, item \in InHands'
  PROVE  item \in Spent'
<1> USE DEF Spent
<1>1. item.rec \in Rec /\ Expiration(item.rec) \in Int
  BY HandsItems, DelayType DEF Item
<1>2. Expiration(item.rec) <= clock'
  BY <1>1, ClockGoesOn DEF Settled
<1>3. ASSUME NEW w \in Worker, worker'[w].pc = "lock", worker'[w].item.obj = item.obj
      PROVE  worker'[w].delay <= 0
  <2> worker \in [Worker -> WorkerState] /\ worker[w] \in WorkerState
    BY DEF TypeInv, TypeOK
  <2>1. CASE worker'[w] = worker[w]
    BY <1>3, <2>1 DEF Settled
  <2>2. CASE ComputeDelay(w)
    <3>1. PICK picked \in worker[w].items :
            worker' = [worker EXCEPT ![w].pc = "lock", ![w].item = picked, ![w].items = @ \ {picked},
                                     ![w].delay = Delay(picked.rec, clock)]
      BY <2>2 DEF ComputeDelay
    <3>2. worker'[w].item = picked /\ worker'[w].delay = Delay(picked.rec, clock)
      BY <3>1 DEF WorkerState
    <3>3. picked \in InHands
      BY DEF InHands, Held, HeldBy
    <3>4. picked.rec = item.rec /\ picked \in Item
      BY <1>3, <3>2, <3>3, HandsItems DEF HandsAgree
    <3>5. Delay(picked.rec, clock) <= 0
      BY <3>4, ClockGoesOn, ExpiredDelay DEF Settled
    <3> QED BY <3>2, <3>5
  <2>3. ASSUME WorkerStep(w), ~ComputeDelay(w) PROVE worker'[w].pc # "lock"
    <3>1. CASE GetReaper(w) \/ ListNamespaces(w) \/ Return(w)
      BY <3>1 DEF GetReaper, ReturnError, ListNamespaces, Return, IdleWorker, WorkerState
    <3>2. ASSUME NEW ns, ListItems(w, ns) PROVE worker'[w].pc # "lock"
      BY <3>2 DEF ListItems, WorkerState
    <3>3. CASE Schedule(w) \/ DeleteExpired(w)
      BY <3>3 DEF Schedule, Expire, Arm, DeleteExpired, WorkerState
    <3>4. ASSUME NEW r, Dequeue(w, r) PROVE worker'[w].pc # "lock"
      BY <3>4 DEF Dequeue, WorkerState
    <3> QED BY <2>3, <3>1, <3>2, <3>3, <3>4 DEF WorkerStep
  <2>4. ASSUME NEW v \in Worker, WorkerStep(v), v # w PROVE worker'[w] = worker[w]
    BY <2>4, OthersRest
  <2>5. CASE UNCHANGED worker \/ Crash
    BY <1>3, <2>1, <2>5 DEF Crash, IdleWorker
  <2> QED BY <1>3, <2>1, <2>2, <2>3, <2>4, <2>5 DEF Next, vars, TimerStep, Fire, CallbackDelete,
        CallbackCleanup, EnvironmentStep, TimePasses, ListerChanges, Enqueue
<1> QED BY <1>2, <1>3 DEF Settled

-----------------------------------------------------------------------------
LoneInv ==
  TypeInv /\ WaitInv /\ OneAtWork /\ HandsFresh /\ HandsAgree /\ AstraySettled /\ PairsSettled

\* Every timer in use has its copy.
TimersFull == \A t \in TimerId : timer[t].state # "free" => timer[t].item \in InHands

LEMMA TimersInHand == TypeInv => TimersFull
BY DEF TimersFull, InHands, Held, HeldIn, TypeInv, TypeOK, Timer, FreeTimer

LEMMA TimersInHandNext == TypeInv' => TimersFull'
BY TimersInHand, PTL

\* No timer is new, and none goes astray that is not settled.
NoneNew ==
  /\ \A t \in TimerId : timer'[t].state # "free" =>
       /\ timer[t].state # "free" /\ timer'[t].item = timer[t].item
       /\ timer'[t].state = "armed" => timer[t].state = "armed"
  /\ \A t \in TimerId : Astray(t)' => timer[t].item \in Spent

LEMMA NoneNewSettled ==
  ASSUME LoneInv, [Next]_vars, TypeInv', NoneNew
  PROVE  AstraySettled' /\ PairsSettled'
<1> USE DEF LoneInv
<1>1. ASSUME NEW t \in TimerId, timer[t].item \in Spent, timer'[t].state # "free"
      PROVE  timer'[t].item \in Spent'
  <2>1. timer'[t].item = timer[t].item /\ timer'[t].item \in InHands'
    BY <1>1, TimersInHandNext DEF NoneNew, TimersFull
  <2> QED BY <1>1, <2>1, SpentStays
<1>2. ASSUME NEW t \in TimerId, Astray(t)' PROVE timer'[t].item \in Spent'
  BY <1>1, <1>2 DEF NoneNew, Astray
<1>3. ASSUME NEW t \in TimerId, NEW u \in TimerId, Paired(t, u)'
      PROVE  /\ timer'[t].item \in Spent' /\ timer'[u].item \in Spent'
             /\ timer'[t].state # "armed" \/ timer'[u].state # "armed"
  <2>1. Paired(t, u)
    BY <1>3 DEF NoneNew, Paired
  <2> QED BY <1>1, <1>3, <2>1 DEF NoneNew, PairsSettled, Paired
<1> QED BY <1>2, <1>3 DEF AstraySettled, PairsSettled

LEMMA TimerKeys ==
  ASSUME TypeInv, NEW t \in TimerId, timer[t].state # "free"
  PROVE  /\ timer[t].item \in Item /\ timer[t].item.obj \in Object
         /\ KeyOf(timer[t].item.obj) \in Key
BY KeyType DEF TypeInv, TypeOK, Timer, FreeTimer, Item

\* A timer goes astray when another's callback clears the entry, and is its
\* pair; stopping the timer the map holds sends none astray.
LEMMA NoneNewTimer ==
  ASSUME TypeInv, AstraySettled, PairsSettled, KeysApart, NEW u \in TimerId, TimerStep(u)
  PROVE  NoneNew
<1> /\ timer \in [TimerId -> Timer \cup {FreeTimer}]
    /\ timers \in [Key -> TimerId \cup {Absent}]
  BY DEF TypeInv, TypeOK
<1>1. CASE Fire(u) \/ CallbackDelete(u)
  <2>1. ASSUME NEW t \in TimerId
        PROVE  timer'[t] = timer[t] \/ (/\ timer'[t].item = timer[t].item
                                        /\ timer[t].state # "free"
                                        /\ timer'[t].state # "armed")
    BY <1>1 DEF Fire, CallbackDelete, Timer, FreeTimer
  <2>2. timers' = timers
    BY <1>1 DEF Fire, CallbackDelete
  <2> QED BY <2>1, <2>2 DEF NoneNew, Astray, AstraySettled
<1>2. CASE CallbackCleanup(u)
  <2>1. /\ timer'[u].state = "free"
        /\ \A t \in TimerId \ {u} : timer'[t] = timer[t]
    BY <1>2 DEF CallbackCleanup, FreeTimer
  <2>2. ASSUME NEW t \in TimerId, Astray(t)' PROVE timer[t].item \in Spent
    <3>1. t # u /\ timer'[t] = timer[t] /\ timer[t].state = "armed"
      BY <2>1, <2>2 DEF Astray
    <3>2. timer[u].state = "clean"
      BY <1>2 DEF CallbackCleanup
    <3>3. CASE timer[t].item.obj = timer[u].item.obj
      BY <3>1, <3>2, <3>3 DEF PairsSettled, Paired
    <3>4. CASE timer[t].item.obj # timer[u].item.obj
      <4>1. KeyOf(timer[t].item.obj) # KeyOf(timer[u].item.obj)
        BY <3>1, <3>2, <3>4, TimerKeys DEF KeysApart
      <4>2. timers'[KeyOf(timer[t].item.obj)] = timers[KeyOf(timer[t].item.obj)]
        BY <1>2, <3>1, <4>1, TimerKeys DEF CallbackCleanup
      <4> QED BY <2>2, <3>1, <4>2 DEF Astray, AstraySettled
    <3> QED BY <3>3, <3>4
  <2> QED BY <2>1, <2>2 DEF NoneNew
<1> QED BY <1>1, <1>2 DEF TimerStep

LEMMA NoneNewExpire ==
  ASSUME TypeInv, AstraySettled, NEW w \in Worker, Schedule(w), Expire(w)
  PROVE  NoneNew
<1> DEFINE k == KeyOf(worker[w].item.obj)
<1>0. timers \in [Key -> TimerId \cup {Absent}]
  BY DEF TypeInv, TypeOK
<1>1. ASSUME NEW t \in TimerId, timer'[t].state # "free"
      PROVE  timer'[t] = timer[t] /\ (t # timers[k] \/ timer[t].state # "armed")
  BY <1>1 DEF Expire, StopExisting, FreeTimer
<1>2. ASSUME NEW t \in TimerId, Astray(t)' PROVE timer[t].item \in Spent
  <2>1. timer'[t] = timer[t] /\ timer[t].state = "armed" /\ t # timers[k]
    BY <1>1, <1>2 DEF Astray
  <2>2. CASE KeyOf(timer[t].item.obj) = k
    BY <2>1, <2>2 DEF Astray, AstraySettled
  <2>3. CASE KeyOf(timer[t].item.obj) # k
    <3>1. timers'[KeyOf(timer[t].item.obj)] = timers[KeyOf(timer[t].item.obj)]
      BY <1>0, <2>1, <2>3, TimerKeys DEF Expire
    <3> QED BY <1>2, <2>1, <3>1 DEF Astray, AstraySettled
  <2> QED BY <2>2, <2>3
<1> QED BY <1>1, <1>2 DEF NoneNew

\* Who arms a timer leaves no second one waiting for the object: it has stopped
\* the one of the map, and had there been one astray, it would have had no time.
\* A callback under way for the object shows that the new timer's copy expired.
LEMMA ArmSettles ==
  ASSUME LoneInv, KeysApart, [Next]_vars, TypeInv', WaitInv', OneAtWork', HandsAgree',
         NEW w \in Worker, Schedule(w), Arm(w)
  PROVE  AstraySettled' /\ PairsSettled'
<1> USE DEF LoneInv
<1> DEFINE item == worker[w].item
           k    == KeyOf(item.obj)
<1>0. /\ timer \in [TimerId -> Timer \cup {FreeTimer}]
      /\ timers \in [Key -> TimerId \cup {Absent}]
      /\ item \in Item /\ item.obj \in Object /\ k \in Key
  BY KeyType DEF TypeInv, TypeOK, ControlOK, Schedule, Item
<1>1. PICK new \in TimerId :
        /\ timer' = [StopExisting(k) EXCEPT ![new] =
                       [state |-> "armed", item |-> item, deadline |-> clock + worker[w].delay]]
        /\ timers' = [timers EXCEPT ![k] = new]
  BY DEF Arm
<1>2. /\ timer'[new].state = "armed" /\ timer'[new].item = item
      /\ timers'[k] = new
      /\ \A l \in Key \ {k} : timers'[l] = timers[l]
  BY <1>0, <1>1 DEF StopExisting
<1>3. ASSUME NEW t \in TimerId \ {new}, timer'[t].state # "free"
      PROVE  timer'[t] = timer[t] /\ (t # timers[k] \/ timer[t].state # "armed")
  BY <1>1, <1>3 DEF StopExisting, FreeTimer
<1>4. \A t \in TimerId : timer'[t].state # "free" => timer'[t].item \in InHands'
  BY TimersInHandNext DEF TimersFull
<1>5. ASSUME NEW t \in TimerId \ {new}, timer'[t].state # "free", timer[t].item \in Spent
      PROVE  timer'[t].item \in Spent'
  BY <1>3, <1>4, <1>5, SpentStays
<1>6. ASSUME NEW t \in TimerId \ {new}, timer'[t].state = "armed", timers'[KeyOf(timer'[t].item.obj)] # t
      PROVE  Astray(t)
  <2>1. timer'[t] = timer[t] /\ t # timers[k] /\ timer[t].state = "armed"
    BY <1>3, <1>6
  <2>2. CASE KeyOf(timer[t].item.obj) = k
    BY <2>1, <2>2 DEF Astray
  <2>3. CASE KeyOf(timer[t].item.obj) # k
    BY <1>2, <1>6, <2>1, <2>3, TimerKeys DEF Astray
  <2> QED BY <2>2, <2>3
<1>7. AstraySettled'
  BY <1>2, <1>5, <1>6 DEF AstraySettled, Astray
<1>8. ASSUME NEW u \in TimerId \ {new}, timer'[u].state # "free", timer'[u].item.obj = item.obj
      PROVE  /\ timer'[u].state # "armed"
             /\ timer'[u].item \in Spent' /\ timer'[new].item \in Spent'
  <2>1. timer'[u] = timer[u] /\ (u # timers[k] \/ timer[u].state # "armed")
    BY <1>3, <1>8
  <2>2. timer[u].state # "armed"
    <3>1. SUFFICES ASSUME timer[u].state = "armed" PROVE FALSE
      OBVIOUS
    <3>2. timer[u].item \in Spent
      BY <1>8, <2>1, <3>1 DEF Astray, AstraySettled
    <3>3. worker[w].pc = "lock" /\ worker[w].delay > 0 /\ worker[w].delay \in Int
      BY DEF Schedule, Arm, TypeInv, TypeOK, WorkerState
    <3> QED BY <1>8, <2>1, <3>2, <3>3 DEF Spent, Settled
  <2>3. timer'[u].state \in {"fired", "clean"}
    BY <1>0, <1>8, <2>1, <2>2 DEF Timer, FreeTimer
  <2>4. Expiration(timer'[u].item.rec) <= clock'
    BY <2>3 DEF WaitInv, TimerWaits
  <2>5. timer'[new].item \in InHands' /\ timer'[u].item \in InHands'
    BY <1>2, <1>4, <1>8
  <2>6. timer'[new].item.rec = timer'[u].item.rec
    BY <1>2, <1>8, <2>5 DEF HandsAgree
  <2>7. ASSUME NEW v \in Worker PROVE worker'[v].pc # "lock"
    <3>1. worker'[w].pc = "loop"
      BY DEF Arm, TypeInv, TypeOK
    <3> QED BY <3>1 DEF OneAtWork
  <2> QED BY <2>1, <2>2, <2>4, <2>5, <2>6, <2>7 DEF Spent, Settled
<1>9. ASSUME NEW t \in TimerId, NEW u \in TimerId, Paired(t, u)'
      PROVE  /\ timer'[t].item \in Spent' /\ timer'[u].item \in Spent'
             /\ timer'[t].state # "armed" \/ timer'[u].state # "armed"
  <2>0. /\ t # u /\ timer'[t].state # "free" /\ timer'[u].state # "free"
        /\ timer'[t].item.obj = timer'[u].item.obj
    BY <1>9 DEF Paired
  <2>1. CASE t = new
    BY <1>2, <1>8, <2>0, <2>1
  <2>2. CASE u = new
    BY <1>2, <1>8, <2>0, <2>2
  <2>3. CASE t # new /\ u # new
    BY <1>3, <1>5, <2>0, <2>3 DEF PairsSettled, Paired
  <2> QED BY <2>1, <2>2, <2>3
<1> QED BY <1>7, <1>9 DEF PairsSettled

LEMMA LoneNext ==
  ASSUME KeysApart, Frozen, TakingTurns, LoneInv, [Next]_vars
  PROVE  LoneInv'
<1> USE DEF LoneInv
<1>1. TypeInv' /\ WaitInv' /\ OneAtWork' /\ HandsFresh' /\ HandsAgree'
  BY TypeNext, WaitNext, TurnsNext, HandsNext
<1>2. CASE NoneNew
  BY <1>1, <1>2, NoneNewSettled
<1>3. ASSUME NEW w \in Worker, Schedule(w) PROVE LoneInv'
  BY <1>1, <1>2, <1>3, NoneNewExpire, ArmSettles DEF Schedule
<1>4. UNCHANGED <<timer, timers>> => NoneNew
  BY DEF NoneNew, Astray, AstraySettled
<1>5. Crash => NoneNew
  BY DEF Crash, FreeTimer, NoneNew, Astray
<1>6. ASSUME NEW t \in TimerId, TimerStep(t) PROVE NoneNew
  BY <1>6, NoneNewTimer
<1>7. ASSUME NEW w \in Worker, WorkerStep(w), ~Schedule(w) PROVE UNCHANGED <<timer, timers>>
  BY <1>7 DEF WorkerStep, Dequeue, GetReaper, ListNamespaces, ListItems, Return, ComputeDelay,
     DeleteExpired
<1>8. UNCHANGED vars \/ EnvironmentStep => UNCHANGED <<timer, timers>> \/ Crash
  BY DEF vars, EnvironmentStep, TimePasses, ListerChanges, Enqueue
<1> QED BY <1>2, <1>3, <1>4, <1>5, <1>6, <1>7, <1>8 DEF Next

\* A process that has just started holds nothing.
LEMMA LoneReady == ReaperInit /\ TypeInv /\ WaitInv => LoneInv
<1> SUFFICES ASSUME ReaperInit, TypeInv, WaitInv PROVE LoneInv
  OBVIOUS
<1>1. \A t \in TimerId : timer[t].state = "free"
  BY DEF ReaperInit, FreeTimer
<1>2. \A w \in Worker : worker[w].pc = "idle" /\ HeldBy(worker[w]) = {}
  BY DEF ReaperInit, IdleWorker, HeldBy
<1>3. InHands = {}
  BY <1>1, <1>2 DEF InHands, Held, HeldIn
<1> QED BY <1>1, <1>2, <1>3 DEF LoneInv, OneAtWork, HandsFresh, HandsAgree, AstraySettled,
      PairsSettled, Astray, Paired

LEMMA LoneInit == Init => LoneInv
BY LoneReady, TypeInit, WaitInit DEF Init

LEMMA LoneSuffices == KeysApart /\ LoneInv => SingleTimer
<1> SUFFICES ASSUME KeysApart, LoneInv, NEW t \in TimerId, NEW u \in TimerId,
                    timer[t].state = "armed", timer[u].state = "armed",
                    KeyOf(timer[t].item.obj) = KeyOf(timer[u].item.obj)
             PROVE  t = u
  BY DEF SingleTimer
<1>1. timer[t].item.obj = timer[u].item.obj
  BY TimerKeys DEF KeysApart, LoneInv
<1> QED BY <1>1 DEF LoneInv, PairsSettled, Paired

\* Another process on the same cluster disturbs none of it.
FinishedStay ==
  \A o \in Object :
    api[o] = Gone \/ (Present(o) /\ IsReapable(api[o])) => api'[o] \in {api[o], Gone}

LEMMA LoneForeign ==
  ASSUME LoneInv, TypeInv', WaitInv', UNCHANGED <<worker, timer, timers>>,
         clock' \in Nat, clock <= clock', FinishedStay
  PROVE  LoneInv'
<1> USE DEF LoneInv
<1>1. InHands' = InHands
  BY DEF InHands, Held
<1>2. \A item \in InHands : api'[item.obj] \in {item.rec, Gone}
  BY HandsItems DEF HandsFresh, FinishedStay, Item, Present
<1>3. HandsFresh' /\ HandsAgree' /\ OneAtWork'
  BY <1>1, <1>2 DEF HandsFresh, HandsAgree, OneAtWork
<1>4. ASSUME NEW item \in Spent PROVE item \in Spent'
  <2>1. Expiration(item.rec) \in Int /\ clock \in Nat
    BY HandsItems, DelayType DEF Spent, TypeInv, TypeOK, ClusterTypeOK
  <2> QED BY <1>1, <2>1 DEF Spent, Settled
<1>5. AstraySettled'
  BY <1>4 DEF AstraySettled, Astray
<1>6. PairsSettled'
  BY <1>4 DEF PairsSettled, Paired
<1> QED BY <1>3, <1>5, <1>6

\* Scheduling an object again leaves it with one timer that can still fire
\* (ttlreaper.go:217-221), where no two objects share a timer key, names are not
\* reused, what has finished is left alone, and workers take turns: whatever feeds
\* the queue, and though callbacks clear away entries that are not theirs.
THEOREM OneTimerEach == KeysApart /\ Frozen /\ TakingTurns /\ Spec => []SingleTimer
<1>1. SUFFICES ASSUME KeysApart, Frozen, TakingTurns PROVE Spec => []SingleTimer
  OBVIOUS
<1>2. LoneInv /\ [Next]_vars => LoneInv'
  BY <1>1, LoneNext
<1>3. LoneInv => SingleTimer
  BY <1>1, LoneSuffices
<1> QED BY <1>2, <1>3, LoneInit, PTL DEF Spec

=============================================================================
