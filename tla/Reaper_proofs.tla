---------------------------- MODULE Reaper_proofs ---------------------------
(***************************************************************************)
(* Proofs about module Reaper, for every value of its constants: any       *)
(* number of objects, TTLReapers, workers and timers, any TTLs, users that *)
(* reuse names and edit finished objects or not.                           *)
(***************************************************************************)
EXTENDS Reaper, TLAPS

-----------------------------------------------------------------------------
(***************************************************************************)
(* Arithmetic of Lifetime.                                                 *)
(***************************************************************************)

\* The wrapped product is a time.Duration (ttlreaper.go:211).
LEMMA WrapRange ==
  ASSUME NEW x \in Int
  PROVE  /\ Wrap(x) \in Int
         /\ -(MaxDuration + 1) <= Wrap(x)
         /\ Wrap(x) <= MaxDuration
BY DurationAssumption DEF Wrap

\* A TTL whose product fits an int64 is exact (ttlreaper.go:211).
LEMMA WrapExact ==
  ASSUME NEW x \in Int, -(MaxDuration + 1) <= x, x <= MaxDuration
  PROVE  Wrap(x) = x
BY DurationAssumption DEF Wrap

\* The finish time of a stored object is a time (ttlreaper.go:197-208).
LEMMA FinishTimeType ==
  ASSUME NEW rec \in Rec
  PROVE  FinishTime(rec) \in Int
BY DEF FinishTime, Rec

\* Waiting for the delay is waiting for the expiration, if that is not further
\* off than a time.Duration can be: time.Until saturates only where it does not
\* matter (ttlreaper.go:211-215).
LEMMA DelayCoversExpiration ==
  ASSUME NEW rec \in Rec, IsReapable(rec), NEW now \in Nat,
         Expiration(rec) <= now + MaxDuration
  PROVE  /\ Expiration(rec) \in Int
         /\ Delay(rec, now) \in Int
         /\ Expiration(rec) <= now + Delay(rec, now)
<1>1. rec.ttl * Second \in Int
  BY DurationAssumption DEF Rec, IsReapable
<1>2. FinishTime(rec) \in Int
  BY FinishTimeType
<1>3. PICK x \in Int : x = Wrap(rec.ttl * Second)
  BY <1>1, WrapRange
<1>4. Expiration(rec) = FinishTime(rec) + x
  BY <1>3 DEF Expiration
<1>5. QED
  BY <1>2, <1>3, <1>4, DurationAssumption DEF Delay, Saturate

\* What an owner writes is an object.
LEMMA StampedType ==
  ASSUME clock \in Nat, NEW form \in StatusForm, NEW ttl \in TTLs, NEW label \in Label,
         NEW created \in Nat
  PROVE  /\ Stamped(form, ttl, label, created) \in Rec
         /\ Stamped(form, ttl, label, created).created = created
<1>1. /\ form.phase \in STRING \cup {Absent}
      /\ form.conditions \in SUBSET (STRING \X STRING)
      /\ form.completion \in Int \cup {Absent, Malformed}
      /\ ttl \in Int \cup {Absent}
  BY ClusterAssumption
<1>2. Stamped(form, ttl, label, created).completion \in Int \cup {Absent, Malformed}
  BY <1>1 DEF Stamped
<1>3. Stamped(form, ttl, label, created) \in Rec
  BY <1>1, <1>2 DEF Stamped, Rec
<1>4. QED
  BY <1>3 DEF Stamped

\* No deadline is further off than a time.Duration can be (ttlreaper.go:211-215).
InReach(rec) == IsReapable(rec) => Expiration(rec) <= clock + MaxDuration

\* Nor is that of what an owner writes, whether it counts from the completion
\* time or from the creation.
LEMMA StampedReach ==
  ASSUME clock \in Nat, NEW form \in StatusForm, NEW ttl \in TTLs, NEW label \in Label,
         NEW created \in Nat, created <= clock
  PROVE  InReach(Stamped(form, ttl, label, created))
<1> DEFINE rec == Stamped(form, ttl, label, created)
<1> SUFFICES ASSUME ttl # Absent PROVE Expiration(rec) <= clock + MaxDuration
  BY DEF InReach, IsReapable, Stamped
<1>1. form.completion \in Int \cup {Absent, Malformed} /\ ttl \in Int
  BY ClusterAssumption
<1>2. PICK x \in Int : x = Wrap(ttl * Second) /\ x <= MaxDuration
  <2>1. ttl * Second \in Int
    BY <1>1, DurationAssumption
  <2> QED BY <2>1, WrapRange
<1>3. Expiration(rec) = FinishTime(rec) + x
  BY <1>2 DEF Expiration, Stamped
<1>4. CASE form.completion \in {Absent, Malformed}
  <2>1. FinishTime(rec) = created
    BY <1>4 DEF FinishTime, Stamped
  <2> QED BY <1>2, <1>3, <2>1, DurationAssumption
<1>5. CASE form.completion \notin {Absent, Malformed}
  <2>1. form.completion \in Int /\ clock + form.completion \in Int
    BY <1>1, <1>5
  <2>2. FinishTime(rec) = clock + form.completion
    BY <1>5, <2>1, SentinelAssumption DEF FinishTime, Stamped
  <2>3. form.completion + x <= MaxDuration
    BY <1>2, <2>1, ReachAssumption
  <2> QED BY <1>2, <1>3, <2>1, <2>2, <2>3, DurationAssumption
<1> QED BY <1>4, <1>5

-----------------------------------------------------------------------------
(***************************************************************************)
(* Types.  A worker past the queue holds a key; past the lister, a spec;   *)
(* between the delay and the end of scheduleResourceDeletion, an item.     *)
(***************************************************************************)
ControlOK ==
  \A w \in Worker :
    /\ worker[w].pc # "idle" => worker[w].reaper \in Reaper
    /\ worker[w].pc \in {"listns", "loop", "lock", "delete"} =>
         worker[w].spec \in ReaperSpec
    /\ worker[w].pc \in {"lock", "delete"} => worker[w].item \in Item

TypeInv == TypeOK /\ ControlOK

LEMMA CopyType ==
  ASSUME ClusterTypeOK, NEW o \in Object, Present(o)
  PROVE  /\ api[o] \in Rec
         /\ IsReapable(api[o]) => Copy(o) \in Item
BY DEF ClusterTypeOK, Present, Copy, Item

LEMMA DelayType ==
  ASSUME NEW item \in Item, NEW now \in Nat
  PROVE  Expiration(item.rec) \in Int /\ Delay(item.rec, now) \in Int
<1>1. item.rec \in Rec /\ item.rec.ttl * Second \in Int
  BY DurationAssumption DEF Item, Rec, IsReapable
<1>2. Expiration(item.rec) \in Int
  BY <1>1, FinishTimeType, WrapRange DEF Expiration
<1>3. QED
  BY <1>2, DurationAssumption DEF Delay, Saturate

LEMMA KeyType ==
  ASSUME NEW o \in Object
  PROVE  KeyOf(o) \in Key
BY DEF Key

LEMMA StopType ==
  ASSUME TypeOK, NEW k
  PROVE  StopExisting(k) \in [TimerId -> Timer \cup {FreeTimer}]
BY DEF TypeOK, StopExisting


LEMMA TypeInit == Init => TypeInv
BY DEF Init, ClusterInit, ReaperInit, IdleWorker, TypeInv, TypeOK, ClusterTypeOK, ControlOK,
       WorkerState

\* A step that changes one worker and stays within the types of that worker.
LEMMA WorkerUpdate ==
  ASSUME TypeInv, NEW w \in Worker, NEW u, worker' = [worker EXCEPT ![w] = u],
         u \in WorkerState,
         u.pc # "idle" => u.reaper \in Reaper,
         u.pc \in {"listns", "loop", "lock", "delete"} => u.spec \in ReaperSpec,
         u.pc \in {"lock", "delete"} => u.item \in Item
  PROVE  worker' \in [Worker -> WorkerState] /\ ControlOK'
BY DEF TypeInv, TypeOK, ControlOK

\* What the critical section makes of a worker.
LEMMA WorkerScheduled ==
  ASSUME NEW s \in WorkerState, NEW d \in Int
  PROVE  LET u == [s EXCEPT !.pc = "delete", !.delay = d]
             v == [s EXCEPT !.pc = "loop", !.item = Absent, !.delay = d]
         IN  /\ u \in WorkerState /\ u.pc = "delete" /\ u.reaper = s.reaper
             /\ u.spec = s.spec /\ u.item = s.item
             /\ v \in WorkerState /\ v.pc = "loop" /\ v.reaper = s.reaper
             /\ v.spec = s.spec /\ v.item = Absent
BY DEF WorkerState

LEMMA ClusterTypeKept == ASSUME ClusterTypeOK, UNCHANGED clusterVars PROVE ClusterTypeOK'
BY DEF ClusterTypeOK, clusterVars

LEMMA APIFailsType ==
  ASSUME ClusterTypeOK, NEW objects \in SUBSET Object, APIFails(objects)
  PROVE  ClusterTypeOK'
BY DEF ClusterTypeOK, APIFails

LEMMA APIDeleteType ==
  ASSUME ClusterTypeOK, NEW item \in Item, APIDelete(item.obj, item.rec)
  PROVE  ClusterTypeOK'
BY APIFailsType, item.obj \in Object DEF ClusterTypeOK, APIDelete, Item, clusterVars, Present

LEMMA TypeWorker ==
  ASSUME TypeInv, NEW w \in Worker, WorkerStep(w)
  PROVE  TypeInv'
<1> USE DEF TypeInv, TypeOK
<1> DEFINE self == worker[w]
<1>0. /\ self \in WorkerState
      /\ self.pc # "idle" => self.reaper \in Reaper
      /\ self.pc \in {"listns", "loop", "lock", "delete"} => self.spec \in ReaperSpec
      /\ self.pc \in {"lock", "delete"} => self.item \in Item
  BY DEF ControlOK
<1>i. IdleWorker \in WorkerState /\ IdleWorker.pc = "idle"
  BY DEF IdleWorker, WorkerState
<1>j. worker' = [worker EXCEPT ![w] = IdleWorker] =>
        worker' \in [Worker -> WorkerState] /\ ControlOK'
  BY <1>i, WorkerUpdate
<1>1. ASSUME NEW r \in Reaper, Dequeue(w, r) PROVE TypeInv'
  <2> DEFINE u == [self EXCEPT !.pc = "get", !.reaper = r]
  <2>1. worker' = [worker EXCEPT ![w] = u]
    BY <1>1 DEF Dequeue
  <2>2. u \in WorkerState /\ u.reaper = r /\ u.pc = "get"
    BY <1>0 DEF WorkerState
  <2>3. worker' \in [Worker -> WorkerState] /\ ControlOK'
    BY <2>1, <2>2, WorkerUpdate
  <2>4. QED
    BY <1>1, <2>3, ClusterTypeKept DEF Dequeue
<1>2. CASE GetReaper(w)
  <2> DEFINE spec == lister[self.reaper]
             u == [self EXCEPT !.pc = "loop", !.spec = spec, !.nss = {spec.ns}]
             v == [self EXCEPT !.pc = "listns", !.spec = spec]
  <2>1. self.pc = "get" /\ self.reaper \in Reaper
    BY <1>0, <1>2 DEF GetReaper
  <2>2. worker' \in [Worker -> WorkerState] /\ ControlOK'
    <3>1. CASE worker' = [worker EXCEPT ![w] = IdleWorker]
      BY <3>1, <1>j
    <3>2. CASE spec # Absent /\ spec.ns # Absent /\ worker' = [worker EXCEPT ![w] = u]
      <4>1. spec \in ReaperSpec /\ spec.ns \in Namespace
        BY <2>1, <3>2, ReaperAssumption
      <4>2. u \in WorkerState /\ u.pc = "loop" /\ u.reaper = self.reaper /\ u.spec = spec
        BY <1>0, <4>1 DEF WorkerState
      <4>3. QED
        BY <2>1, <3>2, <4>1, <4>2, WorkerUpdate
    <3>3. CASE spec # Absent /\ worker' = [worker EXCEPT ![w] = v]
      <4>1. spec \in ReaperSpec
        BY <2>1, <3>3
      <4>2. v \in WorkerState /\ v.pc = "listns" /\ v.reaper = self.reaper /\ v.spec = spec
        BY <1>0, <4>1 DEF WorkerState
      <4>3. QED
        BY <2>1, <3>3, <4>1, <4>2, WorkerUpdate
    <3>4. QED
      BY <1>2, <3>1, <3>2, <3>3 DEF GetReaper, ReturnError
  <2>3. dirty' \subseteq Reaper
    BY <1>2, <2>1 DEF GetReaper, ReturnError
  <2>4. QED
    BY <1>2, <2>2, <2>3, ClusterTypeKept DEF GetReaper
<1>3. CASE ListNamespaces(w)
  <2> DEFINE u == [self EXCEPT !.pc = "loop", !.nss = Namespace]
  <2>1. self.pc = "listns"
    BY <1>3 DEF ListNamespaces
  <2>2. u \in WorkerState /\ u.pc = "loop" /\ u.reaper = self.reaper /\ u.spec = self.spec
    BY <1>0 DEF WorkerState
  <2>3. worker' = [worker EXCEPT ![w] = u] => worker' \in [Worker -> WorkerState] /\ ControlOK'
    BY <1>0, <2>1, <2>2, WorkerUpdate
  <2>4. worker' \in [Worker -> WorkerState] /\ ControlOK'
    BY <1>3, <1>j, <2>3 DEF ListNamespaces, ReturnError
  <2>5. ClusterTypeOK' /\ dirty' \subseteq Reaper
    BY <1>0, <1>3, <2>1, ClusterTypeKept, APIFailsType DEF ListNamespaces, ReturnError
  <2>6. QED
    BY <1>3, <2>4, <2>5 DEF ListNamespaces
<1>4. ASSUME NEW ns \in worker[w].nss, ListItems(w, ns) PROVE TypeInv'
  <2> DEFINE found == {Copy(o) : o \in {p \in Listed(self.spec, ns) : IsReapable(api[p])}}
             u == [self EXCEPT !.nss = @ \ {ns}, !.items = found]
             v == [self EXCEPT !.nss = @ \ {ns}]
  <2>1. found \in SUBSET Item
    BY CopyType DEF Listed
  <2>2. /\ u \in WorkerState /\ u.pc = self.pc /\ u.reaper = self.reaper
        /\ u.spec = self.spec /\ u.item = self.item
    <3> HIDE DEF found
    <3>1. QED
      BY <1>0, <2>1 DEF WorkerState
  <2>3. /\ v \in WorkerState /\ v.pc = self.pc /\ v.reaper = self.reaper
        /\ v.spec = self.spec /\ v.item = self.item
    BY <1>0 DEF WorkerState
  <2>4. worker' \in {[worker EXCEPT ![w] = u], [worker EXCEPT ![w] = v]}
    BY <1>4 DEF ListItems
  <2>5. worker' \in [Worker -> WorkerState] /\ ControlOK'
    <3> HIDE DEF found, u, v
    <3>1. QED
      BY <1>0, <2>2, <2>3, <2>4, WorkerUpdate
  <2>6. ClusterTypeOK'
    <3>1. {p \in Listed(self.spec, ns) : IsReapable(api[p])} \in SUBSET Object
      BY DEF Listed
    <3> QED BY <1>4, <3>1, ClusterTypeKept, APIFailsType DEF ListItems
  <2>7. QED
    BY <1>4, <2>5, <2>6 DEF ListItems
<1>5. CASE Return(w)
  BY <1>5, <1>j, ClusterTypeKept DEF Return
<1>6. CASE ComputeDelay(w)
  <2>1. PICK item \in self.items :
          worker' = [worker EXCEPT ![w] = [self EXCEPT !.pc = "lock", !.item = item,
                       !.items = @ \ {item}, !.delay = Delay(item.rec, clock)]]
    BY <1>6 DEF ComputeDelay
  <2> DEFINE u == [self EXCEPT !.pc = "lock", !.item = item,
                       !.items = @ \ {item}, !.delay = Delay(item.rec, clock)]
  <2>2. item \in Item /\ self.pc = "loop"
    BY <1>0, <1>6, <2>1 DEF WorkerState, ComputeDelay
  <2>3. Delay(item.rec, clock) \in Int
    BY <2>2, DelayType DEF ClusterTypeOK
  <2>4. /\ u \in WorkerState /\ u.pc = "lock" /\ u.reaper = self.reaper
        /\ u.spec = self.spec /\ u.item = item
    BY <1>0, <2>2, <2>3 DEF WorkerState
  <2>5. worker' \in [Worker -> WorkerState] /\ ControlOK'
    BY <1>0, <2>1, <2>2, <2>4, WorkerUpdate
  <2>6. QED
    BY <1>6, <2>5, ClusterTypeKept DEF ComputeDelay
<1>7. CASE Schedule(w)
  <2>0. PICK none \in Int : none = 0
    OBVIOUS
  <2> DEFINE k == KeyOf(self.item.obj)
             u == [self EXCEPT !.pc = "delete", !.delay = none]
             v == [self EXCEPT !.pc = "loop", !.item = Absent, !.delay = none]
             armed == [state |-> "armed", item |-> self.item, deadline |-> clock + self.delay]
  <2>1. self.pc = "lock" /\ self.item \in Item /\ k \in Key
    BY <1>0, <1>7, KeyType DEF Schedule, Item
  <2>2. /\ u \in WorkerState /\ u.pc = "delete" /\ u.reaper = self.reaper
        /\ u.spec = self.spec /\ u.item = self.item
    BY <1>0, WorkerScheduled
  <2>3. v \in WorkerState /\ v.pc = "loop" /\ v.reaper = self.reaper /\ v.spec = self.spec
    BY <1>0, WorkerScheduled
  <2>4. worker' \in {[worker EXCEPT ![w] = u], [worker EXCEPT ![w] = v]}
    BY <1>7, <2>0 DEF Schedule, Expire, Arm
  <2>5. worker' \in [Worker -> WorkerState] /\ ControlOK'
    <3> HIDE DEF u, v
    <3>1. QED
      BY <1>0, <2>1, <2>2, <2>3, <2>4, WorkerUpdate
  <2>6. StopExisting(k) \in [TimerId -> Timer \cup {FreeTimer}]
    BY StopType
  <2>7. armed \in Timer
    <3>1. clock + self.delay \in Int
      BY <1>0 DEF WorkerState, ClusterTypeOK
    <3>2. QED
      BY <2>1, <3>1 DEF Timer
  <2>8. CASE timer' = StopExisting(k) /\ timers' = [timers EXCEPT ![k] = Absent]
    BY <1>7, <2>5, <2>6, <2>8, ClusterTypeKept DEF Schedule, Expire, Arm
  <2>9. ASSUME NEW t \in TimerId, timer' = [StopExisting(k) EXCEPT ![t] = armed],
               timers' = [timers EXCEPT ![k] = t]
        PROVE  TypeInv'
    <3> HIDE DEF armed, k
    <3>1. timer' \in [TimerId -> Timer \cup {FreeTimer}]
      BY <2>6, <2>7, <2>9
    <3>2. timers' \in [Key -> TimerId \cup {Absent}]
      BY <2>9
    <3>3. QED
      BY <1>7, <2>5, <3>1, <3>2, ClusterTypeKept DEF Schedule
  <2>10. QED
    BY <1>7, <2>8, <2>9 DEF Schedule, Expire, Arm
<1>8. CASE DeleteExpired(w)
  <2> DEFINE u == [self EXCEPT !.pc = "loop", !.item = Absent]
  <2>1. self.pc = "delete" /\ self.item \in Item
    BY <1>0, <1>8 DEF DeleteExpired
  <2>2. u \in WorkerState /\ u.pc = "loop" /\ u.reaper = self.reaper /\ u.spec = self.spec
    BY <1>0 DEF WorkerState
  <2>3. worker' = [worker EXCEPT ![w] = u]
    BY <1>8 DEF DeleteExpired
  <2>4. worker' \in [Worker -> WorkerState] /\ ControlOK'
    BY <1>0, <2>1, <2>2, <2>3, WorkerUpdate
  <2>5. ClusterTypeOK'
    BY <1>8, <2>1, APIDeleteType DEF DeleteExpired
  <2>6. QED
    BY <1>8, <2>4, <2>5 DEF DeleteExpired
<1>9. QED
  BY <1>1, <1>2, <1>3, <1>4, <1>5, <1>6, <1>7, <1>8 DEF WorkerStep

LEMMA ControlKept == ASSUME ControlOK, UNCHANGED worker PROVE ControlOK'
BY DEF ControlOK

LEMMA TypeTimer ==
  ASSUME TypeInv, NEW t \in TimerId, TimerStep(t)
  PROVE  TypeInv'
<1> USE DEF TypeInv, TypeOK
<1>1. timer[t].state # "free" => timer[t] \in Timer /\ timer[t].item \in Item
  BY DEF Timer, FreeTimer
<1>2. CASE Fire(t)
  <2>1. [timer[t] EXCEPT !.state = "fired"] \in Timer
    BY <1>1, <1>2 DEF Fire, Timer
  <2>2. timer' \in [TimerId -> Timer \cup {FreeTimer}]
    BY <1>2, <2>1 DEF Fire
  <2>3. QED
    BY <1>2, <2>2, ClusterTypeKept, ControlKept DEF Fire
<1>3. CASE CallbackDelete(t)
  <2>1. [timer[t] EXCEPT !.state = "clean"] \in Timer
    BY <1>1, <1>3 DEF CallbackDelete, Timer
  <2>2. timer' \in [TimerId -> Timer \cup {FreeTimer}]
    BY <1>3, <2>1 DEF CallbackDelete
  <2>3. ClusterTypeOK'
    BY <1>1, <1>3, APIDeleteType DEF CallbackDelete
  <2>4. QED
    BY <1>3, <2>2, <2>3, ControlKept DEF CallbackDelete
<1>4. CASE CallbackCleanup(t)
  BY <1>4, ClusterTypeKept, ControlKept DEF CallbackCleanup
<1>5. QED
  BY <1>2, <1>3, <1>4 DEF TimerStep

LEMMA UserType ==
  ASSUME ClusterTypeOK, NEW o \in Object, UserStep(o)
  PROVE  ClusterTypeOK'
<1> USE DEF ClusterTypeOK
<1>1. CASE UserCreate(o)
  BY <1>1, StampedType DEF UserCreate
<1>2. CASE UserUpdate(o)
  <2>1. api[o].created \in Nat
    BY <1>2 DEF UserUpdate, Present, Rec
  <2>2. QED
    BY <1>2, <2>1, StampedType DEF UserUpdate
<1>3. CASE UserDelete(o)
  BY <1>3 DEF UserDelete
<1>4. QED
  BY <1>1, <1>2, <1>3 DEF UserStep

LEMMA TypeEnvironment ==
  ASSUME TypeInv, EnvironmentStep
  PROVE  TypeInv'
<1> USE DEF TypeInv, TypeOK
<1>1. CASE \E o \in Object : UserStep(o) /\ UNCHANGED <<lister, dirty, worker, timer, timers>>
  BY <1>1, UserType, ControlKept
<1>2. CASE TimePasses
  BY <1>2, ControlKept DEF TimePasses, Tick, ClusterTypeOK
<1>3. ASSUME NEW r \in Reaper, ListerChanges(r) PROVE TypeInv'
  BY <1>3, ClusterTypeKept, ControlKept DEF ListerChanges
<1>4. ASSUME NEW rs \in SUBSET Reaper, Enqueue(rs) PROVE TypeInv'
  BY <1>4, ClusterTypeKept, ControlKept DEF Enqueue
<1>5. CASE Crash
  <2>1. IdleWorker \in WorkerState /\ IdleWorker.pc = "idle"
    BY DEF IdleWorker, WorkerState
  <2>2. worker' \in [Worker -> WorkerState] /\ ControlOK'
    BY <1>5, <2>1 DEF Crash, ControlOK
  <2>3. QED
    BY <1>5, <2>2, ClusterTypeKept DEF Crash
<1>6. QED
  BY <1>1, <1>2, <1>3, <1>4, <1>5 DEF EnvironmentStep

LEMMA TypeNext == TypeInv /\ [Next]_vars => TypeInv'
<1> SUFFICES ASSUME TypeInv, [Next]_vars PROVE TypeInv'
  OBVIOUS
<1>1. ASSUME NEW w \in Worker, WorkerStep(w) PROVE TypeInv'
  BY <1>1, TypeWorker
<1>2. ASSUME NEW t \in TimerId, TimerStep(t) PROVE TypeInv'
  BY <1>2, TypeTimer
<1>3. CASE EnvironmentStep
  BY <1>3, TypeEnvironment
<1>4. CASE UNCHANGED vars
  BY <1>4, ClusterTypeKept, ControlKept DEF vars, TypeInv, TypeOK, clusterVars
<1>5. QED
  BY <1>1, <1>2, <1>3, <1>4 DEF Next

\* Every variable keeps its type, and a worker holds what its program counter
\* says it holds, in every behaviour of the reaper (ttlreaper.go:43-272).
THEOREM Typing == Spec => []TypeInv
<1>1. Init => TypeInv
  BY TypeInit
<1>2. TypeInv /\ [Next]_vars => TypeInv'
  BY TypeNext
<1>3. QED
  BY <1>1, <1>2, PTL DEF Spec

\* The type invariant of the runs.
THEOREM TypeCorrect == Spec => []TypeOK
<1>1. TypeInv => TypeOK
  BY DEF TypeInv
<1>2. QED
  BY <1>1, Typing, PTL

-----------------------------------------------------------------------------
(***************************************************************************)
(* The timer map.  NoTimerLeak is inductive once types are known: an entry *)
(* for one key is never the timer of another, so what Stop, AfterFunc and  *)
(* the callback do to a timer concerns one entry at most.                  *)
(***************************************************************************)
LEMMA LeakInit == Init => NoTimerLeak
BY DEF Init, ReaperInit, NoTimerLeak

LEMMA LeakSchedule ==
  ASSUME TypeInv, NoTimerLeak, NEW w \in Worker, Schedule(w)
  PROVE  NoTimerLeak'
<1> DEFINE item == worker[w].item
           k    == KeyOf(item.obj)
<1>1. k \in Key /\ item \in Item
  BY KeyType DEF TypeInv, ControlOK, Schedule, Item
<1>2. timer \in [TimerId -> Timer \cup {FreeTimer}] /\ timers \in [Key -> TimerId \cup {Absent}]
  BY DEF TypeInv, TypeOK
<1>3. ASSUME NEW l \in Key, l # k, timers[l] # Absent
      PROVE  StopExisting(k)[timers[l]] = timer[timers[l]]
  BY <1>1, <1>2, <1>3 DEF StopExisting, NoTimerLeak
<1>4. CASE timer' = StopExisting(k) /\ timers' = [timers EXCEPT ![k] = Absent]
  <2> SUFFICES ASSUME NEW l \in Key, timers'[l] # Absent
               PROVE  /\ timer'[timers'[l]].state # "free"
                      /\ KeyOf(timer'[timers'[l]].item.obj) = l
    BY DEF NoTimerLeak
  <2>1. l # k /\ timers'[l] = timers[l]
    BY <1>1, <1>2, <1>4
  <2>2. QED
    BY <1>3, <1>4, <2>1 DEF NoTimerLeak
<1>5. ASSUME NEW t \in TimerId, NEW d, StopExisting(k)[t].state = "free",
             timer' = [StopExisting(k) EXCEPT ![t] =
                         [state |-> "armed", item |-> item, deadline |-> d]],
             timers' = [timers EXCEPT ![k] = t]
      PROVE  NoTimerLeak'
  <2> SUFFICES ASSUME NEW l \in Key, timers'[l] # Absent
               PROVE  /\ timer'[timers'[l]].state # "free"
                      /\ KeyOf(timer'[timers'[l]].item.obj) = l
    BY DEF NoTimerLeak
  <2>0. timer'[t].state = "armed" /\ timer'[t].item = item
    BY <1>5 DEF StopExisting
  <2>1. CASE l = k
    BY <1>1, <1>2, <1>5, <2>0, <2>1
  <2>2. CASE l # k
    <3>1. timers'[l] = timers[l] /\ timers[l] \in TimerId
      BY <1>2, <1>5, <2>2
    <3>2. StopExisting(k)[timers[l]] = timer[timers[l]] /\ timer[timers[l]].state # "free"
      BY <1>3, <2>2, <3>1 DEF NoTimerLeak
    <3>3. timers[l] # t
      BY <1>5, <3>2
    <3>4. timer'[timers[l]] = timer[timers[l]]
      BY <1>5, <3>1, <3>2, <3>3 DEF StopExisting
    <3>5. QED
      BY <3>1, <3>4 DEF NoTimerLeak
  <2>3. QED
    BY <2>1, <2>2
<1>6. QED
  BY <1>4, <1>5 DEF Schedule, Expire, Arm

LEMMA LeakCleanup ==
  ASSUME TypeInv, NoTimerLeak, NEW t \in TimerId, CallbackCleanup(t)
  PROVE  NoTimerLeak'
<1> SUFFICES ASSUME NEW l \in Key, timers'[l] # Absent
             PROVE  /\ timer'[timers'[l]].state # "free"
                    /\ KeyOf(timer'[timers'[l]].item.obj) = l
  BY DEF NoTimerLeak
<1>1. timer \in [TimerId -> Timer \cup {FreeTimer}] /\ timers \in [Key -> TimerId \cup {Absent}]
  BY DEF TypeInv, TypeOK
<1>2. l # KeyOf(timer[t].item.obj) /\ timers'[l] = timers[l]
  BY <1>1 DEF CallbackCleanup
<1>3. timers[l] # t
  BY <1>2 DEF NoTimerLeak
<1>4. timer'[timers[l]] = timer[timers[l]]
  BY <1>1, <1>3 DEF CallbackCleanup
<1>5. QED
  BY <1>2, <1>4 DEF NoTimerLeak

LEMMA LeakNext == TypeInv /\ NoTimerLeak /\ [Next]_vars => NoTimerLeak'
<1> SUFFICES ASSUME TypeInv, NoTimerLeak, [Next]_vars PROVE NoTimerLeak'
  OBVIOUS
<1>1. CASE UNCHANGED <<timer, timers>>
  BY <1>1 DEF NoTimerLeak
<1>2. ASSUME NEW w \in Worker, WorkerStep(w) PROVE NoTimerLeak'
  <2>1. CASE Schedule(w)
    BY <2>1, LeakSchedule
  <2>2. QED
    BY <1>1, <1>2, <2>1 DEF WorkerStep, Dequeue, GetReaper, ListNamespaces, ListItems,
       Return, ComputeDelay, DeleteExpired
<1>3. ASSUME NEW t \in TimerId, TimerStep(t) PROVE NoTimerLeak'
  <2>0. timer \in [TimerId -> Timer \cup {FreeTimer}]
    BY DEF TypeInv, TypeOK
  <2>1. CASE Fire(t)
    BY <2>0, <2>1 DEF Fire, NoTimerLeak
  <2>2. CASE CallbackDelete(t)
    BY <2>0, <2>2 DEF CallbackDelete, NoTimerLeak
  <2>3. CASE CallbackCleanup(t)
    BY <2>3, LeakCleanup
  <2>4. QED
    BY <1>3, <2>1, <2>2, <2>3 DEF TimerStep
<1>4. CASE EnvironmentStep
  <2>1. CASE Crash
    BY <2>1 DEF Crash, NoTimerLeak
  <2>2. QED
    BY <1>1, <1>4, <2>1 DEF EnvironmentStep, TimePasses, ListerChanges, Enqueue
<1>5. CASE UNCHANGED vars
  BY <1>1, <1>5 DEF vars
<1>6. QED
  BY <1>2, <1>3, <1>4, <1>5 DEF Next

\* An entry of r.timers is a timer for its key that is armed or whose callback
\* is still to remove it, however Stop, AfterFunc and callbacks interleave
\* (ttlreaper.go:217-266).
THEOREM MapNeverLeaks == Spec => []NoTimerLeak
<1>1. Init => NoTimerLeak
  BY LeakInit
<1>2. TypeInv /\ NoTimerLeak /\ [Next]_vars => NoTimerLeak'
  BY LeakNext
<1>3. QED
  BY <1>1, <1>2, Typing, PTL DEF Spec

-----------------------------------------------------------------------------
(***************************************************************************)
(* Warrants.  WarrantedReap speaks of the moment of the Delete; to reach   *)
(* it, the invariant follows a copy from the List to the call: no          *)
(* expiration is out of a delay's reach, so the delay covers it, at the    *)
(* worker and in the timer, and the clock only grows.                      *)
(***************************************************************************)
WithinReach ==
  \A o \in Object : Present(o) => api[o].created <= clock /\ InReach(api[o])

WorkerWaits ==
  \A w \in Worker :
    /\ \A item \in worker[w].items : InReach(item.rec)
    /\ worker[w].pc = "lock"   => Expiration(worker[w].item.rec) <= clock + worker[w].delay
    /\ worker[w].pc = "delete" => Expiration(worker[w].item.rec) <= clock

TimerWaits ==
  \A t \in TimerId :
    /\ timer[t].state = "armed" => Expiration(timer[t].item.rec) <= timer[t].deadline
    /\ timer[t].state \in {"fired", "clean"} => Expiration(timer[t].item.rec) <= clock

WaitInv == WithinReach /\ WorkerWaits /\ TimerWaits

LEMMA WaitInit == Init => WaitInv /\ WarrantedReap
BY DEF Init, ClusterInit, ReaperInit, IdleWorker, FreeTimer, WaitInv, WithinReach, WorkerWaits,
       TimerWaits, WarrantedReap, Present

\* Time and failures aside, a step of the cluster writes what is within reach.
LEMMA ReachKept ==
  ASSUME ClusterTypeOK, WithinReach, UNCHANGED <<api, clock>>
  PROVE  WithinReach'
BY DEF WithinReach, InReach, Present

LEMMA ReachUser ==
  ASSUME ClusterTypeOK, WithinReach, NEW o \in Object, UserStep(o)
  PROVE  WithinReach'
<1>1. clock \in Nat /\ clock' = clock /\ api \in [Object -> Rec \cup {Unborn, Gone}]
  BY DEF ClusterTypeOK, UserStep, UserCreate, UserUpdate, UserDelete
<1>2. ASSUME NEW form \in StatusForm, NEW ttl \in TTLs, NEW label \in Label,
             NEW created \in Nat, created <= clock,
             api' = [api EXCEPT ![o] = Stamped(form, ttl, label, created)]
      PROVE  WithinReach'
  <2>1. InReach(Stamped(form, ttl, label, created))
    BY <1>1, <1>2, StampedReach
  <2>2. Stamped(form, ttl, label, created).created = created
    BY DEF Stamped
  <2> QED BY <1>1, <1>2, <2>1, <2>2 DEF WithinReach, InReach, Present
<1>3. CASE UserCreate(o)
  <2>1. clock <= clock
    BY <1>1
  <2>2. QED
    BY <1>1, <1>2, <1>3, <2>1 DEF UserCreate
<1>4. CASE UserUpdate(o)
  <2>1. api[o].created \in Nat /\ api[o].created <= clock
    BY <1>1, <1>4 DEF UserUpdate, WithinReach, Present, Rec
  <2>2. QED
    BY <1>2, <1>4, <2>1 DEF UserUpdate
<1>5. CASE UserDelete(o)
  BY <1>1, <1>5 DEF UserDelete, WithinReach, InReach, Present
<1>6. QED
  BY <1>3, <1>4, <1>5 DEF UserStep

LEMMA ReachDelete ==
  ASSUME ClusterTypeOK, WithinReach, NEW o \in Object, NEW by, APIDelete(o, by)
  PROVE  WithinReach' /\ clock' = clock
BY DEF ClusterTypeOK, WithinReach, InReach, APIDelete, APIFails, Present, clusterVars

LEMMA WorkerWaitsKept ==
  ASSUME TypeInv, WorkerWaits, UNCHANGED worker, clock' \in Nat, clock <= clock'
  PROVE  WorkerWaits'
<1> SUFFICES ASSUME NEW w \in Worker
             PROVE  WorkerWaits!(w)'
  BY DEF WorkerWaits
<1>1. worker[w] \in WorkerState /\ clock \in Nat
  BY DEF TypeInv, TypeOK, ClusterTypeOK
<1>2. \A item \in worker[w].items : Expiration(item.rec) \in Int
  BY <1>1, DelayType DEF WorkerState
<1>3. worker[w].pc \in {"lock", "delete"} => Expiration(worker[w].item.rec) \in Int
  BY <1>1, DelayType DEF TypeInv, ControlOK
<1>4. worker[w].delay \in Int
  BY <1>1 DEF WorkerState
<1>5. QED
  BY <1>1, <1>2, <1>3, <1>4, DurationAssumption DEF WorkerWaits, InReach

LEMMA TimerWaitsKept ==
  ASSUME TypeInv, TimerWaits, UNCHANGED timer, clock' \in Nat, clock <= clock'
  PROVE  TimerWaits'
<1> SUFFICES ASSUME NEW t \in TimerId
             PROVE  TimerWaits!(t)'
  BY DEF TimerWaits
<1>1. clock \in Nat /\ timer[t] \in Timer \cup {FreeTimer}
  BY DEF TypeInv, TypeOK, ClusterTypeOK
<1>2. timer[t].state # "free" => Expiration(timer[t].item.rec) \in Int
  BY <1>1, DelayType DEF Timer, FreeTimer
<1>3. QED
  BY <1>1, <1>2 DEF TimerWaits

\* A worker's step that leaves the clock and the other workers alone.
LEMMA WorkerWaitsUpdate ==
  ASSUME TypeInv, WorkerWaits, NEW w \in Worker, UNCHANGED clock,
         NEW u, worker' = [worker EXCEPT ![w] = u],
         \A item \in u.items : InReach(item.rec),
         u.pc = "lock"   => Expiration(u.item.rec) <= clock + u.delay,
         u.pc = "delete" => Expiration(u.item.rec) <= clock
  PROVE  WorkerWaits'
<1>1. worker \in [Worker -> WorkerState]
  BY DEF TypeInv, TypeOK
<1> SUFFICES ASSUME NEW v \in Worker PROVE WorkerWaits!(v)'
  BY DEF WorkerWaits
<1>2. CASE v = w
  BY <1>1, <1>2 DEF InReach
<1>3. CASE v # w
  <2>1. worker'[v] = worker[v]
    BY <1>1, <1>3
  <2>2. QED
    BY <2>1 DEF WorkerWaits, InReach
<1>4. QED
  BY <1>2, <1>3

LEMMA WaitWorker ==
  ASSUME TypeInv, WaitInv, NEW w \in Worker, WorkerStep(w)
  PROVE  WorkerWaits' /\ WithinReach' /\ UNCHANGED clock
<1> USE DEF WaitInv
<1> DEFINE self == worker[w]
           Waits(u) == /\ \A item \in u.items : InReach(item.rec)
                       /\ u.pc = "lock"   => Expiration(u.item.rec) <= clock + u.delay
                       /\ u.pc = "delete" => Expiration(u.item.rec) <= clock
<1>0. self \in WorkerState /\ Waits(self) /\ clock \in Nat /\ ClusterTypeOK
  BY DEF TypeInv, TypeOK, ClusterTypeOK, WorkerWaits
<1>i. Waits(IdleWorker)
  BY DEF IdleWorker
<1>u. ASSUME NEW u, worker' = [worker EXCEPT ![w] = u], Waits(u), UNCHANGED <<api, clock>>
      PROVE  WorkerWaits' /\ WithinReach' /\ UNCHANGED clock
  BY <1>0, <1>u, WorkerWaitsUpdate, ReachKept
<1>1. ASSUME NEW r \in Reaper, Dequeue(w, r) PROVE WorkerWaits' /\ WithinReach' /\ UNCHANGED clock
  <2> DEFINE u == [self EXCEPT !.pc = "get", !.reaper = r]
  <2>1. worker' = [worker EXCEPT ![w] = u] /\ UNCHANGED <<api, clock>>
    BY <1>1 DEF Dequeue, clusterVars
  <2>2. Waits(u)
    BY <1>0 DEF WorkerState
  <2>3. QED
    BY <1>u, <2>1, <2>2
<1>2. CASE GetReaper(w)
  <2> DEFINE spec == lister[self.reaper]
             u == [self EXCEPT !.pc = "loop", !.spec = spec, !.nss = {spec.ns}]
             v == [self EXCEPT !.pc = "listns", !.spec = spec]
  <2>1. worker' \in {[worker EXCEPT ![w] = x] : x \in {IdleWorker, u, v}}
    BY <1>2 DEF GetReaper, ReturnError
  <2>2. Waits(u) /\ Waits(v)
    BY <1>0 DEF WorkerState
  <2>3. UNCHANGED <<api, clock>>
    BY <1>2 DEF GetReaper, clusterVars
  <2>4. QED
    BY <1>i, <1>u, <2>1, <2>2, <2>3
<1>3. CASE ListNamespaces(w)
  <2> DEFINE u == [self EXCEPT !.pc = "loop", !.nss = Namespace]
  <2>1. worker' \in {[worker EXCEPT ![w] = x] : x \in {IdleWorker, u}}
    BY <1>3 DEF ListNamespaces, ReturnError
  <2>2. Waits(u)
    BY <1>0 DEF WorkerState
  <2>3. UNCHANGED <<api, clock>>
    BY <1>3 DEF ListNamespaces, APIFails, clusterVars
  <2>4. QED
    BY <1>i, <1>u, <2>1, <2>2, <2>3
<1>4. ASSUME NEW ns \in worker[w].nss, ListItems(w, ns)
      PROVE  WorkerWaits' /\ WithinReach' /\ UNCHANGED clock
  <2> DEFINE found == {Copy(o) : o \in {p \in Listed(self.spec, ns) : IsReapable(api[p])}}
             u == [self EXCEPT !.nss = @ \ {ns}, !.items = found]
             v == [self EXCEPT !.nss = @ \ {ns}]
  <2>1. worker' \in {[worker EXCEPT ![w] = x] : x \in {u, v}}
    BY <1>4 DEF ListItems
  <2>2. \A item \in found : InReach(item.rec)
    BY DEF WithinReach, Listed, Copy
  <2>3. u.items = found /\ u.pc = "loop"
    <3> HIDE DEF found
    <3>1. QED
      BY <1>0, <1>4 DEF WorkerState, ListItems
  <2>4. v.items = self.items /\ v.pc = "loop"
    BY <1>0, <1>4 DEF WorkerState, ListItems
  <2>5. Waits(u) /\ Waits(v)
    <3> HIDE DEF found, u, v
    <3>1. QED
      BY <1>0, <2>2, <2>3, <2>4
  <2>6. UNCHANGED <<api, clock>>
    BY <1>4 DEF ListItems, APIFails, clusterVars
  <2>7. QED
    <3> HIDE DEF u, v, Waits
    <3>1. QED
      BY <1>u, <2>1, <2>5, <2>6
<1>5. CASE Return(w)
  BY <1>5, <1>i, <1>u DEF Return, clusterVars
<1>6. CASE ComputeDelay(w)
  <2>1. PICK item \in self.items :
          worker' = [worker EXCEPT ![w] = [self EXCEPT !.pc = "lock", !.item = item,
                       !.items = @ \ {item}, !.delay = Delay(item.rec, clock)]]
    BY <1>6 DEF ComputeDelay
  <2> DEFINE u == [self EXCEPT !.pc = "lock", !.item = item,
                       !.items = @ \ {item}, !.delay = Delay(item.rec, clock)]
  <2>2. item \in Item /\ Expiration(item.rec) <= clock + MaxDuration
    BY <1>0, <2>1 DEF WorkerState, InReach, Item
  <2>3. Expiration(item.rec) <= clock + Delay(item.rec, clock)
    BY <1>0, <2>2, DelayCoversExpiration DEF Item
  <2>4. /\ u.items = self.items \ {item} /\ u.pc = "lock" /\ u.item = item
        /\ u.delay = Delay(item.rec, clock)
    BY <1>0 DEF WorkerState
  <2>5. Waits(u)
    <3> HIDE DEF u
    <3>1. QED
      BY <1>0, <2>3, <2>4
  <2>6. QED
    <3> HIDE DEF u, Waits
    <3>1. worker' = [worker EXCEPT ![w] = u]
      BY <2>1 DEF u
    <3>2. UNCHANGED <<api, clock>>
      BY <1>6 DEF ComputeDelay, clusterVars
    <3>3. QED
      BY <1>u, <2>5, <3>1, <3>2
<1>7. CASE Schedule(w)
  <2>0. PICK none \in Int : none = 0
    OBVIOUS
  <2> DEFINE u == [self EXCEPT !.pc = "delete", !.delay = none]
             v == [self EXCEPT !.pc = "loop", !.item = Absent, !.delay = none]
  <2>1. self.pc = "lock" /\ self.item \in Item /\ Expiration(self.item.rec) \in Int
    BY <1>7, DelayType DEF Schedule, Expire, Arm, TypeInv, ControlOK
  <2>2. \/ self.delay <= 0 /\ worker' = [worker EXCEPT ![w] = u]
        \/ worker' = [worker EXCEPT ![w] = v]
    BY <1>7, <2>0 DEF Schedule, Expire, Arm
  <2>3. /\ u.items = self.items /\ u.pc = "delete" /\ u.item = self.item
        /\ v.items = self.items /\ v.pc = "loop"
    BY <1>0 DEF WorkerState
  <2>4. self.delay \in Int
    BY <1>0 DEF WorkerState
  <2>5. (self.delay <= 0 => Waits(u)) /\ Waits(v)
    <3> HIDE DEF u, v
    <3>1. QED
      BY <1>0, <2>1, <2>3, <2>4
  <2>6. UNCHANGED <<api, clock>>
    BY <1>7 DEF Schedule, clusterVars
  <2>7. QED
    <3> HIDE DEF u, v, Waits
    <3>1. QED
      BY <1>u, <2>2, <2>5, <2>6
<1>8. CASE DeleteExpired(w)
  <2> DEFINE u == [self EXCEPT !.pc = "loop", !.item = Absent]
  <2>1. worker' = [worker EXCEPT ![w] = u]
    BY <1>8 DEF DeleteExpired
  <2>2. Waits(u)
    BY <1>0 DEF WorkerState
  <2>3. self.item \in Item
    BY <1>8 DEF DeleteExpired, TypeInv, ControlOK
  <2>4. WithinReach' /\ clock' = clock
    BY <1>0, <1>8, <2>3, ReachDelete DEF DeleteExpired, Item
  <2>5. WorkerWaits'
    BY <2>1, <2>2, <2>4, WorkerWaitsUpdate
  <2>6. QED
    BY <2>4, <2>5
<1>9. QED
  BY <1>1, <1>2, <1>3, <1>4, <1>5, <1>6, <1>7, <1>8 DEF WorkerStep

\* A step that changes one timer and leaves the clock alone.
LEMMA TimerWaitsUpdate ==
  ASSUME TypeInv, TimerWaits, NEW t \in TimerId, UNCHANGED clock,
         timer' \in [TimerId -> Timer \cup {FreeTimer}],
         \A u \in TimerId \ {t} : timer'[u] \in {timer[u], FreeTimer},
         timer'[t].state = "armed" => Expiration(timer'[t].item.rec) <= timer'[t].deadline,
         timer'[t].state \in {"fired", "clean"} => Expiration(timer'[t].item.rec) <= clock
  PROVE  TimerWaits'
<1> SUFFICES ASSUME NEW u \in TimerId PROVE TimerWaits!(u)'
  BY DEF TimerWaits
<1>1. CASE u = t
  BY <1>1
<1>2. CASE u # t /\ timer'[u] = timer[u]
  BY <1>2 DEF TimerWaits
<1>3. CASE timer'[u] = FreeTimer
  BY <1>3 DEF FreeTimer
<1>4. QED
  BY <1>1, <1>2, <1>3

LEMMA WaitSchedule ==
  ASSUME TypeInv, WaitInv, NEW w \in Worker, Schedule(w)
  PROVE  TimerWaits'
<1> DEFINE self == worker[w]
           k == KeyOf(self.item.obj)
           due == clock + self.delay
<1>1. /\ self \in WorkerState /\ clock \in Nat /\ UNCHANGED clock
      /\ timer \in [TimerId -> Timer \cup {FreeTimer}]
  BY DEF TypeInv, TypeOK, ClusterTypeOK, Schedule, clusterVars
<1>2. /\ self.item \in Item /\ Expiration(self.item.rec) <= due
  BY DEF Schedule, TypeInv, ControlOK, WaitInv, WorkerWaits
<1>3. \A u \in TimerId : StopExisting(k)[u] \in {timer[u], FreeTimer}
  BY DEF StopExisting
<1>4. due \in Int
  BY <1>1 DEF WorkerState
<1>5. timer' \in [TimerId -> Timer \cup {FreeTimer}]
  <2>1. TypeInv'
    BY TypeWorker DEF WorkerStep
  <2>2. QED
    BY <2>1 DEF TypeInv, TypeOK
<1>6. CASE timer' = StopExisting(k)
  <2> SUFFICES ASSUME NEW u \in TimerId PROVE TimerWaits!(u)'
    BY DEF TimerWaits
  <2>1. timer'[u] \in {timer[u], FreeTimer}
    BY <1>3, <1>6
  <2>2. QED
    BY <1>1, <2>1 DEF FreeTimer, WaitInv, TimerWaits
<1>7. ASSUME NEW t \in TimerId,
             timer' = [StopExisting(k) EXCEPT ![t] =
                         [state |-> "armed", item |-> self.item, deadline |-> due]]
      PROVE  TimerWaits'
  <2>1. /\ timer'[t].state = "armed" /\ timer'[t].item = self.item
        /\ timer'[t].deadline = due
    BY <1>7 DEF StopExisting
  <2>2. \A u \in TimerId \ {t} : timer'[u] = StopExisting(k)[u]
    BY <1>7 DEF StopExisting
  <2>3. \A u \in TimerId \ {t} : timer'[u] \in {timer[u], FreeTimer}
    BY <1>3, <2>2
  <2>4. QED
    BY <1>1, <1>2, <1>5, <2>1, <2>3, TimerWaitsUpdate DEF WaitInv
<1>8. QED
  BY <1>6, <1>7 DEF Schedule, Expire, Arm

LEMMA WaitTimer ==
  ASSUME TypeInv, WaitInv, NEW t \in TimerId, TimerStep(t)
  PROVE  WaitInv'
<1> USE DEF WaitInv
<1>1. /\ clock \in Nat /\ ClusterTypeOK
      /\ timer \in [TimerId -> Timer \cup {FreeTimer}]
      /\ timer' \in [TimerId -> Timer \cup {FreeTimer}]
  <2>1. TypeInv'
    BY TypeTimer
  <2>2. QED
    BY <2>1 DEF TypeInv, TypeOK, ClusterTypeOK
<1>2. CASE Fire(t)
  <2>1. timer[t] \in Timer /\ timer[t].item \in Item
    BY <1>1, <1>2 DEF Fire, FreeTimer, Timer
  <2>2. timer[t].deadline \in Int /\ Expiration(timer[t].item.rec) \in Int
    BY <2>1, DelayType DEF Timer
  <2>3. Expiration(timer[t].item.rec) <= clock
    BY <1>1, <1>2, <2>2 DEF Fire, TimerWaits
  <2>4. timer'[t].state = "fired" /\ timer'[t].item = timer[t].item
    BY <1>1, <1>2, <2>1 DEF Fire, Timer
  <2>5. \A u \in TimerId \ {t} : timer'[u] = timer[u]
    BY <1>1, <1>2 DEF Fire
  <2>6. UNCHANGED <<api, clock, worker>> /\ clock <= clock'
    BY <1>1, <1>2 DEF Fire, clusterVars
  <2>7. TimerWaits'
    BY <1>1, <2>3, <2>4, <2>5, <2>6, TimerWaitsUpdate
  <2>8. QED
    BY <1>1, <2>6, <2>7, ReachKept, WorkerWaitsKept
<1>3. CASE CallbackDelete(t)
  <2>1. timer[t] \in Timer /\ timer[t].item \in Item
    BY <1>1, <1>3 DEF CallbackDelete, FreeTimer, Timer
  <2>2. WithinReach' /\ clock' = clock
    BY <1>1, <1>3, <2>1, ReachDelete DEF CallbackDelete, Item
  <2>3. timer'[t].state = "clean" /\ timer'[t].item = timer[t].item
    BY <1>1, <1>3, <2>1 DEF CallbackDelete, Timer
  <2>4. \A u \in TimerId \ {t} : timer'[u] = timer[u]
    BY <1>1, <1>3 DEF CallbackDelete
  <2>5. Expiration(timer[t].item.rec) <= clock
    BY <1>3 DEF CallbackDelete, TimerWaits
  <2>6. TimerWaits'
    BY <1>1, <2>2, <2>3, <2>4, <2>5, TimerWaitsUpdate
  <2>7. UNCHANGED worker /\ clock' \in Nat /\ clock <= clock'
    BY <1>1, <1>3, <2>2 DEF CallbackDelete
  <2>8. QED
    BY <2>2, <2>6, <2>7, WorkerWaitsKept
<1>4. CASE CallbackCleanup(t)
  <2>1. timer'[t].state = "free" /\ \A u \in TimerId \ {t} : timer'[u] = timer[u]
    BY <1>1, <1>4 DEF CallbackCleanup, FreeTimer
  <2>2. UNCHANGED <<api, clock, worker>> /\ clock <= clock'
    BY <1>1, <1>4 DEF CallbackCleanup, clusterVars
  <2>3. TimerWaits'
    BY <1>1, <2>1, <2>2, TimerWaitsUpdate
  <2>4. QED
    BY <1>1, <2>2, <2>3, ReachKept, WorkerWaitsKept
<1>5. QED
  BY <1>2, <1>3, <1>4 DEF TimerStep

LEMMA WaitEnvironment ==
  ASSUME TypeInv, WaitInv, EnvironmentStep
  PROVE  WaitInv'
<1> USE DEF WaitInv
<1>1. clock \in Nat /\ ClusterTypeOK
  BY DEF TypeInv, TypeOK, ClusterTypeOK
<1>2. ASSUME NEW o \in Object, UserStep(o), UNCHANGED <<worker, timer>> PROVE WaitInv'
  <2>1. clock' = clock
    BY <1>2 DEF UserStep, UserCreate, UserUpdate, UserDelete
  <2>2. QED
    BY <1>1, <1>2, <2>1, ReachUser, WorkerWaitsKept, TimerWaitsKept
<1>3. CASE TimePasses
  <2>1. clock' \in Nat /\ clock <= clock' /\ api' = api
    BY <1>1, <1>3 DEF TimePasses, Tick
  <2>2. WithinReach'
    <3> SUFFICES ASSUME NEW o \in Object, Present(o)
                 PROVE  /\ api[o].created <= clock'
                        /\ IsReapable(api[o]) => Expiration(api[o]) <= clock' + MaxDuration
      BY <2>1 DEF WithinReach, InReach, Present
    <3>1. api[o] \in Rec
      BY <1>1, CopyType
    <3>2. api[o].created \in Nat /\ (IsReapable(api[o]) => Expiration(api[o]) \in Int)
      BY <1>1, <3>1, CopyType, DelayType DEF Rec, Copy
    <3>3. QED
      BY <1>1, <2>1, <3>2, DurationAssumption DEF WithinReach, InReach
  <2>3. QED
    BY <1>3, <2>1, <2>2, WorkerWaitsKept, TimerWaitsKept DEF TimePasses
<1>4. ASSUME NEW r, ListerChanges(r) \/ Enqueue(r) PROVE WaitInv'
  <2>1. UNCHANGED <<api, clock, worker, timer>> /\ clock <= clock'
    BY <1>1, <1>4 DEF ListerChanges, Enqueue, clusterVars
  <2>2. QED
    BY <1>1, <2>1, ReachKept, WorkerWaitsKept, TimerWaitsKept
<1>5. CASE Crash
  <2>1. UNCHANGED <<api, clock>>
    BY <1>5 DEF Crash, clusterVars
  <2>2. WorkerWaits' /\ TimerWaits'
    BY <1>5 DEF Crash, IdleWorker, FreeTimer, WorkerWaits, TimerWaits
  <2>3. QED
    BY <1>1, <2>1, <2>2, ReachKept
<1>6. QED
  BY <1>2, <1>3, <1>4, <1>5 DEF EnvironmentStep

LEMMA WaitNext == TypeInv /\ WaitInv /\ [Next]_vars => WaitInv'
<1> SUFFICES ASSUME TypeInv, WaitInv, [Next]_vars PROVE WaitInv'
  OBVIOUS
<1>1. clock \in Nat /\ ClusterTypeOK
  BY DEF TypeInv, TypeOK, ClusterTypeOK
<1>2. ASSUME NEW w \in Worker, WorkerStep(w) PROVE WaitInv'
  <2>1. WorkerWaits' /\ WithinReach' /\ UNCHANGED clock
    BY <1>2, WaitWorker
  <2>2. CASE Schedule(w)
    BY <2>1, <2>2, WaitSchedule DEF WaitInv
  <2>3. CASE UNCHANGED timer
    <3>1. clock' \in Nat /\ clock <= clock'
      BY <1>1, <2>1
    <3>2. QED
      BY <2>1, <2>3, <3>1, TimerWaitsKept DEF WaitInv
  <2>4. QED
    BY <1>2, <2>2, <2>3 DEF WorkerStep, Dequeue, GetReaper, ListNamespaces, ListItems,
       Return, ComputeDelay, DeleteExpired
<1>3. ASSUME NEW t \in TimerId, TimerStep(t) PROVE WaitInv'
  BY <1>3, WaitTimer
<1>4. CASE EnvironmentStep
  BY <1>4, WaitEnvironment
<1>5. CASE UNCHANGED vars
  <2>1. UNCHANGED <<api, clock, worker, timer>> /\ clock <= clock'
    BY <1>1, <1>5 DEF vars
  <2>2. QED
    BY <1>1, <2>1, ReachKept, WorkerWaitsKept, TimerWaitsKept DEF WaitInv
<1>6. QED
  BY <1>2, <1>3, <1>4, <1>5 DEF Next

LEMMA WarrantedDelete ==
  ASSUME NEW item \in Item, Expiration(item.rec) <= clock, WarrantedReap,
         APIDelete(item.obj, item.rec)
  PROVE  WarrantedReap'
BY DEF APIDelete, APIFails, WarrantedReap, Item, clusterVars

LEMMA WarrantedNext == TypeInv /\ WaitInv /\ WarrantedReap /\ [Next]_vars => WarrantedReap'
<1> SUFFICES ASSUME TypeInv, WaitInv, WarrantedReap, [Next]_vars PROVE WarrantedReap'
  OBVIOUS
<1>1. CASE UNCHANGED lastReap
  BY <1>1 DEF WarrantedReap
<1>2. ASSUME NEW w \in Worker, DeleteExpired(w) PROVE WarrantedReap'
  BY <1>2, WarrantedDelete DEF DeleteExpired, TypeInv, ControlOK, WaitInv, WorkerWaits
<1>3. ASSUME NEW t \in TimerId, CallbackDelete(t) PROVE WarrantedReap'
  <2>1. timer[t].item \in Item
    BY <1>3 DEF CallbackDelete, TypeInv, TypeOK, Timer, FreeTimer
  <2>2. QED
    BY <1>3, <2>1, WarrantedDelete DEF CallbackDelete, WaitInv, TimerWaits
<1>4. QED
  BY <1>1, <1>2, <1>3 DEF Next, vars, WorkerStep, TimerStep, EnvironmentStep, UserStep,
     Dequeue, GetReaper, ListNamespaces, ListItems, Return, ComputeDelay, Schedule, Fire,
     CallbackCleanup, Crash, ListerChanges, Enqueue, UserCreate, UserUpdate, UserDelete,
     TimePasses, Tick,
     APIFails, clusterVars

\* Along every path from the List to the Delete, and whatever crashes, fails or
\* overtakes, an object is deleted only when the copy the reaper listed was
\* finished, had a TTL and has expired (ttlreaper.go:177-263).
THEOREM DeletesOnWarrant == Spec => []WarrantedReap
<1>1. Init => WaitInv /\ WarrantedReap
  BY WaitInit
<1>2. TypeInv /\ WaitInv /\ WarrantedReap /\ [Next]_vars => WaitInv' /\ WarrantedReap'
  BY WaitNext, WarrantedNext
<1>3. QED
  BY <1>1, <1>2, Typing, PTL DEF Spec

-----------------------------------------------------------------------------
(***************************************************************************)
(* Refinement.  A step either looks (what is held afterwards was held      *)
(* before or is in the cluster now), or deletes on a warrant held before   *)
(* whose time has run out, or is the environment's.                        *)
(***************************************************************************)
May == Held \cup Policy!Grantable

LEMMA HeldWithin ==
  ASSUME NEW S, \A w \in Worker : HeldBy(worker'[w]) \subseteq S,
         \A t \in TimerId : HeldIn(timer'[t]) \subseteq S
  PROVE  Held' \subseteq S
BY DEF Held, HeldBy, HeldIn

LEMMA HeldParts ==
  /\ \A w \in Worker : HeldBy(worker[w]) \subseteq Held
  /\ \A t \in TimerId : HeldIn(timer[t]) \subseteq Held
BY DEF Held

LEMMA FreeHoldsNothing == HeldIn(FreeTimer) = {} /\ HeldBy(IdleWorker) = {}
BY DEF HeldIn, FreeTimer, HeldBy, IdleWorker

LEMMA HeldWorkerUpdate ==
  ASSUME TypeInv, NEW S, Held \subseteq S, NEW w \in Worker, UNCHANGED timer,
         NEW u, worker' = [worker EXCEPT ![w] = u], HeldBy(u) \subseteq S
  PROVE  Held' \subseteq S
<1>1. worker \in [Worker -> WorkerState]
  BY DEF TypeInv, TypeOK
<1>2. \A v \in Worker : HeldBy(worker'[v]) \subseteq S
  BY <1>1, HeldParts
<1>3. QED
  BY <1>2, HeldWithin, HeldParts

LEMMA HeldDelete ==
  ASSUME TypeInv, NEW w \in Worker, DeleteExpired(w)
  PROVE  Held' \subseteq Held
<1> DEFINE self == worker[w]
           u == [self EXCEPT !.pc = "loop", !.item = Absent]
<1>1. worker' = [worker EXCEPT ![w] = u] /\ UNCHANGED timer
  BY DEF DeleteExpired
<1>2. HeldBy(u) \subseteq HeldBy(self)
  BY DEF HeldBy, WorkerState, TypeInv, TypeOK
<1>3. HeldBy(u) \subseteq Held
  BY <1>2, HeldParts
<1>4. QED
  <2> HIDE DEF u
  <2>1. QED
    BY <1>1, <1>3, HeldWorkerUpdate

LEMMA LooksWorker ==
  ASSUME TypeInv, NEW w \in Worker, WorkerStep(w)
  PROVE  Held' \subseteq May
<1> DEFINE self == worker[w]
<1>0. self \in WorkerState
  BY DEF TypeInv, TypeOK
<1>u. ASSUME NEW u, worker' = [worker EXCEPT ![w] = u], UNCHANGED timer,
             HeldBy(u) \subseteq May
      PROVE  Held' \subseteq May
  BY <1>u, HeldWorkerUpdate DEF May
<1>h. HeldBy(self) \subseteq May /\ Held \subseteq May /\ HeldBy(IdleWorker) \subseteq May
  BY HeldParts, FreeHoldsNothing DEF May
<1>v. ASSUME NEW u, NEW v,
             worker' \in {[worker EXCEPT ![w] = x] : x \in {IdleWorker, u, v}}, UNCHANGED timer,
             HeldBy(u) \subseteq HeldBy(self), HeldBy(v) \subseteq HeldBy(self)
      PROVE  Held' \subseteq May
  BY <1>u, <1>h, <1>v
<1>1. ASSUME NEW r \in Reaper, Dequeue(w, r) PROVE Held' \subseteq May
  <2> DEFINE u == [self EXCEPT !.pc = "get", !.reaper = r]
  <2>1. worker' = [worker EXCEPT ![w] = u] /\ UNCHANGED timer
    BY <1>1 DEF Dequeue
  <2>2. HeldBy(u) \subseteq HeldBy(self)
    BY <1>0 DEF HeldBy, WorkerState
  <2>3. QED
    <3> HIDE DEF u
    <3>1. QED
      BY <1>v, <2>1, <2>2
<1>2. CASE GetReaper(w)
  <2> DEFINE spec == lister[self.reaper]
             u == [self EXCEPT !.pc = "loop", !.spec = spec, !.nss = {spec.ns}]
             v == [self EXCEPT !.pc = "listns", !.spec = spec]
  <2>1. worker' \in {[worker EXCEPT ![w] = x] : x \in {IdleWorker, u, v}} /\ UNCHANGED timer
    BY <1>2 DEF GetReaper, ReturnError
  <2>2. HeldBy(u) \subseteq HeldBy(self) /\ HeldBy(v) \subseteq HeldBy(self)
    BY <1>0 DEF HeldBy, WorkerState
  <2>3. QED
    <3> HIDE DEF u, v
    <3>1. QED
      BY <1>v, <2>1, <2>2
<1>3. CASE ListNamespaces(w)
  <2> DEFINE u == [self EXCEPT !.pc = "loop", !.nss = Namespace]
  <2>1. worker' \in {[worker EXCEPT ![w] = x] : x \in {IdleWorker, u}} /\ UNCHANGED timer
    BY <1>3 DEF ListNamespaces, ReturnError
  <2>2. HeldBy(u) \subseteq HeldBy(self)
    BY <1>0 DEF HeldBy, WorkerState
  <2>3. QED
    <3> HIDE DEF u
    <3>1. QED
      BY <1>v, <2>1, <2>2
<1>4. ASSUME NEW ns \in worker[w].nss, ListItems(w, ns) PROVE Held' \subseteq May
  <2> DEFINE found == {Copy(o) : o \in {p \in Listed(self.spec, ns) : IsReapable(api[p])}}
             u == [self EXCEPT !.nss = @ \ {ns}, !.items = found]
             v == [self EXCEPT !.nss = @ \ {ns}]
  <2>1. worker' \in {[worker EXCEPT ![w] = x] : x \in {u, v}} /\ UNCHANGED timer
    BY <1>4 DEF ListItems
  <2>2. found \subseteq May
    BY DEF Copy, Listed, May, Present, IsReapable, IsResourceFinished, FinishedPhases,
       FinishedConditions, Policy!Grantable, Policy!Present, Policy!IsReapable,
       Policy!IsResourceFinished, Policy!FinishedPhases, Policy!FinishedConditions
  <2>3. self.pc = "loop" /\ self.items = {}
    BY <1>4 DEF ListItems
  <2>4. u.items = found /\ u.pc = "loop" /\ v.items = {} /\ v.pc = "loop"
    <3> HIDE DEF found
    <3>1. QED
      BY <1>0, <2>3 DEF WorkerState
  <2>5. HeldBy(u) \subseteq May /\ HeldBy(v) \subseteq May
    <3> HIDE DEF found, u, v
    <3>1. QED
      BY <2>2, <2>4 DEF HeldBy
  <2>6. QED
    <3> HIDE DEF u, v
    <3>1. QED
      BY <1>u, <2>1, <2>5
<1>5. CASE Return(w)
  BY <1>5, <1>v DEF Return
<1>6. CASE ComputeDelay(w)
  <2>1. PICK item \in self.items :
          worker' = [worker EXCEPT ![w] = [self EXCEPT !.pc = "lock", !.item = item,
                       !.items = @ \ {item}, !.delay = Delay(item.rec, clock)]]
    BY <1>6 DEF ComputeDelay
  <2> DEFINE u == [self EXCEPT !.pc = "lock", !.item = item,
                       !.items = @ \ {item}, !.delay = Delay(item.rec, clock)]
  <2>2. u.items = self.items \ {item} /\ u.pc = "lock" /\ u.item = item
    BY <1>0 DEF WorkerState
  <2>3. HeldBy(u) \subseteq HeldBy(self)
    <3> HIDE DEF u
    <3>1. QED
      BY <2>1, <2>2 DEF HeldBy
  <2>4. QED
    <3> HIDE DEF u
    <3>1. worker' = [worker EXCEPT ![w] = u] /\ UNCHANGED timer
      BY <1>6, <2>1 DEF ComputeDelay, u
    <3>2. QED
      BY <1>v, <2>3, <3>1
<1>7. CASE Schedule(w)
  <2>0. PICK none \in Int : none = 0
    OBVIOUS
  <2> DEFINE k == KeyOf(self.item.obj)
             due == clock + self.delay
             u == [self EXCEPT !.pc = "delete", !.delay = none]
             v == [self EXCEPT !.pc = "loop", !.item = Absent, !.delay = none]
  <2>1. self.pc = "lock"
    BY <1>7 DEF Schedule, Expire, Arm
  <2>2. worker' \in {[worker EXCEPT ![w] = u], [worker EXCEPT ![w] = v]}
    BY <1>7, <2>0 DEF Schedule, Expire, Arm
  <2>3. u.items = self.items /\ u.pc = "delete" /\ u.item = self.item
        /\ v.items = self.items /\ v.pc = "loop"
    BY <1>0 DEF WorkerState
  <2>4. HeldBy(u) \subseteq HeldBy(self) /\ HeldBy(v) \subseteq HeldBy(self)
        /\ self.item \in HeldBy(self)
    <3> HIDE DEF u, v
    <3>1. QED
      BY <2>1, <2>3 DEF HeldBy
  <2>5. \A x \in Worker : HeldBy(worker'[x]) \subseteq May
    <3> HIDE DEF u, v
    <3>1. worker \in [Worker -> WorkerState]
      BY DEF TypeInv, TypeOK
    <3>2. QED
      BY <1>h, <2>2, <2>4, <3>1, HeldParts
  <2>6. \A t \in TimerId : HeldIn(StopExisting(k)[t]) \subseteq May
    BY <1>h, HeldParts, FreeHoldsNothing DEF StopExisting
  <2>7. ASSUME NEW t \in TimerId,
               timer' = [StopExisting(k) EXCEPT ![t] =
                           [state |-> "armed", item |-> self.item, deadline |-> due]]
        PROVE  \A x \in TimerId : HeldIn(timer'[x]) \subseteq May
    <3>1. HeldIn(timer'[t]) = {self.item}
      BY <2>7 DEF StopExisting, HeldIn
    <3>2. \A x \in TimerId \ {t} : timer'[x] = StopExisting(k)[x]
      BY <2>7 DEF StopExisting
    <3>3. QED
      BY <1>h, <2>4, <2>6, <3>1, <3>2
  <2>8. \A x \in TimerId : HeldIn(timer'[x]) \subseteq May
    BY <1>7, <2>6, <2>7 DEF Schedule, Expire, Arm
  <2>9. QED
    BY <2>5, <2>8, HeldWithin
<1>8. CASE DeleteExpired(w)
  BY <1>8, <1>h, HeldDelete
<1>9. QED
  BY <1>1, <1>2, <1>3, <1>4, <1>5, <1>6, <1>7, <1>8 DEF WorkerStep

LEMMA LooksTimer ==
  ASSUME TypeInv, NEW t \in TimerId, TimerStep(t)
  PROVE  Held' \subseteq Held
<1>1. timer \in [TimerId -> Timer \cup {FreeTimer}]
  BY DEF TypeInv, TypeOK
<1>2. timer[t].state # "free" => timer[t] \in Timer
  BY <1>1 DEF FreeTimer
<1>3. \A u \in TimerId \ {t} : timer'[u] = timer[u]
  BY <1>1 DEF TimerStep, Fire, CallbackDelete, CallbackCleanup
<1>4. HeldIn(timer'[t]) \subseteq HeldIn(timer[t])
  BY <1>1, <1>2 DEF TimerStep, Fire, CallbackDelete, CallbackCleanup, HeldIn, Timer, FreeTimer
<1>5. UNCHANGED worker
  BY DEF TimerStep, Fire, CallbackDelete, CallbackCleanup
<1>6. QED
  BY <1>3, <1>4, <1>5, HeldParts, HeldWithin

\* A Delete call on a held copy that has expired is a Reap, or changes nothing
\* the policy sees.
LEMMA DeleteIsReap ==
  ASSUME NEW item \in Held, Expiration(item.rec) <= clock, Held' \subseteq Held,
         APIDelete(item.obj, item.rec)
  PROVE  Policy!PolicyNext
<1>1. CASE /\ Present(item.obj)
           /\ api' = [api EXCEPT ![item.obj] = Gone]
           /\ lastReap' = [obj |-> item.obj, was |-> api[item.obj], by |-> item.rec, at |-> clock]
           /\ UNCHANGED clock
  <2>1. Policy!Reap(item)
    BY <1>1 DEF Policy!Reap, Policy!Present, Present, Policy!Expiration, Expiration,
       Policy!FinishTime, FinishTime, Policy!Wrap, Wrap
  <2>2. QED
    BY <2>1 DEF Policy!PolicyNext
<1>2. CASE UNCHANGED <<api, clock, lastReap>>
  BY <1>2 DEF Policy!PolicyNext, Policy!Look
<1>3. QED
  BY <1>1, <1>2 DEF APIDelete, APIFails, clusterVars

LEMMA StepImplements == TypeInv /\ WaitInv /\ [Next]_vars => [Policy!PolicyNext]_(Policy!policyVars)
<1> SUFFICES ASSUME TypeInv, WaitInv, [Next]_vars
             PROVE  [Policy!PolicyNext]_(Policy!policyVars)
  OBVIOUS
<1>1. Held' \subseteq May /\ UNCHANGED <<api, clock, lastReap>> => Policy!PolicyNext
  BY DEF Policy!PolicyNext, Policy!Look, May
<1>2. ASSUME NEW w \in Worker, WorkerStep(w) PROVE Policy!PolicyNext
  <2>1. CASE DeleteExpired(w)
    <3>1. worker[w].item \in Held
      BY <2>1, HeldParts DEF DeleteExpired, HeldBy
    <3>2. Expiration(worker[w].item.rec) <= clock
      BY <2>1 DEF DeleteExpired, WaitInv, WorkerWaits
    <3>3. QED
      BY <2>1, <3>1, <3>2, HeldDelete, DeleteIsReap DEF DeleteExpired
  <2>2. CASE UNCHANGED <<api, clock, lastReap>>
    BY <1>1, <1>2, <2>2, LooksWorker
  <2>3. QED
    BY <1>2, <2>1, <2>2 DEF WorkerStep, Dequeue, GetReaper, ListNamespaces, ListItems, Return,
       ComputeDelay, Schedule, APIFails, clusterVars
<1>3. ASSUME NEW t \in TimerId, TimerStep(t) PROVE Policy!PolicyNext
  <2>1. CASE CallbackDelete(t)
    <3>1. timer[t].item \in Held
      BY <2>1, HeldParts DEF CallbackDelete, HeldIn
    <3>2. Expiration(timer[t].item.rec) <= clock
      BY <2>1 DEF CallbackDelete, WaitInv, TimerWaits
    <3>3. QED
      BY <1>3, <2>1, <3>1, <3>2, LooksTimer, DeleteIsReap DEF CallbackDelete
  <2>2. CASE UNCHANGED <<api, clock, lastReap>>
    BY <1>1, <1>3, <2>2, LooksTimer DEF May
  <2>3. QED
    BY <1>3, <2>1, <2>2 DEF TimerStep, Fire, CallbackCleanup, clusterVars
<1>4. ASSUME NEW o \in Object, UserStep(o), UNCHANGED <<worker, timer>> PROVE Policy!PolicyNext
  <2>1. UNCHANGED Held
    BY <1>4 DEF Held
  <2>2. Policy!UserStep(o)
    BY <1>4 DEF UserStep, UserCreate, UserUpdate, UserDelete, Stamped, Present,
       IsResourceFinished, FinishedPhases, FinishedConditions, Policy!UserStep,
       Policy!UserCreate, Policy!UserUpdate, Policy!UserDelete, Policy!Stamped, Policy!Present,
       Policy!IsResourceFinished, Policy!FinishedPhases, Policy!FinishedConditions
  <2>3. QED
    BY <2>1, <2>2 DEF Policy!PolicyNext, Policy!Others
<1>5. CASE TimePasses
  <2>1. UNCHANGED Held
    BY <1>5 DEF TimePasses, Held
  <2>2. Policy!Tick
    BY <1>5 DEF TimePasses, Tick, Policy!Tick
  <2>3. QED
    BY <2>1, <2>2 DEF Policy!PolicyNext, Policy!Others
<1>6. CASE Crash
  <2>1. Held' \subseteq May
    BY <1>6, HeldWithin, FreeHoldsNothing DEF Crash
  <2>2. QED
    BY <1>1, <1>6, <2>1 DEF Crash, clusterVars
<1>7. CASE UNCHANGED <<api, clock, lastReap, worker, timer>>
  BY <1>7 DEF Held, Policy!policyVars
<1>8. CASE EnvironmentStep
  BY <1>4, <1>5, <1>6, <1>7, <1>8 DEF EnvironmentStep, ListerChanges, Enqueue, clusterVars
<1>9. QED
  BY <1>2, <1>3, <1>7, <1>8 DEF Next, vars

LEMMA InitImplements == Init => Policy!PolicyInit
BY FreeHoldsNothing DEF Init, ClusterInit, ReaperInit, Policy!PolicyInit, Held

\* The reaper, with its queue, workers, locks, timers and crashes, implements
\* ReapPolicy: it takes copies of finished objects only from the cluster, and
\* deletes only on one of them that has expired (ttlreaper.go:145-272).
THEOREM Refinement == Spec => ImplementsPolicy
<1>1. Init => Policy!PolicyInit
  BY InitImplements
<1>2. Init => WaitInv
  BY WaitInit
<1>3. TypeInv /\ WaitInv /\ [Next]_vars => WaitInv'
  BY WaitNext
<1>4. TypeInv /\ WaitInv /\ [Next]_vars => [Policy!PolicyNext]_(Policy!policyVars)
  BY StepImplements
<1>5. QED
  BY <1>1, <1>2, <1>3, <1>4, Typing, PTL DEF Spec, ImplementsPolicy, Policy!PolicySpec

-----------------------------------------------------------------------------
(***************************************************************************)
(* When names are not used again and what has finished is not changed, a   *)
(* warrant stays true: its name holds the copied object, or nothing.       *)
(***************************************************************************)
Frozen == ~MayReuse /\ ~MayEdit

Fresh ==
  /\ \A item \in Held : /\ IsReapable(item.rec) /\ item.rec \notin {Unborn, Gone}
                        /\ api[item.obj] \in {item.rec, Gone}
  /\ lastReap # Absent => lastReap.was = lastReap.by

LEMMA FreshInit == Init => Fresh
BY InitImplements DEF Fresh, Policy!PolicyInit

LEMMA HeldItems == TypeInv => Held \subseteq Item
<1> SUFFICES ASSUME TypeInv PROVE Held \subseteq Item
  OBVIOUS
<1>1. ASSUME NEW w \in Worker PROVE HeldBy(worker[w]) \subseteq Item
  BY DEF TypeInv, TypeOK, ControlOK, WorkerState, HeldBy
<1>2. ASSUME NEW t \in TimerId PROVE HeldIn(timer[t]) \subseteq Item
  BY DEF TypeInv, TypeOK, Timer, FreeTimer, HeldIn
<1>3. QED
  BY <1>1, <1>2 DEF Held

LEMMA FreshKept ==
  ASSUME TypeInv, Fresh, Frozen, Policy!PolicyNext
  PROVE  Fresh'
<1>0. /\ api \in [Object -> Rec \cup {Unborn, Gone}]
      /\ \A item \in Held : item.obj \in Object
  BY HeldItems DEF TypeInv, TypeOK, ClusterTypeOK, Item
<1>1. CASE Policy!Look
  BY <1>1 DEF Fresh, Policy!Look, Policy!Grantable, Policy!Present, IsReapable,
     IsResourceFinished, FinishedPhases, FinishedConditions, Policy!IsReapable,
     Policy!IsResourceFinished, Policy!FinishedPhases, Policy!FinishedConditions
<1>2. ASSUME NEW item \in Held, Policy!Reap(item) PROVE Fresh'
  <2>1. \A x \in Held : api'[x.obj] \in {api[x.obj], Gone}
    BY <1>0, <1>2 DEF Policy!Reap
  <2>2. Held' \subseteq Held
    BY <1>2 DEF Policy!Reap
  <2>3. lastReap'.was = lastReap'.by
    BY <1>2 DEF Policy!Reap, Policy!Present, Fresh
  <2>4. QED
    BY <2>1, <2>2, <2>3 DEF Fresh
<1>3. CASE Policy!Others
  <2>1. Held' = Held /\ lastReap' = lastReap
    BY <1>3 DEF Policy!Others, Policy!UserStep, Policy!UserCreate, Policy!UserUpdate,
       Policy!UserDelete, Policy!Tick
  <2>2. ASSUME NEW o \in Object, Policy!UserStep(o), NEW item \in Held
        PROVE  api'[item.obj] \in {api[item.obj], Gone}
    <3>1. CASE item.obj # o
      BY <1>0, <2>2, <3>1 DEF Policy!UserStep, Policy!UserCreate, Policy!UserUpdate,
         Policy!UserDelete
    <3>2. CASE item.obj = o
      <4>1. api[o] \in {item.rec, Gone} /\ IsResourceFinished(item.rec) /\ item.rec # Unborn
        BY <3>2 DEF Fresh, IsReapable
      <4>2. ~Policy!UserCreate(o)
        BY <4>1, ClusterAssumption DEF Policy!UserCreate, Frozen
      <4>3. ~Policy!UserUpdate(o)
        BY <4>1 DEF Policy!UserUpdate, Policy!Present, Frozen, Policy!IsResourceFinished,
           IsResourceFinished, Policy!FinishedPhases, Policy!FinishedConditions,
           FinishedPhases, FinishedConditions
      <4>4. QED
        BY <1>0, <2>2, <3>2, <4>2, <4>3 DEF Policy!UserStep, Policy!UserDelete
    <3>3. QED
      BY <3>1, <3>2
  <2>3. \A item \in Held : api'[item.obj] \in {api[item.obj], Gone}
    BY <1>3, <2>2 DEF Policy!Others, Policy!Tick
  <2>4. QED
    BY <2>1, <2>3 DEF Fresh
<1>4. QED
  BY <1>1, <1>2, <1>3 DEF Policy!PolicyNext

LEMMA FreshNext == Frozen /\ TypeInv /\ WaitInv /\ Fresh /\ [Next]_vars => Fresh'
<1> SUFFICES ASSUME Frozen, TypeInv, WaitInv, Fresh, [Next]_vars PROVE Fresh'
  OBVIOUS
<1>1. CASE Policy!PolicyNext
  BY <1>1, FreshKept
<1>2. CASE UNCHANGED Policy!policyVars
  BY <1>2 DEF Policy!policyVars, Fresh
<1>3. QED
  BY <1>1, <1>2, StepImplements

\* When users neither reuse a name nor change what has finished, what a Delete
\* removes is the very object that was listed, finished and expired: the
\* README's description of the reaper holds (ttlreaper.go:224-263).
THEOREM FrozenReapsOnlyExpired == Frozen /\ Spec => []ReapsOnlyExpired
<1>1. Init => WaitInv /\ WarrantedReap /\ Fresh
  BY WaitInit, FreshInit
<1>2. Frozen /\ TypeInv /\ WaitInv /\ WarrantedReap /\ Fresh /\ [Next]_vars =>
        WaitInv' /\ WarrantedReap' /\ Fresh'
  BY WaitNext, WarrantedNext, FreshNext
<1>3. WarrantedReap /\ Fresh => ReapsOnlyExpired
  BY DEF WarrantedReap, Fresh, ReapsOnlyExpired
<1>4. SUFFICES ASSUME Frozen PROVE Spec => []ReapsOnlyExpired
  OBVIOUS
<1>5. QED
  BY <1>1, <1>2, <1>3, <1>4, Typing, PTL DEF Spec
=============================================================================
