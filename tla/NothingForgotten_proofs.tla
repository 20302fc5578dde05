----------------------- MODULE NothingForgotten_proofs ----------------------
(***************************************************************************)
(* No covered, finished object is ever forgotten, for any objects,         *)
(* TTLReapers, workers and timers, under the three assumptions below.  The *)
(* runs collision and watch_plural show what the first two are for.        *)
(***************************************************************************)
EXTENDS Controller_proofs

\* No two objects have one key (ttlreaper.go:172).
KeysApart == \A o, p \in Object : KeyOf(o) = KeyOf(p) => o = p

\* What a spec lists it also watches and is enqueued for (ttlreaper.go:307-319;
\* controller.go:169-195).
SeenAsListed ==
  \A o \in Object, spec \in ReaperSpec :
    ~Rejected(spec) /\ ListGVR(spec) = ServedGVR(o) =>
      Targets(spec, o) /\ WatchParses(spec) /\ WatchGVR(spec) = ServedGVR(o)

\* Every object is in a namespace there is.
Housed == \A o \in Object : o.ns \in Namespace

Orderly == KeysApart /\ SeenAsListed /\ Housed

\* Targets as example.yaml has them: of a kind whose plural is a plain s, written
\* with its capitals, in a version that names its group.
PlainTargets ==
  \A spec \in ReaperSpec : ~Rejected(spec) =>
    /\ spec.kind = [stem |-> spec.kind.stem, ending |-> "plain", cased |-> TRUE]
    /\ spec.version = [form |-> "grouped", group |-> spec.version.group]
    /\ spec.version.group # CoreGroup

\* Objects have kinds as the API server writes them.
KindsAsServed ==
  \A o \in Object :
    /\ o.kind.ending \in {"plain", "y", "ay", "s", "ch"}
    /\ o.kind = [stem |-> o.kind.stem, ending |-> o.kind.ending, cased |-> TRUE]

\* That is enough for what is listed to be watched, whatever else is stored.
LEMMA PlainTargetsSeen == PlainTargets /\ KindsAsServed => SeenAsListed
<1> SUFFICES ASSUME PlainTargets, KindsAsServed, NEW o \in Object, NEW spec \in ReaperSpec,
                    ~Rejected(spec), ListGVR(spec) = ServedGVR(o)
             PROVE  /\ Targets(spec, o)
                    /\ WatchParses(spec) /\ WatchGVR(spec) = ServedGVR(o)
  BY DEF SeenAsListed
<1>1. /\ spec.kind = [stem |-> spec.kind.stem, ending |-> "plain", cased |-> TRUE]
      /\ spec.version = [form |-> "grouped", group |-> spec.version.group]
      /\ spec.version.group # CoreGroup
  BY DEF PlainTargets
<1>2. spec.version.group = o.group /\ GetResourceName(spec.kind) = ServedName(o.kind)
  BY DEF ListGVR, ServedGVR
<1>3. spec.kind.stem = o.kind.stem /\ o.kind.ending = "plain"
  <2>1. GetResourceName(spec.kind) = [stem |-> spec.kind.stem, text |-> "s"]
    BY <1>1 DEF GetResourceName
  <2>2. ServedName(o.kind).stem = o.kind.stem
    BY DEF ServedName
  <2>3. o.kind.ending # "plain" => ServedName(o.kind).text # "s"
    BY DEF ServedName, KindsAsServed
  <2> QED BY <1>2, <2>1, <2>2, <2>3
<1>4. spec.kind = o.kind
  BY <1>1, <1>3 DEF KindsAsServed
<1>5. Targets(spec, o)
  BY <1>1, <1>2, <1>4, ReaperAssumption DEF Targets, VersionOf
<1> QED BY <1>1, <1>5, SameGVR

(***************************************************************************)
(* The invariant.  NothingForgotten is not inductive: a TTLReaper that is  *)
(* taken back before its informer saw the change leaves no trace of it.    *)
(* So it is the cached spec that matters, and each TTLReaper for itself.   *)
(***************************************************************************)
Needs(r, o) == Present(o) /\ IsReapable(api[o]) /\ Covers(lister[r], o)

\* A worker that has still to list o for r.
ListsFor(w, r, o) ==
  /\ worker[w].reaper = r /\ worker[w].pc # "idle"
  /\ \/ worker[w].pc = "get"
     \/ worker[w].spec = lister[r] /\ (worker[w].pc = "listns" \/ o.ns \in worker[w].nss)

Unwatched(r) == WatchParses(lister[r]) /\ WatchGVR(lister[r]) \notin watched

ToList(r, o) == r \in dirty \/ Unwatched(r) \/ \E w \in Worker : ListsFor(w, r, o)

\* A copy of o is held by a worker, or by a timer that has yet to delete it.
WorkerTends(w, o) == \E item \in HeldBy(worker[w]) : item.obj = o
TimerTends(t, o) == \E item \in HeldIn(timer[t]) : item.obj = o
Tended(o) == (\E w \in Worker : WorkerTends(w, o)) \/ (\E t \in TimerId : TimerTends(t, o))

Remembered ==
  \A o \in Object \ missed, r \in Reaper :
    Needs(r, o) => o \in events \/ ToList(r, o) \/ Tended(o)

LEMMA TendedHeld ==
  ASSUME NEW o PROVE Tended(o) <=> \E item \in Held : item.obj = o
BY DEF Tended, WorkerTends, TimerTends, Held

LEMMA RememberedSuffices == Remembered => NothingForgotten
<1> SUFFICES ASSUME Remembered, NEW o \in Object \ missed, Wanted(o)
             PROVE  Noticed(o) \/ \E item \in Held : item.obj = o
  BY DEF NothingForgotten
<1>1. PICK r \in Reaper : Covers(reapers[r], o)
  BY DEF Wanted
<1>2. CASE lister[r] # reapers[r]
  BY <1>1, <1>2 DEF Noticed, Queued
<1>3. CASE lister[r] = reapers[r]
  <2>1. o \in events \/ ToList(r, o) \/ Tended(o)
    BY <1>1, <1>3 DEF Remembered, Needs, Wanted
  <2>2. ToList(r, o) => Queued(r, o)
    BY DEF ToList, Unwatched, ListsFor, Queued
  <2> QED BY <1>1, <2>1, <2>2, TendedHeld DEF Noticed
<1> QED BY <1>2, <1>3

LEMMA RememberedInit ==
  ASSUME api = [o \in Object |-> Unborn] PROVE Remembered
BY DEF Remembered, Needs, Present

-----------------------------------------------------------------------------
\* A covered object is watched as it is listed.
LEMMA CoveredSeen ==
  ASSUME SeenAsListed, NEW spec \in ReaperSpec, NEW o \in Object, Covers(spec, o)
  PROVE  /\ Targets(spec, o)
         /\ WatchParses(spec) /\ WatchGVR(spec) = ServedGVR(o)
         /\ spec.ns \in {Absent, o.ns} /\ ~Rejected(spec) /\ spec.sel # Malformed
BY DEF Covers, Listed, SeenAsListed

\* What is needed was needed, unless its object or the cache changed.
LEMMA NeededBefore ==
  ASSUME NEW o \in Object, NEW r \in Reaper, Needs(r, o)',
         api'[o] \in {api[o], Gone}, lister'[r] = lister[r]
  PROVE  api'[o] = api[o] /\ Needs(r, o)
BY DEF Needs, Present, Covers, Listed

\* Deleting spares or removes every object; its own is gone, or it was missed.
LEMMA Deleting ==
  ASSUME ClusterTypeOK, NEW p \in Object, NEW by, APIDelete(p, by), NEW o \in Object
  PROVE  /\ api'[o] \in {api[o], Gone}
         /\ missed \subseteq missed'
         /\ p \in missed' \/ ~Present(p)'
BY DEF APIDelete, APIFails, ClusterTypeOK, Present, clusterVars

\* A step that does nothing to objects but delete them.
DeletesOnly ==
  /\ \A o \in Object : api'[o] \in {api[o], Gone}
  /\ missed \subseteq missed'

LEMMA WorkerCluster ==
  ASSUME TypeInv, NEW w \in Worker, WorkerStep(w)
  PROVE  DeletesOnly
<1> USE DEF DeletesOnly
<1>1. CASE DeleteExpired(w)
  <2>1. worker[w].item.obj \in Object
    BY <1>1 DEF DeleteExpired, TypeInv, ControlOK, Item
  <2> QED BY <1>1, <2>1, Deleting DEF DeleteExpired, TypeInv, TypeOK
<1>2. ASSUME NEW objects, APIFails(objects) PROVE DeletesOnly
  BY <1>2 DEF APIFails
<1>3. CASE UNCHANGED clusterVars
  BY <1>3 DEF clusterVars
<1>4. CASE ~DeleteExpired(w)
  BY <1>2, <1>3, <1>4 DEF WorkerStep, Dequeue, GetReaper, ListNamespaces, ListItems, Return,
     ComputeDelay, Schedule
<1> QED BY <1>1, <1>4

LEMMA TimerCluster ==
  ASSUME TypeInv, NEW t \in TimerId, TimerStep(t)
  PROVE  DeletesOnly
<1> USE DEF DeletesOnly
<1>1. CASE CallbackDelete(t)
  <2>1. timer[t].item.obj \in Object
    BY <1>1 DEF CallbackDelete, TypeInv, TypeOK, Timer, FreeTimer, Item
  <2> QED BY <1>1, <2>1, Deleting DEF CallbackDelete, TypeInv, TypeOK
<1>2. CASE ~CallbackDelete(t)
  BY <1>2 DEF TimerStep, Fire, CallbackCleanup, clusterVars
<1> QED BY <1>1, <1>2

-----------------------------------------------------------------------------
LEMMA KeepsListing ==
  ASSUME NEW w, NEW o, NEW r, lister' = lister, worker'[w].reaper = r,
         worker'[w].spec = lister[r], worker'[w].pc # "idle",
         worker'[w].pc = "listns" \/ o.ns \in worker'[w].nss
  PROVE  ListsFor(w, r, o)'
BY DEF ListsFor

\* What a worker has just listed: all its items are copies of what is stored.
JustListed(w) ==
  /\ worker[w].pc = "loop"
  /\ \A item \in worker[w].items : item = Copy(item.obj)

\* A worker that is to list o goes on to, or lists it.
LEMMA ListerGoesOn ==
  ASSUME TypeInv, Orderly, NEW w \in Worker, WorkerStep(w), NEW o \in Object, NEW r \in Reaper,
         Needs(r, o), ListsFor(w, r, o), o \notin missed'
  PROVE  \/ r \in dirty' \/ ListsFor(w, r, o)'
         \/ JustListed(w)' /\ Copy(o) \in worker'[w].items
<1> lister' = lister
  BY DEF WorkerStep, Dequeue, GetReaper, ListNamespaces, ListItems, Return, ComputeDelay, Schedule,
     DeleteExpired
<1> lister[r] \in ReaperSpec /\ Covers(lister[r], o)
  BY DEF Needs, Covers, TypeInv, TypeOK
<1>0. lister[r].ns \in {Absent, o.ns} /\ ~Rejected(lister[r]) /\ lister[r].sel # Malformed
  BY CoveredSeen DEF Orderly
<1> worker \in [Worker -> WorkerState]
  BY DEF TypeInv, TypeOK
<1>1. ASSUME NEW q \in Reaper, Dequeue(w, q) PROVE FALSE
  BY <1>1 DEF Dequeue, ListsFor
<1> worker[w] \in WorkerState
  OBVIOUS
<1>2. CASE GetReaper(w)
  <2>1. worker[w].reaper = r /\ lister[r] # Absent
    BY DEF ListsFor, Needs, Covers
  <2>2. CASE lister[r].ns # Absent
    <3>1. worker' = [worker EXCEPT ![w].pc = "loop", ![w].spec = lister[r],
                                   ![w].nss = {lister[r].ns}]
      BY <1>0, <1>2, <2>1, <2>2 DEF GetReaper
    <3>2. /\ worker'[w].reaper = r /\ worker'[w].spec = lister[r] /\ worker'[w].pc = "loop"
          /\ worker'[w].nss = {lister[r].ns}
      BY <2>1, <3>1 DEF WorkerState
    <3> QED BY <1>0, <2>2, <3>2, KeepsListing
  <2>3. CASE lister[r].ns = Absent
    <3>1. worker' = [worker EXCEPT ![w].pc = "listns", ![w].spec = lister[r]]
      BY <1>0, <1>2, <2>1, <2>3 DEF GetReaper
    <3>2. worker'[w].reaper = r /\ worker'[w].spec = lister[r] /\ worker'[w].pc = "listns"
      BY <2>1, <3>1 DEF WorkerState
    <3> QED BY <3>2, KeepsListing
  <2> QED BY <2>2, <2>3
<1>3. CASE ListNamespaces(w)
  <2>1. worker[w].reaper = r /\ worker[w].spec = lister[r]
    BY <1>3 DEF ListNamespaces, ListsFor
  <2>2. CASE worker' = [worker EXCEPT ![w].pc = "loop", ![w].nss = Namespace]
    <3>1. /\ worker'[w].reaper = worker[w].reaper /\ worker'[w].spec = worker[w].spec
          /\ worker'[w].pc = "loop" /\ worker'[w].nss = Namespace
      BY <2>2 DEF WorkerState
    <3> QED BY <2>1, <3>1, KeepsListing DEF Orderly, Housed
  <2>3. CASE ReturnError(w)
    BY <2>1, <2>3 DEF ReturnError
  <2> QED BY <1>3, <2>2, <2>3 DEF ListNamespaces
<1>4. ASSUME NEW ns \in worker[w].nss, ListItems(w, ns) 
      PROVE  ListsFor(w, r, o)' \/ (JustListed(w)' /\ Copy(o) \in worker'[w].items)
  <2>1. CASE ns # o.ns
    <3>1. /\ worker'[w].reaper = worker[w].reaper /\ worker'[w].spec = worker[w].spec
          /\ worker'[w].pc = "loop" /\ worker'[w].nss = worker[w].nss \ {ns}
      BY <1>4 DEF ListItems, WorkerState
    <3> QED BY <1>4, <2>1, <3>1 DEF ListItems, ListsFor
  <2>2. CASE ns = o.ns
    <3>1. worker[w].spec = lister[r]
      BY <1>4 DEF ListItems, ListsFor
    <3>2. o \in Listed(worker[w].spec, ns) /\ IsReapable(api[o])
      BY <2>2, <3>1 DEF Needs, Covers
    <3>3. ~APIFails({p \in Listed(worker[w].spec, ns) : IsReapable(api[p])})
      BY <3>2 DEF APIFails
    <3>4. worker' = [worker EXCEPT ![w].nss = @ \ {ns},
                       ![w].items = {Copy(p) : p \in {q \in Listed(worker[w].spec, ns) :
                                                        IsReapable(api[q])}}]
      BY <1>0, <1>4, <3>1, <3>3 DEF ListItems
    <3>5. /\ worker'[w].pc = "loop" /\ api' = api
          /\ worker'[w].items = {Copy(p) : p \in {q \in Listed(worker[w].spec, ns) :
                                                  IsReapable(api[q])}}
      BY <1>0, <1>4, <3>1, <3>3, <3>4 DEF ListItems, clusterVars, WorkerState
    <3> QED BY <3>2, <3>5 DEF JustListed, Copy
  <2> QED BY <2>1, <2>2
<1>5. CASE Return(w)
  BY <1>5 DEF Return, ListsFor
<1>6. ASSUME worker[w].pc \in {"loop", "lock", "delete"}, worker'[w].pc # "idle",
             worker'[w].reaper = worker[w].reaper, worker'[w].spec = worker[w].spec,
             worker'[w].nss = worker[w].nss
      PROVE  ListsFor(w, r, o)'
  <2>1. worker[w].reaper = r /\ worker[w].spec = lister[r] /\ o.ns \in worker[w].nss
    BY <1>6 DEF ListsFor
  <2> QED BY <1>6, <2>1, KeepsListing
<1>7. CASE ComputeDelay(w)
  BY <1>6, <1>7 DEF ComputeDelay, WorkerState
<1>8. CASE Schedule(w)
  BY <1>6, <1>8 DEF Schedule, Expire, Arm, WorkerState
<1>10. CASE DeleteExpired(w)
  BY <1>6, <1>10 DEF DeleteExpired, WorkerState
<1> QED BY <1>1, <1>2, <1>3, <1>4, <1>5, <1>7, <1>8, <1>10 DEF WorkerStep

-----------------------------------------------------------------------------
\* A worker between two TTLReapers holds no items.
ItemsOK == \A w \in Worker : worker[w].pc \in {"idle", "get", "listns"} => worker[w].items = {}

LEMMA ItemsWorker ==
  ASSUME TypeInv, ItemsOK, NEW w \in Worker, WorkerStep(w)
  PROVE  ItemsOK'
<1> worker \in [Worker -> WorkerState] /\ worker[w] \in WorkerState
  BY DEF TypeInv, TypeOK
<1>1. \A v \in Worker \ {w} : worker'[v] = worker[v]
  BY DEF WorkerStep, Dequeue, GetReaper, ReturnError, ListNamespaces, ListItems, Return,
     ComputeDelay, Schedule, Expire, Arm, DeleteExpired
<1>2. worker'[w].pc \in {"idle", "get", "listns"} => worker'[w].items = {}
  <2>1. ASSUME NEW r \in Reaper, Dequeue(w, r) PROVE worker'[w].items = {}
    BY <2>1 DEF Dequeue, ItemsOK, WorkerState
  <2>2. CASE GetReaper(w) \/ ListNamespaces(w)
    BY <2>2 DEF GetReaper, ListNamespaces, ReturnError, ItemsOK, WorkerState, IdleWorker
  <2>3. ASSUME NEW ns \in worker[w].nss, ListItems(w, ns) PROVE worker'[w].pc = "loop"
    BY <2>3 DEF ListItems, WorkerState
  <2>4. CASE Return(w)
    BY <2>4 DEF Return, IdleWorker
  <2>5. CASE ComputeDelay(w)
    BY <2>5 DEF ComputeDelay, WorkerState
  <2>6. CASE Schedule(w)
    BY <2>6 DEF Schedule, Expire, Arm, WorkerState
  <2>7. CASE DeleteExpired(w)
    BY <2>7 DEF DeleteExpired, WorkerState
  <2> QED BY <2>1, <2>2, <2>3, <2>4, <2>5, <2>6, <2>7 DEF WorkerStep
<1> QED BY <1>1, <1>2 DEF ItemsOK

LEMMA ItemsNext == TypeInv /\ ItemsOK /\ [Next]_vars => ItemsOK'
<1>1. ASSUME TypeInv, ItemsOK, UNCHANGED worker \/ Crash PROVE ItemsOK'
  BY <1>1 DEF ItemsOK, Crash, IdleWorker
<1>2. [Next]_vars => UNCHANGED worker \/ Crash \/ \E w \in Worker : WorkerStep(w)
  BY DEF Next, vars, TimerStep, Fire, CallbackDelete, CallbackCleanup, EnvironmentStep, TimePasses,
     ListerChanges, Enqueue
<1> QED BY <1>1, <1>2, ItemsWorker

-----------------------------------------------------------------------------
\* What a worker holds it keeps, arms a timer for, or deletes.
LEMMA HolderGoesOn ==
  ASSUME TypeInv, ItemsOK, NEW w \in Worker, WorkerStep(w), NEW item \in HeldBy(worker[w]),
         item.obj \in Object, Present(item.obj), api'[item.obj] = api[item.obj],
         item.obj \notin missed'
  PROVE  item \in Held'
<1> worker \in [Worker -> WorkerState] /\ worker[w] \in WorkerState
  BY DEF TypeInv, TypeOK
<1>1. item \in HeldBy(worker[w])
  OBVIOUS
<1>2. worker[w].items # {} \/ worker[w].pc \in {"lock", "delete"}
  BY <1>1 DEF HeldBy
<1>3. ASSUME NEW r \in Reaper, Dequeue(w, r) PROVE FALSE
  BY <1>2, <1>3 DEF Dequeue, ItemsOK
<1>4. ~GetReaper(w) /\ ~ListNamespaces(w)
  BY <1>2 DEF GetReaper, ListNamespaces, ItemsOK
<1>5. ASSUME NEW ns, ListItems(w, ns) PROVE FALSE
  BY <1>2, <1>5 DEF ListItems
<1>6. ~Return(w)
  BY <1>2 DEF Return
<1>7. CASE ComputeDelay(w)
  <2>1. PICK picked \in worker[w].items :
          worker' = [worker EXCEPT ![w].pc = "lock", ![w].item = picked, ![w].items = @ \ {picked},
                                   ![w].delay = Delay(picked.rec, clock)]
    BY <1>7 DEF ComputeDelay
  <2>2. /\ worker'[w].pc = "lock" /\ worker'[w].item = picked
        /\ worker'[w].items = worker[w].items \ {picked} /\ worker[w].pc = "loop"
    BY <1>7, <2>1 DEF ComputeDelay, WorkerState
  <2>3. item \in HeldBy(worker'[w])
    BY <1>1, <2>2 DEF HeldBy
  <2> QED BY <1>1, <2>3 DEF Held
<1>8. CASE Schedule(w) /\ Expire(w)
  <2>1. /\ worker'[w].pc = "delete" /\ worker'[w].item = worker[w].item
        /\ worker'[w].items = worker[w].items
    BY <1>8 DEF Expire, WorkerState
  <2>2. item \in HeldBy(worker'[w])
    BY <1>1, <2>1 DEF HeldBy
  <2> QED BY <1>1, <2>2 DEF Held
<1>9. CASE Schedule(w) /\ Arm(w)
  <2>1. worker'[w].items = worker[w].items
    BY <1>9 DEF Arm, WorkerState
  <2>2. CASE item \in worker[w].items
    BY <1>1, <2>1, <2>2 DEF Held, HeldBy
  <2>3. CASE item = worker[w].item
    <3>1. PICK t \in TimerId :
            timer' = [StopExisting(KeyOf(worker[w].item.obj)) EXCEPT ![t] =
                        [state |-> "armed", item |-> worker[w].item,
                         deadline |-> clock + worker[w].delay]]
      BY <1>9 DEF Arm
    <3>2. timer'[t].state = "armed" /\ timer'[t].item = item
      BY <2>3, <3>1 DEF StopExisting
    <3> QED BY <1>1, <3>2 DEF Held, HeldIn
  <2> QED BY <1>1, <2>2, <2>3 DEF HeldBy
<1>10. CASE DeleteExpired(w)
  <2>1. worker[w].item.obj \in Object
    BY <1>10 DEF DeleteExpired, TypeInv, ControlOK, Item
  <2>2. item # worker[w].item
    BY <1>1, <1>10, <2>1, Deleting DEF DeleteExpired, TypeInv, TypeOK, Present
  <2>3. worker'[w].items = worker[w].items
    BY <1>10 DEF DeleteExpired, WorkerState
  <2> QED BY <1>1, <2>2, <2>3 DEF Held, HeldBy
<1> QED BY <1>3, <1>4, <1>5, <1>6, <1>7, <1>8, <1>9, <1>10 DEF WorkerStep, Schedule

\* A timer is stopped only to make way for what is done for the same object.
LEMMA StoppedForSame ==
  ASSUME TypeInv, NoTimerLeak, KeysApart, NEW w \in Worker, Schedule(w),
         NEW t \in TimerId, NEW item \in HeldIn(timer[t])
  PROVE  item \in Held' \/ (worker[w].item.obj = item.obj /\ worker[w].item \in Held')
<1> DEFINE k == KeyOf(worker[w].item.obj)
<1> worker \in [Worker -> WorkerState] /\ worker[w] \in WorkerState
  BY DEF TypeInv, TypeOK
<1>0. worker[w].item.obj \in Object
  BY DEF Schedule, TypeInv, ControlOK, Item
<1>1. timer[t].state \in {"armed", "fired"} /\ timer[t].item = item /\ item.obj \in Object
  BY DEF HeldIn, TypeInv, TypeOK, Timer, FreeTimer, Item
<1>2. CASE StopExisting(k)[t] = timer[t]
  <2>1. CASE Expire(w)
    BY <1>1, <1>2, <2>1 DEF Expire, Held, HeldIn
  <2>2. CASE Arm(w)
    <3>1. PICK u \in TimerId :
            /\ StopExisting(k)[u].state = "free"
            /\ timer' = [StopExisting(k) EXCEPT ![u] =
                           [state |-> "armed", item |-> worker[w].item,
                            deadline |-> clock + worker[w].delay]]
      BY <2>2 DEF Arm
    <3>2. timer'[t] = timer[t]
      BY <1>1, <1>2, <3>1 DEF StopExisting
    <3> QED BY <1>1, <3>2 DEF Held, HeldIn
  <2> QED BY <2>1, <2>2 DEF Schedule
<1>3. CASE StopExisting(k)[t] # timer[t]
  <2>1. t = timers[k]
    BY <1>3 DEF StopExisting
  <2>2. k \in Key /\ timers[k] # Absent
    BY <1>0, <2>1, KeyType, ReaperAssumption
  <2>3. KeyOf(item.obj) = k
    BY <1>1, <2>1, <2>2 DEF NoTimerLeak
  <2>4. worker[w].item.obj = item.obj
    BY <1>0, <1>1, <2>3 DEF KeysApart
  <2>5. CASE Expire(w)
    <3>1. worker'[w].pc = "delete" /\ worker'[w].item = worker[w].item
      BY <2>5 DEF Expire, WorkerState
    <3> QED BY <2>4, <3>1 DEF Held, HeldBy
  <2>6. CASE Arm(w)
    <3>1. PICK u \in TimerId :
            timer' = [StopExisting(k) EXCEPT ![u] =
                        [state |-> "armed", item |-> worker[w].item,
                         deadline |-> clock + worker[w].delay]]
      BY <2>6 DEF Arm
    <3>2. timer'[u].state = "armed" /\ timer'[u].item = worker[w].item
      BY <3>1 DEF StopExisting
    <3> QED BY <2>4, <3>2 DEF Held, HeldIn
  <2> QED BY <2>5, <2>6 DEF Schedule
<1> QED BY <1>2, <1>3

-----------------------------------------------------------------------------
\* The invariant is kept, action by action.
RememberInv == TypeInv /\ NoTimerLeak /\ ItemsOK /\ ReapersOK /\ Remembered

\* A worker's step.
LEMMA RememberWorker ==
  ASSUME RememberInv, Orderly, NEW w \in Worker, WorkerStep(w), UNCHANGED watchVars
  PROVE  Remembered'
<1> USE DEF RememberInv
<1>1. \A v \in Worker \ {w} : worker'[v] = worker[v]
  BY DEF TypeInv, TypeOK, WorkerStep, Dequeue, GetReaper, ReturnError, ListNamespaces, ListItems,
     Return, ComputeDelay, Schedule, Expire, Arm, DeleteExpired
<1>2. lister' = lister
  BY DEF WorkerStep, Dequeue, GetReaper, ListNamespaces, ListItems, Return, ComputeDelay, Schedule,
     DeleteExpired
<1>3. ASSUME NEW o \in Object, NEW r \in Reaper, o \notin missed', Needs(r, o)'
      PROVE  (o \in events \/ ToList(r, o) \/ Tended(o))'
  <2>1. api'[o] = api[o] /\ Needs(r, o) /\ Present(o) /\ o \notin missed
    BY <1>2, <1>3, WorkerCluster, NeededBefore DEF Needs, DeletesOnly
  <2>2. CASE o \in events
    BY <2>2 DEF watchVars
  <2>3. CASE r \in dirty
    <3>1. CASE r \in dirty'
      BY <3>1 DEF ToList
    <3>2. CASE r \notin dirty'
      <4>1. Dequeue(w, r)
        BY <2>3, <3>2 DEF WorkerStep, Dequeue, GetReaper, ReturnError, ListNamespaces, ListItems,
           Return, ComputeDelay, Schedule, DeleteExpired
      <4>2. worker'[w].pc = "get" /\ worker'[w].reaper = r
        BY <4>1 DEF Dequeue, TypeInv, TypeOK, WorkerState
      <4> QED BY <4>2 DEF ToList, ListsFor
    <3> QED BY <3>1, <3>2
  <2>4. CASE Unwatched(r)
    BY <1>2, <2>4 DEF Unwatched, ToList, watchVars
  <2>5. ASSUME NEW v \in Worker, ListsFor(v, r, o) PROVE (ToList(r, o) \/ Tended(o))'
    <3>1. CASE v = w
      <4>1. \/ r \in dirty' \/ ListsFor(v, r, o)'
            \/ JustListed(v)' /\ Copy(o) \in worker'[v].items
        BY <1>3, <2>1, <2>5, <3>1, ListerGoesOn
      <4>2. Copy(o) \in worker'[v].items => WorkerTends(v, o)'
        BY DEF WorkerTends, HeldBy, Copy
      <4> QED BY <4>1, <4>2 DEF ToList, Tended
    <3>2. CASE v # w
      BY <1>1, <1>2, <2>5, <3>2 DEF ListsFor, ToList
    <3> QED BY <3>1, <3>2
  <2>6. ASSUME NEW v \in Worker, WorkerTends(v, o) PROVE Tended(o)'
    <3>1. CASE v = w
      <4>1. PICK item \in HeldBy(worker[w]) : item.obj = o
        BY <2>6, <3>1 DEF WorkerTends
      <4>2. item \in Held'
        BY <1>3, <2>1, <3>1, <4>1, HolderGoesOn
      <4> QED BY <4>1, <4>2 DEF Tended, WorkerTends, TimerTends, Held
    <3>2. CASE v # w
      BY <1>1, <2>6, <3>2 DEF WorkerTends, Tended
    <3> QED BY <3>1, <3>2
  <2>7. ASSUME NEW t \in TimerId, TimerTends(t, o) PROVE Tended(o)'
    <3>1. CASE Schedule(w)
      <4>1. PICK item \in HeldIn(timer[t]) : item.obj = o
        BY <2>7 DEF TimerTends
      <4>2. \E kept \in Held' : kept.obj = o
        BY <3>1, <4>1, StoppedForSame DEF Orderly
      <4> QED BY <4>2 DEF Tended, WorkerTends, TimerTends, Held
    <3>2. CASE ~Schedule(w)
      <4>1. timer' = timer
        BY <3>2 DEF WorkerStep, Dequeue, GetReaper, ListNamespaces, ListItems, Return,
           ComputeDelay, DeleteExpired
      <4> QED BY <2>7, <4>1 DEF TimerTends, Tended
    <3> QED BY <3>1, <3>2
  <2>8. o \in events \/ ToList(r, o) \/ Tended(o)
    BY <1>3, <2>1 DEF Remembered
  <2> QED BY <2>2, <2>3, <2>4, <2>5, <2>6, <2>7, <2>8 DEF ToList, Tended
<1> QED BY <1>3 DEF Remembered

\* What goes on outside workers, queue and informers: objects are deleted, and
\* timers fire.  What a timer holds it keeps, unless the object is gone or missed.
TimersKeep ==
  \A t \in TimerId : \A item \in HeldIn(timer[t]) :
    item.obj \notin missed' /\ api'[item.obj] \notin {Unborn, Gone} =>
      item \in HeldIn(timer'[t])

DeletesAlone == UNCHANGED <<lister, dirty, worker, watched, events>> /\ DeletesOnly /\ TimersKeep

LEMMA TimerKeeps ==
  ASSUME TypeInv, NEW t \in TimerId, TimerStep(t), UNCHANGED watchVars
  PROVE  DeletesAlone
<1> timer \in [TimerId -> Timer \cup {FreeTimer}]
  BY DEF TypeInv, TypeOK
<1>1. DeletesOnly /\ UNCHANGED <<lister, dirty, worker, watched, events>>
  BY TimerCluster DEF TimerStep, Fire, CallbackDelete, CallbackCleanup, watchVars
<1>2. CASE Fire(t)
  BY <1>1, <1>2 DEF Fire, TimersKeep, HeldIn, Timer, FreeTimer, DeletesAlone
<1>3. CASE CallbackDelete(t)
  <2>1. timer[t].item.obj \in Object
    BY <1>3 DEF CallbackDelete, Timer, FreeTimer, Item
  <2>2. timer[t].item.obj \in missed' \/ api'[timer[t].item.obj] \in {Unborn, Gone}
    BY <1>3, <2>1, Deleting DEF CallbackDelete, TypeInv, TypeOK, Present
  <2>3. \A u \in TimerId \ {t} : timer'[u] = timer[u]
    BY <1>3 DEF CallbackDelete
  <2> QED BY <1>1, <2>2, <2>3 DEF TimersKeep, HeldIn, DeletesAlone
<1>4. CASE CallbackCleanup(t)
  BY <1>1, <1>4 DEF CallbackCleanup, TimersKeep, HeldIn, DeletesAlone
<1> QED BY <1>2, <1>3, <1>4 DEF TimerStep

\* The other process of a rollout deletes what it holds.
LEMMA ForeignKeeps ==
  ASSUME UNCHANGED <<lister, dirty, worker, timer, watched, events>>, DeletesOnly
  PROVE  DeletesAlone
BY DEF DeletesAlone, TimersKeep

LEMMA RememberDeletes ==
  ASSUME RememberInv, DeletesAlone
  PROVE  Remembered'
<1> USE DEF RememberInv, DeletesAlone
<1> SUFFICES ASSUME NEW o \in Object, NEW r \in Reaper, o \notin missed', Needs(r, o)'
             PROVE  (o \in events \/ ToList(r, o) \/ Tended(o))'
  BY DEF Remembered
<1>1. Needs(r, o) /\ Present(o)'
  BY NeededBefore DEF Needs, DeletesOnly
<1>2. o \in events \/ ToList(r, o) \/ Tended(o)
  BY <1>1 DEF Remembered, DeletesOnly
<1>3. ToList(r, o) => ToList(r, o)'
  BY DEF ToList, Unwatched, ListsFor
<1>4. ASSUME NEW t \in TimerId, TimerTends(t, o) PROVE TimerTends(t, o)'
  BY <1>1, <1>4 DEF TimerTends, TimersKeep, Present
<1>5. Tended(o) => Tended(o)'
  BY <1>4 DEF Tended, WorkerTends
<1> QED BY <1>2, <1>3, <1>5

-----------------------------------------------------------------------------
(***************************************************************************)
(* Steps that leave workers and timers alone: what is needed afterwards    *)
(* either has something new to come for it, or nothing it relied on has    *)
(* changed.                                                                *)
(***************************************************************************)
Followed(r, o) ==
  \/ r \in dirty' \/ Unwatched(r)' \/ o \in events'
  \/ /\ Needs(r, o) /\ api'[o] = api[o] /\ lister'[r] = lister[r]
     /\ r \notin dirty /\ o \notin events /\ ~Unwatched(r)

Elsewhere ==
  /\ UNCHANGED <<worker, timer, missed>>
  /\ \A o \in Object, r \in Reaper : Needs(r, o)' => Followed(r, o)

LEMMA RememberElsewhere ==
  ASSUME Remembered, Elsewhere
  PROVE  Remembered'
<1> USE DEF Elsewhere
<1> SUFFICES ASSUME NEW o \in Object, NEW r \in Reaper, o \notin missed', Needs(r, o)',
                    r \notin dirty', ~Unwatched(r)', o \notin events'
             PROVE  (ToList(r, o) \/ Tended(o))'
  BY DEF Remembered, ToList
<1>1. Needs(r, o) /\ lister'[r] = lister[r] /\ r \notin dirty /\ o \notin events /\ ~Unwatched(r)
  BY DEF Followed
<1>2. (\E w \in Worker : ListsFor(w, r, o)) \/ Tended(o)
  BY <1>1 DEF Remembered, ToList
<1>3. ASSUME NEW w \in Worker, ListsFor(w, r, o) PROVE ToList(r, o)'
  BY <1>1, <1>3 DEF ListsFor, ToList
<1>4. Tended(o) => Tended(o)'
  BY DEF Tended, WorkerTends, TimerTends
<1> QED BY <1>2, <1>3, <1>4

LEMMA FollowSync ==
  ASSUME TypeInv, NEW q \in Reaper, SyncReaper(q)
  PROVE  Elsewhere
<1>1. \A r \in Reaper : r \in dirty' \/ lister'[r] = lister[r]
  BY DEF SyncReaper, TypeInv, TypeOK
<1>2. ASSUME NEW o \in Object, NEW r \in Reaper, Needs(r, o)', r \notin dirty'
      PROVE  Needs(r, o) /\ lister'[r] = lister[r]
  BY <1>1, <1>2, NeededBefore DEF SyncReaper, clusterVars
<1>3. \A r \in Reaper : lister'[r] = lister[r] /\ Unwatched(r) => Unwatched(r)'
  BY DEF Unwatched, SyncReaper, watchVars
<1> QED BY <1>2, <1>3
      DEF Elsewhere, Followed, SyncReaper, clusterVars, reconcilerVars, watchVars

\* A key is queued, for a resync or for an event, and the event is gone.
LEMMA FollowEnqueues ==
  ASSUME TypeInv, Orderly, NEW p \in Object,
         UNCHANGED <<clusterVars, lister, worker, timer, watched>>, dirty \subseteq dirty',
         events \ {p} \subseteq events',
         p \in events' \/ Targeting(p) \subseteq dirty'
  PROVE  Elsewhere
<1>1. ASSUME NEW o \in Object, NEW r \in Reaper, Needs(r, o)'
      PROVE  Needs(r, o)
  BY <1>1, NeededBefore DEF clusterVars
<1>2. ASSUME NEW r \in Reaper, Needs(r, p) PROVE r \in Targeting(p)
  <2>1. lister[r] \in ReaperSpec /\ Covers(lister[r], p)
    BY <1>2 DEF Needs, Covers, TypeInv, TypeOK
  <2> QED BY <2>1, CoveredSeen DEF Orderly, Targeting
<1>3. \A r \in Reaper : Unwatched(r) => Unwatched(r)'
  BY DEF Unwatched
<1> QED BY <1>1, <1>2, <1>3 DEF Elsewhere, Followed, clusterVars

LEMMA FollowTick ==
  ASSUME TypeInv, Orderly, WatchTick
  PROVE  Elsewhere
<1>1. ASSUME NEW o \in Object, NEW r \in Reaper, Needs(r, o)'
      PROVE  Needs(r, o) /\ lister'[r] = lister[r]
  BY <1>1, NeededBefore DEF WatchTick, clusterVars
<1>2. ASSUME NEW o \in Object, NEW r \in Reaper, Needs(r, o), Unwatched(r)
      PROVE  o \in events'
  <2>1. lister[r] \in ReaperSpec /\ Covers(lister[r], o) /\ Present(o)
    BY <1>2 DEF Needs, Covers, TypeInv, TypeOK
  <2>2. WatchGVR(lister[r]) = ServedGVR(o) /\ lister[r] # Absent
    BY <2>1, CoveredSeen DEF Orderly, Covers
  <2>3. WatchGVR(lister[r]) \in TargetGVRs \ watched
    BY <1>2, <2>2 DEF Unwatched, TargetGVRs
  <2> QED BY <2>1, <2>2, <2>3 DEF WatchTick, ServedBy
<1> QED BY <1>1, <1>2
      DEF Elsewhere, Followed, WatchTick, clusterVars, reconcilerVars

LEMMA FollowUser ==
  ASSUME TypeInv, Orderly, NEW p \in Object, UserActs(p)
  PROVE  Elsewhere
<1>1. \A o \in Object \ {p} : api'[o] = api[o]
  BY DEF UserActs, UserStep, UserCreate, UserUpdate, UserDelete, TypeInv, TypeOK,
     ClusterTypeOK
<1>2. ASSUME NEW o \in Object, NEW r \in Reaper, Needs(r, o)', o # p
      PROVE  Needs(r, o) /\ lister'[r] = lister[r]
  BY <1>1, <1>2, NeededBefore DEF UserActs
<1>3. ASSUME NEW r \in Reaper, Needs(r, p)' PROVE p \in events' \/ Unwatched(r)'
  <2>1. lister'[r] \in ReaperSpec /\ ~Rejected(lister'[r]) /\ ListGVR(lister'[r]) = ServedGVR(p)
    BY <1>3 DEF Needs, Covers, Listed, UserActs, TypeInv, TypeOK
  <2>2. WatchParses(lister'[r]) /\ WatchGVR(lister'[r]) = ServedGVR(p)
    BY <2>1 DEF Orderly, SeenAsListed
  <2>3. api'[p] # Gone
    BY <1>3 DEF Needs, Present
  <2> QED BY <2>2, <2>3 DEF UserActs, Unwatched
<1>4. events \subseteq events' /\ \A r \in Reaper : Unwatched(r) => Unwatched(r)'
  BY DEF UserActs, Unwatched
<1> QED BY <1>1, <1>2, <1>3, <1>4
      DEF Elsewhere, Followed, UserActs, UserStep, UserCreate, UserUpdate, UserDelete, reconcilerVars

\* Time, a resync, and what users do to TTLReapers, matter to nothing here.
LEMMA FollowQuiet ==
  ASSUME TypeInv, UNCHANGED <<api, missed, lister, worker, timer, watched, events>>,
         dirty \subseteq dirty'
  PROVE  Elsewhere
<1>1. ASSUME NEW o \in Object, NEW r \in Reaper, Needs(r, o)'
      PROVE  Needs(r, o)
  BY <1>1, NeededBefore
<1>2. \A r \in Reaper : Unwatched(r) => Unwatched(r)'
  BY DEF Unwatched
<1> QED BY <1>1, <1>2 DEF Elsewhere, Followed

LEMMA RememberRestart ==
  ASSUME Restart
  PROVE  Remembered'
BY DEF Restart, Kept, Remembered, Needs, Covers, ToList

(***************************************************************************)
(* Every step is a worker's, or deletes and no more, or is one elsewhere,  *)
(* or is a restart.                                                        *)
(***************************************************************************)
Proceeds == (\E w \in Worker : WorkerStep(w) /\ UNCHANGED watchVars) \/ DeletesAlone \/ Elsewhere

LEMMA EachStep ==
  ASSUME TypeInv, Orderly, [ControllerNext]_controllerVars
  PROVE  Proceeds \/ Restart
<1> USE DEF Proceeds
<1>1. ASSUME NEW t \in TimerId, Timing(t) PROVE DeletesAlone
  BY <1>1, TimerKeeps DEF Timing
<1>2. ASSUME NEW r \in Reaper, Syncing(r) PROVE Elsewhere
  BY <1>2, FollowSync DEF Syncing
<1>3. ASSUME NEW r \in Reaper, Resyncing(r) PROVE Elsewhere
  BY <1>3, FollowQuiet DEF Resyncing, ResyncReaper, clusterVars, reconcilerVars, watchVars
<1>4. CASE Ticking
  BY <1>4, FollowTick DEF Ticking
<1>5. ASSUME NEW o \in Object, Notifying(o) PROVE Elsewhere
  BY <1>5, FollowEnqueues DEF Notifying, Notify, reconcilerVars
<1>6. ASSUME NEW o \in Object, ResyncTarget(o) PROVE Elsewhere
  BY <1>6, FollowEnqueues DEF ResyncTarget, reconcilerVars, watchVars
<1>7. ASSUME NEW o \in Object, UserActs(o) PROVE Elsewhere
  BY <1>7, FollowUser
<1>8. ASSUME NEW r \in Reaper, UserSetReaper(r) PROVE Elsewhere
  BY <1>8, FollowQuiet DEF UserSetReaper, clusterVars, reconcilerVars
<1>9. CASE Waiting
  BY <1>9, FollowQuiet DEF Waiting, TimePasses, Tick, watchVars
<1>10. CASE UNCHANGED controllerVars
  BY <1>10, FollowQuiet DEF controllerVars, vars, watchVars
<1> QED BY <1>1, <1>2, <1>3, <1>4, <1>5, <1>6, <1>7, <1>8, <1>9, <1>10
      DEF ControllerNext, Reconciling, Crashing

LEMMA RememberNext ==
  ASSUME RememberInv, Orderly, Proceeds \/ Restart
  PROVE  Remembered'
BY RememberWorker, RememberDeletes, RememberElsewhere, RememberRestart DEF Proceeds, RememberInv

-----------------------------------------------------------------------------
\* No finished object with a TTL that a TTLReaper covers is ever forgotten: a
\* timer, a worker, an undelivered event, a queued key or a tick to come will
\* make the controller delete it, through edits, TTLReapers that come and go,
\* and crashes (controller.go:68-174 with ttlreaper.go:145-272).
THEOREM NeverForgotten == Orderly /\ ControllerSpec => []NothingForgotten
<1>1. SUFFICES ASSUME Orderly PROVE ControllerSpec => []NothingForgotten
  OBVIOUS
<1>2. ControllerInit => RememberInv
  <2> SUFFICES ASSUME ControllerInit PROVE RememberInv
    OBVIOUS
  <2>1. TypeInv /\ NoTimerLeak /\ ReapersOK
    BY TypeInit, LeakInit, ReapersInit DEF ControllerInit
  <2>2. ItemsOK
    BY DEF ControllerInit, Init, ReaperInit, ItemsOK, IdleWorker
  <2>3. Remembered
    BY RememberedInit DEF ControllerInit, Init, ClusterInit
  <2> QED BY <2>1, <2>2, <2>3 DEF RememberInv
<1>3. RememberInv /\ [ControllerNext]_controllerVars => RememberInv'
  BY <1>1, ControllerStep, TypeNext, LeakNext, ItemsNext, ReapersNext, EachStep,
     RememberNext DEF RememberInv
<1>4. RememberInv => NothingForgotten
  BY RememberedSuffices DEF RememberInv
<1> QED BY <1>2, <1>3, <1>4, PTL DEF ControllerSpec

\* So nothing is forgotten that is targeted as in example.yaml, where each object
\* has its namespace and a timer key of its own (controller.go:68-195 with
\* ttlreaper.go:145-272).
THEOREM PlainNeverForgotten ==
  PlainTargets /\ KindsAsServed /\ Housed /\ KeysApart /\ ControllerSpec => []NothingForgotten
BY NeverForgotten, PlainTargetsSeen DEF Orderly
=============================================================================
