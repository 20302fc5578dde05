------------------------------- MODULE Reaper -------------------------------
(***************************************************************************)
(* The Reconciler of pkg/reconciler/ttlreaper/ttlreaper.go: the workers    *)
(* that run Reconcile on queued TTLReapers, the timers they arm, and the   *)
(* timer callbacks, all over the cluster of module Cluster.                *)
(*                                                                         *)
(* What feeds the work queue is left open here: any TTLReaper may change   *)
(* or be enqueued at any time.  Module Controller closes the loop.         *)
(*                                                                         *)
(* A worker is a goroutine of controller.Impl; its program counter names   *)
(* the call it makes next.                                                 *)
(*   idle    waiting on the queue                                          *)
(*   get     Reconcile, before ttlreaperLister.Get                         *)
(*   listns  reconcileTTLReaper, before listing the namespaces             *)
(*   loop    between two items, or two namespaces                          *)
(*   lock    scheduleResourceDeletion, delay computed, lock not yet taken  *)
(*   delete  lock released, before the Delete of an expired object         *)
(*                                                                         *)
(* A timer is a runtime timer with its closure; r.timers maps a resource   *)
(* key to one.                                                             *)
(*   free    never used, stopped, or its callback has returned             *)
(*   armed   waiting for its deadline                                      *)
(*   fired   callback running, before its Delete                           *)
(*   clean   Delete returned, before the callback takes the lock           *)
(***************************************************************************)
EXTENDS Cluster, TargetGVR

CONSTANTS
  Reaper,       \* names of TTLReapers
  ReaperSpec,   \* the specs they take: [kind, version, ns, sel]
  Namespace,    \* the namespaces of the cluster
  CoreGroup,    \* the group of objects whose API version is a bare version
  Worker,       \* the goroutines that run Reconcile
  TimerId,      \* bound: runtime timers in existence at once
  Overrun       \* whether time passes beyond MaxClock while a timer waits

ASSUME ReaperAssumption ==
  /\ Absent \notin Reaper /\ Absent \notin ReaperSpec /\ Absent \notin TimerId
  /\ Overrun \in BOOLEAN
  /\ \A spec \in ReaperSpec : spec.ns \in Namespace \cup {Absent}

VARIABLES
  lister,       \* ttlreaperLister: the informer's cache of TTLReapers
  dirty,        \* keys in the work queue, or to be put there when Done
  worker,       \* the goroutines
  timer,        \* the runtime timers
  timers        \* r.timers

vars == <<api, clock, fails, lastReap, missed, lister, dirty, worker, timer, timers>>

-----------------------------------------------------------------------------
\* resourceKey leaves out the API group and the version.
KeyOf(o) == <<o.ns, o.kind, o.name>>
Key == {KeyOf(o) : o \in Object}

IdleWorker ==
  [pc |-> "idle", reaper |-> Absent, spec |-> Absent, nss |-> {},
   items |-> {}, item |-> Absent, delay |-> 0]
FreeTimer == [state |-> "free", item |-> Absent, deadline |-> 0]

\* Keys a worker holds: the queue's processing set.
Processing == {worker[w].reaper : w \in Worker} \ {Absent}

\* A copy of one object, as listed: all a worker or a closure ever acts on.
Copy(o) == [obj |-> o, rec |-> api[o]]

\* The objects of a namespace that List returns for a spec.
Listed(spec, ns) ==
  {o \in Object : /\ Present(o)
                  /\ o.ns = ns
                  /\ ServedGVR(o) = ListGVR(spec)
                  /\ api[o].label \in spec.sel}

-----------------------------------------------------------------------------
(***************************************************************************)
(* Reconcile.  The queue hands a key to one worker at a time; a key added  *)
(* meanwhile stays dirty until that worker is done with it.                *)
(***************************************************************************)
Dequeue(w, r) ==
  /\ worker[w].pc = "idle"
  /\ r \in dirty \ Processing
  /\ dirty' = dirty \ {r}
  /\ worker' = [worker EXCEPT ![w].pc = "get", ![w].reaper = r]
  /\ UNCHANGED <<clusterVars, lister, timer, timers>>

\* The specs reconcileTTLReaper rejects with an error.
Rejected(spec) == spec.kind.stem = Absent \/ ~ListParses(spec)

ReturnErrorForgets(w) ==   \* mutant: the key of a failed reconcile is not added again
  /\ worker' = [worker EXCEPT ![w] = IdleWorker]
  /\ UNCHANGED dirty

\* Reconcile returns an error: the key is added again, after a delay.
ReturnError(w) ==
  /\ worker' = [worker EXCEPT ![w] = IdleWorker]
  /\ dirty' = dirty \cup {worker[w].reaper}

GetReaper(w) ==
  /\ worker[w].pc = "get"
  /\ LET spec == lister[worker[w].reaper] IN
       \/ /\ spec = Absent
          /\ worker' = [worker EXCEPT ![w] = IdleWorker]
          /\ UNCHANGED dirty
       \/ /\ spec # Absent
          /\ Rejected(spec)
          /\ ReturnError(w)
       \/ /\ spec # Absent
          /\ ~Rejected(spec)
          /\ spec.ns # Absent
          /\ worker' = [worker EXCEPT ![w].pc = "loop", ![w].spec = spec,
                                      ![w].nss = {spec.ns}]
          /\ UNCHANGED dirty
       \/ /\ spec # Absent
          /\ ~Rejected(spec)
          /\ spec.ns = Absent
          /\ worker' = [worker EXCEPT ![w].pc = "listns", ![w].spec = spec]
          /\ UNCHANGED dirty
  /\ UNCHANGED <<clusterVars, lister, timer, timers>>

ListNamespaces(w) ==
  /\ worker[w].pc = "listns"
  /\ \/ /\ worker' = [worker EXCEPT ![w].pc = "loop", ![w].nss = Namespace]
        /\ UNCHANGED <<clusterVars, dirty>>
     \/ APIFails({}) /\ ReturnError(w)
  /\ UNCHANGED <<lister, timer, timers>>

-----------------------------------------------------------------------------
\* Mutants of processNamespace and of the callback.
ListItemsUnchecked(w, ns) ==
  /\ worker[w].pc = "loop" /\ worker[w].items = {} /\ ns \in worker[w].nss
  /\ worker' = [worker EXCEPT ![w].nss = @ \ {ns},
                  ![w].items = {Copy(o) : o \in {p \in Listed(worker[w].spec, ns) :
                                                   api[p].ttl # Absent}}]
  /\ UNCHANGED <<clusterVars, lister, dirty, timer, timers>>

CallbackReturnsEarly(t) ==
  /\ timer[t].state = "clean"
  /\ timer' = [timer EXCEPT ![t] = FreeTimer]
  /\ UNCHANGED <<clusterVars, lister, dirty, worker, timers>>

-----------------------------------------------------------------------------
(***************************************************************************)
(* processNamespace: one List, then its items.  An error, of the selector  *)
(* or of the call, is logged and the next namespace is taken; a resource   *)
(* type the server does not know is an empty list.                         *)
(***************************************************************************)
ListItems(w, ns) ==
  /\ worker[w].pc = "loop"
  /\ worker[w].items = {}
  /\ ns \in worker[w].nss
  /\ \/ /\ worker[w].spec.sel # Malformed
        /\ worker' = [worker EXCEPT ![w].nss = @ \ {ns},
                        ![w].items = {Copy(o) : o \in {p \in Listed(worker[w].spec, ns) :
                                                         IsReapable(api[p])}}]
        /\ UNCHANGED clusterVars
     \/ /\ worker[w].spec.sel = Malformed
        /\ worker' = [worker EXCEPT ![w].nss = @ \ {ns}]
        /\ UNCHANGED clusterVars
     \/ /\ worker[w].spec.sel # Malformed
        /\ APIFails({o \in Listed(worker[w].spec, ns) : IsReapable(api[o])})
        /\ worker' = [worker EXCEPT ![w].nss = @ \ {ns}]
  /\ UNCHANGED <<lister, dirty, timer, timers>>

\* Reconcile returns nil.
Return(w) ==
  /\ worker[w].pc = "loop"
  /\ worker[w].items = {} /\ worker[w].nss = {}
  /\ worker' = [worker EXCEPT ![w] = IdleWorker]
  /\ UNCHANGED <<clusterVars, lister, dirty, timer, timers>>

-----------------------------------------------------------------------------
(***************************************************************************)
(* scheduleResourceDeletion.  The delay is computed before the lock is     *)
(* taken; AfterFunc counts it from when the timer is made.                 *)
(***************************************************************************)
ComputeDelay(w) ==
  /\ worker[w].pc = "loop"
  /\ \E item \in worker[w].items :
       worker' = [worker EXCEPT ![w].pc = "lock", ![w].item = item,
                                ![w].items = @ \ {item},
                                ![w].delay = Delay(item.rec, clock)]
  /\ UNCHANGED <<clusterVars, lister, dirty, timer, timers>>

\* The timers once the one the map holds for key k, if any, has been stopped.
\* Stop does nothing to a timer that has fired.
StopExisting(k) ==
  [t \in TimerId |-> IF t = timers[k] /\ timer[t].state = "armed"
                     THEN FreeTimer ELSE timer[t]]

ExpireSoon(w) ==   \* mutant: an object about to expire counts as expired
  /\ worker[w].delay <= Second
  /\ LET k == KeyOf(worker[w].item.obj) IN
       /\ timer'  = StopExisting(k)
       /\ timers' = [timers EXCEPT ![k] = Absent]
  /\ worker' = [worker EXCEPT ![w].pc = "delete", ![w].delay = 0]

\* An expired object: its entry goes, and it is deleted once the lock is free.
Expire(w) ==
  /\ worker[w].delay <= 0
  /\ LET k == KeyOf(worker[w].item.obj) IN
       /\ timer'  = StopExisting(k)
       /\ timers' = [timers EXCEPT ![k] = Absent]
  /\ worker' = [worker EXCEPT ![w].pc = "delete", ![w].delay = 0]

\* Mutants of the next definition.
ArmWithoutStop(w) ==   \* the existing timer is left running
  /\ worker[w].delay > 0
  /\ \E t \in TimerId :
       /\ timer[t].state = "free"
       /\ timer'  = [timer EXCEPT ![t] = [state |-> "armed", item |-> worker[w].item,
                                          deadline |-> clock + worker[w].delay]]
       /\ timers' = [timers EXCEPT ![KeyOf(worker[w].item.obj)] = t]
  /\ worker' = [worker EXCEPT ![w].pc = "loop", ![w].item = Absent, ![w].delay = 0]

ArmIfNone(w) ==        \* an object that has a timer is left to it
  /\ worker[w].delay > 0
  /\ \/ timers[KeyOf(worker[w].item.obj)] = Absent /\ ArmWithoutStop(w)
     \/ /\ timers[KeyOf(worker[w].item.obj)] # Absent
        /\ worker' = [worker EXCEPT ![w].pc = "loop", ![w].item = Absent, ![w].delay = 0]
        /\ UNCHANGED <<timer, timers>>

\* An object with time left: AfterFunc, and the entry in the map.
Arm(w) ==
  /\ worker[w].delay > 0
  /\ LET k == KeyOf(worker[w].item.obj) IN
       \E t \in TimerId :
         /\ StopExisting(k)[t].state = "free"
         /\ timer'  = [StopExisting(k) EXCEPT ![t] =
                         [state |-> "armed", item |-> worker[w].item,
                          deadline |-> clock + worker[w].delay]]
         /\ timers' = [timers EXCEPT ![k] = t]
  /\ worker' = [worker EXCEPT ![w].pc = "loop", ![w].item = Absent, ![w].delay = 0]

\* The critical section, from Lock to Unlock.
Schedule(w) ==
  /\ worker[w].pc = "lock"
  /\ Expire(w) \/ Arm(w)
  /\ UNCHANGED <<clusterVars, lister, dirty>>

\* The immediate Delete.
DeleteExpired(w) ==
  /\ worker[w].pc = "delete"
  /\ APIDelete(worker[w].item.obj, worker[w].item.rec)
  /\ worker' = [worker EXCEPT ![w].pc = "loop", ![w].item = Absent]
  /\ UNCHANGED <<lister, dirty, timer, timers>>

-----------------------------------------------------------------------------
\* The runtime starts the callback of a timer that is due; a late callback
\* is as good as a late timer.
Fire(t) ==
  /\ timer[t].state = "armed"
  /\ clock >= timer[t].deadline
  /\ timer' = [timer EXCEPT ![t].state = "fired"]
  /\ UNCHANGED <<clusterVars, lister, dirty, worker, timers>>

CallbackDelete(t) ==
  /\ timer[t].state = "fired"
  /\ APIDelete(timer[t].item.obj, timer[t].item.rec)
  /\ timer' = [timer EXCEPT ![t].state = "clean"]
  /\ UNCHANGED <<lister, dirty, worker, timers>>

\* delete(r.timers, resourceKey), whichever timer the map holds there by now.
CallbackCleanup(t) ==
  /\ timer[t].state = "clean"
  /\ timers' = [timers EXCEPT ![KeyOf(timer[t].item.obj)] = Absent]
  /\ timer'  = [timer EXCEPT ![t] = FreeTimer]
  /\ UNCHANGED <<clusterVars, lister, dirty, worker>>

-----------------------------------------------------------------------------
\* The process dies and starts again: workers and timers are lost, and the
\* informer lists the TTLReapers anew.
Crash ==
  /\ worker' = [w \in Worker |-> IdleWorker]
  /\ timer'  = [t \in TimerId |-> FreeTimer]
  /\ timers' = [k \in Key |-> Absent]
  /\ lister' \in [Reaper -> ReaperSpec \cup {Absent}]
  /\ dirty'  \in SUBSET Reaper
  /\ UNCHANGED clusterVars

\* The environment: TTLReapers change under the informer, or are enqueued.
ListerChanges(r) ==
  /\ \E spec \in ReaperSpec \cup {Absent} : lister' = [lister EXCEPT ![r] = spec]
  /\ dirty' = dirty \cup {r}
  /\ UNCHANGED <<clusterVars, worker, timer, timers>>

Enqueue(rs) ==
  /\ dirty' = dirty \cup rs
  /\ UNCHANGED <<clusterVars, lister, worker, timer, timers>>

-----------------------------------------------------------------------------
ReaperInit ==
  /\ worker = [w \in Worker |-> IdleWorker]
  /\ timer  = [t \in TimerId |-> FreeTimer]
  /\ timers = [k \in Key |-> Absent]
  /\ dirty  = {}

Init ==
  /\ ClusterInit
  /\ ReaperInit
  /\ lister = [r \in Reaper |-> Absent]

WorkerStep(w) ==
  \/ \E r \in Reaper : Dequeue(w, r)
  \/ GetReaper(w)
  \/ ListNamespaces(w)
  \/ \E ns \in worker[w].nss : ListItems(w, ns)
  \/ Return(w)
  \/ ComputeDelay(w)
  \/ Schedule(w)
  \/ DeleteExpired(w)

TimerStep(t) == Fire(t) \/ CallbackDelete(t) \/ CallbackCleanup(t)

\* Time passes up to the bound, and beyond it while a timer waits.
TimePasses ==
  /\ \/ clock < MaxClock
     \/ Overrun /\ \E t \in TimerId : timer[t].state = "armed" /\ timer[t].deadline > clock
  /\ Tick
  /\ UNCHANGED <<lister, dirty, worker, timer, timers>>

EnvironmentStep ==
  \/ \E o \in Object : UserStep(o) /\ UNCHANGED <<lister, dirty, worker, timer, timers>>
  \/ TimePasses
  \/ \E r \in Reaper : ListerChanges(r)
  \/ \E rs \in SUBSET Reaper : Enqueue(rs)
  \/ Crash

Next ==
  \/ \E w \in Worker : WorkerStep(w)
  \/ \E t \in TimerId : TimerStep(t)
  \/ EnvironmentStep

Spec == Init /\ [][Next]_vars

-----------------------------------------------------------------------------
(***************************************************************************)
(* Properties.                                                             *)
(***************************************************************************)
Item == [obj : Object, rec : {rec \in Rec : IsReapable(rec)}]
Timer == [state : {"armed", "fired", "clean"}, item : Item, deadline : Int]
WorkerState ==
  [pc : {"idle", "get", "listns", "loop", "lock", "delete"},
   reaper : Reaper \cup {Absent}, spec : ReaperSpec \cup {Absent},
   nss : SUBSET Namespace, items : SUBSET Item, item : Item \cup {Absent}, delay : Int]

\* Every variable has its type: what is stored, copied and scheduled are
\* objects of the cluster, and the map holds timers (ttlreaper.go:43-51).
TypeOK ==
  /\ ClusterTypeOK
  /\ lister \in [Reaper -> ReaperSpec \cup {Absent}]
  /\ dirty \subseteq Reaper
  /\ worker \in [Worker -> WorkerState]
  /\ timer \in [TimerId -> Timer \cup {FreeTimer}]
  /\ timers \in [Key -> TimerId \cup {Absent}]

\* The map never leaks: an entry holds a timer that is armed or whose callback
\* has still to take the entry out, and it is a timer for that key.  Nothing
\* but the callback itself removes the entry of a timer that has fired
\* (ttlreaper.go:259-262), and callbacks, workers and Stop race.
NoTimerLeak ==
  \A k \in Key : timers[k] # Absent =>
    /\ timer[timers[k]].state # "free"
    /\ KeyOf(timer[timers[k]].item.obj) = k

\* The reaper deletes only on the strength of a copy it listed that was
\* finished, had a TTL, and whose time had run out when the Delete reached the
\* server, whichever path deleted it and however long it waited for the lock
\* or the callback (ttlreaper.go:205-263).
WarrantedReap ==
  lastReap # Absent =>
    /\ IsReapable(lastReap.by)
    /\ Expiration(lastReap.by) <= lastReap.at

\* README.md:11-13: resources are validated to be finished, the expiration is
\* completion plus TTL, and expired resources are deleted.  That is: what a
\* Delete removes was, at that moment, finished and expired.
ReapsOnlyExpired ==
  lastReap # Absent =>
    /\ IsReapable(lastReap.was)
    /\ Expiration(lastReap.was) <= lastReap.at

(***************************************************************************)
(* The reaper implements module ReapPolicy: what it deletes, it deletes on *)
(* a warrant whose time has run out.  A warrant is a copy in the hands of  *)
(* a worker, or of a timer that has yet to make its Delete call.           *)
(***************************************************************************)
HeldBy(s) == s.items \cup (IF s.pc \in {"lock", "delete"} THEN {s.item} ELSE {})
HeldIn(t) == IF t.state \in {"armed", "fired"} THEN {t.item} ELSE {}
Held == (UNION {HeldBy(worker[w]) : w \in Worker}) \cup (UNION {HeldIn(timer[t]) : t \in TimerId})

Policy == INSTANCE ReapPolicy WITH warrants <- Held

\* Every step of the reaper is one the policy allows (ttlreaper.go:145-272).
ImplementsPolicy == Policy!PolicySpec

\* ttlreaper.go:217, "Cancel existing timer if any": scheduling an object
\* again leaves it with one timer that can still fire.
SingleTimer ==
  \A t, u \in TimerId :
    /\ timer[t].state = "armed" /\ timer[u].state = "armed"
    /\ KeyOf(timer[t].item.obj) = KeyOf(timer[u].item.obj)
    => t = u
=============================================================================
