------------------------------ MODULE Startup -------------------------------
(***************************************************************************)
(* From the start of the process to a worker that reads a TTLReaper: the   *)
(* injection packages that make the informer factory and the informer, the *)
(* clientset and the typed client under them, NewController, and the order *)
(* in which knative runs it all.  Module TargetWatch takes this path in    *)
(* one step, Restart; here it is in detail.                                *)
(*                                                                         *)
(* pc is how far sharedmain.Main has come; what it does next is            *)
(*   factory     call the registered informer factory                      *)
(*   informer    call the registered informer                              *)
(*   controller  call NewController                                        *)
(*   sync        run the informer, and wait until it has synced            *)
(*   serve       nothing: the workers run                                  *)
(* The process may end at any time, and is then started again.             *)
(*                                                                         *)
(* Informers are numbered in the order they are made, 0 being none; only   *)
(* the one knative runs ever holds or delivers anything.  It receives the  *)
(* changes of TTLReapers, holds them in a queue (fifo), and takes them one *)
(* by one into its indexer (cache), telling its handler later (pending).   *)
(***************************************************************************)
EXTENDS TargetGVR, Integers

CONSTANTS
  Reaper,       \* names of TTLReapers
  ReaperSpec,   \* the specs they take: [kind, version, ns, sel]
  Absent,       \* no TTLReaper, no key
  MaxExit,      \* bound on the ends of the process
  MaxWrite      \* bound on the writes of TTLReapers

ASSUME StartupAssumption ==
  /\ Absent \notin Reaper /\ Absent \notin ReaperSpec
  /\ MaxExit \in Nat /\ MaxWrite \in Nat

VARIABLES
  reapers,      \* the TTLReapers in the API server
  pc,           \* how far the process is
  made,         \* how many informers it has made
  informers,    \* the factory's informer of TTLReapers
  run,          \* the informer knative was handed to run
  reads,        \* the informer whose indexer ttlreaperLister reads
  handled,      \* the informer that has the event handler
  listed,       \* whether the informer that runs has listed
  received,     \* what it last received of each TTLReaper
  initial,      \* listed TTLReapers not yet in its indexer
  fifo,         \* received changes not yet in its indexer
  cache,        \* its indexer
  pending,      \* changes of which its handler has not been told
  dirty,        \* the work queue
  busy,         \* the key a worker has taken
  acting,       \* whether its reconcile is past the last error it can return
  acted,        \* what Reconcile last found under each key
  watched,      \* watchedGVRs
  exits,        \* how often the process has ended
  writes        \* how often users have written TTLReapers

wiring == <<made, informers, run, reads, handled>>
informer == <<listed, received, initial, fifo, cache, pending>>
reconciler == <<dirty, busy, acting, acted, watched>>
bounded == <<exits, writes>>
startupVars == <<reapers, pc, wiring, informer, reconciler, bounded>>

Empty == [r \in Reaper |-> Absent]
Kept == {r \in Reaper : reapers[r] # Absent}

-----------------------------------------------------------------------------
\* What a config says of the rate of calls; rest.InClusterConfig says nothing.
InClusterConfig == [qps |-> 0, burst |-> 0, limiter |-> FALSE]

ConfigNeedsBurst(c) ==   \* mutant: a burst is required whatever QPS is
  c.limiter \/ c.burst > 0

\* A config that wants a limiter made for it must give its burst.  (The other
\* errors of NewForConfig do not come of the config; see Exit.)
ConfigAccepted(c) == c.limiter \/ c.qps <= 0 \/ c.burst > 0

\* Where the typed client looks for TTLReapers, and where the CRD has them.
SchemeGroupVersion == [group |-> "clusterops.io", version |-> "v1alpha1"]
ConfigDefaults == [root |-> "/apis", gv |-> SchemeGroupVersion]
ClientPath == [base |-> ConfigDefaults, ns |-> "", resource |-> "ttlreapers"]

ServedPath ==
  [base |-> [root |-> "/apis", gv |-> [group |-> "clusterops.io", version |-> "v1alpha1"]],
   ns |-> "", resource |-> "ttlreapers"]

InformerForAnew == made + 1   \* mutant: each call makes an informer

\* The informer in the factory's map, or a new one.
InformerFor == IF informers # 0 THEN informers ELSE made + 1

\* What ttlreaperLister finds: an informer that does not run has an empty indexer.
Found == IF reads = run THEN cache ELSE Empty

-----------------------------------------------------------------------------
StartupInit ==
  /\ reapers \in [Reaper -> ReaperSpec \cup {Absent}]
  /\ pc = "factory"
  /\ made = 0 /\ informers = 0 /\ run = 0 /\ reads = 0 /\ handled = 0
  /\ listed = FALSE /\ received = Empty /\ cache = Empty
  /\ initial = {} /\ fifo = {} /\ pending = {}
  /\ dirty = {} /\ busy = Absent /\ acting = FALSE /\ acted = Empty /\ watched = {}
  /\ exits = 0 /\ writes = 0

\* The process ends and is started again: by a crash, by a config that cannot be
\* read, or by the panic of NewForConfigOrDie, which is where an error of
\* HTTPClientFor or of either client's constructor ends.
Exit ==
  /\ exits < MaxExit
  /\ exits' = exits + 1
  /\ pc' = "factory"
  /\ made' = 0 /\ informers' = 0 /\ run' = 0 /\ reads' = 0 /\ handled' = 0
  /\ listed' = FALSE /\ received' = Empty /\ cache' = Empty
  /\ initial' = {} /\ fifo' = {} /\ pending' = {}
  /\ dirty' = {} /\ busy' = Absent /\ acting' = FALSE /\ acted' = Empty /\ watched' = {}
  /\ UNCHANGED <<reapers, writes>>

\* withInformerFactory, with an empty factory.
SetupFactory ==
  /\ pc = "factory"
  /\ ConfigAccepted(InClusterConfig)
  /\ pc' = "informer"
  /\ informers' = 0
  /\ UNCHANGED <<reapers, made, run, reads, handled, informer, reconciler, bounded>>

\* withInformer: the accessor goes into the context, the informer to knative.
SetupInformer ==
  /\ pc = "informer"
  /\ pc' = "controller"
  /\ informers' = InformerFor
  /\ made' = InformerFor
  /\ run' = InformerFor
  /\ UNCHANGED <<reapers, reads, handled, informer, reconciler, bounded>>

NewControllerOwnLister ==   \* mutant of the next: the lister of an informer of its own
  /\ pc = "controller"
  /\ pc' = "sync"
  /\ made' = made + 1
  /\ reads' = made + 1
  /\ handled' = informers
  /\ UNCHANGED <<reapers, informers, run, informer, reconciler, bounded>>

\* NewController asks the accessor twice more, for the lister and for the
\* handler, and starts the ticker.
NewController ==
  /\ pc = "controller"
  /\ pc' = "sync"
  /\ informers' = InformerFor
  /\ made' = InformerFor
  /\ reads' = InformerFor
  /\ handled' = InformerFor
  /\ UNCHANGED <<reapers, run, informer, reconciler, bounded>>

-----------------------------------------------------------------------------
\* A user creates, changes or deletes a TTLReaper.
UserSetReaper(r) ==
  /\ writes < MaxWrite
  /\ writes' = writes + 1
  /\ \E spec \in ReaperSpec \cup {Absent} : reapers' = [reapers EXCEPT ![r] = spec]
  /\ UNCHANGED <<pc, wiring, informer, reconciler, exits>>

\* The informer that runs lists, and watches from there on.
List ==
  /\ pc = "sync"
  /\ ~listed
  /\ ClientPath = ServedPath
  /\ listed' = TRUE
  /\ received' = reapers
  /\ initial' = Kept /\ fifo' = Kept
  /\ UNCHANGED <<reapers, pc, wiring, cache, pending, reconciler, bounded>>

Receive(r) ==
  /\ listed
  /\ received[r] # reapers[r]
  /\ received' = [received EXCEPT ![r] = reapers[r]]
  /\ fifo' = fifo \cup {r}
  /\ UNCHANGED <<reapers, pc, wiring, listed, initial, cache, pending, reconciler, bounded>>

\* One change reaches the indexer, and the handler is to be told.
Pop(r) ==
  /\ r \in fifo
  /\ cache' = [cache EXCEPT ![r] = received[r]]
  /\ fifo' = fifo \ {r}
  /\ initial' = initial \ {r}
  /\ pending' = IF handled = run THEN pending \cup {r} ELSE pending
  /\ UNCHANGED <<reapers, pc, wiring, listed, received, reconciler, bounded>>

\* HandleAll(impl.Enqueue).
Handle(r) ==
  /\ r \in pending
  /\ pending' = pending \ {r}
  /\ dirty' = dirty \cup {r}
  /\ UNCHANGED <<reapers, pc, wiring, listed, received, initial, fifo, cache, busy, acting,
                 acted, watched, bounded>>

\* The informer has synced, and knative starts the workers.
StartWorkers ==
  /\ pc = "sync"
  /\ listed /\ initial = {}
  /\ pc' = "serve"
  /\ UNCHANGED <<reapers, wiring, informer, reconciler, bounded>>

-----------------------------------------------------------------------------
Take(r) ==
  /\ pc = "serve"
  /\ busy = Absent
  /\ r \in dirty
  /\ busy' = r
  /\ dirty' = dirty \ {r}
  /\ UNCHANGED <<reapers, pc, wiring, informer, acting, acted, watched, bounded>>

\* The specs reconcileTTLReaper rejects with an error.
Rejected(spec) == spec.kind.stem = Absent \/ ~ListParses(spec)

\* Reconcile reads the TTLReaper.  Finding none, it returns nil.  A spec that is
\* rejected, or namespaces that cannot be listed, is an error, and the key is
\* queued again.  Else it goes on, and returns nil in the end.
Act ==
  /\ busy # Absent /\ ~acting
  /\ acted' = [acted EXCEPT ![busy] = Found[busy]]
  /\ \/ /\ Found[busy] = Absent
        /\ busy' = Absent
        /\ UNCHANGED <<dirty, acting>>
     \/ /\ Found[busy] # Absent
        /\ Rejected(Found[busy]) \/ Found[busy].ns = Absent
        /\ busy' = Absent
        /\ dirty' = dirty \cup {busy}
        /\ UNCHANGED acting
     \/ /\ Found[busy] # Absent
        /\ ~Rejected(Found[busy])
        /\ acting' = TRUE
        /\ UNCHANGED <<dirty, busy>>
  /\ UNCHANGED <<reapers, pc, wiring, informer, watched, bounded>>

ActReturn ==
  /\ acting
  /\ busy' = Absent
  /\ acting' = FALSE
  /\ UNCHANGED <<reapers, pc, wiring, informer, dirty, acted, watched, bounded>>

Specs == {Found[r] : r \in Reaper} \ {Absent}

TickTrustsVersions ==   \* mutant: the error of parseTargetGVR is dropped
  /\ pc \in {"sync", "serve"}
  /\ watched' = watched \cup {WatchGVR(spec) : spec \in Specs}
  /\ UNCHANGED <<reapers, pc, wiring, informer, dirty, busy, acting, acted, bounded>>

TickStopsAtBad ==   \* mutant: a version that does not parse ends the tick
  /\ pc \in {"sync", "serve"}
  /\ \A spec \in Specs : WatchParses(spec)
  /\ watched' = watched \cup {WatchGVR(spec) : spec \in Specs}
  /\ UNCHANGED <<reapers, pc, wiring, informer, dirty, busy, acting, acted, bounded>>

\* The ticker of watchTargetResources, which waits for no sync.
WatchTick ==
  /\ pc \in {"sync", "serve"}
  /\ watched' = watched \cup {WatchGVR(spec) : spec \in {s \in Specs : WatchParses(s)}}
  /\ UNCHANGED <<reapers, pc, wiring, informer, dirty, busy, acting, acted, bounded>>

-----------------------------------------------------------------------------
Main == SetupFactory \/ SetupInformer \/ NewController \/ List \/ StartWorkers

StartupNext ==
  \/ Main
  \/ \E r \in Reaper : UserSetReaper(r) \/ Receive(r) \/ Pop(r) \/ Handle(r) \/ Take(r)
  \/ Act \/ ActReturn
  \/ WatchTick
  \/ Exit

StartupSpec == StartupInit /\ [][StartupNext]_startupVars

\* Goroutines run, the queue is first in, first out, and the watch delivers.
\* Users do as they please, and the process need never end.
StartupFairness ==
  /\ WF_startupVars(Main)
  /\ WF_startupVars(Act \/ ActReturn)
  /\ WF_startupVars(WatchTick)
  /\ \A r \in Reaper : /\ WF_startupVars(Receive(r)) /\ WF_startupVars(Pop(r))
                       /\ WF_startupVars(Handle(r)) /\ SF_startupVars(Take(r))

FairStartupSpec == StartupSpec /\ StartupFairness

-----------------------------------------------------------------------------
(***************************************************************************)
(* Properties.                                                             *)
(***************************************************************************)
StartupTypeOK ==
  /\ {reapers, received, cache, acted} \subseteq [Reaper -> ReaperSpec \cup {Absent}]
  /\ pc \in {"factory", "informer", "controller", "sync", "serve"}
  /\ {made, informers, run, reads, handled, exits, writes} \subseteq Nat
  /\ listed \in BOOLEAN
  /\ initial \subseteq fifo /\ fifo \subseteq Reaper
  /\ pending \subseteq Reaper /\ dirty \subseteq Reaper
  /\ busy \in Reaper \cup {Absent} /\ acting \in BOOLEAN
  /\ watched \subseteq {WatchGVR(spec) : spec \in {s \in ReaperSpec : WatchParses(s)}}

\* What has still to happen will make a worker read r again.
Coming(r) == r \in fifo \cup pending \cup dirty \/ (r = busy /\ ~acting)

\* From the moment the informer has listed, a TTLReaper is known to the
\* reconciler as it is in the API server, or its change is on the way to a
\* worker: the lister, the handler and the informer that runs are one, though
\* each is asked for separately, and nothing of the first list is lost for
\* coming before the workers run (controller.go:55-72; injection ttlreaper.go:
\* 37-41; factory.go:179-199).
NoneUnserved ==
  listed => \A r \in Reaper :
    acted[r] = reapers[r] \/ received[r] # reapers[r] \/ Coming(r)

\* As the reconciler sees the cache and its queue, module ReaperFeed.
Feed == INSTANCE ReaperFeed WITH
  up <- listed,
  lister <- [r \in Reaper |-> IF r \in initial THEN received[r] ELSE Found[r]],
  dirty <- initial \cup pending \cup dirty,
  reading <- {r \in Reaper : r = busy /\ ~acting},
  acting <- {r \in Reaper : r = busy /\ acting},
  Accepted <- {spec \in ReaperSpec : ~Rejected(spec)}

ImplementsFeed == Feed!FeedSpec

\* The process comes up, and what a user writes is acted upon, unless it is
\* written over before (injection factory.go:38-45; clientset.go:59-110).
EveryReaperServed ==
  \A r \in Reaper, spec \in ReaperSpec :
    reapers[r] = spec ~> (acted[r] = spec \/ reapers[r] # spec)

\* A TTLReaper whose version does not parse keeps no other's resource type from
\* being watched, nor does a tick that comes before the cache is filled
\* (controller.go:75, :102-120).
EveryTypeWatched ==
  \A r \in Reaper, spec \in {s \in ReaperSpec : WatchParses(s)} :
    reapers[r] = spec ~> (WatchGVR(spec) \in watched \/ reapers[r] # spec)
=============================================================================
