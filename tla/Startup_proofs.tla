--------------------------- MODULE Startup_proofs ---------------------------
(***************************************************************************)
(* Theorems about module Startup: its types, that nothing written is left  *)
(* unserved, and that it implements module ReaperFeed.                     *)
(***************************************************************************)
EXTENDS Startup, TLAPS

Spawned == {"controller", "sync", "serve"}

\* What is asked of the factory is always the one informer knative runs.
Wired ==
  /\ pc = "informer" => informers = 0
  /\ pc \in Spawned => informers # 0 /\ run = informers
  /\ pc \in {"sync", "serve"} => reads = run /\ handled = run
  /\ listed => pc \in {"sync", "serve"}

\* Nothing moves before the informer has listed.
Idle ==
  ~listed => /\ cache = Empty /\ acted = Empty
             /\ fifo = {} /\ pending = {} /\ dirty = {}
             /\ busy = Absent /\ acting = FALSE

\* The indexer is behind what was received only where the fifo says so, and the
\* reconciler behind the indexer only where something is coming.
InStep ==
  listed => \A r \in Reaper :
    /\ cache[r] = received[r] \/ r \in fifo
    /\ acted[r] = cache[r] \/ Coming(r)

\* A reconcile that acts is the reconcile of some key.
Occupied == acting => busy # Absent

StartupInv == StartupTypeOK /\ Wired /\ Idle /\ InStep /\ Occupied

\* The initial states, with the cluster's TTLReapers as they are.
LEMMA StartupInitially == StartupInit => StartupInv
<1> SUFFICES ASSUME StartupInit PROVE StartupInv
  OBVIOUS
<1>1. Empty \in [Reaper -> ReaperSpec \cup {Absent}]
  BY DEF Empty
<1>2. StartupTypeOK
  <2>1. {reapers, received, cache, acted} \subseteq [Reaper -> ReaperSpec \cup {Absent}]
    BY <1>1 DEF StartupInit
  <2>2. {made, informers, run, reads, handled, exits, writes} \subseteq Nat
    BY DEF StartupInit
  <2> QED BY <2>1, <2>2 DEF StartupInit, StartupTypeOK
<1>3. Wired /\ Idle /\ InStep /\ Occupied
  BY DEF StartupInit, Wired, Idle, InStep, Occupied, Spawned
<1> QED BY <1>2, <1>3 DEF StartupInv

\* The steps of sharedmain.Main.
LEMMA MainStep == StartupInv /\ Main => StartupInv'
<1> SUFFICES ASSUME StartupInv, Main PROVE StartupInv'
  OBVIOUS
<1> USE DEF StartupInv, Occupied, wiring, informer, reconciler, bounded
<1>1. CASE SetupFactory
  BY <1>1 DEF SetupFactory, StartupTypeOK, Wired, Idle, InStep, Coming, Spawned
<1>2. CASE SetupInformer
  BY <1>2 DEF SetupInformer, InformerFor, StartupTypeOK, Wired, Idle, InStep, Coming, Spawned
<1>3. CASE NewController
  BY <1>3 DEF NewController, InformerFor, StartupTypeOK, Wired, Idle, InStep, Coming, Spawned
<1>4. CASE List
  <2>1. StartupTypeOK'
    BY <1>4 DEF List, StartupTypeOK, Kept
  <2>2. Wired' /\ Idle' /\ Occupied'
    BY <1>4 DEF List, Wired, Idle
  <2>3. InStep'
    BY <1>4 DEF List, StartupTypeOK, Idle, InStep, Coming, Kept, Empty
  <2> QED BY <2>1, <2>2, <2>3
<1>5. CASE StartWorkers
  BY <1>5 DEF StartWorkers, StartupTypeOK, Wired, Idle, InStep, Coming, Spawned
<1> QED BY <1>1, <1>2, <1>3, <1>4, <1>5 DEF Main

\* The steps of one TTLReaper: a write, the informer, the queue.
LEMMA KeyStep ==
  ASSUME StartupInv, NEW r \in Reaper,
         UserSetReaper(r) \/ Receive(r) \/ Pop(r) \/ Handle(r) \/ Take(r)
  PROVE  StartupInv'
<1> USE DEF StartupInv, Occupied, wiring, informer, reconciler, bounded
<1>1. CASE UserSetReaper(r)
  <2>1. StartupTypeOK'
    BY <1>1 DEF UserSetReaper, StartupTypeOK
  <2> QED BY <1>1, <2>1 DEF UserSetReaper, Wired, Idle, InStep, Coming
<1>2. CASE Receive(r)
  <2>1. StartupTypeOK'
    BY <1>2 DEF Receive, StartupTypeOK
  <2>2. Wired' /\ Idle' /\ Occupied'
    BY <1>2 DEF Receive, Wired, Idle
  <2>3. InStep'
    BY <1>2 DEF Receive, StartupTypeOK, InStep, Coming
  <2> QED BY <2>1, <2>2, <2>3
<1>3. CASE Pop(r)
  <2>1. StartupTypeOK'
    BY <1>3 DEF Pop, StartupTypeOK
  <2>2. Wired' /\ Idle' /\ Occupied'
    BY <1>3 DEF Pop, Wired, Idle
  <2>3. InStep'
    BY <1>3 DEF Pop, StartupTypeOK, Wired, Idle, InStep, Coming
  <2> QED BY <2>1, <2>2, <2>3
<1>4. CASE Handle(r)
  BY <1>4 DEF Handle, StartupTypeOK, Wired, Idle, InStep, Coming
<1>5. CASE Take(r)
  <2>1. StartupTypeOK'
    BY <1>5 DEF Take, StartupTypeOK
  <2>2. Wired' /\ Idle' /\ Occupied'
    BY <1>5 DEF Take, Wired, Idle
  <2>3. InStep'
    BY <1>5, StartupAssumption DEF Take, StartupTypeOK, InStep, Coming
  <2> QED BY <2>1, <2>2, <2>3
<1> QED BY <1>1, <1>2, <1>3, <1>4, <1>5

\* Reconcile's read, the ticker and the end of the process.
LEMMA OtherStep == StartupInv /\ (Act \/ ActReturn \/ WatchTick \/ Exit) => StartupInv'
<1> SUFFICES ASSUME StartupInv, Act \/ ActReturn \/ WatchTick \/ Exit PROVE StartupInv'
  OBVIOUS
<1> USE DEF StartupInv, Occupied, wiring, informer, reconciler, bounded
<1>1. CASE Act
  <2>1. listed /\ busy \in Reaper /\ Found = cache
    BY <1>1 DEF Act, Idle, Wired, StartupTypeOK, Found
  <2>2. StartupTypeOK'
    <3>1. acted' \in [Reaper -> ReaperSpec \cup {Absent}]
      BY <1>1, <2>1 DEF Act, StartupTypeOK
    <3>2. busy' \in Reaper \cup {Absent} /\ acting' \in BOOLEAN /\ dirty' \subseteq Reaper
      BY <1>1, <2>1 DEF Act, StartupTypeOK
    <3> QED BY <1>1, <3>1, <3>2 DEF Act, StartupTypeOK
  <2>3. Wired' /\ Idle' /\ Occupied'
    BY <1>1, <2>1 DEF Act, Wired, Idle
  <2>4. InStep'
    BY <1>1, <2>1 DEF Act, StartupTypeOK, InStep, Coming
  <2> QED BY <2>2, <2>3, <2>4
<1>2. CASE WatchTick
  <2>1. Specs \subseteq ReaperSpec
    BY DEF Specs, Found, Empty, StartupTypeOK
  <2>2. StartupTypeOK'
    BY <1>2, <2>1 DEF WatchTick, StartupTypeOK
  <2> QED BY <1>2, <2>2 DEF WatchTick, Wired, Idle, InStep, Coming
<1>3. CASE Exit
  <2>1. Empty \in [Reaper -> ReaperSpec \cup {Absent}] /\ Empty' = Empty
    BY DEF Empty
  <2>2. StartupTypeOK'
    <3>1. {reapers', received', cache', acted'} \subseteq [Reaper -> ReaperSpec \cup {Absent}]
      BY <1>3, <2>1 DEF Exit, StartupTypeOK
    <3>2. {made', informers', run', reads', handled', exits', writes'} \subseteq Nat
      BY <1>3 DEF Exit, StartupTypeOK
    <3> QED BY <1>3, <3>1, <3>2 DEF Exit, StartupTypeOK
  <2>3. Wired' /\ Idle' /\ InStep' /\ Occupied'
    BY <1>3, <2>1 DEF Exit, Wired, Idle, InStep, Spawned
  <2> QED BY <2>2, <2>3
<1>4. CASE ActReturn
  <2>1. listed /\ busy \in Reaper
    BY <1>4 DEF ActReturn, Idle, StartupTypeOK
  <2>2. StartupTypeOK'
    BY <1>4 DEF ActReturn, StartupTypeOK
  <2> QED BY <1>4, <2>1, <2>2 DEF ActReturn, Wired, Idle, InStep, Coming
<1> QED BY <1>1, <1>2, <1>3, <1>4

LEMMA StartupInductive == StartupInv /\ [StartupNext]_startupVars => StartupInv'
<1> SUFFICES ASSUME StartupInv, [StartupNext]_startupVars PROVE StartupInv'
  OBVIOUS
<1>1. CASE UNCHANGED startupVars
  BY <1>1 DEF startupVars, wiring, informer, reconciler, bounded, StartupInv, StartupTypeOK,
     Wired, Idle, InStep, Occupied, Coming
<1> QED BY <1>1, MainStep, KeyStep, OtherStep DEF StartupNext

LEMMA StartupInvariant == StartupSpec => []StartupInv
BY StartupInitially, StartupInductive, PTL DEF StartupSpec

\* Every variable of the startup keeps its type, for any TTLReapers and specs.
THEOREM StartupTypeCorrect == StartupSpec => []StartupTypeOK
<1>1. StartupInv => StartupTypeOK
  BY DEF StartupInv
<1> QED BY <1>1, StartupInvariant, PTL

\* Whatever is in the API server is acted upon, or on its way to a worker, from
\* the first list on (controller.go:55-72).
THEOREM NothingUnserved == StartupSpec => []NoneUnserved
<1>1. StartupInv => NoneUnserved
  BY DEF StartupInv, InStep, NoneUnserved, Coming
<1> QED BY <1>1, StartupInvariant, PTL

-----------------------------------------------------------------------------
\* The cache, the queue and the workers as module ReaperFeed has them.
Lister  == [r \in Reaper |-> IF r \in initial THEN received[r] ELSE Found[r]]
Dirty   == initial \cup pending \cup dirty
Reading == {r \in Reaper : r = busy /\ ~acting}
Acting  == {r \in Reaper : r = busy /\ acting}

Nothing == Lister = Empty /\ Dirty = {} /\ Reading = {} /\ Acting = {}
Unfed   == listed' = listed /\ Lister' = Lister /\ Dirty' = Dirty
           /\ Reading' = Reading /\ Acting' = Acting

\* Before the list there is nothing in any of them.
LEMMA NothingYet == StartupInv /\ ~listed => Nothing
BY StartupAssumption
   DEF StartupInv, Idle, StartupTypeOK, Nothing, Lister, Dirty, Reading, Acting, Found, Empty

LEMMA NothingLeft == StartupInv' /\ ~listed' => Nothing'
BY StartupAssumption
   DEF StartupInv, Idle, StartupTypeOK, Nothing, Lister, Dirty, Reading, Acting, Found, Empty

\* A reconcile ends, or goes on, as module ReaperFeed lets it.
LEMMA ActFeeds ==
  ASSUME StartupInv, NEW r \in Reaper, r = busy, Act \/ ActReturn
  PROVE  Feed!FeedNext
<1> USE DEF wiring, informer, reconciler, bounded
<1>1. busy \in Reaper /\ listed /\ Found = cache
  BY DEF Act, ActReturn, StartupInv, StartupTypeOK, Wired, Idle, Occupied, Found
<1>2. UNCHANGED <<listed, initial, received, pending>> /\ Found' = Found /\ Lister' = Lister
  BY DEF Act, ActReturn, Lister, Found
<1>3. Lister[busy] = Found[busy] \/ busy \in Dirty
  BY <1>1 DEF Lister, Dirty
<1>4. CASE Act
  <2>1. Reading = {busy} /\ Acting = {}
    BY <1>1, <1>4 DEF Act, Reading, Acting
  <2>2. CASE Found[busy] = Absent /\ busy' = Absent /\ UNCHANGED <<dirty, acting>>
    <3>1. Reading' = {} /\ Acting' = {} /\ Dirty' = Dirty
      BY <1>2, <1>4, <2>2, StartupAssumption DEF Act, Reading, Acting, Dirty
    <3>2. Feed!FindNone(r)
      BY <1>2, <1>3, <2>1, <2>2, <3>1 DEF Feed!FindNone, Lister, Dirty, Reading, Acting
    <3> QED BY <1>1, <3>2 DEF Feed!FeedNext
  <2>3. CASE busy' = Absent /\ dirty' = dirty \cup {busy} /\ UNCHANGED acting
    <3>1. Reading' = {} /\ Acting' = {} /\ Dirty' = Dirty \cup {busy}
      BY <1>2, <1>4, <2>3, StartupAssumption DEF Act, Reading, Acting, Dirty
    <3>2. Feed!Fail(r)
      BY <1>2, <2>1, <3>1 DEF Feed!Fail, Lister, Dirty, Reading, Acting
    <3> QED BY <1>1, <3>2 DEF Feed!FeedNext
  <2>4. CASE /\ Found[busy] # Absent /\ ~Rejected(Found[busy])
             /\ acting' = TRUE /\ UNCHANGED <<dirty, busy>>
    <3>1. Reading' = {} /\ Acting' = {busy} /\ Dirty' = Dirty
      BY <1>1, <1>2, <2>4 DEF Reading, Acting, Dirty
    <3>2. Found[busy] \in {spec \in ReaperSpec : ~Rejected(spec)}
      BY <1>1, <2>4 DEF StartupInv, StartupTypeOK
    <3>3. Feed!Accept(r)
      BY <1>2, <1>3, <2>1, <3>1, <3>2 DEF Feed!Accept, Lister, Dirty, Reading, Acting
    <3> QED BY <1>1, <3>3 DEF Feed!FeedNext
  <2> QED BY <1>4, <2>2, <2>3, <2>4 DEF Act
<1>5. CASE ActReturn
  <2>1. Reading = {} /\ Acting = {busy} /\ Reading' = {} /\ Acting' = {} /\ Dirty' = Dirty
    BY <1>1, <1>2, <1>5, StartupAssumption DEF ActReturn, Reading, Acting, Dirty
  <2>2. Feed!Finish(r)
    BY <1>2, <2>1 DEF Feed!Finish, Lister, Dirty, Reading, Acting
  <2> QED BY <1>1, <2>2 DEF Feed!FeedNext
<1> QED BY <1>4, <1>5

\* Every step is a step of the feed or leaves it as it is.
LEMMA StepFeeds ==
  StartupInv /\ StartupInv' /\ [StartupNext]_startupVars => [Feed!FeedNext]_(Feed!feedVars)
<1> SUFFICES ASSUME StartupInv, StartupInv', [StartupNext]_startupVars
             PROVE  Feed!FeedNext \/ Unfed
  BY DEF Feed!feedVars, Unfed, Lister, Dirty, Reading, Acting
<1> USE DEF wiring, informer, reconciler, bounded
<1>0. listed => Found = cache
  BY DEF StartupInv, Wired, Found
<1>1. CASE UNCHANGED startupVars
  BY <1>1 DEF startupVars, Unfed, Lister, Dirty, Reading, Acting, Found
<1>2. CASE SetupFactory \/ SetupInformer \/ NewController
  <2>1. ~listed /\ ~listed' /\ listed' = listed
    BY <1>2 DEF SetupFactory, SetupInformer, NewController, StartupInv, Wired
  <2>2. Nothing /\ Nothing' /\ Empty' = Empty
    BY <2>1, NothingYet, NothingLeft DEF Empty
  <2> QED BY <2>1, <2>2 DEF Nothing, Unfed
<1>3. CASE List
  <2>1. listed' /\ Lister' = reapers /\ Dirty' = Kept
    <3>1. cache' = Empty /\ Found' = Empty /\ pending' = {} /\ dirty' = {}
      BY <1>3 DEF List, StartupInv, Idle, Found
    <3> QED BY <1>3, <3>1 DEF List, Lister, Dirty, Kept, Empty, StartupInv, StartupTypeOK
  <2>2. Reading' = {} /\ Acting' = {}
    BY <1>3, StartupAssumption DEF List, Reading, Acting, StartupInv, Idle
  <2>3. Feed!FillCache
    BY <2>1, <2>2 DEF Feed!FillCache, Lister, Dirty, Reading, Acting, Kept, StartupInv, StartupTypeOK
  <2> QED BY <2>3 DEF Feed!FeedNext
<1>4. CASE StartWorkers \/ WatchTick
  BY <1>4 DEF StartWorkers, WatchTick, Unfed, Lister, Dirty, Reading, Acting, Found
<1>5. ASSUME NEW r \in Reaper, UserSetReaper(r) \/ Handle(r) PROVE Unfed
  BY <1>5 DEF UserSetReaper, Handle, Unfed, Lister, Dirty, Reading, Acting, Found
<1>6. ASSUME NEW r \in Reaper, Receive(r) PROVE Feed!FeedNext \/ Unfed
  <2>0. Reading' = Reading /\ Acting' = Acting
    BY <1>6 DEF Receive, Reading, Acting
  <2>1. CASE r \in initial
    <3>1. Lister' = [Lister EXCEPT ![r] = reapers[r]] /\ Dirty' = Dirty \cup {r}
      BY <1>6, <2>1 DEF Receive, Lister, Dirty, Found, StartupInv, StartupTypeOK
    <3>2. Feed!ChangeEntry(r)
      BY <1>6, <2>0, <3>1 DEF Receive, Feed!ChangeEntry, Lister, Dirty, Reading, Acting,
         StartupInv, StartupTypeOK
    <3> QED BY <3>2 DEF Feed!FeedNext
  <2>2. CASE r \notin initial
    BY <1>6, <2>0, <2>2 DEF Receive, Unfed, Lister, Dirty, Found, StartupInv, StartupTypeOK
  <2> QED BY <2>1, <2>2
<1>7. ASSUME NEW r \in Reaper, Pop(r) PROVE Feed!FeedNext \/ Unfed
  <2>0. listed /\ Found = cache /\ Found' = cache' /\ handled = run
    BY <1>7, <1>0 DEF Pop, StartupInv, Idle, Wired, Found
  <2>3. Reading' = Reading /\ Acting' = Acting
    BY <1>7 DEF Pop, Reading, Acting
  <2>1. CASE r \in initial
    BY <1>7, <2>0, <2>1, <2>3 DEF Pop, Unfed, Lister, Dirty, StartupInv, StartupTypeOK
  <2>2. CASE r \notin initial
    <3>1. Lister' = [Lister EXCEPT ![r] = received[r]] /\ Dirty' = Dirty \cup {r}
      BY <1>7, <2>0, <2>2 DEF Pop, Lister, Dirty, StartupInv, StartupTypeOK
    <3>2. Feed!ChangeEntry(r)
      BY <1>7, <2>0, <2>3, <3>1 DEF Pop, Feed!ChangeEntry, Lister, Dirty, Reading, Acting,
         StartupInv, StartupTypeOK
    <3> QED BY <3>2 DEF Feed!FeedNext
  <2> QED BY <2>1, <2>2
<1>8. ASSUME NEW r \in Reaper, Take(r) PROVE Feed!FeedNext
  <2>1. listed /\ listed' = listed /\ Lister' = Lister
    BY <1>8 DEF Take, Lister, Found, StartupInv, Idle
  <2>2. Dirty' = Dirty \/ Dirty' = Dirty \ {r}
    BY <1>8 DEF Take, Dirty
  <2>3. /\ Reading = {} /\ Acting = {}
        /\ Reading' = {r} /\ Acting' = {} /\ r \in Dirty
    BY <1>8, StartupAssumption DEF Take, Reading, Acting, Dirty, StartupInv, Occupied
  <2>4. Feed!TakeKey(r)
    BY <2>1, <2>2, <2>3 DEF Feed!TakeKey, Lister, Dirty, Reading, Acting
  <2> QED BY <2>4 DEF Feed!FeedNext
<1>10. CASE Exit
  <2>1. ~listed' /\ Nothing' /\ Empty' = Empty
    <3>1. ~listed'
      BY <1>10 DEF Exit
    <3> QED BY <3>1, NothingLeft DEF Empty
  <2>2. Feed!Lose
    BY <2>1 DEF Nothing, Feed!Lose, Lister, Dirty, Reading, Acting, Empty
  <2> QED BY <2>2 DEF Feed!FeedNext
<1>9. CASE Act \/ ActReturn
  <2>1. busy \in Reaper
    BY <1>9 DEF Act, ActReturn, StartupInv, StartupTypeOK, Occupied
  <2> QED BY <1>9, <2>1, ActFeeds
<1> QED BY <1>1, <1>2, <1>3, <1>4, <1>5, <1>6, <1>7, <1>8, <1>9, <1>10 DEF StartupNext, Main

\* The startup in detail implements the feed module Controller assumes: the cache
\* is filled with all of it queued and never changes unseen, and a key a worker
\* has taken is queued again unless its reconcile has acted on what the cache
\* holds or found no TTLReaper (controller.go:55-72; ttlreaper.go:59-119).
THEOREM StartupFeeds == StartupSpec => ImplementsFeed
<1>1. StartupInit => Feed!FeedInit
  <2> SUFFICES ASSUME StartupInit PROVE Feed!FeedInit
    OBVIOUS
  <2>1. Found = Empty /\ Reading = {} /\ Acting = {}
    BY StartupAssumption DEF StartupInit, Found, Empty, Reading, Acting
  <2> QED BY <2>1 DEF StartupInit, Feed!FeedInit, Empty, Reading, Acting
<1>2. StartupInv /\ StartupInv' /\ [StartupNext]_startupVars => [Feed!FeedNext]_(Feed!feedVars)
  BY StepFeeds
<1> QED BY <1>1, <1>2, StartupInvariant, PTL DEF StartupSpec, ImplementsFeed, Feed!FeedSpec
=============================================================================
