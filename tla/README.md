# TTL Reaper: a TLA+ model, its checks and its proofs

The program is a Kubernetes controller. A cluster-wide `TTLReaper` names a kind,
an API version and optionally a namespace and a label selector; the controller
deletes the objects so named once they have finished and their
`spec.ttlSecondsAfterFinished` has run out. This directory holds a model of it in
TLA+, the configurations TLC checks it with, and theorems TLAPS proves about it.
Paths below are relative to the repository; `ttlreaper.go` and `controller.go` are
those of `pkg/reconciler/ttlreaper`.

## 1. Inventory

| part | state it keeps | operations | what is hard | what makes it correct |
|---|---|---|---|---|
| Reconciler (`ttlreaper.go`) | `timers`, a map from `namespace/kind/name` to a runtime timer, under a mutex | `Reconcile`, `reconcileTTLReaper`, `processNamespace`, `scheduleResourceDeletion`, the `AfterFunc` callback; pure: `isResourceFinished`, `getResourceName`; `Promote`, `Demote` do nothing | several workers and callbacks race on the map; deletion uses a copy listed long before; errors are logged and swallowed; arithmetic on durations | only finished and expired objects are deleted; the map holds just the timers that wait; scheduling again replaces a timer |
| Controller (`controller.go`) | `watchedGVRs`, local to one goroutine; the informers it starts | `NewController`, `watchTargetResources` (a tick every 30 s), `startWatchingGVR`, `enqueueTargetingTTLReapers`, `parseTargetGVR` | lag of the caches, order of tick and events, nothing persistent | every finished object is seen sooner or later, and what is listed is watched |
| knative `controller.Impl` and client-go informers (external) | work queue: dirty and processing sets; caches | hand a key to one worker, requeue on error, deliver adds and updates, resync | an event for a key in process; missed or merged updates | (assumed) |
| API server and users (external) | objects under names, TTLReapers | list, delete, writes by users | names are reused, objects edited, calls fail | (assumed) |
| Shared informer factory (`pkg/generated/informers/externalversions/factory.go`) | `informers`, `startedInformers`, `wg`, `shuttingDown` | `InformerFor`, `Start`, `Shutdown`, `WaitForCacheSync` | `Start` against `Shutdown` against `InformerFor` | each informer is started once, none after `Shutdown` |
| Start: `cmd/controller/main.go`, injection, clientset, lister | the factory, the informer and the accessor in a context | `withInformerFactory`, `withInformer`, `NewController`, `NewForConfigOrDie`, `NewTTLReaperLister` | three calls must come by one informer; the first list is delivered before any worker runs; the ticker runs before the sync; the process may end in between | the reconciler reads every TTLReaper as it is, or is going to |
| Deployment (`config/deploy`) | none | one replica, replaced by rolling update | two processes at once, each with timers of its own, and no regard for leadership | each looks after every object by itself; together they do what one may |
| API types, deep copies, fakes, CRDs | none that changes | | | |

How they interact: a change of a TTLReaper, or of an object of a watched type,
becomes a key in the queue. A worker takes it, reads the TTLReaper from the cache,
lists the objects over the API, and for each one that has finished deletes it or
arms a timer. Workers and callbacks share `timers` under its mutex, and nothing
else; the ticker and the event handlers share the TTLReaper cache with the workers.

The hazards this gives rise to are listed in `PROJECT.json`, each at its line,
with the properties meant to catch it.

## 2. Modules

| module | what it models |
|---|---|
| `Lifetime` | pure: `IsResourceFinished`, the finish time with its fallback, the int64 product of the TTL, `time.Until`, hence the delay of an object |
| `Cluster` | the API server, the clock and the users, as the environment; a completion time is what an owner writes, any offset from the clock or one that does not parse; `APIDelete` is the reaper's call, by name alone |
| `TargetGVR` | pure: the two conversions from a kind and an API version to a resource type, one for the list and one for the watch |
| `Reaper` | the reconciler: workers, timers, callbacks, the map. What feeds the queue is left open |
| `ReapPolicy` | abstract: warrants (copies of finished objects) and deletions on a warrant that has expired |
| `ReaperFeed` | abstract: what the reconciler may expect of the cache of TTLReapers, of its queue and of the keys workers have taken |
| `Startup` | from `main` to a worker that reads a TTLReaper: injection, clientset, factory, informer, `NewController`, ticker; implements `ReaperFeed` |
| `TargetWatch` | `controller.go`: caches, event handlers, the ticker, resync, restart |
| `Controller` | `Reaper` fed by `TargetWatch`; fairness; the properties of the whole |
| `InformerFactory` | `factory.go`: several goroutines in `InformerFor`, `Start`, `Shutdown` and `WaitForCacheSync`, the lock, the WaitGroup and the goroutines of the informers; on its own |
| `Rollout` | two instances of `Controller` over one cluster: the old and the new process of a rolling update |
| `Countdown` | `Controller` with a history of when each object finished |
| `Reaper_proofs`, `Controller_proofs`, `NothingForgotten_proofs`, `TakingTurns_proofs`, `Countdown_proofs`, `InformerFactory_proofs`, `Startup_proofs`, `Rollout_proofs` | theorems |
| `MCConstants`, `MCReaper`, `MCController`, `MCCountdown`, `MCStartup`, `MCRollout` | constants and symmetry for TLC |

### State and actions against the code

A worker is a goroutine; `worker[w].pc` names the call it makes next, so that every
API call and every acquisition of the mutex is a step of its own and the rest of
the world moves between two of them.

| action | code |
|---|---|
| `Dequeue`, `ReturnError` | `controller.Impl`: one worker per key, requeue on error |
| `GetReaper` | `ttlreaper.go:60-110`, cache lookup, rejections, gvr, one namespace |
| `ListNamespaces` | `:110-119`, may fail and fail the reconcile |
| `ListItems` | `:122-183`, one List; selector or call may fail, which is logged and passed over; items without a TTL or unfinished are dropped |
| `ComputeDelay` | `:196-215`, before the lock |
| `Schedule` = `Expire` or `Arm` | `:217-266`, the critical section with its Stop |
| `DeleteExpired` | `:233-240`, after the unlock |
| `Fire`, `CallbackDelete`, `CallbackCleanup` | `:244-263`; Stop has no effect after `Fire` |
| `SyncReaper`, `ResyncReaper` | `controller.go:72`, `HandleAll(impl.Enqueue)` |
| `WatchTick` | `:93-120` with `startWatchingGVR`; a new informer first delivers what it lists |
| `UserActs`, `Notify`, `ResyncTarget` | the informer of a target type and its handlers, `:142-174`; deletions have no handler |
| `Restart` | a new process: timers, queue, `watchedGVRs` gone, TTLReaper cache synced, every TTLReaper enqueued; `Startup` has it step by step |
| `SetupFactory`, `SetupInformer` | `withInformerFactory`, `withInformer` of the injection packages, as knative calls them, once `ConfigAccepted` (`clientset.go:81`); the other errors of `NewForConfig` are of no config, and end in a panic, which is `Exit` |
| `NewController` | `controller.go:48-78`: the accessor asked for its informer twice more, each through `InformerFor` (`factory.go:177-199`), for the lister and for the handler |
| `List`, `Receive`, `Pop`, `Handle` | the informer that runs: its list at the typed client's path, its watch, its indexer, the handler of `controller.go:72` |
| `StartWorkers`, `Take`, `Act`, `ActReturn` | knative once the informer has synced; a worker's `Reconcile` up to its last error (`ttlreaper.go:59-119`): no such TTLReaper, an error and its key queued again, or on to what it does; and its end |
| `NewStarts`, `OldEnds` | the Deployment replaces its one replica; the two overlap, or not |
| `OldReconciles`, `OldActs`, `NewReconciles`, `NewActs` | the steps of `Controller` in either process, whichever leads, since `Promote` and `Demote` (`ttlreaper.go:321-332`) do nothing |

In `InformerFactory` a caller's `pc` tells where in the factory it is. `Start` keeps the lock
through its loop, `StartOne` being one turn of it (`factory.go:131-144`); the other operations
hold it for one step. `RunReturn` is the end of a goroutine, which may wake a `Wait`
(`:138-141`); a woken `Wait` returns whatever the counter has become by then, as
Go's does.

In `Startup` an informer is a number, given in the order of making. Only the one knative was
handed runs, so a lister or a handler on another would see nothing; that all three are the
same is a property (`NoneUnserved`), not a given. `initial` are the listed TTLReapers that have not
reached the indexer, on which `HasSynced` waits; handlers are told later, which it does not wait for.

`ReaperFeed` has the TTLReapers in a cache, the keys a worker has yet to take (`dirty`), those taken whose reconcile may yet
return an error (`reading`) and those whose reconcile will return nil (`acting`). A key leaves `reading` in three ways only: there was
no such TTLReaper (`FindNone`), an error, with the key back in `dirty` in the same step (`Fail`), or the reconcile got past its last error
with a spec the cache still holds, or whose key has been queued since (`Accept`). So no step loses a key that a reconcile failed on, nor
one whose TTLReaper has changed. In `Startup` a key counts as `dirty` from when its TTLReaper is listed, in `Controller` from when
the handler has queued it; there `HeldAt` reads `reading` and `acting` off the workers' program counters.

`missed` is a history of the objects failed calls were about: a Delete is about its object, a List in a namespace about the
finished objects it would have returned, and the List of the namespaces about none, since its failure fails the reconcile, whose
key is queued again. `NothingForgotten` and `NothingStale` speak of all other objects, so a failed call costs no more than that.

The two instances in `Rollout` share `api`, `clock`, `reapers`, the count of failed calls and `missed`. Each is an
instance of `TakingTurns_proofs`, which extends the other proofs, so that `Rollout_proofs` can cite what is proved of one process.

What is abstracted: a resource name is a stem and its ending; a label selector is
the set of labels it admits; a copy of an object holds just the fields the reaper
reads; the versions of one API group are not told apart; the TTLReapers' deletion
timestamps, API paging, finalizers, deletion propagation, logging and the returned
counts are left out. A lost answer to a Delete is the same as success here, since
the code does nothing either way. `namespace` in the key and `GetNamespace()` in the
Delete are one field of the object's name.

## 3. Runs

All objects are of kind `WorkflowRun` in namespace `demo` unless said otherwise.
Symmetry over workers, timers and TTLReapers is used in the runs of safety and
action properties, never in those with liveness.

| run | question and answer | bounds |
|---|---|---|
| `reaper_open` | With anything feeding the queue: does the map leak (`NoTimerLeak`), is every deletion warranted (`WarrantedReap`), does it all implement `ReapPolicy` (`ImplementsPolicy`)? Yes | 2 TTLReapers over all namespaces, 2 workers, 2 timers, 1 object, edits until it finishes, reuse of its name (which stands for an edit after that), clock to 1, one failed call, crashes at will |
| `countdown` | Where owners behave (they write a completion time, with a clock that is right or ahead, leave finished objects alone, do not reuse names): is what is deleted finished and expired then (`ReapsOnlyExpired`), and a TTL past its finish (`CountdownStartsAtFinish`)? Yes | 2 TTLReapers, 2 workers, clock to 2, completion times of now or of 1 later |
| `controller_safety` | Is a finished, covered object ever forgotten (`NothingForgotten`)? No. Is a key lost of a TTLReaper that changed or of a reconcile that failed (`KeepsFeed`)? No | 2 TTLReapers over all namespaces, 2 workers, 1 timer, edits, one failed call, one crash, clock to 1 |
| `controller_live` | Is an edited object remembered only by an outdated copy (`NothingStale`)? Not unless a failed call was about it. Is what is due deleted (`DueIsReaped`)? Yes, by the resync where a call failed | 1 TTLReaper over all namespaces, 1 worker, edits, one failed call, resyncs after it alone |
| `startup` | Is every TTLReaper read as it is, or on its way to a worker (`NoneUnserved`, `ImplementsFeed`)? Does the process come up and act on what is written (`EveryReaperServed`), and watch every type whose version parses (`EveryTypeWatched`)? Yes | 2 TTLReapers, one good spec and one whose version does not parse, 2 writes, reconciles that fail at will, the process ends once, at any step |
| `rollout` | Does either of two processes rely on the other (`NeitherForgets`)? No. Do they together do what one may (`TogetherImplementPolicy`)? Is what is due deleted, though its timer ended with the old process (`DueIsReapedByEither`)? Yes | 1 TTLReaper, 1 worker and 1 timer in each process, 1 object, users write at clock 0 and leave finished objects and TTLReapers that exist alone |
| `informer_factory` | Do `Start` and `Shutdown` exclude each other (`NoAddDuringWait`, `ShutdownIsFinal`), is the counter exact (`WaitGroupCounts`), does `WaitForCacheSync` wait for all that was started when it was called and no more (`SyncedOnReturn`, `CallsReturn`), do all calls return (`CallsReturn`)? Yes | 2 callers, 2 types, 2 stop channels; nothing else is bounded |

Runs that find a disagreement (`findings` in `PROJECT.json`):

| run | what the trace shows |
|---|---|
| `countdown_created` | no `completionTime`: the TTL counts from creation (`ttlreaper.go:207`), against README.md:100 |
| `stale_copy` | a name is reused while a worker holds a copy of the object that had it, and the Delete for the expired copy, by name, removes the new object, which runs (`ttlreaper.go:233`), against README.md:11-13. The callback at `:251` does the same with a copy it holds for the whole TTL |
| `orphan` | a callback's cleanup removes the entry of a newer timer (`ttlreaper.go:261`), which nothing can then cancel, against the comment at `:217` |
| `collision` | one key for two objects in two API groups (`ttlreaper.go:172`): one of them loses its timer |
| `watch_plural` | kinds in y, s, x, z are listed under one name and watched under another (`controller.go:188`), against the comment at `:80` |

Why the bounds are enough. Every race in this code is between two parties over one
key: two workers, or a worker and a callback, or a callback and a user. Two workers,
two TTLReapers and two timers have all of them, and a third timer only repeats an
orphan. An object is handled on its own except through its key, so one object
suffices but where keys collide. The clock needs two values for a deadline to be
ahead and to be past, and a third for an edit in between to move it. `MaxClock` bounds the
time in which users write; under `Overrun` the clock goes on while a timer waits,
so that the bound keeps no timer from firing. A crash is bounded to one, in
`controller_safety`, and a failed call to one, there and in `controller_live`: each property speaks of what is left after the last. Restarts
as far as liveness goes are in `rollout`, whose old process may end before the new one starts.

`ResyncAfter` is a bound on the resyncs: none comes before so many calls have failed. With 9 and
`MaxFail` below that, the run has no resync, and what holds, holds without one; in `controller_live` it is 1, so
that the resync comes exactly where it is needed. In `startup` the process ends at most once and users
write at most twice; a second end would meet no state that the first does not, and two writes are one to be
overtaken by another. In `rollout` the races are those of a worker or a callback in either process with
one in the other, for which one of each suffices.

`TimerId` is a bound too: `Arm` waits while every timer is in use, which the runs' fairness
ends by firing one. `controller_safety` has one timer, which makes room for failed calls beside the crash: with one timer a
worker still replaces the timer of the older copy, stopping it and taking it again, and only a timer armed while another's callback runs
needs a second. `reaper_open` and `controller_live` have two, and what `NothingStale` says there is more than `NothingForgotten`. `KeepsFeed` is of
no timer.

`CHECK_DEADLOCK FALSE` is set in all runs but `informer_factory` and `startup`, as the model does stop where the clock
has reached its bound, nothing is queued and users do no more.

The limits of `NothingStale` and `SingleTimer` are real. With two workers and two TTLReapers that
select one object, a worker of the one that was just deleted may take the lock
last and put its older copy in place of the newer timer, so `controller_live` has one
TTLReaper and one worker; either would do (`NeverStale`). `SingleTimer` is refuted by `orphan`, where owners behave and two workers
handle one object for two TTLReapers. With one worker it takes owners who do not: a callback whose object
an edit or a new object of its name has replaced clears away the entry of a newer timer just
as well. Where workers take turns and owners behave it holds (`OneTimerEach`), but no
run has these bounds.

### Fairness

`Fairness` in `Controller`: a goroutine or callback that can run does (weak, per
worker, timer, informer and for the ticker); the queue is first in, first out, so a key
is not passed over for ever (strong, per TTLReaper); informers deliver; the resync
period elapses, where the run has resync; time passes. Users, failed calls and
crashes are not fair: they may or may not happen. `FactoryFairness` is of the same kind:
calls go on, informers sync and, once their channel is closed, end; no call need be made
and no channel closed. `StartupFairness` is too: knative goes on with the start, the informer lists, receives
and delivers, the ticker ticks, a worker that has a key is done with it; users write or not, and the process need never end. `RolloutFairness`
assumes nothing of the old process, which may stand still for ever or end with work undone, and of the new one
only that it is started and does not rest while it has something to do, in whatever order. That is weaker than what a scheduler gives, and
enough here for want of resyncs and failed calls.

## 4. What is proved

`Reaper_proofs`, for all values of the constants:

- `TypeCorrect`: `Spec => []TypeOK`. The inductive invariant `TypeInv` adds to `TypeOK`
  what each program counter implies (`ControlOK`: a worker past `get` has a key, one past
  `listns` a spec, one at `lock` or `delete` an item), without which an item that is
  `Absent` could reach a timer.
- `MapNeverLeaks`: `Spec => []NoTimerLeak`, inductive with `TypeInv`. The crux is
  `CallbackCleanup`, which frees a timer and must take the entry with it, whichever
  timer that entry holds.
- `DeletesOnWarrant`: `Spec => []WarrantedReap`. By itself it is not inductive: a
  deletion looks at a delay computed earlier, or at a deadline counted from later.
  The strengthening `WaitInv` has three parts: what is stored expires within the range of a duration from now
  (`WithinReach`, which is what `ReachAssumption` grants of completion times in the future), a worker's delay covers the expiration of its item from now on
  (`WorkerWaits`), and so does a timer's deadline (`TimerWaits`). `DelayCoversExpiration`
  is the arithmetic: `time.Until` saturates only where it does not matter, given that
  the int64 product is in range (`WrapRange`).
- `Refinement`: `Spec => ImplementsPolicy`, a mapping of each step to a look, a deletion
  on an expired warrant, a step of the environment or a stutter, with the copies in the
  hands of workers and closures as warrants.
- `FrozenReapsOnlyExpired`: if names are not reused and finished objects are not
  changed (`Frozen`), `[]ReapsOnlyExpired`. The invariant `Fresh` says that a held copy is
  the object stored, or that the object is gone for good. The run `stale_copy` shows
  what happens without the assumption.

`Controller_proofs`:

- `ControllerImplementsReaper`: `ControllerSpec => Spec`, so that `ControllerSafe` and
  `ControllerReapsOnlyExpired` follow from the above for the closed system.
- `ControllerKeepsFeed`: `ControllerSpec => KeepsFeed`. `FeedInv` adds to the types that no two workers have one key
  (`AloneOnKey`) and that the spec a worker took to list the namespaces is the one in the cache unless its key has
  been queued since (`ReadsLatest`): without the first, one worker's return could end another's
  reading; without the second, a reconcile could end in peace on a spec that is gone.
  `WorkerTurns` sorts the steps of a worker into the seven things that can become of it and its key.
- `TargetsWatched`: `TickWatchesTargets` holds if no kind ends in y, s, x or z and
  every version names its group. `watch_plural` shows that the first is needed.

`NothingForgotten_proofs`: `NeverForgotten`, `Orderly /\ ControllerSpec => []NothingForgotten`. `NothingForgotten` looks
at the TTLReapers in the API server, and is not inductive: one that is changed and changed back before the
informer saw it leaves no trace. The invariant `Remembered` says the same of the cached specs and of each TTLReaper for
itself: for every object not missed that the cached spec of a TTLReaper covers there is an undelivered event, the queued key of
that TTLReaper, a tick to come that will watch its type, a worker that has yet to list it by this very spec,
or a copy held by a worker or a waiting timer. A List that fails costs the objects it was about and no others, and a reconcile that
returns an error, rejected or without its namespaces, leaves its key queued (`ListerGoesOn`). `RememberNext` goes by the kinds of steps there are (`Proceeds`): a
worker's (`RememberWorker`), one that deletes and leaves the worker and the queue alone (`DeletesAlone`), one that leaves workers and timers alone
and queues whatever it makes needed (`Elsewhere`), and a restart; a lemma says of each action which it is. It needs `NoTimerLeak`
(`StoppedForSame`: the timer a worker stops is one for the object in its hand) and that an idle worker holds nothing
(`ItemsOK`). `Orderly` has three parts:

- `KeysApart`, no two objects have one key. `collision` shows what happens otherwise.
- `SeenAsListed`, a TTLReaper that lists an object is enqueued for it and watches its type. `watch_plural` shows kinds
  for which this is not so; a bare API version or a kind without its capitals breaks it too.
- `Housed`, objects are in namespaces that exist.

The constants of `controller_safety` and of `rollout` satisfy all three. `PlainNeverForgotten` has in place of `SeenAsListed`
what one can read off the TTLReapers: each names a kind with a plain s and with its capitals, in a version with a
group, as `example.yaml` does. Objects may be of any kinds besides.

`TakingTurns_proofs`, for one TTLReaper, whose key goes to one worker at a time, or one worker (`TakingTurns`). Then one worker
at most is at work (`OneAtWork`), and no copy it holds can be older than one that another has listed.

- `NeverStale`: `Orderly /\ TakingTurns /\ ControllerSpec => []NothingStale`. `Remembered` with the current copy in place of any is
  not inductive, since a worker may put the older copy it holds in place of a newer timer. `Current` adds that
  where nothing else will have an object listed again, no worker holds a copy of it that is out of date. A worker that has
  just listed holds only what is stored, and is the only one to hold anything (`FreshFromList`).
- `OneTimerEach`: `KeysApart /\ Frozen /\ TakingTurns /\ Spec => []SingleTimer`, for whatever feeds the queue. A callback
  does clear away the entry of a timer armed while it ran, and that timer (`Astray`) can no longer be stopped. What
  keeps a second one from being armed is that the object had expired when the callback ran, and that the worker who armed
  the timer was the only one with a delay from before. So the invariant `LoneInv` says of every timer that is astray, or has
  another beside it for the same object (`Paired`), that its copy is `Spent`: expired, with no worker at the lock that
  would wait for it. That takes `HandsAgree`, all copies of an object in anyone's hands are the same, which is
  `Frozen`'s part; a callback past its Delete still counts as a hand. `ArmSettles` is the crucial step. `orphan`
  shows that `TakingTurns` is needed.

TLC has confirmed `Current`, `LoneInv` and its parts on instances of one TTLReaper with two workers and of two TTLReapers
with one worker, in which timers do go astray, before they were proved.

`Countdown_proofs`: `TimelyCountdown`, `Timely /\ CountdownSpec => CountdownStartsAtFinish`, from `WaitInv`, `Fresh` and
an invariant `SinceFinish` that ties the completion time of a stored object to when it finished. `Timely` is `Frozen`,
that owners stamp each finished status, with the time it is or a later one (`StampsFinish`; `countdown_created` shows what happens otherwise), and
that a TTL in seconds fits the duration type (`TTLsFit`; a larger one wraps around, `ttlreaper.go:211`).

`Startup_proofs`, for any TTLReapers, specs, writes and ends of the process:

- `StartupTypeCorrect`: also that nothing unparsed is watched.
- `NothingUnserved`: `[]NoneUnserved`. Its invariant says that from `controller` on the factory has its informer and
  knative runs it, from `sync` on the lister and the handler are on it too, and that an entry of the
  indexer that is not as last received is in the informer's queue, one not as last acted upon on its way.
- `StartupFeeds`: `StartupSpec => ImplementsFeed`, where the abstract cache takes a TTLReaper that was listed
  and is not yet in the indexer as if it were, and its key as queued. It takes that a reconcile that acts has a
  key (`Occupied`); `ActFeeds` is the step that reads. `Startup` and `Controller` so implement one
  specification, which justifies that `Restart` takes the start in one step.

`Rollout_proofs`, from the theorems about one process: whatever one process does is, to the other,
a step of users, of time, or a Delete of its own making. So the invariants `TypeInv` and `WaitInv` of either
are kept by the steps of both (`EveryStep`), and a step of either process lifts to one of `ReapPolicy` over the union of
their warrants (`OldPolicyLifts`, `NewPolicyLifts`).

- `TwoProcessesSafe`: `NoTimerLeak` in each process, and `WarrantedReap` whoever deletes.
- `TogetherOneReaper`: `RolloutSpec => TogetherImplementPolicy`.
- `TogetherReapOnlyExpired`: under `Frozen`, `ReapsOnlyExpired` whoever deletes.
- `NeitherRelies`: under `Orderly`, `NeitherForgets`. `Remembered` of either process is kept by its own steps by the lemmas
  of `NothingForgotten_proofs`, and by the steps of the other since those only delete (`ForeignKeeps`): to each, all that happens is one of the kinds
  of steps that its proof is about, a restart or its end (`OldProceeds`, `NewProceeds`).
- `NeitherKeepsStale` and `OneTimerInEach`: what `TakingTurns_proofs` says of one process holds of both, in each of which
  workers take turns. The other process works at the same time, so `OneAtWork` is not true of the two together; what it deletes
  makes no copy out of date that would be needed (`CurrentDeletes`), nor any timer less spent (`LoneForeign`).

`InformerFactory_proofs`: `FactoryTypeCorrect`, `CounterExact`, `ShutdownFinal`, `AddBeforeWait` and `SyncWaits`, from
one invariant `FactoryInv` with `WaitGroupCounts`. It says that the lock is with the caller
in `Start` (`LockHeld`), that whoever is in `Shutdown` has marked the factory and no `Start` is
under way then (`Marked`), that an informer is started at most once (`StartedOnce`) and made before (`MadeFirst`), that a
`Wait` that is over left nothing running (`NoneLeft`), and that what `WaitForCacheSync` is done
with has synced (`Waited`). `Marked` carries the argument: the flag is set with the lock, and
`Start` looks at it with the lock.

The assumptions are the named `ASSUME`s of the modules: sentinels are no values, the bounds
are naturals, a TTLReaper's namespace exists, and a completion time in the future leaves the TTL after it within the
range of a duration (`ReachAssumption`). TLC evaluates them in every run.

Only model-checked: liveness under fairness (`DueIsReaped`, `CallsReturn`, `EveryReaperServed`,
`EveryTypeWatched`, `DueIsReapedByEither`), which the prover does not reach. Every other property of a passing run is
stated by a theorem.

## 5. What is not modelled

Deep copies: a copy of a value is the value, and nothing in the program changes an object that another part
holds. The fakes are test doubles nothing in the repository uses. Of the clientset only what the
informer calls is modelled; `Create`, `Update`, `Patch` and `Delete` of TTLReapers have no caller. The options of the
informer factory, `ForResource` and the group and version accessors between the factory and `InformerFor` hold no state. The
informer factory is modelled for any callers; this program itself only calls `InformerFor` and leaves it
to knative to run the informer. Leader election moves between processes without any effect on what they do,
so no variable stands for it. The status fields of `TTLReaper` are written by no code. The rights, the ConfigMaps and the environment
in `config/deploy/deployment.yaml` are configuration.

## 6. Plan

Done: `Lifetime`, `Cluster`, `TargetGVR`, then `Reaper` with `ReapPolicy` (the core), `TargetWatch` and
`Controller` (the closed loop and liveness), `Countdown` (the README's promise), `InformerFactory`, `Startup` with
`ReaperFeed` (the start), `Rollout` (two processes), and the proofs above.

Next: kinds without capitals and bare API versions (`controller.go:170`, `:180`), as constants of a run of
`Controller`.
