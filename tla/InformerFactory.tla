-------------------------- MODULE InformerFactory ---------------------------
(***************************************************************************)
(* The shared informer factory of                                          *)
(* pkg/generated/informers/externalversions/factory.go, called by several  *)
(* goroutines at once: InformerFor, Start, Shutdown, WaitForCacheSync.     *)
(*                                                                         *)
(* Start holds the lock through its loop, in which it launches one         *)
(* goroutine per informer; these run without the lock.  InformerFor, the   *)
(* marking in Shutdown and the snapshot in WaitForCacheSync hold the lock  *)
(* for one step.  What a caller does next is its pc:                       *)
(*   out     not in the factory                                            *)
(*   start   in Start, holding the lock                                    *)
(*   mark    in Shutdown, lock released, before wg.Wait                    *)
(*   wait    in wg.Wait                                                    *)
(*   woken   the counter was zero; Wait returns, whatever it is by then    *)
(*   sync    in WaitForCacheSync, one informer after the other             *)
(***************************************************************************)
EXTENDS Integers, FiniteSets

CONSTANTS
  Type,         \* the types informers are made for
  Caller,       \* the goroutines that call the factory
  StopCh,       \* the stop channels they pass
  None          \* no caller, no channel

ASSUME FactoryAssumption ==
  /\ IsFiniteSet(Type)
  /\ None \notin Caller /\ None \notin StopCh

VARIABLES
  informers,         \* types that have an informer
  startedInformers,  \* types whose informer was started
  wg,                \* the WaitGroup's counter
  shuttingDown,      \* set by Shutdown, never reset
  lock,              \* the caller in Start, or None
  caller,            \* per caller: pc, channel, informers to go, and (history) those asked for
  routine,           \* per type: the state of its goroutine and the channel it has
  synced,            \* informers whose HasSynced holds
  closed,            \* stop channels that are closed
  down               \* history: a call of Shutdown has returned

factoryVars == <<informers, startedInformers, wg, shuttingDown, lock, caller, routine,
                 synced, closed, down>>

Outside == [pc |-> "out", ch |-> None, todo |-> {}, asked |-> {}]
Unstarted == [state |-> "none", ch |-> None]

Running == {t \in Type : routine[t].state = "running"}

FactoryInit ==
  /\ informers = {} /\ startedInformers = {}
  /\ wg = 0
  /\ shuttingDown = FALSE
  /\ lock = None
  /\ caller = [c \in Caller |-> Outside]
  /\ routine = [t \in Type |-> Unstarted]
  /\ synced = {} /\ closed = {}
  /\ down = FALSE

-----------------------------------------------------------------------------
\* Made at the first call for its type, and returned by every call.
InformerFor(c, t) ==
  /\ caller[c].pc = "out"
  /\ lock = None
  /\ informers' = informers \cup {t}
  /\ UNCHANGED <<startedInformers, wg, shuttingDown, lock, caller, routine, synced, closed, down>>

\* Mutants of Start and its loop.
StartUnchecked(c, ch) ==   \* shuttingDown is not looked at
  /\ caller[c].pc = "out"
  /\ lock = None
  /\ lock' = c
  /\ caller' = [caller EXCEPT ![c] = [pc |-> "start", ch |-> ch, todo |-> informers, asked |-> {}]]
  /\ UNCHANGED <<informers, startedInformers, wg, shuttingDown, routine, synced, closed, down>>

StartOneAgain(c) ==        \* startedInformers is not looked at
  /\ caller[c].pc = "start"
  /\ \E t \in caller[c].todo :
       /\ caller' = [caller EXCEPT ![c].todo = @ \ {t}]
       /\ wg' = wg + 1
       /\ routine' = [routine EXCEPT ![t] = [state |-> "running", ch |-> caller[c].ch]]
       /\ startedInformers' = startedInformers \cup {t}
  /\ UNCHANGED <<informers, shuttingDown, lock, synced, closed, down>>

StartOneUncounted(c) ==    \* wg.Add is left out
  /\ caller[c].pc = "start"
  /\ \E t \in caller[c].todo :
       /\ t \notin startedInformers
       /\ caller' = [caller EXCEPT ![c].todo = @ \ {t}]
       /\ routine' = [routine EXCEPT ![t] = [state |-> "running", ch |-> caller[c].ch]]
       /\ startedInformers' = startedInformers \cup {t}
  /\ UNCHANGED <<informers, wg, shuttingDown, lock, synced, closed, down>>

\* Start, with the lock.  (A Start that finds shuttingDown changes nothing.)
Start(c, ch) ==
  /\ caller[c].pc = "out"
  /\ lock = None
  /\ ~shuttingDown
  /\ lock' = c
  /\ caller' = [caller EXCEPT ![c] = [pc |-> "start", ch |-> ch, todo |-> informers, asked |-> {}]]
  /\ UNCHANGED <<informers, startedInformers, wg, shuttingDown, routine, synced, closed, down>>

\* One turn of its loop: wg.Add, the goroutine, startedInformers.
StartOne(c) ==
  /\ caller[c].pc = "start"
  /\ \E t \in caller[c].todo :
       /\ caller' = [caller EXCEPT ![c].todo = @ \ {t}]
       /\ \/ /\ t \in startedInformers
             /\ UNCHANGED <<wg, routine, startedInformers>>
          \/ /\ t \notin startedInformers
             /\ wg' = wg + 1
             /\ routine' = [routine EXCEPT ![t] = [state |-> "running", ch |-> caller[c].ch]]
             /\ startedInformers' = startedInformers \cup {t}
  /\ UNCHANGED <<informers, shuttingDown, lock, synced, closed, down>>

StartReturn(c) ==
  /\ caller[c].pc = "start"
  /\ caller[c].todo = {}
  /\ lock' = None
  /\ caller' = [caller EXCEPT ![c] = Outside]
  /\ UNCHANGED <<informers, startedInformers, wg, shuttingDown, routine, synced, closed, down>>

-----------------------------------------------------------------------------
Shutdown(c) ==
  /\ caller[c].pc = "out"
  /\ lock = None
  /\ shuttingDown' = TRUE
  /\ caller' = [caller EXCEPT ![c].pc = "mark"]
  /\ UNCHANGED <<informers, startedInformers, wg, lock, routine, synced, closed, down>>

WaitNot(c) ==   \* mutant: Shutdown does not wait
  /\ caller[c].pc = "mark"
  /\ caller' = [caller EXCEPT ![c].pc = "woken"]
  /\ UNCHANGED <<informers, startedInformers, wg, shuttingDown, lock, routine, synced, closed,
                 down>>

\* wg.Wait returns at once if the counter is zero.
Wait(c) ==
  /\ caller[c].pc = "mark"
  /\ caller' = [caller EXCEPT ![c].pc = IF wg = 0 THEN "woken" ELSE "wait"]
  /\ UNCHANGED <<informers, startedInformers, wg, shuttingDown, lock, routine, synced, closed,
                 down>>

ShutdownReturn(c) ==
  /\ caller[c].pc = "woken"
  /\ caller' = [caller EXCEPT ![c] = Outside]
  /\ down' = TRUE
  /\ UNCHANGED <<informers, startedInformers, wg, shuttingDown, lock, routine, synced, closed>>

-----------------------------------------------------------------------------
SnapshotAll == informers   \* mutant: startedInformers is not looked at
SnapshotOthers == informers \ startedInformers   \* mutant: it is, the wrong way round

\* The informers of its map that WaitForCacheSync will wait for.
Snapshot == informers \cap startedInformers

\* They are taken with the lock.  (asked is history: what the call is made for.)
WaitForCacheSync(c, ch) ==
  /\ caller[c].pc = "out"
  /\ lock = None
  /\ caller' = [caller EXCEPT ![c] = [pc |-> "sync", ch |-> ch,
                                      todo |-> Snapshot, asked |-> startedInformers]]
  /\ UNCHANGED <<informers, startedInformers, wg, shuttingDown, lock, routine, synced, closed,
                 down>>

\* cache.WaitForCacheSync of one of them, until it has synced or ch is closed.
WaitOne(c) ==
  /\ caller[c].pc = "sync"
  /\ \E t \in caller[c].todo :
       /\ t \in synced \/ caller[c].ch \in closed
       /\ caller' = [caller EXCEPT ![c].todo = @ \ {t}]
  /\ UNCHANGED <<informers, startedInformers, wg, shuttingDown, lock, routine, synced, closed,
                 down>>

WaitReturn(c) ==
  /\ caller[c].pc = "sync"
  /\ caller[c].todo = {}
  /\ caller' = [caller EXCEPT ![c] = Outside]
  /\ UNCHANGED <<informers, startedInformers, wg, shuttingDown, lock, routine, synced, closed,
                 down>>

-----------------------------------------------------------------------------
\* The informer of a goroutine fills its cache.
Sync(t) ==
  /\ routine[t].state = "running"
  /\ t \notin synced
  /\ synced' = synced \cup {t}
  /\ UNCHANGED <<informers, startedInformers, wg, shuttingDown, lock, caller, routine, closed,
                 down>>

\* informer.Run returns once its channel is closed, and wg.Done wakes those who
\* wait when it takes the counter to zero.
RunReturn(t) ==
  /\ routine[t].state = "running"
  /\ routine[t].ch \in closed
  /\ routine' = [routine EXCEPT ![t].state = "ended"]
  /\ wg' = wg - 1
  /\ caller' = [c \in Caller |-> IF wg = 1 /\ caller[c].pc = "wait"
                                 THEN [caller[c] EXCEPT !.pc = "woken"] ELSE caller[c]]
  /\ UNCHANGED <<informers, startedInformers, shuttingDown, lock, synced, closed, down>>

\* Someone closes a stop channel.
Close(ch) ==
  /\ ch \notin closed
  /\ closed' = closed \cup {ch}
  /\ UNCHANGED <<informers, startedInformers, wg, shuttingDown, lock, caller, routine, synced,
                 down>>

-----------------------------------------------------------------------------
Proceeding(c) ==
  StartOne(c) \/ StartReturn(c) \/ Wait(c) \/ ShutdownReturn(c) \/ WaitOne(c) \/ WaitReturn(c)

Calling(c) ==
  \/ \E t \in Type : InformerFor(c, t)
  \/ \E ch \in StopCh : Start(c, ch) \/ WaitForCacheSync(c, ch)
  \/ Shutdown(c)

FactoryNext ==
  \/ \E c \in Caller : Calling(c) \/ Proceeding(c)
  \/ \E t \in Type : Sync(t) \/ RunReturn(t)
  \/ \E ch \in StopCh : Close(ch)

FactorySpec == FactoryInit /\ [][FactoryNext]_factoryVars

\* Goroutines that can go on do.  No call need be made, no channel closed, and
\* an informer whose channel is open syncs in time.
FactoryFairness ==
  /\ \A c \in Caller : WF_factoryVars(Proceeding(c))
  /\ \A t \in Type : WF_factoryVars(RunReturn(t)) /\ WF_factoryVars(Sync(t))

FairFactorySpec == FactorySpec /\ FactoryFairness

-----------------------------------------------------------------------------
(***************************************************************************)
(* Properties.                                                             *)
(***************************************************************************)
CallerState ==
  [pc : {"out", "start", "mark", "wait", "woken", "sync"}, ch : StopCh \cup {None},
   todo : SUBSET Type, asked : SUBSET Type]

FactoryTypeOK ==
  /\ informers \in SUBSET Type /\ startedInformers \in SUBSET Type
  /\ wg \in Nat
  /\ shuttingDown \in BOOLEAN /\ down \in BOOLEAN
  /\ lock \in Caller \cup {None}
  /\ caller \in [Caller -> CallerState]
  /\ routine \in [Type -> [state : {"none", "running", "ended"}, ch : StopCh \cup {None}]]
  /\ synced \in SUBSET Type /\ closed \in SUBSET StopCh

\* The counter is the number of goroutines that run, so that Done never takes it
\* below zero, and no informer has two (factory.go:48-50, 131-143).
WaitGroupCounts == wg = Cardinality(Running)

\* factory.go:233-235, "At that point no new informers can be started anymore",
\* which sync.WaitGroup needs too: no Add from zero while a Wait may be under way.
NoAddDuringWait ==
  [][wg' > wg => \A c \in Caller : caller[c].pc \notin {"mark", "wait", "woken"}]_factoryVars

\* factory.go:237-242: Shutdown "blocks until all goroutines have terminated",
\* each of its calls does, and nothing runs again afterwards.
ShutdownIsFinal == down => Running = {}

\* factory.go:245-246: WaitForCacheSync "blocks until all started informers'
\* caches were synced or the stop channel gets closed": every informer that was
\* started when it was called, though others are made and started meanwhile.
SyncedOnReturn ==
  [][\A c \in Caller : WaitReturn(c) =>
       caller[c].asked \subseteq synced \/ caller[c].ch \in closed]_factoryVars

\* A Shutdown whose informers' channels are closed returns, and so does a
\* WaitForCacheSync whose informers keep running (factory.go:147-175).
CallsReturn ==
  \A c \in Caller :
    /\ (caller[c].pc \in {"mark", "wait", "woken"} /\ closed = StopCh) ~> (caller[c].pc = "out")
    /\ (caller[c].pc = "sync") ~> (caller[c].pc = "out" \/ closed # {})
=============================================================================
