----------------------- MODULE InformerFactory_proofs -----------------------
(***************************************************************************)
(* The safety properties of module InformerFactory, for any callers, types *)
(* and channels, from one inductive invariant.                             *)
(***************************************************************************)
EXTENDS InformerFactory, FiniteSetTheorems, TLAPS

\* The lock is held by the caller in Start, and by nobody else.
LockHeld == \A c \in Caller : caller[c].pc = "start" <=> lock = c

\* Whoever is in Shutdown has marked the factory, and no Start goes on then.
Marked ==
  /\ shuttingDown => lock = None
  /\ down => shuttingDown
  /\ \A c \in Caller : caller[c].pc \in {"mark", "wait", "woken"} => shuttingDown

\* An informer is started at most once.
StartedOnce == \A t \in Type : t \in startedInformers <=> routine[t].state # "none"

\* What is started, or about to be, was made before.
MadeFirst ==
  /\ startedInformers \subseteq informers
  /\ \A c \in Caller : caller[c].pc = "start" => caller[c].todo \subseteq informers

\* A Wait that is over, or returned from, left nothing running.
NoneLeft == down \/ (\E c \in Caller : caller[c].pc = "woken") => Running = {}

\* An informer that WaitForCacheSync is done with has synced.
Waited ==
  \A c \in Caller : caller[c].pc = "sync" =>
    caller[c].asked \ caller[c].todo \subseteq synced \/ caller[c].ch \in closed

FactoryInv ==
  FactoryTypeOK /\ LockHeld /\ Marked /\ StartedOnce /\ MadeFirst /\ NoneLeft /\ Waited

-----------------------------------------------------------------------------
LEMMA FactoryInvInit == FactoryInit => FactoryInv /\ WaitGroupCounts
<1> SUFFICES ASSUME FactoryInit PROVE FactoryInv /\ WaitGroupCounts
  OBVIOUS
<1>1. Running = {}
  BY DEF FactoryInit, Running, Unstarted
<1>2. wg = Cardinality(Running)
  BY <1>1, FS_EmptySet DEF FactoryInit
<1>3. FactoryTypeOK
  BY DEF FactoryInit, FactoryTypeOK, CallerState, Outside, Unstarted
<1>4. QED
  BY <1>1, <1>2, <1>3, FactoryAssumption
     DEF FactoryInit, FactoryInv, LockHeld, Marked, StartedOnce, MadeFirst, NoneLeft, Waited, WaitGroupCounts,
         Outside, Unstarted

LEMMA RunningFinite == IsFiniteSet(Running) /\ Cardinality(Running) \in Nat
<1>1. Running \subseteq Type
  BY DEF Running
<1>2. QED
  BY <1>1, FactoryAssumption, FS_Subset, FS_CardinalityType

\* One turn of the loop in Start: the counter and the goroutines grow together.
LEMMA StartOneKeeps ==
  ASSUME FactoryInv, WaitGroupCounts, NEW c \in Caller, StartOne(c)
  PROVE  FactoryInv' /\ WaitGroupCounts'
<1> USE DEF FactoryInv
<1>1. PICK t \in caller[c].todo :
        /\ caller' = [caller EXCEPT ![c].todo = @ \ {t}]
        /\ \/ /\ t \in startedInformers
              /\ UNCHANGED <<wg, routine, startedInformers>>
           \/ /\ t \notin startedInformers
              /\ wg' = wg + 1
              /\ routine' = [routine EXCEPT ![t] = [state |-> "running", ch |-> caller[c].ch]]
              /\ startedInformers' = startedInformers \cup {t}
  BY DEF StartOne
<1>2. /\ caller[c].pc = "start" /\ caller[c] \in CallerState /\ t \in Type
      /\ lock = c /\ lock # None /\ ~shuttingDown /\ ~down
      /\ \A d \in Caller : caller[d].pc \notin {"mark", "wait", "woken"}
  BY FactoryAssumption, <1>1 DEF StartOne, FactoryTypeOK, CallerState, LockHeld, Marked
<1>3. UNCHANGED <<informers, shuttingDown, lock, synced, closed, down>>
  BY DEF StartOne
<1>4. caller' \in [Caller -> CallerState]
  BY <1>1, <1>2 DEF FactoryTypeOK, CallerState
<1>5. \A d \in Caller : caller'[d].pc = caller[d].pc /\ (d # c => caller'[d] = caller[d])
  BY <1>1 DEF FactoryTypeOK, CallerState
<1>6. FactoryTypeOK'
  BY <1>1, <1>2, <1>3, <1>4 DEF FactoryTypeOK, CallerState
<1>7. LockHeld' /\ Marked' /\ NoneLeft' /\ Waited'
  BY <1>2, <1>3, <1>5 DEF LockHeld, Marked, MadeFirst, NoneLeft, Waited
<1>0. MadeFirst'
  BY <1>1, <1>2, <1>3 DEF MadeFirst, FactoryTypeOK, CallerState
<1>8. StartedOnce'
  BY <1>1, <1>2 DEF StartedOnce, FactoryTypeOK
<1>9. WaitGroupCounts'
  <2>1. CASE t \in startedInformers
    BY <1>1, <2>1 DEF WaitGroupCounts, Running
  <2>2. CASE t \notin startedInformers
    <3>1. t \notin Running /\ Running' = Running \cup {t}
      BY <1>1, <1>2, <2>2 DEF Running, StartedOnce, FactoryTypeOK
    <3>2. Cardinality(Running') = Cardinality(Running) + 1
      BY <3>1, RunningFinite, FS_AddElement
    <3>3. QED
      BY <1>1, <2>2, <3>2 DEF WaitGroupCounts
  <2>3. QED
    BY <2>1, <2>2
<1>10. QED
  BY <1>0, <1>6, <1>7, <1>8, <1>9

\* A goroutine that ends: the one step that wakes a Wait.
LEMMA RunReturnKeeps ==
  ASSUME FactoryInv, WaitGroupCounts, NEW t \in Type, RunReturn(t)
  PROVE  FactoryInv' /\ WaitGroupCounts'
<1> USE DEF FactoryInv
<1>1. t \in Running /\ Running' = Running \ {t}
  BY DEF RunReturn, Running, FactoryTypeOK
<1>2. wg' = wg - 1 /\ wg' = Cardinality(Running') /\ wg' \in Nat
  <2>1. IsFiniteSet(Running') /\ Cardinality(Running') = Cardinality(Running) - 1
    BY <1>1, RunningFinite, FS_RemoveElement
  <2>2. Cardinality(Running') \in Nat
    BY <2>1, FS_CardinalityType
  <2>3. QED
    BY <2>1, <2>2 DEF RunReturn, WaitGroupCounts
<1>3. UNCHANGED <<informers, startedInformers, shuttingDown, lock, synced, closed, down>>
  BY DEF RunReturn
<1>4. \A c \in Caller :
        /\ caller'[c] \in CallerState
        /\ caller'[c] = caller[c] \/ (wg = 1 /\ caller[c].pc = "wait" /\ caller'[c].pc = "woken")
  BY DEF RunReturn, FactoryTypeOK, CallerState
<1>5. caller' \in [Caller -> CallerState]
  BY <1>4 DEF RunReturn
<1>6. FactoryTypeOK' /\ StartedOnce'
  BY <1>2, <1>3, <1>5 DEF RunReturn, FactoryTypeOK, StartedOnce
<1>7. LockHeld' /\ Marked' /\ MadeFirst' /\ Waited'
  BY <1>3, <1>4 DEF LockHeld, Marked, MadeFirst, Waited
<1>8. NoneLeft'
  <2>1. wg = 1 => Running' = {}
    BY <1>2, RunningFinite, FS_EmptySet, FS_Subset, <1>1
  <2>2. QED
    BY <1>1, <1>3, <1>4, <2>1 DEF NoneLeft
<1>9. QED
  BY <1>2, <1>6, <1>7, <1>8 DEF WaitGroupCounts

\* The steps of a caller that start nothing.
LEMMA CallerKeeps ==
  ASSUME FactoryInv, WaitGroupCounts, NEW c \in Caller,
         Calling(c) \/ StartReturn(c) \/ Wait(c) \/ ShutdownReturn(c) \/ WaitOne(c) \/ WaitReturn(c)
  PROVE  FactoryInv' /\ WaitGroupCounts'
<1> USE DEF FactoryInv
<1>1. UNCHANGED <<startedInformers, wg, routine, synced, closed>> /\ Running' = Running
  BY DEF Calling, InformerFor, Start, WaitForCacheSync, Shutdown, StartReturn, Wait,
     ShutdownReturn, WaitOne, WaitReturn, Running
<1>2. WaitGroupCounts' /\ StartedOnce'
  BY <1>1 DEF WaitGroupCounts, StartedOnce
<1>3. ASSUME NEW t \in Type, InformerFor(c, t) PROVE FactoryInv'
  BY <1>1, <1>2, <1>3 DEF InformerFor, FactoryTypeOK, LockHeld, Marked, MadeFirst, NoneLeft, Waited
<1>4. ASSUME NEW ch \in StopCh, Start(c, ch) PROVE FactoryInv'
  BY <1>1, <1>2, <1>4, FactoryAssumption
     DEF Start, FactoryTypeOK, CallerState, LockHeld, Marked, MadeFirst, NoneLeft, Waited
<1>5. ASSUME NEW ch \in StopCh, WaitForCacheSync(c, ch) PROVE FactoryInv'
  BY <1>1, <1>2, <1>5, FactoryAssumption
     DEF WaitForCacheSync, Snapshot, FactoryTypeOK, CallerState, LockHeld, Marked, MadeFirst, NoneLeft, Waited
<1>6. CASE Shutdown(c)
  BY <1>1, <1>2, <1>6, FactoryAssumption
     DEF Shutdown, FactoryTypeOK, CallerState, LockHeld, Marked, MadeFirst, NoneLeft, Waited
<1>7. CASE StartReturn(c)
  BY <1>1, <1>2, <1>7, FactoryAssumption
     DEF StartReturn, Outside, FactoryTypeOK, CallerState, LockHeld, Marked, MadeFirst, NoneLeft, Waited
<1>8. CASE Wait(c)
  <2>1. wg = 0 => Running = {}
    BY RunningFinite, FS_EmptySet DEF WaitGroupCounts
  <2>2. QED
    BY <1>1, <1>2, <1>8, <2>1, FactoryAssumption
       DEF Wait, FactoryTypeOK, CallerState, LockHeld, Marked, MadeFirst, NoneLeft, Waited
<1>9. CASE ShutdownReturn(c)
  BY <1>1, <1>2, <1>9, FactoryAssumption
     DEF ShutdownReturn, Outside, FactoryTypeOK, CallerState, LockHeld, Marked, MadeFirst, NoneLeft, Waited
<1>10. CASE WaitOne(c)
  BY <1>1, <1>2, <1>10, FactoryAssumption
     DEF WaitOne, FactoryTypeOK, CallerState, LockHeld, Marked, MadeFirst, NoneLeft, Waited
<1>11. CASE WaitReturn(c)
  BY <1>1, <1>2, <1>11, FactoryAssumption
     DEF WaitReturn, Outside, FactoryTypeOK, CallerState, LockHeld, Marked, MadeFirst, NoneLeft, Waited
<1>12. QED
  BY <1>2, <1>3, <1>4, <1>5, <1>6, <1>7, <1>8, <1>9, <1>10, <1>11 DEF Calling

LEMMA FactoryInvNext ==
  FactoryInv /\ WaitGroupCounts /\ [FactoryNext]_factoryVars => FactoryInv' /\ WaitGroupCounts'
<1> SUFFICES ASSUME FactoryInv, WaitGroupCounts, [FactoryNext]_factoryVars
             PROVE  FactoryInv' /\ WaitGroupCounts'
  OBVIOUS
<1>1. ASSUME NEW c \in Caller, Calling(c) \/ Proceeding(c) PROVE FactoryInv' /\ WaitGroupCounts'
  BY <1>1, StartOneKeeps, CallerKeeps DEF Proceeding
<1>2. ASSUME NEW t \in Type, RunReturn(t) PROVE FactoryInv' /\ WaitGroupCounts'
  BY <1>2, RunReturnKeeps
<1>3. ASSUME NEW t \in Type, Sync(t) PROVE FactoryInv' /\ WaitGroupCounts'
  BY <1>3 DEF Sync, FactoryInv, WaitGroupCounts, Running, FactoryTypeOK, LockHeld, Marked,
     StartedOnce, MadeFirst, NoneLeft, Waited
<1>4. ASSUME NEW ch \in StopCh, Close(ch) PROVE FactoryInv' /\ WaitGroupCounts'
  BY <1>4 DEF Close, FactoryInv, WaitGroupCounts, Running, FactoryTypeOK, LockHeld, Marked,
     StartedOnce, MadeFirst, NoneLeft, Waited
<1>5. CASE UNCHANGED factoryVars
  BY <1>5 DEF factoryVars, FactoryInv, WaitGroupCounts, Running, FactoryTypeOK, LockHeld, Marked,
     StartedOnce, MadeFirst, NoneLeft, Waited
<1>6. QED
  BY <1>1, <1>2, <1>3, <1>4, <1>5 DEF FactoryNext

THEOREM FactoryInvariant == FactorySpec => [](FactoryInv /\ WaitGroupCounts)
BY FactoryInvInit, FactoryInvNext, PTL DEF FactorySpec

\* The state of the factory stays well formed: the counter is never negative, and
\* the lock is held by one caller or none (factory.go:37-55).
THEOREM FactoryTypeCorrect == FactorySpec => []FactoryTypeOK
<1>1. FactoryInv => FactoryTypeOK
  BY DEF FactoryInv
<1>2. QED
  BY <1>1, FactoryInvariant, PTL

\* Done never finds the counter at zero (factory.go:48-50, 131-143).
THEOREM CounterExact == FactorySpec => []WaitGroupCounts
BY FactoryInvariant, PTL

\* Once a Shutdown has returned nothing runs, ever (factory.go:233-242).
THEOREM ShutdownFinal == FactorySpec => []ShutdownIsFinal
<1>1. FactoryInv => ShutdownIsFinal
  BY DEF FactoryInv, NoneLeft, ShutdownIsFinal
<1>2. QED
  BY <1>1, FactoryInvariant, PTL

\* wg.Add and wg.Wait never overlap (factory.go:127-154).
THEOREM AddBeforeWait == FactorySpec => NoAddDuringWait
<1>1. ASSUME FactoryInv, [FactoryNext]_factoryVars, wg' > wg, NEW d \in Caller
      PROVE  caller[d].pc \notin {"mark", "wait", "woken"}
  <2>1. PICK c \in Caller : StartOne(c)
    BY <1>1 DEF FactoryInv, FactoryTypeOK, FactoryNext, factoryVars, Calling, InformerFor, Start,
       WaitForCacheSync, Shutdown, Proceeding, StartReturn, Wait, ShutdownReturn, WaitOne,
       WaitReturn, Sync, RunReturn, Close
  <2>2. lock = c /\ lock # None
    BY <1>1, <2>1, FactoryAssumption DEF StartOne, FactoryInv, LockHeld
  <2>3. QED
    BY <1>1, <2>2 DEF FactoryInv, Marked
<1>2. FactoryInv /\ [FactoryNext]_factoryVars
        => [wg' > wg => \A c \in Caller : caller[c].pc \notin {"mark", "wait", "woken"}]_factoryVars
  BY <1>1
<1>3. QED
  BY <1>2, FactoryInvariant, PTL DEF FactorySpec, NoAddDuringWait

\* WaitForCacheSync misses no started informer, and returns early only for its
\* channel (factory.go:156-175).
THEOREM SyncWaits == FactorySpec => SyncedOnReturn
<1>1. FactoryInv =>
        [\A c \in Caller : WaitReturn(c) =>
           caller[c].asked \subseteq synced \/ caller[c].ch \in closed]_factoryVars
  BY DEF FactoryInv, Waited, WaitReturn
<1>2. QED
  BY <1>1, FactoryInvariant, PTL DEF SyncedOnReturn
=============================================================================
