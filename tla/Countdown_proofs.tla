-------------------------- MODULE Countdown_proofs --------------------------
(***************************************************************************)
(* The README's promise of the countdown, for owners that keep to what it  *)
(* takes: see Timely.  The runs countdown_created and stale_copy show what *)
(* becomes of it for others.                                               *)
(***************************************************************************)
EXTENDS Countdown, Controller_proofs

\* Who finishes an object writes the completion time, or a later one.
StampsFinish ==
  \A form \in StatusForm : IsResourceFinished(form) => form.completion \in Nat

\* No TTL is too long for the int64 product (ttlreaper.go:211).
Fits(ttl) == -(MaxDuration + 1) <= ttl * Second /\ ttl * Second <= MaxDuration
TTLsFit == \A ttl \in TTLs \ {Absent} : Fits(ttl)

Timely == Frozen /\ StampsFinish /\ TTLsFit

\* The completion time of a finished object is no earlier than when it finished.
SinceFinish ==
  \A o \in Object : Finished(o) =>
    /\ since[o] \in Nat /\ api[o].completion \in Nat /\ since[o] <= api[o].completion
    /\ api[o].ttl \in TTLs

-----------------------------------------------------------------------------
\* What an owner writes is finished only if it is stamped (module Cluster).
LEMMA StampedFinish ==
  ASSUME StampsFinish, NEW form \in StatusForm, NEW ttl, NEW label, NEW created,
         IsResourceFinished(Stamped(form, ttl, label, created))
  PROVE  /\ form.completion \in Nat
         /\ Stamped(form, ttl, label, created).completion = clock + form.completion
<1>1. CASE form.completion \in {Absent, Malformed}
  <2>1. ~IsResourceFinished(form)
    BY <1>1, SentinelAssumption DEF StampsFinish
  <2> QED BY <1>1, <2>1 DEF Stamped, IsResourceFinished
<1>2. CASE form.completion \notin {Absent, Malformed}
  <2>1. Stamped(form, ttl, label, created).completion = clock + form.completion
    BY <1>2 DEF Stamped
  <2>2. IsResourceFinished(form)
    BY <1>2 DEF Stamped, IsResourceFinished
  <2> QED BY <2>1, <2>2 DEF StampsFinish
<1> QED BY <1>1, <1>2

\* In a step of the controller an object stays, is deleted, or is written by its
\* owner, which has yet to finish it.
Written(o) ==
  \E form \in StatusForm, ttl \in TTLs, label \in Label :
    \E created : api'[o] = Stamped(form, ttl, label, created)

LEMMA UserWrites ==
  ASSUME Frozen, TypeOK, NEW p \in Object, UserStep(p), NEW o \in Object
  PROVE  api'[o] \in {api[o], Gone} \/ (~Finished(o) /\ Written(o))
<1> USE DEF TypeOK, ClusterTypeOK
<1>1. CASE o # p
  BY <1>1 DEF UserStep, UserCreate, UserUpdate, UserDelete
<1>2. CASE UserCreate(o)
  BY <1>2, ClusterAssumption DEF UserCreate, Finished, Present, Written, Frozen
<1>3. CASE UserUpdate(o)
  BY <1>3 DEF UserUpdate, Finished, Written, Frozen
<1>4. CASE UserDelete(o)
  BY <1>4 DEF UserDelete
<1> QED BY <1>1, <1>2, <1>3, <1>4 DEF UserStep

LEMMA StepWrites ==
  ASSUME Frozen, TypeInv, WaitInv, [Next]_vars, NEW o \in Object
  PROVE  api'[o] \in {api[o], Gone} \/ (~Finished(o) /\ Written(o))
<1> TypeOK
  BY DEF TypeInv
<1>1. CASE UNCHANGED Policy!policyVars
  BY <1>1 DEF Policy!policyVars
<1>2. CASE Policy!Look
  BY <1>2 DEF Policy!Look
<1>3. ASSUME NEW item \in Held, Policy!Reap(item) PROVE api'[o] \in {api[o], Gone}
  BY <1>3 DEF Policy!Reap, TypeOK, ClusterTypeOK
<1>4. CASE Policy!Tick
  BY <1>4 DEF Policy!Tick
<1>5. ASSUME NEW p \in Object, Policy!UserStep(p) PROVE UserStep(p)
  BY <1>5 DEF Policy!UserStep, Policy!UserCreate, Policy!UserUpdate, Policy!UserDelete,
     Policy!Present, Policy!Stamped, Policy!IsResourceFinished, Policy!FinishedPhases,
     Policy!FinishedConditions, UserStep, UserCreate, UserUpdate, UserDelete, Present, Stamped,
     IsResourceFinished, FinishedPhases, FinishedConditions
<1> QED BY <1>1, <1>2, <1>3, <1>4, <1>5, UserWrites, StepImplements
      DEF Policy!PolicyNext, Policy!Others

-----------------------------------------------------------------------------
LEMMA SinceInit == CountdownInit => SinceFinish
BY DEF CountdownInit, ControllerInit, Init, ClusterInit, SinceFinish, Finished, Present

LEMMA SinceNext ==
  ASSUME Timely, TypeInv, WaitInv, ReapersOK, SinceFinish, [CountdownNext]_countdownVars
  PROVE  SinceFinish'
<1>1. CASE UNCHANGED countdownVars
  BY <1>1 DEF countdownVars, controllerVars, vars, clusterVars, SinceFinish, Finished, Present
<1>2. CASE CountdownNext
  <2> SUFFICES ASSUME NEW o \in Object, Finished(o)'
               PROVE  /\ since'[o] \in Nat /\ api'[o].completion \in Nat
                      /\ since'[o] <= api'[o].completion
                      /\ api'[o].ttl \in TTLs
    BY DEF SinceFinish
  <2>1. [Next]_vars
    BY <1>2, ControllerStep DEF CountdownNext
  <2>2. api'[o] = api[o] \/ (~Finished(o) /\ Written(o))
    BY <2>1, StepWrites DEF Timely, Finished, Present
  <2>3. CASE Finished(o)
    BY <1>2, <2>2, <2>3 DEF CountdownNext, SinceFinish
  <2>4. CASE ~Finished(o)
    <3>1. since'[o] = clock
      BY <1>2, <2>4 DEF CountdownNext
    <3>2. Written(o)
      BY <2>2, <2>4 DEF Finished, Present
    <3>3. PICK form \in StatusForm, ttl \in TTLs, label \in Label :
            \E created : api'[o] = Stamped(form, ttl, label, created)
      BY <3>2 DEF Written
    <3>4. PICK created : api'[o] = Stamped(form, ttl, label, created)
      BY <3>3
    <3>5. IsResourceFinished(Stamped(form, ttl, label, created))
      BY <3>4 DEF Finished
    <3>6. form.completion \in Nat /\ api'[o].completion = clock + form.completion
      BY <3>4, <3>5, StampedFinish DEF Timely
    <3>7. api'[o].ttl = ttl
      BY <3>4 DEF Stamped
    <3> QED BY <3>1, <3>6, <3>7 DEF TypeInv, TypeOK, ClusterTypeOK
  <2> QED BY <2>3, <2>4
<1> QED BY <1>1, <1>2

-----------------------------------------------------------------------------
\* What is deleted in a step was finished, and expired by the clock.
LEMMA DeletedExpired ==
  ASSUME TypeInv, WaitInv, Fresh, [Next]_vars, lastReap' # lastReap
  PROVE  LET o == lastReap'.obj IN
           o \in Object /\ Present(o) /\ IsReapable(api[o]) /\ Expiration(api[o]) <= clock
<1>1. PICK item \in Held : Policy!Reap(item)
  BY StepImplements DEF Policy!policyVars, Policy!PolicyNext, Policy!Look, Policy!Others,
     Policy!UserStep, Policy!UserCreate, Policy!UserUpdate, Policy!UserDelete, Policy!Tick
<1>2. item.obj \in Object /\ lastReap'.obj = item.obj
  BY <1>1, HeldItems DEF Policy!Reap, Item
<1>3. Present(item.obj)
  BY <1>1 DEF Policy!Reap, Policy!Present, Present
<1>4. api[item.obj] = item.rec /\ IsReapable(item.rec)
  BY <1>3 DEF Fresh, Present
<1>5. Expiration(item.rec) <= clock
  BY <1>1 DEF Policy!Reap, Policy!Expiration, Policy!FinishTime, Policy!Wrap, Expiration,
     FinishTime, Wrap
<1> QED BY <1>2, <1>3, <1>4, <1>5

\* Where the TTL fits, it has passed since.
LEMMA DeletedInTime ==
  ASSUME Timely, TypeInv, WaitInv, Fresh, SinceFinish, [Next]_vars, lastReap' # lastReap
  PROVE  LET o == lastReap'.obj IN
           since[o] # Absent /\ clock >= since[o] + api[o].ttl * Second
<1> DEFINE o == lastReap'.obj
<1>1. o \in Object /\ Present(o) /\ IsReapable(api[o]) /\ Expiration(api[o]) <= clock
  BY DeletedExpired
<1>2. /\ since[o] \in Nat /\ api[o].completion \in Nat /\ since[o] <= api[o].completion
      /\ api[o].ttl \in TTLs \ {Absent}
  BY <1>1 DEF SinceFinish, Finished, IsReapable
<1>3. FinishTime(api[o]) = api[o].completion
  BY <1>2, SentinelAssumption DEF FinishTime
<1>4. api[o].ttl \in Int /\ api[o].ttl * Second \in Int
  <2>1. \A x, y \in Int : x * y \in Int
    OBVIOUS
  <2>2. TTLs \subseteq Int \cup {Absent}
    BY ClusterAssumption
  <2>3. api[o].ttl \in Int
    BY <1>2, <2>2
  <2> QED BY <2>1, <2>3, DurationAssumption
<1>5. Wrap(api[o].ttl * Second) = api[o].ttl * Second
  BY <1>2, <1>4, WrapExact DEF Timely, TTLsFit, Fits
<1>6. api[o].completion + api[o].ttl * Second <= clock
  BY <1>1, <1>3, <1>5 DEF Expiration
<1>7. since[o] # Absent
  BY <1>2, SentinelAssumption
<1> HIDE DEF o
<1>8. since[o] # Absent /\ clock >= since[o] + api[o].ttl * Second
  BY <1>2, <1>4, <1>6, <1>7 DEF TypeInv, TypeOK, ClusterTypeOK
<1> QED BY <1>8 DEF o

\* Where owners write a completion time, then or later, when they finish an object, leave it
\* alone from then on and do not use its name again, and the TTL is one that
\* fits, the countdown is what the README says (README.md:100; ttlreaper.go:
\* 196-215, 233, 251).
THEOREM TimelyCountdown == Timely /\ CountdownSpec => CountdownStartsAtFinish
<1>1. SUFFICES ASSUME Timely PROVE CountdownSpec => CountdownStartsAtFinish
  OBVIOUS
<1> DEFINE Inv == TypeInv /\ WaitInv /\ Fresh /\ ReapersOK /\ SinceFinish
<1>2. CountdownInit => Inv
  BY TypeInit, WaitInit, FreshInit, ReapersInit, SinceInit DEF CountdownInit, ControllerInit
<1>3. ReapersOK /\ [CountdownNext]_countdownVars => [Next]_vars /\ ReapersOK'
  BY ControllerStep, ReapersNext DEF CountdownNext, countdownVars
<1>4. Inv /\ [CountdownNext]_countdownVars => Inv'
  BY <1>1, <1>3, TypeNext, WaitNext, FreshNext, SinceNext DEF Timely
<1>5. Inv /\ [CountdownNext]_countdownVars =>
        [lastReap' # lastReap =>
           LET o == lastReap'.obj IN
             /\ since[o] # Absent
             /\ clock >= since[o] + api[o].ttl * Second]_countdownVars
  BY <1>1, <1>3, DeletedInTime
<1> HIDE DEF Inv
<1> QED BY <1>2, <1>4, <1>5, PTL DEF CountdownSpec, CountdownStartsAtFinish
=============================================================================
