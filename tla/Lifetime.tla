------------------------------ MODULE Lifetime ------------------------------
(***************************************************************************)
(* What the reaper computes from one listed object: whether it counts as   *)
(* finished, when its time to live runs out, and how long that is from     *)
(* now.  Pure operators, from scheduleResourceDeletion and                 *)
(* isResourceFinished in pkg/reconciler/ttlreaper/ttlreaper.go.            *)
(*                                                                         *)
(* An object is a record of the fields the reaper reads.  A field that is  *)
(* missing, or that has the wrong type, is Absent: the Nested... helpers   *)
(* report either, and the code treats both alike.                          *)
(*   ttl         spec.ttlSecondsAfterFinished, in seconds                  *)
(*   phase       status.phase                                              *)
(*   conditions  status.conditions, a set of <<type, status>> pairs        *)
(*   completion  status.completionTime, Malformed when it does not parse   *)
(*   created     metadata.creationTimestamp                                *)
(*   label       what the label selectors of the reapers look at           *)
(***************************************************************************)
EXTENDS Integers

CONSTANTS
  Absent,       \* no such field, no such entry
  Malformed,    \* a value the code tries to parse and cannot
  Second,       \* clock units (time.Duration units) in a second
  MaxDuration   \* the largest time.Duration, math.MaxInt64 in the code

ASSUME DurationAssumption ==
  /\ Second \in Nat \ {0}
  /\ MaxDuration \in Nat \ {0}
ASSUME SentinelAssumption == Absent \notin Int /\ Malformed \notin Int

(***************************************************************************)
(* The completion patterns.  A phase decides alone, whatever it is; only   *)
(* without one are the conditions looked at, then the completion time.     *)
(***************************************************************************)
FinishedPhases == {"Succeeded", "Failed", "Completed"}
FinishedConditions == {<<"Succeeded", "True">>, <<"Completed", "True">>}

IsResourceFinished(rec) ==
  IF rec.phase # Absent
  THEN rec.phase \in FinishedPhases
  ELSE \/ rec.conditions \cap FinishedConditions # {}
       \/ rec.completion # Absent

\* The items processNamespace does not skip.
IsReapable(rec) == rec.ttl # Absent /\ IsResourceFinished(rec)

-----------------------------------------------------------------------------
\* finishTime: the completion time if it parses, else the creation time.
FinishTime(rec) ==
  IF rec.completion \in {Absent, Malformed} THEN rec.created ELSE rec.completion

\* Two's-complement wrap-around of the int64 product time.Duration(ttl) * time.Second.
Wrap(x) == ((x + MaxDuration + 1) % (2 * (MaxDuration + 1))) - (MaxDuration + 1)

\* time.Until, which saturates where the multiplication above wraps.
Saturate(x) ==
  IF x > MaxDuration THEN MaxDuration
  ELSE IF x < -(MaxDuration + 1) THEN -(MaxDuration + 1)
  ELSE x

Expiration(rec) == FinishTime(rec) + Wrap(rec.ttl * Second)

DelayFromCreation(rec, now) ==   \* mutant: counts from the creation time
  rec.created + Wrap(rec.ttl * Second) - now

Delay(rec, now) == Saturate(Expiration(rec) - now)
=============================================================================
