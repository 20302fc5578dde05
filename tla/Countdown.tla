----------------------------- MODULE Countdown ------------------------------
(***************************************************************************)
(* The controller with a history of when each object finished, to say what *)
(* the README promises of the countdown: "The TTL countdown starts when    *)
(* the resource reaches a completed state" (README.md:100).  The code does *)
(* not see that moment; it has the completion time the owner wrote, or the *)
(* creation time (module Lifetime).                                        *)
(***************************************************************************)
EXTENDS Controller

VARIABLE since   \* history: when what is stored under a name finished

countdownVars == <<controllerVars, since>>

Finished(o) == Present(o) /\ IsResourceFinished(api[o])

CountdownInit ==
  /\ ControllerInit
  /\ since = [o \in Object |-> Absent]

CountdownNext ==
  /\ ControllerNext
  /\ since' = [o \in Object |-> IF ~Finished(o)' THEN Absent
                                ELSE IF Finished(o) THEN since[o] ELSE clock]

CountdownSpec == CountdownInit /\ [][CountdownNext]_countdownVars

-----------------------------------------------------------------------------
\* A Delete removes an object no sooner than its TTL after it finished
\* (README.md:100; ttlreaper.go:196-215).
CountdownStartsAtFinish ==
  [][lastReap' # lastReap =>
       LET o == lastReap'.obj IN
         /\ since[o] # Absent
         /\ clock >= since[o] + api[o].ttl * Second]_countdownVars
=============================================================================
