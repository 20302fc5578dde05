------------------------------ MODULE Cluster -------------------------------
(***************************************************************************)
(* The Kubernetes API server, its clock, and the users and controllers who *)
(* own the target objects: the environment of the reaper, modelled from    *)
(* how the reaper calls it (List, Delete) and from the objects the         *)
(* repository's CRD and example.yaml describe.                             *)
(*                                                                         *)
(* An object's name outlives the object: a name may be deleted and created *)
(* again, which the reaper cannot tell from an object that stayed.         *)
(***************************************************************************)
EXTENDS Lifetime

CONSTANTS
  Object,       \* the names in the API server: group, kind, namespace, name
  TTLs,         \* the TTLs users write, Absent among them or not
  StatusForm,   \* the statuses owners write; a completion time is given relative to the clock
  Label,        \* label values
  Unborn,       \* no object of this name has existed yet
  Gone,         \* the object of this name was deleted
  MayReuse,     \* whether users create an object under a deleted one's name
  MayEdit,      \* whether users change an object that has finished
  MaxClock,     \* bound on the clock, while users write
  MaxFail       \* bound on failed API calls

ASSUME ClusterAssumption ==
  /\ TTLs \subseteq Int \cup {Absent}
  /\ StatusForm \subseteq [phase : STRING \cup {Absent},
                          conditions : SUBSET (STRING \X STRING),
                          completion : Int \cup {Absent, Malformed}]
  /\ Unborn # Gone
  /\ MayReuse \in BOOLEAN /\ MayEdit \in BOOLEAN
  /\ MaxClock \in Nat /\ MaxFail \in Nat

\* Owners' clocks differ from the reaper's by years at most: no time they write,
\* with its TTL, is further off than a time.Duration can be.
ASSUME ReachAssumption ==
  \A form \in StatusForm, ttl \in TTLs :
    form.completion \in Int /\ ttl # Absent
      => form.completion + Wrap(ttl * Second) <= MaxDuration

VARIABLES
  api,          \* what is stored under each name
  clock,        \* wall-clock time, the API server's and the controller's
  fails,        \* how many API calls have failed so far
  lastReap,     \* history: the last object the reaper deleted
  missed        \* history: the objects that failed calls were about

clusterVars == <<api, clock, fails, lastReap, missed>>

\* The object an owner writes: a status form, its completion time, if it has one,
\* at the current time, before it or after it.
Stamped(form, ttl, label, created) ==
  [ttl |-> ttl, label |-> label, created |-> created,
   phase |-> form.phase, conditions |-> form.conditions,
   completion |-> IF form.completion \in {Absent, Malformed}
                 THEN form.completion ELSE clock + form.completion]

\* The objects there can be.
Rec ==
  [ttl : Int \cup {Absent}, label : Label, created : Nat,
   phase : STRING \cup {Absent}, conditions : SUBSET (STRING \X STRING),
   completion : Int \cup {Absent, Malformed}]

Present(o) == api[o] \notin {Unborn, Gone}

ClusterTypeOK ==
  /\ api \in [Object -> Rec \cup {Unborn, Gone}]
  /\ clock \in Nat
  /\ fails \in Nat
  /\ lastReap \in [obj : Object, was : Rec, by : Rec, at : Nat] \cup {Absent}
  /\ missed \subseteq Object

-----------------------------------------------------------------------------
ClusterInit ==
  /\ api = [o \in Object |-> Unborn]
  /\ clock = 0
  /\ fails = 0
  /\ lastReap = Absent
  /\ missed = {}

UserCreate(o) ==
  /\ clock <= MaxClock
  /\ api[o] = Unborn \/ (MayReuse /\ api[o] = Gone)
  /\ \E form \in StatusForm, ttl \in TTLs, label \in Label :
       api' = [api EXCEPT ![o] = Stamped(form, ttl, label, clock)]
  /\ UNCHANGED <<clock, fails, lastReap, missed>>

UserUpdate(o) ==
  /\ clock <= MaxClock
  /\ Present(o)
  /\ MayEdit \/ ~IsResourceFinished(api[o])
  /\ \E form \in StatusForm, ttl \in TTLs, label \in Label :
       api' = [api EXCEPT ![o] = Stamped(form, ttl, label, api[o].created)]
  /\ UNCHANGED <<clock, fails, lastReap, missed>>

UserDelete(o) ==
  /\ Present(o)
  /\ api' = [api EXCEPT ![o] = Gone]
  /\ UNCHANGED <<clock, fails, lastReap, missed>>

UserStep(o) == UserCreate(o) \/ UserUpdate(o) \/ UserDelete(o)

Tick ==
  /\ clock' = clock + 1
  /\ UNCHANGED <<api, fails, lastReap, missed>>

-----------------------------------------------------------------------------
\* A call about these objects that changes nothing and returns an error.
APIFails(objects) ==
  /\ fails < MaxFail
  /\ fails' = fails + 1
  /\ missed' = missed \cup objects
  /\ UNCHANGED <<api, clock, lastReap>>

(***************************************************************************)
(* dynamicClient...Delete(name, DeleteOptions{}), by name alone: no UID or *)
(* resourceVersion precondition.  `by` is the copy of the object the       *)
(* caller acts on.  The call deletes what the name holds now, or finds     *)
(* nothing, or fails; the caller logs an error and goes on in each case.   *)
(***************************************************************************)
APIDelete(o, by) ==
  \/ /\ Present(o)
     /\ api' = [api EXCEPT ![o] = Gone]
     /\ lastReap' = [obj |-> o, was |-> api[o], by |-> by, at |-> clock]
     /\ UNCHANGED <<clock, fails, missed>>
  \/ /\ ~Present(o)
     /\ UNCHANGED clusterVars
  \/ APIFails({o})
=============================================================================
