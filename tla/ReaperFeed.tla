----------------------------- MODULE ReaperFeed -----------------------------
(***************************************************************************)
(* What the reconciler may expect of whatever feeds it: a cache of         *)
(* TTLReapers never changes without the key of what changed being queued,  *)
(* a new process queues all its cache holds, and a key that is taken is    *)
(* not gone.  It is taken again unless the reconcile it was taken for got  *)
(* past its last error, with a TTLReaper as the cache has it or with the   *)
(* key queued for another, or found no TTLReaper at all.                   *)
(*                                                                         *)
(* Module Startup implements this in detail, step by step from the start   *)
(* of the process; module Controller has it with a start of one step.      *)
(***************************************************************************)
CONSTANTS
  Reaper,       \* names of TTLReapers
  ReaperSpec,   \* the specs they take
  Accepted,     \* those of them a reconcile does not reject
  Absent        \* no TTLReaper of this name

VARIABLES
  up,           \* whether the cache has been filled
  lister,       \* the cache of TTLReapers
  dirty,        \* keys a worker has yet to take
  reading,      \* keys taken, whose reconcile may yet return an error
  acting        \* keys taken, whose reconcile will return nil

feedVars == <<up, lister, dirty, reading, acting>>

FeedInit ==
  /\ up \in BOOLEAN
  /\ lister = [r \in Reaper |-> Absent]
  /\ dirty = {} /\ reading = {} /\ acting = {}

\* The cache is filled; everything in it is queued.
FillCache ==
  /\ up' = TRUE
  /\ lister' \in [Reaper -> ReaperSpec \cup {Absent}]
  /\ dirty' = {r \in Reaper : lister'[r] # Absent}
  /\ reading' = {} /\ acting' = {}

\* One entry changes, and its key is queued.
ChangeEntry(r) ==
  /\ up
  /\ \E spec \in ReaperSpec \cup {Absent} : lister' = [lister EXCEPT ![r] = spec]
  /\ dirty' = dirty \cup {r}
  /\ UNCHANGED <<up, reading, acting>>

\* Keys are queued for other reasons.
QueueKeys ==
  /\ up
  /\ dirty' \in SUBSET Reaper /\ dirty \subseteq dirty'
  /\ UNCHANGED <<up, lister, reading, acting>>

\* A worker takes a key that no other has; one queued twice stays queued.
TakeKey(r) ==
  /\ up
  /\ r \in dirty \ (reading \cup acting)
  /\ dirty' \in {dirty, dirty \ {r}}
  /\ reading' = reading \cup {r}
  /\ UNCHANGED <<up, lister, acting>>

\* There is no such TTLReaper, or none when it was read.
FindNone(r) ==
  /\ r \in reading
  /\ lister[r] = Absent \/ r \in dirty
  /\ reading' = reading \ {r}
  /\ UNCHANGED <<up, lister, dirty, acting>>

\* The reconcile fails, whatever the reason, and its key is queued again.
Fail(r) ==
  /\ r \in reading
  /\ reading' = reading \ {r}
  /\ dirty' = dirty \cup {r}
  /\ UNCHANGED <<up, lister, acting>>

\* It gets past its last error, and is done in the end.
Accept(r) ==
  /\ r \in reading
  /\ lister[r] \in Accepted \/ r \in dirty
  /\ reading' = reading \ {r}
  /\ acting' = acting \cup {r}
  /\ UNCHANGED <<up, lister, dirty>>

Finish(r) ==
  /\ r \in acting
  /\ acting' = acting \ {r}
  /\ UNCHANGED <<up, lister, dirty, reading>>

\* The process ends.
Lose ==
  /\ up' = FALSE
  /\ lister' = [r \in Reaper |-> Absent]
  /\ dirty' = {} /\ reading' = {} /\ acting' = {}

FeedNext ==
  \/ FillCache
  \/ \E r \in Reaper : ChangeEntry(r) \/ TakeKey(r) \/ FindNone(r) \/ Fail(r) \/ Accept(r) \/ Finish(r)
  \/ QueueKeys
  \/ Lose

FeedSpec == FeedInit /\ [][FeedNext]_feedVars
=============================================================================
