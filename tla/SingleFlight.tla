---------------------------- MODULE SingleFlight ----------------------------
(***************************************************************************)
(* metacache/src/Metacache.Core/Cache/SingleFlight.cs, step by step: the   *)
(* TryGetValue / TryAdd loop of RunAsync, the execution of the work, the   *)
(* publication of its outcome and, as a separate later step, the           *)
(* conditional removal of the registered task.  One instance is shared by  *)
(* every cache of the process.                                             *)
(*                                                                         *)
(* A task is an identity in Runs.  TaskCompletionSources that lose TryAdd  *)
(* are never visible to anyone and have no identity.                       *)
(***************************************************************************)
EXTENDS Naturals, FiniteSets

CONSTANTS
  Callers,   \* request threads; each calls RunAsync repeatedly
  Keys,      \* single-flight keys
  Runs,      \* task identities
  Outcomes,  \* results and exceptions an execution can settle with
  Failure,   \* the outcome that stands for an exception
  None       \* no task, no key, no outcome

ASSUME NoneAssumption == None \notin Keys \cup Runs \cup Outcomes
ASSUME FailureAssumption == Failure \in Outcomes

VARIABLES
  pc,        \* "out", "looking" (at TryGetValue), "claiming" (at TryAdd), "waiting"
  want,      \* the key argument of the caller's current call
  held,      \* the task the caller awaits, or awaited last
  slot,      \* _inflight
  phase,     \* "unused", "working", "settled", "removed" per task
  keyOf,     \* the key a task was registered under
  outcome    \* what a settled task holds

loopVars == <<pc, want, held, slot, phase, keyOf, outcome>>

Phases == {"unused", "working", "settled", "removed"}

LoopTypeOK ==
  /\ pc \in [Callers -> {"out", "looking", "claiming", "waiting"}]
  /\ want \in [Callers -> Keys \cup {None}]
  /\ held \in [Callers -> Runs \cup {None}]
  /\ slot \in [Keys -> Runs \cup {None}]
  /\ phase \in [Runs -> Phases]
  /\ keyOf \in [Runs -> Keys \cup {None}]
  /\ outcome \in [Runs -> Outcomes \cup {None}]

LoopInit ==
  /\ pc = [c \in Callers |-> "out"]
  /\ want = [c \in Callers |-> None]
  /\ held = [c \in Callers |-> None]
  /\ slot = [k \in Keys |-> None]
  /\ phase = [r \in Runs |-> "unused"]
  /\ keyOf = [r \in Runs |-> None]
  /\ outcome = [r \in Runs |-> None]

\* No caller refers to r and it is not registered: the identity
\* of the next TaskCompletionSource may be r.
Fresh(r) ==
  /\ phase[r] \in {"unused", "removed"}
  /\ \A c \in Callers : held[c] # r

-----------------------------------------------------------------------------
\* Seeded defects, each a slip this code could have had, for testing the properties.

\* The indexer instead of TryAdd: an occupied entry is overwritten.
ClaimOverwrites(c, r) ==
  /\ pc[c] = "claiming"
  /\ Fresh(r)
  /\ slot' = [slot EXCEPT ![want[c]] = r]
  /\ phase' = [phase EXCEPT ![r] = "working"]
  /\ keyOf' = [keyOf EXCEPT ![r] = want[c]]
  /\ outcome' = [outcome EXCEPT ![r] = None]
  /\ held' = [held EXCEPT ![c] = r]
  /\ pc' = [pc EXCEPT ![c] = "waiting"]
  /\ UNCHANGED want

\* The removal may run before the work has finished.
RemoveBeforeSettled(r) ==
  /\ phase[r] \in {"working", "settled"}
  /\ slot[keyOf[r]] = r
  /\ phase' = [phase EXCEPT ![r] = IF @ = "settled" THEN "removed" ELSE @]
  /\ slot' = [slot EXCEPT ![keyOf[r]] = None]
  /\ UNCHANGED <<pc, want, held, keyOf, outcome>>

\* No catch block: an exception leaves the task unsettled for ever.
ExceptionNotPublished(r, o) ==
  /\ phase[r] = "working"
  /\ phase' = [phase EXCEPT ![r] = IF o = Failure THEN "unused" ELSE "settled"]
  /\ slot' = IF o = Failure THEN [slot EXCEPT ![keyOf[r]] = None] ELSE slot
  /\ outcome' = [outcome EXCEPT ![r] = o]
  /\ UNCHANGED <<pc, want, held, keyOf>>

-----------------------------------------------------------------------------

RunAsync(c, k) ==
  /\ pc[c] = "out"
  /\ pc' = [pc EXCEPT ![c] = "looking"]
  /\ want' = [want EXCEPT ![c] = k]
  /\ UNCHANGED <<held, slot, phase, keyOf, outcome>>

\* TryGetValue finds a task, running or already settled: share it.
LookHit(c) ==
  /\ pc[c] = "looking"
  /\ slot[want[c]] # None
  /\ pc' = [pc EXCEPT ![c] = "waiting"]
  /\ held' = [held EXCEPT ![c] = slot[want[c]]]
  /\ UNCHANGED <<want, slot, phase, keyOf, outcome>>

LookMiss(c) ==
  /\ pc[c] = "looking"
  /\ slot[want[c]] = None
  /\ pc' = [pc EXCEPT ![c] = "claiming"]
  /\ UNCHANGED <<want, held, slot, phase, keyOf, outcome>>

\* TryAdd succeeds; the factory is started on this thread.
ClaimWon(c, r) ==
  /\ pc[c] = "claiming"
  /\ slot[want[c]] = None
  /\ Fresh(r)
  /\ slot' = [slot EXCEPT ![want[c]] = r]
  /\ phase' = [phase EXCEPT ![r] = "working"]
  /\ keyOf' = [keyOf EXCEPT ![r] = want[c]]
  /\ outcome' = [outcome EXCEPT ![r] = None]
  /\ held' = [held EXCEPT ![c] = r]
  /\ pc' = [pc EXCEPT ![c] = "waiting"]
  /\ UNCHANGED want

\* TryAdd fails: loop and look again.
ClaimLost(c) ==
  /\ pc[c] = "claiming"
  /\ slot[want[c]] # None
  /\ pc' = [pc EXCEPT ![c] = "looking"]
  /\ UNCHANGED <<want, held, slot, phase, keyOf, outcome>>

\* tcs.SetResult or tcs.SetException: the awaiting callers may resume from here on.
SetOutcome(r, o) ==
  /\ phase[r] = "working"
  /\ phase' = [phase EXCEPT ![r] = "settled"]
  /\ outcome' = [outcome EXCEPT ![r] = o]
  /\ UNCHANGED <<pc, want, held, slot, keyOf>>

\* The finally block: TryRemove(key, task) takes the entry only if it is this task.
TryRemove(r) ==
  /\ phase[r] = "settled"
  /\ phase' = [phase EXCEPT ![r] = "removed"]
  /\ slot' = IF slot[keyOf[r]] = r THEN [slot EXCEPT ![keyOf[r]] = None] ELSE slot
  /\ UNCHANGED <<pc, want, held, keyOf, outcome>>

\* UnwrapAsync resumes with the outcome of the awaited task.
Resume(c) ==
  /\ pc[c] = "waiting"
  /\ phase[held[c]] \in {"settled", "removed"}
  /\ pc' = [pc EXCEPT ![c] = "out"]
  /\ want' = [want EXCEPT ![c] = None]
  /\ UNCHANGED <<held, slot, phase, keyOf, outcome>>

LoopNext ==
  \/ \E c \in Callers, k \in Keys : RunAsync(c, k)
  \/ \E c \in Callers : LookHit(c) \/ LookMiss(c) \/ ClaimLost(c) \/ Resume(c)
  \/ \E c \in Callers, r \in Runs : ClaimWon(c, r)
  \/ \E r \in Runs, o \in Outcomes : SetOutcome(r, o)
  \/ \E r \in Runs : TryRemove(r)

LoopSpec == LoopInit /\ [][LoopNext]_loopVars

(***************************************************************************)
(* Started work finishes (an HTTP send ends within the client's timeout    *)
(* and retries are bounded) and thread-pool continuations are scheduled.   *)
(* Nothing forces a client to call again, so RunAsync has no fairness.     *)
(***************************************************************************)
Fairness ==
  /\ \A c \in Callers :
       /\ WF_loopVars(LookHit(c) \/ LookMiss(c))
       /\ WF_loopVars(ClaimLost(c) \/ \E r \in Runs : ClaimWon(c, r))
       /\ WF_loopVars(Resume(c))
  /\ \A r \in Runs :
       /\ WF_loopVars(\E o \in Outcomes : SetOutcome(r, o))
       /\ WF_loopVars(TryRemove(r))

LoopFairSpec == LoopSpec /\ Fairness

-----------------------------------------------------------------------------
\* Properties

Unremoved(r) == phase[r] \in {"working", "settled"}

\* A thundering herd on one key causes one execution: no two executions of the
\* same key are ever in progress together (SingleFlight.cs:6-7).
OneExecutionPerKey ==
  \A r, s \in Runs :
    phase[r] = "working" /\ phase[s] = "working" /\ keyOf[r] = keyOf[s] => r = s

\* Every task that has not run its finally block is the entry of its own key, so
\* the removal at SingleFlight.cs:58 always succeeds and no settled task can stay
\* registered after it, nor can an unregistered task still be executing.
UnremovedOwnsItsSlot ==
  /\ \A r \in Runs : Unremoved(r) => keyOf[r] \in Keys /\ slot[keyOf[r]] = r
  /\ \A k \in Keys : slot[k] # None => Unremoved(slot[k]) /\ keyOf[slot[k]] = k

\* Nobody waits for ever on shared work, whoever started it.
EveryWaiterAnswered == \A c \in Callers : pc[c] = "waiting" ~> pc[c] = "out"

\* A finished run, failed or not, does not stay registered: the entry a later
\* caller would find is eventually another one (SingleFlight.cs:9-11).
NoStickyEntry ==
  \A k \in Keys, r \in Runs : slot[k] = r ~> slot[k] # r

\* Both: whatever the work's outcome, its waiters are released and its key is freed.
EveryFlightLands == EveryWaiterAnswered /\ NoStickyEntry

-----------------------------------------------------------------------------
\* The loop implements the atomic join-or-start of SharedFlight.

abstractPc ==
  [c \in Callers |-> IF pc[c] \in {"looking", "claiming"} THEN "calling" ELSE pc[c]]

abstractHeld ==
  [c \in Callers |-> IF pc[c] = "waiting" THEN held[c] ELSE None]

Shared == INSTANCE SharedFlight WITH pc <- abstractPc, held <- abstractHeld

\* Every behaviour of the loop is one of SharedFlight.
ImplementsSharedFlight == Shared!Spec

=============================================================================
