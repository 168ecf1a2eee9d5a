---------------------------- MODULE SharedFlight ----------------------------
(***************************************************************************)
(* What Metacache.Core's SingleFlight promises, with the lock-free loop    *)
(* that implements it abstracted away: a call on a key atomically joins    *)
(* the execution that occupies the key's slot or starts one in an empty    *)
(* slot, every execution settles once, frees its slot afterwards, and      *)
(* every caller that joined it is handed its outcome.                      *)
(*                                                                         *)
(* SingleFlight.tla is shown to implement this module, and the caches that *)
(* sit on top of SingleFlight (UpstreamCache.tla, ImageCache.tla) are      *)
(* composed with this module instead of with the loop.                     *)
(***************************************************************************)
EXTENDS Naturals, FiniteSets

CONSTANTS
  Callers,   \* request threads that call RunAsync, again and again
  Keys,      \* single-flight keys
  Runs,      \* identities of TaskCompletionSource tasks, reused once unreferenced
  Outcomes,  \* what an execution can settle with
  None       \* no task, no key, no outcome

VARIABLES
  pc,        \* per caller: "out", "calling" (inside RunAsync), "waiting" (awaits a task)
  want,      \* per caller: the key of its current call
  held,      \* per caller: the task it awaits
  slot,      \* per key: the task registered in _inflight
  phase,     \* per task: "unused", "working", "settled" (result set), "removed"
  keyOf,     \* per task: the key it was registered under
  outcome    \* per task: the result or exception it settled with

flightVars == <<pc, want, held, slot, phase, keyOf, outcome>>

Phases == {"unused", "working", "settled", "removed"}

Init ==
  /\ pc = [c \in Callers |-> "out"]
  /\ want = [c \in Callers |-> None]
  /\ held = [c \in Callers |-> None]
  /\ slot = [k \in Keys |-> None]
  /\ phase = [r \in Runs |-> "unused"]
  /\ keyOf = [r \in Runs |-> None]
  /\ outcome = [r \in Runs |-> None]

\* A task identity nobody refers to any more: a new TaskCompletionSource may be it.
Fresh(r) ==
  /\ phase[r] \in {"unused", "removed"}
  /\ \A c \in Callers : held[c] # r

Arrive(c, k) ==
  /\ pc[c] = "out"
  /\ pc' = [pc EXCEPT ![c] = "calling"]
  /\ want' = [want EXCEPT ![c] = k]
  /\ UNCHANGED <<held, slot, phase, keyOf, outcome>>

\* Share the registered task.
Join(c) ==
  /\ pc[c] = "calling"
  /\ slot[want[c]] # None
  /\ pc' = [pc EXCEPT ![c] = "waiting"]
  /\ held' = [held EXCEPT ![c] = slot[want[c]]]
  /\ UNCHANGED <<want, slot, phase, keyOf, outcome>>

\* Register a new task and start its execution.
Start(c, r) ==
  /\ pc[c] = "calling"
  /\ slot[want[c]] = None
  /\ Fresh(r)
  /\ slot' = [slot EXCEPT ![want[c]] = r]
  /\ phase' = [phase EXCEPT ![r] = "working"]
  /\ keyOf' = [keyOf EXCEPT ![r] = want[c]]
  /\ outcome' = [outcome EXCEPT ![r] = None]
  /\ held' = [held EXCEPT ![c] = r]
  /\ pc' = [pc EXCEPT ![c] = "waiting"]
  /\ UNCHANGED want

Settle(r, o) ==
  /\ phase[r] = "working"
  /\ phase' = [phase EXCEPT ![r] = "settled"]
  /\ outcome' = [outcome EXCEPT ![r] = o]
  /\ UNCHANGED <<pc, want, held, slot, keyOf>>

\* The slot is freed only after the outcome is published.
Free(r) ==
  /\ phase[r] = "settled"
  /\ slot[keyOf[r]] = r
  /\ phase' = [phase EXCEPT ![r] = "removed"]
  /\ slot' = [slot EXCEPT ![keyOf[r]] = None]
  /\ UNCHANGED <<pc, want, held, keyOf, outcome>>

\* The awaiting caller resumes with the outcome.
Return(c) ==
  /\ pc[c] = "waiting"
  /\ phase[held[c]] \in {"settled", "removed"}
  /\ pc' = [pc EXCEPT ![c] = "out"]
  /\ held' = [held EXCEPT ![c] = None]
  /\ want' = [want EXCEPT ![c] = None]
  /\ UNCHANGED <<slot, phase, keyOf, outcome>>

Next ==
  \/ \E c \in Callers, k \in Keys : Arrive(c, k)
  \/ \E c \in Callers : Join(c) \/ Return(c)
  \/ \E c \in Callers, r \in Runs : Start(c, r)
  \/ \E r \in Runs, o \in Outcomes : Settle(r, o)
  \/ \E r \in Runs : Free(r)

Spec == Init /\ [][Next]_flightVars

=============================================================================
