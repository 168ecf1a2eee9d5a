------------------------------ MODULE RateLimit ------------------------------
(***************************************************************************)
(* The rate limit of a route, for one client: core/rate_limit.py.          *)
(*                                                                         *)
(* The requests of a client run in threads of one process and share one    *)
(* list of times without a lock.  A thread looks at the clock, drops from  *)
(* the head of the list what is older than the window, compares the list's *)
(* length with the limit and only then appends the time it looked: another *)
(* thread may come between any two of those.                               *)
(***************************************************************************)
EXTENDS Integers, FiniteSets, Sequences

CONSTANTS
  Threads,        \* the requests that may be in the check at once
  MaxRequests,    \* max_requests
  WindowSeconds,  \* window_seconds
  MaxClock,       \* of the clock: a bound
  MaxAdmitted     \* requests let through since the panel started: a bound

ASSUME LimitAssumption ==
  /\ IsFiniteSet(Threads)
  /\ MaxRequests \in Nat \ {0} /\ {WindowSeconds, MaxClock, MaxAdmitted} \subseteq Nat

VARIABLES
  clock,
  line,      \* of the check, where a thread is
  looked,    \* when it looked at the clock
  admitted,  \* the times that were appended, in that order
  head,      \* the list is what is left of them from this index on
  taken,     \* history: what a thread dropped that was not too old for it
  crowd      \* history: the most threads that were in the check at once

limitVars == <<clock, line, looked, admitted, head, taken, crowd>>

Lines == {"idle", "while", "head", "pop", "compare", "append"}
List == head..Len(admitted)
Inside == {t \in Threads : line[t] # "idle"}

LimitInit ==
  /\ clock = 0
  /\ line = [t \in Threads |-> "idle"] /\ looked = [t \in Threads |-> 0]
  /\ admitted = <<>> /\ head = 1
  /\ taken = {} /\ crowd = 1

LimitTypeOK ==
  /\ clock \in 0..MaxClock
  /\ line \in [Threads -> Lines]
  /\ looked \in [Threads -> 0..clock]
  /\ admitted \in Seq(0..clock)
  /\ head \in 1..(Len(admitted) + 1)
  /\ taken \subseteq 1..(head - 1)
  /\ crowd \in Nat /\ Cardinality(Inside) <= crowd /\ 1 <= crowd
-----------------------------------------------------------------------------
Go(t, to) == line' = [line EXCEPT ![t] = to]
Listed == UNCHANGED <<clock, looked, admitted, head, taken, crowd>>
TooOld(t, i) == admitted[i] < looked[t] - WindowSeconds

(* _check begins: the clock, then the list of this client.                 *)
Look(t) ==
  /\ line[t] = "idle" /\ Len(admitted) < MaxAdmitted
  /\ Go(t, "while")
  /\ looked' = [looked EXCEPT ![t] = clock]
  /\ crowd' = IF Cardinality(Inside) = crowd THEN crowd + 1 ELSE crowd
  /\ UNCHANGED <<clock, admitted, head, taken>>

(* "while window": is anything listed?                                     *)
While(t) ==
  /\ line[t] = "while"
  /\ Go(t, IF List = {} THEN "compare" ELSE "head")
  /\ Listed

(* "and window[0] < cutoff": the list may be empty by now, which raises.   *)
TestHead(t) ==
  /\ line[t] = "head"
  /\ Go(t, IF List = {} THEN "idle" ELSE IF TooOld(t, head) THEN "pop" ELSE "compare")
  /\ Listed

(* "window.pop(0)": whatever is the head by now; it raises for want of one.*)
Pop(t) ==
  /\ line[t] = "pop"
  /\ IF List = {}
     THEN Go(t, "idle") /\ UNCHANGED <<head, taken>>
     ELSE /\ Go(t, "while")
          /\ head' = head + 1
          /\ taken' = IF TooOld(t, head) THEN taken ELSE taken \cup {head}
  /\ UNCHANGED <<clock, looked, admitted, crowd>>

(* Defect: one request too many. *)
CompareLoosely(t) ==
  /\ line[t] = "compare"
  /\ Go(t, IF Len(admitted) - head + 1 > MaxRequests THEN "idle" ELSE "append")
  /\ Listed

(* The request is refused with 429, or goes on.                            *)
Compare(t) ==
  /\ line[t] = "compare"
  /\ Go(t, IF Len(admitted) - head + 1 >= MaxRequests THEN "idle" ELSE "append")
  /\ Listed

(* "window.append(now)", and the route begins.                             *)
Admit(t) ==
  /\ line[t] = "append"
  /\ Go(t, "idle")
  /\ admitted' = Append(admitted, looked[t])
  /\ UNCHANGED <<clock, looked, head, taken, crowd>>

Tick ==
  /\ clock < MaxClock
  /\ clock' = clock + 1
  /\ UNCHANGED <<line, looked, admitted, head, taken, crowd>>

(* The lists are in memory: a new panel knows of no request.               *)
PanelStarts ==
  /\ line' = [t \in Threads |-> "idle"] /\ looked' = [t \in Threads |-> 0]
  /\ admitted' = <<>> /\ head' = 1
  /\ taken' = {} /\ crowd' = 1
  /\ UNCHANGED clock

LimitNext ==
  \/ Tick \/ PanelStarts
  \/ \E t \in Threads : Look(t) \/ While(t) \/ TestHead(t) \/ Pop(t) \/ Compare(t) \/ Admit(t)

LimitSpec == LimitInit /\ [][LimitNext]_limitVars
-----------------------------------------------------------------------------
(* What was let through within the window up to now.                       *)
Current == {i \in 1..Len(admitted) : admitted[i] >= clock - WindowSeconds}

(* Of the requests of a client since the panel started, any window lets at *)
(* most max_requests through while no two of them are in the check at      *)
(* once.  Requests that overlap get past the limit in two ways only: all   *)
(* that compare before one appends (rate_limit.py:43-51), which is one     *)
(* less than were inside together, and one for each time that a thread     *)
(* dropped in place of the head it had looked at (40-41).                  *)
LimitHolds ==
  /\ Cardinality(Current) <= MaxRequests + (crowd - 1) + Cardinality(Current \cap taken)
  /\ crowd = 1 => taken = {}

=============================================================================
