---------------------------- MODULE UpstreamCache ----------------------------
(***************************************************************************)
(* The raw-HTTP cache gateway, Metacache.Core/Cache/UpstreamCache.cs, with *)
(* the upstream_cache rows of CacheStore.cs it reads and writes and the    *)
(* single flight every call goes through (SharedFlight.tla).               *)
(*                                                                         *)
(* An execution of a flight is FetchCoreAsync: read the row and the clock, *)
(* answer from a fresh row or send a (conditional) request, retry 429s,    *)
(* then store, pass through, fall back to the stale row or fail.  The      *)
(* provider, the passing of time and the operator's PurgeExpired run       *)
(* between any two of these steps.                                         *)
(*                                                                         *)
(* A body is the version of the provider's content it carries.  Policy     *)
(* fields are constants.  Row fields that no step reads back (url, status, *)
(* content type, validators) and the duration histogram are left out.      *)
(***************************************************************************)
EXTENDS Integers, FiniteSets

CONSTANTS
  Callers, Keys, Runs, None,
  Ttl,                \* CachePolicy.Ttl, in clock ticks
  ServeStaleOnError,  \* CachePolicy.ServeStaleOnError
  MaxStaleAge,        \* CachePolicy.MaxStaleAge, None = unbounded
  MaxRetries,         \* CachePolicy.MaxRetries
  MaxVersion,         \* bound: versions the provider publishes
  MaxClock,           \* bound: clock ticks
  MaxRequests         \* bound: calls of GetOrFetchAsync

ASSUME PolicyAssumption ==
  /\ Ttl \in Nat
  /\ ServeStaleOnError \in BOOLEAN
  /\ MaxStaleAge \in Nat \cup {None}
  /\ MaxRetries \in Nat
ASSUME BoundsAssumption ==
  MaxVersion \in Nat \ {0} /\ MaxClock \in Nat /\ MaxRequests \in Nat

VARIABLES
  pc, want, held, slot, phase, keyOf, outcome,  \* the single flight
  work,         \* per execution: the locals of FetchCoreAsync / SendWithRetryAsync
  store,        \* per key: the upstream_cache row, or None
  requests,     \* _requests
  hits,         \* _hits
  rateLimited,  \* UpstreamMetrics' 429 counter
  clock,        \* IClock
  remote,       \* per key: the version the provider serves now
  retiredAt,    \* history: when the provider replaced a version
  newest,       \* history: the newest version ever stored per key
  throttled     \* history: 429 responses received

flightVars == <<pc, want, held, slot, phase, keyOf, outcome>>
storeVars == <<store, newest>>
counters == <<requests, hits, rateLimited>>
world == <<clock, remote, retiredAt>>
vars == <<flightVars, work, storeVars, counters, world, throttled>>

Versions == 1..MaxVersion
Time == 0..MaxClock
Row == [body : Versions, fetched : Time, expires : 0..(MaxClock + Ttl),
        hits : 0..(2 * MaxRequests)]

\* What a call can end with: a CachedResponse, or an exception.
Response ==
  [source : {"Upstream", "Cache", "Revalidated", "Stale"}, body : Versions]
    \cup [source : {"NotFound", "UpstreamException", "TaskCanceled"}, body : {0}]

Answer(source, body) == [source |-> source, body |-> body]

\* What SendAsync yields: a status class, HttpRequestException ("transport") or the
\* HttpClient timeout's TaskCanceledException ("timeout").
Replies ==
  [kind : {"ok"}, body : Versions]
    \cup [kind : {"notModified", "notFound", "throttled", "failed",
                  "transport", "timeout"}, body : {0}]

NoReply == [kind |-> "none", body |-> 0]
NoWork == [stage |-> "none", cached |-> None, now |-> 0, attempt |-> 0, reply |-> NoReply]

Work ==
  [stage : {"none", "read", "sent", "replied"}, cached : Row \cup {None},
   now : Time, attempt : 0..MaxRetries, reply : Replies \cup {NoReply}]

\* A process has finitely many requests and tasks; null is neither a task nor a row.
ASSUME FlightAssumption ==
  /\ IsFiniteSet(Callers) /\ IsFiniteSet(Runs)
  /\ None \notin Runs \cup Row

Flight == INSTANCE SharedFlight WITH Outcomes <- Response

TypeOK ==
  /\ pc \in [Callers -> {"out", "calling", "waiting"}]
  /\ want \in [Callers -> Keys \cup {None}]
  /\ held \in [Callers -> Runs \cup {None}]
  /\ slot \in [Keys -> Runs \cup {None}]
  /\ phase \in [Runs -> Flight!Phases]
  /\ keyOf \in [Runs -> Keys \cup {None}]
  /\ outcome \in [Runs -> Response \cup {None}]
  /\ work \in [Runs -> Work]
  /\ store \in [Keys -> Row \cup {None}]
  /\ requests \in 0..MaxRequests
  /\ hits \in Nat
  /\ rateLimited \in Nat
  /\ clock \in Time
  /\ remote \in [Keys -> Versions]
  /\ retiredAt \in [Keys -> [Versions -> Time]]
  /\ newest \in [Keys -> 0..MaxVersion]
  /\ throttled \in Nat

Init ==
  /\ Flight!Init
  /\ work = [r \in Runs |-> NoWork]
  /\ store = [k \in Keys |-> None]
  /\ requests = 0 /\ hits = 0 /\ rateLimited = 0
  /\ clock = 0
  /\ remote = [k \in Keys |-> 1]
  /\ retiredAt = [k \in Keys |-> [v \in Versions |-> 0]]
  /\ newest = [k \in Keys |-> 0]
  /\ throttled = 0

-----------------------------------------------------------------------------
\* The store operations a fetch uses

Bumped(row) == IF row = None THEN None ELSE [row EXCEPT !.hits = @ + 1]

\* UPDATE ... SET hits = hits + 1: nothing to update when the row was purged.
BumpHits(k) == store' = [store EXCEPT ![k] = Bumped(@)]

\* The upsert keeps the hits of a row that is there and inserts `initialHits` otherwise.
Upserted(k, body, now, initialHits) ==
  [body |-> body, fetched |-> now, expires |-> now + Ttl,
   hits |-> IF store[k] = None THEN initialHits ELSE store[k].hits]

Recorded(k, body) ==
  newest' = [newest EXCEPT ![k] = IF body > @ THEN body ELSE @]

-----------------------------------------------------------------------------
\* The caller's side: GetOrFetchAsync

GetOrFetch(c, k) ==
  /\ requests < MaxRequests
  /\ Flight!Arrive(c, k)
  /\ requests' = requests + 1
  /\ UNCHANGED <<work, storeVars, hits, rateLimited, world, throttled>>

JoinFlight(c) ==
  /\ Flight!Join(c)
  /\ UNCHANGED <<work, storeVars, counters, world, throttled>>

StartFlight(c, r) ==
  /\ Flight!Start(c, r)
  /\ UNCHANGED <<work, storeVars, counters, world, throttled>>

Answered(c) ==
  /\ Flight!Return(c)
  /\ UNCHANGED <<work, storeVars, counters, world, throttled>>

-----------------------------------------------------------------------------
\* One execution: FetchCoreAsync

At(r, stage) == phase[r] = "working" /\ work[r].stage = stage

IsFresh(w) == w.cached # None /\ w.cached.expires > w.now

\* The execution ends with o; its locals are gone.
Finish(r, o) ==
  /\ Flight!Settle(r, o)
  /\ work' = [work EXCEPT ![r] = NoWork]

\* GetUpstream, then the clock: this `now` is used for the rest of the execution.
ReadRow(r) ==
  /\ At(r, "none")
  /\ work' = [work EXCEPT ![r] =
       [NoWork EXCEPT !.stage = "read", !.cached = store[keyOf[r]], !.now = clock]]
  /\ UNCHANGED <<flightVars, storeVars, counters, world, throttled>>

ServeFresh(r) ==
  /\ At(r, "read")
  /\ IsFresh(work[r])
  /\ BumpHits(keyOf[r])
  /\ hits' = hits + 1
  /\ Finish(r, Answer("Cache", work[r].cached.body))
  /\ UNCHANGED <<newest, requests, rateLimited, world, throttled>>

\* The request is conditional exactly when a row was read.
Send(r) ==
  /\ At(r, "read")
  /\ ~IsFresh(work[r])
  /\ work' = [work EXCEPT ![r].stage = "sent"]
  /\ UNCHANGED <<flightVars, storeVars, counters, world, throttled>>

\* 429 with attempts left: count it, wait, send the same request again.
RetryThrottled(r) ==
  /\ At(r, "replied")
  /\ work[r].reply.kind = "throttled"
  /\ work[r].attempt < MaxRetries
  /\ rateLimited' = rateLimited + 1
  /\ work' = [work EXCEPT ![r] =
       [@ EXCEPT !.stage = "sent", !.attempt = work[r].attempt + 1, !.reply = NoReply]]
  /\ UNCHANGED <<flightVars, storeVars, requests, hits, world, throttled>>

\* 304: the row that was read is written back with a new lifetime and one more hit,
\* even if it has been purged since.  Neither counts as a hit of the gateway.
Revalidate(r) ==
  LET k == keyOf[r]
      w == work[r]
  IN
  /\ At(r, "replied")
  /\ w.reply.kind = "notModified"
  /\ store' = [store EXCEPT ![k] = Bumped(Upserted(k, w.cached.body, w.now, w.cached.hits))]
  /\ Recorded(k, w.cached.body)
  /\ Finish(r, Answer("Revalidated", w.cached.body))
  /\ UNCHANGED <<counters, world, throttled>>

\* Defect: the row is dated when the answer arrives, not when the request was sent.
StoreDatedOnArrival(r) ==
  LET k == keyOf[r]
      w == work[r]
  IN
  /\ At(r, "replied")
  /\ w.reply.kind = "ok"
  /\ store' = [store EXCEPT ![k] = Upserted(k, w.reply.body, clock, 0)]
  /\ Recorded(k, w.reply.body)
  /\ Finish(r, Answer("Upstream", w.reply.body))
  /\ UNCHANGED <<counters, world, throttled>>

\* 2xx: store the body, dated with the `now` read before the request was sent.
StoreFetched(r) ==
  LET k == keyOf[r]
      w == work[r]
  IN
  /\ At(r, "replied")
  /\ w.reply.kind = "ok"
  /\ store' = [store EXCEPT ![k] = Upserted(k, w.reply.body, w.now, 0)]
  /\ Recorded(k, w.reply.body)
  /\ Finish(r, Answer("Upstream", w.reply.body))
  /\ UNCHANGED <<counters, world, throttled>>

\* 404 passes through and leaves whatever row there is.
PassNotFound(r) ==
  /\ At(r, "replied")
  /\ work[r].reply.kind = "notFound"
  /\ Finish(r, Answer("NotFound", 0))
  /\ UNCHANGED <<storeVars, counters, world, throttled>>

\* The final 429, any other status, or HttpRequestException.
Unusable(r) ==
  /\ At(r, "replied")
  /\ \/ work[r].reply.kind \in {"failed", "transport"}
     \/ work[r].reply.kind = "throttled" /\ work[r].attempt >= MaxRetries

\* Defect: a transport failure does not reach the stale fallback.
StaleAfterStatusOnly(w) ==
  /\ w.cached # None
  /\ ServeStaleOnError
  /\ w.reply.kind # "transport"

MayServeStale(w) ==
  /\ w.cached # None
  /\ ServeStaleOnError
  /\ MaxStaleAge # None => w.now - w.cached.fetched <= MaxStaleAge

\* In HandleUpstreamResponse the final 429 is counted before the fallback.
CountFinal429(r) ==
  rateLimited' = rateLimited + (IF work[r].reply.kind = "throttled" THEN 1 ELSE 0)

ServeStale(r) ==
  /\ Unusable(r)
  /\ MayServeStale(work[r])
  /\ CountFinal429(r)
  /\ BumpHits(keyOf[r])
  /\ hits' = hits + 1
  /\ Finish(r, Answer("Stale", work[r].cached.body))
  /\ UNCHANGED <<newest, requests, world, throttled>>

ThrowUpstreamException(r) ==
  /\ Unusable(r)
  /\ ~MayServeStale(work[r])
  /\ CountFinal429(r)
  /\ Finish(r, Answer("UpstreamException", 0))
  /\ UNCHANGED <<storeVars, requests, hits, world, throttled>>

\* Defect: a timeout is sent again without counting the attempt.
TimeoutSentAgain(r) ==
  /\ At(r, "replied")
  /\ work[r].reply.kind = "timeout"
  /\ work' = [work EXCEPT ![r] = [@ EXCEPT !.stage = "sent", !.reply = NoReply]]
  /\ UNCHANGED <<flightVars, storeVars, counters, world, throttled>>

\* The catch clause names HttpRequestException only, so the client's timeout escapes.
TimeoutEscapes(r) ==
  /\ At(r, "replied")
  /\ work[r].reply.kind = "timeout"
  /\ Finish(r, Answer("TaskCanceled", 0))
  /\ UNCHANGED <<storeVars, counters, world, throttled>>

FreeFlight(r) ==
  /\ Flight!Free(r)
  /\ UNCHANGED <<work, storeVars, counters, world, throttled>>

-----------------------------------------------------------------------------
\* The rest of the world

\* SendAsync completes.  The provider answers 304 only to a conditional request
\* whose validators still match.
Reply(r, reply) ==
  /\ At(r, "sent")
  /\ reply.kind = "ok" => reply.body = remote[keyOf[r]]
  /\ reply.kind = "notModified" =>
       work[r].cached # None /\ work[r].cached.body = remote[keyOf[r]]
  /\ work' = [work EXCEPT ![r] = [@ EXCEPT !.stage = "replied", !.reply = reply]]
  /\ throttled' = throttled + (IF reply.kind = "throttled" THEN 1 ELSE 0)
  /\ UNCHANGED <<flightVars, storeVars, counters, world>>

Publish(k) ==
  /\ remote[k] < MaxVersion
  /\ remote' = [remote EXCEPT ![k] = @ + 1]
  /\ retiredAt' = [retiredAt EXCEPT ![k][remote[k]] = clock]
  /\ UNCHANGED <<flightVars, work, storeVars, counters, clock, throttled>>

Tick ==
  /\ clock < MaxClock
  /\ clock' = clock + 1
  /\ UNCHANGED <<flightVars, work, storeVars, counters, remote, retiredAt, throttled>>

\* POST /purge: every expired row goes, the ones executions have read included.
PurgeExpired ==
  /\ \E k \in Keys : store[k] # None /\ store[k].expires <= clock
  /\ store' = [k \in Keys |->
       IF store[k] # None /\ store[k].expires <= clock THEN None ELSE store[k]]
  /\ UNCHANGED <<flightVars, work, newest, counters, world, throttled>>

-----------------------------------------------------------------------------

Execute(r) ==
  \/ ReadRow(r)
  \/ ServeFresh(r)
  \/ Send(r)
  \/ RetryThrottled(r)
  \/ Revalidate(r)
  \/ StoreFetched(r)
  \/ PassNotFound(r)
  \/ ServeStale(r)
  \/ ThrowUpstreamException(r)
  \/ TimeoutEscapes(r)
  \/ FreeFlight(r)

Next ==
  \/ \E c \in Callers, k \in Keys : GetOrFetch(c, k)
  \/ \E c \in Callers : JoinFlight(c) \/ Answered(c)
  \/ \E c \in Callers, r \in Runs : StartFlight(c, r)
  \/ \E r \in Runs : Execute(r)
  \/ \E r \in Runs, reply \in Replies : Reply(r, reply)
  \/ \E k \in Keys : Publish(k)
  \/ Tick
  \/ PurgeExpired

Spec == Init /\ [][Next]_vars

(***************************************************************************)
(* Continuations are scheduled, a retry wait is capped at 30 s and every   *)
(* send ends within the HttpClient's 30 s timeout, with an answer or an    *)
(* exception.  New calls, publications, ticks and purges are not promised. *)
(***************************************************************************)
Fairness ==
  /\ \A c \in Callers :
       /\ WF_vars(JoinFlight(c) \/ \E r \in Runs : StartFlight(c, r))
       /\ WF_vars(Answered(c))
  /\ \A r \in Runs :
       /\ WF_vars(Execute(r))
       /\ WF_vars(\E reply \in Replies : Reply(r, reply))

FairSpec == Spec /\ Fairness

-----------------------------------------------------------------------------
\* Properties

\* r ends with an answer in this step.
Ends(r) == phase[r] = "working" /\ phase'[r] = "settled"

\* The provider still served v of k at time t or later.
CurrentAt(k, v, t) == remote[k] = v \/ retiredAt[k][v] >= t

\* The store never falls back to an older body than one it has held, whatever
\* replies were overtaken by publications, retries and purges: the fetches of a key
\* are ordered by the single flight (UpstreamCache.cs:65, 177, 189).
StoreHoldsNewestFetched ==
  \A k \in Keys : store[k] # None => store[k].body = newest[k]

\* Without failures the TTL bounds the age of what a call is served: a body from a
\* fresh row was still current less than Ttl before the execution read the clock,
\* and a fetched or revalidated one was current after it (UpstreamCache.cs:72-78,
\* 176, 186-188).
TtlBoundsAge ==
  [][\A r \in Runs : Ends(r) =>
       LET k == keyOf[r]
           v == outcome'[r].body
       IN
       /\ outcome'[r].source = "Cache" => CurrentAt(k, v, work[r].now - Ttl + 1)
       /\ outcome'[r].source \in {"Upstream", "Revalidated"}
            => CurrentAt(k, v, work[r].now)]_vars

\* Stale-if-error: as long as the store has a row for the key, a call does not fail
\* because of a provider's status or a transport failure, unless the policy forbids
\* stale answers or caps their age (UpstreamCache.cs:86-92, 207-208).
OutageServesStored ==
  [][\A r \in Runs :
       Ends(r) /\ outcome'[r].source = "UpstreamException"
         /\ ServeStaleOnError /\ MaxStaleAge = None
         => store[keyOf[r]] = None]_vars

\* Every 429 is counted once, retried or final: the counter is the number received,
\* less the ones still being looked at (UpstreamCache.cs:119-121, 202-203).
RateLimitedCountedOnce ==
  rateLimited + Cardinality({r \in Runs : work[r].reply.kind = "throttled"}) = throttled

\* The hit rate of /metrics is a rate: a hit is some call's, and no call is two
\* (CacheModels.cs:72-78).
HitsWithinRequests ==
  hits + Cardinality({r \in Runs : phase[r] = "working"}) <= requests

\* Every call ends, even when the provider throttles every attempt.
EveryCallAnswered == \A c \in Callers : pc[c] # "out" ~> pc[c] = "out"

\* What the cache holds, serves and counts agrees with what the provider served: bodies
\* never go back, no answer without a failure is older than the TTL, and the counters
\* are those of the calls.
CacheTruthful ==
  /\ [](TypeOK /\ StoreHoldsNewestFetched /\ RateLimitedCountedOnce /\ HitsWithinRequests)
  /\ TtlBoundsAge

=============================================================================
