------------------------- MODULE UpstreamCacheProofs -------------------------
(***************************************************************************)
(* Theorems about UpstreamCache.tla: the bodies it stores never go back,   *)
(* what it serves without a failure is no older than the TTL, an outage is *)
(* bridged by what is stored, and its counters are those of the calls; for *)
(* any callers, keys, policy and interleaving of the executions.           *)
(***************************************************************************)
EXTENDS UpstreamCache, FiniteSetTheorems, TLAPS

\* The executions under way and the calls that have none yet: each may still be a hit.
Working == {r \in Runs : phase[r] = "working"}
Calling == {c \in Callers : pc[c] = "calling"}
Busy == Cardinality(Working) + Cardinality(Calling)
Throttled == {r \in Runs : work[r].reply.kind = "throttled"}

FlightTyped ==
  /\ pc \in [Callers -> {"out", "calling", "waiting"}]
  /\ want \in [Callers -> Keys \cup {None}]
  /\ held \in [Callers -> Runs \cup {None}]
  /\ slot \in [Keys -> Runs \cup {None}]
  /\ phase \in [Runs -> Flight!Phases]
  /\ keyOf \in [Runs -> Keys \cup {None}]
  /\ outcome \in [Runs -> Response \cup {None}]

\* A task that has not freed its slot is the one of its key.
FlightOK ==
  /\ \A c \in Callers : pc[c] = "calling" => want[c] \in Keys
  /\ \A r \in Runs : phase[r] \in {"working", "settled"}
       => keyOf[r] \in Keys /\ slot[keyOf[r]] = r

\* A row holds the newest body stored, which was current when the row says.
RowOK(k, row) ==
  /\ row.body = newest[k]
  /\ row.expires = row.fetched + Ttl
  /\ row.fetched <= clock
  /\ CurrentAt(k, row.body, row.fetched)

StoreOK ==
  \A k \in Keys : newest[k] <= remote[k] /\ (store[k] # None => RowOK(k, store[k]))

\* What an execution of k has read and been answered still fits the store: only it writes
\* the row of k, and a purge only takes the row away.
Local(k, w) ==
  /\ w.now <= clock
  /\ w.cached = None => store[k] = None
  /\ w.cached # None => RowOK(k, w.cached)
  /\ w.reply.kind = "ok" =>
       newest[k] <= w.reply.body /\ w.reply.body <= remote[k] /\ CurrentAt(k, w.reply.body, w.now)
  /\ w.reply.kind = "notModified" => w.cached # None /\ CurrentAt(k, w.cached.body, w.now)

WorkOK ==
  \A r \in Runs :
    /\ phase[r] # "working" => work[r].stage = "none"
    /\ work[r].stage = "none" => work[r].cached = None
    /\ work[r].stage # "replied" => work[r].reply.kind = "none"
    /\ work[r].stage # "none" => Local(keyOf[r], work[r])

\* Whatever counts hits has room for those that the calls under way may become.
CountsOK ==
  /\ hits + Busy <= requests
  /\ \A k \in Keys : store[k] # None => store[k].hits + Busy <= requests
  /\ \A r \in Runs : work[r].cached # None => work[r].cached.hits + Busy <= requests

IInv == TypeOK /\ FlightOK /\ StoreOK /\ WorkOK /\ CountsOK /\ RateLimitedCountedOnce

-----------------------------------------------------------------------------
\* Operators of the model

\* The constants, and what an execution that has read nothing has.
LEMMA Facts ==
  /\ Ttl \in Nat /\ MaxRetries \in Nat /\ MaxVersion \in Nat \ {0} /\ MaxClock \in Nat
  /\ MaxRequests \in Nat /\ Time \subseteq Nat /\ Versions \subseteq Nat /\ 0 \in Time
  /\ None \notin Runs /\ None \notin Row
  /\ NoWork \in Work /\ NoWork.stage = "none" /\ NoWork.cached = None
  /\ NoWork.reply.kind = "none" /\ NoWork.reply \in {NoReply}
  <1>1. /\ Ttl \in Nat /\ MaxRetries \in Nat /\ MaxVersion \in Nat \ {0} /\ MaxClock \in Nat
        /\ MaxRequests \in Nat /\ None \notin Runs /\ None \notin Row
    BY PolicyAssumption, BoundsAssumption, FlightAssumption
  <1>2. Time \subseteq Nat /\ Versions \subseteq Nat /\ 0 \in Time
    BY <1>1 DEF Time, Versions
  <1>3. NoWork \in Work
    BY <1>1, <1>2 DEF NoWork, Work, NoReply
  <1> QED BY <1>1, <1>2, <1>3 DEF NoWork, NoReply

\* A reply has one of these kinds, and a body when it brings one.
LEMMA ReplyTyped ==
  ASSUME NEW reply \in Replies \cup {NoReply}
  PROVE /\ reply.kind \in {"none", "ok", "notModified", "notFound", "throttled", "failed",
                           "transport", "timeout"}
        /\ reply.kind = "ok" => reply.body \in Versions
  BY DEF Replies, NoReply

\* The types of the flight are those of the whole.
LEMMA FlightTypes == TypeOK => FlightTyped
  BY DEF TypeOK, FlightTyped

\* At most one execution of a key is under way.
LEMMA OneWorking ==
  ASSUME FlightOK, NEW r \in Runs, NEW s \in Runs, phase[r] = "working", phase[s] = "working",
         keyOf[r] = keyOf[s]
  PROVE r = s
  BY DEF FlightOK

\* What is counted is finite.
LEMMA Cards ==
  /\ IsFiniteSet(Working) /\ IsFiniteSet(Calling) /\ IsFiniteSet(Throttled)
  /\ Cardinality(Working) \in Nat /\ Cardinality(Calling) \in Nat
  /\ Cardinality(Throttled) \in Nat /\ Busy \in Nat
  <1>1. Working \in SUBSET Runs /\ Calling \in SUBSET Callers /\ Throttled \in SUBSET Runs
    BY DEF Working, Calling, Throttled
  <1>2. IsFiniteSet(Working) /\ IsFiniteSet(Calling) /\ IsFiniteSet(Throttled)
    BY <1>1, FlightAssumption, FS_Subset
  <1>3. /\ Cardinality(Working) \in Nat /\ Cardinality(Calling) \in Nat
        /\ Cardinality(Throttled) \in Nat
    BY <1>2, FS_CardinalityType
  <1> QED BY <1>2, <1>3 DEF Busy

\* An execution that ends is busy no more.
LEMMA BusyEnds ==
  ASSUME FlightTyped, NEW r \in Runs, phase[r] = "working",
         phase' = [phase EXCEPT ![r] = "settled"], pc' = pc
  PROVE Busy \in Nat /\ Busy' \in Nat /\ Busy' = Busy - 1
  <1>1. Working' = Working \ {r} /\ Calling' = Calling /\ r \in Working
    BY DEF Working, Calling, FlightTyped
  <1>2. /\ Cardinality(Working \ {r}) = Cardinality(Working) - 1
        /\ Cardinality(Working \ {r}) \in Nat
    BY <1>1, Cards, FS_RemoveElement, FS_CardinalityType
  <1> QED BY <1>1, <1>2, Cards DEF Busy

\* The replies of status 429 still to be looked at, when one execution goes on.
LEMMA ThrottledStep ==
  ASSUME TypeOK, NEW r \in Runs, NEW w \in Work, work' = [work EXCEPT ![r] = w]
  PROVE Cardinality(Throttled') = Cardinality(Throttled)
          - (IF work[r].reply.kind = "throttled" THEN 1 ELSE 0)
          + (IF w.reply.kind = "throttled" THEN 1 ELSE 0)
  <1>1. work'[r] = w /\ \A s \in Runs : s # r => work'[s] = work[s]
    BY DEF TypeOK
  <1>2. CASE w.reply.kind = "throttled"
    <2>1. Throttled' = Throttled \cup {r}
      BY <1>1, <1>2 DEF Throttled
    <2>2. r \in Throttled <=> work[r].reply.kind = "throttled"
      BY DEF Throttled
    <2>3. Cardinality(Throttled \cup {r})
            = IF r \in Throttled THEN Cardinality(Throttled) ELSE Cardinality(Throttled) + 1
      BY Cards, FS_AddElement
    <2> QED BY <2>1, <2>2, <2>3, <1>2, Cards
  <1>3. CASE w.reply.kind # "throttled"
    <2>1. Throttled' = Throttled \ {r}
      BY <1>1, <1>3 DEF Throttled
    <2>2. r \in Throttled <=> work[r].reply.kind = "throttled"
      BY DEF Throttled
    <2>3. Cardinality(Throttled \ {r})
            = IF r \in Throttled THEN Cardinality(Throttled) - 1 ELSE Cardinality(Throttled)
      BY Cards, FS_RemoveElement
    <2> QED BY <2>1, <2>2, <2>3, <1>3, Cards
  <1> QED BY <1>2, <1>3

\* A row that gets one more hit is still that row.
LEMMA BumpedTyped ==
  ASSUME NEW row \in Row, row.hits + 1 <= 2 * MaxRequests
  PROVE /\ Bumped(row) \in Row /\ Bumped(row).body = row.body
        /\ Bumped(row).fetched = row.fetched /\ Bumped(row).expires = row.expires
        /\ Bumped(row).hits = row.hits + 1
  BY Facts DEF Bumped, Row

-----------------------------------------------------------------------------
\* Steps of one execution

\* An execution that goes on by itself: its locals still fit the store, and the rest stays.
LEMMA LocalStep ==
  ASSUME IInv, NEW r \in Runs, NEW w \in Work, phase[r] = "working",
         work' = [work EXCEPT ![r] = w],
         UNCHANGED <<flightVars, storeVars, world, requests, hits>>,
         w.stage # "none", w.stage # "replied" => w.reply.kind = "none",
         Local(keyOf[r], w), w.cached # None => w.cached.hits + Busy <= requests,
         rateLimited' \in Nat, throttled' \in Nat, RateLimitedCountedOnce'
  PROVE IInv'
  <1>1. work'[r] = w /\ \A s \in Runs : s # r => work'[s] = work[s]
    BY DEF IInv, TypeOK
  <1>2. TypeOK'
    <2>1. work' \in [Runs -> Work]
      BY DEF IInv, TypeOK
    <2> QED BY <2>1 DEF IInv, TypeOK, flightVars, storeVars, world
  <1>3. FlightOK' /\ StoreOK' /\ Busy' = Busy
    BY DEF IInv, FlightOK, StoreOK, RowOK, CurrentAt, Busy, Working, Calling, flightVars,
           storeVars, world
  <1>4. WorkOK'
    <2> SUFFICES ASSUME NEW s \in Runs
                 PROVE /\ phase[s] # "working" => work'[s].stage = "none"
                       /\ work'[s].stage = "none" => work'[s].cached = None
                       /\ work'[s].stage # "replied" => work'[s].reply.kind = "none"
                       /\ work'[s].stage # "none" => Local(keyOf[s], work'[s])
      BY DEF WorkOK, Local, RowOK, CurrentAt, flightVars, storeVars, world
    <2> QED BY <1>1 DEF IInv, WorkOK
  <1>5. CountsOK'
    BY <1>1, <1>3 DEF IInv, CountsOK, storeVars
  <1> QED BY <1>2, <1>3, <1>4, <1>5 DEF IInv

\* A call that ends may have been a hit: the room it takes is the one it leaves.
LEMMA HitSpent ==
  \A h, b, q \in Nat : h + b <= q => \A g \in {h, h + 1} : g + (b - 1) <= q
  OBVIOUS

\* An execution that ends: it alone writes the row of its key.
LEMMA FinishStep ==
  ASSUME IInv, NEW r \in Runs, NEW o \in Response, Finish(r, o),
         UNCHANGED <<world, requests, throttled>>,
         NEW x \in Row \cup {None}, store' = [store EXCEPT ![keyOf[r]] = x],
         NEW n \in 0..MaxVersion, newest' = [newest EXCEPT ![keyOf[r]] = n],
         n <= remote[keyOf[r]],
         x # None => /\ x.body = n /\ x.expires = x.fetched + Ttl /\ x.fetched <= clock
                     /\ CurrentAt(keyOf[r], x.body, x.fetched)
                     /\ x.hits + Busy <= requests + 1,
         hits' \in {hits, hits + 1},
         rateLimited' = rateLimited + (IF work[r].reply.kind = "throttled" THEN 1 ELSE 0)
  PROVE IInv'
  <1> DEFINE k == keyOf[r]
  <1>1. /\ phase[r] = "working" /\ phase' = [phase EXCEPT ![r] = "settled"]
        /\ outcome' = [outcome EXCEPT ![r] = o] /\ UNCHANGED <<pc, want, held, slot, keyOf>>
        /\ work' = [work EXCEPT ![r] = NoWork]
    BY DEF Finish, Flight!Settle
  <1>2. /\ phase'[r] = "settled" /\ \A s \in Runs : s # r => phase'[s] = phase[s]
        /\ work'[r] = NoWork /\ \A s \in Runs : s # r => work'[s] = work[s]
        /\ k \in Keys
    BY <1>1 DEF IInv, TypeOK, FlightOK
  <1>3. /\ store'[k] = x /\ \A j \in Keys : j # k => store'[j] = store[j]
        /\ newest'[k] = n /\ \A j \in Keys : j # k => newest'[j] = newest[j]
    BY <1>2 DEF IInv, TypeOK
  <1>4. Busy' = Busy - 1 /\ Busy \in Nat /\ Busy' \in Nat
    BY <1>1, BusyEnds, FlightTypes, Cards DEF IInv
  <1>5. TypeOK'
    <2>1. phase' \in [Runs -> Flight!Phases] /\ outcome' \in [Runs -> Response \cup {None}]
      BY <1>1 DEF IInv, TypeOK, Flight!Phases
    <2>2. work' \in [Runs -> Work]
      BY <1>1, Facts DEF IInv, TypeOK
    <2>3. store' \in [Keys -> Row \cup {None}] /\ newest' \in [Keys -> 0..MaxVersion]
      BY DEF IInv, TypeOK
    <2>4. hits' \in Nat /\ rateLimited' \in Nat
      BY DEF IInv, TypeOK
    <2> QED BY <1>1, <2>1, <2>2, <2>3, <2>4 DEF IInv, TypeOK, world
  <1>6. FlightOK'
    BY <1>1, <1>2 DEF IInv, FlightOK
  <1>7. StoreOK'
    <2> SUFFICES ASSUME NEW j \in Keys
                 PROVE /\ newest'[j] <= remote[j]
                       /\ store'[j] # None => RowOK(j, store[j])' 
      BY DEF StoreOK, world
    <2>1. CASE j = k
      BY <1>3, <2>1 DEF RowOK, CurrentAt, world
    <2>2. CASE j # k
      BY <1>3, <2>2 DEF IInv, StoreOK, RowOK, CurrentAt, world
    <2> QED BY <2>1, <2>2
  <1>8. WorkOK'
    <2> SUFFICES ASSUME NEW s \in Runs
                 PROVE /\ phase'[s] # "working" => work'[s].stage = "none"
                       /\ work'[s].stage = "none" => work'[s].cached = None
                       /\ work'[s].stage # "replied" => work'[s].reply.kind = "none"
                       /\ work'[s].stage # "none" => Local(keyOf[s], work[s])'
      BY DEF WorkOK
    <2>1. CASE s = r
      BY <1>2, <2>1, Facts
    <2>2. CASE s # r
      <3>1. /\ phase[s] # "working" => work[s].stage = "none"
            /\ work[s].stage = "none" => work[s].cached = None
            /\ work[s].stage # "replied" => work[s].reply.kind = "none"
            /\ work[s].stage # "none" => Local(keyOf[s], work[s])
        BY DEF IInv, WorkOK
      <3>2. ASSUME work[s].stage # "none" PROVE Local(keyOf[s], work[s])'
        <4>1. phase[s] = "working" /\ keyOf[s] \in Keys /\ keyOf[s] # k
          BY <1>1, <2>2, <3>1, <3>2, OneWorking DEF IInv, FlightOK
        <4>2. store'[keyOf[s]] = store[keyOf[s]] /\ newest'[keyOf[s]] = newest[keyOf[s]]
          BY <1>3, <4>1
        <4>3. keyOf'[s] = keyOf[s] /\ work'[s] = work[s]
          BY <1>1, <1>2, <2>2
        <4> QED BY <3>1, <3>2, <4>2, <4>3 DEF Local, RowOK, CurrentAt, world
      <3> QED BY <1>2, <2>2, <3>1, <3>2
    <2> QED BY <2>1, <2>2
  <1>9. CountsOK'
    <2>1. hits \in Nat /\ requests \in Nat
      BY Facts DEF IInv, TypeOK
    <2>2. hits' + Busy' <= requests'
      <3>1. hits + Busy <= requests /\ requests' = requests
        BY DEF IInv, CountsOK
      <3>2. hits' + (Busy - 1) <= requests
        BY <1>4, <2>1, <3>1, HitSpent
      <3> QED BY <1>4, <3>1, <3>2
    <2>3. ASSUME NEW j \in Keys, store'[j] # None PROVE store'[j].hits + Busy' <= requests'
      <3>1. store'[j] \in Row /\ store'[j].hits \in Int
        BY <1>5, <2>3, Facts DEF TypeOK, Row
      <3>2. CASE j = k
        BY <1>3, <1>4, <2>1, <2>3, <3>1, <3>2
      <3>3. CASE j # k
        BY <1>3, <1>4, <2>1, <2>3, <3>1, <3>3 DEF IInv, CountsOK
      <3> QED BY <3>2, <3>3
    <2>4. ASSUME NEW s \in Runs, work'[s].cached # None
          PROVE work'[s].cached.hits + Busy' <= requests'
      <3>1. s # r /\ work'[s] = work[s]
        BY <1>2, <2>4, Facts
      <3>2. work[s].cached \in Row /\ work[s].cached.hits \in Int
        BY <2>4, <3>1, Facts DEF IInv, TypeOK, Work, Row
      <3> QED BY <1>4, <2>1, <2>4, <3>1, <3>2 DEF IInv, CountsOK
    <2> QED BY <2>2, <2>3, <2>4 DEF CountsOK
  <1>10. RateLimitedCountedOnce'
    <2>1. NoWork \in Work /\ NoWork.reply.kind = "none"
      BY Facts
    <2>2. Cardinality(Throttled') = Cardinality(Throttled)
            - (IF work[r].reply.kind = "throttled" THEN 1 ELSE 0)
      <3>1. Cardinality(Throttled') = Cardinality(Throttled)
              - (IF work[r].reply.kind = "throttled" THEN 1 ELSE 0)
              + (IF NoWork.reply.kind = "throttled" THEN 1 ELSE 0)
        BY <1>1, <2>1, ThrottledStep DEF IInv
      <3>2. (IF NoWork.reply.kind = "throttled" THEN 1 ELSE 0) = 0
        BY <2>1
      <3>3. (IF work[r].reply.kind = "throttled" THEN 1 ELSE 0) \in {0, 1}
        OBVIOUS
      <3> QED BY <3>1, <3>2, <3>3, Cards
    <2>3. rateLimited + Cardinality(Throttled) = throttled
      BY DEF IInv, RateLimitedCountedOnce, Throttled
    <2>4. rateLimited' + Cardinality(Throttled') = throttled'
      BY <2>2, <2>3, Cards DEF IInv, TypeOK
    <2> QED BY <2>4 DEF RateLimitedCountedOnce, Throttled
  <1> QED BY <1>5, <1>6, <1>7, <1>8, <1>9, <1>10 DEF IInv

-----------------------------------------------------------------------------
\* The caller's side

\* A step of the flight between calls and tasks leaves the cache alone, and what becomes
\* busy was counted as a request.
LEMMA FlightStep ==
  ASSUME IInv, UNCHANGED <<work, storeVars, hits, rateLimited, world, throttled>>,
         requests' \in 0..MaxRequests, FlightTyped', FlightOK',
         \A r \in Runs : phase[r] = "working" => phase'[r] = "working" /\ keyOf'[r] = keyOf[r],
         Busy' \in Nat, Busy' + requests <= Busy + requests'
  PROVE IInv'
  <1>1. TypeOK'
    BY DEF IInv, TypeOK, FlightTyped, storeVars, world
  <1>2. StoreOK'
    BY DEF IInv, StoreOK, RowOK, CurrentAt, storeVars, world
  <1>3. WorkOK'
    <2> SUFFICES ASSUME NEW r \in Runs
                 PROVE /\ phase'[r] # "working" => work[r].stage = "none"
                       /\ work[r].stage = "none" => work[r].cached = None
                       /\ work[r].stage # "replied" => work[r].reply.kind = "none"
                       /\ work[r].stage # "none" => Local(keyOf[r], work[r])'
      BY DEF WorkOK
    <2>1. /\ phase[r] # "working" => work[r].stage = "none"
          /\ work[r].stage = "none" => work[r].cached = None
          /\ work[r].stage # "replied" => work[r].reply.kind = "none"
          /\ work[r].stage # "none" => Local(keyOf[r], work[r])
      BY DEF IInv, WorkOK
    <2>2. ASSUME work[r].stage # "none" PROVE Local(keyOf[r], work[r])'
      <3>1. keyOf'[r] = keyOf[r]
        BY <2>1, <2>2
      <3> QED BY <2>1, <2>2, <3>1 DEF Local, RowOK, CurrentAt, storeVars, world
    <2> QED BY <2>1, <2>2
  <1>4. CountsOK'
    <2>1. hits \in Nat /\ requests \in Nat /\ requests' \in Nat /\ Busy \in Nat
      BY Facts, Cards DEF IInv, TypeOK
    <2>2. \A k \in Keys : store[k] # None => store[k].hits \in Int
      BY Facts DEF IInv, TypeOK, Row
    <2>3. \A r \in Runs : work[r].cached # None => work[r].cached.hits \in Int
      BY Facts DEF IInv, TypeOK, Work, Row
    <2> QED BY <2>1, <2>2, <2>3 DEF IInv, CountsOK, storeVars
  <1>5. RateLimitedCountedOnce'
    BY DEF IInv, RateLimitedCountedOnce
  <1> QED BY <1>1, <1>2, <1>3, <1>4, <1>5 DEF IInv

\* A call is counted as a request when it arrives.
LEMMA GetOrFetchStep ==
  ASSUME IInv, NEW c \in Callers, NEW k \in Keys, GetOrFetch(c, k)
  PROVE IInv'
  <1>1. /\ pc[c] = "out" /\ pc' = [pc EXCEPT ![c] = "calling"] /\ want' = [want EXCEPT ![c] = k]
        /\ UNCHANGED <<held, slot, phase, keyOf, outcome>>
        /\ requests' = requests + 1 /\ requests < MaxRequests
        /\ UNCHANGED <<work, storeVars, hits, rateLimited, world, throttled>>
    BY DEF GetOrFetch, Flight!Arrive
  <1>2. FlightTyped' /\ FlightOK'
    BY <1>1 DEF IInv, TypeOK, FlightTyped, FlightOK
  <1>3. Working' = Working /\ Calling' = Calling \cup {c} /\ c \notin Calling
    BY <1>1 DEF IInv, TypeOK, Working, Calling
  <1>4. Cardinality(Calling \cup {c}) = Cardinality(Calling) + 1
    BY <1>3, Cards, FS_AddElement
  <1>5. Busy' = Busy + 1 /\ Busy \in Nat
    BY <1>3, <1>4, Cards DEF Busy
  <1>6. requests' \in 0..MaxRequests /\ requests \in Nat
    BY <1>1, Facts DEF IInv, TypeOK
  <1> QED BY <1>1, <1>2, <1>5, <1>6, FlightStep

\* A call that joins an execution is busy no more by itself.
LEMMA JoinStep ==
  ASSUME IInv, NEW c \in Callers, JoinFlight(c)
  PROVE IInv'
  <1>1. /\ pc[c] = "calling" /\ slot[want[c]] # None /\ pc' = [pc EXCEPT ![c] = "waiting"]
        /\ held' = [held EXCEPT ![c] = slot[want[c]]]
        /\ UNCHANGED <<want, slot, phase, keyOf, outcome>>
        /\ UNCHANGED <<work, storeVars, counters, world, throttled>>
    BY DEF JoinFlight, Flight!Join
  <1>2. slot[want[c]] \in Runs
    BY <1>1 DEF IInv, TypeOK, FlightOK
  <1>3. FlightTyped' /\ FlightOK'
    BY <1>1, <1>2 DEF IInv, TypeOK, FlightTyped, FlightOK
  <1>4. Working' = Working /\ Calling' = Calling \ {c} /\ c \in Calling
    BY <1>1 DEF IInv, TypeOK, Working, Calling
  <1>5. Cardinality(Calling \ {c}) = Cardinality(Calling) - 1 /\ Cardinality(Calling \ {c}) \in Nat
    BY <1>4, Cards, FS_RemoveElement, FS_CardinalityType
  <1>6. Busy' = Busy - 1 /\ Busy \in Nat /\ Busy' \in Nat
    BY <1>4, <1>5, Cards DEF Busy
  <1>7. requests' \in 0..MaxRequests /\ requests \in Nat /\ requests' = requests
    BY <1>1, Facts DEF IInv, TypeOK, counters
  <1> QED BY <1>1, <1>3, <1>6, <1>7, FlightStep DEF counters

\* A call that starts an execution is replaced by it.
LEMMA StartStep ==
  ASSUME IInv, NEW c \in Callers, NEW r \in Runs, StartFlight(c, r)
  PROVE IInv'
  <1>1. /\ pc[c] = "calling" /\ slot[want[c]] = None /\ phase[r] \in {"unused", "removed"}
        /\ slot' = [slot EXCEPT ![want[c]] = r] /\ phase' = [phase EXCEPT ![r] = "working"]
        /\ keyOf' = [keyOf EXCEPT ![r] = want[c]] /\ outcome' = [outcome EXCEPT ![r] = None]
        /\ held' = [held EXCEPT ![c] = r] /\ pc' = [pc EXCEPT ![c] = "waiting"] /\ want' = want
        /\ UNCHANGED <<work, storeVars, counters, world, throttled>>
    BY DEF StartFlight, Flight!Start, Flight!Fresh
  <1>2. want[c] \in Keys
    BY <1>1 DEF IInv, FlightOK
  <1>3. FlightTyped'
    BY <1>1, <1>2 DEF IInv, TypeOK, FlightTyped, Flight!Phases
  <1>4. FlightOK'
    <2>1. \A d \in Callers : pc'[d] = "calling" => want'[d] \in Keys
      BY <1>1 DEF IInv, TypeOK, FlightOK
    <2>2. ASSUME NEW s \in Runs, phase'[s] \in {"working", "settled"}
          PROVE keyOf'[s] \in Keys /\ slot'[keyOf'[s]] = s
      <3>1. CASE s = r
        BY <1>1, <1>2, <3>1 DEF IInv, TypeOK
      <3>2. CASE s # r
        <4>1. phase[s] \in {"working", "settled"} /\ keyOf'[s] = keyOf[s]
          BY <1>1, <2>2, <3>2 DEF IInv, TypeOK
        <4>2. keyOf[s] \in Keys /\ slot[keyOf[s]] = s /\ s # None
          BY <4>1, Facts DEF IInv, FlightOK
        <4>3. keyOf[s] # want[c]
          BY <1>1, <4>2
        <4> QED BY <1>1, <4>1, <4>2, <4>3 DEF IInv, TypeOK
      <3> QED BY <3>1, <3>2
    <2> QED BY <2>1, <2>2 DEF FlightOK
  <1>5. /\ Working' = Working \cup {r} /\ r \notin Working
        /\ Calling' = Calling \ {c} /\ c \in Calling
    BY <1>1 DEF IInv, TypeOK, Working, Calling
  <1>6. Cardinality(Calling \ {c}) = Cardinality(Calling) - 1
    BY <1>5, Cards, FS_RemoveElement
  <1>7. Cardinality(Working \cup {r}) = Cardinality(Working) + 1
    BY <1>5, Cards, FS_AddElement
  <1>8. Busy' = Busy /\ Busy \in Nat
    BY <1>5, <1>6, <1>7, Cards DEF Busy
  <1>9. requests' \in 0..MaxRequests /\ requests \in Nat /\ requests' = requests
    BY <1>1, Facts DEF IInv, TypeOK, counters
  <1>10. \A s \in Runs : phase[s] = "working" => phase'[s] = "working" /\ keyOf'[s] = keyOf[s]
    BY <1>1 DEF IInv, TypeOK
  <1> QED BY <1>1, <1>3, <1>4, <1>8, <1>9, <1>10, FlightStep DEF counters

\* A call that is answered leaves its task.
LEMMA AnsweredStep ==
  ASSUME IInv, NEW c \in Callers, Answered(c)
  PROVE IInv'
  <1>1. /\ pc[c] = "waiting" /\ pc' = [pc EXCEPT ![c] = "out"]
        /\ held' = [held EXCEPT ![c] = None] /\ want' = [want EXCEPT ![c] = None]
        /\ UNCHANGED <<slot, phase, keyOf, outcome>>
        /\ UNCHANGED <<work, storeVars, counters, world, throttled>>
    BY DEF Answered, Flight!Return
  <1>2. FlightTyped' /\ FlightOK'
    BY <1>1 DEF IInv, TypeOK, FlightTyped, FlightOK
  <1>3. Working' = Working /\ Calling' = Calling
    BY <1>1 DEF IInv, TypeOK, Working, Calling
  <1>4. Busy' = Busy /\ Busy \in Nat
    BY <1>3, Cards DEF Busy
  <1>5. requests' \in 0..MaxRequests /\ requests \in Nat /\ requests' = requests
    BY <1>1, Facts DEF IInv, TypeOK, counters
  <1> QED BY <1>1, <1>2, <1>4, <1>5, FlightStep DEF counters

\* A task that has settled frees the slot of its key.
LEMMA FreeStep ==
  ASSUME IInv, NEW r \in Runs, FreeFlight(r)
  PROVE IInv'
  <1>1. /\ phase[r] = "settled" /\ slot[keyOf[r]] = r
        /\ phase' = [phase EXCEPT ![r] = "removed"] /\ slot' = [slot EXCEPT ![keyOf[r]] = None]
        /\ UNCHANGED <<pc, want, held, keyOf, outcome>>
        /\ UNCHANGED <<work, storeVars, counters, world, throttled>>
    BY DEF FreeFlight, Flight!Free
  <1>2. FlightTyped'
    BY <1>1 DEF IInv, TypeOK, FlightTyped, Flight!Phases
  <1>3. FlightOK'
    <2>1. ASSUME NEW s \in Runs, phase'[s] \in {"working", "settled"}
          PROVE keyOf[s] \in Keys /\ slot'[keyOf[s]] = s
      <3>1. s # r /\ phase[s] \in {"working", "settled"}
        BY <1>1, <2>1 DEF IInv, TypeOK
      <3>2. keyOf[s] \in Keys /\ slot[keyOf[s]] = s
        BY <3>1 DEF IInv, FlightOK
      <3> QED BY <1>1, <3>1, <3>2 DEF IInv, TypeOK
    <2> QED BY <1>1, <2>1 DEF IInv, FlightOK
  <1>4. Working' = Working /\ Calling' = Calling
    BY <1>1 DEF IInv, TypeOK, Working, Calling
  <1>5. Busy' = Busy /\ Busy \in Nat
    BY <1>4, Cards DEF Busy
  <1>6. requests' \in 0..MaxRequests /\ requests \in Nat /\ requests' = requests
    BY <1>1, Facts DEF IInv, TypeOK, counters
  <1>7. \A s \in Runs : phase[s] = "working" => phase'[s] = "working"
    BY <1>1 DEF IInv, TypeOK
  <1> QED BY <1>1, <1>2, <1>3, <1>5, <1>6, <1>7, FlightStep DEF counters

-----------------------------------------------------------------------------
\* An execution goes on

\* What the invariant says of an execution under way.
LEMMA UnderWay ==
  ASSUME IInv, NEW r \in Runs, work[r].stage # "none"
  PROVE /\ phase[r] = "working" /\ keyOf[r] \in Keys /\ work[r] \in Work
        /\ Local(keyOf[r], work[r])
        /\ work[r].stage # "replied" => work[r].reply.kind = "none"
        /\ work[r].cached \in Row \cup {None} /\ work[r].now \in Time
        /\ work[r].reply \in Replies \cup {NoReply}
        /\ work[r].cached # None => work[r].cached.hits + Busy <= requests
  <1>1. phase[r] = "working" /\ keyOf[r] \in Keys /\ work[r] \in Work
    BY DEF IInv, WorkOK, FlightOK, TypeOK
  <1>2. /\ work[r].cached \in Row \cup {None} /\ work[r].now \in Time
        /\ work[r].reply \in Replies \cup {NoReply}
    BY <1>1 DEF Work
  <1> QED BY <1>1, <1>2 DEF IInv, WorkOK, CountsOK

\* The row and the clock are read: the row is what the store holds now.
LEMMA ReadRowStep ==
  ASSUME IInv, NEW r \in Runs, ReadRow(r)
  PROVE IInv'
  <1> DEFINE k == keyOf[r]
             v == [NoWork EXCEPT !.stage = "read", !.cached = store[k]]
             w == [v EXCEPT !.now = clock]
  <1>1. /\ phase[r] = "working" /\ UNCHANGED <<flightVars, storeVars, counters, world, throttled>>
        /\ work' = [work EXCEPT ![r] = [NoWork EXCEPT !.stage = "read", !.cached = store[k],
                                                      !.now = clock]]
        /\ work[r].stage = "none"
    BY DEF ReadRow, At
  <1>2. k \in Keys /\ store[k] \in Row \cup {None} /\ clock \in Time
    BY <1>1 DEF IInv, FlightOK, TypeOK
  <1>3. v \in Work /\ v.stage = "read" /\ v.cached = store[k] /\ v.reply = NoReply
    BY <1>2, Facts DEF Work, NoWork
  <1>4. /\ w \in Work /\ w.stage = "read" /\ w.cached = store[k] /\ w.reply = NoReply
        /\ w.now = clock
    BY <1>2, <1>3 DEF Work
  <1>5. work' = [work EXCEPT ![r] = w]
    BY <1>1 DEF NoWork
  <1>6. w.reply.kind = "none"
    BY <1>4 DEF NoReply
  <1>7. clock \in Nat
    BY <1>2, Facts
  <1>8. Local(k, w)
    BY <1>2, <1>4, <1>6, <1>7 DEF Local, IInv, StoreOK
  <1>9. w.cached # None => w.cached.hits + Busy <= requests
    BY <1>2, <1>4 DEF IInv, CountsOK
  <1>10. RateLimitedCountedOnce' /\ rateLimited' \in Nat /\ throttled' \in Nat
    <2>1. work[r].reply.kind = "none"
      BY <1>1 DEF IInv, WorkOK
    <2>2. work'[r] = w /\ \A s \in Runs : s # r => work'[s] = work[s]
      BY <1>5 DEF IInv, TypeOK
    <2>3. Throttled' = Throttled
      BY <1>6, <2>1, <2>2 DEF Throttled
    <2> QED BY <1>1, <2>3 DEF IInv, TypeOK, RateLimitedCountedOnce, Throttled, counters
  <1> HIDE DEF v, w
  <1> QED BY <1>1, <1>4, <1>5, <1>6, <1>8, <1>9, <1>10, LocalStep DEF counters

\* The request is sent: nothing else of the execution changes.
LEMMA SendStep ==
  ASSUME IInv, NEW r \in Runs, Send(r)
  PROVE IInv'
  <1> DEFINE w == [work[r] EXCEPT !.stage = "sent"]
  <1>1. /\ UNCHANGED <<flightVars, storeVars, counters, world, throttled>>
        /\ work' = [work EXCEPT ![r].stage = "sent"] /\ work[r].stage = "read"
    BY DEF Send, At
  <1>2. /\ phase[r] = "working" /\ work[r] \in Work /\ Local(keyOf[r], work[r])
        /\ work[r].reply.kind = "none"
        /\ work[r].cached # None => work[r].cached.hits + Busy <= requests
    BY <1>1, UnderWay
  <1>3. /\ w \in Work /\ w.stage = "sent" /\ w.cached = work[r].cached /\ w.now = work[r].now
        /\ w.reply = work[r].reply
    BY <1>2 DEF Work
  <1>4. work' = [work EXCEPT ![r] = w]
    BY <1>1
  <1>5. Local(keyOf[r], w)
    BY <1>2, <1>3 DEF Local
  <1>6. RateLimitedCountedOnce' /\ rateLimited' \in Nat /\ throttled' \in Nat
    <2>1. work'[r] = w /\ \A s \in Runs : s # r => work'[s] = work[s]
      BY <1>4 DEF IInv, TypeOK
    <2>2. Throttled' = Throttled
      BY <1>3, <2>1 DEF Throttled
    <2> QED BY <1>1, <2>2 DEF IInv, TypeOK, RateLimitedCountedOnce, Throttled, counters
  <1> HIDE DEF w
  <1> QED BY <1>1, <1>2, <1>3, <1>4, <1>5, <1>6, LocalStep DEF counters

\* A retry is counted when the request is sent again.
LEMMA RetryStep ==
  ASSUME IInv, NEW r \in Runs, RetryThrottled(r)
  PROVE IInv'
  <1> DEFINE v == [work[r] EXCEPT !.stage = "sent", !.attempt = work[r].attempt + 1]
             w == [v EXCEPT !.reply = NoReply]
  <1>1. /\ UNCHANGED <<flightVars, storeVars, requests, hits, world, throttled>>
        /\ work' = [work EXCEPT ![r] = [work[r] EXCEPT !.stage = "sent",
                                             !.attempt = work[r].attempt + 1, !.reply = NoReply]]
        /\ work[r].stage = "replied" /\ work[r].reply.kind = "throttled"
        /\ work[r].attempt < MaxRetries /\ rateLimited' = rateLimited + 1
    BY DEF RetryThrottled, At, IInv, TypeOK
  <1>2. /\ phase[r] = "working" /\ work[r] \in Work /\ Local(keyOf[r], work[r])
        /\ work[r].cached # None => work[r].cached.hits + Busy <= requests
    BY <1>1, UnderWay
  <1>3. work[r].attempt + 1 \in 0..MaxRetries
    BY <1>1, <1>2, Facts DEF Work
  <1>4. v \in Work /\ v.stage = "sent" /\ v.cached = work[r].cached /\ v.now = work[r].now
    BY <1>2, <1>3 DEF Work
  <1>5. /\ w \in Work /\ w.stage = "sent" /\ w.cached = work[r].cached /\ w.now = work[r].now
        /\ w.reply = NoReply
    BY <1>4 DEF Work
  <1>6. work' = [work EXCEPT ![r] = w]
    BY <1>1, <1>2 DEF Work
  <1>7. w.reply.kind = "none" /\ NoReply.kind = "none"
    BY <1>5 DEF NoReply
  <1>8. Local(keyOf[r], w)
    BY <1>2, <1>5, <1>7 DEF Local
  <1>9. RateLimitedCountedOnce' /\ rateLimited' \in Nat /\ throttled' \in Nat
    <2> HIDE DEF v, w
    <2>1. Cardinality(Throttled') = Cardinality(Throttled) - 1
      <3>1. Cardinality(Throttled') = Cardinality(Throttled)
              - (IF work[r].reply.kind = "throttled" THEN 1 ELSE 0)
              + (IF w.reply.kind = "throttled" THEN 1 ELSE 0)
        BY <1>5, <1>6, ThrottledStep DEF IInv
      <3>2. (IF w.reply.kind = "throttled" THEN 1 ELSE 0) = 0
        BY <1>7
      <3>3. (IF work[r].reply.kind = "throttled" THEN 1 ELSE 0) = 1
        BY <1>1
      <3> QED BY <3>1, <3>2, <3>3, Cards
    <2>2. rateLimited + Cardinality(Throttled) = throttled
      BY DEF IInv, RateLimitedCountedOnce, Throttled
    <2>3. rateLimited' + Cardinality(Throttled') = throttled'
      BY <1>1, <2>1, <2>2, Cards DEF IInv, TypeOK
    <2> QED BY <1>1, <2>3 DEF IInv, TypeOK, RateLimitedCountedOnce, Throttled
  <1> HIDE DEF v, w
  <1> QED BY <1>1, <1>2, <1>5, <1>6, <1>7, <1>8, <1>9, LocalStep

\* A reply arrives: a body is the one the provider serves, a 304 is about the row read.
LEMMA ReplyStep ==
  ASSUME IInv, NEW r \in Runs, NEW reply \in Replies, Reply(r, reply)
  PROVE IInv'
  <1> DEFINE w == [work[r] EXCEPT !.stage = "replied", !.reply = reply]
  <1>1. /\ UNCHANGED <<flightVars, storeVars, counters, world>>
        /\ work' = [work EXCEPT ![r] = [work[r] EXCEPT !.stage = "replied", !.reply = reply]]
        /\ work[r].stage = "sent" /\ phase[r] = "working"
        /\ reply.kind = "ok" => reply.body = remote[keyOf[r]]
        /\ reply.kind = "notModified" =>
             work[r].cached # None /\ work[r].cached.body = remote[keyOf[r]]
        /\ throttled' = throttled + (IF reply.kind = "throttled" THEN 1 ELSE 0)
    BY DEF Reply, At, IInv, TypeOK
  <1>2. /\ work[r] \in Work /\ Local(keyOf[r], work[r]) /\ keyOf[r] \in Keys
        /\ work[r].reply.kind = "none"
        /\ work[r].cached # None => work[r].cached.hits + Busy <= requests
    BY <1>1, UnderWay
  <1>3. /\ w \in Work /\ w.stage = "replied" /\ w.cached = work[r].cached
        /\ w.now = work[r].now /\ w.reply = reply
    BY <1>2 DEF Work
  <1>4. work' = [work EXCEPT ![r] = w]
    BY <1>1
  <1>5. Local(keyOf[r], w)
    <2>1. newest[keyOf[r]] <= remote[keyOf[r]] /\ remote[keyOf[r]] \in Nat
      BY <1>2, Facts DEF IInv, StoreOK, TypeOK
    <2> QED BY <1>1, <1>2, <1>3, <2>1 DEF Local, CurrentAt
  <1>6. RateLimitedCountedOnce' /\ rateLimited' \in Nat /\ throttled' \in Nat
    <2> HIDE DEF w
    <2>1. Cardinality(Throttled') = Cardinality(Throttled) - 0
             + (IF reply.kind = "throttled" THEN 1 ELSE 0)
      BY <1>2, <1>3, <1>4, ThrottledStep, Cards DEF IInv
    <2>2. rateLimited' = rateLimited /\ rateLimited + Cardinality(Throttled) = throttled
      BY <1>1 DEF counters, IInv, RateLimitedCountedOnce, Throttled
    <2>3. rateLimited' + Cardinality(Throttled') = throttled'
      BY <1>1, <2>1, <2>2, Cards DEF IInv, TypeOK
    <2>4. throttled' \in Nat
      BY <1>1 DEF IInv, TypeOK
    <2> QED BY <2>2, <2>3, <2>4 DEF IInv, TypeOK, RateLimitedCountedOnce, Throttled
  <1> HIDE DEF w
  <1> QED BY <1>1, <1>2, <1>3, <1>4, <1>5, <1>6, LocalStep DEF counters

-----------------------------------------------------------------------------
\* An execution ends

\* Writing back what is there changes nothing.
LEMMA Unwritten ==
  ASSUME TypeOK, NEW k \in Keys
  PROVE store = [store EXCEPT ![k] = store[k]] /\ newest = [newest EXCEPT ![k] = newest[k]]
  BY DEF TypeOK

\* What the store holds of a key, one hit more or not, may be written back by an execution.
LEMMA KeptRow ==
  ASSUME IInv, NEW k \in Keys, NEW x \in {store[k], Bumped(store[k])}
  PROVE /\ x \in Row \cup {None} \/ Busy = 0
        /\ newest[k] \in 0..MaxVersion /\ newest[k] <= remote[k]
        /\ x # None => /\ x.body = newest[k] /\ x.expires = x.fetched + Ttl /\ x.fetched <= clock
                       /\ CurrentAt(k, x.body, x.fetched)
                       /\ x.hits + Busy <= requests + 1
  <1>1. newest[k] \in 0..MaxVersion /\ newest[k] <= remote[k]
    BY DEF IInv, TypeOK, StoreOK
  <1>2. CASE store[k] = None
    BY <1>1, <1>2 DEF Bumped
  <1>3. CASE store[k] # None
    <2> DEFINE row == store[k]
    <2>1. /\ row \in Row /\ row.hits \in Nat /\ row.hits + Busy <= requests
          /\ requests \in 0..MaxRequests /\ Busy \in Nat /\ RowOK(k, row)
      BY <1>3, Facts, Cards DEF IInv, TypeOK, CountsOK, StoreOK, Row
    <2>2. CASE x = row
      BY <1>1, <2>1, <2>2, Facts DEF RowOK
    <2>3. CASE x = Bumped(row)
      <3>1. CASE Busy = 0
        <4>1. x = [row EXCEPT !.hits = row.hits + 1]
          BY <1>3, <2>3 DEF Bumped
        <4>2. /\ x.body = row.body /\ x.expires = row.expires /\ x.fetched = row.fetched
              /\ x.hits = row.hits + 1
          BY <2>1, <4>1 DEF Row
        <4> QED BY <1>1, <2>1, <3>1, <4>2, Facts DEF RowOK
      <3>2. CASE Busy # 0
        <4>1. row.hits + 1 <= 2 * MaxRequests
          BY <2>1, <3>2, Facts
        <4> QED BY <1>1, <2>1, <2>3, <4>1, BumpedTyped, Facts DEF RowOK
      <3> QED BY <3>1, <3>2
    <2> QED BY <2>2, <2>3
  <1> QED BY <1>2, <1>3

\* While an execution is under way, somebody is busy.
LEMMA SomebodyBusy ==
  ASSUME NEW r \in Runs, phase[r] = "working"
  PROVE Busy # 0
  <1>1. r \in Working
    BY DEF Working
  <1>2. Cardinality(Working \ {r}) = Cardinality(Working) - 1 /\ Cardinality(Working \ {r}) \in Nat
    BY <1>1, Cards, FS_RemoveElement, FS_CardinalityType
  <1> QED BY <1>2, Cards DEF Busy

\* An execution ends and leaves the row as it is.
LEMMA EndsQuietly ==
  ASSUME IInv, NEW r \in Runs, NEW o \in Response, Finish(r, o),
         UNCHANGED <<storeVars, requests, hits, world, throttled>>,
         rateLimited' = rateLimited + (IF work[r].reply.kind = "throttled" THEN 1 ELSE 0)
  PROVE IInv'
  <1> DEFINE k == keyOf[r]
             x == store[k]
             n == newest[k]
  <1>1. phase[r] = "working" /\ k \in Keys
    BY DEF Finish, Flight!Settle, IInv, FlightOK
  <1>2. store' = [store EXCEPT ![k] = x] /\ newest' = [newest EXCEPT ![k] = n]
    BY <1>1, Unwritten DEF IInv, storeVars
  <1>3. x \in Row \cup {None}
    BY <1>1 DEF IInv, TypeOK
  <1>4. /\ n \in 0..MaxVersion /\ n <= remote[k]
        /\ x # None => /\ x.body = n /\ x.expires = x.fetched + Ttl /\ x.fetched <= clock
                       /\ CurrentAt(k, x.body, x.fetched)
                       /\ x.hits + Busy <= requests + 1
    BY <1>1, KeptRow
  <1>5. hits' \in {hits, hits + 1}
    OBVIOUS
  <1> HIDE DEF x, n
  <1> QED BY <1>2, <1>3, <1>4, <1>5, FinishStep

\* An execution ends with one more hit, of the row if it is still there and of the gateway.
LEMMA EndsWithHit ==
  ASSUME IInv, NEW r \in Runs, NEW o \in Response, Finish(r, o), BumpHits(keyOf[r]),
         hits' = hits + 1, UNCHANGED <<newest, requests, world, throttled>>,
         rateLimited' = rateLimited + (IF work[r].reply.kind = "throttled" THEN 1 ELSE 0)
  PROVE IInv'
  <1> DEFINE k == keyOf[r]
             x == Bumped(store[k])
             n == newest[k]
  <1>1. phase[r] = "working" /\ k \in Keys
    BY DEF Finish, Flight!Settle, IInv, FlightOK
  <1>2. store' = [store EXCEPT ![k] = x] /\ newest' = [newest EXCEPT ![k] = n]
    BY <1>1, Unwritten DEF IInv, BumpHits
  <1>3. /\ x \in Row \cup {None}
        /\ n \in 0..MaxVersion /\ n <= remote[k]
        /\ x # None => /\ x.body = n /\ x.expires = x.fetched + Ttl /\ x.fetched <= clock
                       /\ CurrentAt(k, x.body, x.fetched)
                       /\ x.hits + Busy <= requests + 1
    BY <1>1, KeptRow, SomebodyBusy
  <1> HIDE DEF x, n
  <1> QED BY <1>2, <1>3, FinishStep

\* An answer of the cache is a response.
LEMMA AnswerTyped ==
  ASSUME NEW body \in Versions
  PROVE /\ \A source \in {"Upstream", "Cache", "Revalidated", "Stale"} : Answer(source, body) \in Response
        /\ \A source \in {"NotFound", "UpstreamException", "TaskCanceled"} : Answer(source, 0) \in Response
  BY DEF Answer, Response

\* A fresh row answers.
LEMMA ServeFreshStep ==
  ASSUME IInv, NEW r \in Runs, ServeFresh(r)
  PROVE IInv'
  <1> DEFINE o == Answer("Cache", work[r].cached.body)
  <1>1. /\ work[r].stage = "read" /\ work[r].cached # None
        /\ Finish(r, o) /\ BumpHits(keyOf[r]) /\ hits' = hits + 1
        /\ UNCHANGED <<newest, requests, rateLimited, world, throttled>>
    BY DEF ServeFresh, At, IsFresh
  <1>2. work[r].cached \in Row /\ work[r].reply.kind = "none"
    BY <1>1, UnderWay
  <1>3. o \in Response
    BY <1>2, AnswerTyped DEF Row
  <1>4. rateLimited' = rateLimited + (IF work[r].reply.kind = "throttled" THEN 1 ELSE 0)
    BY <1>1, <1>2 DEF IInv, TypeOK
  <1> HIDE DEF o
  <1> QED BY <1>1, <1>3, <1>4, EndsWithHit

\* A 404 and a timeout leave the store as it is.
LEMMA PassStep ==
  ASSUME IInv, NEW r \in Runs, PassNotFound(r) \/ TimeoutEscapes(r)
  PROVE IInv'
  <1>1. PICK source \in {"NotFound", "TaskCanceled"} : Finish(r, Answer(source, 0))
    BY DEF PassNotFound, TimeoutEscapes
  <1>2. /\ work[r].reply.kind \in {"notFound", "timeout"}
        /\ UNCHANGED <<storeVars, counters, world, throttled>>
    BY DEF PassNotFound, TimeoutEscapes
  <1>3. 1 \in Versions
    BY Facts DEF Versions
  <1>4. Answer(source, 0) \in Response
    BY <1>3, AnswerTyped
  <1>5. rateLimited' = rateLimited + (IF work[r].reply.kind = "throttled" THEN 1 ELSE 0)
    BY <1>2 DEF IInv, TypeOK, counters
  <1> QED BY <1>1, <1>2, <1>4, <1>5, EndsQuietly DEF counters

\* A failure throws, the last 429 counted.
LEMMA ThrowStep ==
  ASSUME IInv, NEW r \in Runs, ThrowUpstreamException(r)
  PROVE IInv'
  <1>1. 1 \in Versions
    BY Facts DEF Versions
  <1>2. Answer("UpstreamException", 0) \in Response
    BY <1>1, AnswerTyped
  <1> QED BY <1>2, EndsQuietly DEF ThrowUpstreamException, CountFinal429

\* A failure is bridged by the row that was read, the last 429 counted.
LEMMA ServeStaleStep ==
  ASSUME IInv, NEW r \in Runs, ServeStale(r)
  PROVE IInv'
  <1> DEFINE o == Answer("Stale", work[r].cached.body)
  <1>1. /\ work[r].stage = "replied" /\ work[r].cached # None
        /\ Finish(r, o) /\ BumpHits(keyOf[r]) /\ hits' = hits + 1 /\ CountFinal429(r)
        /\ UNCHANGED <<newest, requests, world, throttled>>
    BY DEF ServeStale, Unusable, At, MayServeStale
  <1>2. work[r].cached \in Row
    BY <1>1, UnderWay
  <1>3. o \in Response
    BY <1>2, AnswerTyped DEF Row
  <1> HIDE DEF o
  <1> QED BY <1>1, <1>3, EndsWithHit DEF CountFinal429

\* A fetched body is stored under the time the row was read at.
LEMMA StoreFetchedStep ==
  ASSUME IInv, NEW r \in Runs, StoreFetched(r)
  PROVE IInv'
  <1> DEFINE k == keyOf[r]
             n == work[r].reply.body
             now == work[r].now
             x == Upserted(k, n, now, 0)
             o == Answer("Upstream", n)
  <1>1. /\ work[r].stage = "replied" /\ work[r].reply.kind = "ok" /\ Finish(r, o)
        /\ store' = [store EXCEPT ![k] = x]
        /\ newest' = [newest EXCEPT ![k] = IF n > newest[k] THEN n ELSE newest[k]]
        /\ UNCHANGED <<counters, world, throttled>>
    BY DEF StoreFetched, At, Recorded
  <1>2. /\ phase[r] = "working" /\ k \in Keys /\ Local(k, work[r]) /\ now \in Time
        /\ work[r].reply \in Replies \cup {NoReply}
    BY <1>1, UnderWay
  <1>3. /\ n \in Versions /\ newest[k] <= n /\ n <= remote[k] /\ CurrentAt(k, n, now)
        /\ now <= clock
    BY <1>1, <1>2, ReplyTyped DEF Local
  <1>4. n \in 0..MaxVersion /\ newest[k] \in 0..MaxVersion /\ n \in Nat
    BY <1>2, <1>3, Facts DEF Versions, IInv, TypeOK
  <1>5. newest' = [newest EXCEPT ![k] = n]
    <2>1. (IF n > newest[k] THEN n ELSE newest[k]) = n
      BY <1>3, <1>4
    <2> QED BY <1>1, <2>1
  <1>6. /\ x \in Row /\ x.body = n /\ x.expires = x.fetched + Ttl /\ x.fetched = now
        /\ x.hits + Busy <= requests + 1
    <2>1. now + Ttl \in 0..(MaxClock + Ttl) /\ requests \in Nat /\ Busy \in Nat
      BY <1>2, Facts, Cards DEF Time, IInv, TypeOK
    <2>2. CASE store[k] = None
      <3>1. x = [body |-> n, fetched |-> now, expires |-> now + Ttl, hits |-> 0]
        BY <2>2 DEF Upserted
      <3>2. hits + Busy <= requests /\ hits \in Nat
        BY DEF IInv, CountsOK, TypeOK
      <3> QED BY <1>2, <1>3, <2>1, <3>1, <3>2, Facts DEF Row
    <2>3. CASE store[k] # None
      <3>1. x = [body |-> n, fetched |-> now, expires |-> now + Ttl, hits |-> store[k].hits]
        BY <2>3 DEF Upserted
      <3>2. store[k].hits \in 0..(2 * MaxRequests) /\ store[k].hits + Busy <= requests
        BY <1>2, <2>3 DEF IInv, TypeOK, Row, CountsOK
      <3> QED BY <1>2, <1>3, <2>1, <3>1, <3>2, Facts DEF Row
    <2> QED BY <2>2, <2>3
  <1>7. o \in Response
    BY <1>3, AnswerTyped
  <1>8. rateLimited' = rateLimited + (IF work[r].reply.kind = "throttled" THEN 1 ELSE 0)
    BY <1>1 DEF IInv, TypeOK, counters
  <1>9. hits' \in {hits, hits + 1} /\ UNCHANGED <<world, requests, throttled>>
    BY <1>1 DEF counters
  <1> HIDE DEF n, now, x, o
  <1> QED BY <1>1, <1>3, <1>4, <1>5, <1>6, <1>7, <1>8, <1>9, FinishStep

\* A revalidated row is written back with a new lifetime and one more hit.
LEMMA RevalidateStep ==
  ASSUME IInv, NEW r \in Runs, Revalidate(r)
  PROVE IInv'
  <1> DEFINE k == keyOf[r]
             n == work[r].cached.body
             now == work[r].now
             u == Upserted(k, n, now, work[r].cached.hits)
             x == Bumped(u)
             o == Answer("Revalidated", n)
  <1>1. /\ work[r].stage = "replied" /\ work[r].reply.kind = "notModified" /\ Finish(r, o)
        /\ store' = [store EXCEPT ![k] = x]
        /\ newest' = [newest EXCEPT ![k] = IF n > newest[k] THEN n ELSE newest[k]]
        /\ UNCHANGED <<counters, world, throttled>>
    BY DEF Revalidate, At, Recorded
  <1>2. /\ phase[r] = "working" /\ k \in Keys /\ Local(k, work[r]) /\ now \in Time
        /\ work[r].cached \in Row \cup {None}
        /\ work[r].cached # None => work[r].cached.hits + Busy <= requests
    BY <1>1, UnderWay
  <1>3. /\ work[r].cached \in Row /\ n \in Versions /\ n = newest[k] /\ n <= remote[k]
        /\ CurrentAt(k, n, now) /\ now <= clock
        /\ work[r].cached.hits \in 0..(2 * MaxRequests)
        /\ work[r].cached.hits + Busy <= requests
    <2>1. work[r].cached \in Row /\ RowOK(k, work[r].cached) /\ CurrentAt(k, n, now) /\ now <= clock
      BY <1>1, <1>2 DEF Local
    <2> QED BY <1>2, <2>1, Facts DEF RowOK, Row, IInv, StoreOK
  <1>4. n \in 0..MaxVersion /\ newest' = [newest EXCEPT ![k] = n]
    BY <1>1, <1>2, <1>3, Facts DEF Versions
  <1>5. requests \in 0..MaxRequests /\ Busy \in Nat /\ Busy # 0
    BY <1>2, Cards, SomebodyBusy DEF IInv, TypeOK
  <1>6. /\ u \in Row /\ u.body = n /\ u.expires = u.fetched + Ttl /\ u.fetched = now
        /\ u.hits + Busy <= requests
    <2>1. now + Ttl \in 0..(MaxClock + Ttl)
      BY <1>2, Facts DEF Time
    <2>2. CASE store[k] = None
      <3>1. u = [body |-> n, fetched |-> now, expires |-> now + Ttl, hits |-> work[r].cached.hits]
        BY <2>2 DEF Upserted
      <3> QED BY <1>2, <1>3, <2>1, <3>1 DEF Row
    <2>3. CASE store[k] # None
      <3>1. u = [body |-> n, fetched |-> now, expires |-> now + Ttl, hits |-> store[k].hits]
        BY <2>3 DEF Upserted
      <3>2. store[k].hits \in 0..(2 * MaxRequests) /\ store[k].hits + Busy <= requests
        BY <1>2, <2>3 DEF IInv, TypeOK, Row, CountsOK
      <3> QED BY <1>2, <1>3, <2>1, <3>1, <3>2 DEF Row
    <2> QED BY <2>2, <2>3
  <1>7. /\ x \in Row /\ x.body = n /\ x.expires = x.fetched + Ttl /\ x.fetched = now
        /\ x.hits + Busy <= requests + 1
    <2> HIDE DEF u
    <2>1. u.hits \in Nat /\ u.hits + 1 <= 2 * MaxRequests
      BY <1>5, <1>6, Facts DEF Row
    <2> QED BY <1>5, <1>6, <2>1, BumpedTyped
  <1>8. o \in Response
    BY <1>3, AnswerTyped
  <1>9. rateLimited' = rateLimited + (IF work[r].reply.kind = "throttled" THEN 1 ELSE 0)
    BY <1>1 DEF IInv, TypeOK, counters
  <1>10. hits' \in {hits, hits + 1} /\ UNCHANGED <<world, requests, throttled>>
    BY <1>1 DEF counters
  <1> HIDE DEF n, now, x, o
  <1> QED BY <1>1, <1>3, <1>4, <1>7, <1>8, <1>9, <1>10, FinishStep

-----------------------------------------------------------------------------
\* The rest of the world

\* What was current stays so when the provider publishes or time passes: a version is
\* retired no earlier than now.
LEMMA StillCurrent ==
  ASSUME TypeOK, NEW j \in Keys, Publish(j) \/ Tick, NEW k \in Keys, NEW v \in Versions,
         NEW t \in Time, t <= clock, CurrentAt(k, v, t)
  PROVE remote'[k] = v \/ retiredAt'[k][v] >= t
  <1>1. CASE Tick
    BY <1>1 DEF Tick, CurrentAt
  <1>2. CASE Publish(j)
    <2>1. /\ remote' = [remote EXCEPT ![j] = remote[j] + 1]
          /\ retiredAt' = [retiredAt EXCEPT ![j] = [retiredAt[j] EXCEPT ![remote[j]] = clock]]
      BY <1>2 DEF Publish, TypeOK
    <2>2. CASE k # j
      BY <2>1, <2>2 DEF TypeOK, CurrentAt
    <2>3. CASE k = j /\ v = remote[j]
      <3>1. retiredAt'[k] = [retiredAt[j] EXCEPT ![remote[j]] = clock]
        BY <2>1, <2>3 DEF TypeOK
      <3>2. retiredAt[j] \in [Versions -> Time]
        BY DEF TypeOK
      <3>3. retiredAt'[k][v] = clock
        BY <2>3, <3>1, <3>2
      <3> QED BY <3>3, Facts DEF TypeOK
    <2>4. CASE k = j /\ v # remote[j]
      <3>1. retiredAt'[k] = [retiredAt[j] EXCEPT ![remote[j]] = clock]
        BY <2>1, <2>4 DEF TypeOK
      <3>2. retiredAt[j] \in [Versions -> Time]
        BY DEF TypeOK
      <3>3. retiredAt'[k][v] = retiredAt[j][v]
        BY <2>4, <3>1, <3>2
      <3> QED BY <2>4, <3>3 DEF CurrentAt
    <2> QED BY <2>2, <2>3, <2>4
  <1> QED BY <1>1, <1>2

\* The provider and the clock move on under the cache.
LEMMA WorldStep ==
  ASSUME IInv, NEW j \in Keys, Publish(j) \/ Tick
  PROVE IInv'
  <1>1. UNCHANGED <<flightVars, work, storeVars, counters, throttled>>
    BY DEF Publish, Tick
  <1>2. /\ clock' \in Time /\ clock <= clock'
        /\ remote' \in [Keys -> Versions] /\ retiredAt' \in [Keys -> [Versions -> Time]]
        /\ \A k \in Keys : remote[k] <= remote'[k]
    <2>1. CASE Tick
      BY <2>1, Facts DEF Tick, Time, Versions, IInv, TypeOK
    <2>2. CASE Publish(j)
      <3>1. remote[j] + 1 \in Versions /\ clock \in Time /\ clock' = clock
        BY <2>2, Facts DEF Publish, Versions, IInv, TypeOK
      <3>2. /\ remote' = [remote EXCEPT ![j] = remote[j] + 1]
            /\ retiredAt' = [retiredAt EXCEPT ![j] = [retiredAt[j] EXCEPT ![remote[j]] = clock]]
        BY <2>2 DEF Publish, IInv, TypeOK
      <3>3. [retiredAt[j] EXCEPT ![remote[j]] = clock] \in [Versions -> Time]
        BY <3>1 DEF IInv, TypeOK
      <3>4. \A k \in Keys : remote[k] \in Nat
        BY Facts DEF IInv, TypeOK
      <3> QED BY <3>1, <3>2, <3>3, <3>4, Facts DEF IInv, TypeOK
    <2> QED BY <2>1, <2>2
  <1>3. TypeOK'
    BY <1>1, <1>2 DEF IInv, TypeOK, flightVars, storeVars, counters
  <1>4. FlightOK' /\ Busy' = Busy
    BY <1>1 DEF IInv, FlightOK, Busy, Working, Calling, flightVars
  <1>5. ASSUME NEW k \in Keys, NEW row \in Row, RowOK(k, row)
        PROVE /\ row.body = newest'[k] /\ row.expires = row.fetched + Ttl
              /\ row.fetched <= clock'
              /\ remote'[k] = row.body \/ retiredAt'[k][row.body] >= row.fetched
    <2>1. row.body \in Versions /\ row.fetched \in Time /\ row.fetched \in Nat
      BY Facts DEF Row
    <2>2. row.fetched <= clock /\ CurrentAt(k, row.body, row.fetched)
      BY <1>5 DEF RowOK
    <2>3. clock \in Nat /\ clock' \in Nat
      BY <1>2, Facts DEF IInv, TypeOK
    <2> QED BY <1>1, <1>2, <1>5, <2>1, <2>2, <2>3, StillCurrent DEF RowOK, storeVars, IInv
  <1>6. StoreOK'
    <2> SUFFICES ASSUME NEW k \in Keys
                 PROVE /\ newest'[k] <= remote'[k]
                       /\ store'[k] # None => RowOK(k, store[k])'
      BY DEF StoreOK
    <2>1. newest[k] <= remote[k] /\ (store[k] # None => RowOK(k, store[k]))
      BY DEF IInv, StoreOK
    <2>2. newest[k] \in Nat /\ remote[k] \in Nat /\ remote'[k] \in Nat /\ remote[k] <= remote'[k]
      <3>1. newest[k] \in 0..MaxVersion /\ remote[k] \in Versions /\ remote'[k] \in Versions
        BY <1>2 DEF IInv, TypeOK
      <3>2. Versions \subseteq Nat /\ 0..MaxVersion \subseteq Nat
        BY BoundsAssumption DEF Versions
      <3>3. newest[k] \in Nat /\ remote[k] \in Nat /\ remote'[k] \in Nat
        BY <3>1, <3>2
      <3> QED BY <1>2, <3>3
    <2>3. store'[k] = store[k] /\ newest'[k] = newest[k]
      BY <1>1 DEF storeVars
    <2>4. store[k] # None => store[k] \in Row
      BY DEF IInv, TypeOK
    <2> QED BY <1>5, <2>1, <2>2, <2>3, <2>4 DEF RowOK, CurrentAt
  <1>7. WorkOK'
    <2> SUFFICES ASSUME NEW r \in Runs, work[r].stage # "none"
                 PROVE Local(keyOf[r], work[r])'
      BY <1>1 DEF WorkOK, IInv, flightVars
    <2> DEFINE k == keyOf[r]
               w == work[r]
    <2>1. /\ k \in Keys /\ Local(k, w) /\ w.cached \in Row \cup {None} /\ w.now \in Time
          /\ w.reply \in Replies \cup {NoReply}
      BY UnderWay
    <2>2. keyOf'[r] = k /\ work'[r] = w /\ store' = store /\ newest' = newest
      BY <1>1 DEF flightVars, storeVars
    <2>3. /\ w.now \in Nat /\ clock \in Nat /\ clock' \in Nat /\ w.now <= clock
          /\ remote[k] \in Nat /\ remote'[k] \in Nat /\ remote[k] <= remote'[k]
      BY <1>2, <2>1, Facts DEF IInv, TypeOK, Local
    <2>4. w.now <= clock'
      BY <1>2, <2>3
    <2>5. w.cached # None =>
            /\ w.cached.body = newest'[k] /\ w.cached.expires = w.cached.fetched + Ttl
            /\ w.cached.fetched <= clock'
            /\ remote'[k] = w.cached.body \/ retiredAt'[k][w.cached.body] >= w.cached.fetched
      BY <1>5, <2>1 DEF Local
    <2>6. w.reply.kind = "ok" =>
            /\ newest'[k] <= w.reply.body /\ w.reply.body <= remote'[k]
            /\ remote'[k] = w.reply.body \/ retiredAt'[k][w.reply.body] >= w.now
      <3> SUFFICES ASSUME w.reply.kind = "ok"
                   PROVE /\ newest'[k] <= w.reply.body /\ w.reply.body <= remote'[k]
                         /\ remote'[k] = w.reply.body \/ retiredAt'[k][w.reply.body] >= w.now
        OBVIOUS
      <3>1. /\ newest[k] <= w.reply.body /\ w.reply.body <= remote[k]
            /\ CurrentAt(k, w.reply.body, w.now) /\ w.reply.body \in Versions
        BY <2>1, ReplyTyped DEF Local
      <3>2. w.reply.body \in Nat
        BY <3>1, Facts
      <3>3. remote'[k] = w.reply.body \/ retiredAt'[k][w.reply.body] >= w.now
        BY <2>1, <2>3, <3>1, StillCurrent DEF IInv
      <3> QED BY <2>2, <2>3, <3>1, <3>2, <3>3
    <2>7. w.reply.kind = "notModified" =>
            /\ w.cached # None
            /\ remote'[k] = w.cached.body \/ retiredAt'[k][w.cached.body] >= w.now
      <3> SUFFICES ASSUME w.reply.kind = "notModified"
                   PROVE /\ w.cached # None
                         /\ remote'[k] = w.cached.body \/ retiredAt'[k][w.cached.body] >= w.now
        OBVIOUS
      <3>1. w.cached # None /\ CurrentAt(k, w.cached.body, w.now)
        BY <2>1 DEF Local
      <3>2. w.cached.body \in Versions
        BY <2>1, <3>1 DEF Row
      <3> QED BY <2>1, <2>3, <3>1, <3>2, StillCurrent DEF IInv
    <2>8. w.cached = None => store'[k] = None
      BY <2>1, <2>2 DEF Local
    <2> QED BY <2>2, <2>4, <2>5, <2>6, <2>7, <2>8 DEF Local, RowOK, CurrentAt
  <1>8. CountsOK'
    BY <1>1, <1>4 DEF IInv, CountsOK, storeVars, counters
  <1>9. RateLimitedCountedOnce'
    BY <1>1 DEF IInv, RateLimitedCountedOnce, counters
  <1> QED BY <1>3, <1>4, <1>6, <1>7, <1>8, <1>9 DEF IInv

\* A purge takes rows away, and only rows.
LEMMA PurgeStep ==
  ASSUME IInv, PurgeExpired
  PROVE IInv'
  <1>1. /\ UNCHANGED <<flightVars, work, newest, counters, world, throttled>>
        /\ store' = [k \in Keys |->
             IF store[k] # None /\ store[k].expires <= clock THEN None ELSE store[k]]
    BY DEF PurgeExpired
  <1>2. \A k \in Keys : store'[k] = None \/ store'[k] = store[k]
    BY <1>1
  <1>3. TypeOK'
    <2>1. store' \in [Keys -> Row \cup {None}]
      BY <1>1 DEF IInv, TypeOK
    <2> QED BY <1>1, <2>1 DEF IInv, TypeOK, flightVars, counters, world
  <1>4. FlightOK' /\ Busy' = Busy
    BY <1>1 DEF IInv, FlightOK, Busy, Working, Calling, flightVars
  <1>5. StoreOK'
    BY <1>1, <1>2 DEF IInv, StoreOK, RowOK, CurrentAt, world
  <1>6. WorkOK'
    <2> SUFFICES ASSUME NEW r \in Runs, work[r].stage # "none"
                 PROVE Local(keyOf[r], work[r])'
      BY <1>1 DEF WorkOK, IInv, flightVars
    <2>1. keyOf[r] \in Keys /\ Local(keyOf[r], work[r])
      BY UnderWay
    <2> QED BY <1>1, <1>2, <2>1 DEF Local, RowOK, CurrentAt, world, flightVars
  <1>7. CountsOK'
    BY <1>1, <1>2, <1>4 DEF IInv, CountsOK, counters
  <1>8. RateLimitedCountedOnce'
    BY <1>1 DEF IInv, RateLimitedCountedOnce, counters
  <1> QED BY <1>3, <1>4, <1>5, <1>6, <1>7, <1>8 DEF IInv

-----------------------------------------------------------------------------
\* The inductive invariant

\* The invariant holds at first: no call, no row, no hit.
LEMMA InitIInv == Init => IInv
  <1> SUFFICES ASSUME Init PROVE IInv
    OBVIOUS
  <1>1. 1 \in Versions /\ 0 \in Nat
    BY Facts DEF Versions
  <1>2. FlightTyped /\ FlightOK
    BY DEF Init, Flight!Init, Flight!Phases, FlightTyped, FlightOK
  <1>3. TypeOK
    BY <1>1, <1>2, Facts DEF Init, TypeOK, FlightTyped
  <1>4. Working = {} /\ Calling = {} /\ Throttled = {}
    BY Facts DEF Init, Flight!Init, Working, Calling, Throttled
  <1>5. Busy = 0 /\ Cardinality(Throttled) = 0
    BY <1>4, FS_EmptySet DEF Busy
  <1>6. StoreOK /\ WorkOK
    BY Facts DEF Init, StoreOK, WorkOK
  <1>7. CountsOK
    BY <1>5, Facts DEF Init, CountsOK
  <1>8. RateLimitedCountedOnce
    BY <1>5 DEF Init, RateLimitedCountedOnce, Throttled
  <1> QED BY <1>2, <1>3, <1>6, <1>7, <1>8 DEF IInv

\* Every step of calls, executions, the provider, the clock and the operator keeps it.
LEMMA NextIInv == IInv /\ [Next]_vars => IInv'
  <1> SUFFICES ASSUME IInv, [Next]_vars PROVE IInv'
    OBVIOUS
  <1>1. CASE UNCHANGED vars
    <2>1. TypeOK' /\ FlightOK' /\ StoreOK' /\ CountsOK' /\ RateLimitedCountedOnce'
      BY <1>1 DEF vars, flightVars, storeVars, counters, world, IInv, TypeOK, FlightOK, StoreOK,
                  RowOK, CurrentAt, CountsOK, Busy, Working, Calling, RateLimitedCountedOnce
    <2>2. WorkOK'
      BY <1>1 DEF vars, flightVars, storeVars, counters, world, IInv, WorkOK, Local, RowOK, CurrentAt
    <2> QED BY <2>1, <2>2 DEF IInv
  <1>2. ASSUME NEW r \in Runs, Execute(r) PROVE IInv'
    BY <1>2, ReadRowStep, ServeFreshStep, SendStep, RetryStep, RevalidateStep, StoreFetchedStep,
       PassStep, ServeStaleStep, ThrowStep, FreeStep DEF Execute
  <1>3. CASE Tick
    <2>1. CASE Keys = {}
      <3>1. UNCHANGED <<flightVars, work, storeVars, counters, throttled, remote, retiredAt>>
        BY <1>3 DEF Tick
      <3>2. clock' \in Time
        BY <1>3, Facts DEF Tick, Time, IInv, TypeOK
      <3>3. TypeOK' /\ FlightOK' /\ StoreOK' /\ CountsOK' /\ RateLimitedCountedOnce'
        BY <2>1, <3>1, <3>2 DEF flightVars, storeVars, counters, IInv, TypeOK, FlightOK, StoreOK,
                    CountsOK, Busy, Working, Calling, RateLimitedCountedOnce
      <3>4. WorkOK'
        <4>1. \A r \in Runs : work[r].stage = "none"
          BY <2>1, UnderWay
        <4> QED BY <3>1, <4>1 DEF flightVars, IInv, WorkOK
      <3> QED BY <3>3, <3>4 DEF IInv
    <2>2. CASE Keys # {}
      BY <1>3, <2>2, WorldStep
    <2> QED BY <2>1, <2>2
  <1> QED BY <1>1, <1>2, <1>3, GetOrFetchStep, JoinStep, AnsweredStep, StartStep, ReplyStep,
             WorldStep, PurgeStep DEF Next

\* The invariant of the gateway, for any callers, keys, policy and interleaving.
THEOREM Invariance == Spec => []IInv
  BY InitIInv, NextIInv, PTL DEF Spec

-----------------------------------------------------------------------------
\* Theorems

\* Type correctness, the bound of a row's hits included.
THEOREM TypeCorrect == Spec => []TypeOK
  <1>1. IInv => TypeOK
    BY DEF IInv
  <1> QED BY <1>1, Invariance, PTL

\* The state part of what the cache promises: no older body comes back, every 429 is
\* counted once, and no more hits than calls.
LEMMA PromisedStates ==
  IInv => TypeOK /\ StoreHoldsNewestFetched /\ RateLimitedCountedOnce /\ HitsWithinRequests
  <1> SUFFICES ASSUME IInv
               PROVE TypeOK /\ StoreHoldsNewestFetched /\ RateLimitedCountedOnce
                     /\ HitsWithinRequests
    OBVIOUS
  <1>1. StoreHoldsNewestFetched
    BY DEF IInv, StoreOK, RowOK, StoreHoldsNewestFetched
  <1>2. HitsWithinRequests
    <2>1. hits + Busy <= requests /\ hits \in Nat /\ requests \in Nat
      BY DEF IInv, CountsOK, TypeOK
    <2>2. Cardinality(Working) <= Busy /\ Cardinality(Working) \in Nat /\ Busy \in Nat
      BY Cards DEF Busy
    <2>3. hits + Cardinality(Working) <= requests
      BY <2>1, <2>2
    <2> QED BY <2>3 DEF HitsWithinRequests, Working
  <1> QED BY <1>1, <1>2 DEF IInv

\* An execution ends by one of these steps of its own, and by no other.
LEMMA WhoEnds ==
  ASSUME IInv, Next, NEW r \in Runs, Ends(r)
  PROVE \/ ServeFresh(r) \/ Revalidate(r) \/ StoreFetched(r) \/ PassNotFound(r)
        \/ ServeStale(r) \/ ThrowUpstreamException(r) \/ TimeoutEscapes(r)
  <1>1. phase[r] = "working" /\ phase'[r] = "settled" /\ phase \in [Runs -> Flight!Phases]
    BY DEF Ends, IInv, TypeOK
  <1>2. phase' # phase
    BY <1>1
  <1>3. ASSUME NEW s \in Runs, NEW o, Finish(s, o) PROVE s = r
    BY <1>1, <1>3 DEF Finish, Flight!Settle
  <1>4. ASSUME NEW s \in Runs, Execute(s)
        PROVE \/ ServeFresh(r) \/ Revalidate(r) \/ StoreFetched(r) \/ PassNotFound(r)
              \/ ServeStale(r) \/ ThrowUpstreamException(r) \/ TimeoutEscapes(r)
    <2>1. ~(ReadRow(s) \/ Send(s) \/ RetryThrottled(s))
      BY <1>2 DEF ReadRow, Send, RetryThrottled, flightVars
    <2>2. ~FreeFlight(s)
      BY <1>1 DEF FreeFlight, Flight!Free
    <2>3. ServeFresh(s) => s = r
      BY <1>3 DEF ServeFresh
    <2>4. Revalidate(s) => s = r
      BY <1>3 DEF Revalidate
    <2>5. StoreFetched(s) => s = r
      BY <1>3 DEF StoreFetched
    <2>6. PassNotFound(s) \/ TimeoutEscapes(s) => s = r
      BY <1>3 DEF PassNotFound, TimeoutEscapes
    <2>7. ServeStale(s) \/ ThrowUpstreamException(s) => s = r
      BY <1>3 DEF ServeStale, ThrowUpstreamException
    <2> QED BY <1>4, <2>1, <2>2, <2>3, <2>4, <2>5, <2>6, <2>7 DEF Execute
  <1>5. ~\E c \in Callers, k \in Keys : GetOrFetch(c, k)
    BY <1>2 DEF GetOrFetch, Flight!Arrive
  <1>6. ~\E c \in Callers : JoinFlight(c) \/ Answered(c)
    BY <1>2 DEF JoinFlight, Flight!Join, Answered, Flight!Return
  <1>7. ~\E c \in Callers, s \in Runs : StartFlight(c, s)
    BY <1>1 DEF StartFlight, Flight!Start
  <1>8. ~\E s \in Runs, reply \in Replies : Reply(s, reply)
    BY <1>2 DEF Reply, flightVars
  <1>9. ~(\E k \in Keys : Publish(k)) /\ ~Tick /\ ~PurgeExpired
    BY <1>2 DEF Publish, Tick, PurgeExpired, flightVars
  <1> QED BY <1>4, <1>5, <1>6, <1>7, <1>8, <1>9 DEF Next

\* What the execution that ends has answered.
LEMMA Outcome ==
  ASSUME IInv, NEW r \in Runs, NEW o, Finish(r, o)
  PROVE outcome'[r] = o
  BY DEF Finish, Flight!Settle, IInv, TypeOK

\* A body served without a failure is no older than the TTL.
LEMMA AgeStep ==
  ASSUME IInv, Next, NEW r \in Runs, Ends(r)
  PROVE /\ outcome'[r].source = "Cache"
             => CurrentAt(keyOf[r], outcome'[r].body, work[r].now - Ttl + 1)
        /\ outcome'[r].source \in {"Upstream", "Revalidated"}
             => CurrentAt(keyOf[r], outcome'[r].body, work[r].now)
  <1>1. CASE ServeFresh(r)
    <2> DEFINE row == work[r].cached
    <2>1. /\ work[r].stage = "read" /\ row # None /\ row.expires > work[r].now
          /\ outcome'[r] = Answer("Cache", row.body)
      BY <1>1, Outcome DEF ServeFresh, At, IsFresh
    <2>2. /\ row \in Row /\ RowOK(keyOf[r], row) /\ work[r].now \in Nat /\ keyOf[r] \in Keys
      BY <2>1, UnderWay, Facts DEF Local
    <2>3. /\ row.expires = row.fetched + Ttl /\ CurrentAt(keyOf[r], row.body, row.fetched)
          /\ row.fetched \in Nat /\ Ttl \in Nat
      BY <2>2, Facts DEF RowOK, Row
    <2>4. row.fetched >= work[r].now - Ttl + 1
      BY <2>1, <2>2, <2>3
    <2>5. retiredAt[keyOf[r]][row.body] \in Nat
      <3>1. row.body \in Versions
        BY <2>2 DEF Row
      <3>2. retiredAt \in [Keys -> [Versions -> Time]]
        BY DEF IInv, TypeOK
      <3>3. retiredAt[keyOf[r]] \in [Versions -> Time]
        BY <2>2, <3>2
      <3>4. Time \subseteq Nat
        BY Facts
      <3> HIDE DEF row
      <3> QED BY <3>1, <3>3, <3>4
    <2>6. CurrentAt(keyOf[r], row.body, work[r].now - Ttl + 1)
      BY <2>2, <2>3, <2>4, <2>5 DEF CurrentAt
    <2> QED BY <2>1, <2>6 DEF Answer
  <1>2. CASE Revalidate(r)
    <2>1. /\ work[r].stage = "replied" /\ work[r].reply.kind = "notModified"
          /\ outcome'[r] = Answer("Revalidated", work[r].cached.body)
      BY <1>2, Outcome DEF Revalidate, At
    <2>2. CurrentAt(keyOf[r], work[r].cached.body, work[r].now)
      BY <2>1, UnderWay DEF Local
    <2> QED BY <2>1, <2>2 DEF Answer
  <1>3. CASE StoreFetched(r)
    <2>1. /\ work[r].stage = "replied" /\ work[r].reply.kind = "ok"
          /\ outcome'[r] = Answer("Upstream", work[r].reply.body)
      BY <1>3, Outcome DEF StoreFetched, At
    <2>2. CurrentAt(keyOf[r], work[r].reply.body, work[r].now)
      BY <2>1, UnderWay DEF Local
    <2> QED BY <2>1, <2>2 DEF Answer
  <1>4. CASE ServeStale(r)
    <2>1. outcome'[r] = Answer("Stale", work[r].cached.body)
      BY <1>4, Outcome DEF ServeStale
    <2> QED BY <2>1 DEF Answer
  <1>5. CASE PassNotFound(r) \/ TimeoutEscapes(r) \/ ThrowUpstreamException(r)
    <2>1. \E source \in {"NotFound", "TaskCanceled", "UpstreamException"} :
            outcome'[r] = Answer(source, 0)
      BY <1>5, Outcome DEF PassNotFound, TimeoutEscapes, ThrowUpstreamException
    <2> QED BY <2>1 DEF Answer
  <1> QED BY <1>1, <1>2, <1>3, <1>4, <1>5, WhoEnds

\* What the cache holds, serves and counts agrees with what the provider served: bodies
\* never go back, no answer without a failure is older than the TTL, and the counters
\* are those of the calls (UpstreamCache.cs:65-92, 119-121, 176-208).
THEOREM CacheHonest == Spec => CacheTruthful
  <1>1. IInv /\ [Next]_vars
          => [\A r \in Runs : Ends(r) =>
                LET k == keyOf[r]
                    v == outcome'[r].body
                IN
                /\ outcome'[r].source = "Cache" => CurrentAt(k, v, work[r].now - Ttl + 1)
                /\ outcome'[r].source \in {"Upstream", "Revalidated"}
                     => CurrentAt(k, v, work[r].now)]_vars
    BY AgeStep
  <1>2. []IInv /\ [][Next]_vars => TtlBoundsAge
    BY <1>1, PTL DEF TtlBoundsAge
  <1>3. Spec => [](TypeOK /\ StoreHoldsNewestFetched /\ RateLimitedCountedOnce /\ HitsWithinRequests)
    BY PromisedStates, Invariance, PTL
  <1>4. Spec => TtlBoundsAge
    BY <1>2, Invariance DEF Spec
  <1> QED BY <1>3, <1>4 DEF CacheTruthful

\* A status or a transport failure reaches no caller while the store has a row for the key.
LEMMA OutageStep ==
  ASSUME IInv, Next, NEW r \in Runs, Ends(r), outcome'[r].source = "UpstreamException",
         ServeStaleOnError, MaxStaleAge = None
  PROVE store[keyOf[r]] = None
  <1>1. CASE ThrowUpstreamException(r)
    <2>1. work[r].stage = "replied" /\ ~MayServeStale(work[r])
      BY <1>1 DEF ThrowUpstreamException, Unusable, At
    <2>2. work[r].cached = None
      BY <2>1 DEF MayServeStale
    <2> QED BY <2>1, <2>2, UnderWay DEF Local
  <1>2. CASE ServeFresh(r) \/ Revalidate(r) \/ StoreFetched(r) \/ ServeStale(r)
    <2>1. \E source \in {"Cache", "Revalidated", "Upstream", "Stale"} :
            \E body : outcome'[r] = Answer(source, body)
      BY <1>2, Outcome DEF ServeFresh, Revalidate, StoreFetched, ServeStale
    <2> QED BY <2>1 DEF Answer
  <1>3. CASE PassNotFound(r) \/ TimeoutEscapes(r)
    <2>1. \E source \in {"NotFound", "TaskCanceled"} : outcome'[r] = Answer(source, 0)
      BY <1>3, Outcome DEF PassNotFound, TimeoutEscapes
    <2> QED BY <2>1 DEF Answer
  <1> QED BY <1>1, <1>2, <1>3, WhoEnds

\* As long as the store has a row for the key, a call does not fail because of a status
\* or a transport failure, unless the policy forbids stale answers or caps their age
\* (UpstreamCache.cs:86-92, 207-208): whatever is purged and fetched meanwhile.
THEOREM OutageBridged == Spec => OutageServesStored
  <1>1. IInv /\ [Next]_vars
          => [\A r \in Runs :
                Ends(r) /\ outcome'[r].source = "UpstreamException"
                  /\ ServeStaleOnError /\ MaxStaleAge = None
                  => store[keyOf[r]] = None]_vars
    BY OutageStep
  <1>2. []IInv /\ [][Next]_vars => OutageServesStored
    BY <1>1, PTL DEF OutageServesStored
  <1> QED BY <1>2, Invariance DEF Spec

=============================================================================
