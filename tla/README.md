# TLA+ for Metacacharr

Metacacharr is two programs. **Metacache** (`metacache/`, C#) is a caching metadata
provider between Plex, Radarr, Sonarr and the metadata services TMDB and TVDB. The
**media stack** (`media-stack/`, Python and JavaScript) is a control panel and a set of
jobs around the same applications. This directory holds TLA+ modules translated from
the code, the TLC runs that check them and the TLAPS proofs about them.

Paths below are relative to the repository; `Core`, `Plex` and `Host` stand for
`metacache/src/Metacache.Core`, `.Plex` and `.Host`, `services` and `core` for the
directories of `media-stack/control-panel`, `scripts` for `media-stack/scripts`.

## 1. Inventory

Metacache:

| Component | State it keeps | Operations | Hard behaviour | What makes it correct |
|---|---|---|---|---|
| Single flight (`Core/Cache/SingleFlight.cs`) | `_inflight`: key to task | `RunAsync` | a lock-free claim; the outcome is published before the entry is removed | one execution per key, every caller answered, no entry left behind |
| Upstream cache (`Core/Cache/UpstreamCache.cs`) | `upstream_cache` rows, `_requests`, `_hits`, 429 counter | `GetOrFetchAsync`, `PurgeExpired` | row and clock are read before the request and used after it; 429 retries; outages; purge in between | ages bounded by the policy, stale-if-error, no return to older content, counters that mean what they say |
| Image cache (`Core/Cache/ImageCache.cs`, `ImageStore.cs`) | `urls` rows, original files, variant files | `RegisterUrl`, `GetOrFetchAsync`, `GetByHashAsync`, `GetVariantAsync`, selective purge | rows and files change one after the other; eviction races downloads and resizes; crashes | the total cap holds, no file escapes it, whatever the size of the table |
| Cache warmer (`Plex/Warming/CacheWarmer.cs`), nightly service, `Host/WarmEndpoints.cs` | `_gate`, `_status`, `_progress` | full, partial, single and predictive runs, nightly loop | triggers race for the gate; parallel bodies share the progress; failures and cancellations | one run at a time, a status that is true, results that account for the inventory, a gate that is always released |
| Cache store (`Core/Cache/CacheStore.cs`) | the SQLite tables | row operations, search, schema migration | every operation is atomic under one lock; sequences of them are not | upserts keep hits; migration from every older schema |
| Provider clients (`Core/Providers`) | TMDB auth mode probe, TVDB token | requests, probe, login | a probe's task read outside its lock; a newer token dropped | one probe or login at a time, a failed one is retried |
| Matching (`Core/Matching`) | match overrides, unmatched queue | score, rank, pin, record | ties in the ranking | overrides win |
| Plex provider (`Plex/*.cs`) | none of its own | match, metadata, children, paging, guid lookup | fallback chains over the clients | answers page without gaps |
| Proxy and certificates (`Host/Proxy`) | leaf certificates on disk and in memory | route, issue | none: issuing holds one lock | one leaf per host |
| Authentication, dashboards, pages (`Host`) | scrape history | bearer check, rendering | none | protected paths need the token |

Media stack:

| Component | State it keeps | Operations | Hard behaviour | What makes it correct |
|---|---|---|---|---|
| Posters (`services/posters`) | three job slots, event queues, the cooldown file | sync, review, scan, manual pick, event stream | worker threads, streams and picks share slots and one file; restarts | a slot that comes free, a cooldown that is kept, a stream that shows its job to the end, the right poster |
| Plex health and watchdog (`services/plex/router.py`, `scripts/plex-health-monitor.py`) | lag, alert and restart stamps | poll, classify, alert, restart | debouncing over outages, alternating kinds of failure | restarts asked for when they are warranted and as long as they are, alerts that name what happened |
| Import loop remediation (`services/arr/router.py`, `core/import_starvation.py`, `core/arr_client.py`) | none; the apps' queues and command pools | autofix, unstick, unstick-importing, unmonitor, search-missing, monitor-episodes-fix | a sequence of calls over two apps that move on; time-outs of what was done; starved pools | nothing removed and forgotten, a loop that was stopped stays stopped, the import worker is never cancelled |
| Queue and arr reports (`services/queue`, `services/arr`) | none | two-sample status, loop candidates, backlog, command views | sources that fail, order of counting | what is shown is so |
| Arr requests (`services/arr/router.py`, `scripts/mdblist_toplists_import.py`) | none | toggle, manual import, paging, blocklist, import lists | several calls, any of which fails | the answer tells what was done |
| List sync (`services/letterboxd`, `services/mdblist`) | tracked lists, id caches, sync logs | two ticks, manual imports, track, untrack | runs race over one id cache and one library; failing calls | reports that are true, lists that all get their turn, films that get in |
| Fleet actions (`services/host/router.py`, `core/docker_client.py`, `core/rate_limit.py`) | rate-limit windows, a worker thread | restart-all, restart, stop, start | stages with time-outs, two at once, mounts that go stale | fresh mounts, everything up, the limit |
| Software catalog (`services/catalog`) | none; Docker's | install, remove | two requests between any two Docker calls | answers that are true, no data lost |
| Nightly jobs (`scripts/arr-app-backup.py`, `bearmount-prune-history.py`, `services/nzbdav`) | none | backup, prune | polling against a deadline, deletes that fail | green means done |
| Audit scripts (`plex-arr-reconcile.py`, `checkrr-badfiles-report.py`, `radarr-orphan-empty-folders.py`, `audit-tmdb-links.py`) | none | read several sources, compare, delete folders | the world changes between two reads, reads fail | what is reported was so; nothing of value is deleted |
| Request guard, settings, hit counts, host helper, webhook listener, pass-through endpoints, provisioning scripts, front end | single rows or nothing | one request, one answer | none found | |

How they interact. A Plex request reaches a provider service, which asks a client,
which calls `UpstreamCache.GetOrFetchAsync`; the mapper registers the artwork it names
with `ImageCache.RegisterUrl`, and the image endpoint fetches it on the first request.
Both caches send their fetches through one `SingleFlight` instance and keep their rows
in one `CacheStore`. The warmer drives the same services and caches, started by a
request, a webhook or the nightly service.

The control panel and Metacache share nothing but HTTP. The panel's routes are
synchronous, so FastAPI runs every request in a thread of its own; restart-all and the
poster jobs start further threads. Timers outside the panel post the autofix and the two
sync ticks. The watchdog polls the panel's health route and posts restarts to its fleet
routes. Everything else the panel touches (Radarr, Sonarr, Plex, NzbDAV, Docker) is
another program that moves on between any two calls.

## 2. Modules

| Module | Models | Uses |
|---|---|---|
| `SharedFlight` | what a single flight promises: join or start in one step | |
| `SingleFlight` | the `TryGetValue` / `TryAdd` loop that implements it | refines `SharedFlight` |
| `UpstreamCache` | the HTTP cache, its rows, counters, the provider and the purge | `INSTANCE SharedFlight` |
| `UpstreamCacheProofs` | theorems about `UpstreamCache` | |
| `ImageCache` | rows, files and variants, eviction, purge, crash | the promise of `SharedFlight` |
| `ImageEviction` | a history of the rows that an eviction's batch left out | extends `ImageCache` |
| `ImageCacheProofs` | theorems about `ImageCache`, `ImageEviction` and `SingleFlight` | |
| `CacheWarmer` | runs, gate, status, progress, nightly loop | the outcomes of `UpstreamCache` |
| `CacheWarmerProofs` | theorems about `CacheWarmer` | |
| `PosterSync` | slots, workers, streams, cooldown file, picks, panel restarts | |
| `PosterSyncProofs` | theorems about `PosterSync` and `PosterCandidates` | |
| `PosterCandidates` | ranking and fallback of candidates, the language check | pure operators |
| `PlexWatchdog` | the health route, the watchdog's loop, the restart route | |
| `ArrRemediation` | three remediation requests over the queues and pools of two apps | |
| `ArrRemediationProofs` | theorems about `ArrRemediation` and `QueueReports` | |
| `QueueReports` | the read-only reports on queues, loops, backlog, commands | pure operators |
| `ListSync` | two ticks and an import by hand, id cache, library, tracked lists | |
| `ListSyncProofs` | theorems about `ListSync`, `ArrRequests` and `Maintenance` | |
| `ArrRequests` | requests of several calls | pure operators |
| `Maintenance` | backup polling, deletion of failed history | pure operators |
| `FleetRestart` | restart-all, single restarts, mounts | |
| `RateLimit` | the rate limit of one route for one client, line by line | |
| `FleetRestartProofs` | theorems about `FleetRestart`, `RateLimit` and `Catalog` | |
| `Catalog` | install and remove, call by call, two at a time | pure operators |
| `LibraryAudit` | three audit scripts, read by read, in a changing library | |
| `TmdbAudit` | the audit of TMDb links | pure operators |
| `ScriptProofs` | theorems about `PlexWatchdog`, `LibraryAudit` and `TmdbAudit` | |
| `MC*` | instances, symmetry, conjunctions of the pure modules' properties | |

**SingleFlight.** `slot` is `_inflight`. A caller is `out`, or between two accesses of the
dictionary: it has missed (`LookMiss`) and will try to claim (`ClaimWon`, `ClaimLost`), or
it waits for a task. `SetOutcome`, `TryRemove` are the steps of `RunAndCompleteAsync`.
A task identity is reused once nothing refers to it, which is what a garbage-collected
`TaskCompletionSource` allows and what keeps the model finite.

**UpstreamCache.** One execution is `FetchCoreAsync`, split where it awaits and where the
store is touched: `ReadRow`, `ServeFresh` or `Send`, `Reply` (the provider), then one
action per way of handling the reply. `work[r]` holds the locals, in particular the row
and the `now` read at the start. `Publish` replaces the provider's content, `Tick`
advances the clock, `PurgeExpired` deletes rows. A body is a version number.

**ImageCache.** Each row operation and each file operation is a step. `urls` is a
sequence, oldest first, as `GetOldestUrls` orders it; `sized` are the rows that hold a
path and bytes. `evict[h]` is the snapshot that the eviction of `h`'s download still has
to walk through. `Crash` forgets every thread and keeps rows and files. `ImageEviction` adds
one variable that no step reads: `missed`, the rows with bytes that were not in the batch
when an eviction read it.

**CacheWarmer.** `pc` follows `RunAsync`; `run` holds the counters of a run, `worker` the
bodies of `Parallel.ForEachAsync`. `WarmLanguage` reads the progress and
`WriteProgress` writes it back, as `UpdateProgress` does. Exceptions are of two kinds,
because the code's catch clauses tell them apart: any exception, and a cancellation,
which is also what a client timeout raises (`TimeoutEscapes` in `UpstreamCache`).

**PosterSync.** `slot[k]` is the `running` flag and the queue of one kind of job, `job` the
threads started so far, with the copy of the cooldown file each read (`Listed`). `Applied`
uploads a poster and `Stamp` saves that copy, two steps with a restart possible between
them. `Pick` and `Record` are a manual pick, which reads and writes the file itself. A
stream (`tab`) takes a line or finds none, and only then looks at the flag
(`TakeNothing`, `LookAtFlag`). `lastAuto`, `unsaved` and `pick` are history: what was
applied, and what of it was recorded.

**PlexWatchdog.** One poll is one action, because the loop is sequential: `PollFails`, or
`PollAnswers` with any signals. `Health` is the route, `Classify` and `LagAge` the
debouncing, `ContainerRestart` the route that a restart is posted to. Stamps are kept as
ages that stop growing at the largest threshold.

**ArrRemediation.** A record is an item and the number of its grab, since a new grab gets a
new id. The apps (external) schedule a refresh, run one command at a time, search, grab
and import. `fix`, `stick` and `import` are the locals of the three requests; each HTTP
call of theirs is an action, and a call that times out may have been carried out
(`FixDeleteTimesOut`). `LookUp` decides as `item_is_monitored` does: by the flag of the
object that came with the record, by a look-up where there is none, and as monitored when
the look-up fails. The flag of a record is taken to be the one of the moment the queue was
listed (`fix.listed`); a record without its object is as possible as one with it.
`fix.listed` also serves the properties, as do `fix.edited` (what changed since),
`fix.guessed` (failed look-ups) and `fix.removed` (what the request took out).

**ListSync.** `run[p]` is a tick or an import by hand: fetch the list, resolve what it
holds, read each library, add. A run that meets an error goes through `AfterFailure`,
which for a tick is the next row and for a vanished row the end. The two services differ in
where ids come from: Letterboxd through `cache`, MDBList from the list itself. A Letterboxd list is
read to its tenth page and its 720th film: `Position` says where a film stands and
`WithinReach` what is read (`MaxFilms`). An import by hand may ask for less, which is any
nonempty part of that.

**FleetRestart.** `stage[w]` walks the worker's loops, `left[w]` is what the present loop
has still to do. `mounted` counts the provider's starts; a container that binds the
mount keeps the instance it found (`bound`). A restart-all that cannot list the
containers starts no worker and changes nothing: it is no step here. Its rate limit is a
module of its own, so in this one a restart-all may be asked for at any time. The two share
no state and are checked in one run, whose behaviours are those of the fleet and those of
the limit (`PanelSpec`).

**RateLimit.** The threads of one client's requests share a list of times without a lock, and
every line of `_check` that touches it is a step: `Look` reads the clock, `While` and
`TestHead` test whether the head is too old, `Pop` drops whatever is the head by then (and
raises if there is none), `Compare` tests the length, `Admit` appends the time that was
looked at. The list is what is left of `admitted` from `head` on. `PanelStarts` empties it,
as it lives in memory. `taken` (drops of what was not too old for the thread that dropped
it) and `crowd` (the most threads that were inside together) are history.

**LibraryAudit.** `World` changes one title at a time; each script has its own start, and each
of its reads is an action.
`past` remembers every fact that held while the script ran, so that a report can be held
against the whole of its run instead of against one instant nobody could observe.

**The pure modules** (`PosterCandidates`, `QueueReports`, `ArrRequests`, `Maintenance`,
`Catalog`, `TmdbAudit`) translate functions whose only state is what they read. What each
call meets, a failure included, is an input, and their properties quantify over a bounded
set of inputs; `Catalog` runs two requests in every order of their Docker calls, the
removal of each volume a call of its own. Each
is checked in the run of the component it belongs to, conjoined with that component's
type invariant. What runs call by call or round by round (the requests of `Catalog`, the
clearing of a blocklist) is a recursive function and not a recursive
operator, so that theorems can speak of it.

Operators introduced by a comment that begins with "Defect:" are not part of the
specifications. Each is a variant of the definition after it with a plausible bug;
replacing that definition by the variant must make the run of the named property fail
(`mutants` in `PROJECT.json`).

## 3. Runs

| Run | Instance | Properties |
|---|---|---|
| `single_flight` | 2 callers, 2 keys, 3 tasks, both outcomes | `OneExecutionPerKey`; `UnremovedOwnsItsSlot`; `ImplementsSharedFlight`: the loop refines the promise; `EveryFlightLands`: waiters answered, no sticky entry |
| `upstream_cache` | 2 callers, 1 key, 2 versions, TTL 1, 1 retry, 3 calls | `CacheTruthful`: newest body kept, 429s counted once, hits within requests, TTL bounds the age; `OutageServesStored`; `EveryCallAnswered` |
| `image_cache` | 2 hashes, 2 mappers, cap 1 image, a batch that covers the table | `FilesAreKnown`; `EveryFetchEnds` |
| `image_cache_crash` | batches of 1 row, plus purge and crash | `CapEnforcedInBatches`: what an eviction was given it deals with; above the cap stay only the bytes of rows that a batch left out |
| `cache_warmer` | nightly + 1 request, 2 bodies, 2 movies, 1 series, 2 languages | `OneRunAtATime`; `NeverStuckRunning`; `ProgressTruthful`: results account for the inventory, progress never leads and stays within its total; `LastResultKept` |
| `cache_warmer_live` | one ARR URL unset, 1 language | `GateReleased` |
| `poster_sync` | sync and scan, 1 item, 2 jobs, 1 stream, 1 pick, 1 panel restart, 2 ticks | `NothingLost`: a taken slot has one live worker, the tally covers the listing, no stream leaves before its job; `AutoSpaced`; `QuietPickKept`; `SlotFreed`; `PostersWellChosen`: the automatic sync takes the review's first candidate, a miss means that no configured source holds a poster, no false mismatch |
| `plex_watchdog` | thresholds 2, 3 and 4, pauses of 1 or 2, 2 progress values | `LagCountsFlatTime`; `AlertsTruthful`: unreachable means a run of failed polls, a recovery names the last failure; `RestartsWarranted`: spaced and justified; `TroubleAsksForRestart`: while contention or a standstill lasts, the watchdog keeps asking the panel for a restart |
| `arr_remediation` | a movie and an episode, 1 grab each, 1 fault, 1 bulk search, 1 late refresh, 1 edit | `NothingDropped`: an item that was monitored from the listing to its removal is searched for or reported; `UnmonitoredLeftAlone`: one that was unmonitored from the listing on is not searched for, unless a look-up failed; `ImportWorkerKept`; `FailedRemediated`; `QueueReportsTruthful`: what is called downloading moved, one source down costs its own items, a series to review is not unmonitored episode by episode, an estimate is there exactly with recent imports and has their value, the command views agree |
| `fleet_restart` | the mount's four containers, one other, 2 restart-alls, 1 trouble: a restart that fails, a click of somebody else or a restart of the panel; of the limit, 2 threads, limit 2, window 1, clock to 3, 4 let through | `FreshAfterRestartAll`: nobody is left on a stale mount, even by two overlapping runs; `EverythingUpAgain`: restart-all ends, and what it leaves is up; `CatalogTold`: what install and remove answer is so in every order of two; `LimitHolds`: since the panel started, no window lets more through than the limit, one less than were inside together and one for each drop in place of another |
| `list_sync` | a film with a match, one without, one beyond the part of its list that is read, and a series; a Letterboxd list and two MDBList lists; 1 fault, 1 untracking, 1 import by hand | `ReportsTruthful`: cache, reports and library agree; `QuietTickReachesAll`; `TrackedFilmsAdded`: of every list, the part that is read; `RequestsTold`: toggle, manual import, blocklist, import lists, backups and deletions report what they did, and paging hides no more than left the list |
| `library_audit` | a movie and two series, one a disc image; 2 changes, 1 failing read; each of three scripts | `ReportsBacked`: what a report says was so at some moment of its run, a failed series makes no false orphan, a row to download again was dead; `FoldersSafe`: no file and no known movie's folder is removed; `TmdbAuditSound`: an outage is not a miss, a remake is not the movie |

Every run must pass. What a comment or a docstring promises and the code does not do is in
section 5, with its place.

**Bounds.** The races in the flight and the gate are pairwise, so two or three actors
meet every one. One key suffices for `UpstreamCache` because executions of distinct keys
share only counters. `MaxVersion = 2` is one publication, enough for an overtaken answer;
`MaxClock = 1` lets a row expire at TTL 1; `MaxRequests` lets calls start after others
were answered or failed. Two hashes with a cap of one image make every download
evict; of the batches of 1024 and 10 rows, `image_cache` meets the case of a batch that covers
the table and `image_cache_crash` that of a table larger than the batch (one row of two). Two entries
and two bodies lose updates, two languages separate the counting of movies from that of
series.

In `PosterSync` two jobs are enough for a stream to outlive its job's slot and for a
second sync to meet the first one's stamps; two ticks pass a cooldown of one. The
watchdog's thresholds keep the order of the real ones (alert < restart < cooldown), and
a pause of two jumps over a threshold. One fault anywhere in `ArrRemediation` fails any
one call, and one edit is one unmonitoring, one repair or one re-enabled setting; an
episode may be unmonitored from the start. In `FleetRestart` two runs overlap in every
way, and the one trouble is a restart that fails, another request's restart, stop or
start of a container, or a restart of the panel; a container outside the mount may be
down from the start. `ListSync` runs one tick at a time beside
an import by hand: both services go through the same library and the same id cache. Two
threads in `RateLimit` are enough to compare together, or for one to drop what the other
had looked at, and a clock of three passes the window of one twice.
`LibraryAudit` runs one script at a time, since the scripts share no state.

**Deadlock** is not checked where the system may stop: bounded calls, clocks, budgets of
faults and troubles, a stopped host. The watchdog's loop, the flight and nothing else must
go on for ever; their runs check it.

**Fairness.** Weak fairness on the steps of work that has started. In Metacache, .NET
schedules continuations, every send ends within HttpClient's 30 s timeout with an answer
or an exception, and a retry wait is capped (`EffectiveMaxRetryDelay`). In the panel every
call has a timeout, so a live thread goes on: `Work(j)` of a poster job, `Work(w)` of a
restart-all, `Work(p)` of a tick (an import by hand needs none). Fairness is also assumed of what starts again by
itself: cron posts the autofix (`StartFix \/ Fix`), systemd keeps the watchdog running
(`Next`), the timers start both ticks (strong fairness on `StartTick(p)`, which another
tick may disable now and then), and each app schedules its refresh or runs its pool, whichever
it can (`Schedule(a) \/ Pool(a)`). A container that runs becomes healthy (`BecomesHealthy`). Nothing is
assumed about new calls, publications, clocks, purges, triggers, users, failures or
the end of either.

## 4. Proofs

Two kinds of theorem are stated. Those about a module with steps say that its
specification has the property, for every value of the constants. Those about a pure
module come in two forms: the property the run checks holds in every state, which is a
fact about the bounded inputs its definition names, and, where it is true beyond them, a
theorem of its own says so of inputs of any size. Where such a proof goes over a list,
a history or a number of rounds, it takes a least counterexample (`NatLessThanWellFounded`
and `WFMin` of `WellFoundedInduction`): the library's induction theorems have an operator
as a parameter, which the provers cannot instantiate.

`ImageCacheProofs`, of `SingleFlight`, for any sets of callers, keys, tasks and outcomes:

- `FlightTypeCorrect`: the type invariant.
- `RegistrationSafe`: a task that has not been removed is the entry of its own key
  (`UnremovedOwnsItsSlot`).
- `ThunderingHerd`: at most one execution per key is in progress (`OneExecutionPerKey`).
- `LoopIsAtomic`: every step of the loop is a step of `SharedFlight` or stutters
  (`ImplementsSharedFlight`).

The only assumptions are that `None` is no key, task or outcome and that a failure is an
outcome. One execution per key is not inductive: a claim that finds the key free must know
that no unremoved task still runs for it. The invariant `FlightInv` adds that an unremoved
task owns its slot, and that a caller inside the loop has a key. `ThunderingHerd` follows,
because two tasks in progress for one key would both be its only entry. The refinement
uses the identity mapping on every variable but `pc` and `held`: a caller inside the loop,
whether it is about to look or about to claim, is `calling`; `LookMiss` and `ClaimLost`
stutter.

`ImageCacheProofs`, of `ImageCache` and `ImageEviction`, for any hashes, mappers, cap and
batches:

- `TypeCorrect`: the type invariant, with purges and crashes.
- `NoFileEscapes`: while nothing is purged and the process lives, a cache at rest holds no
  file without a row (`FilesAreKnown`).
- `CapHolds`: a download that is alone past its row leaves the total within the cap, or no
  bytes but those of rows that some batch left out (`CapEnforcedInBatches`), with purges and
  crashes, however many rows the table has.

Assumed are a cap and batches that are numbers (`CapAssumption`) and finitely many hashes
(`HashAssumption`). `NoFileEscapes` names the conditions that the code does not bring about by
itself: a purge leaves files, and a crash too. `CapHolds` needs none; where every batch
holds the whole table nothing is ever left out and it says that the cap holds. The invariant of the
first says whose a file without a row is, a download's that is about to write the row or
an eviction's that is about to delete the file (`FilesAccounted`). For the second, a total
above the cap is somebody's business, unless nobody is at work as after a crash: some
download past its row is yet to take its snapshot, or its snapshot still holds every row
with bytes that no batch left out (`CapWatched`, `Covered`). A download that adds a row has
its own look still before it, and one that ends alone has walked through everything it
was given. A row that was left out counts again once its image is stored again.

`CacheWarmerProofs`, for any triggers, bodies, inventories and languages:

- `TypeCorrect`: the type invariant.
- `GateExcludes`: runs do not overlap (`OneRunAtATime`).
- `StatusTruthful`: a status that says "running" is of a run that holds the gate
  (`NeverStuckRunning`).
- `ProgressHonest`: the progress shows no more than was warmed (`ProgressNeverLeads`, one
  part of `ProgressTruthful`).
- `RunsAccounted`: besides, the result of a run over one inventory accounts for every
  entry of it, and its progress stays within its total (`ProgressTruthful`).
- `ResultKept`: the last result changes only when a run lands (`LastResultKept`).

The assumptions are `WarmAssumption` (the parts, counts and number of languages are what
their names say, and `Parallel.ForEachAsync` has finitely many bodies) and
`NoneAssumption`. The inductive invariant adds to the properties
that a call knows its source until it is answered, that whoever is inside holds the gate,
that the status says "running" exactly from `Begin` to the step that publishes the result
or the failure (`StatusFollowsRun`), that bodies work only in the loop, and that a body
about to write the progress has warmed one item more than it read (`WritersBehind`). The
last one is why lost updates make the progress lag and never lead: the number of items
grows between a body's read and its write, whatever the others do.

`RunsAccounted` needs a balance sheet of the loop (`Balanced`), for a result says what
came of the entries and a state in the loop has entries that nothing came of yet. The
entries left, bad and at work are never more than the inventory; the items, the languages
the bodies still owe, all languages of the entries left and one language for each bad
entry are never more than the languages of the inventory; and unless a cancellation ended
the loop, they are no fewer once a bad entry counts with all its languages. An entry that
turns bad after its first language is why the two sides count it differently, and a
cancellation only keeps the upper side, which is enough because such a run publishes no
counts. What the bodies owe is the cardinality of a set of pairs of a body and a language
(`Owing`): a step of a body changes the pairs of that body alone, so no sum over the
bodies is needed.

`UpstreamCacheProofs`, for any callers, keys, policy, bounds and interleaving:

- `TypeCorrect`: the type invariant, the bound on a row's hits included.
- `CacheHonest`: stored bodies never go back, the TTL bounds the age of what is served
  without a failure, and hits, requests and 429s are counted truthfully (`CacheTruthful`).
- `OutageBridged`: while a row is stored no call fails because of a status or a transport
  failure (`OutageServesStored`).

Assumed are a policy of the right types (`PolicyAssumption`), bounds that are numbers, and
finitely many callers and tasks, of which `None` is none (`FlightAssumption`: the counters
are compared with the number of calls under way). The rows, the locals of an execution and
the counters each need their part. A row of a key is the newest body stored, which was
current when the row says (`RowOK`); the same holds of the row an execution has read, and
its answer is at least as new (`Local`), because whoever works for a key owns the key's
slot (`FlightOK`) and nobody else writes its row: the purge takes a row away and never puts
one there. Whatever counts hits leaves room for the calls under way (`CountsOK`), which is
why no row counts more hits than there were calls.

`PosterSyncProofs`, for any library, listing, cooldown, jobs, streams, picks and restarts:

- `TypeCorrect`: the type invariant.
- `NoneLost`: a taken slot has its one live worker, tallies cover the listing, no stream
  leaves before its job (`NothingLost`).
- `Spaced`: two automatic posters of an item are a cooldown apart (`AutoSpaced`).
- `PickStays`: a pick that no sync's copy could overwrite is kept (`QuietPickKept`).
- `AutoPicksFirst`: the automatic sync applies the first candidate that a review shows,
  from the same source, for any catalogues and any limit.
- `MissMeansNone`: a miss means that no configured source holds a poster, and the source
  used is the first in the order that does, for any catalogues.
- `FirstIsBest`: no poster of the list, however long, is rated above its first.
- `PostersChosen`: the sampled catalogues and tracks are judged rightly in every state
  (`PostersWellChosen`).

Assumed is that the listing is a sequence of the library's items and `None` no number
(`PosterAssumption`). The two properties about the cooldown file are about what was applied
and what a restarted panel reads, so the invariant says of the file and of every copy that
a sync will still save that nothing saved is missing from it (`Keeps`, `CopiesKeep`), that
no stamp is ahead of the clock (`Past`), and that what a sync looks up is cool by its own
copy (`LookupsCool`). One worker per slot needs that a job that lives is the one its slot
names (`SlotHasWorker`).

`ScriptProofs`, of `PlexWatchdog`, for any thresholds, pauses and progress values:

- `LagIsFlat`: the lag counts from the last change of the progress (`LagCountsFlatTime`).
- `AlertsTold`: the alerts name what happened (`AlertsTruthful`).
- `RestartsWellFounded`: the restarts asked for are spaced and justified
  (`RestartsWarranted`).

`WatchdogAssumption` orders the thresholds and gives every restart a threshold above zero.
The invariant adds that the alert that stands while polls fail is the last failure, and
that the age of the stamp is the age of the last restart asked for: the two are kept by
different branches of the loop.

`ScriptProofs`, of `LibraryAudit` and `TmdbAudit`, for any titles, scripts, changes and
failing reads:

- `AuditTypeCorrect`: the type invariant.
- `ReportsHold`: what a report says was so at some moment of the script, fact by fact, and
  every row to download again was dead (`ReportsBacked`).
- `FoldersKept`: no file and no folder of a movie that Radarr knew when it was asked is
  removed (`FoldersSafe`).
- `CandidateIsItself`: if a search has the movie itself among its results, however many
  there are, the candidate has its title and no other year.
- `TmdbSound`: no outage is a miss and no remake is the movie, on every sampled search
  (`TmdbAuditSound`).

`AuditAssumption` keeps movies and shows apart and takes the disc images from the titles.
What a report says is put together long after it was read, so the invariant carries a
witness: every fact of the library of now is among those of the past (`Witnessed`), and
what a script has read of a title, or has not found where it read without a failure, is
among them too, read by read (`ReconcileOK`, `BadFilesOK`, `FoldersOK`). A failed read
moves a title to `unread` instead, and that is where a false orphan would have to come
from.

`ArrRemediationProofs`, for any items, downloads, faults and interleaving:

- `TypeCorrect`: the type invariant.
- `NoneDropped`: an item that the autofix took out, and that was monitored from the listing
  of the queue to the delete, is in the posted search or in the report (`NothingDropped`).
- `UnmonitoredSpared`: an item that was unmonitored from the listing on is not searched
  for, unless a look-up failed (`UnmonitoredLeftAlone`).
- `WorkerKept`: no request takes a command that has started, or the refresh
  (`ImportWorkerKept`).
- `EtaIs`: a backlog has an estimate exactly if something is missing and two imports are
  remembered, the newest of them from the last hours, and it is what the missing take at
  the rate of those imports over the longest time between two, for a history of any length.
- `OldestAreShown`: nothing that waits and is not shown is as old as what is shown, for a
  pool of any size and whatever was queued at the same time.
- `ReportsTold`: the panel's reports are so on every sampled answer
  (`QueueReportsTruthful`).

`RemediationAssumption` keeps movies and episodes apart and the items finite, and says that
a download is one app's. `NothingDropped` speaks of the end of an app; between the calls the
debt is what was removed, less what is listed for the search or reported, less the record
in hand (`Owed`). An item that nobody edits since the listing has the same flag in its
record and in any look-up, so it does not matter which of the two decides: `Owed` says so
of what stayed monitored (`Steady`), `Spared` of what stayed unmonitored (`Unwanted`). Of
an item that is edited in between the theorems do not speak (section 5). The cancelled
commands are copies of commands that waited (`CancelsSearches`); the apps may have started
them since, and the step shows that the app then refuses. That the oldest commands are
shown needs no account of the sort: ranks by age and place are a bijection from what waits
to an interval, and what is shown are the lowest.

`ListSyncProofs`, for any lists, items, failures, imports and overlapping runs:

- `TypeCorrect`: the type invariant.
- `ReportsHonest`: cache, reports and library agree (`ReportsTruthful`).
- `TickReachesAll`: a tick that no untracking disturbed takes all its lists
  (`QuietTickReachesAll`).
- `TogglesMend`: a toggle of any number of indexers that tells of a success has switched
  the search, and after one that failed anywhere the next one leaves what it would have.
- `PollsTold`: a backup is called completed, or still running, only if it was, but for one
  poll or one delay of an answer, for any interval, time-out and delay.
- `DeletionsAre`: the deletion of failed history counts what it takes and what stays, takes
  no completed entry, and a second one takes the rest, for any history and any faults.
- `AiredAreListed`: every missing episode that aired is listed, but for as many as left the
  list between two pages, for any list, size of page and leaving titles.
- `ClearsCount`: a clearing of a blocklist counts what it removed, but for one page, and
  calls only an empty list cleared, whatever is added and whichever call fails.
- `RequestsHold`: all of these and the imports by hand and import-list tokens on every world
  that the run tries (`RequestsTold`).

`ListAssumption` says that the two services' lists and works are apart and that `"none"` is
no list. An item is reported once, by the last application that takes it. The invariant
says how it gets there: whatever is not yet in the report is still among the ids and its
application is this one or still to come (`Covered`), and what a run counts on was in the
library when it read it and nothing leaves the library (`Backed`).

The pages of `AiredAreListed` end where nothing beyond has aired, so an episode is hidden
only if it moved to a page that had been read; places are counted, and no more titles move
over the edge than have left. `ClearsCount` goes round by round: what is gone is what was
counted until the round whose answer is lost.

`FleetRestartProofs`, for any stack with one mount provider, any number of workers and
troubles:

- `TypeCorrect`: the type invariant.
- `AllUp`: a restart-all that ends clean leaves everything running (`EverythingUp`, one
  part of `EverythingUpAgain`).
- `MountsFresh`: the last one to end clean leaves every user of the mount on the present
  instance (`FreshAfterRestartAll`).
- `CatalogTells`: of any number of installs of one program at most one says that it did, and
  then it runs; of removals likewise, and then it is gone, with the volumes that the answer does
  not name as kept; no data is lost that nobody asked to delete, and what is left can be removed and installed.
- `CatalogHolds`: two requests do what they say in every order of their calls
  (`CatalogTold`).

`FleetAssumption` is the shape of the code's tables: one provider, no empty stage, no
container in two stages, the panel in none. Freshness at the end is far from inductive. The
invariant says, of any moment at which a clean worker is under way, that each container
on an earlier instance is still ahead of some worker (`StalePending`), which holds because
a worker that restarts the provider has all the users before it, and that the mount is
there unless some worker has still to wait for it (`MountComes`).

`FleetRestartProofs`, of `RateLimit`, for any threads, limit and window:

- `LimitKeeps`: since the panel started, a window lets at most the limit through, but for one
  less than were in the check at once and one for each drop in place of another; requests
  that do not overlap never drop for another (`LimitHolds`).

What is listed, or compared already and about to be, is at most the limit and the
overlap (`Listing`): every thread that compared did so while the rest of it was below the
limit, and those that compared with it are inside. What is no longer listed was too old for
whoever dropped it, and so it is now, or it is in `taken` (`Dropped`).

Every module's type invariant is part of its inductive invariant, so the runs repeat none
of those that are proved.

**Only model-checked:**

- All liveness: `EveryFlightLands`, `EveryCallAnswered`, `EveryFetchEnds`, `GateReleased`,
  `SlotFreed`, `TroubleAsksForRestart`, `FailedRemediated`, `RestartAllEnds`, `TrackedFilmsAdded`.
  Fairness and ENABLED are beyond the prover.

Every invariant and every action property of the runs is a theorem. `AllUp` is the
safety half of `EverythingUpAgain`, whose other half is `RestartAllEnds`. Of the pure
modules' properties, the judgement of languages, the outages in the TMDb audit and, in
the panel's reports, the two samples of the queue, the failing
sources, the loops and the series to review are proved for the inputs that their
definitions name and for no others.

## 5. Where code, comments and expectations part

What the models take as the code has it, and what a reader of the code may not expect.
Where a comment, a docstring or the table of routes promises the opposite, its place is
named. No run states any of these as a property, because they do not hold; the steps that
break them are in the modules.

Metacache:

- A client timeout is not answered from the stale row, unlike a status or a transport
  error: it is a `TaskCanceledException`, which no catch of `FetchCoreAsync` names.
- The selective purge deletes rows and keeps the files, although its comment
  (`Host/AdminEndpoints.cs:111`) promises the files.
- A registration overwrites the row of a download that landed between its look and its
  write (`ImageCache.cs:78` says that such a row is left untouched), and eviction deletes
  registrations that hold no bytes (`ImageCache.cs:75-77`).
- In a table of more than 1024 rows one eviction may delete only rows without bytes and
  leave the total above the cap, although "the store is bounded by [...] a total-bytes cap"
  (`ImageCache.cs:35-36`). A crash between the file and its row leaves a file that no cap
  counts.
- A warm run over both inventories passes 100 %. A failed run leaves its progress behind:
  `NeverStuckRunning` speaks of the status only.
- One request timeout ends the nightly schedule for good: it passes both catches as an
  `OperationCanceledException`.
- A caller told of a failure can call again before the entry is removed and be handed the
  same failure. The stale ceiling is measured when an execution starts; its retries
  come on top. A resize can write its variant after its original was evicted.

Control panel and scripts:

- A pick made by hand while a sync runs is erased from the cooldown file by the sync's
  next save (`services/posters/router.py:166`). The last line of a job can miss its stream.
  That the sync and the review agree is stated for one primary source; their defaults
  differ (`posters/router.py:40` and `:45`).
- A track tagged `en-us` is flagged as a mismatch in an English library; the code compares
  whole tags with two-letter codes (`quality.py:65`).
- The watchdog posts restarts without `activated=true`, which the route refuses for Plex
  with 400 (`services/host/router.py:92-97`): it restarts nothing,
  although lock contention is to "auto-trigger Tier 1 (plain container restart)"
  (`plex-health-monitor.py:21-22`). `RestartsWarranted` and `TroubleAsksForRestart` speak of the
  requests.
- Every "busy database" line in the last 512 KB of Plex's log counts as recent, those from
  before the last restart too. An outage replaces the alert that stands, and the time of
  a media analysis counts as lag. The watchdog's properties accept all three.
- Whether an item is monitored is taken from its queue record when the object is there
  (`arr_client.py:153-155`), although the comment above says "always confirm via a direct
  lookup by id instead of trusting it blindly" (149-152). One that was
  unmonitored at the listing and is monitored again before the delete is removed, neither
  searched for nor reported; `NothingDropped` does not speak of it. A later pass on a starved
  app may cancel the posted search: `SEARCH_COMMANDS` holds the names it posts
  (`import_starvation.py:43-47`, `:162`), although a "targeted single-item search is fine and
  must not be cancelled" (`:39-41`).
- A source that fails at the first of the two queue samples has all that it loads called
  stalled (`services/queue/router.py:30-31`, `:56-64`), although items are bucketed "using the
  *observed* delta" (`:5-7`).
- One app whose queue cannot be read ends the autofix before the next app is looked at.
  A look-up that fails reads as "monitored". Unstick-importing can leave half of a pack
  deleted and never searched for. The storm brake writes back the whole configuration it
  read, over a change made in between. Queues are read as one page of 250 records, which
  the model does not cut. The searches of the model are finitely many and drain in the end,
  so a backlog that is never cleared would not be seen.
- Requests that overlap in the rate limit's check get past it, because the comparison
  (`rate_limit.py:43`) and the append (51) are two steps without a lock ("limits
  `max_requests` per `window_seconds` per client IP", 17-18), and a panel that restarts has forgotten every request; `LimitHolds` counts from its start.
- A restart-all that lost its patience with a provider (60 s) restarts the consumers all
  the same; one whose panel is restarted leaves the rest as it was. `EverythingUpAgain`
  says nothing of mounts: whether overlapping runs leave stale ones is
  `FreshAfterRestartAll`.
- A Letterboxd list is read to its tenth page and its 720th film, as its route says
  (`media-stack/README.md:1239-1240`); a film beyond is never added. An import by hand may
  set a limit of its own, which for MDBList ends the reading after a whole page; the model
  lets it take any part.
- A list untracked during a tick ends that tick. A log row that cannot be written is not
  modelled. A page without an id is cached as such
  for ever.
- A read timeout is a `TimeoutError`, which `arr-app-backup.py:87` does not name: the
  script ends without the second app's backup and without a message.
- When one series cannot be read, its dead files are listed as tracked by nobody, against
  the comment at `checkrr-badfiles-report.py:461`, and the printed commands use the
  container's port. The reconciler takes every file for gone when its look into the
  container did not run.
- A movie added after the second question to Radarr loses its new, empty folder.
- Missing-aired leaves out what moves to a page it has read (`services/arr/router.py:551-581`;
  "Monitored + no file + already-aired", `media-stack/README.md:1025`). `RequestsTold` bounds
  how much.
- Left out are `--no-verify` of `checkrr-badfiles-report.py` and `--json` of
  `plex-arr-reconcile.py`.
- In `audit-tmdb-links.py` the best score may belong to a title below the threshold and
  hide one above it (line 168; the docstring at 151 speaks of any result). What is proved is
  about searches that hold the exact title and year.
- A failed episode look-up lowers its series' count, and a suggestion to review the
  profile turns into one to unmonitor. A year in parentheses at the end of a name reads
  as the suffix of a duplicate. A blocklist whose bulk delete removes nothing is read
  for ever.

## 6. Not modelled, and why

- **Provider clients.** They build URLs and deserialize. Two small state machines are left
  out: the authentication probe, whose task is read outside its lock and cleared by
  whoever awaited it (`TmdbClient.cs:302`), and the token cache, where a 401 is answered
  from a stale row before the login is renewed (`TvdbClient.cs:73`).
- **Both caches on one flight.** The flight is shared by caches with different result
  types (`SingleFlight.cs:65`); each cache is composed with a flight of its own here.
- **The top-list script.** `mdblist_toplists_import.py` promises to register
  "every list" (2-3) but sends neither cookie nor key (105, 127) to routes that require one (`services/arr/router.py:743`,
  `:787`; `core/security.py:84-107`): the answer 401 ends every run at line 106, before
  its loop, and nothing after its first request is modelled.
- **Matching**: normalization and similarity of titles are properties of text.
- **Cache store** beyond the rows the caches use, **override endpoints**, **settings and hit
  counts**: single statements or transactions, no two of which belong together. The
  arithmetic of `WarmScheduler` on clock values.
- **Plex provider services, dashboards, authentication, request guard, host helper,
  webhook listener, WatchState, Seerr, ratings, Prowlarr and Cleanuparr endpoints**: each
  request is answered by itself from what another program says; nothing is kept.
- **Metadata item cache**: `CacheWarmer.RecordItem` writes what it warmed through `Put`, an
  upsert; nothing in production reads an item back (`GetFresh`, `GetOrFetchAsync`).
- **Proxy and certificates**: string rewriting; one lock from the look to the store.
- **Statistics, logs, disk reports, library refreshes** of the modelled routers: read-only
  single calls.
- **Provisioning scripts**: run once by hand. **Front end**: rendering of what the
  endpoints answer.

Left out everywhere: HTML and JSON rendering, URL building, logging, histograms,
wording of messages, certificate contents. Pages' markup and catalogue answers are the
sets of films, ids or posters they name.

What could be proved next: general forms of the remaining parts of `QueueReportsTruthful`.
