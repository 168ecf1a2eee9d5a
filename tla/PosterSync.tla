----------------------------- MODULE PosterSync -----------------------------
(***************************************************************************)
(* The poster jobs of the control panel, services/posters/router.py and    *)
(* services/posters/state.py.                                              *)
(*                                                                         *)
(* Three slots (sync, review, scan) admit one worker thread each.  A       *)
(* worker reports to a queue that event streams drain.  The sync worker    *)
(* reads the cooldown file once, applies posters to Plex item by item and  *)
(* saves its own copy of the file after each; a manual pick reads,         *)
(* changes and saves the file at once.  The panel may restart at any step: *)
(* threads, slots, queues and streams vanish, the file and Plex remain.    *)
(*                                                                         *)
(* Which poster is chosen is PosterCandidates.tla: here a lookup finds one *)
(* or not.  The lines of a queue are left out (any second may pass without *)
(* one), updated, skipped and failed are one sum, time is counted in       *)
(* ticks, and the file is the function from items to the stamps it holds.  *)
(***************************************************************************)
EXTENDS Integers, Sequences, FiniteSets

CONSTANTS
  Kinds,      \* the job slots in use, among sync, review and scan
  Items,      \* the library's items in listing order, a sequence
  Cooldown,   \* POSTER_COOLDOWN_SECONDS in ticks
  Requests,   \* threads that serve /api/posters/apply
  Tabs,       \* browser tabs that open event streams
  MaxJobs,    \* bound on the jobs started
  MaxTime,    \* bound on the clock
  MaxPicks,   \* bound on the manual picks
  MaxRestarts,\* bound on the panel's restarts
  None

Jobs == 1..MaxJobs
Library == {Items[n] : n \in 1..Len(Items)}
Time == 0..MaxTime

ASSUME PosterAssumption ==
  /\ Kinds \subseteq {"sync", "review", "scan"}
  /\ Items \in Seq(Library)
  /\ Cooldown \in Nat
  /\ MaxJobs \in Nat /\ MaxTime \in Nat /\ MaxPicks \in Nat /\ MaxRestarts \in Nat
  /\ None \notin Nat \cup [at : Nat, holder : Nat \cup {None}]

VARIABLES
  now,      \* time.time()
  file,     \* poster-sync-state.json: the stamp of each item, or None
  slot,     \* POSTER_SYNC_STATE and its siblings: running, and the job of the queue
  job,      \* the jobs started, in order
  tab,      \* per tab: its stream
  request,  \* per request thread: the item it picks a poster for
  picks,    \* manual picks so far
  restarts, \* restarts so far
  lastAuto, \* per item: when a sync last applied a poster, or None
  unsaved,  \* items whose last automatic poster was applied and not stamped
  pick      \* per item: the last manual pick that was recorded, or None

vars == <<now, file, slot, job, tab, request, picks, restarts, lastAuto, unsaved, pick>>

Stages == {"listing", "next", "lookup", "stamp", "exiting", "over"}
Job == [kind : Kinds, dry : BOOLEAN, stage : Stages, i : Nat, memory : [Library -> Time \cup {None}],
        counted : Nat]
NoStamps == [x \in Library |-> None]
Worker(k, dry, stage) ==
  [kind |-> k, dry |-> dry, stage |-> stage, i |-> 1, memory |-> NoStamps, counted |-> 0]

TypeOK ==
  /\ now \in Time
  /\ file \in [Library -> Time \cup {None}]
  /\ slot \in [Kinds -> [running : BOOLEAN, queue : Jobs \cup {None}]]
  /\ job \in Seq(Job) /\ Len(job) <= MaxJobs
  /\ tab \in [Tabs -> [stage : {"closed", "waiting", "empty", "ended"}, queue : Jobs \cup {None}]]
  /\ request \in [Requests -> Library \cup {None}]
  /\ picks \in 0..MaxPicks /\ restarts \in 0..MaxRestarts
  /\ lastAuto \in [Library -> Time \cup {None}]
  /\ unsaved \subseteq Library
  /\ pick \in [Library -> [at : Time, holder : Jobs \cup {None}] \cup {None}]

Init ==
  /\ now = 0
  /\ file = NoStamps
  /\ slot = [k \in Kinds |-> [running |-> FALSE, queue |-> None]]
  /\ job = <<>>
  /\ tab = [t \in Tabs |-> [stage |-> "closed", queue |-> None]]
  /\ request = [r \in Requests |-> None]
  /\ picks = 0 /\ restarts = 0
  /\ lastAuto = NoStamps
  /\ unsaved = {}
  /\ pick = NoStamps

Started == 1..Len(job)
At(j, stage) == j \in Started /\ job[j].stage = stage
Current(j) == Items[job[j].i]

PanelVars == <<file, request, picks, restarts, lastAuto, unsaved, pick>>

-----------------------------------------------------------------------------
\* A slot and its worker

\* The slot is taken under its lock and the thread started.
\* While it is taken the request is answered 409 and changes nothing.
Start(k, dry) ==
  /\ Len(job) < MaxJobs
  /\ ~slot[k].running
  /\ dry => k = "sync"
  /\ job' = Append(job, Worker(k, dry, "listing"))
  /\ slot' = [slot EXCEPT ![k] = [running |-> TRUE, queue |-> Len(job) + 1]]
  /\ UNCHANGED <<now, tab, PanelVars>>

Goto(j, stage) == job' = [job EXCEPT ![j].stage = stage]
NextItem(j) == job' = [job EXCEPT ![j].stage = "next", ![j].i = @ + 1, ![j].counted = @ + 1]

\* Plex could not be read, or there is no such library: one ERROR line.
ListFailed(j) ==
  /\ At(j, "listing")
  /\ Goto(j, "exiting")
  /\ UNCHANGED <<now, slot, tab, PanelVars>>

\* Defect: the sync starts from an empty state.
ListedAfresh(j) ==
  /\ At(j, "listing")
  /\ Goto(j, "next")
  /\ UNCHANGED <<now, slot, tab, PanelVars>>

\* A sync reads the cooldown file here, once.
Listed(j) ==
  /\ At(j, "listing")
  /\ job' = [job EXCEPT ![j].stage = "next",
                        ![j].memory = IF job[j].kind = "sync" THEN file ELSE NoStamps]
  /\ UNCHANGED <<now, slot, tab, PanelVars>>

\* poster_cooldown_remaining over the worker's copy.
CooldownRemaining(stamps, x) ==
  IF stamps[x] = None \/ now - stamps[x] >= Cooldown THEN 0 ELSE Cooldown - (now - stamps[x])

CoolingDown(j) ==
  /\ At(j, "next")
  /\ job[j].i <= Len(Items)
  /\ job[j].kind = "sync"
  /\ CooldownRemaining(job[j].memory, Current(j)) > 0
  /\ NextItem(j)
  /\ UNCHANGED <<now, slot, tab, PanelVars>>

\* Defect: the cooldown is not looked at.
LookUpRegardless(j) ==
  /\ At(j, "next")
  /\ job[j].i <= Len(Items)
  /\ Goto(j, "lookup")
  /\ UNCHANGED <<now, slot, tab, PanelVars>>

LookUp(j) ==
  /\ At(j, "next")
  /\ job[j].i <= Len(Items)
  /\ job[j].kind = "sync" => CooldownRemaining(job[j].memory, Current(j)) = 0
  /\ Goto(j, "lookup")
  /\ UNCHANGED <<now, slot, tab, PanelVars>>

\* A scan reports an item without a poster before any lookup.
ScanNoPoster(j) ==
  /\ At(j, "next")
  /\ job[j].i <= Len(Items)
  /\ job[j].kind = "scan"
  /\ NextItem(j)
  /\ UNCHANGED <<now, slot, tab, PanelVars>>

\* The item's metadata could not be read, or the chosen poster not be uploaded.
LookupFailed(j) ==
  /\ At(j, "lookup")
  /\ NextItem(j)
  /\ UNCHANGED <<now, slot, tab, PanelVars>>

\* No source has a poster; for a scan: nothing to flag.
NoCandidate(j) ==
  /\ At(j, "lookup")
  /\ NextItem(j)
  /\ UNCHANGED <<now, slot, tab, PanelVars>>

\* A dry run, a review and a scan only report what they found.
ReportFound(j) ==
  /\ At(j, "lookup")
  /\ job[j].kind = "sync" => job[j].dry
  /\ NextItem(j)
  /\ UNCHANGED <<now, slot, tab, PanelVars>>

\* A candidate is found and uploaded; an upload that fails counts like a failed lookup.
Applied(j) ==
  /\ At(j, "lookup")
  /\ job[j].kind = "sync" /\ ~job[j].dry
  /\ job' = [job EXCEPT ![j].stage = "stamp", ![j].counted = @ + 1]
  /\ lastAuto' = [lastAuto EXCEPT ![Current(j)] = now]
  /\ unsaved' = unsaved \cup {Current(j)}
  /\ pick' = [pick EXCEPT ![Current(j)] = None]
  /\ UNCHANGED <<now, slot, tab, file, request, picks, restarts>>

\* Under POSTER_STATE_LOCK the worker stamps its copy and saves all of it.
Stamp(j) ==
  /\ At(j, "stamp")
  /\ LET stamped == [job[j].memory EXCEPT ![Current(j)] = now] IN
     /\ file' = stamped
     /\ job' = [job EXCEPT ![j].memory = stamped, ![j].stage = "next", ![j].i = @ + 1]
  /\ unsaved' = unsaved \ {Current(j)}
  /\ UNCHANGED <<now, slot, tab, request, picks, restarts, lastAuto, pick>>

\* An exception that no handler names: an answer without the expected fields,
\* or a file that cannot be written.  The thread ends without a last line.
Raise(j) ==
  /\ \E stage \in {"listing", "lookup", "stamp"} : At(j, stage)
  /\ Goto(j, "exiting")
  /\ UNCHANGED <<now, slot, tab, PanelVars>>

Done(j) ==
  /\ At(j, "next")
  /\ job[j].i > Len(Items)
  /\ Goto(j, "exiting")
  /\ UNCHANGED <<now, slot, tab, PanelVars>>

\* Defect: the slot is released only by a worker that ends without an exception.
FinallyOnSuccess(j) ==
  /\ At(j, "exiting")
  /\ job' = [job EXCEPT ![j] = Worker(job[j].kind, FALSE, "over")]
  /\ slot' = [slot EXCEPT ![job[j].kind].running = job[j].i <= Len(Items)]
  /\ UNCHANGED <<now, tab, PanelVars>>

\* The worker's finally clause; its locals end with it.
Finally(j) ==
  /\ At(j, "exiting")
  /\ job' = [job EXCEPT ![j] = Worker(job[j].kind, FALSE, "over")]
  /\ slot' = [slot EXCEPT ![job[j].kind].running = FALSE]
  /\ UNCHANGED <<now, tab, PanelVars>>

-----------------------------------------------------------------------------
\* Event streams

StreamVars == <<now, file, slot, job, request, picks, restarts, lastAuto, unsaved, pick>>

\* Without a queue the answer is 404.
OpenStream(t, k) ==
  /\ tab[t].stage = "closed"
  /\ slot[k].queue # None
  /\ tab' = [tab EXCEPT ![t] = [stage |-> "waiting", queue |-> slot[k].queue]]
  /\ UNCHANGED StreamVars

\* queue.Empty after a second without a line; a line that is sent changes nothing here.
TakeNothing(t) ==
  /\ tab[t].stage = "waiting"
  /\ tab' = [tab EXCEPT ![t].stage = "empty"]
  /\ UNCHANGED StreamVars

\* Defect: a silent second ends the stream.
EndOnSilence(t) ==
  /\ tab[t].stage = "empty"
  /\ tab' = [tab EXCEPT ![t].stage = "ended"]
  /\ UNCHANGED StreamVars

\* The slot's flag decides, whichever job holds the slot by now.
LookAtFlag(t) ==
  /\ tab[t].stage = "empty"
  /\ tab' = [tab EXCEPT ![t].stage =
               IF slot[job[tab[t].queue].kind].running THEN "waiting" ELSE "ended"]
  /\ UNCHANGED StreamVars

-----------------------------------------------------------------------------
\* Manual picks

\* /api/posters/apply uploads first; a failed upload is answered 502 and ends it.
Pick(r, x) ==
  /\ request[r] = None
  /\ picks < MaxPicks
  /\ request' = [request EXCEPT ![r] = x]
  /\ picks' = picks + 1
  /\ UNCHANGED <<now, file, slot, job, tab, restarts, lastAuto, unsaved, pick>>

\* The sync worker that holds a copy of the file which it will save, if any.
CopyHolder ==
  LET holders == {j \in Started : job[j].kind = "sync"
                                   /\ job[j].stage \notin {"listing", "exiting", "over"}}
  IN IF holders = {} THEN None ELSE CHOOSE j \in holders : TRUE

\* Load, stamp and save in one critical section of POSTER_STATE_LOCK.
Record(r) ==
  /\ request[r] # None
  /\ file' = [file EXCEPT ![request[r]] = now]
  /\ pick' = [pick EXCEPT ![request[r]] = [at |-> now, holder |-> CopyHolder]]
  /\ request' = [request EXCEPT ![r] = None]
  /\ UNCHANGED <<now, slot, job, tab, picks, restarts, lastAuto, unsaved>>

\* The file cannot be written: the request fails after the poster was set.
RecordFails(r) ==
  /\ request[r] # None
  /\ request' = [request EXCEPT ![r] = None]
  /\ UNCHANGED <<now, file, slot, job, tab, picks, restarts, lastAuto, unsaved, pick>>

-----------------------------------------------------------------------------
Tick ==
  /\ now < MaxTime
  /\ now' = now + 1
  /\ UNCHANGED <<file, slot, job, tab, request, picks, restarts, lastAuto, unsaved, pick>>

\* The panel's container restarts; save_poster_state replaces the file in one step.
Restart ==
  /\ restarts < MaxRestarts
  /\ restarts' = restarts + 1
  /\ slot' = [k \in Kinds |-> [running |-> FALSE, queue |-> None]]
  /\ job' = [j \in Started |-> Worker(job[j].kind, FALSE, "over")]
  /\ tab' = [t \in Tabs |-> [stage |-> "closed", queue |-> None]]
  /\ request' = [r \in Requests |-> None]
  /\ UNCHANGED <<now, file, picks, lastAuto, unsaved, pick>>

Work(j) ==
  \/ ListFailed(j) \/ Listed(j)
  \/ CoolingDown(j) \/ LookUp(j) \/ ScanNoPoster(j)
  \/ LookupFailed(j) \/ NoCandidate(j) \/ ReportFound(j) \/ Applied(j) \/ Stamp(j)
  \/ Raise(j) \/ Done(j) \/ Finally(j)

Stream(t) == TakeNothing(t) \/ LookAtFlag(t)

Next ==
  \/ \E k \in Kinds, dry \in BOOLEAN : Start(k, dry)
  \/ \E j \in Jobs : Work(j)
  \/ \E t \in Tabs, k \in Kinds : OpenStream(t, k)
  \/ \E t \in Tabs : Stream(t)
  \/ \E r \in Requests, x \in Library : Pick(r, x)
  \/ \E r \in Requests : Record(r) \/ RecordFails(r)
  \/ Tick
  \/ Restart

Spec == Init /\ [][Next]_vars

\* A worker's calls have timeouts of at most 60 s, so a live thread goes on.
FairSpec == Spec /\ \A j \in Jobs : WF_vars(Work(j))

-----------------------------------------------------------------------------
\* Properties

\* The running flag and the thread agree: a slot has at most one live worker, and
\* it is taken exactly while that worker lives (posters_sync, posters_review,
\* posters_scan).
SlotMatchesWorker ==
  \A k \in Kinds :
    Cardinality({j \in Started : job[j].kind = k /\ job[j].stage # "over"})
      = IF slot[k].running THEN 1 ELSE 0

\* The DONE line's counts add up to the items listed, whichever lookups, uploads and
\* candidates failed on the way (run_poster_sync).
TallyComplete ==
  \A j \in Started :
    job[j].i > Len(Items) => job[j].counted = Len(Items)

AppliedAgain(x) == lastAuto[x] # None /\ x \in unsaved' \ unsaved
PickReplaced(x) == pick[x] # None /\ pick'[x] = None

\* Syncs never apply a poster to one item twice within the cooldown, across jobs,
\* manual picks and restarts, unless the stamp of the first was never saved.
AutoSpaced ==
  [][\A x \in Library : AppliedAgain(x) => now - lastAuto[x] >= Cooldown]_vars

\* A pick recorded while no sync holds a copy of the file is not replaced by a
\* sync within the cooldown.
QuietPickKept ==
  [][\A x \in Library :
       (PickReplaced(x) /\ pick[x].holder = None) => now - pick[x].at >= Cooldown]_vars

\* A stream ends only after the job it shows has ended (posters_sync_stream and
\* its siblings), although it looks at the flag of whichever job has the slot.
StreamOutlivesJob ==
  \A t \in Tabs : tab[t].stage = "ended" => job[tab[t].queue].stage = "over"

\* A job always frees its slot again, so that the next request is not answered 409
\* forever: failures, unexpected exceptions and restarts included.
SlotFreed == \A k \in Kinds : slot[k].running ~> ~slot[k].running

\* Nothing a job does is lost to its log: the slot stands for one live worker, its
\* tally covers the listing, and no stream leaves before it (run_poster_sync,
\* posters_sync_stream).
NothingLost == SlotMatchesWorker /\ TallyComplete /\ StreamOutlivesJob

=============================================================================
