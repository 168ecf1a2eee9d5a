--------------------------- MODULE ArrRemediation ---------------------------
(***************************************************************************)
(* The control panel's remediation of the Radarr and Sonarr queues:        *)
(* services/arr/router.py over core/arr_client.py and                      *)
(* core/import_starvation.py.                                              *)
(*                                                                         *)
(* Three requests run against the same two apps: the queue autofix that    *)
(* cron posts every five minutes, unstick, and unstick-importing.  Each is *)
(* a sequence of HTTP calls, and between two calls of one request the apps *)
(* and the other requests move on.                                         *)
(*                                                                         *)
(* An item is a movie or an episode.  A grab of it gives it a queue record *)
(* with a new id: <<item, grab number>>.  The apps themselves are outside  *)
(* the repository: a pool that runs one command at a time, a scheduled     *)
(* refresh that fills the queue and imports, searches that grab, and the   *)
(* search the app starts by itself for a record deleted as failed.         *)
(***************************************************************************)
EXTENDS Integers, FiniteSets

CONSTANTS
  Movies, Episodes,     \* the items of radarr and of sonarr
  Download,             \* the download of an item: a season pack is one of many
  StormThreshold,       \* failed_pending_storm_threshold
  MaxGrabs,             \* grabs of one item
  MaxFaults,            \* calls that fail or time out
  MaxSearches,          \* bulk searches posted by somebody else
  MaxLate,              \* times a refresh waits longer than the starvation threshold
  MaxEdits,             \* changes of what is monitored, and of the app's setting
  None

Items == Movies \cup Episodes
Apps == {"radarr", "sonarr"}
AppOf(i) == IF i \in Movies THEN "radarr" ELSE "sonarr"
OtherApp(a) == IF a = "radarr" THEN "sonarr" ELSE None

ASSUME RemediationAssumption ==
  /\ Movies \cap Episodes = {} /\ IsFiniteSet(Items)
  /\ None \notin Items \cup Apps
  /\ \A i, j \in Items : Download[i] = Download[j] => AppOf(i) = AppOf(j)
  /\ {StormThreshold, MaxGrabs, MaxFaults, MaxSearches, MaxLate, MaxEdits} \subseteq Nat

Records == Items \X (1..MaxGrabs)
DownloadState == {"absent", "downloading", "importing", "failedPending", "importBlocked"}
Command == [name : {"refresh", "bulk", "targeted"}, items : SUBSET Items,
            status : {"queued", "started"}]

VARIABLES
  state,      \* of an item's record in the app's queue
  grabs,      \* how often an item was grabbed: the id of its record
  monitored,  \* the items the app wants
  commands,   \* of each app's command queue
  late,       \* the refresh of an app has been queued for longer than the threshold
  auto,       \* autoRedownloadFailed of an app
  fix,        \* the queue-autofix request
  stick,      \* the unstick request
  import,     \* the unstick-importing request
  budget      \* faults, bulk searches, late refreshes and edits left: bounds

apps == <<state, grabs, monitored, commands, late, auto>>
vars == <<state, grabs, monitored, commands, late, auto, fix, stick, import, budget>>

IdleFix ==
  [pc |-> "idle", app |-> None, cancel |-> {}, todo |-> {}, cur |-> None, wanted |-> FALSE,
   tries |-> 0, failed |-> 0, ids |-> {}, errors |-> {}, removed |-> {},
   listed |-> {}, edited |-> {}, guessed |-> {}]
IdleStick == [pc |-> "idle", app |-> None, todo |-> {}]
IdleImport == [pc |-> "idle", app |-> None, todo |-> {}, blocklist |-> FALSE, research |-> {}]

Init ==
  /\ state = [i \in Items |-> "absent"]
  /\ grabs = [i \in Items |-> 0]
  /\ \E off \in SUBSET Episodes : monitored = Items \ off
  /\ commands = [a \in Apps |-> {}]
  /\ late = [a \in Apps |-> FALSE]
  /\ auto = [a \in Apps |-> TRUE]
  /\ fix = IdleFix /\ stick = IdleStick /\ import = IdleImport
  /\ budget = [faults |-> MaxFaults, searches |-> MaxSearches, lates |-> MaxLate, edits |-> MaxEdits]

TypeOK ==
  /\ state \in [Items -> DownloadState]
  /\ grabs \in [Items -> 0..MaxGrabs]
  /\ monitored \subseteq Items
  /\ \A a \in Apps : commands[a] \subseteq Command
  /\ \A a \in Apps : Cardinality({c \in commands[a] : c.status = "started"}) <= 1
  /\ late \in [Apps -> BOOLEAN] /\ auto \in [Apps -> BOOLEAN]
  /\ \A a \in Apps : late[a] => [name |-> "refresh", items |-> {}, status |-> "queued"] \in commands[a]
  /\ fix.pc \in {"idle", "check", "clear", "list", "item", "delete", "search", "storm", "put", "nzbdav"}
  /\ fix.pc # "idle" => fix.app \in Apps
  /\ fix.todo \subseteq Records /\ fix.tries \in 0..1
  /\ \A r \in fix.todo : AppOf(r[1]) = fix.app
  /\ fix.pc = "delete" => fix.cur \in Records
  /\ stick.pc \in {"idle", "delete"} /\ stick.todo \subseteq Records
  /\ import.pc \in {"idle", "target", "delete", "search"}
  /\ budget \in [faults : 0..MaxFaults, searches : 0..MaxSearches, lates : 0..MaxLate,
                 edits : 0..MaxEdits]
-----------------------------------------------------------------------------
(***************************************************************************)
(* The apps.                                                               *)
(***************************************************************************)
Record(i) == <<i, grabs[i]>>
Present(r) == state[r[1]] # "absent" /\ Record(r[1]) = r

Post(a, cs) == commands' = [commands EXCEPT ![a] = @ \cup cs]
Queued(name, items) == [name |-> name, items |-> items, status |-> "queued"]
Refresh == Queued("refresh", {})

(* arr_queue: the records an app shows.  It shows none until its refresh   *)
(* has run again, which is what the starvation check is there to find.     *)
Shown(a) == IF late[a] THEN {} ELSE {Record(i) : i \in {j \in Items : AppOf(j) = a /\ state[j] # "absent"}}

InState(a, states) == {r \in Shown(a) : state[r[1]] \in states}

(* The app removes the record r; if it was blocklisted and the caller did  *)
(* not ask to skip it, the app searches again by itself while it is told   *)
(* to redownload what failed.                                              *)
Redownloads(r, blocklist, skip) == Present(r) /\ blocklist /\ ~skip /\ auto[AppOf(r[1])]
Remove(r, blocklist, skip) ==
  /\ state' = IF Present(r) THEN [state EXCEPT ![r[1]] = "absent"] ELSE state
  /\ IF Redownloads(r, blocklist, skip)
     THEN Post(AppOf(r[1]), {Queued("targeted", {r[1]})})
     ELSE UNCHANGED commands
  /\ UNCHANGED <<grabs, monitored, late, auto>>

Fault == budget.faults > 0 /\ budget' = [budget EXCEPT !.faults = @ - 1]

Requests == <<fix, stick, import>>

(* An edit while the autofix works on an app's records: what it promises   *)
(* it promises of the items that stay as they were when it listed them.    *)
Watched(items) ==
  fix' = IF fix.pc \in {"item", "delete"} THEN [fix EXCEPT !.edited = @ \cup items] ELSE fix

Schedule(a) ==
  /\ {Refresh, [Refresh EXCEPT !.status = "started"]} \cap commands[a] = {}
  /\ Post(a, {Refresh})
  /\ UNCHANGED <<state, grabs, monitored, late, auto, Requests, budget>>

FallBehind(a) ==
  /\ Refresh \in commands[a] /\ ~late[a]
  /\ budget.lates > 0 /\ budget' = [budget EXCEPT !.lates = @ - 1]
  /\ late' = [late EXCEPT ![a] = TRUE]
  /\ UNCHANGED <<state, grabs, monitored, commands, auto, Requests>>

PoolStart(a, c) ==
  /\ c \in commands[a] /\ c.status = "queued"
  /\ \A d \in commands[a] : d.status = "queued"
  /\ commands' = [commands EXCEPT ![a] = (@ \ {c}) \cup {[c EXCEPT !.status = "started"]}]
  /\ late' = [late EXCEPT ![a] = @ /\ c # Refresh]
  /\ UNCHANGED <<state, grabs, monitored, auto, Requests, budget>>

Grabs(i, found) == found /\ i \in monitored /\ state[i] = "absent" /\ grabs[i] < MaxGrabs

PoolEnd(a, c, found) ==
  /\ c \in commands[a] /\ c.status = "started"
  /\ commands' = [commands EXCEPT ![a] = @ \ {c}]
  /\ LET sought == CASE c.name = "refresh" -> {}
                     [] c.name = "bulk" -> {i \in Items : AppOf(i) = a}
                     [] OTHER -> c.items
         taken == {i \in sought : Grabs(i, found)}
     IN /\ state' = [i \in Items |->
                       IF i \in taken THEN "downloading"
                       ELSE IF c.name = "refresh" /\ AppOf(i) = a /\ state[i] = "importing" /\ found
                            THEN "absent" ELSE state[i]]
        /\ grabs' = [i \in Items |-> IF i \in taken THEN grabs[i] + 1 ELSE grabs[i]]
  /\ UNCHANGED <<monitored, late, auto, Requests, budget>>

Progress(i) ==
  /\ state[i] = "downloading"
  /\ \E s \in {"importing", "failedPending", "importBlocked"} : state' = [state EXCEPT ![i] = s]
  /\ UNCHANGED <<grabs, monitored, commands, late, auto, Requests, budget>>
-----------------------------------------------------------------------------
(***************************************************************************)
(* Routes of one call.                                                     *)
(***************************************************************************)
Edit == budget.edits > 0 /\ budget' = [budget EXCEPT !.edits = @ - 1]

(* search-missing, and the searches anything else posts.                   *)
SearchMissing(a) ==
  /\ budget.searches > 0 /\ budget' = [budget EXCEPT !.searches = @ - 1]
  /\ Post(a, {Queued("bulk", {})})
  /\ UNCHANGED <<state, grabs, monitored, late, auto, Requests>>

Unmonitor(i) ==
  /\ Edit
  /\ monitored' = monitored \ {i}
  /\ Watched({i})
  /\ UNCHANGED <<state, grabs, commands, late, auto, stick, import>>

(* monitor-episodes-fix: every episode of a monitored series becomes       *)
(* monitored, in chunks: a chunk that fails leaves the later ones.         *)
MonitorEpisodesFix(done) ==
  /\ Edit
  /\ done \in SUBSET (Episodes \ monitored) /\ done # {}
  /\ monitored' = monitored \cup done
  /\ Watched(done)
  /\ UNCHANGED <<state, grabs, commands, late, auto, stick, import>>

EnableAuto(a) ==
  /\ Edit /\ ~auto[a]
  /\ auto' = [auto EXCEPT ![a] = TRUE]
  /\ UNCHANGED <<state, grabs, monitored, commands, late, Requests>>
-----------------------------------------------------------------------------
(***************************************************************************)
(* arr_queue_autofix.  First every app is checked for starvation, then the *)
(* queue of every app is repaired, then NzbDAV's queue is read.            *)
(***************************************************************************)
Rest == UNCHANGED <<apps, stick, import>>
Calm == UNCHANGED budget

StartFix ==
  /\ fix.pc = "idle"
  /\ fix' = [IdleFix EXCEPT !.pc = "check", !.app = "radarr"]
  /\ Rest /\ Calm

(* An error of any read ends the request: what it did stays done.          *)
FixFails ==
  /\ fix.pc \in {"check", "list", "nzbdav"}
  /\ Fault
  /\ fix' = IdleFix
  /\ Rest

AfterCheck ==
  IF OtherApp(fix.app) # None THEN [IdleFix EXCEPT !.pc = "check", !.app = OtherApp(fix.app)]
                              ELSE [IdleFix EXCEPT !.pc = "list", !.app = "radarr"]

(* Defect: every queued command is cancelled. *)
AnyCommand(c) == TRUE

IsSearch(c) == c.name \in {"bulk", "targeted"}

(* detect and, for a starved app, the list clear_search_backlog reads.     *)
Check ==
  /\ fix.pc = "check"
  /\ fix' = IF late[fix.app]
            THEN [fix EXCEPT !.pc = "clear",
                             !.cancel = {c \in commands[fix.app] : c.status = "queued" /\ IsSearch(c)}]
            ELSE AfterCheck
  /\ Rest /\ Calm

(* A command that has started meanwhile answers 409 and is counted.        *)
Cancel(c) ==
  /\ fix.pc = "clear" /\ c \in fix.cancel
  /\ fix' = [fix EXCEPT !.cancel = @ \ {c}]
  /\ UNCHANGED <<state, grabs, monitored, late, auto, stick, import>>
  /\ \/ commands' = [commands EXCEPT ![fix.app] = @ \ {c}] /\ Calm
     \/ Fault /\ UNCHANGED commands

Cleared ==
  /\ fix.pc = "clear" /\ fix.cancel = {}
  /\ fix' = AfterCheck
  /\ Rest /\ Calm

Broken(a) == InState(a, {"failedPending"} \cup IF a = "radarr" THEN {"importBlocked"} ELSE {})

List ==
  /\ fix.pc = "list"
  /\ fix' = [fix EXCEPT !.pc = "item", !.todo = Broken(fix.app),
                        !.failed = Cardinality(InState(fix.app, {"failedPending"})),
                        !.listed = monitored]
  /\ Rest /\ Calm

InHand(r, wanted) ==
  [fix EXCEPT !.pc = "delete", !.cur = r, !.todo = @ \ {r}, !.tries = 0, !.wanted = wanted]

(* Defect: every item counts as monitored, without a lookup. *)
LookUpNothing(r) ==
  /\ fix.pc = "item" /\ r \in fix.todo
  /\ fix' = InHand(r, TRUE)
  /\ Rest /\ Calm

(* item_is_monitored: by the object that came with the record, which says  *)
(* what was so when the queue was listed; by a lookup when the record came *)
(* without one; a lookup that fails counts as monitored.                   *)
LookUp(r) ==
  /\ fix.pc = "item" /\ r \in fix.todo
  /\ \/ \E known \in {fix.listed, monitored} : fix' = InHand(r, r[1] \in known) /\ Calm
     \/ fix' = [InHand(r, TRUE) EXCEPT !.guessed = @ \cup {r[1]}] /\ Fault
  /\ Rest

(* What was monitored from the listing on, and what was not.               *)
Steady == fix.listed \ fix.edited
Unwanted == (Items \ fix.listed) \ fix.edited

(* Defect: a record that is gone by the second try counts as somebody else's. *)
CountedIfPresent ==
  LET i == fix.cur[1]
  IN [fix EXCEPT !.pc = "item",
        !.ids = IF fix.wanted /\ Present(fix.cur) THEN @ \cup {i} ELSE @,
        !.removed = IF i \in Steady /\ Present(fix.cur) THEN @ \cup {i} ELSE @]

(* The DELETE answers 200, or 404 for a record that is gone: both count.   *)
Counted ==
  LET i == fix.cur[1]
  IN [fix EXCEPT !.pc = "item",
        !.ids = IF fix.wanted THEN @ \cup {i} ELSE @,
        !.removed = IF i \in Steady /\ Present(fix.cur) THEN @ \cup {i} ELSE @]
FixDelete ==
  /\ fix.pc = "delete"
  /\ Remove(fix.cur, TRUE, ~fix.wanted)
  /\ fix' = Counted
  /\ UNCHANGED <<stick, import>> /\ Calm

(* A call that times out may have been carried out; it is tried again once.*)
FixDeleteTimesOut ==
  /\ fix.pc = "delete" /\ Fault
  /\ \/ Remove(fix.cur, TRUE, ~fix.wanted)
     \/ UNCHANGED apps
  /\ LET i == fix.cur[1]
         gone == IF state'[i] # state[i] /\ i \in Steady THEN {i} ELSE {}
     IN fix' = IF fix.tries = 0
               THEN [fix EXCEPT !.tries = 1, !.removed = @ \cup gone]
               ELSE [fix EXCEPT !.pc = "item", !.removed = @ \cup gone, !.errors = @ \cup {i}]
  /\ UNCHANGED <<stick, import>>

FixDeleteFails ==
  /\ fix.pc = "delete" /\ Fault
  /\ fix' = [fix EXCEPT !.pc = "item", !.errors = @ \cup {fix.cur[1]}]
  /\ Rest

(* One search for all of them; none when there is nothing to search for.   *)
FixSearch ==
  /\ fix.pc = "item" /\ fix.todo = {}
  /\ UNCHANGED <<state, grabs, monitored, late, auto, stick, import>>
  /\ \/ /\ IF fix.ids = {} THEN UNCHANGED commands
                           ELSE Post(fix.app, {Queued("targeted", fix.ids)})
        /\ fix' = [fix EXCEPT !.pc = "storm"] /\ Calm
     \/ /\ fix.ids # {} /\ Fault /\ UNCHANGED commands
        /\ fix' = [fix EXCEPT !.pc = "storm", !.errors = @ \cup fix.ids]

(* Defect: the pass ends with its first app. *)
AfterFirstApp == [IdleFix EXCEPT !.pc = "nzbdav", !.app = fix.app]

AfterApp ==
  IF OtherApp(fix.app) # None THEN [IdleFix EXCEPT !.pc = "list", !.app = OtherApp(fix.app)]
                              ELSE [IdleFix EXCEPT !.pc = "nzbdav", !.app = fix.app]

(* disable_autoredownload_if_storm: read the setting, then write it back.  *)
Storm ==
  /\ fix.pc = "storm"
  /\ fix' = IF fix.failed >= StormThreshold /\ auto[fix.app] THEN [fix EXCEPT !.pc = "put"] ELSE AfterApp
  /\ Rest /\ Calm

StormPut ==
  /\ fix.pc = "put"
  /\ fix' = AfterApp
  /\ \/ auto' = [auto EXCEPT ![fix.app] = FALSE] /\ Calm
     \/ UNCHANGED auto /\ Fault
  /\ UNCHANGED <<state, grabs, monitored, commands, late, stick, import>>

FixAnswered ==
  /\ fix.pc = "nzbdav"
  /\ fix' = IdleFix
  /\ Rest /\ Calm

Fix == \/ Check \/ Cleared \/ List \/ FixDelete \/ FixDeleteTimesOut \/ FixDeleteFails
       \/ FixSearch \/ Storm \/ StormPut \/ FixAnswered \/ FixFails
       \/ \E r \in Records : LookUp(r)
       \/ \E c \in fix.cancel : Cancel(c)
-----------------------------------------------------------------------------
(***************************************************************************)
(* arr_unstick: every record flagged with a warning or an error is deleted *)
(* and blocklisted; a 404 counts as an error here.                         *)
(***************************************************************************)
Flagged(a) == InState(a, {"failedPending", "importBlocked"})

Unstick(a) ==
  /\ stick.pc = "idle" /\ Flagged(a) # {}
  /\ stick' = [pc |-> "delete", app |-> a, todo |-> Flagged(a)]
  /\ UNCHANGED <<apps, fix, import>> /\ Calm

UnstickDelete(r) ==
  /\ stick.pc = "delete" /\ r \in stick.todo
  /\ stick' = IF stick.todo = {r} THEN IdleStick ELSE [stick EXCEPT !.todo = @ \ {r}]
  /\ \/ Remove(r, TRUE, FALSE) /\ Calm
     \/ UNCHANGED apps /\ Fault
  /\ UNCHANGED <<fix, import>>

(***************************************************************************)
(* arr_unstick_importing: one target for each download being imported; its *)
(* file is looked at inside the app's container, its records are deleted,  *)
(* and its series or movie is searched for again at the end.               *)
(***************************************************************************)
Importing(a) == InState(a, {"importing"})

UnstickImporting(a) ==
  /\ import.pc = "idle" /\ Importing(a) # {}
  /\ import' = [IdleImport EXCEPT !.pc = "target", !.app = a, !.todo = Importing(a)]
  /\ UNCHANGED <<apps, fix, stick>> /\ Calm

SameDownload(r) == {q \in import.todo : Download[q[1]] = Download[r[1]]}

(* Nothing to look at: the target is skipped.                              *)
TargetSkipped(r) ==
  /\ import.pc = "target" /\ r \in import.todo
  /\ import' = [import EXCEPT !.todo = @ \ SameDownload(r)]
  /\ UNCHANGED <<apps, fix, stick>> /\ Calm

(* A missing path and a readable file are cleared, an unreadable file is   *)
(* blocklisted.  The records of the target go one after the other; the     *)
(* first that fails leaves the rest, and the target is not searched for.   *)
Inspect(r, blocklist) ==
  /\ import.pc = "target" /\ r \in import.todo
  /\ import' = [import EXCEPT !.pc = "delete", !.blocklist = blocklist,
                              !.research = @ \cup {Download[r[1]]}]
  /\ UNCHANGED <<apps, fix, stick>> /\ Calm

InTarget == {r \in import.todo : Download[r[1]] \in import.research}

ImportDelete(r) ==
  /\ import.pc = "delete" /\ r \in InTarget
  /\ \/ /\ Remove(r, import.blocklist, FALSE) /\ Calm
        /\ import' = [import EXCEPT !.todo = @ \ {r}, !.pc = IF InTarget = {r} THEN "target" ELSE @]
     \/ /\ Fault /\ UNCHANGED apps
        /\ import' = [import EXCEPT !.todo = @ \ InTarget, !.pc = "target",
                                    !.research = @ \ {Download[r[1]]}]
  /\ UNCHANGED <<fix, stick>>

Targets(ds) == {i \in Items : Download[i] \in ds}

ImportSearch(d) ==
  /\ import.pc \in {"target", "search"} /\ import.todo = {} /\ d \in import.research
  /\ import' = [import EXCEPT !.pc = "search", !.research = @ \ {d}]
  /\ UNCHANGED <<state, grabs, monitored, late, auto, fix, stick>>
  /\ \/ Post(import.app, {Queued("targeted", Targets({d}))}) /\ Calm
     \/ UNCHANGED commands /\ Fault

ImportAnswered ==
  /\ import.pc \in {"target", "search"} /\ import.todo = {} /\ import.research = {}
  /\ import' = IdleImport
  /\ UNCHANGED <<apps, fix, stick>> /\ Calm

Import ==
  \/ ImportAnswered
  \/ \E r \in Records : TargetSkipped(r) \/ ImportDelete(r) \/ (\E b \in BOOLEAN : Inspect(r, b))
  \/ \E d \in import.research : ImportSearch(d)
-----------------------------------------------------------------------------
Pool(a) == \E c \in commands[a] : PoolStart(a, c) \/ (\E found \in BOOLEAN : PoolEnd(a, c, found))

Next ==
  \/ StartFix \/ Fix \/ Import
  \/ \E a \in Apps : Schedule(a) \/ FallBehind(a) \/ Pool(a) \/ SearchMissing(a) \/ EnableAuto(a)
                       \/ Unstick(a) \/ UnstickImporting(a)
  \/ \E r \in Records : UnstickDelete(r)
  \/ \E i \in Items : Progress(i) \/ Unmonitor(i)
  \/ \E done \in SUBSET Episodes : MonitorEpisodesFix(done)

Spec == Init /\ [][Next]_vars

(* The autofix goes on, and cron posts the next; an app with its refresh   *)
(* to schedule or a command to work on does one of the two.                *)
FairSpec ==
  /\ Spec
  /\ WF_vars(StartFix \/ Fix)
  /\ \A a \in Apps : WF_vars(Schedule(a) \/ Pool(a))
-----------------------------------------------------------------------------
(* Once the autofix has handled an app's records, every item it took out   *)
(* of the queue that was monitored from the listing until then is in the   *)
(* search it posted or in its report's errors, whatever timed out          *)
(* (blocklist_and_research, arr_client.py:168-208).                        *)
NothingDropped ==
  fix.pc \in {"storm", "put"} => fix.removed \subseteq fix.ids \cup fix.errors

(* The autofix never searches for an item that was unmonitored when it     *)
(* listed the queue and stayed so until its search, unless a lookup        *)
(* failed: unmonitoring is how a loop of downloads is stopped.             *)
UnmonitoredLeftAlone ==
  [][ fix.pc = "item" /\ fix'.pc = "storm" /\ commands' # commands
      => \A c \in commands'[fix.app] \ commands[fix.app] :
            c.items \cap Unwanted \subseteq fix.guessed ]_vars

(* No request takes away a command that has started, nor the refresh that  *)
(* fills the queue and imports: only the pool ends those.                  *)
ImportWorkerKept ==
  [][ \A a \in Apps : \A c \in commands[a] \ commands'[a] :
        Requests' # Requests => c.status = "queued" /\ c.name # "refresh" ]_vars

(* A download that failed leaves the queue: the autofix gets to it, after  *)
(* a starved app's refresh has run again if need be.                       *)
FailedRemediated ==
  \A i \in Items : state[i] = "failedPending" ~> state[i] # "failedPending"

=============================================================================
