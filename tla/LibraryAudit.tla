---------------------------- MODULE LibraryAudit ----------------------------
(***************************************************************************)
(* The scripts that compare what Radarr and Sonarr know, what Plex serves  *)
(* and what is on the mount: plex-arr-reconcile.py, checkrr-badfiles-      *)
(* report.py and radarr-orphan-empty-folders.py.                           *)
(*                                                                         *)
(* None of them stops the world.  They read one application after the      *)
(* other, then files or folders, and conclude from what they read; any     *)
(* read may fail, and imports, removals, scans and losses go on between    *)
(* two reads.  A title stands for its one file and its folder.             *)
(***************************************************************************)
EXTENDS Integers, FiniteSets

CONSTANTS
  Movies, Shows,   \* titles of Radarr and of Sonarr
  Images,          \* disc images among them: nothing can demux these
  Tools,           \* of the three scripts, the ones that are run
  MaxChanges,      \* changes of the library during a script: a bound
  MaxFaults        \* failing reads: a bound

Titles == Movies \cup Shows

ASSUME AuditAssumption ==
  /\ Movies \cap Shows = {} /\ Images \subseteq Titles
  /\ Tools \subseteq {"reconcile", "badfiles", "folders"}
  /\ {MaxChanges, MaxFaults} \subseteq Nat

VARIABLES
  library,   \* per title: what the applications, Plex and the mount hold
  past,      \* per title: the facts that held at some moment of the run,
             \* of radarr-orphan-empty-folders.py: since it asked for the movies
  run,       \* the script: where it is and what it has read
  spare      \* changes and faults left

auditVars == <<library, past, run, spare>>

Title == [known : BOOLEAN, owned : BOOLEAN, file : {"none", "good", "dead"},
          folder : BOOLEAN, served : BOOLEAN]

(* An application owns a file only of a title it knows; a file has its     *)
(* folder; a title that was added has one from the start.                  *)
Sound(x) ==
  /\ x.owned => x.known
  /\ (x.file # "none" \/ x.known) => x.folder

(* What is true of a title; its negation is a fact of its own.             *)
Facts(x) ==
  {IF x.known THEN "known" ELSE "unknown",
   IF x.owned THEN "owned" ELSE "unowned",
   IF x.file # "none" THEN "there" ELSE "gone",
   IF x.served THEN "served" ELSE "unserved",
   IF x.file = "dead" THEN "dead" ELSE "not dead"}

FactNames == {"known", "unknown", "owned", "unowned", "there", "gone", "served", "unserved",
              "dead", "not dead"}

Reads == {"radarr", "sonarr", "movies", "shows", "sweep"}
Statuses == {"dead", "healthy", "unprobeable", "missing", "unreadable"}
Stages == {"radarr", "series", "episodes", "movies", "shows", "sweep", "done", "verify",
           "unmapped", "known", "classify", "delete"}
\* Results for some of the titles.
Partial(values) == UNION {[ts -> values] : ts \in SUBSET Titles}

Script == [tool : {"reconcile", "badfiles", "folders"}, pc : Stages,
           todo : SUBSET Titles, arr : SUBSET Titles, unread : SUBSET Titles,
           plex : SUBSET Titles, disk : SUBSET Titles, failed : SUBSET Reads,
           status : Partial(Statuses), tracked : Partial({"yes", "no", "unknown"}),
           removed : SUBSET Titles]

Started(tool, pc, todo) ==
  [tool |-> tool, pc |-> pc, todo |-> todo,
   arr |-> {},          \* files the applications said they have
   unread |-> {},       \* titles whose application or section was not read
   plex |-> {},         \* files Plex said it serves
   disk |-> {},         \* candidates that the sweep found on disk
   failed |-> {},       \* reads that failed
   status |-> [t \in {} |-> "dead"],      \* the headers that were read
   tracked |-> [t \in {} |-> "no"],       \* rows of the re-download list
   removed |-> {}]      \* folders removed

\* What the main of each script begins with.
StartReconcile == Started("reconcile", "radarr", {})
StartBadFiles == Started("badfiles", "verify", Titles)
StartFolders == Started("folders", "unmapped", {})

Situations ==
  {[known |-> TRUE, owned |-> TRUE, file |-> "good", folder |-> TRUE, served |-> TRUE],
   [known |-> TRUE, owned |-> TRUE, file |-> "good", folder |-> TRUE, served |-> FALSE],
   [known |-> TRUE, owned |-> TRUE, file |-> "none", folder |-> TRUE, served |-> FALSE],
   [known |-> TRUE, owned |-> FALSE, file |-> "none", folder |-> TRUE, served |-> FALSE],
   [known |-> FALSE, owned |-> FALSE, file |-> "dead", folder |-> TRUE, served |-> TRUE],
   [known |-> FALSE, owned |-> FALSE, file |-> "none", folder |-> TRUE, served |-> TRUE]}

AuditInit ==
  /\ library \in [Titles -> Situations]
  /\ past = [t \in Titles |-> Facts(library[t])]
  /\ run \in {StartReconcile, StartBadFiles, StartFolders} /\ run.tool \in Tools
  /\ spare = [changes |-> MaxChanges, faults |-> MaxFaults]

At(tool, pc) == run.tool = tool /\ run.pc = pc
Fault == spare.faults > 0 /\ spare' = [spare EXCEPT !.faults = @ - 1]
Calm == UNCHANGED spare
Still == UNCHANGED <<library, past>>

-----------------------------------------------------------------------------
(* The world.                                                              *)
Becomes(t, x) ==
  /\ spare.changes > 0 /\ spare' = [spare EXCEPT !.changes = @ - 1]
  /\ x # library[t] /\ Sound(x)
  /\ library' = [library EXCEPT ![t] = x]
  /\ past' = [past EXCEPT ![t] = @ \cup Facts(x)]
  /\ UNCHANGED run

Imported(t) ==
  /\ library[t].known
  /\ Becomes(t, [library[t] EXCEPT !.file = "good", !.owned = TRUE])

\* The provider drops a file's articles, or all of the file.
Lost(t) ==
  /\ library[t].file = "good"
  /\ \E f \in {"none", "dead"} : Becomes(t, [library[t] EXCEPT !.file = f])

\* An application looks at its disk again.
Rescanned(t) ==
  library[t].known /\ Becomes(t, [library[t] EXCEPT !.owned = library[t].file # "none"])

\* Plex scans; what is gone it lists until its trash is emptied.
PlexScanned(t) ==
  library[t].file # "none" /\ t \notin Images /\ Becomes(t, [library[t] EXCEPT !.served = TRUE])
TrashEmptied(t) ==
  library[t].file = "none" /\ Becomes(t, [library[t] EXCEPT !.served = FALSE])

\* Removed from its application, whose folder stays; added, with a folder at once.
Removed(t) ==
  \E f \in {"none", library[t].file} :
    library[t].known /\ Becomes(t, [library[t] EXCEPT !.known = FALSE, !.owned = FALSE, !.file = f])
Added(t) ==
  ~library[t].known /\ Becomes(t, [library[t] EXCEPT !.known = TRUE, !.folder = TRUE])

World == \E t \in Titles :
  Imported(t) \/ Lost(t) \/ Rescanned(t) \/ PlexScanned(t) \/ TrashEmptied(t) \/ Removed(t) \/ Added(t)

-----------------------------------------------------------------------------
(* plex-arr-reconcile.py.                                                  *)
Owned(ts) == {t \in ts : library[t].owned}
Served(ts) == {t \in ts : library[t].served}
OnDisk(ts) == {t \in ts : library[t].file # "none"}

ArrPathsRadarr ==
  /\ At("reconcile", "radarr") /\ Still
  /\ \/ run' = [run EXCEPT !.pc = "series", !.arr = Owned(Movies)] /\ Calm
     \/ run' = [run EXCEPT !.pc = "series", !.failed = @ \cup {"radarr"}, !.unread = Movies] /\ Fault

ArrPathsSeries ==
  /\ At("reconcile", "series") /\ Still
  /\ \/ run' = [run EXCEPT !.pc = "episodes", !.todo = {t \in Shows : library[t].known}] /\ Calm
     \/ run' = [run EXCEPT !.pc = "movies", !.failed = @ \cup {"sonarr"}, !.unread = @ \cup Shows] /\ Fault

\* Defect: a failing call for one series throws away what was read so far.
EpisodesAllOrNothing ==
  /\ At("reconcile", "episodes") /\ Still
  /\ \/ /\ run.todo = {}
        /\ run' = [run EXCEPT !.pc = "movies"] /\ Calm
     \/ /\ \E t \in run.todo : run' = [run EXCEPT !.todo = @ \ {t}, !.arr = @ \cup Owned({t})]
        /\ Calm
     \/ /\ run.todo # {} /\ Fault
        /\ run' = [run EXCEPT !.pc = "movies", !.failed = @ \cup {"sonarr"}, !.arr = {},
                              !.unread = @ \cup run.todo, !.todo = {}]

(* One call per series; the first that fails ends Sonarr's reading and     *)
(* keeps what came before.                                                 *)
ArrPathsEpisodes ==
  /\ At("reconcile", "episodes") /\ Still
  /\ \/ /\ run.todo = {}
        /\ run' = [run EXCEPT !.pc = "movies"] /\ Calm
     \/ /\ \E t \in run.todo : run' = [run EXCEPT !.todo = @ \ {t}, !.arr = @ \cup Owned({t})]
        /\ Calm
     \/ /\ run.todo # {} /\ Fault
        /\ run' = [run EXCEPT !.pc = "movies", !.failed = @ \cup {"sonarr"},
                              !.unread = @ \cup run.todo, !.todo = {}]

(* plex_served: section by section, a failing one leaves its titles out.   *)
PlexServed(section, ts, then) ==
  /\ At("reconcile", section) /\ Still
  /\ \/ run' = [run EXCEPT !.pc = then, !.plex = @ \cup Served(ts)] /\ Calm
     \/ run' = [run EXCEPT !.pc = then, !.failed = @ \cup {section}, !.unread = @ \cup ts] /\ Fault

(* What one side lists and the other does not.                             *)
Candidates == (run.arr \ run.plex) \cup (run.plex \ run.arr)

(* exists_in_plex_container: one exec for all; one that does not run       *)
(* prints nothing, and its exit code is not looked at.                     *)
ExistsInPlexContainer ==
  /\ At("reconcile", "sweep") /\ Still
  /\ \/ run' = [run EXCEPT !.pc = "done", !.disk = OnDisk(Candidates)] /\ Calm
     \/ run' = [run EXCEPT !.pc = "done", !.failed = @ \cup {"sweep"}] /\ Fault

Reconcile ==
  \/ ArrPathsRadarr \/ ArrPathsSeries \/ ArrPathsEpisodes
  \/ PlexServed("movies", Movies, "shows") \/ PlexServed("shows", Shows, "sweep")
  \/ ExistsInPlexContainer

ClassifyMissing(t, onDisk) ==
  CASE ~onDisk -> "file_gone"
    [] onDisk /\ t \in Images -> "unsupported"
    [] OTHER -> "missing_from_plex"

(* The bucket a title is reported in.                                      *)
Bucket(t) ==
  CASE t \in run.arr /\ t \in run.plex -> "ok"
    [] t \in run.arr /\ t \notin run.plex -> ClassifyMissing(t, t \in run.disk)
    [] t \notin run.arr /\ t \in run.plex -> IF t \in run.disk THEN "orphan_in_plex" ELSE "stale_in_plex"
    [] OTHER -> "nowhere"

-----------------------------------------------------------------------------
(* checkrr-badfiles-report.py.                                             *)

(* verify_file: a disc image is not looked at; a zeroed header is dead.    *)
Header(t) ==
  CASE t \in Images -> "unprobeable"
    [] t \notin Images /\ library[t].file = "none" -> "missing"
    [] OTHER -> IF library[t].file = "dead" THEN "dead" ELSE "healthy"

With(f, t, v) == [x \in DOMAIN f \cup {t} |-> IF x = t THEN v ELSE f[x]]

(* The headers of all flagged files, in parallel: any order.               *)
VerifyFile(t) ==
  /\ At("badfiles", "verify") /\ t \in run.todo /\ Still
  /\ \/ run' = [run EXCEPT !.todo = @ \ {t}, !.status = With(@, t, Header(t))] /\ Calm
     \/ /\ t \notin Images /\ library[t].file # "none" /\ Fault
        /\ run' = [run EXCEPT !.todo = @ \ {t}, !.status = With(@, t, "unreadable")]

Dead(ts) == {t \in ts : run.status[t] = "dead"}
Verified ==
  /\ At("badfiles", "verify") /\ run.todo = {} /\ Still /\ Calm
  /\ run' = [run EXCEPT !.pc = "radarr"]

(* The list with the rows of some titles added.                            *)
Rows(verdict) ==
  [t \in DOMAIN run.tracked \cup DOMAIN verdict |->
     IF t \in DOMAIN verdict THEN verdict[t] ELSE run.tracked[t]]

(* An application that cannot be reached leaves its rows undetermined.     *)
RowsUndetermined(ts) == Rows([t \in ts |-> "unknown"])

BuildRadarrIndex ==
  /\ At("badfiles", "radarr") /\ Still
  /\ \/ /\ run' = [run EXCEPT !.pc = "series",
                     !.tracked = Rows([t \in Dead(Movies) |-> IF library[t].owned THEN "yes" ELSE "no"])]
        /\ Calm
     \/ /\ Dead(Movies) # {} /\ Fault
        /\ run' = [run EXCEPT !.pc = "series", !.tracked = RowsUndetermined(Dead(Movies))]

(* The series list, then the files of each series that has a flagged file; *)
(* a series whose files cannot be read is warned of and passed over.       *)
BuildSonarrSeries ==
  /\ At("badfiles", "series") /\ Still
  /\ \/ /\ run' = [run EXCEPT !.pc = "episodes", !.todo = {t \in Dead(Shows) : library[t].known},
                     !.tracked = Rows([t \in Dead(Shows) |-> "no"])]
        /\ Calm
     \/ /\ Dead(Shows) # {} /\ Fault
        /\ run' = [run EXCEPT !.pc = "done", !.tracked = RowsUndetermined(Dead(Shows))]

BuildSonarrIndex ==
  /\ At("badfiles", "episodes") /\ Still
  /\ \/ /\ run.todo = {} /\ Calm
        /\ run' = [run EXCEPT !.pc = "done"]
     \/ \E t \in run.todo :
          \/ /\ run' = [run EXCEPT !.todo = @ \ {t},
                          !.tracked = [@ EXCEPT ![t] = IF library[t].owned THEN "yes" ELSE "no"]]
             /\ Calm
          \/ run' = [run EXCEPT !.todo = @ \ {t}, !.unread = @ \cup {t}] /\ Fault

BadFiles ==
  \/ Verified \/ BuildRadarrIndex \/ BuildSonarrSeries \/ BuildSonarrIndex
  \/ \E t \in Titles : VerifyFile(t)

-----------------------------------------------------------------------------
(* radarr-orphan-empty-folders.py; a read that fails ends it.              *)
FetchUnmappedFolders ==
  /\ At("folders", "unmapped") /\ Still /\ Calm
  /\ run' = [run EXCEPT !.pc = "known", !.todo = {t \in Movies : library[t].folder /\ ~library[t].known}]

(* From here on, Radarr has said what it has.                              *)
Asked == UNCHANGED library /\ past' = [t \in Titles |-> Facts(library[t])]

FetchKnownTmdbIds ==
  /\ At("folders", "known") /\ Asked /\ Calm
  /\ run' = [run EXCEPT !.pc = "classify", !.todo = {t \in @ : ~library[t].known}]

ClassifyFolders ==
  /\ At("folders", "classify") /\ Still /\ Calm
  /\ run' = [run EXCEPT !.pc = "delete", !.todo = {t \in @ : library[t].folder /\ library[t].file = "none"}]

\* Defect: the folder goes with whatever it has come to hold.
RemoveTree(t) ==
  /\ At("folders", "delete") /\ t \in run.todo /\ Calm
  /\ library' = [library EXCEPT ![t].folder = FALSE, ![t].file = "none"]
  /\ past' = [past EXCEPT ![t] = @ \cup Facts(library'[t])]
  /\ run' = [run EXCEPT !.todo = @ \ {t}, !.removed = @ \cup {t}]

(* rmdir removes a folder that is empty now, else fails.                   *)
DeleteFolder(t) ==
  /\ At("folders", "delete") /\ t \in run.todo /\ Calm
  /\ IF library[t].folder /\ library[t].file = "none"
     THEN /\ library' = [library EXCEPT ![t].folder = FALSE]
          /\ run' = [run EXCEPT !.todo = @ \ {t}, !.removed = @ \cup {t}]
     ELSE /\ UNCHANGED library
          /\ run' = [run EXCEPT !.todo = @ \ {t}]
  /\ UNCHANGED past

Folders ==
  \/ FetchUnmappedFolders \/ FetchKnownTmdbIds \/ ClassifyFolders
  \/ \E t \in Titles : DeleteFolder(t)

AuditNext == World \/ Reconcile \/ BadFiles \/ Folders

AuditSpec == AuditInit /\ [][AuditNext]_auditVars

-----------------------------------------------------------------------------
(* Type correctness.                                                       *)
AuditTypeOK ==
  /\ library \in [Titles -> Title]
  /\ past \in [Titles -> SUBSET FactNames]
  /\ run \in Script /\ run.disk \subseteq Candidates
  /\ spare \in [changes : 0..MaxChanges, faults : 0..MaxFaults]

Reconciled == At("reconcile", "done")
Read(t) == t \notin run.unread /\ "sweep" \notin run.failed

(* What a report says of a title held at some moment of the run, fact by   *)
(* fact, provided the reads about that title came through: the false       *)
(* orphans and the phantom rows that the script's header tells of          *)
(* (plex-arr-reconcile.py:8-49) do not come back.                          *)
Claims ==
  [ok |-> {"owned", "served"}, file_gone |-> {"owned", "unserved", "gone"},
   unsupported |-> {"owned", "unserved", "there"}, missing_from_plex |-> {"owned", "unserved", "there"},
   orphan_in_plex |-> {"unowned", "served", "there"}, stale_in_plex |-> {"unowned", "served", "gone"},
   nowhere |-> {"unowned", "unserved"}]
ReportBacked ==
  Reconciled => \A t \in Titles : Read(t) => Claims[Bucket(t)] \subseteq past[t]

(* A failing call for one series costs the titles that were read nothing:  *)
(* a title that did not change and was read is not taken for an orphan     *)
(* while its application owns it (arr_paths, lines 119-131).               *)
OwnedNotOrphaned ==
  Reconciled => \A t \in Titles :
    (Read(t) /\ "unowned" \notin past[t]) => Bucket(t) \notin {"orphan_in_plex", "stale_in_plex"}

(* A row of the re-download list is a file that was dead, and the verdict  *)
(* "no" means that its application, when it could be read, had no record   *)
(* of it: one that is unreachable never reads as an orphan                 *)
(* (checkrr-badfiles-report.py:459-463).                                   *)
RowsBacked ==
  \A t \in DOMAIN run.tracked :
    /\ "dead" \in past[t] /\ t \notin Images
    /\ run.tracked[t] = "yes" => "owned" \in past[t]
    /\ (At("badfiles", "done") /\ run.tracked[t] = "no") => "unowned" \in past[t] \/ t \in run.unread

(* No script costs a file, also when a download fills a folder between its *)
(* listing and its removal (radarr-orphan-empty-folders.py:17-18).         *)
FilesSurvive ==
  [][\A t \in Titles : run' # run => library'[t].file = library[t].file]_auditVars

(* A movie that is in Radarr from when the script asks for its movies on   *)
(* keeps its folder, although it was reported unmapped before: a movie     *)
(* that is added again between the two reads is not taken for an orphan    *)
(* (radarr-orphan-empty-folders.py:113-115).                               *)
KnownFoldersKept == \A t \in run.removed : "unknown" \in past[t]

(* What the two read-only scripts print was so at some moment of their run.*)
ReportsBacked == ReportBacked /\ OwnedNotOrphaned /\ RowsBacked

(* The script that deletes takes neither a file nor a known movie's folder.*)
FoldersSafe == []KnownFoldersKept /\ FilesSurvive

=============================================================================
