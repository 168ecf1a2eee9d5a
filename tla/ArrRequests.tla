----------------------------- MODULE ArrRequests -----------------------------
(* Requests that the panel turns into several calls of Radarr or Sonarr    *)
(* (services/arr/router.py), each a function of what the calls meet: an    *)
(* indexer, a page or a list at a time, any of which may fail or see a     *)
(* world that has changed.                                                 *)
EXTENDS Integers, FiniteSets, Sequences, FiniteSetsExt

Never == 0

-----------------------------------------------------------------------------
(* search-status and search-toggle.  The put number "fault" fails (Never:  *)
(* none does), and may have been carried out all the same.                 *)
SearchStatus(indexers) ==
  indexers # <<>> /\ \A n \in DOMAIN indexers : indexers[n].rss /\ indexers[n].auto

SearchToggle(indexers, enabled, fault, late) ==
  [ok |-> fault \notin DOMAIN indexers,
   indexers |-> [n \in DOMAIN indexers |->
     IF fault = Never \/ n < fault \/ (n = fault /\ late)
       THEN [indexers[n] EXCEPT !.rss = enabled, !.auto = enabled] ELSE indexers[n]]]

-----------------------------------------------------------------------------
(* manual-import and manual-import-all.  A record of the queue without a   *)
(* path or a download, or whose listing fails, offers nothing.             *)
ImportCandidateQueueItems(queue) ==
  {n \in DOMAIN queue : queue[n].status \in {"warning", "error"} \/ queue[n].state = "importPending"}

Target(app, f) ==
  IF f.match # "none" THEN f.match
  ELSE IF app = "sonarr" /\ f.episodes # "none" THEN f.episodes ELSE "none"

(* What the k-th file of the n-th record would be imported into.           *)
ManualImportCandidates(app, queue) ==
  LET Listed == {n \in ImportCandidateQueueItems(queue) : queue[n].identified /\ queue[n].listed}
      Files == UNION {{<<n, k>> : k \in DOMAIN queue[n].files} : n \in Listed}
  IN [f \in Files |-> Target(app, queue[f[1]].files[f[2]])]

ManualImportAll(app, queue, posted) ==
  LET target == ManualImportCandidates(app, queue)
      files == {f \in DOMAIN target : target[f] # "none"}
  IN [ok |-> files = {} \/ posted,
      started |-> [f \in IF posted THEN files ELSE {} |-> target[f]],
      skipped |-> Cardinality(DOMAIN target) - Cardinality(files)]

-----------------------------------------------------------------------------
(* missing-aired: the pages of the list of missing episodes, by air date.  *)
(* listing[p] is the whole list when page p is read: the air dates of the  *)
(* episodes, which are numbered in its order.  An air date of 0 is one     *)
(* that is missing or does not parse.                                      *)
Place(list, e) == Cardinality({k \in DOMAIN list : k <= e})

PageOf(list, page, size) ==
  {e \in DOMAIN list : (page - 1) * size < Place(list, e) /\ Place(list, e) <= page * size}

\* Defect: the last page is taken for read when it begins.
EndsEarly(list, page, size, now) ==
  LET read == PageOf(list, page, size) IN
  \/ read = {} \/ \E e \in read : list[e] > now
  \/ (page + 1) * size >= Cardinality(DOMAIN list)

EndsAt(list, page, size, now) ==
  LET read == PageOf(list, page, size) IN
  \/ read = {} \/ \E e \in read : list[e] > now
  \/ page * size >= Cardinality(DOMAIN list)

(* parse_air_date gives nothing for a date that is missing or odd.         *)
Aired(air, now) == 0 < air /\ air <= now

\* Of a page, what has aired, up to the first episode that has not.
ListedOn(list, page, size, now) ==
  LET read == PageOf(list, page, size)
  IN {e \in read : Aired(list[e], now) /\ ~\E d \in read : d < e /\ list[d] > now}

MissingAired(listing, size, now) ==
  LET last == Min({p \in DOMAIN listing : EndsAt(listing[p], p, size, now)})
  IN UNION {ListedOn(listing[p], p, size, now) : p \in 1..last}

-----------------------------------------------------------------------------
(* blocklist/clear: pages are read and deleted until one is empty.  Before *)
(* read n the application adds "added[n]"; "fault[n]" is what befalls the  *)
(* n-th round: its read fails, its delete fails, or its delete does what   *)
(* it should and the answer is lost.                                       *)
PageFrom(left, size) ==
  CHOOSE page \in SUBSET left : Cardinality(page) = IF Cardinality(left) < size THEN Cardinality(left) ELSE size

ClearRound(r, added, fault, size) ==
  LET now == r.left \cup added
      page == PageFrom(now, size)
  IN CASE ~r.going -> r
       [] r.going /\ fault = "read" -> [r EXCEPT !.going = FALSE, !.left = now]
       [] r.going /\ fault # "read" /\ now = {} -> [r EXCEPT !.going = FALSE, !.ok = TRUE, !.left = {}]
       [] r.going /\ fault = "delete" /\ now # {} -> [r EXCEPT !.going = FALSE, !.left = now]
       [] OTHER -> [r EXCEPT !.going = fault # "answer", !.left = now \ page, !.removed = @ \cup page,
                             !.cleared = IF fault = "answer" THEN @ ELSE @ + Cardinality(page)]

BlocklistClear(left, size, added, fault) ==
  LET Round[n \in 0..Len(fault)] ==
        IF n = 0 THEN [going |-> TRUE, ok |-> FALSE, left |-> left, removed |-> {}, cleared |-> 0]
        ELSE ClearRound(Round[n - 1], added[n], fault[n], size)
  IN Round[Len(fault)]

-----------------------------------------------------------------------------
(* import-list/add.  A template is a set of field names; fields are values *)
(* by name.  Without the template, a root folder or a profile the request  *)
(* is not ready.  The applications refuse a second list of one name.       *)
OauthFieldNames == {"accessToken", "refreshToken", "expires", "authUser"}
OauthFamilies == {"Trakt", "Simkl", "TMDbUser"}

Value(fields, name) == IF name \in DOMAIN fields THEN fields[name] ELSE "unset"
Override(base, fields) ==
  [f \in DOMAIN base \cup DOMAIN fields |-> IF f \in DOMAIN fields THEN fields[f] ELSE base[f]]

(* The first list of the family that holds a token lends its fields.       *)
Donors(lists, family) ==
  {n \in DOMAIN lists : lists[n].implementation = family /\ Value(lists[n].fields, "accessToken") # "unset"}

FieldValues(payload, lists, plexToken) ==
  LET donors == Donors(lists, payload.implementation)
      donor == lists[Min(donors)].fields
  IN IF payload.implementation = "PlexImport" /\ plexToken # "unset"
       THEN Override([f \in {"accessToken"} |-> plexToken], payload.fields)
     ELSE IF payload.implementation \in OauthFamilies /\ donors # {}
       THEN Override([f \in OauthFieldNames \cap DOMAIN donor |-> donor[f]], payload.fields)
     ELSE payload.fields

ImportListAdd(payload, lists, template, plexToken, ready) ==
  LET values == FieldValues(payload, lists, plexToken)
      refused == /\ payload.implementation \in OauthFamilies
                 /\ Donors(lists, payload.implementation) = {}
                 /\ DOMAIN payload.fields \cap OauthFieldNames = {}
      taken == \E n \in DOMAIN lists : lists[n].name = payload.name
  IN IF ~ready \/ refused \/ taken THEN [ok |-> FALSE, lists |-> lists]
     ELSE [ok |-> TRUE,
           lists |-> Append(lists, [name |-> payload.name, implementation |-> payload.implementation,
                                    fields |-> [f \in template |-> Value(values, f)]])]

-----------------------------------------------------------------------------
(* Properties, over bounded worlds.                                        *)
(* A toggle that says so has set every indexer, and one that failed half   *)
(* way is made good by the next (arr_search_toggle).                       *)
ToggleTold ==
  \A count \in 0..2 : \A indexers \in [1..count -> [rss : BOOLEAN, auto : BOOLEAN]],
     enabled \in BOOLEAN, fault \in 0..2, late \in BOOLEAN :
    LET told == SearchToggle(indexers, enabled, fault, late) IN
    /\ told.ok /\ count > 0 => SearchStatus(told.indexers) = enabled
    /\ SearchToggle(told.indexers, enabled, Never, FALSE).indexers
         = SearchToggle(indexers, enabled, Never, FALSE).indexers

(* No file is imported into nothing, and every file that was offered is    *)
(* imported or counted as skipped (arr_manual_import_all).                 *)
OnlyMatchedImported ==
  \A app \in {"radarr", "sonarr"}, posted \in BOOLEAN :
    \A queue \in [1..2 -> [status : {"ok", "warning"}, state : {"importPending", "downloading"},
                           identified : BOOLEAN, listed : BOOLEAN,
                           files : {<<>>, <<[name |-> "f", match |-> "none", episodes |-> "none"],
                                            [name |-> "g", match |-> "none", episodes |-> "s"]>>}]] :
      LET told == ManualImportAll(app, queue, posted)
          offered == {f \in (1..2) \X (1..2) :
                        /\ queue[f[1]].status = "warning" \/ queue[f[1]].state = "importPending"
                        /\ queue[f[1]].identified /\ queue[f[1]].listed /\ f[2] \in DOMAIN queue[f[1]].files}
      IN /\ \A f \in DOMAIN told.started : told.started[f] # "none"
         /\ posted => Cardinality(DOMAIN told.started) + told.skipped = Cardinality(offered)

(* Of the episodes that have aired and stay on the list, no more are left  *)
(* out than titles leave the list between two pages, each of which may     *)
(* hide one: a bound on the damage, for some may be (arr_missing_aired).   *)
AiredListed ==
  \A count \in 0..4 : \A air \in [1..count -> 0..3], gone \in SUBSET (1..count), cut \in 1..2 :
    (\A n \in 1..(count - 1) : air[n] <= air[n + 1]) =>
      LET stays == [n \in (1..count) \ gone |-> air[n]]
          told == MissingAired([p \in 1..4 |-> IF p <= cut THEN air ELSE stays], 2, 2)
          hidden == {e \in DOMAIN stays : Aired(air[e], 2)} \ told
      IN Cardinality(hidden) <= Cardinality(gone)

(* The number of entries cleared is the number removed; after a failure it *)
(* falls short by a page at most.  Only an empty list is called cleared    *)
(* (arr_blocklist_clear).                                                  *)
ClearCounted ==
  \A left \in SUBSET (1..3), added \in [1..3 -> {{}, {10}, {11}}],
     fault \in [1..3 -> {"none", "read", "delete", "answer"}] :
    (\A n \in 2..3 : added[n] # {} => \A k \in 1..(n - 1) : added[k] # added[n]) =>
      LET told == BlocklistClear(left, 2, added, fault) IN
      /\ told.ok => told.left = {} /\ told.cleared = Cardinality(told.removed)
      /\ told.cleared <= Cardinality(told.removed) /\ Cardinality(told.removed) <= told.cleared + 2

(* A list that needs a token gets one, from another list of its family if  *)
(* the caller gives none of the fields of a token, and the caller's own    *)
(* fields are never replaced (arr_import_list_add).                        *)
ListsAuthorised ==
  \A implementation \in {"Trakt", "PlexImport", "RadarrListImport"},
     own \in UNION {[names -> {"mine"}] : names \in SUBSET {"accessToken", "url"}},
     lent \in UNION {[names -> {"lent"}] : names \in SUBSET {"accessToken", "refreshToken"}},
     plexToken \in {"unset", "plex"}, ready \in BOOLEAN :
    LET template == {"url", "accessToken", "refreshToken"}
        lists == <<[name |-> "other", implementation |-> "Trakt", fields |-> lent]>>
        told == ImportListAdd([implementation |-> implementation, name |-> "new", fields |-> own],
                              lists, template, plexToken, ready)
    IN told.ok =>
         /\ implementation = "Trakt" => told.lists[2].fields["accessToken"] # "unset"
         /\ \A f \in DOMAIN own : told.lists[2].fields[f] = own[f]

=============================================================================
