---------------------------- MODULE QueueReports ----------------------------
(* The panel's read-only reports on the queues: which items are really     *)
(* moving (services/queue/router.py), which titles download in a loop and  *)
(* what to do about them, how long the backlog will take and what the      *)
(* command pools are doing (services/arr/router.py).  Each is a function   *)
(* of what the applications answer.                                        *)
EXTENDS Integers, FiniteSets, Sequences

-----------------------------------------------------------------------------
(* A source answers with its items by id, or does not answer.  An item of  *)
(* Radarr and Sonarr has a size, what is left of it and a state; a slot of *)
(* NzbDAV has a status; an activity of Plex has a progress.                *)
Down == [up |-> FALSE, items |-> <<>>]

ArrSizeleftSnapshot(answer) ==
  [i \in {i \in DOMAIN answer.items : answer.items[i].left > 0} |-> answer.items[i].left]

NzbdavMbleftSnapshot(answer) ==
  [i \in {i \in DOMAIN answer.items : answer.items[i].status = "Downloading"} |-> answer.items[i].left]

PlexProgressSnapshot(answer) == [i \in DOMAIN answer.items |-> answer.items[i].progress]

Shrank(prev, i, left) == i \in DOMAIN prev /\ prev[i] > left

BucketArrItem(q, prev, i) ==
  IF q.state \in {"importPending", "importBlocked"} THEN "importing"
  ELSE IF q.left = 0 THEN "queued"
  ELSE IF Shrank(prev, i, q.left) THEN "downloading" ELSE "stalled"

BucketNzbdavItem(s, prev, i) ==
  IF s.left = 0 THEN "importing"
  ELSE IF s.status # "Downloading" THEN "queued"
  ELSE IF Shrank(prev, i, s.left) THEN "downloading" ELSE "stalled"

BucketPlexActivity(a, prev, i) ==
  IF i \in DOMAIN prev /\ a.progress > prev[i] THEN "downloading" ELSE "stalled"

Bucket(source, first, second, i) ==
  CASE source = "arr" -> BucketArrItem(second.items[i], ArrSizeleftSnapshot(first), i)
    [] source = "nzbdav" -> BucketNzbdavItem(second.items[i], NzbdavMbleftSnapshot(first), i)
    [] source = "plex" -> BucketPlexActivity(second.items[i], PlexProgressSnapshot(first), i)

(* A source that fails at the first sample has an empty one; a source that *)
(* fails at the second is shown as unreachable and counts for nothing.     *)
QueueStatus(kind, first, second) ==
  LET reached == {s \in DOMAIN kind : second[s].up}
      shown == [s \in reached |-> [i \in DOMAIN second[s].items |-> Bucket(kind[s], first[s], second[s], i)]]
      entries == UNION {{<<s, i>> : i \in DOMAIN shown[s]} : s \in reached}
  IN [queues |-> shown, total |-> Cardinality(entries),
      active |-> Cardinality({e \in entries : shown[e[1]][e[2]] = "downloading"})]

-----------------------------------------------------------------------------
(* loop-candidates: titles whose downloads failed twice or more in the     *)
(* last hours.  A detail is what get_movie_or_episode returned, if it      *)
(* returned anything; a path is the download's in the queue now.           *)
LoopMinOccurrences == 2

Occurrences(records, hours, id) ==
  Cardinality({n \in DOMAIN records : records[n].id = id /\ records[n].age <= hours})

Looping(records, hours) ==
  {id \in {records[n].id : n \in DOMAIN records} : Occurrences(records, hours, id) >= LoopMinOccurrences}

(* A year in parentheses at the end of a name looks like the suffix that   *)
(* NzbDAV gives a duplicate.                                               *)
DedupSuffixHit(path) == path \in {"suffix", "year"}

(* The first record of the queue that is the title's tells its path.       *)
CurrentQueueOutputPath(queue, id) ==
  LET own == {n \in DOMAIN queue : queue[n].id = id} IN
  IF own = {} THEN "none"
  ELSE queue[CHOOSE n \in own : \A k \in own : n <= k].path

\* Defect: a series' episodes are counted while the rows are made.
SeriesSoFar(looping, detail, id) ==
  Cardinality({e \in looping : e <= id /\ detail[e].found /\ detail[e].series = detail[id].series})

SeriesCount(looping, detail, id) ==
  Cardinality({e \in looping : detail[e].found /\ detail[e].series = detail[id].series})

SuggestedAction(app, looping, detail, queue, threshold, id) ==
  IF detail[id].found /\ ~detail[id].monitored THEN "none"
  ELSE IF DedupSuffixHit(CurrentQueueOutputPath(queue, id)) THEN "suffix-bug"
  ELSE IF app = "sonarr" /\ detail[id].found /\ SeriesCount(looping, detail, id) >= threshold
    THEN "review-profile"
  ELSE "unmonitor"

LoopCandidates(app, records, hours, detail, queue, threshold) ==
  LET looping == Looping(records, hours) IN
  [id \in looping |-> SuggestedAction(app, looping, detail, queue, threshold, id)]

-----------------------------------------------------------------------------
(* backlog-status.  Times are in quarters of an hour, the newest record    *)
(* first; the estimate is missing * span / imports quarters of an hour.    *)
LookbackQuarters == 24

Imports(history) == {n \in DOMAIN history : history[n].event = "import"}

RecentImportRate(history) ==
  LET imports == Imports(history)
      newest == history[CHOOSE n \in imports : \A k \in imports : n <= k]
      oldest == history[CHOOSE n \in imports : \A k \in imports : n >= k]
      span == oldest.age - newest.age
  IN IF Cardinality(imports) < 2 \/ newest.age > LookbackQuarters THEN [imports |-> 0, span |-> 1]
     ELSE [imports |-> Cardinality(imports), span |-> IF span > 1 THEN span ELSE 1]

BacklogEta(missing, history) ==
  LET rate == RecentImportRate(history) IN
  IF missing = 0 THEN [kind |-> "none"]
  ELSE IF rate.imports = 0 THEN [kind |-> "unknown"]
  ELSE [kind |-> "eta", quarters |-> (missing * rate.span) \div rate.imports]

-----------------------------------------------------------------------------
(* The two views of the applications' commands: one with the oldest that   *)
(* wait, one with the numbers only.                                        *)
OldestShown == 5

OfStatus(issued, status) == {n \in DOMAIN issued : issued[n].status = status}

(* The order of the sort, which leaves equals in the order they came in.   *)
Earlier(issued, k, n) ==
  issued[k].at < issued[n].at \/ (issued[k].at = issued[n].at /\ k < n)
Rank(issued, queued, n) == Cardinality({k \in queued : Earlier(issued, k, n)})

CommandBacklog(issued) ==
  LET queued == OfStatus(issued, "queued")
      waiting == Cardinality(queued)
      shown == IF waiting < OldestShown THEN waiting ELSE OldestShown
  IN [total |-> Len(issued), queued |-> waiting, running |-> Cardinality(OfStatus(issued, "started")),
      oldest |-> [p \in 1..shown |-> issued[CHOOSE n \in queued : Rank(issued, queued, n) = p - 1]]]

CommandQueueSummary(pools) ==
  [answers |-> [a \in {a \in DOMAIN pools : pools[a].up} |->
     [total |-> Len(pools[a].issued),
      queued |-> Cardinality(OfStatus(pools[a].issued, "queued")),
      running |-> Cardinality(OfStatus(pools[a].issued, "started"))]],
   failed |-> {a \in DOMAIN pools : ~pools[a].up}]

-----------------------------------------------------------------------------
(* Properties, over bounded answers.                                       *)
Ids == {1, 2}
Answers(things) ==
  {Down} \cup {[up |-> TRUE, items |-> items] : items \in UNION {[ids -> things] : ids \in SUBSET Ids}}

Things(source) ==
  CASE source = "arr" -> [size : {2}, left : 0..2, state : {"downloading", "importPending"}]
    [] source = "nzbdav" -> [left : 0..2, status : {"Downloading", "Queued"}]
    [] source = "plex" -> [progress : 0..2]

Done(source, x) == IF source = "plex" THEN x.progress ELSE 2 - x.left
Moving(source, x) ==
  CASE source = "arr" -> x.state = "downloading" /\ x.left > 0
    [] source = "nzbdav" -> x.status = "Downloading" /\ x.left > 0
    [] source = "plex" -> TRUE

(* Downloading means that the item advanced between the two samples and is *)
(* not through, and an item that both samples hold as one that is loading  *)
(* and that advanced between them is never called stalled, whatever the    *)
(* application itself says of its progress (services/queue/router.py:5-7). *)
(* It says nothing of an item that the first sample lacks, as all do when  *)
(* their source failed at it: the report calls them stalled.               *)
OnlyMovingIsDownloading ==
  \A source \in {"arr", "nzbdav", "plex"} :
    \A first, second \in Answers(Things(source)) : second.up =>
      \A i \in DOMAIN second.items :
        LET old == first.items[i]
            new == second.items[i]
            advanced == i \in DOMAIN first.items /\ Done(source, new) > Done(source, old)
            bucket == Bucket(source, first, second, i)
        IN /\ bucket = "downloading" => advanced /\ Moving(source, new)
           /\ advanced /\ Moving(source, old) /\ Moving(source, new) => bucket = "downloading"

(* A source that is down costs the report its own items and no others.     *)
OneSourceDownCostsItself ==
  LET kind == [r |-> "arr", n |-> "nzbdav"]
      idle == [up |-> TRUE, items |-> [i \in {1} |-> [left |-> 1, status |-> "Downloading"]]]
  IN \A first, second \in Answers([size : {2}, left : 1..2, state : {"downloading"}]), before, after \in {Down, idle} :
       LET all == QueueStatus(kind, [r |-> first, n |-> before], [r |-> second, n |-> after])
           alone == QueueStatus([r |-> "arr"], [r |-> first], [r |-> second])
       IN /\ all.active = alone.active
          /\ all.total = alone.total + Cardinality(DOMAIN after.items)
          /\ second.up => all.queues["r"] = alone.queues["r"]

(* When enough episodes of one series loop, its quality profile is to be   *)
(* looked at: none of them is suggested for unmonitoring, in whatever      *)
(* order the history lists them.  What is suggested for unmonitoring has   *)
(* failed often enough in the hours asked for (arr_loop_candidates).       *)
ReviewBeforeUnmonitor ==
  \A detail \in [1..3 -> [found : {TRUE}, series : {"a", "b"}, monitored : BOOLEAN]
                           \cup [found : {FALSE}]],
     calls \in [1..5 -> 1..3], path \in {"plain", "suffix"}, threshold \in {2, 3} :
    LET records == [n \in 1..5 |-> [id |-> calls[n], age |-> n]]
        rows == LoopCandidates("sonarr", records, 4, detail, <<[id |-> 1, path |-> path]>>, threshold)
        ofSeries(s) == {e \in DOMAIN rows : detail[e].found /\ detail[e].series = s}
    IN \A e \in DOMAIN rows : rows[e] = "unmonitor" =>
         /\ \E k, n \in 1..4 : k < n /\ calls[k] = e /\ calls[n] = e
         /\ detail[e].found => detail[e].monitored /\ Cardinality(ofSeries(detail[e].series)) < threshold

(* The times between any two of the remembered imports, a quarter of an    *)
(* hour at least.                                                          *)
Spans(history) ==
  {1} \cup {history[l].age - history[k].age : k, l \in Imports(history)}

(* There is an estimate exactly if something is missing and two imports at *)
(* least are remembered, the newest of them from the last hours; the       *)
(* others may be older.  It is what the missing take at the rate of those  *)
(* imports over the longest time between two of them, and a burst counts   *)
(* as a quarter of an hour's, so that no rate is infinite                  *)
(* (recent_import_rate_per_hour, backlog_status).                          *)
EtaFollowsImports ==
  \A n \in 0..3 : \A ages \in [1..n -> {0, 2, LookbackQuarters, LookbackQuarters + 1}],
                     events \in [1..n -> {"import", "grab"}], missing \in 0..2 :
    (\A k \in 1..n : \A l \in k..n : ages[k] <= ages[l]) =>
      LET history == [k \in 1..n |-> [age |-> ages[k], event |-> events[k]]]
          imports == Imports(history)
          eta == BacklogEta(missing, history)
      IN /\ eta.kind = "eta" <=>
              /\ missing > 0 /\ Cardinality(imports) >= 2
              /\ \E k \in imports : history[k].age <= LookbackQuarters
         /\ eta.kind = "eta" => \E span \in Spans(history) :
              /\ \A other \in Spans(history) : other <= span
              /\ eta.quarters = (missing * span) \div Cardinality(imports)

(* The two views of a command pool agree, and nothing that waits is older  *)
(* than what is shown as the oldest (arr_command_backlog,                  *)
(* arr_command_queue_summary).                                             *)
CommandViewsAgree ==
  \A statuses \in [1..6 -> {"queued", "started"}], turned \in BOOLEAN :
    LET issued == [n \in 1..6 |-> [status |-> statuses[n], at |-> IF turned THEN 7 - n ELSE n]]
        backlog == CommandBacklog(issued)
        summary == CommandQueueSummary([r |-> [up |-> TRUE, issued |-> issued],
                                        s |-> [up |-> FALSE, issued |-> <<>>]])
        shown == {backlog.oldest[k].at : k \in DOMAIN backlog.oldest}
    IN /\ summary.answers["r"] = [total |-> 6, queued |-> backlog.queued, running |-> backlog.running]
       /\ \A n \in 1..6 : issued[n].status = "queued" /\ issued[n].at \notin shown =>
            Len(backlog.oldest) = OldestShown /\ \A at \in shown : at < issued[n].at

=============================================================================
