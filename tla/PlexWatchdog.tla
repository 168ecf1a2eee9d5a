---------------------------- MODULE PlexWatchdog ----------------------------
(***************************************************************************)
(* The Plex watchdog, scripts/plex-health-monitor.py, over the control     *)
(* panel's scan-health route, services/plex/router.py, and the restart     *)
(* route of services/host/router.py that it calls.                         *)
(*                                                                         *)
(* One poll is one step: the route combines the signals it reads, the      *)
(* watchdog classifies them, remembers how long the scan's progress has    *)
(* been flat, alerts, asks for a restart and reports recovery.  Plex, its  *)
(* mount and its log are the environment: every poll may read any signals. *)
(*                                                                         *)
(* Time stamps are kept as ages in poll intervals, which stop growing at   *)
(* the largest threshold they are compared with.  Messages are the last    *)
(* alert, recovery and restart of the poll.                                *)
(***************************************************************************)
EXTENDS Integers, FiniteSets

CONSTANTS
  AlertAfter,       \* SCAN_LAG_ALERT_SECONDS
  RestartAfter,     \* SCAN_LAG_RESTART_SECONDS
  RestartCooldown,  \* RESTART_COOLDOWN_SECONDS
  FailuresAlert,    \* CONSECUTIVE_POLL_FAILURE_ALERT
  Percent,          \* progress values of a scan
  Pauses,           \* time from one poll to the next
  None

ASSUME WatchdogAssumption ==
  /\ AlertAfter \in Nat /\ RestartAfter \in Nat \ {0} /\ RestartCooldown \in Nat
  /\ AlertAfter <= RestartAfter
  /\ FailuresAlert \in Nat \ {0}
  /\ Pauses \subseteq Nat \ {0}
  /\ None \notin Percent /\ None \notin Nat
  /\ None \notin {"hard_hang", "busy_db", "scan_lag", "poll_unreachable"}

Oldest == RestartAfter + RestartCooldown
Age == 0..Oldest
Older(age, pause) == IF age + pause > Oldest THEN Oldest ELSE age + pause

Kinds == {"hard_hang", "busy_db", "scan_lag"}
Alerts == Kinds \cup {"poll_unreachable"}

VARIABLES
  lastProgress,  \* last_progress
  progressAge,   \* age of last_progress_ts
  lagAge,        \* age of lag_started_ts, or None
  activeAlert,   \* active_alert
  restartAge,    \* age of last_restart_ts; the oldest before the first restart
  failures,      \* consecutive_poll_failures, up to the alert threshold
  askedAge,      \* polling time since the panel was last asked for a restart
  poll           \* what the last poll did

vars == <<lastProgress, progressAge, lagAge, activeAlert, restartAge, failures, askedAge, poll>>

Poll == [beat : BOOLEAN,                  \* tells one poll from the next
         kind     : Kinds \cup {None},    \* classify
         failing  : BOOLEAN,              \* is_failing
         recovered : Alerts \cup {None},  \* the failure whose recovery was reported
         restart  : {"none", "restarted", "failed", "refused"}]

TypeOK ==
  /\ lastProgress \in Percent \cup {None}
  /\ progressAge \in Age
  /\ lagAge \in Age \cup {None}
  /\ activeAlert \in Alerts \cup {None}
  /\ restartAge \in Age
  /\ failures \in 0..FailuresAlert
  /\ askedAge \in Age
  /\ poll \in Poll

Init ==
  /\ lastProgress = None
  /\ progressAge = 0
  /\ lagAge = None
  /\ activeAlert = None
  /\ restartAge = Oldest
  /\ failures = 0
  /\ askedAge = Oldest
  /\ poll = [beat |-> FALSE, kind |-> None, failing |-> FALSE, recovered |-> None,
             restart |-> "none"]

-----------------------------------------------------------------------------
\* The route: what one snapshot says

\* container: Plex's container; mount: what the ls inside it does; scan: the progress
\* of a library.update.section activity, None without one; log: the kinds of lines in
\* the log's tail; queue: NzbDAV's queue; and threads and processes that were seen.
Signals == [container : {"up", "down"}, mount : {"listed", "error", "hangs"},
            scan : Percent \cup {None}, log : SUBSET {"busy database", "Media Analyzer"},
            queue : {"empty", "slots"}, dstate : BOOLEAN, scanner : BOOLEAN]

\* Nothing can be executed in, or asked of, a container that is not up; an exec that
\* does not return in time is given up.
BoundedExec(s, result) ==
  CASE s.container = "down" -> "error"
    [] s.container = "up" /\ result = "hangs" -> "none"
    [] OTHER -> result

MountTest(s) == BoundedExec(s, s.mount) = "listed"
ScannerProcesses(s) == BoundedExec(s, "listed") = "listed" /\ s.scanner
DstateThreads(s) == s.container = "up" /\ s.dstate
Activities(s) == IF s.container = "up" THEN s.scan ELSE None
BusyErrors(s) == "busy database" \in s.log
AnalysisActive(s) == "Media Analyzer" \in s.log
\* A queue that cannot be read counts as empty.
QueueCounts(s) == IF s.queue = "slots" THEN 1 ELSE 0

\* plex_scan_health.
Health(s) ==
  CASE DstateThreads(s) \/ ~MountTest(s) -> "hung_confirmed"
    [] ~DstateThreads(s) /\ MountTest(s) /\ QueueCounts(s) > 0 ->
         IF Activities(s) # None /\ ~ScannerProcesses(s) /\ ~AnalysisActive(s)
         THEN "stalled_suspected" ELSE "scanning"
    [] OTHER -> IF Activities(s) # None THEN "scanning" ELSE "healthy"

\* The failure one snapshot shows, worst first; analysis explains a scan that stands still.
Classify(s) ==
  CASE DstateThreads(s) \/ ~MountTest(s) -> "hard_hang"
    [] ~DstateThreads(s) /\ MountTest(s) /\ BusyErrors(s) -> "busy_db"
    [] OTHER ->
         IF /\ ~AnalysisActive(s)
            /\ Activities(s) # None \/ Health(s) \in {"scanning", "stalled_suspected"}
         THEN "scan_lag" ELSE None

\* container_restart: Plex is restarted only by a caller that says activated=true.
ContainerRestart(name, activated) ==
  IF name = "plex" /\ ~activated THEN {"refused"} ELSE {"restarted", "failed"}

-----------------------------------------------------------------------------
\* The watchdog

\* A sustained run of failed polls is an alert of its own, sent when it gets there.
PollFails(pause) ==
  /\ failures' = IF failures < FailuresAlert THEN failures + 1 ELSE failures
  /\ activeAlert' = IF failures + 1 = FailuresAlert THEN "poll_unreachable" ELSE activeAlert
  /\ progressAge' = Older(progressAge, pause)
  /\ lagAge' = IF lagAge = None THEN None ELSE Older(lagAge, pause)
  /\ restartAge' = Older(restartAge, pause)
  /\ askedAge' = Older(askedAge, pause)
  /\ poll' = [beat |-> ~poll.beat, kind |-> None, failing |-> FALSE, recovered |-> None,
              restart |-> "none"]
  /\ UNCHANGED lastProgress

\* Defect: a new value of the progress leaves the lag running.
LagNow(s, pause) ==
  LET age == Older(progressAge, pause) IN
  IF Activities(s) = None THEN None ELSE IF lagAge = None THEN age ELSE Older(lagAge, pause)

\* Defect: the lag starts anew at every poll.
LagFromThisPoll(s, pause) == IF Activities(s) = lastProgress /\ Activities(s) # None THEN 0 ELSE None

\* The age of lag_started_ts once this poll's progress has been compared.
LagAge(s, pause) ==
  LET age == Older(progressAge, pause) IN
  CASE Activities(s) # lastProgress -> None
    [] Activities(s) = lastProgress /\ lagAge # None -> Older(lagAge, pause)
    [] OTHER -> IF Activities(s) # None THEN age ELSE None

LagSeconds(s, pause) ==
  IF Classify(s) = "scan_lag" /\ LagAge(s, pause) # None THEN LagAge(s, pause) ELSE 0

IsFailing(s, pause) ==
  \/ Classify(s) \in {"hard_hang", "busy_db"}
  \/ Classify(s) = "scan_lag" /\ LagSeconds(s, pause) >= AlertAfter

\* Defect: hung mounts are restarted too.
ShouldRestartAny(s, pause) ==
  /\ IsFailing(s, pause)
  /\ Older(restartAge, pause) >= RestartCooldown
  /\ Classify(s) # "scan_lag" \/ LagSeconds(s, pause) >= RestartAfter

ShouldRestart(s, pause) ==
  /\ IsFailing(s, pause)
  /\ Classify(s) # "hard_hang"
  /\ Older(restartAge, pause) >= RestartCooldown
  /\ Classify(s) = "busy_db" \/ LagSeconds(s, pause) >= RestartAfter

\* Once the endpoint answers, an alert about the endpoint is over.
StandingAlert == IF activeAlert = "poll_unreachable" THEN None ELSE activeAlert

\* Defect: the alert names the first failure of an episode, as it did before 2026-07-25.
FirstAlert(s, pause) ==
  IF IsFailing(s, pause) /\ StandingAlert = None THEN Classify(s) ELSE StandingAlert

\* The alert after this poll's failure, if any, has been reported.
AlertNow(s, pause) == IF IsFailing(s, pause) THEN Classify(s) ELSE StandingAlert

\* last_restart_ts is set before the route is called, whatever it answers.
RestartAge(s, pause) == IF ShouldRestart(s, pause) THEN 0 ELSE Older(restartAge, pause)

PollAnswers(s, pause) ==
  LET recovers == ~IsFailing(s, pause) /\ AlertNow(s, pause) # None IN
  /\ failures' = 0
  /\ lastProgress' = Activities(s)
  /\ progressAge' = IF Activities(s) # lastProgress THEN 0 ELSE Older(progressAge, pause)
  /\ lagAge' = IF recovers THEN None ELSE LagAge(s, pause)
  /\ activeAlert' = IF recovers THEN None ELSE AlertNow(s, pause)
  /\ \E outcome \in IF ShouldRestart(s, pause) THEN ContainerRestart("plex", FALSE) ELSE {"none"} :
       poll' = [beat |-> ~poll.beat, kind |-> Classify(s), failing |-> IsFailing(s, pause),
                recovered |-> IF recovers THEN AlertNow(s, pause) ELSE None,
                restart |-> outcome]
  /\ restartAge' = RestartAge(s, pause)
  /\ askedAge' = IF ShouldRestart(s, pause) THEN 0 ELSE Older(askedAge, pause)

Next ==
  \E pause \in Pauses :
    \/ PollFails(pause)
    \/ \E s \in Signals : PollAnswers(s, pause)

Spec == Init /\ [][Next]_vars

\* The loop sleeps and polls forever; systemd keeps it running.
FairSpec == Spec /\ WF_vars(Next)

-----------------------------------------------------------------------------
\* Properties

\* The endpoint is reported unreachable exactly while a sustained run of polls has
\* failed; no failure class hides it and one answer ends it (main, lines 217-230).
UnreachableMatchesFailures == (activeAlert = "poll_unreachable") <=> (failures = FailuresAlert)

\* A running lag counts from the last change of the progress, and only while there is
\* a progress: whatever failures, other alerts and recoveries came in between.
LagCountsFlatTime ==
  lagAge # None => lastProgress # None /\ lagAge = progressAge

\* A reported recovery names the failure of the last poll that failed: the stale alert
\* that the comment at plex-health-monitor.py:261-269 tells of does not come back.
LastFailure == IF poll.failing THEN poll.kind ELSE activeAlert
RecoveryNamesFailure ==
  [][poll'.recovered # None => poll'.recovered = LastFailure]_vars

\* Restarts are asked for at least a cooldown apart, whatever the route answers.
RestartsSpaced ==
  [][poll'.restart # "none" => \E pause \in Pauses : askedAge + pause >= RestartCooldown]_vars

\* A restart is never asked for a hung mount, nor for a scan whose progress moved less
\* than the restart threshold ago.
RestartsJustified ==
  [][poll'.restart # "none" =>
       \/ poll'.kind = "busy_db"
       \/ /\ poll'.kind = "scan_lag"
          /\ lastProgress' = lastProgress
          /\ \E pause \in Pauses : progressAge + pause >= RestartAfter]_vars

\* While every poll shows lock contention, the watchdog asks the panel for a restart of
\* Plex again and again, each time the cooldown is over.
ContentionAsks == <>[](poll.kind = "busy_db") => []<>(poll.restart # "none")

\* So it does while the progress of a scan stands still in every poll.
StandstillAsks ==
  \A p \in Percent :
    <>[](poll.kind = "scan_lag" /\ lastProgress = p) => []<>(poll.restart # "none")

\* What the watchdog tells of failures is what happened: unreachable means a run of
\* failed polls, and a recovery names the last failure.
AlertsTruthful == [](TypeOK /\ UnreachableMatchesFailures) /\ RecoveryNamesFailure

\* A restart is asked for contention or a standstill only, and never twice in a
\* cooldown.
RestartsWarranted == RestartsSpaced /\ RestartsJustified

\* Trouble that a restart may end is not watched for ever: the watchdog goes on asking
\* for one (main, lines 283-291).  It speaks of the request and not of what becomes of
\* it: the request has no activated=true, and container_restart answers each with 400.
TroubleAsksForRestart == ContentionAsks /\ StandstillAsks

=============================================================================
