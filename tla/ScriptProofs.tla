---------------------------- MODULE ScriptProofs ----------------------------
(***************************************************************************)
(* Theorems about the panel's scripts.  PlexWatchdog.tla: the lag is the   *)
(* time the progress has been flat, the alerts tell what happened, and     *)
(* restarts are justified and spaced, for any thresholds, poll intervals   *)
(* and progress values.  LibraryAudit.tla: what a report says was so at    *)
(* some moment of the script, and nothing in use is deleted, for any       *)
(* titles, changes and failing reads.  TmdbAudit.tla: no outage reads as a *)
(* miss, and no remake is taken for the movie.                             *)
(***************************************************************************)
EXTENDS PlexWatchdog, MCLibraryAudit, FiniteSetTheorems, SequenceTheorems,
        WellFoundedInduction, TLAPS

-----------------------------------------------------------------------------
(* plex-health-monitor.py.                                                 *)


\* While polls fail to find Plex healthy, the standing alert is the last poll's failure.
AlertIsLastFailure ==
  poll.failing => poll.kind \in Kinds /\ activeAlert = poll.kind

\* The watchdog's own time stamp and the panel's side of it agree.
AskedWhenStamped == askedAge = restartAge

IInv ==
  /\ TypeOK
  /\ UnreachableMatchesFailures
  /\ LagCountsFlatTime
  /\ AlertIsLastFailure
  /\ AskedWhenStamped

-----------------------------------------------------------------------------
\* The operators a poll is made of.

\* An age that has grown by a pause is an age, and reaches a threshold only when the
\* sum does.
LEMMA OlderLemma ==
  ASSUME NEW age \in Age, NEW pause \in Pauses
  PROVE /\ Older(age, pause) \in Age
        /\ \A t \in 0..Oldest : Older(age, pause) >= t => age + pause >= t
  BY WatchdogAssumption DEF Older, Age, Oldest

\* The thresholds are within the ages kept apart.
LEMMA Thresholds ==
  /\ RestartAfter \in 0..Oldest /\ RestartCooldown \in 0..Oldest
  /\ 0 \in Age /\ Oldest \in Age /\ None \notin Age
  BY WatchdogAssumption DEF Oldest, Age

\* A snapshot shows one of the failures or none, and a progress or none.
LEMMA SignalsTyped ==
  ASSUME NEW s \in Signals
  PROVE /\ Classify(s) \in Kinds \cup {None}
        /\ Activities(s) \in Percent \cup {None}
  BY DEF Classify, Kinds, Activities, Signals

\* A failing poll has a failure (plex-health-monitor.py, is_failing).
LEMMA FailingHasKind ==
  ASSUME NEW s \in Signals, NEW pause \in Pauses, IsFailing(s, pause)
  PROVE Classify(s) \in Kinds
  BY DEF IsFailing, Kinds

\* The lag, when it runs, is the age of a progress that stands still.
LEMMA LagIsFlatTime ==
  ASSUME TypeOK, LagCountsFlatTime, NEW s \in Signals, NEW pause \in Pauses,
         LagAge(s, pause) # None
  PROVE /\ Activities(s) = lastProgress
        /\ Activities(s) # None
        /\ LagAge(s, pause) = Older(progressAge, pause)
  BY DEF LagAge, LagCountsFlatTime

\* What the alert is once a poll has answered: never about the endpoint any more.
LEMMA AlertNowTyped ==
  ASSUME TypeOK, NEW s \in Signals, NEW pause \in Pauses
  PROVE AlertNow(s, pause) \in Kinds \cup {None}
  <1>1. CASE IsFailing(s, pause)
    BY <1>1, FailingHasKind DEF AlertNow
  <1>2. CASE ~IsFailing(s, pause)
    BY <1>2 DEF AlertNow, StandingAlert, TypeOK, Alerts
  <1> QED BY <1>1, <1>2

\* The panel refuses the watchdog's restart, which is asked for when it should be.
LEMMA RestartOutcome ==
  ASSUME NEW s \in Signals, NEW pause \in Pauses, PollAnswers(s, pause)
  PROVE /\ poll'.restart # "none" => ShouldRestart(s, pause)
        /\ poll'.restart \in {"none", "restarted", "failed", "refused"}
        /\ poll'.kind = Classify(s)
        /\ poll'.failing = IsFailing(s, pause)
  BY DEF PollAnswers, ContainerRestart

-----------------------------------------------------------------------------
\* The inductive invariant

\* The invariant holds at first: nothing has been polled.
LEMMA InitIInv == Init => IInv
  <1> SUFFICES ASSUME Init PROVE IInv
    OBVIOUS
  <1>1. TypeOK
    BY Thresholds, WatchdogAssumption DEF Init, TypeOK, Poll
  <1>2. UnreachableMatchesFailures
    BY WatchdogAssumption DEF Init, UnreachableMatchesFailures
  <1>3. LagCountsFlatTime /\ AlertIsLastFailure /\ AskedWhenStamped
    BY DEF Init, LagCountsFlatTime, AlertIsLastFailure, AskedWhenStamped
  <1> QED BY <1>1, <1>2, <1>3 DEF IInv

\* A failed poll ages everything and may raise the alert about the endpoint.
LEMMA PollFailsIInv ==
  ASSUME IInv, NEW pause \in Pauses, PollFails(pause)
  PROVE IInv'
  <1> USE DEF PollFails, IInv
  <1>1. TypeOK'
    <2>1. failures' \in 0..FailuresAlert
      BY WatchdogAssumption DEF TypeOK
    <2>2. activeAlert' \in Alerts \cup {None}
      BY DEF TypeOK, Alerts
    <2>3. progressAge' \in Age /\ restartAge' \in Age /\ askedAge' \in Age
      BY OlderLemma DEF TypeOK
    <2>4. lagAge' \in Age \cup {None}
      BY OlderLemma DEF TypeOK
    <2>5. poll' \in Poll
      BY DEF TypeOK, Poll
    <2> QED BY <2>1, <2>2, <2>3, <2>4, <2>5 DEF TypeOK
  <1>2. UnreachableMatchesFailures'
    BY WatchdogAssumption DEF UnreachableMatchesFailures, TypeOK
  <1>3. LagCountsFlatTime'
    BY DEF LagCountsFlatTime
  <1>4. AlertIsLastFailure'
    BY DEF AlertIsLastFailure
  <1>5. AskedWhenStamped'
    BY DEF AskedWhenStamped
  <1> QED BY <1>1, <1>2, <1>3, <1>4, <1>5

\* A poll that answers starts or ends the lag, the alert and the cooldown.
LEMMA PollAnswersIInv ==
  ASSUME IInv, NEW pause \in Pauses, NEW s \in Signals, PollAnswers(s, pause)
  PROVE IInv'
  <1> DEFINE recovers == ~IsFailing(s, pause) /\ AlertNow(s, pause) # None
  <1>0. AlertNow(s, pause) \in Kinds \cup {None}
    BY AlertNowTyped DEF IInv
  <1>1. activeAlert' = (IF recovers THEN None ELSE AlertNow(s, pause))
    BY DEF PollAnswers
  <1>2. TypeOK'
    <2>1. failures' \in 0..FailuresAlert
      BY WatchdogAssumption DEF PollAnswers
    <2>2. activeAlert' \in Alerts \cup {None}
      BY <1>0, <1>1 DEF Alerts
    <2>3. progressAge' \in Age /\ restartAge' \in Age /\ askedAge' \in Age
      BY OlderLemma, Thresholds DEF PollAnswers, TypeOK, IInv, RestartAge
    <2>4. LagAge(s, pause) \in Age \cup {None}
      BY OlderLemma, LagIsFlatTime DEF IInv, TypeOK
    <2>5. lagAge' \in Age \cup {None}
      BY <2>4 DEF PollAnswers
    <2>6. poll' \in Poll
      <3>1. PICK outcome \in {"none", "restarted", "failed", "refused"} :
              poll' = [beat |-> ~poll.beat, kind |-> Classify(s), failing |-> IsFailing(s, pause),
                       recovered |-> IF recovers THEN AlertNow(s, pause) ELSE None,
                       restart |-> outcome]
        BY DEF PollAnswers, ContainerRestart
      <3>2. IsFailing(s, pause) \in BOOLEAN
        BY DEF IsFailing
      <3>3. (IF recovers THEN AlertNow(s, pause) ELSE None) \in Alerts \cup {None}
        BY <1>0 DEF Alerts
      <3> QED BY <3>1, <3>2, <3>3, SignalsTyped DEF Poll
    <2>7. lastProgress' \in Percent \cup {None}
      BY SignalsTyped DEF PollAnswers
    <2> QED BY <2>1, <2>2, <2>3, <2>5, <2>6, <2>7 DEF TypeOK
  <1>3. UnreachableMatchesFailures'
    <2>1. activeAlert' # "poll_unreachable"
      BY <1>0, <1>1, WatchdogAssumption DEF Kinds
    <2>2. failures' # FailuresAlert
      BY WatchdogAssumption DEF PollAnswers
    <2> QED BY <2>1, <2>2 DEF UnreachableMatchesFailures
  <1>4. LagCountsFlatTime'
    BY LagIsFlatTime DEF IInv, PollAnswers, LagCountsFlatTime
  <1>5. AlertIsLastFailure'
    BY <1>1, FailingHasKind, RestartOutcome DEF AlertIsLastFailure, AlertNow
  <1>6. AskedWhenStamped'
    BY DEF IInv, AskedWhenStamped, PollAnswers, RestartAge
  <1> QED BY <1>2, <1>3, <1>4, <1>5, <1>6 DEF IInv

\* Every poll, answered or not, keeps the invariant.
LEMMA NextIInv == IInv /\ [Next]_vars => IInv'
  <1> SUFFICES ASSUME IInv, [Next]_vars PROVE IInv'
    OBVIOUS
  <1>1. ASSUME NEW pause \in Pauses, PollFails(pause) PROVE IInv'
    BY <1>1, PollFailsIInv
  <1>2. ASSUME NEW pause \in Pauses, NEW s \in Signals, PollAnswers(s, pause) PROVE IInv'
    BY <1>2, PollAnswersIInv
  <1>3. CASE UNCHANGED vars
    BY <1>3 DEF vars, IInv, TypeOK, UnreachableMatchesFailures, LagCountsFlatTime,
                AlertIsLastFailure, AskedWhenStamped
  <1> QED BY <1>1, <1>2, <1>3 DEF Next

\* The invariant, for any thresholds and any course of Plex.
THEOREM Invariance == Spec => []IInv
  BY InitIInv, NextIInv, PTL DEF Spec

-----------------------------------------------------------------------------
\* Theorems

\* The lag counts from the last change of the progress, whatever other failures and
\* recoveries came in between (plex-health-monitor.py, track_progress).
THEOREM LagIsFlat == Spec => []LagCountsFlatTime
  <1>1. IInv => LagCountsFlatTime
    BY DEF IInv
  <1> QED BY <1>1, Invariance, PTL

\* A reported recovery names the failure of the last poll that failed.
LEMMA RecoveryStep == IInv /\ [Next]_vars => [poll'.recovered # None => poll'.recovered = LastFailure]_vars
  <1> SUFFICES ASSUME IInv, [Next]_vars, vars' # vars, poll'.recovered # None
               PROVE poll'.recovered = LastFailure
    BY DEF vars
  <1>1. ASSUME NEW pause \in Pauses, PollFails(pause) PROVE FALSE
    BY <1>1 DEF PollFails
  <1>2. ASSUME NEW pause \in Pauses, NEW s \in Signals, PollAnswers(s, pause)
        PROVE poll'.recovered = LastFailure
    <2>1. poll'.recovered = AlertNow(s, pause) /\ ~IsFailing(s, pause)
      BY <1>2 DEF PollAnswers
    <2>2. AlertNow(s, pause) = activeAlert
      BY <2>1 DEF AlertNow, StandingAlert
    <2> QED BY <2>1, <2>2 DEF LastFailure, IInv, AlertIsLastFailure
  <1> QED BY <1>1, <1>2 DEF Next

\* Alerts tell what happened: unreachable means a run of failed polls, and a recovery
\* names the last failure.
THEOREM AlertsTold == Spec => AlertsTruthful
  <1>1. IInv => TypeOK /\ UnreachableMatchesFailures
    BY DEF IInv
  <1>2. Spec => [](TypeOK /\ UnreachableMatchesFailures)
    BY <1>1, Invariance, PTL
  <1>3. Spec => RecoveryNamesFailure
    BY RecoveryStep, Invariance, PTL DEF Spec, RecoveryNamesFailure
  <1> QED BY <1>2, <1>3 DEF AlertsTruthful

\* A restart is asked for after a cooldown (the comment on RESTART_COOLDOWN_SECONDS).
LEMMA SpacedStep ==
  IInv /\ [Next]_vars =>
    [poll'.restart # "none" => \E pause \in Pauses : askedAge + pause >= RestartCooldown]_vars
  <1> SUFFICES ASSUME IInv, [Next]_vars, vars' # vars, poll'.restart # "none"
               PROVE \E pause \in Pauses : askedAge + pause >= RestartCooldown
    BY DEF vars
  <1>1. ASSUME NEW pause \in Pauses, PollFails(pause) PROVE FALSE
    BY <1>1 DEF PollFails
  <1>2. ASSUME NEW pause \in Pauses, NEW s \in Signals, PollAnswers(s, pause)
        PROVE askedAge + pause >= RestartCooldown
    <2>1. Older(restartAge, pause) >= RestartCooldown
      BY <1>2, RestartOutcome DEF ShouldRestart
    <2> QED BY <2>1, OlderLemma, Thresholds DEF IInv, AskedWhenStamped, TypeOK
  <1> QED BY <1>1, <1>2 DEF Next

\* A restart is asked for contention, or for a progress that has been flat long enough.
LEMMA JustifiedStep ==
  IInv /\ [Next]_vars =>
    [poll'.restart # "none" =>
       \/ poll'.kind = "busy_db"
       \/ /\ poll'.kind = "scan_lag"
          /\ lastProgress' = lastProgress
          /\ \E pause \in Pauses : progressAge + pause >= RestartAfter]_vars
  <1> SUFFICES ASSUME IInv, [Next]_vars, vars' # vars,
                      poll'.restart # "none", poll'.kind # "busy_db"
               PROVE /\ poll'.kind = "scan_lag"
                     /\ lastProgress' = lastProgress
                     /\ \E pause \in Pauses : progressAge + pause >= RestartAfter
    BY DEF vars
  <1>1. ASSUME NEW pause \in Pauses, PollFails(pause) PROVE FALSE
    BY <1>1 DEF PollFails
  <1>2. ASSUME NEW pause \in Pauses, NEW s \in Signals, PollAnswers(s, pause)
        PROVE /\ poll'.kind = "scan_lag"
              /\ lastProgress' = lastProgress
              /\ progressAge + pause >= RestartAfter
    <2>1. /\ poll'.kind = Classify(s) /\ Classify(s) = "scan_lag"
          /\ LagSeconds(s, pause) >= RestartAfter
      BY <1>2, RestartOutcome DEF ShouldRestart, IsFailing
    <2>2. LagAge(s, pause) # None /\ LagAge(s, pause) >= RestartAfter
      BY <2>1, WatchdogAssumption DEF LagSeconds
    <2>3. Activities(s) = lastProgress /\ Older(progressAge, pause) >= RestartAfter
      BY <2>2, LagIsFlatTime DEF IInv
    <2>4. progressAge + pause >= RestartAfter
      BY <2>3, OlderLemma, Thresholds DEF IInv, TypeOK
    <2> QED BY <1>2, <2>1, <2>3, <2>4 DEF PollAnswers
  <1> QED BY <1>1, <1>2 DEF Next

\* Plex is restarted for contention or a standstill only, never for a hung mount, and
\* never twice in a cooldown (main, the auto-restart branch).
THEOREM RestartsWellFounded == Spec => RestartsWarranted
  <1>1. Spec => RestartsSpaced
    BY SpacedStep, Invariance, PTL DEF Spec, RestartsSpaced
  <1>2. Spec => RestartsJustified
    BY JustifiedStep, Invariance, PTL DEF Spec, RestartsJustified
  <1> QED BY <1>1, <1>2 DEF RestartsWarranted

-----------------------------------------------------------------------------
(* plex-arr-reconcile.py, checkrr-badfiles-report.py and                   *)
(* radarr-orphan-empty-folders.py.                                         *)

\* What the invariant says

\* What is true of a title now was true at some moment of the run.
Witnessed == \A t \in Titles :
  Facts(library[t]) \subseteq past[t] /\ (library[t].owned => library[t].known)

\* The fields of one script stay as they were in the others.
OwnFields ==
  /\ run.tool # "reconcile" => run.arr = {} /\ run.plex = {}
  /\ ~Reconciled => run.disk = {}
  /\ run.tool # "badfiles" => DOMAIN run.tracked = {}
  /\ run.tool # "folders" \/ run.pc # "delete" => run.removed = {}

\* Whether t's application, and whether Plex, was asked for t.
ArrAsked(t) ==
  IF t \in Movies THEN run.pc # "radarr"
                  ELSE run.pc \notin {"radarr", "series"} /\ t \notin run.todo
PlexAsked(t) ==
  IF t \in Movies THEN run.pc \in {"shows", "sweep", "done"} ELSE run.pc \in {"sweep", "done"}

\* What plex-arr-reconcile.py has read of t, or did not find where it read.
Backed(t) ==
  /\ t \in run.arr => "owned" \in past[t]
  /\ t \in run.plex => "served" \in past[t]
  /\ (ArrAsked(t) /\ t \notin run.arr \cup run.unread) => "unowned" \in past[t]
  /\ (PlexAsked(t) /\ t \notin run.plex \cup run.unread) => "unserved" \in past[t]
  /\ (run.pc = "done" /\ "sweep" \notin run.failed /\ t \in Candidates)
       => (IF t \in run.disk THEN "there" \in past[t] ELSE "gone" \in past[t])

ReconcileOK ==
  run.tool = "reconcile" =>
    /\ run.pc \in {"radarr", "series", "episodes", "movies", "shows", "sweep", "done"}
    /\ run.pc # "episodes" => run.todo = {}
    /\ run.pc = "radarr" => run.unread = {}
    /\ \A t \in Titles : Backed(t)

\* A row of the re-download list, while the series are still being read.
RowOK(t) ==
  /\ "dead" \in past[t] /\ t \notin Images
  /\ run.tracked[t] = "yes" => "owned" \in past[t]
  /\ run.tracked[t] = "no" => "unowned" \in past[t] \/ t \in run.unread \cup run.todo

BadFilesOK ==
  run.tool = "badfiles" =>
    /\ run.pc \in {"verify", "radarr", "series", "episodes", "done"}
    /\ run.pc \notin {"verify", "episodes"} => run.todo = {}
    /\ run.pc = "verify" => DOMAIN run.tracked = {}
    /\ run.pc = "episodes" => run.todo \subseteq DOMAIN run.tracked
    /\ \A t \in Titles : t \in DOMAIN run.status \/ (run.pc = "verify" /\ t \in run.todo)
    /\ \A t \in DOMAIN run.status : run.status[t] = "dead" => "dead" \in past[t] /\ t \notin Images
    /\ \A t \in DOMAIN run.tracked : RowOK(t)

FoldersOK ==
  run.tool = "folders" =>
    /\ run.pc \in {"unmapped", "known", "classify", "delete"}
    /\ run.pc \in {"classify", "delete"} => \A t \in run.todo \cup run.removed : "unknown" \in past[t]

ScriptOK ==
  /\ run \in Script /\ run.disk \subseteq Candidates
  /\ OwnFields /\ ReconcileOK /\ BadFilesOK /\ FoldersOK

WorldOK ==
  /\ library \in [Titles -> Title]
  /\ past \in [Titles -> SUBSET FactNames]
  /\ spare \in [changes : 0..MaxChanges, faults : 0..MaxFaults]
  /\ Witnessed

AuditInv == WorldOK /\ ScriptOK

\* A fact is one of the ten.
LEMMA FactsNamed == \A x : Facts(x) \subseteq FactNames
  BY DEF Facts, FactNames

\* Faults and changes stay within their bounds.
LEMMA SpareStep ==
  ASSUME WorldOK,
         \/ Calm \/ Fault
         \/ spare.changes > 0 /\ spare' = [spare EXCEPT !.changes = @ - 1]
  PROVE  spare' \in [changes : 0..MaxChanges, faults : 0..MaxFaults]
<1>1. /\ spare.changes \in 0..MaxChanges /\ spare.faults \in 0..MaxFaults
      /\ spare \in [changes : 0..MaxChanges, faults : 0..MaxFaults]
      /\ MaxChanges \in Nat /\ MaxFaults \in Nat
  BY AuditAssumption DEF WorldOK
<1>2. /\ spare.faults > 0 => spare.faults - 1 \in 0..MaxFaults
      /\ spare.changes > 0 => spare.changes - 1 \in 0..MaxChanges
  BY <1>1
<1>3. QED
  BY <1>1, <1>2 DEF Calm, Fault

\* A step of a script that only reads leaves what is true of the titles.
LEMMA ReadOnly ==
  ASSUME WorldOK, Still, Calm \/ Fault
  PROVE  WorldOK'
<1>1. spare' \in [changes : 0..MaxChanges, faults : 0..MaxFaults]
  BY SpareStep
<1>2. QED
  BY <1>1 DEF WorldOK, Still, Witnessed

\* What was so at some moment of the run stays so.
LEMMA PastGrows ==
  ASSUME ScriptOK, UNCHANGED run, \A t \in Titles : past[t] \subseteq past'[t]
  PROVE  ScriptOK'
<1> USE DEF ScriptOK
<1>1. DOMAIN run.tracked \subseteq Titles /\ DOMAIN run.status \subseteq Titles
      /\ run.todo \subseteq Titles /\ run.removed \subseteq Titles
  BY DEF Script, Partial
<1>2. ReconcileOK'
  BY DEF ReconcileOK, Backed, ArrAsked, PlexAsked, Candidates
<1>3. BadFilesOK'
  BY <1>1 DEF BadFilesOK, RowOK
<1>4. FoldersOK'
  BY <1>1 DEF FoldersOK
<1>5. QED
  BY <1>2, <1>3, <1>4 DEF OwnFields, Candidates, Reconciled, At

-----------------------------------------------------------------------------
\* The world

\* A change of the library, whatever a script is doing.
LEMMA BecomesStep ==
  ASSUME AuditInv, NEW t \in Titles, NEW x \in Title, Becomes(t, x)
  PROVE  AuditInv'
<1> USE DEF AuditInv, WorldOK
<1>1. spare' \in [changes : 0..MaxChanges, faults : 0..MaxFaults]
  BY SpareStep DEF Becomes
<1>2. /\ library' = [library EXCEPT ![t] = x] /\ UNCHANGED run
      /\ past' = [past EXCEPT ![t] = past[t] \cup Facts(x)]
      /\ x.owned => x.known
  BY DEF Becomes, Sound
<1>3. library' \in [Titles -> Title]
  BY <1>2
<1>4. past' \in [Titles -> SUBSET FactNames]
  BY <1>2, FactsNamed
<1>5. Witnessed'
  BY <1>2 DEF Witnessed
<1>6. ScriptOK'
  BY <1>2, PastGrows
<1>7. QED
  BY <1>1, <1>3, <1>4, <1>5, <1>6

\* What goes on in the library while a script runs.
LEMMA WorldStep == ASSUME AuditInv, World PROVE AuditInv'
<1>1. PICK t \in Titles :
        Imported(t) \/ Lost(t) \/ Rescanned(t) \/ PlexScanned(t) \/ TrashEmptied(t)
        \/ Removed(t) \/ Added(t)
  BY DEF World
<1>2. library[t] \in Title
  BY DEF AuditInv, WorldOK
<1>3. \E x \in Title : Becomes(t, x)
  BY <1>1, <1>2 DEF Imported, Lost, Rescanned, PlexScanned, TrashEmptied, Removed, Added, Title
<1>4. QED
  BY <1>3, BecomesStep

-----------------------------------------------------------------------------
\* plex-arr-reconcile.py

\* What the applications and Plex say of a title is so when they say it.
LEMMA Said ==
  ASSUME WorldOK, NEW t \in Titles
  PROVE  /\ IF library[t].owned THEN "owned" \in past[t] ELSE "unowned" \in past[t]
         /\ IF library[t].known THEN "known" \in past[t] ELSE "unknown" \in past[t]
         /\ IF library[t].served THEN "served" \in past[t] ELSE "unserved" \in past[t]
         /\ IF library[t].file # "none" THEN "there" \in past[t] ELSE "gone" \in past[t]
         /\ library[t].file = "dead" => "dead" \in past[t]
         /\ ~library[t].known => "unowned" \in past[t]
  BY DEF WorldOK, Witnessed, Facts

\* The reconcile script asks Radarr for its files.
LEMMA RadarrStep == ASSUME AuditInv, ArrPathsRadarr PROVE AuditInv'
<1> USE DEF AuditInv, ScriptOK
<1>1. /\ At("reconcile", "radarr") /\ Still /\ (Calm \/ Fault) /\ run \in Script
      /\ \/ run' = [run EXCEPT !.pc = "series", !.arr = Owned(Movies)]
         \/ run' = [run EXCEPT !.pc = "series", !.failed = run.failed \cup {"radarr"}, !.unread = Movies]
  BY DEF ArrPathsRadarr
<1>2. WorldOK'
  BY <1>1, ReadOnly
<1>3. /\ run.tool = "reconcile" /\ run.pc = "radarr" /\ run.todo = {} /\ run.unread = {}
      /\ run.disk = {} /\ run.removed = {}
  BY <1>1 DEF At, ReconcileOK, OwnFields, Reconciled
<1>4. run' \in Script
  <2>1. Owned(Movies) \in SUBSET Titles /\ Movies \in SUBSET Titles
    BY DEF Owned, Titles
  <2>2. run.failed \cup {"radarr"} \in SUBSET Reads
    BY <1>1 DEF Script, Reads
  <2> DEFINE a == Owned(Movies)
             f == run.failed \cup {"radarr"}
  <2> HIDE DEF a, f
  <2>3. \/ run' = [run EXCEPT !.pc = "series", !.arr = a]
        \/ run' = [run EXCEPT !.pc = "series", !.failed = f, !.unread = Movies]
    BY <1>1 DEF a, f
  <2>4. a \in SUBSET Titles /\ f \in SUBSET Reads /\ "series" \in Stages
    BY <2>1, <2>2 DEF a, f, Stages
  <2>5. QED
    BY <1>1, <2>1, <2>3, <2>4 DEF Script
<1>5. /\ run'.tool = "reconcile" /\ run'.pc = "series" /\ run'.todo = {} /\ run'.disk = {}
      /\ run'.removed = {} /\ run'.plex = run.plex /\ run'.tracked = run.tracked
      /\ \/ run'.arr = Owned(Movies) /\ run'.unread = {}
         \/ run'.arr = run.arr /\ run'.unread = Movies
  BY <1>1, <1>3 DEF Script
<1>6. OwnFields'
  BY <1>3, <1>5 DEF OwnFields, Reconciled, At
<1>7. ASSUME NEW t \in Titles PROVE Backed(t)'
  BY <1>1, <1>3, <1>5, Said DEF Still, Backed, ArrAsked, PlexAsked, ReconcileOK, Owned
<1>8. QED
  BY <1>2, <1>4, <1>5, <1>6, <1>7 DEF ReconcileOK, BadFilesOK, FoldersOK, Candidates

\* The series list: a series that Sonarr does not know has no file of Sonarr's.
LEMMA SeriesStep == ASSUME AuditInv, ArrPathsSeries PROVE AuditInv'
<1> USE DEF AuditInv, ScriptOK
<1> DEFINE asked == {t \in Shows : library[t].known}
           f == run.failed \cup {"sonarr"}
           u == run.unread \cup Shows
<1>0. asked \in SUBSET Titles /\ asked \subseteq Shows /\ f \in SUBSET Reads /\ u \in SUBSET Titles
      /\ {"episodes", "movies"} \subseteq Stages
  BY DEF Titles, Script, Reads, Stages
<1>a. \A t \in Titles : t \in asked <=> (t \in Shows /\ library[t].known)
  BY DEF Titles
<1>u. \A t \in Titles : t \in u <=> t \in run.unread \/ t \in Shows
  OBVIOUS
<1>1. /\ At("reconcile", "series") /\ Still /\ (Calm \/ Fault) /\ run \in Script
      /\ \/ run' = [run EXCEPT !.pc = "episodes", !.todo = asked]
         \/ run' = [run EXCEPT !.pc = "movies", !.failed = f, !.unread = u]
  BY DEF ArrPathsSeries
<1> HIDE DEF asked, f, u
<1>2. WorldOK'
  BY <1>1, ReadOnly
<1>3. /\ run.tool = "reconcile" /\ run.pc = "series" /\ run.todo = {}
      /\ run.disk = {} /\ run.removed = {}
  BY <1>1 DEF At, ReconcileOK, OwnFields, Reconciled
<1>4. run' \in Script
  BY <1>0, <1>1 DEF Script
<1>5. /\ run'.tool = "reconcile" /\ run'.disk = {} /\ run'.arr = run.arr
      /\ run'.removed = {} /\ run'.plex = run.plex /\ run'.tracked = run.tracked
      /\ \/ run'.pc = "episodes" /\ run'.todo = asked /\ run'.unread = run.unread
         \/ run'.pc = "movies" /\ run'.todo = {} /\ run'.unread = u
  BY <1>1, <1>3 DEF Script
<1>6. OwnFields'
  BY <1>3, <1>5 DEF OwnFields, Reconciled, At
<1>7. ASSUME NEW t \in Titles PROVE Backed(t)'
  <2>1. Backed(t) /\ past'[t] = past[t] /\ (t \in Shows \/ t \in Movies)
    BY <1>1, <1>3 DEF Still, ReconcileOK, Titles
  <2>2. ~library[t].known => "unowned" \in past[t]
    BY Said
  <2>3. t \in Movies => t \notin Shows
    BY AuditAssumption
  <2>4. QED
    BY <1>a, <1>u, <1>3, <1>5, <2>1, <2>2, <2>3 DEF Backed, ArrAsked, PlexAsked
<1>8. QED
  BY <1>2, <1>3, <1>4, <1>5, <1>6, <1>7 DEF ReconcileOK, BadFilesOK, FoldersOK, Candidates

\* One series, or the end of Sonarr's reading.
LEMMA EpisodesStep == ASSUME AuditInv, ArrPathsEpisodes PROVE AuditInv'
<1> USE DEF AuditInv, ScriptOK
<1> DEFINE f == run.failed \cup {"sonarr"}
           u == run.unread \cup run.todo
<1>0. /\ f \in SUBSET Reads /\ u \in SUBSET Titles /\ {} \in SUBSET Titles
      /\ \A t : run.todo \ {t} \in SUBSET Titles /\ run.arr \cup Owned({t} \cap Titles) \in SUBSET Titles
      /\ "movies" \in Stages /\ run.todo \subseteq Titles
  BY DEF Titles, Script, Reads, Stages, Owned
<1>1. At("reconcile", "episodes") /\ Still /\ (Calm \/ Fault) /\ run \in Script
  BY DEF ArrPathsEpisodes
<1>2. WorldOK'
  BY <1>1, ReadOnly
<1>3. /\ run.tool = "reconcile" /\ run.pc = "episodes"
      /\ run.disk = {} /\ run.removed = {}
  BY <1>1 DEF At, ReconcileOK, OwnFields, Reconciled
<1>4. CASE run.todo = {} /\ run' = [run EXCEPT !.pc = "movies"]
  <2>1. run' \in Script
    BY <1>0, <1>1, <1>4 DEF Script
  <2>2. /\ run'.tool = "reconcile" /\ run'.pc = "movies" /\ run'.todo = {} /\ run'.disk = {}
        /\ run'.arr = run.arr /\ run'.unread = run.unread /\ run'.removed = {}
        /\ run'.plex = run.plex /\ run'.tracked = run.tracked
    BY <1>1, <1>3, <1>4 DEF Script
  <2>3. OwnFields'
    BY <1>3, <2>2 DEF OwnFields, Reconciled, At
  <2>4. ASSUME NEW t \in Titles PROVE Backed(t)'
    <3>1. Backed(t) /\ past'[t] = past[t]
      BY <1>1, <1>3 DEF Still, ReconcileOK
    <3>2. QED
      BY <1>3, <1>4, <2>2, <3>1 DEF Backed, ArrAsked, PlexAsked
  <2>5. QED
    BY <1>2, <2>1, <2>2, <2>3, <2>4 DEF ReconcileOK, BadFilesOK, FoldersOK, Candidates
<1>5. ASSUME NEW s \in run.todo,
             run' = [run EXCEPT !.todo = run.todo \ {s}, !.arr = run.arr \cup Owned({s})]
      PROVE AuditInv'
  <2> DEFINE d == run.todo \ {s}
             a == run.arr \cup Owned({s})
  <2>0. d \in SUBSET Titles /\ a \in SUBSET Titles
    BY <1>0 DEF Owned, Script
  <2>a. \A t \in Titles : /\ t \in d <=> t \in run.todo /\ t # s
                          /\ t \in a <=> t \in run.arr \/ (t = s /\ library[t].owned)
    BY DEF Owned
  <2>1. run' = [run EXCEPT !.todo = d, !.arr = a]
    BY <1>5
  <2> HIDE DEF d, a
  <2>2. run' \in Script
    BY <1>1, <2>0, <2>1 DEF Script
  <2>3. /\ run'.tool = "reconcile" /\ run'.pc = "episodes" /\ run'.todo = d /\ run'.disk = {}
        /\ run'.arr = a /\ run'.unread = run.unread /\ run'.removed = {}
        /\ run'.plex = run.plex /\ run'.tracked = run.tracked
    BY <1>1, <1>3, <2>1 DEF Script
  <2>4. OwnFields'
    BY <1>3, <2>3 DEF OwnFields, Reconciled, At
  <2>5. ASSUME NEW t \in Titles PROVE Backed(t)'
    <3>1. Backed(t) /\ past'[t] = past[t]
      BY <1>1, <1>3 DEF Still, ReconcileOK
    <3>2. IF library[t].owned THEN "owned" \in past[t] ELSE "unowned" \in past[t]
      BY Said
    <3>3. QED
      BY <1>3, <2>a, <2>3, <3>1, <3>2 DEF Backed, ArrAsked, PlexAsked
  <2>6. QED
    BY <1>2, <2>2, <2>3, <2>4, <2>5 DEF ReconcileOK, BadFilesOK, FoldersOK, Candidates
<1>6. CASE run' = [run EXCEPT !.pc = "movies", !.failed = f, !.unread = u, !.todo = {}]
  <2>a. \A t \in Titles : t \in u <=> t \in run.unread \/ t \in run.todo
    OBVIOUS
  <2> HIDE DEF f, u
  <2>1. run' \in Script
    BY <1>0, <1>1, <1>6 DEF Script
  <2>2. /\ run'.tool = "reconcile" /\ run'.pc = "movies" /\ run'.todo = {} /\ run'.disk = {}
        /\ run'.arr = run.arr /\ run'.unread = u /\ run'.removed = {}
        /\ run'.plex = run.plex /\ run'.tracked = run.tracked
    BY <1>1, <1>3, <1>6 DEF Script
  <2>3. OwnFields'
    BY <1>3, <2>2 DEF OwnFields, Reconciled, At
  <2>4. ASSUME NEW t \in Titles PROVE Backed(t)'
    <3>1. Backed(t) /\ past'[t] = past[t]
      BY <1>1, <1>3 DEF Still, ReconcileOK
    <3>2. QED
      BY <1>3, <2>a, <2>2, <3>1 DEF Backed, ArrAsked, PlexAsked
  <2>5. QED
    BY <1>2, <2>1, <2>2, <2>3, <2>4 DEF ReconcileOK, BadFilesOK, FoldersOK, Candidates
<1>7. QED
  BY <1>4, <1>5, <1>6 DEF ArrPathsEpisodes

\* One section of Plex.
LEMMA SectionStep ==
  ASSUME AuditInv, NEW section, NEW ts, NEW then, PlexServed(section, ts, then),
         \/ section = "movies" /\ ts = Movies /\ then = "shows"
         \/ section = "shows" /\ ts = Shows /\ then = "sweep"
  PROVE  AuditInv'
<1> USE DEF AuditInv, ScriptOK
<1> DEFINE p == run.plex \cup Served(ts)
           f == run.failed \cup {section}
           u == run.unread \cup ts
<1>0. /\ p \in SUBSET Titles /\ f \in SUBSET Reads /\ u \in SUBSET Titles /\ then \in Stages
  BY DEF Titles, Script, Reads, Stages, Served
<1>a. \A t \in Titles : /\ t \in p <=> t \in run.plex \/ (t \in ts /\ library[t].served)
                        /\ t \in u <=> t \in run.unread \/ t \in ts
  BY DEF Served
<1>1. /\ At("reconcile", section) /\ Still /\ (Calm \/ Fault) /\ run \in Script
      /\ \/ run' = [run EXCEPT !.pc = then, !.plex = p]
         \/ run' = [run EXCEPT !.pc = then, !.failed = f, !.unread = u]
  BY DEF PlexServed
<1> HIDE DEF p, f, u
<1>2. WorldOK'
  BY <1>1, ReadOnly
<1>3. /\ run.tool = "reconcile" /\ run.pc = section /\ run.todo = {}
      /\ run.disk = {} /\ run.removed = {}
  BY <1>1 DEF At, ReconcileOK, OwnFields, Reconciled
<1>4. run' \in Script
  BY <1>0, <1>1 DEF Script
<1>5. /\ run'.tool = "reconcile" /\ run'.disk = {} /\ run'.arr = run.arr /\ run'.pc = then
      /\ run'.removed = {} /\ run'.tracked = run.tracked /\ run'.todo = {}
      /\ \/ run'.plex = p /\ run'.unread = run.unread
         \/ run'.plex = run.plex /\ run'.unread = u
  BY <1>1, <1>3 DEF Script
<1>6. OwnFields'
  BY <1>3, <1>5 DEF OwnFields, Reconciled, At
<1>7. ASSUME NEW t \in Titles PROVE Backed(t)'
  <2>1. Backed(t) /\ past'[t] = past[t]
    BY <1>1, <1>3 DEF Still, ReconcileOK
  <2>2. IF library[t].served THEN "served" \in past[t] ELSE "unserved" \in past[t]
    BY Said
  <2>3. (t \in Movies \/ t \in Shows) /\ (t \in Movies => t \notin Shows)
    BY AuditAssumption DEF Titles
  <2>4. QED
    BY <1>a, <1>3, <1>5, <2>1, <2>2, <2>3 DEF Backed, ArrAsked, PlexAsked
<1>8. QED
  BY <1>2, <1>3, <1>4, <1>5, <1>6, <1>7 DEF ReconcileOK, BadFilesOK, FoldersOK, Candidates

\* The look at the disk.
LEMMA SweepStep == ASSUME AuditInv, ExistsInPlexContainer PROVE AuditInv'
<1> USE DEF AuditInv, ScriptOK
<1> DEFINE d == OnDisk(Candidates)
           f == run.failed \cup {"sweep"}
<1>0. /\ d \in SUBSET Titles /\ d \subseteq Candidates /\ f \in SUBSET Reads /\ "done" \in Stages
      /\ "sweep" \in f
  BY DEF Titles, Script, Reads, Stages, OnDisk, Candidates
<1>a. \A t \in Titles : t \in d <=> t \in Candidates /\ library[t].file # "none"
  BY DEF OnDisk
<1>1. /\ At("reconcile", "sweep") /\ Still /\ (Calm \/ Fault) /\ run \in Script
      /\ \/ run' = [run EXCEPT !.pc = "done", !.disk = d]
         \/ run' = [run EXCEPT !.pc = "done", !.failed = f]
  BY DEF ExistsInPlexContainer
<1> HIDE DEF d, f
<1>2. WorldOK'
  BY <1>1, ReadOnly
<1>3. /\ run.tool = "reconcile" /\ run.pc = "sweep" /\ run.todo = {}
      /\ run.disk = {} /\ run.removed = {}
  BY <1>1 DEF At, ReconcileOK, OwnFields, Reconciled
<1>4. run' \in Script
  BY <1>0, <1>1 DEF Script
<1>5. /\ run'.tool = "reconcile" /\ run'.arr = run.arr /\ run'.plex = run.plex /\ run'.pc = "done"
      /\ run'.removed = {} /\ run'.tracked = run.tracked /\ run'.todo = {} /\ run'.unread = run.unread
      /\ \/ run'.disk = d
         \/ run'.disk = {} /\ run'.failed = f
  BY <1>1, <1>3 DEF Script
<1>c. Candidates' = Candidates
  BY <1>5 DEF Candidates
<1>6. OwnFields'
  BY <1>3, <1>5 DEF OwnFields, Reconciled, At
<1>7. ASSUME NEW t \in Titles PROVE Backed(t)'
  <2>1. Backed(t) /\ past'[t] = past[t]
    BY <1>1, <1>3 DEF Still, ReconcileOK
  <2>2. IF library[t].file # "none" THEN "there" \in past[t] ELSE "gone" \in past[t]
    BY Said
  <2>3. QED
    BY <1>0, <1>a, <1>c, <1>3, <1>5, <2>1, <2>2 DEF Backed, ArrAsked, PlexAsked
<1>8. QED
  BY <1>0, <1>c, <1>2, <1>3, <1>4, <1>5, <1>6, <1>7 DEF ReconcileOK, BadFilesOK, FoldersOK

\* A step of plex-arr-reconcile.py.
LEMMA ReconcileStep == ASSUME AuditInv, Reconcile PROVE AuditInv'
<1>1. CASE PlexServed("movies", Movies, "shows")
  BY <1>1, SectionStep
<1>2. CASE PlexServed("shows", Shows, "sweep")
  BY <1>2, SectionStep
<1>3. QED
  BY <1>1, <1>2, RadarrStep, SeriesStep, EpisodesStep, SweepStep DEF Reconcile

-----------------------------------------------------------------------------
\* checkrr-badfiles-report.py

\* Partial results are functions on some of the titles.
LEMMA PartialResult ==
  ASSUME NEW V
  PROVE  \A f : f \in Partial(V) <=> DOMAIN f \subseteq Titles /\ f \in [DOMAIN f -> V]
<1>1. ASSUME NEW f, f \in Partial(V) PROVE DOMAIN f \subseteq Titles /\ f \in [DOMAIN f -> V]
  BY <1>1 DEF Partial
<1>2. ASSUME NEW f, DOMAIN f \subseteq Titles, f \in [DOMAIN f -> V] PROVE f \in Partial(V)
  <2>1. DOMAIN f \in SUBSET Titles
    BY <1>2
  <2>2. QED
    BY <1>2, <2>1 DEF Partial
<1>3. QED
  BY <1>1, <1>2

\* What a result is when v has been entered for t.
IsEntry(g, f, t, v) ==
  /\ g \in Partial(Statuses)
  /\ DOMAIN g = DOMAIN f \cup {t}
  /\ \A x \in DOMAIN f \cup {t} : g[x] = IF x = t THEN v ELSE f[x]

\* A header's verdict entered.
LEMMA StatusEntered ==
  \A f \in Partial(Statuses), t \in Titles, v \in Statuses : IsEntry(With(f, t, v), f, t, v)
<1> DEFINE V == Statuses
<1> HIDE DEF V
<1>1. \A f \in Partial(V), t \in Titles, v \in V :
           /\ With(f, t, v) \in Partial(V)
           /\ DOMAIN With(f, t, v) = DOMAIN f \cup {t}
           /\ \A x \in DOMAIN f \cup {t} : With(f, t, v)[x] = IF x = t THEN v ELSE f[x]
  <2> TAKE f \in Partial(V), t \in Titles, v \in V
  <2>1. DOMAIN f \subseteq Titles /\ f \in [DOMAIN f -> V]
    BY PartialResult
  <2>2. /\ DOMAIN With(f, t, v) = DOMAIN f \cup {t}
        /\ \A x \in DOMAIN f \cup {t} : With(f, t, v)[x] = IF x = t THEN v ELSE f[x]
        /\ With(f, t, v) \in [DOMAIN f \cup {t} -> V]
    BY <2>1 DEF With
  <2>3. QED
    BY <2>1, <2>2, PartialResult
<1>2. QED
  BY <1>1 DEF V, IsEntry

\* Rows added to the list.
LEMMA RowsAdded ==
  ASSUME ScriptOK, NEW verdict \in Partial({"yes", "no", "unknown"})
  PROVE  /\ Rows(verdict) \in Partial({"yes", "no", "unknown"})
         /\ DOMAIN Rows(verdict) = DOMAIN run.tracked \cup DOMAIN verdict
         /\ \A t \in DOMAIN Rows(verdict) :
              Rows(verdict)[t] = IF t \in DOMAIN verdict THEN verdict[t] ELSE run.tracked[t]
<1> DEFINE V == {"yes", "no", "unknown"}
<1>1. run.tracked \in Partial(V)
  BY DEF ScriptOK, Script
<1> HIDE DEF V
<1>2. /\ DOMAIN run.tracked \subseteq Titles /\ run.tracked \in [DOMAIN run.tracked -> V]
      /\ DOMAIN verdict \subseteq Titles /\ verdict \in [DOMAIN verdict -> V]
  BY <1>1, PartialResult DEF V
<1>3. /\ DOMAIN Rows(verdict) = DOMAIN run.tracked \cup DOMAIN verdict
      /\ \A t \in DOMAIN Rows(verdict) :
              Rows(verdict)[t] = IF t \in DOMAIN verdict THEN verdict[t] ELSE run.tracked[t]
      /\ Rows(verdict) \in [DOMAIN run.tracked \cup DOMAIN verdict -> V]
  BY <1>2 DEF Rows
<1>4. Rows(verdict) \in Partial(V)
  BY <1>2, <1>3, PartialResult
<1>5. QED
  BY <1>3, <1>4 DEF V

\* A file's header is read.
LEMMA VerifyStep == ASSUME AuditInv, NEW t \in Titles, VerifyFile(t) PROVE AuditInv'
<1> USE DEF AuditInv, ScriptOK
<1> DEFINE d == run.todo \ {t}
<1>0. d \in SUBSET Titles /\ run.status \in Partial(Statuses)
  BY DEF Script
<1>1. At("badfiles", "verify") /\ Still /\ (Calm \/ Fault) /\ run \in Script /\ t \in run.todo
  BY DEF VerifyFile
<1>2. WorldOK'
  BY <1>1, ReadOnly
<1>3. PICK v \in Statuses :
        /\ run' = [run EXCEPT !.todo = d, !.status = With(run.status, t, v)]
        /\ v = "dead" => library[t].file = "dead" /\ t \notin Images
  <2>1. Header(t) \in Statuses /\ (Header(t) = "dead" => library[t].file = "dead" /\ t \notin Images)
    BY DEF Header, Statuses
  <2>2. CASE run' = [run EXCEPT !.todo = d, !.status = With(run.status, t, Header(t))]
    BY <2>1, <2>2
  <2>3. CASE run' = [run EXCEPT !.todo = d, !.status = With(run.status, t, "unreadable")]
    BY <2>3 DEF Statuses
  <2>4. QED
    BY <2>2, <2>3 DEF VerifyFile
<1>a. v \in Statuses
  OBVIOUS
<1>b. IsEntry(With(run.status, t, v), run.status, t, v)
  BY <1>0, <1>a, StatusEntered
<1> DEFINE w == With(run.status, t, v)
<1>4. /\ w \in Partial(Statuses) /\ DOMAIN w = DOMAIN run.status \cup {t}
      /\ \A x \in DOMAIN run.status \cup {t} : w[x] = IF x = t THEN v ELSE run.status[x]
  BY <1>b DEF IsEntry
<1>5. \A x \in Titles : x \in d <=> x \in run.todo /\ x # t
  OBVIOUS
<1>6. run' = [run EXCEPT !.todo = d, !.status = w]
  BY <1>3
<1> HIDE DEF d, w
<1>7. run' \in Script
  BY <1>0, <1>1, <1>4, <1>6 DEF Script
<1>8. /\ run'.tool = "badfiles" /\ run'.pc = "verify" /\ run'.arr = run.arr /\ run'.plex = run.plex
      /\ run'.disk = run.disk /\ run'.removed = run.removed /\ run'.tracked = run.tracked
      /\ run'.todo = d /\ run'.status = w
  BY <1>1, <1>6 DEF Script, At
<1>9. OwnFields'
  BY <1>1, <1>8 DEF OwnFields, Reconciled, At
<1>10. DOMAIN run.tracked = {}
  BY <1>1 DEF At, BadFilesOK
<1>11. library[t].file = "dead" => "dead" \in past[t]
  BY Said
<1>12. \A x \in DOMAIN run'.status :
          run'.status[x] = "dead" => "dead" \in past'[x] /\ x \notin Images
  BY <1>1, <1>3, <1>4, <1>8, <1>11 DEF BadFilesOK, At, Still
<1>13. \A x \in Titles : x \in DOMAIN run'.status \/ (run'.pc = "verify" /\ x \in run'.todo)
  BY <1>1, <1>4, <1>5, <1>8 DEF BadFilesOK, At
<1>14. BadFilesOK'
  BY <1>8, <1>10, <1>12, <1>13 DEF BadFilesOK
<1>15. QED
  BY <1>2, <1>7, <1>8, <1>9, <1>14 DEF ReconcileOK, FoldersOK, Candidates

\* All headers are read.
LEMMA VerifiedStep == ASSUME AuditInv, Verified PROVE AuditInv'
<1> USE DEF AuditInv, ScriptOK
<1>1. /\ At("badfiles", "verify") /\ Still /\ Calm /\ run \in Script /\ run.todo = {}
      /\ run' = [run EXCEPT !.pc = "radarr"]
  BY DEF Verified
<1>2. WorldOK'
  BY <1>1, ReadOnly
<1>3. run' \in Script
  BY <1>1 DEF Script, Stages
<1>4. /\ run'.tool = "badfiles" /\ run'.pc = "radarr" /\ run'.arr = run.arr /\ run'.plex = run.plex
      /\ run'.disk = run.disk /\ run'.removed = run.removed /\ run'.tracked = run.tracked
      /\ run'.todo = {} /\ run'.status = run.status
  BY <1>1 DEF Script, At
<1>5. OwnFields'
  BY <1>1, <1>4 DEF OwnFields, Reconciled, At
<1>6. BadFilesOK'
  BY <1>1, <1>4 DEF BadFilesOK, At, Still
<1>7. QED
  BY <1>2, <1>3, <1>4, <1>5, <1>6 DEF ReconcileOK, FoldersOK, Candidates

\* What a reading of an application adds to the list, and what it has yet to read.
Listing(p, d, verdict) ==
  /\ run.tool = "badfiles" /\ run.pc \in {"radarr", "series"} /\ Still /\ (Calm \/ Fault)
  /\ p \in {"series", "episodes", "done"} /\ (p # "episodes" => d = {})
  /\ verdict \in Partial({"yes", "no", "unknown"})
  /\ d \subseteq DOMAIN verdict
  /\ run' = [run EXCEPT !.pc = p, !.todo = d, !.tracked = Rows(verdict)]
  /\ \A t \in DOMAIN verdict :
       /\ run.status[t] = "dead"
       /\ verdict[t] = "yes" => library[t].owned
       /\ verdict[t] = "no" => ~library[t].owned \/ t \in d

\* After the headers, a row that is new is of a file found dead; its verdict is what
\* the application said, or that it said nothing.
LEMMA ListStep ==
  ASSUME AuditInv, NEW p, NEW d, NEW verdict, Listing(p, d, verdict)
  PROVE  AuditInv'
<1> USE DEF AuditInv, ScriptOK, Listing
<1> DEFINE r == Rows(verdict)
<1>1. /\ r \in Partial({"yes", "no", "unknown"}) /\ DOMAIN r = DOMAIN run.tracked \cup DOMAIN verdict
      /\ \A t \in DOMAIN r : r[t] = IF t \in DOMAIN verdict THEN verdict[t] ELSE run.tracked[t]
  BY RowsAdded
<1>2. WorldOK'
  BY ReadOnly
<1>3. run \in Script /\ run' = [run EXCEPT !.pc = p, !.todo = d, !.tracked = r] /\ p \in Stages
  BY DEF Stages
<1>a. DOMAIN verdict \subseteq Titles /\ d \in SUBSET Titles
  BY PartialResult
<1> HIDE DEF r
<1>4. run' \in Script
  BY <1>a, <1>1, <1>3 DEF Script
<1>5. /\ run'.tool = "badfiles" /\ run'.pc = p /\ run'.arr = run.arr /\ run'.plex = run.plex
      /\ run'.disk = run.disk /\ run'.removed = run.removed /\ run'.tracked = r
      /\ run'.todo = d /\ run'.status = run.status /\ run'.unread = run.unread
  BY <1>3 DEF Script
<1>6. OwnFields'
  BY <1>5 DEF OwnFields, Reconciled, At
<1>7. ASSUME NEW t \in DOMAIN r PROVE RowOK(t)'
  <2>1. CASE t \in DOMAIN verdict
    <3>1. t \in Titles /\ t \in DOMAIN run.status
      BY <1>a, <2>1 DEF BadFilesOK
    <3>2. "dead" \in past[t] /\ t \notin Images
      BY <2>1, <3>1 DEF BadFilesOK
    <3>3. IF library[t].owned THEN "owned" \in past[t] ELSE "unowned" \in past[t]
      BY <3>1, Said
    <3>4. QED
      BY <1>1, <1>5, <2>1, <3>2, <3>3 DEF RowOK, Still
  <2>2. CASE t \notin DOMAIN verdict
    <3>1. t \in DOMAIN run.tracked /\ r[t] = run.tracked[t] /\ run.todo = {}
      BY <1>1, <2>2 DEF BadFilesOK
    <3>2. RowOK(t)
      BY <3>1 DEF BadFilesOK
    <3>3. QED
      BY <1>5, <3>1, <3>2 DEF RowOK, Still
  <2>3. QED
    BY <2>1, <2>2
<1>8. d \subseteq DOMAIN r
  BY <1>1
<1>9. BadFilesOK'
  BY <1>5, <1>7, <1>8 DEF BadFilesOK, Still
<1>10. QED
  BY <1>2, <1>4, <1>5, <1>6, <1>9 DEF ReconcileOK, FoldersOK, Candidates

\* Radarr's files, or none of its answers.
LEMMA RadarrIndexStep == ASSUME AuditInv, BuildRadarrIndex PROVE AuditInv'
<1> USE DEF AuditInv, ScriptOK
<1>1. run \in Script /\ run.tool = "badfiles" /\ run.pc = "radarr" /\ run.todo = {} /\ Still
  BY DEF BuildRadarrIndex, At, BadFilesOK
<1>2. Dead(Movies) \subseteq Titles
  BY DEF Dead, Titles
<1>3. CASE /\ run' = [run EXCEPT !.pc = "series",
                 !.tracked = Rows([t \in Dead(Movies) |-> IF library[t].owned THEN "yes" ELSE "no"])]
           /\ Calm
  <2> DEFINE verdict == [t \in Dead(Movies) |-> IF library[t].owned THEN "yes" ELSE "no"]
  <2>1. verdict \in Partial({"yes", "no", "unknown"})
    BY <1>2, PartialResult
  <2>2. \A t \in DOMAIN verdict :
           /\ run.status[t] = "dead"
           /\ verdict[t] = "yes" => library[t].owned
           /\ verdict[t] = "no" => ~library[t].owned
    BY DEF Dead
  <2>3. run' = [run EXCEPT !.pc = "series", !.tracked = Rows(verdict)]
    BY <1>3
  <2> HIDE DEF verdict
  <2>4. run' = [run EXCEPT !.pc = "series", !.todo = {}, !.tracked = Rows(verdict)]
    BY <1>1, <2>3 DEF Script
  <2>5. Listing("series", {}, verdict)
    BY <1>1, <1>3, <2>1, <2>2, <2>4 DEF Listing
  <2>6. QED
    BY <2>5, ListStep
<1>4. CASE run' = [run EXCEPT !.pc = "series", !.tracked = RowsUndetermined(Dead(Movies))] /\ Fault
  <2> DEFINE verdict == [t \in Dead(Movies) |-> "unknown"]
  <2>1. verdict \in Partial({"yes", "no", "unknown"})
    BY <1>2, PartialResult
  <2>2. \A t \in DOMAIN verdict :
           /\ run.status[t] = "dead"
           /\ verdict[t] = "yes" => library[t].owned
           /\ verdict[t] = "no" => ~library[t].owned
    BY DEF Dead
  <2>3. run' = [run EXCEPT !.pc = "series", !.tracked = Rows(verdict)]
    BY <1>4 DEF RowsUndetermined
  <2> HIDE DEF verdict
  <2>4. run' = [run EXCEPT !.pc = "series", !.todo = {}, !.tracked = Rows(verdict)]
    BY <1>1, <2>3 DEF Script
  <2>5. Listing("series", {}, verdict)
    BY <1>1, <1>4, <2>1, <2>2, <2>4 DEF Listing
  <2>6. QED
    BY <2>5, ListStep
<1>5. QED
  BY <1>3, <1>4 DEF BuildRadarrIndex

\* Sonarr's series: the flagged files of a series it does not know are not its own.
LEMMA SeriesIndexStep == ASSUME AuditInv, BuildSonarrSeries PROVE AuditInv'
<1> USE DEF AuditInv, ScriptOK
<1>1. run \in Script /\ run.tool = "badfiles" /\ run.pc = "series" /\ run.todo = {} /\ Still
  BY DEF BuildSonarrSeries, At, BadFilesOK
<1>2. Dead(Shows) \subseteq Titles
  BY DEF Dead, Titles
<1>3. CASE /\ run' = [run EXCEPT !.pc = "episodes", !.todo = {t \in Dead(Shows) : library[t].known},
                     !.tracked = Rows([t \in Dead(Shows) |-> "no"])]
           /\ Calm
  <2> DEFINE verdict == [t \in Dead(Shows) |-> "no"]
             d == {t \in Dead(Shows) : library[t].known}
  <2>1. verdict \in Partial({"yes", "no", "unknown"}) /\ d \in SUBSET Titles
    BY <1>2, PartialResult
  <2>2. \A t \in DOMAIN verdict :
           /\ run.status[t] = "dead"
           /\ verdict[t] = "yes" => library[t].owned
           /\ verdict[t] = "no" => ~library[t].owned \/ t \in d
    BY <1>2 DEF Dead, WorldOK, Witnessed
  <2>3. run' = [run EXCEPT !.pc = "episodes", !.todo = d, !.tracked = Rows(verdict)]
    BY <1>3
  <2>4. d \subseteq DOMAIN verdict
    OBVIOUS
  <2> HIDE DEF verdict, d
  <2>5. Listing("episodes", d, verdict)
    BY <1>1, <1>3, <2>1, <2>2, <2>3, <2>4 DEF Listing
  <2>6. QED
    BY <2>5, ListStep
<1>4. CASE run' = [run EXCEPT !.pc = "done", !.tracked = RowsUndetermined(Dead(Shows))] /\ Fault
  <2> DEFINE verdict == [t \in Dead(Shows) |-> "unknown"]
  <2>1. verdict \in Partial({"yes", "no", "unknown"})
    BY <1>2, PartialResult
  <2>2. \A t \in DOMAIN verdict :
           /\ run.status[t] = "dead"
           /\ verdict[t] = "yes" => library[t].owned
           /\ verdict[t] = "no" => ~library[t].owned
    BY DEF Dead
  <2>3. run' = [run EXCEPT !.pc = "done", !.tracked = Rows(verdict)]
    BY <1>4 DEF RowsUndetermined
  <2> HIDE DEF verdict
  <2>4. run' = [run EXCEPT !.pc = "done", !.todo = {}, !.tracked = Rows(verdict)]
    BY <1>1, <2>3 DEF Script
  <2>5. Listing("done", {}, verdict)
    BY <1>1, <1>4, <2>1, <2>2, <2>4 DEF Listing
  <2>6. QED
    BY <2>5, ListStep
<1>5. QED
  BY <1>3, <1>4 DEF BuildSonarrSeries

\* The files of one series, or none of them.
LEMMA FilesIndexStep == ASSUME AuditInv, BuildSonarrIndex PROVE AuditInv'
<1> USE DEF AuditInv, ScriptOK
<1>1. /\ run \in Script /\ run.tool = "badfiles" /\ run.pc = "episodes" /\ Still /\ (Calm \/ Fault)
      /\ run.tracked \in Partial({"yes", "no", "unknown"}) /\ run.todo \subseteq DOMAIN run.tracked
  BY DEF BuildSonarrIndex, At, BadFilesOK, Script
<1>2. WorldOK'
  BY <1>1, ReadOnly
<1>3. DOMAIN run.tracked \subseteq Titles /\ run.tracked \in [DOMAIN run.tracked -> {"yes", "no", "unknown"}]
  BY <1>1, PartialResult
<1>4. CASE run.todo = {} /\ run' = [run EXCEPT !.pc = "done"]
  <2>1. run' \in Script
    BY <1>1, <1>4 DEF Script, Stages
  <2>2. /\ run'.tool = "badfiles" /\ run'.pc = "done" /\ run'.arr = run.arr /\ run'.plex = run.plex
        /\ run'.disk = run.disk /\ run'.removed = run.removed /\ run'.tracked = run.tracked
        /\ run'.todo = {} /\ run'.status = run.status /\ run'.unread = run.unread
    BY <1>1, <1>4 DEF Script
  <2>3. OwnFields'
    BY <1>1, <2>2 DEF OwnFields, Reconciled, At
  <2>4. BadFilesOK'
    BY <1>1, <1>4, <2>2 DEF BadFilesOK, RowOK, Still
  <2>5. QED
    BY <1>2, <2>1, <2>2, <2>3, <2>4 DEF ReconcileOK, FoldersOK, Candidates
<1>5. ASSUME NEW s \in run.todo,
             run' = [run EXCEPT !.todo = @ \ {s},
                       !.tracked = [@ EXCEPT ![s] = IF library[s].owned THEN "yes" ELSE "no"]]
      PROVE AuditInv'
  <2> DEFINE d == run.todo \ {s}
             k == [run.tracked EXCEPT ![s] = IF library[s].owned THEN "yes" ELSE "no"]
  <2>1. k \in Partial({"yes", "no", "unknown"}) /\ DOMAIN k = DOMAIN run.tracked /\ d \in SUBSET Titles
    BY <1>1, <1>3, PartialResult
  <2>2. \A t \in DOMAIN k : k[t] = IF t = s THEN (IF library[s].owned THEN "yes" ELSE "no") ELSE run.tracked[t]
    BY <1>3
  <2>3. \A t : t \in d <=> t \in run.todo /\ t # s
    OBVIOUS
  <2>4. run' = [run EXCEPT !.todo = d, !.tracked = k]
    BY <1>5
  <2> HIDE DEF d, k
  <2>5. run' \in Script
    BY <1>1, <2>1, <2>4 DEF Script
  <2>6. /\ run'.tool = "badfiles" /\ run'.pc = "episodes" /\ run'.arr = run.arr /\ run'.plex = run.plex
        /\ run'.disk = run.disk /\ run'.removed = run.removed /\ run'.tracked = k
        /\ run'.todo = d /\ run'.status = run.status /\ run'.unread = run.unread
    BY <1>1, <2>4 DEF Script
  <2>7. OwnFields'
    BY <1>1, <2>6 DEF OwnFields, Reconciled, At
  <2>8. IF library[s].owned THEN "owned" \in past[s] ELSE "unowned" \in past[s]
    BY <1>1, <1>3, Said
  <2>9. ASSUME NEW t \in DOMAIN k PROVE RowOK(t)'
    <3>1. RowOK(t)
      BY <1>1, <2>1 DEF BadFilesOK
    <3>2. QED
      BY <1>1, <2>2, <2>3, <2>6, <2>8, <3>1 DEF RowOK, Still
  <2>10. BadFilesOK'
    BY <1>1, <2>1, <2>3, <2>6, <2>9 DEF BadFilesOK, Still
  <2>11. QED
    BY <1>2, <2>5, <2>6, <2>7, <2>10 DEF ReconcileOK, FoldersOK, Candidates
<1>6. ASSUME NEW s \in run.todo, run' = [run EXCEPT !.todo = @ \ {s}, !.unread = @ \cup {s}]
      PROVE AuditInv'
  <2> DEFINE d == run.todo \ {s}
             u == run.unread \cup {s}
  <2>1. d \in SUBSET Titles /\ u \in SUBSET Titles
    BY <1>1, <1>3 DEF Script
  <2>3. \A t : (t \in d <=> t \in run.todo /\ t # s) /\ (t \in u <=> t \in run.unread \/ t = s)
    OBVIOUS
  <2>4. run' = [run EXCEPT !.todo = d, !.unread = u]
    BY <1>6
  <2> HIDE DEF d, u
  <2>5. run' \in Script
    BY <1>1, <2>1, <2>4 DEF Script
  <2>6. /\ run'.tool = "badfiles" /\ run'.pc = "episodes" /\ run'.arr = run.arr /\ run'.plex = run.plex
        /\ run'.disk = run.disk /\ run'.removed = run.removed /\ run'.tracked = run.tracked
        /\ run'.todo = d /\ run'.status = run.status /\ run'.unread = u
    BY <1>1, <2>4 DEF Script
  <2>7. OwnFields'
    BY <1>1, <2>6 DEF OwnFields, Reconciled, At
  <2>9. ASSUME NEW t \in DOMAIN run.tracked PROVE RowOK(t)'
    <3>1. RowOK(t)
      BY <1>1 DEF BadFilesOK
    <3>2. QED
      BY <1>1, <2>3, <2>6, <3>1 DEF RowOK, Still
  <2>10. BadFilesOK'
    BY <1>1, <2>1, <2>3, <2>6, <2>9 DEF BadFilesOK, Still
  <2>11. QED
    BY <1>2, <2>5, <2>6, <2>7, <2>10 DEF ReconcileOK, FoldersOK, Candidates
<1>7. QED
  BY <1>4, <1>5, <1>6 DEF BuildSonarrIndex

\* Every step of checkrr-badfiles-report.py.
LEMMA BadFilesStep == ASSUME AuditInv, BadFiles PROVE AuditInv'
  BY VerifyStep, VerifiedStep, RadarrIndexStep, SeriesIndexStep, FilesIndexStep DEF BadFiles

-----------------------------------------------------------------------------
\* radarr-orphan-empty-folders.py

\* The folders Radarr does not know, or what is left of them after a look at them.
LEMMA UnmappedStep == ASSUME AuditInv, FetchUnmappedFolders PROVE AuditInv'
<1> USE DEF AuditInv, ScriptOK
<1> DEFINE d == {t \in Movies : library[t].folder /\ ~library[t].known}
<1>0. d \in SUBSET Titles
  BY DEF Titles
<1>1. /\ At("folders", "unmapped") /\ Still /\ Calm /\ run \in Script
      /\ run' = [run EXCEPT !.pc = "known", !.todo = d]
  BY DEF FetchUnmappedFolders
<1> HIDE DEF d
<1>2. WorldOK'
  BY <1>1, ReadOnly
<1>3. run' \in Script
  BY <1>0, <1>1 DEF Script, Stages
<1>4. /\ run'.tool = "folders" /\ run'.pc = "known" /\ run'.arr = run.arr /\ run'.plex = run.plex
      /\ run'.disk = run.disk /\ run'.removed = run.removed /\ run'.tracked = run.tracked
  BY <1>1 DEF Script, At
<1>5. OwnFields'
  BY <1>1, <1>4 DEF OwnFields, Reconciled, At
<1>6. QED
  BY <1>2, <1>3, <1>4, <1>5 DEF ReconcileOK, BadFilesOK, FoldersOK, Candidates

\* Radarr says what it knows, and only what it does not know now stays a candidate.
LEMMA KnownStep == ASSUME AuditInv, FetchKnownTmdbIds PROVE AuditInv'
<1> USE DEF AuditInv, ScriptOK
<1> DEFINE d == {t \in run.todo : ~library[t].known}
<1>0. d \in SUBSET Titles /\ (\A t \in d : ~library[t].known) /\ "classify" \in Stages
  BY DEF Script, Stages
<1>1. /\ At("folders", "known") /\ UNCHANGED <<library, spare>> /\ run \in Script
      /\ past' = [t \in Titles |-> Facts(library[t])]
      /\ run' = [run EXCEPT !.pc = "classify", !.todo = d]
  BY DEF FetchKnownTmdbIds, Asked, Calm
<1> HIDE DEF d
<1>2. WorldOK'
  BY <1>1, FactsNamed DEF WorldOK, Witnessed
<1>3. run' \in Script
  BY <1>0, <1>1 DEF Script
<1>4. /\ run'.tool = "folders" /\ run'.pc = "classify" /\ run'.arr = run.arr /\ run'.plex = run.plex
      /\ run'.disk = run.disk /\ run'.removed = run.removed /\ run'.tracked = run.tracked
      /\ run'.todo = d /\ run.removed = {}
  BY <1>1 DEF Script, At, OwnFields
<1>5. OwnFields'
  BY <1>1, <1>4 DEF OwnFields, Reconciled, At
<1>6. \A t \in d : "unknown" \in past'[t]
  BY <1>0, <1>1 DEF Facts
<1>7. QED
  BY <1>2, <1>3, <1>4, <1>5, <1>6 DEF ReconcileOK, BadFilesOK, FoldersOK, Candidates

\* The empty ones among them.
LEMMA ClassifyStep == ASSUME AuditInv, ClassifyFolders PROVE AuditInv'
<1> USE DEF AuditInv, ScriptOK
<1> DEFINE d == {t \in run.todo : library[t].folder /\ library[t].file = "none"}
<1>0. d \in SUBSET Titles /\ d \subseteq run.todo /\ "delete" \in Stages
  BY DEF Script, Stages
<1>1. /\ At("folders", "classify") /\ Still /\ Calm /\ run \in Script
      /\ run' = [run EXCEPT !.pc = "delete", !.todo = d]
  BY DEF ClassifyFolders
<1> HIDE DEF d
<1>2. WorldOK'
  BY <1>1, ReadOnly
<1>3. run' \in Script
  BY <1>0, <1>1 DEF Script
<1>4. /\ run'.tool = "folders" /\ run'.pc = "delete" /\ run'.arr = run.arr /\ run'.plex = run.plex
      /\ run'.disk = run.disk /\ run'.removed = run.removed /\ run'.tracked = run.tracked
      /\ run'.todo = d
  BY <1>1 DEF Script, At
<1>5. OwnFields'
  BY <1>1, <1>4 DEF OwnFields, Reconciled, At
<1>6. \A t \in d \cup run.removed : "unknown" \in past'[t]
  BY <1>0, <1>1 DEF FoldersOK, At, Still
<1>7. QED
  BY <1>2, <1>3, <1>4, <1>5, <1>6 DEF ReconcileOK, BadFilesOK, FoldersOK, Candidates

\* One folder goes, or rmdir fails.
LEMMA DeleteStep == ASSUME AuditInv, NEW t \in Titles, DeleteFolder(t) PROVE AuditInv'
<1> USE DEF AuditInv, ScriptOK
<1> DEFINE d == run.todo \ {t}
           g == run.removed \cup {t}
<1>0. d \in SUBSET Titles /\ g \in SUBSET Titles /\ d \subseteq run.todo
      /\ g \subseteq run.removed \cup run.todo
  BY DEF Script, DeleteFolder
<1>1. /\ At("folders", "delete") /\ UNCHANGED <<past, spare>> /\ run \in Script
      /\ library' = library \/ library' = [library EXCEPT ![t].folder = FALSE]
      /\ run' = [run EXCEPT !.todo = d, !.removed = g] \/ run' = [run EXCEPT !.todo = d]
  BY DEF DeleteFolder, Calm
<1> HIDE DEF d, g
<1>2. WorldOK'
  <2>1. library' \in [Titles -> Title]
        /\ \A x \in Titles : Facts(library'[x]) = Facts(library[x])
                             /\ library'[x].owned = library[x].owned
                             /\ library'[x].known = library[x].known
    <3> DEFINE y == [library[t] EXCEPT !.folder = FALSE]
    <3>1. library[t] \in Title /\ library \in [Titles -> Title]
      BY DEF WorldOK
    <3>2. /\ y \in Title /\ y.owned = library[t].owned /\ y.known = library[t].known
          /\ y.file = library[t].file /\ y.served = library[t].served
      BY <3>1 DEF Title
    <3>3. library' = library \/ library' = [library EXCEPT ![t] = y]
      BY <1>1
    <3> HIDE DEF y
    <3>4. Facts(y) = Facts(library[t])
      BY <3>2 DEF Facts
    <3>5. QED
      BY <3>1, <3>2, <3>3, <3>4
  <2>2. QED
    BY <1>1, <2>1 DEF WorldOK, Witnessed
<1>3. run' \in Script
  BY <1>0, <1>1 DEF Script
<1>4. /\ run'.tool = "folders" /\ run'.pc = "delete" /\ run'.arr = run.arr /\ run'.plex = run.plex
      /\ run'.disk = run.disk /\ run'.tracked = run.tracked
      /\ run'.todo = d /\ run'.removed \in {g, run.removed}
  BY <1>1 DEF Script, At
<1>5. OwnFields'
  BY <1>1, <1>4 DEF OwnFields, Reconciled, At
<1>6. \A x \in run'.todo \cup run'.removed : "unknown" \in past'[x]
  BY <1>0, <1>1, <1>4 DEF FoldersOK, At
<1>7. QED
  BY <1>2, <1>3, <1>4, <1>5, <1>6 DEF ReconcileOK, BadFilesOK, FoldersOK, Candidates

-----------------------------------------------------------------------------
\* The three scripts

\* The invariant holds when a script starts.
LEMMA InitAudit == AuditInit => AuditInv
<1> SUFFICES ASSUME AuditInit PROVE AuditInv
  OBVIOUS
<1>1. \A x \in Situations : x \in Title /\ (x.owned => x.known)
  <2>1. \A k, o, d, v \in BOOLEAN, f \in {"none", "good", "dead"} :
          [known |-> k, owned |-> o, file |-> f, folder |-> d, served |-> v] \in Title
    BY DEF Title
  <2>2. Situations \subseteq Title
    BY <2>1 DEF Situations
  <2>3. \A x \in Situations : x.owned => x.known
    BY DEF Situations
  <2>4. QED
    BY <2>2, <2>3
<1>2. library \in [Titles -> Title] /\ past \in [Titles -> SUBSET FactNames] /\ Witnessed
  BY <1>1, FactsNamed DEF AuditInit, Witnessed
<1>3. spare \in [changes : 0..MaxChanges, faults : 0..MaxFaults]
  BY AuditAssumption DEF AuditInit
<1>4. PICK tool \in {"reconcile", "badfiles", "folders"}, pc \in {"radarr", "verify", "unmapped"},
          todo \in {{}, Titles} :
        /\ run = Started(tool, pc, todo)
        /\ pc = CASE tool = "reconcile" -> "radarr"
                  [] tool = "badfiles" -> "verify"
                  [] OTHER -> "unmapped"
        /\ todo = IF tool = "badfiles" THEN Titles ELSE {}
  <2>1. run \in {StartReconcile, StartBadFiles, StartFolders}
    BY DEF AuditInit
  <2>2. QED
    BY <2>1 DEF StartReconcile, StartBadFiles, StartFolders
<1>5. \A V : [t \in {} |-> "dead"] \in Partial(V) /\ [t \in {} |-> "no"] \in Partial(V)
  BY PartialResult
<1>6. Started(tool, pc, todo) \in Script
  BY <1>5 DEF Started, Script, Stages
<1>7. /\ run.tool = tool /\ run.arr = {} /\ run.plex = {} /\ run.disk = {} /\ run.removed = {}
      /\ run.unread = {} /\ run.tracked = [t \in {} |-> "no"] /\ run.status = [t \in {} |-> "dead"]
      /\ run.pc = CASE tool = "reconcile" -> "radarr"
                    [] tool = "badfiles" -> "verify"
                    [] OTHER -> "unmapped"
      /\ run.todo = IF tool = "badfiles" THEN Titles ELSE {}
  BY <1>4 DEF Started
<1>8. DOMAIN run.tracked = {} /\ DOMAIN run.status = {}
  BY <1>7
<1>9. OwnFields /\ run.disk \subseteq Candidates
  BY <1>7, <1>8 DEF OwnFields, Reconciled, At
<1>10. ReconcileOK
  BY <1>7 DEF ReconcileOK, Backed, ArrAsked, PlexAsked, Titles
<1>11. BadFilesOK
  BY <1>7, <1>8 DEF BadFilesOK
<1>12. FoldersOK
  BY <1>7 DEF FoldersOK
<1>13. QED
  BY <1>2, <1>3, <1>4, <1>6, <1>9, <1>10, <1>11, <1>12 DEF AuditInv, WorldOK, ScriptOK

\* Every step keeps it, whichever script runs and whatever changes meanwhile.
LEMMA AuditStep == ASSUME AuditInv, [AuditNext]_auditVars PROVE AuditInv'
<1>1. CASE UNCHANGED auditVars
  BY <1>1 DEF auditVars, AuditInv, WorldOK, ScriptOK, Witnessed, OwnFields, Reconciled, At,
     ReconcileOK, Backed, ArrAsked, PlexAsked, Candidates, BadFilesOK, RowOK, FoldersOK
<1>2. CASE Folders
  BY <1>2, UnmappedStep, KnownStep, ClassifyStep, DeleteStep DEF Folders
<1>3. QED
  BY <1>1, <1>2, WorldStep, ReconcileStep, BadFilesStep DEF AuditNext

\* The invariant of the three scripts.
LEMMA AuditInvariant == AuditSpec => []AuditInv
<1>1. AuditInv /\ [AuditNext]_auditVars => AuditInv'
  BY AuditStep
<1>2. QED
  BY <1>1, InitAudit, PTL DEF AuditSpec

\* Type correctness, for any titles, disc images, changes and failing reads.
THEOREM AuditTypeCorrect == AuditSpec => []AuditTypeOK
<1>1. AuditInv => AuditTypeOK
  BY DEF AuditInv, WorldOK, ScriptOK, AuditTypeOK
<1>2. QED
  BY <1>1, AuditInvariant, PTL

\* What the reconcile report says of a title held during the run, fact by fact.
LEMMA ReportBackedNow == AuditInv => ReportBacked
<1> SUFFICES ASSUME AuditInv, Reconciled, NEW t \in Titles, Read(t)
             PROVE Claims[Bucket(t)] \subseteq past[t]
  BY DEF ReportBacked
<1>1. /\ run.tool = "reconcile" /\ run.pc = "done" /\ run.todo = {} /\ Backed(t)
      /\ t \notin run.unread /\ "sweep" \notin run.failed
  BY DEF AuditInv, ScriptOK, ReconcileOK, Reconciled, At, Read
<1>2. /\ t \in run.arr => "owned" \in past[t]
      /\ t \in run.plex => "served" \in past[t]
      /\ t \notin run.arr => "unowned" \in past[t]
      /\ t \notin run.plex => "unserved" \in past[t]
      /\ t \in Candidates => (IF t \in run.disk THEN "there" \in past[t] ELSE "gone" \in past[t])
  BY <1>1 DEF Backed, ArrAsked, PlexAsked
<1>3. CASE t \in run.arr /\ t \in run.plex
  BY <1>2, <1>3 DEF Bucket, Claims
<1>4. CASE t \in run.arr /\ t \notin run.plex
  <2>1. t \in Candidates
    BY <1>4 DEF Candidates
  <2>2. Bucket(t) = ClassifyMissing(t, t \in run.disk)
    BY <1>4 DEF Bucket
  <2>3. CASE t \in run.disk
    BY <1>2, <1>4, <2>1, <2>2, <2>3 DEF ClassifyMissing, Claims
  <2>4. CASE t \notin run.disk
    BY <1>2, <1>4, <2>1, <2>2, <2>4 DEF ClassifyMissing, Claims
  <2>5. QED
    BY <2>3, <2>4
<1>5. CASE t \notin run.arr /\ t \in run.plex
  <2>1. t \in Candidates
    BY <1>5 DEF Candidates
  <2>2. QED
    BY <1>2, <1>5, <2>1 DEF Bucket, Claims
<1>6. CASE t \notin run.arr /\ t \notin run.plex
  BY <1>2, <1>6 DEF Bucket, Claims
<1>7. QED
  BY <1>3, <1>4, <1>5, <1>6

\* What the two read-only scripts print held at some moment of their run: a title's
\* bucket in the reconcile report, and the verdict on every row of the re-download
\* list, for any titles, with any changes and failing reads in between.
THEOREM ReportsHold == AuditSpec => []ReportsBacked
<1>1. AuditInv => OwnedNotOrphaned
  <2> SUFFICES ASSUME AuditInv, Reconciled, NEW t \in Titles, Read(t), "unowned" \notin past[t]
               PROVE Bucket(t) \notin {"orphan_in_plex", "stale_in_plex"}
    BY DEF OwnedNotOrphaned
  <2>1. t \in run.arr
    BY DEF AuditInv, ScriptOK, ReconcileOK, Reconciled, At, Read, Backed, ArrAsked
  <2>2. QED
    BY <2>1 DEF Bucket, ClassifyMissing
<1>2. AuditInv => RowsBacked
  BY DEF AuditInv, ScriptOK, OwnFields, BadFilesOK, RowOK, RowsBacked, At
<1>3. QED
  BY <1>1, <1>2, ReportBackedNow, AuditInvariant, PTL DEF ReportsBacked

\* The script that deletes takes no file and no folder of a movie that Radarr has
\* known since it was asked, whatever is added or downloaded meanwhile.
THEOREM FoldersKept == AuditSpec => FoldersSafe
<1>1. AuditInv => KnownFoldersKept
  BY DEF AuditInv, ScriptOK, OwnFields, FoldersOK, KnownFoldersKept
<1> DEFINE Survive == \A t \in Titles : run' # run => library'[t].file = library[t].file
<1>2. ASSUME AuditInv, [AuditNext]_auditVars PROVE [Survive]_auditVars
  <2>1. CASE World
    BY <2>1 DEF World, Imported, Lost, Rescanned, PlexScanned, TrashEmptied, Removed, Added, Becomes
  <2>2. CASE UNCHANGED library
    BY <2>2
  <2>3. ASSUME NEW t \in Titles, DeleteFolder(t) PROVE Survive
    <3>1. library' = library \/ library' = [library EXCEPT ![t].folder = FALSE]
      BY <2>3 DEF DeleteFolder
    <3>2. library \in [Titles -> Title]
      BY <1>2 DEF AuditInv, WorldOK
    <3>3. QED
      BY <3>1, <3>2 DEF Title
  <2>4. CASE Reconcile
    BY <2>2, <2>4 DEF Reconcile, ArrPathsRadarr, ArrPathsSeries, ArrPathsEpisodes, PlexServed,
       ExistsInPlexContainer, Still
  <2>5. CASE BadFiles
    BY <2>2, <2>5 DEF BadFiles, Verified, BuildRadarrIndex, BuildSonarrSeries, BuildSonarrIndex,
       VerifyFile, Still
  <2>6. CASE Folders
    BY <2>2, <2>3, <2>6 DEF Folders, FetchUnmappedFolders, FetchKnownTmdbIds, ClassifyFolders,
       Still, Asked
  <2>7. QED
    BY <1>2, <2>1, <2>4, <2>5, <2>6 DEF AuditNext, auditVars
<1>3. QED
  BY <1>1, <1>2, AuditInvariant, PTL DEF AuditSpec, FoldersSafe, FilesSurvive

-----------------------------------------------------------------------------
(* audit-tmdb-links.py.                                                    *)

\* Every set of natural numbers that is not empty has a least one.
LEMMA LeastIndex ==
  ASSUME NEW S \in SUBSET Nat, S # {}
  PROVE  \E n \in S : \A k \in S : n <= k
<1>1. PICK n \in S : \A k \in S : ~(<<k, n>> \in OpToRel(<, Nat))
  BY NatLessThanWellFounded, WFMin
<1>2. \A k \in S : ~(k < n)
  BY <1>1 DEF OpToRel
<1>3. QED
  BY <1>2

\* What a search finds: how like the title is, and the year, which may be unknown.
Result == [ratio : 0..100, year : Nat]

\* A result scores its ratio at most, and a full hundred only with the title and no
\* other year.
LEMMA ScoreBound ==
  ASSUME NEW year \in Nat, NEW r \in Result
  PROVE  /\ YearDelta(year, r) \in Nat /\ Score(year, r) \in Int /\ Score(year, r) <= 100
         /\ Score(year, r) = 100 <=> r.ratio = 100 /\ YearDelta(year, r) = 0
<1>1. r.ratio \in 0..100 /\ r.year \in Nat
  BY DEF Result
<1>2. YearDelta(year, r) \in Nat
  BY <1>1 DEF YearDelta
<1>3. QED
  BY <1>1, <1>2 DEF Score, YearPenalty

\* If the movie itself is among the results of a search, however many there are and in
\* whatever order, the candidate has its title and no other year (best_candidate).
THEOREM CandidateIsItself ==
  ASSUME NEW results \in Seq(Result), NEW year \in Nat \ {0}, NEW place \in DOMAIN results,
         results[place].ratio = 100, results[place].year = year
  PROVE  \E top \in Result :
           /\ BestCandidate(results, year) = <<top>>
           /\ top.ratio = 100 /\ YearDelta(year, top) = 0
<1> DEFINE best == {n \in DOMAIN results :
                 \A k \in DOMAIN results : Score(year, results[k]) <= Score(year, results[n])}
           first == CHOOSE n \in best : \A k \in best : n <= k
           top == results[first]
<1>1. \A n \in DOMAIN results : n \in Nat /\ results[n] \in Result
  OBVIOUS
<1>0. year \in Nat
  OBVIOUS
<1>a. \A n \in DOMAIN results :
        /\ Score(year, results[n]) \in Int /\ Score(year, results[n]) <= 100
        /\ Score(year, results[n]) = 100 <=> results[n].ratio = 100 /\ YearDelta(year, results[n]) = 0
  BY <1>0, <1>1, ScoreBound
<1>2. Score(year, results[place]) = 100
  <2>1. YearDelta(year, results[place]) = 0
    BY <1>0, <1>1 DEF YearDelta, Result
  <2>2. QED
    BY <1>a, <2>1
<1>3. \A n \in DOMAIN results : Score(year, results[n]) \in Int /\ Score(year, results[n]) <= 100
  BY <1>a
<1>4. place \in best
  BY <1>2, <1>3
<1>5. \A n \in best : n \in DOMAIN results /\ Score(year, results[n]) = 100
  <2> SUFFICES ASSUME NEW n \in best PROVE Score(year, results[n]) = 100
    OBVIOUS
  <2>1. Score(year, results[place]) <= Score(year, results[n])
    OBVIOUS
  <2>2. QED
    BY <1>2, <1>3, <2>1
<1>6. best \in SUBSET Nat /\ best # {}
  BY <1>1, <1>4
<1>7. BestCandidate(results, year) =
        IF best = {} THEN <<>> ELSE IF top.ratio < MinCandidateRatio THEN <<>> ELSE <<top>>
  BY DEF BestCandidate
<1> HIDE DEF best
<1>8. first \in best
  BY <1>6, LeastIndex
<1>9. top \in Result /\ top.ratio = 100 /\ YearDelta(year, top) = 0
  <2>1. first \in DOMAIN results /\ Score(year, results[first]) = 100
    BY <1>5, <1>8
  <2>2. QED
    BY <1>1, <1>a, <2>1
<1>b. top.ratio = 100 /\ ~(100 < MinCandidateRatio)
  BY <1>9 DEF MinCandidateRatio
<1>10. BestCandidate(results, year) = <<top>>
  BY <1>6, <1>7, <1>b, Zenon
<1>11. QED
  BY <1>9, <1>10

\* A miss comes of answers only, whatever the movie and the two searches (audit).
LEMMA UnmatchedAnswered ==
  ASSUME NEW movie, NEW first, NEW second, NEW found, NEW plainly,
         Row(movie, [dated |-> [calls |-> first, results |-> found],
                     plain |-> [calls |-> second, results |-> plainly]]).status = "unmatched"
  PROVE  LET Answered(calls) == \E n \in 1..Retries : calls[n] = "answer"
         IN IF movie.year = 0 THEN Answered(second)
            ELSE Answered(first) /\ (found = <<>> => Answered(second))
<1> DEFINE search == [dated |-> [calls |-> first, results |-> found],
                      plain |-> [calls |-> second, results |-> plainly]]
           told == TmdbSearch(movie.year, search)
<1>1. told.answered
  BY DEF Row
<1>2. QED
  BY <1>1 DEF TmdbSearch, GetWithRetry, Unavailable

\* The counts are of the rows.
LEMMA Counted ==
  \A movies, searches :
    Audit(movies, searches).counts["unmatched"]
      = Cardinality({n \in DOMAIN movies : Row(movies[n], searches[n]).status = "unmatched"})
<1> TAKE movies, searches
<1> DEFINE rows == [n \in DOMAIN movies |-> Row(movies[n], searches[n])]
<1>1. {n \in DOMAIN rows : rows[n].status = "unmatched"}
        = {n \in DOMAIN movies : Row(movies[n], searches[n]).status = "unmatched"}
  OBVIOUS
<1> HIDE DEF rows
<1>2. Audit(movies, searches).counts =
        [status \in {"matched", "fixable", "unmatched", "search_error"} |->
                 Cardinality({n \in DOMAIN rows : rows[n].status = status})]
  BY DEF Audit, rows
<1>3. QED
  BY <1>1, <1>2

\* What the outage property samples.
LEMMA OutageToldApart == OutageNotUnmatched
<1> DEFINE Answered(calls) == \E n \in 1..Retries : calls[n] = "answer"
<1> SUFFICES ASSUME NEW movie \in Unlinked, NEW first \in Outcomes3, NEW second \in Outcomes3,
                    NEW found \in {<<>>, <<[ratio |-> 50, year |-> Released]>>, <<[ratio |-> 95, year |-> Released]>>},
                    NEW plainly \in {<<>>, <<[ratio |-> 50, year |-> Released]>>, <<[ratio |-> 95, year |-> Released]>>},
                    Audit(<<movie>>, <<[dated |-> [calls |-> first, results |-> found],
                                        plain |-> [calls |-> second, results |-> plainly]]>>).counts["unmatched"] = 1
             PROVE  IF movie.year = 0 THEN Answered(second)
                    ELSE Answered(first) /\ (found = <<>> => Answered(second))
  BY DEF OutageNotUnmatched
<1> DEFINE search == [dated |-> [calls |-> first, results |-> found],
                      plain |-> [calls |-> second, results |-> plainly]]
           movies == <<movie>>
           searches == <<search>>
<1>0. DOMAIN movies = {1} /\ movies[1] = movie /\ searches[1] = search
  OBVIOUS
<1>a. Audit(movies, searches).counts["unmatched"] = 1
  OBVIOUS
<1> HIDE DEF search, movies, searches
<1> DEFINE missed == {n \in DOMAIN movies : Row(movies[n], searches[n]).status = "unmatched"}
<1>1. Cardinality(missed) = 1
  BY <1>a, Counted
<1>2. missed # {}
  <2> HIDE DEF missed
  <2>1. missed = {} => Cardinality(missed) = 0
    BY FS_EmptySet, Zenon
  <2>2. QED
    BY <1>1, <2>1
<1>3. Row(movie, search).status = "unmatched"
  BY <1>0, <1>2
<1>4. QED
  BY <1>3, UnmatchedAnswered DEF search

\* What ItselfProposed says of one search.
Proposes(others, place, movie) ==
  LET itself == [ratio |-> 100, year |-> Released]
      results == SubSeq(others, 1, place - 1) \o <<itself>> \o SubSeq(others, place, Len(others))
      calls == [n \in 1..3 |-> "answer"]
      row == Row(movie, [dated |-> [calls |-> calls, results |-> results],
                         plain |-> [calls |-> calls, results |-> <<>>]])
  IN /\ row.status = "fixable" /\ row.confidence = "high"
     /\ row.candidate.ratio = 100 /\ row.candidate.year \in {0, Released}

\* The movie is proposed, wherever the search lists it.
LEMMA ProposesItself ==
  ASSUME NEW others \in Seq(Result), NEW place \in Nat \ {0}, place <= Len(others) + 1,
         NEW movie \in Unlinked, movie.year # 0
  PROVE  Proposes(others, place, movie)
<1> DEFINE itself == [ratio |-> 100, year |-> Released]
           before == SubSeq(others, 1, place - 1)
           after == SubSeq(others, place, Len(others))
           results == before \o <<itself>> \o after
           calls == [n \in 1..3 |-> "answer"]
           search == [dated |-> [calls |-> calls, results |-> results],
                      plain |-> [calls |-> calls, results |-> <<>>]]
<1>2. itself \in Result /\ <<itself>> \in Seq(Result) /\ Len(<<itself>>) = 1 /\ <<itself>>[1] = itself
  BY DEF Result, Released
<1>3. before \in Seq(Result) /\ Len(before) = place - 1
  <2>1. \A i \in 1..(place - 1) : others[i] \in Result
    OBVIOUS
  <2>2. QED
    BY <2>1, SubSeqProperties
<1>4. after \in Seq(Result)
  <2>1. \A i \in place..Len(others) : others[i] \in Result
    OBVIOUS
  <2>2. QED
    BY <2>1, SubSeqProperties
<1> HIDE DEF before, after, itself
<1>5. /\ before \o <<itself>> \in Seq(Result) /\ Len(before \o <<itself>>) = place
      /\ (before \o <<itself>>)[place] = itself
  <2>1. Len(before) + Len(<<itself>>) = place /\ place \in 1..(Len(before) + Len(<<itself>>))
        /\ ~(place <= Len(before)) /\ place - Len(before) = 1
    BY <1>2, <1>3
  <2> DEFINE one == <<itself>>
  <2>2. one \in Seq(Result) /\ one[1] = itself /\ Len(one) = 1
    BY <1>2
  <2> HIDE DEF one
  <2>3. /\ before \o one \in Seq(Result) /\ Len(before \o one) = Len(before) + Len(one)
        /\ \A i \in 1..Len(before) + Len(one) :
             (before \o one)[i] = IF i <= Len(before) THEN before[i] ELSE one[i - Len(before)]
    BY <1>3, <2>2, ConcatProperties
  <2>4. QED
    BY <2>1, <2>2, <2>3 DEF one
<1>6. results \in Seq(Result) /\ place \in DOMAIN results /\ results[place] = itself
  BY <1>4, <1>5, ConcatProperties
<1> HIDE DEF results
<1>7. movie.year = Released /\ Released \in Nat \ {0} /\ ~ExistingTmdbId(movie)
  BY DEF Unlinked, Released, ExistingTmdbId
<1>8. results[place].ratio = 100 /\ results[place].year = movie.year
  BY <1>6, <1>7 DEF itself
<1>9. PICK top \in Result : BestCandidate(results, movie.year) = <<top>>
                            /\ top.ratio = 100 /\ YearDelta(movie.year, top) = 0
  BY <1>6, <1>7, <1>8, CandidateIsItself
<1>10. results # <<>>
  BY <1>6
<1>11. TmdbSearch(movie.year, search) = [answered |-> TRUE, results |-> results]
  <2>1. \A found : GetWithRetry(calls, found) = [answered |-> TRUE, results |-> found]
    <3>1. 1 \in 1..Retries /\ calls[1] = "answer"
      BY DEF Retries
    <3>2. QED
      BY <3>1 DEF GetWithRetry
  <2>2. search.dated.calls = calls /\ search.dated.results = results
    OBVIOUS
  <2> HIDE DEF calls, search
  <2> DEFINE dated == GetWithRetry(search.dated.calls, search.dated.results)
  <2>3. dated = [answered |-> TRUE, results |-> results]
    BY <2>1, <2>2
  <2>4. ~(movie.year = 0) /\ ~(dated.answered /\ dated.results = <<>>)
    BY <1>10, <2>3
  <2>5. QED
    BY <2>3, <2>4 DEF TmdbSearch
<1>12. Row(movie, search) = [status |-> "fixable", candidate |-> top,
                             confidence |-> ConfidenceLabel(movie.year, top)]
  BY <1>7, <1>9, <1>11 DEF Row
<1>13. ConfidenceLabel(movie.year, top) = "high"
  BY <1>9 DEF ConfidenceLabel, HighConfidenceRatio, MaxYearDeltaHigh
<1>14. top.year \in {0, Released}
  BY <1>7, <1>9 DEF YearDelta, Result
<1>15. QED
  BY <1>9, <1>12, <1>13, <1>14 DEF Proposes, results, before, after, itself

\* What the remake property samples.
LEMMA ItselfIsProposed == ItselfProposed
<1> DEFINE R == [ratio : {40, 93, 100}, year : {0, 9, Released, 30}]
<1>1. \A others \in UNION {[1..n -> R] : n \in 0..2} : others \in Seq(Result)
  <2> SUFFICES ASSUME NEW n \in 0..2, NEW others \in [1..n -> R] PROVE others \in Seq(Result)
    OBVIOUS
  <2>1. \A r \in R : r \in Result
    BY DEF Result, Released
  <2> HIDE DEF R
  <2>3. others \in [1..n -> Result]
    BY <2>1
  <2>4. QED
    BY <2>3, SeqDef
<1>2. \A others \in UNION {[1..n -> R] : n \in 0..2}, place \in 1..3, movie \in Unlinked :
        place <= Len(others) + 1 /\ movie.year # 0 => Proposes(others, place, movie)
  BY <1>1, ProposesItself
<1>3. QED
  BY <1>2, Zenon DEF ItselfProposed, Proposes

\* Whatever the library does, the reports of the TMDb audit take no outage for a miss and
\* no remake for the movie.
THEOREM TmdbSound == AuditSpec => []TmdbAuditSound
<1>1. AuditTypeOK => TmdbAuditSound
  BY OutageToldApart, ItselfIsProposed DEF TmdbAuditSound
<1>2. QED
  BY <1>1, AuditTypeCorrect, PTL

=============================================================================
