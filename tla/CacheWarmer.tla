----------------------------- MODULE CacheWarmer -----------------------------
(***************************************************************************)
(* The cache warmer, Metacache.Plex/Warming/CacheWarmer.cs, its triggers   *)
(* in Metacache.Host/WarmEndpoints.cs and the nightly service of           *)
(* ScheduledWarmHostedService.cs.                                          *)
(*                                                                         *)
(* One gate admits one run.  A run publishes a status and a progress,      *)
(* walks the inventories of its source with parallel bodies that update    *)
(* the progress with an unsynchronized read and write, and lands with a    *)
(* result or an exception.  What an entry's metadata and artwork requests  *)
(* do inside is UpstreamCache.tla and ImageCache.tla: here one language of *)
(* one entry succeeds, is not found, throws, or throws the cancellation    *)
(* that a client timeout or a shutdown raises.                             *)
(*                                                                         *)
(* Titles, images, seconds and time stamps of a result are left out; every *)
(* found language of an entry counts one item.                             *)
(***************************************************************************)
EXTENDS Integers, Sequences, FiniteSets

CONSTANTS
  Triggers,    \* requests, webhooks and the nightly service
  Nightly,     \* the trigger that is ScheduledWarmHostedService
  Workers,     \* bodies of one Parallel.ForEachAsync that run at once
  Configured,  \* the parts whose ARR URL is set, a subset of Parts
  Count,       \* entries in each part's inventory
  Languages,   \* number of languages warmed per entry
  None

Parts == {"movies", "shows"}
Sources == {"movies", "shows", "all", "single"}

ASSUME WarmAssumption ==
  /\ Nightly \in Triggers
  /\ Configured \subseteq Parts
  /\ Count \in [Parts -> Nat]
  /\ Languages \in Nat \ {0}
  /\ IsFiniteSet(Workers)

VARIABLES
  pc,        \* per trigger: where its call is
  source,    \* per trigger: the source it asked for
  run,       \* per trigger: the locals of its run
  worker,    \* per trigger and body: the entry it warms, if any
  gate,      \* _gate: the trigger that holds it, or None
  status,    \* _status
  progress,  \* _progress, or None
  stopping   \* ApplicationStopping

vars == <<pc, source, run, worker, gate, status, progress, stopping>>

Stages == {"idle", "calling", "entered", "parts", "looping", "landing", "clearing",
           "failed", "canceled", "releasing", "giving up", "over"}

NoRun == [parts |-> <<>>, part |-> None, left |-> 0, items |-> 0, missing |-> 0,
          errors |-> 0, skipped |-> FALSE, aborted |-> FALSE]
IdleWorker == [stage |-> "idle", warmed |-> 0, saw |-> 0]

Run == [parts : Seq(Sources), part : Parts \cup {None}, left : Nat, items : Nat,
        missing : Nat, errors : Nat, skipped : BOOLEAN, aborted : BOOLEAN]
Body == [stage : {"idle", "warming", "writing"}, warmed : 0..Languages, saw : Nat]
Result == [source : Sources, items : Nat, missing : Nat, errors : Nat, skipped : BOOLEAN]
Progress == [total : Nat, processed : Nat]

ASSUME NoneAssumption ==
  None \notin Triggers /\ None \notin Result /\ None \notin Progress

TypeOK ==
  /\ pc \in [Triggers -> Stages]
  /\ source \in [Triggers -> Sources \cup {None}]
  /\ run \in [Triggers -> Run]
  /\ worker \in [Triggers -> [Workers -> Body]]
  /\ gate \in Triggers \cup {None}
  /\ status \in [running : BOOLEAN, last : Result \cup {None}]
  /\ progress \in Progress \cup {None}
  /\ stopping \in BOOLEAN

Init ==
  /\ pc = [t \in Triggers |-> "idle"]
  /\ source = [t \in Triggers |-> None]
  /\ run = [t \in Triggers |-> NoRun]
  /\ worker = [t \in Triggers |-> [w \in Workers |-> IdleWorker]]
  /\ gate = None
  /\ status = [running |-> FALSE, last |-> None]
  /\ progress = None
  /\ stopping = FALSE

Goto(t, stage) == pc' = [pc EXCEPT ![t] = stage]

-----------------------------------------------------------------------------
\* RunAsync: the gate and the published state

\* The nightly service asks for everything; it is not asked once the host stops.
Call(t, s) ==
  /\ pc[t] = "idle"
  /\ ~stopping
  /\ t = Nightly => s = "all"
  /\ Goto(t, "calling")
  /\ source' = [source EXCEPT ![t] = s]
  /\ UNCHANGED <<run, worker, gate, status, progress, stopping>>

\* Defect: the gate is read and taken without the semaphore.
EnterRegardless(t) ==
  /\ pc[t] = "calling"
  /\ gate' = t
  /\ Goto(t, "entered")
  /\ UNCHANGED <<source, run, worker, status, progress, stopping>>

\* WaitAsync(0) got the semaphore.
Enter(t) ==
  /\ pc[t] = "calling"
  /\ gate = None
  /\ gate' = t
  /\ Goto(t, "entered")
  /\ UNCHANGED <<source, run, worker, status, progress, stopping>>

\* It did not: the result is null, the answer 409, and the nightly run is skipped.
Refused(t) ==
  /\ pc[t] = "calling"
  /\ gate # None
  /\ Goto(t, "idle")
  /\ source' = [source EXCEPT ![t] = None]
  /\ UNCHANGED <<run, worker, gate, status, progress, stopping>>

PartsOf(s) ==
  CASE s = "all" -> <<"movies", "shows">>
    [] s = "single" -> <<>>
    [] OTHER -> <<s>>

\* Defect: the previous result is dropped when a run starts.
BeginForgetting(t) ==
  /\ pc[t] = "entered"
  /\ progress' = [total |-> 0, processed |-> 0]
  /\ status' = [running |-> TRUE, last |-> None]
  /\ run' = [run EXCEPT ![t] = [NoRun EXCEPT !.parts = PartsOf(source[t])]]
  /\ Goto(t, "parts")
  /\ UNCHANGED <<source, worker, gate, stopping>>

\* The previous result stays published while the run is on.
Begin(t) ==
  /\ pc[t] = "entered"
  /\ progress' = [total |-> 0, processed |-> 0]
  /\ status' = [status EXCEPT !.running = TRUE]
  /\ run' = [run EXCEPT ![t] = [NoRun EXCEPT !.parts = PartsOf(source[t])]]
  /\ Goto(t, "parts")
  /\ UNCHANGED <<source, worker, gate, stopping>>

ResultOf(t) ==
  [source |-> source[t], items |-> run[t].items, missing |-> run[t].missing,
   errors |-> run[t].errors, skipped |-> run[t].skipped]

Failed(t) ==
  [source |-> source[t], items |-> 0, missing |-> 0, errors |-> 1, skipped |-> FALSE]

Land(t) ==
  /\ pc[t] = "landing"
  /\ status' = [running |-> FALSE, last |-> ResultOf(t)]
  /\ Goto(t, "clearing")
  /\ UNCHANGED <<source, run, worker, gate, progress, stopping>>

ClearProgress(t) ==
  /\ pc[t] = "clearing"
  /\ progress' = None
  /\ Goto(t, "releasing")
  /\ UNCHANGED <<source, run, worker, gate, status, stopping>>

\* Defect: a failed run is still shown as running.
FailStillRunning(t) ==
  /\ pc[t] \in {"failed", "canceled"}
  /\ status' = [status EXCEPT !.last = Failed(t)]
  /\ Goto(t, IF pc[t] = "canceled" THEN "giving up" ELSE "releasing")
  /\ UNCHANGED <<source, run, worker, gate, progress, stopping>>

\* Defect: the exception leaves without the finally block.
FailWithoutRelease(t) ==
  /\ pc[t] \in {"failed", "canceled"}
  /\ status' = [running |-> FALSE, last |-> Failed(t)]
  /\ Goto(t, "idle")
  /\ UNCHANGED <<source, run, worker, gate, progress, stopping>>

\* The progress of the failed run is left where it is.
Fail(t) ==
  /\ pc[t] \in {"failed", "canceled"}
  /\ status' = [running |-> FALSE, last |-> Failed(t)]
  /\ Goto(t, IF pc[t] = "canceled" THEN "giving up" ELSE "releasing")
  /\ UNCHANGED <<source, run, worker, gate, progress, stopping>>

\* The finally block.  The nightly loop catches everything but a cancellation.
Release(t) ==
  /\ pc[t] \in {"releasing", "giving up"}
  /\ gate' = None
  /\ run' = [run EXCEPT ![t] = NoRun]
  /\ source' = [source EXCEPT ![t] = None]
  /\ Goto(t, IF pc[t] = "giving up" /\ t = Nightly THEN "over" ELSE "idle")
  /\ UNCHANGED <<worker, status, progress, stopping>>

-----------------------------------------------------------------------------
\* The body of a run

\* An exception of the kind `how` leaves the body.
Throw(t, how) == how \in {"failed", "canceled"} /\ Goto(t, how)

\* One item, named by a webhook: found, missing, or an exception.
WarmSingle(t) ==
  /\ pc[t] = "parts"
  /\ source[t] = "single"
  /\ \/ /\ \/ run' = [run EXCEPT ![t].items = Languages]
           \/ run' = [run EXCEPT ![t].missing = 1]
        /\ Goto(t, "landing")
     \/ /\ \E how \in {"failed", "canceled"} : Throw(t, how)
        /\ UNCHANGED run
  /\ UNCHANGED <<source, worker, gate, status, progress, stopping>>

\* A part whose URL is blank adds nothing; the run is a skipped one unless it
\* covers both parts and the other is configured.
SkipPart(t) ==
  /\ pc[t] = "parts"
  /\ run[t].parts # <<>>
  /\ Head(run[t].parts) \notin Configured
  /\ run' = [run EXCEPT ![t] =
       [run[t] EXCEPT !.parts = Tail(run[t].parts),
                      !.skipped = source[t] # "all" \/ Configured = {}]]
  /\ UNCHANGED <<pc, source, worker, gate, status, progress, stopping>>

SetProgressTotal(n) ==
  progress' = IF progress = None THEN None ELSE [progress EXCEPT !.total = n]

FetchInventory(t) ==
  /\ pc[t] = "parts"
  /\ run[t].parts # <<>>
  /\ Head(run[t].parts) \in Configured
  /\ SetProgressTotal(Count[Head(run[t].parts)] * Languages)
  /\ run' = [run EXCEPT ![t] =
       [run[t] EXCEPT !.part = Head(run[t].parts), !.left = Count[Head(run[t].parts)],
                      !.parts = Tail(run[t].parts)]]
  /\ Goto(t, "looping")
  /\ UNCHANGED <<source, worker, gate, status, stopping>>

\* The ARR application does not answer, or not in time.
InventoryFails(t, how) ==
  /\ pc[t] = "parts"
  /\ run[t].parts # <<>>
  /\ Head(run[t].parts) \in Configured
  /\ Throw(t, how)
  /\ UNCHANGED <<source, run, worker, gate, status, progress, stopping>>

PartsDone(t) ==
  /\ pc[t] = "parts"
  /\ run[t].parts = <<>>
  /\ source[t] # "single"
  /\ Goto(t, "landing")
  /\ UNCHANGED <<source, run, worker, gate, status, progress, stopping>>

-----------------------------------------------------------------------------
\* Parallel.ForEachAsync over an inventory

Busy(t, w, stage) == pc[t] = "looping" /\ worker[t][w].stage = stage

\* The body of w is through with its entry.
EntryDone(t, w) == worker' = [worker EXCEPT ![t][w] = IdleWorker]

\* No new entry is taken after a cancellation.
Take(t, w) ==
  /\ Busy(t, w, "idle")
  /\ run[t].left > 0 /\ ~run[t].aborted
  /\ run' = [run EXCEPT ![t].left = @ - 1]
  /\ worker' = [worker EXCEPT ![t][w].stage = "warming"]
  /\ UNCHANGED <<pc, source, gate, status, progress, stopping>>

\* An entry without an id, or a series TMDB does not know, in this language.
EntryMissing(t, w) ==
  /\ Busy(t, w, "warming")
  /\ run[t].part = "shows" \/ worker[t][w].warmed = 0
  /\ run' = [run EXCEPT ![t].missing = @ + 1]
  /\ EntryDone(t, w)
  /\ UNCHANGED <<pc, source, gate, status, progress, stopping>>

EntryFails(t, w) ==
  /\ Busy(t, w, "warming")
  /\ run' = [run EXCEPT ![t].errors = @ + 1]
  /\ EntryDone(t, w)
  /\ UNCHANGED <<pc, source, gate, status, progress, stopping>>

\* OperationCanceledException passes the per-entry catch and ends the loop.
EntryCanceled(t, w) ==
  /\ Busy(t, w, "warming")
  /\ run' = [run EXCEPT ![t].aborted = TRUE]
  /\ EntryDone(t, w)
  /\ UNCHANGED <<pc, source, gate, status, progress, stopping>>

\* A movie advances the progress after each language, a series after the last one.
Advances(t, w) == run[t].part = "movies" \/ worker[t][w].warmed + 1 = Languages

\* A language is warm.  If the progress advances now, its current value is read.
WarmLanguage(t, w) ==
  /\ Busy(t, w, "warming")
  /\ run' = [run EXCEPT ![t].items = @ + 1]
  /\ worker' = [worker EXCEPT ![t][w] =
       [stage |-> IF Advances(t, w) THEN "writing" ELSE "warming",
        warmed |-> worker[t][w].warmed + 1,
        saw |-> IF Advances(t, w) /\ progress # None THEN progress.processed ELSE 0]]
  /\ UNCHANGED <<pc, source, gate, status, progress, stopping>>

\* Defect: the update counts what this body has done on top of what it read.
WriteProgressTwice(t, w) ==
  /\ Busy(t, w, "writing")
  /\ progress' = IF progress = None THEN None
                 ELSE [progress EXCEPT !.processed = worker[t][w].saw + 2]
  /\ IF worker[t][w].warmed = Languages
     THEN EntryDone(t, w)
     ELSE worker' = [worker EXCEPT ![t][w].stage = "warming", ![t][w].saw = 0]
  /\ UNCHANGED <<pc, source, run, gate, status, stopping>>

\* UpdateProgress writes what was read, plus one: another body's update is lost.
WriteProgress(t, w) ==
  /\ Busy(t, w, "writing")
  /\ progress' = IF progress = None THEN None
                 ELSE [progress EXCEPT !.processed = worker[t][w].saw + 1]
  /\ IF worker[t][w].warmed = Languages
     THEN EntryDone(t, w)
     ELSE worker' = [worker EXCEPT ![t][w].stage = "warming", ![t][w].saw = 0]
  /\ UNCHANGED <<pc, source, run, gate, status, stopping>>

\* Every body is back; a cancellation is thrown on.
LoopEnds(t) ==
  /\ pc[t] = "looping"
  /\ \A w \in Workers : worker[t][w].stage = "idle"
  /\ run[t].left = 0 \/ run[t].aborted
  /\ Goto(t, IF run[t].aborted THEN "canceled" ELSE "parts")
  /\ UNCHANGED <<source, run, worker, gate, status, progress, stopping>>

\* The host stops: what runs is canceled at its next request.
Stop ==
  /\ ~stopping
  /\ stopping' = TRUE
  /\ UNCHANGED <<pc, source, run, worker, gate, status, progress>>

-----------------------------------------------------------------------------

WorkerStep(t, w) ==
  \/ Take(t, w)
  \/ EntryMissing(t, w)
  \/ EntryFails(t, w)
  \/ EntryCanceled(t, w)
  \/ WarmLanguage(t, w)
  \/ WriteProgress(t, w)

RunStep(t) ==
  \/ Enter(t)
  \/ Refused(t)
  \/ Begin(t)
  \/ WarmSingle(t)
  \/ SkipPart(t)
  \/ FetchInventory(t)
  \/ \E how \in {"failed", "canceled"} : InventoryFails(t, how)
  \/ PartsDone(t)
  \/ LoopEnds(t)
  \/ Land(t)
  \/ ClearProgress(t)
  \/ Fail(t)
  \/ Release(t)
  \/ \E w \in Workers : WorkerStep(t, w)

Next ==
  \/ \E t \in Triggers, s \in Sources : Call(t, s)
  \/ \E t \in Triggers : RunStep(t)
  \/ Stop

Spec == Init /\ [][Next]_vars

\* Requests end within the client's timeout, so a run that started keeps stepping.
FairSpec == Spec /\ \A t \in Triggers : WF_vars(RunStep(t))

-----------------------------------------------------------------------------
\* Properties

\* t is between the semaphore and its release.
Inside(t) == pc[t] \notin {"idle", "calling", "over"}

\* No two runs overlap, whatever triggers race: they would mix up the status and the
\* progress they publish (CacheWarmer.cs:488-492).
OneRunAtATime == \A t, u \in Triggers : Inside(t) /\ Inside(u) => t = u

\* The status never says that a run is on when none is, failed runs included
\* (CacheWarmer.cs:516, DESIGN.md:935-937).
NeverStuckRunning ==
  status.running => \E t \in Triggers : Inside(t) /\ gate = t

\* The last result changes only when a run lands: it is there during the next run and
\* never turns null again (CacheWarmer.cs:498-502).
LastResultKept ==
  [][status'.last # status.last => status.running /\ ~status'.running
                                     /\ status'.last # None]_vars

\* The result of a run over one inventory accounts for its entries: no entry is
\* counted as missing or in error twice, and every other one was warmed in every
\* language (CacheWarmer.cs:357-386, 399-434).
EntriesAccounted ==
  \A p \in Configured : status.last # None /\ status.last.source = p =>
    LET bad == status.last.missing + status.last.errors IN
    status.last = [source |-> p, items |-> 0, missing |-> 0, errors |-> 1, skipped |-> FALSE]
      \/ /\ bad <= Count[p]
         /\ status.last.items + bad <= Languages * Count[p]
         /\ status.last.items >= Languages * (Count[p] - bad)

\* Lost updates make the progress lag, never lead: it shows no more than was warmed
\* (CacheWarmer.cs:551-555).
ProgressNeverLeads ==
  \A t \in Triggers : pc[t] \in {"parts", "looping"} =>
    progress # None /\ progress.processed <= run[t].items

\* In a run over one inventory the progress stays within its total
\* (CacheWarmer.cs:355, 376, 397, 425).
ProgressWithinTotal ==
  \A t \in Triggers :
    pc[t] = "looping" /\ source[t] # "all" => progress.processed <= progress.total

\* A run ends and lets the next one in.
GateReleased == \A t \in Triggers : gate = t ~> gate # t

\* What a run shows while it is on and when it has landed agree with its inventory.
ProgressTruthful == EntriesAccounted /\ ProgressNeverLeads /\ ProgressWithinTotal

=============================================================================
