-------------------------- MODULE PosterSyncProofs --------------------------
(***************************************************************************)
(* Theorems about PosterSync.tla: slots and workers agree, nothing a job   *)
(* does is lost to its stream, and a poster stays for its cooldown, for    *)
(* any library, jobs, picks, streams and restarts.  Theorems about         *)
(* PosterCandidates.tla: which poster a job takes of any catalogues.       *)
(***************************************************************************)
EXTENDS MCPosterSync, SequenceTheorems, FiniteSetTheorems, WellFoundedInduction, TLAPS

\* What was picked or applied and saved is stamped: nothing of it is missing from stamps.
Keeps(stamps) ==
  \A x \in Library :
    /\ lastAuto[x] # None /\ x \notin unsaved => stamps[x] # None /\ lastAuto[x] <= stamps[x]
    /\ pick[x] # None /\ pick[x].holder = None => stamps[x] # None /\ pick[x].at <= stamps[x]

\* The worker will save its copy of the file.
HoldsCopy(w) == w.kind = "sync" /\ w.stage \in {"next", "lookup", "stamp"}

\* The cooldown of a stamp is over.
Cool(stamp) == stamp = None \/ now - stamp >= Cooldown

\* The counts follow the listing.
Tallied(w) ==
  /\ w.i \in 1..(Len(Items) + 1)
  /\ w.stage \in {"lookup", "stamp"} => w.i <= Len(Items)
  /\ w.stage \notin {"stamp", "exiting"} => w.counted = w.i - 1
  /\ w.stage = "stamp" => w.counted = w.i
  /\ w.stage = "exiting" /\ w.i > Len(Items) => w.counted = Len(Items)

JobsTally ==
  \A j \in Started : Tallied(job[j]) /\ (job[j].stage = "stamp" => job[j].kind = "sync")

\* What a sync will save lacks nothing that was saved, and what it looks up is cool.
CopiesKeep == \A j \in Started : HoldsCopy(job[j]) => Keeps(job[j].memory)
LookupsCool == \A j \in Started :
  job[j].stage = "lookup" /\ job[j].kind = "sync" => Cool(job[j].memory[Items[job[j].i]])

\* No stamp is ahead of the clock.
Past ==
  \A x \in Library : /\ lastAuto[x] # None => lastAuto[x] <= now
                     /\ pick[x] # None => pick[x].at <= now

\* The job of a slot that is taken is the one that lives.
SlotHasWorker ==
  /\ \A j \in Started : job[j].stage # "over"
       => slot[job[j].kind].running /\ slot[job[j].kind].queue = j
  /\ \A k \in Kinds : slot[k].queue # None => slot[k].queue \in Started
  /\ \A k \in Kinds : slot[k].running
       => /\ slot[k].queue \in Started
          /\ job[slot[k].queue].kind = k /\ job[slot[k].queue].stage # "over"

\* A stream shows a job, and has ended only if the job has.
StreamsShow ==
  \A t \in Tabs : /\ tab[t].stage # "closed" => tab[t].queue \in Started
                  /\ tab[t].stage = "ended" => job[tab[t].queue].stage = "over"

Typed ==
  /\ now \in Time /\ file \in [Library -> Time \cup {None}]
  /\ slot \in [Kinds -> [running : BOOLEAN, queue : Jobs \cup {None}]]
  /\ job \in Seq(Job) /\ Len(job) <= MaxJobs
  /\ tab \in [Tabs -> [stage : {"closed", "waiting", "empty", "ended"}, queue : Jobs \cup {None}]]
  /\ request \in [Requests -> Library \cup {None}]
  /\ picks \in 0..MaxPicks /\ restarts \in 0..MaxRestarts
  /\ lastAuto \in [Library -> Time \cup {None}] /\ unsaved \subseteq Library
  /\ pick \in [Library -> [at : Time, holder : Jobs \cup {None}] \cup {None}]

IInv ==
  /\ Typed /\ Past /\ SlotHasWorker /\ StreamsShow /\ Keeps(file)
  /\ JobsTally /\ CopiesKeep /\ LookupsCool

-----------------------------------------------------------------------------
\* The library and its clock.
LEMMA Facts ==
  /\ Len(Items) \in Nat /\ \A n \in 1..Len(Items) : Items[n] \in Library
  /\ MaxJobs \in Nat /\ MaxTime \in Nat /\ Cooldown \in Nat /\ MaxPicks \in Nat /\ MaxRestarts \in Nat
  /\ None \notin Nat /\ Time \subseteq Nat /\ Jobs \subseteq Nat
  /\ NoStamps \in [Library -> Time \cup {None}] /\ \A x \in Library : NoStamps[x] = None
  <1>1. Len(Items) \in Nat /\ \A n \in 1..Len(Items) : Items[n] \in Library
    BY PosterAssumption, ElementOfSeq, LenProperties
  <1>2. NoStamps \in [Library -> Time \cup {None}] /\ \A x \in Library : NoStamps[x] = None
    BY DEF NoStamps
  <1> QED BY <1>1, <1>2, PosterAssumption DEF Time, Jobs

\* A worker as it starts or ends.
LEMMA WorkerTyped ==
  ASSUME NEW k \in Kinds, NEW dry \in BOOLEAN, NEW stage \in {"listing", "over"}
  PROVE /\ Worker(k, dry, stage) \in Job
        /\ Worker(k, dry, stage).kind = k /\ Worker(k, dry, stage).stage = stage
        /\ Tallied(Worker(k, dry, stage))
  <1>1. /\ Worker(k, dry, stage) \in Job
        /\ Worker(k, dry, stage).kind = k /\ Worker(k, dry, stage).stage = stage
        /\ Worker(k, dry, stage).i = 1 /\ Worker(k, dry, stage).counted = 0
    BY Facts DEF Worker, Job, Stages
  <1> QED BY <1>1, Facts DEF Tallied

\* One job of the list goes on.
LEMMA JobUpdate ==
  ASSUME job \in Seq(Job), NEW j \in Started, NEW w \in Job, job' = [job EXCEPT ![j] = w]
  PROVE /\ job' \in Seq(Job) /\ Len(job') = Len(job) /\ Started' = Started /\ job'[j] = w
        /\ \A i \in Started : i # j => job'[i] = job[i]
  <1>1. job' \in Seq(Job) /\ Len(job') = Len(job)
    BY ExceptSeq DEF Started
  <1>2. job'[j] = w /\ \A i \in Started : i # j => job'[i] = job[i]
    BY LenProperties DEF Started
  <1> QED BY <1>1, <1>2 DEF Started

\* A job that was started has a worker.
LEMMA JobTyped ==
  ASSUME Typed, NEW j \in Started
  PROVE job[j] \in Job /\ j \in Nat /\ j \in Jobs
  BY Facts, ElementOfSeq, LenProperties DEF Typed, Started, Jobs

\* A worker goes on by itself.
LEMMA Turn ==
  ASSUME IInv, NEW j \in Started, NEW w \in Job, job' = [job EXCEPT ![j] = w],
         UNCHANGED <<now, slot, tab, PanelVars>>,
         job[j].stage # "over", w.stage # "over", w.kind = job[j].kind,
         Tallied(w), w.stage = "stamp" => w.kind = "sync",
         HoldsCopy(w) => Keeps(w.memory),
         w.stage = "lookup" /\ w.kind = "sync" => Cool(w.memory[Items[w.i]])
  PROVE IInv'
  <1>1. /\ job' \in Seq(Job) /\ Len(job') = Len(job) /\ Started' = Started /\ job'[j] = w
        /\ \A i \in Started : i # j => job'[i] = job[i]
    BY JobUpdate DEF IInv, Typed
  <1>2. /\ Typed' /\ Past' /\ Keeps(file)'
    BY <1>1 DEF IInv, Typed, Past, Keeps, PanelVars
  <1>3. SlotHasWorker'
    BY <1>1 DEF IInv, SlotHasWorker
  <1>4. StreamsShow'
    BY <1>1 DEF IInv, StreamsShow
  <1>5. JobsTally'
    BY <1>1 DEF IInv, JobsTally, Tallied
  <1>6. CopiesKeep'
    BY <1>1 DEF IInv, CopiesKeep, HoldsCopy, Keeps, PanelVars
  <1>7. LookupsCool'
    BY <1>1 DEF IInv, LookupsCool, Cool
  <1> QED BY <1>2, <1>3, <1>4, <1>5, <1>6, <1>7 DEF IInv

\* What an update of a worker's record does.
LEMMA GotoIs ==
  ASSUME Typed, NEW j \in Started, NEW stage \in Stages, Goto(j, stage)
  PROVE \E w \in Job : /\ job' = [job EXCEPT ![j] = w]
                       /\ w.kind = job[j].kind /\ w.stage = stage /\ w.i = job[j].i
                       /\ w.memory = job[j].memory /\ w.counted = job[j].counted
  <1> DEFINE w == [job[j] EXCEPT !.stage = stage]
  <1>1. job[j] \in Job
    BY JobTyped
  <1>2. /\ w \in Job /\ w.kind = job[j].kind /\ w.stage = stage /\ w.i = job[j].i
        /\ w.memory = job[j].memory /\ w.counted = job[j].counted
    BY <1>1 DEF Job
  <1>3. job' = [job EXCEPT ![j] = w]
    BY DEF Goto
  <1> QED BY <1>2, <1>3

\* Going on to the next item counts the one that is done.
LEMMA NextItemIs ==
  ASSUME Typed, NEW j \in Started, NextItem(j)
  PROVE \E w \in Job : /\ job' = [job EXCEPT ![j] = w]
                       /\ w.kind = job[j].kind /\ w.stage = "next" /\ w.i = job[j].i + 1
                       /\ w.memory = job[j].memory /\ w.counted = job[j].counted + 1
  <1> DEFINE w == [job[j] EXCEPT !.stage = "next", !.i = @ + 1, !.counted = @ + 1]
  <1>1. job[j] \in Job
    BY JobTyped
  <1>2. /\ w \in Job /\ w.kind = job[j].kind /\ w.stage = "next" /\ w.i = job[j].i + 1
        /\ w.memory = job[j].memory /\ w.counted = job[j].counted + 1
    <2> DEFINE v == [job[j] EXCEPT !.stage = "next"]
               u == [v EXCEPT !.i = job[j].i + 1]
    <2>1. job[j].i + 1 \in Nat /\ job[j].counted + 1 \in Nat
      BY <1>1 DEF Job
    <2>2. /\ v \in Job /\ v.kind = job[j].kind /\ v.stage = "next" /\ v.i = job[j].i
          /\ v.memory = job[j].memory /\ v.counted = job[j].counted
      BY <1>1 DEF Job, Stages
    <2>3. w = [u EXCEPT !.counted = job[j].counted + 1]
      BY <1>1 DEF Job
    <2> HIDE DEF v, w
    <2>4. /\ u \in Job /\ u.kind = job[j].kind /\ u.stage = "next" /\ u.i = job[j].i + 1
          /\ u.memory = job[j].memory /\ u.counted = job[j].counted
      BY <2>1, <2>2 DEF Job
    <2> HIDE DEF u
    <2> QED BY <2>1, <2>3, <2>4 DEF Job
  <1>3. job' = [job EXCEPT ![j] = w]
    <2>1. j \in DOMAIN job
      BY LenProperties DEF Typed, Started
    <2> QED BY <1>1, <2>1 DEF NextItem, Typed, Job
  <1> QED BY <1>2, <1>3

-----------------------------------------------------------------------------
\* The worker, step by step

\* It leaves its work: done, in vain or by an exception.
LEMMA LeaveStep ==
  ASSUME IInv, NEW j \in Jobs, ListFailed(j) \/ Raise(j) \/ Done(j)
  PROVE IInv'
  <1>1. /\ j \in Started /\ Goto(j, "exiting") /\ UNCHANGED <<now, slot, tab, PanelVars>>
        /\ job[j].stage \in {"listing", "lookup", "stamp", "next"}
    BY DEF ListFailed, Raise, Done, At
  <1>2. PICK w \in Job : /\ job' = [job EXCEPT ![j] = w]
                         /\ w.kind = job[j].kind /\ w.stage = "exiting" /\ w.i = job[j].i
                         /\ w.counted = job[j].counted
    BY <1>1, GotoIs DEF IInv, Stages
  <1>3. Tallied(w)
    <2>1. Tallied(job[j]) /\ w.i \in Nat /\ w.counted \in Nat
      BY <1>1 DEF IInv, JobsTally, Job
    <2> QED BY <1>1, <1>2, <2>1, Facts DEF Tallied
  <1> QED BY <1>1, <1>2, <1>3, Turn DEF HoldsCopy

\* The listing is read: a sync takes its copy of the cooldown file here (run_poster_sync).
LEMMA ListedStep ==
  ASSUME IInv, NEW j \in Jobs, Listed(j)
  PROVE IInv'
  <1>1. j \in Started /\ job[j].stage = "listing" /\ UNCHANGED <<now, slot, tab, PanelVars>>
    BY DEF Listed, At
  <1> DEFINE memory == IF job[j].kind = "sync" THEN file ELSE NoStamps
             v == [job[j] EXCEPT !.stage = "next"]
             w == [v EXCEPT !.memory = memory]
  <1>2. job[j] \in Job /\ memory \in [Library -> Time \cup {None}]
    BY <1>1, JobTyped, Facts DEF IInv, Typed
  <1>3. job' = [job EXCEPT ![j] = w]
    <2>1. j \in DOMAIN job
      BY <1>1, LenProperties DEF IInv, Typed, Started
    <2> QED BY <1>2, <2>1 DEF Listed, IInv, Typed, Job
  <1>4. /\ v \in Job /\ v.kind = job[j].kind /\ v.stage = "next" /\ v.i = job[j].i
        /\ v.counted = job[j].counted
    BY <1>2 DEF Job, Stages
  <1>5. job[j].kind = "sync" => Keeps(memory)
    BY DEF IInv
  <1> HIDE DEF v, memory
  <1>6. /\ w \in Job /\ w.kind = job[j].kind /\ w.stage = "next" /\ w.i = job[j].i
        /\ w.counted = job[j].counted /\ w.memory = memory
    BY <1>2, <1>4 DEF Job
  <1> HIDE DEF w
  <1>7. Tallied(w)
    <2>1. Tallied(job[j]) /\ w.i \in Nat /\ w.counted \in Nat
      BY <1>1, <1>6 DEF IInv, JobsTally, Job
    <2> QED BY <1>1, <1>6, <2>1, Facts DEF Tallied
  <1>8. HoldsCopy(w) => Keeps(w.memory)
    BY <1>5, <1>6 DEF HoldsCopy
  <1> QED BY <1>1, <1>3, <1>6, <1>7, <1>8, Turn

\* The next item: cooling down, without a poster, failed or only reported.
LEMMA NextItemStep ==
  ASSUME IInv, NEW j \in Jobs,
         CoolingDown(j) \/ ScanNoPoster(j) \/ LookupFailed(j) \/ NoCandidate(j) \/ ReportFound(j)
  PROVE IInv'
  <1>1. /\ j \in Started /\ NextItem(j) /\ UNCHANGED <<now, slot, tab, PanelVars>>
        /\ job[j].stage = "lookup" \/ (job[j].stage = "next" /\ job[j].i <= Len(Items))
    BY DEF CoolingDown, ScanNoPoster, LookupFailed, NoCandidate, ReportFound, At
  <1>2. PICK w \in Job : /\ job' = [job EXCEPT ![j] = w]
                         /\ w.kind = job[j].kind /\ w.stage = "next" /\ w.i = job[j].i + 1
                         /\ w.memory = job[j].memory /\ w.counted = job[j].counted + 1
    BY <1>1, NextItemIs DEF IInv
  <1>3. Tallied(w)
    <2>1. Tallied(job[j]) /\ job[j] \in Job
      BY <1>1, JobTyped DEF IInv, JobsTally
    <2>2. job[j].i \in Nat /\ job[j].counted \in Nat /\ Len(Items) \in Nat
      BY <2>1, Facts DEF Job
    <2>3. job[j].i <= Len(Items) /\ job[j].counted = job[j].i - 1
      BY <1>1, <2>1 DEF Tallied
    <2> QED BY <1>2, <2>2, <2>3 DEF Tallied
  <1>4. HoldsCopy(w) => Keeps(w.memory)
    BY <1>1, <1>2 DEF IInv, CopiesKeep, HoldsCopy
  <1> QED BY <1>1, <1>2, <1>3, <1>4, Turn

\* A poster is looked up, by a sync only when its copy says the cooldown is over.
LEMMA LookUpStep ==
  ASSUME IInv, NEW j \in Jobs, LookUp(j)
  PROVE IInv'
  <1>1. /\ j \in Started /\ Goto(j, "lookup") /\ UNCHANGED <<now, slot, tab, PanelVars>>
        /\ job[j].stage = "next" /\ job[j].i <= Len(Items)
        /\ job[j].kind = "sync" => CooldownRemaining(job[j].memory, Current(j)) = 0
    BY DEF LookUp, At
  <1>2. PICK w \in Job : /\ job' = [job EXCEPT ![j] = w]
                         /\ w.kind = job[j].kind /\ w.stage = "lookup" /\ w.i = job[j].i
                         /\ w.memory = job[j].memory /\ w.counted = job[j].counted
    BY <1>1, GotoIs DEF IInv, Stages
  <1>3. Tallied(job[j]) /\ w.i \in Nat /\ w.counted \in Nat
    BY <1>1, <1>2 DEF IInv, JobsTally, Job
  <1>4. Tallied(w)
    BY <1>1, <1>2, <1>3, Facts DEF Tallied
  <1>5. HoldsCopy(w) => Keeps(w.memory)
    BY <1>1, <1>2 DEF IInv, CopiesKeep, HoldsCopy
  <1>6. w.kind = "sync" => Cool(w.memory[Items[w.i]])
    <2> SUFFICES ASSUME w.kind = "sync" PROVE Cool(w.memory[Items[w.i]])
      OBVIOUS
    <2> DEFINE x == Items[w.i]
               stamps == w.memory
    <2>1. x \in Library
      BY <1>1, <1>2, <1>3, Facts DEF Tallied
    <2>2. stamps[x] \in Time \cup {None} /\ now \in Nat
      BY <2>1, Facts DEF Job, IInv, Typed
    <2>3. CooldownRemaining(stamps, x) = 0
      BY <1>1, <1>2 DEF Current
    <2> HIDE DEF x, stamps
    <2>4. stamps[x] = None \/ now - stamps[x] >= Cooldown
      <3> SUFFICES ASSUME stamps[x] # None, ~(now - stamps[x] >= Cooldown) PROVE FALSE
        OBVIOUS
      <3>1. stamps[x] \in Nat /\ Cooldown \in Nat
        BY <2>2, Facts
      <3>2. Cooldown - (now - stamps[x]) = 0
        BY <2>3, Zenon DEF CooldownRemaining
      <3> QED BY <2>2, <3>1, <3>2
    <2> QED BY <2>4 DEF Cool, x, stamps
  <1> QED BY <1>1, <1>2, <1>4, <1>5, <1>6, Turn

\* No two syncs live.
LEMMA OneSync ==
  ASSUME IInv, NEW i \in Started, NEW j \in Started, job[i].kind = job[j].kind,
         job[i].stage # "over", job[j].stage # "over"
  PROVE i = j
  BY DEF IInv, SlotHasWorker

\* A poster is applied: from here until it is stamped the sync alone knows of it.
LEMMA AppliedStep ==
  ASSUME IInv, NEW j \in Jobs, Applied(j)
  PROVE IInv'
  <1> DEFINE x == Current(j)
             v == [job[j] EXCEPT !.stage = "stamp"]
             w == [v EXCEPT !.counted = job[j].counted + 1]
  <1>1. /\ j \in Started /\ job[j].stage = "lookup" /\ job[j].kind = "sync"
        /\ lastAuto' = [lastAuto EXCEPT ![x] = now] /\ unsaved' = unsaved \cup {x}
        /\ pick' = [pick EXCEPT ![x] = None]
        /\ UNCHANGED <<now, slot, tab, file, request, picks, restarts>>
    BY DEF Applied, At
  <1>2. job[j] \in Job /\ Tallied(job[j])
    BY <1>1, JobTyped DEF IInv, JobsTally
  <1>3. job[j].i \in Nat /\ job[j].counted \in Nat
    BY <1>2 DEF Job
  <1>4. x \in Library
    BY <1>1, <1>2, <1>3, Facts DEF Tallied, Current
  <1>5. job' = [job EXCEPT ![j] = w]
    <2>1. j \in DOMAIN job
      BY <1>1, LenProperties DEF IInv, Typed, Started
    <2> QED BY <1>2, <2>1 DEF Applied, IInv, Typed, Job
  <1> HIDE DEF x
  <1>6. /\ w \in Job /\ w.kind = "sync" /\ w.stage = "stamp" /\ w.i = job[j].i
        /\ w.counted = job[j].counted + 1 /\ w.memory = job[j].memory
    <2>1. /\ v \in Job /\ v.kind = "sync" /\ v.stage = "stamp" /\ v.i = job[j].i
          /\ v.memory = job[j].memory
      BY <1>1, <1>2 DEF Job, Stages
    <2>2. job[j].counted + 1 \in Nat
      BY <1>3
    <2> HIDE DEF v
    <2> QED BY <2>1, <2>2 DEF Job
  <1> HIDE DEF w
  <1>7. /\ job' \in Seq(Job) /\ Len(job') = Len(job) /\ Started' = Started /\ job'[j] = w
        /\ \A i \in Started : i # j => job'[i] = job[i]
    BY <1>1, <1>5, <1>6, JobUpdate DEF IInv, Typed
  <1>8. Typed'
    BY <1>1, <1>4, <1>7 DEF IInv, Typed
  <1>9. Past'
    BY <1>1, <1>4, Facts DEF IInv, Past, Typed
  <1>10. SlotHasWorker' /\ StreamsShow'
    <2>1. SlotHasWorker'
      BY <1>1, <1>6, <1>7 DEF IInv, SlotHasWorker
    <2>2. StreamsShow'
      BY <1>1, <1>6, <1>7 DEF IInv, StreamsShow
    <2> QED BY <2>1, <2>2
  <1>12. Keeps(file)'
    BY <1>1, <1>4 DEF Keeps, IInv, Typed
  <1>13. JobsTally'
    <2>1. Tallied(w)
      BY <1>1, <1>2, <1>3, <1>6, Facts DEF Tallied
    <2> QED BY <1>6, <1>7, <2>1 DEF IInv, JobsTally, Tallied
  <1>14. CopiesKeep'
    <2> SUFFICES ASSUME NEW i \in Started, HoldsCopy(job'[i]) PROVE Keeps(job[i].memory)'
      BY <1>7 DEF CopiesKeep, HoldsCopy
    <2>1. job'[i].memory = job[i].memory /\ HoldsCopy(job[i])
      BY <1>1, <1>6, <1>7 DEF HoldsCopy
    <2>2. Keeps(job[i].memory)
      BY <2>1 DEF IInv, CopiesKeep
    <2> QED BY <1>1, <1>4, <2>1, <2>2 DEF Keeps, IInv, Typed
  <1>15. LookupsCool'
    BY <1>1, <1>6, <1>7 DEF IInv, LookupsCool, Cool
  <1> QED BY <1>8, <1>9, <1>10, <1>12, <1>13, <1>14, <1>15 DEF IInv

\* The sync writes its whole copy back with the item stamped, over whatever was written since.
LEMMA StampStep ==
  ASSUME IInv, NEW j \in Jobs, Stamp(j)
  PROVE IInv'
  <1> DEFINE x == Current(j)
  <1>1. /\ j \in Started /\ job[j].stage = "stamp" /\ job[j].kind = "sync"
        /\ file' = [job[j].memory EXCEPT ![x] = now] /\ unsaved' = unsaved \ {x}
        /\ UNCHANGED <<now, slot, tab, request, picks, restarts, lastAuto, pick>>
    BY DEF Stamp, At, IInv, JobsTally
  <1>2. job[j] \in Job /\ Tallied(job[j])
    BY <1>1, JobTyped DEF IInv, JobsTally
  <1>3. job[j].i \in Nat /\ job[j].counted \in Nat /\ job[j].memory \in [Library -> Time \cup {None}]
    BY <1>2 DEF Job
  <1>4. x \in Library /\ job[j].i <= Len(Items) /\ job[j].counted = job[j].i
    BY <1>1, <1>2, <1>3, Facts DEF Tallied, Current
  <1>5. PICK stamped \in [Library -> Time \cup {None}] :
          stamped = [job[j].memory EXCEPT ![x] = now]
    BY <1>3, <1>4 DEF IInv, Typed
  <1> DEFINE v == [job[j] EXCEPT !.memory = stamped]
             u == [v EXCEPT !.stage = "next"]
             w == [u EXCEPT !.i = job[j].i + 1]
  <1>6. job' = [job EXCEPT ![j] = w]
    <2>1. j \in DOMAIN job
      BY <1>1, LenProperties DEF IInv, Typed, Started
    <2> QED BY <1>2, <1>5, <2>1 DEF Stamp, IInv, Typed, Job
  <1> HIDE DEF x
  <1>7. /\ w \in Job /\ w.kind = "sync" /\ w.stage = "next" /\ w.i = job[j].i + 1
        /\ w.counted = job[j].counted /\ w.memory = stamped
    <2>1. /\ v \in Job /\ v.kind = "sync" /\ v.i = job[j].i /\ v.counted = job[j].counted
          /\ v.memory = stamped
      BY <1>1, <1>2, <1>5 DEF Job
    <2> HIDE DEF v
    <2>2. /\ u \in Job /\ u.kind = "sync" /\ u.stage = "next" /\ u.i = job[j].i
          /\ u.counted = job[j].counted /\ u.memory = stamped
      BY <2>1 DEF Job, Stages
    <2>3. job[j].i + 1 \in Nat
      BY <1>3
    <2> HIDE DEF u
    <2> QED BY <2>2, <2>3 DEF Job
  <1> HIDE DEF v, u, w
  <1>8. /\ job' \in Seq(Job) /\ Len(job') = Len(job) /\ Started' = Started /\ job'[j] = w
        /\ \A i \in Started : i # j => job'[i] = job[i]
    BY <1>1, <1>6, <1>7, JobUpdate DEF IInv, Typed
  <1>9. Keeps(stamped)'
    <2>1. Keeps(job[j].memory)
      BY <1>1 DEF IInv, CopiesKeep, HoldsCopy
    <2>2. stamped[x] = now /\ \A y \in Library : y # x => stamped[y] = job[j].memory[y]
      BY <1>3, <1>4, <1>5
    <2>3. now # None
      BY Facts DEF IInv, Typed
    <2>4. \A y \in Library : y # x =>
            /\ lastAuto[y] # None /\ y \notin unsaved' => stamped[y] # None /\ lastAuto[y] <= stamped[y]
            /\ pick[y] # None /\ pick[y].holder = None => stamped[y] # None /\ pick[y].at <= stamped[y]
      BY <1>1, <2>1, <2>2 DEF Keeps
    <2>5. /\ lastAuto[x] # None => lastAuto[x] <= stamped[x]
          /\ pick[x] # None => pick[x].at <= stamped[x]
      BY <1>4, <2>2 DEF IInv, Past
    <2> QED BY <1>1, <2>2, <2>3, <2>4, <2>5 DEF Keeps
  <1>10. Typed' /\ Past'
    <2>1. Typed'
      BY <1>1, <1>5, <1>8 DEF IInv, Typed
    <2>2. Past'
      BY <1>1 DEF IInv, Past
    <2> QED BY <2>1, <2>2
  <1>11. SlotHasWorker' /\ StreamsShow'
    <2>1. SlotHasWorker'
      BY <1>1, <1>7, <1>8 DEF IInv, SlotHasWorker
    <2>2. StreamsShow'
      BY <1>1, <1>7, <1>8 DEF IInv, StreamsShow
    <2> QED BY <2>1, <2>2
  <1>12. Keeps(file)'
    BY <1>1, <1>5, <1>9 DEF Keeps
  <1>13. JobsTally'
    <2>1. Tallied(w)
      BY <1>3, <1>4, <1>7, Facts DEF Tallied
    <2> QED BY <1>7, <1>8, <2>1 DEF IInv, JobsTally, Tallied
  <1>14. CopiesKeep'
    <2> SUFFICES ASSUME NEW i \in Started, HoldsCopy(job'[i]) PROVE Keeps(job[i].memory)'
      BY <1>8 DEF CopiesKeep, HoldsCopy
    <2>1. CASE i = j
      BY <1>7, <1>8, <1>9, <2>1 DEF Keeps
    <2>2. CASE i # j
      <3>1. HoldsCopy(job[i]) /\ job'[i] = job[i]
        BY <1>8, <2>2 DEF HoldsCopy
      <3> QED BY <1>1, <2>2, <3>1, OneSync DEF HoldsCopy
    <2> QED BY <2>1, <2>2
  <1>15. LookupsCool'
    BY <1>1, <1>7, <1>8 DEF IInv, LookupsCool, Cool
  <1> QED BY <1>10, <1>11, <1>12, <1>13, <1>14, <1>15 DEF IInv

-----------------------------------------------------------------------------
\* Slots, streams, picks and restarts

\* A job takes its slot only when no other runs in it.
LEMMA StartStep ==
  ASSUME IInv, NEW k \in Kinds, NEW dry \in BOOLEAN, Start(k, dry)
  PROVE IInv'
  <1> DEFINE w == Worker(k, dry, "listing")
             n == Len(job) + 1
  <1>1. /\ w \in Job /\ w.kind = k /\ w.stage = "listing" /\ Tallied(w)
    BY WorkerTyped
  <1>2. /\ Len(job) < MaxJobs /\ ~slot[k].running /\ job' = Append(job, w)
        /\ slot' = [slot EXCEPT ![k] = [running |-> TRUE, queue |-> n]]
        /\ UNCHANGED <<now, tab, file, request, picks, restarts, lastAuto, unsaved, pick>>
    BY DEF Start, PanelVars
  <1> HIDE DEF w
  <1>3. Len(job) \in Nat /\ job \in Seq(Job)
    BY LenProperties DEF IInv, Typed
  <1>4. /\ job' \in Seq(Job) /\ Len(job') = n /\ job'[n] = w
        /\ \A j \in Started : job'[j] = job[j]
        /\ Started' = Started \cup {n} /\ n \notin Started /\ n \in Jobs
    BY <1>1, <1>2, <1>3, AppendProperties, Facts DEF Started, Jobs
  <1> HIDE DEF n
  <1>5. /\ slot' \in [Kinds -> [running : BOOLEAN, queue : Jobs \cup {None}]]
        /\ slot'[k].running /\ slot'[k].queue = n
        /\ \A l \in Kinds : l # k => slot'[l] = slot[l]
    BY <1>2, <1>4 DEF IInv, Typed
  <1>6. Typed'
    BY <1>2, <1>3, <1>4, <1>5, Facts DEF IInv, Typed, n
  <1>7. Past' /\ Keeps(file)'
    BY <1>2 DEF IInv, Past, Keeps
  <1>8. \A j \in Started : job[j].kind = k => job[j].stage = "over"
    BY <1>2 DEF IInv, SlotHasWorker
  <1>9. SlotHasWorker'
    <2>1. ASSUME NEW j \in Started', job'[j].stage # "over"
          PROVE slot'[job'[j].kind].running /\ slot'[job'[j].kind].queue = j
      <3>1. CASE j = n
        BY <1>1, <1>4, <1>5, <3>1
      <3>2. CASE j # n
        <4>1. j \in Started /\ job'[j] = job[j]
          BY <1>4, <3>2
        <4>2. job[j].kind # k /\ job[j].kind \in Kinds
          BY <1>8, <2>1, <4>1, JobTyped DEF IInv, Job
        <4> QED BY <1>5, <2>1, <4>1, <4>2 DEF IInv, SlotHasWorker
      <3> QED BY <3>1, <3>2
    <2>2. ASSUME NEW l \in Kinds, slot'[l].queue # None PROVE slot'[l].queue \in Started'
      BY <1>4, <1>5, <2>2 DEF IInv, SlotHasWorker
    <2>3. ASSUME NEW l \in Kinds, slot'[l].running
          PROVE /\ slot'[l].queue \in Started'
                /\ job'[slot'[l].queue].kind = l /\ job'[slot'[l].queue].stage # "over"
      BY <1>1, <1>4, <1>5, <2>3 DEF IInv, SlotHasWorker
    <2> QED BY <2>1, <2>2, <2>3 DEF SlotHasWorker
  <1>10. StreamsShow'
    BY <1>2, <1>4 DEF IInv, StreamsShow
  <1>11. JobsTally'
    BY <1>1, <1>4 DEF IInv, JobsTally, Tallied
  <1>12. CopiesKeep'
    <2> SUFFICES ASSUME NEW j \in Started', HoldsCopy(job'[j]) PROVE Keeps(job[j].memory)'
      BY DEF CopiesKeep, HoldsCopy
    <2>1. j \in Started /\ job'[j] = job[j]
      BY <1>1, <1>4 DEF HoldsCopy
    <2> QED BY <1>2, <2>1 DEF IInv, CopiesKeep, HoldsCopy, Keeps
  <1>13. LookupsCool'
    <2> SUFFICES ASSUME NEW j \in Started', job'[j].stage = "lookup", job'[j].kind = "sync"
                 PROVE Cool(job[j].memory[Items[job[j].i]])'
      BY DEF LookupsCool
    <2>1. j \in Started /\ job'[j] = job[j]
      BY <1>1, <1>4
    <2> QED BY <1>2, <2>1 DEF IInv, LookupsCool, Cool
  <1> QED BY <1>6, <1>7, <1>9, <1>10, <1>11, <1>12, <1>13 DEF IInv

\* The finally of a worker frees the slot of its own job.
LEMMA FinallyStep ==
  ASSUME IInv, NEW j \in Jobs, Finally(j)
  PROVE IInv'
  <1> DEFINE k == job[j].kind
             w == Worker(k, FALSE, "over")
  <1>1. /\ j \in Started /\ job[j].stage = "exiting" /\ job' = [job EXCEPT ![j] = w]
        /\ slot' = [slot EXCEPT ![k].running = FALSE]
        /\ UNCHANGED <<now, tab, file, request, picks, restarts, lastAuto, unsaved, pick>>
    BY DEF Finally, At, PanelVars
  <1>2. k \in Kinds
    BY <1>1, JobTyped DEF IInv, Job
  <1>3. /\ w \in Job /\ w.kind = k /\ w.stage = "over" /\ Tallied(w)
    BY <1>2, WorkerTyped
  <1> HIDE DEF w, k
  <1>4. /\ job' \in Seq(Job) /\ Len(job') = Len(job) /\ Started' = Started /\ job'[j] = w
        /\ \A i \in Started : i # j => job'[i] = job[i]
    BY <1>1, <1>3, JobUpdate DEF IInv, Typed
  <1>5. /\ slot' \in [Kinds -> [running : BOOLEAN, queue : Jobs \cup {None}]]
        /\ ~slot'[k].running /\ slot'[k].queue = slot[k].queue
        /\ \A l \in Kinds : l # k => slot'[l] = slot[l]
    BY <1>1, <1>2 DEF IInv, Typed
  <1>6. \A i \in Started : i # j /\ job[i].kind = k => job[i].stage = "over"
    BY <1>1 DEF IInv, SlotHasWorker, k
  <1>7. Typed' /\ Past' /\ Keeps(file)'
    BY <1>1, <1>4, <1>5 DEF IInv, Typed, Past, Keeps
  <1>8. SlotHasWorker'
    BY <1>1, <1>3, <1>4, <1>5, <1>6 DEF IInv, SlotHasWorker, k
  <1>9. StreamsShow'
    BY <1>1, <1>3, <1>4 DEF IInv, StreamsShow
  <1>10. JobsTally'
    BY <1>3, <1>4 DEF IInv, JobsTally, Tallied
  <1>11. CopiesKeep'
    BY <1>1, <1>3, <1>4 DEF IInv, CopiesKeep, HoldsCopy, Keeps
  <1>12. LookupsCool'
    BY <1>1, <1>3, <1>4 DEF IInv, LookupsCool, Cool
  <1> QED BY <1>7, <1>8, <1>9, <1>10, <1>11, <1>12 DEF IInv

\* A stream looks at slots and workers and changes neither.
LEMMA StreamStep ==
  ASSUME IInv, NEW t \in Tabs, (\E k \in Kinds : OpenStream(t, k)) \/ Stream(t)
  PROVE IInv'
  <1>1. UNCHANGED StreamVars
    BY DEF OpenStream, Stream, TakeNothing, LookAtFlag
  <1>2. /\ Past' /\ SlotHasWorker' /\ Keeps(file)' /\ JobsTally' /\ CopiesKeep' /\ LookupsCool'
    <2>1. Past' /\ SlotHasWorker' /\ Keeps(file)'
      BY <1>1 DEF IInv, StreamVars, Past, SlotHasWorker, Started, Keeps
    <2>2. JobsTally' /\ CopiesKeep' /\ LookupsCool'
      BY <1>1 DEF IInv, StreamVars, JobsTally, Tallied, CopiesKeep, HoldsCopy, Keeps, LookupsCool,
                  Cool, Started
    <2> QED BY <2>1, <2>2
  <1>3. PICK show \in [stage : {"closed", "waiting", "empty", "ended"}, queue : Jobs \cup {None}] :
          /\ tab' = [tab EXCEPT ![t] = show]
          /\ show.queue \in Started
          /\ show.stage = "ended" => job[show.queue].stage = "over"
    <2>1. ASSUME NEW k \in Kinds, OpenStream(t, k)
          PROVE \E show \in [stage : {"closed", "waiting", "empty", "ended"}, queue : Jobs \cup {None}] :
                  /\ tab' = [tab EXCEPT ![t] = show]
                  /\ show.queue \in Started
                  /\ show.stage = "ended" => job[show.queue].stage = "over"
      <3> DEFINE show == [stage |-> "waiting", queue |-> slot[k].queue]
      <3>1. slot[k].queue \in Jobs \cup {None} /\ slot[k].queue \in Started
        BY <2>1 DEF OpenStream, IInv, Typed, SlotHasWorker
      <3>2. show \in [stage : {"closed", "waiting", "empty", "ended"}, queue : Jobs \cup {None}]
        BY <3>1
      <3> QED BY <2>1, <3>1, <3>2 DEF OpenStream
    <2>2. ASSUME NEW stage \in {"waiting", "empty", "ended"}, tab[t].stage # "closed",
                 tab' = [tab EXCEPT ![t].stage = stage],
                 stage = "ended" => job[tab[t].queue].stage = "over"
          PROVE \E show \in [stage : {"closed", "waiting", "empty", "ended"}, queue : Jobs \cup {None}] :
                  /\ tab' = [tab EXCEPT ![t] = show]
                  /\ show.queue \in Started
                  /\ show.stage = "ended" => job[show.queue].stage = "over"
      <3> DEFINE show == [tab[t] EXCEPT !.stage = stage]
      <3>1. tab[t].queue \in Started
        BY <2>2 DEF IInv, StreamsShow
      <3>2. tab' = [tab EXCEPT ![t] = show]
        BY <2>2
      <3>3. /\ show \in [stage : {"closed", "waiting", "empty", "ended"}, queue : Jobs \cup {None}]
            /\ show.stage = stage /\ show.queue = tab[t].queue
        BY DEF IInv, Typed
      <3> QED BY <2>2, <3>1, <3>2, <3>3
    <2>3. CASE TakeNothing(t)
      BY <2>2, <2>3 DEF TakeNothing
    <2>4. CASE LookAtFlag(t)
      <3> DEFINE j == tab[t].queue
      <3>1. j \in Started /\ tab[t].stage = "empty"
        BY <2>4 DEF LookAtFlag, IInv, StreamsShow
      <3>2. ~slot[job[j].kind].running => job[j].stage = "over"
        BY <3>1 DEF IInv, SlotHasWorker
      <3>3. tab' = [tab EXCEPT ![t].stage = IF slot[job[j].kind].running THEN "waiting" ELSE "ended"]
        BY <2>4 DEF LookAtFlag
      <3>4. CASE slot[job[j].kind].running
        BY <2>2, <3>1, <3>3, <3>4
      <3>5. CASE ~slot[job[j].kind].running
        BY <2>2, <3>1, <3>2, <3>3, <3>5
      <3> QED BY <3>4, <3>5
    <2> QED BY <2>1, <2>3, <2>4 DEF Stream
  <1>4. StreamsShow'
    BY <1>1, <1>3 DEF IInv, Typed, StreamsShow, StreamVars, Started
  <1>5. Typed'
    BY <1>1, <1>3 DEF IInv, Typed, StreamVars
  <1> QED BY <1>2, <1>4, <1>5 DEF IInv

\* What leaves jobs, slots, streams, stamps and picks alone.
LEMMA QuietStep ==
  ASSUME IInv, NEW r \in Requests, (\E x \in Library : Pick(r, x)) \/ RecordFails(r)
  PROVE IInv'
  <1>1. UNCHANGED <<now, file, slot, job, tab, restarts, lastAuto, unsaved, pick>>
    BY DEF Pick, RecordFails
  <1>2. request' \in [Requests -> Library \cup {None}] /\ picks' \in 0..MaxPicks
    <2>1. request \in [Requests -> Library \cup {None}] /\ picks \in 0..MaxPicks /\ MaxPicks \in Nat
      BY Facts DEF IInv, Typed
    <2>2. CASE RecordFails(r)
      BY <2>1, <2>2 DEF RecordFails
    <2>3. ASSUME NEW x \in Library, Pick(r, x)
          PROVE request' \in [Requests -> Library \cup {None}] /\ picks' \in 0..MaxPicks
      BY <2>1, <2>3 DEF Pick
    <2> QED BY <2>2, <2>3
  <1>3. Typed' /\ Past' /\ SlotHasWorker' /\ StreamsShow' /\ Keeps(file)'
    BY <1>1, <1>2 DEF IInv, Typed, Past, SlotHasWorker, StreamsShow, Started, Keeps
  <1>4. JobsTally' /\ CopiesKeep' /\ LookupsCool'
    BY <1>1 DEF IInv, JobsTally, Tallied, CopiesKeep, HoldsCopy, Keeps, LookupsCool, Cool, Started
  <1> QED BY <1>3, <1>4 DEF IInv

\* The job that holds a copy of the file when a pick is saved, if there is one.
LEMMA HolderTyped ==
  ASSUME Typed
  PROVE /\ CopyHolder \in Jobs \cup {None}
        /\ CopyHolder = None => \A j \in Started : ~HoldsCopy(job[j])
  <1> DEFINE holders == {j \in Started : job[j].kind = "sync"
                                          /\ job[j].stage \notin {"listing", "exiting", "over"}}
  <1>1. holders \subseteq Jobs /\ None \notin holders
    <2>1. \A j \in Started : j \in Jobs /\ j # None
      BY JobTyped, Facts
    <2> QED BY <2>1
  <1>2. \A j \in Started : HoldsCopy(job[j]) => j \in holders
    BY DEF HoldsCopy
  <1>3. CopyHolder = IF holders = {} THEN None ELSE CHOOSE j \in holders : TRUE
    BY DEF CopyHolder
  <1> HIDE DEF holders
  <1>4. CASE holders = {}
    BY <1>2, <1>3, <1>4
  <1>5. CASE holders # {}
    <2>1. CopyHolder \in holders
      BY <1>3, <1>5
    <2> QED BY <1>1, <2>1
  <1> QED BY <1>4, <1>5

\* A pick is saved: only a copy that was read before it can lack it.
LEMMA RecordStep ==
  ASSUME IInv, NEW r \in Requests, Record(r)
  PROVE IInv'
  <1>1. PICK x \in Library : /\ request[r] = x
                             /\ file' = [file EXCEPT ![x] = now]
                             /\ pick' = [pick EXCEPT ![x] = [at |-> now, holder |-> CopyHolder]]
    BY DEF Record, IInv, Typed
  <1>2. /\ request' = [request EXCEPT ![r] = None]
        /\ UNCHANGED <<now, slot, job, tab, picks, restarts, lastAuto, unsaved>>
    BY DEF Record
  <1>3. PICK p \in [at : Time, holder : Jobs \cup {None}] :
          /\ p = [at |-> now, holder |-> CopyHolder] /\ p.at = now /\ p.holder = CopyHolder
    <2>1. now \in Time /\ CopyHolder \in Jobs \cup {None}
      BY HolderTyped DEF IInv, Typed
    <2> DEFINE p == [at |-> now, holder |-> CopyHolder]
    <2>2. p \in [at : Time, holder : Jobs \cup {None}] /\ p.at = now /\ p.holder = CopyHolder
      BY <2>1
    <2> QED BY <2>2
  <1>4. pick'[x] = p /\ file'[x] = now /\ now # None
        /\ \A y \in Library : y # x => pick'[y] = pick[y] /\ file'[y] = file[y]
    BY <1>1, <1>3, Facts DEF IInv, Typed
  <1>5. Typed'
    <2>1. pick' \in [Library -> [at : Time, holder : Jobs \cup {None}] \cup {None}]
      BY <1>1, <1>3 DEF IInv, Typed
    <2>2. file' \in [Library -> Time \cup {None}] /\ request' \in [Requests -> Library \cup {None}]
      BY <1>1, <1>2 DEF IInv, Typed
    <2> QED BY <1>2, <2>1, <2>2 DEF IInv, Typed
  <1>6. Past'
    BY <1>2, <1>3, <1>4, Facts DEF IInv, Typed, Past
  <1>7. Keeps(file)'
    BY <1>2, <1>3, <1>4, Facts DEF IInv, Typed, Keeps, Past
  <1>8. SlotHasWorker' /\ StreamsShow'
    BY <1>2 DEF IInv, SlotHasWorker, StreamsShow, Started
  <1>9. JobsTally' /\ LookupsCool'
    BY <1>2 DEF IInv, JobsTally, Tallied, LookupsCool, Cool, Started
  <1>10. CopiesKeep'
    <2> SUFFICES ASSUME NEW j \in Started, HoldsCopy(job[j]) PROVE Keeps(job[j].memory)'
      BY <1>2 DEF CopiesKeep, HoldsCopy, Started
    <2>1. Keeps(job[j].memory) /\ CopyHolder # None
      BY HolderTyped DEF IInv, CopiesKeep
    <2> QED BY <1>2, <1>3, <1>4, <2>1 DEF Keeps
  <1> QED BY <1>5, <1>6, <1>7, <1>8, <1>9, <1>10 DEF IInv

\* Time passes: what was cool stays so.
LEMMA TickStep ==
  ASSUME IInv, Tick
  PROVE IInv'
  <1>1. /\ now' = now + 1 /\ now' \in Time /\ now \in Nat
        /\ UNCHANGED <<file, slot, job, tab, request, picks, restarts, lastAuto, unsaved, pick>>
    BY Facts DEF Tick, Time, IInv, Typed
  <1>2. Typed' /\ SlotHasWorker' /\ StreamsShow' /\ Keeps(file)'
    BY <1>1 DEF IInv, Typed, SlotHasWorker, StreamsShow, Started, Keeps
  <1>3. JobsTally' /\ CopiesKeep'
    BY <1>1 DEF IInv, JobsTally, Tallied, CopiesKeep, HoldsCopy, Keeps, Started
  <1>4. Past'
    <2> SUFFICES ASSUME NEW x \in Library
                 PROVE /\ lastAuto[x] # None => lastAuto[x] <= now + 1
                       /\ pick[x] # None => pick[x].at <= now + 1
      BY <1>1 DEF Past
    <2>1. /\ lastAuto[x] # None => lastAuto[x] \in Nat /\ lastAuto[x] <= now
          /\ pick[x] # None => pick[x].at \in Nat /\ pick[x].at <= now
      BY Facts DEF IInv, Typed, Past
    <2> QED BY <1>1, <2>1
  <1>5. LookupsCool'
    <2> SUFFICES ASSUME NEW j \in Started, job[j].stage = "lookup", job[j].kind = "sync"
                 PROVE Cool(job[j].memory[Items[job[j].i]])'
      BY <1>1 DEF LookupsCool, Started
    <2> DEFINE stamp == job[j].memory[Items[job[j].i]]
    <2>1. job[j] \in Job /\ Tallied(job[j])
      BY JobTyped DEF IInv, JobsTally
    <2>2. Items[job[j].i] \in Library
      <3>1. job[j].i \in 1..Len(Items)
        BY <2>1, Facts DEF Tallied
      <3> QED BY <3>1, Facts
    <2>3. stamp \in Time \cup {None}
      BY <2>1, <2>2 DEF Job
    <2>4. stamp = None \/ now - stamp >= Cooldown
      BY DEF IInv, LookupsCool, Cool
    <2> HIDE DEF stamp
    <2>5. stamp = None \/ (now + 1) - stamp >= Cooldown
      BY <1>1, <2>3, <2>4, Facts
    <2> QED BY <1>1, <2>5 DEF Cool, stamp
  <1> QED BY <1>2, <1>3, <1>4, <1>5 DEF IInv

\* A panel restart ends every worker and stream and keeps the file.
LEMMA RestartStep ==
  ASSUME IInv, Restart
  PROVE IInv'
  <1>1. /\ restarts' \in 0..MaxRestarts
        /\ slot' = [k \in Kinds |-> [running |-> FALSE, queue |-> None]]
        /\ job' = [j \in Started |-> Worker(job[j].kind, FALSE, "over")]
        /\ tab' = [t \in Tabs |-> [stage |-> "closed", queue |-> None]]
        /\ request' = [r \in Requests |-> None]
        /\ UNCHANGED <<now, file, picks, lastAuto, unsaved, pick>>
    BY Facts DEF Restart, IInv, Typed
  <1>2. \A j \in Started : /\ Worker(job[j].kind, FALSE, "over") \in Job
                           /\ Worker(job[j].kind, FALSE, "over").stage = "over"
                           /\ Tallied(Worker(job[j].kind, FALSE, "over"))
    <2> SUFFICES ASSUME NEW j \in Started
                 PROVE /\ Worker(job[j].kind, FALSE, "over") \in Job
                       /\ Worker(job[j].kind, FALSE, "over").stage = "over"
                       /\ Tallied(Worker(job[j].kind, FALSE, "over"))
      OBVIOUS
    <2>1. job[j].kind \in Kinds
      BY JobTyped DEF IInv, Job
    <2> QED BY <2>1, WorkerTyped
  <1>3. Len(job) \in Nat
    BY LenProperties DEF IInv, Typed
  <1>4. job' \in Seq(Job) /\ Len(job') = Len(job) /\ Started' = Started
    <2>1. job' \in [1..Len(job) -> Job]
      BY <1>1, <1>2 DEF Started
    <2> QED BY <1>3, <2>1 DEF Started
  <1>5. \A j \in Started : job'[j].stage = "over" /\ Tallied(job'[j])
    BY <1>1, <1>2
  <1>6. Typed'
    BY <1>1, <1>4 DEF IInv, Typed
  <1>7. Past' /\ Keeps(file)'
    BY <1>1 DEF IInv, Past, Keeps
  <1>8. SlotHasWorker' /\ StreamsShow'
    BY <1>1, <1>4, <1>5 DEF SlotHasWorker, StreamsShow
  <1>9. JobsTally' /\ CopiesKeep' /\ LookupsCool'
    BY <1>4, <1>5 DEF JobsTally, Tallied, CopiesKeep, HoldsCopy, LookupsCool
  <1> QED BY <1>6, <1>7, <1>8, <1>9 DEF IInv

-----------------------------------------------------------------------------
\* The invariant holds at first: no job, no stamp, no stream.
LEMMA InitIInv == Init => IInv
  <1> SUFFICES ASSUME Init PROVE IInv
    OBVIOUS
  <1>1. /\ job = <<>> /\ Started = {} /\ Len(job) = 0 /\ now = 0
        /\ file = NoStamps /\ lastAuto = NoStamps /\ pick = NoStamps /\ unsaved = {}
    BY DEF Init, Started
  <1>2. \A x \in Library : file[x] = None /\ lastAuto[x] = None /\ pick[x] = None
    BY <1>1, Facts
  <1>3. Typed
    <2>1. job \in Seq(Job)
      BY <1>1
    <2>2. pick \in [Library -> [at : Time, holder : Jobs \cup {None}] \cup {None}]
      BY <1>1 DEF NoStamps
    <2>3. file \in [Library -> Time \cup {None}] /\ lastAuto \in [Library -> Time \cup {None}]
          /\ now \in Time
      BY <1>1, Facts DEF Time
    <2> QED BY <1>1, <2>1, <2>2, <2>3, Facts DEF Init, Typed
  <1>4. Past /\ Keeps(file)
    BY <1>2 DEF Past, Keeps
  <1>5. SlotHasWorker /\ StreamsShow
    BY <1>1 DEF Init, SlotHasWorker, StreamsShow
  <1>6. JobsTally /\ CopiesKeep /\ LookupsCool
    BY <1>1 DEF JobsTally, CopiesKeep, LookupsCool
  <1> QED BY <1>3, <1>4, <1>5, <1>6 DEF IInv

\* Every step of jobs, streams, picks, clock and restarts keeps the invariant.
LEMMA NextIInv == IInv /\ [Next]_vars => IInv'
  <1> SUFFICES ASSUME IInv, [Next]_vars PROVE IInv'
    OBVIOUS
  <1>1. CASE UNCHANGED vars
    <2>1. Typed' /\ Past' /\ SlotHasWorker' /\ StreamsShow' /\ Keeps(file)'
      BY <1>1 DEF vars, IInv, Typed, Past, SlotHasWorker, StreamsShow, Started, Keeps
    <2>2. JobsTally' /\ CopiesKeep' /\ LookupsCool'
      BY <1>1 DEF vars, IInv, JobsTally, Tallied, CopiesKeep, HoldsCopy, Keeps, LookupsCool, Cool, Started
    <2> QED BY <2>1, <2>2 DEF IInv
  <1>2. ASSUME NEW j \in Jobs, Work(j) PROVE IInv'
    BY <1>2, LeaveStep, ListedStep, NextItemStep, LookUpStep, AppliedStep, StampStep, FinallyStep DEF Work
  <1> QED BY <1>1, <1>2, StartStep, StreamStep, QuietStep, RecordStep, TickStep, RestartStep DEF Next

\* The invariant of the poster jobs: slots, streams, tallies, and what the copies keep.
THEOREM Invariance == Spec => []IInv
  BY InitIInv, NextIInv, PTL DEF Spec

\* The slots, jobs, streams, stamps and picks are what their kind says.
THEOREM TypeCorrect == Spec => []TypeOK
  <1>1. IInv => TypeOK
    BY DEF IInv, Typed, TypeOK
  <1> QED BY <1>1, Invariance, PTL

\* A slot is taken exactly while its one worker lives, the counts of a job's last
\* line cover its listing, and no stream ends before its job: for any library, any
\* jobs and tabs, and restarts at any step.
THEOREM NoneLost == Spec => []NothingLost
  <1>1. IInv => SlotMatchesWorker
    <2> SUFFICES ASSUME IInv, NEW k \in Kinds
                 PROVE Cardinality({j \in Started : job[j].kind = k /\ job[j].stage # "over"})
                         = IF slot[k].running THEN 1 ELSE 0
      BY DEF SlotMatchesWorker
    <2> DEFINE living == {j \in Started : job[j].kind = k /\ job[j].stage # "over"}
    <2>1. CASE slot[k].running
      <3>1. living = {slot[k].queue}
        BY <2>1 DEF IInv, SlotHasWorker
      <3> QED BY <2>1, <3>1, FS_Singleton
    <2>2. CASE ~slot[k].running
      <3>1. living = {}
        BY <2>2 DEF IInv, SlotHasWorker
      <3> QED BY <2>2, <3>1, FS_EmptySet
    <2> QED BY <2>1, <2>2
  <1>2. IInv => TallyComplete
    <2> SUFFICES ASSUME IInv, NEW j \in Started, job[j].i > Len(Items) PROVE job[j].counted = Len(Items)
      BY DEF TallyComplete
    <2>1. Tallied(job[j]) /\ job[j].i \in Nat /\ job[j].counted \in Nat /\ Len(Items) \in Nat
      BY JobTyped, Facts DEF IInv, JobsTally, Job
    <2>2. job[j].stage \notin {"lookup", "stamp"} /\ job[j].i = Len(Items) + 1
      BY <2>1 DEF Tallied
    <2> QED BY <2>1, <2>2 DEF Tallied
  <1>3. IInv => StreamOutlivesJob
    BY DEF IInv, StreamsShow, StreamOutlivesJob
  <1> QED BY <1>1, <1>2, <1>3, Invariance, PTL DEF NothingLost

-----------------------------------------------------------------------------
\* What a step may not do

\* Only a sync's poster replaces a pick or is one more that is not yet stamped.
LEMMA WhoApplies ==
  ASSUME IInv, Next, NEW x \in Library, x \in unsaved' \ unsaved \/ (pick[x] # None /\ pick'[x] = None)
  PROVE \E j \in Started : Applied(j) /\ Current(j) = x
  <1>1. ASSUME NEW j \in Jobs, Applied(j) PROVE j \in Started /\ Current(j) = x
    <2>1. /\ j \in Started /\ unsaved' = unsaved \cup {Current(j)}
          /\ pick' = [pick EXCEPT ![Current(j)] = None]
      BY <1>1 DEF Applied, At
    <2> QED BY <2>1 DEF IInv, Typed
  <1>2. ASSUME NEW r \in Requests, Record(r) PROVE FALSE
    <2>1. now \in Nat /\ CopyHolder \in Nat \cup {None}
      BY HolderTyped, Facts DEF IInv, Typed
    <2> DEFINE p == [at |-> now, holder |-> CopyHolder]
    <2>2. p # None
      BY <2>1, PosterAssumption
    <2>3. unsaved' = unsaved /\ pick' = [pick EXCEPT ![request[r]] = p]
      BY <1>2 DEF Record
    <2> HIDE DEF p
    <2> QED BY <2>2, <2>3 DEF IInv, Typed
  <1>3. ASSUME pick' = pick, unsaved' \subseteq unsaved PROVE FALSE
    BY <1>3
  <1>4. ASSUME NEW j \in Jobs, Work(j), ~Applied(j) PROVE FALSE
    BY <1>3, <1>4 DEF Work, ListFailed, Listed, CoolingDown, LookUp, ScanNoPoster, LookupFailed,
                      NoCandidate, ReportFound, Stamp, Raise, Done, Finally, PanelVars
  <1>5. ASSUME NEW k \in Kinds, NEW dry \in BOOLEAN, Start(k, dry) PROVE FALSE
    BY <1>3, <1>5 DEF Start, PanelVars
  <1>6. ASSUME NEW t \in Tabs, (\E k \in Kinds : OpenStream(t, k)) \/ Stream(t) PROVE FALSE
    BY <1>3, <1>6 DEF OpenStream, Stream, TakeNothing, LookAtFlag, StreamVars
  <1>7. ASSUME NEW r \in Requests, (\E y \in Library : Pick(r, y)) \/ RecordFails(r) PROVE FALSE
    BY <1>3, <1>7 DEF Pick, RecordFails
  <1>8. CASE Tick \/ Restart
    BY <1>3, <1>8 DEF Tick, Restart
  <1> QED BY <1>1, <1>2, <1>4, <1>5, <1>6, <1>7, <1>8 DEF Next

\* What a sync applies had cooled down in its copy of the file.
LEMMA AppliedCool ==
  ASSUME IInv, NEW j \in Started, Applied(j)
  PROVE /\ Current(j) \in Library /\ Keeps(job[j].memory) /\ Cool(job[j].memory[Current(j)])
        /\ job[j].memory[Current(j)] \in Time \cup {None}
  <1>1. job[j].stage = "lookup" /\ job[j].kind = "sync" /\ job[j] \in Job /\ Tallied(job[j])
    BY JobTyped DEF Applied, At, IInv, JobsTally
  <1>2. Current(j) \in Library
    <2>1. job[j].i \in 1..Len(Items)
      BY <1>1, Facts DEF Tallied
    <2> QED BY <2>1, Facts DEF Current
  <1>3. Keeps(job[j].memory) /\ Cool(job[j].memory[Current(j)])
    BY <1>1 DEF IInv, CopiesKeep, HoldsCopy, LookupsCool, Current
  <1> QED BY <1>1, <1>2, <1>3 DEF Job

\* Syncs never apply a poster to one item twice within the cooldown, across jobs,
\* picks and restarts, unless the stamp of the first was never saved.
THEOREM Spaced == Spec => AutoSpaced
  <1>1. IInv /\ [Next]_vars => [\A x \in Library : AppliedAgain(x) => now - lastAuto[x] >= Cooldown]_vars
    <2> SUFFICES ASSUME IInv, Next, NEW x \in Library, AppliedAgain(x)
                 PROVE now - lastAuto[x] >= Cooldown
      OBVIOUS
    <2>1. lastAuto[x] # None /\ x \notin unsaved
      BY DEF AppliedAgain
    <2>2. PICK j \in Started : Applied(j) /\ Current(j) = x
      BY WhoApplies DEF AppliedAgain
    <2> DEFINE stamp == job[j].memory[x]
    <2>3. Keeps(job[j].memory) /\ Cool(stamp) /\ stamp \in Time \cup {None}
      BY <2>2, AppliedCool
    <2>4. stamp # None /\ lastAuto[x] <= stamp
      BY <2>1, <2>3 DEF Keeps
    <2> HIDE DEF stamp
    <2>5. now \in Nat /\ lastAuto[x] \in Nat /\ stamp \in Nat /\ Cooldown \in Nat
      BY <2>1, <2>3, <2>4, Facts DEF IInv, Typed
    <2>6. now - stamp >= Cooldown
      BY <2>3, <2>4 DEF Cool
    <2> QED BY <2>4, <2>5, <2>6
  <1>2. []IInv /\ [][Next]_vars
          => [][\A x \in Library : AppliedAgain(x) => now - lastAuto[x] >= Cooldown]_vars
    BY <1>1, PTL
  <1> QED BY <1>2, Invariance DEF Spec, AutoSpaced

\* A pick recorded while no sync holds a copy of the file is not replaced by a sync
\* within the cooldown, whatever jobs start and restarts happen meanwhile.
THEOREM PickStays == Spec => QuietPickKept
  <1> DEFINE step == \A x \in Library :
                       (PickReplaced(x) /\ pick[x].holder = None) => now - pick[x].at >= Cooldown
  <1>1. IInv /\ [Next]_vars => [step]_vars
    <2> SUFFICES ASSUME IInv, Next, NEW x \in Library, PickReplaced(x), pick[x].holder = None
                 PROVE now - pick[x].at >= Cooldown
      OBVIOUS
    <2>1. pick[x] # None
      BY DEF PickReplaced
    <2>2. PICK j \in Started : Applied(j) /\ Current(j) = x
      BY WhoApplies DEF PickReplaced
    <2> DEFINE stamp == job[j].memory[x]
    <2>3. Keeps(job[j].memory) /\ Cool(stamp) /\ stamp \in Time \cup {None}
      BY <2>2, AppliedCool
    <2>4. stamp # None /\ pick[x].at <= stamp
      BY <2>1, <2>3 DEF Keeps
    <2> HIDE DEF stamp
    <2>5. now \in Nat /\ pick[x].at \in Nat /\ stamp \in Nat /\ Cooldown \in Nat
      BY <2>1, <2>3, <2>4, Facts DEF IInv, Typed
    <2>6. now - stamp >= Cooldown
      BY <2>3, <2>4 DEF Cool
    <2> QED BY <2>4, <2>5, <2>6
  <1>2. []IInv /\ [][Next]_vars => [][step]_vars
    BY <1>1, PTL
  <1> QED BY <1>2, Invariance DEF Spec, QuietPickKept

-----------------------------------------------------------------------------
(* services/posters/candidates.py, quality.py.                             *)

\* The sources by name.
SourceNames == {"tmdb", "fanart", "tvdb", "omdb", "tvmaze"}

\* Every set of natural numbers that is not empty has a least one.
LEMMA LeastIndex ==
  ASSUME NEW S \in SUBSET Nat, S # {}
  PROVE  \E n \in S : \A k \in S : n <= k
<1>1. PICK n \in S : \A k \in S : ~(<<k, n>> \in OpToRel(<, Nat))
  BY NatLessThanWellFounded, WFMin
<1>2. \A k \in S : ~(k < n)
  BY <1>1 DEF OpToRel
<1>3. QED
  BY <1>2

\* The first of some places.
LEMMA FirstIndex ==
  ASSUME NEW S \in SUBSET Nat, S # {}
  PROVE  First(S) \in S /\ \A k \in S : First(S) <= k
  BY LeastIndex DEF First

\* The order holds each source once, the primary first.
LEMMA OrderLemma ==
  ASSUME NEW primary \in SourceNames
  PROVE  /\ DOMAIN Order(primary) = 1..5 /\ Order(primary)[1] = primary
         /\ \A n \in 1..5 : Order(primary)[n] \in SourceNames
         /\ \A s \in SourceNames : \E n \in 1..5 : Order(primary)[n] = s
         /\ \A m, n \in 1..5 : Order(primary)[m] = Order(primary)[n] => m = n
<1>1. /\ DOMAIN Sources = 1..5
      /\ Sources[1] = "tmdb" /\ Sources[2] = "fanart" /\ Sources[3] = "tvdb"
      /\ Sources[4] = "omdb" /\ Sources[5] = "tvmaze"
  BY DEF Sources
<1> DEFINE p == CHOOSE p \in DOMAIN Sources : Sources[p] = primary
<1>2. p \in 1..5 /\ Sources[p] = primary
  BY <1>1 DEF SourceNames
<1>3. Order(primary) = [n \in 1..5 |-> IF n = 1 THEN primary ELSE IF n <= p THEN Sources[n - 1] ELSE Sources[n]]
  BY <1>1 DEF Order
<1> HIDE DEF p
<1>4. DOMAIN Order(primary) = 1..5 /\ \A n \in 1..5 :
        Order(primary)[n] = IF n = 1 THEN primary ELSE IF n <= p THEN Sources[n - 1] ELSE Sources[n]
  BY <1>3
<1>5. \A n \in 1..5 : n = 1 \/ n = 2 \/ n = 3 \/ n = 4 \/ n = 5
  OBVIOUS
<1>6. CASE p = 1
  BY <1>1, <1>2, <1>4, <1>5, <1>6 DEF SourceNames
<1>7. CASE p = 2
  BY <1>1, <1>2, <1>4, <1>5, <1>7 DEF SourceNames
<1>8. CASE p = 3
  BY <1>1, <1>2, <1>4, <1>5, <1>8 DEF SourceNames
<1>9. CASE p = 4
  BY <1>1, <1>2, <1>4, <1>5, <1>9 DEF SourceNames
<1>10. CASE p = 5
  BY <1>1, <1>2, <1>4, <1>5, <1>10 DEF SourceNames
<1>11. QED
  BY <1>2, <1>5, <1>6, <1>7, <1>8, <1>9, <1>10

\* A cut leaves the first, and something of something.
LEMMA CutLemma ==
  ASSUME NEW X, NEW r \in Seq(X), NEW limit \in Nat \ {0}
  PROVE  /\ Cut(Cut(r, limit), 1) = Cut(r, 1)
         /\ Cut(r, limit) = <<>> <=> r = <<>>
         /\ Cut(r, limit) \in Seq(X)
<1> DEFINE n == IF Len(r) < limit THEN Len(r) ELSE limit
           c == SubSeq(r, 1, n)
           m == IF Len(c) < 1 THEN Len(c) ELSE 1
<1>1. n \in 0..Len(r) /\ (n = 0 <=> Len(r) = 0) /\ Len(r) \in Nat
  OBVIOUS
<1>2. Cut(r, limit) = c
  BY DEF Cut
<1> HIDE DEF n
<1>3. /\ c \in Seq(X) /\ Len(c) = n /\ \A i \in 1..n : c[i] = r[i]
  <2>1. \A i \in 1..n : r[i] \in X
    BY <1>1
  <2>2. QED
    BY <1>1, <2>1, SubSeqProperties
<1>4. r = <<>> <=> Len(r) = 0
  BY EmptySeq
<1>5. c = <<>> <=> Len(c) = 0
  BY <1>3, EmptySeq
<1>6. Cut(c, 1) = Cut(r, 1)
  <2>1. CASE n = 0
    <3>1. c = <<>> /\ r = <<>>
      BY <1>1, <1>3, <1>4, <1>5, <2>1
    <3>2. QED
      BY <3>1
  <2>2. CASE n # 0
    <3>1. Cut(c, 1) = SubSeq(c, 1, 1) /\ Cut(r, 1) = SubSeq(r, 1, 1)
      BY <1>1, <1>3, <2>2 DEF Cut
    <3>2. \A i \in 1..1 : c[i] \in X /\ r[i] \in X /\ c[i] = r[i]
      BY <1>1, <1>3, <2>2
    <3> HIDE DEF c
    <3>3. SubSeq(c, 1, 1) \in Seq(X) /\ Len(SubSeq(c, 1, 1)) = 1 /\ SubSeq(c, 1, 1)[1] = c[1]
      <4>1. \A i \in 1..1 : c[i] \in X
        BY <3>2
      <4>2. QED
        BY <4>1, SubSeqProperties
    <3>4. SubSeq(r, 1, 1) \in Seq(X) /\ Len(SubSeq(r, 1, 1)) = 1 /\ SubSeq(r, 1, 1)[1] = r[1]
      <4>1. \A i \in 1..1 : r[i] \in X
        BY <3>2
      <4>2. QED
        BY <4>1, SubSeqProperties
    <3> DEFINE cc == SubSeq(c, 1, 1)
               rr == SubSeq(r, 1, 1)
    <3>5. cc \in Seq(X) /\ rr \in Seq(X) /\ Len(cc) = Len(rr) /\ \A i \in 1..Len(cc) : cc[i] = rr[i]
      BY <3>2, <3>3, <3>4
    <3> HIDE DEF cc, rr
    <3>6. cc = rr
      BY <3>5, SeqEqual
    <3>7. QED
      BY <3>1, <3>6 DEF cc, rr
  <2>3. QED
    BY <2>1, <2>2
<1>7. QED
  BY <1>1, <1>2, <1>3, <1>4, <1>5, <1>6

\* Of nothing, nothing.
LEMMA CutNothing == Cut(<<>>, 1) = <<>>
<1>1. Cut(<<>>, 1) = SubSeq(<<>>, 1, 0)
  BY EmptySeq DEF Cut
<1>2. QED
  BY <1>1, SubSeqEmpty

\* Ranking gives as many posters.
LEMMA RankedLemma ==
  ASSUME NEW P, NEW posters \in Seq(P), NEW source
  PROVE  \E X : Ranked(source, posters) \in Seq(X) /\ (Ranked(source, posters) = <<>> <=> posters = <<>>)
                /\ Len(Ranked(source, posters)) = Len(posters)
<1> DEFINE r == Ranked(source, posters)
           X == {r[k] : k \in DOMAIN posters}
           n == Len(posters)
<1>1. DOMAIN posters = 1..n /\ n \in Nat
  OBVIOUS
<1>2. DOMAIN r = 1..n
  BY <1>1 DEF Ranked
<1>a. r = [k \in 1..n |-> r[k]]
  BY <1>1 DEF Ranked
<1> HIDE DEF r
<1>3. r \in [1..n -> X]
  BY <1>1, <1>2, <1>a
<1>4. r \in Seq(X) /\ Len(r) = n
  BY <1>1, <1>3, SeqDef, LenProperties
<1>5. QED
  BY <1>4, EmptySeq DEF r

\* The first of the top posters is the top poster.
LEMMA TopLemma ==
  ASSUME NEW P, NEW held \in Seq(P), NEW limit \in Nat \ {0}, NEW source
  PROVE  /\ Top(source, held, 1) = Cut(Top(source, held, limit), 1)
         /\ Top(source, held, limit) = <<>> <=> held = <<>>
<1>1. PICK X : Ranked(source, held) \in Seq(X) /\ (Ranked(source, held) = <<>> <=> held = <<>>)
  BY RankedLemma
<1>2. \A ranked \in Seq(X) : Cut(Cut(ranked, limit), 1) = Cut(ranked, 1) /\ (Cut(ranked, limit) = <<>> <=> ranked = <<>>)
  BY CutLemma
<1>3. QED
  BY <1>1, <1>2 DEF Top

\* The sources that hold a poster under an id the item has there.
Holds(s, item, world) ==
  /\ world.posters[s] # <<>>
  /\ CASE s = "tmdb" -> TmdbId(item, world)
       [] s = "fanart" -> FanartId(item)
       [] s = "tvdb" -> item.tvdb = "number" /\ world.token
       [] s = "omdb" -> item.imdb
       [] s = "tvmaze" -> item.type = "show" /\ item.imdb

\* What a source offers first does not depend on how many are asked for, and it offers
\* nothing only if it holds nothing.
LEMMA OfferedLemma ==
  ASSUME NEW P, NEW item, NEW world, world.posters \in [SourceNames -> Seq(P)],
         NEW limit \in Nat \ {0}, NEW s \in SourceNames
  PROVE  /\ Offered(s, item, world, 1) = Cut(Offered(s, item, world, limit), 1)
         /\ Offered(s, item, world, limit) = <<>> <=> ~Holds(s, item, world)
<1> DEFINE held == world.posters[s]
<1>1. held \in Seq(P)
  BY DEF SourceNames
<1>2. Cut(<<>>, 1) = <<>>
  BY CutNothing
<1>3. \A source : /\ Top(source, held, 1) = Cut(Top(source, held, limit), 1)
                  /\ Top(source, held, limit) = <<>> <=> held = <<>>
  BY <1>1, TopLemma
<1>4. Cut(held, 1) = Cut(Cut(held, 1), 1) /\ (Cut(held, 1) = <<>> <=> held = <<>>)
  BY <1>1, CutLemma
<1>5. CASE s = "tmdb"
  <2>1. \A l : Offered(s, item, world, l) = IF TmdbId(item, world) THEN Top("tmdb", held, l) ELSE <<>>
    BY <1>5 DEF Offered, TmdbTopPosters
  <2> HIDE DEF held
  <2>2. Holds(s, item, world) <=> held # <<>> /\ TmdbId(item, world)
    BY <1>5 DEF Holds, held
  <2>3. QED
    BY <1>2, <1>3, <2>1, <2>2
<1>6. CASE s = "fanart"
  <2>1. \A l : Offered(s, item, world, l) = IF FanartId(item) THEN Top("fanart", held, l) ELSE <<>>
    BY <1>6 DEF Offered, FanartTopPosters
  <2> HIDE DEF held
  <2>2. Holds(s, item, world) <=> held # <<>> /\ FanartId(item)
    BY <1>6 DEF Holds, held
  <2>3. QED
    BY <1>2, <1>3, <2>1, <2>2
<1>7. CASE s = "tvdb"
  <2>1. \A l : Offered(s, item, world, l) = IF item.tvdb = "number" /\ world.token THEN Top("tvdb", held, l) ELSE <<>>
    BY <1>7 DEF Offered, TvdbTopPosters
  <2> HIDE DEF held
  <2>2. Holds(s, item, world) <=> held # <<>> /\ (item.tvdb = "number" /\ world.token)
    BY <1>7 DEF Holds, held
  <2>3. QED
    BY <1>2, <1>3, <2>1, <2>2
<1>8. CASE s = "omdb"
  <2>1. \A l : Offered(s, item, world, l) = IF item.imdb THEN Cut(held, 1) ELSE <<>>
    BY <1>8 DEF Offered, OmdbTopPosters
  <2> HIDE DEF held
  <2>2. Holds(s, item, world) <=> held # <<>> /\ item.imdb
    BY <1>8 DEF Holds, held
  <2>3. QED
    BY <1>2, <1>4, <2>1, <2>2
<1>9. CASE s = "tvmaze"
  <2>1. \A l : Offered(s, item, world, l) = IF item.type = "show" /\ item.imdb THEN Cut(held, 1) ELSE <<>>
    BY <1>9 DEF Offered, TvmazeTopPosters
  <2> HIDE DEF held
  <2>2. Holds(s, item, world) <=> held # <<>> /\ (item.type = "show" /\ item.imdb)
    BY <1>9 DEF Holds, held
  <2>3. QED
    BY <1>2, <1>4, <2>1, <2>2
<1>10. QED
  BY <1>5, <1>6, <1>7, <1>8, <1>9 DEF SourceNames

\* The places, in the order, of the sources that are configured and hold a poster.
Offers(item, keys, primary, world) ==
  {n \in 1..5 : Configured(Order(primary)[n], keys) /\ Holds(Order(primary)[n], item, world)}

\* The source that is used is the first of these, however many posters are asked for.
LEMMA Resolved ==
  ASSUME NEW P, NEW item, NEW keys, NEW primary \in SourceNames, NEW world,
         world.posters \in [SourceNames -> Seq(P)], NEW limit \in Nat \ {0}
  PROVE  LET offers == Offers(item, keys, primary, world)
             source == Order(primary)[First(offers)]
         IN /\ First(offers) \in 1..5 \/ offers = {}
            /\ ResolvePosterCandidates(item, keys, primary, world, limit) =
              IF offers = {} THEN [source |-> "none", candidates |-> <<>>]
              ELSE [source |-> source, candidates |-> Offered(source, item, world, limit)]
<1> DEFINE order == Order(primary)
           mine == {n \in DOMAIN order : /\ Configured(order[n], keys)
                                         /\ Offered(order[n], item, world, limit) # <<>>}
           offers == Offers(item, keys, primary, world)
<1>1. DOMAIN order = 1..5 /\ \A n \in 1..5 : order[n] \in SourceNames
  BY OrderLemma
<1>a. \A s \in SourceNames : Offered(s, item, world, limit) # <<>> <=> Holds(s, item, world)
  BY OfferedLemma
<1>2. mine = offers
  BY <1>1, <1>a DEF Offers
<1>3. ResolvePosterCandidates(item, keys, primary, world, limit) =
        IF mine = {} THEN [source |-> "none", candidates |-> <<>>]
        ELSE [source |-> order[First(mine)], candidates |-> Offered(order[First(mine)], item, world, limit)]
  BY DEF ResolvePosterCandidates
<1> HIDE DEF mine
<1>4. offers \in SUBSET Nat /\ offers \subseteq 1..5
  BY DEF Offers
<1> HIDE DEF offers
<1>5. First(offers) \in 1..5 \/ offers = {}
  BY <1>4, FirstIndex
<1>6. QED
  BY <1>2, <1>3, <1>5 DEF offers

\* What the automatic sync applies is the first that a review shows, from the same source.
THEOREM AutoPicksFirst ==
  ASSUME NEW P, NEW item, NEW keys, NEW primary \in SourceNames, NEW world,
         world.posters \in [SourceNames -> Seq(P)], NEW limit \in Nat \ {0}
  PROVE  LET auto == ResolvePosterCandidates(item, keys, primary, world, 1)
             review == ResolvePosterCandidates(item, keys, primary, world, limit)
         IN auto.source = review.source /\ auto.candidates = Cut(review.candidates, 1)
<1> DEFINE offers == Offers(item, keys, primary, world)
           source == Order(primary)[First(offers)]
<1>1. /\ First(offers) \in 1..5 \/ offers = {}
      /\ ResolvePosterCandidates(item, keys, primary, world, limit) =
              IF offers = {} THEN [source |-> "none", candidates |-> <<>>]
              ELSE [source |-> source, candidates |-> Offered(source, item, world, limit)]
  BY Resolved
<1>2. ResolvePosterCandidates(item, keys, primary, world, 1) =
              IF offers = {} THEN [source |-> "none", candidates |-> <<>>]
              ELSE [source |-> source, candidates |-> Offered(source, item, world, 1)]
  <2>1. 1 \in Nat \ {0}
    OBVIOUS
  <2>2. QED
    BY <2>1, Resolved
<1> HIDE DEF offers
<1>3. Cut(<<>>, 1) = <<>>
  BY CutNothing
<1>4. ASSUME offers # {} PROVE Offered(source, item, world, 1) = Cut(Offered(source, item, world, limit), 1)
  <2>1. source \in SourceNames
    BY <1>1, <1>4, OrderLemma
  <2>2. QED
    BY <2>1, OfferedLemma
<1>5. QED
  BY <1>1, <1>2, <1>3, <1>4

\* The catalogues of the samples hold posters.
LEMMA WorldsTyped ==
  /\ \A world \in Worlds : world.posters \in [SourceNames -> Seq({Fair, Liked, Loved})]
  /\ \A t \in Lists : t \in Seq({Fair, Liked, Loved})
<1> DEFINE A == {Fair, Liked, Loved}
<1>0. Fair \in A /\ Liked \in A /\ Loved \in A
  OBVIOUS
<1> HIDE DEF A
<1>a. \A p, q, r \in A : <<>> \in Seq(A) /\ <<p>> \in Seq(A) /\ <<p, q>> \in Seq(A) /\ <<p, q, r>> \in Seq(A)
  OBVIOUS
<1>1. \A t \in Lists : t \in Seq(A)
  <2>1. \A t \in Lists : t = <<>> \/ t = <<Fair, Liked>> \/ t = <<Liked, Loved, Fair>>
    BY DEF Lists
  <2>2. QED
    BY <1>0, <1>a, <2>1
<1>2. \A t \in Singles : t \in Seq(A)
  <2>1. \A t \in Singles : t = <<>> \/ t = <<Fair>>
    BY DEF Singles
  <2>2. QED
    BY <1>0, <1>a, <2>1
<1>3. \A h \in Holdings : h \in [SourceNames -> Seq(A)]
  BY <1>1, <1>2 DEF Holdings, SourceNames
<1>4. \A world \in Worlds : world.posters \in Holdings
  BY DEF Worlds
<1>5. QED
  BY <1>1, <1>3, <1>4 DEF A

\* What the sampled property says.
LEMMA AutoPicksFirstSampled == AutoPicksFirstCandidate
<1> SUFFICES ASSUME NEW item \in Movie \cup Show, NEW keys \in KeySets, NEW world \in Worlds,
                    NEW primary \in {s \in {"tmdb", "fanart", "tvdb", "omdb", "tvmaze"} :
                      RequireSourceConfigured(s, keys)}
             PROVE  LET auto == ResolvePosterCandidates(item, keys, primary, world, 1)
                        review == ResolvePosterCandidates(item, keys, primary, world, 3)
                    IN auto.source = review.source /\ auto.candidates = Cut(review.candidates, 1)
  BY Zenon DEF AutoPicksFirstCandidate, Sample
<1>1. primary \in SourceNames /\ 3 \in Nat \ {0}
  BY DEF SourceNames
<1>2. QED
  BY <1>1, WorldsTyped, AutoPicksFirst

\* Of the configured sources that hold a poster, the first in the order is used.
NonePassedOver(item, keys, primary, world, limit) ==
  LET holding == {s \in SourceNames : Configured(s, keys) /\ Holds(s, item, world)}
      used == ResolvePosterCandidates(item, keys, primary, world, limit).source
      position == [s \in holding |-> CHOOSE n \in 1..5 : Order(primary)[n] = s]
  IN IF holding = {} THEN used = "none"
     ELSE used \in holding /\ \A s \in holding : position[used] <= position[s]

\* A miss means that no configured source holds a poster, and no source is passed over.
THEOREM MissMeansNone ==
  ASSUME NEW P, NEW item, NEW keys, NEW primary \in SourceNames, NEW world,
         world.posters \in [SourceNames -> Seq(P)], NEW limit \in Nat \ {0}
  PROVE  NonePassedOver(item, keys, primary, world, limit)
<1> DEFINE offers == Offers(item, keys, primary, world)
           order == Order(primary)
           holding == {s \in SourceNames : Configured(s, keys) /\ Holds(s, item, world)}
           used == ResolvePosterCandidates(item, keys, primary, world, limit).source
           position == [s \in holding |-> CHOOSE n \in 1..5 : order[n] = s]
<1>1. used = IF offers = {} THEN "none" ELSE order[First(offers)]
  BY Resolved
<1>2. offers \in SUBSET Nat
  BY DEF Offers
<1>3. \A n \in 1..5 : n \in offers <=> order[n] \in holding
  BY OrderLemma DEF Offers
<1>4. \A s \in holding : position[s] \in 1..5 /\ order[position[s]] = s /\ position[s] \in offers
  <2> SUFFICES ASSUME NEW s \in holding PROVE position[s] \in 1..5 /\ order[position[s]] = s
    BY <1>3
  <2>1. \E n \in 1..5 : order[n] = s
    BY OrderLemma
  <2>2. QED
    BY <2>1
<1>5. offers \subseteq 1..5
  BY DEF Offers
<1> HIDE DEF offers, holding, used, position
<1>6. ASSUME offers # {}
      PROVE  used \in holding /\ position[used] = First(offers) /\ First(offers) \in 1..5
  <2>1. First(offers) \in offers /\ used = order[First(offers)]
    BY <1>1, <1>2, <1>6, FirstIndex
  <2>2. used \in holding
    BY <1>3, <1>5, <2>1
  <2>3. position[used] \in 1..5 /\ First(offers) \in 1..5 /\ order[position[used]] = order[First(offers)]
    BY <1>4, <1>5, <2>1, <2>2
  <2>4. position[used] = First(offers)
    BY <2>3, OrderLemma
  <2>5. QED
    BY <2>2, <2>3, <2>4
<1>7. \A s \in holding : First(offers) <= position[s]
  BY <1>2, <1>4, FirstIndex
<1>8. holding = {} <=> offers = {}
  BY <1>3, <1>4, <1>5
<1>9. IF holding = {} THEN used = "none"
      ELSE used \in holding /\ \A s \in holding : position[used] <= position[s]
  BY <1>1, <1>6, <1>7, <1>8
<1>10. QED
  BY <1>9, Zenon DEF NonePassedOver, holding, used, position

\* What the sampled property says.
LEMMA MissMeansNoneSampled == MissMeansNoneHoldsOne
<1> SUFFICES ASSUME NEW item \in Movie \cup Show, NEW keys \in KeySets, NEW world \in Worlds,
                    NEW primary \in {s \in {"tmdb", "fanart", "tvdb", "omdb", "tvmaze"} :
                      RequireSourceConfigured(s, keys)}
             PROVE
    LET known == {s \in {"omdb"} : item.imdb}
                   \cup {s \in {"tvmaze"} : item.imdb /\ item.type = "show"}
                   \cup {s \in {"tvdb"} : item.tvdb = "number" /\ world.token}
                   \cup {s \in {"fanart"} : item.type = "movie" /\ item.tmdb = "number"}
                   \cup {s \in {"fanart"} : item.type = "show" /\ item.tvdb = "number"}
                   \cup {s \in {"tmdb"} : TmdbId(item, world)}
        holding == {s \in known : Configured(s, keys) /\ world.posters[s] # <<>>}
        used == ResolvePosterCandidates(item, keys, primary, world, 1).source
        position == [s \in holding |-> CHOOSE n \in 1..5 : Order(primary)[n] = s]
    IN IF holding = {} THEN used = "none"
       ELSE used \in holding /\ \A s \in holding : position[used] <= position[s]
  BY Zenon DEF MissMeansNoneHoldsOne, Sample
<1> DEFINE known == {s \in {"omdb"} : item.imdb}
                   \cup {s \in {"tvmaze"} : item.imdb /\ item.type = "show"}
                   \cup {s \in {"tvdb"} : item.tvdb = "number" /\ world.token}
                   \cup {s \in {"fanart"} : item.type = "movie" /\ item.tmdb = "number"}
                   \cup {s \in {"fanart"} : item.type = "show" /\ item.tvdb = "number"}
                   \cup {s \in {"tmdb"} : TmdbId(item, world)}
           mine == {s \in known : Configured(s, keys) /\ world.posters[s] # <<>>}
           holding == {s \in SourceNames : Configured(s, keys) /\ Holds(s, item, world)}
           used == ResolvePosterCandidates(item, keys, primary, world, 1).source
<1>1. primary \in SourceNames /\ 1 \in Nat \ {0} /\ world.posters \in [SourceNames -> Seq({Fair, Liked, Loved})]
  BY WorldsTyped DEF SourceNames
<1>2. item.type = "movie" \/ item.type = "show"
  BY DEF Movie, Show
<1>3. \A s : s \in mine <=> s \in holding
  <2> TAKE s
  <2>1. s \in known <=> \/ s = "omdb" /\ item.imdb
                        \/ s = "tvmaze" /\ item.imdb /\ item.type = "show"
                        \/ s = "tvdb" /\ item.tvdb = "number" /\ world.token
                        \/ s = "fanart" /\ FanartId(item)
                        \/ s = "tmdb" /\ TmdbId(item, world)
    BY <1>2 DEF FanartId
  <2> HIDE DEF known
  <2>2. s \in known <=> /\ s \in SourceNames
                        /\ CASE s = "tmdb" -> TmdbId(item, world)
                             [] s = "fanart" -> FanartId(item)
                             [] s = "tvdb" -> item.tvdb = "number" /\ world.token
                             [] s = "omdb" -> item.imdb
                             [] s = "tvmaze" -> item.type = "show" /\ item.imdb
    BY <2>1 DEF SourceNames
  <2>3. QED
    BY <2>2 DEF Holds
<1> HIDE DEF known
<1>4. mine = holding
  BY <1>3
<1> DEFINE position == [s \in holding |-> CHOOSE n \in 1..5 : Order(primary)[n] = s]
<1>5. IF holding = {} THEN used = "none"
      ELSE used \in holding /\ \A s \in holding : position[used] <= position[s]
  <2>1. NonePassedOver(item, keys, primary, world, 1)
    BY <1>1, MissMeansNone
  <2>2. QED
    BY <2>1, Zenon DEF NonePassedOver
<1>6. QED
  BY <1>4, <1>5, Zenon DEF known

\* Posters as TMDb rates them.
Rated(P) == \A p \in P : p.rate \in Nat /\ p.votes \in Nat

\* Ranking is by rating, then votes, then place: a strict order.
LEMMA AheadOrder ==
  ASSUME NEW P, Rated(P), NEW posters \in Seq(P)
  PROVE  /\ \A i \in DOMAIN posters : ~Ahead("tmdb", posters, i, i)
         /\ \A i, j, k \in DOMAIN posters :
              Ahead("tmdb", posters, i, j) /\ Ahead("tmdb", posters, j, k) => Ahead("tmdb", posters, i, k)
<1> DEFINE r == [i \in DOMAIN posters |-> posters[i].rate]
           v == [i \in DOMAIN posters |-> posters[i].votes]
           A(i, j) == Ahead("tmdb", posters, i, j)
<1>1. \A i \in DOMAIN posters : i \in Nat /\ r[i] \in Nat /\ v[i] \in Nat
                              /\ Merit("tmdb", posters[i]) = <<r[i], v[i]>>
  <2> TAKE i \in DOMAIN posters
  <2>1. i \in Nat /\ posters[i] \in P
    OBVIOUS
  <2>2. r[i] = posters[i].rate /\ v[i] = posters[i].votes
    OBVIOUS
  <2>3. r[i] \in Nat /\ v[i] \in Nat
    BY <2>1, <2>2 DEF Rated
  <2> HIDE DEF r, v
  <2>4. Merit("tmdb", posters[i]) = <<r[i], v[i]>>
    BY <2>2 DEF Merit
  <2>5. QED
    BY <2>1, <2>3, <2>4
<1> HIDE DEF r, v
<1>2. \A i, j \in DOMAIN posters :
        A(i, j) <=> \/ r[i] > r[j]
                    \/ r[i] = r[j] /\ v[i] > v[j]
                    \/ r[i] = r[j] /\ v[i] = v[j] /\ i < j
  <2> TAKE i, j \in DOMAIN posters
  <2> DEFINE m == Merit("tmdb", posters[i])
             n == Merit("tmdb", posters[j])
  <2>1. m[1] = r[i] /\ m[2] = v[i] /\ n[1] = r[j] /\ n[2] = v[j]
    BY <1>1
  <2>2. m = n <=> r[i] = r[j] /\ v[i] = v[j]
    BY <1>1
  <2>3. A(i, j) <=> Better(m, n) \/ (m = n /\ i < j)
    BY DEF Ahead
  <2> HIDE DEF m, n, A
  <2>4. QED
    BY <1>1, <2>1, <2>2, <2>3 DEF Better
<1> HIDE DEF A
<1>3. \A i \in DOMAIN posters : ~A(i, i)
  BY <1>1, <1>2
<1>4. \A i, j, k \in DOMAIN posters : A(i, j) /\ A(j, k) => A(i, k)
  <2> TAKE i, j, k \in DOMAIN posters
  <2>1. /\ r[i] \in Nat /\ r[j] \in Nat /\ r[k] \in Nat /\ v[i] \in Nat /\ v[j] \in Nat /\ v[k] \in Nat
        /\ i \in Nat /\ j \in Nat /\ k \in Nat
    BY <1>1
  <2>2. QED
    BY <1>2, <2>1
<1>5. QED
  BY <1>3, <1>4 DEF A

\* Among some posters there is one that no other goes ahead of.
LEMMA Topmost ==
  ASSUME NEW P, Rated(P), NEW posters \in Seq(P), posters # <<>>
  PROVE  \E j \in DOMAIN posters : \A i \in DOMAIN posters : ~Ahead("tmdb", posters, i, j)
<1> DEFINE D == DOMAIN posters
           A(i, j) == Ahead("tmdb", posters, i, j)
           Topless(Y) == Y # {} /\ \A j \in Y : \E i \in Y : A(i, j)
           T == {n \in Nat : \E Y \in SUBSET D : Cardinality(Y) = n /\ Topless(Y)}
<1>1. IsFiniteSet(D) /\ D # {}
  <2>1. D = 1..Len(posters) /\ Len(posters) \in Nat
    OBVIOUS
  <2>2. IsFiniteSet(1..Len(posters))
    BY <2>1, FS_Interval
  <2>3. 1 \in 1..Len(posters)
    BY <2>1, EmptySeq
  <2> HIDE DEF D
  <2>4. QED
    BY <2>1, <2>2, <2>3
<1>2. /\ \A i \in D : ~A(i, i)
      /\ \A i, j, k \in D : A(i, j) /\ A(j, k) => A(i, k)
  BY AheadOrder
<1> HIDE DEF A, D
<1>3. ASSUME T # {} PROVE FALSE
  <2>1. PICK n \in T : \A k \in T : n <= k
    <3>1. T \in SUBSET Nat
      OBVIOUS
    <3> HIDE DEF T
    <3>2. QED
      BY <1>3, <3>1, LeastIndex
  <2>2. PICK Y \in SUBSET D : Cardinality(Y) = n /\ Topless(Y)
    OBVIOUS
  <2>3. PICK y \in Y : TRUE
    BY <2>2
  <2> DEFINE Z == Y \ {y}
  <2>4. n \in Nat /\ IsFiniteSet(Y) /\ Cardinality(Z) = n - 1 /\ n - 1 \in Nat
    <3>1. IsFiniteSet(Y)
      BY <1>1, FS_Subset
    <3>2. Cardinality(Y) \in Nat /\ Cardinality(Y) # 0
      BY <2>2, <3>1, FS_CardinalityType, FS_EmptySet
    <3>3. Cardinality(Z) = Cardinality(Y) - 1
      BY <2>3, <3>1, FS_RemoveElement
    <3>4. QED
      BY <2>2, <3>1, <3>2, <3>3
  <2>5. ~Topless(Z)
    <3>1. Topless(Z) => n - 1 \in T
      BY <2>4
    <3> HIDE DEF Topless, T
    <3>2. QED
      BY <2>1, <2>4, <3>1
  <2>6. Z # {}
    BY <1>2, <2>2, <2>3
  <2>7. PICK j \in Z : \A i \in Z : ~A(i, j)
    BY <2>5, <2>6
  <2>8. CASE A(y, j)
    <3>1. \A i \in Y : ~A(i, y)
      BY <1>2, <2>3, <2>7, <2>8
    <3>2. QED
      BY <2>2, <2>3, <3>1
  <2>9. CASE ~A(y, j)
    BY <2>2, <2>7, <2>9
  <2>10. QED
    BY <2>8, <2>9
<1>4. ~Topless(D)
  <2>1. Cardinality(D) \in Nat
    BY <1>1, FS_CardinalityType
  <2>2. QED
    BY <1>3, <2>1
<1>5. QED
  BY <1>1, <1>4 DEF A, D

\* The poster that the scan compares is one that TMDb rates best.
THEOREM FirstIsBest ==
  ASSUME NEW P, Rated(P), NEW posters \in Seq(P), posters # <<>>
  PROVE  \E n \in DOMAIN posters :
           /\ Ranked("tmdb", posters)[1] = posters[n]
           /\ \A k \in DOMAIN posters : ~Better(Merit("tmdb", posters[k]), Merit("tmdb", posters[n]))
<1> DEFINE before(j) == {i \in DOMAIN posters : Ahead("tmdb", posters, i, j)}
           n == CHOOSE j \in DOMAIN posters : Place("tmdb", posters, j) = 1
<1>1. DOMAIN posters = 1..Len(posters) /\ Len(posters) \in Nat
  OBVIOUS
<1>2. \A j : IsFiniteSet(before(j))
  <2> TAKE j
  <2>1. IsFiniteSet(DOMAIN posters)
    BY <1>1, FS_Interval
  <2>2. before(j) \subseteq DOMAIN posters
    OBVIOUS
  <2> HIDE DEF before
  <2>3. QED
    BY <2>1, <2>2, FS_Subset
<1>3. \A j : Place("tmdb", posters, j) = 1 + Cardinality(before(j))
  BY DEF Place
<1>4. \A j : Place("tmdb", posters, j) = 1 <=> before(j) = {}
  <2> HIDE DEF before
  <2> TAKE j
  <2>1. Cardinality(before(j)) \in Nat
    BY <1>2, FS_CardinalityType
  <2>2. Cardinality(before(j)) = 0 <=> before(j) = {}
    BY <1>2, FS_EmptySet
  <2>3. QED
    BY <1>3, <2>1, <2>2
<1>5. \E j \in DOMAIN posters : Place("tmdb", posters, j) = 1
  BY <1>4, Topmost
<1>6. n \in DOMAIN posters /\ Place("tmdb", posters, n) = 1
  BY <1>5
<1> HIDE DEF n
<1>7. \A k \in DOMAIN posters : ~Ahead("tmdb", posters, k, n)
  BY <1>4, <1>6
<1>8. Ranked("tmdb", posters)[1] = posters[n]
  <2>1. 1 \in DOMAIN posters
    BY <1>1, <1>6
  <2>2. QED
    BY <2>1 DEF Ranked, n
<1>9. QED
  BY <1>6, <1>7, <1>8 DEF Ahead

\* What the sampled property says: the audio's language is told from the poster's.
LEMMA NoFalseMismatchSampled == NoFalseMismatch
<1> SUFFICES ASSUME NEW item \in Movie \cup Show, NEW keys \in KeySets, NEW world \in TmdbWorlds,
                    NEW tag \in {"none", "en", "sw"}, NEW code \in {"none", "eng", "swa"}, NEW small \in BOOLEAN,
                    "language_mismatch" \in ScanItemQuality(item, keys, world, [tag |-> tag, code |-> code],
                         [small |-> small, grey |-> TRUE, decodes |-> TRUE, narrow |-> FALSE])
             PROVE  LET spoken == IF tag # "none" THEN tag
                          ELSE CASE code = "eng" -> "en" [] code = "swa" -> "sw" [] OTHER -> "none"
                        best == {n \in DOMAIN world.posters["tmdb"] :
                           \A k \in DOMAIN world.posters["tmdb"] :
                             ~Better(Merit("tmdb", world.posters["tmdb"][k]),
                                     Merit("tmdb", world.posters["tmdb"][n]))}
                    IN spoken # "none" /\ \E n \in best : world.posters["tmdb"][n].lang \notin {"none", spoken}
  BY Zenon DEF NoFalseMismatch
<1> DEFINE audio == [tag |-> tag, code |-> code]
           posters == world.posters["tmdb"]
           spoken == IF tag # "none" THEN tag
                     ELSE CASE code = "eng" -> "en" [] code = "swa" -> "sw" [] OTHER -> "none"
           lang == Ranked("tmdb", posters)[1].lang
<1>1. /\ PrimaryAudioLang(audio) # "none" /\ posters # <<>>
      /\ lang # "none" /\ lang # PrimaryAudioLang(audio)
  BY DEF ScanItemQuality, LanguageMismatch
<1>2. spoken = PrimaryAudioLang(audio)
  BY <1>1 DEF PrimaryAudioLang, TwoLetter
<1> DEFINE P == {Fair, Liked, Loved}
<1>3. posters \in Seq(P) /\ Rated(P)
  <2>1. world \in Worlds
    BY DEF TmdbWorlds
  <2>2. posters \in Seq(P)
    BY <2>1, WorldsTyped DEF SourceNames
  <2>3. Rated(P)
    BY DEF Fair, Liked, Loved, Poster, Rated
  <2>4. QED
    BY <2>2, <2>3
<1> HIDE DEF P
<1> HIDE DEF posters, audio, spoken
<1>4. PICK n \in DOMAIN posters :
        /\ Ranked("tmdb", posters)[1] = posters[n]
        /\ \A k \in DOMAIN posters : ~Better(Merit("tmdb", posters[k]), Merit("tmdb", posters[n]))
  BY <1>1, <1>3, FirstIsBest
<1>5. spoken # "none" /\ posters[n].lang \notin {"none", spoken}
  BY <1>1, <1>2, <1>4
<1>6. QED
  BY <1>4, <1>5 DEF posters, spoken

\* Whatever the jobs do, the posters they choose and what the scan flags are right.
THEOREM PostersChosen == Spec => []PostersWellChosen
<1>1. TypeOK => PostersWellChosen
  BY AutoPicksFirstSampled, MissMeansNoneSampled, NoFalseMismatchSampled DEF PostersWellChosen
<1>2. QED
  BY <1>1, TypeCorrect, PTL

=============================================================================
