-------------------------- MODULE CacheWarmerProofs --------------------------
(***************************************************************************)
(* Theorems about CacheWarmer.tla: runs do not overlap, the status tells   *)
(* the truth, the last result is kept, a result accounts for the entries   *)
(* of its inventory and the progress never leads, for any triggers,        *)
(* bodies, inventories and number of languages.                            *)
(***************************************************************************)
EXTENDS CacheWarmer, FiniteSetTheorems, TLAPS

\* A call knows what it asked for until it is answered.
SourceKnown == \A t \in Triggers : pc[t] \notin {"idle", "over"} => source[t] \in Sources

\* Whoever is inside holds the gate.
GateHeld == \A t \in Triggers : Inside(t) => gate = t

\* Between the published start and the published end of a run.
Published(t) == pc[t] \in {"parts", "looping", "landing", "failed", "canceled"}

StatusFollowsRun == status.running <=> \E t \in Triggers : Published(t)

\* Bodies work only in the loop, and begin a language only while one is left.
BodiesInLoop ==
  \A t \in Triggers, w \in Workers :
    /\ worker[t][w].stage # "idle" => pc[t] = "looping"
    /\ worker[t][w].stage # "writing" => worker[t][w].warmed < Languages

\* What a body is about to write, it has warmed one item more than it read.
WritersBehind ==
  \A t \in Triggers, w \in Workers :
    worker[t][w].stage = "writing" => worker[t][w].saw < run[t].items

\* The bodies at work, and the languages they have still to warm of their entries.
Taken(t) == {w \in Workers : worker[t][w].stage # "idle"}
Owing(t) == {d \in Workers \X (1..Languages) :
               worker[t][d[1]].stage # "idle" /\ worker[t][d[1]].warmed < d[2]}

BodiesClean ==
  \A t \in Triggers, w \in Workers : worker[t][w].stage = "idle" => worker[t][w].warmed = 0

Bad(t) == run[t].missing + run[t].errors

\* Of n entries: some are left, some bad, some taken, and every other one was warmed in
\* every language.  A bad entry was not, and what a canceled body gave up is nowhere.
Balanced(n, left, bad, items, taken, owing, aborted) ==
  /\ bad + left + taken <= n
  /\ items + bad + Languages * left + owing <= Languages * n
  /\ ~aborted => items + Languages * bad + Languages * left + owing >= Languages * n

\* What EntriesAccounted says of a result.
Complete(n, bad, items) ==
  /\ bad <= n /\ items + bad <= Languages * n /\ items >= Languages * (n - bad)

Fresh(t) ==
  /\ run[t].parts = <<source[t]>> /\ ~run[t].aborted
  /\ run[t].items = 0 /\ run[t].missing = 0 /\ run[t].errors = 0

\* A run over one inventory accounts for its entries at every step.
RunAccounted(t) ==
  source[t] # "all" =>
    /\ pc[t] = "parts" => run[t].parts = <<>> \/ Fresh(t)
    /\ pc[t] = "landing" \/ (pc[t] = "parts" /\ run[t].parts = <<>>)
         => (source[t] \in Configured => Complete(Count[source[t]], Bad(t), run[t].items))
    /\ pc[t] = "looping" =>
         /\ source[t] \in Configured /\ run[t].parts = <<>>
         /\ Balanced(Count[source[t]], run[t].left, Bad(t), run[t].items,
                     Cardinality(Taken(t)), Cardinality(Owing(t)), run[t].aborted)

\* The total is the inventory's while a run walks it.
TotalStands ==
  \A t \in Triggers :
    pc[t] = "looping" /\ source[t] # "all" => progress.total = Count[source[t]] * Languages

Accounted ==
  /\ BodiesClean /\ TotalStands /\ EntriesAccounted
  /\ \A t \in Triggers : RunAccounted(t)

IInv ==
  /\ TypeOK
  /\ SourceKnown
  /\ GateHeld
  /\ StatusFollowsRun
  /\ BodiesInLoop
  /\ WritersBehind
  /\ ProgressNeverLeads
  /\ Accounted

-----------------------------------------------------------------------------
\* Types of the records that a step writes (the locals of CacheWarmer.cs:485-520).

\* The locals of a trigger without a run.
LEMMA NoRunTyped == NoRun \in Run
  <1>1. <<>> \in Seq(Sources)
    OBVIOUS
  <1> QED BY <1>1 DEF NoRun, Run

\* A body without an entry.
LEMMA IdleTyped == IdleWorker \in Body
  BY WarmAssumption DEF IdleWorker, Body

\* Counting an item, a missing entry, an error, an entry taken or a cancellation.
LEMMA RunFields ==
  ASSUME NEW r \in Run, NEW n \in Nat
  PROVE /\ [r EXCEPT !.left = n] \in Run
        /\ [r EXCEPT !.items = n] \in Run
        /\ [r EXCEPT !.missing = n] \in Run
        /\ [r EXCEPT !.errors = n] \in Run
        /\ [r EXCEPT !.aborted = TRUE] \in Run
  BY DEF Run

\* A run starts with the parts of its source.
LEMMA PartsTyped ==
  ASSUME NEW s \in Sources
  PROVE [NoRun EXCEPT !.parts = PartsOf(s)] \in Run
  <1>1. CASE s = "all"
    <2>1. PartsOf(s) = <<"movies", "shows">>
      BY <1>1 DEF PartsOf
    <2>2. <<"movies", "shows">> \in Seq(Sources)
      BY DEF Sources
    <2> QED BY <2>1, <2>2, NoRunTyped DEF Run
  <1>2. CASE s = "single"
    <2>1. PartsOf(s) = <<>>
      BY <1>2 DEF PartsOf
    <2>2. <<>> \in Seq(Sources)
      OBVIOUS
    <2> QED BY <2>1, <2>2, NoRunTyped DEF Run
  <1>3. CASE s \notin {"all", "single"}
    <2>1. PartsOf(s) = <<s>>
      BY <1>3 DEF PartsOf
    <2>2. <<s>> \in Seq(Sources)
      OBVIOUS
    <2> QED BY <2>1, <2>2, NoRunTyped DEF Run
  <1> QED BY <1>1, <1>2, <1>3

\* The next part is fetched or skipped.
LEMMA NextPart ==
  ASSUME NEW r \in Run, r.parts # <<>>
  PROVE /\ \A b \in BOOLEAN : [r EXCEPT !.parts = Tail(r.parts), !.skipped = b] \in Run
        /\ \A p \in Parts, n \in Nat :
             [r EXCEPT !.part = p, !.left = n, !.parts = Tail(r.parts)] \in Run
  <1>1. r.parts \in Seq(Sources)
    BY DEF Run
  <1>2. Tail(r.parts) \in Seq(Sources)
    BY <1>1
  <1> QED BY <1>2 DEF Run

\* A body takes an entry, or goes on with the next language.
LEMMA BodyFields ==
  ASSUME NEW b \in Body, NEW n \in Nat
  PROVE /\ [b EXCEPT !.stage = "warming"] \in Body
        /\ [b EXCEPT !.stage = "warming", !.saw = n] \in Body
  BY DEF Body

-----------------------------------------------------------------------------
\* The inductive invariant: one lemma for the initial states and one for each part.

\* It holds before the first call.
LEMMA InitIInv == Init => IInv
<1> SUFFICES ASSUME Init PROVE IInv
  OBVIOUS
<1>1. TypeOK
  BY NoRunTyped, IdleTyped DEF Init, TypeOK, Stages
<1>2. SourceKnown /\ GateHeld /\ StatusFollowsRun /\ ProgressNeverLeads
  BY DEF Init, SourceKnown, GateHeld, StatusFollowsRun, ProgressNeverLeads, Inside, Published
<1>3. BodiesInLoop /\ WritersBehind
  BY WarmAssumption DEF Init, BodiesInLoop, WritersBehind, IdleWorker
<1>4. BodiesClean /\ TotalStands
  BY DEF Init, BodiesClean, TotalStands, IdleWorker
<1>5. EntriesAccounted
  BY DEF Init, EntriesAccounted
<1>6. \A t \in Triggers : RunAccounted(t)
  BY DEF Init, RunAccounted
<1> QED BY <1>1, <1>2, <1>3, <1>4, <1>5, <1>6 DEF IInv, Accounted

\* Every step keeps the types.
LEMMA TypeStep == ASSUME TypeOK, SourceKnown, BodiesInLoop, [Next]_vars PROVE TypeOK'
<1>1. ASSUME NEW t \in Triggers, NEW s \in Sources, Call(t, s)
      PROVE TypeOK'
  BY <1>1 DEF Call, Goto, TypeOK, Stages
<1>2. ASSUME NEW t \in Triggers, Enter(t)
      PROVE TypeOK'
  BY <1>2 DEF Enter, Goto, TypeOK, Stages
<1>3. ASSUME NEW t \in Triggers, Refused(t)
      PROVE TypeOK'
  BY <1>3 DEF Refused, Goto, TypeOK, Stages
<1>4. ASSUME NEW t \in Triggers, Begin(t)
      PROVE TypeOK'
  <2>1. source[t] \in Sources
    BY <1>4 DEF Begin, SourceKnown
  <2>2. run' \in [Triggers -> Run]
    BY <1>4, <2>1, PartsTyped DEF Begin, TypeOK
  <2>3. progress' \in Progress
    BY <1>4 DEF Begin, Progress
  <2>4. status' \in [running : BOOLEAN, last : Result \cup {None}]
    BY <1>4 DEF Begin, TypeOK
  <2> QED BY <1>4, <2>2, <2>3, <2>4 DEF Begin, Goto, TypeOK, Stages
<1>5. ASSUME NEW t \in Triggers, WarmSingle(t)
      PROVE TypeOK'
  <2>1. pc' \in [Triggers -> Stages]
    BY <1>5 DEF WarmSingle, Goto, Throw, TypeOK, Stages
  <2>2. Languages \in Nat /\ run[t] \in Run
    BY WarmAssumption DEF TypeOK
  <2>3. run' \in [Triggers -> Run]
    <3>1. \/ run' = [run EXCEPT ![t] = [run[t] EXCEPT !.items = Languages]]
          \/ run' = [run EXCEPT ![t] = [run[t] EXCEPT !.missing = 1]]
          \/ run' = run
      BY <1>5 DEF WarmSingle
    <3>2. /\ [run[t] EXCEPT !.items = Languages] \in Run
          /\ [run[t] EXCEPT !.missing = 1] \in Run
      BY <2>2, RunFields
    <3> QED BY <3>1, <3>2 DEF TypeOK
  <2> QED BY <1>5, <2>1, <2>3 DEF WarmSingle, TypeOK
<1>6. ASSUME NEW t \in Triggers, SkipPart(t)
      PROVE TypeOK'
  <2>1. /\ run[t] \in Run
        /\ run[t].parts # <<>>
    BY <1>6 DEF SkipPart, TypeOK
  <2> DEFINE next == [run[t] EXCEPT !.parts = Tail(run[t].parts),
                                    !.skipped = source[t] # "all" \/ Configured = {}]
  <2>2. next \in Run
    BY <2>1, NextPart
  <2>3. run' \in [Triggers -> Run]
    BY <1>6, <2>2 DEF SkipPart, TypeOK
  <2> QED BY <1>6, <2>3 DEF SkipPart, TypeOK
<1>7. ASSUME NEW t \in Triggers, FetchInventory(t)
      PROVE TypeOK'
  <2> DEFINE part == Head(run[t].parts)
             n == Count[part]
  <2>1. run[t] \in Run /\ run[t].parts # <<>> /\ part \in Parts /\ n \in Nat /\ n * Languages \in Nat
    BY <1>7, WarmAssumption DEF FetchInventory, TypeOK
  <2>2. [run[t] EXCEPT !.part = part, !.left = n, !.parts = Tail(run[t].parts)] \in Run
    BY <2>1, NextPart
  <2>3. run' \in [Triggers -> Run]
    BY <1>7, <2>2 DEF FetchInventory, TypeOK
  <2>4. progress' \in Progress \cup {None}
    BY <1>7, <2>1 DEF FetchInventory, SetProgressTotal, TypeOK, Progress
  <2> QED BY <1>7, <2>3, <2>4 DEF FetchInventory, Goto, TypeOK, Stages
<1>8. ASSUME NEW t \in Triggers, NEW how \in {"failed", "canceled"}, InventoryFails(t, how)
      PROVE TypeOK'
  BY <1>8 DEF InventoryFails, Goto, Throw, TypeOK, Stages
<1>9. ASSUME NEW t \in Triggers, PartsDone(t)
      PROVE TypeOK'
  BY <1>9 DEF PartsDone, Goto, TypeOK, Stages
<1>10. ASSUME NEW t \in Triggers, LoopEnds(t)
      PROVE TypeOK'
  BY <1>10 DEF LoopEnds, Goto, TypeOK, Stages
<1>11. ASSUME NEW t \in Triggers, Land(t)
      PROVE TypeOK'
  <2>1. source[t] \in Sources
    BY <1>11 DEF Land, SourceKnown
  <2>2. ResultOf(t) \in Result
    BY <2>1 DEF ResultOf, Result, TypeOK, Run
  <2> QED BY <1>11, <2>2 DEF Land, Goto, TypeOK, Stages
<1>12. ASSUME NEW t \in Triggers, ClearProgress(t)
      PROVE TypeOK'
  BY <1>12 DEF ClearProgress, Goto, TypeOK, Stages
<1>13. ASSUME NEW t \in Triggers, Fail(t)
      PROVE TypeOK'
  <2>1. source[t] \in Sources
    BY <1>13 DEF Fail, SourceKnown
  <2>2. Failed(t) \in Result
    BY <2>1 DEF Failed, Result
  <2> QED BY <1>13, <2>2 DEF Fail, Goto, TypeOK, Stages
<1>14. ASSUME NEW t \in Triggers, Release(t)
      PROVE TypeOK'
  BY <1>14, NoRunTyped DEF Release, Goto, TypeOK, Stages
<1>15. ASSUME NEW t \in Triggers, NEW w \in Workers, Take(t, w)
      PROVE TypeOK'
  <2>1. run[t] \in Run /\ run[t].left - 1 \in Nat /\ worker[t][w] \in Body
    BY <1>15 DEF Take, TypeOK, Run
  <2>2. run' \in [Triggers -> Run]
    BY <1>15, <2>1, RunFields DEF Take, TypeOK
  <2>3. [worker[t][w] EXCEPT !.stage = "warming"] \in Body
    BY <2>1, BodyFields
  <2>4. worker' \in [Triggers -> [Workers -> Body]]
    BY <1>15, <2>3 DEF Take, TypeOK
  <2> QED BY <1>15, <2>2, <2>4 DEF Take, TypeOK
<1>16. ASSUME NEW t \in Triggers, NEW w \in Workers,
              \/ EntryMissing(t, w)
              \/ EntryFails(t, w)
              \/ EntryCanceled(t, w)
       PROVE TypeOK'
  <2>1. run[t] \in Run /\ run[t].missing + 1 \in Nat /\ run[t].errors + 1 \in Nat
    BY DEF TypeOK, Run
  <2>2. /\ [run[t] EXCEPT !.missing = run[t].missing + 1] \in Run
        /\ [run[t] EXCEPT !.errors = run[t].errors + 1] \in Run
        /\ [run[t] EXCEPT !.aborted = TRUE] \in Run
    BY <2>1, RunFields
  <2>3. run' \in [Triggers -> Run]
    BY <1>16, <2>2 DEF EntryMissing, EntryFails, EntryCanceled, TypeOK
  <2>4. EntryDone(t, w)
    BY <1>16 DEF EntryMissing, EntryFails, EntryCanceled
  <2>5. worker' \in [Triggers -> [Workers -> Body]]
    BY <2>4, IdleTyped DEF EntryDone, TypeOK
  <2> QED BY <1>16, <2>3, <2>5 DEF EntryMissing, EntryFails, EntryCanceled, TypeOK
<1>17. ASSUME NEW t \in Triggers, NEW w \in Workers, WarmLanguage(t, w)
      PROVE TypeOK'
  <2>1. run[t] \in Run /\ run[t].items + 1 \in Nat /\ worker[t][w] \in Body
    BY <1>17 DEF TypeOK, Run
  <2>2. run' \in [Triggers -> Run]
    BY <1>17, <2>1, RunFields DEF WarmLanguage, TypeOK
  <2>3. worker[t][w].warmed + 1 \in 0..Languages
    BY <1>17, <2>1, WarmAssumption DEF WarmLanguage, Busy, BodiesInLoop, Body
  <2>4. (IF Advances(t, w) /\ progress # None THEN progress.processed ELSE 0) \in Nat
    BY DEF TypeOK, Progress
  <2>5. [stage |-> IF Advances(t, w) THEN "writing" ELSE "warming",
         warmed |-> worker[t][w].warmed + 1,
         saw |-> IF Advances(t, w) /\ progress # None THEN progress.processed ELSE 0] \in Body
    BY <2>3, <2>4 DEF Body
  <2>6. worker' \in [Triggers -> [Workers -> Body]]
    BY <1>17, <2>5 DEF WarmLanguage, TypeOK
  <2> QED BY <1>17, <2>2, <2>6 DEF WarmLanguage, TypeOK
<1>18. ASSUME NEW t \in Triggers, NEW w \in Workers, WriteProgress(t, w)
      PROVE TypeOK'
  <2>1. worker[t][w] \in Body /\ worker[t][w].saw + 1 \in Nat
    BY <1>18 DEF TypeOK, Body
  <2>2. worker' \in [Triggers -> [Workers -> Body]]
    <3>1. CASE EntryDone(t, w)
      BY <3>1, IdleTyped DEF EntryDone, TypeOK
    <3>2. CASE worker' = [worker EXCEPT ![t][w].stage = "warming", ![t][w].saw = 0]
      <4>1. worker' = [worker EXCEPT ![t][w] = [worker[t][w] EXCEPT !.stage = "warming", !.saw = 0]]
        BY <3>2 DEF TypeOK
      <4> QED BY <4>1, <2>1, BodyFields DEF TypeOK
    <3> QED BY <1>18, <3>1, <3>2 DEF WriteProgress
  <2>3. progress' \in Progress \cup {None}
    BY <1>18, <2>1 DEF WriteProgress, TypeOK, Progress
  <2> QED BY <1>18, <2>2, <2>3 DEF WriteProgress, TypeOK
<1>19. CASE Stop
  BY <1>19 DEF Stop, TypeOK
<1>20. CASE UNCHANGED vars
  BY <1>20 DEF vars, TypeOK
<1> QED
  BY <1>1, <1>2, <1>3, <1>4, <1>5, <1>6, <1>7, <1>8, <1>9, <1>10, <1>11, <1>12, <1>13,
     <1>14, <1>15, <1>16, <1>17, <1>18, <1>19, <1>20 DEF Next, RunStep, WorkerStep

\* Every step keeps the source of a call that is not answered.
LEMMA SourceStep == ASSUME TypeOK, SourceKnown, [Next]_vars PROVE SourceKnown'
<1>1. ASSUME NEW t \in Triggers, NEW s \in Sources, Call(t, s)
      PROVE SourceKnown'
  BY <1>1 DEF Call, Goto, TypeOK, SourceKnown
<1>2. ASSUME NEW t \in Triggers, Refused(t) \/ Release(t)
      PROVE SourceKnown'
  BY <1>2 DEF Refused, Release, Goto, TypeOK, SourceKnown
<1>3. ASSUME NEW t \in Triggers, pc[t] \notin {"idle", "over"}, UNCHANGED source,
             NEW stage, Goto(t, stage)
      PROVE SourceKnown'
  BY <1>3 DEF Goto, TypeOK, SourceKnown
<1>4. ASSUME UNCHANGED <<pc, source>>
      PROVE SourceKnown'
  BY <1>4 DEF SourceKnown
<1>5. ASSUME NEW t \in Triggers, RunStep(t)
      PROVE SourceKnown'
  <2>1. CASE Enter(t) \/ Begin(t) \/ PartsDone(t) \/ FetchInventory(t) \/ Land(t) \/ ClearProgress(t)
    BY <2>1, <1>3 DEF Enter, Begin, PartsDone, FetchInventory, Land, ClearProgress
  <2>2. CASE Fail(t) \/ LoopEnds(t)
    BY <2>2, <1>3 DEF Fail, LoopEnds
  <2>3. CASE WarmSingle(t) \/ \E how \in {"failed", "canceled"} : InventoryFails(t, how)
    BY <2>3, <1>3 DEF WarmSingle, InventoryFails, Throw
  <2>4. CASE SkipPart(t) \/ \E w \in Workers : WorkerStep(t, w)
    BY <2>4, <1>4 DEF SkipPart, WorkerStep, Take, EntryMissing, EntryFails, EntryCanceled,
                      WarmLanguage, WriteProgress
  <2> QED BY <1>5, <1>2, <2>1, <2>2, <2>3, <2>4 DEF RunStep
<1>6. CASE Stop \/ UNCHANGED vars
  BY <1>6, <1>4 DEF Stop, vars
<1> QED BY <1>1, <1>5, <1>6 DEF Next

\* No step lets a body run outside the loop.
LEMMA BodiesStep == ASSUME TypeOK, BodiesInLoop, [Next]_vars PROVE BodiesInLoop'
<1>1. ASSUME NEW t \in Triggers, pc[t] # "looping", UNCHANGED worker,
             NEW stage, Goto(t, stage)
      PROVE BodiesInLoop'
  BY <1>1 DEF Goto, TypeOK, BodiesInLoop
<1>2. ASSUME UNCHANGED <<pc, worker>>
      PROVE BodiesInLoop'
  BY <1>2 DEF BodiesInLoop
<1>3. ASSUME NEW t \in Triggers, LoopEnds(t)
      PROVE BodiesInLoop'
  BY <1>3 DEF LoopEnds, Goto, TypeOK, BodiesInLoop
<1>4. ASSUME NEW t \in Triggers, NEW w \in Workers, pc[t] = "looping", UNCHANGED pc,
             NEW b, worker' = [worker EXCEPT ![t][w] = b],
             b.stage # "writing" => b.warmed < Languages
      PROVE BodiesInLoop'
  BY <1>4 DEF TypeOK, BodiesInLoop
<1>5. ASSUME NEW t \in Triggers, NEW w \in Workers, WorkerStep(t, w)
      PROVE BodiesInLoop'
  <2>1. pc[t] = "looping" /\ UNCHANGED pc /\ worker[t][w] \in Body
    BY <1>5 DEF WorkerStep, Take, EntryMissing, EntryFails, EntryCanceled, WarmLanguage,
                WriteProgress, Busy, TypeOK
  <2>2. CASE EntryDone(t, w)
    <3>1. IdleWorker.stage # "writing" => IdleWorker.warmed < Languages
      BY WarmAssumption DEF IdleWorker
    <3> QED BY <2>1, <2>2, <3>1, <1>4 DEF EntryDone
  <2>3. CASE Take(t, w)
    <3>1. worker' = [worker EXCEPT ![t][w] = [worker[t][w] EXCEPT !.stage = "warming"]]
      BY <2>3 DEF Take
    <3>2. worker[t][w].warmed < Languages
      BY <2>3 DEF Take, Busy, BodiesInLoop
    <3>3. [worker[t][w] EXCEPT !.stage = "warming"].warmed < Languages
      BY <3>2, <2>1 DEF Body
    <3> QED BY <2>1, <3>1, <3>3, <1>4
  <2>4. CASE WarmLanguage(t, w)
    <3> DEFINE b == [stage |-> IF Advances(t, w) THEN "writing" ELSE "warming",
          warmed |-> worker[t][w].warmed + 1,
          saw |-> IF Advances(t, w) /\ progress # None THEN progress.processed ELSE 0]
    <3>1. worker' = [worker EXCEPT ![t][w] = b]
      BY <2>4 DEF WarmLanguage
    <3>2. b.stage # "writing" => b.warmed < Languages
      <4>1. worker[t][w].warmed < Languages
        BY <2>4 DEF WarmLanguage, Busy, BodiesInLoop
      <4>2. ~Advances(t, w) => worker[t][w].warmed + 1 < Languages
        BY <4>1, <2>1, WarmAssumption DEF Advances, Body
      <4> QED BY <4>2
    <3> HIDE DEF b
    <3> QED BY <2>1, <3>1, <3>2, <1>4
  <2>5. CASE WriteProgress(t, w)
    <3> DEFINE b == [worker[t][w] EXCEPT !.stage = "warming", !.saw = 0]
    <3>1. CASE worker[t][w].warmed # Languages
      <4>1. worker' = [worker EXCEPT ![t][w] = b]
        BY <2>5, <3>1 DEF WriteProgress, TypeOK
      <4>2. b.warmed < Languages
        BY <2>1, <3>1, WarmAssumption DEF Body
      <4> HIDE DEF b
      <4> QED BY <2>1, <4>1, <4>2, <1>4
    <3> QED BY <2>5, <2>2, <3>1 DEF WriteProgress
  <2> QED BY <1>5, <2>2, <2>3, <2>4, <2>5
           DEF WorkerStep, EntryMissing, EntryFails, EntryCanceled
<1>6. ASSUME NEW t \in Triggers, NEW s \in Sources, Call(t, s)
      PROVE BodiesInLoop'
  BY <1>6, <1>1 DEF Call
<1>7. ASSUME NEW t \in Triggers, RunStep(t)
      PROVE BodiesInLoop'
  <2>1. CASE Enter(t) \/ Begin(t) \/ PartsDone(t) \/ FetchInventory(t) \/ Land(t) \/ ClearProgress(t)
    BY <2>1, <1>1 DEF Enter, Begin, PartsDone, FetchInventory, Land, ClearProgress
  <2>2. CASE Fail(t) \/ Refused(t) \/ Release(t)
    BY <2>2, <1>1 DEF Fail, Refused, Release
  <2>3. CASE WarmSingle(t) \/ \E how \in {"failed", "canceled"} : InventoryFails(t, how)
    BY <2>3, <1>1 DEF WarmSingle, InventoryFails, Throw
  <2>4. CASE SkipPart(t)
    BY <2>4, <1>2 DEF SkipPart
  <2> QED BY <1>7, <1>3, <1>5, <2>1, <2>2, <2>3, <2>4 DEF RunStep
<1>8. CASE Stop \/ UNCHANGED vars
  BY <1>8, <1>2 DEF Stop, vars
<1> QED BY <1>6, <1>7, <1>8 DEF Next

\* Only the holder of the gate is inside, after every step.
LEMMA GateStep == ASSUME TypeOK, GateHeld, [Next]_vars PROVE GateHeld'
<1>1. ASSUME NEW t \in Triggers, NEW stage, Goto(t, stage), UNCHANGED gate,
              Inside(t) \/ stage \in {"idle", "calling", "over"}
      PROVE GateHeld'
  BY <1>1 DEF Goto, TypeOK, GateHeld, Inside
<1>2. ASSUME UNCHANGED <<pc, gate>>
      PROVE GateHeld'
  BY <1>2 DEF GateHeld, Inside
<1>3. ASSUME NEW t \in Triggers, Enter(t)
      PROVE GateHeld'
  BY <1>3, NoneAssumption DEF Enter, Goto, TypeOK, GateHeld, Inside
<1>4. ASSUME NEW t \in Triggers, Release(t)
      PROVE GateHeld'
  BY <1>4 DEF Release, Goto, TypeOK, GateHeld, Inside
<1>5. ASSUME NEW t \in Triggers, NEW s \in Sources, Call(t, s)
      PROVE GateHeld'
  BY <1>5, <1>1 DEF Call
<1>6. ASSUME NEW t \in Triggers, RunStep(t)
      PROVE GateHeld'
  <2>1. CASE Refused(t)
    BY <2>1, <1>1 DEF Refused
  <2>2. CASE Begin(t) \/ PartsDone(t) \/ FetchInventory(t) \/ Land(t) \/ ClearProgress(t)
    BY <2>2, <1>1 DEF Begin, PartsDone, FetchInventory, Land, ClearProgress, Inside
  <2>3. CASE Fail(t) \/ LoopEnds(t)
    BY <2>3, <1>1 DEF Fail, LoopEnds, Inside
  <2>4. CASE WarmSingle(t) \/ \E how \in {"failed", "canceled"} : InventoryFails(t, how)
    BY <2>4, <1>1 DEF WarmSingle, InventoryFails, Throw, Inside
  <2>5. CASE SkipPart(t) \/ \E w \in Workers : WorkerStep(t, w)
    BY <2>5, <1>2 DEF SkipPart, WorkerStep, Take, EntryMissing, EntryFails, EntryCanceled,
                      WarmLanguage, WriteProgress
  <2> QED BY <1>6, <1>3, <1>4, <2>1, <2>2, <2>3, <2>4, <2>5 DEF RunStep
<1>7. CASE Stop \/ UNCHANGED vars
  BY <1>7, <1>2 DEF Stop, vars
<1> QED BY <1>5, <1>6, <1>7 DEF Next

\* The status is set and reset by the one run that is inside.
LEMMA StatusStep ==
  ASSUME TypeOK, GateHeld, StatusFollowsRun, [Next]_vars
  PROVE StatusFollowsRun'
<1>1. ASSUME NEW t \in Triggers, NEW stage, Goto(t, stage), UNCHANGED status,
             Published(t) <=> stage \in {"parts", "looping", "landing", "failed", "canceled"}
      PROVE StatusFollowsRun'
  BY <1>1 DEF Goto, TypeOK, StatusFollowsRun, Published
<1>2. ASSUME UNCHANGED <<pc, status>>
      PROVE StatusFollowsRun'
  BY <1>2 DEF StatusFollowsRun, Published
<1>3. ASSUME NEW t \in Triggers, Begin(t)
      PROVE StatusFollowsRun'
  BY <1>3 DEF Begin, Goto, TypeOK, StatusFollowsRun, Published
<1>4. ASSUME NEW t \in Triggers, Land(t) \/ Fail(t)
      PROVE StatusFollowsRun'
  <2>1. \A u \in Triggers : Published(u) => u = t
    BY <1>4 DEF Land, Fail, Published, GateHeld, Inside
  <2>2. \A u \in Triggers : ~Published(u)'
    BY <1>4, <2>1 DEF Land, Fail, Goto, TypeOK, Published
  <2>3. PICK last : status' = [running |-> FALSE, last |-> last]
    BY <1>4 DEF Land, Fail
  <2>4. ~status'.running
    BY <2>3
  <2> QED BY <2>2, <2>4 DEF StatusFollowsRun
<1>5. ASSUME NEW t \in Triggers, NEW s \in Sources, Call(t, s)
      PROVE StatusFollowsRun'
  BY <1>5, <1>1 DEF Call, Published
<1>6. ASSUME NEW t \in Triggers, RunStep(t)
      PROVE StatusFollowsRun'
  <2>1. CASE Enter(t) \/ Refused(t) \/ ClearProgress(t) \/ Release(t)
    BY <2>1, <1>1 DEF Enter, Refused, ClearProgress, Release, Published
  <2>2. CASE FetchInventory(t) \/ PartsDone(t) \/ LoopEnds(t)
    BY <2>2, <1>1 DEF FetchInventory, PartsDone, LoopEnds, Published
  <2>3. CASE WarmSingle(t) \/ \E how \in {"failed", "canceled"} : InventoryFails(t, how)
    BY <2>3, <1>1 DEF WarmSingle, InventoryFails, Throw, Published
  <2>4. CASE SkipPart(t) \/ \E w \in Workers : WorkerStep(t, w)
    BY <2>4, <1>2 DEF SkipPart, WorkerStep, Take, EntryMissing, EntryFails, EntryCanceled,
                      WarmLanguage, WriteProgress
  <2> QED BY <1>6, <1>3, <1>4, <2>1, <2>2, <2>3, <2>4 DEF RunStep
<1>7. CASE Stop \/ UNCHANGED vars
  BY <1>7, <1>2 DEF Stop, vars
<1> QED BY <1>5, <1>6, <1>7 DEF Next

\* The progress is written by bodies of the one run that walks its inventories, and
\* each of them has warmed an item since it read.
LEMMA ProgressStep ==
  ASSUME TypeOK, GateHeld, BodiesInLoop, WritersBehind, ProgressNeverLeads, [Next]_vars
  PROVE WritersBehind' /\ ProgressNeverLeads'
<1> DEFINE Walks(t) == pc[t] \in {"parts", "looping"}
<1>1. ASSUME NEW t \in Triggers, NEW stage, Goto(t, stage), UNCHANGED <<run, worker, progress>>,
             Walks(t) \/ stage \notin {"parts", "looping"}
      PROVE WritersBehind' /\ ProgressNeverLeads'
  BY <1>1 DEF Goto, TypeOK, WritersBehind, ProgressNeverLeads
<1>2. ASSUME UNCHANGED <<pc, run, worker, progress>>
      PROVE WritersBehind' /\ ProgressNeverLeads'
  BY <1>2 DEF WritersBehind, ProgressNeverLeads
\* A run that is not in its loop has no body that writes.
<1>3. ASSUME NEW t \in Triggers, pc[t] # "looping", NEW r, run' = [run EXCEPT ![t] = r],
             UNCHANGED worker
      PROVE WritersBehind'
  BY <1>3 DEF TypeOK, WritersBehind, BodiesInLoop
\* Only one run walks its inventories.
<1>4. ASSUME NEW t \in Triggers, Inside(t), NEW u \in Triggers, Walks(u)
      PROVE u = t
  BY <1>4 DEF GateHeld, Inside
<1>5. ASSUME NEW t \in Triggers, Begin(t)
      PROVE WritersBehind' /\ ProgressNeverLeads'
  <2>1. Inside(t) /\ pc[t] # "looping"
    BY <1>5 DEF Begin, Inside
  <2>2. WritersBehind'
    BY <1>5, <2>1, <1>3 DEF Begin
  <2>3. \A u \in Triggers : Walks(u)' => u = t
    BY <1>5, <2>1, <1>4 DEF Begin, Goto, TypeOK
  <2>4. run'[t].items = 0 /\ progress' = [total |-> 0, processed |-> 0]
    <3>1. [NoRun EXCEPT !.parts = PartsOf(source[t])].items = 0
      BY DEF NoRun
    <3> QED BY <1>5, <3>1 DEF Begin, TypeOK
  <2>5. progress' # None /\ progress'.processed = 0
    BY <2>4, NoneAssumption DEF Progress
  <2> QED BY <2>2, <2>3, <2>4, <2>5 DEF ProgressNeverLeads
<1>6. ASSUME NEW t \in Triggers, WarmSingle(t)
      PROVE WritersBehind' /\ ProgressNeverLeads'
  <2>1. CASE UNCHANGED run
    BY <1>6, <2>1, <1>1 DEF WarmSingle, Throw
  <2>2. CASE Goto(t, "landing")
    <3>1. PICK r : run' = [run EXCEPT ![t] = r]
      BY <1>6, <2>2 DEF WarmSingle, TypeOK
    <3>2. WritersBehind'
      BY <1>6, <3>1, <1>3 DEF WarmSingle
    <3>3. ProgressNeverLeads'
      BY <1>6, <2>2, <3>1 DEF WarmSingle, Goto, TypeOK, ProgressNeverLeads
    <3> QED BY <3>2, <3>3
  <2> QED BY <1>6, <2>1, <2>2 DEF WarmSingle
<1>7. ASSUME NEW t \in Triggers, SkipPart(t)
      PROVE WritersBehind' /\ ProgressNeverLeads'
  <2> DEFINE r == [run[t] EXCEPT !.parts = Tail(run[t].parts),
                                 !.skipped = source[t] # "all" \/ Configured = {}]
  <2>1. r.items = run[t].items
    BY DEF TypeOK, Run
  <2>2. run' = [run EXCEPT ![t] = r]
    BY <1>7 DEF SkipPart
  <2> HIDE DEF r
  <2>3. WritersBehind'
    BY <1>7, <2>2, <1>3 DEF SkipPart
  <2> QED BY <1>7, <2>1, <2>2, <2>3 DEF SkipPart, TypeOK, ProgressNeverLeads
<1>8. ASSUME NEW t \in Triggers, FetchInventory(t)
      PROVE WritersBehind' /\ ProgressNeverLeads'
  <2> DEFINE r == [run[t] EXCEPT !.part = Head(run[t].parts),
                                 !.left = Count[Head(run[t].parts)],
                                 !.parts = Tail(run[t].parts)]
  <2>1. r.items = run[t].items
    BY DEF TypeOK, Run
  <2>2. run' = [run EXCEPT ![t] = r]
    BY <1>8 DEF FetchInventory
  <2> HIDE DEF r
  <2>3. WritersBehind'
    BY <1>8, <2>2, <1>3 DEF FetchInventory
  <2>4. progress # None
    BY <1>8 DEF FetchInventory, ProgressNeverLeads
  <2>5. progress'.processed = progress.processed /\ progress' \in Progress
    <3>1. Count[Head(run[t].parts)] * Languages \in Nat
      BY <1>8, WarmAssumption DEF FetchInventory
    <3> QED BY <1>8, <2>4, <3>1 DEF FetchInventory, SetProgressTotal, TypeOK, Progress
  <2>6. progress' # None
    BY <2>5, NoneAssumption
  <2> QED BY <1>8, <2>1, <2>2, <2>3, <2>5, <2>6 DEF FetchInventory, Goto, TypeOK, ProgressNeverLeads
<1>9. ASSUME NEW t \in Triggers, ClearProgress(t)
      PROVE WritersBehind' /\ ProgressNeverLeads'
  <2>1. \A u \in Triggers : ~Walks(u)'
    BY <1>9, <1>4 DEF ClearProgress, Inside, Goto, TypeOK
  <2> QED BY <1>9, <2>1 DEF ClearProgress, WritersBehind, ProgressNeverLeads
<1>10. ASSUME NEW t \in Triggers, Release(t)
      PROVE WritersBehind' /\ ProgressNeverLeads'
  <2>1. WritersBehind'
    BY <1>10, <1>3 DEF Release
  <2> QED BY <1>10, <2>1 DEF Release, Goto, TypeOK, ProgressNeverLeads
\* A body that is through, or that only begins, changes no item and writes nothing.
<1>11. ASSUME NEW t \in Triggers, NEW w \in Workers, NEW r, NEW b,
              run' = [run EXCEPT ![t] = r], worker' = [worker EXCEPT ![t][w] = b],
              r.items = run[t].items, b.stage # "writing", UNCHANGED <<pc, progress>>
      PROVE WritersBehind' /\ ProgressNeverLeads'
  BY <1>11 DEF TypeOK, WritersBehind, ProgressNeverLeads
<1>12. ASSUME NEW t \in Triggers, NEW w \in Workers,
              \/ EntryMissing(t, w)
              \/ EntryFails(t, w)
              \/ EntryCanceled(t, w)
      PROVE WritersBehind' /\ ProgressNeverLeads'
  <2>1. PICK r : run' = [run EXCEPT ![t] = r] /\ r.items = run[t].items
    <3>1. /\ [run[t] EXCEPT !.missing = run[t].missing + 1].items = run[t].items
          /\ [run[t] EXCEPT !.errors = run[t].errors + 1].items = run[t].items
          /\ [run[t] EXCEPT !.aborted = TRUE].items = run[t].items
      BY DEF TypeOK, Run
    <3> QED BY <1>12, <3>1 DEF EntryMissing, EntryFails, EntryCanceled
  <2>2. worker' = [worker EXCEPT ![t][w] = IdleWorker]
    BY <1>12 DEF EntryMissing, EntryFails, EntryCanceled, EntryDone
  <2>3. IdleWorker.stage # "writing"
    BY DEF IdleWorker
  <2> QED BY <1>12, <2>1, <2>2, <2>3, <1>11 DEF EntryMissing, EntryFails, EntryCanceled
<1>13. ASSUME NEW t \in Triggers, NEW w \in Workers, Take(t, w)
      PROVE WritersBehind' /\ ProgressNeverLeads'
  <2>1. run[t] \in Run /\ worker[t][w] \in Body
    BY DEF TypeOK
  <2>2. [run[t] EXCEPT !.left = run[t].left - 1].items = run[t].items
    BY <2>1 DEF Run
  <2>3. [worker[t][w] EXCEPT !.stage = "warming"].stage # "writing"
    BY <2>1 DEF Body
  <2>4. /\ run' = [run EXCEPT ![t] = [run[t] EXCEPT !.left = run[t].left - 1]]
        /\ worker' = [worker EXCEPT ![t][w] = [worker[t][w] EXCEPT !.stage = "warming"]]
        /\ UNCHANGED <<pc, progress>>
    BY <1>13 DEF Take
  <2> QED BY <2>2, <2>3, <2>4, <1>11
<1>14. ASSUME NEW t \in Triggers, NEW w \in Workers, WarmLanguage(t, w)
      PROVE WritersBehind' /\ ProgressNeverLeads'
  <2> DEFINE b == [stage |-> IF Advances(t, w) THEN "writing" ELSE "warming",
           warmed |-> worker[t][w].warmed + 1,
           saw |-> IF Advances(t, w) /\ progress # None THEN progress.processed ELSE 0]
             r == [run[t] EXCEPT !.items = run[t].items + 1]
  <2>1. run[t] \in Run /\ run[t].items \in Nat
    BY DEF TypeOK, Run
  <2>2. r.items = run[t].items + 1
    BY <2>1 DEF Run
  <2>3. progress # None /\ progress.processed <= run[t].items /\ progress \in Progress
    BY <1>14 DEF WarmLanguage, Busy, ProgressNeverLeads, TypeOK
  <2>4. b.saw < r.items
    BY <2>1, <2>2, <2>3 DEF Progress
  <2>5. /\ run' = [run EXCEPT ![t] = r] /\ worker' = [worker EXCEPT ![t][w] = b]
        /\ UNCHANGED <<pc, progress>>
    BY <1>14 DEF WarmLanguage
  <2>6. \A x \in Workers : worker[t][x].saw \in Nat
    BY DEF TypeOK, Body
  <2> HIDE DEF b, r
  <2>7. WritersBehind'
    BY <2>1, <2>2, <2>4, <2>5, <2>6 DEF TypeOK, WritersBehind
  <2>8. ProgressNeverLeads'
    BY <2>1, <2>2, <2>3, <2>5 DEF TypeOK, ProgressNeverLeads, Progress
  <2> QED BY <2>7, <2>8
<1>15. ASSUME NEW t \in Triggers, NEW w \in Workers, WriteProgress(t, w)
      PROVE WritersBehind' /\ ProgressNeverLeads'
  <2>1. worker[t][w] \in Body /\ worker[t][w].saw < run[t].items /\ run[t].items \in Nat
    BY <1>15 DEF WriteProgress, Busy, WritersBehind, TypeOK, Run
  <2>2. WritersBehind'
    <3>1. PICK b : worker' = [worker EXCEPT ![t][w] = b] /\ b.stage # "writing"
      <4>1. IdleWorker.stage # "writing"
        BY DEF IdleWorker
      <4>2. [worker[t][w] EXCEPT !.stage = "warming", !.saw = 0].stage # "writing"
        BY <2>1 DEF Body
      <4>3. CASE EntryDone(t, w)
        BY <4>1, <4>3 DEF EntryDone
      <4>4. CASE worker' = [worker EXCEPT ![t][w].stage = "warming", ![t][w].saw = 0]
        <5>1. worker' = [worker EXCEPT ![t][w] =
                [worker[t][w] EXCEPT !.stage = "warming", !.saw = 0]]
          BY <4>4 DEF TypeOK
        <5> QED BY <5>1, <4>2
      <4> QED BY <1>15, <4>3, <4>4 DEF WriteProgress
    <3> QED BY <1>15, <3>1 DEF WriteProgress, TypeOK, WritersBehind
  <2>3. \A u \in Triggers : Walks(u) => u = t
    BY <1>15, <1>4 DEF WriteProgress, Busy, Inside
  <2>4. progress # None /\ progress \in Progress
    BY <1>15 DEF WriteProgress, Busy, ProgressNeverLeads, TypeOK
  <2>5. progress' \in Progress /\ progress'.processed <= run[t].items
    BY <1>15, <2>1, <2>4 DEF WriteProgress, Progress, Body
  <2>6. progress' # None
    BY <2>5, NoneAssumption
  <2> QED BY <1>15, <2>2, <2>3, <2>5, <2>6 DEF WriteProgress, ProgressNeverLeads
<1>16. ASSUME NEW t \in Triggers, NEW s \in Sources, Call(t, s)
      PROVE WritersBehind' /\ ProgressNeverLeads'
  BY <1>16, <1>1 DEF Call
<1>17. ASSUME NEW t \in Triggers, RunStep(t)
      PROVE WritersBehind' /\ ProgressNeverLeads'
  <2>1. CASE Enter(t) \/ Refused(t) \/ PartsDone(t) \/ Land(t)
    BY <2>1, <1>1 DEF Enter, Refused, PartsDone, Land
  <2>2. CASE Fail(t) \/ LoopEnds(t)
    BY <2>2, <1>1 DEF Fail, LoopEnds
  <2>3. CASE \E how \in {"failed", "canceled"} : InventoryFails(t, how)
    BY <2>3, <1>1 DEF InventoryFails, Throw
  <2>4. CASE \E w \in Workers : WorkerStep(t, w)
    BY <2>4, <1>12, <1>13, <1>14, <1>15 DEF WorkerStep
  <2> QED BY <1>17, <1>5, <1>6, <1>7, <1>8, <1>9, <1>10, <2>1, <2>2, <2>3, <2>4 DEF RunStep
<1>18. CASE Stop \/ UNCHANGED vars
  BY <1>18, <1>2 DEF Stop, vars
<1> QED BY <1>16, <1>17, <1>18 DEF Next

-----------------------------------------------------------------------------
\* The accounting of a run over one inventory (CacheWarmer.cs:357-386, 399-434).

\* One entry more is as many items more as there are languages.
LEMMA Times ==
  ASSUME NEW m \in Nat
  PROVE Languages * m \in Nat /\ Languages * (m + 1) = Languages * m + Languages
  BY WarmAssumption

\* The loop begins with every entry left.
LEMMA StartBalance ==
  ASSUME NEW n \in Nat
  PROVE Balanced(n, n, 0, 0, 0, 0, FALSE)
  <1>1. Languages * n \in Nat /\ Languages * 0 = 0
    BY WarmAssumption
  <1> QED BY <1>1 DEF Balanced

\* A body takes an entry: it owes all its languages.
LEMMA TakeBalance ==
  ASSUME NEW n \in Nat, NEW left \in Nat, NEW bad \in Nat, NEW items \in Nat, NEW taken \in Nat,
         NEW owing \in Nat, NEW aborted, left > 0,
         Balanced(n, left, bad, items, taken, owing, aborted)
  PROVE Balanced(n, left - 1, bad, items, taken + 1, owing + Languages, aborted)
  <1>1. left - 1 \in Nat /\ (left - 1) + 1 = left
    OBVIOUS
  <1>2. Languages * left = Languages * (left - 1) + Languages
    BY <1>1, Times
  <1>3. Languages * (left - 1) \in Nat /\ Languages * bad \in Nat /\ Languages * n \in Nat
    BY <1>1, Times
  <1>4. Languages \in Nat
    BY WarmAssumption
  <1> DEFINE a == Languages * (left - 1)
             b == Languages * bad
             c == Languages * n
  <1>5. \A x, y, z \in Nat :
          /\ items + bad + (x + Languages) + owing <= z => items + bad + x + (owing + Languages) <= z
          /\ items + y + (x + Languages) + owing >= z => items + y + x + (owing + Languages) >= z
    BY <1>4
  <1>6. /\ items + bad + (a + Languages) + owing <= c => items + bad + a + (owing + Languages) <= c
        /\ items + b + (a + Languages) + owing >= c => items + b + a + (owing + Languages) >= c
    BY <1>3, <1>5
  <1>7. bad + left + taken <= n => bad + (left - 1) + (taken + 1) <= n
    OBVIOUS
  <1> QED BY <1>2, <1>6, <1>7 DEF Balanced

\* What an entry that is given up owed: one language at least, all of them at most.
Sheds(owing, rest) == rest \in Nat /\ rest + 1 <= owing /\ owing <= rest + Languages

\* An entry turns out bad: what it still owed is not warmed.
LEMMA BadBalance ==
  ASSUME NEW n \in Nat, NEW left \in Nat, NEW bad \in Nat, NEW items \in Nat, NEW taken \in Nat,
         NEW owing \in Nat, NEW aborted, NEW rest, Sheds(owing, rest),
         Balanced(n, left, bad, items, taken, owing, aborted)
  PROVE Balanced(n, left, bad + 1, items, taken - 1, rest, aborted)
  <1>1. Languages * (bad + 1) = Languages * bad + Languages
    BY Times
  <1>2. Languages * left \in Nat /\ Languages * bad \in Nat /\ Languages * n \in Nat
    BY Times
  <1>3. Languages \in Nat
    BY WarmAssumption
  <1>4. \A x, y, z \in Nat :
          /\ items + bad + x + owing <= z => items + (bad + 1) + x + rest <= z
          /\ items + y + x + owing >= z => items + (y + Languages) + x + rest >= z
    BY <1>3 DEF Sheds
  <1>5. bad + left + taken <= n => (bad + 1) + left + (taken - 1) <= n
    OBVIOUS
  <1>6. items + bad + Languages * left + owing <= Languages * n
          => items + (bad + 1) + Languages * left + rest <= Languages * n
    BY <1>2, <1>4
  <1>7. items + Languages * bad + Languages * left + owing >= Languages * n
          => items + (Languages * bad + Languages) + Languages * left + rest >= Languages * n
    BY <1>2, <1>4
  <1> QED BY <1>1, <1>5, <1>6, <1>7 DEF Balanced

\* A cancellation: what the body owed is given up.
LEMMA CancelBalance ==
  ASSUME NEW n \in Nat, NEW left \in Nat, NEW bad \in Nat, NEW items \in Nat, NEW taken \in Nat,
         NEW owing \in Nat, NEW aborted, NEW rest \in Nat, rest <= owing,
         Balanced(n, left, bad, items, taken, owing, aborted)
  PROVE Balanced(n, left, bad, items, taken - 1, rest, TRUE)
  <1>1. Languages * left \in Nat /\ Languages * n \in Nat
    BY Times
  <1>2. \A x, z \in Nat : items + bad + x + owing <= z => items + bad + x + rest <= z
    OBVIOUS
  <1>3. items + bad + Languages * left + owing <= Languages * n
          => items + bad + Languages * left + rest <= Languages * n
    BY <1>1, <1>2
  <1>4. bad + left + taken <= n => bad + left + (taken - 1) <= n
    OBVIOUS
  <1> QED BY <1>3, <1>4 DEF Balanced

\* A language is warm: an item more, one owed less.
LEMMA WarmBalance ==
  ASSUME NEW n \in Nat, NEW left \in Nat, NEW bad \in Nat, NEW items \in Nat, NEW taken \in Nat,
         NEW owing \in Nat, NEW aborted,
         Balanced(n, left, bad, items, taken, owing, aborted)
  PROVE Balanced(n, left, bad, items + 1, taken, owing - 1, aborted)
  <1>1. Languages * left \in Nat /\ Languages * bad \in Nat /\ Languages * n \in Nat
    BY Times
  <1>2. \A x, y, z \in Nat :
          /\ items + bad + x + owing <= z => (items + 1) + bad + x + (owing - 1) <= z
          /\ items + y + x + owing >= z => (items + 1) + y + x + (owing - 1) >= z
    OBVIOUS
  <1>3. /\ items + bad + Languages * left + owing <= Languages * n
             => (items + 1) + bad + Languages * left + (owing - 1) <= Languages * n
        /\ items + Languages * bad + Languages * left + owing >= Languages * n
             => (items + 1) + Languages * bad + Languages * left + (owing - 1) >= Languages * n
    BY <1>1, <1>2
  <1> QED BY <1>3 DEF Balanced

\* An entry is through: it owes nothing.
LEMMA ThroughBalance ==
  ASSUME NEW n \in Nat, NEW left \in Nat, NEW bad \in Nat, NEW items, NEW taken \in Nat,
         NEW owing, NEW aborted,
         Balanced(n, left, bad, items, taken, owing, aborted)
  PROVE Balanced(n, left, bad, items, taken - 1, owing, aborted)
  <1>1. bad + left + taken <= n => bad + left + (taken - 1) <= n
    OBVIOUS
  <1> QED BY <1>1 DEF Balanced

\* When nothing is left and nobody at work, the result is complete.
LEMMA EndBalance ==
  ASSUME NEW n \in Nat, NEW bad \in Nat, NEW items \in Nat,
         Balanced(n, 0, bad, items, 0, 0, FALSE)
  PROVE Complete(n, bad, items)
  <1>1. Languages * 0 = 0 /\ Languages \in Nat
    BY WarmAssumption
  <1>2. bad <= n
    BY DEF Balanced
  <1>3. Languages * n = Languages * (n - bad) + Languages * bad
    BY <1>1, <1>2
  <1>4. Languages * n \in Nat /\ Languages * bad \in Nat /\ Languages * (n - bad) \in Nat
    BY <1>2, Times
  <1>5. items + bad <= Languages * n /\ items + Languages * bad >= Languages * n
    BY <1>1, <1>4 DEF Balanced
  <1>6. \A x, y \in Nat : items + y >= x + y => items >= x
    OBVIOUS
  <1> QED BY <1>2, <1>3, <1>4, <1>5, <1>6 DEF Complete

\* No more is warmed than the inventory holds.
LEMMA ItemsWithin ==
  ASSUME NEW n \in Nat, NEW left \in Nat, NEW bad \in Nat, NEW items \in Nat, NEW taken \in Nat,
         NEW owing \in Nat, NEW aborted,
         Balanced(n, left, bad, items, taken, owing, aborted)
  PROVE items <= Languages * n
  <1>1. Languages * left \in Nat /\ Languages * n \in Nat
    BY Times
  <1>2. \A x, z \in Nat : items + bad + x + owing <= z => items <= z
    OBVIOUS
  <1> QED BY <1>1, <1>2 DEF Balanced

\* Bodies at work and languages owed are finitely many.
LEMMA OwingFinite ==
  ASSUME NEW t \in Triggers
  PROVE /\ IsFiniteSet(Taken(t)) /\ Cardinality(Taken(t)) \in Nat
        /\ IsFiniteSet(Owing(t)) /\ Cardinality(Owing(t)) \in Nat
  <1>1. IsFiniteSet(Workers) /\ IsFiniteSet(1..Languages)
    BY WarmAssumption, FS_Interval
  <1>2. IsFiniteSet(Workers \X (1..Languages))
    BY <1>1, FS_Product
  <1>3. Taken(t) \in SUBSET Workers /\ Owing(t) \in SUBSET (Workers \X (1..Languages))
    BY DEF Taken, Owing
  <1>4. IsFiniteSet(Taken(t)) /\ IsFiniteSet(Owing(t))
    BY <1>1, <1>2, <1>3, FS_Subset
  <1> QED BY <1>4, FS_CardinalityType

\* What one body has to warm of an entry it has not begun.
Tasks(w) == {w} \X (1..Languages)

\* They are as many as there are languages.
LEMMA TasksCount ==
  ASSUME NEW w
  PROVE IsFiniteSet(Tasks(w)) /\ Cardinality(Tasks(w)) = Languages
  <1>1. IsFiniteSet({w}) /\ Cardinality({w}) = 1
    BY FS_Singleton
  <1>2. IsFiniteSet(1..Languages) /\ Cardinality(1..Languages) = Languages
    BY WarmAssumption, FS_Interval
  <1>3. /\ IsFiniteSet({w} \X (1..Languages))
        /\ Cardinality({w} \X (1..Languages)) = Cardinality({w}) * Cardinality(1..Languages)
    BY <1>1, <1>2, FS_Product
  <1>4. Cardinality({w}) * Cardinality(1..Languages) = Languages
    BY <1>1, <1>2, WarmAssumption
  <1> QED BY <1>3, <1>4 DEF Tasks

\* A step of one body changes what that body owes, and nothing else.
LEMMA BodyChanges ==
  ASSUME TypeOK, NEW t \in Triggers, NEW w \in Workers, NEW b,
         worker' = [worker EXCEPT ![t][w] = b]
  PROVE /\ Taken(t)' = IF b.stage = "idle" THEN Taken(t) \ {w} ELSE Taken(t) \cup {w}
        /\ \A d : d \in Owing(t)' <=>
                  \/ d \in Owing(t) \ Tasks(w)
                  \/ d \in Tasks(w) /\ b.stage # "idle" /\ b.warmed < d[2]
        /\ \A u \in Triggers : u # t => Taken(u)' = Taken(u) /\ Owing(u)' = Owing(u)
  <1>1. /\ worker'[t][w] = b
        /\ \A v \in Workers : v # w => worker'[t][v] = worker[t][v]
        /\ \A u \in Triggers : u # t => worker'[u] = worker[u]
    BY DEF TypeOK
  <1>2. Taken(t)' = IF b.stage = "idle" THEN Taken(t) \ {w} ELSE Taken(t) \cup {w}
    BY <1>1 DEF Taken
  <1>3. \A d : d \in Owing(t)' <=>
                \/ d \in Owing(t) \ Tasks(w)
                \/ d \in Tasks(w) /\ b.stage # "idle" /\ b.warmed < d[2]
    <2>1. \A d \in Workers \X (1..Languages) : d \in Tasks(w) <=> d[1] = w
      BY DEF Tasks
    <2>2. Tasks(w) \subseteq Workers \X (1..Languages)
      BY DEF Tasks
    <2>3. \A d \in Workers \X (1..Languages) :
            d \in Owing(t)' <=> worker'[t][d[1]].stage # "idle" /\ worker'[t][d[1]].warmed < d[2]
      BY DEF Owing
    <2>4. \A d \in Workers \X (1..Languages) :
            d \in Owing(t) <=> worker[t][d[1]].stage # "idle" /\ worker[t][d[1]].warmed < d[2]
      BY DEF Owing
    <2>5. Owing(t) \subseteq Workers \X (1..Languages) /\ Owing(t)' \subseteq Workers \X (1..Languages)
      BY DEF Owing
    <2>6. \A d \in Workers \X (1..Languages) : d[1] \in Workers
      OBVIOUS
    <2> QED BY <1>1, <2>1, <2>2, <2>3, <2>4, <2>5, <2>6
  <1>4. ASSUME NEW u \in Triggers, u # t PROVE Taken(u)' = Taken(u) /\ Owing(u)' = Owing(u)
    BY <1>1, <1>4 DEF Taken, Owing
  <1> QED BY <1>2, <1>3, <1>4

\* A body takes an entry.
LEMMA BodyTakes ==
  ASSUME TypeOK, NEW t \in Triggers, NEW w \in Workers, NEW b,
         worker' = [worker EXCEPT ![t][w] = b], worker[t][w].stage = "idle",
         b.stage # "idle", b.warmed = 0
  PROVE /\ Cardinality(Taken(t)') = Cardinality(Taken(t)) + 1
        /\ Cardinality(Owing(t)') = Cardinality(Owing(t)) + Languages
  <1>1. w \notin Taken(t) /\ Owing(t) \cap Tasks(w) = {}
    BY DEF Taken, Owing, Tasks
  <1>2. Taken(t)' = Taken(t) \cup {w}
    BY BodyChanges
  <1>3. \A d \in Tasks(w) : b.stage # "idle" /\ b.warmed < d[2]
    BY WarmAssumption DEF Tasks
  <1>4. Owing(t)' = Owing(t) \cup Tasks(w)
    <2>1. \A d : d \in Owing(t)' <=>
                  \/ d \in Owing(t) \ Tasks(w)
                  \/ d \in Tasks(w) /\ b.stage # "idle" /\ b.warmed < d[2]
      BY BodyChanges
    <2> QED BY <1>1, <1>3, <2>1
  <1>5. Cardinality(Taken(t) \cup {w}) = Cardinality(Taken(t)) + 1
    BY <1>1, OwingFinite, FS_AddElement
  <1>6. Cardinality(Owing(t) \cup Tasks(w))
          = Cardinality(Owing(t)) + Cardinality(Tasks(w)) - Cardinality(Owing(t) \cap Tasks(w))
    BY OwingFinite, TasksCount, FS_Union
  <1>7. Cardinality(Owing(t) \cup Tasks(w)) = Cardinality(Owing(t)) + Languages
    <2>1. Cardinality(Owing(t) \cap Tasks(w)) = 0
      BY <1>1, FS_EmptySet
    <2>2. Cardinality(Tasks(w)) = Languages /\ Cardinality(Owing(t)) \in Nat /\ Languages \in Nat
      BY OwingFinite, TasksCount, WarmAssumption
    <2> QED BY <1>6, <2>1, <2>2
  <1> QED BY <1>2, <1>4, <1>5, <1>7

\* A body leaves its entry: what it owed is gone.
LEMMA BodyEnds ==
  ASSUME TypeOK, NEW t \in Triggers, NEW w \in Workers, EntryDone(t, w),
         worker[t][w].stage # "idle"
  PROVE /\ Cardinality(Taken(t)') = Cardinality(Taken(t)) - 1
        /\ Cardinality(Owing(t)') \in Nat
        /\ Cardinality(Owing(t)') <= Cardinality(Owing(t))
        /\ Cardinality(Owing(t)) <= Cardinality(Owing(t)') + Languages
        /\ worker[t][w].warmed < Languages => Cardinality(Owing(t)') + 1 <= Cardinality(Owing(t))
        /\ worker[t][w].warmed = Languages => Cardinality(Owing(t)') = Cardinality(Owing(t))
  <1> DEFINE rest == Owing(t) \ Tasks(w)
  <1>1. worker' = [worker EXCEPT ![t][w] = IdleWorker] /\ IdleWorker.stage = "idle"
    BY DEF EntryDone, IdleWorker
  <1>2. Taken(t)' = Taken(t) \ {w} /\ Owing(t)' = rest
    <2>1. /\ Taken(t)' = IF IdleWorker.stage = "idle" THEN Taken(t) \ {w} ELSE Taken(t) \cup {w}
          /\ \A d : d \in Owing(t)' <=>
                    \/ d \in Owing(t) \ Tasks(w)
                    \/ d \in Tasks(w) /\ IdleWorker.stage # "idle" /\ IdleWorker.warmed < d[2]
      BY <1>1, BodyChanges
    <2> QED BY <1>1, <2>1
  <1>3. w \in Taken(t)
    BY DEF Taken
  <1>4. Cardinality(Taken(t) \ {w}) = Cardinality(Taken(t)) - 1
    BY <1>3, OwingFinite, FS_RemoveElement
  <1>5. /\ IsFiniteSet(rest) /\ Cardinality(rest) \in Nat
        /\ Cardinality(rest) <= Cardinality(Owing(t))
    <2>1. rest \in SUBSET Owing(t)
      OBVIOUS
    <2>2. IsFiniteSet(rest) /\ Cardinality(rest) <= Cardinality(Owing(t))
      BY <2>1, OwingFinite, FS_Subset
    <2> QED BY <2>2, FS_CardinalityType
  <1>6. Cardinality(Owing(t)) <= Cardinality(rest) + Languages
    <2>1. Cardinality(Owing(t)) = Cardinality(rest) + Cardinality(Owing(t) \cap Tasks(w))
      <3>1. Cardinality(rest) = Cardinality(Owing(t)) - Cardinality(Owing(t) \cap Tasks(w))
        BY OwingFinite, FS_Difference
      <3>2. Cardinality(Owing(t) \cap Tasks(w)) \in Nat
        BY OwingFinite, FS_Intersection, FS_CardinalityType
      <3> QED BY <3>1, <3>2, <1>5, OwingFinite
    <2>2. Cardinality(Owing(t) \cap Tasks(w)) <= Languages
      BY TasksCount, FS_Intersection
    <2>3. Cardinality(Owing(t) \cap Tasks(w)) \in Nat
      BY OwingFinite, FS_Intersection, FS_CardinalityType
    <2> HIDE DEF rest
    <2> QED BY <1>5, <2>1, <2>2, <2>3, WarmAssumption
  <1>7. ASSUME worker[t][w].warmed < Languages
        PROVE Cardinality(rest) + 1 <= Cardinality(Owing(t))
    <2> DEFINE last == <<w, Languages>>
    <2>1. last \in Owing(t) /\ last \in Tasks(w)
      BY <1>7, WarmAssumption DEF Owing, Tasks
    <2>2. rest \in SUBSET (Owing(t) \ {last})
      BY <2>1
    <2>3. /\ IsFiniteSet(Owing(t) \ {last})
          /\ Cardinality(Owing(t) \ {last}) = Cardinality(Owing(t)) - 1
      BY <2>1, OwingFinite, FS_RemoveElement
    <2>4. Cardinality(rest) <= Cardinality(Owing(t) \ {last})
      BY <2>2, <2>3, FS_Subset
    <2> HIDE DEF rest
    <2> QED BY <1>5, <2>3, <2>4, OwingFinite
  <1>8. ASSUME worker[t][w].warmed = Languages
        PROVE rest = Owing(t)
    BY <1>8, WarmAssumption DEF Owing, Tasks
  <1> HIDE DEF rest
  <1> QED BY <1>2, <1>4, <1>5, <1>6, <1>7, <1>8

\* A body has warmed a language.
LEMMA BodyWarms ==
  ASSUME TypeOK, NEW t \in Triggers, NEW w \in Workers, NEW b,
         worker' = [worker EXCEPT ![t][w] = b], worker[t][w].stage # "idle", b.stage # "idle",
         worker[t][w].warmed < Languages, b.warmed = worker[t][w].warmed + 1
  PROVE /\ Taken(t)' = Taken(t)
        /\ Cardinality(Owing(t)') = Cardinality(Owing(t)) - 1
  <1> DEFINE n == worker[t][w].warmed
             next == <<w, n + 1>>
  <1>1. n \in Nat /\ n < Languages /\ Languages \in Nat
    BY WarmAssumption DEF TypeOK, Body
  <1>2. Taken(t)' = Taken(t)
    BY BodyChanges DEF Taken
  <1>3. next \in Owing(t)
    BY <1>1 DEF Owing
  <1>4. Owing(t)' = Owing(t) \ {next}
    <2>1. \A d : d \in Owing(t)' <=>
                  \/ d \in Owing(t) \ Tasks(w)
                  \/ d \in Tasks(w) /\ b.stage # "idle" /\ b.warmed < d[2]
      BY BodyChanges
    <2>2. \A d \in Tasks(w) : d \in Owing(t) <=> n < d[2]
      BY DEF Owing, Tasks
    <2>3. \A d \in Tasks(w) : n + 1 < d[2] <=> n < d[2] /\ d # next
      BY <1>1 DEF Tasks
    <2>4. next \in Tasks(w)
      BY <1>1 DEF Tasks
    <2> HIDE DEF next, n
    <2>5. b.warmed = n + 1
      BY DEF n
    <2> QED BY <2>1, <2>2, <2>3, <2>4, <2>5
  <1> HIDE DEF next
  <1>5. Cardinality(Owing(t) \ {next}) = Cardinality(Owing(t)) - 1
    BY <1>3, OwingFinite, FS_RemoveElement
  <1> QED BY <1>2, <1>4, <1>5

\* A body goes on with its entry.
LEMMA BodyGoesOn ==
  ASSUME TypeOK, NEW t \in Triggers, NEW w \in Workers, NEW b,
         worker' = [worker EXCEPT ![t][w] = b], worker[t][w].stage # "idle", b.stage # "idle",
         b.warmed = worker[t][w].warmed
  PROVE Taken(t)' = Taken(t) /\ Owing(t)' = Owing(t)
  <1>1. Taken(t)' = Taken(t)
    BY BodyChanges DEF Taken
  <1>2. \A d : d \in Owing(t)' <=>
                \/ d \in Owing(t) \ Tasks(w)
                \/ d \in Tasks(w) /\ b.stage # "idle" /\ b.warmed < d[2]
    BY BodyChanges
  <1>3. \A d \in Tasks(w) : d \in Owing(t) <=> worker[t][w].warmed < d[2]
    BY DEF Owing, Tasks
  <1> QED BY <1>1, <1>2, <1>3

\* What a body that writes the progress does next.
LEMMA WriterNext ==
  ASSUME TypeOK, NEW t \in Triggers, NEW w \in Workers, WriteProgress(t, w)
  PROVE \/ worker[t][w].warmed = Languages /\ EntryDone(t, w)
        \/ worker' = [worker EXCEPT ![t][w] = [worker[t][w] EXCEPT !.stage = "warming", !.saw = 0]]
  BY DEF WriteProgress, TypeOK

\* Every step leaves a body without an entry clean.
LEMMA CleanStep == ASSUME TypeOK, BodiesClean, [Next]_vars PROVE BodiesClean'
<1>1. ASSUME UNCHANGED worker PROVE BodiesClean'
  BY <1>1 DEF BodiesClean
<1>2. ASSUME NEW t \in Triggers, NEW w \in Workers, NEW b, worker' = [worker EXCEPT ![t][w] = b],
             b.stage = "idle" => b.warmed = 0
      PROVE BodiesClean'
  BY <1>2 DEF TypeOK, BodiesClean
<1>3. ASSUME NEW t \in Triggers, NEW w \in Workers, WorkerStep(t, w)
      PROVE BodiesClean'
  <2>1. worker[t][w] \in Body
    BY DEF TypeOK
  <2>2. CASE EntryDone(t, w)
    <3>1. IdleWorker.warmed = 0
      BY DEF IdleWorker
    <3> QED BY <2>2, <3>1, <1>2 DEF EntryDone
  <2>3. CASE Take(t, w)
    <3>1. [worker[t][w] EXCEPT !.stage = "warming"].stage # "idle"
      BY <2>1 DEF Body
    <3>2. worker' = [worker EXCEPT ![t][w] = [worker[t][w] EXCEPT !.stage = "warming"]]
      BY <2>3 DEF Take
    <3> QED BY <3>1, <3>2, <1>2
  <2>4. CASE WarmLanguage(t, w)
    <3> DEFINE b == [stage |-> IF Advances(t, w) THEN "writing" ELSE "warming",
                     warmed |-> worker[t][w].warmed + 1,
                     saw |-> IF Advances(t, w) /\ progress # None THEN progress.processed ELSE 0]
    <3>1. worker' = [worker EXCEPT ![t][w] = b]
      BY <2>4 DEF WarmLanguage
    <3>2. b.stage # "idle"
      OBVIOUS
    <3> HIDE DEF b
    <3> QED BY <3>1, <3>2, <1>2
  <2>5. CASE WriteProgress(t, w)
    <3> DEFINE b == [worker[t][w] EXCEPT !.stage = "warming", !.saw = 0]
    <3>1. b.stage # "idle"
      BY <2>1 DEF Body
    <3>2. EntryDone(t, w) \/ worker' = [worker EXCEPT ![t][w] = b]
      BY <2>5, WriterNext
    <3> HIDE DEF b
    <3> QED BY <2>2, <3>1, <3>2, <1>2
  <2> QED BY <1>3, <2>2, <2>3, <2>4, <2>5 DEF WorkerStep, EntryMissing, EntryFails, EntryCanceled
<1>4. ASSUME NEW t \in Triggers, RunStep(t)
      PROVE BodiesClean'
  BY <1>1, <1>3, <1>4 DEF RunStep, Enter, Refused, Begin, WarmSingle, SkipPart, FetchInventory,
     InventoryFails, PartsDone, LoopEnds, Land, ClearProgress, Fail, Release
<1> QED BY <1>1, <1>4 DEF Next, Call, Stop, vars

\* The total changes only when a run fetches an inventory, which no other walks then.
LEMMA TotalStep == ASSUME IInv, [Next]_vars PROVE TotalStands'
<1> USE DEF IInv, Accounted
<1>1. ASSUME NEW t \in Triggers, NEW stage, Goto(t, stage), stage # "looping",
             \A u \in Triggers : u # t => source'[u] = source[u], UNCHANGED progress
      PROVE TotalStands'
  BY <1>1 DEF Goto, TypeOK, TotalStands
<1>2. ASSUME UNCHANGED <<pc, source, progress>>
      PROVE TotalStands'
  BY <1>2 DEF TotalStands
\* Only one run walks an inventory.
<1>3. ASSUME NEW t \in Triggers, Inside(t), NEW u \in Triggers, pc[u] = "looping"
      PROVE u = t
  BY <1>3 DEF GateHeld, Inside
<1>4. ASSUME NEW t \in Triggers, NEW stage, Goto(t, stage), stage # "looping", Inside(t)
      PROVE TotalStands'
  <2>1. \A u \in Triggers : pc'[u] # "looping"
    BY <1>3, <1>4 DEF Goto, TypeOK
  <2> QED BY <2>1 DEF TotalStands
<1>5. ASSUME NEW t \in Triggers, FetchInventory(t)
      PROVE TotalStands'
  <2>1. Inside(t) /\ pc[t] = "parts" /\ progress # None /\ run[t].parts # <<>>
    BY <1>5 DEF FetchInventory, Inside, ProgressNeverLeads
  <2>2. \A u \in Triggers : pc'[u] = "looping" => u = t
    BY <1>5, <2>1, <1>3 DEF FetchInventory, Goto, TypeOK
  <2>3. ASSUME source[t] # "all" PROVE progress'.total = Count[source[t]] * Languages
    <3>1. run[t].parts = <<source[t]>>
      BY <2>1, <2>3 DEF RunAccounted, Fresh
    <3>2. Head(run[t].parts) = source[t]
      BY <3>1
    <3> QED BY <1>5, <2>1, <3>2 DEF FetchInventory, SetProgressTotal, TypeOK, Progress
  <2> QED BY <1>5, <2>2, <2>3 DEF FetchInventory, TotalStands
<1>6. ASSUME NEW t \in Triggers, NEW w \in Workers, WriteProgress(t, w)
      PROVE TotalStands'
  <2>1. progress # None
    BY <1>6 DEF WriteProgress, Busy, ProgressNeverLeads
  <2>2. progress'.total = progress.total
    BY <1>6, <2>1 DEF WriteProgress, TypeOK, Progress
  <2> QED BY <1>6, <2>2 DEF WriteProgress, TotalStands
<1>7. ASSUME NEW t \in Triggers, NEW s \in Sources, Call(t, s)
      PROVE TotalStands'
  BY <1>7, <1>1 DEF Call, TypeOK
<1>8. ASSUME NEW t \in Triggers, RunStep(t)
      PROVE TotalStands'
  <2>1. CASE Enter(t) \/ PartsDone(t) \/ Land(t)
    BY <2>1, <1>1 DEF Enter, PartsDone, Land
  <2>2. CASE Refused(t) \/ Release(t)
    BY <2>2, <1>1 DEF Refused, Release, TypeOK
  <2>3. CASE Fail(t) \/ LoopEnds(t)
    BY <2>3, <1>1 DEF Fail, LoopEnds
  <2>4. CASE WarmSingle(t) \/ \E how \in {"failed", "canceled"} : InventoryFails(t, how)
    BY <2>4, <1>1 DEF WarmSingle, InventoryFails, Throw
  <2>5. CASE Begin(t) \/ ClearProgress(t)
    BY <2>5, <1>4 DEF Begin, ClearProgress, Inside
  <2>6. CASE SkipPart(t)
    BY <2>6, <1>2 DEF SkipPart
  <2>7. CASE \E w \in Workers : WorkerStep(t, w)
    BY <2>7, <1>2, <1>6 DEF WorkerStep, Take, EntryMissing, EntryFails, EntryCanceled, WarmLanguage
  <2> QED BY <1>8, <1>5, <2>1, <2>2, <2>3, <2>4, <2>5, <2>6, <2>7 DEF RunStep
<1>9. CASE Stop \/ UNCHANGED vars
  BY <1>9, <1>2 DEF Stop, vars
<1> QED BY <1>7, <1>8, <1>9 DEF Next

\* A result is published by a run that lands or fails.
LEMMA ResultStep == ASSUME IInv, [Next]_vars PROVE EntriesAccounted'
<1> USE DEF IInv, Accounted
<1>1. ASSUME status'.last = status.last
      PROVE EntriesAccounted'
  BY <1>1 DEF EntriesAccounted
<1>2. ASSUME NEW t \in Triggers, Land(t)
      PROVE EntriesAccounted'
  <2>1. status'.last = ResultOf(t)
    BY <1>2 DEF Land
  <2>2. ASSUME NEW p \in Configured, source[t] = p
        PROVE Complete(Count[p], Bad(t), run[t].items)
    BY <1>2, <2>2, WarmAssumption DEF Land, RunAccounted, Parts
  <2> QED BY <2>1, <2>2 DEF EntriesAccounted, ResultOf, Complete, Bad
<1>3. ASSUME NEW t \in Triggers, Fail(t)
      PROVE EntriesAccounted'
  <2>1. status'.last = Failed(t)
    BY <1>3 DEF Fail
  <2>2. \A p \in Configured : Failed(t).source = p =>
          Failed(t) = [source |-> p, items |-> 0, missing |-> 0, errors |-> 1, skipped |-> FALSE]
    BY DEF Failed
  <2> HIDE DEF IInv, Accounted
  <2> QED BY <2>1, <2>2 DEF EntriesAccounted
<1>4. ASSUME NEW t \in Triggers, Begin(t)
      PROVE EntriesAccounted'
  BY <1>4, <1>1 DEF Begin, TypeOK
<1>5. ASSUME NEW t \in Triggers, RunStep(t), ~Land(t), ~Fail(t), ~Begin(t)
      PROVE status' = status
  BY <1>5 DEF RunStep, Enter, Refused, WarmSingle, SkipPart, FetchInventory, InventoryFails,
              PartsDone, LoopEnds, ClearProgress, Release, WorkerStep, Take, EntryMissing,
              EntryFails, EntryCanceled, WarmLanguage, WriteProgress
<1> QED BY <1>1, <1>2, <1>3, <1>4, <1>5 DEF Next, Call, Stop, vars

\* A run that no step touches stays accounted for.
LEMMA OthersKeep ==
  ASSUME NEW t \in Triggers, \A u \in Triggers : RunAccounted(u),
         \A u \in Triggers : u # t =>
           /\ pc'[u] = pc[u] /\ source'[u] = source[u] /\ run'[u] = run[u]
           /\ Taken(u)' = Taken(u) /\ Owing(u)' = Owing(u),
         RunAccounted(t)'
  PROVE \A u \in Triggers : RunAccounted(u)'
  <1> SUFFICES ASSUME NEW u \in Triggers, u # t PROVE RunAccounted(u)'
    OBVIOUS
  <1>1. /\ pc'[u] = pc[u] /\ source'[u] = source[u] /\ run'[u] = run[u]
        /\ Cardinality(Taken(u)') = Cardinality(Taken(u))
        /\ Cardinality(Owing(u)') = Cardinality(Owing(u))
    OBVIOUS
  <1> QED BY <1>1 DEF RunAccounted, Fresh, Bad

\* r is q but for its counts, which are these.
Recounts(r, q, left, bad, items, aborted) ==
  /\ r \in Run
  /\ r.parts = q.parts
  /\ r.left = left
  /\ r.missing + r.errors = bad
  /\ r.items = items
  /\ r.aborted = aborted

\* An entry is missing.
LEMMA MissingCounted ==
  ASSUME NEW q \in Run
  PROVE Recounts([q EXCEPT !.missing = q.missing + 1],
                 q, q.left, (q.missing + q.errors) + 1, q.items, q.aborted)
  <1> DEFINE r == [q EXCEPT !.missing = q.missing + 1]
  <1>1. q.left \in Nat /\ q.missing \in Nat /\ q.errors \in Nat /\ q.items \in Nat
    BY DEF Run
  <1>2. r \in Run
    <2>1. q.missing + 1 \in Nat
      BY <1>1
    <2> QED BY <2>1, RunFields
  <1>3. r.parts = q.parts /\ r.left = q.left /\ r.items = q.items /\ r.aborted = q.aborted
    BY DEF Run
  <1>4. r.missing = q.missing + 1 /\ r.errors = q.errors
    BY DEF Run
  <1> HIDE DEF r
  <1>5. r.missing + r.errors = (q.missing + q.errors) + 1
    BY <1>1, <1>4
  <1>6. Recounts(r, q, q.left, (q.missing + q.errors) + 1, q.items, q.aborted)
    BY <1>2, <1>3, <1>4, <1>5 DEF Recounts
  <1> QED BY <1>6 DEF r

\* An entry fails.
LEMMA ErrorCounted ==
  ASSUME NEW q \in Run
  PROVE Recounts([q EXCEPT !.errors = q.errors + 1],
                 q, q.left, (q.missing + q.errors) + 1, q.items, q.aborted)
  <1> DEFINE r == [q EXCEPT !.errors = q.errors + 1]
  <1>1. q.left \in Nat /\ q.missing \in Nat /\ q.errors \in Nat /\ q.items \in Nat
    BY DEF Run
  <1>2. r \in Run
    <2>1. q.errors + 1 \in Nat
      BY <1>1
    <2> QED BY <2>1, RunFields
  <1>3. r.parts = q.parts /\ r.left = q.left /\ r.items = q.items /\ r.aborted = q.aborted
    BY DEF Run
  <1>4. r.missing = q.missing /\ r.errors = q.errors + 1
    BY DEF Run
  <1> HIDE DEF r
  <1>5. r.missing + r.errors = (q.missing + q.errors) + 1
    BY <1>1, <1>4
  <1>6. Recounts(r, q, q.left, (q.missing + q.errors) + 1, q.items, q.aborted)
    BY <1>2, <1>3, <1>4, <1>5 DEF Recounts
  <1> QED BY <1>6 DEF r

\* A language is warm.
LEMMA ItemCounted ==
  ASSUME NEW q \in Run
  PROVE Recounts([q EXCEPT !.items = q.items + 1],
                 q, q.left, q.missing + q.errors, q.items + 1, q.aborted)
  <1> DEFINE r == [q EXCEPT !.items = q.items + 1]
  <1>1. q.left \in Nat /\ q.missing \in Nat /\ q.errors \in Nat /\ q.items \in Nat
    BY DEF Run
  <1>2. r \in Run
    <2>1. q.items + 1 \in Nat
      BY <1>1
    <2> QED BY <2>1, RunFields
  <1>3. r.parts = q.parts /\ r.left = q.left /\ r.items = q.items + 1 /\ r.aborted = q.aborted
    BY DEF Run
  <1>4. r.missing = q.missing /\ r.errors = q.errors
    BY DEF Run
  <1> HIDE DEF r
  <1>5. r.missing + r.errors = q.missing + q.errors
    BY <1>1, <1>4
  <1>6. Recounts(r, q, q.left, q.missing + q.errors, q.items + 1, q.aborted)
    BY <1>2, <1>3, <1>4, <1>5 DEF Recounts
  <1> QED BY <1>6 DEF r

\* A cancellation ends the loop.
LEMMA AbortCounted ==
  ASSUME NEW q \in Run
  PROVE Recounts([q EXCEPT !.aborted = TRUE],
                 q, q.left, q.missing + q.errors, q.items, TRUE)
  <1> DEFINE r == [q EXCEPT !.aborted = TRUE]
  <1>1. q.left \in Nat /\ q.missing \in Nat /\ q.errors \in Nat /\ q.items \in Nat
    BY DEF Run
  <1>2. r \in Run
    BY <1>1, RunFields
  <1>3. r.parts = q.parts /\ r.left = q.left /\ r.items = q.items /\ r.aborted = TRUE
    BY DEF Run
  <1>4. r.missing = q.missing /\ r.errors = q.errors
    BY DEF Run
  <1> HIDE DEF r
  <1>5. r.missing + r.errors = q.missing + q.errors
    BY <1>1, <1>4
  <1>6. Recounts(r, q, q.left, q.missing + q.errors, q.items, TRUE)
    BY <1>2, <1>3, <1>4, <1>5 DEF Recounts
  <1> QED BY <1>6 DEF r

\* The step of a body keeps the balance of its run.
LEMMA BodyStep ==
  ASSUME IInv, NEW t \in Triggers, NEW w \in Workers, WorkerStep(t, w)
  PROVE \A u \in Triggers : RunAccounted(u)'
  <1> DEFINE n == Count[source[t]]
             taken == Cardinality(Taken(t))
             owing == Cardinality(Owing(t))
             taken2 == Cardinality(Taken(t)')
             owing2 == Cardinality(Owing(t)')
  <1>1. /\ pc[t] = "looping" /\ UNCHANGED <<pc, source>> /\ TypeOK
        /\ worker[t][w] \in Body /\ run[t] \in Run
    BY DEF WorkerStep, Take, EntryMissing, EntryFails, EntryCanceled, WarmLanguage, WriteProgress,
           Busy, IInv, TypeOK
  <1>2. /\ run[t].left \in Nat /\ run[t].missing \in Nat /\ run[t].errors \in Nat
        /\ run[t].items \in Nat /\ run[t].aborted \in BOOLEAN /\ Bad(t) \in Nat
    BY <1>1 DEF Run, Bad
  <1>3. taken \in Nat /\ owing \in Nat
    BY OwingFinite
  <1>4. ASSUME source[t] # "all"
        PROVE /\ source[t] \in Configured /\ run[t].parts = <<>> /\ n \in Nat
              /\ Balanced(n, run[t].left, Bad(t), run[t].items, taken, owing, run[t].aborted)
    BY <1>1, <1>4, WarmAssumption DEF IInv, Accounted, RunAccounted
\* What is to be shown: the rest of the balance sheet goes with it.
  <1>5. ASSUME NEW r \in Run, run' = [run EXCEPT ![t] = r], r.parts = run[t].parts,
               NEW b, worker' = [worker EXCEPT ![t][w] = b],
               source[t] # "all" =>
                 Balanced(n, r.left, r.missing + r.errors, r.items, taken2, owing2, r.aborted)
        PROVE \A u \in Triggers : RunAccounted(u)'
    <2>1. run'[t] = r /\ \A u \in Triggers : u # t => run'[u] = run[u]
      BY <1>1, <1>5 DEF TypeOK
    <2>2. \A u \in Triggers : u # t => Taken(u)' = Taken(u) /\ Owing(u)' = Owing(u)
      BY <1>1, <1>5, BodyChanges
    <2>3. RunAccounted(t)'
      BY <1>1, <1>4, <1>5, <2>1 DEF RunAccounted, Bad
    <2> QED BY <1>1, <2>1, <2>2, <2>3, OthersKeep DEF IInv, Accounted
  <1> HIDE DEF taken, owing, taken2, owing2, n
  <1>6. CASE Take(t, w)
    <2> DEFINE r == [run[t] EXCEPT !.left = run[t].left - 1]
               b == [worker[t][w] EXCEPT !.stage = "warming"]
    <2>1. run' = [run EXCEPT ![t] = r] /\ worker' = [worker EXCEPT ![t][w] = b]
      BY <1>6 DEF Take
    <2>2. worker[t][w].stage = "idle" /\ run[t].left > 0 /\ worker[t][w].warmed = 0
      BY <1>6 DEF Take, Busy, IInv, Accounted, BodiesClean
    <2>3. b.stage # "idle" /\ b.warmed = 0
      BY <1>1, <2>2 DEF Body
    <2>4. /\ r \in Run /\ r.left = run[t].left - 1 /\ r.missing = run[t].missing
          /\ r.errors = run[t].errors /\ r.items = run[t].items /\ r.aborted = run[t].aborted
          /\ r.parts = run[t].parts
      <3>1. run[t].left - 1 \in Nat
        BY <1>2, <2>2
      <3>2. r \in Run
        BY <1>1, <3>1, RunFields
      <3> QED BY <1>1, <3>2 DEF Run
    <2> HIDE DEF r, b
    <2>5. taken2 = taken + 1 /\ owing2 = owing + Languages
      BY <1>1, <2>1, <2>2, <2>3, BodyTakes DEF taken, owing, taken2, owing2
    <2>6. ASSUME source[t] # "all"
          PROVE Balanced(n, r.left, r.missing + r.errors, r.items, taken2, owing2, r.aborted)
      <3>1. n \in Nat
        BY <1>4, <2>6
      <3>2. Balanced(n, run[t].left, Bad(t), run[t].items, taken, owing, run[t].aborted)
        BY <1>4, <2>6
      <3>3. Balanced(n, run[t].left - 1, Bad(t), run[t].items, taken + 1, owing + Languages, run[t].aborted)
        BY <2>2, <1>2, <1>3, <3>1, <3>2, TakeBalance
      <3> QED BY <2>4, <2>5, <3>3 DEF Bad
    <2> QED BY <1>5, <2>1, <2>4, <2>6
  <1>7. CASE EntryMissing(t, w) \/ EntryFails(t, w)
    <2>1. PICK r : /\ run' = [run EXCEPT ![t] = r]
                   /\ Recounts(r, run[t], run[t].left, Bad(t) + 1, run[t].items, run[t].aborted)
      <3>1. CASE EntryMissing(t, w)
        <4>1. run' = [run EXCEPT ![t] = [run[t] EXCEPT !.missing = run[t].missing + 1]]
          BY <3>1 DEF EntryMissing
        <4> QED BY <1>1, <4>1, MissingCounted DEF Bad
      <3>2. CASE EntryFails(t, w)
        <4>1. run' = [run EXCEPT ![t] = [run[t] EXCEPT !.errors = run[t].errors + 1]]
          BY <3>2 DEF EntryFails
        <4> QED BY <1>1, <4>1, ErrorCounted DEF Bad
      <3> QED BY <1>7, <3>1, <3>2
    <2>2. /\ r \in Run /\ r.left = run[t].left /\ r.missing + r.errors = Bad(t) + 1
          /\ r.items = run[t].items /\ r.aborted = run[t].aborted /\ r.parts = run[t].parts
      BY <2>1 DEF Recounts
    <2>3. EntryDone(t, w) /\ worker[t][w].stage = "warming" /\ worker[t][w].warmed < Languages
      BY <1>7 DEF EntryMissing, EntryFails, Busy, IInv, BodiesInLoop
    <2>4. taken2 = taken - 1 /\ Sheds(owing, owing2)
      BY <1>1, <2>3, BodyEnds DEF taken, owing, taken2, owing2, Sheds
    <2>5. ASSUME source[t] # "all"
          PROVE Balanced(n, r.left, r.missing + r.errors, r.items, taken2, owing2, r.aborted)
      <3>1. n \in Nat
        BY <1>4, <2>5
      <3>2. Balanced(n, run[t].left, Bad(t), run[t].items, taken, owing, run[t].aborted)
        BY <1>4, <2>5
      <3>3. Balanced(n, run[t].left, Bad(t) + 1, run[t].items, taken - 1, owing2, run[t].aborted)
        BY <2>4, <1>2, <1>3, <3>1, <3>2, BadBalance
      <3> QED BY <2>2, <2>4, <3>3
    <2> QED BY <1>5, <2>1, <2>2, <2>3, <2>5 DEF EntryDone
  <1>8. CASE EntryCanceled(t, w)
    <2> DEFINE r == [run[t] EXCEPT !.aborted = TRUE]
    <2>1. run' = [run EXCEPT ![t] = r] /\ EntryDone(t, w) /\ worker[t][w].stage = "warming"
      BY <1>8 DEF EntryCanceled, Busy
    <2>2. /\ r \in Run /\ r.left = run[t].left /\ r.missing + r.errors = Bad(t)
          /\ r.items = run[t].items /\ r.aborted = TRUE /\ r.parts = run[t].parts
      BY <1>1, AbortCounted DEF Recounts, Bad
    <2> HIDE DEF r
    <2>3. taken2 = taken - 1 /\ owing2 \in Nat /\ owing2 <= owing
      BY <1>1, <2>1, BodyEnds DEF taken, owing, taken2, owing2
    <2>4. ASSUME source[t] # "all"
          PROVE Balanced(n, r.left, r.missing + r.errors, r.items, taken2, owing2, r.aborted)
      <3>1. n \in Nat
        BY <1>4, <2>4
      <3>2. Balanced(n, run[t].left, Bad(t), run[t].items, taken, owing, run[t].aborted)
        BY <1>4, <2>4
      <3>3. Balanced(n, run[t].left, Bad(t), run[t].items, taken - 1, owing2, TRUE)
        BY <2>3, <1>2, <1>3, <3>1, <3>2, CancelBalance
      <3> QED BY <2>2, <2>3, <3>3
    <2> QED BY <1>5, <2>1, <2>2, <2>4 DEF EntryDone
  <1>9. CASE WarmLanguage(t, w)
    <2> DEFINE r == [run[t] EXCEPT !.items = run[t].items + 1]
               b == [stage |-> IF Advances(t, w) THEN "writing" ELSE "warming",
                     warmed |-> worker[t][w].warmed + 1,
                     saw |-> IF Advances(t, w) /\ progress # None THEN progress.processed ELSE 0]
    <2>1. run' = [run EXCEPT ![t] = r] /\ worker' = [worker EXCEPT ![t][w] = b]
      BY <1>9 DEF WarmLanguage
    <2>2. worker[t][w].stage = "warming" /\ worker[t][w].warmed < Languages
      BY <1>9 DEF WarmLanguage, Busy, IInv, BodiesInLoop
    <2>3. b.stage # "idle" /\ b.warmed = worker[t][w].warmed + 1
      OBVIOUS
    <2>4. /\ r \in Run /\ r.left = run[t].left /\ r.missing + r.errors = Bad(t)
          /\ r.items = run[t].items + 1 /\ r.aborted = run[t].aborted /\ r.parts = run[t].parts
      BY <1>1, ItemCounted DEF Recounts, Bad
    <2> HIDE DEF r, b
    <2>5. taken2 = taken /\ owing2 = owing - 1
      BY <1>1, <2>1, <2>2, <2>3, BodyWarms DEF taken, owing, taken2, owing2
    <2>6. ASSUME source[t] # "all"
          PROVE Balanced(n, r.left, r.missing + r.errors, r.items, taken2, owing2, r.aborted)
      <3>1. n \in Nat
        BY <1>4, <2>6
      <3>2. Balanced(n, run[t].left, Bad(t), run[t].items, taken, owing, run[t].aborted)
        BY <1>4, <2>6
      <3>3. Balanced(n, run[t].left, Bad(t), run[t].items + 1, taken, owing - 1, run[t].aborted)
        BY <1>2, <1>3, <3>1, <3>2, WarmBalance
      <3> QED BY <2>4, <2>5, <3>3
    <2> QED BY <1>5, <2>1, <2>4, <2>6
  <1>10. CASE WriteProgress(t, w)
    <2>1. run' = [run EXCEPT ![t] = run[t]] /\ worker[t][w].stage = "writing"
      BY <1>1, <1>10 DEF WriteProgress, Busy, TypeOK
    <2>2. run[t].missing + run[t].errors = Bad(t)
      BY DEF Bad
    <2>3. CASE worker[t][w].warmed = Languages /\ EntryDone(t, w)
      <3>1. taken2 = taken - 1 /\ owing2 = owing
        BY <1>1, <2>1, <2>3, BodyEnds DEF taken, owing, taken2, owing2
      <3>2. source[t] # "all" =>
              Balanced(n, run[t].left, Bad(t), run[t].items, taken - 1, owing, run[t].aborted)
        BY <1>2, <1>3, <1>4, ThroughBalance
      <3> QED BY <1>1, <1>5, <2>1, <2>2, <2>3, <3>1, <3>2 DEF EntryDone
    <2> DEFINE b == [worker[t][w] EXCEPT !.stage = "warming", !.saw = 0]
    <2>4. CASE worker' = [worker EXCEPT ![t][w] = b]
      <3>1. b.stage # "idle" /\ b.warmed = worker[t][w].warmed
        BY <1>1 DEF Body
      <3> HIDE DEF b
      <3>2. taken2 = taken /\ owing2 = owing
        BY <1>1, <2>1, <2>4, <3>1, BodyGoesOn DEF taken, owing, taken2, owing2
      <3> QED BY <1>1, <1>4, <1>5, <2>1, <2>2, <2>4, <3>2
    <2> QED BY <1>1, <1>10, <2>3, <2>4, WriterNext
  <1> QED BY <1>6, <1>7, <1>8, <1>9, <1>10 DEF WorkerStep

\* Every step keeps the accounts of every run.
LEMMA AccountStep == ASSUME IInv, [Next]_vars PROVE \A u \in Triggers : RunAccounted(u)'
<1> USE DEF IInv, Accounted
<1> DEFINE Leaves(t) == \A u \in Triggers : u # t =>
                           /\ pc'[u] = pc[u] /\ source'[u] = source[u] /\ run'[u] = run[u]
\* The actor's own account is what a step outside the loop has to keep.
<1>1. ASSUME NEW t \in Triggers, Leaves(t), UNCHANGED worker, RunAccounted(t)'
      PROVE \A u \in Triggers : RunAccounted(u)'
  <2>1. \A u \in Triggers : Taken(u)' = Taken(u) /\ Owing(u)' = Owing(u)
    BY <1>1 DEF Taken, Owing
  <2> QED BY <1>1, <2>1, OthersKeep
<1>2. ASSUME NEW t \in Triggers, Leaves(t), UNCHANGED worker,
             pc'[t] \notin {"parts", "looping", "landing"}
      PROVE \A u \in Triggers : RunAccounted(u)'
  <2>1. RunAccounted(t)'
    BY <1>2 DEF RunAccounted
  <2> QED BY <1>1, <1>2, <2>1
<1>3. ASSUME UNCHANGED <<pc, source, run, worker>>
      PROVE \A u \in Triggers : RunAccounted(u)'
  <2> SUFFICES ASSUME NEW u \in Triggers PROVE RunAccounted(u)'
    OBVIOUS
  <2>1. Taken(u)' = Taken(u) /\ Owing(u)' = Owing(u)
    BY <1>3 DEF Taken, Owing
  <2>2. Cardinality(Taken(u)') = Cardinality(Taken(u)) /\ Cardinality(Owing(u)') = Cardinality(Owing(u))
    BY <2>1
  <2> QED BY <1>3, <2>2 DEF RunAccounted, Fresh, Bad
\* A run begins with the parts of its source, and with nothing counted.
<1>4. ASSUME NEW t \in Triggers, Begin(t)
      PROVE \A u \in Triggers : RunAccounted(u)'
  <2> DEFINE r == [NoRun EXCEPT !.parts = PartsOf(source[t])]
  <2>1. run'[t] = r /\ pc'[t] = "parts" /\ source' = source /\ worker' = worker /\ Leaves(t)
    BY <1>4 DEF Begin, Goto, TypeOK
  <2>2. /\ r.parts = PartsOf(source[t]) /\ r.items = 0 /\ r.missing = 0 /\ r.errors = 0
        /\ ~r.aborted
    BY DEF NoRun
  <2>3. source[t] \in Sources
    BY <1>4 DEF Begin, SourceKnown
  <2> HIDE DEF r
  <2>4. CASE source[t] = "single"
    <3>1. r.parts = <<>> /\ source[t] \notin Configured
      BY <2>2, <2>4, WarmAssumption DEF PartsOf, Parts
    <3> QED BY <1>1, <2>1, <3>1 DEF RunAccounted
  <2>5. CASE source[t] \in {"movies", "shows"}
    <3>1. r.parts = <<source[t]>> /\ r.parts # <<>>
      BY <2>2, <2>5 DEF PartsOf
    <3>2. RunAccounted(t)'
      BY <2>1, <2>2, <3>1 DEF RunAccounted, Fresh
    <3> QED BY <1>1, <2>1, <3>2
  <2>6. CASE source[t] = "all"
    BY <1>1, <2>1, <2>6 DEF RunAccounted
  <2> QED BY <2>3, <2>4, <2>5, <2>6 DEF Sources
<1>5. ASSUME NEW t \in Triggers, WarmSingle(t)
      PROVE \A u \in Triggers : RunAccounted(u)'
  <2>1. source[t] = "single" /\ source[t] \notin Configured
    BY <1>5, WarmAssumption DEF WarmSingle, Parts
  <2>2. pc'[t] \notin {"parts", "looping"} /\ source' = source /\ worker' = worker /\ Leaves(t)
    BY <1>5 DEF WarmSingle, Goto, Throw, TypeOK
  <2> QED BY <1>1, <2>1, <2>2 DEF RunAccounted
\* What is skipped is not configured.
<1>6. ASSUME NEW t \in Triggers, SkipPart(t)
      PROVE \A u \in Triggers : RunAccounted(u)'
  <2> DEFINE r == [run[t] EXCEPT !.parts = Tail(run[t].parts),
                                 !.skipped = source[t] # "all" \/ Configured = {}]
  <2>1. run' = [run EXCEPT ![t] = r] /\ UNCHANGED <<pc, source, worker>> /\ pc[t] = "parts"
    BY <1>6 DEF SkipPart
  <2>2. r.parts = Tail(run[t].parts)
    BY DEF TypeOK, Run
  <2> HIDE DEF r
  <2>3. run'[t] = r /\ Leaves(t)
    BY <2>1 DEF TypeOK
  <2>4. ASSUME source[t] # "all" PROVE r.parts = <<>> /\ source[t] \notin Configured
    <3>1. run[t].parts = <<source[t]>> /\ Head(run[t].parts) \notin Configured
      BY <1>6, <2>1, <2>4 DEF SkipPart, RunAccounted, Fresh
    <3>2. Head(<<source[t]>>) = source[t] /\ Tail(<<source[t]>>) = <<>>
      OBVIOUS
    <3> QED BY <2>2, <3>1, <3>2
  <2> QED BY <1>1, <2>1, <2>3, <2>4 DEF RunAccounted
\* The loop begins with every entry left and no body at work.
<1>7. ASSUME NEW t \in Triggers, FetchInventory(t)
      PROVE \A u \in Triggers : RunAccounted(u)'
  <2> DEFINE part == Head(run[t].parts)
             r == [run[t] EXCEPT !.part = part, !.left = Count[part], !.parts = Tail(run[t].parts)]
  <2>1. /\ run' = [run EXCEPT ![t] = r] /\ pc' = [pc EXCEPT ![t] = "looping"]
        /\ UNCHANGED <<source, worker>> /\ pc[t] = "parts" /\ part \in Configured
        /\ run[t].parts # <<>>
    BY <1>7 DEF FetchInventory, Goto
  <2>2. /\ r.parts = Tail(run[t].parts) /\ r.left = Count[part] /\ r.items = run[t].items
        /\ r.missing = run[t].missing /\ r.errors = run[t].errors /\ r.aborted = run[t].aborted
    BY DEF TypeOK, Run
  <2> HIDE DEF r
  <2>3. run'[t] = r /\ pc'[t] = "looping" /\ Leaves(t)
    BY <2>1 DEF TypeOK
  <2>4. Cardinality(Taken(t)') = 0 /\ Cardinality(Owing(t)') = 0
    <3>1. \A w \in Workers : worker[t][w].stage = "idle"
      BY <2>1 DEF BodiesInLoop
    <3>2. Taken(t)' = {} /\ Owing(t)' = {}
      BY <2>1, <3>1 DEF Taken, Owing
    <3> QED BY <3>2, FS_EmptySet
  <2>5. ASSUME source[t] # "all"
        PROVE /\ r.parts = <<>> /\ source[t] \in Configured
              /\ Balanced(Count[source[t]], r.left, r.missing + r.errors, r.items, 0, 0, r.aborted)
    <3>1. Fresh(t)
      BY <2>1, <2>5 DEF RunAccounted
    <3>2. Head(<<source[t]>>) = source[t] /\ Tail(<<source[t]>>) = <<>>
      OBVIOUS
    <3>3. part = source[t] /\ r.parts = <<>>
      BY <2>2, <3>1, <3>2 DEF Fresh
    <3>4. Count[source[t]] \in Nat
      BY <2>1, <3>3, WarmAssumption
    <3>5. r.missing + r.errors = 0 /\ r.items = 0 /\ r.aborted = FALSE
      BY <2>2, <3>1 DEF Fresh, TypeOK, Run
    <3> HIDE DEF part
    <3> QED BY <2>1, <2>2, <3>3, <3>4, <3>5, StartBalance
  <2>6. RunAccounted(t)'
    BY <2>1, <2>3, <2>4, <2>5 DEF RunAccounted, Bad
  <2> QED BY <1>1, <2>1, <2>3, <2>6
<1>8. ASSUME NEW t \in Triggers, PartsDone(t)
      PROVE \A u \in Triggers : RunAccounted(u)'
  <2>1. /\ pc'[t] = "landing" /\ Leaves(t) /\ UNCHANGED <<source, run, worker>>
        /\ pc[t] = "parts" /\ run[t].parts = <<>>
    BY <1>8 DEF PartsDone, Goto, TypeOK
  <2>2. RunAccounted(t)'
    BY <2>1 DEF RunAccounted, Bad
  <2> QED BY <1>1, <2>1, <2>2
\* The loop ends with nothing left and nobody at work, or the run is over.
<1>9. ASSUME NEW t \in Triggers, LoopEnds(t)
      PROVE \A u \in Triggers : RunAccounted(u)'
  <2>1. Leaves(t) /\ UNCHANGED <<source, run, worker>> /\ pc[t] = "looping"
    BY <1>9 DEF LoopEnds, Goto, TypeOK
  <2>2. CASE run[t].aborted
    BY <1>2, <1>9, <2>1, <2>2 DEF LoopEnds, Goto, TypeOK
  <2>3. CASE ~run[t].aborted
    <3>1. pc'[t] = "parts" /\ run[t].left = 0 /\ \A w \in Workers : worker[t][w].stage = "idle"
      BY <1>9, <2>3 DEF LoopEnds, Goto, TypeOK
    <3>2. Cardinality(Taken(t)) = 0 /\ Cardinality(Owing(t)) = 0
      <4>1. Taken(t) = {} /\ Owing(t) = {}
        BY <3>1 DEF Taken, Owing
      <4> QED BY <4>1, FS_EmptySet
    <3>3. ASSUME source[t] # "all"
          PROVE run[t].parts = <<>> /\ Complete(Count[source[t]], Bad(t), run[t].items)
      <4>1. /\ source[t] \in Configured /\ run[t].parts = <<>>
            /\ Balanced(Count[source[t]], 0, Bad(t), run[t].items, 0, 0, run[t].aborted)
        BY <2>1, <3>1, <3>2, <3>3 DEF RunAccounted
      <4>2. run[t].aborted = FALSE /\ Bad(t) \in Nat /\ run[t].items \in Nat
        BY <2>3 DEF TypeOK, Run, Bad
      <4>3. Count[source[t]] \in Nat
        BY <4>1, WarmAssumption
      <4> QED BY <4>1, <4>2, <4>3, EndBalance
    <3>4. RunAccounted(t)'
      BY <2>1, <3>1, <3>3 DEF RunAccounted, Bad
    <3> QED BY <1>1, <2>1, <3>4
  <2> QED BY <2>2, <2>3
<1>10. ASSUME NEW t \in Triggers, NEW s \in Sources, Call(t, s)
       PROVE \A u \in Triggers : RunAccounted(u)'
  BY <1>10, <1>2 DEF Call, Goto, TypeOK
<1>11. ASSUME NEW t \in Triggers, RunStep(t)
       PROVE \A u \in Triggers : RunAccounted(u)'
  <2>1. CASE Enter(t) \/ Refused(t) \/ Land(t) \/ ClearProgress(t)
    BY <2>1, <1>2 DEF Enter, Refused, Land, ClearProgress, Goto, TypeOK
  <2>2. CASE Fail(t)
    BY <2>2, <1>2 DEF Fail, Goto, TypeOK
  <2>3. CASE Release(t)
    BY <2>3, <1>2 DEF Release, Goto, TypeOK
  <2>4. CASE \E how \in {"failed", "canceled"} : InventoryFails(t, how)
    BY <2>4, <1>2 DEF InventoryFails, Throw, Goto, TypeOK
  <2>5. CASE \E w \in Workers : WorkerStep(t, w)
    BY <2>5, BodyStep
  <2> QED BY <1>11, <1>4, <1>5, <1>6, <1>7, <1>8, <1>9, <2>1, <2>2, <2>3, <2>4, <2>5 DEF RunStep
<1>12. CASE Stop \/ UNCHANGED vars
  BY <1>12, <1>3 DEF Stop, vars
<1> QED BY <1>10, <1>11, <1>12 DEF Next

\* The invariant is inductive.
LEMMA NextIInv == IInv /\ [Next]_vars => IInv'
  BY TypeStep, SourceStep, GateStep, StatusStep, BodiesStep, ProgressStep, CleanStep,
     TotalStep, ResultStep, AccountStep DEF IInv, Accounted

-----------------------------------------------------------------------------
\* The theorems

\* The inductive invariant holds for any triggers, bodies and inventories.
THEOREM WarmerInvariant == Spec => []IInv
  BY InitIInv, NextIInv, PTL DEF Spec

\* Every variable of the warmer keeps its type.
THEOREM TypeCorrect == Spec => []TypeOK
  <1>1. IInv => TypeOK
    BY DEF IInv
  <1> QED BY <1>1, WarmerInvariant, PTL

\* No two runs overlap, whatever triggers race (CacheWarmer.cs:488-492).
THEOREM GateExcludes == Spec => []OneRunAtATime
  <1>1. IInv => OneRunAtATime
    BY DEF IInv, GateHeld, OneRunAtATime
  <1> QED BY <1>1, WarmerInvariant, PTL

\* A status that shows a run shows one that is on and holds the gate: a failed run
\* resets it too (CacheWarmer.cs:504-516).
THEOREM StatusTruthful == Spec => []NeverStuckRunning
  <1>1. IInv => NeverStuckRunning
    BY DEF IInv, StatusFollowsRun, Published, GateHeld, Inside, NeverStuckRunning
  <1> QED BY <1>1, WarmerInvariant, PTL

\* The progress shows no more than was warmed, although its updates are not
\* synchronized (CacheWarmer.cs:551-555).
THEOREM ProgressHonest == Spec => []ProgressNeverLeads
  <1>1. IInv => ProgressNeverLeads
    BY DEF IInv
  <1> QED BY <1>1, WarmerInvariant, PTL

\* What a run shows while it is on and when it has landed agree with its inventory: the
\* result accounts for the entries, and the progress never leads and stays within its total,
\* whatever entries fail and however the bodies interleave (CacheWarmer.cs:355-434, 551-555).
THEOREM RunsAccounted == Spec => []ProgressTruthful
  <1>1. ASSUME IInv PROVE ProgressTruthful
    <2> SUFFICES ASSUME NEW t \in Triggers, pc[t] = "looping", source[t] # "all"
                 PROVE progress.processed <= progress.total
      BY <1>1 DEF IInv, Accounted, ProgressTruthful, ProgressWithinTotal
    <2>1. /\ source[t] \in Configured
          /\ Balanced(Count[source[t]], run[t].left, Bad(t), run[t].items,
                      Cardinality(Taken(t)), Cardinality(Owing(t)), run[t].aborted)
      BY <1>1 DEF IInv, Accounted, RunAccounted
    <2>2. /\ run[t].left \in Nat /\ Bad(t) \in Nat /\ run[t].items \in Nat
          /\ Count[source[t]] \in Nat
      BY <1>1, <2>1, WarmAssumption DEF IInv, TypeOK, Run, Bad
    <2>3. run[t].items <= Languages * Count[source[t]]
      BY <2>1, <2>2, OwingFinite, ItemsWithin
    <2>4. /\ progress # None /\ progress \in Progress /\ progress.processed <= run[t].items
          /\ progress.total = Count[source[t]] * Languages
      BY <1>1 DEF IInv, Accounted, ProgressNeverLeads, TotalStands, TypeOK
    <2>5. Count[source[t]] * Languages = Languages * Count[source[t]]
      BY <2>2, WarmAssumption
    <2>6. Languages * Count[source[t]] \in Nat
      BY <2>2, Times
    <2> QED BY <2>2, <2>3, <2>4, <2>5, <2>6 DEF Progress
  <1> QED BY <1>1, WarmerInvariant, PTL

\* The last result changes only when a run lands (CacheWarmer.cs:498-508).
THEOREM ResultKept == Spec => LastResultKept
  <1> DEFINE Kept == status'.last # status.last => status.running /\ ~status'.running
                                     /\ status'.last # None
  <1>1. IInv /\ [Next]_vars => [Kept]_vars
    <2> SUFFICES ASSUME IInv, [Next]_vars PROVE status' = status \/ Kept
      BY DEF vars
    <2>1. ASSUME NEW t \in Triggers, Land(t)
          PROVE Kept
      <3>1. status.running
        BY <2>1 DEF Land, IInv, StatusFollowsRun, Published
      <3>2. source[t] \in Sources /\ run[t] \in Run
        BY <2>1 DEF Land, IInv, SourceKnown, TypeOK
      <3>3. ResultOf(t) \in Result
        BY <3>2 DEF ResultOf, Result, Run
      <3> QED BY <2>1, <3>1, <3>3, NoneAssumption DEF Land
    <2>2. ASSUME NEW t \in Triggers, Fail(t)
          PROVE Kept
      <3>1. status.running
        BY <2>2 DEF Fail, IInv, StatusFollowsRun, Published
      <3>2. source[t] \in Sources
        BY <2>2 DEF Fail, IInv, SourceKnown
      <3>3. Failed(t) \in Result
        BY <3>2 DEF Failed, Result
      <3> QED BY <2>2, <3>1, <3>3, NoneAssumption DEF Fail
    <2>3. ASSUME NEW t \in Triggers, Begin(t)
          PROVE Kept
      BY <2>3 DEF Begin, IInv, TypeOK
    <2>4. ASSUME NEW t \in Triggers, RunStep(t), ~Land(t), ~Fail(t), ~Begin(t)
          PROVE status' = status
      BY <2>4 DEF RunStep, Enter, Refused, WarmSingle, SkipPart, FetchInventory, InventoryFails,
                  PartsDone, LoopEnds, ClearProgress, Release, WorkerStep, Take, EntryMissing,
                  EntryFails, EntryCanceled, WarmLanguage, WriteProgress
    <2> QED BY <2>1, <2>2, <2>3, <2>4 DEF Next, Call, Stop, vars
  <1> QED BY <1>1, WarmerInvariant, PTL DEF Spec, LastResultKept

====
