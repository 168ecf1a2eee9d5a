------------------------ MODULE ArrRemediationProofs ------------------------
(***************************************************************************)
(* Theorems about ArrRemediation.tla: nothing the autofix takes out of a   *)
(* queue is forgotten, what is unmonitored is not searched for and the     *)
(* import worker is kept, for any items, downloads, faults and requests;   *)
(* and about QueueReports.tla, the reports of the panel.                   *)
(***************************************************************************)
EXTENDS MCArrRemediation, FiniteSetTheorems, SequenceTheorems, WellFoundedInduction, TLAPS

FixStages ==
  {"idle", "check", "clear", "list", "item", "delete", "search", "storm", "put", "nzbdav"}

FixLocals == [pc : FixStages, app : Apps \cup {None}, cancel : SUBSET Command,
              todo : SUBSET Records, cur : Records \cup {None}, wanted : BOOLEAN, tries : 0..1,
              failed : Nat, ids : SUBSET Items, removed : SUBSET Items, errors : SUBSET Items,
              listed : SUBSET Items, edited : SUBSET Items, guessed : SUBSET Items]

StickLocals == [pc : {"idle", "delete"}, app : Apps \cup {None}, todo : SUBSET Records]

ImportLocals == [pc : {"idle", "target", "delete", "search"}, app : Apps \cup {None},
                 todo : SUBSET Records, blocklist : BOOLEAN,
                 research : SUBSET {Download[i] : i \in Items}]

Budget == [faults : 0..MaxFaults, searches : 0..MaxSearches, lates : 0..MaxLate,
           edits : 0..MaxEdits]

\* The apps: a record has a number, one command runs, and a late refresh waits.
AppsOK ==
  /\ state \in [Items -> DownloadState] /\ grabs \in [Items -> 0..MaxGrabs]
  /\ monitored \subseteq Items
  /\ commands \in [Apps -> SUBSET Command]
  /\ late \in [Apps -> BOOLEAN] /\ auto \in [Apps -> BOOLEAN]
  /\ \A i \in Items : state[i] # "absent" => grabs[i] # 0
  /\ \A a \in Apps : \A c, d \in commands[a] : c.status = "started" /\ d.status = "started" => c = d
  /\ \A a \in Apps : late[a] => Refresh \in commands[a]

\* The autofix works on one app at a time.
FixTyped ==
  /\ fix \in FixLocals
  /\ fix.pc # "idle" => fix.app \in Apps
  /\ \A r \in fix.todo : AppOf(r[1]) = fix.app
  /\ fix.pc = "delete" => fix.cur \in Records

\* What it cancels are searches that wait.
CancelsSearches == \A c \in fix.cancel : c.status = "queued" /\ IsSearch(c)

\* What it took out it will search for, or tell of, the record in hand apart; and what
\* stayed monitored counts as such when it is looked up.
Owed ==
  /\ fix.pc \in {"item", "delete"} => Steady \subseteq monitored
  /\ fix.pc = "list" => fix.removed = {}
  /\ fix.pc \in {"item", "storm", "put"} => fix.removed \subseteq fix.ids \cup fix.errors
  /\ fix.pc = "delete" =>
       /\ fix.cur[1] \in Steady => fix.wanted
       /\ fix.removed \subseteq fix.ids \cup fix.errors \cup {fix.cur[1]}
       /\ fix.cur[1] \in fix.removed =>
            fix.wanted \/ fix.cur[1] \in fix.ids \cup fix.errors

\* What stayed unmonitored all the time it does not search for, but by a lookup that failed.
Spared ==
  /\ fix.pc \in {"idle", "check", "list"} => fix.ids = {}
  /\ fix.pc \in {"item", "delete"} =>
       /\ Unwanted \cap monitored = {}
       /\ fix.ids \cap Unwanted \subseteq fix.guessed
  /\ fix.pc = "delete" /\ fix.wanted => fix.cur[1] \notin Unwanted \/ fix.cur[1] \in fix.guessed

FixOK == FixTyped /\ CancelsSearches /\ Owed /\ Spared

IInv == AppsOK /\ FixOK /\ stick \in StickLocals /\ import \in ImportLocals /\ budget \in Budget

-----------------------------------------------------------------------------
\* Operators of the model

\* The bounds of the model are numbers.
LEMMA BoundsNat ==
  /\ MaxFaults \in Nat /\ MaxSearches \in Nat /\ MaxLate \in Nat /\ MaxEdits \in Nat
  /\ MaxGrabs \in Nat
  BY RemediationAssumption

\* The apps, and the one that comes after the other.
LEMMA AppFacts ==
  /\ \A i : AppOf(i) \in Apps
  /\ \A a \in Apps : OtherApp(a) # None => OtherApp(a) \in Apps
  /\ None \notin Apps
  BY RemediationAssumption DEF AppOf, OtherApp, Apps

\* A command as it is posted.
LEMMA QueuedTyped ==
  ASSUME NEW name \in {"refresh", "bulk", "targeted"}, NEW items \in SUBSET Items
  PROVE Queued(name, items) \in Command /\ Queued(name, items).status = "queued"
  BY DEF Queued, Command

\* The refresh a search ends with is a queued command.
LEMMA RefreshTyped == Refresh \in Command /\ Refresh.status = "queued" /\ Refresh.name = "refresh"
  BY DEF Refresh, Queued, Command

\* A record is of an item.
LEMMA RecordItem == \A r \in Records : r[1] \in Items
  BY DEF Records

\* A queue shows records of its own app.
LEMMA ShownTyped ==
  ASSUME AppsOK, NEW a \in Apps
  PROVE Shown(a) \subseteq Records /\ \A r \in Shown(a) : AppOf(r[1]) = a
  <1>1. ASSUME NEW i \in Items, state[i] # "absent" PROVE Record(i) \in Records /\ Record(i)[1] = i
    <2>1. grabs[i] \in 1..MaxGrabs
      BY <1>1, BoundsNat DEF AppsOK
    <2> QED BY <2>1 DEF Record, Records
  <1> QED BY <1>1 DEF Shown

\* What a queue shows in given states is a finite set of its own app's records.
LEMMA InStateTyped ==
  ASSUME AppsOK, NEW a \in Apps, NEW states
  PROVE /\ InState(a, states) \subseteq Records /\ \A r \in InState(a, states) : AppOf(r[1]) = a
        /\ Cardinality(InState(a, states)) \in Nat
  <1>1. InState(a, states) \subseteq Records /\ \A r \in InState(a, states) : AppOf(r[1]) = a
    BY ShownTyped DEF InState
  <1>2. IsFiniteSet(1..MaxGrabs)
    BY BoundsNat, FS_Interval
  <1>3. IsFiniteSet(Items)
    BY RemediationAssumption
  <1>4. IsFiniteSet(Records)
    BY <1>2, <1>3, FS_Product DEF Records
  <1>5. IsFiniteSet(InState(a, states))
    BY <1>1, <1>4, FS_Subset
  <1> QED BY <1>1, <1>5, FS_CardinalityType

\* A budget goes down.
LEMMA BudgetTyped ==
  ASSUME budget \in Budget, Fault \/ Edit
  PROVE budget' \in Budget
  <1>1. CASE Fault
    BY <1>1, BoundsNat DEF Budget, Fault
  <1>2. CASE Edit
    BY <1>2, BoundsNat DEF Budget, Edit
  <1> QED BY <1>1, <1>2

-----------------------------------------------------------------------------
\* The apps' part: what any request may do to them

\* Commands are posted, records leave, and settings change.
LEMMA AppsChange ==
  ASSUME AppsOK, NEW a \in Apps, NEW cs \in SUBSET Command, \A c \in cs : c.status = "queued",
         commands' = commands \/ Post(a, cs),
         state' \in [Items -> DownloadState],
         \A i \in Items : state'[i] # "absent" => state[i] # "absent",
         grabs' = grabs, monitored' \subseteq Items, late' = late, auto' \in [Apps -> BOOLEAN]
  PROVE AppsOK'
  <1>1. CASE commands' = commands
    BY <1>1 DEF AppsOK
  <1>2. CASE Post(a, cs)
    <2>1. commands' = [commands EXCEPT ![a] = commands[a] \cup cs]
      BY <1>2 DEF Post
    <2>2. commands' \in [Apps -> SUBSET Command]
      BY <2>1 DEF AppsOK
    <2>3. \A b \in Apps : commands[b] \subseteq commands'[b]
      BY <2>1 DEF AppsOK
    <2>4. \A b \in Apps : \A c \in commands'[b] : c.status = "started" => c \in commands[b]
      BY <2>1 DEF AppsOK
    <2> QED BY <2>2, <2>3, <2>4 DEF AppsOK
  <1> QED BY <1>1, <1>2

\* A record is removed, and the app may search again by itself.
LEMMA RemoveApps ==
  ASSUME AppsOK, NEW r \in Records, NEW blocklist, NEW skip, Remove(r, blocklist, skip)
  PROVE AppsOK'
  <1>1. r[1] \in Items /\ AppOf(r[1]) \in Apps
    BY RecordItem, AppFacts
  <1> DEFINE cs == {Queued("targeted", {r[1]})}
  <1>2. cs \in SUBSET Command /\ \A c \in cs : c.status = "queued"
    BY <1>1, QueuedTyped
  <1>3. commands' = commands \/ Post(AppOf(r[1]), cs)
    BY DEF Remove
  <1>4. /\ state' \in [Items -> DownloadState]
        /\ \A i \in Items : state'[i] # "absent" => state[i] # "absent"
    BY <1>1 DEF Remove, AppsOK, DownloadState
  <1>5. grabs' = grabs /\ monitored' \subseteq Items /\ late' = late /\ auto' \in [Apps -> BOOLEAN]
    BY DEF Remove, AppsOK
  <1> HIDE DEF cs
  <1> QED BY <1>1, <1>2, <1>3, <1>4, <1>5, AppsChange

\* The pool of an app takes up a command, and ends it.
LEMMA PoolStartApps ==
  ASSUME AppsOK, NEW a \in Apps, NEW c \in commands[a], PoolStart(a, c)
  PROVE AppsOK'
  <1> DEFINE d == [c EXCEPT !.status = "started"]
  <1>1. c \in Command /\ d \in Command /\ d.status = "started"
    BY DEF AppsOK, Command
  <1>2. commands' = [commands EXCEPT ![a] = (commands[a] \ {c}) \cup {d}]
    BY DEF PoolStart
  <1>3. late' = [late EXCEPT ![a] = late[a] /\ c # Refresh]
    BY DEF PoolStart
  <1>4. commands' \in [Apps -> SUBSET Command]
    BY <1>1, <1>2 DEF AppsOK
  <1>5. late' \in [Apps -> BOOLEAN]
    BY <1>3 DEF AppsOK
  <1>6. \A b \in Apps : late'[b] => Refresh \in commands'[b]
    <2> SUFFICES ASSUME NEW b \in Apps, late'[b] PROVE Refresh \in commands'[b]
      OBVIOUS
    <2>1. CASE b # a
      BY <1>2, <1>3, <2>1 DEF AppsOK
    <2>2. CASE b = a
      <3>1. late[a] /\ c # Refresh
        BY <1>3, <2>2 DEF AppsOK
      <3> QED BY <1>2, <2>2, <3>1 DEF AppsOK
    <2> QED BY <2>1, <2>2
  <1>7. \A b \in Apps : \A x, y \in commands'[b] : x.status = "started" /\ y.status = "started" => x = y
    <2> SUFFICES ASSUME NEW b \in Apps, NEW x \in commands'[b], NEW y \in commands'[b],
                        x.status = "started", y.status = "started"
                 PROVE x = y
      OBVIOUS
    <2>1. CASE b # a
      BY <1>2, <2>1 DEF AppsOK
    <2>2. CASE b = a
      <3>1. \A z \in commands[a] : z.status = "queued"
        BY DEF PoolStart
      <3>2. commands'[b] = (commands[a] \ {c}) \cup {d}
        BY <1>2, <2>2 DEF AppsOK
      <3> QED BY <3>1, <3>2
    <2> QED BY <2>1, <2>2
  <1> QED BY <1>4, <1>5, <1>6, <1>7 DEF AppsOK, PoolStart

\* The end of a pool's command leaves the apps well-formed, whatever a search found.
LEMMA PoolEndApps ==
  ASSUME AppsOK, NEW a \in Apps, NEW c \in commands[a], NEW found \in BOOLEAN, PoolEnd(a, c, found)
  PROVE AppsOK'
  <1>1. /\ commands' = [commands EXCEPT ![a] = commands[a] \ {c}] /\ c.status = "started"
        /\ UNCHANGED <<monitored, late, auto>>
    BY DEF PoolEnd
  <1>2. commands' \in [Apps -> SUBSET Command] /\ \A b \in Apps : commands'[b] \subseteq commands[b]
    BY <1>1 DEF AppsOK
  <1>3. \A b \in Apps : late'[b] => Refresh \in commands'[b]
    BY <1>1, RefreshTyped DEF AppsOK
  <1>4. PICK taken \in SUBSET Items :
          /\ \A i \in taken : Grabs(i, found)
          /\ state' = [i \in Items |->
                         IF i \in taken THEN "downloading"
                         ELSE IF c.name = "refresh" /\ AppOf(i) = a /\ state[i] = "importing" /\ found
                              THEN "absent" ELSE state[i]]
          /\ grabs' = [i \in Items |-> IF i \in taken THEN grabs[i] + 1 ELSE grabs[i]]
    <2> DEFINE sought == CASE c.name = "refresh" -> {}
                           [] c.name = "bulk" -> {i \in Items : AppOf(i) = a}
                           [] OTHER -> c.items
               taken == {i \in sought : Grabs(i, found)}
    <2>1. taken \in SUBSET Items
      BY DEF AppsOK, Command
    <2> QED BY <2>1 DEF PoolEnd
  <1>5. state' \in [Items -> DownloadState]
    BY <1>4 DEF AppsOK, DownloadState
  <1>6. grabs' \in [Items -> 0..MaxGrabs] /\ \A i \in Items : state'[i] # "absent" => grabs'[i] # 0
    BY <1>4, BoundsNat DEF AppsOK, Grabs
  <1>7. \A b \in Apps : \A x, y \in commands'[b] : x.status = "started" /\ y.status = "started" => x = y
    BY <1>2 DEF AppsOK
  <1> QED BY <1>1, <1>2, <1>3, <1>5, <1>6, <1>7 DEF AppsOK

\* What the apps and somebody else do, by themselves.
LEMMA OutsideApps ==
  ASSUME AppsOK,
         \/ \E a \in Apps : Schedule(a) \/ FallBehind(a) \/ SearchMissing(a) \/ EnableAuto(a)
         \/ \E i \in Items : Progress(i)
  PROVE AppsOK'
  <1>1. ASSUME NEW a \in Apps, Schedule(a) PROVE AppsOK'
    BY <1>1, AppsChange, RefreshTyped DEF Schedule, AppsOK
  <1>2. ASSUME NEW a \in Apps, FallBehind(a) PROVE AppsOK'
    BY <1>2 DEF FallBehind, AppsOK
  <1>3. ASSUME NEW a \in Apps, SearchMissing(a) PROVE AppsOK'
    <2>1. Queued("bulk", {}) \in Command /\ Queued("bulk", {}).status = "queued"
      BY QueuedTyped
    <2> QED BY <1>3, <2>1, AppsChange DEF SearchMissing, AppsOK
  <1>4. ASSUME NEW a \in Apps, EnableAuto(a) PROVE AppsOK'
    BY <1>4 DEF EnableAuto, AppsOK
  <1>5. ASSUME NEW i \in Items, Progress(i) PROVE AppsOK'
    BY <1>5 DEF Progress, AppsOK, DownloadState
  <1> QED BY <1>1, <1>2, <1>3, <1>4, <1>5

-----------------------------------------------------------------------------
\* The autofix

\* What nothing of it changes but the record in hand keeps what it owes.
LEMMA KeepFix ==
  ASSUME FixOK, fix' = fix, monitored' = monitored
  PROVE FixOK'
  BY DEF FixOK, FixTyped, CancelsSearches, Owed, Spared, Steady, Unwanted

\* A pass that starts anew on an app, or is over, owes nothing.
LEMMA FreshFix ==
  ASSUME NEW p \in {"idle", "check", "list", "nzbdav"}, NEW a \in Apps \cup {None},
         p # "idle" => a \in Apps, fix' = [IdleFix EXCEPT !.pc = p, !.app = a]
  PROVE FixOK'
  <1>1. IdleFix \in FixLocals
    BY DEF IdleFix, FixLocals, FixStages
  <1>2. /\ fix' \in FixLocals /\ fix'.pc = p /\ fix'.app = a
        /\ fix'.cancel = {} /\ fix'.todo = {} /\ fix'.ids = {} /\ fix'.removed = {}
    <2>1. /\ fix'.pc = p /\ fix'.app = a
          /\ fix'.cancel = {} /\ fix'.todo = {} /\ fix'.ids = {} /\ fix'.removed = {}
      BY DEF IdleFix
    <2>2. p \in FixStages
      BY DEF FixStages
    <2>3. fix' \in FixLocals
      BY <1>1, <2>2 DEF FixLocals
    <2> QED BY <2>1, <2>3
  <1> QED BY <1>2 DEF FixOK, FixTyped, CancelsSearches, Owed, Spared, Steady, Unwanted

\* An autofix that is over keeps its invariant: it owes nothing any more.
LEMMA IdleFixFresh ==
  ASSUME fix' = IdleFix
  PROVE FixOK'
  <1>1. fix' \in FixLocals
    BY DEF IdleFix, FixLocals, FixStages
  <1> QED BY <1>1 DEF IdleFix, FixOK, FixTyped, CancelsSearches, Owed, Spared, Steady, Unwanted

\* So does one that goes on from the starvation check, to the other app or to the first pass.
LEMMA AfterCheckFresh ==
  ASSUME fix.app \in Apps, fix' = AfterCheck
  PROVE FixOK'
  <1>1. CASE OtherApp(fix.app) # None
    BY <1>1, AppFacts, FreshFix DEF AfterCheck
  <1>2. CASE OtherApp(fix.app) = None
    <2>1. "radarr" \in Apps
      BY DEF Apps
    <2> QED BY <1>2, <2>1, FreshFix DEF AfterCheck
  <1> QED BY <1>1, <1>2

\* And one that goes on from an app's pass.
LEMMA AfterAppFresh ==
  ASSUME fix.app \in Apps, fix' = AfterApp
  PROVE FixOK'
  <1>1. CASE OtherApp(fix.app) # None
    BY <1>1, AppFacts, FreshFix DEF AfterApp
  <1>2. CASE OtherApp(fix.app) = None
    BY <1>2, FreshFix DEF AfterApp
  <1> QED BY <1>1, <1>2

\* The search backlog of a starved app is read, and cancelled.
LEMMA BacklogFix ==
  ASSUME AppsOK, FixOK, Check \/ Cleared \/ (\E c \in fix.cancel : Cancel(c))
  PROVE FixOK'
  <1>1. CASE Check
    <2>1. fix.app \in Apps
      BY <1>1 DEF Check, FixOK, FixTyped
    <2>2. CASE late[fix.app]
      <3> DEFINE cs == {c \in commands[fix.app] : c.status = "queued" /\ IsSearch(c)}
      <3>1. cs \subseteq Command
        BY <2>1 DEF AppsOK
      <3>2. \A c \in cs : c.status = "queued" /\ IsSearch(c)
        OBVIOUS
      <3>3. fix' = [fix EXCEPT !.pc = "clear", !.cancel = cs] /\ fix.pc = "check"
        BY <1>1, <2>2 DEF Check
      <3> HIDE DEF cs
      <3>4. fix' \in FixLocals /\ fix'.pc = "clear" /\ fix'.cancel = cs /\ fix'.app = fix.app
            /\ fix'.todo = fix.todo
        BY <3>1, <3>3 DEF FixOK, FixTyped, FixLocals, FixStages
      <3> QED BY <3>2, <3>3, <3>4 DEF FixOK, FixTyped, CancelsSearches, Owed, Spared, Steady, Unwanted
    <2>3. CASE ~late[fix.app]
      BY <1>1, <2>1, <2>3, AfterCheckFresh DEF Check
    <2> QED BY <2>2, <2>3
  <1>2. CASE Cleared
    BY <1>2, AfterCheckFresh DEF Cleared, FixOK, FixTyped
  <1>3. ASSUME NEW c \in fix.cancel, Cancel(c) PROVE FixOK'
    <2>1. fix' = [fix EXCEPT !.cancel = fix.cancel \ {c}] /\ fix.pc = "clear"
      BY <1>3 DEF Cancel
    <2>2. fix' \in FixLocals /\ fix'.pc = "clear" /\ fix'.cancel = fix.cancel \ {c}
          /\ fix'.app = fix.app /\ fix'.todo = fix.todo
      BY <2>1 DEF FixOK, FixTyped, FixLocals, FixStages
    <2> QED BY <2>1, <2>2 DEF FixOK, FixTyped, CancelsSearches, Owed, Spared, Steady, Unwanted
  <1> QED BY <1>1, <1>2, <1>3

\* The queue of an app is listed, and an item of it looked up.
LEMMA ListFix ==
  ASSUME AppsOK, FixOK, List
  PROVE FixOK'
  <1>1. fix.app \in Apps /\ fix.pc = "list"
    BY DEF List, FixOK, FixTyped
  <1> DEFINE todo == Broken(fix.app)
             failed == Cardinality(InState(fix.app, {"failedPending"}))
  <1>2. todo \subseteq Records /\ (\A r \in todo : AppOf(r[1]) = fix.app) /\ failed \in Nat
    BY <1>1, InStateTyped DEF Broken
  <1>3. fix' = [fix EXCEPT !.pc = "item", !.todo = todo, !.failed = failed,
                           !.listed = monitored]
    BY DEF List
  <1>4. monitored' = monitored /\ monitored \in SUBSET Items
    BY DEF List, Rest, apps, AppsOK
  <1> HIDE DEF todo, failed
  <1>5. /\ fix' \in FixLocals /\ fix'.pc = "item" /\ fix'.app = fix.app /\ fix'.todo = todo
        /\ fix'.listed = monitored
        /\ fix'.cancel = fix.cancel /\ fix'.ids = fix.ids /\ fix'.removed = fix.removed
    BY <1>2, <1>3, <1>4 DEF FixOK, FixTyped, FixLocals, FixStages
  <1>6. fix.ids = {} /\ fix.removed = {}
    BY <1>1 DEF FixOK, Owed, Spared
  <1> QED BY <1>1, <1>2, <1>4, <1>5, <1>6 DEF FixOK, FixTyped, CancelsSearches, Owed, Spared, Steady, Unwanted

\* Looking a record up (item_is_monitored) takes it from the list and keeps what is
\* owed: it is the record in hand now.
LEMMA LookUpFix ==
  ASSUME AppsOK, FixOK, NEW r \in Records, LookUp(r)
  PROVE FixOK'
  <1>1. fix.pc = "item" /\ r \in fix.todo /\ monitored' = monitored
    BY DEF LookUp, Rest, apps
  <1>2. fix.guessed \in SUBSET Items /\ r[1] \in Items /\ fix \in FixLocals
    BY RecordItem DEF FixOK, FixTyped, FixLocals
  <1> DEFINE looked(w, g) == [fix EXCEPT !.pc = "delete", !.cur = r, !.todo = fix.todo \ {r},
                                         !.tries = 0, !.wanted = w, !.guessed = g]
             fits(w, g) == /\ fix.guessed \subseteq g
                           /\ w => r[1] \in fix.listed \cup monitored \/ r[1] \in g
                           /\ ~w => r[1] \notin fix.listed \cap monitored
  <1>10. \E w \in BOOLEAN : \E g \in SUBSET Items : fix' = looked(w, g) /\ fits(w, g)
    <2>1. ASSUME NEW known \in {fix.listed, monitored}, fix' = InHand(r, r[1] \in known)
          PROVE  \E w \in BOOLEAN : \E g \in SUBSET Items : fix' = looked(w, g) /\ fits(w, g)
      <3>2. CASE r[1] \in known
        <4>1. (r[1] \in known) = TRUE
          BY <3>2
        <4>2. fix' = InHand(r, TRUE)
          BY <2>1, <4>1
        <4>3. fix' = looked(TRUE, fix.guessed)
          BY <1>2, <4>2 DEF InHand, FixLocals
        <4> QED BY <1>2, <2>1, <3>2, <4>3
      <3>3. CASE r[1] \notin known
        <4>1. (r[1] \in known) = FALSE
          BY <3>3
        <4>2. fix' = InHand(r, FALSE)
          BY <2>1, <4>1
        <4>3. fix' = looked(FALSE, fix.guessed)
          BY <1>2, <4>2 DEF InHand, FixLocals
        <4> QED BY <1>2, <2>1, <3>3, <4>3
      <3> QED BY <3>2, <3>3
    <2>2. CASE fix' = [InHand(r, TRUE) EXCEPT !.guessed = @ \cup {r[1]}]
      <3>1. fix' = looked(TRUE, fix.guessed \cup {r[1]})
        BY <2>2 DEF InHand
      <3>2. fix.guessed \cup {r[1]} \in SUBSET Items /\ fits(TRUE, fix.guessed \cup {r[1]})
        BY <1>2
      <3> QED BY <3>1, <3>2
    <2> QED BY <2>1, <2>2 DEF LookUp
  <1>11. PICK wanted \in BOOLEAN : \E g \in SUBSET Items : fix' = looked(wanted, g) /\ fits(wanted, g)
    BY <1>10
  <1>12. PICK guessed \in SUBSET Items : fix' = looked(wanted, guessed) /\ fits(wanted, guessed)
    BY <1>11
  <1>3. /\ fix' \in FixLocals /\ fix'.pc = "delete" /\ fix'.app = fix.app /\ fix'.cur = r
        /\ fix'.todo = fix.todo \ {r} /\ fix'.wanted = wanted /\ fix'.guessed = guessed
        /\ fix'.cancel = fix.cancel /\ fix'.ids = fix.ids /\ fix'.removed = fix.removed
        /\ fix'.errors = fix.errors /\ fix'.listed = fix.listed /\ fix'.edited = fix.edited
    <2>1. fix \in FixLocals
      BY DEF FixOK, FixTyped
    <2> DEFINE f == [fix EXCEPT !.pc = "delete", !.cur = r, !.todo = fix.todo \ {r}]
               g == [f EXCEPT !.tries = 0, !.wanted = wanted]
    <2>2. f \in FixLocals
      BY <2>1 DEF FixLocals, FixStages
    <2>3. /\ f.pc = "delete" /\ f.cur = r /\ f.todo = fix.todo \ {r}
          /\ f.app = fix.app /\ f.cancel = fix.cancel /\ f.ids = fix.ids
          /\ f.removed = fix.removed /\ f.errors = fix.errors /\ f.listed = fix.listed /\ f.edited = fix.edited
      BY <2>1 DEF FixLocals
    <2>4. fix' = [g EXCEPT !.guessed = guessed]
      BY <1>12
    <2> HIDE DEF f
    <2>5. g \in FixLocals
      <3> DEFINE h == [f EXCEPT !.tries = 0]
      <3>1. h \in FixLocals
        BY <2>2 DEF FixLocals
      <3> HIDE DEF h
      <3>2. [h EXCEPT !.wanted = wanted] \in FixLocals
        BY <3>1 DEF FixLocals
      <3> QED BY <3>2 DEF h
    <2>6. /\ g.pc = f.pc /\ g.cur = f.cur /\ g.todo = f.todo /\ g.app = f.app
          /\ g.cancel = f.cancel /\ g.ids = f.ids /\ g.removed = f.removed
          /\ g.errors = f.errors /\ g.listed = f.listed /\ g.edited = f.edited /\ g.wanted = wanted
      BY <2>2 DEF FixLocals
    <2> HIDE DEF g
    <2>7. fix' \in FixLocals
      BY <2>4, <2>5 DEF FixLocals
    <2> QED BY <2>3, <2>4, <2>5, <2>6, <2>7 DEF FixLocals
  <1>4. Steady' = Steady /\ Unwanted' = Unwanted
    BY <1>3 DEF Steady, Unwanted
  <1>5. r[1] \in Steady => wanted
    BY <1>1, <1>12 DEF FixOK, Owed, Steady
  <1>6. wanted => r[1] \notin Unwanted \/ r[1] \in guessed
    BY <1>1, <1>12 DEF FixOK, Spared, Unwanted
  <1>7. FixTyped' /\ CancelsSearches' /\ Owed'
    BY <1>1, <1>3, <1>4, <1>5 DEF FixOK, FixTyped, CancelsSearches, Owed
  <1>8. Spared'
    BY <1>1, <1>3, <1>4, <1>6, <1>12 DEF FixOK, Spared
  <1> QED BY <1>7, <1>8 DEF FixOK

\* The record in hand is done with: its item will be searched for, or told of.
LEMMA TurnFix ==
  ASSUME FixOK, fix.pc = "delete", monitored' = monitored,
         fix' \in FixLocals, fix'.pc = "item",
         fix'.app = fix.app, fix'.todo = fix.todo, fix'.cancel = fix.cancel,
         fix'.listed = fix.listed /\ fix'.edited = fix.edited, fix'.guessed = fix.guessed,
         fix'.removed \subseteq fix'.ids \cup fix'.errors,
         \A i \in fix'.ids : i \in fix.ids \/ (fix.wanted /\ i = fix.cur[1])
  PROVE FixOK'
  <1>1. FixTyped' /\ CancelsSearches' /\ Owed'
    BY DEF FixOK, FixTyped, CancelsSearches, Owed, Steady
  <1>2. Spared'
    BY DEF FixOK, Spared, Unwanted
  <1> QED BY <1>1, <1>2 DEF FixOK

\* Counting a record that was deleted puts its item among those to search, unless it is not
\* wanted.
LEMMA CountedFix ==
  ASSUME FixOK, fix.pc = "delete", monitored' = monitored, fix' = Counted
  PROVE FixOK'
  <1> DEFINE i == fix.cur[1]
  <1>1. fix \in FixLocals /\ i \in Items
    BY RecordItem DEF FixOK, FixTyped
  <1>2. PICK ids \in SUBSET Items :
          /\ ids = IF fix.wanted THEN fix.ids \cup {i} ELSE fix.ids
    BY <1>1 DEF FixLocals
  <1>3. PICK removed \in SUBSET Items :
          /\ removed = IF i \in Steady /\ Present(fix.cur) THEN fix.removed \cup {i} ELSE fix.removed
    BY <1>1 DEF FixLocals
  <1>4. fix' = [fix EXCEPT !.pc = "item", !.ids = ids, !.removed = removed]
    BY <1>2, <1>3, Zenon DEF Counted
  <1> HIDE DEF i
  <1>5. /\ fix' \in FixLocals /\ fix'.pc = "item"
        /\ fix'.app = fix.app /\ fix'.todo = fix.todo /\ fix'.cancel = fix.cancel
        /\ fix'.listed = fix.listed /\ fix'.edited = fix.edited /\ fix'.guessed = fix.guessed
        /\ fix'.ids = ids /\ fix'.removed = removed /\ fix'.errors = fix.errors
    BY <1>1, <1>4 DEF FixLocals, FixStages
  <1>6. fix'.removed \subseteq fix'.ids \cup fix'.errors
    BY <1>2, <1>3, <1>5 DEF FixOK, Owed, i
  <1> QED BY <1>2, <1>3, <1>5, <1>6, TurnFix DEF i

\* The deletion times out: it may have been carried out, and is tried again once.
LEMMA TimedOutFix ==
  ASSUME FixOK, fix.pc = "delete", monitored' = monitored, NEW gone \in SUBSET ({fix.cur[1]} \cap Steady),
         fix' = IF fix.tries = 0
                THEN [fix EXCEPT !.tries = 1, !.removed = fix.removed \cup gone]
                ELSE [fix EXCEPT !.pc = "item", !.removed = fix.removed \cup gone,
                                 !.errors = fix.errors \cup {fix.cur[1]}]
  PROVE FixOK'
  <1> DEFINE i == fix.cur[1]
             removed == fix.removed \cup gone
             errors == fix.errors \cup {i}
  <1>1. fix \in FixLocals /\ i \in Items
    BY RecordItem DEF FixOK, FixTyped
  <1>2. removed \in SUBSET Items /\ errors \in SUBSET Items
    BY <1>1 DEF FixLocals
  <1>3. CASE fix.tries = 0
    <2>1. fix' = [fix EXCEPT !.tries = 1, !.removed = removed]
      BY <1>3
    <2> HIDE DEF removed, errors, i
    <2>2. /\ fix' \in FixLocals /\ fix'.pc = fix.pc /\ fix'.removed = removed
          /\ fix'.app = fix.app /\ fix'.todo = fix.todo /\ fix'.cancel = fix.cancel
          /\ fix'.listed = fix.listed /\ fix'.edited = fix.edited /\ fix'.guessed = fix.guessed /\ fix'.cur = fix.cur
          /\ fix'.ids = fix.ids /\ fix'.errors = fix.errors /\ fix'.wanted = fix.wanted
      <3> DEFINE f == [fix EXCEPT !.tries = 1]
      <3>1. f \in FixLocals
        BY <1>1 DEF FixLocals
      <3>2. fix' = [f EXCEPT !.removed = removed]
        BY <2>1
      <3> HIDE DEF f
      <3>3. fix' \in FixLocals
        BY <1>2, <3>1, <3>2 DEF FixLocals
      <3> QED BY <1>1, <2>1, <3>3 DEF FixLocals
    <2>3. removed \subseteq fix.ids \cup fix.errors \cup {fix.cur[1]}
      BY DEF FixOK, Owed, removed, i
    <2>4. FixTyped' /\ CancelsSearches' /\ Owed'
      BY <2>2, <2>3 DEF FixOK, FixTyped, CancelsSearches, Owed, Steady
    <2>5. Spared'
      BY <2>2 DEF FixOK, Spared, Unwanted
    <2> QED BY <2>4, <2>5 DEF FixOK
  <1>4. CASE fix.tries # 0
    <2>1. fix' = [fix EXCEPT !.pc = "item", !.removed = removed, !.errors = errors]
      BY <1>4
    <2> HIDE DEF removed, errors, i
    <2>2. /\ fix' \in FixLocals /\ fix'.pc = "item" /\ fix'.removed = removed
          /\ fix'.app = fix.app /\ fix'.todo = fix.todo /\ fix'.cancel = fix.cancel
          /\ fix'.listed = fix.listed /\ fix'.edited = fix.edited /\ fix'.guessed = fix.guessed
          /\ fix'.ids = fix.ids /\ fix'.errors = errors
      BY <1>1, <1>2, <2>1 DEF FixLocals, FixStages
    <2>3. fix'.removed \subseteq fix'.ids \cup fix'.errors
      BY <2>2 DEF FixOK, Owed, removed, errors, i
    <2> QED BY <2>2, <2>3, TurnFix
  <1> QED BY <1>3, <1>4

\* A deletion, answered, lost or refused, keeps the apps and the autofix.
LEMMA DeleteFix ==
  ASSUME AppsOK, FixOK, FixDelete \/ FixDeleteTimesOut \/ FixDeleteFails
  PROVE AppsOK' /\ FixOK'
  <1>1. fix.pc = "delete" /\ fix.cur \in Records
    BY DEF FixDelete, FixDeleteTimesOut, FixDeleteFails, FixOK, FixTyped
  <1>2. CASE FixDelete
    <2>1. Remove(fix.cur, TRUE, ~fix.wanted) /\ fix' = Counted
      BY <1>2 DEF FixDelete
    <2>2. AppsOK'
      BY <1>1, <2>1, RemoveApps
    <2>3. monitored' = monitored
      BY <2>1 DEF Remove
    <2> QED BY <1>1, <2>1, <2>2, <2>3, CountedFix
  <1>3. CASE FixDeleteTimesOut
    <2> DEFINE i == fix.cur[1]
               gone == IF state'[i] # state[i] /\ i \in Steady THEN {i} ELSE {}
    <2>1. Remove(fix.cur, TRUE, ~fix.wanted) \/ UNCHANGED apps
      BY <1>3 DEF FixDeleteTimesOut
    <2>2. AppsOK'
      <3>1. CASE Remove(fix.cur, TRUE, ~fix.wanted)
        BY <1>1, <3>1, RemoveApps
      <3>2. CASE UNCHANGED apps
        BY <3>2 DEF apps, AppsOK
      <3> QED BY <2>1, <3>1, <3>2
    <2>3. monitored' = monitored
      BY <2>1 DEF Remove, apps
    <2>4. fix' = IF fix.tries = 0
                 THEN [fix EXCEPT !.tries = 1, !.removed = fix.removed \cup gone]
                 ELSE [fix EXCEPT !.pc = "item", !.removed = fix.removed \cup gone,
                                  !.errors = fix.errors \cup {fix.cur[1]}]
      BY <1>3, Zenon DEF FixDeleteTimesOut
    <2>5. gone \in SUBSET ({fix.cur[1]} \cap Steady)
      OBVIOUS
    <2> HIDE DEF gone
    <2> QED BY <1>1, <2>2, <2>3, <2>4, <2>5, TimedOutFix
  <1>4. CASE FixDeleteFails
    <2>1. UNCHANGED apps
      BY <1>4 DEF FixDeleteFails, Rest
    <2>2. AppsOK' /\ monitored' = monitored
      BY <2>1 DEF apps, AppsOK
    <2>3. fix \in FixLocals /\ fix.cur[1] \in Items
      BY <1>1, RecordItem DEF FixOK, FixTyped
    <2> DEFINE errors == fix.errors \cup {fix.cur[1]}
    <2>4. errors \in SUBSET Items
      BY <2>3 DEF FixLocals
    <2>5. fix' = [fix EXCEPT !.pc = "item", !.errors = errors]
      BY <1>4 DEF FixDeleteFails
    <2> HIDE DEF errors
    <2>6. /\ fix' \in FixLocals /\ fix'.pc = "item" /\ fix'.removed = fix.removed
          /\ fix'.app = fix.app /\ fix'.todo = fix.todo /\ fix'.cancel = fix.cancel
          /\ fix'.listed = fix.listed /\ fix'.edited = fix.edited /\ fix'.guessed = fix.guessed
          /\ fix'.ids = fix.ids /\ fix'.errors = errors
      BY <2>3, <2>4, <2>5 DEF FixLocals, FixStages
    <2>7. fix'.removed \subseteq fix'.ids \cup fix'.errors
      BY <1>1, <2>6 DEF FixOK, Owed, errors
    <2> QED BY <1>1, <2>2, <2>6, <2>7, TurnFix
  <1> QED BY <1>2, <1>3, <1>4

\* The search for what it took out, and the setting it may turn off.
LEMMA SearchFix ==
  ASSUME AppsOK, FixOK, FixSearch
  PROVE AppsOK' /\ FixOK'
  <1>1. /\ fix \in FixLocals /\ fix.app \in Apps /\ fix.pc = "item" /\ monitored' = monitored
        /\ fix.removed \subseteq fix.ids \cup fix.errors
    BY DEF FixSearch, FixOK, FixTyped, Owed
  <1>2. AppsOK'
    <2> DEFINE cs == {Queued("targeted", fix.ids)}
    <2>1. fix.ids \in SUBSET Items
      BY <1>1 DEF FixLocals
    <2>2. cs \in SUBSET Command /\ \A c \in cs : c.status = "queued"
      BY <2>1, QueuedTyped
    <2>3. /\ commands' = commands \/ Post(fix.app, cs)
          /\ UNCHANGED <<state, grabs, monitored, late, auto>>
      BY DEF FixSearch
    <2> HIDE DEF cs
    <2> QED BY <1>1, <2>2, <2>3, AppsChange DEF AppsOK
  <1>3. PICK errors \in SUBSET Items :
          /\ fix' = [fix EXCEPT !.pc = "storm", !.errors = errors]
          /\ fix.errors \subseteq errors
    <2>1. fix.errors \in SUBSET Items /\ fix.errors \cup fix.ids \in SUBSET Items
      BY <1>1 DEF FixLocals
    <2>2. CASE fix' = [fix EXCEPT !.pc = "storm"]
      <3>1. fix' = [fix EXCEPT !.pc = "storm", !.errors = fix.errors]
        BY <1>1, <2>2 DEF FixLocals
      <3> QED BY <2>1, <3>1
    <2>3. CASE fix' = [fix EXCEPT !.pc = "storm", !.errors = @ \cup fix.ids]
      BY <2>1, <2>3
    <2> QED BY <2>2, <2>3 DEF FixSearch
  <1>4. /\ fix' \in FixLocals /\ fix'.pc = "storm" /\ fix'.removed = fix.removed
        /\ fix'.app = fix.app /\ fix'.todo = fix.todo /\ fix'.cancel = fix.cancel
        /\ fix'.ids = fix.ids /\ fix'.errors = errors
    BY <1>1, <1>3 DEF FixLocals, FixStages
  <1>5. FixOK'
    BY <1>1, <1>3, <1>4 DEF FixOK, FixTyped, CancelsSearches, Owed, Spared, Steady, Unwanted
  <1> QED BY <1>2, <1>5

\* So do the look for a storm and the request that turns monitoring off.
LEMMA StormFix ==
  ASSUME AppsOK, FixOK, Storm \/ StormPut
  PROVE AppsOK' /\ FixOK'
  <1>1. fix \in FixLocals /\ fix.app \in Apps
    BY DEF Storm, StormPut, FixOK, FixTyped
  <1>2. CASE Storm
    <2>1. AppsOK' /\ monitored' = monitored
      BY <1>2 DEF Storm, Rest, apps, AppsOK
    <2>2. CASE fix' = AfterApp
      BY <1>1, <2>1, <2>2, AfterAppFresh
    <2>3. CASE fix' = [fix EXCEPT !.pc = "put"]
      <3>1. /\ fix' \in FixLocals /\ fix'.pc = "put" /\ fix'.removed = fix.removed
            /\ fix'.app = fix.app /\ fix'.todo = fix.todo /\ fix'.cancel = fix.cancel
            /\ fix'.ids = fix.ids /\ fix'.errors = fix.errors
        BY <1>1, <2>3 DEF FixLocals, FixStages
      <3>2. fix.pc = "storm"
        BY <1>2 DEF Storm
      <3> QED BY <1>1, <2>1, <3>1, <3>2 DEF FixOK, FixTyped, CancelsSearches, Owed, Spared, Steady, Unwanted
    <2> QED BY <1>2, <2>2, <2>3 DEF Storm
  <1>3. CASE StormPut
    <2>1. auto' \in [Apps -> BOOLEAN] /\ UNCHANGED <<state, grabs, monitored, commands, late>>
      BY <1>1, <1>3 DEF StormPut, AppsOK
    <2>2. AppsOK'
      BY <2>1 DEF AppsOK
    <2>3. fix' = AfterApp
      BY <1>3 DEF StormPut
    <2> QED BY <1>1, <2>2, <2>3, AfterAppFresh
  <1> QED BY <1>2, <1>3

-----------------------------------------------------------------------------
\* The other requests

\* What an edit touches the pass in hand promises nothing of any more.
LEMMA WatchedFix ==
  ASSUME FixOK, NEW items \in SUBSET Items, Watched(items),
         monitored \ items \subseteq monitored', monitored' \subseteq monitored \cup items
  PROVE FixOK' /\ fix'.pc = fix.pc
  <1>1. CASE fix.pc \in {"item", "delete"}
    <2> DEFINE edited == fix.edited \cup items
    <2>1. fix \in FixLocals /\ edited \in SUBSET Items
      BY DEF FixOK, FixTyped, FixLocals
    <2>2. fix' = [fix EXCEPT !.edited = edited]
      BY <1>1 DEF Watched
    <2>3. fix.edited \subseteq edited /\ items \subseteq edited
      OBVIOUS
    <2> HIDE DEF edited
    <2>4. /\ fix' \in FixLocals /\ fix'.pc = fix.pc /\ fix'.removed = fix.removed
          /\ fix'.app = fix.app /\ fix'.todo = fix.todo /\ fix'.cancel = fix.cancel
          /\ fix'.listed = fix.listed /\ fix'.edited = edited
          /\ fix'.guessed = fix.guessed /\ fix'.cur = fix.cur
          /\ fix'.ids = fix.ids /\ fix'.errors = fix.errors /\ fix'.wanted = fix.wanted
      BY <2>1, <2>2 DEF FixLocals
    <2>5. Steady' \subseteq Steady \ items /\ Unwanted' \subseteq Unwanted \ items
      BY <2>3, <2>4 DEF Steady, Unwanted
    <2>6. FixTyped' /\ CancelsSearches' /\ Owed'
      BY <1>1, <2>4, <2>5 DEF FixOK, FixTyped, CancelsSearches, Owed
    <2>7. Spared'
      BY <1>1, <2>4, <2>5 DEF FixOK, Spared
    <2> QED BY <2>4, <2>6, <2>7 DEF FixOK
  <1>2. CASE fix.pc \notin {"item", "delete"}
    <2>1. fix' = fix
      BY <1>2 DEF Watched
    <2> QED BY <1>2, <2>1 DEF FixOK, FixTyped, CancelsSearches, Owed, Spared, Steady, Unwanted
  <1> QED BY <1>1, <1>2

\* Both edits of what is monitored keep the autofix's part.
LEMMA EditFix ==
  ASSUME AppsOK, FixOK,
         (\E done : MonitorEpisodesFix(done)) \/ (\E i \in Items : Unmonitor(i))
  PROVE AppsOK' /\ FixOK' /\ fix'.pc = fix.pc
  <1>1. ASSUME NEW done, MonitorEpisodesFix(done) PROVE AppsOK' /\ FixOK' /\ fix'.pc = fix.pc
    <2>1. /\ monitored' = monitored \cup done /\ done \in SUBSET Items /\ Watched(done)
          /\ UNCHANGED <<state, grabs, commands, late, auto>>
      BY <1>1 DEF MonitorEpisodesFix, Items
    <2>2. AppsOK'
      BY <2>1 DEF AppsOK
    <2> QED BY <2>1, <2>2, WatchedFix
  <1>2. ASSUME NEW i \in Items, Unmonitor(i) PROVE AppsOK' /\ FixOK' /\ fix'.pc = fix.pc
    <2>1. /\ monitored' = monitored \ {i} /\ {i} \in SUBSET Items /\ Watched({i})
          /\ UNCHANGED <<state, grabs, commands, late, auto>>
      BY <1>2 DEF Unmonitor
    <2>2. AppsOK'
      BY <2>1 DEF AppsOK
    <2> QED BY <2>1, <2>2, WatchedFix
  <1> QED BY <1>1, <1>2

\* Unsticking keeps the apps and its own locals.
LEMMA StickStep ==
  ASSUME AppsOK, stick \in StickLocals,
         (\E a \in Apps : Unstick(a)) \/ (\E r \in Records : UnstickDelete(r))
  PROVE AppsOK' /\ stick' \in StickLocals
  <1>1. ASSUME NEW a \in Apps, Unstick(a) PROVE AppsOK' /\ stick' \in StickLocals
    <2>1. AppsOK'
      BY <1>1 DEF Unstick, apps, AppsOK
    <2>2. Flagged(a) \in SUBSET Records
      BY InStateTyped DEF Flagged
    <2> QED BY <1>1, <2>1, <2>2 DEF Unstick, StickLocals
  <1>2. ASSUME NEW r \in Records, UnstickDelete(r) PROVE AppsOK' /\ stick' \in StickLocals
    <2>1. AppsOK'
      <3>1. CASE Remove(r, TRUE, FALSE)
        BY <3>1, RemoveApps
      <3>2. CASE UNCHANGED apps
        BY <3>2 DEF apps, AppsOK
      <3> QED BY <1>2, <3>1, <3>2 DEF UnstickDelete
    <2>2. stick' \in StickLocals
      BY <1>2 DEF UnstickDelete, StickLocals, IdleStick
    <2> QED BY <2>1, <2>2
  <1> QED BY <1>1, <1>2

\* Every step of unstick-importing leaves the apps well-formed.
LEMMA ImportApps ==
  ASSUME AppsOK, import \in ImportLocals, (\E a \in Apps : UnstickImporting(a)) \/ Import
  PROVE AppsOK'
  <1>1. CASE UNCHANGED apps
    BY <1>1 DEF apps, AppsOK
  <1>2. ASSUME NEW r \in Records, Remove(r, import.blocklist, FALSE) PROVE AppsOK'
    BY <1>2, RemoveApps
  <1>3. ASSUME NEW d \in import.research, ImportSearch(d) PROVE AppsOK'
    <2> DEFINE cs == {Queued("targeted", Targets({d}))}
    <2>1. Targets({d}) \in SUBSET Items
      BY DEF Targets
    <2>2. cs \in SUBSET Command /\ \A c \in cs : c.status = "queued"
      BY <2>1, QueuedTyped
    <2>3. /\ commands' = commands \/ Post(import.app, cs)
          /\ UNCHANGED <<state, grabs, monitored, late, auto>>
      BY <1>3 DEF ImportSearch
    <2> HIDE DEF cs
    <2>4. CASE import.app \in Apps
      BY <2>2, <2>3, <2>4, AppsChange DEF AppsOK
    <2>5. CASE import.app \notin Apps
      <3>1. commands' = commands
        BY <2>3, <2>5 DEF Post, AppsOK
      <3> QED BY <2>3, <3>1 DEF AppsOK
    <2> QED BY <2>4, <2>5
  <1>4. \/ UNCHANGED apps
        \/ \E r \in Records : Remove(r, import.blocklist, FALSE)
        \/ \E d \in import.research : ImportSearch(d)
    BY DEF Import, UnstickImporting, ImportAnswered, TargetSkipped, Inspect, ImportDelete
  <1> QED BY <1>1, <1>2, <1>3, <1>4

\* And keeps its locals well-formed.
LEMMA ImportTyped ==
  ASSUME AppsOK, import \in ImportLocals, (\E a \in Apps : UnstickImporting(a)) \/ Import
  PROVE import' \in ImportLocals
  <1>1. ASSUME NEW a \in Apps, UnstickImporting(a) PROVE import' \in ImportLocals
    <2>1. Importing(a) \in SUBSET Records
      BY InStateTyped DEF Importing
    <2> QED BY <1>1, <2>1 DEF UnstickImporting, IdleImport, ImportLocals
  <1>2. CASE ImportAnswered
    BY <1>2 DEF ImportAnswered, IdleImport, ImportLocals
  <1>3. ASSUME NEW r \in Records, TargetSkipped(r) PROVE import' \in ImportLocals
    BY <1>3 DEF TargetSkipped, ImportLocals
  <1>4. ASSUME NEW r \in Records, NEW b \in BOOLEAN, Inspect(r, b) PROVE import' \in ImportLocals
    <2> DEFINE research == import.research \cup {Download[r[1]]}
    <2>1. research \in SUBSET {Download[i] : i \in Items}
      BY RecordItem DEF ImportLocals
    <2>2. import' = [import EXCEPT !.pc = "delete", !.blocklist = b, !.research = research]
      BY <1>4 DEF Inspect
    <2> HIDE DEF research
    <2> QED BY <2>1, <2>2 DEF ImportLocals
  <1>5. ASSUME NEW r \in Records, ImportDelete(r) PROVE import' \in ImportLocals
    <2>1. PICK p \in {"target", "delete"} :
            import' = [import EXCEPT !.todo = import.todo \ {r}, !.pc = p]
            \/ import' = [import EXCEPT !.todo = import.todo \ InTarget, !.pc = "target",
                                        !.research = import.research \ {Download[r[1]]}]
      <3>1. import.pc = "delete"
        BY <1>5 DEF ImportDelete
      <3> QED BY <1>5, <3>1 DEF ImportDelete
    <2>2. CASE import' = [import EXCEPT !.todo = import.todo \ {r}, !.pc = p]
      BY <2>2 DEF ImportLocals
    <2>3. CASE import' = [import EXCEPT !.todo = import.todo \ InTarget, !.pc = "target",
                                        !.research = import.research \ {Download[r[1]]}]
      BY <2>3 DEF ImportLocals
    <2> QED BY <2>1, <2>2, <2>3
  <1>6. ASSUME NEW d \in import.research, ImportSearch(d) PROVE import' \in ImportLocals
    BY <1>6 DEF ImportSearch, ImportLocals
  <1> QED BY <1>1, <1>2, <1>3, <1>4, <1>5, <1>6 DEF Import

-----------------------------------------------------------------------------
\* The invariant

\* The invariant holds at first: the apps are empty and nothing runs.
LEMMA InitIInv == Init => IInv
  <1> SUFFICES ASSUME Init PROVE IInv
    OBVIOUS
  <1>1. AppsOK
    BY BoundsNat DEF Init, AppsOK, DownloadState, Command
  <1>2. FixOK
    <2>1. fix \in FixLocals
      BY DEF Init, IdleFix, FixLocals, FixStages
    <2> QED BY <2>1 DEF Init, IdleFix, FixOK, FixTyped, CancelsSearches, Owed, Spared, Steady, Unwanted
  <1>3. stick \in StickLocals /\ import \in ImportLocals
    BY DEF Init, IdleStick, IdleImport, StickLocals, ImportLocals
  <1>4. budget \in Budget
    BY BoundsNat DEF Init, Budget
  <1> QED BY <1>1, <1>2, <1>3, <1>4 DEF IInv

\* A step of the autofix.
LEMMA FixStep ==
  ASSUME IInv, StartFix \/ Fix
  PROVE IInv'
  <1>1. AppsOK /\ FixOK
    BY DEF IInv
  <1>2. stick' = stick /\ import' = import
    BY DEF Fix, StartFix, Check, Cleared, List, FixDelete, FixDeleteTimesOut, FixDeleteFails, FixSearch,
           Storm, StormPut, FixAnswered, FixFails, LookUp, Cancel, Rest
  <1>3. budget' = budget \/ Fault
    BY DEF Fix, StartFix, Check, Cleared, List, FixDelete, FixDeleteTimesOut, FixDeleteFails, FixSearch,
           Storm, StormPut, FixAnswered, FixFails, LookUp, Cancel, Calm
  <1>4. budget' \in Budget
    BY <1>3, BudgetTyped DEF IInv
  <1>5. ASSUME UNCHANGED apps PROVE AppsOK'
    BY <1>1, <1>5 DEF apps, AppsOK
  <1>6. CASE StartFix
    <2>1. "radarr" \in Apps
      BY DEF Apps
    <2>2. FixOK'
      BY <1>6, <2>1, FreshFix DEF StartFix
    <2> QED BY <1>2, <1>4, <1>5, <1>6, <2>2 DEF StartFix, Rest, IInv
  <1>7. CASE Check \/ Cleared
    BY <1>1, <1>2, <1>4, <1>5, <1>7, BacklogFix DEF Check, Cleared, Rest, IInv
  <1>8. ASSUME NEW c \in fix.cancel, Cancel(c) PROVE IInv'
    <2>1. FixOK'
      BY <1>1, <1>8, BacklogFix
    <2>2. c \notin {Refresh} /\ fix.app \in Apps
      BY <1>1, <1>8, RefreshTyped DEF FixOK, FixTyped, CancelsSearches, IsSearch, Cancel
    <2>3. /\ UNCHANGED <<state, grabs, monitored, late, auto>>
          /\ commands' = [commands EXCEPT ![fix.app] = commands[fix.app] \ {c}] \/ commands' = commands
      BY <1>8 DEF Cancel
    <2>4. /\ commands' \in [Apps -> SUBSET Command]
          /\ \A b \in Apps : commands'[b] \subseteq commands[b]
          /\ \A b \in Apps : Refresh \in commands[b] => Refresh \in commands'[b]
      BY <1>1, <2>2, <2>3 DEF AppsOK
    <2>5. AppsOK'
      BY <1>1, <2>3, <2>4 DEF AppsOK
    <2> QED BY <1>2, <1>4, <2>1, <2>5 DEF IInv
  <1>9. CASE List
    BY <1>1, <1>2, <1>4, <1>5, <1>9, ListFix DEF List, Rest, IInv
  <1>10. ASSUME NEW r \in Records, LookUp(r) PROVE IInv'
    BY <1>1, <1>2, <1>4, <1>5, <1>10, LookUpFix DEF LookUp, Rest, IInv
  <1>11. CASE FixDelete \/ FixDeleteTimesOut \/ FixDeleteFails
    BY <1>1, <1>2, <1>4, <1>11, DeleteFix DEF IInv
  <1>12. CASE FixSearch
    BY <1>1, <1>2, <1>4, <1>12, SearchFix DEF IInv
  <1>13. CASE Storm \/ StormPut
    BY <1>1, <1>2, <1>4, <1>13, StormFix DEF IInv
  <1>14. CASE FixAnswered \/ FixFails
    BY <1>2, <1>4, <1>5, <1>14, IdleFixFresh DEF FixAnswered, FixFails, Rest, IInv
  <1> QED BY <1>6, <1>7, <1>8, <1>9, <1>10, <1>11, <1>12, <1>13, <1>14 DEF Fix

\* Every step of the apps, of the pool and of the three requests keeps it.
LEMMA NextIInv == IInv /\ [Next]_vars => IInv'
  <1> SUFFICES ASSUME IInv, [Next]_vars PROVE IInv'
    OBVIOUS
  <1>1. AppsOK /\ FixOK /\ stick \in StickLocals /\ import \in ImportLocals /\ budget \in Budget
    BY DEF IInv
  <1>2. CASE StartFix \/ Fix
    BY <1>2, FixStep
  <1>3. CASE (\E a \in Apps : UnstickImporting(a)) \/ Import
    <2>1. /\ fix' = fix /\ stick' = stick /\ monitored' = monitored
          /\ budget' = budget \/ Fault
      BY <1>3 DEF UnstickImporting, Import, ImportAnswered, TargetSkipped, Inspect, ImportDelete,
                  ImportSearch, Remove, apps, Calm
    <2> QED BY <1>1, <1>3, <2>1, KeepFix, BudgetTyped, ImportApps, ImportTyped DEF IInv
  <1>4. CASE (\E a \in Apps : Unstick(a)) \/ (\E r \in Records : UnstickDelete(r))
    <2>1. /\ fix' = fix /\ import' = import /\ monitored' = monitored
          /\ budget' = budget \/ Fault
      BY <1>4 DEF Unstick, UnstickDelete, Remove, apps, Calm
    <2> QED BY <1>1, <1>4, <2>1, KeepFix, BudgetTyped, StickStep DEF IInv
  <1>5. ASSUME NEW a \in Apps, NEW c \in commands[a],
               PoolStart(a, c) \/ (\E found \in BOOLEAN : PoolEnd(a, c, found))
        PROVE IInv'
    <2>1. AppsOK'
      BY <1>1, <1>5, PoolStartApps, PoolEndApps
    <2>2. /\ fix' = fix /\ import' = import /\ stick' = stick /\ monitored' = monitored
          /\ budget' = budget
      BY <1>5 DEF PoolStart, PoolEnd, Requests
    <2> QED BY <1>1, <2>1, <2>2, KeepFix DEF IInv
  <1>6. ASSUME NEW a \in Apps, Schedule(a) \/ FallBehind(a) \/ SearchMissing(a) \/ EnableAuto(a)
        PROVE IInv'
    <2>1. AppsOK'
      BY <1>1, <1>6, OutsideApps
    <2>2. /\ fix' = fix /\ import' = import /\ stick' = stick /\ monitored' = monitored
      BY <1>6 DEF Schedule, FallBehind, SearchMissing, EnableAuto, Requests
    <2>3. budget' \in Budget
      <3>1. CASE Schedule(a)
        BY <1>1, <3>1 DEF Schedule
      <3>2. CASE FallBehind(a)
        BY <1>1, <3>2, BoundsNat DEF FallBehind, Budget
      <3>3. CASE SearchMissing(a)
        BY <1>1, <3>3, BoundsNat DEF SearchMissing, Budget
      <3>4. CASE EnableAuto(a)
        BY <1>1, <3>4, BudgetTyped DEF EnableAuto
      <3> QED BY <1>6, <3>1, <3>2, <3>3, <3>4
    <2> QED BY <1>1, <2>1, <2>2, <2>3, KeepFix DEF IInv
  <1>7. ASSUME NEW i \in Items, Progress(i) PROVE IInv'
    <2>1. AppsOK'
      BY <1>1, <1>7, OutsideApps
    <2>2. /\ fix' = fix /\ import' = import /\ stick' = stick /\ monitored' = monitored
          /\ budget' = budget
      BY <1>7 DEF Progress, Requests
    <2> QED BY <1>1, <2>1, <2>2, KeepFix DEF IInv
  <1>8. CASE (\E done : MonitorEpisodesFix(done)) \/ (\E i \in Items : Unmonitor(i))
    <2>1. stick' = stick /\ import' = import /\ Edit
      BY <1>8 DEF MonitorEpisodesFix, Unmonitor
    <2>2. AppsOK' /\ FixOK'
      BY <1>1, <1>8, EditFix
    <2> QED BY <1>1, <2>1, <2>2, BudgetTyped DEF IInv
  <1>9. CASE UNCHANGED vars
    BY <1>1, <1>9, KeepFix DEF vars, IInv, AppsOK
  <1> QED BY <1>2, <1>3, <1>4, <1>5, <1>6, <1>7, <1>8, <1>9 DEF Next, Pool

\* The invariant of the remediation: apps, what the autofix owes, and what it spares.
THEOREM Invariance == Spec => []IInv
  BY InitIInv, NextIInv, PTL DEF Spec

\* Every app's queue, commands and settings are what their kind says, and one
\* command of an app runs at a time.
THEOREM TypeCorrect == Spec => []TypeOK
  <1>1. IInv => TypeOK
    <2> SUFFICES ASSUME IInv PROVE TypeOK
      OBVIOUS
    <2>1. \A a \in Apps : Cardinality({c \in commands[a] : c.status = "started"}) <= 1
      <3> SUFFICES ASSUME NEW a \in Apps
                   PROVE Cardinality({c \in commands[a] : c.status = "started"}) <= 1
        OBVIOUS
      <3> DEFINE running == {c \in commands[a] : c.status = "started"}
      <3>1. \A c, d \in running : c = d
        BY DEF IInv, AppsOK
      <3>2. CASE running = {}
        BY <3>2, FS_EmptySet
      <3>3. ASSUME NEW c \in running PROVE Cardinality(running) <= 1
        <4>1. running = {c}
          BY <3>1
        <4> QED BY <4>1, FS_Singleton
      <3> QED BY <3>2, <3>3
    <2>2. fix \in FixLocals /\ stick \in StickLocals /\ import \in ImportLocals
      BY DEF IInv, FixOK, FixTyped
    <2>3. fix.pc \in FixStages /\ fix.todo \subseteq Records /\ fix.tries \in 0..1
      BY <2>2 DEF FixLocals
    <2>4. stick.pc \in {"idle", "delete"} /\ stick.todo \subseteq Records
      BY <2>2 DEF StickLocals
    <2>5. import.pc \in {"idle", "target", "delete", "search"}
      BY <2>2 DEF ImportLocals
    <2>6. \A a \in Apps : late[a] => [name |-> "refresh", items |-> {}, status |-> "queued"] \in commands[a]
      BY DEF IInv, AppsOK, Refresh, Queued
    <2>7. budget \in [faults : 0..MaxFaults, searches : 0..MaxSearches, lates : 0..MaxLate,
                      edits : 0..MaxEdits]
      BY DEF IInv, Budget
    <2>8. /\ state \in [Items -> DownloadState] /\ grabs \in [Items -> 0..MaxGrabs]
          /\ monitored \subseteq Items
          /\ \A a \in Apps : commands[a] \subseteq Command
          /\ late \in [Apps -> BOOLEAN] /\ auto \in [Apps -> BOOLEAN]
      BY DEF IInv, AppsOK
    <2>9. /\ fix.pc # "idle" => fix.app \in Apps
          /\ \A r \in fix.todo : AppOf(r[1]) = fix.app
          /\ fix.pc = "delete" => fix.cur \in Records
      BY DEF IInv, FixOK, FixTyped
    <2> QED BY <2>1, <2>3, <2>4, <2>5, <2>6, <2>7, <2>8, <2>9 DEF TypeOK, FixStages
  <1> QED BY <1>1, Invariance, PTL

\* Every item that was monitored when the autofix listed a queue, was not touched by an edit
\* until it was done with the queue and that it took out of it is in the search it posted or
\* in its report's errors (blocklist_and_research, arr_client.py:168-208), whatever timed out:
\* for any items, faults and interleaving with the apps and the other requests.
THEOREM NoneDropped == Spec => []NothingDropped
  <1>1. IInv => NothingDropped
    BY DEF IInv, FixOK, Owed, NothingDropped
  <1> QED BY <1>1, Invariance, PTL

-----------------------------------------------------------------------------
\* What a step may not do

\* Only its search takes the pass from the items to the storm.
LEMMA SearchEndsItems ==
  ASSUME IInv, Next, fix.pc = "item", fix'.pc = "storm"
  PROVE FixSearch
  <1>1. fix \in FixLocals /\ fix'.pc # fix.pc
    BY DEF IInv, FixOK, FixTyped
  <1>2. ~((\E done : MonitorEpisodesFix(done)) \/ (\E i \in Items : Unmonitor(i)))
    BY <1>1, EditFix DEF IInv
  <1>3. ~StartFix
    BY DEF StartFix
  <1>4. CASE Fix
    <2>1. \A r \in Records : ~LookUp(r)
      <3> SUFFICES ASSUME NEW r \in Records, LookUp(r) PROVE fix'.pc = "delete"
        OBVIOUS
      <3> QED BY <1>1 DEF LookUp, InHand, FixLocals
    <2> QED BY <1>4, <2>1 DEF Fix, Check, Cleared, List, FixDelete, FixDeleteTimesOut, FixDeleteFails,
                              Storm, StormPut, FixAnswered, FixFails, Cancel
  <1>5. CASE Import
    BY <1>1, <1>5 DEF Import, ImportAnswered, TargetSkipped, Inspect, ImportDelete, ImportSearch
  <1>6. ASSUME NEW a \in Apps,
               \/ Schedule(a) \/ FallBehind(a) \/ Pool(a) \/ SearchMissing(a) \/ EnableAuto(a)
               \/ Unstick(a) \/ UnstickImporting(a)
        PROVE FALSE
    BY <1>1, <1>6 DEF Schedule, FallBehind, Pool, PoolStart, PoolEnd, SearchMissing, EnableAuto,
                      Unstick, UnstickImporting, Requests
  <1>7. ASSUME NEW r \in Records, UnstickDelete(r) PROVE FALSE
    BY <1>1, <1>7 DEF UnstickDelete
  <1>8. ASSUME NEW i \in Items, Progress(i) PROVE FALSE
    BY <1>1, <1>8 DEF Progress, Requests
  <1> QED BY <1>2, <1>3, <1>4, <1>5, <1>6, <1>7, <1>8 DEF Next

\* The autofix does not search for an item that was unmonitored when it listed the queue
\* and stayed so until its search, unless a lookup failed (item_is_monitored,
\* arr_client.py:138-165): for any items, by the object that came with a record or by a lookup.
THEOREM UnmonitoredSpared == Spec => UnmonitoredLeftAlone
  <1> DEFINE step == fix.pc = "item" /\ fix'.pc = "storm" /\ commands' # commands
                     => \A c \in commands'[fix.app] \ commands[fix.app] :
                           c.items \cap Unwanted \subseteq fix.guessed
  <1>1. IInv /\ [Next]_vars => [step]_vars
    <2> SUFFICES ASSUME IInv, Next, fix.pc = "item", fix'.pc = "storm", commands' # commands,
                        NEW c \in commands'[fix.app] \ commands[fix.app]
                 PROVE c.items \cap Unwanted \subseteq fix.guessed
      OBVIOUS
    <2>1. FixSearch
      BY SearchEndsItems
    <2>2. fix.app \in Apps /\ fix.ids \cap Unwanted \subseteq fix.guessed
      BY DEF IInv, FixOK, FixTyped, Spared
    <2>3. commands' = [commands EXCEPT ![fix.app] = commands[fix.app] \cup {Queued("targeted", fix.ids)}]
      BY <2>1 DEF FixSearch, Post
    <2>4. c = Queued("targeted", fix.ids)
      BY <2>2, <2>3 DEF IInv, AppsOK
    <2>5. c.items = fix.ids
      BY <2>4 DEF Queued
    <2> QED BY <2>2, <2>5
  <1>2. []IInv /\ [][Next]_vars => [][step]_vars
    BY <1>1, PTL
  <1> QED BY <1>2, Invariance DEF Spec, UnmonitoredLeftAlone

\* What is posted takes no command away.
LEMMA PostKeeps ==
  ASSUME AppsOK, NEW a, NEW cs, commands' = commands \/ Post(a, cs), NEW b \in Apps
  PROVE commands[b] \subseteq commands'[b]
  BY DEF AppsOK, Post

\* Removing a record from a queue takes no command from the pool.
LEMMA RemoveKeeps ==
  ASSUME AppsOK, NEW r, NEW blocklist, NEW skip, Remove(r, blocklist, skip), NEW b \in Apps
  PROVE commands[b] \subseteq commands'[b]
  BY PostKeeps DEF Remove

\* Of all steps, only a cancellation by the autofix and the pool take commands away.
LEMMA WhoTakes ==
  ASSUME AppsOK, Next, NEW b \in Apps, Requests' # Requests,
         \A c \in fix.cancel : ~Cancel(c)
  PROVE commands[b] \subseteq commands'[b]
  <1>1. ASSUME commands' = commands PROVE commands[b] \subseteq commands'[b]
    BY <1>1
  <1>2. CASE StartFix
    BY <1>1, <1>2 DEF StartFix, Rest, apps
  <1>3. CASE Fix
    <2>1. CASE FixDelete
      BY <2>1, RemoveKeeps DEF FixDelete
    <2>2. CASE FixDeleteTimesOut
      BY <1>1, <2>2, RemoveKeeps DEF FixDeleteTimesOut, apps
    <2>3. CASE FixSearch
      BY <1>1, <2>3, PostKeeps DEF FixSearch
    <2>4. ASSUME NEW r \in Records, LookUp(r) PROVE commands[b] \subseteq commands'[b]
      BY <1>1, <2>4 DEF LookUp, Rest, apps
    <2> QED BY <1>1, <1>3, <2>1, <2>2, <2>3, <2>4
            DEF Fix, Check, Cleared, List, FixDeleteFails, Storm, StormPut, FixAnswered, FixFails, Rest, apps
  <1>4. CASE Import
    <2>1. ASSUME NEW r \in Records, ImportDelete(r) PROVE commands[b] \subseteq commands'[b]
      BY <1>1, <2>1, RemoveKeeps DEF ImportDelete, apps
    <2>2. ASSUME NEW d \in import.research, ImportSearch(d) PROVE commands[b] \subseteq commands'[b]
      BY <1>1, <2>2, PostKeeps DEF ImportSearch
    <2> QED BY <1>1, <1>4, <2>1, <2>2 DEF Import, ImportAnswered, TargetSkipped, Inspect, apps
  <1>5. ASSUME NEW a \in Apps,
               \/ Schedule(a) \/ FallBehind(a) \/ Pool(a) \/ SearchMissing(a) \/ EnableAuto(a)
               \/ Unstick(a) \/ UnstickImporting(a)
        PROVE commands[b] \subseteq commands'[b]
    <2>1. ~Pool(a)
      BY DEF Pool, PoolStart, PoolEnd, Requests
    <2> QED BY <1>1, <1>5, <2>1, PostKeeps DEF Schedule, FallBehind, SearchMissing, EnableAuto,
                      Unstick, UnstickImporting, apps
  <1>6. ASSUME NEW r \in Records, UnstickDelete(r) PROVE commands[b] \subseteq commands'[b]
    BY <1>1, <1>6, RemoveKeeps DEF UnstickDelete, apps
  <1>7. ASSUME NEW i \in Items, Progress(i) \/ Unmonitor(i) PROVE commands[b] \subseteq commands'[b]
    BY <1>1, <1>7 DEF Progress, Unmonitor
  <1>8. ASSUME NEW done, MonitorEpisodesFix(done) PROVE commands[b] \subseteq commands'[b]
    BY <1>1, <1>8 DEF MonitorEpisodesFix
  <1> QED BY <1>2, <1>3, <1>4, <1>5, <1>6, <1>7, <1>8 DEF Next

\* No request takes away a command that has started, nor the refresh that fills
\* the queue and imports.
THEOREM WorkerKept == Spec => ImportWorkerKept
  <1> DEFINE step == \A a \in Apps : \A c \in commands[a] \ commands'[a] :
                        Requests' # Requests => c.status = "queued" /\ c.name # "refresh"
  <1>1. IInv /\ [Next]_vars => [step]_vars
    <2> SUFFICES ASSUME IInv, Next, NEW a \in Apps, NEW c \in commands[a] \ commands'[a],
                        Requests' # Requests
                 PROVE c.status = "queued" /\ c.name # "refresh"
      OBVIOUS
    <2>1. PICK d \in fix.cancel : Cancel(d)
      BY WhoTakes DEF IInv
    <2>2. d.status = "queued" /\ d.name # "refresh"
      BY DEF IInv, FixOK, CancelsSearches, IsSearch
    <2>3. commands' = [commands EXCEPT ![fix.app] = commands[fix.app] \ {d}] \/ commands' = commands
      BY <2>1 DEF Cancel
    <2>4. c = d
      BY <2>3 DEF IInv, AppsOK
    <2> QED BY <2>2, <2>4
  <1>2. []IInv /\ [][Next]_vars => [][step]_vars
    BY <1>1, PTL
  <1> QED BY <1>2, Invariance DEF Spec, ImportWorkerKept

-----------------------------------------------------------------------------
(* The panel's reports on the queues.                                      *)

\* Every set of natural numbers that is not empty has a least one.
LEMMA LeastIndex ==
  ASSUME NEW S \in SUBSET Nat, S # {}
  PROVE  \E n \in S : \A k \in S : n <= k
<1>1. PICK n \in S : \A k \in S : ~(<<k, n>> \in OpToRel(<, Nat))
  BY NatLessThanWellFounded, WFMin
<1>2. \A k \in S : ~(k < n)
  BY <1>1 DEF OpToRel
<1>3. QED
  BY <1>2


\* A set of indexes that is not empty has a greatest.
LEMMA GreatestIndex ==
  ASSUME NEW n \in Nat, NEW S \in SUBSET (1..n), S # {}
  PROVE  \E k \in S : \A l \in S : l <= k
<1> DEFINE Left == {i \in 0..n : n - i \in S}
<1>1. \A k \in S : n - k \in Left /\ n - k \in Nat
  OBVIOUS
<1>2. Left \in SUBSET Nat /\ Left # {}
  <2>1. Left \in SUBSET Nat
    OBVIOUS
  <2> HIDE DEF Left
  <2>2. QED
    BY <1>1, <2>1
<1>3. \A i \in Left : i \in Nat /\ n - i \in S
  OBVIOUS
<1> HIDE DEF Left
<1>4. PICK i \in Left : \A j \in Left : i <= j
  BY <1>2, LeastIndex
<1>5. ASSUME NEW l \in S PROVE l <= n - i
  <2>1. i <= n - l /\ i \in Nat /\ l \in Nat
    BY <1>1, <1>3, <1>4
  <2>2. QED
    BY <2>1
<1>6. QED
  BY <1>3, <1>4, <1>5

\* The numbers up to n are n.
LEMMA CountTo == \A n \in Nat : IsFiniteSet(1..n) /\ Cardinality(1..n) = n
  BY FS_Interval

-----------------------------------------------------------------------------
\* Downloading is what advanced between the samples (services/queue/router.py).
LEMMA BucketsTold == OnlyMovingIsDownloading
<1> SUFFICES ASSUME NEW source \in {"arr", "nzbdav", "plex"},
                    NEW first \in Answers(Things(source)), NEW second \in Answers(Things(source)), second.up,
                    NEW i \in DOMAIN second.items
             PROVE  LET old == first.items[i]
                        new == second.items[i]
                        advanced == i \in DOMAIN first.items /\ Done(source, new) > Done(source, old)
                        bucket == Bucket(source, first, second, i)
                    IN /\ bucket = "downloading" => advanced /\ Moving(source, new)
                       /\ advanced /\ Moving(source, old) /\ Moving(source, new) => bucket = "downloading"
  BY Zenon DEF OnlyMovingIsDownloading
<1> DEFINE old == first.items[i]
           new == second.items[i]
           Been == i \in DOMAIN first.items
           bucket == Bucket(source, first, second, i)
<1>1. ASSUME NEW things, NEW a \in Answers(things), NEW j \in DOMAIN a.items PROVE a.items[j] \in things
  <2>1. CASE a = Down
    BY <2>1 DEF Down
  <2>2. CASE \E ids \in SUBSET Ids : \E items \in [ids -> things] : a = [up |-> TRUE, items |-> items]
    BY <2>2
  <2>3. QED
    BY <2>1, <2>2 DEF Answers
<1>2. new \in Things(source) /\ (Been => old \in Things(source))
  BY <1>1
<1> SUFFICES /\ bucket = "downloading" => Been /\ Done(source, new) > Done(source, old) /\ Moving(source, new)
             /\ Been /\ Done(source, new) > Done(source, old) /\ Moving(source, old) /\ Moving(source, new)
                  => bucket = "downloading"
  OBVIOUS
<1>3. CASE source = "arr"
  <2> DEFINE prev == ArrSizeleftSnapshot(first)
  <2>1. Things(source) = [size : {2}, left : 0..2, state : {"downloading", "importPending"}]
    BY <1>3 DEF Things
  <2>2. bucket = BucketArrItem(new, prev, i)
    BY <1>3 DEF Bucket
  <2>3. /\ i \in DOMAIN prev <=> Been /\ old.left > 0
        /\ i \in DOMAIN prev => prev[i] = old.left
    BY DEF ArrSizeleftSnapshot
  <2>4. /\ Done(source, new) = 2 - new.left /\ Done(source, old) = 2 - old.left
        /\ Moving(source, new) <=> new.state = "downloading" /\ new.left > 0
        /\ Moving(source, old) <=> old.state = "downloading" /\ old.left > 0
    BY <1>3 DEF Done, Moving
  <2>5. new.left \in 0..2 /\ new.state \in {"downloading", "importPending"} /\ (Been => old.left \in 0..2)
    BY <1>2, <2>1
  <2> HIDE DEF prev, bucket, new, old, Been
  <2>6. bucket = "downloading" <=>
          new.state = "downloading" /\ new.left # 0 /\ i \in DOMAIN prev /\ prev[i] > new.left
    BY <2>2, <2>5 DEF BucketArrItem, Shrank
  <2>7. QED
    BY <2>3, <2>4, <2>5, <2>6
<1>4. CASE source = "nzbdav"
  <2> DEFINE prev == NzbdavMbleftSnapshot(first)
  <2>1. Things(source) = [left : 0..2, status : {"Downloading", "Queued"}]
    BY <1>4 DEF Things
  <2>2. bucket = BucketNzbdavItem(new, prev, i)
    BY <1>4 DEF Bucket
  <2>3. /\ i \in DOMAIN prev <=> Been /\ old.status = "Downloading"
        /\ i \in DOMAIN prev => prev[i] = old.left
    BY DEF NzbdavMbleftSnapshot
  <2>4. /\ Done(source, new) = 2 - new.left /\ Done(source, old) = 2 - old.left
        /\ Moving(source, new) <=> new.status = "Downloading" /\ new.left > 0
        /\ Moving(source, old) <=> old.status = "Downloading" /\ old.left > 0
    BY <1>4 DEF Done, Moving
  <2>5. new.left \in 0..2 /\ (Been => old.left \in 0..2)
    BY <1>2, <2>1
  <2> HIDE DEF prev, bucket, new, old, Been
  <2>6. bucket = "downloading" <=>
          new.status = "Downloading" /\ new.left # 0 /\ i \in DOMAIN prev /\ prev[i] > new.left
    BY <2>2, <2>5 DEF BucketNzbdavItem, Shrank
  <2>7. QED
    BY <2>3, <2>4, <2>5, <2>6
<1>5. CASE source = "plex"
  <2> DEFINE prev == PlexProgressSnapshot(first)
  <2>1. Things(source) = [progress : 0..2]
    BY <1>5 DEF Things
  <2>2. bucket = BucketPlexActivity(new, prev, i)
    BY <1>5 DEF Bucket
  <2>3. /\ i \in DOMAIN prev <=> Been
        /\ Been => prev[i] = old.progress
    BY DEF PlexProgressSnapshot
  <2>4. Done(source, new) = new.progress /\ Done(source, old) = old.progress /\ Moving(source, new)
    BY <1>5 DEF Done, Moving
  <2> HIDE DEF prev, bucket, new, old, Been
  <2>5. bucket = "downloading" <=> i \in DOMAIN prev /\ new.progress > prev[i]
    BY <2>2 DEF BucketPlexActivity
  <2>6. QED
    BY <2>3, <2>4, <2>5
<1>6. QED
  BY <1>3, <1>4, <1>5

-----------------------------------------------------------------------------
\* A set of two elements at least has two.
LEMMA TwoElements ==
  ASSUME NEW S, IsFiniteSet(S), Cardinality(S) >= 2
  PROVE  \E a, b \in S : a # b
<1>1. S # {}
  BY FS_EmptySet
<1>2. PICK a \in S : TRUE
  BY <1>1
<1>3. S # {a}
  BY FS_Singleton
<1>4. QED
  BY <1>2, <1>3

\* No episode of a series of which enough loop is suggested for unmonitoring, and what is
\* has failed twice in the hours asked for (arr_loop_candidates).
LEMMA ReviewComesFirst == ReviewBeforeUnmonitor
<1> SUFFICES ASSUME NEW detail \in [1..3 -> [found : {TRUE}, series : {"a", "b"}, monitored : BOOLEAN]
                                          \cup [found : {FALSE}]],
                    NEW calls \in [1..5 -> 1..3], NEW path \in {"plain", "suffix"}, NEW threshold \in {2, 3}
             PROVE  LET records == [n \in 1..5 |-> [id |-> calls[n], age |-> n]]
                        rows == LoopCandidates("sonarr", records, 4, detail, <<[id |-> 1, path |-> path]>>,
                                               threshold)
                        ofSeries(s) == {e \in DOMAIN rows : detail[e].found /\ detail[e].series = s}
                    IN \A e \in DOMAIN rows : rows[e] = "unmonitor" =>
                         /\ \E k, n \in 1..4 : k < n /\ calls[k] = e /\ calls[n] = e
                         /\ detail[e].found =>
                              detail[e].monitored /\ Cardinality(ofSeries(detail[e].series)) < threshold
  BY Zenon DEF ReviewBeforeUnmonitor
<1> DEFINE records == [n \in 1..5 |-> [id |-> calls[n], age |-> n]]
           queue == <<[id |-> 1, path |-> path]>>
           looping == Looping(records, 4)
           rows == LoopCandidates("sonarr", records, 4, detail, queue, threshold)
           OfSeries(s) == {e \in looping : detail[e].found /\ detail[e].series = s}
<1>1. DOMAIN rows = looping
  BY DEF LoopCandidates
<1>2. \A id \in looping : rows[id] = SuggestedAction("sonarr", looping, detail, queue, threshold, id)
  BY DEF LoopCandidates
<1>3. looping \subseteq 1..3
  BY DEF Looping
<1>4. \A id \in looping : Occurrences(records, 4, id) >= 2
  BY DEF Looping, LoopMinOccurrences
<1>5. ASSUME NEW id PROVE Occurrences(records, 4, id) = Cardinality({n \in 1..5 : calls[n] = id /\ n <= 4})
  <2>1. DOMAIN records = 1..5
    OBVIOUS
  <2>2. {n \in DOMAIN records : records[n].id = id /\ records[n].age <= 4} =
          {n \in 1..5 : calls[n] = id /\ n <= 4}
    OBVIOUS
  <2> HIDE DEF records
  <2>3. QED
    BY <2>2 DEF Occurrences
<1> HIDE DEF looping, rows, records, queue
<1> SUFFICES ASSUME NEW e \in looping, rows[e] = "unmonitor"
             PROVE  /\ \E k, n \in 1..4 : k < n /\ calls[k] = e /\ calls[n] = e
                    /\ detail[e].found =>
                         detail[e].monitored /\ Cardinality(OfSeries(detail[e].series)) < threshold
  BY <1>1, Zenon DEF rows, records, queue
<1>6. \E k, n \in 1..4 : k < n /\ calls[k] = e /\ calls[n] = e
  <2> DEFINE S == {n \in 1..5 : calls[n] = e /\ n <= 4}
  <2>1. Cardinality(S) >= 2
    BY <1>4, <1>5
  <2>2. IsFiniteSet(S)
    <3>1. IsFiniteSet(1..5)
      BY CountTo
    <3>2. QED
      BY <3>1, FS_Subset
  <2>3. PICK a, b \in S : a # b
    <3> HIDE DEF S
    <3>1. QED
      BY <2>1, <2>2, TwoElements
  <2>4. CASE a < b
    BY <2>4
  <2>5. CASE b < a
    BY <2>5
  <2>6. QED
    BY <2>3, <2>4, <2>5
<1>7. ASSUME detail[e].found
      PROVE  detail[e].monitored /\ Cardinality(OfSeries(detail[e].series)) < threshold
  <2>1. rows[e] = SuggestedAction("sonarr", looping, detail, queue, threshold, e)
    BY <1>2
  <2>2. detail[e].monitored
    BY <1>7, <2>1 DEF SuggestedAction
  <2>3. ~(SeriesCount(looping, detail, e) >= threshold)
    BY <1>7, <2>1 DEF SuggestedAction
  <2>4. SeriesCount(looping, detail, e) = Cardinality(OfSeries(detail[e].series))
    BY DEF SeriesCount
  <2>5. Cardinality(OfSeries(detail[e].series)) \in Nat
    <3>1. IsFiniteSet(1..3)
      BY CountTo
    <3>2. OfSeries(detail[e].series) \subseteq 1..3
      BY <1>3
    <3>3. QED
      BY <3>1, <3>2, FS_Subset, FS_CardinalityType
  <2> HIDE DEF OfSeries
  <2>6. QED
    BY <2>2, <2>3, <2>4, <2>5
<1>8. QED
  BY <1>6, <1>7

-----------------------------------------------------------------------------
\* There is an estimate exactly if something is missing and two imports at least are
\* remembered, the newest of them from the last hours, for a history of any length, and it is
\* what the missing take at the rate of those imports over the longest time between two of them
\* (recent_import_rate_per_hour, core/arr_client.py; backlog_status).
THEOREM EtaIs ==
  ASSUME NEW len \in Nat, NEW history, DOMAIN history = 1..len,
         \A n \in 1..len : history[n].age \in Nat,
         \A k \in 1..len : \A l \in k..len : history[k].age <= history[l].age,
         NEW missing \in Nat
  PROVE  LET imports == Imports(history)
             eta == BacklogEta(missing, history)
         IN /\ eta.kind = "eta" <=>
                 /\ missing > 0 /\ Cardinality(imports) >= 2
                 /\ \E k \in imports : history[k].age <= LookbackQuarters
            /\ eta.kind = "eta" => \E span \in Spans(history) :
                 /\ \A other \in Spans(history) : other <= span
                 /\ eta.quarters = (missing * span) \div Cardinality(imports)
<1> DEFINE imports == Imports(history)
           first == CHOOSE n \in imports : \A k \in imports : n <= k
           last == CHOOSE n \in imports : \A k \in imports : n >= k
           between == history[last].age - history[first].age
           rate == RecentImportRate(history)
           eta == BacklogEta(missing, history)
<1>1. imports \in SUBSET Nat /\ imports \subseteq 1..len /\ IsFiniteSet(imports)
  <2>1. IsFiniteSet(1..len)
    BY CountTo
  <2>2. imports \subseteq 1..len
    BY DEF Imports
  <2>3. QED
    BY <2>1, <2>2, FS_Subset
<1>2. Cardinality(imports) \in Nat /\ (imports = {} => Cardinality(imports) = 0)
  BY <1>1, FS_CardinalityType, FS_EmptySet
<1>3. ASSUME imports # {}
      PROVE  /\ first \in imports /\ \A k \in imports : first <= k
             /\ last \in imports /\ \A k \in imports : last >= k
  <2> HIDE DEF imports
  <2>1. \E n \in imports : \A k \in imports : n <= k
    BY <1>1, <1>3, LeastIndex
  <2>2. \E n \in imports : \A k \in imports : n >= k
    <3>1. PICK n \in imports : \A k \in imports : k <= n
      BY <1>1, <1>3, GreatestIndex
    <3>2. \A k \in imports : n >= k
      BY <1>1, <3>1
    <3>3. QED
      BY <3>2
  <2>3. QED
    BY <2>1, <2>2
<1>4. /\ rate.imports = IF Cardinality(imports) < 2 \/ history[first].age > LookbackQuarters
                        THEN 0 ELSE Cardinality(imports)
      /\ rate.imports # 0 => rate.span = IF between > 1 THEN between ELSE 1
  BY DEF RecentImportRate
<1>5. /\ eta.kind = "eta" <=> missing # 0 /\ rate.imports # 0
      /\ eta.kind = "eta" => eta.quarters = (missing * rate.span) \div rate.imports
  BY DEF BacklogEta
<1>6. LookbackQuarters \in Nat
  BY DEF LookbackQuarters
<1> HIDE DEF rate, first, last, imports, eta
<1>7. CASE Cardinality(imports) < 2
  BY <1>2, <1>4, <1>5, <1>7 DEF imports, eta
<1>8. CASE Cardinality(imports) >= 2
  <2>1. /\ first \in imports /\ \A k \in imports : first <= k
        /\ last \in imports /\ \A k \in imports : last >= k
    BY <1>2, <1>3, <1>8
  <2>2. \A k \in imports : history[first].age <= history[k].age /\ history[k].age <= history[last].age
    <3> SUFFICES ASSUME NEW k \in imports
                 PROVE  history[first].age <= history[k].age /\ history[k].age <= history[last].age
      OBVIOUS
    <3>1. first \in 1..len /\ k \in 1..len /\ last \in 1..len /\ first <= k /\ k <= last
      BY <1>1, <2>1
    <3>2. k \in first..len /\ last \in k..len
      BY <3>1
    <3>3. QED
      BY <3>1, <3>2
  <2>3. history[first].age \in Nat /\ history[last].age \in Nat /\ \A k \in imports : history[k].age \in Nat
    BY <1>1, <2>1
  <2>4. (\E k \in imports : history[k].age <= LookbackQuarters) <=> history[first].age <= LookbackQuarters
    BY <1>6, <2>1, <2>2, <2>3
  <2>5. ~(Cardinality(imports) < 2)
    BY <1>2, <1>8
  <2>6. rate.imports # 0 <=> history[first].age <= LookbackQuarters
    BY <1>2, <1>4, <1>6, <1>8, <2>3, <2>5
  <2>7. ASSUME rate.imports # 0
        PROVE  /\ rate.imports = Cardinality(imports) /\ rate.span \in Spans(history)
               /\ \A other \in Spans(history) : other <= rate.span
    <3>1. rate.imports = Cardinality(imports) /\ rate.span = IF between > 1 THEN between ELSE 1
      BY <1>4, <2>7
    <3>2. between \in Spans(history) /\ 1 \in Spans(history)
      BY <2>1 DEF Spans, imports
    <3>3. rate.span \in Spans(history)
      BY <3>1, <3>2
    <3>4. between \in Int /\ rate.span \in Int /\ 1 <= rate.span /\ between <= rate.span
      <4>1. between \in Int
        BY <2>3
      <4> HIDE DEF between
      <4>2. QED
        BY <3>1, <4>1
    <3>5. ASSUME NEW k \in imports, NEW l \in imports PROVE history[l].age - history[k].age <= rate.span
      <4>1. history[l].age - history[k].age <= between
        BY <2>2, <2>3
      <4>2. history[l].age - history[k].age \in Int
        BY <2>3
      <4> HIDE DEF between
      <4>3. QED
        BY <3>4, <4>1, <4>2
    <3>6. QED
      BY <3>1, <3>3, <3>4, <3>5 DEF Spans, imports
  <2>8. QED
    BY <1>5, <1>8, <2>4, <2>6, <2>7 DEF imports, eta
<1>9. QED
  BY <1>2, <1>7, <1>8

\* The histories the runs go through are such histories.
LEMMA EtaTold == EtaFollowsImports
<1> SUFFICES ASSUME NEW n \in 0..3, NEW ages \in [1..n -> {0, 2, LookbackQuarters, LookbackQuarters + 1}],
                    NEW events \in [1..n -> {"import", "grab"}], NEW missing \in 0..2,
                    \A k \in 1..n : \A l \in k..n : ages[k] <= ages[l]
             PROVE  LET history == [k \in 1..n |-> [age |-> ages[k], event |-> events[k]]]
                        imports == Imports(history)
                        eta == BacklogEta(missing, history)
                    IN /\ eta.kind = "eta" <=>
                            /\ missing > 0 /\ Cardinality(imports) >= 2
                            /\ \E k \in imports : history[k].age <= LookbackQuarters
                       /\ eta.kind = "eta" => \E span \in Spans(history) :
                            /\ \A other \in Spans(history) : other <= span
                            /\ eta.quarters = (missing * span) \div Cardinality(imports)
  BY Zenon DEF EtaFollowsImports
<1> DEFINE history == [k \in 1..n |-> [age |-> ages[k], event |-> events[k]]]
<1>1. n \in Nat /\ missing \in Nat
  OBVIOUS
<1>2. DOMAIN history = 1..n /\ \A k \in 1..n : history[k].age = ages[k]
  OBVIOUS
<1>3. \A k \in 1..n : ages[k] \in Nat
  BY DEF LookbackQuarters
<1> HIDE DEF history
<1>4. \A k \in 1..n : history[k].age \in Nat
  BY <1>2, <1>3
<1>5. \A k \in 1..n : \A l \in k..n : history[k].age <= history[l].age
  <2> SUFFICES ASSUME NEW k \in 1..n, NEW l \in k..n PROVE history[k].age <= history[l].age
    OBVIOUS
  <2>1. l \in 1..n
    BY <1>1
  <2>2. QED
    BY <1>2, <2>1
<1>6. QED
  BY <1>1, <1>2, <1>4, <1>5, EtaIs DEF history

-----------------------------------------------------------------------------
\* The order of what waits is strict and total.
LEMMA EarlierOrders ==
  ASSUME NEW issued, NEW queued \in SUBSET Nat, \A n \in queued : issued[n].at \in Int,
         NEW k \in queued, NEW l \in queued, NEW n \in queued
  PROVE  /\ ~Earlier(issued, n, n)
         /\ Earlier(issued, k, l) /\ Earlier(issued, l, n) => Earlier(issued, k, n)
         /\ k # n => Earlier(issued, k, n) \/ Earlier(issued, n, k)
<1>1. issued[k].at \in Int /\ issued[l].at \in Int /\ issued[n].at \in Int
      /\ k \in Nat /\ l \in Nat /\ n \in Nat
  OBVIOUS
<1>2. QED
  BY <1>1 DEF Earlier

\* What is earlier has a lower rank, and no rank reaches the number of what waits.
LEMMA RankGrows ==
  ASSUME NEW issued, NEW queued \in SUBSET Nat, IsFiniteSet(queued),
         \A n \in queued : issued[n].at \in Int, NEW n \in queued
  PROVE  /\ Rank(issued, queued, n) \in Nat /\ Rank(issued, queued, n) < Cardinality(queued)
         /\ \A k \in queued : Earlier(issued, k, n) => Rank(issued, queued, k) < Rank(issued, queued, n)
<1> DEFINE Before(j) == {k \in queued : Earlier(issued, k, j)}
<1>1. \A j : Rank(issued, queued, j) = Cardinality(Before(j))
  BY DEF Rank
<1>2. \A j : IsFiniteSet(Before(j)) /\ Cardinality(Before(j)) \in Nat
  BY FS_Subset, FS_CardinalityType
<1>3. Before(n) \subseteq queued \ {n}
  BY EarlierOrders
<1>4. Cardinality(Before(n)) < Cardinality(queued)
  <2>1. IsFiniteSet(queued \ {n}) /\ Cardinality(queued \ {n}) = Cardinality(queued) - 1
    BY FS_RemoveElement
  <2>2. Cardinality(Before(n)) <= Cardinality(queued \ {n})
    BY <1>3, <2>1, FS_Subset
  <2>3. Cardinality(queued) \in Nat
    BY FS_CardinalityType
  <2> HIDE DEF Before
  <2>4. QED
    BY <1>2, <2>1, <2>2, <2>3
<1>5. ASSUME NEW k \in queued, Earlier(issued, k, n)
      PROVE  Cardinality(Before(k)) < Cardinality(Before(n))
  <2>1. k \in Before(n)
    BY <1>5
  <2>2. Before(k) \subseteq Before(n) \ {k}
    BY <1>5, EarlierOrders
  <2> HIDE DEF Before
  <2>3. IsFiniteSet(Before(n) \ {k}) /\ Cardinality(Before(n) \ {k}) = Cardinality(Before(n)) - 1
    BY <1>2, <2>1, FS_RemoveElement
  <2>4. Cardinality(Before(k)) <= Cardinality(Before(n) \ {k})
    BY <2>2, <2>3, FS_Subset
  <2>5. QED
    BY <1>2, <2>3, <2>4
<1> HIDE DEF Before
<1>6. Rank(issued, queued, n) \in Nat /\ Rank(issued, queued, n) < Cardinality(queued)
  BY <1>1, <1>2, <1>4
<1>7. ASSUME NEW k \in queued, Earlier(issued, k, n)
      PROVE  Rank(issued, queued, k) < Rank(issued, queued, n)
  <2>1. Cardinality(Before(k)) < Cardinality(Before(n))
    BY <1>5, <1>7
  <2>2. QED
    BY <1>1, <2>1
<1>8. QED
  BY <1>6, <1>7

\* The ranks are all the numbers below the number of what waits, and one's own each.
LEMMA RanksAreAll ==
  ASSUME NEW issued, NEW queued \in SUBSET Nat, IsFiniteSet(queued),
         \A n \in queued : issued[n].at \in Int
  PROVE  /\ \A r \in Nat : r < Cardinality(queued) => \E n \in queued : Rank(issued, queued, n) = r
         /\ \A k, n \in queued : Rank(issued, queued, k) = Rank(issued, queued, n) => k = n
<1> DEFINE f == [n \in queued |-> Rank(issued, queued, n) + 1]
           T == 1..Cardinality(queued)
<1>1. Cardinality(queued) \in Nat
  BY FS_CardinalityType
<1>2. \A n \in queued : Rank(issued, queued, n) \in Nat /\ Rank(issued, queued, n) < Cardinality(queued)
  BY RankGrows
<1>3. ASSUME NEW k \in queued, NEW n \in queued, Rank(issued, queued, k) = Rank(issued, queued, n)
      PROVE  k = n
  <2> SUFFICES ASSUME k # n PROVE FALSE
    OBVIOUS
  <2>1. Earlier(issued, k, n) \/ Earlier(issued, n, k)
    BY EarlierOrders
  <2>2. Earlier(issued, k, n) => Rank(issued, queued, k) < Rank(issued, queued, n)
    BY RankGrows
  <2>3. Earlier(issued, n, k) => Rank(issued, queued, n) < Rank(issued, queued, k)
    BY RankGrows
  <2>4. QED
    BY <1>2, <1>3, <2>1, <2>2, <2>3
<1>4. f \in [queued -> T]
  BY <1>1, <1>2
<1>5. \A k, n \in queued : f[k] = f[n] => k = n
  BY <1>2, <1>3
<1>6. f \in Injection(queued, T)
  <2> HIDE DEF f
  <2>1. QED
    BY <1>4, <1>5 DEF Injection, IsInjective
<1>7. IsFiniteSet(T) /\ Cardinality(T) = Cardinality(queued)
  BY <1>1, CountTo
<1>8. f \in Surjection(queued, T)
  <2> HIDE DEF f, T
  <2>1. QED
    BY <1>6, <1>7, FS_Injection
<1>9. ASSUME NEW r \in Nat, r < Cardinality(queued) PROVE \E n \in queued : Rank(issued, queued, n) = r
  <2>1. r + 1 \in T
    BY <1>1, <1>9
  <2>2. PICK n \in queued : f[n] = r + 1
    <3> HIDE DEF f, T
    <3>1. QED
      BY <1>8, <2>1 DEF Surjection
  <2>3. QED
    BY <1>2, <2>2
<1>10. QED
  BY <1>3, <1>9

\* Nothing that waits and is not shown is as old as what is shown, and it is left out only
\* if as many as can be are shown, for a pool of any size, whatever commands were queued at
\* the same time (arr_command_backlog, services/arr/router.py).
THEOREM OldestAreShown ==
  ASSUME NEW len \in Nat, NEW issued, DOMAIN issued = 1..len, \A n \in 1..len : issued[n].at \in Int,
         NEW n \in 1..len, issued[n].status = "queued",
         LET oldest == CommandBacklog(issued).oldest
         IN issued[n].at \notin {oldest[k].at : k \in DOMAIN oldest}
  PROVE  LET oldest == CommandBacklog(issued).oldest
         IN /\ DOMAIN oldest = 1..OldestShown
            /\ \A k \in DOMAIN oldest : oldest[k].at < issued[n].at
<1> DEFINE queued == OfStatus(issued, "queued")
           waiting == Cardinality(queued)
           shown == IF waiting < OldestShown THEN waiting ELSE OldestShown
           R(j) == Rank(issued, queued, j)
           At(p) == CHOOSE j \in queued : R(j) = p - 1
           oldest == CommandBacklog(issued).oldest
<1>1. queued \in SUBSET Nat /\ queued \subseteq 1..len /\ n \in queued
  BY DEF OfStatus
<1>2. IsFiniteSet(queued) /\ waiting \in Nat
  <2>1. IsFiniteSet(1..len)
    BY CountTo
  <2>2. QED
    BY <1>1, <2>1, FS_Subset, FS_CardinalityType
<1>3. oldest = [p \in 1..shown |-> issued[At(p)]]
  BY DEF CommandBacklog
<1>4. shown \in Nat /\ shown <= waiting /\ OldestShown \in Nat /\ (shown < waiting => shown = OldestShown)
  BY <1>2 DEF OldestShown
<1>5. \A j \in queued : issued[j].at \in Int
  BY <1>1
<1> HIDE DEF queued
<1>6. \A j \in queued : R(j) \in Nat /\ R(j) < waiting
  BY <1>1, <1>2, <1>5, RankGrows
<1>7. /\ \A r \in Nat : r < waiting => \E j \in queued : R(j) = r
      /\ \A j, k \in queued : R(j) = R(k) => j = k
  BY <1>1, <1>2, <1>5, RanksAreAll
<1> HIDE DEF R, waiting, shown
<1>8. ASSUME NEW p \in 1..shown PROVE At(p) \in queued /\ R(At(p)) = p - 1
  <2>1. p - 1 \in Nat /\ p - 1 < waiting
    BY <1>2, <1>4
  <2>2. \E j \in queued : R(j) = p - 1
    BY <1>7, <2>1
  <2>3. QED
    BY <2>2
<1> HIDE DEF At, oldest
<1>9. \A p \in 1..shown : issued[At(p)].at # issued[n].at
  BY <1>3 DEF oldest
<1>10. R(n) >= shown
  <2> SUFFICES ASSUME R(n) < shown PROVE FALSE
    BY <1>1, <1>4, <1>6
  <2>1. R(n) \in Nat /\ R(n) + 1 \in 1..shown
    BY <1>1, <1>4, <1>6
  <2>2. At(R(n) + 1) \in queued /\ R(At(R(n) + 1)) = R(n)
    BY <1>8, <2>1
  <2>3. At(R(n) + 1) = n
    BY <1>1, <1>7, <2>2
  <2>4. QED
    BY <1>9, <2>1, <2>3
<1>11. shown = OldestShown
  BY <1>1, <1>2, <1>4, <1>6, <1>10
<1>12. ASSUME NEW p \in 1..shown PROVE issued[At(p)].at < issued[n].at
  <2>1. At(p) \in queued /\ R(At(p)) < R(n)
    BY <1>1, <1>4, <1>6, <1>8, <1>10
  <2>2. ~Earlier(issued, n, At(p))
    <3> SUFFICES ASSUME Earlier(issued, n, At(p)) PROVE FALSE
      OBVIOUS
    <3>1. R(n) < R(At(p))
      BY <1>1, <1>2, <1>5, <2>1, RankGrows DEF R
    <3>2. R(n) \in Nat /\ R(At(p)) \in Nat
      BY <1>1, <1>6, <2>1
    <3>3. QED
      BY <2>1, <3>1, <3>2
  <2>3. issued[At(p)].at \in Int /\ issued[n].at \in Int
    BY <1>1, <1>5, <2>1
  <2>4. QED
    BY <1>9, <2>2, <2>3 DEF Earlier
<1>13. DOMAIN oldest = 1..OldestShown /\ \A k \in DOMAIN oldest : oldest[k].at < issued[n].at
  BY <1>3, <1>11, <1>12
<1>14. QED
  BY <1>13 DEF oldest

\* Two intervals from one that are the same end at the same number.
LEMMA SameEnd == \A k, n \in Nat : 1..k = 1..n => k = n
<1> SUFFICES ASSUME NEW k \in Nat, NEW n \in Nat, 1..k = 1..n, k # n PROVE FALSE
  OBVIOUS
<1>1. \A i \in Int : i \in 1..k <=> i \in 1..n
  OBVIOUS
<1>2. CASE k < n
  <2>1. n \in 1..n /\ n \notin 1..k
    BY <1>2
  <2>2. QED
    BY <1>1, <2>1
<1>3. CASE n < k
  <2>1. k \in 1..k /\ k \notin 1..n
    BY <1>3
  <2>2. QED
    BY <1>1, <2>1
<1>4. QED
  BY <1>2, <1>3

\* The pools the runs go through are such pools; both views count them alike.
LEMMA ViewsTold == CommandViewsAgree
<1> SUFFICES ASSUME NEW statuses \in [1..6 -> {"queued", "started"}], NEW turned \in BOOLEAN
             PROVE  LET issued == [n \in 1..6 |-> [status |-> statuses[n], at |-> IF turned THEN 7 - n ELSE n]]
                        backlog == CommandBacklog(issued)
                        summary == CommandQueueSummary([r |-> [up |-> TRUE, issued |-> issued],
                                                        s |-> [up |-> FALSE, issued |-> <<>>]])
                        shown == {backlog.oldest[k].at : k \in DOMAIN backlog.oldest}
                    IN /\ summary.answers["r"] =
                            [total |-> 6, queued |-> backlog.queued, running |-> backlog.running]
                       /\ \A n \in 1..6 : issued[n].status = "queued" /\ issued[n].at \notin shown =>
                            Len(backlog.oldest) = OldestShown /\ \A at \in shown : at < issued[n].at
  BY Zenon DEF CommandViewsAgree
<1> DEFINE issued == [n \in 1..6 |-> [status |-> statuses[n], at |-> IF turned THEN 7 - n ELSE n]]
           backlog == CommandBacklog(issued)
           pools == [r |-> [up |-> TRUE, issued |-> issued], s |-> [up |-> FALSE, issued |-> <<>>]]
           summary == CommandQueueSummary(pools)
           oldest == backlog.oldest
<1>1. issued \in Seq([status : {"queued", "started"}, at : Nat])
  <2>1. issued \in [1..6 -> [status : {"queued", "started"}, at : Nat]]
    OBVIOUS
  <2>2. QED
    BY <2>1, SeqDef
<1>2. DOMAIN issued = 1..6
  OBVIOUS
<1> HIDE DEF issued
<1>3. Len(issued) = 6 /\ \A n \in 1..6 : issued[n].at \in Int
  <2>1. Len(issued) \in Nat /\ 1..Len(issued) = 1..6
    BY <1>1, <1>2, LenProperties
  <2>2. Len(issued) = 6
    BY <2>1, SameEnd
  <2>3. \A n \in 1..6 : issued[n] \in [status : {"queued", "started"}, at : Nat]
    BY <1>1, <2>2, ElementOfSeq
  <2>4. QED
    BY <2>2, <2>3
<1>4. summary.answers["r"] = [total |-> 6, queued |-> backlog.queued, running |-> backlog.running]
  <2>1. "r" \in {a \in DOMAIN pools : pools[a].up} /\ pools["r"].issued = issued
    OBVIOUS
  <2> HIDE DEF pools
  <2>2. summary.answers["r"] = [total |-> Len(issued), queued |-> Cardinality(OfStatus(issued, "queued")),
                                running |-> Cardinality(OfStatus(issued, "started"))]
    BY <2>1 DEF CommandQueueSummary
  <2>3. /\ backlog.queued = Cardinality(OfStatus(issued, "queued"))
        /\ backlog.running = Cardinality(OfStatus(issued, "started"))
    BY DEF CommandBacklog
  <2>4. QED
    BY <1>3, <2>2, <2>3
<1>5. ASSUME NEW n \in 1..6, issued[n].status = "queued",
             issued[n].at \notin {oldest[k].at : k \in DOMAIN oldest}
      PROVE  Len(oldest) = OldestShown /\ \A at \in {oldest[k].at : k \in DOMAIN oldest} : at < issued[n].at
  <2>1. /\ DOMAIN oldest = 1..OldestShown
        /\ \A k \in DOMAIN oldest : oldest[k].at < issued[n].at
    BY <1>2, <1>3, <1>5, OldestAreShown
  <2>2. \E p : oldest = [k \in 1..p |-> oldest[k]]
    BY <2>1 DEF CommandBacklog
  <2> HIDE DEF oldest
  <2>3. OldestShown \in Nat
    BY DEF OldestShown
  <2>4. oldest = [k \in 1..OldestShown |-> oldest[k]]
    BY <2>1, <2>2
  <2>5. Len(oldest) = OldestShown
    BY <2>1, <2>3, <2>4, LenProperties
  <2>6. QED
    BY <2>1, <2>5
<1> HIDE DEF backlog, summary
<1>6. QED
  BY <1>4, <1>5 DEF issued, backlog, summary

-----------------------------------------------------------------------------
\* What the report on the queues says of one source that cannot be reached, or has one item
\* that does not move, beside another source.
LEMMA DownTold == OneSourceDownCostsItself
<1> DEFINE kind == [r |-> "arr", n |-> "nzbdav"]
           idle == [up |-> TRUE, items |-> [i \in {1} |-> [left |-> 1, status |-> "Downloading"]]]
<1> SUFFICES ASSUME NEW first \in Answers([size : {2}, left : 1..2, state : {"downloading"}]),
                    NEW second \in Answers([size : {2}, left : 1..2, state : {"downloading"}]),
                    NEW before \in {Down, idle}, NEW after \in {Down, idle}
             PROVE  LET all == QueueStatus(kind, [r |-> first, n |-> before], [r |-> second, n |-> after])
                        alone == QueueStatus([r |-> "arr"], [r |-> first], [r |-> second])
                    IN /\ all.active = alone.active
                       /\ all.total = alone.total + Cardinality(DOMAIN after.items)
                       /\ second.up => all.queues["r"] = alone.queues["r"]
  BY Zenon DEF OneSourceDownCostsItself
<1> DEFINE all == QueueStatus(kind, [r |-> first, n |-> before], [r |-> second, n |-> after])
           alone == QueueStatus([r |-> "arr"], [r |-> first], [r |-> second])
           R == [i \in DOMAIN second.items |-> Bucket("arr", first, second, i)]
           N == [i \in DOMAIN after.items |-> Bucket("nzbdav", before, after, i)]
           Own == {<<"r", i>> : i \in DOMAIN R}
           Others == {<<"n", i>> : i \in DOMAIN N}
           Active == {e \in Own : R[e[2]] = "downloading"}
<1>1. second = Down \/ second.up = TRUE
  BY DEF Answers
<1>2. Down.up = FALSE /\ DOMAIN Down.items = {}
  BY DEF Down
<1>3. \A i \in DOMAIN N : N[i] # "downloading"
  <2> SUFFICES ASSUME NEW i \in DOMAIN after.items PROVE Bucket("nzbdav", before, after, i) # "downloading"
    OBVIOUS
  <2>1. after = idle
    BY <1>2
  <2>2. after.items[i].left = 1
    BY <2>1
  <2>3. ~Shrank(NzbdavMbleftSnapshot(before), i, 1)
    <3>1. CASE before = Down
      BY <1>2, <3>1 DEF NzbdavMbleftSnapshot, Shrank
    <3>2. CASE before = idle
      BY <3>2 DEF NzbdavMbleftSnapshot, Shrank
    <3>3. QED
      BY <3>1, <3>2
  <2>4. QED
    BY <2>2, <2>3 DEF Bucket, BucketNzbdavItem
<1>4. alone.active = Cardinality(Active) /\ alone.total = Cardinality(Own)
      /\ (second.up => alone.queues["r"] = R)
  <2> DEFINE reached == {s \in DOMAIN [r |-> "arr"] : [r |-> second][s].up}
             shown == [s \in reached |-> [i \in DOMAIN [r |-> second][s].items |->
                          Bucket([r |-> "arr"][s], [r |-> first][s], [r |-> second][s], i)]]
             entries == UNION {{<<s, i>> : i \in DOMAIN shown[s]} : s \in reached}
             active == {e \in entries : shown[e[1]][e[2]] = "downloading"}
  <2>1. alone = [queues |-> shown, total |-> Cardinality(entries), active |-> Cardinality(active)]
    BY Zenon DEF QueueStatus
  <2>2. CASE second = Down
    <3>1. reached = {}
      BY <1>2, <2>2
    <3>2. entries = {} /\ active = {}
      BY <3>1
    <3>3. Own = {} /\ Active = {}
      BY <1>2, <2>2
    <3> HIDE DEF shown, entries, active, Own, Active, R
    <3>4. QED
      BY <1>2, <2>1, <2>2, <3>2, <3>3
  <2>3. CASE second.up = TRUE
    <3>1. reached = {"r"}
      BY <2>3
    <3>2. shown["r"] = R
      BY <3>1
    <3> HIDE DEF shown, R, reached
    <3>3. entries = Own
      BY <3>1, <3>2
    <3>4. active = Active
      BY <3>2, <3>3
    <3> HIDE DEF entries, active, Own, Active
    <3>5. QED
      BY <2>1, <3>2, <3>3, <3>4
  <2>4. QED
    BY <1>1, <2>2, <2>3
<1>5. all.active = Cardinality(Active) /\ all.total = Cardinality(Own \cup Others)
      /\ (second.up => all.queues["r"] = R)
  <2> DEFINE one == [r |-> first, n |-> before]
             two == [r |-> second, n |-> after]
             reached == {s \in DOMAIN kind : two[s].up}
             shown == [s \in reached |-> [i \in DOMAIN two[s].items |-> Bucket(kind[s], one[s], two[s], i)]]
             entries == UNION {{<<s, i>> : i \in DOMAIN shown[s]} : s \in reached}
             active == {e \in entries : shown[e[1]][e[2]] = "downloading"}
  <2>1. all = [queues |-> shown, total |-> Cardinality(entries), active |-> Cardinality(active)]
    BY Zenon DEF QueueStatus
  <2>2. /\ DOMAIN kind = {"r", "n"}
        /\ two["r"] = second /\ two["n"] = after /\ one["r"] = first /\ one["n"] = before
        /\ kind["r"] = "arr" /\ kind["n"] = "nzbdav"
    OBVIOUS
  <2> HIDE DEF one, two, kind
  <2>3. reached = (IF second.up THEN {"r"} ELSE {}) \cup (IF after.up THEN {"n"} ELSE {})
    BY <2>2
  <2>4. "r" \in reached => shown["r"] = R
    BY <2>2
  <2>5. "n" \in reached => shown["n"] = N
    BY <2>2
  <2>6. ~second.up => Own = {}
    BY <1>1, <1>2
  <2>7. ~after.up => Others = {}
    BY <1>2
  <2> HIDE DEF shown, R, N, reached
  <2>8. entries = Own \cup Others
    <3>1. \A x : x \in entries <=> ("r" \in reached /\ x \in Own) \/ ("n" \in reached /\ x \in Others)
      BY <2>3, <2>4, <2>5
    <3>2. /\ "r" \notin reached => Own = {}
          /\ "n" \notin reached => Others = {}
      BY <2>3, <2>6, <2>7
    <3> HIDE DEF entries, Own, Others
    <3>3. QED
      BY <3>1, <3>2
  <2>9. active = Active
    <3>1. \A x \in Own : "r" \in reached
      BY <2>3, <2>6
    <3>2. \A x \in Others : "n" \in reached
      BY <2>3, <2>7
    <3>3. \A x \in Own : x \in active <=> x \in Active
      BY <2>4, <2>8, <3>1
    <3>4. \A x \in Others : x \notin active
      BY <1>3, <2>5, <3>2
    <3>5. \A x \in active : x \in Own \cup Others
      BY <2>8
    <3>6. \A x \in Active : x \in Own
      OBVIOUS
    <3> HIDE DEF active, Active, Own, Others
    <3>7. QED
      BY <3>3, <3>4, <3>5, <3>6
  <2> HIDE DEF entries, active, Own, Others, Active
  <2>10. second.up => "r" \in reached
    BY <2>3
  <2>11. all.queues = shown /\ all.total = Cardinality(entries) /\ all.active = Cardinality(active)
    <3> HIDE DEF all
    <3>1. QED
      BY <2>1
  <2> HIDE DEF all
  <2>12. all.active = Cardinality(Active) /\ all.total = Cardinality(Own \cup Others)
    BY <2>8, <2>9, <2>11
  <2>13. second.up => all.queues["r"] = R
    BY <2>4, <2>10, <2>11
  <2>14. QED
    BY <2>12, <2>13
<1>6. Cardinality(Own \cup Others) = Cardinality(Own) + Cardinality(DOMAIN after.items)
  <2>1. IsFiniteSet(Own)
    <3>1. \A i \in DOMAIN second.items : i \in {1, 2}
      <4>1. CASE second = Down
        BY <1>2, <4>1
      <4>2. CASE second # Down
        <5>1. PICK ids \in SUBSET Ids : DOMAIN second.items = ids
          BY <4>2 DEF Answers
        <5>2. QED
          BY <5>1 DEF Ids
      <4>3. QED
        BY <4>1, <4>2
    <3>2. Own \subseteq {<<"r", 1>>} \cup {<<"r", 2>>}
      BY <3>1
    <3>3. IsFiniteSet({<<"r", 1>>} \cup {<<"r", 2>>})
      BY FS_Singleton, FS_Union
    <3>4. QED
      BY <3>2, <3>3, FS_Subset
  <2>2. Cardinality(Own) \in Nat
    BY <2>1, FS_CardinalityType
  <2>3. CASE after = Down
    <3>1. Others = {} /\ DOMAIN after.items = {}
      BY <1>2, <2>3
    <3> HIDE DEF Own, Others
    <3>2. QED
      BY <2>2, <3>1, FS_EmptySet
  <2>4. CASE after = idle
    <3>1. Others = {<<"n", 1>>} /\ DOMAIN after.items = {1}
      BY <2>4
    <3>2. <<"n", 1>> \notin Own
      OBVIOUS
    <3> HIDE DEF Own, Others
    <3>3. Cardinality(DOMAIN after.items) = 1
      BY <3>1, FS_Singleton
    <3>4. Cardinality(Own \cup {<<"n", 1>>}) = Cardinality(Own) + 1
      BY <2>1, <3>2, FS_AddElement
    <3>5. QED
      BY <3>1, <3>3, <3>4
  <2>5. QED
    BY <2>3, <2>4
<1> HIDE DEF all, alone, Own, Others, Active, R
<1>7. all.active = alone.active /\ all.total = alone.total + Cardinality(DOMAIN after.items)
      /\ (second.up => all.queues["r"] = alone.queues["r"])
  BY <1>4, <1>5, <1>6
<1>8. QED
  BY <1>7 DEF all, alone

\* Whatever the requests do, their state is well-formed and what the panel says of queues,
\* loops, backlog and commands is so (services/queue/router.py, services/arr/router.py).
THEOREM ReportsTold == Spec => []QueueReportsTruthful
<1>1. /\ OnlyMovingIsDownloading /\ OneSourceDownCostsItself
      /\ ReviewBeforeUnmonitor /\ EtaFollowsImports /\ CommandViewsAgree
  BY BucketsTold, DownTold, ReviewComesFirst, EtaTold, ViewsTold
<1>2. TypeOK => QueueReportsTruthful
  BY <1>1 DEF QueueReportsTruthful
<1>3. QED
  BY <1>2, TypeCorrect, PTL

=============================================================================
