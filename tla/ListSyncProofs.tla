--------------------------- MODULE ListSyncProofs ---------------------------
(***************************************************************************)
(* Theorems about ListSync.tla: the slug table never lies, what a run      *)
(* reports is in the library, no item falls out of a report and a failing  *)
(* list costs the others nothing, for any lists, items and failures and    *)
(* any number of imports, untrackings and overlapping runs.  And about the *)
(* requests of several calls and the nightly jobs (ArrRequests.tla,        *)
(* Maintenance.tla): what they report is so, for inputs of any size.       *)
(***************************************************************************)
EXTENDS MCListSync, SequenceTheorems, FiniteSetTheorems, WellFoundedInduction, TLAPS

Stages == {"idle", "next", "fetch", "resolve", "add"}
Applications == {"radarr", "sonarr"}

\* What is noted of some works: the slugs known, the outcomes counted.
Notes(R) == UNION {[D -> R] : D \in SUBSET Works}

Run == [pc : Stages, list : Lists \cup {"none"}, dry : BOOLEAN, cross : BOOLEAN,
        todo : SUBSET Lists, logged : SUBSET Lists, lost : SUBSET Lists,
        items : SUBSET Works, known : Notes(BOOLEAN), ids : SUBSET Works,
        app : Applications \cup {"none"}, apps : Seq(Applications),
        holds : SUBSET Works, out : Notes(Outcomes)]

\* A work that the application of now, or one still to come, takes.
Taken(r, w) == w \in Kind(r.app) \/ \E i \in 1..Len(r.apps) : w \in Kind(r.apps[i])

\* Rows are taken once, and only a list that was taken is read.
RowsOnce(r) ==
  /\ r.todo \cap (r.logged \cup {r.list}) = {}
  /\ r.pc \in {"fetch", "resolve", "add"} => r.list \in Lists
  /\ r.pc = "resolve" => r.list \in Boxd

\* What is known, looked for and reported is of the items that were read.
OfItems(r) ==
  /\ DOMAIN r.known \subseteq r.items /\ r.ids \subseteq r.items /\ DOMAIN r.out \subseteq r.items
  /\ r.pc # "add" => DOMAIN r.out = {} /\ r.ids = {}
  /\ r.pc \in {"idle", "next", "fetch"} => DOMAIN r.known = {}

\* The slugs a run has read from the table are what the films' pages say.
KnownTruthful(r) == \A s \in DOMAIN r.known : r.known[s] <=> s \in Matched

\* An item not reported yet will be, by this application or one still to come.
Covered(r) == r.pc = "add" => \A w \in r.items \ DOMAIN r.out : w \in r.ids /\ Taken(r, w)

\* A report goes by what was in the library, or was put there.
Backed(r, lib) ==
  /\ r.holds \subseteq lib
  /\ ~r.dry => \A w \in DOMAIN r.out : r.out[w] \in {"added", "already"} => w \in lib

Sound(r, lib) ==
  RowsOnce(r) /\ OfItems(r) /\ KnownTruthful(r) /\ Covered(r) /\ Backed(r, lib)

Budget == [faults : 0..MaxFaults, edits : 0..MaxEdits, manual : 0..MaxManual]

Typed ==
  /\ library \subseteq Works /\ tracked \subseteq Lists
  /\ cache \in Notes(BOOLEAN)
  /\ run \in [Procs -> Run]
  /\ budget \in Budget

IInv == Typed /\ CacheTruthful /\ \A p \in Procs : Sound(run[p], library)

-----------------------------------------------------------------------------
\* Operators of the model

\* A note of one more work (Extend: a new row, a new outcome).
LEMMA ExtendNotes ==
  ASSUME NEW R, NEW f \in Notes(R), NEW x \in Works, NEW y \in R
  PROVE /\ Extend(f, x, y) \in Notes(R)
        /\ DOMAIN Extend(f, x, y) = DOMAIN f \cup {x}
        /\ Extend(f, x, y)[x] = y
        /\ \A z \in DOMAIN f : z # x => Extend(f, x, y)[z] = f[z]
  <1>1. PICK D \in SUBSET Works : f \in [D -> R]
    BY DEF Notes
  <1>2. Extend(f, x, y) \in [D \cup {x} -> R]
    BY <1>1 DEF Extend
  <1>3. D \cup {x} \in SUBSET Works
    OBVIOUS
  <1> QED BY <1>1, <1>2, <1>3 DEF Extend, Notes

\* Notes are of works, and say what they may.
LEMMA NotesPartial ==
  ASSUME NEW R, NEW f \in Notes(R)
  PROVE DOMAIN f \subseteq Works /\ \A x \in DOMAIN f : f[x] \in R
  BY DEF Notes

\* No note at all.
LEMMA NoNotes == ASSUME NEW R PROVE <<>> \in Notes(R) /\ DOMAIN <<>> = {}
  <1>1. <<>> \in [{} -> R]
    OBVIOUS
  <1> QED BY <1>1 DEF Notes

\* The locals of a run that has not begun.
LEMMA NoRunTyped == NoRun \in Run
  <1>1. <<>> \in Seq(Applications)
    OBVIOUS
  <1> QED BY <1>1, NoNotes DEF NoRun, Run, Stages

\* A run that is over has reported nothing that is not so.
LEMMA NoRunSound == \A lib : Sound(NoRun, lib)
  BY NoNotes, NoRunTyped DEF NoRun, Sound, RowsOnce, OfItems, KnownTruthful, Covered, Backed

\* The library only grows, so what was backed stays so.
LEMMA SoundGrows ==
  ASSUME NEW r, NEW lib, NEW more, lib \subseteq more, Sound(r, lib)
  PROVE Sound(r, more)
  BY DEF Sound, Backed

\* The applications a run reads take all its series and films (letterboxd/router.py:
\* 280-300, mdblist/router.py:134-157).
LEMMA AppsTake ==
  ASSUME NEW l \in Lists, NEW ids \in SUBSET Works
  PROVE /\ Apps(l, ids) \in Seq(Applications)
        /\ l \in Boxd => \A w \in ids : \E i \in 1..Len(Apps(l, ids)) : w \in Kind(Apps(l, ids)[i])
        /\ l \notin Boxd =>
             \A w \in ids : \E i \in 1..Len(Apps(l, ids)) : w \in Kind(Apps(l, ids)[i])
  <1>1. CASE l \in Boxd /\ ids \cap Shows = {}
    <2>1. Apps(l, ids) = <<"radarr">>
      BY <1>1 DEF Apps
    <2>2. \A w \in ids : w \in Movies
      BY <1>1 DEF Works
    <2> QED BY <1>1, <2>1, <2>2 DEF Kind, Applications
  <1>2. CASE l \in Boxd /\ ids \cap Shows # {}
    <2>1. Apps(l, ids) = <<"sonarr", "radarr">>
      BY <1>2 DEF Apps
    <2>2. Kind(Apps(l, ids)[1]) = Shows /\ Kind(Apps(l, ids)[2]) = Movies
      BY <2>1 DEF Kind
    <2>3. Len(Apps(l, ids)) = 2 /\ Apps(l, ids) \in Seq(Applications)
      BY <2>1 DEF Applications
    <2>4. 1 \in 1..Len(Apps(l, ids)) /\ 2 \in 1..Len(Apps(l, ids))
      BY <2>3
    <2> QED BY <1>2, <2>2, <2>3, <2>4 DEF Works
  <1>3. CASE l \notin Boxd
    <2> DEFINE films == ids \cap Movies
               series == ids \cap Shows
    <2>1. Apps(l, ids) = (IF films = {} THEN <<>> ELSE <<"radarr">>)
                          \o (IF series = {} THEN <<>> ELSE <<"sonarr">>)
      BY <1>3 DEF Apps
    <2>2. \A w \in ids : w \in films \/ w \in series
      BY DEF Works
    <2>3. CASE films = {} /\ series = {}
      <3>1. Apps(l, ids) = <<>>
        BY <2>1, <2>3
      <3> QED BY <1>3, <2>2, <2>3, <3>1
    <2>4. CASE films # {} /\ series = {}
      <3>1. Apps(l, ids) = <<"radarr">>
        BY <2>1, <2>4
      <3> QED BY <1>3, <2>2, <2>4, <3>1 DEF Kind, Applications
    <2>5. CASE films = {} /\ series # {}
      <3>1. Apps(l, ids) = <<"sonarr">>
        BY <2>1, <2>5
      <3> QED BY <1>3, <2>2, <2>5, <3>1 DEF Kind, Applications
    <2>6. CASE films # {} /\ series # {}
      <3> DEFINE one == <<"radarr">>
                 two == <<"sonarr">>
      <3>1. /\ one \in Seq(Applications) /\ Len(one) = 1 /\ one[1] = "radarr"
            /\ two \in Seq(Applications) /\ Len(two) = 1 /\ two[1] = "sonarr"
        BY DEF Applications
      <3>2. Apps(l, ids) = one \o two
        BY <2>1, <2>6
      <3> HIDE DEF one, two
      <3>3. /\ Apps(l, ids) \in Seq(Applications) /\ Len(Apps(l, ids)) = 2
            /\ Kind(Apps(l, ids)[1]) = Movies /\ Kind(Apps(l, ids)[2]) = Shows
        <4>1. Apps(l, ids) \in Seq(Applications) /\ Len(Apps(l, ids)) = 2
          BY <3>1, <3>2, ConcatProperties
        <4>2. Apps(l, ids)[1] = "radarr" /\ Apps(l, ids)[2] = "sonarr"
          BY <3>1, <3>2, ConcatProperties
        <4> QED BY <4>1, <4>2 DEF Kind
      <3>4. 1 \in 1..Len(Apps(l, ids)) /\ 2 \in 1..Len(Apps(l, ids))
        BY <3>3
      <3> QED BY <1>3, <2>2, <3>3, <3>4
    <2> QED BY <2>3, <2>4, <2>5, <2>6
  <1> QED BY <1>1, <1>2, <1>3

\* Reading the next application loses none of the works still to be taken.
LEMMA NextApplication ==
  ASSUME NEW apps \in Seq(Applications), apps # <<>>, NEW w,
         \E i \in 1..Len(apps) : w \in Kind(apps[i])
  PROVE /\ Head(apps) \in Applications /\ Tail(apps) \in Seq(Applications)
        /\ \/ w \in Kind(Head(apps))
           \/ \E i \in 1..Len(Tail(apps)) : w \in Kind(Tail(apps)[i])
  <1>1. PICK i \in 1..Len(apps) : w \in Kind(apps[i])
    OBVIOUS
  <1>2. CASE i = 1
    BY <1>1, <1>2
  <1>3. CASE i # 1
    <2>1. i - 1 \in 1..Len(Tail(apps)) /\ Tail(apps)[i - 1] = apps[i]
      BY <1>3
    <2> QED BY <1>1, <2>1
  <1> QED BY <1>2, <1>3

\* A step that changes one run, and the library at most by adding, keeps the others.
LEMMA UpdateSound ==
  ASSUME IInv, NEW p \in Procs, NEW r, Update(p, r), r \in Run,
         library \subseteq library', Sound(r, library')
  PROVE run' \in [Procs -> Run] /\ \A q \in Procs : Sound(run'[q], library')
  <1>1. run' \in [Procs -> Run]
    BY DEF IInv, Typed, Update
  <1>2. ASSUME NEW q \in Procs PROVE Sound(run'[q], library')
    <2>1. CASE q = p
      BY <2>1 DEF IInv, Typed, Update
    <2>2. CASE q # p
      <3>1. run'[q] = run[q] /\ Sound(run[q], library)
        BY <2>2 DEF IInv, Typed, Update
      <3> QED BY <3>1, SoundGrows
    <2> QED BY <2>1, <2>2
  <1> QED BY <1>1, <1>2

\* What is left of a run that is over, or failed.
LEMMA OverSound ==
  ASSUME IInv, NEW p \in Procs, run[p].pc \in {"fetch", "resolve", "add"}
  PROVE Over(p) \in Run /\ \A lib : Sound(Over(p), lib)
  <1> DEFINE r == run[p]
             more == [NoRun EXCEPT !.pc = "next", !.todo = r.todo, !.lost = r.lost,
                                   !.logged = r.logged \cup {r.list}]
  <1>1. r \in Run /\ RowsOnce(r) /\ r.list \in Lists
    BY DEF IInv, Typed, Sound, RowsOnce
  <1>2. more \in Run
    BY <1>1, NoRunTyped DEF Run, Stages
  <1>3. ASSUME NEW lib PROVE Sound(more, lib)
    <2>1. RowsOnce(more)
      BY <1>1, NoRunTyped, ListAssumption DEF RowsOnce, NoRun, Run
    <2> QED BY <2>1, NoNotes DEF NoRun, Sound, OfItems, KnownTruthful, Covered, Backed
  <1> QED BY <1>2, <1>3, NoRunTyped, NoRunSound DEF Over

-----------------------------------------------------------------------------
\* One lemma for each kind of step

\* Most steps change one run only.
LEMMA OneRun ==
  ASSUME IInv, NEW p \in Procs, NEW r, Update(p, r), r \in Run, Sound(r, library),
         UNCHANGED <<library, tracked, cache>>, budget' \in Budget
  PROVE IInv'
  BY UpdateSound DEF IInv, Typed, CacheTruthful

\* The bounds of what may happen.
LEMMA BoundsNat == MaxFaults \in Nat /\ MaxEdits \in Nat /\ MaxManual \in Nat
  BY ListAssumption

\* A fault is spent from the budget.
LEMMA Spent == ASSUME IInv, SpendFault PROVE budget' \in Budget
  BY BoundsNat DEF IInv, Typed, SpendFault, Budget

\* A run that fails leaves the shared tables alone.
LEMMA FailsIInv ==
  ASSUME IInv, NEW p \in Procs, run[p].pc \in {"fetch", "resolve", "add"}, Fails(p),
         budget' \in Budget
  PROVE IInv'
  BY OverSound, OneRun DEF Fails, AfterFailure

\* A tick starts with its rows still to do.
LEMMA StartTickIInv == ASSUME IInv, NEW p \in Procs, StartTick(p) PROVE IInv'
  <1>1. PICK mine \in SUBSET Lists : Update(p, [NoRun EXCEPT !.pc = "next", !.todo = mine])
    BY DEF StartTick, IInv, Typed
  <1> DEFINE r == [NoRun EXCEPT !.pc = "next", !.todo = mine]
  <1>2. r \in Run
    BY NoRunTyped DEF Run, Stages
  <1>3. RowsOnce(r)
    BY ListAssumption DEF RowsOnce, NoRun
  <1>4. Sound(r, library)
    BY <1>3, NoNotes DEF Sound, NoRun, OfItems, KnownTruthful, Covered, Backed
  <1> QED BY <1>1, <1>2, <1>4, OneRun DEF StartTick, IInv, Typed

\* Taking a row starts its report from nothing; after the last one the run is over.
LEMMA TakeRowIInv == ASSUME IInv, NEW p \in Procs, TakeRow(p) PROVE IInv'
  <1>1. PICK l \in run[p].todo :
          \/ Update(p, NoRun)
          \/ Update(p, [run[p] EXCEPT !.pc = "fetch", !.list = l, !.todo = @ \ {l}])
    BY DEF TakeRow
  <1> DEFINE r == [run[p] EXCEPT !.pc = "fetch", !.list = l, !.todo = run[p].todo \ {l}]
  <1>2. run[p] \in Run /\ run[p].pc = "next" /\ Sound(run[p], library)
    BY DEF TakeRow, At, IInv, Typed
  <1>3. r \in Run
    BY <1>1, <1>2 DEF Run, Stages
  <1>4. RowsOnce(r)
    BY <1>1, <1>2 DEF Run, Sound, RowsOnce
  <1>5. Sound(r, library)
    BY <1>2, <1>4 DEF Sound, OfItems, KnownTruthful, Covered, Backed, Run
  <1> QED BY <1>1, <1>3, <1>5, NoRunTyped, NoRunSound, OneRun DEF TakeRow, IInv, Typed

\* A manual import starts with an empty report.
LEMMA StartManualIInv ==
  ASSUME IInv, NEW l \in Handed, NEW mode \in [dry : BOOLEAN, cross : BOOLEAN],
         StartManual(l, mode)
  PROVE IInv'
  <1> DEFINE r == [NoRun EXCEPT !.pc = "fetch", !.list = l, !.dry = mode.dry, !.cross = mode.cross]
  <1>1. r \in Run
    BY NoRunTyped, ListAssumption DEF Run, Stages
  <1>2. Sound(r, library)
    BY NoNotes, ListAssumption DEF Sound, NoRun, RowsOnce, OfItems, KnownTruthful, Covered, Backed
  <1>3. budget' \in Budget
    BY BoundsNat DEF StartManual, IInv, Typed, Budget
  <1> QED BY <1>1, <1>2, <1>3, OneRun DEF StartManual, Procs

\* A list of MDBList goes on with its ids, one of Letterboxd with the slugs it knows.
LEMMA FetchedSound ==
  ASSUME IInv, NEW p \in Procs, At(p, "fetch"), NEW items \in SUBSET Items[run[p].list],
         Fetched(p, items), UNCHANGED <<library, tracked, cache>>, budget' \in Budget
  PROVE IInv'
  <1> DEFINE l == run[p].list
             known == [s \in items \cap DOMAIN cache |-> cache[s]]
             boxd == [run[p] EXCEPT !.pc = "resolve", !.items = items, !.known = known]
             ids == items \cap (Matched \cup Shows)
             out == [w \in items \ (Matched \cup Shows) |-> "failed"]
             mdb == [run[p] EXCEPT !.pc = "add", !.items = items, !.ids = ids,
                                   !.apps = Apps(l, items), !.out = out]
  <1>1. run[p] \in Run /\ run[p].pc = "fetch" /\ Sound(run[p], library) /\ l \in Lists
    BY DEF At, IInv, Typed, Sound, RowsOnce
  <1>2. items \in SUBSET Works
    BY <1>1, ListAssumption
  <1>3. CASE l \in Boxd
    <2>1. Update(p, boxd)
      BY <1>3 DEF Fetched
    <2>2. known \in Notes(BOOLEAN) /\ DOMAIN known \subseteq items
      <3>1. known \in [items \cap DOMAIN cache -> BOOLEAN]
        BY NotesPartial DEF IInv, Typed
      <3> QED BY <1>2, <3>1 DEF Notes
    <2>3. boxd \in Run
      BY <1>1, <1>2, <2>2 DEF Run, Stages
    <2>4. RowsOnce(boxd) /\ KnownTruthful(boxd) /\ Backed(boxd, library) /\ Covered(boxd)
      BY <1>1, <1>3, <2>2 DEF Run, Sound, RowsOnce, KnownTruthful, Backed, Covered, IInv, CacheTruthful
    <2>5. OfItems(boxd)
      BY <1>1, <2>2 DEF Run, Sound, OfItems
    <2> QED BY <2>1, <2>3, <2>4, <2>5, OneRun DEF Sound
  <1>4. CASE l \notin Boxd
    <2>1. Update(p, mdb)
      BY <1>4 DEF Fetched
    <2>2. out \in Notes(Outcomes) /\ DOMAIN out = items \ (Matched \cup Shows)
      <3>1. out \in [items \ (Matched \cup Shows) -> Outcomes]
        BY DEF Outcomes
      <3> QED BY <1>2, <3>1 DEF Notes
    <2>3. /\ Apps(l, items) \in Seq(Applications)
          /\ \A w \in items : \E i \in 1..Len(Apps(l, items)) : w \in Kind(Apps(l, items)[i])
      BY <1>1, <1>2, <1>4, AppsTake
    <2>4. mdb \in Run
      BY <1>1, <1>2, <2>2, <2>3 DEF Run, Stages
    <2>5. RowsOnce(mdb) /\ OfItems(mdb)
      BY <1>1, <1>4, <2>2 DEF Run, Sound, RowsOnce, OfItems
    <2>6. KnownTruthful(mdb) /\ Covered(mdb)
      BY <1>1, <2>2, <2>3 DEF Run, Sound, KnownTruthful, OfItems, Covered, Taken
    <2>7. Backed(mdb, library)
      BY <1>1 DEF Run, Sound, Backed
    <2> QED BY <2>1, <2>4, <2>5, <2>6, <2>7, OneRun DEF Sound
  <1> QED BY <1>3, <1>4

\* A film's page becomes a row of the table and a slug known to this run.
LEMMA ResolveIInv == ASSUME IInv, NEW p \in Procs, Resolve(p) PROVE IInv'
  <1>1. PICK s \in Unresolved(p) :
          \/ Fails(p)
          \/ /\ cache' = Extend(cache, s, s \in Matched)
             /\ Update(p, [run[p] EXCEPT !.known = Extend(@, s, s \in Matched)])
             /\ UNCHANGED <<library, tracked>>
    BY DEF Resolve
  <1>2. run[p] \in Run /\ run[p].pc = "resolve" /\ Sound(run[p], library) /\ budget' \in Budget
    BY DEF Resolve, At, IInv, Typed
  <1>3. CASE Fails(p)
    BY <1>2, <1>3, FailsIInv
  <1>4. CASE /\ cache' = Extend(cache, s, s \in Matched)
             /\ Update(p, [run[p] EXCEPT !.known = Extend(@, s, s \in Matched)])
             /\ UNCHANGED <<library, tracked>>
    <2>1. PICK found \in BOOLEAN :
             /\ found <=> s \in Matched
             /\ cache' = Extend(cache, s, found)
             /\ Update(p, [run[p] EXCEPT !.known = Extend(run[p].known, s, found)])
      <3> WITNESS (s \in Matched) \in BOOLEAN
      <3> QED BY <1>4
    <2> DEFINE known == Extend(run[p].known, s, found)
               r == [run[p] EXCEPT !.known = known]
    <2>2. s \in run[p].items /\ s \in Works
      BY <1>1, <1>2 DEF Unresolved, Run
    <2>3. run[p].known \in Notes(BOOLEAN) /\ cache \in Notes(BOOLEAN)
      BY <1>2 DEF Run, IInv, Typed
    <2>4. /\ known \in Notes(BOOLEAN) /\ DOMAIN known = DOMAIN run[p].known \cup {s}
          /\ known[s] = found /\ \A z \in DOMAIN run[p].known : z # s => known[z] = run[p].known[z]
      <3>1. ASSUME NEW f \in Notes(BOOLEAN)
            PROVE /\ Extend(f, s, found) \in Notes(BOOLEAN)
                  /\ DOMAIN Extend(f, s, found) = DOMAIN f \cup {s}
                  /\ Extend(f, s, found)[s] = found
                  /\ \A z \in DOMAIN f : z # s => Extend(f, s, found)[z] = f[z]
        BY <2>2, ExtendNotes
      <3> QED BY <2>3, <3>1
    <2>5. /\ cache' \in Notes(BOOLEAN) /\ DOMAIN cache' = DOMAIN cache \cup {s}
          /\ cache'[s] = found /\ \A z \in DOMAIN cache : z # s => cache'[z] = cache[z]
      BY <2>1, <2>2, <2>3, ExtendNotes
    <2> HIDE DEF known
    <2>6. \A z \in DOMAIN known : known[z] <=> z \in Matched
      BY <1>2, <2>1, <2>4 DEF Sound, KnownTruthful
    <2>7. CacheTruthful'
      BY <2>1, <2>5 DEF IInv, CacheTruthful
    <2>8. r \in Run
      BY <1>2, <2>4 DEF Run
    <2>9. RowsOnce(r) /\ OfItems(r)
      BY <1>2, <2>2, <2>4 DEF Run, Sound, RowsOnce, OfItems
    <2>10. KnownTruthful(r) /\ Covered(r) /\ Backed(r, library)
      BY <1>2, <2>6 DEF Run, Sound, KnownTruthful, Covered, Backed
    <2> QED BY <1>2, <1>4, <2>1, <2>5, <2>7, <2>8, <2>9, <2>10, UpdateSound
            DEF IInv, Typed, Sound, known
  <1> QED BY <1>1, <1>3, <1>4

\* Films have a match, the crossover is of series, and what is neither is unmatched.
LEMMA ResolvedSound ==
  ASSUME IInv, NEW p \in Procs, At(p, "resolve"), Unresolved(p) = {},
         NEW series \in SUBSET Crossed(p), Resolved(p, series),
         UNCHANGED <<library, tracked, cache>>, budget' \in Budget
  PROVE IInv'
  <1> DEFINE films == {s \in run[p].items : run[p].known[s]}
             ids == films \cup series
             rest == run[p].items \ ids
             out == [s \in rest |-> "unmatched"]
             apps == Apps(run[p].list, ids)
             r == [run[p] EXCEPT !.pc = "add", !.ids = ids, !.apps = apps, !.out = out]
  <1>1. run[p] \in Run /\ run[p].pc = "resolve" /\ Sound(run[p], library)
    BY DEF At, IInv, Typed
  <1>2. ids \subseteq run[p].items /\ ids \in SUBSET Works
    BY <1>1 DEF Crossed, Run
  <1>3. out \in Notes(Outcomes) /\ DOMAIN out = rest
    <2>1. out \in [rest -> Outcomes] /\ rest \in SUBSET Works
      BY <1>1 DEF Outcomes, Run
    <2> QED BY <2>1 DEF Notes
  <1>4. run[p].list \in Boxd /\ run[p].list \in Lists
    BY <1>1 DEF Sound, RowsOnce
  <1>5. apps \in Seq(Applications) /\ \A w \in ids : \E i \in 1..Len(apps) : w \in Kind(apps[i])
    BY <1>2, <1>4, AppsTake
  <1>6. Update(p, r)
    BY DEF Resolved
  <1> HIDE DEF ids, rest, apps, out
  <1>7. r \in Run
    BY <1>1, <1>2, <1>3, <1>5 DEF Run, Stages
  <1>8. RowsOnce(r) /\ OfItems(r) /\ KnownTruthful(r)
    BY <1>1, <1>2, <1>3 DEF Run, Sound, RowsOnce, OfItems, KnownTruthful, rest
  <1>9. Covered(r)
    BY <1>1, <1>2, <1>3, <1>5 DEF Run, Covered, Taken, rest
  <1>10. Backed(r, library)
    BY <1>1, <1>3 DEF Run, Sound, Backed, out
  <1> QED BY <1>6, <1>7, <1>8, <1>9, <1>10, OneRun DEF Sound

\* The next application: what the one before took is reported, the rest still waits.
LEMMA ReadLibraryIInv == ASSUME IInv, NEW p \in Procs, ReadLibrary(p) PROVE IInv'
  <1> DEFINE app == Head(run[p].apps)
             r == [run[p] EXCEPT !.app = app, !.apps = Tail(run[p].apps), !.holds = library \cap Kind(app)]
  <1>1. /\ run[p] \in Run /\ run[p].pc = "add" /\ Sound(run[p], library)
        /\ run[p].apps \in Seq(Applications) /\ run[p].apps # <<>>
    BY DEF ReadLibrary, AppDone, At, IInv, Typed, Run
  <1>2. app \in Applications /\ Tail(run[p].apps) \in Seq(Applications)
    BY <1>1
  <1>3. library \cap Kind(app) \in SUBSET Works
    BY DEF IInv, Typed
  <1>4. r \in Run
    BY <1>1, <1>2, <1>3 DEF Run
  <1>5. Covered(r)
    <2> SUFFICES ASSUME NEW w \in run[p].items \ DOMAIN run[p].out
                 PROVE w \in run[p].ids /\ Taken(r, w)
      BY <1>1 DEF Covered, Run
    <2>1. w \in run[p].ids /\ Taken(run[p], w)
      BY <1>1 DEF Sound, Covered
    <2>2. w \notin Kind(run[p].app)
      BY <2>1 DEF ReadLibrary, AppDone, ToAdd
    <2>3. \E i \in 1..Len(run[p].apps) : w \in Kind(run[p].apps[i])
      BY <2>1, <2>2 DEF Taken
    <2>4. \/ w \in Kind(Head(run[p].apps))
          \/ \E i \in 1..Len(Tail(run[p].apps)) : w \in Kind(Tail(run[p].apps)[i])
      BY <1>1, <2>3, NextApplication
    <2>5. r.app = Head(run[p].apps) /\ r.apps = Tail(run[p].apps)
      BY <1>1 DEF Run
    <2> QED BY <2>1, <2>4, <2>5 DEF Taken
  <1>6. RowsOnce(r) /\ OfItems(r) /\ KnownTruthful(r) /\ Backed(r, library)
    BY <1>1 DEF Run, Sound, RowsOnce, OfItems, KnownTruthful, Backed
  <1> QED BY <1>4, <1>5, <1>6, OneRun DEF ReadLibrary, Sound, IInv, Typed

\* An item is counted with an outcome that the library bears out.
LEMMA CountedSound ==
  ASSUME IInv, NEW p \in Procs, At(p, "add"), NEW w \in ToAdd(p), NEW o \in Outcomes,
         NEW lib, library \subseteq lib,
         run[p].dry \/ (o \in {"added", "already"} => w \in lib)
  PROVE /\ [run[p] EXCEPT !.out = Extend(run[p].out, w, o)] \in Run
        /\ Sound([run[p] EXCEPT !.out = Extend(run[p].out, w, o)], lib)
  <1> DEFINE out == Extend(run[p].out, w, o)
             r == [run[p] EXCEPT !.out = out]
  <1>1. run[p] \in Run /\ run[p].pc = "add" /\ Sound(run[p], library)
    BY DEF At, IInv, Typed
  <1>2. w \in run[p].ids /\ w \in run[p].items /\ w \in Works /\ run[p].out \in Notes(Outcomes)
    BY <1>1 DEF ToAdd, Run, Sound, OfItems
  <1>3. /\ out \in Notes(Outcomes) /\ DOMAIN out = DOMAIN run[p].out \cup {w} /\ out[w] = o
        /\ \A z \in DOMAIN run[p].out : z # w => out[z] = run[p].out[z]
    <2>1. ASSUME NEW f \in Notes(Outcomes)
          PROVE /\ Extend(f, w, o) \in Notes(Outcomes) /\ DOMAIN Extend(f, w, o) = DOMAIN f \cup {w}
                /\ Extend(f, w, o)[w] = o
                /\ \A z \in DOMAIN f : z # w => Extend(f, w, o)[z] = f[z]
      BY <1>2, ExtendNotes
    <2> QED BY <1>2, <2>1
  <1> HIDE DEF out
  <1>4. r \in Run
    BY <1>1, <1>3 DEF Run
  <1>5. RowsOnce(r) /\ OfItems(r) /\ KnownTruthful(r)
    BY <1>1, <1>2, <1>3 DEF Run, Sound, RowsOnce, OfItems, KnownTruthful
  <1>6. Covered(r)
    BY <1>1, <1>3 DEF Run, Sound, Covered, Taken
  <1>7. Backed(r, lib)
    BY <1>1, <1>3 DEF Run, Sound, Backed
  <1> QED BY <1>4, <1>5, <1>6, <1>7 DEF Sound, out

\* An item is added, was there, is refused, or its addition fails.
LEMMA AddIInv == ASSUME IInv, NEW p \in Procs, Add(p) PROVE IInv'
  <1>1. PICK w \in ToAdd(p) :
          /\ Counted(p, w, Outcome(p, w))
          /\ library' = IF Posts(p, w) THEN library \cup {w} ELSE library
    BY DEF Add
  <1>2. Outcome(p, w) \in Outcomes
    BY DEF Outcome, Outcomes
  <1>3. run[p] \in Run /\ run[p].holds \subseteq library /\ w \in Works /\ At(p, "add")
    BY <1>1 DEF Add, IInv, Typed, Run, ToAdd, Sound, Backed
  <1>4. library \subseteq library' /\ library' \subseteq Works
    BY <1>1, <1>3 DEF IInv, Typed
  <1>5. run[p].dry \/ (Outcome(p, w) \in {"added", "already"} => w \in library')
    BY <1>1, <1>3, <1>4 DEF Outcome, Posts
  <1> DEFINE r == [run[p] EXCEPT !.out = Extend(run[p].out, w, Outcome(p, w))]
  <1>6. r \in Run /\ Sound(r, library')
    BY <1>1, <1>2, <1>3, <1>4, <1>5, CountedSound
  <1>7. Update(p, r)
    BY <1>1 DEF Counted
  <1> QED BY <1>4, <1>6, <1>7, UpdateSound DEF Add, IInv, Typed, CacheTruthful

\* A failed add is counted as failed, whether the application took the film or not.
LEMMA AddFailsIInv == ASSUME IInv, NEW p \in Procs, AddFails(p) PROVE IInv'
  <1>1. PICK w \in ToAdd(p) :
          /\ Counted(p, w, "failed")
          /\ library' = library \/ library' = library \cup {w}
    BY DEF AddFails
  <1>2. run[p] \in Run /\ w \in Works /\ At(p, "add")
    BY <1>1 DEF AddFails, IInv, Typed, Run, ToAdd
  <1>3. library \subseteq library' /\ library' \subseteq Works
    BY <1>1, <1>2 DEF IInv, Typed
  <1> DEFINE r == [run[p] EXCEPT !.out = Extend(run[p].out, w, "failed")]
  <1>4. r \in Run /\ Sound(r, library')
    BY <1>1, <1>2, <1>3, CountedSound DEF Outcomes
  <1>5. Update(p, r)
    BY <1>1 DEF Counted
  <1> QED BY <1>3, <1>4, <1>5, Spent, UpdateSound DEF AddFails, IInv, Typed, CacheTruthful

\* Tracking and untracking only change which rows a tick will miss.
LEMMA TrackIInv ==
  ASSUME IInv, NEW l \in Lists, Track(l) \/ Untrack(l)
  PROVE IInv'
  <1>1. /\ library' = library /\ cache' = cache /\ tracked' \subseteq Lists
        /\ budget' \in Budget
    BY BoundsNat DEF Track, Untrack, IInv, Typed, Budget
  <1>2. PICK lost \in [Procs -> SUBSET Lists] :
          run' = [p \in Procs |-> [run[p] EXCEPT !.lost = lost[p]]]
    <2>1. CASE Track(l)
      <3>1. PICK same \in BOOLEAN :
              run' = [p \in Procs |-> IF same THEN [run[p] EXCEPT !.lost = @ \ {l}] ELSE run[p]]
        BY <2>1 DEF Track
      <3> DEFINE lost == [p \in Procs |-> IF same THEN run[p].lost \ {l} ELSE run[p].lost]
      <3>2. lost \in [Procs -> SUBSET Lists]
        BY DEF IInv, Typed, Run
      <3>3. run' = [p \in Procs |-> [run[p] EXCEPT !.lost = lost[p]]]
        BY <3>1 DEF IInv, Typed, Run
      <3> QED BY <3>2, <3>3
    <2>2. CASE Untrack(l)
      <3> DEFINE lost == [p \in Procs |-> IF l \in run[p].todo \cup {run[p].list}
                                          THEN run[p].lost \cup {l} ELSE run[p].lost]
      <3>1. lost \in [Procs -> SUBSET Lists]
        BY DEF IInv, Typed, Run
      <3>2. run' = [p \in Procs |-> [run[p] EXCEPT !.lost = lost[p]]]
        BY <2>2 DEF Untrack, IInv, Typed, Run
      <3> QED BY <3>1, <3>2
    <2> QED BY <2>1, <2>2
  <1>3. ASSUME NEW p \in Procs PROVE run'[p] \in Run /\ Sound(run'[p], library)
    <2>1. run'[p] = [run[p] EXCEPT !.lost = lost[p]] /\ run[p] \in Run /\ Sound(run[p], library)
      BY <1>2 DEF IInv, Typed
    <2>2. run'[p] \in Run
      BY <1>2, <2>1 DEF Run
    <2>3. Sound(run'[p], library)
      BY <2>1 DEF Run, Sound, RowsOnce, OfItems, KnownTruthful, Covered, Taken, Backed
    <2> QED BY <2>2, <2>3
  <1>4. run' \in [Procs -> Run]
    BY <1>2, <1>3
  <1> QED BY <1>1, <1>3, <1>4 DEF IInv, Typed, CacheTruthful

-----------------------------------------------------------------------------
\* The inductive invariant

\* The invariant holds at first: no run, no cached ids, no request made.
LEMMA InitIInv == Init => IInv
  <1> SUFFICES ASSUME Init PROVE IInv
    OBVIOUS
  <1>1. Typed
    BY NoNotes, NoRunTyped, BoundsNat DEF Init, Typed, Budget
  <1> QED BY <1>1, NoNotes, NoRunSound DEF Init, IInv, CacheTruthful

\* Every step of every run and of the applications keeps the invariant.
LEMMA NextIInv == IInv /\ [Next]_vars => IInv'
  <1> SUFFICES ASSUME IInv, [Next]_vars PROVE IInv'
    OBVIOUS
  <1>0. budget \in Budget
    BY DEF IInv, Typed
  <1>1. ASSUME NEW p \in Procs, StartTick(p) PROVE IInv'
    BY <1>1, StartTickIInv
  <1>2. ASSUME NEW p \in Procs, Work(p) PROVE IInv'
    <2>1. CASE TakeRow(p)
      BY <2>1, TakeRowIInv
    <2>2. CASE Fetch(p)
      BY <1>0, <2>2, FetchedSound DEF Fetch, WithinReach
    <2>3. CASE Resolve(p)
      BY <2>3, ResolveIInv
    <2>4. CASE CrossOver(p)
      BY <1>0, <2>4, ResolvedSound DEF CrossOver
    <2>5. CASE ReadLibrary(p)
      BY <2>5, ReadLibraryIInv
    <2>6. CASE Add(p)
      BY <2>6, AddIInv
    <2>7. CASE Finish(p)
      <3>1. run[p].pc \in {"fetch", "resolve", "add"}
        BY <2>7 DEF Finish, Reported, AppDone, At
      <3> QED BY <1>0, <2>7, <3>1, OverSound, OneRun DEF Finish
    <2> QED BY <1>2, <2>1, <2>2, <2>3, <2>4, <2>5, <2>6, <2>7 DEF Work
  <1>3. ASSUME NEW p \in Procs, Trouble(p) PROVE IInv'
    <2>1. CASE FetchPart(p)
      <3>1. budget' \in Budget
        BY <1>0, <2>1, Spent DEF FetchPart
      <3>2. PICK items \in (SUBSET WithinReach(run[p].list)) \ {{}} : Fetched(p, items)
        BY <2>1 DEF FetchPart
      <3>3. items \in SUBSET Items[run[p].list]
        BY <3>2 DEF WithinReach
      <3> QED BY <1>3, <2>1, <3>1, <3>2, <3>3, FetchedSound DEF FetchPart
    <2>2. CASE FetchFails(p)
      BY <2>2, Spent, FailsIInv DEF FetchFails, At
    <2>3. CASE ResolveFails(p)
      BY <2>3, Spent, FailsIInv DEF ResolveFails, At
    <2>4. CASE CrossOverPart(p)
      BY <2>4, Spent, ResolvedSound DEF CrossOverPart
    <2>5. CASE ReadFails(p)
      BY <2>5, Spent, FailsIInv DEF ReadFails, AppDone, At
    <2>6. CASE AddFails(p)
      BY <2>6, AddFailsIInv
    <2> QED BY <1>3, <2>1, <2>2, <2>3, <2>4, <2>5, <2>6 DEF Trouble
  <1>4. ASSUME NEW l \in Handed, NEW mode \in [dry : BOOLEAN, cross : BOOLEAN], StartManual(l, mode)
        PROVE IInv'
    BY <1>4, StartManualIInv
  <1>5. ASSUME NEW l \in Lists, Track(l) \/ Untrack(l) PROVE IInv'
    BY <1>5, TrackIInv
  <1>6. CASE UNCHANGED vars
    BY <1>6 DEF vars, IInv, Typed, CacheTruthful
  <1> QED BY <1>1, <1>2, <1>3, <1>4, <1>5, <1>6 DEF Next

\* The invariant, for any lists, runs and failures.
THEOREM Invariance == Spec => []IInv
  BY InitIInv, NextIInv, PTL DEF Spec

-----------------------------------------------------------------------------
\* Theorems

\* Type correctness; what a run reports, it reports of items it read.
THEOREM TypeCorrect == Spec => []TypeOK
  <1>1. ASSUME IInv PROVE TypeOK
    <2>1. cache \in Notes(BOOLEAN)
      BY <1>1 DEF IInv, Typed
    <2>2. Partial(cache, Works, BOOLEAN)
      BY <2>1, NotesPartial DEF Partial
    <2>3. ASSUME NEW p \in Procs
          PROVE /\ run[p].pc \in {"idle", "next", "fetch", "resolve", "add"}
                /\ run[p].todo \cap (run[p].logged \cup {run[p].list}) = {}
                /\ Partial(run[p].out, run[p].items, Outcomes)
                /\ Partial(run[p].known, run[p].items, BOOLEAN)
      <3>1. run[p] \in Run /\ RowsOnce(run[p]) /\ OfItems(run[p])
        BY <1>1 DEF IInv, Typed, Sound
      <3>2. run[p].out \in Notes(Outcomes) /\ run[p].known \in Notes(BOOLEAN)
        BY <3>1 DEF Run
      <3>3. Partial(run[p].out, run[p].items, Outcomes)
        BY <3>1, <3>2, NotesPartial DEF OfItems, Partial
      <3>4. Partial(run[p].known, run[p].items, BOOLEAN)
        BY <3>1, <3>2, NotesPartial DEF OfItems, Partial
      <3> QED BY <3>1, <3>3, <3>4 DEF RowsOnce, Run, Stages
    <2> QED BY <1>1, <2>2, <2>3 DEF IInv, Typed, TypeOK, Budget
  <1> QED BY <1>1, Invariance, PTL

\* The slug table holds no wrong answer, what was reported as added or there already is
\* in the library, and no item of a list falls out of its report (letterboxd/router.py:
\* 280-334, mdblist/router.py:134-157, arr_client.py:437-507).
THEOREM ReportsHonest == Spec => []ReportsTruthful
  <1>1. ASSUME IInv PROVE ReportsTruthful
    <2>1. CacheTruthful
      BY <1>1 DEF IInv
    <2>2. ReportTruthful
      BY <1>1 DEF IInv, ReportTruthful, Sound, Backed
    <2>3. NothingUnreported
      <3> SUFFICES ASSUME NEW p \in Procs, Reported(p), NEW w \in run[p].items \ DOMAIN run[p].out
                   PROVE FALSE
        BY <1>1 DEF NothingUnreported, IInv, Sound, OfItems
      <3>1. w \in run[p].ids /\ Taken(run[p], w)
        BY <1>1 DEF IInv, Sound, Covered, Reported, AppDone, At
      <3>2. w \notin Kind(run[p].app) /\ run[p].apps = <<>>
        BY <3>1 DEF Reported, AppDone, ToAdd
      <3> QED BY <3>1, <3>2 DEF Taken
    <2> QED BY <2>1, <2>2, <2>3 DEF ReportsTruthful
  <1> QED BY <1>1, Invariance, PTL

\* A run that is over or fails is idle only when nothing was left to it or its row was lost.
LEMMA OverQuiet ==
  ASSUME NEW p \in Ticks, Over(p).pc = "idle", run[p].lost = {}
  PROVE run[p].todo = {}
  BY DEF Over, NoRun, Ticks

\* What one step makes of the run of a tick.
LEMMA QuietStep ==
  ASSUME IInv, [Next]_vars, NEW t \in Ticks,
         run[t].pc # "idle", run'[t].pc = "idle", run[t].lost = {}
  PROVE run[t].todo = {}
  <1>0. run \in [Procs -> Run] /\ t \in Procs
    BY DEF IInv, Typed, Procs
  <1>2. ASSUME NEW p \in Procs, Fails(p) \/ Update(p, Over(p)) PROVE run[t].todo = {}
    BY <1>0, <1>2, OverQuiet DEF Fails, AfterFailure, Update
  <1>3. ASSUME NEW p \in Procs, StartTick(p) PROVE run[t].todo = {}
    BY <1>0, <1>3 DEF StartTick, Update, At, NoRun
  <1>4. ASSUME NEW p \in Procs, Work(p) PROVE run[t].todo = {}
    <2>0. run[p] \in Run
      BY <1>0
    <2>1. CASE TakeRow(p)
      <3>1. PICK l \in run[p].todo :
              IF run[p].logged # {} /\ l \in run[p].lost THEN Update(p, NoRun)
              ELSE Update(p, [run[p] EXCEPT !.pc = "fetch", !.list = l, !.todo = @ \ {l}])
        BY <2>1 DEF TakeRow
      <3>2. run[p].lost # {} \/ Update(p, [run[p] EXCEPT !.pc = "fetch", !.list = l, !.todo = @ \ {l}])
        BY <3>1
      <3>3. p # t => run'[t] = run[t]
        BY <1>0, <3>1 DEF Update
      <3>4. p = t => run'[p] = [run[p] EXCEPT !.pc = "fetch", !.list = l, !.todo = @ \ {l}]
        BY <1>0, <3>2 DEF Update
      <3> QED BY <2>0, <3>3, <3>4 DEF Run
    <2>2. CASE Fetch(p)
      BY <1>0, <2>0, <2>2 DEF Fetch, Fetched, Update, Run
    <2>3. CASE Resolve(p)
      <3>1. CASE Fails(p)
        BY <1>2, <3>1
      <3>2. ASSUME NEW known, Update(p, [run[p] EXCEPT !.known = known]) PROVE run[t].todo = {}
        BY <1>0, <2>0, <2>3, <3>2 DEF Resolve, At, Update, Run
      <3> QED BY <2>3, <3>1, <3>2 DEF Resolve
    <2>4. CASE CrossOver(p)
      BY <1>0, <2>0, <2>4 DEF CrossOver, Resolved, Update, Run
    <2>5. CASE ReadLibrary(p)
      BY <1>0, <2>0, <2>5 DEF ReadLibrary, AppDone, At, Update, Run
    <2>6. CASE Add(p)
      BY <1>0, <2>0, <2>6 DEF Add, At, Counted, Update, Run
    <2>7. CASE Finish(p)
      BY <1>2, <2>7 DEF Finish
    <2> QED BY <1>4, <2>1, <2>2, <2>3, <2>4, <2>5, <2>6, <2>7 DEF Work
  <1>5. ASSUME NEW p \in Procs, Trouble(p) PROVE run[t].todo = {}
    <2>0. run[p] \in Run
      BY <1>0
    <2>1. CASE FetchPart(p)
      BY <1>0, <2>0, <2>1 DEF FetchPart, Fetched, Update, Run
    <2>2. CASE FetchFails(p) \/ ResolveFails(p) \/ ReadFails(p)
      BY <1>2, <2>2 DEF FetchFails, ResolveFails, ReadFails
    <2>3. CASE CrossOverPart(p)
      BY <1>0, <2>0, <2>3 DEF CrossOverPart, Resolved, Update, Run
    <2>4. CASE AddFails(p)
      BY <1>0, <2>0, <2>4 DEF AddFails, At, Counted, Update, Run
    <2> QED BY <1>5, <2>1, <2>2, <2>3, <2>4 DEF Trouble
  <1>6. ASSUME NEW l \in Handed, NEW mode \in [dry : BOOLEAN, cross : BOOLEAN], StartManual(l, mode)
        PROVE run[t].todo = {}
    BY <1>0, <1>6 DEF StartManual, Update, Ticks, NoRun
  <1>7. ASSUME NEW l \in Lists, Track(l) \/ Untrack(l) PROVE run[t].todo = {}
    <2>1. run[t] \in Run
      BY <1>0
    <2>2. run'[t].pc = run[t].pc
      BY <1>0, <1>7, <2>1 DEF Track, Untrack, Run
    <2> QED BY <2>2
  <1>8. CASE UNCHANGED vars
    BY <1>8 DEF vars
  <1> QED BY <1>3, <1>4, <1>5, <1>6, <1>7, <1>8 DEF Next

\* A tick that no untracking disturbed ends only after all its lists were taken: a list
\* that fails costs the others nothing (letterboxd/router.py:459-477, mdblist/router.py:
\* 283-308).
THEOREM TickReachesAll == Spec => QuietTickReachesAll
  <1>1. IInv /\ [Next]_vars =>
          [\A p \in Ticks :
             run[p].pc # "idle" /\ run[p]'.pc = "idle" /\ run[p].lost = {} => run[p].todo = {}]_vars
    BY QuietStep
  <1> QED BY <1>1, Invariance, PTL DEF Spec, QuietTickReachesAll

-----------------------------------------------------------------------------
\* Every set of natural numbers that is not empty has a least one.
LEMMA LeastIndex ==
  ASSUME NEW S \in SUBSET Nat, S # {}
  PROVE  \E n \in S : \A k \in S : n <= k
<1>1. PICK n \in S : \A k \in S : ~(<<k, n>> \in OpToRel(<, Nat))
  BY NatLessThanWellFounded, WFMin
<1>2. \A k \in S : ~(k < n)
  BY <1>1 DEF OpToRel
<1>3. QED
  BY <1>2

\* Of numbers that are not none, the least is one, and none is below it.
LEMMA MinIs ==
  ASSUME NEW S \in SUBSET Nat, S # {}
  PROVE  Min(S) \in S /\ \A k \in S : Min(S) <= k
<1>1. \E n \in S : \A k \in S : n <= k
  BY LeastIndex
<1>2. QED
  BY <1>1 DEF Min

-----------------------------------------------------------------------------
(* The requests of several calls and the nightly jobs.                     *)
\* A toggle tells the truth, and the next one mends it.
Mends(count, indexers, enabled, fault, late) ==
  LET told == SearchToggle(indexers, enabled, fault, late) IN
  /\ told.ok /\ count > 0 => SearchStatus(told.indexers) = enabled
  /\ SearchToggle(told.indexers, enabled, Never, FALSE).indexers
       = SearchToggle(indexers, enabled, Never, FALSE).indexers

\* With any number of indexers and wherever it fails, a toggle that tells of a success
\* has switched the search, and one that failed half way is as good as none to the next
\* (arr_search_toggle, services/arr/router.py).
THEOREM TogglesMend ==
  ASSUME NEW count \in Nat, NEW indexers \in [1..count -> [rss : BOOLEAN, auto : BOOLEAN]],
         NEW enabled \in BOOLEAN, NEW fault \in Nat, NEW late \in BOOLEAN
  PROVE  Mends(count, indexers, enabled, fault, late)
<1> DEFINE told == SearchToggle(indexers, enabled, fault, late)
           on == [n \in 1..count |-> [rss |-> enabled, auto |-> enabled]]
<1>0. ASSUME NEW x \in [rss : BOOLEAN, auto : BOOLEAN]
      PROVE  [x EXCEPT !.rss = enabled, !.auto = enabled] = [rss |-> enabled, auto |-> enabled]
  <2> DEFINE y == [x EXCEPT !.rss = enabled, !.auto = enabled]
  <2>1. y \in [rss : BOOLEAN, auto : BOOLEAN] /\ y.rss = enabled /\ y.auto = enabled
    OBVIOUS
  <2> HIDE DEF y
  <2>2. y = [rss |-> enabled, auto |-> enabled]
    BY <2>1
  <2>3. QED
    BY <2>2 DEF y
<1>1. ASSUME NEW i \in [1..count -> [rss : BOOLEAN, auto : BOOLEAN]]
      PROVE  SearchToggle(i, enabled, Never, FALSE).indexers = on
  <2>1. \A n \in 1..count : [i[n] EXCEPT !.rss = enabled, !.auto = enabled] = [rss |-> enabled, auto |-> enabled]
    BY <1>0
  <2>2. QED
    BY <2>1 DEF SearchToggle, Never
<1>2. told.indexers \in [1..count -> [rss : BOOLEAN, auto : BOOLEAN]]
  BY DEF SearchToggle
<1>3. ASSUME told.ok, count > 0 PROVE SearchStatus(told.indexers) = enabled
  <2>1. fault \notin 1..count
    BY <1>3 DEF SearchToggle
  <2>2. told.indexers = on
    <3>1. \A n \in 1..count : [indexers[n] EXCEPT !.rss = enabled, !.auto = enabled] = [rss |-> enabled, auto |-> enabled]
      BY <1>0
    <3>2. fault = 0 \/ \A n \in 1..count : n < fault
      BY <2>1
    <3>3. QED
      BY <3>1, <3>2 DEF SearchToggle, Never
  <2>3. 1 \in DOMAIN on /\ on # <<>>
    <3>1. 1 \in DOMAIN on /\ 1 \notin DOMAIN <<>>
      BY <1>3
    <3>2. QED
      BY <3>1, Zenon
  <2>4. SearchStatus(on) <=> enabled
    BY <2>3 DEF SearchStatus
  <2>5. QED
    BY <2>2, <2>4, Zenon DEF SearchStatus
<1>4. QED
  BY <1>1, <1>2, <1>3, Zenon DEF Mends

\* So a toggle that says so has set every indexer.
LEMMA TogglesHold == ToggleTold
<1> SUFFICES ASSUME NEW count \in 0..2, NEW indexers \in [1..count -> [rss : BOOLEAN, auto : BOOLEAN]],
                    NEW enabled \in BOOLEAN, NEW fault \in 0..2, NEW late \in BOOLEAN
             PROVE  Mends(count, indexers, enabled, fault, late)
  BY Zenon DEF ToggleTold, Mends
<1>1. count \in Nat /\ fault \in Nat
  OBVIOUS
<1>2. QED
  BY <1>1, TogglesMend

-----------------------------------------------------------------------------
\* What is told of a backup is so.
Polled(app, interval, timeout, delay) ==
  LET outcome == TriggerBackup(app, interval, timeout, delay) IN
  /\ outcome = "still running" => app.endsAt > timeout - delay
  /\ outcome = "completed" => app.key /\ app.ends = "completed" /\ app.endsAt <= timeout + interval

\* With any interval, time-out and delay of the answers, a job is called still running
\* only if it ran for as long as the script waits but for an answer's delay, and completed
\* only if it ended a poll after that at the latest (trigger_backup, arr-app-backup.py).
THEOREM PollsTold ==
  ASSUME NEW interval \in Nat \ {0}, NEW timeout \in Nat \ {0}, NEW delay \in Nat,
         NEW app \in [key : BOOLEAN, endsAt : Nat, ends : {"completed", "failed"},
                      faultAt : Nat, fault : {"fails", "hangs"}]
  PROVE  Polled(app, interval, timeout, delay)
<1> DEFINE polls == {k \in 0..timeout : \/ BackupStatus(app, k, interval, delay) # "started"
                                        \/ AnsweredAt(k, interval, delay) >= timeout
                                        \/ k = app.faultAt}
           last == LastPoll(app, interval, timeout, delay)
           P == interval + delay
           status == BackupStatus(app, last, interval, delay)
<1>1. last \in polls /\ \A k \in polls : last <= k
  <2>1. timeout \in polls
    <3>1. timeout * P >= timeout
      <4>1. P \in Nat /\ P >= 1
        OBVIOUS
      <4> HIDE DEF P
      <4>2. timeout * (P - 1) >= 0
        BY <4>1
      <4>3. QED
        BY <4>1, <4>2
    <3>2. QED
      BY <3>1 DEF AnsweredAt
  <2>2. polls \in SUBSET Nat /\ polls # {}
    BY <2>1
  <2>3. last = Min(polls)
    BY DEF LastPoll
  <2> HIDE DEF polls, last
  <2>4. QED
    BY <2>2, <2>3, MinIs
<1>2. last \in 0..timeout
  BY <1>1
<1>3. PICK A \in Int : A = last * P
  BY <1>2
<1>4. AnsweredAt(last, interval, delay) = A /\ AskedAt(last, interval, delay) = IF last = 0 THEN 0 ELSE A - delay
  BY <1>3 DEF AnsweredAt, AskedAt
<1>5. ASSUME status = "started", last # app.faultAt PROVE app.endsAt > timeout - delay
  <2>1. A >= timeout
    BY <1>1, <1>4, <1>5
  <2>2. ~(AskedAt(last, interval, delay) >= app.endsAt)
    BY <1>5 DEF BackupStatus
  <2>3. last # 0
    BY <1>3, <2>1
  <2>4. QED
    BY <1>4, <2>1, <2>2, <2>3
<1>6. ASSUME status = "completed" PROVE app.ends = "completed" /\ app.endsAt <= timeout + interval
  <2>1. AskedAt(last, interval, delay) >= app.endsAt /\ app.ends = "completed"
    BY <1>6 DEF BackupStatus
  <2>2. CASE last = 0
    BY <1>4, <2>1, <2>2
  <2>3. CASE last # 0
    <3>1. last - 1 \in 0..timeout /\ last - 1 \notin polls
      BY <1>1, <1>2, <2>3
    <3>2. ~(AnsweredAt(last - 1, interval, delay) >= timeout)
      BY <3>1
    <3>3. (last - 1) * P = A - P
      BY <1>2, <1>3
    <3>4. A - P < timeout
      BY <1>3, <3>2, <3>3 DEF AnsweredAt
    <3>5. QED
      BY <1>3, <1>4, <2>1, <2>3, <3>4
  <2>4. QED
    BY <2>2, <2>3
<1> DEFINE outcome == TriggerBackup(app, interval, timeout, delay)
<1>7. outcome = IF ~app.key THEN "no key"
                ELSE IF last = app.faultAt THEN (IF app.fault = "hangs" THEN "died" ELSE "call failed")
                ELSE IF status = "started" THEN "still running" ELSE status
  BY DEF TriggerBackup
<1>8. status \in {"started", "completed", "failed"}
  BY DEF BackupStatus
<1> HIDE DEF last, status, outcome
<1>9. /\ outcome = "still running" => status = "started" /\ last # app.faultAt
      /\ outcome = "completed" => app.key /\ status = "completed"
  BY <1>7, <1>8
<1>10. QED
  BY <1>5, <1>6, <1>9 DEF outcome, Polled

\* So what is told of the backups is so.
LEMMA BackupsHold == BackupsTold
<1> SUFFICES ASSUME NEW interval \in 1..3, NEW timeout \in 2..6, NEW delay \in 0..1,
                    NEW app \in [key : BOOLEAN, endsAt : 0..9, ends : {"completed", "failed"},
                                 faultAt : {0, 1, 2, NoFault}, fault : {"fails", "hangs"}]
             PROVE  LET other == [key |-> TRUE, endsAt |-> 1, ends |-> "completed", faultAt |-> NoFault, fault |-> "fails"]
                        told == Backups(<<app, other>>, interval, timeout, delay)
                    IN /\ told.outcome[1] = "still running" => app.endsAt > timeout - delay
                       /\ told.told = "green" => app.key /\ app.ends = "completed" /\ app.endsAt <= timeout + interval
  BY Zenon DEF BackupsTold
<1> DEFINE other == [key |-> TRUE, endsAt |-> 1, ends |-> "completed", faultAt |-> NoFault, fault |-> "fails"]
           told == Backups(<<app, other>>, interval, timeout, delay)
<1> DEFINE outcome == TriggerBackup(app, interval, timeout, delay)
<1>1. app \in [key : BOOLEAN, endsAt : Nat, ends : {"completed", "failed"},
               faultAt : Nat, fault : {"fails", "hangs"}]
  BY DEF NoFault
<1>2. interval \in Nat \ {0} /\ timeout \in Nat \ {0} /\ delay \in Nat
  OBVIOUS
<1>3. Polled(app, interval, timeout, delay)
  BY <1>1, <1>2, PollsTold
<1> HIDE DEF other
<1>4. DOMAIN <<app, other>> = 1..2 /\ <<app, other>>[1] = app
  OBVIOUS
<1> DEFINE outcomes == [n \in DOMAIN <<app, other>> |-> TriggerBackup(<<app, other>>[n], interval, timeout, delay)]
           died == {n \in DOMAIN <<app, other>> : outcomes[n] = "died"}
<1>5. told = IF died # {} THEN [told |-> "nothing", outcome |-> outcomes]
             ELSE [told |-> IF \A n \in DOMAIN <<app, other>> : outcomes[n] = "completed" THEN "green" ELSE "red",
                   outcome |-> outcomes]
  BY Zenon DEF Backups
<1>6. outcomes[1] = outcome
  BY <1>4
<1> HIDE DEF told, outcomes, died
<1>7. told.outcome[1] = outcome /\ (told.told = "green" => outcomes[1] = "completed")
  <2>1. told.outcome = outcomes
    BY <1>5
  <2>2. told.told = "green" => \A n \in 1..2 : outcomes[n] = "completed"
    BY <1>4, <1>5
  <2>3. QED
    BY <1>6, <2>1, <2>2
<1>8. /\ outcome = "still running" => app.endsAt > timeout - delay
      /\ outcome = "completed" => app.key /\ app.ends = "completed" /\ app.endsAt <= timeout + interval
  BY <1>3 DEF Polled
<1> HIDE DEF outcome, told
<1>9. /\ told.outcome[1] = "still running" => app.endsAt > timeout - delay
      /\ told.told = "green" => app.key /\ app.ends = "completed" /\ app.endsAt <= timeout + interval
  BY <1>6, <1>7, <1>8
<1>10. QED
  BY <1>9, Zenon DEF told, other

-----------------------------------------------------------------------------
\* In any history and whatever each call meets, deletion takes failed entries alone, counts
\* no more than it takes, counts as an error each that stays, and the next one takes those
\* (nzbdav_delete_failures, services/nzbdav; main, bearmount-prune-history.py).
THEOREM DeletionsAre ==
  ASSUME NEW ids, IsFiniteSet(ids), NEW history \in [ids -> {"Failed", "Completed"}],
         NEW meets \in [ids -> {"none", "refused", "down", "lost"}]
  PROVE  LET told == DeleteFailures(history, meets)
             left == {id \in DOMAIN told.history : told.history[id] = "Failed"}
             again == DeleteFailures(told.history, [id \in ids |-> "none"])
             completed == {id \in ids : history[id] = "Completed"}
         IN /\ completed \subseteq DOMAIN told.history
            /\ Cardinality(left) <= told.errors
            /\ told.deleted <= Cardinality(ids \ DOMAIN told.history)
            /\ DOMAIN again.history = completed
<1> DEFINE told == DeleteFailures(history, meets)
           left == {id \in DOMAIN told.history : told.history[id] = "Failed"}
           again == DeleteFailures(told.history, [id \in ids |-> "none"])
           completed == {id \in ids : history[id] = "Completed"}
           failed == {id \in ids : history[id] = "Failed"}
           gone == {id \in failed : meets[id] \in {"none", "lost"}}
           deleted == {id \in failed : meets[id] = "none"}
<1>1. /\ told.history = [id \in ids \ gone |-> history[id]]
      /\ told.deleted = Cardinality(deleted) /\ told.errors = Cardinality(failed) - Cardinality(deleted)
  BY DEF DeleteFailures, DeleteOne
<1>2. DOMAIN told.history = ids \ gone /\ left = failed \ gone
  BY <1>1
<1>3. ids \ (ids \ gone) = gone
  OBVIOUS
<1>4. DOMAIN again.history = completed
  <2>1. DOMAIN again.history = (ids \ gone) \ {id \in left : DeleteOne([i \in ids |-> "none"], id).gone}
    BY <1>2 DEF DeleteFailures
  <2>2. {id \in left : DeleteOne([i \in ids |-> "none"], id).gone} = left
    BY <1>2 DEF DeleteOne
  <2>3. QED
    BY <1>2, <2>1, <2>2
<1>5. completed \subseteq ids \ gone /\ gone \subseteq failed /\ deleted \subseteq gone /\ failed \subseteq ids
  OBVIOUS
<1> HIDE DEF told, left, again, completed, failed, gone, deleted
<1>6. IsFiniteSet(failed) /\ IsFiniteSet(gone) /\ IsFiniteSet(deleted)
  BY <1>5, FS_Subset
<1>7. Cardinality(deleted) <= Cardinality(gone)
  BY <1>5, <1>6, FS_Subset
<1>8. Cardinality(failed \ gone) = Cardinality(failed) - Cardinality(gone)
  <2>1. failed \cap gone = gone
    BY <1>5
  <2>2. QED
    BY <1>6, <2>1, FS_Difference
<1>9. Cardinality(failed) \in Nat /\ Cardinality(gone) \in Nat /\ Cardinality(deleted) \in Nat
  BY <1>6, FS_CardinalityType
<1>10. Cardinality(left) <= told.errors
  BY <1>1, <1>2, <1>7, <1>8, <1>9
<1>11. told.deleted <= Cardinality(ids \ DOMAIN told.history)
  BY <1>1, <1>2, <1>3, <1>7
<1>12. completed \subseteq DOMAIN told.history
  BY <1>2, <1>5
<1>13. QED
  BY <1>4, <1>10, <1>11, <1>12, Zenon DEF told, left, again, completed

\* So it is of the histories that the run tries.
LEMMA DeletionsHold == DeletionsTold
<1>1. ASSUME NEW ids \in SUBSET (1..4) PROVE IsFiniteSet(ids)
  <2>1. 1 \in Int /\ 4 \in Int
    OBVIOUS
  <2>2. IsFiniteSet(1..4)
    BY <2>1, FS_Interval, Zenon
  <2>3. QED
    BY <2>2, FS_Subset
<1>2. QED
  BY <1>1, DeletionsAre, Zenon DEF DeletionsTold

-----------------------------------------------------------------------------
\* Whatever the queue holds: nothing is imported into nothing, and what is
\* offered is imported or counted.
ImportsTold(app, queue, posted) ==
  LET told == ManualImportAll(app, queue, posted) IN
  /\ \A f \in DOMAIN told.started : told.started[f] # "none"
  /\ posted => Cardinality(DOMAIN told.started) + told.skipped
                 = Cardinality(DOMAIN ManualImportCandidates(app, queue))

\* So it is of every queue.
LEMMA ImportsMatch ==
  ASSUME NEW app, NEW queue, NEW posted \in BOOLEAN, IsFiniteSet(DOMAIN ManualImportCandidates(app, queue))
  PROVE  ImportsTold(app, queue, posted)
<1> DEFINE target == ManualImportCandidates(app, queue)
           files == {f \in DOMAIN target : target[f] # "none"}
           told == ManualImportAll(app, queue, posted)
<1>1. /\ told.started = [f \in IF posted THEN files ELSE {} |-> target[f]]
      /\ told.skipped = Cardinality(DOMAIN target) - Cardinality(files)
  BY DEF ManualImportAll
<1>2. files \subseteq DOMAIN target
  OBVIOUS
<1>3. Cardinality(files) \in Nat /\ Cardinality(DOMAIN target) \in Nat
  <2>1. IsFiniteSet(files)
    BY <1>2, FS_Subset
  <2>2. QED
    BY <2>1, FS_CardinalityType
<1>4. \A f \in DOMAIN told.started : told.started[f] # "none"
  BY <1>1
<1>5. posted => DOMAIN told.started = files
  BY <1>1
<1> HIDE DEF told, files, target
<1>6. posted => Cardinality(DOMAIN told.started) + told.skipped = Cardinality(DOMAIN target)
  BY <1>1, <1>3, <1>5
<1>7. QED
  BY <1>4, <1>6, Zenon DEF ImportsTold, told, target

\* So it is of the queues that the run tries.
LEMMA ImportsHold == OnlyMatchedImported
<1> DEFINE file(n, m, e) == [name |-> n, match |-> m, episodes |-> e]
           pair == <<[name |-> "f", match |-> "none", episodes |-> "none"],
                     [name |-> "g", match |-> "none", episodes |-> "s"]>>
           Record == [status : {"ok", "warning"}, state : {"importPending", "downloading"},
                      identified : BOOLEAN, listed : BOOLEAN, files : {<<>>, pair}]
           offered(queue) == {f \in (1..2) \X (1..2) :
                        /\ queue[f[1]].status = "warning" \/ queue[f[1]].state = "importPending"
                        /\ queue[f[1]].identified /\ queue[f[1]].listed /\ f[2] \in DOMAIN queue[f[1]].files}
<1>1. ASSUME NEW app \in {"radarr", "sonarr"}, NEW posted \in BOOLEAN, NEW queue \in [1..2 -> Record]
      PROVE  DOMAIN ManualImportCandidates(app, queue) = offered(queue)
  <2>1. \A n \in 1..2 : queue[n].files \in {<<>>, pair} /\ queue[n].status \in {"ok", "warning"}
    OBVIOUS
  <2>2. \A n \in 1..2 : DOMAIN queue[n].files \subseteq 1..2
    <3>1. DOMAIN <<>> \subseteq 1..2 /\ DOMAIN pair \subseteq 1..2
      OBVIOUS
    <3>2. QED
      BY <2>1, <3>1, Zenon
  <2>3. DOMAIN queue = 1..2
    OBVIOUS
  <2>4. ImportCandidateQueueItems(queue)
          = {n \in 1..2 : queue[n].status = "warning" \/ queue[n].state = "importPending"}
    BY <2>1, <2>3 DEF ImportCandidateQueueItems
  <2> DEFINE Listed == {n \in ImportCandidateQueueItems(queue) : queue[n].identified /\ queue[n].listed}
             Files == UNION {{<<n, k>> : k \in DOMAIN queue[n].files} : n \in Listed}
  <2>5. DOMAIN ManualImportCandidates(app, queue) = Files
    BY DEF ManualImportCandidates
  <2>6. Listed \subseteq 1..2
    BY <2>4
  <2>7. \A f \in Files : f \in offered(queue)
    <3> SUFFICES ASSUME NEW n \in Listed, NEW k \in DOMAIN queue[n].files PROVE <<n, k>> \in offered(queue)
      OBVIOUS
    <3>1. QED
      BY <2>2, <2>4, <2>6
  <2>8. \A f \in offered(queue) : f \in Files
    <3> SUFFICES ASSUME NEW f \in offered(queue) PROVE f \in Files
      OBVIOUS
    <3>1. f = <<f[1], f[2]>> /\ f[1] \in Listed /\ f[2] \in DOMAIN queue[f[1]].files
      BY <2>4
    <3>2. QED
      BY <3>1
  <2>9. QED
    BY <2>5, <2>7, <2>8
<1>2. \A queue : IsFiniteSet(offered(queue))
  <2>1. 1 \in Int /\ 2 \in Int
    OBVIOUS
  <2>2. IsFiniteSet(1..2)
    BY <2>1, FS_Interval, Zenon
  <2>3. IsFiniteSet((1..2) \X (1..2))
    BY <2>2, FS_Product
  <2>4. \A queue : offered(queue) \in SUBSET ((1..2) \X (1..2))
    OBVIOUS
  <2> HIDE DEF offered
  <2>5. QED
    BY <2>3, <2>4, FS_Subset
<1> SUFFICES ASSUME NEW app \in {"radarr", "sonarr"}, NEW posted \in BOOLEAN, NEW queue \in [1..2 -> Record]
             PROVE  LET told == ManualImportAll(app, queue, posted)
                    IN /\ \A f \in DOMAIN told.started : told.started[f] # "none"
                       /\ posted => Cardinality(DOMAIN told.started) + told.skipped = Cardinality(offered(queue))
  BY Zenon DEF OnlyMatchedImported
<1> HIDE DEF offered
<1>3. ImportsTold(app, queue, posted) /\ DOMAIN ManualImportCandidates(app, queue) = offered(queue)
  BY <1>1, <1>2, ImportsMatch
<1>4. QED
  BY <1>3, Zenon DEF ImportsTold

-----------------------------------------------------------------------------
\* A caller's own fields are never replaced.
LEMMA OwnFieldsKept ==
  ASSUME NEW payload, NEW lists, NEW plexToken, NEW f \in DOMAIN payload.fields
  PROVE  Value(FieldValues(payload, lists, plexToken), f) = payload.fields[f]
<1>1. \A base : f \in DOMAIN Override(base, payload.fields) /\ Override(base, payload.fields)[f] = payload.fields[f]
  BY DEF Override
<1>2. f \in DOMAIN FieldValues(payload, lists, plexToken)
      /\ FieldValues(payload, lists, plexToken)[f] = payload.fields[f]
  <2>1. CASE payload.implementation = "PlexImport" /\ plexToken # "unset"
    BY <1>1, <2>1, Zenon DEF FieldValues
  <2>2. CASE ~(payload.implementation = "PlexImport" /\ plexToken # "unset")
    <3>1. CASE payload.implementation \in OauthFamilies /\ Donors(lists, payload.implementation) # {}
      BY <1>1, <2>2, <3>1, Zenon DEF FieldValues
    <3>2. CASE ~(payload.implementation \in OauthFamilies /\ Donors(lists, payload.implementation) # {})
      BY <2>2, <3>2, Zenon DEF FieldValues
    <3>3. QED
      BY <3>1, <3>2, Zenon
  <2>3. QED
    BY <2>1, <2>2, Zenon
<1>3. QED
  BY <1>2 DEF Value

\* Where a list of the family holds a token, one that is added gets a token,
\* its own if it has one.
LEMMA TokenLent ==
  ASSUME NEW payload, NEW lists, NEW plexToken, payload.implementation \in OauthFamilies,
         Donors(lists, payload.implementation) # {}, DOMAIN lists \in SUBSET Nat,
         "accessToken" \in DOMAIN payload.fields => payload.fields["accessToken"] # "unset"
  PROVE  Value(FieldValues(payload, lists, plexToken), "accessToken") # "unset"
<1>1. CASE "accessToken" \in DOMAIN payload.fields
  BY <1>1, OwnFieldsKept
<1>2. CASE "accessToken" \notin DOMAIN payload.fields
  <2> DEFINE donors == Donors(lists, payload.implementation)
             donor == lists[Min(donors)].fields
             base == [f \in OauthFieldNames \cap DOMAIN donor |-> donor[f]]
  <2>1. donors \in SUBSET Nat
    BY DEF Donors
  <2>2. Min(donors) \in donors
    BY <2>1, MinIs
  <2>3. Value(donor, "accessToken") # "unset"
    BY <2>2 DEF Donors
  <2>4. "accessToken" \in DOMAIN donor /\ donor["accessToken"] # "unset"
    BY <2>3 DEF Value
  <2>5. "accessToken" \in DOMAIN base /\ base["accessToken"] # "unset"
    BY <2>4 DEF OauthFieldNames
  <2>6. FieldValues(payload, lists, plexToken) = Override(base, payload.fields)
    <3>1. payload.implementation # "PlexImport"
      BY DEF OauthFamilies
    <3>2. QED
      BY <3>1, Zenon DEF FieldValues
  <2> HIDE DEF base
  <2>7. /\ "accessToken" \in DOMAIN Override(base, payload.fields)
        /\ Override(base, payload.fields)["accessToken"] = base["accessToken"]
    BY <1>2, <2>5 DEF Override
  <2>8. QED
    BY <2>5, <2>6, <2>7, Zenon DEF Value
<1>3. QED
  BY <1>1, <1>2

\* So it is of the lists that the run tries.
LEMMA ListsHold == ListsAuthorised
<1> SUFFICES ASSUME NEW implementation \in {"Trakt", "PlexImport", "RadarrListImport"},
                    NEW own \in UNION {[names -> {"mine"}] : names \in SUBSET {"accessToken", "url"}},
                    NEW lent \in UNION {[names -> {"lent"}] : names \in SUBSET {"accessToken", "refreshToken"}},
                    NEW plexToken \in {"unset", "plex"}, NEW ready \in BOOLEAN
             PROVE  LET template == {"url", "accessToken", "refreshToken"}
                        lists == <<[name |-> "other", implementation |-> "Trakt", fields |-> lent]>>
                        told == ImportListAdd([implementation |-> implementation, name |-> "new", fields |-> own],
                                              lists, template, plexToken, ready)
                    IN told.ok =>
                         /\ implementation = "Trakt" => told.lists[2].fields["accessToken"] # "unset"
                         /\ \A f \in DOMAIN own : told.lists[2].fields[f] = own[f]
  BY Zenon DEF ListsAuthorised
<1> DEFINE template == {"url", "accessToken", "refreshToken"}
           lists == <<[name |-> "other", implementation |-> "Trakt", fields |-> lent]>>
           payload == [implementation |-> implementation, name |-> "new", fields |-> own]
           told == ImportListAdd(payload, lists, template, plexToken, ready)
<1> SUFFICES ASSUME told.ok
             PROVE  /\ implementation = "Trakt" => told.lists[2].fields["accessToken"] # "unset"
                    /\ \A f \in DOMAIN own : told.lists[2].fields[f] = own[f]
  BY Zenon
<1>1. PICK names \in SUBSET {"accessToken", "url"} : own \in [names -> {"mine"}]
  OBVIOUS
<1>2. payload.fields = own /\ payload.implementation = implementation
  OBVIOUS
<1> DEFINE values == FieldValues(payload, lists, plexToken)
           new == [name |-> payload.name, implementation |-> payload.implementation,
                   fields |-> [f \in template |-> Value(values, f)]]
<1> HIDE DEF payload, lists, template
<1>3. /\ told.lists = Append(lists, new)
      /\ implementation \in OauthFamilies =>
           Donors(lists, implementation) # {} \/ DOMAIN own \cap OauthFieldNames # {}
  BY <1>2, Zenon DEF ImportListAdd
<1> HIDE DEF told
<1>4. told.lists[2] = new
  <2> HIDE DEF new
  <2>1. Append(lists, new)[2] = new
    BY DEF lists
  <2>2. QED
    BY <1>3, <2>1
<1>5. \A f \in template : told.lists[2].fields[f] = Value(values, f)
  BY <1>4
<1>6. ASSUME NEW f \in DOMAIN own PROVE told.lists[2].fields[f] = own[f]
  <2>1. f \in template
    BY <1>1 DEF template
  <2>2. Value(values, f) = own[f]
    BY <1>2, OwnFieldsKept
  <2>3. QED
    BY <1>5, <2>1, <2>2
<1>7. ASSUME implementation = "Trakt" PROVE told.lists[2].fields["accessToken"] # "unset"
  <2>1. "accessToken" \in DOMAIN own => own["accessToken"] # "unset"
    BY <1>1
  <2>2. implementation \in OauthFamilies
    BY <1>7 DEF OauthFamilies
  <2>3. Value(values, "accessToken") # "unset"
    <3>1. CASE Donors(lists, implementation) # {}
      <4>1. DOMAIN lists \in SUBSET Nat
        BY DEF lists
      <4> HIDE DEF values
      <4>2. QED
        BY <1>2, <2>1, <2>2, <3>1, <4>1, TokenLent DEF values
    <3>2. CASE DOMAIN own \cap OauthFieldNames # {}
      <4>1. "accessToken" \in DOMAIN own
        BY <1>1, <3>2 DEF OauthFieldNames
      <4>2. QED
        BY <1>2, <2>1, <4>1, OwnFieldsKept
    <3>3. QED
      BY <1>3, <2>2, <3>1, <3>2
  <2>4. "accessToken" \in template
    BY DEF template
  <2>5. QED
    BY <1>5, <2>3, <2>4
<1>8. QED
  BY <1>6, <1>7

-----------------------------------------------------------------------------
\* There are n numbers from 1 to n.
LEMMA CountTo == \A n \in Nat : IsFiniteSet(1..n) /\ Cardinality(1..n) = n
  BY FS_Interval

\* What holds at first and from one place to the next holds at every place.
LEMMA Throughout ==
  ASSUME NEW len \in Nat, NEW Good, 0 \in Good,
         \A n \in 1..len : n - 1 \in Good => n \in Good
  PROVE  \A n \in 0..len : n \in Good
<1> DEFINE Bad == {n \in 0..len : n \notin Good}
<1> SUFFICES ASSUME Bad # {} PROVE FALSE
  OBVIOUS
<1>1. PICK n \in Bad : \A k \in Bad : n <= k
  <2>1. Bad \in SUBSET Nat
    OBVIOUS
  <2> HIDE DEF Bad
  <2>2. QED
    BY <2>1, LeastIndex
<1>2. n # 0 /\ n \in 1..len /\ n - 1 \in 0..len
  OBVIOUS
<1>3. n - 1 \notin Bad
  BY <1>1, <1>2
<1>4. QED
  BY <1>2, <1>3

\* Some of the first numbers have a greatest.
LEMMA GreatestIndex ==
  ASSUME NEW n \in Nat, NEW S \in SUBSET (1..n), S # {}
  PROVE  \E m \in S : \A k \in S : k <= m
<1> DEFINE T == {i \in 0..n : n - i \in S}
<1>1. T \in SUBSET Nat /\ T # {}
  <2>1. PICK k \in S : TRUE
    OBVIOUS
  <2>2. n - k \in T
    OBVIOUS
  <2>3. T \in SUBSET Nat
    OBVIOUS
  <2> HIDE DEF T
  <2>4. QED
    BY <2>2, <2>3
<1>2. PICK i \in T : \A j \in T : i <= j
  <2> HIDE DEF T
  <2>1. QED
    BY <1>1, LeastIndex
<1>3. \A k \in S : n - k \in T
  OBVIOUS
<1>4. \A k \in S : k <= n - i
  <2>1. \A k \in S : i <= n - k
    BY <1>2, <1>3
  <2>2. QED
    BY <2>1
<1>5. QED
  BY <1>2, <1>4

\* Later pages end later.
LEMMA PagesGrow ==
  ASSUME NEW a \in Nat, NEW b \in Nat, a <= b, NEW size \in Nat
  PROVE  a * size \in Nat /\ a * size <= b * size
<1>1. (b - a) * size >= 0 /\ b - a \in Nat
  OBVIOUS
<1>2. (b - a) * size = b * size - a * size
  OBVIOUS
<1>3. QED
  BY <1>1, <1>2

\* Between the ends of two pages every place is on some page.
LEMMA PageFound ==
  ASSUME NEW a \in Nat, NEW b \in Nat, NEW size \in Nat, NEW r \in Nat, a * size < r, r <= b * size
  PROVE  \E p \in (a + 1)..b : (p - 1) * size < r /\ r <= p * size
<1> DEFINE S == {p \in 0..b : r <= p * size}
<1>1. PICK p \in S : \A k \in S : p <= k
  <2>1. S \in SUBSET Nat /\ b \in S
    OBVIOUS
  <2> HIDE DEF S
  <2>2. QED
    BY <2>1, LeastIndex
<1>2. p > a
  <2>1. p <= a => p * size <= a * size
    BY PagesGrow
  <2>2. p * size \in Nat /\ a * size \in Nat
    BY PagesGrow
  <2>3. QED
    BY <2>1, <2>2
<1>3. p - 1 \in 0..b /\ p - 1 \notin S
  BY <1>1, <1>2
<1>4. (p - 1) * size \in Nat /\ p - 1 \in Nat
  <2>1. p - 1 \in Nat
    BY <1>2
  <2>2. QED
    BY <2>1, PagesGrow
<1>5. (p - 1) * size < r
  BY <1>3, <1>4
<1>6. QED
  BY <1>2, <1>5

-----------------------------------------------------------------------------
\* Episodes of a list, in its order.
Listing(list, count) ==
  /\ DOMAIN list \in SUBSET (1..count)
  /\ \A e \in DOMAIN list : list[e] \in Nat
  /\ \A d \in DOMAIN list, e \in DOMAIN list : d <= e => list[d] <= list[e]

\* Places count the list up, and none is beyond its length.
LEMMA PlacesRun ==
  ASSUME NEW count \in Nat, NEW list, Listing(list, count)
  PROVE  /\ IsFiniteSet(DOMAIN list) /\ Cardinality(DOMAIN list) \in Nat
         /\ \A e \in DOMAIN list : Place(list, e) \in 1..Cardinality(DOMAIN list)
         /\ \A d \in DOMAIN list, e \in DOMAIN list : d <= e => Place(list, d) <= Place(list, e)
<1>1. IsFiniteSet(DOMAIN list) /\ Cardinality(DOMAIN list) \in Nat
  <2>1. IsFiniteSet(1..count)
    BY CountTo
  <2>2. IsFiniteSet(DOMAIN list)
    BY <2>1, FS_Subset DEF Listing
  <2>3. QED
    BY <2>2, FS_CardinalityType
<1> DEFINE upto(e) == {k \in DOMAIN list : k <= e}
<1>2. ASSUME NEW e \in DOMAIN list
      PROVE  IsFiniteSet(upto(e)) /\ Place(list, e) = Cardinality(upto(e)) /\ Place(list, e) \in 1..Cardinality(DOMAIN list)
  <2>1. upto(e) \in SUBSET DOMAIN list /\ e \in upto(e)
    BY DEF Listing
  <2>2. Place(list, e) = Cardinality(upto(e))
    BY DEF Place
  <2> HIDE DEF upto
  <2>3. IsFiniteSet(upto(e)) /\ Cardinality(upto(e)) <= Cardinality(DOMAIN list)
    BY <1>1, <2>1, FS_Subset
  <2>4. Cardinality(upto(e)) \in Nat /\ Cardinality(upto(e)) # 0
    BY <2>1, <2>3, FS_CardinalityType, FS_EmptySet
  <2>5. QED
    BY <1>1, <2>2, <2>3, <2>4
<1>3. ASSUME NEW d \in DOMAIN list, NEW e \in DOMAIN list, d <= e PROVE Place(list, d) <= Place(list, e)
  <2>1. upto(d) \in SUBSET upto(e)
    BY <1>3 DEF Listing
  <2> HIDE DEF upto
  <2>2. QED
    BY <1>2, <2>1, FS_Subset
<1> HIDE DEF upto
<1>4. QED
  BY <1>1, <1>2, <1>3

\* The place of the first is 1, and that of any other is one more than that
\* of one before it.
LEMMA PlaceBefore ==
  ASSUME NEW count \in Nat, NEW list, Listing(list, count), NEW e \in DOMAIN list, Place(list, e) # 1
  PROVE  \E d \in DOMAIN list : d < e /\ Place(list, d) = Place(list, e) - 1
<1> DEFINE before == {k \in DOMAIN list : k < e}
           upto(d) == {k \in DOMAIN list : k <= d}
<1>1. DOMAIN list \in SUBSET (1..count)
  BY DEF Listing
<1>2. before \in SUBSET (1..count) /\ before \in SUBSET DOMAIN list /\ upto(e) = before \cup {e} /\ e \notin before
  BY <1>1
<1>3. IsFiniteSet(before)
  <2> HIDE DEF before
  <2>1. QED
    BY <1>2, PlacesRun, FS_Subset
<1>4. Place(list, e) = Cardinality(before) + 1 /\ Cardinality(before) \in Nat
  <2> HIDE DEF before
  <2>1. Cardinality(before \cup {e}) = Cardinality(before) + 1 /\ Cardinality(before) \in Nat
    BY <1>2, <1>3, FS_AddElement, FS_CardinalityType
  <2>2. QED
    BY <1>2, <2>1 DEF Place
<1>5. before # {}
  BY <1>4, FS_EmptySet
<1>6. PICK d \in before : \A k \in before : k <= d
  <2> HIDE DEF before
  <2>1. QED
    BY <1>2, <1>5, GreatestIndex
<1>7. upto(d) = before
  BY <1>1, <1>6
<1>8. Place(list, d) = Cardinality(before)
  BY <1>7 DEF Place
<1>9. QED
  BY <1>4, <1>8

\* Where the reading ends, nothing beyond the page has aired.
LEMMA EndsComplete ==
  ASSUME NEW count \in Nat, NEW list, Listing(list, count), NEW size \in Nat \ {0}, NEW now \in Nat,
         NEW last \in Nat \ {0}, EndsAt(list, last, size, now), NEW e \in DOMAIN list, list[e] <= now
  PROVE  Place(list, e) <= last * size
<1> DEFINE read == PageOf(list, last, size)
           C == last * size
           B == (last - 1) * size
<1>1. C \in Nat /\ B \in Nat /\ B = C - size /\ last - 1 \in Nat
  <2>1. last - 1 \in Nat /\ (last - 1) * size = last * size - size
    OBVIOUS
  <2>2. QED
    BY <2>1, PagesGrow
<1>2. read = {d \in DOMAIN list : B < Place(list, d) /\ Place(list, d) <= C}
  BY DEF PageOf
<1>3. /\ \A d \in DOMAIN list : Place(list, d) \in 1..Cardinality(DOMAIN list)
      /\ \A d \in DOMAIN list, f \in DOMAIN list : d <= f => Place(list, d) <= Place(list, f)
      /\ Cardinality(DOMAIN list) \in Nat
  BY PlacesRun
<1>4. read = {} \/ (\E d \in read : list[d] > now) \/ C >= Cardinality(DOMAIN list)
  BY DEF EndsAt
<1> HIDE DEF C, B, read
<1> SUFFICES ASSUME Place(list, e) > C PROVE FALSE
  <2>1. Place(list, e) \in Nat
    BY <1>3
  <2>2. QED
    BY <1>1, <2>1 DEF C
<1>5. DOMAIN list \in SUBSET (1..count)
  BY DEF Listing
<1>6. CASE read = {}
  <2> DEFINE beyond == {d \in DOMAIN list : B < Place(list, d)}
  <2>1. beyond \in SUBSET Nat /\ beyond # {}
    <3>1. e \in beyond
      BY <1>1, <1>3
    <3>2. QED
      BY <1>5, <3>1
  <2>2. PICK d \in beyond : \A k \in beyond : d <= k
    <3> HIDE DEF beyond
    <3>1. QED
      BY <2>1, LeastIndex
  <2>3. Place(list, d) > C
    BY <1>1, <1>2, <1>3, <1>6
  <2>4. Place(list, d) # 1
    BY <1>1, <2>3
  <2>5. PICK k \in DOMAIN list : k < d /\ Place(list, k) = Place(list, d) - 1
    BY <2>4, PlaceBefore
  <2>6. k \in beyond
    BY <1>1, <1>3, <2>3, <2>5
  <2>7. QED
    BY <1>5, <2>2, <2>5, <2>6
<1>7. CASE \E d \in read : list[d] > now
  <2>1. PICK d \in read : list[d] > now
    BY <1>7
  <2>2. d \in DOMAIN list /\ Place(list, d) <= C
    BY <1>2
  <2>3. ~(e <= d)
    BY <1>1, <1>3, <2>2
  <2>4. d <= e
    BY <1>5, <2>2, <2>3
  <2>5. list[d] <= list[e] /\ list[d] \in Nat /\ list[e] \in Nat
    BY <2>2, <2>4 DEF Listing
  <2>6. QED
    BY <2>1, <2>5
<1>8. CASE C >= Cardinality(DOMAIN list)
  BY <1>1, <1>3, <1>8
<1>9. QED
  BY <1>4, <1>6, <1>7, <1>8

\* Of what stays beyond the pages that are read, no more moves onto them than
\* leaves them.
LEMMA MovedUp ==
  ASSUME NEW count \in Nat, NEW gone \in SUBSET (1..count), NEW C \in Nat, NEW list,
         DOMAIN list = (1..count) \ gone
  PROVE  LET moved == {e \in DOMAIN list : e > C /\ Place(list, e) <= C}
         IN Cardinality(moved) <= Cardinality(gone)
<1> DEFINE moved == {e \in DOMAIN list : e > C /\ Place(list, e) <= C}
<1>1. moved \in SUBSET (1..count) /\ IsFiniteSet(moved) /\ IsFiniteSet(gone)
      /\ Cardinality(moved) \in Nat /\ Cardinality(gone) \in Nat
  <2>1. IsFiniteSet(1..count)
    BY CountTo
  <2>2. moved \in SUBSET (1..count)
    OBVIOUS
  <2> HIDE DEF moved
  <2>3. IsFiniteSet(moved) /\ IsFiniteSet(gone)
    BY <2>1, <2>2, FS_Subset
  <2>4. QED
    BY <2>2, <2>3, FS_CardinalityType
<1>2. CASE moved = {}
  <2> HIDE DEF moved
  <2>1. Cardinality(moved) = 0
    BY <1>1, <1>2, FS_EmptySet
  <2>2. QED
    BY <1>1, <2>1 DEF moved
<1>3. CASE moved # {}
  <2>1. PICK m \in moved : \A k \in moved : k <= m
    <3> HIDE DEF moved
    <3>1. QED
      BY <1>1, <1>3, GreatestIndex
  <2> DEFINE upto == {k \in DOMAIN list : k <= m}
             kept == (1..C) \ gone
             left == (1..C) \cap gone
  <2>2. m > C /\ Cardinality(upto) <= C /\ C <= count
    BY <1>1, <2>1 DEF Place
  <2>3. kept \cup moved \in SUBSET upto /\ kept \cap moved = {} /\ left \in SUBSET gone
    BY <1>1, <2>1, <2>2
  <2>4. upto \in SUBSET (1..count)
    OBVIOUS
  <2> HIDE DEF upto, kept, left, moved
  <2>5. IsFiniteSet(upto) /\ IsFiniteSet(1..C) /\ Cardinality(1..C) = C
    <3>1. IsFiniteSet(1..count)
      BY CountTo
    <3>2. QED
      BY <2>4, <3>1, CountTo, FS_Subset
  <2>6. IsFiniteSet(kept) /\ Cardinality(kept) = C - Cardinality(left)
    BY <2>5, FS_Difference DEF kept, left
  <2>7. Cardinality(left) <= Cardinality(gone) /\ IsFiniteSet(left)
    BY <1>1, <2>3, FS_Subset
  <2>8. Cardinality(kept \cup moved) = Cardinality(kept) + Cardinality(moved) - Cardinality({})
    BY <1>1, <2>3, <2>6, FS_Union
  <2>9. Cardinality(kept \cup moved) <= Cardinality(upto) /\ Cardinality({}) = 0
    BY <2>3, <2>5, FS_Subset, FS_EmptySet
  <2>10. Cardinality(left) \in Nat /\ Cardinality(kept) \in Nat /\ Cardinality(upto) \in Nat /\ Cardinality(kept \cup moved) \in Nat
    <3>1. IsFiniteSet(kept \cup moved)
      BY <2>3, <2>5, FS_Subset
    <3>2. QED
      BY <2>5, <2>6, <2>7, <3>1, FS_CardinalityType
  <2>11. Cardinality(moved) <= Cardinality(gone)
    BY <1>1, <2>2, <2>6, <2>7, <2>8, <2>9, <2>10
  <2>12. QED
    BY <2>11 DEF moved
<1>4. QED
  BY <1>2, <1>3

-----------------------------------------------------------------------------
\* A list that reaches the number is read to its end.
LEMMA LastPage ==
  ASSUME NEW listing, NEW pages \in Nat \ {0}, DOMAIN listing = 1..pages, NEW size \in Nat, NEW now,
         Cardinality(DOMAIN listing[pages]) <= pages * size
  PROVE  LET last == Min({p \in DOMAIN listing : EndsAt(listing[p], p, size, now)})
         IN last \in 1..pages /\ EndsAt(listing[last], last, size, now)
<1> DEFINE ends == {p \in DOMAIN listing : EndsAt(listing[p], p, size, now)}
<1>1. pages \in ends
  BY DEF EndsAt
<1>2. ends \in SUBSET Nat
  OBVIOUS
<1>3. Min(ends) \in ends
  <2> HIDE DEF ends
  <2>1. QED
    BY <1>1, <1>2, MinIs
<1>4. QED
  BY <1>3

\* No more that has aired is hidden than has left the list.
AiredBut(air, count, gone, cut, pages, size, now) ==
  LET stays == [n \in (1..count) \ gone |-> air[n]]
      told == MissingAired([p \in 1..pages |-> IF p <= cut THEN air ELSE stays], size, now)
      hidden == {e \in DOMAIN stays : Aired(air[e], now)} \ told
  IN Cardinality(hidden) <= Cardinality(gone)

(* For any list of episodes, pages of any size and any titles that leave   *)
(* the list after any of its pages: all that has aired is listed, but for  *)
(* as many as left (arr_missing_aired).                                    *)
THEOREM AiredAreListed ==
  ASSUME NEW count \in Nat, NEW air \in [1..count -> Nat], NEW gone \in SUBSET (1..count),
         \A n \in 1..(count - 1) : air[n] <= air[n + 1],
         NEW cut \in Nat, NEW pages \in Nat \ {0}, NEW size \in Nat \ {0}, NEW now \in Nat, count <= pages * size
  PROVE  AiredBut(air, count, gone, cut, pages, size, now)
<1> DEFINE stays == [n \in (1..count) \ gone |-> air[n]]
           listing == [p \in 1..pages |-> IF p <= cut THEN air ELSE stays]
           told == MissingAired(listing, size, now)
           hidden == {e \in DOMAIN stays : Aired(air[e], now)} \ told
           last == Min({p \in DOMAIN listing : EndsAt(listing[p], p, size, now)})
           moved == {e \in DOMAIN stays : e > cut * size /\ Place(stays, e) <= cut * size}
<1>1. \A d \in 1..count, e \in 1..count : d <= e => air[d] <= air[e]
  <2> SUFFICES ASSUME NEW d \in 1..count PROVE \A e \in 1..count : d <= e => air[d] <= air[e]
    OBVIOUS
  <2> DEFINE Good == {n \in 0..count : d <= n => air[d] <= air[n]}
  <2>1. 0 \in Good
    OBVIOUS
  <2>2. ASSUME NEW n \in 1..count, n - 1 \in Good PROVE n \in Good
    <3>1. CASE d <= n - 1
      <4>1. n - 1 \in 1..(count - 1) /\ air[n - 1] <= air[(n - 1) + 1] /\ (n - 1) + 1 = n
        BY <3>1
      <4>2. air[n] \in Nat /\ air[n - 1] \in Nat /\ air[d] \in Nat /\ air[d] <= air[n - 1]
        BY <2>2, <3>1, <4>1
      <4>3. QED
        BY <4>1, <4>2
    <3>2. CASE d = n
      BY <3>2
    <3>3. CASE d > n
      BY <3>3
    <3>4. QED
      BY <3>1, <3>2, <3>3
  <2> HIDE DEF Good
  <2>3. \A n \in 0..count : n \in Good
    BY <2>1, <2>2, Throughout
  <2>4. QED
    BY <2>3 DEF Good
<1>2. Listing(air, count)
  BY <1>1 DEF Listing
<1>3. Listing(stays, count)
  BY <1>1 DEF Listing
<1>4. \A e \in 1..count : Place(air, e) = e
  <2> SUFFICES ASSUME NEW e \in 1..count PROVE Place(air, e) = e
    OBVIOUS
  <2>1. {k \in DOMAIN air : k <= e} = 1..e /\ e \in Nat
    OBVIOUS
  <2>2. Cardinality(1..e) = e
    BY <2>1, CountTo
  <2>3. QED
    BY <2>1, <2>2, Zenon DEF Place
<1>5. \A e \in DOMAIN stays : Place(stays, e) \in Nat \ {0} /\ e \in 1..count /\ stays[e] = air[e]
  <2>1. \A e \in DOMAIN stays : e \in 1..count /\ stays[e] = air[e]
    OBVIOUS
  <2> HIDE DEF stays
  <2>2. \A e \in DOMAIN stays : Place(stays, e) \in Nat \ {0}
    BY <1>3, PlacesRun
  <2>3. QED
    BY <2>1, <2>2
<1>6. Cardinality(DOMAIN air) <= count /\ Cardinality(DOMAIN stays) <= count
  <2>1. IsFiniteSet(1..count) /\ Cardinality(1..count) = count
    BY CountTo
  <2>2. DOMAIN stays \in SUBSET (1..count) /\ DOMAIN air \in SUBSET (1..count)
    OBVIOUS
  <2>3. QED
    BY <2>1, <2>2, FS_Subset
<1>7. /\ DOMAIN listing = 1..pages
      /\ \A p \in 1..pages : listing[p] = IF p <= cut THEN air ELSE stays
  OBVIOUS
<1>8. cut * size \in Nat /\ pages * size \in Nat
  BY PagesGrow
<1> HIDE DEF stays, listing
<1>9. last \in 1..pages /\ EndsAt(listing[last], last, size, now)
  <2>1. listing[pages] = air \/ listing[pages] = stays
    BY <1>7
  <2>2. Cardinality(DOMAIN listing[pages]) <= pages * size
    <3>1. Cardinality(DOMAIN air) \in Nat /\ Cardinality(DOMAIN stays) \in Nat
      BY <1>2, <1>3, PlacesRun
    <3>2. QED
      BY <1>6, <1>8, <2>1, <3>1
  <2>3. QED
    BY <1>7, <2>2, LastPage
<1>10. told = UNION {ListedOn(listing[p], p, size, now) : p \in 1..last}
  BY DEF MissingAired
<1> HIDE DEF last
<1>11. ASSUME NEW e \in DOMAIN stays, NEW p \in 1..last, Aired(air[e], now),
              e \in PageOf(listing[p], p, size)
       PROVE  e \in told
  <2>1. Listing(listing[p], count) /\ listing[p][e] = air[e]
    <3>1. p \in 1..pages
      BY <1>9
    <3>2. listing[p] = air \/ listing[p] = stays
      BY <1>7, <3>1
    <3>3. QED
      BY <1>2, <1>3, <1>5, <3>2
  <2> DEFINE list == listing[p]
             read == PageOf(list, p, size)
  <2>2. read \in SUBSET DOMAIN list /\ e \in read
    BY <1>11 DEF PageOf
  <2> HIDE DEF list, read
  <2>3. ASSUME NEW d \in read, d < e PROVE ~(list[d] > now)
    <3>1. d \in DOMAIN list /\ e \in DOMAIN list /\ DOMAIN list \in SUBSET (1..count)
      BY <2>1, <2>2 DEF Listing, list
    <3>2. list[d] \in Nat /\ list[e] \in Nat /\ list[d] <= list[e]
      BY <2>1, <2>3, <3>1 DEF Listing, list
    <3>3. list[e] <= now
      BY <1>11, <2>1 DEF Aired, list
    <3>4. QED
      BY <3>2, <3>3
  <2>4. e \in ListedOn(list, p, size, now)
    BY <1>11, <2>1, <2>2, <2>3 DEF ListedOn, read, list
  <2>5. QED
    BY <1>10, <2>4 DEF list
<1>12. ASSUME NEW e \in DOMAIN stays, Aired(air[e], now), e <= cut * size, e <= last * size
       PROVE  e \in told
  <2>1. PICK b \in Nat : b <= cut /\ b <= last /\ e <= b * size
    <3>1. CASE last <= cut
      BY <1>9, <1>12, <3>1
    <3>2. CASE cut <= last
      BY <1>9, <1>12, <3>2
    <3>3. QED
      BY <1>9, <3>1, <3>2
  <2>2. 0 * size < e /\ e \in Nat /\ 0 \in Nat
    BY <1>5
  <2>3. PICK p \in (0 + 1)..b : (p - 1) * size < e /\ e <= p * size
    BY <2>1, <2>2, PageFound
  <2>4. p \in 1..last /\ listing[p] = air
    BY <1>7, <1>9, <2>1, <2>3
  <2>5. e \in PageOf(air, p, size)
    BY <1>4, <1>5, <2>3 DEF PageOf
  <2>6. QED
    BY <1>11, <1>12, <2>4, <2>5
<1>13. CASE last <= cut
  <2>1. ASSUME NEW e \in hidden PROVE FALSE
    <3>1. e \in DOMAIN stays /\ Aired(air[e], now) /\ e \notin told
      OBVIOUS
    <3>2. listing[last] = air /\ e \in DOMAIN air /\ air[e] <= now
      BY <1>5, <1>7, <1>9, <1>13, <3>1 DEF Aired
    <3>3. Place(air, e) <= last * size
      BY <1>2, <1>9, <3>2, EndsComplete
    <3>4. e <= last * size /\ e \in Nat
      BY <1>4, <1>5, <3>1, <3>3
    <3>5. last * size <= cut * size /\ last * size \in Nat
      BY <1>9, <1>13, PagesGrow
    <3>6. e <= cut * size
      BY <1>8, <3>4, <3>5
    <3>7. QED
      BY <1>12, <3>1, <3>4, <3>6
  <2> HIDE DEF hidden
  <2>2. Cardinality(hidden) = 0
    <3>1. hidden = {}
      BY <2>1
    <3>2. QED
      BY <3>1, FS_EmptySet
  <2>3. Cardinality(gone) \in Nat
    <3>1. IsFiniteSet(1..count)
      BY CountTo
    <3>2. QED
      BY <3>1, FS_Subset, FS_CardinalityType
  <2>4. Cardinality(hidden) <= Cardinality(gone)
    BY <2>2, <2>3
  <2>5. QED
    BY <2>4 DEF AiredBut, hidden, listing, stays
<1>14. CASE last > cut
  <2>1. ASSUME NEW e \in hidden PROVE e \in moved
    <3>1. e \in DOMAIN stays /\ Aired(air[e], now) /\ e \notin told
      OBVIOUS
    <3>2. cut * size <= last * size /\ last * size \in Nat
      BY <1>9, <1>14, PagesGrow
    <3>3. e > cut * size
      <4>1. e \in Nat
        BY <1>5
      <4>2. e <= cut * size => e <= last * size
        BY <1>8, <3>2, <4>1
      <4>3. QED
        BY <1>8, <1>12, <3>1, <4>1, <4>2
    <3>4. listing[last] = stays /\ stays[e] <= now
      BY <1>5, <1>7, <1>9, <1>14, <3>1 DEF Aired
    <3>5. Place(stays, e) <= last * size
      BY <1>3, <1>9, <3>1, <3>4, EndsComplete
    <3>6. ASSUME cut * size < Place(stays, e) PROVE FALSE
      <4>1. Place(stays, e) \in Nat
        BY <1>5, <3>1
      <4>2. PICK p \in (cut + 1)..last : (p - 1) * size < Place(stays, e) /\ Place(stays, e) <= p * size
        <5>1. last \in Nat
          BY <1>9
        <5>2. QED
          BY <3>5, <3>6, <4>1, <5>1, PageFound
      <4>3. p \in 1..last /\ listing[p] = stays
        BY <1>7, <1>9, <4>2
      <4>4. e \in PageOf(stays, p, size)
        BY <3>1, <4>2 DEF PageOf
      <4>5. QED
        BY <1>11, <3>1, <4>3, <4>4
    <3>7. Place(stays, e) <= cut * size
      BY <1>5, <1>8, <3>1, <3>6
    <3>8. QED
      BY <3>1, <3>3, <3>7
  <2>2. DOMAIN stays = (1..count) \ gone
    BY DEF stays
  <2>3. Cardinality(moved) <= Cardinality(gone)
    BY <1>8, <2>2, MovedUp
  <2>4. IsFiniteSet(moved) /\ IsFiniteSet(gone)
    <3>1. moved \in SUBSET (1..count)
      BY <2>2
    <3>2. IsFiniteSet(1..count)
      BY CountTo
    <3> HIDE DEF moved
    <3>3. QED
      BY <3>1, <3>2, FS_Subset
  <2>5. hidden \in SUBSET moved
    BY <2>1
  <2> HIDE DEF hidden, moved
  <2>6. Cardinality(hidden) <= Cardinality(moved) /\ IsFiniteSet(hidden)
    BY <2>4, <2>5, FS_Subset
  <2>7. Cardinality(hidden) <= Cardinality(gone)
    <3>1. Cardinality(hidden) \in Nat /\ Cardinality(moved) \in Nat /\ Cardinality(gone) \in Nat
      BY <2>4, <2>6, FS_CardinalityType
    <3>2. QED
      BY <2>3, <2>6, <3>1
  <2>8. QED
    BY <2>7 DEF AiredBut, hidden, listing, stays
<1>15. QED
  BY <1>9, <1>13, <1>14

\* So it is of the lists that the run tries.
LEMMA AiredHold == AiredListed
<1> SUFFICES ASSUME NEW count \in 0..4, NEW air \in [1..count -> 0..3], NEW gone \in SUBSET (1..count), NEW cut \in 1..2,
                    \A n \in 1..(count - 1) : air[n] <= air[n + 1]
             PROVE  AiredBut(air, count, gone, cut, 4, 2, 2)
  BY Zenon DEF AiredListed, AiredBut
<1>1. /\ count \in Nat /\ air \in [1..count -> Nat] /\ cut \in Nat
      /\ 4 \in Nat \ {0} /\ 2 \in Nat \ {0} /\ 2 \in Nat /\ count <= 4 * 2
  OBVIOUS
<1>2. QED
  BY <1>1, AiredAreListed

-----------------------------------------------------------------------------
\* The function f follows the steps from start as far as m.
Follows(f, m, W, start, step) ==
  /\ f \in [0..m -> W]
  /\ f[0] = start
  /\ \A n \in 1..m : f[n] = step[n][f[n - 1]]

\* A function that follows the steps as far as m - 1 is continued to m.
LEMMA FollowsOn ==
  ASSUME NEW W, NEW start \in W, NEW len \in Nat, NEW step \in [1..len -> [W -> W]],
         NEW m \in 1..len, NEW f, Follows(f, m - 1, W, start, step)
  PROVE  \E g : Follows(g, m, W, start, step)
<1> DEFINE g == [n \in 0..m |-> IF n = m THEN step[m][f[m - 1]] ELSE f[n]]
<1>1. f \in [0..(m - 1) -> W] /\ f[0] = start /\ \A n \in 1..(m - 1) : f[n] = step[n][f[n - 1]]
  BY DEF Follows
<1>2. m \in Nat /\ m - 1 \in 0..(m - 1) /\ m # 0
  OBVIOUS
<1>3. step[m][f[m - 1]] \in W
  BY <1>1, <1>2
<1>4. g \in [0..m -> W]
  BY <1>1, <1>3
<1>5. g[0] = start
  BY <1>1, <1>2
<1>6. ASSUME NEW n \in 1..m PROVE g[n] = step[n][g[n - 1]]
  <2>1. n - 1 \in 0..m /\ n - 1 # m /\ n \in 0..m
    BY <1>2
  <2>2. g[n - 1] = f[n - 1]
    BY <2>1
  <2>3. CASE n = m
    BY <2>1, <2>2, <2>3
  <2>4. CASE n # m
    <3>1. n \in 1..(m - 1)
      BY <1>2, <2>4
    <3>2. QED
      BY <1>1, <2>1, <2>2, <2>4, <3>1
  <2>5. QED
    BY <2>3, <2>4
<1> HIDE DEF g
<1>7. QED
  BY <1>4, <1>5, <1>6 DEF Follows

\* From every start the steps are followed to their end.
LEMMA FollowsExists ==
  ASSUME NEW W, NEW start \in W, NEW len \in Nat, NEW step \in [1..len -> [W -> W]]
  PROVE  \E f : Follows(f, len, W, start, step)
<1> DEFINE Good == {m \in 0..len : \E f : Follows(f, m, W, start, step)}
<1>1. 0 \in Good
  <2>1. [n \in 0..0 |-> start] \in [0..0 -> W] /\ [n \in 0..0 |-> start][0] = start
    OBVIOUS
  <2>2. Follows([n \in 0..0 |-> start], 0, W, start, step)
    BY <2>1 DEF Follows
  <2>3. QED
    BY <2>2
<1>2. ASSUME NEW m \in 1..len, m - 1 \in Good PROVE m \in Good
  <2>1. PICK f : Follows(f, m - 1, W, start, step)
    BY <1>2
  <2>2. \E g : Follows(g, m, W, start, step)
    BY <2>1, FollowsOn
  <2>3. QED
    BY <2>2
<1> HIDE DEF Good
<1>3. \A m \in 0..len : m \in Good
  BY <1>1, <1>2, Throughout
<1>4. len \in Good
  BY <1>3
<1>5. QED
  BY <1>4 DEF Good


-----------------------------------------------------------------------------
\* A finite set has parts of every number up to its own.
LEMMA PartsOf ==
  ASSUME NEW S, IsFiniteSet(S), NEW k \in Nat, k <= Cardinality(S)
  PROVE  \E T \in SUBSET S : Cardinality(T) = k
<1> DEFINE Good == {n \in 0..k : \E T \in SUBSET S : Cardinality(T) = n}
<1>1. 0 \in Good
  <2>1. {} \in SUBSET S /\ Cardinality({}) = 0
    BY FS_EmptySet
  <2>2. QED
    BY <2>1
<1>2. ASSUME NEW n \in 1..k, n - 1 \in Good PROVE n \in Good
  <2>1. PICK T \in SUBSET S : Cardinality(T) = n - 1
    BY <1>2
  <2>2. IsFiniteSet(T) /\ Cardinality(S) \in Nat
    BY FS_Subset, FS_CardinalityType
  <2>3. T # S
    BY <2>1, <2>2
  <2>4. PICK x \in S : x \notin T
    BY <2>3
  <2>5. Cardinality(T \cup {x}) = (n - 1) + 1
    BY <2>1, <2>2, <2>4, FS_AddElement
  <2>6. Cardinality(T \cup {x}) = n /\ T \cup {x} \in SUBSET S
    BY <2>5
  <2>7. QED
    BY <2>6
<1> HIDE DEF Good
<1>3. k \in Good
  BY <1>1, <1>2, Throughout
<1>4. QED
  BY <1>3 DEF Good

\* A page holds no more than its size, and something of what there is.
LEMMA PageIs ==
  ASSUME NEW S, IsFiniteSet(S), NEW size \in Nat
  PROVE  PageFrom(S, size) \in SUBSET S /\ Cardinality(PageFrom(S, size)) <= size
<1> DEFINE k == IF Cardinality(S) < size THEN Cardinality(S) ELSE size
<1>1. k \in Nat /\ k <= Cardinality(S) /\ k <= size
  BY FS_CardinalityType
<1>2. PageFrom(S, size) = CHOOSE page \in SUBSET S : Cardinality(page) = k
  BY DEF PageFrom
<1> HIDE DEF k
<1>3. \E page \in SUBSET S : Cardinality(page) = k
  BY <1>1, PartsOf
<1>4. QED
  BY <1>1, <1>2, <1>3

-----------------------------------------------------------------------------
\* A function on the first numbers is a sequence of that length.
LEMMA SequenceIs ==
  ASSUME NEW S, NEW n \in Nat, NEW f \in [1..n -> S]
  PROVE  f \in Seq(S) /\ Len(f) = n
<1>1. f \in Seq(S)
  BY SeqDef
<1>2. QED
  BY <1>1, LenProperties

-----------------------------------------------------------------------------
ClearFaults == {"none", "read", "delete", "answer"}
Clearing(E) == [going : BOOLEAN, ok : BOOLEAN, left : SUBSET E, removed : SUBSET E, cleared : Nat]

\* Each entry is counted once when it is removed; what is not counted is at
\* most the page whose answer was lost.
Tallied(r, size) ==
  /\ r.left \cap r.removed = {}
  /\ r.cleared <= Cardinality(r.removed) /\ Cardinality(r.removed) <= r.cleared + size
  /\ r.going \/ r.ok => r.cleared = Cardinality(r.removed)
  /\ r.ok => ~r.going /\ r.left = {}

\* A round keeps the count, and meets no entries but those that were there.
Rounded(E, r, s, added, size) ==
  s \in Clearing(E) /\ Tallied(s, size) /\ s.left \cup s.removed \subseteq r.left \cup r.removed \cup added

\* Every round does so.
LEMMA RoundCounts ==
  ASSUME NEW E, IsFiniteSet(E), NEW size \in Nat, NEW r \in Clearing(E), Tallied(r, size),
         NEW added \in SUBSET E, added \cap (r.left \cup r.removed) = {}, NEW fault \in ClearFaults
  PROVE  Rounded(E, r, ClearRound(r, added, fault, size), added, size)
<1> DEFINE now == r.left \cup added
           page == PageFrom(now, size)
           s == ClearRound(r, added, fault, size)
<1>1. /\ r.going \in BOOLEAN /\ r.ok \in BOOLEAN /\ r.left \in SUBSET E /\ r.removed \in SUBSET E /\ r.cleared \in Nat
      /\ now \in SUBSET E /\ now \cap r.removed = {}
  BY DEF Clearing, Tallied
<1>2. CASE ~r.going
  <2>1. s = r
    BY <1>2, Zenon DEF ClearRound
  <2> HIDE DEF s
  <2>2. QED
    BY <2>1 DEF Rounded, s
<1>3. CASE r.going /\ fault = "read"
  <2>1. s = [r EXCEPT !.going = FALSE, !.left = now]
    BY <1>3, Zenon DEF ClearRound
  <2> HIDE DEF s, now
  <2>2. s.going = FALSE /\ s.ok = r.ok /\ s.left = now /\ s.removed = r.removed /\ s.cleared = r.cleared /\ s \in Clearing(E)
    BY <1>1, <2>1 DEF Clearing
  <2>3. ~s.ok
    BY <1>3, <2>2 DEF Tallied
  <2>4. QED
    BY <1>1, <1>3, <2>2, <2>3 DEF Tallied, Rounded, now, s
<1>4. CASE r.going /\ fault # "read" /\ now = {}
  <2>1. s = [r EXCEPT !.going = FALSE, !.ok = TRUE, !.left = {}]
    BY <1>4, Zenon DEF ClearRound
  <2> HIDE DEF s, now
  <2>2. s.going = FALSE /\ s.ok = TRUE /\ s.left = {} /\ s.removed = r.removed /\ s.cleared = r.cleared /\ s \in Clearing(E)
    BY <1>1, <2>1 DEF Clearing
  <2>3. QED
    BY <1>1, <1>4, <2>2 DEF Tallied, Rounded, s
<1>5. CASE r.going /\ fault = "delete" /\ now # {}
  <2>1. s = [r EXCEPT !.going = FALSE, !.left = now]
    BY <1>5, Zenon DEF ClearRound
  <2> HIDE DEF s, now
  <2>2. s.going = FALSE /\ s.ok = r.ok /\ s.left = now /\ s.removed = r.removed /\ s.cleared = r.cleared /\ s \in Clearing(E)
    BY <1>1, <2>1 DEF Clearing
  <2>3. ~s.ok
    BY <1>5, <2>2 DEF Tallied
  <2>4. QED
    BY <1>1, <1>5, <2>2, <2>3 DEF Tallied, Rounded, now, s
<1>6. CASE r.going /\ fault \notin {"read", "delete"} /\ now # {}
  <2> DEFINE count == IF fault = "answer" THEN r.cleared ELSE r.cleared + Cardinality(page)
             rest == now \ page
             gone == r.removed \cup page
             going == fault # "answer"
  <2>1. s = [r EXCEPT !.going = fault # "answer", !.left = now \ page, !.removed = @ \cup page,
                      !.cleared = IF fault = "answer" THEN @ ELSE @ + Cardinality(page)]
    BY <1>6, Zenon DEF ClearRound
  <2>2. s = [r EXCEPT !.going = going, !.left = rest, !.removed = gone, !.cleared = count]
    BY <2>1, Zenon
  <2>3. IsFiniteSet(now) /\ IsFiniteSet(r.removed)
    BY <1>1, FS_Subset
  <2>4. page \in SUBSET now /\ Cardinality(page) <= size
    <3> HIDE DEF now
    <3>1. QED
      BY <2>3, PageIs
  <2> HIDE DEF page
  <2>5. Cardinality(page) \in Nat /\ Cardinality(r.removed) \in Nat /\ Cardinality(gone) = Cardinality(r.removed) + Cardinality(page)
    <3>1. IsFiniteSet(page)
      BY <2>3, <2>4, FS_Subset
    <3>2. r.removed \cap page = {}
      BY <1>1, <2>4
    <3>3. Cardinality(gone) = Cardinality(r.removed) + Cardinality(page) - Cardinality({}) /\ Cardinality({}) = 0
      BY <2>3, <3>1, <3>2, FS_Union, FS_EmptySet
    <3>4. Cardinality(page) \in Nat /\ Cardinality(r.removed) \in Nat
      BY <2>3, <3>1, FS_CardinalityType
    <3> HIDE DEF gone
    <3>5. QED
      BY <3>3, <3>4
  <2>6. rest \in SUBSET E /\ gone \in SUBSET E /\ rest \cap gone = {} /\ rest \cup gone \subseteq r.left \cup r.removed \cup added
    BY <1>1, <2>4
  <2>7. /\ count \in Nat /\ count <= Cardinality(gone) /\ Cardinality(gone) <= count + size
        /\ going => count = Cardinality(gone)
    <3>1. r.cleared = Cardinality(r.removed)
      BY <1>6 DEF Tallied
    <3> HIDE DEF gone
    <3>2. QED
      BY <1>1, <2>4, <2>5, <3>1
  <2>8. going \in BOOLEAN /\ ~r.ok
    BY <1>6 DEF Tallied
  <2> HIDE DEF s, count, rest, gone, going
  <2>9. s.going = going /\ s.ok = r.ok /\ s.left = rest /\ s.removed = gone /\ s.cleared = count /\ s \in Clearing(E)
    BY <1>1, <2>2, <2>6, <2>7, <2>8 DEF Clearing
  <2>10. QED
    BY <2>6, <2>7, <2>8, <2>9 DEF Tallied, Rounded, s
<1>7. QED
  BY <1>2, <1>3, <1>4, <1>5, <1>6

-----------------------------------------------------------------------------
\* What a clearing tells is so.
ClearTold(told, size) ==
  /\ told.ok => told.left = {} /\ told.cleared = Cardinality(told.removed)
  /\ told.cleared <= Cardinality(told.removed) /\ Cardinality(told.removed) <= told.cleared + size

(* Whatever is added meanwhile and wherever it fails: what is counted is    *)
(* what was removed, but for a page, and only an empty list is cleared     *)
(* (arr_blocklist_clear).                                                  *)
THEOREM ClearsCount ==
  ASSUME NEW E, IsFiniteSet(E), NEW left \in SUBSET E, NEW size \in Nat, NEW fault \in Seq(ClearFaults),
         NEW added \in [1..Len(fault) -> SUBSET E], \A n \in 1..Len(fault) : added[n] \cap left = {},
         \A n \in 1..Len(fault), k \in 1..Len(fault) : n # k => added[n] \cap added[k] = {}
  PROVE  ClearTold(BlocklistClear(left, size, added, fault), size)
<1> DEFINE len == Len(fault)
           Good0(n) == {r \in Clearing(E) : Tallied(r, size)
                                            /\ \A k \in 1..len : k > n => added[k] \cap (r.left \cup r.removed) = {}}
           start == [going |-> TRUE, ok |-> FALSE, left |-> left, removed |-> {}, cleared |-> 0]
           after(f) == [n \in 0..len |-> IF n = 0 THEN start ELSE ClearRound(f[n - 1], added[n], fault[n], size)]
           c == CHOOSE f : f = after(f)
           W == UNION {Good0(n) : n \in 0..len}
           pin(n, r) == IF r \in Good0(n - 1) THEN ClearRound(r, added[n], fault[n], size) ELSE start
           step == [n \in 1..len |-> [r \in W |-> pin(n, r)]]
<1>1. len \in Nat /\ \A n \in 1..len : fault[n] \in ClearFaults /\ added[n] \in SUBSET E
  OBVIOUS
<1>2. BlocklistClear(left, size, added, fault) = c[len]
  BY Zenon DEF BlocklistClear
<1>3. start \in Good0(0)
  <2>1. start \in Clearing(E)
    BY DEF Clearing
  <2>2. Tallied(start, size)
    BY FS_EmptySet DEF Tallied
  <2>3. QED
    BY <1>1, <2>1, <2>2
<1>4. ASSUME NEW n \in 1..len, NEW r \in Good0(n - 1)
      PROVE  ClearRound(r, added[n], fault[n], size) \in Good0(n)
  <2> DEFINE s == ClearRound(r, added[n], fault[n], size)
  <2>1. r \in Clearing(E) /\ Tallied(r, size) /\ added[n] \cap (r.left \cup r.removed) = {}
    <3>1. n > n - 1
      BY <1>1
    <3>2. QED
      BY <3>1
  <2>2. Rounded(E, r, s, added[n], size)
    <3> HIDE DEF len, Good0
    <3>1. QED
      BY <1>1, <2>1, RoundCounts
  <2> HIDE DEF s
  <2>3. s \in Clearing(E) /\ Tallied(s, size) /\ s.left \cup s.removed \subseteq r.left \cup r.removed \cup added[n]
    BY <2>2 DEF Rounded
  <2>4. ASSUME NEW k \in 1..len, k > n PROVE added[k] \cap (s.left \cup s.removed) = {}
    <3>1. k > n - 1 /\ k # n
      BY <1>1, <2>4
    <3>2. added[k] \cap added[n] = {} /\ added[k] \cap (r.left \cup r.removed) = {}
      BY <3>1
    <3>3. QED
      BY <2>3, <3>2
  <2>5. s \in Good0(n)
    BY <2>3, <2>4
  <2>6. QED
    BY <2>5 DEF s
<1> HIDE DEF c, Good0, start, len
<1>5. step \in [1..len -> [W -> W]] /\ start \in W
  <2>1. start \in W
    BY <1>1, <1>3
  <2>2. \A n \in 1..len : \A r \in W : pin(n, r) \in W
    BY <1>1, <1>4, <2>1
  <2> HIDE DEF W, pin
  <2>3. QED
    BY <2>1, <2>2
<1>6. PICK f : Follows(f, len, W, start, step)
  <2> HIDE DEF step, W
  <2>1. QED
    BY <1>1, <1>5, FollowsExists
<1>7. f \in [0..len -> W] /\ f[0] = start /\ \A n \in 1..len : f[n] = pin(n, f[n - 1])
  <2>1. f \in [0..len -> W] /\ f[0] = start /\ \A n \in 1..len : f[n] = step[n][f[n - 1]]
    BY <1>6 DEF Follows
  <2>2. ASSUME NEW n \in 1..len PROVE f[n] = pin(n, f[n - 1])
    <3>1. n - 1 \in 0..len
      BY <1>1
    <3>2. f[n - 1] \in W
      BY <2>1, <3>1
    <3> HIDE DEF W, pin
    <3>3. QED
      BY <2>1, <3>2
  <2>3. QED
    BY <2>1, <2>2
<1>8. \A n \in 0..len : f[n] \in Good0(n)
  <2> DEFINE Good == {n \in 0..len : f[n] \in Good0(n)}
  <2>1. 0 \in Good
    BY <1>1, <1>3, <1>7
  <2>2. \A n \in 1..len : n - 1 \in Good => n \in Good
    BY <1>1, <1>4, <1>7
  <2> HIDE DEF Good
  <2>3. \A n \in 0..len : n \in Good
    BY <1>1, <2>1, <2>2, Throughout
  <2>4. QED
    BY <2>3 DEF Good
<1>9. f = after(f)
  <2>1. ASSUME NEW n \in 0..len PROVE f[n] = after(f)[n]
    <3>1. CASE n = 0
      BY <1>7, <3>1
    <3>2. CASE n # 0
      <4>1. n \in 1..len /\ n - 1 \in 0..len
        BY <1>1, <3>2
      <4>2. f[n - 1] \in Good0(n - 1)
        BY <1>8, <4>1
      <4>3. f[n] = ClearRound(f[n - 1], added[n], fault[n], size)
        BY <1>7, <4>1, <4>2
      <4>4. QED
        BY <3>2, <4>3
    <3>3. QED
      BY <3>1, <3>2
  <2>2. QED
    BY <1>7, <2>1
<1>10. c = after(c)
  <2> HIDE DEF after
  <2>1. QED
    BY <1>9 DEF c
<1>11. \A n \in 0..len : c[n] \in Good0(n)
  <2> DEFINE Good == {n \in 0..len : c[n] \in Good0(n)}
  <2>1. c[0] = start
    BY <1>1, <1>10
  <2>2. 0 \in Good
    BY <1>1, <1>3, <2>1
  <2>3. ASSUME NEW n \in 1..len, n - 1 \in Good PROVE n \in Good
    <3>1. n # 0 /\ n \in 0..len
      BY <1>1
    <3>2. c[n] = ClearRound(c[n - 1], added[n], fault[n], size)
      BY <1>10, <3>1
    <3>3. QED
      BY <1>4, <2>3, <3>1, <3>2
  <2> HIDE DEF Good
  <2>4. \A n \in 0..len : n \in Good
    BY <1>1, <2>2, <2>3, Throughout
  <2>5. QED
    BY <2>4 DEF Good
<1>12. Tallied(c[len], size)
  BY <1>1, <1>11 DEF Good0
<1>13. QED
  BY <1>2, <1>12 DEF ClearTold, Tallied

\* So it is of the lists that the run tries.
LEMMA ClearsHold == ClearCounted
<1> SUFFICES ASSUME NEW left \in SUBSET (1..3), NEW added \in [1..3 -> {{}, {10}, {11}}],
                    NEW fault \in [1..3 -> ClearFaults],
                    \A n \in 2..3 : added[n] # {} => \A k \in 1..(n - 1) : added[k] # added[n]
             PROVE  ClearTold(BlocklistClear(left, 2, added, fault), 2)
  BY Zenon DEF ClearCounted, ClearTold, ClearFaults
<1> DEFINE E == 1..11
<1>1. IsFiniteSet(E) /\ 2 \in Nat
  BY CountTo
<1>2. fault \in Seq(ClearFaults) /\ Len(fault) = 3
  BY SequenceIs
<1>3. left \in SUBSET E /\ added \in [1..3 -> SUBSET E]
  OBVIOUS
<1>4. \A n \in 1..3 : added[n] \cap left = {}
  <2>1. \A n \in 1..3 : added[n] \in {{}, {10}, {11}}
    OBVIOUS
  <2>2. 10 \notin left /\ 11 \notin left
    OBVIOUS
  <2>3. QED
    BY <2>1, <2>2
<1>5. ASSUME NEW n \in 1..3, NEW k \in 1..3, n # k PROVE added[n] \cap added[k] = {}
  <2>1. added[n] = {} \/ added[k] = {} \/ added[n] # added[k]
    <3>1. CASE k < n
      <4>1. n \in 2..3 /\ k \in 1..(n - 1)
        BY <3>1
      <4>2. QED
        BY <4>1
    <3>2. CASE n < k
      <4>1. k \in 2..3 /\ n \in 1..(k - 1)
        BY <3>2
      <4>2. QED
        BY <4>1
    <3>3. QED
      BY <1>5, <3>1, <3>2
  <2>2. added[n] \in {{}, {10}, {11}} /\ added[k] \in {{}, {10}, {11}}
    OBVIOUS
  <2>3. QED
    BY <2>1, <2>2
<1> HIDE DEF E
<1>6. QED
  BY <1>1, <1>2, <1>3, <1>4, <1>5, ClearsCount

-----------------------------------------------------------------------------
(* What the requests of several calls and the nightly jobs report is so,   *)
(* whatever the syncs do: each part is proved above for all its inputs.    *)
THEOREM RequestsHold == Spec => []RequestsTold
<1>1. TypeOK => RequestsTold
  BY TogglesHold, ImportsHold, AiredHold, ClearsHold, ListsHold, BackupsHold, DeletionsHold, Zenon
     DEF RequestsTold
<1>2. QED
  BY <1>1, TypeCorrect, PTL

=============================================================================
