------------------------------ MODULE ListSync ------------------------------
(***************************************************************************)
(* Lists of Letterboxd and of MDBList brought into Radarr and Sonarr:      *)
(* services/letterboxd and services/mdblist over core/arr_client.py.       *)
(*                                                                         *)
(* Two nightly ticks go through the tracked lists of their service one by  *)
(* one, and anyone may import one list by hand meanwhile.  A run reads its *)
(* list, finds what to add (for Letterboxd through a table of slugs that   *)
(* all runs share), reads the library of each application once, then adds  *)
(* what that reading did not hold, one call each; every call may fail, and *)
(* other runs add and the user tracks and untracks in between.             *)
(***************************************************************************)
EXTENDS Integers, FiniteSets, Sequences

CONSTANTS
  Movies,       \* what lists hold as films
  Matched,      \* of these, the ones with a TMDb id
  Shows,        \* series: to Letterboxd, films without a TMDb match
  Boxd, Mdb,    \* the lists of Letterboxd and of MDBList
  Items,        \* what each list holds
  Position,     \* where each item stands on a list of Letterboxd
  MaxFilms,     \* of such a list, how many are read: ten pages, and 720
  Handed,       \* the lists imported by hand: a bound
  Together,     \* ticks under way at a time: a bound
  MaxFaults,    \* failing calls: a bound
  MaxEdits,     \* lists untracked: a bound
  MaxManual     \* imports by hand: a bound

Works == Movies \cup Shows
Lists == Boxd \cup Mdb
Ticks == {"boxd", "mdb"}
Procs == Ticks \cup {"manual"}

ASSUME ListAssumption ==
  /\ Matched \subseteq Movies /\ Movies \cap Shows = {} /\ Boxd \cap Mdb = {}
  /\ Items \in [Lists -> (SUBSET Works) \ {{}}] /\ "none" \notin Lists
  /\ \A l \in Boxd : \E w \in Items[l] : Position[l][w] <= MaxFilms
  /\ Handed \subseteq Lists
  /\ {Together, MaxFaults, MaxEdits, MaxManual} \subseteq Nat

VARIABLES
  library,   \* what Radarr and Sonarr hold
  tracked,   \* the rows of the tracked lists
  cache,     \* the table of slugs: TRUE with a TMDb id, FALSE without one
  run,       \* the tick of each service, and the import by hand
  budget     \* faults, edits and imports by hand left

vars == <<library, tracked, cache, run, budget>>

NoRun == [pc |-> "idle", list |-> "none", dry |-> FALSE, cross |-> FALSE, todo |-> {},
          logged |-> {}, lost |-> {}, items |-> {}, known |-> <<>>, ids |-> {},
          app |-> "none", apps |-> <<>>, holds |-> {}, out |-> <<>>]

Init ==
  /\ library = {}
  /\ tracked = Lists
  /\ cache = <<>>
  /\ run = [p \in Procs |-> NoRun]
  /\ budget = [faults |-> MaxFaults, edits |-> MaxEdits, manual |-> MaxManual]

Extend(f, x, y) == [z \in DOMAIN f \cup {x} |-> IF z = x THEN y ELSE f[z]]
Cached(s) == s \in DOMAIN cache
OfBoxd(p) == run[p].list \in Boxd
At(p, pc) == run[p].pc = pc
Update(p, r) == run' = [run EXCEPT ![p] = r]
SpendFault == budget.faults > 0 /\ budget' = [budget EXCEPT !.faults = @ - 1]

(* The applications a run reads and adds to: a Letterboxd run always reads *)
(* Radarr, after the series of its crossover; an MDBList run what the      *)
(* items it read need, Radarr first.                                       *)
Apps(l, works) ==
  IF l \in Boxd
  THEN IF works \cap Shows = {} THEN <<"radarr">> ELSE <<"sonarr", "radarr">>
  ELSE (IF works \cap Movies = {} THEN <<>> ELSE <<"radarr">>)
       \o (IF works \cap Shows = {} THEN <<>> ELSE <<"sonarr">>)

-----------------------------------------------------------------------------
(* A tick: the rows as they are now, one after the other.                  *)
StartTick(p) ==
  /\ p \in Ticks /\ At(p, "idle")
  /\ Cardinality({q \in Ticks : ~At(q, "idle")}) < Together
  /\ LET mine == tracked \cap (IF p = "boxd" THEN Boxd ELSE Mdb)
     IN  /\ mine # {}
         /\ Update(p, [NoRun EXCEPT !.pc = "next", !.todo = mine])
  /\ UNCHANGED <<library, tracked, cache, budget>>

(* Every commit of the tick's session expires the rows it holds, so a row  *)
(* is read again when its turn comes; a deleted one raises and ends the    *)
(* tick.                                                                   *)
TakeRow(p) ==
  /\ At(p, "next")
  /\ \E l \in run[p].todo :
       IF run[p].logged # {} /\ l \in run[p].lost THEN Update(p, NoRun)
       ELSE Update(p, [run[p] EXCEPT !.pc = "fetch", !.list = l, !.todo = @ \ {l}])
  /\ UNCHANGED <<library, tracked, cache, budget>>

(* An import by hand, of any list, as a rehearsal or for real.             *)
StartManual(l, mode) ==
  /\ At("manual", "idle") /\ budget.manual > 0
  /\ Update("manual", [NoRun EXCEPT !.pc = "fetch", !.list = l, !.dry = mode.dry, !.cross = mode.cross])
  /\ budget' = [budget EXCEPT !.manual = @ - 1]
  /\ UNCHANGED <<library, tracked, cache>>

\* Defect: no handler around the run of one row.
AfterFailureUncaught(p) == NoRun

(* A run that is over, and one that failed: a tick writes its row of the   *)
(* log, stamps a run that did not fail, and goes on, but raises when the   *)
(* row of the list is gone; an import by hand answers, and only one that   *)
(* did not fail writes to the log.                                         *)
Over(p) ==
  IF p = "manual" \/ run[p].todo = {} \/ run[p].list \in run[p].lost THEN NoRun
  ELSE [NoRun EXCEPT !.pc = "next", !.todo = run[p].todo, !.lost = run[p].lost,
                     !.logged = run[p].logged \cup {run[p].list}]
AfterFailure(p) == Over(p)

Fails(p) ==
  /\ Update(p, AfterFailure(p))
  /\ UNCHANGED <<library, tracked, cache>>

-----------------------------------------------------------------------------
(* The list is read, page after page, one of Letterboxd to its tenth page  *)
(* and 720th film at most.  Letterboxd's first page must come, a later one *)
(* that does not ends the list early; any page of MDBList must come.  An   *)
(* import by hand may ask for less.                                        *)
WithinReach(l) == {w \in Items[l] : l \in Boxd => Position[l][w] <= MaxFilms}

Fetched(p, items) ==
  LET l == run[p].list IN
  Update(p, IF l \in Boxd
            THEN [run[p] EXCEPT !.pc = "resolve", !.items = items,
                    !.known = [s \in items \cap DOMAIN cache |-> cache[s]]]
            ELSE [run[p] EXCEPT !.pc = "add", !.items = items,
                    !.ids = items \cap (Matched \cup Shows), !.apps = Apps(l, items),
                    !.out = [w \in items \ (Matched \cup Shows) |-> "failed"]])

Fetch(p) ==
  /\ At(p, "fetch")
  /\ Fetched(p, WithinReach(run[p].list))
  /\ UNCHANGED <<library, tracked, cache, budget>>

FetchPart(p) ==
  /\ At(p, "fetch")
  /\ \/ OfBoxd(p) /\ SpendFault
     \/ p = "manual" /\ UNCHANGED budget
  /\ \E items \in (SUBSET WithinReach(run[p].list)) \ {{}} : Fetched(p, items)
  /\ UNCHANGED <<library, tracked, cache>>

FetchFails(p) == At(p, "fetch") /\ SpendFault /\ Fails(p)

-----------------------------------------------------------------------------
(* resolve_tmdb_ids: the rows known when it began, else the film's page,   *)
(* whose answer, a match or none, becomes a row; a row another run made    *)
(* meanwhile makes the insert fail.                                        *)
Unresolved(p) == {s \in run[p].items : s \notin DOMAIN run[p].known}

Resolve(p) ==
  /\ At(p, "resolve")
  /\ \E s \in Unresolved(p) :
       IF Cached(s) THEN Fails(p)
       ELSE /\ cache' = Extend(cache, s, s \in Matched)
            /\ Update(p, [run[p] EXCEPT !.known = Extend(@, s, s \in Matched)])
            /\ UNCHANGED <<library, tracked>>
  /\ UNCHANGED budget

\* Defect: a page that could not be fetched is remembered as one without a match.
ResolveCachesMiss(p) ==
  /\ At(p, "resolve") /\ SpendFault
  /\ \E s \in Unresolved(p) :
       IF Cached(s) THEN Fails(p)
       ELSE /\ cache' = Extend(cache, s, FALSE)
            /\ Update(p, [run[p] EXCEPT !.known = Extend(@, s, FALSE)])
            /\ UNCHANGED <<library, tracked>>

ResolveFails(p) == At(p, "resolve") /\ Unresolved(p) # {} /\ SpendFault /\ Fails(p)

(* What has no match is unmatched, or, when the import asks for the        *)
(* crossover, looked up among the series; a lookup that fails leaves it    *)
(* unmatched.                                                              *)
Resolved(p, series) ==
  LET films == {s \in run[p].items : run[p].known[s]}
      rest == run[p].items \ (films \cup series)
  IN  Update(p, [run[p] EXCEPT !.pc = "add", !.ids = films \cup series,
                   !.apps = Apps(run[p].list, films \cup series),
                   !.out = [s \in rest |-> "unmatched"]])

Crossed(p) ==
  IF run[p].cross THEN {s \in run[p].items \cap Shows : ~run[p].known[s]} ELSE {}

CrossOver(p) ==
  /\ At(p, "resolve") /\ Unresolved(p) = {}
  /\ Resolved(p, Crossed(p))
  /\ UNCHANGED <<library, tracked, cache, budget>>

CrossOverPart(p) ==
  /\ At(p, "resolve") /\ Unresolved(p) = {} /\ SpendFault
  /\ \E series \in (SUBSET Crossed(p)) \ {Crossed(p)} : Resolved(p, series)
  /\ UNCHANGED <<library, tracked, cache>>

-----------------------------------------------------------------------------
(* The library, the root folder and the profile of the next application,   *)
(* once everything was tried in the one before.                            *)
Kind(app) == CASE app = "radarr" -> Movies [] app = "sonarr" -> Shows [] OTHER -> {}
ToAdd(p) == (run[p].ids \cap Kind(run[p].app)) \ DOMAIN run[p].out
AppDone(p) == At(p, "add") /\ ToAdd(p) = {}

ReadLibrary(p) ==
  /\ AppDone(p) /\ run[p].apps # <<>>
  /\ LET app == Head(run[p].apps)
     IN  Update(p, [run[p] EXCEPT !.app = app, !.apps = Tail(@), !.holds = library \cap Kind(app)])
  /\ UNCHANGED <<library, tracked, cache, budget>>

ReadFails(p) == AppDone(p) /\ run[p].apps # <<>> /\ SpendFault /\ Fails(p)

(* radarr_add_movie and sonarr_add_series: already there when the library  *)
(* was read, refused when another run added it since, else added, unless   *)
(* this is a rehearsal.  A failed lookup or a refused post is the item's   *)
(* failure and not the run's; a post may time out and still be done.       *)
Posts(p, w) == w \notin run[p].holds /\ ~run[p].dry
Counted(p, w, s) == Update(p, [run[p] EXCEPT !.out = Extend(@, w, s)])
Outcome(p, w) ==
  CASE w \in run[p].holds -> "already"
    [] w \notin run[p].holds /\ run[p].dry -> "added"
    [] OTHER -> IF w \in library THEN "failed" ELSE "added"

Add(p) ==
  /\ At(p, "add")
  /\ \E w \in ToAdd(p) :
       /\ Counted(p, w, Outcome(p, w))
       /\ library' = IF Posts(p, w) THEN library \cup {w} ELSE library
  /\ UNCHANGED <<tracked, cache, budget>>

\* Defect: a failed addition is reported like the others.
AddFailsUnseen(p) ==
  /\ At(p, "add") /\ SpendFault
  /\ \E w \in ToAdd(p) : w \notin run[p].holds /\ Counted(p, w, "added")
  /\ UNCHANGED <<library, tracked, cache>>

AddFails(p) ==
  /\ At(p, "add") /\ SpendFault
  /\ \E w \in ToAdd(p) :
       /\ w \notin run[p].holds
       /\ Counted(p, w, "failed")
       /\ \/ library' = library
          \/ Posts(p, w) /\ library' = library \cup {w}
  /\ UNCHANGED <<tracked, cache>>

Reported(p) == AppDone(p) /\ run[p].apps = <<>>

Finish(p) ==
  /\ Reported(p)
  /\ Update(p, Over(p))
  /\ UNCHANGED <<library, tracked, cache, budget>>

-----------------------------------------------------------------------------
(* The routes that track and untrack.  The row of a list tracked again     *)
(* may have the number of the deleted one.                                 *)
Track(l) ==
  /\ l \notin tracked
  /\ tracked' = tracked \cup {l}
  /\ \E same \in BOOLEAN :
       run' = [p \in Procs |-> IF same THEN [run[p] EXCEPT !.lost = @ \ {l}] ELSE run[p]]
  /\ UNCHANGED <<library, cache, budget>>

Untrack(l) ==
  /\ l \in tracked /\ budget.edits > 0
  /\ budget' = [budget EXCEPT !.edits = @ - 1]
  /\ tracked' = tracked \ {l}
  /\ run' = [p \in Procs |-> IF l \in run[p].todo \cup {run[p].list}
                             THEN [run[p] EXCEPT !.lost = @ \cup {l}] ELSE run[p]]
  /\ UNCHANGED <<library, cache>>

Work(p) ==
  \/ TakeRow(p) \/ Fetch(p) \/ Resolve(p) \/ CrossOver(p)
  \/ ReadLibrary(p) \/ Add(p) \/ Finish(p)
Trouble(p) ==
  \/ FetchPart(p) \/ FetchFails(p) \/ ResolveFails(p) \/ CrossOverPart(p)
  \/ ReadFails(p) \/ AddFails(p)

Next ==
  \/ \E p \in Procs : StartTick(p) \/ Work(p) \/ Trouble(p)
  \/ \E l \in Handed : \E mode \in [dry : BOOLEAN, cross : BOOLEAN] : StartManual(l, mode)
  \/ \E l \in Lists : Track(l) \/ Untrack(l)

Spec == Init /\ [][Next]_vars

(* A tick works on, and the timers start the ticks; whether calls fail,    *)
(* what the user does and how far an import by hand gets is nobody's       *)
(* promise.  What the user tracks is read again only by a tick, so both    *)
(* ticks are fair.                                                         *)
Fairness ==
  /\ \A p \in Ticks : WF_vars(Work(p))
  /\ \A p \in Ticks : SF_vars(StartTick(p))
FairSpec == Spec /\ Fairness

-----------------------------------------------------------------------------
Outcomes == {"added", "already", "failed", "unmatched"}
Partial(f, D, R) == DOMAIN f \subseteq D /\ \A x \in DOMAIN f : f[x] \in R

(* Type correctness; what a run reports, it reports of items it read.      *)
TypeOK ==
  /\ library \subseteq Works /\ tracked \subseteq Lists
  /\ Partial(cache, Works, BOOLEAN)
  /\ \A p \in Procs :
       /\ run[p].pc \in {"idle", "next", "fetch", "resolve", "add"}
       /\ run[p].todo \cap (run[p].logged \cup {run[p].list}) = {}
       /\ Partial(run[p].out, run[p].items, Outcomes)
       /\ Partial(run[p].known, run[p].items, BOOLEAN)
  /\ budget \in [faults : 0..MaxFaults, edits : 0..MaxEdits, manual : 0..MaxManual]

(* The table of slugs never holds a wrong answer: every run of the future  *)
(* goes by it, so a page that did not come must not be kept as "no match"  *)
(* (cache.py:29-34).                                                       *)
CacheTruthful == \A s \in DOMAIN cache : cache[s] <=> s \in Matched

(* What a run reports as added or already there, and logs, is in the       *)
(* library, whatever other runs and failing calls did in between, unless   *)
(* it was a rehearsal (arr_client.py:437-507).                             *)
ReportTruthful ==
  \A p \in Procs : Reported(p) /\ ~run[p].dry =>
    \A w \in DOMAIN run[p].out : run[p].out[w] \in {"added", "already"} => w \in library

(* No item a run read falls out of its report: at the end each was added,  *)
(* there already, failed or unmatched, for both services and both          *)
(* applications (letterboxd/router.py:330-334, mdblist/router.py:134-157). *)
NothingUnreported ==
  \A p \in Procs : Reported(p) => DOMAIN run[p].out = run[p].items

(* A tick that no untracking disturbed goes through all the lists it began *)
(* with: a list that fails costs the others nothing                        *)
(* (letterboxd/router.py:459-477, mdblist/router.py:283-308).              *)
QuietTickReachesAll ==
  [][\A p \in Ticks :
       run[p].pc # "idle" /\ run[p]'.pc = "idle" /\ run[p].lost = {} => run[p].todo = {}]_vars

(* A film of a tracked list that a run reads so far as to come to it gets  *)
(* into the library, or its list is tracked no more: a failed call of one  *)
(* night is made good by a later one (letterboxd/cache.py:16-39, both      *)
(* sync-tick routes).  Past the tenth page and the 720th film of a list of *)
(* Letterboxd none is ever read (letterboxd/router.py:181, 209-210).       *)
TrackedFilmsAdded ==
  \A l \in Lists : \A w \in Matched \cap WithinReach(l) :
    []<>(l \in tracked => w \in library)

(* The id table, the reports and the library agree.                        *)
ReportsTruthful == CacheTruthful /\ ReportTruthful /\ NothingUnreported

=============================================================================
