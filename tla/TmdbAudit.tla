------------------------------ MODULE TmdbAudit ------------------------------
(* audit-tmdb-links.py: which movies of a Plex library have no TMDb id,    *)
(* and which search result each of them could be.  What the search finds,  *)
(* how like its titles are to the movie's (in percent) and how the calls   *)
(* end are inputs; a year of 0 is unknown.                                 *)
EXTENDS Integers, FiniteSets, Sequences

HighConfidenceRatio == 92
MinCandidateRatio == 60
MaxYearDeltaHigh == 1
YearPenalty == 5
Retries == 3

(* The new agent's guids first; one that is no number is passed over.      *)
ExistingTmdbId(movie) == movie.guid = "number" \/ movie.legacy

(* A call that times out, is throttled or refused is made again.           *)
Unavailable == [answered |-> FALSE, results |-> <<>>]
GetWithRetry(calls, results) ==
  IF \E n \in 1..Retries : calls[n] = "answer" THEN [answered |-> TRUE, results |-> results] ELSE Unavailable

(* By title and year, and by the title alone if that finds nothing.        *)
TmdbSearch(year, search) ==
  LET dated == GetWithRetry(search.dated.calls, search.dated.results)
      plain == GetWithRetry(search.plain.calls, search.plain.results)
  IN IF year = 0 THEN plain
     ELSE IF dated.answered /\ dated.results = <<>> THEN plain ELSE dated

YearDelta(year, result) ==
  IF year = 0 \/ result.year = 0 THEN 0
  ELSE IF result.year > year THEN result.year - year ELSE year - result.year

\* Defect: the year does not count.
ScoreByTitle(year, result) == result.ratio

Score(year, result) == result.ratio - YearPenalty * YearDelta(year, result)

(* The first of the best results, if it is like enough.                    *)
BestCandidate(results, year) ==
  LET best == {n \in DOMAIN results :
                 \A k \in DOMAIN results : Score(year, results[k]) <= Score(year, results[n])}
      top == results[CHOOSE n \in best : \A k \in best : n <= k]
  IN IF best = {} THEN <<>> ELSE IF top.ratio < MinCandidateRatio THEN <<>> ELSE <<top>>

ConfidenceLabel(year, result) ==
  IF result.ratio >= HighConfidenceRatio /\ YearDelta(year, result) <= MaxYearDeltaHigh
    THEN "high" ELSE "medium"

Row(movie, search) ==
  LET found == TmdbSearch(movie.year, search)
      match == BestCandidate(found.results, movie.year)
  IN IF ExistingTmdbId(movie) THEN [status |-> "matched"]
     ELSE IF ~found.answered THEN [status |-> "search_error"]
     ELSE IF match = <<>> THEN [status |-> "unmatched"]
     ELSE [status |-> "fixable", candidate |-> match[1], confidence |-> ConfidenceLabel(movie.year, match[1])]

Audit(movies, searches) ==
  LET rows == [n \in DOMAIN movies |-> Row(movies[n], searches[n])] IN
  [rows |-> rows,
   counts |-> [status \in {"matched", "fixable", "unmatched", "search_error"} |->
                 Cardinality({n \in DOMAIN rows : rows[n].status = status})]]

-----------------------------------------------------------------------------
(* Properties, over bounded libraries and answers.                         *)
Released == 10
Outcomes3 == {[n \in 1..3 |-> IF n < k THEN bad ELSE "answer"] : k \in 1..4, bad \in {"timeout", "throttled", "refused"}}
Unlinked == {[guid |-> guid, legacy |-> FALSE, year |-> year] : guid \in {"none", "text"}, year \in {0, Released}}

(* An outage is never taken for a movie that does not exist: "unmatched"   *)
(* comes of answers only, of the second search as well if the first found  *)
(* nothing (the header's note on search_error, _get_with_retry).           *)
OutageNotUnmatched ==
  \A movie \in Unlinked, first, second \in Outcomes3,
     found, plainly \in {<<>>, <<[ratio |-> 50, year |-> Released]>>, <<[ratio |-> 95, year |-> Released]>>} :
    LET told == Audit(<<movie>>, <<[dated |-> [calls |-> first, results |-> found],
                                    plain |-> [calls |-> second, results |-> plainly]]>>)
        Answered(calls) == \E n \in 1..Retries : calls[n] = "answer"
    IN told.counts["unmatched"] = 1 =>
         IF movie.year = 0 THEN Answered(second)
         ELSE Answered(first) /\ (found = <<>> => Answered(second))

(* If the movie itself is among the results, with its title and its year,  *)
(* what the report proposes has its title, no other year, and is called    *)
(* sure: a remake that the search lists first is not taken for it          *)
(* (best_candidate).                                                       *)
ItselfProposed ==
  \A others \in UNION {[1..n -> [ratio : {40, 93, 100}, year : {0, 9, Released, 30}]] : n \in 0..2},
     place \in 1..3, movie \in Unlinked :
    place <= Len(others) + 1 /\ movie.year # 0 =>
      LET itself == [ratio |-> 100, year |-> Released]
          results == SubSeq(others, 1, place - 1) \o <<itself>> \o SubSeq(others, place, Len(others))
          calls == [n \in 1..3 |-> "answer"]
          row == Row(movie, [dated |-> [calls |-> calls, results |-> results],
                             plain |-> [calls |-> calls, results |-> <<>>]])
      IN /\ row.status = "fixable" /\ row.confidence = "high"
         /\ row.candidate.ratio = 100 /\ row.candidate.year \in {0, Released}

=============================================================================
