---------------------------- MODULE MCPosterSync ----------------------------
EXTENDS PosterSync, PosterCandidates

CONSTANTS x1, x2

OneItem == <<x1>>

(* Whatever the jobs do, the poster that they choose and what the scan     *)
(* flags are right: no item misses a poster that a configured source       *)
(* holds, the automatic sync takes what the review lists first, and a      *)
(* poster is flagged for its language only if the audio is in another one. *)
PostersWellChosen ==
  TypeOK /\ AutoPicksFirstCandidate /\ MissMeansNoneHoldsOne /\ NoFalseMismatch

=============================================================================
