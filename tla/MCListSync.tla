----------------------------- MODULE MCListSync -----------------------------
(* A film with a match, one without, and a series, on a list of Letterboxd  *)
(* that goes on past what is read, and two of MDBList that overlap.         *)
EXTENDS ListSync, ArrRequests, Maintenance

MCMovies == {"film", "odd", "last"}
MCMatched == {"film", "last"}
MCShows == {"series"}
MCBoxd == {"list"}
MCMdb == {"top", "new"}
MCItems == [list |-> {"film", "series", "last"}, top |-> {"film", "series", "odd"}, new |-> {"series"}]
MCPosition == [list |-> [film |-> 1, series |-> 2, last |-> 3]]
MCHanded == {"list"}

(* Whatever the syncs do, what the arr requests of several calls and the   *)
(* nightly jobs report is so: see the parts, in ArrRequests, Maintenance.  *)
RequestsTold ==
  /\ TypeOK
  /\ ToggleTold /\ OnlyMatchedImported /\ AiredListed
  /\ ClearCounted /\ ListsAuthorised
  /\ BackupsTold /\ DeletionsTold
=============================================================================
