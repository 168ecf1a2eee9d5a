--------------------------- MODULE MCLibraryAudit ---------------------------
EXTENDS LibraryAudit, TmdbAudit

(* The reports of audit-tmdb-links.py tell outages from misses, and        *)
(* remakes from the movie: see the parts, in TmdbAudit.                    *)
TmdbAuditSound == AuditTypeOK /\ OutageNotUnmatched /\ ItselfProposed
=============================================================================
