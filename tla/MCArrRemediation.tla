-------------------------- MODULE MCArrRemediation --------------------------
(* The queues of a movie and of an episode, or of a season pack of two.    *)
EXTENDS ArrRemediation, QueueReports

CONSTANTS m, e1, e2
MCMovie == {m}
MCEpisode == {e1}
MCDownload == [i \in {m, e1, e2} |-> IF i = m THEN "movie" ELSE "pack"]
(* Whatever the requests do, what the panel says of queues, loops, backlog *)
(* and commands is so: see the parts, in QueueReports.                     *)
QueueReportsTruthful ==
  /\ TypeOK
  /\ OnlyMovingIsDownloading /\ OneSourceDownCostsItself
  /\ ReviewBeforeUnmonitor /\ EtaFollowsImports /\ CommandViewsAgree
=============================================================================
