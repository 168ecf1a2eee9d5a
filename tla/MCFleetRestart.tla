--------------------------- MODULE MCFleetRestart ---------------------------
(* A stack of five containers and the panel; and the limit that stands     *)
(* before its restarts.  The two share no state, since FleetRestart lets a *)
(* restart-all come at any time: a behaviour is one of the fleet, or one   *)
(* of the limit.                                                           *)
EXTENDS FleetRestart, RateLimit, Catalog

CONSTANTS nzbdav, nzbdav_rclone, radarr, sonarr, prowlarr
MCPrereqs == {nzbdav}
MCProviders == {nzbdav_rclone}
MCDependents == {radarr, sonarr}
MCOthers == {prowlarr}

PanelInit == Init /\ LimitInit
PanelSpec ==
  /\ PanelInit
  /\ [][\/ LimitInit /\ Next /\ UNCHANGED limitVars
        \/ Init /\ LimitNext /\ UNCHANGED vars]_<<vars, limitVars>>
  /\ Fairness

(* Whatever happens to the fleet, the catalog's requests do what they say, *)
(* in every order of two of them: see EveryOrderTold, in Catalog.          *)
CatalogTold == TypeOK /\ EveryOrderTold
=============================================================================
