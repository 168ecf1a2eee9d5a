---------------------------- MODULE FleetRestart ----------------------------
(***************************************************************************)
(* Restarting the stack from the control panel: services/host/router.py    *)
(* over core/docker_client.py.  The rate limit of restart-all is a module  *)
(* of its own, RateLimit: here a restart-all may be asked for at any time. *)
(*                                                                         *)
(* The rclone container (the provider) mounts NzbDAV's tree; NzbDAV (the   *)
(* prerequisite) and the dependents bind-mount what the provider has       *)
(* mounted when they start, and keep that instance until they restart.  A  *)
(* restart of the provider makes a new instance, so restart-all goes       *)
(* through the containers in stages, in a thread of its own, while other   *)
(* requests restart, stop and start single containers, and while another   *)
(* restart-all may be under way.                                           *)
(***************************************************************************)
EXTENDS Integers, FiniteSets

CONSTANTS
  Prereqs, Providers, Dependents,  \* MOUNT_PREREQS, MOUNT_PROVIDERS, MOUNT_DEPENDENTS
  Others,                          \* the rest of the stack
  Panel,                           \* the container this runs in
  Workers,                         \* requests for restart-all
  MaxAsks,                         \* restart-alls that are let through: a bound
  MaxTroubles                      \* failed restarts, and others' restarts, stops and
                                   \* starts of a container: a bound

Targets == Prereqs \cup Providers \cup Dependents \cup Others
Containers == Targets \cup {Panel}
Binders == Prereqs \cup Dependents

ASSUME FleetAssumption ==
  /\ Panel \notin Targets
  /\ \E c \in Providers : Providers = {c}
  /\ {} \notin {Prereqs, Dependents, Others}
  /\ (Prereqs \cup Providers) \cap (Dependents \cup Others) = {}
  /\ Prereqs \cap Providers = {} /\ Dependents \cap Others = {}
  /\ {MaxAsks, MaxTroubles} \subseteq Nat
  /\ IsFiniteSet(Workers) /\ Workers # {}

Provider == CHOOSE c \in Providers : TRUE

VARIABLES
  running,   \* the containers that run
  healthy,   \* the containers of the mount that report healthy
  mounted,   \* how often the provider was started: its present instance
  bound,     \* the instance a container bound when it started, 0 for an empty directory
  stage,     \* where a restart-all is
  left,      \* the containers of its stage it has still to do
  clean,     \* no call of it failed, nothing else touched the provider meanwhile
  asks,      \* restart-alls still to come
  budget     \* troubles left

fleet == <<running, healthy, mounted, bound>>
work == <<stage, left, clean>>
vars == <<running, healthy, mounted, bound, stage, left, clean, asks, budget>>

(* The worker's stages, in the order of its loops.                         *)
Restarts == {"prereqs", "providers", "rest", "dependents", "rebind"}
Waits == {"wait_prereqs", "wait_providers"}
Stages == Restarts \cup Waits \cup {"idle"}

(* Defect: NzbDAV is not started again at the end. *)
AfterOnce == [prereqs |-> "wait_prereqs", wait_prereqs |-> "providers",
              providers |-> "wait_providers", wait_providers |-> "rest",
              rest |-> "dependents", dependents |-> "idle", rebind |-> "idle"]

After == [prereqs |-> "wait_prereqs", wait_prereqs |-> "providers",
          providers |-> "wait_providers", wait_providers |-> "rest",
          rest |-> "dependents", dependents |-> "rebind", rebind |-> "idle"]

(* Defect: only what takes part in the mount is restarted. *)
MembersStaged(s) ==
  CASE s \in {"prereqs", "wait_prereqs", "rebind"} -> Prereqs
    [] s \in {"providers", "wait_providers"} -> Providers
    [] s = "dependents" -> Dependents
    [] OTHER -> {}

Members(s) ==
  CASE s \in {"prereqs", "wait_prereqs", "rebind"} -> Prereqs
    [] s \in {"providers", "wait_providers"} -> Providers
    [] s = "rest" -> Others
    [] s = "dependents" -> Dependents
    [] OTHER -> {}

Init ==
  /\ \E down \in SUBSET Others : running = Containers \ down
  /\ healthy = Prereqs \cup Providers
  /\ mounted = 1 /\ bound = [c \in Binders |-> 1]
  /\ stage = [w \in Workers |-> "idle"] /\ left = [w \in Workers |-> {}]
  /\ clean = [w \in Workers |-> TRUE]
  /\ asks = MaxAsks /\ budget = MaxTroubles

TypeOK ==
  /\ healthy \subseteq running \cap (Prereqs \cup Providers) /\ running \subseteq Containers /\ Panel \in running
  /\ mounted \in Nat /\ bound \in [Binders -> 0..mounted]
  /\ stage \in [Workers -> Stages]
  /\ left \in [Workers -> SUBSET Targets]
  /\ \A w \in Workers : left[w] \subseteq Members(stage[w])
  /\ clean \in [Workers -> BOOLEAN]
  /\ asks \in 0..MaxAsks /\ budget \in 0..MaxTroubles
-----------------------------------------------------------------------------
(***************************************************************************)
(* Docker.  A container that starts is not healthy yet; the provider's     *)
(* mount is there once it is, and needs NzbDAV for that.                   *)
(***************************************************************************)
Mount == IF Provider \in healthy THEN mounted ELSE 0

Started(c) ==
  /\ running' = running \cup {c}
  /\ healthy' = healthy \ {c}
  /\ mounted' = IF c = Provider THEN mounted + 1 ELSE mounted
  /\ bound' = IF c \in Binders THEN [bound EXCEPT ![c] = Mount] ELSE bound

BecomesHealthy(c) ==
  /\ c \in (running \cap (Prereqs \cup Providers)) \ healthy
  /\ c = Provider => Prereqs \subseteq healthy
  /\ healthy' = healthy \cup {c}
  /\ UNCHANGED <<running, mounted, bound, work, asks, budget>>

Trouble == budget > 0 /\ budget' = budget - 1

(* A call that fails, or somebody else's, spoils every restart-all under way. *)
Active == {w \in Workers : stage[w] # "idle"}
Disturbed == [w \in Workers |-> clean[w] /\ w \notin Active]

(* find_project_container with reject_self, and the restart.  Plex has to  *)
(* be asked for twice, which the caller did.                               *)
Restart(c) ==
  /\ c \in Targets /\ Trouble
  /\ Started(c)
  /\ clean' = Disturbed
  /\ UNCHANGED <<stage, left, asks>>

Stop(c) ==
  /\ c \in Targets \cap running /\ Trouble
  /\ running' = running \ {c} /\ healthy' = healthy \ {c}
  /\ clean' = Disturbed
  /\ UNCHANGED <<mounted, bound, stage, left, asks>>

Start(c) ==
  /\ c \in Targets \ running /\ Trouble
  /\ Started(c)
  /\ clean' = Disturbed
  /\ UNCHANGED <<stage, left, asks>>
-----------------------------------------------------------------------------
(* A request that the limit let through, and that could list the           *)
(* containers: its worker's thread starts.                                 *)
RestartAll(w) ==
  /\ stage[w] = "idle"
  /\ asks > 0 /\ asks' = asks - 1
  /\ stage' = [stage EXCEPT ![w] = "prereqs"]
  /\ left' = [left EXCEPT ![w] = Prereqs]
  /\ clean' = [clean EXCEPT ![w] = TRUE]
  /\ UNCHANGED <<fleet, budget>>

(* The next container of the stage; the next stage when there is none.     *)
Step(w, c) ==
  /\ IF left[w] = {c}
     THEN /\ stage' = [stage EXCEPT ![w] = After[@]]
          /\ left' = [left EXCEPT ![w] = Members(After[stage[w]])]
     ELSE /\ left' = [left EXCEPT ![w] = @ \ {c}]
          /\ UNCHANGED stage

(* A restart that fails is printed, and the worker goes on.                *)
WorkerRestarts(w, c) ==
  /\ stage[w] \in Restarts /\ c \in left[w]
  /\ Step(w, c)
  /\ \/ Started(c) /\ UNCHANGED <<clean, budget>>
     \/ Trouble /\ clean' = Disturbed /\ UNCHANGED fleet
  /\ UNCHANGED asks

(* wait_for_healthy: until the container reports healthy, or for a minute. *)
WorkerWaits(w, c) ==
  /\ stage[w] \in Waits /\ c \in left[w]
  /\ Step(w, c)
  /\ clean' = IF c \in healthy THEN clean ELSE Disturbed
  /\ UNCHANGED <<fleet, asks, budget>>

Work(w) == \E c \in Targets : WorkerRestarts(w, c) \/ WorkerWaits(w, c)

(* The panel is restarted from outside: its threads go.                    *)
PanelRestarted ==
  /\ Trouble
  /\ stage' = [w \in Workers |-> "idle"] /\ left' = [w \in Workers |-> {}]
  /\ clean' = [w \in Workers |-> FALSE]
  /\ UNCHANGED <<fleet, asks>>

Next ==
  \/ PanelRestarted
  \/ \E w \in Workers : RestartAll(w) \/ Work(w)
  \/ \E c \in Containers : Restart(c) \/ Stop(c) \/ Start(c) \/ BecomesHealthy(c)

Spec == Init /\ [][Next]_vars

(* A worker's thread goes on, and a container that runs becomes healthy.   *)
Fairness ==
  /\ \A w \in Workers : WF_vars(Work(w))
  /\ \A c \in Containers : WF_vars(BecomesHealthy(c))
-----------------------------------------------------------------------------
(* When the last restart-all under way ends, and nothing failed and nobody *)
(* else touched a container while it ran, every container that uses the    *)
(* mount is bound to the instance the provider has now, even if two        *)
(* restart-alls went through the stages at the same time.                  *)
FreshAfterRestartAll ==
  [][ \A w \in Active : stage'[w] = "idle" /\ Active = {w} /\ clean'[w]
        => \A c \in Binders : bound'[c] = mounted' ]_vars

(* No container is left down by a restart-all that ends clean: it starts   *)
(* even what was stopped before it.                                        *)
EverythingUp ==
  [][ \A w \in Active : stage'[w] = "idle" /\ clean'[w] => running' = Containers ]_vars

(* The worker's thread ends: no wait keeps it for ever.                    *)
RestartAllEnds == \A w \in Workers : w \in Active ~> w \notin Active

(* Restart-all ends, and what it leaves behind when it ends clean is up.   *)
EverythingUpAgain == EverythingUp /\ RestartAllEnds

=============================================================================
