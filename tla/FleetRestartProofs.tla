------------------------- MODULE FleetRestartProofs -------------------------
(***************************************************************************)
(* Theorems about FleetRestart.tla: what restart-all leaves behind, with   *)
(* any number of restart-alls under way, for any stack and number of       *)
(* faults; about RateLimit.tla, for any limit, window and threads; and     *)
(* about Catalog.tla, for any number of requests and order of them.        *)
(***************************************************************************)
EXTENDS MCFleetRestart, RateLimit, FiniteSetTheorems, SequenceTheorems, WellFoundedInduction, TLAPS

\* What a worker has restarted since its request.
Done(w) ==
  CASE stage[w] = "prereqs" -> Prereqs \ left[w]
    [] stage[w] = "wait_prereqs" -> Prereqs
    [] stage[w] = "providers" -> Prereqs \cup (Providers \ left[w])
    [] stage[w] = "wait_providers" -> Prereqs \cup Providers
    [] stage[w] = "rest" -> Prereqs \cup Providers \cup (Others \ left[w])
    [] stage[w] = "dependents" -> Prereqs \cup Providers \cup Others \cup (Dependents \ left[w])
    [] stage[w] = "rebind" -> Targets
    [] OTHER -> {}

\* What a worker will still restart, of the containers that bind the mount.
Pending(w) ==
  CASE stage[w] = "dependents" -> Prereqs \cup left[w]
    [] stage[w] = "rebind" -> left[w]
    [] stage[w] = "idle" -> {}
    [] OTHER -> Binders

\* Before these stages are over a worker waits for the provider once more.
Early == {"prereqs", "wait_prereqs", "providers", "wait_providers"}

CleanActive == \E w \in Active : clean[w]

\* What a clean worker has restarted runs: whoever stops a container spoils it.
DoneRuns == \A w \in Active : clean[w] => Done(w) \subseteq running

\* While a clean worker is under way the mount is there, or a worker still waits for it.
MountComes == CleanActive => Provider \in healthy \/ \E v \in Active : stage[v] \in Early

\* And a container bound to an earlier instance is still ahead of some worker.
StalePending ==
  CleanActive => \A c \in Binders : bound[c] = mounted \/ \E v \in Active : c \in Pending(v)

IInv ==
  /\ TypeOK
  /\ DoneRuns
  /\ MountComes
  /\ StalePending

-----------------------------------------------------------------------------
\* Operators of the model

\* One provider, apart from all that binds its mount.
LEMMA Mounts ==
  /\ Providers = {Provider} /\ Provider \in Targets /\ Provider \notin Binders
  /\ Prereqs \cap Dependents = {} /\ Panel \notin Targets
  BY FleetAssumption DEF Provider, Targets, Binders

\* The order of the stages (stack_restart_all, services/host/router.py:160-196).
LEMMA Order ==
  /\ After["prereqs"] = "wait_prereqs" /\ After["wait_prereqs"] = "providers"
  /\ After["providers"] = "wait_providers" /\ After["wait_providers"] = "rest"
  /\ After["rest"] = "dependents" /\ After["dependents"] = "rebind"
  /\ After["rebind"] = "idle"
  BY DEF After

\* What a stage is about.
LEMMA StageMembers ==
  /\ Members("prereqs") = Prereqs /\ Members("wait_prereqs") = Prereqs /\ Members("rebind") = Prereqs
  /\ Members("providers") = Providers /\ Members("wait_providers") = Providers
  /\ Members("rest") = Others /\ Members("dependents") = Dependents /\ Members("idle") = {}
  BY DEF Members

\* The stages of a restart, one by one.
LEMMA StageCases == \A s \in Stages : s \in {"prereqs", "wait_prereqs", "providers", "wait_providers",
                                              "rest", "dependents", "rebind", "idle"}
  BY DEF Stages, Restarts, Waits

\* A stage's members are containers of the stack.
LEMMA MembersTargets == \A s : Members(s) \subseteq Targets
  BY DEF Members, Targets

\* A worker takes a container out of its stage, or goes on to the next stage.
LEMMA StepShape ==
  ASSUME TypeOK, NEW w \in Workers, NEW c \in left[w], Step(w, c)
  PROVE /\ stage[w] # "idle" /\ c \in Members(stage[w])
        /\ \A v \in Workers : v # w => stage'[v] = stage[v] /\ left'[v] = left[v]
        /\ \/ left[w] # {c} /\ stage'[w] = stage[w] /\ left'[w] = left[w] \ {c}
           \/ left[w] = {c} /\ stage'[w] = After[stage[w]] /\ left'[w] = Members(After[stage[w]])
        /\ stage' \in [Workers -> Stages] /\ left' \in [Workers -> SUBSET Targets]
        /\ \A v \in Workers : left'[v] \subseteq Members(stage'[v])
  <1>1. c \in Members(stage[w]) /\ stage[w] \in Stages
    BY DEF TypeOK
  <1>2. stage[w] # "idle"
    BY <1>1, StageMembers
  <1>3. After[stage[w]] \in Stages
    BY <1>1, <1>2, StageCases, Order DEF Stages, Restarts, Waits
  <1>4. CASE left[w] # {c}
    BY <1>1, <1>2, <1>4 DEF Step, TypeOK
  <1>5. CASE left[w] = {c}
    <2>1. /\ stage' = [stage EXCEPT ![w] = After[stage[w]]]
          /\ left' = [left EXCEPT ![w] = Members(After[stage[w]])]
      BY <1>5 DEF Step
    <2> QED BY <1>1, <1>2, <1>3, <1>5, <2>1, MembersTargets DEF TypeOK
  <1> QED BY <1>4, <1>5

\* What a step of a worker makes of what it has done and has still to do.
LEMMA StepProgress ==
  ASSUME TypeOK, NEW w \in Workers, NEW c \in left[w], Step(w, c)
  PROVE /\ Done(w)' \subseteq Done(w) \cup {c}
        /\ stage[w] \in Waits => Done(w)' \subseteq Done(w)
        /\ Pending(w) \ {c} \subseteq Pending(w)'
        /\ stage[w] \in Waits => Pending(w)' = Pending(w)
        /\ stage[w] \in Early => stage'[w] \in Early \/ (stage[w] = "wait_providers" /\ c = Provider)
        /\ stage'[w] \in Early => Pending(w)' = Binders
        /\ stage'[w] = "idle" => /\ stage[w] = "rebind" /\ left[w] = {c} /\ c \in Prereqs
                                 /\ Done(w) = Targets
  <1>1. /\ c \in Members(stage[w])
        /\ \/ left[w] # {c} /\ stage'[w] = stage[w] /\ left'[w] = left[w] \ {c}
           \/ left[w] = {c} /\ stage'[w] = After[stage[w]] /\ left'[w] = Members(After[stage[w]])
    BY StepShape
  <1>2. stage[w] \in Stages /\ left[w] \subseteq Members(stage[w])
    BY DEF TypeOK
  <1>3. CASE stage[w] = "prereqs"
    BY <1>1, <1>2, <1>3, StageMembers, Order DEF Done, Pending, Early, Waits, Binders
  <1>4. CASE stage[w] = "wait_prereqs"
    BY <1>1, <1>2, <1>4, StageMembers, Order DEF Done, Pending, Early, Waits, Binders
  <1>5. CASE stage[w] = "providers"
    BY <1>1, <1>2, <1>5, StageMembers, Order, Mounts DEF Done, Pending, Early, Waits, Binders
  <1>6. CASE stage[w] = "wait_providers"
    BY <1>1, <1>2, <1>6, StageMembers, Order, Mounts DEF Done, Pending, Early, Waits, Binders
  <1>7. CASE stage[w] = "rest"
    BY <1>1, <1>2, <1>7, StageMembers, Order DEF Done, Pending, Early, Waits, Binders
  <1>8. CASE stage[w] = "dependents"
    BY <1>1, <1>2, <1>8, StageMembers, Order, Mounts DEF Done, Pending, Early, Waits, Binders, Targets
  <1>9. CASE stage[w] = "rebind"
    BY <1>1, <1>2, <1>9, StageMembers, Order DEF Done, Pending, Early, Waits, Binders
  <1>10. stage[w] # "idle"
    BY <1>1, StageMembers
  <1> QED BY <1>2, <1>3, <1>4, <1>5, <1>6, <1>7, <1>8, <1>9, <1>10, StageCases

\* A worker that does not step keeps what it has done and has to do.
LEMMA OthersKeep ==
  ASSUME NEW v, stage'[v] = stage[v], left'[v] = left[v]
  PROVE Done(v)' = Done(v) /\ Pending(v)' = Pending(v)
  BY DEF Done, Pending

\* Where the mount is, in the presence of the provider.
LEMMA StartedTyped ==
  ASSUME TypeOK, NEW c \in Targets, Started(c)
  PROVE /\ healthy' \subseteq running' \cap (Prereqs \cup Providers) /\ running' \subseteq Containers
        /\ Panel \in running' /\ mounted' \in Nat /\ bound' \in [Binders -> 0..mounted']
  <1>1. Mount \in 0..mounted
    BY DEF Mount, TypeOK
  <1>2. mounted' \in Nat /\ mounted <= mounted'
    BY DEF Started, TypeOK
  <1>3. bound' \in [Binders -> 0..mounted']
    <2>1. bound \in [Binders -> 0..mounted] /\ mounted \in Nat
      BY DEF TypeOK
    <2>2. \A x \in 0..mounted : x \in 0..mounted'
      BY <1>2, <2>1
    <2>3. bound' = (IF c \in Binders THEN [bound EXCEPT ![c] = Mount] ELSE bound)
      BY DEF Started
    <2> QED BY <1>1, <2>1, <2>2, <2>3
  <1> QED BY <1>2, <1>3 DEF Started, TypeOK, Containers

\* A bounded budget stays within its bounds.
LEMMA BudgetTyped ==
  ASSUME TypeOK, Trouble
  PROVE budget' \in 0..MaxTroubles
  BY FleetAssumption DEF TypeOK, Trouble

-----------------------------------------------------------------------------
\* The inductive invariant, part by part

\* The invariant holds at first: nobody restarts anything.
LEMMA InitIInv == Init => IInv
  <1> SUFFICES ASSUME Init PROVE IInv
    OBVIOUS
  <1>2. MaxAsks \in Nat /\ MaxTroubles \in Nat
    BY FleetAssumption
  <1>3. TypeOK
    <2>1. running \subseteq Containers /\ Panel \in running /\ Prereqs \cup Providers \subseteq running
      <3>1. PICK down \in SUBSET Others : running = Containers \ down
        BY DEF Init
      <3> QED BY <3>1, FleetAssumption DEF Containers, Targets
    <2>2. stage \in [Workers -> Stages] /\ left \in [Workers -> SUBSET Targets]
      BY DEF Init, Stages
    <2>3. bound \in [Binders -> 0..mounted] /\ mounted \in Nat
      BY DEF Init
    <2> QED BY <1>2, <2>1, <2>2, <2>3 DEF Init, TypeOK
  <1>4. Active = {}
    BY DEF Init, Active
  <1> QED BY <1>3, <1>4 DEF IInv, DoneRuns, MountComes, StalePending, CleanActive

\* Every step keeps the types.
LEMMA TypeStep == ASSUME TypeOK, [Next]_vars PROVE TypeOK'
  <1>2. ASSUME PanelRestarted PROVE TypeOK'
    <2>1. /\ stage' \in [Workers -> Stages] /\ left' \in [Workers -> SUBSET Targets]
          /\ \A w \in Workers : left'[w] \subseteq Members(stage'[w])
      BY <1>2 DEF PanelRestarted, Stages
    <2>2. budget' \in 0..MaxTroubles
      BY <1>2, BudgetTyped DEF PanelRestarted
    <2> QED BY <1>2, <2>1, <2>2 DEF PanelRestarted, TypeOK, fleet
  <1>4. ASSUME NEW w \in Workers, RestartAll(w) PROVE TypeOK'
    <2>1. asks' \in 0..MaxAsks
      BY <1>4, FleetAssumption DEF RestartAll, TypeOK
    <2>2. /\ stage' \in [Workers -> Stages] /\ left' \in [Workers -> SUBSET Targets]
          /\ \A v \in Workers : left'[v] \subseteq Members(stage'[v])
      BY <1>4, StageMembers DEF RestartAll, TypeOK, Stages, Restarts, Targets
    <2>3. clean' \in [Workers -> BOOLEAN]
      BY <1>4 DEF RestartAll, TypeOK
    <2> QED BY <1>4, <2>1, <2>2, <2>3 DEF RestartAll, TypeOK, fleet
  <1>5. Disturbed \in [Workers -> BOOLEAN]
    BY DEF Disturbed, TypeOK
  <1>6. ASSUME NEW w \in Workers, NEW c \in Targets, WorkerRestarts(w, c) PROVE TypeOK'
    <2>1. /\ stage' \in [Workers -> Stages] /\ left' \in [Workers -> SUBSET Targets]
          /\ \A v \in Workers : left'[v] \subseteq Members(stage'[v])
      BY <1>6, StepShape DEF WorkerRestarts
    <2>2. CASE Started(c) /\ UNCHANGED <<clean, budget>>
      BY <1>6, <2>1, <2>2, StartedTyped DEF WorkerRestarts, TypeOK
    <2>3. CASE Trouble /\ clean' = Disturbed /\ UNCHANGED fleet
      BY <1>5, <1>6, <2>1, <2>3, BudgetTyped DEF WorkerRestarts, TypeOK, fleet
    <2> QED BY <1>6, <2>2, <2>3 DEF WorkerRestarts
  <1>7. ASSUME NEW w \in Workers, NEW c \in Targets, WorkerWaits(w, c) PROVE TypeOK'
    <2>1. /\ stage' \in [Workers -> Stages] /\ left' \in [Workers -> SUBSET Targets]
          /\ \A v \in Workers : left'[v] \subseteq Members(stage'[v])
      BY <1>7, StepShape DEF WorkerWaits
    <2> QED BY <1>5, <1>7, <2>1 DEF WorkerWaits, TypeOK, fleet
  <1>8. ASSUME NEW c \in Containers, Restart(c) \/ Start(c) PROVE TypeOK'
    <2>1. c \in Targets /\ Started(c) /\ Trouble /\ clean' = Disturbed /\ UNCHANGED <<stage, left, asks>>
      BY <1>8 DEF Restart, Start
    <2> QED BY <1>5, <2>1, StartedTyped, BudgetTyped DEF TypeOK
  <1>9. ASSUME NEW c \in Containers, Stop(c) PROVE TypeOK'
    <2>1. Panel \in running' /\ healthy' \subseteq running' \cap (Prereqs \cup Providers)
      BY <1>9, Mounts DEF Stop, TypeOK
    <2> QED BY <1>5, <1>9, <2>1, BudgetTyped DEF Stop, TypeOK
  <1>10. ASSUME NEW c \in Containers, BecomesHealthy(c) PROVE TypeOK'
    BY <1>10 DEF BecomesHealthy, TypeOK, work
  <1>11. CASE UNCHANGED vars
    BY <1>11 DEF vars, TypeOK
  <1> QED BY <1>2, <1>4, <1>6, <1>7, <1>8, <1>9, <1>10, <1>11 DEF Next, Work

\* Where a step can go: who is active after it, with which promises.
Fresh == DoneRuns /\ MountComes /\ StalePending

\* A disturbance spoils whoever is under way, so nobody clean is left to promise.
LEMMA DisturbedFresh ==
  ASSUME TypeOK, clean' = Disturbed,
         \A v \in Workers : stage'[v] # stage[v] => stage[v] # "idle"
  PROVE Fresh'
  <1>1. \A v \in Active' : v \in Active /\ ~clean'[v]
    BY DEF Active, Disturbed
  <1> QED BY <1>1 DEF Fresh, DoneRuns, MountComes, StalePending, CleanActive

\* Steps that touch neither the workers nor what runs or is bound.
LEMMA NobodyFresh ==
  ASSUME Fresh, UNCHANGED <<running, mounted, bound, stage, left, clean>>,
         healthy \subseteq healthy'
  PROVE Fresh'
  <1>1. Active' = Active
    BY DEF Active
  <1>2. \A v : Done(v)' = Done(v) /\ Pending(v)' = Pending(v)
    BY OthersKeep
  <1> QED BY <1>1, <1>2 DEF Fresh, DoneRuns, MountComes, StalePending, CleanActive

\* A request that starts its worker promises everything anew.
LEMMA RestartAllFresh ==
  ASSUME TypeOK, Fresh, NEW w \in Workers, RestartAll(w)
  PROVE Fresh'
  <1>1. /\ stage[w] = "idle" /\ stage'[w] = "prereqs" /\ left'[w] = Prereqs
        /\ \A v \in Workers : v # w => stage'[v] = stage[v] /\ left'[v] = left[v] /\ clean'[v] = clean[v]
        /\ UNCHANGED <<running, healthy, mounted, bound>>
    BY DEF RestartAll, TypeOK, fleet, Fresh
  <1>2. w \in Active' /\ \A v \in Active' : v # w => v \in Active
    BY <1>1 DEF Active
  <1>3. Done(w)' = {} /\ Pending(w)' = Binders
    BY <1>1 DEF Done, Pending
  <1>4. DoneRuns'
    BY <1>1, <1>2, <1>3, OthersKeep DEF Fresh, DoneRuns, Active
  <1>5. MountComes' /\ StalePending'
    BY <1>1, <1>2, <1>3 DEF MountComes, StalePending, Early
  <1> QED BY <1>4, <1>5 DEF Fresh

\* Who is under way after a step of one worker was so before.
LEMMA StepActive ==
  ASSUME TypeOK, Fresh, NEW w \in Workers, NEW c \in left[w], Step(w, c)
  PROVE /\ w \in Active /\ Active' \subseteq Active /\ Active \subseteq Active' \cup {w}
  <1>1. /\ stage[w] # "idle"
        /\ \A v \in Workers : v # w => stage'[v] = stage[v] /\ left'[v] = left[v]
    BY StepShape
  <1> QED BY <1>1 DEF Active, Fresh, TypeOK

\* A wait that ends well: the container is healthy, the provider in particular.
LEMMA WaitFresh ==
  ASSUME TypeOK, Fresh, NEW w \in Workers, NEW c \in Targets, WorkerWaits(w, c), c \in healthy
  PROVE Fresh'
  <1>1. /\ c \in left[w] /\ Step(w, c) /\ stage[w] \in Waits
        /\ UNCHANGED <<running, healthy, mounted, bound, clean>>
    BY DEF WorkerWaits, fleet
  <1>2. /\ w \in Active /\ Active' \subseteq Active /\ Active \subseteq Active' \cup {w}
    BY <1>1, StepActive
  <1>3. /\ Done(w)' \subseteq Done(w) /\ Pending(w)' = Pending(w)
        /\ stage[w] \in Early => stage'[w] \in Early \/ (stage[w] = "wait_providers" /\ c = Provider)
        /\ stage'[w] # "idle"
    BY <1>1, StepProgress DEF Waits
  <1>4. w \in Active'
    BY <1>3 DEF Active
  <1>5. \A v \in Workers : v # w => /\ stage'[v] = stage[v] /\ Done(v)' = Done(v)
                                    /\ Pending(v)' = Pending(v)
    BY <1>1, StepShape, OthersKeep
  <1>6. CleanActive' => CleanActive
    BY <1>1, <1>2 DEF CleanActive
  <1>7. DoneRuns'
    BY <1>1, <1>2, <1>3, <1>5 DEF Fresh, DoneRuns, Active
  <1>8. MountComes'
    BY <1>1, <1>2, <1>3, <1>4, <1>5, <1>6 DEF Fresh, MountComes, Active
  <1>9. StalePending'
    BY <1>1, <1>2, <1>3, <1>4, <1>5, <1>6 DEF Fresh, StalePending, Active
  <1> QED BY <1>2, <1>7, <1>8, <1>9 DEF Fresh

\* A container restarted: the provider makes all others stale, and they are ahead of the
\* worker that did it; another binds what the provider has mounted, or is ahead of the
\* worker that waits for the provider.
LEMMA RestartFresh ==
  ASSUME TypeOK, Fresh, NEW w \in Workers, NEW c \in Targets, WorkerRestarts(w, c),
         Started(c), clean' = clean
  PROVE Fresh'
  <1>1. c \in left[w] /\ Step(w, c) /\ stage[w] \in Restarts
    BY DEF WorkerRestarts
  <1>2. /\ w \in Active /\ Active' \subseteq Active /\ Active \subseteq Active' \cup {w}
    BY <1>1, StepActive
  <1>3. /\ Done(w)' \subseteq Done(w) \cup {c} /\ Pending(w) \ {c} \subseteq Pending(w)'
        /\ stage[w] \in Early => stage'[w] \in Early
        /\ stage'[w] \in Early => Pending(w)' = Binders
        /\ stage'[w] = "idle" => stage[w] = "rebind" /\ left[w] = {c}
    <2>1. stage[w] # "wait_providers"
      BY <1>1 DEF Restarts
    <2> QED BY <1>1, <2>1, StepProgress
  <1>4. \A v \in Workers : v # w => /\ stage'[v] = stage[v] /\ Done(v)' = Done(v)
                                    /\ Pending(v)' = Pending(v)
    BY <1>1, StepShape, OthersKeep
  <1>5. CleanActive' => CleanActive
    BY <1>2 DEF CleanActive
  <1>6. running' = running \cup {c} /\ healthy' = healthy \ {c}
    BY DEF Started
  <1>7. DoneRuns'
    BY <1>2, <1>3, <1>4, <1>6 DEF Fresh, DoneRuns, Active
  <1>8. w \in Active' \/ Pending(w) \subseteq {c}
    BY <1>3 DEF Active, Pending
  <1>9. \A v \in Active : stage[v] \in Early => v \in Active' /\ stage'[v] \in Early
    BY <1>3, <1>4 DEF Active, Early
  <1>10. CASE c = Provider
    <2>1. stage[w] = "providers"
      <3>1. c \in Members(stage[w]) /\ stage[w] \in {"prereqs", "providers", "rest", "dependents", "rebind"}
        BY <1>1, StepShape DEF Restarts
      <3> QED BY <1>10, <3>1, StageMembers, Mounts, FleetAssumption
    <2>2. stage'[w] \in Early /\ w \in Active'
      BY <1>2, <1>3, <2>1 DEF Early, Active
    <2>3. Pending(w)' = Binders
      BY <1>3, <2>2
    <2> QED BY <1>2, <1>7, <2>2, <2>3 DEF Fresh, MountComes, StalePending
  <1>11. CASE c # Provider
    <2>1. mounted' = mounted
      BY <1>11 DEF Started
    <2>2. MountComes'
      BY <1>5, <1>6, <1>9, <1>11 DEF Fresh, MountComes
    <2>3. StalePending'
      <3> SUFFICES ASSUME CleanActive', NEW d \in Binders
                   PROVE bound'[d] = mounted' \/ \E v \in Active' : d \in Pending(v)'
        BY DEF StalePending
      <3>1. CASE d = c
        <4>1. bound'[d] = Mount
          BY <3>1 DEF Started, TypeOK
        <4>2. CASE Provider \in healthy
          BY <2>1, <4>1, <4>2 DEF Mount
        <4>3. CASE Provider \notin healthy
          <5>1. PICK v \in Active : stage[v] \in Early
            BY <1>5, <4>3 DEF Fresh, MountComes
          <5>2. v \in Active' /\ stage'[v] \in Early
            BY <1>9, <5>1
          <5>3. Pending(v)' = Binders
            BY <5>2 DEF Pending, Early
          <5> QED BY <5>2, <5>3
        <4> QED BY <4>2, <4>3
      <3>2. CASE d # c
        <4>1. bound'[d] = bound[d]
          BY <3>2 DEF Started, TypeOK
        <4>2. CASE bound[d] = mounted
          BY <2>1, <4>1, <4>2
        <4>3. ASSUME NEW v \in Active, d \in Pending(v)
              PROVE \E u \in Active' : d \in Pending(u)'
          <5>1. v \in Active'
            BY <1>2, <1>8, <3>2, <4>3
          <5>2. d \in Pending(v)'
            BY <1>3, <1>4, <3>2, <4>3 DEF Active
          <5> QED BY <5>1, <5>2
        <4> QED BY <1>5, <4>2, <4>3 DEF Fresh, StalePending
      <3> QED BY <3>1, <3>2
    <2> QED BY <1>2, <1>7, <2>2, <2>3 DEF Fresh
  <1> QED BY <1>10, <1>11

\* Every step keeps the consumers accounted for: a stale one still has its restart to come.
LEMMA FreshStep == ASSUME TypeOK, Fresh, [Next]_vars PROVE Fresh'
  <1>2. ASSUME PanelRestarted PROVE Fresh'
    <2>1. Active' = {}
      BY <1>2 DEF PanelRestarted, Active
    <2> QED BY <2>1 DEF Fresh, DoneRuns, MountComes, StalePending, CleanActive
  <1>4. ASSUME NEW w \in Workers, RestartAll(w) PROVE Fresh'
    BY <1>4, RestartAllFresh
  <1>5. ASSUME NEW w \in Workers, NEW c \in Targets, Step(w, c), c \in left[w],
               clean' = Disturbed
        PROVE Fresh'
    <2>1. \A v \in Workers : stage'[v] # stage[v] => stage[v] # "idle"
      BY <1>5, StepShape
    <2> QED BY <1>5, <2>1, DisturbedFresh DEF Fresh
  <1>6. ASSUME NEW w \in Workers, NEW c \in Targets, WorkerRestarts(w, c) PROVE Fresh'
    BY <1>5, <1>6, RestartFresh DEF WorkerRestarts
  <1>7. ASSUME NEW w \in Workers, NEW c \in Targets, WorkerWaits(w, c) PROVE Fresh'
    BY <1>5, <1>7, WaitFresh DEF WorkerWaits
  <1>8. ASSUME NEW c \in Containers, Restart(c) \/ Stop(c) \/ Start(c) PROVE Fresh'
    BY <1>8, DisturbedFresh DEF Restart, Stop, Start, Fresh
  <1>9. ASSUME NEW c \in Containers, BecomesHealthy(c) PROVE Fresh'
    BY <1>9, NobodyFresh DEF BecomesHealthy, work, Fresh
  <1>10. CASE UNCHANGED vars
    BY <1>10, NobodyFresh DEF vars, Fresh
  <1> QED BY <1>2, <1>4, <1>6, <1>7, <1>8, <1>9, <1>10 DEF Next, Work

\* Every step keeps the invariant.
LEMMA NextIInv == IInv /\ [Next]_vars => IInv'
  BY TypeStep, FreshStep DEF IInv, Fresh

\* The invariant, for any stack and workers.
THEOREM Invariance == Spec => []IInv
  BY InitIInv, NextIInv, PTL DEF Spec

-----------------------------------------------------------------------------
\* Theorems

\* Type correctness, for any stack and workers.
THEOREM TypeCorrect == Spec => []TypeOK
  <1>1. IInv => TypeOK
    BY DEF IInv
  <1> QED BY <1>1, Invariance, PTL

\* The step with which a worker ends clean.
LEMMA LastStep ==
  ASSUME IInv, [Next]_vars, NEW w \in Active, stage'[w] = "idle", clean'[w]
  PROVE \E c \in Prereqs : /\ left[w] = {c} /\ Started(c) /\ clean' = clean
                           /\ stage[w] = "rebind"
  <1>1. stage[w] # "idle" /\ w \in Workers /\ TypeOK
    BY DEF Active, IInv
  <1>2. ~PanelRestarted
    BY <1>1 DEF PanelRestarted
  <1>3. ASSUME NEW c \in left[w], Step(w, c) PROVE stage[w] = "rebind" /\ left[w] = {c} /\ c \in Prereqs
    BY <1>1, <1>3, StepProgress
  <1>4. ~Disturbed[w]
    BY <1>1 DEF Disturbed
  <1>5. ASSUME NEW v \in Workers, NEW c \in Targets, WorkerRestarts(v, c) \/ WorkerWaits(v, c)
        PROVE v = w /\ WorkerRestarts(v, c) /\ Started(c) /\ clean' = clean
    <2>1. c \in left[v] /\ Step(v, c)
      BY <1>5 DEF WorkerRestarts, WorkerWaits
    <2>2. v = w
      BY <1>1, <2>1, StepShape
    <2>3. stage[w] = "rebind"
      BY <1>3, <2>1, <2>2
    <2> QED BY <1>4, <1>5, <2>2, <2>3 DEF WorkerRestarts, WorkerWaits, Waits
  <1>6. ASSUME NEW v \in Workers, RestartAll(v) PROVE FALSE
    BY <1>1, <1>6 DEF RestartAll, IInv, TypeOK
  <1>7. PICK v \in Workers, c \in Targets : WorkerRestarts(v, c) \/ WorkerWaits(v, c)
    BY <1>1, <1>2, <1>6
    DEF Next, Work, Restart, Stop, Start, BecomesHealthy, work, vars
  <1> QED BY <1>3, <1>5, <1>7 DEF WorkerRestarts

\* No container is left down by a restart-all that ends clean (services/host/router.py:
\* 147-199): also what was stopped before it runs again.
THEOREM AllUp == Spec => EverythingUp
  <1>1. ASSUME IInv, [Next]_vars, NEW w \in Active, stage'[w] = "idle", clean'[w]
        PROVE running' = Containers
    <2>1. PICK c \in Prereqs : left[w] = {c} /\ Started(c) /\ clean' = clean /\ stage[w] = "rebind"
      BY <1>1, LastStep
    <2>2. Done(w) \subseteq running /\ Done(w) = Targets
      BY <1>1, <2>1 DEF IInv, DoneRuns, Done
    <2>3. running \subseteq running' /\ Panel \in running
      BY <1>1, <2>1 DEF Started, IInv, TypeOK
    <2>4. running' \subseteq Containers
      BY <1>1, TypeStep DEF IInv, TypeOK
    <2> QED BY <2>2, <2>3, <2>4 DEF Containers
  <1>2. IInv /\ [Next]_vars =>
          [\A w \in Active : stage'[w] = "idle" /\ clean'[w] => running' = Containers]_vars
    BY <1>1
  <1> QED BY <1>2, Invariance, PTL DEF Spec, EverythingUp

\* When the last restart-all under way ends clean, every container that uses the mount is
\* bound to the instance the provider has now, however many went through the stages at the
\* same time (services/host/router.py:160-196).
THEOREM MountsFresh == Spec => FreshAfterRestartAll
  <1>1. ASSUME IInv, [Next]_vars, NEW w \in Active, stage'[w] = "idle", Active = {w}, clean'[w],
               NEW d \in Binders
        PROVE bound'[d] = mounted'
    <2>1. PICK c \in Prereqs : left[w] = {c} /\ Started(c) /\ clean' = clean /\ stage[w] = "rebind"
      BY <1>1, LastStep
    <2>2. CleanActive /\ w \in Workers
      BY <1>1, <2>1 DEF CleanActive, Active
    <2>3. Provider \in healthy
      BY <1>1, <2>1, <2>2 DEF IInv, MountComes, Early
    <2>4. Pending(w) = {c}
      BY <2>1 DEF Pending
    <2>5. mounted' = mounted /\ c \in Binders
      BY <2>1, Mounts DEF Started, Binders
    <2>6. bound \in [Binders -> 0..mounted]
      BY <1>1 DEF IInv, TypeOK
    <2>7. CASE d = c
      BY <2>1, <2>3, <2>5, <2>6, <2>7 DEF Started, Mount
    <2>8. CASE d # c
      <3>1. bound[d] = mounted
        BY <1>1, <2>2, <2>4, <2>8 DEF IInv, StalePending
      <3> QED BY <2>1, <2>5, <2>6, <2>8, <3>1 DEF Started
    <2> QED BY <2>7, <2>8
  <1>2. IInv /\ [Next]_vars =>
          [\A w \in Active : stage'[w] = "idle" /\ Active = {w} /\ clean'[w]
             => \A c \in Binders : bound'[c] = mounted']_vars
    BY <1>1
  <1> QED BY <1>2, Invariance, PTL DEF Spec, FreshAfterRestartAll

-----------------------------------------------------------------------------
\* The rate limit

Appenders == {t \in Threads : line[t] = "append"}

\* What is no longer listed was too old for whoever dropped it, or is in the history.
Dropped == \A i \in 1..(head - 1) : i \in taken \/ admitted[i] < clock - WindowSeconds

\* What is listed, or about to be: all that compared saw less than the limit.
Listing == Len(admitted) - head + 1 + Cardinality(Appenders) <= MaxRequests + crowd - 1

\* A thread that is alone drops the head that it looked at.
DropsOwn == crowd = 1 => /\ taken = {}
                      /\ \A t \in Threads : line[t] = "pop" => List # {} /\ TooOld(t, head)

LimitInv == LimitTypeOK /\ Dropped /\ Listing /\ DropsOwn

\* The threads in the check are so many, and who appends is among them.
LEMMA Crowds ==
  ASSUME LimitTypeOK
  PROVE  /\ IsFiniteSet(Inside) /\ IsFiniteSet(Appenders)
         /\ Cardinality(Inside) \in Nat /\ Cardinality(Appenders) \in Nat
         /\ Cardinality(Appenders) <= Cardinality(Inside)
         /\ Len(admitted) \in Nat /\ head \in Nat /\ crowd \in Nat
  <1>1. IsFiniteSet(Inside)
    BY LimitAssumption, FS_Subset DEF Inside
  <1>2. Appenders \subseteq Inside
    BY DEF Appenders, Inside
  <1>3. IsFiniteSet(Appenders) /\ Cardinality(Appenders) <= Cardinality(Inside)
    BY <1>1, <1>2, FS_Subset
  <1>4. Len(admitted) \in Nat /\ head \in Nat /\ crowd \in Nat
    BY DEF LimitTypeOK
  <1> QED BY <1>1, <1>3, <1>4, FS_CardinalityType

\* When at most one thread was inside at once, two that are inside are the same.
LEMMA OneInside ==
  ASSUME LimitTypeOK, crowd = 1, NEW t \in Inside, NEW u \in Inside
  PROVE  t = u
  <1>1. IsFiniteSet(Inside) /\ Cardinality(Inside) <= 1 /\ Cardinality(Inside) \in Nat
    BY Crowds DEF LimitTypeOK
  <1>2. Cardinality(Inside \ {t}) = Cardinality(Inside) - 1 /\ IsFiniteSet(Inside \ {t})
    BY <1>1, FS_RemoveElement
  <1>3. Cardinality(Inside \ {t}) \in Nat
    BY <1>2, FS_CardinalityType
  <1>4. Cardinality(Inside \ {t}) = 0
    BY <1>1, <1>2, <1>3
  <1> QED BY <1>2, <1>4, FS_EmptySet

\* The check of the limit starts with nothing listed and nobody inside.
LEMMA LimitStarts == LimitInit => LimitInv
  <1> SUFFICES ASSUME LimitInit PROVE LimitInv
    OBVIOUS
  <1>1. Inside = {} /\ Appenders = {} /\ Cardinality({}) = 0
    BY FS_EmptySet DEF LimitInit, Inside, Appenders
  <1>2. admitted = <<>> /\ Len(admitted) = 0 /\ head = 1 /\ crowd = 1 /\ taken = {} /\ clock = 0
    BY DEF LimitInit
  <1>3. admitted \in Seq(0..clock) /\ taken \subseteq 1..(head - 1)
    BY <1>2
  <1>4. LimitTypeOK
    BY <1>1, <1>2, <1>3, LimitAssumption DEF LimitInit, LimitTypeOK, Lines
  <1>5. Dropped /\ Listing
    BY <1>1, <1>2, LimitAssumption DEF Dropped, Listing
  <1>6. DropsOwn
    BY <1>2 DEF LimitInit, DropsOwn
  <1> QED BY <1>4, <1>5, <1>6 DEF LimitInv

\* A new panel starts like the head one.
LEMMA LimitStartsAgain == ASSUME LimitInv, PanelStarts PROVE LimitInv'
  <1>1. Inside' = {} /\ Appenders' = {} /\ Cardinality({}) = 0
    BY FS_EmptySet DEF PanelStarts, Inside, Appenders
  <1>2. /\ admitted' = <<>> /\ Len(admitted') = 0 /\ head' = 1 /\ crowd' = 1 /\ taken' = {}
        /\ clock' = clock /\ clock \in 0..MaxClock
    BY DEF PanelStarts, LimitInv, LimitTypeOK
  <1>3. admitted' \in Seq(0..clock') /\ taken' \subseteq 1..(head' - 1)
    BY <1>2
  <1>4. LimitTypeOK'
    BY <1>1, <1>2, <1>3, LimitAssumption DEF PanelStarts, LimitTypeOK, Lines
  <1>5. Dropped' /\ Listing'
    BY <1>1, <1>2, LimitAssumption DEF Dropped, Listing
  <1>6. DropsOwn'
    BY <1>2 DEF PanelStarts, DropsOwn
  <1> QED BY <1>4, <1>5, <1>6 DEF LimitInv

\* A thread begins, and nothing is dropped or listed by that.
LEMMA LookKeeps == ASSUME LimitInv, NEW t \in Threads, Look(t) PROVE LimitInv'
  <1>1. LimitTypeOK /\ line[t] = "idle" /\ t \notin Inside
    BY DEF LimitInv, LimitTypeOK, Look, Inside
  <1>2. /\ line' = [line EXCEPT ![t] = "while"] /\ looked' = [looked EXCEPT ![t] = clock]
        /\ UNCHANGED <<clock, admitted, head, taken>>
        /\ crowd' = IF Cardinality(Inside) = crowd THEN crowd + 1 ELSE crowd
    BY DEF Look, Go
  <1>3. Inside' = Inside \cup {t} /\ Appenders' = Appenders
    BY <1>1, <1>2 DEF Inside, Appenders, LimitTypeOK
  <1>4. Cardinality(Inside') = Cardinality(Inside) + 1
    BY <1>1, <1>3, Crowds, FS_AddElement
  <1>5. crowd' \in Nat /\ crowd <= crowd' /\ Cardinality(Inside') <= crowd'
    BY <1>1, <1>2, <1>4, Crowds DEF LimitTypeOK
  <1>6. LimitTypeOK'
    BY <1>1, <1>2, <1>5, Crowds DEF LimitTypeOK, Lines
  <1>7. Dropped' /\ Listing'
    <2>1. Dropped'
      BY <1>2 DEF LimitInv, Dropped
    <2>2. Len(admitted) - head + 1 + Cardinality(Appenders) <= MaxRequests + crowd - 1
      BY DEF LimitInv, Listing
    <2>3. Len(admitted) - head + 1 + Cardinality(Appenders) <= MaxRequests + crowd' - 1
      <3>1. Len(admitted) \in Nat /\ head \in Nat /\ crowd \in Nat /\ Cardinality(Appenders) \in Nat /\ MaxRequests \in Nat
        BY <1>1, Crowds, LimitAssumption
      <3>2. crowd' \in Nat /\ crowd <= crowd'
        BY <1>5
      <3> QED BY <2>2, <3>1, <3>2
    <2> QED BY <1>2, <1>3, <2>1, <2>3 DEF Listing
  <1>8. ASSUME crowd' = 1 PROVE taken' = {} /\ \A u \in Threads : line'[u] # "pop"
    <2>1. crowd = 1 /\ Cardinality(Inside) = 0
      BY <1>1, <1>2, <1>4, <1>5, <1>8, Crowds DEF LimitTypeOK
    <2>2. Inside = {}
      BY <1>1, <2>1, Crowds, FS_EmptySet
    <2> QED BY <1>1, <1>2, <2>1, <2>2 DEF LimitInv, DropsOwn, Inside, LimitTypeOK
  <1>9. DropsOwn'
    BY <1>8 DEF DropsOwn
  <1> QED BY <1>6, <1>7, <1>9 DEF LimitInv

\* What a thread reads of the list changes where it is, and who appends.
LEMMA ReadKeeps ==
  ASSUME LimitInv, NEW t \in Threads, While(t) \/ TestHead(t) \/ Compare(t)
  PROVE  LimitInv'
  <1>1. LimitTypeOK /\ t \in Inside
    BY DEF LimitInv, While, TestHead, Compare, Inside
  <1>2. PICK to \in Lines :
          /\ line' = [line EXCEPT ![t] = to] /\ UNCHANGED <<clock, looked, admitted, head, taken, crowd>>
          /\ to = "pop" => List # {} /\ TooOld(t, head)
          /\ to = "append" => Len(admitted) - head + 1 < MaxRequests
    <2>1. Len(admitted) - head + 1 \in Int /\ MaxRequests \in Nat
      BY <1>1, Crowds, LimitAssumption
    <2>2. CASE While(t)
      BY <2>2 DEF While, Go, Listed, Lines
    <2>3. CASE TestHead(t)
      BY <2>3 DEF TestHead, Go, Listed, Lines
    <2>4. CASE Compare(t)
      <3>1. CASE Len(admitted) - head + 1 >= MaxRequests
        <4>1. line' = [line EXCEPT ![t] = "idle"] /\ Listed
          BY <2>4, <3>1 DEF Compare, Go
        <4> QED BY <4>1 DEF Listed, Lines
      <3>2. CASE ~(Len(admitted) - head + 1 >= MaxRequests)
        <4>1. line' = [line EXCEPT ![t] = "append"] /\ Listed
          BY <2>4, <3>2 DEF Compare, Go
        <4>2. Len(admitted) - head + 1 < MaxRequests
          BY <2>1, <3>2
        <4> QED BY <4>1, <4>2 DEF Listed, Lines
      <3> QED BY <3>1, <3>2
    <2> QED BY <2>2, <2>3, <2>4
  <1>3. Inside' \subseteq Inside
    BY <1>1, <1>2 DEF Inside, LimitTypeOK
  <1>4. IsFiniteSet(Inside') /\ Cardinality(Inside') \in Nat /\ Cardinality(Inside') <= Cardinality(Inside)
    BY <1>1, <1>3, Crowds, FS_Subset, FS_CardinalityType
  <1>5. LimitTypeOK'
    BY <1>1, <1>2, <1>4, Crowds DEF LimitTypeOK
  <1>6. Dropped'
    BY <1>2 DEF LimitInv, Dropped
  <1>7. Listing'
    <2>1. CASE to = "append"
      <3>1. Cardinality(Appenders') <= crowd' /\ Cardinality(Appenders') \in Nat /\ crowd' \in Nat
        <4>1. Appenders' \subseteq Inside'
          BY DEF Appenders, Inside
        <4>2. IsFiniteSet(Appenders') /\ Cardinality(Appenders') <= Cardinality(Inside')
          BY <1>4, <4>1, FS_Subset
        <4>3. Cardinality(Appenders') \in Nat
          BY <4>2, FS_CardinalityType
        <4> QED BY <1>4, <1>5, <4>2, <4>3 DEF LimitTypeOK
      <3> QED BY <1>1, <1>2, <2>1, <3>1, Crowds, LimitAssumption DEF Listing
    <2>2. CASE to # "append"
      <3>1. Appenders' \subseteq Appenders
        BY <1>1, <1>2, <2>2 DEF Appenders, LimitTypeOK
      <3>2. IsFiniteSet(Appenders') /\ Cardinality(Appenders') <= Cardinality(Appenders)
        BY <1>1, <3>1, Crowds, FS_Subset
      <3>3. Cardinality(Appenders') \in Nat
        BY <3>2, FS_CardinalityType
      <3> QED BY <1>1, <1>2, <3>2, <3>3, Crowds, LimitAssumption DEF LimitInv, Listing
    <2> QED BY <2>1, <2>2
  <1>8. DropsOwn'
    <2> SUFFICES ASSUME crowd' = 1, NEW u \in Threads, line'[u] = "pop"
                 PROVE  List' # {} /\ TooOld(u, head)'
      BY <1>2 DEF LimitInv, DropsOwn
    <2>1. CASE u = t
      BY <1>1, <1>2, <2>1 DEF LimitTypeOK, List, TooOld
    <2>2. CASE u # t
      BY <1>1, <1>2, <2>2 DEF LimitInv, DropsOwn, LimitTypeOK, List, TooOld
    <2> QED BY <2>1, <2>2
  <1> QED BY <1>5, <1>6, <1>7, <1>8 DEF LimitInv

\* A thread drops the head, and the history tells when it was not too old for it.
LEMMA PopKeeps == ASSUME LimitInv, NEW t \in Threads, Pop(t) PROVE LimitInv'
  <1>1. LimitTypeOK /\ t \in Inside /\ line[t] = "pop"
    BY DEF LimitInv, Pop, Inside
  <1>2. /\ UNCHANGED <<clock, looked, admitted, crowd>>
        /\ \E to \in {"idle", "while"} : line' = [line EXCEPT ![t] = to]
    BY DEF Pop, Go
  <1>3. Inside' \subseteq Inside /\ Appenders' = Appenders /\ \A u \in Threads : u # t => line'[u] = line[u]
    BY <1>1, <1>2 DEF Inside, Appenders, LimitTypeOK
  <1>4. IsFiniteSet(Inside') /\ Cardinality(Inside') \in Nat /\ Cardinality(Inside') <= Cardinality(Inside)
    BY <1>1, <1>3, Crowds, FS_Subset, FS_CardinalityType
  <1>5. line' \in [Threads -> Lines]
    BY <1>1, <1>2 DEF LimitTypeOK, Lines
  <1>6. \A u \in Threads : line'[u] = "pop" => crowd # 1
    <2> SUFFICES ASSUME NEW u \in Threads, line'[u] = "pop", crowd = 1 PROVE FALSE
      OBVIOUS
    <2>1. u # t
      BY <1>1, <1>2 DEF LimitTypeOK
    <2>2. u \in Inside
      BY <1>3, <2>1 DEF Inside
    <2> QED BY <1>1, <2>1, <2>2, OneInside
  <1>7. CASE List = {}
    <2>1. UNCHANGED <<head, taken>>
      BY <1>7 DEF Pop
    <2>2. LimitTypeOK'
      BY <1>1, <1>2, <1>4, <1>5, <2>1, Crowds DEF LimitTypeOK
    <2>3. Dropped' /\ Listing'
      BY <1>2, <1>3, <2>1 DEF LimitInv, Dropped, Listing
    <2>4. DropsOwn'
      BY <1>2, <1>6, <2>1 DEF LimitInv, DropsOwn
    <2> QED BY <2>2, <2>3, <2>4 DEF LimitInv
  <1>8. CASE List # {}
    <2>1. head' = head + 1 /\ taken' = IF TooOld(t, head) THEN taken ELSE taken \cup {head}
      BY <1>8 DEF Pop
    <2>2. head <= Len(admitted)
      BY <1>1, <1>8, Crowds DEF List
    <2>3. TooOld(t, head) => admitted[head] < clock - WindowSeconds
      <3>1. looked[t] \in 0..clock /\ clock \in Nat /\ WindowSeconds \in Nat
        BY <1>1, LimitAssumption DEF LimitTypeOK
      <3>2. admitted[head] \in 0..clock
        BY <1>1, <2>2, Crowds DEF LimitTypeOK
      <3> QED BY <3>1, <3>2 DEF TooOld
    <2>4. LimitTypeOK'
      <3>1. head' \in 1..(Len(admitted) + 1) /\ taken' \subseteq 1..(head' - 1)
        BY <1>1, <2>1, <2>2, Crowds DEF LimitTypeOK
      <3>2. clock' \in 0..MaxClock /\ looked' \in [Threads -> 0..clock'] /\ admitted' \in Seq(0..clock')
        BY <1>1, <1>2 DEF LimitTypeOK
      <3>3. head' \in 1..(Len(admitted') + 1) /\ taken' \subseteq 1..(head' - 1)
        BY <1>2, <3>1
      <3>4. crowd' \in Nat /\ Cardinality(Inside') <= crowd' /\ 1 <= crowd'
        BY <1>1, <1>2, <1>4, Crowds DEF LimitTypeOK
      <3> QED BY <1>5, <3>2, <3>3, <3>4 DEF LimitTypeOK
    <2>5. Dropped'
      <3> SUFFICES ASSUME NEW i \in 1..(head' - 1)
                   PROVE  i \in taken' \/ admitted[i] < clock - WindowSeconds
        BY <1>2 DEF Dropped
      <3>1. i \in 1..(head - 1) \/ i = head
        BY <1>1, <2>1, Crowds
      <3> QED BY <2>1, <2>3, <3>1 DEF LimitInv, Dropped
    <2>6. Listing'
      <3>1. Len(admitted) - head + 1 + Cardinality(Appenders) <= MaxRequests + crowd - 1
        BY DEF LimitInv, Listing
      <3>2. Len(admitted) - (head + 1) + 1 + Cardinality(Appenders) <= MaxRequests + crowd - 1
        <4>1. Len(admitted) \in Nat /\ head \in Nat /\ crowd \in Nat /\ Cardinality(Appenders) \in Nat /\ MaxRequests \in Nat
          BY <1>1, Crowds, LimitAssumption
        <4> QED BY <3>1, <4>1
      <3> QED BY <1>2, <1>3, <2>1, <3>2 DEF Listing
    <2>7. DropsOwn'
      BY <1>1, <1>2, <1>6, <2>1 DEF LimitInv, DropsOwn
    <2> QED BY <2>4, <2>5, <2>6, <2>7 DEF LimitInv
  <1> QED BY <1>7, <1>8

\* A request that is let through is listed with the time that it looked.
LEMMA AdmitKeeps == ASSUME LimitInv, NEW t \in Threads, Admit(t) PROVE LimitInv'
  <1>1. LimitTypeOK /\ t \in Inside /\ t \in Appenders
    BY DEF LimitInv, Admit, Inside, Appenders
  <1>2. /\ line' = [line EXCEPT ![t] = "idle"] /\ UNCHANGED <<clock, looked, head, taken, crowd>>
        /\ admitted' = Append(admitted, looked[t])
    BY DEF Admit, Go
  <1>3. Inside' \subseteq Inside /\ Appenders' = Appenders \ {t}
    BY <1>1, <1>2 DEF Inside, Appenders, LimitTypeOK
  <1>4. IsFiniteSet(Inside') /\ Cardinality(Inside') \in Nat /\ Cardinality(Inside') <= Cardinality(Inside)
    BY <1>1, <1>3, Crowds, FS_Subset, FS_CardinalityType
  <1>5. Cardinality(Appenders') = Cardinality(Appenders) - 1
    BY <1>1, <1>3, Crowds, FS_RemoveElement
  <1>6. /\ admitted' \in Seq(0..clock) /\ Len(admitted') = Len(admitted) + 1
        /\ \A i \in 1..Len(admitted) : admitted'[i] = admitted[i]
    <2>1. admitted \in Seq(0..clock) /\ looked[t] \in 0..clock
      BY <1>1 DEF LimitTypeOK
    <2> QED BY <1>2, <2>1, AppendProperties
  <1>7. LimitTypeOK'
    BY <1>1, <1>2, <1>4, <1>6, Crowds DEF LimitTypeOK, Lines
  <1>8. Dropped'
    <2> SUFFICES ASSUME NEW i \in 1..(head - 1)
                 PROVE  i \in taken \/ admitted'[i] < clock - WindowSeconds
      BY <1>2 DEF Dropped
    <2>1. i \in 1..Len(admitted)
      BY <1>1, Crowds DEF LimitTypeOK
    <2> QED BY <1>6, <2>1 DEF LimitInv, Dropped
  <1>9. Listing'
    BY <1>1, <1>2, <1>5, <1>6, Crowds, LimitAssumption DEF LimitInv, Listing
  <1>10. DropsOwn'
    <2> SUFFICES ASSUME crowd' = 1, NEW u \in Threads, line'[u] = "pop" PROVE FALSE
      BY <1>2 DEF LimitInv, DropsOwn
    <2>1. u # t /\ u \in Inside
      BY <1>1, <1>2 DEF Inside, LimitTypeOK
    <2> QED BY <1>1, <1>2, <2>1, OneInside
  <1> QED BY <1>7, <1>8, <1>9, <1>10 DEF LimitInv

\* As the clock goes on, what was too old stays so.
LEMMA TickKeeps == ASSUME LimitInv, Tick PROVE LimitInv'
  <1>1. LimitTypeOK /\ clock' = clock + 1 /\ clock' \in 0..MaxClock
        /\ UNCHANGED <<line, looked, admitted, head, taken, crowd>>
    BY LimitAssumption DEF LimitInv, LimitTypeOK, Tick
  <1>2. looked' \in [Threads -> 0..clock'] /\ admitted' \in Seq(0..clock')
    <2>1. \A n \in 0..clock : n \in 0..clock'
      BY <1>1 DEF LimitTypeOK
    <2>2. \A i \in 1..Len(admitted) : admitted[i] \in 0..clock'
      BY <1>1, <2>1 DEF LimitTypeOK
    <2>3. admitted \in [1..Len(admitted) -> 0..clock'] /\ Len(admitted) \in Nat
      BY <1>1, <2>2 DEF LimitTypeOK
    <2>4. admitted \in Seq(0..clock')
      BY <2>3, SeqDef
    <2> QED BY <1>1, <2>1, <2>4 DEF LimitTypeOK
  <1>3. LimitTypeOK'
    BY <1>1, <1>2 DEF LimitTypeOK, Inside
  <1>4. Dropped'
    <2> SUFFICES ASSUME NEW i \in 1..(head - 1), i \notin taken
                 PROVE  admitted[i] < clock' - WindowSeconds
      BY <1>1 DEF Dropped
    <2>1. admitted[i] \in 0..clock
      BY <1>1, Crowds DEF LimitTypeOK
    <2>2. admitted[i] < clock - WindowSeconds
      BY DEF LimitInv, Dropped
    <2> QED BY <1>1, <2>1, <2>2, LimitAssumption DEF LimitTypeOK
  <1>5. Listing' /\ DropsOwn'
    BY <1>1 DEF LimitInv, Listing, DropsOwn, Appenders, List, TooOld
  <1> QED BY <1>3, <1>4, <1>5 DEF LimitInv

\* Every step of the check keeps it.
LEMMA LimitStep == LimitInv /\ [LimitNext]_limitVars => LimitInv'
  <1> SUFFICES ASSUME LimitInv, [LimitNext]_limitVars PROVE LimitInv'
    OBVIOUS
  <1>1. CASE UNCHANGED limitVars
    BY <1>1 DEF limitVars, LimitInv, LimitTypeOK, Dropped, Listing, DropsOwn, Inside, Appenders, List, TooOld
  <1> QED BY <1>1, LimitStartsAgain, LookKeeps, ReadKeeps, PopKeeps, AdmitKeeps, TickKeeps DEF LimitNext

\* For any limit, window and threads: a client whose requests are never in the check together
\* gets max_requests in any window; requests that are, one more for each of them but one and
\* for each time that one of them dropped in place of another (rate_limit.py:33-53).
THEOREM LimitKeeps == LimitSpec => []LimitHolds
  <1>1. ASSUME LimitInv PROVE LimitHolds
    <2>1. LimitTypeOK
      BY <1>1 DEF LimitInv
    <2> DEFINE held == Current \cap taken
    <2>2. Current \subseteq List \cup held
      BY <1>1, <2>1, Crowds, LimitAssumption DEF LimitInv, Dropped, Current, List, LimitTypeOK
    <2>3. IsFiniteSet(List) /\ Cardinality(List) = Len(admitted) - head + 1
      <3>1. head <= Len(admitted) + 1
        BY <2>1 DEF LimitTypeOK
      <3>2. head \in Int /\ Len(admitted) \in Int
        BY <2>1, Crowds
      <3>3. IsFiniteSet(List) /\ Cardinality(List) = IF head > Len(admitted) THEN 0 ELSE Len(admitted) - head + 1
        BY <3>2, FS_Interval DEF List
      <3> QED BY <3>1, <3>2, <3>3
    <2>4. IsFiniteSet(held)
      <3>1. held \subseteq 1..Len(admitted)
        BY DEF Current
      <3>2. IsFiniteSet(1..Len(admitted))
        BY <2>1, Crowds, FS_Interval
      <3> QED BY <3>1, <3>2, FS_Subset
    <2> HIDE DEF held
    <2>5. Cardinality(held) \in Nat /\ Cardinality(List \cap held) \in Nat
          /\ IsFiniteSet(List \cup held)
          /\ Cardinality(List \cup held) = Cardinality(List) + Cardinality(held) - Cardinality(List \cap held)
      <3>1. IsFiniteSet(List \cap held)
        BY <2>3, FS_Intersection
      <3> QED BY <2>3, <2>4, <3>1, FS_Union, FS_CardinalityType
    <2>6. Cardinality(Current) <= Cardinality(List \cup held) /\ IsFiniteSet(Current)
      BY <2>2, <2>5, FS_Subset
    <2>7. Cardinality(Current) \in Nat
      BY <2>6, FS_CardinalityType
    <2>8. Cardinality(Current) <= MaxRequests + (crowd - 1) + Cardinality(held)
      <3>1. Len(admitted) - head + 1 + Cardinality(Appenders) <= MaxRequests + crowd - 1
        BY <1>1 DEF LimitInv, Listing
      <3>2. Len(admitted) - head + 1 <= MaxRequests + (crowd - 1)
        BY <2>1, <3>1, Crowds, LimitAssumption
      <3>3. Cardinality(Current) <= Cardinality(List) + Cardinality(held)
        BY <2>1, <2>3, <2>5, <2>6, <2>7, Crowds
      <3>4. Cardinality(List) <= MaxRequests + (crowd - 1)
        BY <2>3, <3>2
      <3>5. MaxRequests \in Nat /\ crowd \in Nat /\ Cardinality(List) \in Int
        BY <2>1, <2>3, Crowds, LimitAssumption
      <3> QED BY <2>5, <2>7, <3>3, <3>4, <3>5
    <2>9. crowd = 1 => taken = {}
      BY <1>1 DEF LimitInv, DropsOwn
    <2> QED BY <2>8, <2>9 DEF LimitHolds, held
  <1> QED BY <1>1, LimitStarts, LimitStep, PTL DEF LimitSpec

-----------------------------------------------------------------------------
(* The software catalog: the worlds that the calls of requests lead to.    *)
\* Every set of natural numbers that is not empty has a least one.
LEMMA LeastIndex ==
  ASSUME NEW S \in SUBSET Nat, S # {}
  PROVE  \E n \in S : \A k \in S : n <= k
<1>1. PICK n \in S : \A k \in S : ~(<<k, n>> \in OpToRel(<, Nat))
  BY NatLessThanWellFounded, WFMin
<1>2. \A k \in S : ~(k < n)
  BY <1>1 DEF OpToRel
<1>3. QED
  BY <1>2

\* What holds at first and from one place to the next holds at every place.
LEMMA Throughout ==
  ASSUME NEW len \in Nat, NEW Good, 0 \in Good,
         \A n \in 1..len : n - 1 \in Good => n \in Good
  PROVE  \A n \in 0..len : n \in Good
<1> DEFINE Bad == {n \in 0..len : n \notin Good}
<1> SUFFICES ASSUME Bad # {} PROVE FALSE
  OBVIOUS
<1>1. PICK n \in Bad : \A k \in Bad : n <= k
  <2>1. Bad \in SUBSET Nat
    OBVIOUS
  <2> HIDE DEF Bad
  <2>2. QED
    BY <2>1, LeastIndex
<1>2. n # 0 /\ n \in 1..len /\ n - 1 \in 0..len
  OBVIOUS
<1>3. n - 1 \notin Bad
  BY <1>1, <1>2
<1>4. QED
  BY <1>2, <1>3

\* The function f follows the steps from start as far as m.
Follows(f, m, W, start, step) ==
  /\ f \in [0..m -> W]
  /\ f[0] = start
  /\ \A n \in 1..m : f[n] = step[n][f[n - 1]]

\* A function that follows the steps as far as m - 1 is continued to m.
LEMMA FollowsOn ==
  ASSUME NEW W, NEW start \in W, NEW len \in Nat, NEW step \in [1..len -> [W -> W]],
         NEW m \in 1..len, NEW f, Follows(f, m - 1, W, start, step)
  PROVE  \E g : Follows(g, m, W, start, step)
<1> DEFINE g == [n \in 0..m |-> IF n = m THEN step[m][f[m - 1]] ELSE f[n]]
<1>1. f \in [0..(m - 1) -> W] /\ f[0] = start /\ \A n \in 1..(m - 1) : f[n] = step[n][f[n - 1]]
  BY DEF Follows
<1>2. m \in Nat /\ m - 1 \in 0..(m - 1) /\ m # 0
  OBVIOUS
<1>3. step[m][f[m - 1]] \in W
  BY <1>1, <1>2
<1>4. g \in [0..m -> W]
  BY <1>1, <1>3
<1>5. g[0] = start
  BY <1>1, <1>2
<1>6. ASSUME NEW n \in 1..m PROVE g[n] = step[n][g[n - 1]]
  <2>1. n - 1 \in 0..m /\ n - 1 # m /\ n \in 0..m
    BY <1>2
  <2>2. g[n - 1] = f[n - 1]
    BY <2>1
  <2>3. CASE n = m
    BY <2>1, <2>2, <2>3
  <2>4. CASE n # m
    <3>1. n \in 1..(m - 1)
      BY <1>2, <2>4
    <3>2. QED
      BY <1>1, <2>1, <2>2, <2>4, <3>1
  <2>5. QED
    BY <2>3, <2>4
<1> HIDE DEF g
<1>7. QED
  BY <1>4, <1>5, <1>6 DEF Follows

\* From every start the steps are followed to their end.
LEMMA FollowsExists ==
  ASSUME NEW W, NEW start \in W, NEW len \in Nat, NEW step \in [1..len -> [W -> W]]
  PROVE  \E f : Follows(f, len, W, start, step)
<1> DEFINE Good == {m \in 0..len : \E f : Follows(f, m, W, start, step)}
<1>1. 0 \in Good
  <2>1. [n \in 0..0 |-> start] \in [0..0 -> W] /\ [n \in 0..0 |-> start][0] = start
    OBVIOUS
  <2>2. Follows([n \in 0..0 |-> start], 0, W, start, step)
    BY <2>1 DEF Follows
  <2>3. QED
    BY <2>2
<1>2. ASSUME NEW m \in 1..len, m - 1 \in Good PROVE m \in Good
  <2>1. PICK f : Follows(f, m - 1, W, start, step)
    BY <1>2
  <2>2. \E g : Follows(g, m, W, start, step)
    BY <2>1, FollowsOn
  <2>3. QED
    BY <2>2
<1> HIDE DEF Good
<1>3. \A m \in 0..len : m \in Good
  BY <1>1, <1>2, Throughout
<1>4. len \in Good
  BY <1>3
<1>5. QED
  BY <1>4 DEF Good

-----------------------------------------------------------------------------
Request == [op : {"install", "remove"}, wipe : BOOLEAN,
            fault : {"none", "ports", "pull", "create", "start", "stop", "remove", "config", "data"}]

States == {"none", "created", "running", "exited"}
Turns == {"find", "ports", "pull", "run", "stop", "remove", "config", "data", "end"}
Container == [id : Nat, state : States]

\* The worlds of some requests.
Worlds(D) ==
  [container : Container, volumes : SUBSET Volumes, at : [D -> Turns],
   ok : [D -> BOOLEAN], found : [D -> Nat], errors : [D -> SUBSET Volumes]]

\* The world n, field by field.
IsWorld(n, D, container, volumes, at, ok, found, errors) ==
  /\ n \in Worlds(D)
  /\ n.container = container /\ n.volumes = volumes /\ n.at = at
  /\ n.ok = ok /\ n.found = found /\ n.errors = errors

\* What an answer leaves of the world (the returns of catalog_install and catalog_remove).
LEMMA AnswersIs ==
  ASSUME NEW D, NEW w \in Worlds(D), NEW r \in D, NEW ok \in BOOLEAN
  PROVE  IsWorld(Answers(w, r, ok), D, w.container, w.volumes, [w.at EXCEPT ![r] = "end"],
                 [w.ok EXCEPT ![r] = ok], w.found, w.errors)
<1> DEFINE at == [w.at EXCEPT ![r] = "end"]
           oks == [w.ok EXCEPT ![r] = ok]
<1>1. at \in [D -> Turns] /\ oks \in [D -> BOOLEAN]
  BY DEF Worlds, Turns
<1>2. Answers(w, r, ok) = [w EXCEPT !.at = at, !.ok = oks]
  BY DEF Answers, Worlds
<1> HIDE DEF at, oks
<1>3. IsWorld(Answers(w, r, ok), D, w.container, w.volumes, at, oks, w.found, w.errors)
  BY <1>1, <1>2 DEF IsWorld, Worlds
<1>4. QED
  BY <1>3 DEF at, oks

\* What going on to the next call leaves of the world.
LEMMA GoesIs ==
  ASSUME NEW D, NEW w \in Worlds(D), NEW r \in D, NEW turn \in Turns
  PROVE  IsWorld(Goes(w, r, turn), D, w.container, w.volumes, [w.at EXCEPT ![r] = turn],
                 w.ok, w.found, w.errors)
<1> DEFINE at == [w.at EXCEPT ![r] = turn]
<1>1. at \in [D -> Turns]
  BY DEF Worlds
<1>2. Goes(w, r, turn) = [w EXCEPT !.at = at]
  BY DEF Goes, Worlds
<1> HIDE DEF at
<1>3. IsWorld(Goes(w, r, turn), D, w.container, w.volumes, at, w.ok, w.found, w.errors)
  BY <1>1, <1>2 DEF IsWorld, Worlds
<1>4. QED
  BY <1>3 DEF at

\* What a step of an install leads to.
InstallStep(n, D, w, r, q) ==
  \/ n = w
  \/ \E turn \in {"ports", "pull", "run"} :
       IsWorld(n, D, w.container, w.volumes, [w.at EXCEPT ![r] = turn], w.ok, w.found, w.errors)
  \/ IsWorld(n, D, w.container, w.volumes, [w.at EXCEPT ![r] = "end"], [w.ok EXCEPT ![r] = FALSE],
             w.found, w.errors)
  \/ \E started \in BOOLEAN :
       /\ w.container.state = "none"
       /\ started <=> q.fault # "start"
       /\ IsWorld(n, D, [id |-> r, state |-> IF started THEN "running" ELSE "created"], Volumes,
                  [w.at EXCEPT ![r] = "end"], [w.ok EXCEPT ![r] = started], w.found, w.errors)

\* containers.run makes the container and starts it, or answers that it could not.
LEMMA RunIs ==
  ASSUME NEW D \in SUBSET Nat, NEW w \in Worlds(D), NEW r \in D, NEW q \in Request
  PROVE  InstallStep(RunContainer(w, r, q), D, w, r, q)
<1>1. CASE q.fault = "create" \/ w.container.state # "none"
  <2>1. RunContainer(w, r, q) = Answers(w, r, FALSE)
    BY <1>1 DEF RunContainer
  <2>2. QED
    BY <2>1, AnswersIs DEF InstallStep
<1>2. CASE ~(q.fault = "create" \/ w.container.state # "none")
  <2> DEFINE started == q.fault # "start"
             cont == [id |-> r, state |-> IF started THEN "running" ELSE "created"]
             made == [w EXCEPT !.container = cont, !.volumes = Volumes]
  <2>1. RunContainer(w, r, q) = Answers(made, r, started)
    BY <1>2 DEF RunContainer
  <2>2. started \in BOOLEAN /\ cont \in Container
    BY DEF Container, States
  <2> HIDE DEF started, cont
  <2>3. IsWorld(made, D, cont, Volumes, w.at, w.ok, w.found, w.errors)
    BY <2>2 DEF IsWorld, Worlds
  <2> HIDE DEF made
  <2>4. IsWorld(Answers(made, r, started), D, made.container, made.volumes, [made.at EXCEPT ![r] = "end"],
                [made.ok EXCEPT ![r] = started], made.found, made.errors)
    BY <2>2, <2>3, AnswersIs DEF IsWorld
  <2>5. IsWorld(Answers(made, r, started), D, cont, Volumes, [w.at EXCEPT ![r] = "end"],
                [w.ok EXCEPT ![r] = started], w.found, w.errors)
    BY <2>3, <2>4 DEF IsWorld
  <2>6. w.container.state = "none" /\ (started <=> q.fault # "start")
    BY <1>2 DEF started
  <2>7. QED
    BY <2>1, <2>2, <2>5, <2>6 DEF InstallStep, cont
<1>3. QED
  BY <1>1, <1>2

\* Every call of catalog_install is such a step.
LEMMA InstallIs ==
  ASSUME NEW D \in SUBSET Nat, NEW w \in Worlds(D), NEW r \in D, NEW q \in Request
  PROVE  InstallStep(CatalogInstall(w, r, q), D, w, r, q)
<1> DEFINE n == CatalogInstall(w, r, q)
<1>1. ASSUME n = Answers(w, r, FALSE) PROVE InstallStep(n, D, w, r, q)
  BY <1>1, AnswersIs DEF InstallStep
<1>2. ASSUME NEW turn \in {"ports", "pull", "run"}, n = Goes(w, r, turn) PROVE InstallStep(n, D, w, r, q)
  <2>1. turn \in Turns
    BY DEF Turns
  <2>2. QED
    BY <1>2, <2>1, GoesIs DEF InstallStep
<1>3. ASSUME n = RunContainer(w, r, q) PROVE InstallStep(n, D, w, r, q)
  BY <1>3, RunIs
<1>4. ASSUME n = w PROVE InstallStep(n, D, w, r, q)
  BY <1>4 DEF InstallStep
<1>5. \/ n = Answers(w, r, FALSE) \/ n = Goes(w, r, "ports") \/ n = Goes(w, r, "pull")
      \/ n = Goes(w, r, "run") \/ n = RunContainer(w, r, q) \/ n = w
  BY DEF CatalogInstall
<1> HIDE DEF n
<1>6. InstallStep(n, D, w, r, q)
  BY <1>1, <1>2, <1>3, <1>4, <1>5
<1>7. QED
  BY <1>6 DEF n

\* A turn of the loop over the volumes: it removes one, or names it as kept.
VolumeStep(n, D, w, r) ==
  LET at == [w.at EXCEPT ![r] = IF w.at[r] = "config" THEN "data" ELSE "end"]
      ok == IF w.at[r] = "config" THEN w.ok ELSE [w.ok EXCEPT ![r] = TRUE]
  IN /\ w.at[r] \in Volumes
     /\ \/ IsWorld(n, D, w.container, w.volumes \ {w.at[r]}, at, ok, w.found, w.errors)
        \/ IsWorld(n, D, w.container, w.volumes, at, ok, w.found,
                   [w.errors EXCEPT ![r] = @ \cup (w.volumes \cap {w.at[r]})])

\* What a step of a removal leads to.
RemoveStep(n, D, w, r, q) ==
  \/ n = w
  \/ /\ w.container.state # "none"
     /\ IsWorld(n, D, w.container, w.volumes, [w.at EXCEPT ![r] = "stop"], w.ok,
                [w.found EXCEPT ![r] = w.container.id], w.errors)
  \/ IsWorld(n, D, w.container, w.volumes, [w.at EXCEPT ![r] = "end"], [w.ok EXCEPT ![r] = FALSE],
             w.found, w.errors)
  \/ /\ w.container.state # "none"
     /\ IsWorld(n, D, [id |-> w.container.id, state |-> "exited"], w.volumes,
                [w.at EXCEPT ![r] = "remove"], w.ok, w.found, w.errors)
  \/ /\ w.container.state # "none" /\ q.wipe
     /\ IsWorld(n, D, None, w.volumes, [w.at EXCEPT ![r] = "config"], w.ok, w.found, w.errors)
  \/ /\ w.container.state # "none" /\ ~q.wipe
     /\ IsWorld(n, D, None, w.volumes, [w.at EXCEPT ![r] = "end"], [w.ok EXCEPT ![r] = TRUE],
                w.found, w.errors)
  \/ VolumeStep(n, D, w, r)

\* One volume is removed, or named as kept.
LEMMA RemoveVolumeIs ==
  ASSUME NEW D \in SUBSET Nat, NEW w \in Worlds(D), NEW r \in D, NEW q \in Request, w.at[r] \in Volumes
  PROVE  VolumeStep(RemoveVolume(w, r, q, w.at[r]), D, w, r)
<1> DEFINE volume == w.at[r]
           after == IF volume = "config" THEN Goes(w, r, "data") ELSE Answers(w, r, TRUE)
           at == [w.at EXCEPT ![r] = IF volume = "config" THEN "data" ELSE "end"]
           ok == IF volume = "config" THEN w.ok ELSE [w.ok EXCEPT ![r] = TRUE]
           named == [w.errors EXCEPT ![r] = @ \cup (w.volumes \cap {volume})]
           n == RemoveVolume(w, r, q, volume)
<1>1. IsWorld(after, D, w.container, w.volumes, at, ok, w.found, w.errors)
  <2>1. CASE volume = "config"
    <3>1. IsWorld(Goes(w, r, "data"), D, w.container, w.volumes, [w.at EXCEPT ![r] = "data"],
                  w.ok, w.found, w.errors)
      BY GoesIs DEF Turns
    <3>2. QED
      BY <2>1, <3>1
  <2>2. CASE volume # "config"
    <3>1. IsWorld(Answers(w, r, TRUE), D, w.container, w.volumes, [w.at EXCEPT ![r] = "end"],
                  [w.ok EXCEPT ![r] = TRUE], w.found, w.errors)
      BY AnswersIs
    <3>2. QED
      BY <2>2, <3>1
  <2>3. QED
    BY <2>1, <2>2
<1>2. /\ w.volumes \in SUBSET Volumes /\ w.volumes \ {volume} \in SUBSET Volumes
      /\ named \in [D -> SUBSET Volumes]
  BY DEF Worlds
<1>3. n = IF q.fault = volume \/ w.container.state # "none"
          THEN [after EXCEPT !.errors[r] = @ \cup (w.volumes \cap {volume})]
          ELSE [after EXCEPT !.volumes = @ \ {volume}]
  BY DEF RemoveVolume
<1> HIDE DEF after, n, at, ok
<1>4. CASE q.fault = volume \/ w.container.state # "none"
  <2>1. n = [after EXCEPT !.errors = named]
    BY <1>1, <1>3, <1>4 DEF IsWorld, Worlds
  <2> HIDE DEF named, volume
  <2>2. IsWorld(n, D, w.container, w.volumes, at, ok, w.found, named)
    BY <1>1, <1>2, <2>1 DEF IsWorld, Worlds
  <2>3. QED
    BY <2>2 DEF VolumeStep, named, volume, at, ok, n
<1>5. CASE ~(q.fault = volume \/ w.container.state # "none")
  <2>1. n = [after EXCEPT !.volumes = w.volumes \ {volume}]
    BY <1>1, <1>3, <1>5 DEF IsWorld, Worlds
  <2> HIDE DEF named, volume
  <2>2. IsWorld(n, D, w.container, w.volumes \ {volume}, at, ok, w.found, w.errors)
    BY <1>1, <1>2, <2>1 DEF IsWorld, Worlds
  <2>3. QED
    BY <2>2 DEF VolumeStep, volume, at, ok, n
<1>6. QED
  BY <1>4, <1>5

\* Every call of catalog_remove is such a step.
LEMMA RemoveIs ==
  ASSUME NEW D \in SUBSET Nat, NEW w \in Worlds(D), NEW r \in D, NEW q \in Request
  PROVE  RemoveStep(CatalogRemove(w, r, q), D, w, r, q)
<1> DEFINE n == CatalogRemove(w, r, q)
           found == [Goes(w, r, "stop") EXCEPT !.found[r] = w.container.id]
           stopped == [Goes(w, r, "remove") EXCEPT !.container.state = "exited"]
           wiping == [Goes(w, r, "config") EXCEPT !.container = None]
           removed == [Answers(w, r, TRUE) EXCEPT !.container = None]
<1> SUFFICES RemoveStep(n, D, w, r, q)
  OBVIOUS
<1>1. \/ n = w
      \/ n = Answers(w, r, FALSE)
      \/ w.container.state # "none" /\ n = found
      \/ w.container.state # "none" /\ n = stopped
      \/ w.container.state # "none" /\ q.wipe /\ n = wiping
      \/ w.container.state # "none" /\ ~q.wipe /\ n = removed
      \/ w.at[r] \in Volumes /\ n = RemoveVolume(w, r, q, w.at[r])
  <2>1. /\ "stop" # "find" /\ "remove" # "find" /\ "remove" # "stop"
        /\ Volumes \cap {"find", "stop", "remove"} = {}
    BY DEF Volumes
  <2>2. CASE w.at[r] = "find"
    BY <2>1, <2>2 DEF CatalogRemove, FindContainer
  <2>3. CASE w.at[r] = "stop"
    BY <2>1, <2>3 DEF CatalogRemove
  <2>4. CASE w.at[r] = "remove"
    BY <2>1, <2>4 DEF CatalogRemove
  <2>5. CASE w.at[r] \in Volumes
    BY <2>1, <2>5 DEF CatalogRemove
  <2>6. CASE w.at[r] \notin {"find", "stop", "remove"} \cup Volumes
    BY <2>6 DEF CatalogRemove
  <2>7. QED
    BY <2>2, <2>3, <2>4, <2>5, <2>6
<1> HIDE DEF n
<1>2. CASE n = Answers(w, r, FALSE)
  BY <1>2, AnswersIs DEF RemoveStep
<1>3. CASE w.container.state # "none" /\ n = found
  <2> DEFINE f == [w.found EXCEPT ![r] = w.container.id]
             g == Goes(w, r, "stop")
  <2>1. f \in [D -> Nat]
    BY DEF Worlds, Container
  <2>2. IsWorld(g, D, w.container, w.volumes, [w.at EXCEPT ![r] = "stop"], w.ok, w.found, w.errors)
    BY GoesIs DEF Turns
  <2> HIDE DEF g
  <2>3. found = [g EXCEPT !.found = f]
    BY <2>2 DEF IsWorld, Worlds, g
  <2> HIDE DEF f, found
  <2>4. IsWorld(found, D, w.container, w.volumes, [w.at EXCEPT ![r] = "stop"], w.ok, f, w.errors)
    BY <2>1, <2>2, <2>3 DEF IsWorld, Worlds
  <2>5. QED
    BY <1>3, <2>4 DEF RemoveStep, f
<1>4. CASE w.container.state # "none" /\ n = stopped
  <2> DEFINE c == [id |-> w.container.id, state |-> "exited"]
             g == Goes(w, r, "remove")
  <2>1. c \in Container /\ c = [w.container EXCEPT !.state = "exited"]
    BY DEF Worlds, Container, States
  <2>2. IsWorld(g, D, w.container, w.volumes, [w.at EXCEPT ![r] = "remove"], w.ok, w.found, w.errors)
    BY GoesIs DEF Turns
  <2> HIDE DEF g, c
  <2>3. stopped = [g EXCEPT !.container = c]
    BY <2>1, <2>2 DEF IsWorld, Worlds, g
  <2> HIDE DEF stopped
  <2>4. IsWorld(stopped, D, c, w.volumes, [w.at EXCEPT ![r] = "remove"], w.ok, w.found, w.errors)
    BY <2>1, <2>2, <2>3 DEF IsWorld, Worlds
  <2>5. QED
    BY <1>4, <2>4 DEF RemoveStep, c
<1>5. None \in Container
  BY DEF None, Container, States
<1>6. CASE w.container.state # "none" /\ q.wipe /\ n = wiping
  <2> DEFINE g == Goes(w, r, "config")
  <2>1. IsWorld(g, D, w.container, w.volumes, [w.at EXCEPT ![r] = "config"], w.ok, w.found, w.errors)
    BY GoesIs DEF Turns
  <2> HIDE DEF g
  <2>2. wiping = [g EXCEPT !.container = None]
    BY DEF g
  <2>3. IsWorld(wiping, D, None, w.volumes, [w.at EXCEPT ![r] = "config"], w.ok, w.found, w.errors)
    BY <1>5, <2>1, <2>2 DEF IsWorld, Worlds
  <2>4. QED
    BY <1>6, <2>3 DEF RemoveStep
<1>7. CASE w.container.state # "none" /\ ~q.wipe /\ n = removed
  <2> DEFINE g == Answers(w, r, TRUE)
  <2>1. IsWorld(g, D, w.container, w.volumes, [w.at EXCEPT ![r] = "end"], [w.ok EXCEPT ![r] = TRUE],
                w.found, w.errors)
    BY AnswersIs
  <2> HIDE DEF g
  <2>2. removed = [g EXCEPT !.container = None]
    BY DEF g
  <2>3. IsWorld(removed, D, None, w.volumes, [w.at EXCEPT ![r] = "end"], [w.ok EXCEPT ![r] = TRUE],
                w.found, w.errors)
    BY <1>5, <2>1, <2>2 DEF IsWorld, Worlds
  <2>4. QED
    BY <1>7, <2>3 DEF RemoveStep
<1>8. CASE n = w
  BY <1>8 DEF RemoveStep
<1>9. CASE w.at[r] \in Volumes /\ n = RemoveVolume(w, r, q, w.at[r])
  BY <1>9, RemoveVolumeIs DEF RemoveStep
<1>10. QED
  BY <1>1, <1>2, <1>3, <1>4, <1>6, <1>7, <1>8, <1>9

\* Every call leads to a world.
LEMMA AdvanceTyped ==
  ASSUME NEW D \in SUBSET Nat, NEW w \in Worlds(D), NEW r \in D, NEW q \in Request
  PROVE  Advance(w, r, q) \in Worlds(D)
<1>1. ASSUME NEW n, InstallStep(n, D, w, r, q) \/ RemoveStep(n, D, w, r, q) PROVE n \in Worlds(D)
  BY <1>1 DEF InstallStep, RemoveStep, VolumeStep, IsWorld
<1>2. CASE q.op = "install"
  <2>1. Advance(w, r, q) = CatalogInstall(w, r, q)
    BY <1>2 DEF Advance
  <2>2. QED
    BY <1>1, <2>1, InstallIs
<1>3. CASE q.op # "install"
  <2>1. Advance(w, r, q) = CatalogRemove(w, r, q)
    BY <1>3 DEF Advance
  <2>2. QED
    BY <1>1, <2>1, RemoveIs
<1>4. QED
  BY <1>2, <1>3

\* The world before the first call.
LEMMA WorldTyped ==
  ASSUME NEW D \in SUBSET Nat, NEW container \in Container, NEW volumes \in SUBSET Volumes,
         NEW requests \in [D -> Request]
  PROVE  IsWorld(World(container, volumes, requests), D, container, volumes, [r \in D |-> "find"],
                 [r \in D |-> FALSE], [r \in D |-> 0], [r \in D |-> {}])
<1>1. DOMAIN requests = D
  OBVIOUS
<1>2. World(container, volumes, requests) =
        [container |-> container, volumes |-> volumes, at |-> [r \in D |-> "find"],
         ok |-> [r \in D |-> FALSE], found |-> [r \in D |-> 0], errors |-> [r \in D |-> {}]]
  BY <1>1 DEF World
<1>3. [r \in D |-> "find"] \in [D -> Turns]
  BY DEF Turns
<1>4. QED
  BY <1>2, <1>3 DEF IsWorld, Worlds

\* The world w is one where nothing was done yet.
Starts(w, D, container, volumes) ==
  /\ w \in Worlds(D) /\ w.container = container /\ w.volumes = volumes
  /\ \A r \in D : w.at[r] = "find" /\ w.ok[r] = FALSE

\* The first world is one where nothing was done yet.
LEMMA WorldStarts ==
  ASSUME NEW D \in SUBSET Nat, NEW container \in Container, NEW volumes \in SUBSET Volumes,
         NEW requests \in [D -> Request]
  PROVE  Starts(World(container, volumes, requests), D, container, volumes)
<1> DEFINE w == World(container, volumes, requests)
<1>1. IsWorld(w, D, container, volumes, [r \in D |-> "find"], [r \in D |-> FALSE],
              [r \in D |-> 0], [r \in D |-> {}])
  BY WorldTyped
<1> HIDE DEF w
<1>2. /\ w \in Worlds(D) /\ w.container = container /\ w.volumes = volumes
      /\ w.at = [r \in D |-> "find"] /\ w.ok = [r \in D |-> FALSE]
  BY <1>1 DEF IsWorld
<1>3. w \in Worlds(D) /\ w.container = container /\ w.volumes = volumes
      /\ \A r \in D : w.at[r] = "find" /\ w.ok[r] = FALSE
  BY <1>2
<1>4. QED
  BY <1>3 DEF w, Starts

\* The worlds c are the ones the calls of order lead through.
CourseIs(c, D, container, volumes, requests, order) ==
  /\ c \in [0..Len(order) -> Worlds(D)]
  /\ c[0] = World(container, volumes, requests)
  /\ \A n \in 1..Len(order) : c[n] = Advance(c[n - 1], order[n], requests[order[n]])

\* The course of the calls is told by its recursion, which one function satisfies.
LEMMA CourseTold ==
  ASSUME NEW D \in SUBSET Nat, NEW container \in Container, NEW volumes \in SUBSET Volumes,
         NEW requests \in [D -> Request], NEW order \in Seq(D)
  PROVE  CourseIs(Course(container, volumes, requests, order), D, container, volumes, requests, order)
<1> DEFINE len == Len(order)
           W == Worlds(D)
           start == World(container, volumes, requests)
           step == [n \in 1..len |-> [w \in W |-> Advance(w, order[n], requests[order[n]])]]
           after(f) == [n \in 0..len |-> IF n = 0 THEN start
                                         ELSE Advance(f[n - 1], order[n], requests[order[n]])]
           c == Course(container, volumes, requests, order)
<1>1. len \in Nat /\ \A n \in 1..len : order[n] \in D
  OBVIOUS
<1>2. start \in W
  BY WorldTyped DEF IsWorld
<1>3. \A n \in 1..len : \A w \in W : Advance(w, order[n], requests[order[n]]) \in W
  BY <1>1, AdvanceTyped
<1>4. step \in [1..len -> [W -> W]]
  BY <1>3
<1>5. c = CHOOSE f : f = after(f)
  BY DEF Course
<1> HIDE DEF c, start, W, len
<1>6. PICK f : Follows(f, len, W, start, step)
  <2> HIDE DEF step
  <2>1. QED
    BY <1>1, <1>2, <1>4, FollowsExists
<1>7. f = after(f)
  <2>1. f \in [0..len -> W] /\ f[0] = start /\ \A n \in 1..len : f[n] = step[n][f[n - 1]]
    BY <1>6 DEF Follows
  <2>2. ASSUME NEW n \in 0..len PROVE f[n] = after(f)[n]
    <3>1. CASE n = 0
      BY <2>1, <3>1
    <3>2. CASE n # 0
      <4>1. n \in 1..len /\ n - 1 \in 0..len
        BY <1>1, <3>2
      <4>2. f[n - 1] \in W
        BY <2>1, <4>1
      <4>3. QED
        BY <2>1, <3>2, <4>1, <4>2
    <3>3. QED
      BY <3>1, <3>2
  <2>3. QED
    BY <2>1, <2>2
<1>8. c = after(c)
  <2> HIDE DEF after
  <2>1. QED
    BY <1>5, <1>7
<1>9. c[0] = start
  BY <1>1, <1>8
<1>10. ASSUME NEW n \in 1..len PROVE c[n] = Advance(c[n - 1], order[n], requests[order[n]])
  <2>1. n \in 0..len /\ n # 0
    BY <1>1
  <2>2. QED
    BY <1>8, <2>1
<1>11. \A n \in 0..len : c[n] \in W
  <2> DEFINE Good == {n \in 0..len : c[n] \in W}
  <2>1. 0 \in Good
    BY <1>1, <1>2, <1>9
  <2>2. \A n \in 1..len : n - 1 \in Good => n \in Good
    BY <1>1, <1>3, <1>10
  <2> HIDE DEF Good
  <2>3. \A n \in 0..len : n \in Good
    BY <1>1, <2>1, <2>2, Throughout
  <2>4. QED
    BY <2>3 DEF Good
<1>12. c \in [0..len -> W]
  BY <1>8, <1>11
<1>13. QED
  BY <1>9, <1>10, <1>12 DEF CourseIs, c, start, W, len

\* What holds of the first world and of each that a call leads to holds of the last.
LEMMA CourseKeeps ==
  ASSUME NEW D \in SUBSET Nat, NEW container \in Container, NEW volumes \in SUBSET Volumes,
         NEW requests \in [D -> Request], NEW order \in Seq(D), NEW Kept,
         World(container, volumes, requests) \in Kept,
         \A w \in Worlds(D), r \in D : w \in Kept => Advance(w, r, requests[r]) \in Kept
  PROVE  Catalog(container, volumes, requests, order) \in Kept \cap Worlds(D)
<1> DEFINE len == Len(order)
           c == Course(container, volumes, requests, order)
           Good == {n \in 0..len : c[n] \in Kept}
<1>1. len \in Nat /\ \A n \in 1..len : order[n] \in D
  OBVIOUS
<1>2. /\ c \in [0..len -> Worlds(D)]
      /\ c[0] = World(container, volumes, requests)
      /\ \A n \in 1..len : c[n] = Advance(c[n - 1], order[n], requests[order[n]])
  BY CourseTold DEF CourseIs
<1>3. Catalog(container, volumes, requests, order) = c[len]
  BY DEF Catalog
<1> HIDE DEF c, len
<1>4. 0 \in Good
  BY <1>1, <1>2
<1>5. ASSUME NEW n \in 1..len, n - 1 \in Good PROVE n \in Good
  <2>1. n - 1 \in 0..len /\ n \in 0..len /\ order[n] \in D
    BY <1>1
  <2>2. c[n - 1] \in Worlds(D) /\ c[n - 1] \in Kept
    BY <1>2, <1>5, <2>1
  <2>3. c[n] \in Kept
    BY <1>2, <2>1, <2>2
  <2>4. QED
    BY <2>1, <2>3
<1> HIDE DEF Good
<1>6. \A n \in 0..len : n \in Good
  BY <1>1, <1>4, <1>5, Throughout
<1>7. len \in Good /\ len \in 0..len
  BY <1>1, <1>6
<1>8. QED
  BY <1>2, <1>3, <1>7 DEF Good

-----------------------------------------------------------------------------
\* Of the installs, one at most has said that it did, and its container runs.
Installed(D) ==
  {w \in Worlds(D) : \A r \in D : w.ok[r] => w.container = [id |-> r, state |-> "running"]}

\* Installs in any order lead to a world where one of them at most did it.
LEMMA InstallsTold ==
  ASSUME NEW D \in SUBSET Nat, NEW container \in Container, NEW volumes \in SUBSET Volumes,
         NEW requests \in [D -> Request], NEW order \in Seq(D), \A r \in D : requests[r].op = "install"
  PROVE  Catalog(container, volumes, requests, order) \in Installed(D)
<1>1. World(container, volumes, requests) \in Installed(D)
  <2> DEFINE w == World(container, volumes, requests)
  <2>0. Starts(w, D, container, volumes)
    BY WorldStarts
  <2>1. w \in Worlds(D) /\ \A r \in D : w.at[r] = "find" /\ w.ok[r] = FALSE
    BY <2>0 DEF Starts
  <2> HIDE DEF w
  <2>2. w \in Installed(D)
    BY <2>1 DEF Installed
  <2>3. QED
    BY <2>2 DEF w
<1>2. ASSUME NEW w \in Worlds(D), NEW r \in D, w \in Installed(D)
      PROVE  Advance(w, r, requests[r]) \in Installed(D)
  <2> DEFINE q == requests[r]
             n == Advance(w, r, q)
  <2>1. q \in Request
    OBVIOUS
  <2>2. InstallStep(n, D, w, r, q)
    BY <2>1, InstallIs DEF Advance
  <2>3. n \in Worlds(D)
    BY <2>1, AdvanceTyped
  <2>4. w.ok \in [D -> BOOLEAN] /\ \A s \in D : w.ok[s] => w.container = [id |-> s, state |-> "running"]
    BY <1>2 DEF Installed, Worlds
  <2> HIDE DEF n, q
  <2>5. ASSUME NEW s \in D, n.ok[s] PROVE n.container = [id |-> s, state |-> "running"]
    <3>1. CASE n.ok = w.ok /\ n.container = w.container
      BY <2>4, <2>5, <3>1
    <3>2. CASE n.ok = [w.ok EXCEPT ![r] = FALSE] /\ n.container = w.container
      BY <2>4, <2>5, <3>2
    <3>3. CASE \E started \in BOOLEAN :
                 /\ w.container.state = "none" /\ n.ok = [w.ok EXCEPT ![r] = started]
                 /\ n.container = [id |-> r, state |-> IF started THEN "running" ELSE "created"]
      <4>1. PICK started \in BOOLEAN :
              /\ w.container.state = "none" /\ n.ok = [w.ok EXCEPT ![r] = started]
              /\ n.container = [id |-> r, state |-> IF started THEN "running" ELSE "created"]
        BY <3>3
      <4>2. s = r
        <5>1. CASE w.ok[s]
          <6>1. w.container = [id |-> s, state |-> "running"]
            BY <2>4, <5>1
          <6>2. w.container.state = "running"
            BY <6>1
          <6>3. QED
            BY <4>1, <6>2
        <5>2. CASE ~w.ok[s]
          BY <2>4, <2>5, <4>1, <5>2
        <5>3. QED
          BY <5>1, <5>2
      <4>3. started = TRUE
        BY <2>4, <2>5, <4>1, <4>2
      <4>4. QED
        BY <4>1, <4>2, <4>3
    <3>4. QED
      BY <2>2, <3>1, <3>2, <3>3 DEF InstallStep, IsWorld
  <2>6. n \in Installed(D)
    BY <2>3, <2>5 DEF Installed
  <2>7. QED
    BY <2>6 DEF n, q
<1>3. QED
  BY <1>1, <1>2, CourseKeeps

\* Of the removals, one at most has said that it did or is at the volumes, and the
\* container is gone; what it does not name as kept is gone, as far as it got.
Removed(D, requests) ==
  {w \in Worlds(D) :
     /\ \A r \in D : w.ok[r] \/ w.at[r] \in Volumes =>
          w.container.state = "none" /\ \A s \in D : w.ok[s] \/ w.at[s] \in Volumes => s = r
     /\ \A r \in D : w.at[r] = "data" => w.volumes \subseteq w.errors[r] \cup {"data"}
     /\ \A r \in D : w.ok[r] => w.at[r] = "end"
     /\ \A r \in D : w.ok[r] /\ requests[r].wipe => w.volumes \subseteq w.errors[r]}

\* Removals in any order lead to a world where one of them at most did it.
LEMMA RemovalsTold ==
  ASSUME NEW D \in SUBSET Nat, NEW container \in Container, NEW volumes \in SUBSET Volumes,
         NEW requests \in [D -> Request], NEW order \in Seq(D), \A r \in D : requests[r].op = "remove"
  PROVE  Catalog(container, volumes, requests, order) \in Removed(D, requests)
<1>1. World(container, volumes, requests) \in Removed(D, requests)
  <2> DEFINE w == World(container, volumes, requests)
  <2>0. Starts(w, D, container, volumes)
    BY WorldStarts
  <2>1. w \in Worlds(D) /\ \A r \in D : w.at[r] = "find" /\ w.ok[r] = FALSE
    BY <2>0 DEF Starts
  <2> HIDE DEF w
  <2>2. w \in Removed(D, requests)
    BY <2>1 DEF Removed, Volumes
  <2>3. QED
    BY <2>2 DEF w
<1>2. ASSUME NEW w \in Worlds(D), NEW r \in D, w \in Removed(D, requests)
      PROVE  Advance(w, r, requests[r]) \in Removed(D, requests)
  <2> DEFINE q == requests[r]
             n == Advance(w, r, q)
             Busy(v, s) == v.ok[s] \/ v.at[s] \in Volumes
             Alike(v) ==
               /\ \A s \in D : Busy(v, s) => v.container.state = "none" /\ \A u \in D : Busy(v, u) => u = s
               /\ \A s \in D : v.at[s] = "data" => v.volumes \subseteq v.errors[s] \cup {"data"}
               /\ \A s \in D : v.ok[s] => v.at[s] = "end"
               /\ \A s \in D : v.ok[s] /\ requests[s].wipe => v.volumes \subseteq v.errors[s]
  <2>1. q \in Request /\ q = requests[r]
    OBVIOUS
  <2>2. RemoveStep(n, D, w, r, q)
    BY <2>1, RemoveIs DEF Advance
  <2>3. n \in Worlds(D)
    BY <2>1, AdvanceTyped
  <2>4. /\ w.ok \in [D -> BOOLEAN] /\ w.at \in [D -> Turns] /\ w.errors \in [D -> SUBSET Volumes]
        /\ w.volumes \in SUBSET Volumes /\ Alike(w)
    BY <1>2 DEF Removed, Worlds
  <2>5. None.state = "none" /\ Volumes = {"config", "data"}
    BY DEF None, Volumes
  <2> SUFFICES Alike(n)
    BY <2>3 DEF Removed
  <2> HIDE DEF n, q
  <2>6. CASE n = w
    BY <2>4, <2>6
  <2>7. CASE \/ /\ w.container.state # "none"
               /\ n.ok = w.ok /\ \E turn \in {"stop", "remove"} : n.at = [w.at EXCEPT ![r] = turn]
            \/ /\ n.container = w.container /\ n.volumes = w.volumes /\ n.errors = w.errors
               /\ n.at = [w.at EXCEPT ![r] = "end"] /\ n.ok = [w.ok EXCEPT ![r] = FALSE]
    <3>1. CASE /\ w.container.state # "none"
               /\ n.ok = w.ok /\ \E turn \in {"stop", "remove"} : n.at = [w.at EXCEPT ![r] = turn]
      <4>1. PICK turn \in {"stop", "remove"} : n.at = [w.at EXCEPT ![r] = turn]
        BY <3>1
      <4>2. \A s \in D : ~Busy(w, s)
        BY <2>4, <3>1
      <4>3. \A s \in D : ~Busy(n, s)
        BY <2>4, <2>5, <3>1, <4>1, <4>2
      <4>4. QED
        BY <2>5, <4>3
    <3>2. CASE /\ n.container = w.container /\ n.volumes = w.volumes /\ n.errors = w.errors
               /\ n.at = [w.at EXCEPT ![r] = "end"] /\ n.ok = [w.ok EXCEPT ![r] = FALSE]
      <4>1. \A s \in D : /\ Busy(n, s) => Busy(w, s)
                         /\ n.ok[s] => w.ok[s] /\ s # r
                         /\ n.at[s] = "data" => w.at[s] = "data"
        BY <2>4, <2>5, <3>2
      <4>2. QED
        BY <2>4, <3>2, <4>1
    <3>3. QED
      BY <2>7, <3>1, <3>2
  <2>8. CASE /\ w.container.state # "none" /\ n.container = None
             /\ \/ /\ q.wipe /\ n.at = [w.at EXCEPT ![r] = "config"] /\ n.ok = w.ok
                \/ /\ ~q.wipe /\ n.at = [w.at EXCEPT ![r] = "end"] /\ n.ok = [w.ok EXCEPT ![r] = TRUE]
    <3>1. \A s \in D : ~Busy(w, s)
      BY <2>4, <2>8
    <3>2. \A s \in D : Busy(n, s) => s = r
      BY <2>4, <2>5, <2>8, <3>1
    <3>3. \A s \in D : /\ n.ok[s] => s = r /\ ~q.wipe /\ n.at[s] = "end"
                       /\ n.at[s] # "data"
      BY <2>4, <2>5, <2>8, <3>1
    <3>4. QED
      BY <2>1, <2>5, <2>8, <3>2, <3>3
  <2>9. CASE VolumeStep(n, D, w, r)
    <3>1. /\ Busy(w, r) /\ w.container.state = "none" /\ w.at[r] \in {"config", "data"}
          /\ \A s \in D \ {r} : ~Busy(w, s)
      BY <2>4, <2>5, <2>9 DEF VolumeStep
    <3>2. /\ n.container = w.container
          /\ n.at = [w.at EXCEPT ![r] = IF w.at[r] = "config" THEN "data" ELSE "end"]
          /\ n.ok = IF w.at[r] = "config" THEN w.ok ELSE [w.ok EXCEPT ![r] = TRUE]
          /\ w.ok[r] = FALSE
      BY <2>4, <2>9, <3>1 DEF VolumeStep, IsWorld
    <3>3. n.volumes \subseteq w.volumes /\ n.volumes \ {w.at[r]} \subseteq w.volumes \ {w.at[r]}
          /\ w.errors[r] \subseteq n.errors[r] /\ n.volumes \cap {w.at[r]} \subseteq n.errors[r]
      BY <2>4, <2>9 DEF VolumeStep, IsWorld
    <3>4. \A s \in D : Busy(n, s) => s = r
      BY <2>4, <3>1, <3>2
    <3>5. CASE w.at[r] = "config"
      <4>1. \A s \in D : ~n.ok[s] /\ (n.at[s] = "data" => s = r)
        BY <2>4, <2>5, <3>1, <3>2, <3>5
      <4>2. n.volumes \subseteq n.errors[r] \cup {"data"}
        BY <2>4, <2>5, <3>3, <3>5
      <4>3. QED
        BY <3>1, <3>2, <3>4, <4>1, <4>2
    <3>6. CASE w.at[r] = "data"
      <4>1. \A s \in D : (n.ok[s] => s = r) /\ n.at[s] # "data" /\ n.at[r] = "end"
        BY <2>4, <2>5, <3>1, <3>2, <3>6
      <4>2. n.volumes \subseteq n.errors[r]
        BY <2>4, <3>3, <3>6
      <4>3. QED
        BY <3>1, <3>2, <3>4, <4>1, <4>2
    <3>7. QED
      BY <3>1, <3>5, <3>6
  <2>10. QED
    BY <2>2, <2>6, <2>7, <2>8, <2>9 DEF RemoveStep, IsWorld
<1>3. QED
  BY <1>1, <1>2, CourseKeeps

\* No data is lost.
Whole(D) == {w \in Worlds(D) : w.volumes = Volumes /\ \A r \in D : w.at[r] \notin Volumes}

\* Requests none of which asks to delete the data lead to a world that has it all.
LEMMA DataKept ==
  ASSUME NEW D \in SUBSET Nat, NEW container \in Container,
         NEW requests \in [D -> Request], NEW order \in Seq(D), \A r \in D : ~requests[r].wipe
  PROVE  Catalog(container, Volumes, requests, order) \in Whole(D)
<1>1. World(container, Volumes, requests) \in Whole(D)
  <2> DEFINE w == World(container, Volumes, requests)
  <2>0. Starts(w, D, container, Volumes)
    BY WorldStarts
  <2>1. w \in Worlds(D) /\ w.volumes = Volumes /\ \A r \in D : w.at[r] = "find"
    BY <2>0 DEF Starts
  <2> HIDE DEF w
  <2>2. w \in Whole(D)
    BY <2>1 DEF Whole, Volumes
  <2>3. QED
    BY <2>2 DEF w
<1>2. ASSUME NEW w \in Worlds(D), NEW r \in D, w \in Whole(D)
      PROVE  Advance(w, r, requests[r]) \in Whole(D)
  <2> DEFINE q == requests[r]
             n == Advance(w, r, q)
  <2>1. q \in Request /\ ~q.wipe
    OBVIOUS
  <2>2. InstallStep(n, D, w, r, q) \/ RemoveStep(n, D, w, r, q)
    BY <2>1, InstallIs, RemoveIs DEF Advance
  <2>3. n \in Worlds(D)
    BY <2>1, AdvanceTyped
  <2>4. w.at \in [D -> Turns] /\ w.volumes = Volumes /\ \A s \in D : w.at[s] \notin Volumes
    BY <1>2 DEF Whole, Worlds
  <2> SUFFICES n.volumes = Volumes /\ \A s \in D : n.at[s] \notin Volumes
    BY <2>3 DEF Whole
  <2> HIDE DEF n, q
  <2>5. \/ n = w
        \/ /\ n.volumes = Volumes
           /\ \E turn \in {"ports", "pull", "run", "stop", "remove", "end"} : n.at = [w.at EXCEPT ![r] = turn]
    <3>1. CASE InstallStep(n, D, w, r, q)
      BY <2>4, <3>1 DEF InstallStep, IsWorld
    <3>2. CASE RemoveStep(n, D, w, r, q)
      BY <2>1, <2>4, <3>2 DEF RemoveStep, VolumeStep, IsWorld
    <3>3. QED
      BY <2>2, <3>1, <3>2
  <2>6. QED
    BY <2>4, <2>5 DEF Volumes
<1>3. QED
  BY <1>1, <1>2, CourseKeeps

-----------------------------------------------------------------------------
Once == <<1, 1, 1, 1>>

\* The request that is alone, and its four calls.
LEMMA PlainTyped ==
  ASSUME NEW op \in {"install", "remove"}
  PROVE  /\ Plain(op) \in [{1} -> Request] /\ Once \in Seq({1}) /\ Len(Once) = 4
         /\ Plain(op)[1] = [op |-> op, wipe |-> FALSE, fault |-> "none"]
         /\ \A n \in 1..4 : Once[n] = 1
<1>1. Once \in Seq({1}) /\ Len(Once) = 4 /\ \A n \in 1..4 : Once[n] = 1
  BY DEF Once
<1>2. [op |-> op, wipe |-> FALSE, fault |-> "none"] \in Request
  BY DEF Request
<1>3. Plain(op) \in [{1} -> Request]
  <2> DEFINE request == [op |-> op, wipe |-> FALSE, fault |-> "none"]
  <2>1. 1..1 = {1}
    OBVIOUS
  <2>2. request \in Request
    BY <1>2
  <2> HIDE DEF request
  <2>3. <<request>> \in [{1} -> Request]
    BY <2>1, <2>2
  <2>4. QED
    BY <2>3 DEF Plain, request
<1>4. QED
  BY <1>1, <1>3 DEF Plain

\* A request that is alone and that Docker refuses nothing: its world after each call.
LEMMA AloneIs ==
  ASSUME NEW D \in SUBSET Nat, NEW w \in Worlds(D), NEW op \in {"install", "remove"}
  PROVE  \E w0, w1, w2, w3 \in Worlds({1}) :
           /\ w0.container = w.container /\ w0.at[1] = "find"
           /\ w1 = Advance(w0, 1, Plain(op)[1]) /\ w2 = Advance(w1, 1, Plain(op)[1])
           /\ w3 = Advance(w2, 1, Plain(op)[1]) /\ Alone(op, w) = Advance(w3, 1, Plain(op)[1])
           /\ Alone(op, w) \in Worlds({1})
<1> DEFINE c == Course(w.container, w.volumes, Plain(op), Once)
           q == Plain(op)[1]
<1>1. w.container \in Container /\ w.volumes \in SUBSET Volumes /\ {1} \in SUBSET Nat
  BY DEF Worlds
<1>2. CourseIs(c, {1}, w.container, w.volumes, Plain(op), Once)
  BY <1>1, PlainTyped, CourseTold
<1>3. /\ World(w.container, w.volumes, Plain(op)).container = w.container
      /\ World(w.container, w.volumes, Plain(op)).at[1] = "find"
  <2> DEFINE v == World(w.container, w.volumes, Plain(op))
  <2>1. Starts(v, {1}, w.container, w.volumes)
    BY <1>1, PlainTyped, WorldStarts
  <2> HIDE DEF v
  <2>2. v.container = w.container /\ v.at[1] = "find"
    BY <2>1 DEF Starts
  <2>3. QED
    BY <2>2 DEF v
<1>4. Alone(op, w) = c[4]
  BY PlainTyped DEF Alone, Catalog, Once
<1> HIDE DEF c
<1>5. /\ c \in [0..4 -> Worlds({1})]
      /\ c[0] = World(w.container, w.volumes, Plain(op))
      /\ \A n \in 1..4 : c[n] = Advance(c[n - 1], Once[n], Plain(op)[Once[n]])
  BY <1>2, PlainTyped DEF CourseIs
<1>6. \A n \in 1..4 : c[n] = Advance(c[n - 1], 1, q)
  BY <1>5, PlainTyped
<1> HIDE DEF q
<1>7. /\ c[1] = Advance(c[0], 1, q) /\ c[2] = Advance(c[1], 1, q)
      /\ c[3] = Advance(c[2], 1, q) /\ c[4] = Advance(c[3], 1, q)
  <2>1. 1 - 1 = 0 /\ 2 - 1 = 1 /\ 3 - 1 = 2 /\ 4 - 1 = 3
    OBVIOUS
  <2>2. 1 \in 1..4 /\ 2 \in 1..4 /\ 3 \in 1..4 /\ 4 \in 1..4
    OBVIOUS
  <2>3. QED
    BY <1>6, <2>1, <2>2
<1>8. c[0] \in Worlds({1}) /\ c[1] \in Worlds({1}) /\ c[2] \in Worlds({1}) /\ c[3] \in Worlds({1})
      /\ c[4] \in Worlds({1})
  BY <1>5
<1>9. QED
  BY <1>3, <1>4, <1>5, <1>7, <1>8 DEF q

\* A removal that Docker refuses nothing leaves no container.
LEMMA RemovalWorks ==
  ASSUME NEW D \in SUBSET Nat, NEW w \in Worlds(D)
  PROVE  Alone("remove", w) \in Worlds({1}) /\ Alone("remove", w).container.state = "none"
<1> DEFINE q == Plain("remove")[1]
           a == Alone("remove", w)
<1>1. q.op = "remove" /\ q.wipe = FALSE /\ q.fault = "none"
  BY PlainTyped
<1>2. PICK w0, w1, w2, w3 \in Worlds({1}) :
        /\ w0.at[1] = "find"
        /\ w1 = Advance(w0, 1, q) /\ w2 = Advance(w1, 1, q)
        /\ w3 = Advance(w2, 1, q) /\ a = Advance(w3, 1, q)
        /\ a \in Worlds({1})
  BY AloneIs
<1> HIDE DEF q, a
<1> DEFINE Gone(v) == v.at[1] = "end" /\ v.container.state = "none"
<1>3. ASSUME NEW v \in Worlds({1}) PROVE Advance(v, 1, q) = CatalogRemove(v, 1, q)
  BY <1>1 DEF Advance
<1>4. ASSUME NEW v \in Worlds({1}), v.at[1] = "end" PROVE Advance(v, 1, q) = v
  BY <1>3, <1>4 DEF CatalogRemove, Volumes
<1>5. CASE w0.container.state = "none"
  <2>1. w1 = Answers(w0, 1, FALSE)
    BY <1>2, <1>3, <1>5 DEF CatalogRemove, Volumes, FindContainer
  <2>2. IsWorld(w1, {1}, w0.container, w0.volumes, [w0.at EXCEPT ![1] = "end"], [w0.ok EXCEPT ![1] = FALSE],
                w0.found, w0.errors)
    BY <2>1, AnswersIs
  <2>3. Gone(w1)
    BY <1>5, <2>2 DEF IsWorld, Worlds
  <2>4. w2 = w1 /\ w3 = w1 /\ a = w1
    BY <1>2, <1>4, <2>3
  <2>5. QED
    BY <1>2, <2>3, <2>4 DEF a
<1>6. CASE w0.container.state # "none"
  <2> DEFINE g == Goes(w0, 1, "stop")
  <2>1. w1 = [g EXCEPT !.found[1] = w0.container.id]
    BY <1>2, <1>3, <1>6 DEF CatalogRemove, Volumes, FindContainer
  <2>2. IsWorld(g, {1}, w0.container, w0.volumes, [w0.at EXCEPT ![1] = "stop"], w0.ok, w0.found, w0.errors)
    BY GoesIs DEF Turns
  <2> HIDE DEF g
  <2>3. w1.at[1] = "stop" /\ w1.container = w0.container /\ w1.found[1] = w1.container.id
    BY <2>1, <2>2 DEF IsWorld, Worlds
  <2> DEFINE h == Goes(w1, 1, "remove")
  <2>4. w2 = [h EXCEPT !.container.state = "exited"]
    <3>1. "stop" # "find"
      OBVIOUS
    <3>2. QED
      BY <1>1, <1>2, <1>3, <1>6, <2>3, <3>1 DEF CatalogRemove, Volumes
  <2>5. IsWorld(h, {1}, w1.container, w1.volumes, [w1.at EXCEPT ![1] = "remove"], w1.ok, w1.found, w1.errors)
    BY GoesIs DEF Turns
  <2> HIDE DEF h
  <2>6. w2.at[1] = "remove" /\ w2.container.state = "exited" /\ w2.found[1] = w2.container.id
    BY <2>3, <2>4, <2>5 DEF IsWorld, Worlds, Container
  <2> DEFINE j == Answers(w2, 1, TRUE)
  <2>7. w3 = [j EXCEPT !.container = None]
    <3>1. "remove" # "find" /\ "remove" # "stop" /\ "exited" # "none"
      OBVIOUS
    <3>2. QED
      BY <1>1, <1>2, <1>3, <2>6, <3>1 DEF CatalogRemove, Volumes
  <2>8. IsWorld(j, {1}, w2.container, w2.volumes, [w2.at EXCEPT ![1] = "end"], [w2.ok EXCEPT ![1] = TRUE],
                w2.found, w2.errors)
    BY AnswersIs
  <2> HIDE DEF j
  <2>9. Gone(w3)
    BY <2>7, <2>8 DEF IsWorld, Worlds, None
  <2>10. a = w3
    BY <1>2, <1>4, <2>9
  <2>11. QED
    BY <1>2, <2>9, <2>10 DEF a
<1>7. QED
  BY <1>5, <1>6

\* An install that Docker refuses nothing, where there is no container, makes one that runs.
LEMMA InstallWorks ==
  ASSUME NEW D \in SUBSET Nat, NEW w \in Worlds(D), w.container.state = "none"
  PROVE  Alone("install", w).container.state = "running"
<1> DEFINE q == Plain("install")[1]
           a == Alone("install", w)
<1>1. q.op = "install" /\ q.fault = "none"
  BY PlainTyped
<1>2. PICK w0, w1, w2, w3 \in Worlds({1}) :
        /\ w0.container = w.container /\ w0.at[1] = "find"
        /\ w1 = Advance(w0, 1, q) /\ w2 = Advance(w1, 1, q)
        /\ w3 = Advance(w2, 1, q) /\ a = Advance(w3, 1, q)
        /\ a \in Worlds({1})
  BY AloneIs
<1> HIDE DEF q, a
<1>3. ASSUME NEW v \in Worlds({1}) PROVE Advance(v, 1, q) = CatalogInstall(v, 1, q)
  BY <1>1 DEF Advance
<1>4. ASSUME NEW v \in Worlds({1}), NEW turn \in {"ports", "pull", "run"}
      PROVE  Goes(v, 1, turn).container = v.container /\ Goes(v, 1, turn).at[1] = turn
  <2>1. IsWorld(Goes(v, 1, turn), {1}, v.container, v.volumes, [v.at EXCEPT ![1] = turn],
                v.ok, v.found, v.errors)
    <3>1. turn \in Turns
      BY DEF Turns
    <3>2. QED
      BY <3>1, GoesIs
  <2>2. QED
    BY <2>1 DEF IsWorld, Worlds
<1>5. /\ "ports" # "find" /\ "pull" # "find" /\ "run" # "find"
      /\ "pull" # "ports" /\ "run" # "ports" /\ "run" # "pull"
  OBVIOUS
<1>6. w1 = Goes(w0, 1, "ports")
  BY <1>2, <1>3 DEF CatalogInstall, FindContainer
<1>7. w1.container = w.container /\ w1.at[1] = "ports"
  BY <1>2, <1>4, <1>6
<1>8. w2 = Goes(w1, 1, "pull")
  BY <1>1, <1>2, <1>3, <1>5, <1>7 DEF CatalogInstall, HostPortsInUse
<1>9. w2.container = w.container /\ w2.at[1] = "pull"
  BY <1>2, <1>4, <1>7, <1>8
<1>10. w3 = Goes(w2, 1, "run")
  BY <1>1, <1>2, <1>3, <1>5, <1>9 DEF CatalogInstall
<1>11. w3.container = w.container /\ w3.at[1] = "run"
  BY <1>2, <1>4, <1>9, <1>10
<1>12. a = RunContainer(w3, 1, q)
  BY <1>2, <1>3, <1>5, <1>11 DEF CatalogInstall
<1>13. a.container.state = "running"
  <2> DEFINE cont == [id |-> 1, state |-> "running"]
             made == [w3 EXCEPT !.container = cont, !.volumes = Volumes]
  <2>1. a = Answers(made, 1, TRUE)
    BY <1>1, <1>11, <1>12 DEF RunContainer
  <2>2. cont \in Container
    BY DEF Container, States
  <2> HIDE DEF cont
  <2>3. made \in Worlds({1}) /\ made.container = cont
    BY <2>2 DEF Worlds
  <2> HIDE DEF made
  <2>4. IsWorld(Answers(made, 1, TRUE), {1}, made.container, made.volumes, [made.at EXCEPT ![1] = "end"],
                [made.ok EXCEPT ![1] = TRUE], made.found, made.errors)
    BY <2>3, AnswersIs
  <2>5. a.container = cont
    BY <2>1, <2>3, <2>4 DEF IsWorld
  <2>6. QED
    BY <2>5 DEF cont
<1>14. QED
  BY <1>13 DEF a

\* Whatever is left of the program, removing it and installing it again works.
LEMMA ReinstallWorks ==
  ASSUME NEW D \in SUBSET Nat, NEW w \in Worlds(D)
  PROVE  Status(Alone("install", Alone("remove", w))) = "running"
<1>1. Alone("remove", w) \in Worlds({1}) /\ Alone("remove", w).container.state = "none"
  BY RemovalWorks
<1>2. Alone("install", Alone("remove", w)).container.state = "running"
  BY <1>1, InstallWorks
<1>3. QED
  BY <1>2 DEF Status, FindContainer

-----------------------------------------------------------------------------
(* Any number of requests for one program, each any install or removal, on *)
(* threads of their own, their calls of Docker in any order and cut off    *)
(* anywhere, whatever Docker refuses (catalog_install and catalog_remove,  *)
(* services/catalog/router.py): of installs one at most says that it did,  *)
(* and then the program runs; of removals likewise, and then it is gone,   *)
(* with the data that it does not name as kept; what no request asked to   *)
(* delete is there; and whatever the requests left can be removed and      *)
(* installed again.                                                        *)
THEOREM CatalogTells ==
  ASSUME NEW D \in SUBSET Nat, NEW container \in Container, NEW requests \in [D -> Request],
         NEW order \in Seq(D)
  PROVE  LET w == Catalog(container, Volumes, requests, order) IN
         /\ (\A r \in D : requests[r].op = "install") =>
              \A r, s \in D : w.ok[r] => Status(w) = "running" /\ (w.ok[s] => s = r)
         /\ (\A r \in D : requests[r].op = "remove") =>
              \A r, s \in D : w.ok[r] => /\ Status(w) = "not_installed" /\ (w.ok[s] => s = r)
                                       /\ (requests[r].wipe => w.volumes \subseteq w.errors[r])
         /\ (\A r \in D : ~requests[r].wipe) => w.volumes = Volumes
         /\ Status(Alone("install", Alone("remove", w))) = "running"
<1> DEFINE w == Catalog(container, Volumes, requests, order)
<1>1. w \in Worlds(D)
  <2>1. /\ World(container, Volumes, requests) \in Worlds(D)
        /\ \A v \in Worlds(D), r \in D : Advance(v, r, requests[r]) \in Worlds(D)
    BY AdvanceTyped, WorldStarts DEF Starts
  <2>2. QED
    BY <2>1, CourseKeeps
<1>2. ASSUME \A r \in D : requests[r].op = "install", NEW r \in D, NEW s \in D, w.ok[r]
      PROVE  Status(w) = "running" /\ (w.ok[s] => s = r)
  <2>1. w \in Installed(D)
    BY <1>2, InstallsTold
  <2> HIDE DEF w
  <2>2. w.container = [id |-> r, state |-> "running"]
    BY <1>2, <2>1 DEF Installed
  <2>3. w.ok[s] => w.container = [id |-> s, state |-> "running"]
    BY <2>1 DEF Installed
  <2>4. Status(w) = "running"
    BY <2>2 DEF Status, FindContainer
  <2>5. w.ok[s] => s = r
    BY <2>2, <2>3
  <2>6. QED
    BY <2>4, <2>5
<1>3. ASSUME \A r \in D : requests[r].op = "remove", NEW r \in D, NEW s \in D, w.ok[r]
      PROVE  /\ Status(w) = "not_installed" /\ (w.ok[s] => s = r)
             /\ (requests[r].wipe => w.volumes \subseteq w.errors[r])
  <2>1. w \in Removed(D, requests)
    BY <1>3, RemovalsTold
  <2> HIDE DEF w
  <2>2. /\ w.container.state = "none" /\ (w.ok[s] => s = r)
        /\ requests[r].wipe => w.volumes \subseteq w.errors[r]
    BY <1>3, <2>1 DEF Removed
  <2>3. QED
    BY <2>2 DEF Status, FindContainer
<1>4. ASSUME \A r \in D : ~requests[r].wipe PROVE w.volumes = Volumes
  <2>1. w \in Whole(D)
    BY <1>4, DataKept
  <2>2. QED
    BY <2>1 DEF Whole
<1>5. Status(Alone("install", Alone("remove", w))) = "running"
  BY <1>1, ReinstallWorks
<1>6. QED
  BY <1>2, <1>3, <1>4, <1>5

\* The orders the runs go through are orders of that kind.
LEMMA OrdersTold == EveryOrderTold
<1> SUFFICES ASSUME NEW container \in {None, [id |-> Known, state |-> "running"],
                                           [id |-> Known, state |-> "created"]},
                    NEW first \in Requests, NEW second \in Requests, NEW order \in Orders
             PROVE  LET w == Catalog(container, Volumes, <<first, second>>, order)
                        ops == {first.op, second.op}
                        q == <<first, second>>
                    IN /\ ops = {"install"} =>
                            ~(w.ok[1] /\ w.ok[2]) /\ (w.ok[1] \/ w.ok[2] => Status(w) = "running")
                       /\ ops = {"remove"} =>
                            ~(w.ok[1] /\ w.ok[2]) /\ (w.ok[1] \/ w.ok[2] => Status(w) = "not_installed")
                       /\ ~first.wipe /\ ~second.wipe => w.volumes = Volumes
                       /\ \A r \in {1, 2} :
                            "install" \notin ops /\ q[r].wipe /\ w.ok[r] => w.volumes \subseteq w.errors[r]
                       /\ Status(Alone("install", Alone("remove", w))) = "running"
  BY Zenon DEF EveryOrderTold
<1> DEFINE q == <<first, second>>
           w == Catalog(container, Volumes, q, order)
<1>1. container \in Container
  BY DEF None, Known, Container, States
<1>2. /\ first \in Request /\ second \in Request
      /\ first.op \in {"install", "remove"} /\ second.op \in {"install", "remove"}
  BY DEF Requests, Request
<1>3. q \in [{1, 2} -> Request] /\ q[1] = first /\ q[2] = second
  BY <1>2
<1>4. order \in Seq({1, 2}) /\ {1, 2} \in SUBSET Nat
  <2>1. order \in [1..(2 * Calls) -> {1, 2}] /\ 2 * Calls \in Nat
    BY DEF Orders, Calls
  <2>2. QED
    BY <2>1, SeqDef
<1> HIDE DEF q
<1>5. /\ (\A r \in {1, 2} : q[r].op = "install") =>
           \A r, s \in {1, 2} : w.ok[r] => Status(w) = "running" /\ (w.ok[s] => s = r)
      /\ (\A r \in {1, 2} : q[r].op = "remove") =>
           \A r, s \in {1, 2} : w.ok[r] => /\ Status(w) = "not_installed" /\ (w.ok[s] => s = r)
                                    /\ (q[r].wipe => w.volumes \subseteq w.errors[r])
      /\ (\A r \in {1, 2} : ~q[r].wipe) => w.volumes = Volumes
      /\ Status(Alone("install", Alone("remove", w))) = "running"
  BY <1>1, <1>3, <1>4, CatalogTells
<1> HIDE DEF w
<1>6. CASE first.op = "install" /\ second.op = "install"
  BY <1>3, <1>5, <1>6 DEF q, w
<1>7. CASE first.op = "remove" /\ second.op = "remove"
  BY <1>3, <1>5, <1>7 DEF q, w
<1>8. CASE first.op # second.op
  BY <1>2, <1>3, <1>5, <1>8 DEF q, w
<1>9. QED
  BY <1>2, <1>6, <1>7, <1>8

\* Whatever happens to the fleet, its state is well-formed and the catalog's requests do
\* what they say, in every order of the calls of two of them (services/catalog/router.py).
THEOREM CatalogHolds == Spec => []CatalogTold
<1>1. EveryOrderTold
  BY OrdersTold
<1>2. TypeOK => CatalogTold
  BY <1>1 DEF CatalogTold
<1>3. QED
  BY <1>2, TypeCorrect, PTL

=============================================================================
