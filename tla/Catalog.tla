------------------------------- MODULE Catalog -------------------------------
(* The software catalog (services/catalog/router.py): a program of it is   *)
(* installed and removed by requests that the panel serves on threads of   *)
(* their own, so that two of them interleave between any two calls of      *)
(* Docker.  A world is what Docker holds of one program and how far each   *)
(* request is; a request's fault is the call of its that Docker refuses.   *)
EXTENDS Integers, FiniteSets, Sequences

Volumes == {"config", "data"}
None == [id |-> 0, state |-> "none"]

\* Defect: only a container that runs counts.
FindRunning(w) == w.container.state = "running"

(* A container that was created counts, whether it ever started or not.    *)
FindContainer(w) == w.container.state # "none"

(* The ports of every container, running or not, are in use.  The program  *)
(* has some, and so has its own container if it is there by now.           *)
HostPortsInUse(w, q) == q.fault = "ports" \/ w.container.state # "none"

Answers(w, r, ok) == [w EXCEPT !.at[r] = "end", !.ok[r] = ok]
Goes(w, r, call) == [w EXCEPT !.at[r] = call]

(* containers.run creates the container, and its volumes, and starts it;   *)
(* it fails to start if, for one, a port was taken since.  What was        *)
(* created stays.                                                          *)
RunContainer(w, r, q) ==
  LET started == q.fault # "start"
      made == [w EXCEPT !.container = [id |-> r, state |-> IF started THEN "running" ELSE "created"],
                        !.volumes = Volumes]
  IN IF q.fault = "create" \/ w.container.state # "none" THEN Answers(w, r, FALSE)
     ELSE Answers(made, r, started)

CatalogInstall(w, r, q) ==
  CASE w.at[r] = "find" -> IF FindContainer(w) THEN Answers(w, r, FALSE) ELSE Goes(w, r, "ports")
    [] w.at[r] = "ports" -> IF HostPortsInUse(w, q) THEN Answers(w, r, FALSE) ELSE Goes(w, r, "pull")
    [] w.at[r] = "pull" -> IF q.fault = "pull" THEN Answers(w, r, FALSE) ELSE Goes(w, r, "run")
    [] w.at[r] = "run" -> RunContainer(w, r, q)
    [] OTHER -> w

(* One turn of the loop over the volumes.  One that is not there is passed *)
(* over; one that a container uses, or that Docker refuses to remove, is   *)
(* named in the answer, which is "removed" all the same.                   *)
RemoveVolume(w, r, q, volume) ==
  LET after == IF volume = "config" THEN Goes(w, r, "data") ELSE Answers(w, r, TRUE)
      kept == w.volumes \cap {volume}
  IN IF q.fault = volume \/ w.container.state # "none"
     THEN [after EXCEPT !.errors[r] = @ \cup kept]
     ELSE [after EXCEPT !.volumes = @ \ {volume}]

(* Docker acts on the container that was found, not on one of its name.    *)
CatalogRemove(w, r, q) ==
  LET gone == w.container.id # w.found[r] \/ w.container.state = "none" IN
  CASE w.at[r] = "find" -> IF FindContainer(w) THEN [Goes(w, r, "stop") EXCEPT !.found[r] = w.container.id]
                           ELSE Answers(w, r, FALSE)
    [] w.at[r] = "stop" -> IF gone \/ q.fault = "stop" THEN Answers(w, r, FALSE)
                           ELSE [Goes(w, r, "remove") EXCEPT !.container.state = "exited"]
    [] w.at[r] = "remove" -> IF gone \/ q.fault = "remove" THEN Answers(w, r, FALSE)
                             ELSE [(IF q.wipe THEN Goes(w, r, "config") ELSE Answers(w, r, TRUE))
                                     EXCEPT !.container = None]
    [] w.at[r] \in Volumes -> RemoveVolume(w, r, q, w.at[r])
    [] OTHER -> w

Advance(w, r, q) == IF q.op = "install" THEN CatalogInstall(w, r, q) ELSE CatalogRemove(w, r, q)

World(container, volumes, requests) ==
  [container |-> container, volumes |-> volumes,
   at |-> [r \in DOMAIN requests |-> "find"], ok |-> [r \in DOMAIN requests |-> FALSE],
   found |-> [r \in DOMAIN requests |-> 0], errors |-> [r \in DOMAIN requests |-> {}]]

(* The worlds that the calls lead through, one after the other; order[n]   *)
(* is the request whose turn is the n-th.                                  *)
Course(container, volumes, requests, order) ==
  LET after[n \in 0..Len(order)] ==
        IF n = 0 THEN World(container, volumes, requests)
        ELSE Advance(after[n - 1], order[n], requests[order[n]])
  IN after

Catalog(container, volumes, requests, order) ==
  Course(container, volumes, requests, order)[Len(order)]

(* catalog_list and catalog_status show the container's own state.         *)
Status(w) == IF FindContainer(w) THEN w.container.state ELSE "not_installed"

-----------------------------------------------------------------------------
(* Properties, over every order of two requests.                           *)
Calls == 5
Requests ==
  [op : {"install"}, wipe : {FALSE}, fault : {"none", "ports", "pull", "create", "start"}]
    \cup [op : {"remove"}, wipe : BOOLEAN, fault : {"none", "stop", "remove", "config", "data"}]
Orders == {order \in [1..(2 * Calls) -> {1, 2}] : Cardinality({n \in DOMAIN order : order[n] = 1}) = Calls}
Known == 9

Plain(op) == <<[op |-> op, wipe |-> FALSE, fault |-> "none"]>>
Alone(op, w) == Catalog(w.container, w.volumes, Plain(op), <<1, 1, 1, 1>>)

(* Two requests for one program, in any order of their steps, whatever     *)
(* Docker refuses: of two installs one at most says that it did, and then  *)
(* the program runs; of two removals likewise, and then it is gone.  No    *)
(* data is lost that no request asked to delete; what a removal does not   *)
(* name as kept is gone.  And no half-made container is left that the      *)
(* panel can neither remove nor install over (catalog_install,             *)
(* catalog_remove).                                                        *)
EveryOrderTold ==
  \A container \in {None, [id |-> Known, state |-> "running"], [id |-> Known, state |-> "created"]},
     first, second \in Requests, order \in Orders :
    LET w == Catalog(container, Volumes, <<first, second>>, order)
        ops == {first.op, second.op}
        q == <<first, second>>
    IN /\ ops = {"install"} => ~(w.ok[1] /\ w.ok[2]) /\ (w.ok[1] \/ w.ok[2] => Status(w) = "running")
       /\ ops = {"remove"} => ~(w.ok[1] /\ w.ok[2]) /\ (w.ok[1] \/ w.ok[2] => Status(w) = "not_installed")
       /\ ~first.wipe /\ ~second.wipe => w.volumes = Volumes
       /\ \A r \in {1, 2} : "install" \notin ops /\ q[r].wipe /\ w.ok[r] => w.volumes \subseteq w.errors[r]
       /\ Status(Alone("install", Alone("remove", w))) = "running"

=============================================================================
