----------------------------- MODULE Maintenance -----------------------------
(* Two nightly jobs of several calls: the backup that Radarr and Sonarr    *)
(* make of themselves (arr-app-backup.py), and the deletion of NzbDAV's    *)
(* failed history (bearmount-prune-history.py and the panel's              *)
(* delete-failures).  What each call meets is an input.                    *)
EXTENDS Naturals, FiniteSets, FiniteSetsExt

-----------------------------------------------------------------------------
(* A backup is started at time 0 and polled every "interval" until it has  *)
(* ended or "timeout" has passed; an answer takes "delay".  The post and   *)
(* the polls may fail, or hang: that ends the script, since an answer that *)
(* does not come is none of the errors it names.                           *)
NoFault == 99

AskedAt(poll, interval, delay) == IF poll = 0 THEN 0 ELSE poll * (interval + delay) - delay
AnsweredAt(poll, interval, delay) == poll * (interval + delay)

BackupStatus(app, poll, interval, delay) ==
  IF AskedAt(poll, interval, delay) >= app.endsAt THEN app.ends ELSE "started"

LastPoll(app, interval, timeout, delay) ==
  Min({k \in 0..timeout : \/ BackupStatus(app, k, interval, delay) # "started"
                          \/ AnsweredAt(k, interval, delay) >= timeout
                          \/ k = app.faultAt})

TriggerBackup(app, interval, timeout, delay) ==
  LET last == LastPoll(app, interval, timeout, delay)
      status == BackupStatus(app, last, interval, delay)
  IN IF ~app.key THEN "no key"
     ELSE IF last = app.faultAt THEN (IF app.fault = "hangs" THEN "died" ELSE "call failed")
     ELSE IF status = "started" THEN "still running" ELSE status

(* One application after the other, then one message: green if all of them *)
(* are backed up.                                                          *)
Backups(apps, interval, timeout, delay) ==
  LET outcome == [n \in DOMAIN apps |-> TriggerBackup(apps[n], interval, timeout, delay)]
      died == {n \in DOMAIN apps : outcome[n] = "died"}
  IN IF died # {} THEN [told |-> "nothing", outcome |-> outcome]
     ELSE [told |-> IF \A n \in DOMAIN apps : outcome[n] = "completed" THEN "green" ELSE "red",
           outcome |-> outcome]

-----------------------------------------------------------------------------
(* The history is read, and every entry of it that failed is deleted by a  *)
(* call of its own, many at a time.  "meets" is what befalls an entry's    *)
(* call: it may be refused, not arrive, or be done with its answer lost.   *)
DeleteOne(meets, id) ==
  [gone |-> meets[id] \in {"none", "lost"}, ok |-> meets[id] = "none"]

DeleteFailures(history, meets) ==
  LET failed == {id \in DOMAIN history : history[id] = "Failed"}
      gone == {id \in failed : DeleteOne(meets, id).gone}
      deleted == {id \in failed : DeleteOne(meets, id).ok}
  IN [history |-> [id \in DOMAIN history \ gone |-> history[id]],
      deleted |-> Cardinality(deleted), errors |-> Cardinality(failed) - Cardinality(deleted)]

-----------------------------------------------------------------------------
(* Properties, over bounded times and histories.                           *)
(* A backup that the application completes within the timeout, but for the *)
(* time an answer takes, is never called still running; one that is called *)
(* completed is so; green means that every application has its backup      *)
(* (trigger_backup, main).                                                 *)
BackupsTold ==
  \A interval \in 1..3, timeout \in 2..6, delay \in 0..1 :
    \A app \in [key : BOOLEAN, endsAt : 0..9, ends : {"completed", "failed"},
                faultAt : {0, 1, 2, NoFault}, fault : {"fails", "hangs"}] :
      LET other == [key |-> TRUE, endsAt |-> 1, ends |-> "completed", faultAt |-> NoFault, fault |-> "fails"]
          told == Backups(<<app, other>>, interval, timeout, delay)
      IN /\ told.outcome[1] = "still running" => app.endsAt > timeout - delay
         /\ told.told = "green" => app.key /\ app.ends = "completed" /\ app.endsAt <= timeout + interval

(* Only failed entries are deleted; those that stay were counted as        *)
(* errors, and the next night deletes them (delete_one, main,              *)
(* nzbdav_delete_failures).                                                *)
DeletionsTold ==
  \A ids \in SUBSET (1..4) :
    \A history \in [ids -> {"Failed", "Completed"}], meets \in [ids -> {"none", "refused", "down", "lost"}] :
      LET told == DeleteFailures(history, meets)
          left == {id \in DOMAIN told.history : told.history[id] = "Failed"}
          again == DeleteFailures(told.history, [id \in ids |-> "none"])
          completed == {id \in ids : history[id] = "Completed"}
      IN /\ completed \subseteq DOMAIN told.history
         /\ Cardinality(left) <= told.errors
         /\ told.deleted <= Cardinality(ids \ DOMAIN told.history)
         /\ DOMAIN again.history = completed

=============================================================================
