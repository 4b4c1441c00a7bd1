---------------------------- MODULE RestorePoints ----------------------------
(***************************************************************************)
(* What the backup pipeline promises about restore points, without its     *)
(* staging, libvirt, catalog and deletion machinery: a run is accepted,    *)
(* ends once, and its restore point appears in the very step in which the  *)
(* run succeeds; a point that was removed never comes back.  A run that    *)
(* already succeeded may still be reported as failed by the retention pass *)
(* that follows its publication, which does not take its point away.       *)
(***************************************************************************)
CONSTANT Runs
VARIABLES outcome, available

abstractVars == <<outcome, available>>

Accept(r) ==
    /\ outcome[r] = "NONE"
    /\ outcome' = [outcome EXCEPT ![r] = "ACTIVE"]
    /\ UNCHANGED available

Publish(r) ==
    /\ outcome[r] = "ACTIVE"
    /\ outcome' = [outcome EXCEPT ![r] = "SUCCESS"]
    /\ available' = available \cup {r}

Fail(r) ==
    /\ outcome[r] = "ACTIVE"
    /\ outcome' = [outcome EXCEPT ![r] = "FAILED"]
    /\ UNCHANGED available

RetentionFailed(r) ==
    /\ outcome[r] = "SUCCESS"
    /\ outcome' = [outcome EXCEPT ![r] = "FAILED"]
    /\ UNCHANGED available

Remove(r) ==
    /\ r \in available
    /\ available' = available \ {r}
    /\ UNCHANGED outcome

Init ==
    /\ outcome = [r \in Runs |-> "NONE"]
    /\ available = {}

Next == \E r \in Runs :
    Accept(r) \/ Publish(r) \/ Fail(r) \/ RetentionFailed(r) \/ Remove(r)

Spec == Init /\ [][Next]_abstractVars

=============================================================================
