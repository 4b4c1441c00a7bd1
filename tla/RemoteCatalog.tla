--------------------------- MODULE RemoteCatalog ---------------------------
(***************************************************************************)
(* What the receivers promise: a replica becomes readable in one step,     *)
(* whole and not before its parent is listed, and stays readable until its *)
(* removal begins.  A replica is listed until its removal has ended.       *)
(***************************************************************************)
EXTENDS Naturals

CONSTANTS Points, Dests, Parent

VARIABLE status

Init == status = [d \in Dests |-> [p \in Points |-> "absent"]]

Set(d, p, s) == status' = [status EXCEPT ![d][p] = s]

Publish(d, p) ==
    /\ status[d][p] = "absent"
    /\ Parent[p] # 0 => status[d][Parent[p]] # "absent"
    /\ Set(d, p, "readable")

BeginRemove(d, p) == status[d][p] = "readable" /\ Set(d, p, "removing")
EndRemove(d, p)   == status[d][p] = "removing" /\ Set(d, p, "absent")

Next == \E d \in Dests, p \in Points :
            Publish(d, p) \/ BeginRemove(d, p) \/ EndRemove(d, p)

Spec == Init /\ [][Next]_status
=============================================================================
