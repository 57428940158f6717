------------------------------ MODULE Outcome ------------------------------
(***************************************************************************)
(* What a movement of money through the outside world (a top-up, a bank    *)
(* payout, a blockchain transfer) owes its user: it is recorded as         *)
(* pending, it ends as success or as failed, and it ends once.  The        *)
(* modules of the flows implement this for the status column of the        *)
(* transaction table.                                                      *)
(***************************************************************************)
CONSTANT Ids

VARIABLE outcome

Record(id) ==
  /\ outcome[id] = "none"
  /\ outcome' = [outcome EXCEPT ![id] = "pending"]

Decide(id) ==
  /\ outcome[id] = "pending"
  /\ \E end \in {"success", "failed"} : outcome' = [outcome EXCEPT ![id] = end]

Init == outcome = [id \in Ids |-> "none"]

Next == \E id \in Ids : Record(id) \/ Decide(id)

Spec == Init /\ [][Next]_outcome
=============================================================================
