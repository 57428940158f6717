------------------------------ MODULE MCTopUp ------------------------------
(***************************************************************************)
(* Instances of TopUp for TLC.                                             *)
(***************************************************************************)
EXTENDS TopUp

MCOpening == [a \in Accounts |-> 0]
=============================================================================
