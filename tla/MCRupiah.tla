------------------------------ MODULE MCRupiah ------------------------------
(***************************************************************************)
(* Instances of Rupiah for TLC.                                            *)
(***************************************************************************)
EXTENDS Rupiah

CONSTANT MCFunds

MCOpening == [a \in Accounts |-> MCFunds]
=============================================================================
