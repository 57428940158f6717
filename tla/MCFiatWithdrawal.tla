-------------------------- MODULE MCFiatWithdrawal --------------------------
(***************************************************************************)
(* Instances of FiatWithdrawal for TLC.                                    *)
(***************************************************************************)
EXTENDS FiatWithdrawal

CONSTANT MCFunds

MCOpening == [a \in Accounts |-> MCFunds]
=============================================================================
