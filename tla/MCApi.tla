------------------------------- MODULE MCApi -------------------------------
(***************************************************************************)
(* Instances of Api for TLC.                                               *)
(***************************************************************************)
EXTENDS Api

CONSTANT MCFunds

MCOpening == [a \in Accounts |-> MCFunds]

\* Everything of the first wallet, and its transfers only.
MCQueries == {[wallet |-> 1, assets |-> Assets, types |-> Types],
              [wallet |-> 1, assets |-> Assets, types |-> {"transfer_fiat"}]}
=============================================================================
