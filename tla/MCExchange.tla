----------------------------- MODULE MCExchange -----------------------------
(***************************************************************************)
(* Instances of Exchange for TLC.  The amounts are 0.4 and 10.6 rupiah or  *)
(* tokens, so that one is rounded to nothing and the other up.             *)
(***************************************************************************)
EXTENDS Exchange

CONSTANT MCFunds

MCOpening == [a \in Accounts |-> MCFunds]
=============================================================================
