----------------------------- MODULE MCLedgerTx -----------------------------
(***************************************************************************)
(* Instances of LedgerTx for TLC.  Every account opens with MCFunds, so    *)
(* that both outcomes of an insufficient-balance check are reached.        *)
(***************************************************************************)
EXTENDS LedgerTx, TLC

CONSTANT MCFunds

MCOpening == [a \in Accounts |-> MCFunds]

MCSymmetry == Permutations(Procs) \cup Permutations(TxIds)
=============================================================================
