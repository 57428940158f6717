----------------------------- MODULE MCDeposits -----------------------------
(***************************************************************************)
(* Instances of Deposits for TLC: each wallet may ask for one address, for *)
(* USDT; somebody may send USDC there.                                     *)
(***************************************************************************)
EXTENDS Deposits

CONSTANT USDT

MCOpening == [a \in Accounts |-> 0]

MCOffered == {<<w, "polygon_amoy", USDT>> : w \in Wallets}
=============================================================================
