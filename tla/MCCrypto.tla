------------------------------ MODULE MCCrypto ------------------------------
(***************************************************************************)
(* Instances of Crypto for TLC: every wallet owns tokens, and an address   *)
(* for USDT, and none for USDC.                                            *)
(***************************************************************************)
EXTENDS Crypto

CONSTANTS MCFunds, USDT

MCOpening == [a \in Accounts |-> IF a[2] = IDR THEN 0 ELSE MCFunds]

MCRegistered == {<<w, USDT>> : w \in Wallets}
=============================================================================
