----------------------------- MODULE MCAccounts -----------------------------
(***************************************************************************)
(* Instances of Accounts for TLC: a Google account with the address e1,    *)
(* which somebody may also register with a password.                       *)
(***************************************************************************)
EXTENDS Login

CONSTANT e1

MCEmailOf == [g \in Googles |-> e1]
=============================================================================
