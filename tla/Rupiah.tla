------------------------------- MODULE Rupiah -------------------------------
(***************************************************************************)
(* Rupiah come in through Midtrans Snap and go out through Midtrans Iris:  *)
(* TopUp and FiatWithdrawal in one process over one Ledger.  The two flows *)
(* share the balances, the transaction table and the fate of the server.   *)
(***************************************************************************)
EXTENDS TopUp, FiatWithdrawal

rupiahVars == <<balance, txn, charge, order, gross, sent, unacked, work,
                request, answer, payout, token, mu, call>>

TopUpOnly == <<charge, order, gross, sent, unacked, work>>
FiatOnly  == <<request, answer, payout, tokenVars>>

\* The server dies with every request and handler in it.
Crash ==
  /\ TopUpCrash
  /\ FiatCrash

Init == TopUpInit /\ FiatInit

Next ==
  \/ TopUpStep /\ UNCHANGED FiatOnly
  \/ FiatStep /\ UNCHANGED TopUpOnly
  \/ Crash

Spec == Init /\ [][Next]_rupiahVars

FairSpec == Spec /\ TopUpFairness /\ FiatFairness

-----------------------------------------------------------------------------
(***************************************************************************)
(* Properties.                                                             *)
(***************************************************************************)
\* The tables, Midtrans and everything in flight hold values of their types.
TypeOK == TopUpTypeOK /\ FiatTypeOK

\* What a customer has paid into an account, order by order.
Payments(a) ==
  [id \in TxIds |->
     IF id \in TopUps /\ order[id] = "paid" /\ a = <<txn[id].destination, txn[id].asset>>
     THEN gross[id] ELSE 0]

PaidIn(a) == SumFunctionOnSet(Payments(a), TxIds)

\* Nobody's balance exceeds what it was and what they have paid in: a payment
\* is credited at most once and a debit paid back at most once (NFR-SEC-005),
\* however the notifications of Midtrans and the callbacks of Iris come.
NoFreeMoney == \A a \in Accounts : balance[a] <= Opening[a] + PaidIn(a)
=============================================================================
