--------------------------- MODULE FiatWithdrawal ---------------------------
(***************************************************************************)
(* Withdrawing Rupiah to a bank account: fiatUsecase.WithdrawFiat debits   *)
(* the wallet, asks Iris for a payout, and writes what Iris answered or    *)
(* refunds what it refused; later Iris posts callbacks about the payout,   *)
(* until it is answered 200, and webhookUsecase.ProcessIrisNotification    *)
(* writes them into the same row.  CreatePayout first needs an access      *)
(* token, which all payouts share (IrisToken).                             *)
(*                                                                         *)
(* The request and the callbacks run in different goroutines and share     *)
(* nothing but the row.  The row's status is the only thing that keeps a   *)
(* refund from being paid twice, and two of its three writers do not look  *)
(* at it.                                                                  *)
(***************************************************************************)
EXTENDS Ledger, IrisToken

CONSTANTS
  CallbackWaits,  \* no callback is processed before the request has finished
  Echoed          \* a callback's reference_no is the row's transaction_id

ASSUME FiatAssumption ==
  /\ CallbackWaits \in BOOLEAN /\ Echoed \in BOOLEAN
  /\ Calls = TxIds    \* a withdrawal makes one payout

VARIABLES
  request,   \* where WithdrawFiat is, by row
  answer,    \* the status the answer to CreatePayout is mapped to
  payout     \* what becomes of the payout at Iris and the bank

fiatVars == <<balance, txn, request, answer, payout, token, mu, call>>

Finished(id) == request[id] \in {"answered", "gaveUp", "crashed"}

-----------------------------------------------------------------------------
(***************************************************************************)
(* fiatUsecase.WithdrawFiat.                                               *)
(***************************************************************************)
\* The balance is looked at once without a lock and once under it; a request
\* that passes the first look and not the second leaves no trace.  Between the
\* two the amount is rounded, so what is debited is what is paid out.
Withdraw(id) ==
  /\ \E w \in Wallets, n \in Amounts : ExecuteWithdrawFiatTx(id, w, Rounded(n))
  /\ request' = [request EXCEPT ![id] = "paying"]
  /\ Queue(id)
  /\ UNCHANGED <<answer, payout>>

\* getAccessToken finds a token or asks for one.
GetToken(id) ==
  /\ UseToken(id) \/ AskToken(id) \/ TokenArrives(id)
  /\ UNCHANGED <<ledgerVars, request, answer, payout>>

\* There is no token: CreatePayout fails before it has told Iris anything.
TokenError(id) ==
  /\ TokenFails(id)
  /\ request' = [request EXCEPT ![id] = "refused"]
  /\ UNCHANGED <<ledgerVars, answer, payout>>

\* CreatePayout is answered with a response code: 2001100 and 2000000 mean
\* that the money has gone out, every other one is mapped to "pending".
PayoutAnswered(id) ==
  /\ Sent(id)
  /\ \/ /\ answer' = [answer EXCEPT ![id] = "success"]
        /\ payout' = [payout EXCEPT ![id] = "paid"]
     \/ /\ answer' = [answer EXCEPT ![id] = "pending"]
        /\ payout' = [payout EXCEPT ![id] = "taken"]
  /\ request' = [request EXCEPT ![id] = "storing"]
  /\ UNCHANGED ledgerVars

\* CreatePayout returns an error: Iris refused, or its answer was lost to a
\* timeout, a broken connection or a body that cannot be read.
PayoutError(id) ==
  /\ Sent(id)
  /\ \/ UNCHANGED payout
     \/ payout' = [payout EXCEPT ![id] = "taken"]
  /\ request' = [request EXCEPT ![id] = "refunding"]
  /\ UNCHANGED <<ledgerVars, answer>>

\* The answer is written over whatever the row says.  An error of the update
\* is thrown away.
StoreAnswer(id) ==
  /\ request[id] = "storing"
  /\ request' = [request EXCEPT ![id] = "answered"]
  /\ UpdateTransactionStatus(id, answer[id]) \/ UNCHANGED ledgerVars
  /\ UNCHANGED <<answer, payout, tokenVars>>

\* Mutant: the status is not looked at.
RejectUnchecked(id) ==
  /\ Credit(txn[id].source, txn[id].asset, Refund(txn[id]))
  /\ SetStatus(id, "failed")

\* RejectWithdrawFiatTx: a row that is not pending is left alone.
Reject(id) ==
  IF txn[id].status = "pending" THEN RejectWithdrawTx(id) ELSE UNCHANGED ledgerVars

\* An error of the refund is thrown away.
RefundRefused(id) ==
  /\ request[id] \in {"refused", "refunding"}
  /\ request' = [request EXCEPT ![id] = IF @ = "refused" THEN "answered" ELSE "gaveUp"]
  /\ Reject(id) \/ UNCHANGED ledgerVars
  /\ UNCHANGED <<answer, payout, tokenVars>>

\* The server dies in the middle of its requests.  Those it has sent may have
\* reached Iris.
FiatCrash ==
  /\ \E reached \in SUBSET {id \in TxIds : call[id].step = "sending"} :
       payout' = [id \in TxIds |-> IF id \in reached THEN "taken" ELSE payout[id]]
  /\ request' = [id \in TxIds |-> IF request[id] = "none" \/ Finished(id) THEN request[id]
                                                                      ELSE "crashed"]
  /\ ForgetToken
  /\ UNCHANGED <<ledgerVars, answer>>

-----------------------------------------------------------------------------
(***************************************************************************)
(* Iris and the bank.                                                      *)
(***************************************************************************)
PayOut(id) ==
  /\ payout[id] = "taken"
  /\ payout' = [payout EXCEPT ![id] = "paid"]
  /\ UNCHANGED <<ledgerVars, request, answer, tokenVars>>

Bounce(id) ==
  /\ payout[id] = "taken"
  /\ payout' = [payout EXCEPT ![id] = "bounced"]
  /\ UNCHANGED <<ledgerVars, request, answer, tokenVars>>

-----------------------------------------------------------------------------
(***************************************************************************)
(* webhookUsecase.ProcessIrisNotification, one item of a callback.  A      *)
(* callback can come any number of times.  An item in another status, and  *)
(* one whose reference_no is not a transaction_id, is skipped; an error of *)
(* the database ends the callback with a 500 and Iris posts it again.      *)
(***************************************************************************)
Delivered(id) == Echoed /\ (CallbackWaits => Finished(id))

\* Mutant: a completed payout is recorded as failed.
SwappedCompleted(id) ==
  /\ payout[id] = "paid"
  /\ Delivered(id)
  /\ Reject(id)
  /\ UNCHANGED <<request, answer, payout, tokenVars>>

IrisCompleted(id) ==
  /\ payout[id] = "paid"
  /\ Delivered(id)
  /\ UpdateTransactionStatus(id, "success")
  /\ UNCHANGED <<request, answer, payout, tokenVars>>

\* Mutant: a failed payout only marks the row.
FailedWithoutRefund(id) ==
  /\ payout[id] = "bounced"
  /\ Delivered(id)
  /\ UpdateTransactionStatus(id, "failed")
  /\ UNCHANGED <<request, answer, payout, tokenVars>>

\* Mutant: the status is not recognised and the item is skipped.
FailedSkipped(id) ==
  /\ payout[id] = "bounced"
  /\ Delivered(id)
  /\ UNCHANGED fiatVars

IrisFailed(id) ==
  /\ payout[id] = "bounced"
  /\ Delivered(id)
  /\ Reject(id)
  /\ UNCHANGED <<request, answer, payout, tokenVars>>

-----------------------------------------------------------------------------
FiatInit ==
  /\ LedgerInit
  /\ TokenInit
  /\ request = [id \in TxIds |-> "none"]
  /\ answer = [id \in TxIds |-> "none"]
  /\ payout = [id \in TxIds |-> "none"]

TickInFlight ==
  /\ Tick
  /\ UNCHANGED <<ledgerVars, request, answer, payout>>

FiatStep ==
  \/ \E id \in TxIds :
       \/ Withdraw(id) \/ GetToken(id) \/ TokenError(id)
       \/ PayoutAnswered(id) \/ PayoutError(id)
       \/ StoreAnswer(id) \/ RefundRefused(id)
       \/ PayOut(id) \/ Bounce(id)
       \/ IrisCompleted(id) \/ IrisFailed(id)
  \/ TickInFlight

FiatNext == FiatStep \/ FiatCrash

FiatSpec == FiatInit /\ [][FiatNext]_fiatVars

\* A request that waits for an answer gets one, or an error after Timeout; one
\* that waits for the mutex gets it, for sync.Mutex starves nobody; one that has
\* its answer goes on.  And Iris posts a callback until it is answered 200.
FiatFairness ==
  \A id \in TxIds :
    /\ SF_fiatVars(GetToken(id) \/ TokenError(id))
    /\ WF_fiatVars(PayoutAnswered(id) \/ PayoutError(id))
    /\ WF_fiatVars(StoreAnswer(id) \/ RefundRefused(id))
    /\ WF_fiatVars(IrisCompleted(id)) /\ WF_fiatVars(IrisFailed(id))

FairFiatSpec == FiatSpec /\ FiatFairness

-----------------------------------------------------------------------------
(***************************************************************************)
(* Properties.                                                             *)
(***************************************************************************)
FiatTypeOK ==
  /\ LedgerTypeOK
  /\ TokenTypeOK
  /\ request \in [TxIds -> {"none", "paying", "storing", "refused", "refunding",
                            "answered", "gaveUp", "crashed"}]
  /\ answer \in [TxIds -> {"none", "pending", "success"}]
  /\ payout \in [TxIds -> {"none", "taken", "paid", "bounced"}]

\* A withdrawal never leaves its user richer than before: what was debited is
\* paid back at most once (NFR-SEC-005), however often Iris reports a failure.
NoGain == \A a \in Accounts : balance[a] <= Opening[a]

\* Unless a payout call ended in an error, every Rupiah that has left a wallet
\* is in a payout: the balances are those the rows account for.
AnsweredIsAccounted == (\A id \in TxIds : request[id] # "gaveUp") => Journal

Withdrawals == {id \in TxIds : IsType(id, "withdraw_fiat")}

\* A withdrawal is marked failed only if the money has not gone out and will
\* not, unless CreatePayout returned an error; it is marked success only if the
\* money has gone out.
StatusTellsPayout ==
  \A id \in Withdrawals :
    /\ RowStatus[id] = "failed" /\ request[id] # "gaveUp" => payout[id] \in {"none", "bounced"}
    /\ RowStatus[id] = "success" => payout[id] = "paid"

\* A payout that did not reach the bank account is refunded, whatever happened
\* to the request that asked for it.
BouncedIsRefunded ==
  \A id \in TxIds : payout[id] = "bounced" ~> RowStatus[id] = "failed"

\* A payout that reached the bank account is recorded as a success for good.
PaidIsRecorded ==
  \A id \in TxIds : payout[id] = "paid" ~> [](RowStatus[id] = "success")

\* No request hangs: not in the queue for the mutex of the Iris client, whatever
\* becomes of the requests ahead of it, and not behind an answer that never comes.
WithdrawalReturns ==
  \A id \in TxIds : request[id] = "paying" ~> Finished(id)
=============================================================================
